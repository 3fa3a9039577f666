--------------------------- MODULE RedisRecvProofs ---------------------------
(***************************************************************************)
(* The receive path of the Redis server that resets its descriptor after   *)
(* it waited, while each client waits for its reply before it sends on.    *)
(* Whatever the pieces a request comes in, and although the query buffer   *)
(* may move under the copies into it: a command runs with the name and the *)
(* key that were sent, and no copy hits a value that was given back.  When *)
(* requests are read as a whole, the values read are those that were sent. *)
(***************************************************************************)
EXTENDS RedisRecv, TLAPS

-----------------------------------------------------------------------------
(* The conditions                                                          *)

\* The descriptor is reset when the ring is empty, and a client sends its next
\* request when the one before is answered.
OneAtATime == ~ResetFirst /\ Pipeline = 1

\* The first n lines of a request are there when the first is reported.
LinesTogether(n) == Chunk >= n \/ Window >= n

\* A read returns all of a request.
WholeReads == MinRead >= ValueLen + 4 /\ ReadLen >= ValueLen + 4

\* A request is no longer than what a read asks for.
Fits == ReadLen >= ValueLen + 4

Setting == OneAtATime /\ LinesTogether(2) /\ Fits

\* No long script: EVAL drops its object behind the posted copy into it.
NoEval == \A c \in Clients : \A j \in 1 .. Len(Script[c]) : Script[c][j] # "eval"

WholeSetting == OneAtATime /\ LinesTogether(3) /\ WholeReads /\ NoEval

-----------------------------------------------------------------------------
(* The invariant                                                           *)

Kinds == {"set", "get", "eval", "block", "ping", "empty"}
CellType == Clients \X Nat \X Nat
Memory == CellType \cup {NUL}
RecvType == [type : {"recv"}, client : Clients, owner : Nat, from : Nat, to : Nat, size : Nat \ {0}]
MoveType == [type : {"move"}, client : Clients, owner : Nat, from : Nat, to : {0}, size : Nat \ {0}]
ValueType == [type : {"value"}, client : Clients, owner : Nat, from : Nat, to : {0},
              size : {ValueLen}, object : Objects]
TaskType == RecvType \cup MoveType \cup ValueType
UseType == [object : Objects \cup {NoObject}, value : Seq(Memory)]

Types ==
    /\ sent \in [Clients -> Nat] /\ answered \in [Clients -> Nat] /\ received \in [Clients -> Nat]
    /\ stream \in [Clients -> Seq(CellType)]
    /\ buf \in [Clients -> [Positions -> Memory]]
    /\ len \in [Clients -> Nat] /\ room \in [Clients -> Nat]
    /\ owner \in [Clients -> Nat] /\ qbPos \in [Clients -> Nat]
    /\ stage \in [Clients -> {"new", "inline", "short", "len", "bulk"}]
    /\ head \in [Clients -> Memory] /\ short \in [Clients -> Memory]
    /\ long \in [Clients -> Objects \cup {NoObject}]
    /\ descriptor \in [Clients -> Int]
    /\ status \in [Clients -> {"open", "blocked", "garbled", "closed"}]
    /\ tasks \in Seq(TaskType)
    /\ progress \in Nat
    /\ objects \in [Objects -> [1 .. ValueLen -> Memory]]
    /\ freed \subseteq Objects
    /\ db \in Objects \cup {NoObject}
    /\ used \in [Clients -> [object : Objects \cup {NoObject}, value : Seq(Memory)]]
    /\ pc \in {"idle", "drain", "loop", "exec", "reset", "trim", "terminate"}
    /\ cur \in Clients \cup {NoClient}

\* The request of c that is not answered, its size, and where it begins.
Owed(c) == sent[c] > answered[c]
Asked(c) == Script[c][sent[c]]
Size(c) == Len(Shape[Asked(c)])
Start(c) == Len(stream[c]) - (IF Owed(c) THEN Size(c) ELSE 0)

\* The cells of it that the parser has consumed.
At(c, place) == cur = c /\ pc = place
Served(c) == At(c, "exec") \/ At(c, "reset") \/ status[c] = "blocked"
Taken(c) ==
    IF stage[c] = "short" THEN 1
    ELSE IF stage[c] = "len" THEN 2
    ELSE IF stage[c] = "bulk" THEN 3
    ELSE IF Served(c) THEN Size(c) ELSE 0

Requests(c) ==
    /\ answered[c] <= sent[c] /\ sent[c] <= answered[c] + 1 /\ sent[c] <= Len(Script[c])
    /\ Owed(c) => /\ Size(c) <= Len(stream[c])
                  /\ \A i \in 1 .. Size(c) : stream[c][Start(c) + i] = Cell(c, sent[c], i)
    /\ stage[c] # "new" \/ Served(c) => Owed(c)
    /\ qbPos[c] <= len[c] /\ len[c] <= room[c] /\ received[c] <= Len(stream[c])
    /\ received[c] = Start(c) + Taken(c) + (len[c] - qbPos[c])
    /\ WholeReads => received[c] \in {Start(c), Len(stream[c])}

\* Where the thread is with c.
Places(c) ==
    /\ stage[c] # "inline"
    /\ qbPos[c] > 0 => cur = c /\ pc \notin {"idle", "drain"}
    /\ status[c] = "garbled" => stage[c] = "len"
    /\ status[c] = "blocked" => stage[c] = "new"
    /\ status[c] = "closed" => cur # c
    /\ At(c, "drain") => status[c] = "open" /\ Waiting(c) > 0 /\ room[c] - len[c] >= ReadLen
    /\ At(c, "exec") \/ At(c, "reset") => stage[c] = "new" /\ status[c] = "open"

\* What is known of the request while it is parsed and when its command runs.
Arguments(c) ==
    /\ stage[c] \in {"short", "len", "bulk"} \/ At(c, "exec") =>
          head[c] = Cell(c, sent[c], 1) /\ Asked(c) # "empty"
    /\ stage[c] \in {"len", "bulk"} \/ At(c, "exec") => short[c] = Cell(c, sent[c], 2)
    /\ stage[c] \in {"len", "bulk"} => HasValue(Asked(c))
    /\ At(c, "exec") /\ HasValue(Asked(c)) => long[c] = <<c, sent[c]>>

\* The query buffer may grow, but not without limit.
Room(c) == room[c] <= BufMax

\* Nothing in the ring is of a client that has closed, or leaves the buffer.
Lives(t) ==
    /\ status[t.client] # "closed"
    /\ t.to + t.size <= BufMax
    /\ t.type = "recv" => t.from + t.size <= Len(stream[t.client])
    /\ t.type # "recv" => t.from + t.size <= BufMax

Ring ==
    /\ \A k \in 1 .. Len(tasks) : Lives(tasks[k])
    /\ IF tasks = <<>> THEN progress = 0 ELSE progress < tasks[1].size

\* The cells in memory are cells that were sent.
Contents(c) ==
    /\ \A p \in Positions : buf[c][p] \in Range(stream[c]) \cup {NUL}
    /\ {head[c], short[c]} \subseteq Range(stream[c]) \cup {NUL}
    /\ descriptor[c] \in -1 .. BufMax

\* A request is read from the start of the buffer, and until its first line is
\* read nothing else is in the ring; what the descriptor reports is there.
FirstCopy(c) ==
    tasks # <<>> => LET t == tasks[1] IN
        /\ Len(tasks) = 1 /\ t.type = "recv" /\ t.client = c /\ t.owner = owner[c]
        /\ t.to = 0 /\ t.from = Start(c) /\ t.size = len[c]
        /\ descriptor[c] = -1 \/ (Chunk <= descriptor[c] + 1 /\ descriptor[c] + 1 <= progress)
Copied(c) ==
    \A k \in 0 .. len[c] - 1 : tasks = <<>> \/ k < progress =>
        buf[c][k] = stream[c][Start(c) + k + 1]
Fresh(c) ==
    stage[c] = "new" /\ len[c] > qbPos[c] =>
        At(c, "loop") /\ status[c] = "open" /\ qbPos[c] = 0 /\ FirstCopy(c) /\ Copied(c)

\* Where the short arguments are expected, there is nothing or they are.
Brings(c, p, cell) ==
    \A k \in 1 .. Len(tasks) : LET t == tasks[k] IN
        t.client = c =>
            /\ t.type = "recv"
            /\ t.to <= p /\ p < t.to + t.size => stream[c][t.from + (p - t.to) + 1] = cell
NoneOf(c) == \A k \in 1 .. Len(tasks) : tasks[k].client # c
Expecting(c) ==
    stage[c] = "short" =>
        /\ status[c] = "open"
        /\ len[c] = qbPos[c] => NoneOf(c) /\ (qbPos[c] = 0 => buf[c][0] = NUL)
        /\ len[c] > qbPos[c] =>
              /\ buf[c][qbPos[c]] \in {NUL, Cell(c, sent[c], 2)}
              /\ Brings(c, qbPos[c], Cell(c, sent[c], 2))
              /\ qbPos[c] > 0 => At(c, "loop") /\ buf[c][qbPos[c]] # NUL

ParseInv ==
    /\ Types /\ Ring
    /\ cur = NoClient <=> pc = "idle"
    /\ \A c \in Clients :
          /\ Requests(c) /\ Places(c) /\ Arguments(c) /\ Room(c) /\ Contents(c)
          /\ Fresh(c) /\ Expecting(c)

-----------------------------------------------------------------------------
(* The objects                                                             *)

\* Objects of requests whose command has run.
Past(o) ==
    o[2] <= answered[o[1]] \/ (o[2] = answered[o[1]] + 1 /\ At(o[1], "reset"))

NoValues == \A k \in 1 .. Len(tasks) : tasks[k].type # "value"

ObjectInv ==
    /\ db # NoObject => Past(db) /\ db \notin freed
    /\ \A o \in freed : Past(o)
    /\ \A k \in 1 .. Len(tasks) : tasks[k].type = "value" => tasks[k].object \notin freed
    /\ \A c \in Clients :
          /\ At(c, "loop") /\ len[c] > qbPos[c] /\ status[c] = "open" => NoValues
          /\ At(c, "exec") =>
                \A k \in 1 .. Len(tasks) : tasks[k].type = "value" =>
                    HasValue(Asked(c)) /\ tasks[k].object = long[c]

-----------------------------------------------------------------------------
(* The values                                                              *)

\* A request that is being parsed was read as a whole: it is in the buffer, or
\* on its way there, and its lines are there.
Partial(c) == stage[c] # "new" \/ len[c] > qbPos[c]
Lines(c) == \A k \in 0 .. 2 : k < len[c] => buf[c][k] = Cell(c, sent[c], k + 1)
Whole(c) ==
    /\ Partial(c) => /\ At(c, "loop") /\ status[c] = "open"
                     /\ len[c] = Size(c) /\ qbPos[c] = Taken(c) /\ FirstCopy(c) /\ Copied(c)
    /\ stage[c] # "new" => Lines(c)

\* Cells of the copy into object o that are not moved yet are in the buffer, or
\* will be when the receive in front of it is done.
Sourced(k) ==
    LET t == tasks[k]
        o == t.object
        c == t.client
        first == tasks[1]
    IN  /\ t.from = 3 /\ o[1] = c /\ o[2] <= sent[c]
        /\ k = 2 \/ k = 1
        /\ k = 2 => /\ first.type = "recv" /\ first.client = c /\ first.to = 0
                    /\ first.size >= ValueLen + 3
                    /\ \A i \in 1 .. ValueLen :
                          /\ stream[c][first.from + i + 3] = ValueOf(o)[i]
                          /\ i + 2 < progress => buf[c][i + 2] = ValueOf(o)[i]
        /\ k = 1 => \A i \in 1 .. ValueLen :
                       IF i <= progress THEN objects[o][i] = ValueOf(o)[i]
                       ELSE buf[c][i + 2] = ValueOf(o)[i]

\* Values of objects nothing is copied to any more.
Made(o) == o = db \/ \E c \in Clients : At(c, "exec") /\ HasValue(Asked(c)) /\ o = long[c]
Filled(o) ==
    (\A k \in 1 .. Len(tasks) : tasks[k].type = "value" => tasks[k].object # o) =>
        objects[o] = ValueOf(o)

Sources == \A k \in 1 .. Len(tasks) :
    tasks[k].type # "move" /\ (tasks[k].type = "value" => Sourced(k))
Stored == \A o \in Objects : Made(o) => Filled(o)

\* The query buffer grows once, before anything is read: no copy is left behind.
Steady ==
    /\ \A k \in 1 .. Len(tasks) : owner[tasks[k].client] = tasks[k].owner
    /\ \A c \in Clients :
          \/ room[c] = 0 /\ \A k \in 1 .. Len(tasks) : tasks[k].client # c
          \/ room[c] = ReadLen + Prealloc

ValueInv == (\A c \in Clients : Whole(c)) /\ Steady /\ Sources /\ Stored /\ GetReturnsSet

-----------------------------------------------------------------------------
(* Constants and requests                                                  *)

LEMMA Constants ==
    /\ \A c \in Clients : Script[c] \in Seq(Kinds)
    /\ ValueLen \in Nat \ {0} /\ Window \in Nat \ {0} /\ Chunk \in Nat \ {0}
    /\ Pipeline \in Nat \ {0} /\ MinRead \in Nat \ {0} /\ ReadLen \in Nat \ {0}
    /\ Prealloc \in Nat /\ ResetFirst \in BOOLEAN /\ AsyncTrim \in BOOLEAN
    /\ NoClient \notin Clients /\ NUL \notin CellType /\ NoObject \notin Clients \X Nat
    /\ BufMax \in Nat /\ BufMax = 2 * ReadLen + Prealloc
<1>1. /\ \A c \in Clients : Script[c] \in Seq(Kinds)
      /\ NoClient \notin Clients /\ NUL \notin CellType /\ NoObject \notin Clients \X Nat
  BY RedisAssumption DEF RedisAssumption, Kinds, CellType
<1>2. /\ ValueLen \in Nat \ {0} /\ Window \in Nat \ {0} /\ Chunk \in Nat \ {0}
      /\ Pipeline \in Nat \ {0} /\ MinRead \in Nat \ {0} /\ ReadLen \in Nat \ {0}
      /\ Prealloc \in Nat /\ ResetFirst \in BOOLEAN /\ AsyncTrim \in BOOLEAN
  BY RedisAssumption DEF RedisAssumption
<1> QED
  BY <1>1, <1>2 DEF BufMax

LEMMA Numbers ==
    /\ ValueLen \in Nat /\ ValueLen >= 1 /\ Window \in Nat /\ Window >= 1
    /\ Chunk \in Nat /\ Chunk >= 1 /\ MinRead \in Nat /\ MinRead >= 1
    /\ ReadLen \in Nat /\ ReadLen >= 1 /\ Prealloc \in Nat
    /\ BufMax \in Nat /\ BufMax = 2 * ReadLen + Prealloc
  BY Constants

LEMMA Below == ASSUME NEW a \in Nat, NEW b \in Nat, a <= b PROVE a - 1 \in -1 .. b
  OBVIOUS

LEMMA Framed ==
    ASSUME NEW S, NEW u \in S, NEW v \in S, NEW w \in S, NEW e \in S,
           NEW values \in Seq(S), NEW all, all = (<<u, v, w>> \o values) \o <<e>>
    PROVE  /\ Len(all) = Len(values) + 4
           /\ all[1] = u /\ all[2] = v /\ all[3] = w
<1>1. PICK front : front = <<u, v, w>> \o values
  OBVIOUS
<1>2. front \in Seq(S) /\ Len(front) = Len(values) + 3
  BY <1>1
<1>3. front[1] = u /\ front[2] = v /\ front[3] = w
  BY <1>1
<1>4. all = front \o <<e>>
  BY <1>1
<1> HIDE <1>1
<1>5. Len(all) = Len(front) + 1
  BY <1>2, <1>4
<1>6. all[1] = front[1] /\ all[2] = front[2] /\ all[3] = front[3]
  BY <1>2, <1>4
<1> QED
  BY <1>2, <1>3, <1>5, <1>6

LEMMA LongShape ==
    ASSUME NEW k \in {"set", "eval"}
    PROVE  /\ Len(Shape[k]) = ValueLen + 4
           /\ Shape[k][1] = "M" /\ Shape[k][2] = "S" /\ Shape[k][3] = "L"
<1>1. PICK S : S = {"M", "S", "L", "v", "E"}
  OBVIOUS
<1>2. PICK n \in Nat : n = ValueLen
  BY Numbers
<1>3. PICK values : values = [i \in 1 .. n |-> "v"]
  OBVIOUS
<1>4. values \in Seq(S) /\ Len(values) = n
  <2>1. values \in [1 .. n -> S]
    BY <1>1, <1>3
  <2> QED
    BY <2>1
<1>5. Shape[k] = (<<"M", "S", "L">> \o values) \o <<"E">>
  BY <1>2, <1>3 DEF Shape
<1>6. "M" \in S /\ "S" \in S /\ "L" \in S /\ "E" \in S
  BY <1>1
<1> QED
  BY <1>2, <1>4, <1>5, <1>6, Framed

\* What a request of each kind is made of.
LEMMA Shapes ==
    ASSUME NEW k \in Kinds
    PROVE  /\ Len(Shape[k]) \in Nat /\ 1 <= Len(Shape[k]) /\ Len(Shape[k]) <= ValueLen + 4
           /\ k = "empty" => Len(Shape[k]) = 1 /\ Shape[k][1] = "E"
           /\ k # "empty" => Len(Shape[k]) >= 2 /\ Shape[k][1] = "M" /\ Shape[k][2] = "S"
           /\ HasValue(k) => Len(Shape[k]) = ValueLen + 4
           /\ k # "empty" /\ ~HasValue(k) => Len(Shape[k]) = 2
<1>1. /\ Shape["get"] = <<"M", "S">> /\ Shape["block"] = <<"M", "S">>
      /\ Shape["ping"] = <<"M", "S">> /\ Shape["empty"] = <<"E">>
  BY DEF Shape
<1>2. CASE k \in {"set", "eval"}
  <2>1. HasValue(k) /\ k # "empty"
    BY <1>2 DEF HasValue
  <2> QED
    BY <1>2, <2>1, LongShape, Numbers
<1>3. CASE k \in {"get", "block", "ping"}
  <2>1. ~HasValue(k) /\ k # "empty"
    BY <1>3 DEF HasValue
  <2>2. Shape[k] = <<"M", "S">>
    BY <1>1, <1>3
  <2> QED
    BY <2>1, <2>2, Numbers
<1>4. CASE k = "empty"
  <2>1. ~HasValue(k) /\ Shape[k] = <<"E">>
    BY <1>1, <1>4 DEF HasValue
  <2> QED
    BY <1>4, <2>1, Numbers
<1> QED
  BY <1>2, <1>3, <1>4 DEF Kinds

LEMMA CellParts ==
    ASSUME NEW c \in Clients, NEW j \in Nat, NEW i \in Nat
    PROVE  /\ Cell(c, j, i) \in CellType /\ Cell(c, j, i) # NUL
           /\ Kind(Cell(c, j, i)) = Script[c][j]
           /\ Type(Cell(c, j, i)) = Shape[Script[c][j]][i]
<1>1. Cell(c, j, i) \in CellType
  BY DEF Cell, CellType
<1>2. Cell(c, j, i) # NUL
  BY <1>1, Constants
<1> QED
  BY <1>1, <1>2 DEF Type, Kind, Cell

LEMMA NotSent == Type(NUL) = "NUL"
  BY DEF Type

-----------------------------------------------------------------------------
(* What the invariant says of a client                                     *)

LEMMA Known ==
    ASSUME ParseInv, NEW c \in Clients
    PROVE  /\ Types /\ Ring
           /\ Requests(c) /\ Places(c) /\ Arguments(c) /\ Room(c) /\ Contents(c)
           /\ Fresh(c) /\ Expecting(c)
           /\ sent[c] \in Nat /\ answered[c] \in Nat /\ received[c] \in Nat
           /\ stream[c] \in Seq(CellType) /\ Len(stream[c]) \in Nat
           /\ len[c] \in Nat /\ room[c] \in Nat /\ qbPos[c] \in Nat
           /\ descriptor[c] \in Int
           /\ stage[c] \in {"new", "inline", "short", "len", "bulk"}
           /\ status[c] \in {"open", "blocked", "garbled", "closed"}
           /\ buf[c] \in [Positions -> Memory]
<1>1. /\ Types /\ Ring
      /\ Requests(c) /\ Places(c) /\ Arguments(c) /\ Room(c) /\ Contents(c)
      /\ Fresh(c) /\ Expecting(c)
  BY DEF ParseInv
<1>2. stream[c] \in Seq(CellType) /\ Len(stream[c]) \in Nat
  BY <1>1 DEF Types
<1>3. /\ sent[c] \in Nat /\ answered[c] \in Nat /\ received[c] \in Nat
      /\ len[c] \in Nat /\ room[c] \in Nat /\ qbPos[c] \in Nat
      /\ descriptor[c] \in Int
      /\ stage[c] \in {"new", "inline", "short", "len", "bulk"}
      /\ status[c] \in {"open", "blocked", "garbled", "closed"}
      /\ buf[c] \in [Positions -> Memory]
  BY <1>1 DEF Types
<1> QED
  BY <1>1, <1>2, <1>3

\* The request that is not answered.
LEMMA Owing ==
    ASSUME ParseInv, NEW c \in Clients, Owed(c)
    PROVE  /\ sent[c] = answered[c] + 1 /\ sent[c] \in 1 .. Len(Script[c])
           /\ Asked(c) \in Kinds /\ Size(c) \in Nat
           /\ 1 <= Size(c) /\ Size(c) <= ValueLen + 4
           /\ Asked(c) # "empty" => 2 <= Size(c)
           /\ HasValue(Asked(c)) => Size(c) = ValueLen + 4
           /\ Asked(c) # "empty" /\ ~HasValue(Asked(c)) => Size(c) = 2
           /\ Asked(c) = "empty" => Size(c) = 1
           /\ Start(c) = Len(stream[c]) - Size(c) /\ Start(c) \in Nat
           /\ \A i \in 1 .. Size(c) : stream[c][Start(c) + i] = Cell(c, sent[c], i)
           /\ <<c, sent[c]>> \in Objects
<1>1. /\ sent[c] \in Nat /\ answered[c] \in Nat /\ sent[c] <= answered[c] + 1
      /\ sent[c] <= Len(Script[c]) /\ sent[c] > answered[c]
      /\ Size(c) <= Len(stream[c]) /\ Len(stream[c]) \in Nat
      /\ \A i \in 1 .. Size(c) : stream[c][Start(c) + i] = Cell(c, sent[c], i)
  BY Known DEF Requests, Owed
<1>2. Script[c] \in Seq(Kinds)
  BY Constants
<1>3. Len(Script[c]) \in Nat
  BY <1>2
<1>4. sent[c] = answered[c] + 1 /\ sent[c] \in 1 .. Len(Script[c])
  BY <1>1, <1>3
<1>5. Asked(c) \in Kinds
  BY <1>2, <1>4 DEF Asked
<1>6. /\ Size(c) \in Nat
      /\ 1 <= Size(c) /\ Size(c) <= ValueLen + 4
      /\ Asked(c) # "empty" => 2 <= Size(c)
      /\ HasValue(Asked(c)) => Size(c) = ValueLen + 4
      /\ Asked(c) # "empty" /\ ~HasValue(Asked(c)) => Size(c) = 2
      /\ Asked(c) = "empty" => Size(c) = 1
  BY <1>5, Shapes DEF Size
<1>7. Start(c) = Len(stream[c]) - Size(c)
  BY DEF Start
<1>8. Start(c) \in Nat
  BY <1>1, <1>6, <1>7
<1>9. <<c, sent[c]>> \in Objects
  BY <1>4 DEF Objects
<1> QED
  BY <1>1, <1>4, <1>5, <1>6, <1>7, <1>8, <1>9

\* The counters of a client.
LEMMA Counting ==
    ASSUME ParseInv, NEW c \in Clients
    PROVE  /\ Start(c) \in Nat /\ Taken(c) \in Nat
           /\ qbPos[c] <= len[c] /\ received[c] <= Len(stream[c])
           /\ received[c] = Start(c) + Taken(c) + (len[c] - qbPos[c])
           /\ ~Owed(c) => /\ Start(c) = Len(stream[c]) /\ Taken(c) = 0
                          /\ len[c] = qbPos[c] /\ received[c] = Len(stream[c])
           /\ Owed(c) => Start(c) + Size(c) = Len(stream[c])
           /\ stage[c] \in {"short", "len", "bulk"} => Owed(c)
           /\ Served(c) /\ stage[c] = "new" => Owed(c) /\ Taken(c) = Size(c) /\ len[c] = qbPos[c]
<1>1. /\ qbPos[c] <= len[c] /\ received[c] <= Len(stream[c]) /\ received[c] \in Nat
      /\ received[c] = Start(c) + Taken(c) + (len[c] - qbPos[c])
      /\ stage[c] # "new" \/ Served(c) => Owed(c)
      /\ Len(stream[c]) \in Nat /\ len[c] \in Nat /\ qbPos[c] \in Nat
      /\ stage[c] \in {"new", "short", "len", "bulk"}
  BY Known DEF Requests, Places
<1>2. CASE ~Owed(c)
  <2>1. Start(c) = Len(stream[c])
    BY <1>1, <1>2 DEF Start
  <2>2. Taken(c) = 0
    BY <1>1, <1>2 DEF Taken
  <2>3. len[c] = qbPos[c] /\ received[c] = Len(stream[c])
    BY <1>1, <2>1, <2>2
  <2> QED
    BY <1>1, <1>2, <2>1, <2>2, <2>3
<1>3. CASE Owed(c)
  <2>1. /\ Size(c) \in Nat /\ 1 <= Size(c) /\ Start(c) \in Nat
        /\ Start(c) + Size(c) = Len(stream[c])
    <3>1. /\ Size(c) \in Nat /\ 1 <= Size(c) /\ Start(c) \in Nat
          /\ Start(c) = Len(stream[c]) - Size(c)
      BY <1>3, Owing
    <3> QED
      BY <1>1, <3>1
  <2>2. Taken(c) \in Nat
    BY <1>1, <2>1 DEF Taken
  <2>3. Served(c) /\ stage[c] = "new" => Taken(c) = Size(c) /\ len[c] = qbPos[c]
    <3>1. Served(c) /\ stage[c] = "new" => Taken(c) = Size(c)
      BY DEF Taken
    <3> QED
      BY <1>1, <2>1, <3>1
  <2> QED
    BY <1>1, <1>3, <2>1, <2>2, <2>3
<1> QED
  BY <1>2, <1>3

-----------------------------------------------------------------------------
(* Clients a step is not about                                             *)

\* Nothing of client x changes, and nothing joins the ring for it; when the
\* server handles x, a step of another party leaves the thread where it is.
Untouched(x) ==
    /\ sent'[x] = sent[x] /\ stream'[x] = stream[x] /\ answered'[x] = answered[x]
    /\ received'[x] = received[x] /\ buf'[x] = buf[x] /\ len'[x] = len[x]
    /\ room'[x] = room[x] /\ owner'[x] = owner[x]
    /\ qbPos'[x] = qbPos[x] /\ stage'[x] = stage[x]
    /\ head'[x] = head[x] /\ short'[x] = short[x] /\ long'[x] = long[x]
    /\ descriptor'[x] = descriptor[x] /\ status'[x] = status[x]
    /\ \/ cur # x /\ cur' # x
       \/ /\ cur' = cur /\ pc' = pc
          /\ UNCHANGED <<tasks, progress>> \/ (tasks # <<>> /\ tasks[1].client # x)
    /\ \A k \in 1 .. Len(tasks') :
          tasks'[k].client = x => \E l \in 1 .. Len(tasks) : tasks'[k] = tasks[l]

LEMMA Others ==
    ASSUME ParseInv, NEW x \in Clients, Untouched(x)
    PROVE  /\ Requests(x)' /\ Places(x)' /\ Arguments(x)' /\ Room(x)' /\ Contents(x)'
           /\ Fresh(x)' /\ Expecting(x)'
<1>1. /\ Requests(x) /\ Places(x) /\ Arguments(x) /\ Room(x) /\ Contents(x)
      /\ Fresh(x) /\ Expecting(x)
  BY Known
<1>2. /\ Owed(x)' = Owed(x) /\ Asked(x)' = Asked(x) /\ Size(x)' = Size(x)
      /\ Start(x)' = Start(x)
      /\ \A place : At(x, place)' = At(x, place)
  BY DEF Untouched, Owed, Asked, Size, Start, At
<1>3. Served(x)' = Served(x) /\ Taken(x)' = Taken(x)
  BY <1>2 DEF Untouched, Served, Taken
<1>4. Requests(x)'
  BY <1>1, <1>2, <1>3 DEF Untouched, Requests
<1>5. Places(x)'
  <2>1. \/ cur # x /\ cur' # x
        \/ cur' = cur /\ pc' = pc
    BY DEF Untouched
  <2> QED
    BY <1>1, <2>1 DEF Untouched, Places, Waiting, At
<1>6. Arguments(x)'
  BY <1>1, <1>2 DEF Untouched, Arguments
<1>7. Room(x)'
  BY <1>1 DEF Untouched, Room
<1>8. Contents(x)'
  BY <1>1 DEF Untouched, Contents
<1>9. Fresh(x)'
  <2>1. CASE ~At(x, "loop")
    BY <1>1, <1>2, <2>1 DEF Untouched, Fresh
  <2>2. CASE At(x, "loop") /\ UNCHANGED <<tasks, progress>>
    <3>1. FirstCopy(x)' = FirstCopy(x) /\ Copied(x)' = Copied(x)
      BY <1>2, <2>2 DEF Untouched, FirstCopy, Copied
    <3> QED
      BY <1>1, <1>2, <3>1 DEF Untouched, Fresh
  <2>3. CASE At(x, "loop") /\ tasks # <<>> /\ tasks[1].client # x
    <3>1. ~FirstCopy(x)
      BY <2>3 DEF FirstCopy
    <3> QED
      BY <1>1, <1>2, <3>1 DEF Untouched, Fresh
  <2> QED
    BY <2>1, <2>2, <2>3 DEF Untouched, At
<1>10. Expecting(x)'
  <2>1. ASSUME stage[x] = "short" PROVE Expecting(x)'
    <3>1. NoneOf(x) => NoneOf(x)'
      BY DEF NoneOf, Untouched
    <3>2. \A p, cell : Brings(x, p, cell) => Brings(x, p, cell)'
      BY DEF Brings, Untouched
    <3> QED
      BY <1>1, <1>2, <2>1, <3>1, <3>2 DEF Untouched, Expecting
  <2> QED
    BY <2>1 DEF Untouched, Expecting
<1> QED
  BY <1>4, <1>5, <1>6, <1>7, <1>8, <1>9, <1>10

-----------------------------------------------------------------------------
(* The ring                                                                *)

LEMMA TaskParts ==
    ASSUME NEW t \in TaskType
    PROVE  /\ t.client \in Clients /\ t.owner \in Nat /\ t.from \in Nat /\ t.to \in Nat
           /\ t.size \in Nat /\ t.size >= 1 /\ t.type \in {"recv", "move", "value"}
           /\ t.type # "recv" => t.to = 0
           /\ t.type = "value" => t.size = ValueLen /\ t.object \in Objects
<1>1. CASE t \in RecvType
  BY <1>1 DEF RecvType
<1>2. CASE t \in MoveType
  BY <1>2 DEF MoveType
<1>3. CASE t \in ValueType
  BY <1>3, Numbers DEF ValueType
<1> QED
  BY <1>1, <1>2, <1>3 DEF TaskType

LEMMA TaskOf ==
    ASSUME ParseInv, NEW k \in 1 .. Len(tasks)
    PROVE  tasks[k] \in TaskType /\ Lives(tasks[k]) /\ tasks \in Seq(TaskType)
  BY DEF ParseInv, Types, Ring

\* The ring stays right when what it refers to stays.
LEMMA LivesOn ==
    ASSUME NEW t \in TaskType, Lives(t),
           status'[t.client] # "closed",
           NEW m \in Nat, NEW n \in Nat, m = Len(stream[t.client]), n = Len(stream'[t.client]),
           m <= n
    PROVE  Lives(t)'
<1>1. /\ t.to + t.size <= BufMax
      /\ t.type = "recv" => t.from + t.size <= m
      /\ t.type # "recv" => t.from + t.size <= BufMax
  BY DEF Lives
<1>2. t.type = "recv" => t.from + t.size <= n
  BY <1>1, TaskParts
<1> QED
  BY <1>1, <1>2 DEF Lives

LEMMA RingStays ==
    ASSUME ParseInv, UNCHANGED <<tasks, progress>>, stream' \in [Clients -> Seq(CellType)],
           \A x \in Clients : NoneOf(x) \/
              (status'[x] # "closed" /\ Len(stream[x]) <= Len(stream'[x]))
    PROVE  Ring'
<1>1. ASSUME NEW k \in 1 .. Len(tasks) PROVE Lives(tasks[k])'
  <2>1. tasks[k] \in TaskType /\ Lives(tasks[k])
    BY TaskOf
  <2>2. PICK x \in Clients : x = tasks[k].client
    BY <2>1, TaskParts
  <2>3. ~NoneOf(x)
    BY <2>2 DEF NoneOf
  <2>4. status'[x] # "closed" /\ Len(stream[x]) <= Len(stream'[x])
    BY <2>3
  <2>5. Len(stream[x]) \in Nat /\ Len(stream'[x]) \in Nat
    BY Known
  <2>6. PICK t \in TaskType : t = tasks[k]
    BY <2>1
  <2>7. Lives(t)'
    BY <2>1, <2>2, <2>4, <2>5, <2>6, LivesOn
  <2> QED
    BY <2>6, <2>7 DEF Lives
<1> QED
  BY <1>1 DEF ParseInv, Ring

LEMMA RingPosted ==
    ASSUME ParseInv, NEW t \in TaskType, tasks' = Append(tasks, t), progress' = progress,
           UNCHANGED <<stream, owner, status>>, Lives(t)
    PROVE  /\ Ring' /\ tasks' \in Seq(TaskType) /\ Len(tasks') = Len(tasks) + 1
           /\ tasks'[Len(tasks) + 1] = t
           /\ \A k \in 1 .. Len(tasks) : tasks'[k] = tasks[k]
<1>1. tasks \in Seq(TaskType) /\ Ring /\ Len(tasks) \in Nat
  BY DEF ParseInv, Types
<1>2. /\ tasks' \in Seq(TaskType) /\ Len(tasks') = Len(tasks) + 1
      /\ tasks'[Len(tasks) + 1] = t
      /\ \A k \in 1 .. Len(tasks) : tasks'[k] = tasks[k]
  BY <1>1
<1>3. \A k \in 1 .. Len(tasks') : Lives(tasks'[k])
  BY <1>1, <1>2 DEF Ring
<1>4. \A k \in 1 .. Len(tasks') : Lives(tasks[k])' <=> Lives(tasks'[k])
  BY DEF Lives
<1>5. tasks' # <<>> /\ progress' < tasks'[1].size
  <2>1. CASE tasks = <<>>
    BY <1>1, <1>2, <2>1, TaskParts DEF Ring
  <2>2. CASE tasks # <<>>
    BY <1>1, <1>2, <2>2 DEF Ring
  <2> QED
    BY <2>1, <2>2
<1> QED
  BY <1>2, <1>3, <1>4, <1>5 DEF Ring

\* What is left to show of a step of the server for client c.
ClientInv(c) ==
    /\ Requests(c) /\ Places(c) /\ Arguments(c) /\ Room(c) /\ Contents(c)
    /\ Fresh(c) /\ Expecting(c)

LEMMA Together ==
    ASSUME ParseInv, NEW c \in Clients, \A x \in Clients : x # c => Untouched(x),
           Types', Ring', (cur = NoClient <=> pc = "idle")', ClientInv(c)'
    PROVE  ParseInv'
<1>1. ASSUME NEW x \in Clients PROVE ClientInv(x)'
  BY Others DEF ClientInv
<1> QED
  BY <1>1 DEF ParseInv, ClientInv

-----------------------------------------------------------------------------
(* The steps of the parser and of the ring                                 *)

LEMMA ParseInit == Init => ParseInv
<1> SUFFICES ASSUME Init PROVE ParseInv
  OBVIOUS
<1>1. Types
  BY Constants DEF Init, Types, Memory
<1>2. Ring
  BY DEF Init, Ring
<1>3. cur = NoClient <=> pc = "idle"
  BY DEF Init
<1>4. ASSUME NEW c \in Clients PROVE ClientInv(c)
  <2>1. /\ stream[c] = <<>> /\ Len(stream[c]) = 0 /\ sent[c] = 0 /\ answered[c] = 0
        /\ received[c] = 0 /\ len[c] = 0 /\ room[c] = 0 /\ qbPos[c] = 0 /\ stage[c] = "new"
        /\ status[c] = "open" /\ descriptor[c] = -1 /\ head[c] = NUL /\ short[c] = NUL
        /\ tasks = <<>> /\ cur = NoClient /\ pc = "idle"
        /\ \A p \in Positions : buf[c][p] = NUL
    BY DEF Init
  <2>2. ~Owed(c) /\ Start(c) = 0
    BY <2>1 DEF Owed, Start
  <2>3. \A place : ~At(c, place)
    BY <2>1, Constants DEF At
  <2>4. ~Served(c) /\ Taken(c) = 0
    BY <2>1, <2>3 DEF Served, Taken
  <2>5. Len(Script[c]) \in Nat
    BY Constants
  <2>6. Requests(c)
    BY <2>1, <2>2, <2>4, <2>5 DEF Requests
  <2>7. Places(c)
    BY <2>1, <2>3 DEF Places
  <2>8. Arguments(c)
    BY <2>1, <2>3 DEF Arguments
  <2>9. Room(c)
    BY <2>1, Numbers DEF Room
  <2>10. Contents(c)
    BY <2>1, Numbers DEF Contents
  <2>11. Fresh(c)
    BY <2>1 DEF Fresh
  <2>12. Expecting(c)
    BY <2>1 DEF Expecting
  <2> QED
    BY <2>6, <2>7, <2>8, <2>9, <2>10, <2>11, <2>12 DEF ClientInv
<1> QED
  BY <1>1, <1>2, <1>3, <1>4 DEF ParseInv, ClientInv

LEMMA Joined ==
    ASSUME NEW S, NEW u \in Seq(S), NEW v \in Seq(S)
    PROVE  /\ u \o v \in Seq(S) /\ Len(u \o v) = Len(u) + Len(v)
           /\ \A i \in 1 .. Len(v) : (u \o v)[Len(u) + i] = v[i]
           /\ \A i \in 1 .. Len(u) : (u \o v)[i] = u[i]
  OBVIOUS

LEMMA Requested ==
    ASSUME NEW c \in Clients, NEW j \in 1 .. Len(Script[c]),
           NEW size, size = Len(Shape[Script[c][j]])
    PROVE  /\ size \in Nat /\ Request(c, j) \in Seq(CellType) /\ Len(Request(c, j)) = size
           /\ \A i \in 1 .. size : Request(c, j)[i] = Cell(c, j, i)
<1>1. Script[c] \in Seq(Kinds) /\ j \in Nat
  BY Constants
<1>2. Script[c][j] \in Kinds
  BY <1>1
<1>3. size \in Nat
  BY <1>2, Shapes
<1>4. Request(c, j) = [i \in 1 .. size |-> Cell(c, j, i)]
  BY DEF Request
<1>5. \A i \in 1 .. size : Cell(c, j, i) \in CellType
  BY <1>1, <1>3, CellParts
<1>6. Request(c, j) \in [1 .. size -> CellType]
  BY ONLY <1>4, <1>5
<1>7. Request(c, j) \in Seq(CellType)
  BY ONLY <1>3, <1>6
<1>8. Len(Request(c, j)) = size
  BY ONLY <1>3, <1>6
<1> QED
  BY <1>3, <1>4, <1>7, <1>8

\* The ring holds nothing for a client that is closed.
LEMMA NoneOfClosed ==
    ASSUME ParseInv, NEW x \in Clients, status[x] = "closed"
    PROVE  NoneOf(x)
  BY TaskOf DEF NoneOf, Lives

\* The ring of a step that leaves it, the buffers' allocations and the wire alone.
LEMMA RingSame ==
    ASSUME ParseInv, UNCHANGED <<tasks, progress, owner, stream>>,
           \A x \in Clients : status'[x] = "closed" => status[x] = "closed" \/ NoneOf(x)
    PROVE  Ring'
<1>1. stream' \in [Clients -> Seq(CellType)]
  BY DEF ParseInv, Types
<1>2. ASSUME NEW x \in Clients
      PROVE  NoneOf(x) \/
              (status'[x] # "closed" /\ Len(stream[x]) <= Len(stream'[x]))
  BY Known, NoneOfClosed
<1> QED
  BY <1>1, <1>2, RingStays

LEMMA SendStep ==
    ASSUME ParseInv, Setting, NEW c \in Clients, ClientSend(c)
    PROVE  ParseInv'
<1>j. PICK j \in Nat : j = sent[c] + 1
  BY Known
<1>s. PICK size : size = Len(Shape[Script[c][j]])
  OBVIOUS
<1>1. /\ j = answered[c] + 1 /\ j \in 1 .. Len(Script[c]) /\ ~Owed(c) /\ sent[c] \in Nat
  <2>1. /\ sent[c] < Len(Script[c]) /\ sent[c] - answered[c] < 1
        /\ sent[c] \in Nat /\ answered[c] \in Nat /\ answered[c] <= sent[c]
    BY Known DEF ClientSend, Setting, OneAtATime, Requests
  <2>2. Script[c] \in Seq(Kinds)
    BY Constants
  <2>3. Len(Script[c]) \in Nat
    BY <2>2
  <2> QED
    BY <1>j, <2>1, <2>3 DEF Owed
<1>2. /\ stream'[c] = stream[c] \o Request(c, j) /\ sent'[c] = j
      /\ \A x \in Clients : x # c => stream'[x] = stream[x] /\ sent'[x] = sent[x]
      /\ stream' \in [Clients -> Seq(CellType)] => Types'
  BY <1>j DEF ParseInv, Types, ClientSend, clientVars, taskVars, storeVars
<1>3. /\ stream'[c] \in Seq(CellType) /\ size \in Nat /\ Len(stream'[c]) = Len(stream[c]) + size
      /\ \A i \in 1 .. size : stream'[c][Len(stream[c]) + i] = Cell(c, j, i)
      /\ Range(stream[c]) \subseteq Range(stream'[c])
  <2>1. stream[c] \in Seq(CellType)
    BY Known
  <2>2. PICK old \in Seq(CellType) : old = stream[c]
    BY <2>1
  <2>3. PICK request \in Seq(CellType) :
            request = Request(c, j) /\ Len(request) = size /\ size \in Nat
    BY <1>1, <1>s, Requested
  <2>4. \A i \in 1 .. size : request[i] = Cell(c, j, i)
    BY <1>1, <1>s, <2>3, Requested
  <2>5. PICK new : new = stream'[c] /\ new = old \o request
    BY <1>2, <2>2, <2>3
  <2>6. /\ new \in Seq(CellType) /\ Len(new) = Len(old) + Len(request)
        /\ \A i \in 1 .. Len(request) : new[Len(old) + i] = request[i]
        /\ \A i \in 1 .. Len(old) : new[i] = old[i]
    BY <2>5, Joined
  <2>7. ASSUME NEW i \in 1 .. Len(old) PROVE old[i] \in Range(new)
    <3>1. i \in 1 .. Len(new)
      BY <2>3, <2>6
    <3>2. new \in Seq(CellType) /\ i \in 1 .. Len(new) /\ new[i] = old[i]
      BY <2>6, <3>1
    <3> QED
      BY ONLY <3>2 DEF Range
  <2>8. Range(old) \subseteq Range(new)
    BY <2>7 DEF Range
  <2> QED
    BY <2>2, <2>3, <2>4, <2>5, <2>6, <2>8
<1>4. Types'
  <2>1. stream' = [stream EXCEPT ![c] = stream'[c]] /\ stream \in [Clients -> Seq(CellType)]
    BY <1>2 DEF ParseInv, Types, ClientSend
  <2> QED
    BY <1>2, <1>3, <2>1
<1>5. UNCHANGED <<answered, received, clientVars, taskVars, storeVars, pc, cur>>
  BY DEF ClientSend
<1>6. Ring'
  <2>1. ASSUME NEW x \in Clients PROVE Len(stream[x]) <= Len(stream'[x])
    <3>1. Len(stream[x]) \in Nat
      BY Known
    <3>2. CASE x = c
      <4>1. size \in Nat /\ Len(stream'[c]) = Len(stream[c]) + size
        BY <1>3
      <4> QED
        BY ONLY <3>1, <3>2, <4>1
    <3> QED
      BY <1>2, <3>1, <3>2
  <2>2. stream' \in [Clients -> Seq(CellType)]
    BY <1>4 DEF Types
  <2>3. UNCHANGED <<tasks, progress, owner, status>>
    BY <1>5 DEF taskVars, clientVars
  <2> QED
    BY <2>1, <2>2, <2>3, NoneOfClosed, RingStays
<1>7. ASSUME NEW x \in Clients, x # c PROVE Untouched(x)
  BY <1>2, <1>5, <1>7 DEF Untouched, clientVars, taskVars
<1>8. ClientInv(c)'
  <2>1. /\ Start(c) = Len(stream[c]) /\ len[c] = qbPos[c] /\ received[c] = Len(stream[c])
        /\ ~Served(c) /\ stage[c] = "new"
    BY <1>1, Counting, Known DEF Requests
  <2>2. Len(stream[c]) \in Nat /\ len[c] \in Nat /\ received[c] \in Nat
    BY Known
  <2>3. Owed(c)' /\ Size(c)' = size /\ Start(c)' = Len(stream[c])
    <3>1. Owed(c)' /\ Size(c)' = size
      <4>1. sent'[c] = j /\ answered'[c] = answered[c] /\ answered[c] \in Nat
        BY <1>2, <1>5, Known
      <4> QED
        BY <1>1, <1>s, <4>1 DEF Owed, Size, Asked
    <3> QED
      BY <1>3, <2>2, <3>1 DEF Start
  <2>4. ~Served(c)' /\ Taken(c)' = 0
    BY <1>5, <2>1 DEF Served, At, Taken, clientVars
  <2>5. Requests(c)'
    <3>1. answered'[c] <= sent'[c] /\ sent'[c] <= answered'[c] + 1 /\ sent'[c] <= Len(Script[c])
      <4>1. sent'[c] = j /\ answered'[c] = answered[c] /\ answered[c] \in Nat
        BY <1>2, <1>5, Known
      <4>2. Len(Script[c]) \in Nat
        BY Constants
      <4> QED
        BY <1>1, <4>1, <4>2
    <3>2. /\ qbPos'[c] = qbPos[c] /\ len'[c] = len[c] /\ room'[c] = room[c]
          /\ received'[c] = received[c] /\ stage'[c] = stage[c]
      BY <1>5 DEF clientVars
    <3>3. len[c] <= room[c]
      BY Known DEF Requests
    <3>4. Size(c)' <= Len(stream'[c]) /\ received'[c] <= Len(stream'[c])
      <4>1. size \in Nat /\ Len(stream'[c]) = Len(stream[c]) + size
        BY <1>3
      <4> QED
        BY ONLY <2>1, <2>2, <2>3, <3>2, <4>1
    <3> QED
      <4>1. received'[c] = Start(c)' + Taken(c)' + (len'[c] - qbPos'[c])
        BY <2>1, <2>2, <2>3, <2>4, <3>2
      <4>2. \A i \in 1 .. Size(c)' : stream'[c][Start(c)' + i] = Cell(c, sent'[c], i)
        BY <1>2, <1>3, <2>3
      <4>3. received'[c] = Start(c)'
        BY <2>1, <2>3, <3>2
      <4>4. qbPos'[c] <= len'[c] /\ len'[c] <= room'[c]
        BY <2>1, <2>2, <3>2, <3>3
      <4>5. Owed(c)'
        BY <2>3
      <4> QED
        BY <3>1, <3>4, <4>1, <4>2, <4>3, <4>4, <4>5 DEF Requests
  <2>6. Places(c)'
    <3>1. ~At(c, "drain")
      BY Known, <2>1, <2>2 DEF Places, Waiting
    <3> QED
      BY Known, <1>5, <3>1 DEF Places, At, clientVars
  <2>7. Arguments(c)'
    BY <1>5, <2>1 DEF Arguments, At, Served, clientVars
  <2>8. Room(c)'
    BY Known, <1>5 DEF Room, clientVars, taskVars
  <2>9. Contents(c)'
    BY Known, <1>3, <1>5 DEF Contents, clientVars
  <2>10. Fresh(c)'
    BY <1>5, <2>1, <2>2 DEF Fresh, clientVars
  <2>11. Expecting(c)'
    BY <1>5, <2>1 DEF Expecting, clientVars
  <2> QED
    BY <2>5, <2>6, <2>7, <2>8, <2>9, <2>10, <2>11 DEF ClientInv
<1>9. (cur = NoClient <=> pc = "idle")'
  BY <1>5 DEF ParseInv
<1> QED
  BY <1>4, <1>6, <1>7, <1>8, <1>9, Together

\* Between two events the parser has done what it could.
LEMMA Idle ==
    ASSUME ParseInv, NEW c \in Clients, pc = "idle"
    PROVE  /\ cur = NoClient /\ cur # c /\ qbPos[c] = 0
           /\ Served(c) => status[c] = "blocked"
           /\ stage[c] = "new" => len[c] = 0
<1>1. cur = NoClient /\ cur # c
  BY Constants DEF ParseInv
<1>2. \A place : ~At(c, place)
  BY <1>1 DEF At
<1>3. qbPos[c] = 0
  BY Known DEF Places
<1>4. stage[c] = "new" => len[c] = 0
  BY Known, <1>2, <1>3 DEF Fresh
<1> QED
  BY <1>1, <1>2, <1>3, <1>4 DEF Served

\* What is not received yet belongs to the request that is not answered.
LEMMA Awaiting ==
    ASSUME ParseInv, NEW c \in Clients, Waiting(c) > 0
    PROVE  /\ Owed(c) /\ ~(Served(c) /\ stage[c] = "new")
           /\ Waiting(c) \in Nat /\ Waiting(c) = Size(c) - Taken(c) - (len[c] - qbPos[c])
           /\ stage[c] = "new" => Taken(c) = 0
           /\ stage[c] # "new" => Taken(c) >= 1
           /\ WholeReads => received[c] = Start(c) /\ Taken(c) = 0 /\ len[c] = qbPos[c]
<1>1. /\ received[c] \in Nat /\ Len(stream[c]) \in Nat /\ len[c] \in Nat /\ qbPos[c] \in Nat
      /\ stage[c] \in {"new", "short", "len", "bulk"}
      /\ WholeReads => received[c] \in {Start(c), Len(stream[c])}
  BY Known DEF Requests, Places
<1>2. /\ Start(c) \in Nat /\ Taken(c) \in Nat
      /\ qbPos[c] <= len[c] /\ received[c] <= Len(stream[c])
      /\ received[c] = Start(c) + Taken(c) + (len[c] - qbPos[c])
  BY Counting
<1>3. Waiting(c) = Len(stream[c]) - received[c]
  BY DEF Waiting
<1>4. Owed(c)
  BY <1>1, <1>3, Counting
<1>5. Start(c) + Size(c) = Len(stream[c]) /\ Size(c) \in Nat
  BY <1>4, Counting, Owing
<1>6. ~(Served(c) /\ stage[c] = "new")
  <2>1. SUFFICES ASSUME Served(c), stage[c] = "new" PROVE FALSE
    OBVIOUS
  <2>2. Taken(c) = Size(c)
    BY <2>1, Counting
  <2> QED
    BY <1>1, <1>2, <1>3, <1>5, <2>2
<1>7. stage[c] = "new" => Taken(c) = 0
  BY <1>6 DEF Taken
<1>8. stage[c] # "new" => Taken(c) >= 1
  BY <1>1 DEF Taken
<1>9. Waiting(c) \in Nat /\ Waiting(c) = Size(c) - Taken(c) - (len[c] - qbPos[c])
  BY ONLY <1>1, <1>2, <1>3, <1>5, SMTT(30)
<1>10. WholeReads => received[c] = Start(c) /\ Taken(c) = 0 /\ len[c] = qbPos[c]
  <2>1. SUFFICES ASSUME WholeReads PROVE received[c] = Start(c) /\ Taken(c) = 0 /\ len[c] = qbPos[c]
    OBVIOUS
  <2>2. Waiting(c) > 0
    OBVIOUS
  <2>3. received[c] = Start(c)
    BY <1>1, <1>3, <2>1, <2>2
  <2> QED
    BY ONLY <1>1, <1>2, <2>3
<1> QED
  BY <1>4, <1>6, <1>7, <1>8, <1>9, <1>10

LEMMA ReadStep ==
    ASSUME ParseInv, Setting, NEW c \in Clients, ReadQuery(c)
    PROVE  ParseInv'
<1>1. /\ pc = "idle" /\ Waiting(c) > 0 /\ status[c] \in {"open", "blocked"}
      /\ pc' = "drain" /\ cur' = c /\ descriptor' = descriptor
      /\ UNCHANGED <<wireVars, len, qbPos, stage, head, short, long, status, taskVars, storeVars>>
  BY Constants DEF ReadQuery, Setting, OneAtATime
<1>2. /\ cur = NoClient /\ cur # c /\ qbPos[c] = 0
      /\ Served(c) => status[c] = "blocked"
      /\ stage[c] = "new" => len[c] = 0
  BY <1>1, Idle
<1>3. status[c] = "open" /\ ~Served(c) /\ Owed(c)
  <2>1. status[c] = "blocked" => Served(c) /\ stage[c] = "new"
    BY Known DEF Served, Places
  <2> QED
    BY <1>1, <1>2, <2>1, Awaiting
<1>4. len[c] \in Nat /\ room[c] \in Nat /\ len[c] <= room[c]
  BY Known DEF Requests
<1>r. PICK r : r = EnlargedRoom(c)
  OBVIOUS
<1>5. \/ /\ room[c] - len[c] >= ReadLen
         /\ UNCHANGED <<buf, room, owner>>
      \/ /\ room' = [room EXCEPT ![c] = r]
         /\ \/ UNCHANGED <<buf, owner>>
            \/ /\ owner' = [owner EXCEPT ![c] = @ + 1]
               /\ buf' = [buf EXCEPT ![c] =
                           [p \in Positions |-> IF p < len[c] THEN @[p] ELSE NUL]]
  BY <1>r DEF ReadQuery
<1>l. /\ r \in Nat /\ r <= BufMax /\ len[c] <= r /\ r - len[c] >= ReadLen
  <2>1. Size(c) \in Nat /\ Size(c) <= ValueLen + 4 /\ Taken(c) \in Nat
    BY <1>3, Owing, Counting
  <2>2. Waiting(c) \in Nat /\ Waiting(c) = Size(c) - Taken(c) - (len[c] - qbPos[c])
    BY <1>1, Awaiting
  <2>3. ReadLen >= ValueLen + 4
    BY DEF Setting, Fits
  <2>4. len[c] <= ReadLen
    BY ONLY <1>2, <1>4, <2>1, <2>2, <2>3, Numbers
  <2>5. r = len[c] + ReadLen + Prealloc
    BY <1>r DEF EnlargedRoom
  <2> QED
    BY ONLY <1>4, <2>4, <2>5, Numbers
<1>6. /\ \A x \in Clients : x # c => buf'[x] = buf[x] /\ room'[x] = room[x] /\ owner'[x] = owner[x]
      /\ buf' \in [Clients -> [Positions -> Memory]]
      /\ room' \in [Clients -> Nat] /\ owner' \in [Clients -> Nat]
  <2>1. /\ buf \in [Clients -> [Positions -> Memory]]
        /\ room \in [Clients -> Nat] /\ owner \in [Clients -> Nat]
    BY DEF ParseInv, Types
  <2>2. r \in Nat
    BY <1>l
  <2>3. [p \in Positions |-> IF p < len[c] THEN buf[c][p] ELSE NUL] \in [Positions -> Memory]
    BY <2>1 DEF Memory
  <2>4. /\ \A x \in Clients : x # c => room'[x] = room[x]
        /\ room' \in [Clients -> Nat]
    BY <1>5, <2>1, <2>2
  <2>5. /\ \A x \in Clients : x # c => owner'[x] = owner[x]
        /\ owner' \in [Clients -> Nat]
    BY <1>5, <2>1
  <2>6. /\ \A x \in Clients : x # c => buf'[x] = buf[x]
        /\ buf' \in [Clients -> [Positions -> Memory]]
    BY <1>5, <2>1, <2>3
  <2> QED
    BY <2>4, <2>5, <2>6
<1>7. Types'
  BY <1>1, <1>6 DEF ParseInv, Types, wireVars, taskVars, storeVars
<1>8. Ring'
  <2>1. ASSUME NEW x \in Clients
        PROVE  NoneOf(x) \/
              (status'[x] # "closed" /\ Len(stream[x]) <= Len(stream'[x]))
    <3>2. status' = status /\ stream' = stream /\ Len(stream[x]) \in Nat
      BY <1>1, Known DEF wireVars
    <3> QED
      BY <3>2, NoneOfClosed
  <2>2. stream' \in [Clients -> Seq(CellType)] /\ UNCHANGED <<tasks, progress>>
    BY <1>1, <1>7 DEF Types, taskVars
  <2> QED
    BY <2>1, <2>2, RingStays
<1>9. ASSUME NEW x \in Clients, x # c PROVE Untouched(x)
  BY <1>1, <1>2, <1>6, <1>9, Constants DEF Untouched, wireVars, taskVars
<1>10. ClientInv(c)'
  <2>1. /\ Owed(c)' = Owed(c) /\ Asked(c)' = Asked(c) /\ Size(c)' = Size(c)
        /\ Start(c)' = Start(c) /\ ~Served(c)' /\ Taken(c)' = Taken(c)
    <3>1. ~Served(c)'
      BY <1>1, <1>3 DEF Served, At
    <3>2. Owed(c)' = Owed(c) /\ Asked(c)' = Asked(c) /\ Size(c)' = Size(c) /\ Start(c)' = Start(c)
      BY <1>1 DEF wireVars, Owed, Asked, Size, Start
    <3> QED
      BY <1>1, <1>3, <3>1, <3>2 DEF Taken
  <2>2. len[c] <= room'[c] /\ room'[c] - len[c] >= ReadLen /\ (room'[c] = room[c] \/ room'[c] = r)
    <3>1. (room'[c] = room[c] /\ room[c] - len[c] >= ReadLen) \/ room'[c] = r
      BY <1>5 DEF ParseInv, Types
    <3> QED
      BY <1>4, <1>l, <3>1
  <2>3. Requests(c)'
    BY Known, <1>1, <1>3, <2>1, <2>2 DEF Requests, wireVars
  <2>4. Places(c)'
    BY Known, <1>1, <1>2, <1>3, <2>2 DEF Places, At, Waiting, wireVars
  <2>5. Arguments(c)'
    BY Known, <1>1, <2>1 DEF Arguments, At, wireVars
  <2>6. Room(c)'
    <3>1. room[c] <= BufMax
      BY Known DEF Room
    <3> QED
      BY <1>l, <2>2, <3>1 DEF Room
  <2>7. Contents(c)'
    <3>1. \A p \in Positions : buf'[c][p] \in Range(stream[c]) \cup {NUL}
      <4>1. \A p \in Positions : buf[c][p] \in Range(stream[c]) \cup {NUL}
        BY Known DEF Contents
      <4>2. \A p \in Positions : buf'[c][p] \in {buf[c][p], NUL}
        BY <1>5 DEF ParseInv, Types
      <4> QED
        BY <4>1, <4>2
    <3> QED
      BY Known, <1>1, <3>1 DEF Contents, wireVars
  <2>8. Fresh(c)'
    BY <1>1, <1>2, <1>4 DEF Fresh
  <2>9. Expecting(c)'
    <3>1. SUFFICES ASSUME stage[c] = "short" PROVE Expecting(c)'
      BY <1>1 DEF Expecting
    <3>2. buf'[c][0] \in {buf[c][0], NUL}
      <4>1. 0 \in Positions
        BY Numbers DEF Positions
      <4> QED
        BY <1>5, <4>1 DEF ParseInv, Types
    <3>3. NoneOf(c)' = NoneOf(c) /\ \A p, cell : Brings(c, p, cell)' = Brings(c, p, cell)
      BY <1>1 DEF NoneOf, Brings, wireVars, taskVars
    <3> QED
      BY Known, <1>1, <1>2, <3>1, <3>2, <3>3 DEF Expecting, At, wireVars
  <2> QED
    BY <2>3, <2>4, <2>5, <2>6, <2>7, <2>8, <2>9 DEF ClientInv
<1>11. (cur = NoClient <=> pc = "idle")'
  BY <1>1, Constants
<1> QED
  BY <1>7, <1>8, <1>9, <1>10, <1>11, Together

LEMMA RecvStep ==
    ASSUME ParseInv, Setting, NEW c \in Clients, NEW n \in ReadSizes(c), Recv(c, n)
    PROVE  ParseInv'
<1>t. PICK t : t = [type |-> "recv", client |-> c, owner |-> owner[c], from |-> received[c],
                    to |-> len[c], size |-> n]
  OBVIOUS
<1>1. /\ pc = "drain" /\ cur = c /\ tasks = <<>> /\ pc' = "loop" /\ cur' = c
      /\ descriptor' = [descriptor EXCEPT ![c] = len[c] - 1]
      /\ tasks' = Append(tasks, t)
      /\ received' = [received EXCEPT ![c] = @ + n]
      /\ len' = [len EXCEPT ![c] = @ + n]
      /\ buf' = [buf EXCEPT ![c][len[c] + n] = NUL]
      /\ UNCHANGED <<sent, stream, answered, room, owner, qbPos, stage, head, short, long, status,
                     progress, storeVars>>
  BY Constants, <1>t DEF Recv, Setting, OneAtATime, Drained, ResetDescriptor, Posted
<1>2. /\ status[c] = "open" /\ Waiting(c) > 0 /\ room[c] - len[c] >= ReadLen /\ qbPos[c] = 0
      /\ stage[c] = "new" => len[c] = 0
  BY Known, <1>1 DEF Places, At, Fresh
<1>3. /\ n \in Nat /\ n >= 1 /\ n <= Waiting(c) /\ n <= ReadLen
      /\ n = Waiting(c) \/ n = ReadLen \/ n >= MinRead
  BY <1>2, Awaiting, Numbers DEF ReadSizes
<1>4. /\ len[c] \in Nat /\ room[c] \in Nat /\ received[c] \in Nat /\ Len(stream[c]) \in Nat
      /\ Waiting(c) = Len(stream[c]) - received[c]
  BY Known DEF Waiting
<1>5. len[c] + n <= room[c] /\ room[c] <= BufMax
  <2>1. room[c] <= BufMax
    BY Known DEF Room
  <2> QED
    BY ONLY <1>2, <1>3, <1>4, <2>1, Numbers
<1>6. t \in TaskType /\ Lives(t) /\ t.size = n /\ t.to = len[c] /\ t.from = received[c]
      /\ t.client = c /\ t.type = "recv" /\ t.owner = owner[c]
  <2>1. owner[c] \in Nat
    BY DEF ParseInv, Types
  <2>2. t \in TaskType
    BY <1>3, <1>4, <1>t, <2>1 DEF TaskType, RecvType
  <2>3. /\ t.size = n /\ t.to = len[c] /\ t.from = received[c]
        /\ t.client = c /\ t.type = "recv" /\ t.owner = owner[c]
    BY <1>t
  <2>4. len[c] + n <= BufMax /\ received[c] + n <= Len(stream[c])
    <3>1. n <= Len(stream[c]) - received[c] /\ n \in Nat
      BY <1>3, <1>4
    <3>2. received[c] + n <= Len(stream[c])
      BY ONLY <1>4, <3>1
    <3>3. len[c] + n <= BufMax
      BY ONLY <1>4, <1>5, <3>1, Numbers
    <3> QED
      BY <3>2, <3>3
  <2> QED
    BY <1>2, <2>2, <2>3, <2>4 DEF Lives
<1>7. /\ Ring' /\ tasks' \in Seq(TaskType) /\ Len(tasks') = 1 /\ tasks'[1] = t
  <2>1. progress' = progress /\ UNCHANGED <<stream, owner, status>>
    BY <1>1
  <2>2. Len(tasks) = 0
    BY <1>1
  <2> QED
    BY <1>1, <1>6, <2>1, <2>2, RingPosted
<1>8. /\ received'[c] = received[c] + n /\ len'[c] = len[c] + n /\ descriptor'[c] = len[c] - 1
      /\ \A p \in Positions : buf'[c][p] = IF p = len[c] + n THEN NUL ELSE buf[c][p]
  <2>1. len[c] + n \in Positions
    BY <1>3, <1>4, <1>5, Numbers DEF Positions
  <2> QED
    BY <1>1, <2>1 DEF ParseInv, Types
<1>9. Types'
  <2>1. received' \in [Clients -> Nat] /\ len' \in [Clients -> Nat]
    BY <1>1, <1>3, SMTT(30) DEF ParseInv, Types
  <2>2. descriptor' \in [Clients -> Int]
    BY <1>1, <1>4 DEF ParseInv, Types
  <2>3. buf' \in [Clients -> [Positions -> Memory]]
    <3>1. buf' = [buf EXCEPT ![c] = [@ EXCEPT ![len[c] + n] = NUL]] /\ NUL \in Memory
      BY <1>1 DEF Memory
    <3> QED
      BY <3>1 DEF ParseInv, Types
  <2> QED
    BY <1>1, <1>7, <2>1, <2>2, <2>3 DEF ParseInv, Types, storeVars
<1>10. ASSUME NEW x \in Clients, x # c PROVE Untouched(x)
  <2>1. /\ received'[x] = received[x] /\ len'[x] = len[x] /\ descriptor'[x] = descriptor[x]
        /\ buf'[x] = buf[x]
    BY <1>1, <1>10 DEF ParseInv, Types
  <2>2. \A k \in 1 .. Len(tasks') : tasks'[k].client # x
    BY <1>6, <1>7, <1>10
  <2> QED
    BY <1>1, <1>10, <2>1, <2>2 DEF Untouched
<1>11. ClientInv(c)'
  <2>1. /\ Owed(c) /\ ~Served(c)
        /\ stage[c] = "new" => Taken(c) = 0
    <3>1. Owed(c) /\ (stage[c] = "new" => Taken(c) = 0)
      BY <1>2, Awaiting
    <3> QED
      BY <1>1, <1>2, <3>1 DEF Served, At
  <2>2. /\ Owed(c)' /\ Asked(c)' = Asked(c) /\ Size(c)' = Size(c)
        /\ Start(c)' = Start(c) /\ ~Served(c)' /\ Taken(c)' = Taken(c)
    <3>1. ~Served(c)'
      BY <1>1, <1>2 DEF Served, At
    <3>2. Owed(c)' = Owed(c) /\ Asked(c)' = Asked(c) /\ Size(c)' = Size(c) /\ Start(c)' = Start(c)
      BY <1>1 DEF Owed, Asked, Size, Start
    <3> QED
      BY <1>1, <2>1, <3>1, <3>2 DEF Taken
  <2>3. /\ received[c] = Start(c) + Taken(c) + len[c]
        /\ Start(c) \in Nat /\ Taken(c) \in Nat /\ Size(c) \in Nat
    <3>1. received[c] = Start(c) + Taken(c) + (len[c] - qbPos[c])
      BY Counting
    <3>2. Start(c) \in Nat /\ Taken(c) \in Nat /\ Size(c) \in Nat
      BY <2>1, Counting, Owing
    <3> QED
      BY ONLY <1>2, <1>4, <3>1, <3>2
  <2>4. WholeReads => received'[c] = Len(stream[c])
    <3>1. SUFFICES ASSUME WholeReads PROVE n = Waiting(c)
      BY <1>3, <1>4, <1>8
    <3>2. Waiting(c) = Size(c)
      BY <1>2, <1>4, <2>3, <3>1, Awaiting
    <3>3. Waiting(c) <= ValueLen + 4
      BY <2>1, <3>2, Owing
    <3> QED
      <4>1. n <= Waiting(c) /\ n \in Nat /\ (n = Waiting(c) \/ n = ReadLen \/ n >= MinRead)
        BY <1>3
      <4>2. MinRead >= ValueLen + 4 /\ ReadLen >= ValueLen + 4
        BY <3>1 DEF WholeReads
      <4>3. Waiting(c) \in Nat
        BY <2>3, <3>2
      <4> QED
        BY ONLY <3>3, <4>1, <4>2, <4>3, Numbers
  <2>5. Requests(c)'
    <3>1. received'[c] <= Len(stream[c])
      BY <1>3, <1>4, <1>8
    <3>2. received'[c] = Start(c) + Taken(c) + (len'[c] - qbPos[c])
      BY <1>2, <1>3, <1>4, <1>8, <2>3
    <3>3. qbPos[c] <= len'[c] /\ len'[c] <= room[c]
      BY <1>2, <1>3, <1>4, <1>5, <1>8
    <3> QED
      BY Known, <1>1, <2>1, <2>2, <2>4, <3>1, <3>2, <3>3 DEF Requests
  <2>6. Places(c)'
    BY Known, <1>1, <1>2 DEF Places, At
  <2>7. Arguments(c)'
    BY Known, <1>1, <2>2 DEF Arguments, At
  <2>8. Room(c)'
    BY <1>1, <1>5 DEF Room
  <2>9. Contents(c)'
    <3>1. \A p \in Positions : buf'[c][p] \in Range(stream[c]) \cup {NUL}
      BY Known, <1>8 DEF Contents
    <3>2. descriptor'[c] \in -1 .. BufMax
      <4>1. descriptor'[c] = len[c] - 1
        BY <1>8
      <4>2. /\ len[c] \in Nat /\ n \in Nat /\ room[c] \in Nat
            /\ len[c] + n <= room[c] /\ room[c] <= BufMax
        BY <1>3, <1>4, <1>5
      <4>3. len[c] <= BufMax
        BY ONLY <4>2, Numbers
      <4>4. len[c] - 1 \in -1 .. BufMax
        BY ONLY <4>2, <4>3, Numbers, Below
      <4> QED
        BY ONLY <4>1, <4>4
    <3> QED
      BY Known, <1>1, <3>1, <3>2 DEF Contents
  <2>10. Fresh(c)'
    <3>1. SUFFICES ASSUME stage[c] = "new" PROVE Fresh(c)'
      BY <1>1 DEF Fresh
    <3>2. /\ len[c] = 0 /\ received[c] = Start(c) /\ len'[c] = n /\ descriptor'[c] = -1
          /\ progress' = 0
      BY <1>1, <1>2, <1>3, <1>8, <2>1, <2>3, <3>1 DEF ParseInv, Ring
    <3>3. FirstCopy(c)'
      BY <1>1, <1>6, <1>7, <2>2, <3>2 DEF FirstCopy
    <3>4. Copied(c)'
      <4>1. tasks' # <<>>
        BY <1>7
      <4> QED
        BY <3>2, <4>1 DEF Copied
    <3> QED
      BY <1>1, <1>2, <3>3, <3>4 DEF Fresh, At
  <2>11. Expecting(c)'
    <3>1. SUFFICES ASSUME stage[c] = "short" PROVE Expecting(c)'
      BY <1>1 DEF Expecting
    <3>2. len'[c] > 0 /\ buf'[c][0] = buf[c][0]
      <4>1. len'[c] > 0 /\ 0 # len[c] + n
        BY ONLY <1>3, <1>4, <1>8
      <4>2. 0 \in Positions
        BY Numbers DEF Positions
      <4> QED
        BY <1>8, <4>1, <4>2
    <3>3. buf[c][0] \in {NUL, Cell(c, sent[c], 2)}
      <4>1. CASE len[c] = 0
        BY Known, <1>2, <3>1, <4>1 DEF Expecting
      <4>2. CASE len[c] > 0
        BY Known, <1>2, <3>1, <4>2 DEF Expecting
      <4> QED
        BY <1>4, <4>1, <4>2
    <3>4. len[c] = 0 => stream[c][received[c] + 1] = Cell(c, sent[c], 2)
      <4>1. Taken(c) = 1
        BY <3>1 DEF Taken
      <4>2. Size(c) >= 2
        BY <2>1, <3>1, Known, Owing DEF Arguments
      <4>3. \A i \in 1 .. Size(c) : stream[c][Start(c) + i] = Cell(c, sent[c], i)
        BY <2>1, Owing
      <4>4. stream[c][Start(c) + 2] = Cell(c, sent[c], 2)
        BY <2>3, <4>2, <4>3
      <4>5. len[c] = 0 => received[c] + 1 = Start(c) + 2
        BY <2>3, <4>1
      <4> QED
        BY <4>4, <4>5
    <3>5. Brings(c, 0, Cell(c, sent[c], 2))'
      <4>1. len[c] <= 0 => len[c] = 0
        BY <1>4
      <4>2. len[c] = 0 => received[c] + (0 - len[c]) + 1 = received[c] + 1
        BY <1>4
      <4> QED
        BY <1>1, <1>6, <1>7, <3>4, <4>1, <4>2 DEF Brings
    <3> QED
      BY <1>1, <1>2, <3>1, <3>2, <3>3, <3>5 DEF Expecting
  <2> QED
    BY <2>5, <2>6, <2>7, <2>8, <2>9, <2>10, <2>11 DEF ClientInv
<1>12. (cur = NoClient <=> pc = "idle")'
  BY <1>1, Constants
<1> QED
  BY <1>7, <1>9, <1>10, <1>11, <1>12, Together

\* A step of the server for client c that leaves the ring and the buffers alone.
LEMMA ParserFrame ==
    ASSUME ParseInv, NEW c \in Clients, cur = c, cur' = c, status'[c] # "closed",
           UNCHANGED <<sent, stream, received, buf, len, room, owner, descriptor, tasks, progress>>,
           \A x \in Clients : x # c =>
              /\ answered'[x] = answered[x] /\ qbPos'[x] = qbPos[x] /\ stage'[x] = stage[x]
              /\ head'[x] = head[x] /\ short'[x] = short[x] /\ long'[x] = long[x]
              /\ status'[x] = status[x]
    PROVE  Ring' /\ \A x \in Clients : x # c => Untouched(x)
<1>1. Ring'
  <2>1. \A x \in Clients : status'[x] = "closed" => status[x] = "closed" \/ NoneOf(x)
    OBVIOUS
  <2> QED
    BY <2>1, RingSame
<1>2. \A x \in Clients : x # c => Untouched(x)
  BY DEF Untouched
<1> QED
  BY <1>1, <1>2

\* Once the descriptor reports the first line, it and its neighbours are there.
LEMMA FirstLines ==
    ASSUME ParseInv, NEW c \in Clients, stage[c] = "new", len[c] > qbPos[c],
           descriptor[c] >= qbPos[c] + Window - 1
    PROVE  /\ At(c, "loop") /\ status[c] = "open" /\ qbPos[c] = 0 /\ Owed(c) /\ Taken(c) = 0
           /\ FirstCopy(c) /\ Copied(c) /\ received[c] = Start(c) + len[c]
           /\ tasks # <<>> => progress \in Nat /\ 1 <= progress /\ progress < len[c]
           /\ \A n \in Nat : LinesTogether(n) /\ tasks # <<>> => n <= progress
           /\ buf[c][0] = Cell(c, sent[c], 1)
<1>1. At(c, "loop") /\ status[c] = "open" /\ qbPos[c] = 0 /\ FirstCopy(c) /\ Copied(c)
  BY Known DEF Fresh
<1>2. len[c] \in Nat /\ descriptor[c] \in Int /\ Window \in Nat /\ Window >= 1 /\ Chunk \in Nat
      /\ Chunk >= 1 /\ progress \in Nat
  BY Known, Numbers DEF Types
<1>3. Owed(c)
  BY <1>1, <1>2, Counting
<1>4. Taken(c) = 0
  BY <1>1 DEF Taken, Served, At
<1>5. received[c] = Start(c) + len[c]
  <2>1. received[c] = Start(c) + Taken(c) + (len[c] - qbPos[c]) /\ Start(c) \in Nat
    BY Counting
  <2> QED
    BY ONLY <1>1, <1>2, <1>4, <2>1
<1>6. ASSUME tasks # <<>>
      PROVE  /\ Chunk <= descriptor[c] + 1 /\ descriptor[c] + 1 <= progress /\ progress < len[c]
             /\ Window <= descriptor[c] + 1
  <2>1. descriptor[c] >= Window - 1
    BY <1>1, <1>2
  <2>2. /\ descriptor[c] = -1 \/ (Chunk <= descriptor[c] + 1 /\ descriptor[c] + 1 <= progress)
        /\ tasks[1].size = len[c]
    BY <1>1, <1>6 DEF FirstCopy
  <2>3. progress < tasks[1].size
    BY <1>6, Known DEF Ring
  <2> QED
    BY ONLY <1>2, <2>1, <2>2, <2>3
<1>7. tasks # <<>> => progress \in Nat /\ 1 <= progress /\ progress < len[c]
  BY <1>2, <1>6
<1>8. \A n \in Nat : LinesTogether(n) /\ tasks # <<>> => n <= progress
  BY <1>2, <1>6 DEF LinesTogether
<1>9. buf[c][0] = Cell(c, sent[c], 1)
  <2>1. 0 \in 0 .. len[c] - 1 /\ (tasks # <<>> => 0 < progress)
    BY <1>1, <1>2, <1>7
  <2>2. buf[c][0] = stream[c][Start(c) + 0 + 1]
    BY <1>1, <2>1 DEF Copied
  <2>3. Start(c) \in Nat /\ 1 \in 1 .. Size(c)
    <3>1. Start(c) \in Nat /\ Size(c) \in Nat /\ 1 <= Size(c)
      BY <1>3, Owing
    <3> QED
      BY ONLY <3>1
  <2>4. stream[c][Start(c) + 1] = Cell(c, sent[c], 1)
    BY <1>3, <2>3, Owing
  <2>5. Start(c) + 0 + 1 = Start(c) + 1
    BY <2>3
  <2> QED
    BY <2>2, <2>4, <2>5
<1> QED
  BY <1>1, <1>3, <1>4, <1>5, <1>7, <1>8, <1>9

\* The second line, when a second one is received.
LEMMA SecondLine ==
    ASSUME ParseInv, NEW c \in Clients, stage[c] = "new", qbPos[c] < len[c],
           descriptor[c] >= qbPos[c] + Window - 1, LinesTogether(2), Asked(c) # "empty"
    PROVE  /\ len[c] = 1 => NoneOf(c)
           /\ len[c] > 1 => buf[c][1] = Cell(c, sent[c], 2) /\ Brings(c, 1, Cell(c, sent[c], 2))
<1>1. /\ FirstCopy(c) /\ Copied(c) /\ Owed(c)
      /\ tasks # <<>> => progress \in Nat /\ 1 <= progress /\ progress < len[c]
      /\ tasks # <<>> => 2 <= progress
  BY FirstLines
<1>2. stream[c][Start(c) + 2] = Cell(c, sent[c], 2) /\ Start(c) \in Nat
  <2>1. 2 \in 1 .. Size(c) /\ Start(c) \in Nat
    <3>1. Start(c) \in Nat /\ Size(c) \in Nat /\ 2 <= Size(c)
      BY <1>1, Owing
    <3> QED
      BY ONLY <3>1
  <2> QED
    BY <1>1, <2>1, Owing
<1>3. len[c] = 1 => NoneOf(c)
  <2>1. len[c] = 1 => tasks = <<>>
    BY <1>1
  <2> QED
    BY <2>1 DEF NoneOf
<1>4. ASSUME len[c] > 1 PROVE buf[c][1] = Cell(c, sent[c], 2)
  <2>1. 1 \in 0 .. len[c] - 1 /\ (tasks # <<>> => 1 < progress)
    BY <1>1, <1>4, Known
  <2>2. buf[c][1] = stream[c][Start(c) + 1 + 1]
    BY <1>1, <2>1 DEF Copied
  <2>3. Start(c) + 1 + 1 = Start(c) + 2
    BY <1>2
  <2> QED
    BY <1>2, <2>2, <2>3
<1>5. Brings(c, 1, Cell(c, sent[c], 2))
  <2>1. ASSUME NEW k \in 1 .. Len(tasks)
        PROVE  /\ tasks[k].type = "recv" /\ tasks[k].to = 0 /\ tasks[k].from = Start(c)
    <3>1. tasks # <<>>
      OBVIOUS
    <3>2. Len(tasks) = 1
      BY <1>1, <3>1 DEF FirstCopy
    <3>3. k = 1
      BY <3>2
    <3> QED
      BY <1>1, <3>1, <3>3 DEF FirstCopy
  <2>2. Start(c) + (1 - 0) + 1 = Start(c) + 2
    BY <1>2
  <2> QED
    BY <1>2, <2>1, <2>2 DEF Brings
<1> QED
  BY <1>3, <1>4, <1>5

LEMMA SameWire ==
    ASSUME NEW c \in Clients, UNCHANGED <<sent, stream, answered>>
    PROVE  /\ Owed(c)' = Owed(c) /\ Asked(c)' = Asked(c) /\ Size(c)' = Size(c)
           /\ Start(c)' = Start(c)
  BY DEF Owed, Asked, Size, Start

\* The next cell to parse is a cell that was sent, or none.
LEMMA NextCell ==
    ASSUME ParseInv, NEW c \in Clients, qbPos[c] < len[c]
    PROVE  /\ FirstCell(c) \in Range(stream[c]) \cup {NUL} /\ FirstCell(c) \in Memory
           /\ qbPos[c] \in Positions
<1>1. qbPos[c] \in Nat /\ len[c] \in Nat /\ room[c] \in Nat /\ len[c] <= room[c]
  BY Known DEF Requests
<1>2. room[c] <= BufMax
  BY Known, Numbers DEF Room
<1>3. qbPos[c] \in Positions
  BY <1>1, <1>2, Numbers DEF Positions
<1> QED
  BY <1>3, Known DEF FirstCell, Contents

LEMMA HeadStep ==
    ASSUME ParseInv, Setting, NEW c \in Clients, ParseHead(c)
    PROVE  ParseInv'
<1>1. /\ cur = c /\ pc = "loop" /\ qbPos[c] < len[c] /\ status[c] = "open"
      /\ UNCHANGED <<wireVars, buf, len, room, owner, descriptor, progress, storeVars, cur>>
  BY DEF ParseHead, Parsing, parseFrame
<1>2. stage[c] = "new" /\ descriptor[c] >= qbPos[c] + Window - 1
  BY Known DEF ParseHead, Places
<1>3. /\ At(c, "loop") /\ status[c] = "open" /\ qbPos[c] = 0 /\ Owed(c) /\ Taken(c) = 0
      /\ received[c] = Start(c) + len[c] /\ buf[c][0] = Cell(c, sent[c], 1)
  BY <1>1, <1>2, Known, FirstLines
<1>4. /\ FirstCell(c) = Cell(c, sent[c], 1)
      /\ Type(FirstCell(c)) = IF Asked(c) = "empty" THEN "E" ELSE "M"
  <2>1. FirstCell(c) = Cell(c, sent[c], 1)
    BY <1>3 DEF FirstCell
  <2>2. Asked(c) \in Kinds /\ sent[c] \in Nat
    BY <1>3, Owing, Known
  <2>3. Type(FirstCell(c)) = Shape[Asked(c)][1]
    BY <2>1, <2>2, CellParts DEF Asked
  <2> QED
    BY <2>1, <2>2, <2>3, Shapes
<1>5. /\ qbPos' = [qbPos EXCEPT ![c] = @ + 1]
      /\ stage' = [stage EXCEPT ![c] = IF Asked(c) = "empty" THEN "new" ELSE "short"]
      /\ head' = [head EXCEPT ![c] = Cell(c, sent[c], 1)]
      /\ pc' = IF Asked(c) = "empty" THEN "reset" ELSE "loop"
      /\ UNCHANGED <<short, long, status, tasks>>
  BY <1>2, <1>4 DEF ParseHead, Consume
<1>6. /\ qbPos'[c] = 1 /\ head'[c] = Cell(c, sent[c], 1)
      /\ stage'[c] = IF Asked(c) = "empty" THEN "new" ELSE "short"
      /\ \A x \in Clients : x # c =>
           qbPos'[x] = qbPos[x] /\ stage'[x] = stage[x] /\ head'[x] = head[x]
  BY <1>3, <1>5 DEF ParseInv, Types
<1>7. Types'
  <2>1. Cell(c, sent[c], 1) \in Memory
    BY CellParts, Known DEF Memory
  <2>2. qbPos' \in [Clients -> Nat]
    <3>1. qbPos \in [Clients -> Nat] /\ qbPos' = [qbPos EXCEPT ![c] = @ + 1]
      BY <1>5 DEF ParseInv, Types
    <3> QED
      BY ONLY <3>1
  <2>4. stage' \in [Clients -> {"new", "inline", "short", "len", "bulk"}]
    BY <1>5 DEF ParseInv, Types
  <2>3. head' \in [Clients -> Memory]
    BY <1>5, <2>1 DEF ParseInv, Types
  <2> QED
    BY <1>1, <1>5, <2>2, <2>3, <2>4 DEF ParseInv, Types, wireVars, storeVars
<1>8. Ring' /\ \A x \in Clients : x # c => Untouched(x)
  BY <1>1, <1>5, <1>6, ParserFrame DEF wireVars
<1>9. /\ Owed(c)' /\ Asked(c)' = Asked(c) /\ Size(c)' = Size(c) /\ Start(c)' = Start(c)
  BY <1>1, <1>3, SameWire DEF wireVars
<1>10. /\ Size(c) \in Nat /\ Start(c) \in Nat /\ Start(c) + Size(c) = Len(stream[c])
       /\ (Asked(c) = "empty" => Size(c) = 1) /\ received[c] <= Len(stream[c])
       /\ len[c] \in Nat /\ len[c] >= 1
  <2>1. /\ Size(c) \in Nat /\ Start(c) \in Nat /\ Start(c) + Size(c) = Len(stream[c])
       /\ (Asked(c) = "empty" => Size(c) = 1) /\ received[c] <= Len(stream[c])
    BY <1>3, Owing, Counting
  <2>2. len[c] \in Nat /\ qbPos[c] < len[c]
    BY <1>1, Known
  <2> QED
    BY <1>3, <2>1, <2>2
<1>11. Asked(c) = "empty" => len[c] = 1
  BY ONLY <1>3, <1>10
<1>12. Taken(c)' = 1 /\ (Served(c)' => stage'[c] = "new")
  BY <1>1, <1>3, <1>5, <1>6, <1>9, <1>10 DEF Taken, Served, At
<1>13. ClientInv(c)'
  <2>1. Requests(c)'
    <3>1. received[c] = Start(c) + 1 + (len[c] - 1)
      BY ONLY <1>3, <1>10
    <3> QED
      BY Known, <1>1, <1>3, <1>6, <1>9, <1>10, <1>12, <3>1, ZenonT(30) DEF Requests, wireVars
  <2>2. Places(c)'
    BY Known, <1>1, <1>5, <1>6 DEF Places, At
  <2>3. Arguments(c)'
    BY <1>1, <1>5, <1>6, <1>9 DEF Arguments, At, wireVars
  <2>4. Room(c)'
    BY Known, <1>1, <1>5 DEF Room, wireVars
  <2>5. Contents(c)'
    BY Known, <1>1, <1>4, <1>5, <1>6, NextCell DEF Contents, wireVars
  <2>6. Fresh(c)'
    BY <1>1, <1>6, <1>11 DEF Fresh
  <2>7. Expecting(c)'
    <3>1. SUFFICES ASSUME Asked(c) # "empty" PROVE Expecting(c)'
      BY <1>6 DEF Expecting
    <3>2. /\ len[c] = 1 => NoneOf(c)
          /\ len[c] > 1 => buf[c][1] = Cell(c, sent[c], 2) /\ Brings(c, 1, Cell(c, sent[c], 2))
      BY <1>1, <1>2, <3>1, SecondLine DEF Setting
    <3>3. NoneOf(c)' = NoneOf(c) /\ \A p, cell : Brings(c, p, cell)' = Brings(c, p, cell)
      BY <1>1, <1>5 DEF NoneOf, Brings, wireVars
    <3>4. Cell(c, sent[c], 2) # NUL
      <4>1. sent[c] \in Nat /\ 2 \in Nat
        BY Known
      <4> QED
        BY <4>1, CellParts
    <3> QED
      BY <1>1, <1>5, <1>6, <3>1, <3>2, <3>3, <3>4 DEF Expecting, At, wireVars
  <2> QED
    BY <2>1, <2>2, <2>3, <2>4, <2>5, <2>6, <2>7 DEF ClientInv
<1>14. (cur = NoClient <=> pc = "idle")'
  BY <1>1, <1>5, Constants
<1> QED
  BY <1>7, <1>8, <1>13, <1>14, Together

LEMMA ShortStep ==
    ASSUME ParseInv, Setting, NEW c \in Clients, ParseShort(c)
    PROVE  ParseInv'
<1>1. /\ cur = c /\ pc = "loop" /\ qbPos[c] < len[c] /\ status[c] = "open" /\ stage[c] = "short"
      /\ UNCHANGED <<wireVars, buf, len, room, owner, descriptor, progress, storeVars, cur>>
  BY DEF ParseShort, Parsing, parseFrame
<1>2. /\ buf[c][qbPos[c]] \in {NUL, Cell(c, sent[c], 2)}
      /\ qbPos[c] > 0 => buf[c][qbPos[c]] # NUL
      /\ head[c] = Cell(c, sent[c], 1) /\ Asked(c) # "empty"
      /\ Owed(c) /\ Taken(c) = 1
  <2>1. Taken(c) = 1
    BY <1>1 DEF Taken
  <2> QED
    BY <1>1, <2>1, Known, Counting DEF Expecting, Arguments
<1>3. /\ Asked(c) \in Kinds /\ sent[c] \in Nat /\ Kind(head[c]) = Asked(c)
      /\ Type(Cell(c, sent[c], 2)) = "S"
  <2>1. Asked(c) \in Kinds /\ sent[c] \in Nat
    BY <1>2, Owing, Known
  <2>2. Kind(head[c]) = Asked(c) /\ Type(Cell(c, sent[c], 2)) = Shape[Asked(c)][2]
    BY <1>2, <2>1, CellParts DEF Asked
  <2> QED
    BY <1>2, <2>1, <2>2, Shapes
<1>4. /\ Size(c) \in Nat /\ Start(c) \in Nat /\ Start(c) + Size(c) = Len(stream[c])
      /\ received[c] <= Len(stream[c]) /\ received[c] = Start(c) + 1 + (len[c] - qbPos[c])
      /\ ~HasValue(Asked(c)) => Size(c) = 2
  BY <1>2, Owing, Counting
<1>5. len[c] \in Nat /\ qbPos[c] \in Nat
  BY Known
<1>6. /\ Owed(c)' /\ Asked(c)' = Asked(c) /\ Size(c)' = Size(c) /\ Start(c)' = Start(c)
  BY <1>1, <1>2, SameWire DEF wireVars
<1>7. CASE /\ Type(FirstCell(c)) = "S"
           /\ short' = [short EXCEPT ![c] = FirstCell(c)]
           /\ IF HasValue(Kind(head[c]))
              THEN Consume(c, "len") /\ UNCHANGED pc
              ELSE Consume(c, "new") /\ pc' = "exec"
           /\ UNCHANGED <<head, long, status, tasks>>
  <2>1. FirstCell(c) = Cell(c, sent[c], 2)
    BY <1>2, <1>7, NotSent DEF FirstCell
  <2>2. /\ qbPos' = [qbPos EXCEPT ![c] = @ + 1]
        /\ stage' = [stage EXCEPT ![c] = IF HasValue(Asked(c)) THEN "len" ELSE "new"]
        /\ short' = [short EXCEPT ![c] = Cell(c, sent[c], 2)]
        /\ pc' = IF HasValue(Asked(c)) THEN "loop" ELSE "exec"
    BY <1>1, <1>3, <1>7, <2>1 DEF Consume
  <2>3. /\ qbPos'[c] = qbPos[c] + 1 /\ short'[c] = Cell(c, sent[c], 2)
        /\ stage'[c] = IF HasValue(Asked(c)) THEN "len" ELSE "new"
        /\ \A x \in Clients : x # c =>
             qbPos'[x] = qbPos[x] /\ stage'[x] = stage[x] /\ short'[x] = short[x]
    BY <2>2 DEF ParseInv, Types
  <2>4. Types'
    <3>1. Cell(c, sent[c], 2) \in Memory
      BY <1>3, CellParts DEF Memory
    <3>2. qbPos' \in [Clients -> Nat]
      <4>1. qbPos \in [Clients -> Nat] /\ qbPos' = [qbPos EXCEPT ![c] = @ + 1]
        BY <2>2 DEF ParseInv, Types
      <4> QED
        BY ONLY <4>1
    <3>3. stage' \in [Clients -> {"new", "inline", "short", "len", "bulk"}]
      BY <2>2 DEF ParseInv, Types
    <3>4. short' \in [Clients -> Memory]
      BY <2>2, <3>1 DEF ParseInv, Types
    <3> QED
      BY <1>1, <1>7, <2>2, <3>2, <3>3, <3>4 DEF ParseInv, Types, wireVars, storeVars
  <2>5. Ring' /\ \A x \in Clients : x # c => Untouched(x)
    BY <1>1, <1>7, <2>3, ParserFrame DEF wireVars
  <2>6. ~HasValue(Asked(c)) => len[c] = qbPos[c] + 1
    BY ONLY <1>1, <1>4, <1>5
  <2>7. Taken(c)' = 2 /\ (Served(c)' => stage'[c] = "new")
    BY <1>1, <1>4, <1>6, <1>7, <2>2, <2>3 DEF Taken, Served, At
  <2>8. ClientInv(c)'
    <3>1. Requests(c)'
      <4>1. received[c] = Start(c) + 2 + (len[c] - (qbPos[c] + 1)) /\ qbPos[c] + 1 <= len[c]
        <5>1. qbPos[c] < len[c] /\ received[c] = Start(c) + 1 + (len[c] - qbPos[c]) /\ Start(c) \in Nat
          BY <1>1, <1>4
        <5> QED
          BY ONLY <5>1, <1>5
      <4> QED
        BY Known, <1>1, <1>2, <1>6, <2>3, <2>7, <4>1, SMTT(30) DEF Requests, wireVars
    <3>2. Places(c)'
      BY Known, <1>1, <1>7, <2>2, <2>3 DEF Places, At
    <3>3. Arguments(c)'
      BY <1>1, <1>2, <1>6, <1>7, <2>2, <2>3 DEF Arguments, At, wireVars
    <3>4. Room(c)'
      BY Known, <1>1, <1>7 DEF Room, wireVars
    <3>5. Contents(c)'
      BY Known, <1>1, <1>7, <2>1, <2>3, NextCell DEF Contents, wireVars
    <3>6. Fresh(c)'
      BY <1>1, <1>5, <2>3, <2>6 DEF Fresh
    <3>7. Expecting(c)'
      BY <2>3 DEF Expecting
    <3> QED
      BY <3>1, <3>2, <3>3, <3>4, <3>5, <3>6, <3>7 DEF ClientInv
  <2>9. (cur = NoClient <=> pc = "idle")'
    BY <1>1, <2>2, Constants
  <2> QED
    BY <2>4, <2>5, <2>8, <2>9, Together
<1>8. CASE Type(FirstCell(c)) # "S" /\ Unexpected(c, "short")
  <2>1. FirstCell(c) = NUL /\ qbPos[c] = 0
    BY <1>2, <1>3, <1>5, <1>8 DEF FirstCell
  <2>2. /\ pc' = "trim" /\ stage' = stage /\ status' = status
        /\ UNCHANGED <<qbPos, head, short, long, tasks>>
    BY <1>1, <1>8, <2>1, NotSent DEF Unexpected, ParseInv, Types
  <2>3. Types'
    BY <1>1, <2>2 DEF ParseInv, Types, wireVars, storeVars
  <2>4. Ring' /\ \A x \in Clients : x # c => Untouched(x)
    BY <1>1, <2>2, ParserFrame DEF wireVars
  <2>5. Taken(c)' = Taken(c) /\ (Served(c)' => Served(c))
    BY <1>1, <2>2 DEF Taken, Served, At
  <2>6. ClientInv(c)'
    <3>1. Requests(c)'
      BY Known, <1>1, <1>6, <2>2, <2>5 DEF Requests, wireVars
    <3>2. Places(c)'
      BY Known, <1>1, <2>2 DEF Places, At
    <3>3. Arguments(c)'
      BY Known, <1>1, <1>6, <2>2 DEF Arguments, At, wireVars
    <3>4. Room(c)'
      BY Known, <1>1, <2>2 DEF Room, wireVars
    <3>5. Contents(c)'
      BY Known, <1>1, <2>2 DEF Contents, wireVars
    <3>6. Fresh(c)'
      BY <1>1, <2>2 DEF Fresh
    <3>7. Expecting(c)'
      <4>1. NoneOf(c)' = NoneOf(c) /\ \A p, cell : Brings(c, p, cell)' = Brings(c, p, cell)
        BY <1>1, <2>2 DEF NoneOf, Brings, wireVars
      <4> QED
        BY Known, <1>1, <2>1, <2>2, <4>1 DEF Expecting, wireVars
    <3> QED
      BY <3>1, <3>2, <3>3, <3>4, <3>5, <3>6, <3>7 DEF ClientInv
  <2>7. (cur = NoClient <=> pc = "idle")'
    BY <1>1, <2>2, Constants
  <2> QED
    BY <2>3, <2>4, <2>6, <2>7, Together
<1> QED
  BY <1>7, <1>8 DEF ParseShort

\* The thread goes on to the end of the handler, with nothing else changed.
LEMMA BreakStep ==
    ASSUME ParseInv, NEW c \in Clients, cur = c, pc \in {"loop", "trim"},
           pc' \in {"trim", "terminate"},
           UNCHANGED <<wireVars, clientVars, taskVars, storeVars, cur>>,
           stage[c] = "new" => len[c] = qbPos[c],
           stage[c] = "short" => len[c] = qbPos[c] \/ qbPos[c] = 0
    PROVE  ParseInv'
<1>1. UNCHANGED <<sent, stream, answered, received, buf, len, room, owner, qbPos, stage, head, short,
                  long, descriptor, status, tasks, progress>>
  BY DEF wireVars, clientVars, taskVars
<1>2. Types'
  BY <1>1 DEF ParseInv, Types, storeVars
<1>3. cur' = c /\ status'[c] # "closed"
  BY <1>1, Known DEF Places
<1>4. Ring' /\ \A x \in Clients : x # c => Untouched(x)
  BY <1>1, <1>3, ParserFrame
<1>5. /\ Owed(c)' = Owed(c) /\ Asked(c)' = Asked(c) /\ Size(c)' = Size(c) /\ Start(c)' = Start(c)
  BY <1>1, SameWire
<1>6. Taken(c)' = Taken(c) /\ (Served(c)' <=> Served(c))
  BY <1>1, <1>3, <1>5 DEF Taken, Served, At
<1>7. ClientInv(c)'
  <2>1. Requests(c)'
    BY Known, <1>1, <1>5, <1>6 DEF Requests
  <2>2. Places(c)'
    BY Known, <1>1, <1>3 DEF Places, At
  <2>3. Arguments(c)'
    BY Known, <1>1, <1>5 DEF Arguments, At
  <2>4. Room(c)'
    BY Known, <1>1 DEF Room
  <2>5. Contents(c)'
    BY Known, <1>1 DEF Contents
  <2>6. Fresh(c)'
    <3>1. len[c] \in Nat
      BY Known
    <3> QED
      BY <1>1, <3>1 DEF Fresh
  <2>7. Expecting(c)'
    <3>1. NoneOf(c)' = NoneOf(c) /\ \A p, cell : Brings(c, p, cell)' = Brings(c, p, cell)
      BY <1>1 DEF NoneOf, Brings
    <3>2. len[c] \in Nat /\ qbPos[c] \in Nat
      BY Known
    <3> QED
      BY Known, <1>1, <3>1, <3>2 DEF Expecting
  <2> QED
    BY <2>1, <2>2, <2>3, <2>4, <2>5, <2>6, <2>7 DEF ClientInv
<1>8. (cur = NoClient <=> pc = "idle")'
  BY <1>3, Constants
<1> QED
  BY <1>2, <1>4, <1>7, <1>8, Together

LEMMA LengthStep ==
    ASSUME ParseInv, NEW c \in Clients, ParseLength(c)
    PROVE  ParseInv'
<1>1. /\ cur = c /\ pc = "loop" /\ qbPos[c] < len[c] /\ status[c] = "open" /\ stage[c] = "len"
      /\ UNCHANGED <<wireVars, buf, len, room, owner, descriptor, progress, storeVars, cur>>
  BY DEF ParseLength, Parsing, parseFrame
<1>2. Owed(c) /\ Taken(c) = 2
  <2>1. Taken(c) = 2
    BY <1>1 DEF Taken
  <2> QED
    BY <1>1, <2>1, Counting
<1>3. /\ Start(c) \in Nat /\ received[c] = Start(c) + 2 + (len[c] - qbPos[c])
      /\ len[c] \in Nat /\ qbPos[c] \in Nat /\ qbPos[c] < len[c]
  BY <1>1, <1>2, Counting, Known
<1>4. /\ Owed(c)' /\ Asked(c)' = Asked(c) /\ Size(c)' = Size(c) /\ Start(c)' = Start(c)
  BY <1>1, <1>2, SameWire DEF wireVars
<1>5. CASE /\ Consume(c, "bulk")
           /\ UNCHANGED <<head, short, long, status, tasks, pc>>
  <2>1. /\ qbPos'[c] = qbPos[c] + 1 /\ stage'[c] = "bulk"
        /\ \A x \in Clients : x # c => qbPos'[x] = qbPos[x] /\ stage'[x] = stage[x]
    BY <1>5 DEF ParseInv, Types, Consume
  <2>2. Types'
    <3>1. qbPos' \in [Clients -> Nat]
      <4>1. qbPos \in [Clients -> Nat] /\ qbPos' = [qbPos EXCEPT ![c] = @ + 1]
        BY <1>5 DEF ParseInv, Types, Consume
      <4> QED
        BY ONLY <4>1
    <3>2. stage' \in [Clients -> {"new", "inline", "short", "len", "bulk"}]
      BY <1>5 DEF ParseInv, Types, Consume
    <3> QED
      BY <1>1, <1>5, <3>1, <3>2 DEF ParseInv, Types, wireVars, storeVars
  <2>3. Ring' /\ \A x \in Clients : x # c => Untouched(x)
    BY <1>1, <1>5, <2>1, ParserFrame DEF wireVars
  <2>4. Taken(c)' = 3
    BY <2>1 DEF Taken
  <2>5. ClientInv(c)'
    <3>1. Requests(c)'
      <4>1. received[c] = Start(c) + 3 + (len[c] - (qbPos[c] + 1)) /\ qbPos[c] + 1 <= len[c]
        BY ONLY <1>3
      <4>2. /\ received'[c] = Start(c)' + Taken(c)' + (len'[c] - qbPos'[c])
            /\ qbPos'[c] <= len'[c] /\ len'[c] = len[c] /\ room'[c] = room[c]
        BY <1>1, <1>4, <2>1, <2>4, <4>1 DEF wireVars
      <4>3. UNCHANGED <<sent, answered, received, stream>>
        BY <1>1 DEF wireVars
      <4> QED
        BY Known, <1>2, <1>4, <4>2, <4>3 DEF Requests
    <3>2. Places(c)'
      BY Known, <1>1, <1>5, <2>1 DEF Places, At
    <3>3. Arguments(c)'
      BY Known, <1>1, <1>4, <1>5, <2>1 DEF Arguments, At, wireVars
    <3>4. Room(c)'
      BY Known, <1>1, <1>5 DEF Room, wireVars
    <3>5. Contents(c)'
      BY Known, <1>1, <1>5 DEF Contents, wireVars
    <3>6. Fresh(c)' /\ Expecting(c)'
      BY <2>1 DEF Fresh, Expecting
    <3> QED
      BY <3>1, <3>2, <3>3, <3>4, <3>5, <3>6 DEF ClientInv
  <2>6. (cur = NoClient <=> pc = "idle")'
    BY <1>1, <1>5, Constants
  <2> QED
    BY <2>2, <2>3, <2>5, <2>6, Together
<1>6. CASE Unexpected(c, "len")
  <2>1. /\ pc' = "trim" /\ stage' = stage /\ UNCHANGED <<qbPos, head, short, long, tasks>>
        /\ status' = [status EXCEPT ![c] = IF Type(FirstCell(c)) = "NUL" THEN @ ELSE "garbled"]
    BY <1>1, <1>6 DEF Unexpected, ParseInv, Types
  <2>2. /\ status'[c] \in {"open", "garbled"}
        /\ \A x \in Clients : x # c => status'[x] = status[x]
        /\ status' \in [Clients -> {"open", "blocked", "garbled", "closed"}]
    BY <1>1, <2>1 DEF ParseInv, Types
  <2>3. Types'
    BY <1>1, <2>1, <2>2 DEF ParseInv, Types, wireVars, storeVars
  <2>4. Ring' /\ \A x \in Clients : x # c => Untouched(x)
    BY <1>1, <2>1, <2>2, ParserFrame DEF wireVars
  <2>5. Taken(c)' = Taken(c)
    BY <1>1, <1>2, <2>1 DEF Taken
  <2>6. ClientInv(c)'
    <3>1. Requests(c)'
      BY Known, <1>1, <1>2, <1>4, <2>1, <2>5 DEF Requests, wireVars
    <3>2. Places(c)'
      BY Known, <1>1, <2>1, <2>2 DEF Places, At
    <3>3. Arguments(c)'
      BY Known, <1>1, <1>4, <2>1 DEF Arguments, At, wireVars
    <3>4. Room(c)'
      BY Known, <1>1, <2>1 DEF Room, wireVars
    <3>5. Contents(c)'
      BY Known, <1>1, <2>1 DEF Contents, wireVars
    <3>6. Fresh(c)' /\ Expecting(c)'
      BY <1>1, <2>1 DEF Fresh, Expecting
    <3> QED
      BY <3>1, <3>2, <3>3, <3>4, <3>5, <3>6 DEF ClientInv
  <2>7. (cur = NoClient <=> pc = "idle")'
    BY <1>1, <2>1, Constants
  <2> QED
    BY <2>3, <2>4, <2>6, <2>7, Together
<1> QED
  BY <1>5, <1>6 DEF ParseLength

LEMMA StopStep ==
    ASSUME ParseInv, NEW c \in Clients, StopParsing(c)
    PROVE  ParseInv'
<1>1. /\ cur = c /\ pc = "loop" /\ pc' = "trim" /\ ~(qbPos[c] < len[c] /\ status[c] = "open")
      /\ UNCHANGED <<wireVars, clientVars, taskVars, storeVars, cur>>
  BY DEF StopParsing, Parsing, Break, parseFrame, clientVars, taskVars
<1>2. qbPos[c] \in Nat /\ len[c] \in Nat /\ qbPos[c] <= len[c]
  BY Known DEF Requests
<1>3. stage[c] = "new" => len[c] = qbPos[c]
  BY <1>1, <1>2, Known DEF Fresh
<1>4. stage[c] = "short" => len[c] = qbPos[c]
  BY <1>1, <1>2, Known DEF Expecting
<1> QED
  BY <1>1, <1>3, <1>4, BreakStep

LEMMA BulkStep ==
    ASSUME ParseInv, NEW c \in Clients, ParseBulk(c)
    PROVE  ParseInv'
<1>1. /\ cur = c /\ pc = "loop" /\ qbPos[c] < len[c] /\ status[c] = "open" /\ stage[c] = "bulk"
      /\ UNCHANGED <<wireVars, buf, len, room, owner, descriptor, progress, storeVars, cur>>
  BY DEF ParseBulk, Parsing, parseFrame
<1>2. CASE Break(c)
  <2>1. /\ pc' = "trim" /\ UNCHANGED <<wireVars, clientVars, taskVars, storeVars, cur>>
    BY <1>1, <1>2 DEF Break, clientVars, taskVars
  <2> QED
    BY <1>1, <2>1, BreakStep
<1>3. CASE len[c] - qbPos[c] >= BulkSize /\ ~Break(c)
  <2>t. PICK t : t = [type |-> "value", client |-> c, owner |-> owner[c], from |-> qbPos[c],
                      to |-> 0, size |-> ValueLen, object |-> <<c, sent[c]>>]
    OBVIOUS
  <2>1. /\ Owed(c) /\ Taken(c) = 3 /\ HasValue(Asked(c))
        /\ head[c] = Cell(c, sent[c], 1) /\ short[c] = Cell(c, sent[c], 2) /\ Asked(c) # "empty"
    <3>1. Taken(c) = 3
      BY <1>1 DEF Taken
    <3> QED
      BY <1>1, <3>1, Counting, Known DEF Arguments
  <2>2. /\ Start(c) \in Nat /\ received[c] = Start(c) + 3 + (len[c] - qbPos[c])
        /\ len[c] \in Nat /\ qbPos[c] \in Nat /\ len[c] - qbPos[c] >= ValueLen + 1
        /\ Size(c) = ValueLen + 4 /\ Start(c) + Size(c) = Len(stream[c])
        /\ received[c] <= Len(stream[c])
        /\ sent[c] = answered[c] + 1 /\ <<c, sent[c]>> \in Objects
    BY <1>3, <2>1, Counting, Owing, Known DEF BulkSize
  <2>a. /\ Start(c) \in Nat /\ received[c] = Start(c) + 3 + (len[c] - qbPos[c])
        /\ len[c] \in Nat /\ qbPos[c] \in Nat /\ len[c] - qbPos[c] >= ValueLen + 1
        /\ Size(c) = ValueLen + 4 /\ Start(c) + Size(c) = Len(stream[c])
        /\ received[c] <= Len(stream[c])
    BY <2>2
  <2>3. len[c] = qbPos[c] + (ValueLen + 1)
    BY ONLY <2>a, Numbers, SMTT(30)
  <2>4. /\ tasks' = Append(tasks, t) /\ pc' = "exec"
        /\ long' = [long EXCEPT ![c] = <<c, sent[c]>>]
        /\ qbPos' = [qbPos EXCEPT ![c] = @ + (ValueLen + 1)]
        /\ stage' = [stage EXCEPT ![c] = "new"]
        /\ UNCHANGED <<head, short, status>>
    BY <1>1, <1>3, <2>t, <2>2 DEF ParseBulk, BulkStart, Posted, BulkSize
  <2>5. /\ qbPos'[c] = qbPos[c] + (ValueLen + 1) /\ stage'[c] = "new"
        /\ long'[c] = <<c, sent[c]>>
        /\ \A x \in Clients : x # c =>
             qbPos'[x] = qbPos[x] /\ stage'[x] = stage[x] /\ long'[x] = long[x]
    BY <2>4 DEF ParseInv, Types
  <2>6. room[c] \in Nat /\ len[c] <= room[c] /\ room[c] <= BufMax
    BY Known DEF Requests, Room
  <2>7. t \in TaskType /\ Lives(t) /\ t.client = c /\ t.type = "value"
    <3>1. owner[c] \in Nat
      BY DEF ParseInv, Types
    <3>2. t \in ValueType
      BY <2>t, <2>2, <3>1 DEF ValueType
    <3>3. t.client = c /\ t.type = "value" /\ t.from = qbPos[c] /\ t.to = 0 /\ t.size = ValueLen
          /\ t.owner = owner[c]
      BY <2>t
    <3>4. 0 + ValueLen <= BufMax /\ qbPos[c] + ValueLen <= BufMax
      <4>1. qbPos[c] \in Nat /\ len[c] <= room[c] /\ room[c] \in Nat /\ room[c] <= BufMax
            /\ len[c] \in Nat
        BY <2>a, <2>6
      <4> QED
        BY ONLY <2>3, <4>1, Numbers
    <3> QED
      BY <1>1, <3>2, <3>3, <3>4 DEF TaskType, Lives
  <2>8. /\ Ring' /\ tasks' \in Seq(TaskType) /\ Len(tasks') = Len(tasks) + 1
        /\ tasks'[Len(tasks) + 1] = t
        /\ \A k \in 1 .. Len(tasks) : tasks'[k] = tasks[k]
    BY <1>1, <2>4, <2>7, RingPosted DEF wireVars
  <2>9. Types'
    <3>1. qbPos' \in [Clients -> Nat]
      <4>1. qbPos \in [Clients -> Nat] /\ qbPos' = [qbPos EXCEPT ![c] = @ + (ValueLen + 1)]
        BY <2>4 DEF ParseInv, Types
      <4> QED
        BY ONLY <4>1, Numbers
    <3>2. stage' \in [Clients -> {"new", "inline", "short", "len", "bulk"}]
      BY <2>4 DEF ParseInv, Types
    <3>3. long' \in [Clients -> Objects \cup {NoObject}]
      BY <2>2, <2>4 DEF ParseInv, Types
    <3> QED
      BY <1>1, <2>4, <2>8, <3>1, <3>2, <3>3 DEF ParseInv, Types, wireVars, storeVars
  <2>10. ASSUME NEW x \in Clients, x # c PROVE Untouched(x)
    <3>1. \A k \in 1 .. Len(tasks') :
            tasks'[k].client = x => \E l \in 1 .. Len(tasks) : tasks'[k] = tasks[l]
      <4>1. ASSUME NEW k \in 1 .. Len(tasks'), tasks'[k].client = x PROVE k \in 1 .. Len(tasks)
        <5>1. Len(tasks) \in Nat
          BY DEF ParseInv, Types
        <5>2. k # Len(tasks) + 1
          BY <2>7, <2>8, <2>10, <4>1
        <5> QED
          BY <2>8, <5>1, <5>2
      <4> QED
        BY <2>8, <4>1
    <3> QED
      BY <1>1, <2>4, <2>5, <2>10, <3>1 DEF Untouched, wireVars
  <2>11. /\ Owed(c)' /\ Asked(c)' = Asked(c) /\ Size(c)' = Size(c) /\ Start(c)' = Start(c)
    BY <1>1, <2>1, SameWire DEF wireVars
  <2>12. Taken(c)' = ValueLen + 4
    BY <1>1, <2>2, <2>4, <2>5, <2>11 DEF Taken, Served, At
  <2>13. ClientInv(c)'
    <3>1. Requests(c)'
      <4>1. received[c] = Start(c) + (ValueLen + 4) + (len[c] - (qbPos[c] + (ValueLen + 1)))
        BY ONLY <2>a, <2>3, Numbers
      <4>2. /\ received'[c] = Start(c)' + Taken(c)' + (len'[c] - qbPos'[c])
            /\ qbPos'[c] = len'[c] /\ len'[c] = len[c] /\ room'[c] = room[c]
        BY <1>1, <2>3, <2>5, <2>11, <2>12, <4>1 DEF wireVars
      <4>3. UNCHANGED <<sent, answered, received, stream>>
        BY <1>1 DEF wireVars
      <4>4. qbPos'[c] <= len'[c]
        BY <2>2, <4>2
      <4> QED
        BY Known, <2>1, <2>11, <4>2, <4>3, <4>4 DEF Requests
    <3>2. Places(c)'
      BY Known, <1>1, <2>4, <2>5 DEF Places, At
    <3>3. Arguments(c)'
      BY <1>1, <2>1, <2>4, <2>5, <2>11 DEF Arguments, At, wireVars
    <3>4. Room(c)'
      BY <1>1, <2>6 DEF Room
    <3>5. Contents(c)'
      BY Known, <1>1, <2>4 DEF Contents, wireVars
    <3>6. Fresh(c)' /\ Expecting(c)'
      BY <1>1, <2>2, <2>3, <2>5 DEF Fresh, Expecting
    <3> QED
      BY <3>1, <3>2, <3>3, <3>4, <3>5, <3>6 DEF ClientInv
  <2>14. (cur = NoClient <=> pc = "idle")'
    BY <1>1, <2>4, Constants
  <2> QED
    BY <2>8, <2>9, <2>10, <2>13, <2>14, Together
<1> QED
  BY <1>2, <1>3 DEF ParseBulk

LEMMA ExecuteStep ==
    ASSUME ParseInv, NEW c \in Clients, Execute(c)
    PROVE  ParseInv'
<1>1. /\ cur = c /\ pc = "exec" /\ cur' = c
      /\ UNCHANGED <<wireVars, buf, len, room, owner, qbPos, stage, head, short, long, descriptor,
                     taskVars, objects>>
      /\ \/ status' = [status EXCEPT ![c] = "blocked"] /\ pc' = "loop"
         \/ status' = status /\ pc' = "reset"
  BY DEF Execute
<1>2. /\ stage[c] = "new" /\ status[c] = "open" /\ Served(c) /\ Owed(c) /\ len[c] = qbPos[c]
      /\ head[c] = Cell(c, sent[c], 1) /\ Kind(head[c]) = Asked(c)
      /\ HasValue(Asked(c)) => long[c] \in Objects
  <2>1. stage[c] = "new" /\ status[c] = "open" /\ Served(c) /\ At(c, "exec")
    BY Known, <1>1 DEF Places, At, Served
  <2>2. Owed(c) /\ len[c] = qbPos[c] /\ head[c] = Cell(c, sent[c], 1)
    BY Known, Counting, <2>1 DEF Arguments
  <2>3. Kind(head[c]) = Asked(c)
    BY <2>2, CellParts, Known DEF Asked
  <2>4. HasValue(Asked(c)) => long[c] \in Objects
    BY Known, Owing, <2>1, <2>2 DEF Arguments
  <2> QED
    BY <2>1, <2>2, <2>3, <2>4
<1>3. /\ status'[c] \in {"open", "blocked"}
      /\ status'[c] = "open" => pc' = "reset"
      /\ status'[c] = "blocked" => pc' = "loop"
      /\ \A x \in Clients : x # c => status'[x] = status[x]
      /\ status' \in [Clients -> {"open", "blocked", "garbled", "closed"}]
  BY <1>1, <1>2 DEF ParseInv, Types
<1>4. Types'
  <2>1. long[c] \in Objects \cup {NoObject} /\ db \in Objects \cup {NoObject} /\ freed \subseteq Objects
    BY DEF ParseInv, Types
  <2>2. db' \in Objects \cup {NoObject}
    BY <2>1 DEF Execute
  <2>3. Dropped(c) \subseteq Objects
    BY <1>2, <2>1 DEF Dropped, HasValue
  <2>4. freed' \subseteq Objects
    BY <2>1, <2>3 DEF Execute
  <2>5. ASSUME NEW o \in Objects
        PROVE  [object |-> o, value |-> objects[o]] \in [object : Objects \cup {NoObject}, value : Seq(Memory)]
    <3>1. PICK n \in Nat : n = ValueLen
      BY Numbers
    <3>2. objects[o] \in [1 .. n -> Memory]
      BY <3>1 DEF ParseInv, Types
    <3>3. objects[o] \in Seq(Memory)
      BY <3>2
    <3> QED
      BY <3>3
  <2>6. used' \in [Clients -> [object : Objects \cup {NoObject}, value : Seq(Memory)]]
    <3>1. \/ used' = used
          \/ \E o \in Objects : used' = [used EXCEPT ![c] = [object |-> o, value |-> objects[o]]]
      BY <1>2, <2>1 DEF Execute, HasValue
    <3>2. used \in [Clients -> [object : Objects \cup {NoObject}, value : Seq(Memory)]]
      BY DEF ParseInv, Types
    <3> QED
      BY <2>5, <3>1, <3>2
  <2> QED
    BY <1>1, <1>3, <2>2, <2>4, <2>6 DEF ParseInv, Types, wireVars, taskVars
<1>5. Ring' /\ \A x \in Clients : x # c => Untouched(x)
  BY <1>1, <1>3, ParserFrame DEF wireVars, taskVars
<1>6. /\ Owed(c)' /\ Asked(c)' = Asked(c) /\ Size(c)' = Size(c) /\ Start(c)' = Start(c)
  BY <1>1, <1>2, SameWire DEF wireVars
<1>7. Taken(c)' = Taken(c)
  BY <1>1, <1>2, <1>3, <1>6 DEF Taken, Served, At
<1>8. ClientInv(c)'
  <2>1. Requests(c)'
    BY Known, <1>1, <1>2, <1>6, <1>7 DEF Requests, wireVars
  <2>2. Places(c)'
    BY Known, <1>1, <1>2, <1>3 DEF Places, At
  <2>3. Arguments(c)'
    BY <1>1, <1>2 DEF Arguments, At
  <2>4. Room(c)'
    BY Known, <1>1 DEF Room, wireVars, taskVars
  <2>5. Contents(c)'
    BY Known, <1>1 DEF Contents, wireVars
  <2>6. Fresh(c)' /\ Expecting(c)'
    <3>1. len[c] \in Nat
      BY Known
    <3> QED
      BY <1>1, <1>2, <3>1 DEF Fresh, Expecting
  <2> QED
    BY <2>1, <2>2, <2>3, <2>4, <2>5, <2>6 DEF ClientInv
<1>9. (cur = NoClient <=> pc = "idle")'
  BY <1>1, Constants
<1> QED
  BY <1>4, <1>5, <1>8, <1>9, Together

\* The request whose command has run is answered.
LEMMA AnswerStep ==
    ASSUME ParseInv, NEW c \in Clients, Served(c), stage[c] = "new",
           answered' = [answered EXCEPT ![c] = @ + 1],
           head' = [head EXCEPT ![c] = NUL], short' = [short EXCEPT ![c] = NUL],
           long' = [long EXCEPT ![c] = NoObject],
           UNCHANGED <<sent, stream, received, buf, len, room, owner, qbPos, stage, descriptor,
                       taskVars, storeVars, cur>>,
           status' = [status EXCEPT ![c] = "open"],
           (cur = c /\ pc' = "loop") \/ (cur = NoClient /\ pc = "idle" /\ pc' = "idle")
    PROVE  ParseInv'
<1>1. /\ Owed(c) /\ len[c] = qbPos[c] /\ sent[c] = answered[c] + 1
      /\ received[c] = Len(stream[c])
  <2>1. Owed(c) /\ len[c] = qbPos[c] /\ Taken(c) = Size(c) /\ Start(c) + Size(c) = Len(stream[c])
        /\ received[c] = Start(c) + Taken(c) + (len[c] - qbPos[c])
    BY Counting
  <2>2. Start(c) \in Nat /\ Size(c) \in Nat /\ sent[c] = answered[c] + 1
    BY <2>1, Owing
  <2>3. len[c] \in Nat /\ qbPos[c] \in Nat
    BY Known
  <2>4. received[c] = Len(stream[c])
    BY ONLY <2>1, <2>2, <2>3
  <2> QED
    BY <2>1, <2>2, <2>4
<1>2. answered[c] \in Nat /\ sent[c] \in Nat /\ Len(stream[c]) \in Nat /\ len[c] \in Nat
  BY Known
<1>3. /\ answered'[c] = sent[c] /\ head'[c] = NUL /\ short'[c] = NUL
      /\ \A x \in Clients : x # c => answered'[x] = answered[x]
  BY <1>1 DEF ParseInv, Types
<1>4. /\ status'[c] = "open"
      /\ \A x \in Clients : x # c => /\ head'[x] = head[x] /\ short'[x] = short[x]
                                     /\ long'[x] = long[x] /\ status'[x] = status[x]
  BY DEF ParseInv, Types
<1>5. Types'
  <2>1. answered' \in [Clients -> Nat]
    BY <1>2 DEF ParseInv, Types
  <2>2. head' \in [Clients -> Memory] /\ short' \in [Clients -> Memory]
    BY DEF ParseInv, Types, Memory
  <2>3. long' \in [Clients -> Objects \cup {NoObject}]
    BY DEF ParseInv, Types
  <2>4. status' \in [Clients -> {"open", "blocked", "garbled", "closed"}]
    BY DEF ParseInv, Types
  <2> QED
    BY <2>1, <2>2, <2>3, <2>4 DEF ParseInv, Types, taskVars, storeVars
<1>6. Ring'
  <2>1. \A x \in Clients : status'[x] = "closed" => status[x] = "closed"
    BY <1>4
  <2> QED
    BY <2>1, RingSame DEF taskVars
<1>7. ASSUME NEW x \in Clients, x # c PROVE Untouched(x)
  BY <1>3, <1>4, <1>7 DEF Untouched, taskVars
<1>8. /\ ~Owed(c)' /\ Start(c)' = Len(stream[c])
  <2>1. ~Owed(c)'
    BY <1>2, <1>3 DEF Owed
  <2> QED
    BY <1>2, <2>1 DEF Start
<1>9. ~Served(c)' /\ Taken(c)' = 0
  <2>1. ~Served(c)'
    BY <1>4, Constants DEF Served, At
  <2> QED
    BY <2>1 DEF Taken
<1>10. ClientInv(c)'
  <2>1. Requests(c)'
    <3>1. /\ answered'[c] <= sent[c] /\ sent[c] <= answered'[c] + 1
          /\ Len(stream[c]) = Len(stream[c]) + 0 + (len[c] - qbPos[c])
      BY ONLY <1>1, <1>2, <1>3
    <3> QED
      BY Known, <1>1, <1>2, <1>8, <1>9, <3>1 DEF Requests
  <2>2. Places(c)'
    BY Known, <1>4, Idle, Constants DEF Places, At
  <2>3. Arguments(c)'
    BY Constants DEF Arguments, At
  <2>4. Room(c)'
    BY Known DEF Room, taskVars
  <2>5. Contents(c)'
    BY Known, <1>3 DEF Contents
  <2>6. Fresh(c)' /\ Expecting(c)'
    BY <1>1, <1>2 DEF Fresh, Expecting
  <2> QED
    BY <2>1, <2>2, <2>3, <2>4, <2>5, <2>6 DEF ClientInv
<1>11. (cur = NoClient <=> pc = "idle")'
  BY Constants
<1> QED
  BY <1>5, <1>6, <1>7, <1>10, <1>11, Together

LEMMA ResetStep ==
    ASSUME ParseInv, NEW c \in Clients, Reset(c)
    PROVE  ParseInv'
<1>1. /\ At(c, "reset") /\ cur = c /\ pc' = "loop"
      /\ answered' = [answered EXCEPT ![c] = @ + 1]
      /\ head' = [head EXCEPT ![c] = NUL] /\ short' = [short EXCEPT ![c] = NUL]
      /\ long' = [long EXCEPT ![c] = NoObject]
      /\ UNCHANGED <<sent, stream, received, buf, len, room, owner, qbPos, stage, descriptor,
                     status, taskVars, storeVars, cur>>
  BY DEF Reset, At
<1>2. Served(c) /\ stage[c] = "new" /\ status[c] = "open"
  BY <1>1, Known DEF Served, Places
<1>3. status' = [status EXCEPT ![c] = "open"]
  BY <1>1, <1>2 DEF ParseInv, Types
<1> QED
  BY <1>1, <1>2, <1>3, AnswerStep

LEMMA UnblockStep ==
    ASSUME ParseInv, NEW c \in Clients, Unblock(c)
    PROVE  ParseInv'
<1>1. /\ pc = "idle" /\ status[c] = "blocked"
      /\ status' = [status EXCEPT ![c] = "open"]
      /\ answered' = [answered EXCEPT ![c] = @ + 1]
      /\ head' = [head EXCEPT ![c] = NUL] /\ short' = [short EXCEPT ![c] = NUL]
      /\ long' = [long EXCEPT ![c] = NoObject]
      /\ UNCHANGED <<sent, stream, received, buf, len, room, owner, qbPos, stage, descriptor,
                     taskVars, storeVars>>
  BY DEF Unblock
<1>2. Served(c) /\ stage[c] = "new"
  BY <1>1, Known DEF Served, Places
<1>3. len[c] = 0 /\ cur = NoClient
  BY <1>1, <1>2, Idle
<1>4. pc' = "idle" /\ cur' = cur
  BY <1>3 DEF Unblock
<1> QED
  BY <1>1, <1>2, <1>3, <1>4, AnswerStep

LEMMA CloseStep ==
    ASSUME ParseInv, NEW c \in Clients, Close(c)
    PROVE  ParseInv'
<1>1. /\ pc = "idle" /\ status[c] = "open" /\ answered[c] = Len(Script[c]) /\ tasks = <<>>
      /\ status' = [status EXCEPT ![c] = "closed"]
      /\ UNCHANGED <<sent, stream, answered, received, buf, len, room, owner, qbPos, stage, head, short,
                     long, descriptor, tasks, progress, storeVars, pc, cur>>
  BY DEF Close, wireVars, taskVars
<1>2. /\ status'[c] = "closed"
      /\ \A x \in Clients : x # c => status'[x] = status[x]
      /\ status' \in [Clients -> {"open", "blocked", "garbled", "closed"}]
  BY <1>1 DEF ParseInv, Types
<1>3. cur = NoClient /\ cur # c /\ ~Served(c)
  BY <1>1, Idle
<1>4. ~Owed(c) /\ stage[c] = "new" /\ len[c] = qbPos[c] /\ len[c] \in Nat
  <2>1. sent[c] <= Len(Script[c]) /\ sent[c] \in Nat /\ answered[c] \in Nat
    BY Known DEF Requests
  <2>2. ~Owed(c)
    BY <1>1, <2>1 DEF Owed
  <2> QED
    BY <2>2, Counting, Known DEF Requests
<1>5. Types'
  BY <1>1, <1>2 DEF ParseInv, Types, storeVars
<1>6. Ring'
  BY <1>1 DEF ParseInv, Ring
<1>7. ASSUME NEW x \in Clients, x # c PROVE Untouched(x)
  BY <1>1, <1>2, <1>7 DEF Untouched
<1>8. /\ ~Owed(c)' /\ Asked(c)' = Asked(c) /\ Size(c)' = Size(c) /\ Start(c)' = Start(c)
  BY <1>1, <1>4, SameWire
<1>9. ~Served(c)' /\ Taken(c)' = Taken(c)
  <2>1. ~Served(c)'
    BY <1>1, <1>2, <1>3 DEF Served, At
  <2> QED
    BY <1>1, <1>3, <1>4, <2>1 DEF Taken
<1>10. ClientInv(c)'
  <2>1. Requests(c)'
    BY Known, <1>1, <1>4, <1>8, <1>9 DEF Requests
  <2>2. Places(c)'
    BY Known, <1>1, <1>2, <1>3 DEF Places, At
  <2>3. Arguments(c)'
    BY <1>1, <1>3, <1>4 DEF Arguments, At
  <2>4. Room(c)'
    BY Known, <1>1 DEF Room
  <2>5. Contents(c)'
    BY Known, <1>1 DEF Contents
  <2>6. Fresh(c)' /\ Expecting(c)'
    BY <1>1, <1>4 DEF Fresh, Expecting
  <2> QED
    BY <2>1, <2>2, <2>3, <2>4, <2>5, <2>6 DEF ClientInv
<1>11. (cur = NoClient <=> pc = "idle")'
  BY <1>1, <1>3
<1> QED
  BY <1>5, <1>6, <1>7, <1>10, <1>11, Together

LEMMA TrimStep ==
    ASSUME ParseInv, NEW c \in Clients, Trim(c)
    PROVE  ParseInv'
<1> PICK rest : rest = len[c] - qbPos[c]
  OBVIOUS
<1>1. /\ cur = c /\ pc = "trim" /\ pc' = "terminate"
      /\ UNCHANGED <<wireVars, len, room, owner, qbPos, stage, head, short, long, descriptor, status,
                     progress, storeVars, cur>>
  BY DEF Trim
<1>2. qbPos[c] \in Nat /\ len[c] \in Nat /\ qbPos[c] <= len[c] /\ len[c] <= room[c] /\ room[c] \in Nat
  BY Known DEF Requests
<1>3. /\ stage[c] = "new" => len[c] = qbPos[c]
      /\ stage[c] = "short" => len[c] = qbPos[c] \/ qbPos[c] = 0
  <2>1. ~At(c, "loop")
    BY <1>1 DEF At
  <2> QED
    BY <1>2, <2>1, Known DEF Fresh, Expecting
<1>4. status[c] # "closed"
  BY <1>1, Known DEF Places
<1>5. CASE ~(qbPos[c] > 0 /\ rest > 0)
  <2>1. UNCHANGED <<wireVars, clientVars, taskVars, storeVars, cur>>
    BY <1>1, <1>5 DEF Trim, RestStart, clientVars, taskVars
  <2> QED
    BY <1>1, <1>3, <2>1, BreakStep
<1>6. CASE qbPos[c] > 0 /\ rest > 0
  <2>1. /\ stage[c] \notin {"new", "short"} /\ rest \in Nat \ {0} /\ len[c] = qbPos[c] + rest
        /\ rest <= len[c]
    BY <1>2, <1>3, <1>6
  <2>2. room[c] <= BufMax /\ len[c] <= BufMax
    <3>1. room[c] <= BufMax
      BY Known DEF Room
    <3> QED
      BY ONLY <1>2, <3>1, Numbers
  <2>3. /\ Owed(c)' = Owed(c) /\ Asked(c)' = Asked(c) /\ Size(c)' = Size(c) /\ Start(c)' = Start(c)
    BY <1>1, SameWire DEF wireVars
  <2>4. Taken(c)' = Taken(c) /\ (Served(c)' <=> Served(c))
    BY <1>1, <2>3 DEF Taken, Served, At
  <2>5. CASE AsyncTrim
    <3>t. PICK t : t = [type |-> "move", client |-> c, owner |-> owner[c], from |-> qbPos[c],
                        to |-> 0, size |-> rest]
      OBVIOUS
    <3>1. tasks' = Append(tasks, t) /\ buf' = buf
      BY <1>6, <2>5, <3>t DEF Trim, RestStart, Posted
    <3>2. t \in TaskType /\ Lives(t) /\ t.client = c /\ t.type = "move"
      <4>1. owner[c] \in Nat
        BY DEF ParseInv, Types
      <4>2. t \in MoveType
        BY <1>2, <2>1, <3>t, <4>1 DEF MoveType
      <4>3. t.client = c /\ t.type = "move" /\ t.from = qbPos[c] /\ t.to = 0 /\ t.size = rest
            /\ t.owner = owner[c]
        BY <3>t
      <4>4. 0 + rest <= BufMax /\ qbPos[c] + rest <= BufMax
        BY ONLY <1>2, <2>1, <2>2, Numbers
      <4> QED
        BY <1>4, <4>2, <4>3, <4>4 DEF TaskType, Lives
    <3>3. /\ Ring' /\ tasks' \in Seq(TaskType) /\ Len(tasks') = Len(tasks) + 1
          /\ tasks'[Len(tasks) + 1] = t
          /\ \A k \in 1 .. Len(tasks) : tasks'[k] = tasks[k]
      BY <1>1, <3>1, <3>2, RingPosted DEF wireVars
    <3>4. Types'
      BY <1>1, <3>1, <3>3 DEF ParseInv, Types, wireVars, storeVars
    <3>5. ASSUME NEW x \in Clients, x # c PROVE Untouched(x)
      <4>1. \A k \in 1 .. Len(tasks') :
              tasks'[k].client = x => \E l \in 1 .. Len(tasks) : tasks'[k] = tasks[l]
        <5>1. ASSUME NEW k \in 1 .. Len(tasks'), tasks'[k].client = x PROVE k \in 1 .. Len(tasks)
          <6>1. Len(tasks) \in Nat
            BY DEF ParseInv, Types
          <6>2. k # Len(tasks) + 1
            BY <3>2, <3>3, <3>5, <5>1
          <6> QED
            BY <3>3, <6>1, <6>2
        <5> QED
          BY <3>3, <5>1
      <4> QED
        BY <1>1, <3>1, <3>5, <4>1 DEF Untouched, wireVars
    <3>6. ClientInv(c)'
      <4>1. Requests(c)'
        BY Known, <1>1, <2>3, <2>4 DEF Requests, wireVars
      <4>2. Places(c)'
        BY Known, <1>1 DEF Places, At
      <4>3. Arguments(c)'
        BY Known, <1>1, <2>3 DEF Arguments, At, wireVars
      <4>4. Room(c)'
        BY <1>1, <2>2 DEF Room
      <4>5. Contents(c)'
        BY Known, <1>1, <3>1 DEF Contents, wireVars
      <4>6. Fresh(c)' /\ Expecting(c)'
        BY <1>1, <2>1 DEF Fresh, Expecting
      <4> QED
        BY <4>1, <4>2, <4>3, <4>4, <4>5, <4>6 DEF ClientInv
    <3>7. (cur = NoClient <=> pc = "idle")'
      BY <1>1, Constants
    <3> QED
      BY <3>3, <3>4, <3>5, <3>6, <3>7, Together
  <2>6. CASE ~AsyncTrim
    <3>1. /\ tasks' = tasks
          /\ buf' = [buf EXCEPT ![c] = [p \in Positions |-> IF p < rest THEN @[p + qbPos[c]] ELSE @[p]]]
      BY <1>6, <2>6 DEF Trim, RestStart
    <3>2. ASSUME NEW p \in Positions, p < rest PROVE p + qbPos[c] \in Positions
      <4>1. p \in Nat
        BY DEF Positions
      <4> QED
        BY <1>2, <2>1, <2>2, <3>2, <4>1, Numbers DEF Positions
    <3>3. /\ \A p \in Positions : buf'[c][p] = IF p < rest THEN buf[c][p + qbPos[c]] ELSE buf[c][p]
          /\ \A x \in Clients : x # c => buf'[x] = buf[x]
          /\ buf' \in [Clients -> [Positions -> Memory]]
      <4>1. buf \in [Clients -> [Positions -> Memory]]
        BY DEF ParseInv, Types
      <4>2. [p \in Positions |-> IF p < rest THEN buf[c][p + qbPos[c]] ELSE buf[c][p]]
                \in [Positions -> Memory]
        BY <3>2, <4>1
      <4> QED
        BY <3>1, <4>1, <4>2
    <3>4. Types'
      BY <1>1, <3>1, <3>3 DEF ParseInv, Types, wireVars, storeVars
    <3>5. Ring'
      BY <1>1, <3>1, RingSame DEF wireVars
    <3>6. ASSUME NEW x \in Clients, x # c PROVE Untouched(x)
      BY <1>1, <3>1, <3>3, <3>6 DEF Untouched, wireVars
    <3>7. ClientInv(c)'
      <4>1. Requests(c)'
        BY Known, <1>1, <2>3, <2>4 DEF Requests, wireVars
      <4>2. Places(c)'
        BY Known, <1>1 DEF Places, At
      <4>3. Arguments(c)'
        BY Known, <1>1, <2>3 DEF Arguments, At, wireVars
      <4>4. Room(c)'
        BY <1>1, <2>2 DEF Room
      <4>5. Contents(c)'
        <5>1. \A p \in Positions : buf'[c][p] \in Range(stream[c]) \cup {NUL}
          BY Known, <3>2, <3>3 DEF Contents
        <5> QED
          BY Known, <1>1, <5>1 DEF Contents, wireVars
      <4>6. Fresh(c)' /\ Expecting(c)'
        BY <1>1, <2>1 DEF Fresh, Expecting
      <4> QED
        BY <4>1, <4>2, <4>3, <4>4, <4>5, <4>6 DEF ClientInv
    <3>8. (cur = NoClient <=> pc = "idle")'
      BY <1>1, Constants
    <3> QED
      BY <3>4, <3>5, <3>6, <3>7, <3>8, Together
  <2> QED
    BY <2>5, <2>6
<1> QED
  BY <1>5, <1>6

LEMMA TerminateStep ==
    ASSUME ParseInv, NEW c \in Clients, Terminate(c)
    PROVE  ParseInv'
<1>1. /\ cur = c /\ pc = "terminate" /\ pc' = "idle" /\ cur' = NoClient
      /\ UNCHANGED <<wireVars, room, owner, stage, head, short, long, descriptor, status,
                     taskVars, storeVars>>
  BY DEF Terminate
<1>2. /\ qbPos[c] \in Nat /\ len[c] \in Nat /\ qbPos[c] <= len[c] /\ len[c] <= room[c]
      /\ room[c] \in Nat
  BY Known DEF Requests
<1>3. /\ stage[c] = "new" => len[c] = qbPos[c]
      /\ stage[c] = "short" => len[c] = qbPos[c] \/ qbPos[c] = 0
  <2>1. ~At(c, "loop")
    BY <1>1 DEF At
  <2> QED
    BY <1>2, <2>1, Known DEF Fresh, Expecting
<1>4. /\ qbPos'[c] = 0 /\ len'[c] = len[c] - qbPos[c] /\ len'[c] \in Nat
      /\ \A x \in Clients : x # c => qbPos'[x] = qbPos[x] /\ len'[x] = len[x]
      /\ qbPos' \in [Clients -> Nat] /\ len' \in [Clients -> Nat]
  <2>1. qbPos \in [Clients -> Nat] /\ len \in [Clients -> Nat]
    BY DEF ParseInv, Types
  <2>2. CASE qbPos[c] > 0
    <3>1. /\ len' = [len EXCEPT ![c] = @ - qbPos[c]]
          /\ qbPos' = [qbPos EXCEPT ![c] = 0]
      BY <2>2 DEF Terminate
    <3>2. len[c] - qbPos[c] \in Nat
      BY <1>2
    <3> QED
      BY <2>1, <3>1, <3>2
  <2>3. CASE ~(qbPos[c] > 0)
    <3>1. qbPos[c] = 0 /\ qbPos' = qbPos /\ len' = len
      BY <1>2, <2>3 DEF Terminate
    <3> QED
      BY <1>2, <2>1, <3>1
  <2> QED
    BY <2>2, <2>3
<1>5. /\ \A p \in Positions : buf'[c][p] \in {buf[c][p], NUL}
      /\ \A x \in Clients : x # c => buf'[x] = buf[x]
      /\ buf' \in [Clients -> [Positions -> Memory]]
      /\ qbPos[c] = 0 => buf' = buf
      /\ qbPos[c] > 0 /\ len[c] = qbPos[c] => buf'[c][0] = NUL
  <2>1. buf \in [Clients -> [Positions -> Memory]] /\ NUL \in Memory
    BY DEF ParseInv, Types, Memory
  <2>2. CASE qbPos[c] > 0
    <3>1. buf' = [buf EXCEPT ![c] = [@ EXCEPT ![RestEnd(c)] = NUL]]
      BY <2>2 DEF Terminate
    <3>2. /\ buf'[c] = [buf[c] EXCEPT ![RestEnd(c)] = NUL]
          /\ \A x \in Clients : x # c => buf'[x] = buf[x]
          /\ buf' \in [Clients -> [Positions -> Memory]]
      BY <2>1, <3>1
    <3>3. \A p \in Positions : buf'[c][p] \in {buf[c][p], NUL}
      BY <2>1, <3>2
    <3>4. len[c] = qbPos[c] => buf'[c][0] = NUL
      <4>1. len[c] = qbPos[c] => RestEnd(c) = 0
        BY <1>2 DEF RestEnd
      <4>2. 0 \in Positions
        BY Numbers DEF Positions
      <4> QED
        BY <2>1, <3>2, <4>1, <4>2
    <3> QED
      BY <2>2, <3>2, <3>3, <3>4
  <2>3. CASE ~(qbPos[c] > 0)
    <3>1. buf' = buf
      BY <2>3 DEF Terminate
    <3> QED
      BY <2>1, <2>3, <3>1
  <2> QED
    BY <2>2, <2>3
<1>6. Types'
  BY <1>1, <1>4, <1>5 DEF ParseInv, Types, wireVars, taskVars, storeVars
<1>7. Ring'
  BY <1>1, RingSame DEF wireVars, taskVars
<1>8. ASSUME NEW x \in Clients, x # c PROVE Untouched(x)
  BY <1>1, <1>4, <1>5, <1>8, Constants DEF Untouched, wireVars, taskVars
<1>9. /\ Owed(c)' = Owed(c) /\ Asked(c)' = Asked(c) /\ Size(c)' = Size(c) /\ Start(c)' = Start(c)
  BY <1>1, SameWire DEF wireVars
<1>10. Taken(c)' = Taken(c) /\ (Served(c)' <=> Served(c))
  BY <1>1, <1>9 DEF Taken, Served, At
<1>11. ClientInv(c)'
  <2>1. Requests(c)'
    <3>1. received[c] = Start(c) + Taken(c) + (len[c] - qbPos[c]) /\ Start(c) \in Nat /\ Taken(c) \in Nat
      BY Counting
    <3>2. received[c] = Start(c) + Taken(c) + (len'[c] - qbPos'[c])
      BY ONLY <1>2, <1>4, <3>1
    <3>3. qbPos'[c] <= len'[c] /\ len'[c] <= room[c]
      BY ONLY <1>2, <1>4
    <3> QED
      BY Known, <1>1, <1>9, <1>10, <3>2, <3>3 DEF Requests, wireVars
  <2>2. Places(c)'
    BY Known, <1>1, <1>4, Constants DEF Places, At
  <2>3. Arguments(c)'
    BY Known, <1>1, <1>9 DEF Arguments, At, wireVars
  <2>4. Room(c)'
    BY Known, <1>1 DEF Room, wireVars, taskVars
  <2>5. Contents(c)'
    <3>1. \A p \in Positions : buf'[c][p] \in Range(stream[c]) \cup {NUL}
      BY Known, <1>5 DEF Contents
    <3> QED
      BY Known, <1>1, <3>1 DEF Contents, wireVars
  <2>6. Fresh(c)'
    BY <1>1, <1>2, <1>3, <1>4 DEF Fresh
  <2>7. Expecting(c)'
    <3>1. SUFFICES ASSUME stage[c] = "short" PROVE Expecting(c)'
      BY <1>1 DEF Expecting
    <3>2. NoneOf(c)' = NoneOf(c) /\ \A p, cell : Brings(c, p, cell)' = Brings(c, p, cell)
      BY <1>1 DEF NoneOf, Brings, wireVars, taskVars
    <3>3. CASE len[c] = qbPos[c]
      <4>1. NoneOf(c) /\ (qbPos[c] = 0 => buf[c][0] = NUL) /\ status[c] = "open"
        BY <3>1, <3>3, Known DEF Expecting
      <4>2. len'[c] = 0 /\ buf'[c][0] = NUL
        BY <1>2, <1>4, <1>5, <3>3, <4>1
      <4> QED
        BY <1>1, <1>4, <3>2, <4>1, <4>2 DEF Expecting
    <3>4. CASE len[c] # qbPos[c]
      <4>1. qbPos[c] = 0 /\ len'[c] = len[c] /\ buf' = buf
        BY <1>2, <1>3, <1>4, <1>5, <3>1, <3>4
      <4> QED
        BY Known, <1>1, <1>4, <3>1, <3>2, <3>4, <4>1 DEF Expecting, wireVars
    <3> QED
      BY <3>3, <3>4
  <2> QED
    BY <2>1, <2>2, <2>3, <2>4, <2>5, <2>6, <2>7 DEF ClientInv
<1>12. (cur = NoClient <=> pc = "idle")'
  BY <1>1
<1> QED
  BY <1>6, <1>7, <1>8, <1>11, <1>12, Together

\* The first cells reported are Chunk cells at least.
LEMMA WholeChunks ==
    ASSUME NEW n \in Nat, n >= 1, NEW m \in Nat, m >= 1, n % m = 0
    PROVE  m <= n
  BY SMTT(30)

\* The cell that the copy t moves as its number k + 1, and whether it goes to a
\* query buffer: neither from nor to one that has moved.
Moved(t, k) ==
    IF t.type = "recv" THEN stream[t.client][t.from + k + 1]
    ELSE IF Stale(t) THEN NUL ELSE buf[t.client][t.from + k]
Lands(t) == t.type # "value" /\ ~Stale(t)

\* What Copier does with the next cell of the oldest copy t.
LEMMA Copying ==
    ASSUME ParseInv, CopyCell,
           NEW t, t = tasks[1], NEW c, c = t.client, NEW k, k = progress,
           NEW source, source = Moved(t, k)
    PROVE  /\ tasks # <<>> /\ t \in TaskType /\ Lives(t) /\ c \in Clients
           /\ k \in Nat /\ k < t.size /\ t.to + k \in Positions
           /\ source \in Range(stream[c]) \cup {NUL} /\ source \in Memory
           /\ UNCHANGED <<wireVars, len, room, owner, qbPos, stage, head, short, long, status,
                          freed, db, used, pc, cur>>
           /\ buf' = IF Lands(t) THEN [buf EXCEPT ![c][t.to + k] = source] ELSE buf
           /\ objects' = IF t.type = "value" /\ t.object \notin freed
                         THEN [objects EXCEPT ![t.object][k + 1] = source] ELSE objects
           /\ descriptor' = IF t.type = "recv" /\ (k + 1 = t.size \/ (k + 1) % Chunk = 0)
                            THEN [descriptor EXCEPT ![c] = t.to + k] ELSE descriptor
           /\ tasks' = IF k + 1 = t.size THEN Tail(tasks) ELSE tasks
           /\ progress' = IF k + 1 = t.size THEN 0 ELSE k + 1
<1>1. tasks # <<>> /\ Head(tasks) = t
  BY DEF CopyCell, ParseInv, Types
<1>2. 1 \in 1 .. Len(tasks) /\ tasks \in Seq(TaskType)
  BY <1>1 DEF ParseInv, Types
<1>3. t \in TaskType /\ Lives(t)
  BY <1>2, TaskOf
<1>4. c \in Clients /\ t.from \in Nat /\ t.to \in Nat /\ t.size \in Nat
  BY <1>3, TaskParts
<1>5. k \in Nat /\ k < t.size
  BY <1>1 DEF ParseInv, Types, Ring
<1>6. /\ t.to + t.size <= BufMax
      /\ t.type = "recv" => t.from + t.size <= Len(stream[c])
      /\ t.type # "recv" => t.from + t.size <= BufMax
  BY <1>3 DEF Lives
<1>7. t.to + k \in Positions
  BY ONLY <1>4, <1>5, <1>6, Numbers DEF Positions
<1>8. source \in Range(stream[c]) \cup {NUL}
  <2>1. CASE t.type = "recv"
    <3>1. stream[c] \in Seq(CellType) /\ Len(stream[c]) \in Nat
      BY <1>4, Known
    <3>2. t.from + k + 1 \in 1 .. Len(stream[c])
      BY ONLY <1>4, <1>5, <1>6, <2>1, <3>1
    <3>3. source = stream[c][t.from + k + 1]
      BY <2>1 DEF Moved
    <3> QED
      BY ONLY <3>1, <3>2, <3>3 DEF Range
  <2>2. CASE t.type # "recv"
    <3>1. t.from + k \in Positions
      BY ONLY <1>4, <1>5, <1>6, <2>2, Numbers DEF Positions
    <3>2. source \in {NUL, buf[c][t.from + k]}
      BY <2>2 DEF Moved
    <3> QED
      BY <1>4, <3>1, <3>2, Known DEF Contents
  <2> QED
    BY <2>1, <2>2
<1>9. source \in Memory
  <2>1. stream[c] \in Seq(CellType)
    BY <1>4, Known
  <2>2. Range(stream[c]) \subseteq CellType
    BY ONLY <2>1 DEF Range
  <2> QED
    BY <1>8, <2>2 DEF Memory
<1>10. source = IF t.type = "recv" THEN stream[c][t.from + k + 1]
                ELSE IF Stale(t) THEN NUL ELSE buf[c][t.from + k]
  BY DEF Moved
<1>11. CopyCell
  OBVIOUS
<1> QED
  BY <1>1, <1>3, <1>4, <1>5, <1>6, <1>7, <1>8, <1>9, <1>10, <1>11 DEF CopyCell, Lands

\* The ring after a cell is moved.
LEMMA RingCopied ==
    ASSUME NEW s \in Seq(TaskType), s # <<>>, NEW r, r \in {s, Tail(s)}
    PROVE  /\ r \in Seq(TaskType)
           /\ \A i \in 1 .. Len(r) : \E l \in 1 .. Len(s) : r[i] = s[l]
           /\ r = Tail(s) => Len(r) = Len(s) - 1
<1>1. CASE r = s
  BY <1>1
<1>2. CASE r = Tail(s)
  <2>1. r \in Seq(TaskType) /\ Len(r) = Len(s) - 1
    BY <1>2
  <2>2. ASSUME NEW i \in 1 .. Len(r) PROVE i + 1 \in 1 .. Len(s) /\ r[i] = s[i + 1]
    BY <1>2, <2>1
  <2> QED
    BY <2>1, <2>2
<1> QED
  BY <1>1, <1>2

\* The receive of a request goes on.
LEMMA FirstCopying ==
    ASSUME ParseInv, CopyCell, NEW c \in Clients, FirstCopy(c), Copied(c)
    PROVE  FirstCopy(c)' /\ Copied(c)'
<1>t. PICK t : t = tasks[1]
  OBVIOUS
<1>k. PICK k : k = progress
  OBVIOUS
<1>0. tasks # <<>> /\ tasks \in Seq(TaskType)
  BY DEF CopyCell, ParseInv, Types
<1>1. /\ Len(tasks) = 1 /\ t.type = "recv" /\ t.client = c /\ t.owner = owner[c]
      /\ t.to = 0 /\ t.from = Start(c) /\ t.size = len[c]
      /\ descriptor[c] = -1 \/ (Chunk <= descriptor[c] + 1 /\ descriptor[c] + 1 <= k)
  BY <1>0, <1>t, <1>k DEF FirstCopy
<1>i. Lands(t)
  <2>1. Lives(t)
    BY <1>1, <1>t, TaskOf
  <2> QED
    BY <1>1, <2>1 DEF Lands, Stale, Lives
<1>s. PICK source : source = stream[c][t.from + k + 1]
  OBVIOUS
<1>2. /\ k \in Nat /\ k < t.size /\ t.to + k \in Positions /\ source \in Memory
      /\ UNCHANGED <<wireVars, len, room, owner, qbPos, stage, head, short, long, status,
                     freed, db, used, pc, cur>>
      /\ buf' = [buf EXCEPT ![c][t.to + k] = source]
      /\ descriptor' = IF t.type = "recv" /\ (k + 1 = t.size \/ (k + 1) % Chunk = 0)
                       THEN [descriptor EXCEPT ![c] = t.to + k] ELSE descriptor
      /\ tasks' = IF k + 1 = t.size THEN Tail(tasks) ELSE tasks
      /\ progress' = IF k + 1 = t.size THEN 0 ELSE k + 1
  <2>1. PICK any : any = Moved(t, k)
    OBVIOUS
  <2>2. any = source
    BY <1>s, <1>1, <2>1 DEF Moved
  <2>3. t = tasks[1] /\ c = t.client /\ k = progress
    BY <1>t, <1>k, <1>1
  <2>4. /\ tasks # <<>> /\ t \in TaskType /\ Lives(t) /\ c \in Clients
        /\ k \in Nat /\ k < t.size /\ t.to + k \in Positions
        /\ any \in Range(stream[c]) \cup {NUL} /\ any \in Memory
        /\ UNCHANGED <<wireVars, len, room, owner, qbPos, stage, head, short, long, status,
                       freed, db, used, pc, cur>>
        /\ buf' = IF Lands(t) THEN [buf EXCEPT ![c][t.to + k] = any] ELSE buf
        /\ objects' = IF t.type = "value" /\ t.object \notin freed
                      THEN [objects EXCEPT ![t.object][k + 1] = any] ELSE objects
        /\ descriptor' = IF t.type = "recv" /\ (k + 1 = t.size \/ (k + 1) % Chunk = 0)
                         THEN [descriptor EXCEPT ![c] = t.to + k] ELSE descriptor
        /\ tasks' = IF k + 1 = t.size THEN Tail(tasks) ELSE tasks
        /\ progress' = IF k + 1 = t.size THEN 0 ELSE k + 1
    BY <2>1, <2>3, Copying
  <2> QED
    BY <1>i, <2>2, <2>4
<1>3. /\ Start(c) \in Nat /\ len[c] \in Nat /\ descriptor[c] \in Int /\ Chunk \in Nat /\ Chunk >= 1
  BY Known, Counting, Numbers
<1>4. /\ \A p \in Positions : buf'[c][p] = IF p = k THEN source ELSE buf[c][p]
      /\ k \in Positions /\ source = stream[c][Start(c) + k + 1]
  <2>1. buf \in [Clients -> [Positions -> Memory]] /\ t.to + k = k
    BY <1>1, <1>2 DEF ParseInv, Types
  <2>2. buf' = [buf EXCEPT ![c] = [@ EXCEPT ![k] = source]]
    BY <1>1, <1>2, <2>1
  <2> QED
    BY <1>1, <1>2, <1>s, <2>1, <2>2
<1>5. /\ descriptor'[c] = IF k + 1 = t.size \/ (k + 1) % Chunk = 0 THEN k ELSE descriptor[c]
  <2>1. descriptor \in [Clients -> Int] /\ t.to + k = k
    BY <1>1, <1>2 DEF ParseInv, Types
  <2> QED
    BY <1>1, <1>2, <2>1
<1>6. ASSUME NEW i \in 0 .. len[c] - 1, i <= k PROVE buf'[c][i] = stream[c][Start(c) + i + 1]
  <2>1. CASE i = k
    BY <1>4, <2>1
  <2>2. CASE i # k
    <3>1. i < k
      BY <1>2, <1>6, <2>2
    <3>2. buf[c][i] = stream[c][Start(c) + i + 1]
      BY <1>k, <3>1 DEF Copied
    <3>3. i \in Positions
      <4>1. i \in Nat
        BY <1>3
      <4> QED
        BY ONLY <1>4, <1>2, <3>1, <4>1, Numbers DEF Positions
    <3> QED
      BY <1>4, <2>2, <3>2, <3>3
  <2> QED
    BY <2>1, <2>2
<1>7. UNCHANGED <<len, stream, owner>> /\ Start(c)' = Start(c)
  BY <1>2, SameWire DEF wireVars
<1>8. CASE k + 1 = t.size
  <2>1. tasks' = <<>>
    BY <1>0, <1>1, <1>2, <1>8
  <2>2. \A i \in 0 .. len[c] - 1 : i <= k
    BY <1>1, <1>2, <1>3, <1>8
  <2> QED
    BY <1>6, <1>7, <2>1, <2>2 DEF FirstCopy, Copied
<1>9. CASE k + 1 # t.size
  <2>1. tasks' = tasks /\ progress' = k + 1
    BY <1>2, <1>9
  <2>2. descriptor'[c] = -1 \/ (Chunk <= descriptor'[c] + 1 /\ descriptor'[c] + 1 <= k + 1)
    <3>1. CASE (k + 1) % Chunk = 0
      <4>1. descriptor'[c] = k
        BY <1>5, <3>1
      <4>2. Chunk <= k + 1
        <5>1. k + 1 \in Nat /\ k + 1 >= 1
          BY <1>2
        <5> QED
          BY ONLY <1>3, <3>1, <5>1, WholeChunks
      <4> QED
        BY <1>2, <4>1, <4>2
    <3>2. CASE (k + 1) % Chunk # 0
      <4>1. descriptor'[c] = descriptor[c]
        BY <1>5, <1>9, <3>2
      <4> QED
        BY <1>1, <1>2, <1>3, <4>1
    <3> QED
      BY <3>1, <3>2
  <2>3. FirstCopy(c)'
    BY <1>1, <1>t, <1>7, <2>1, <2>2 DEF FirstCopy
  <2>4. Copied(c)'
    <3>1. \A i \in 0 .. len[c] - 1 : i < k + 1 => i <= k
      BY <1>2
    <3> QED
      BY <1>0, <1>6, <1>7, <2>1, <3>1 DEF Copied
  <2> QED
    BY <2>3, <2>4
<1> QED
  BY <1>8, <1>9

LEMMA CopyStep ==
    ASSUME ParseInv, CopyCell
    PROVE  ParseInv'
<1> PICK t : t = tasks[1]
  OBVIOUS
<1> PICK c : c = t.client
  OBVIOUS
<1> PICK k : k = progress
  OBVIOUS
<1> PICK source : source = Moved(t, k)
  OBVIOUS
<1>1. /\ tasks # <<>> /\ t \in TaskType /\ Lives(t) /\ c \in Clients
      /\ k \in Nat /\ k < t.size /\ t.to + k \in Positions
      /\ source \in Range(stream[c]) \cup {NUL} /\ source \in Memory
      /\ UNCHANGED <<wireVars, len, room, owner, qbPos, stage, head, short, long, status,
                     freed, db, used, pc, cur>>
      /\ buf' = IF Lands(t) THEN [buf EXCEPT ![c][t.to + k] = source] ELSE buf
      /\ objects' = IF t.type = "value" /\ t.object \notin freed
                    THEN [objects EXCEPT ![t.object][k + 1] = source] ELSE objects
      /\ descriptor' = IF t.type = "recv" /\ (k + 1 = t.size \/ (k + 1) % Chunk = 0)
                       THEN [descriptor EXCEPT ![c] = t.to + k] ELSE descriptor
      /\ tasks' = IF k + 1 = t.size THEN Tail(tasks) ELSE tasks
      /\ progress' = IF k + 1 = t.size THEN 0 ELSE k + 1
  BY Copying
<1>2. /\ t.size \in Nat /\ t.to \in Nat /\ t.from \in Nat /\ t.type \in {"recv", "move", "value"}
      /\ t.type = "value" => t.size = ValueLen /\ t.object \in Objects
  BY <1>1, TaskParts
<1>3. tasks \in Seq(TaskType) /\ Len(tasks) \in Nat
  BY DEF ParseInv, Types
<1>4. /\ tasks' \in Seq(TaskType)
      /\ \A i \in 1 .. Len(tasks') : \E l \in 1 .. Len(tasks) : tasks'[i] = tasks[l]
      /\ k + 1 = t.size => Len(tasks') = Len(tasks) - 1
  BY <1>1, <1>3, RingCopied
<1>5. /\ \A x \in Clients : x # c => buf'[x] = buf[x]
      /\ \A p \in Positions : buf'[c][p] = IF Lands(t) /\ p = t.to + k THEN source ELSE buf[c][p]
      /\ buf' \in [Clients -> [Positions -> Memory]]
  <2>1. buf \in [Clients -> [Positions -> Memory]]
    BY DEF ParseInv, Types
  <2>2. CASE ~Lands(t)
    BY <1>1, <2>1, <2>2, SMTT(30)
  <2>3. CASE Lands(t)
    <3>1. buf' = [buf EXCEPT ![c] = [@ EXCEPT ![t.to + k] = source]]
      BY <1>1, <2>3
    <3> QED
      BY <1>1, <2>1, <2>3, <3>1
  <2> QED
    BY <2>2, <2>3
<1>6. /\ \A x \in Clients : x # c => descriptor'[x] = descriptor[x]
      /\ descriptor'[c] = IF t.type = "recv" /\ (k + 1 = t.size \/ (k + 1) % Chunk = 0)
                          THEN t.to + k ELSE descriptor[c]
      /\ descriptor' \in [Clients -> Int]
  <2>1. descriptor \in [Clients -> Int]
    BY DEF ParseInv, Types
  <2>2. t.to + k \in Int
    BY <1>1, <1>2
  <2> QED
    BY <1>1, <2>1, <2>2
<1>7. objects' \in [Objects -> [1 .. ValueLen -> Memory]]
  <2>1. objects \in [Objects -> [1 .. ValueLen -> Memory]]
    BY DEF ParseInv, Types
  <2>2. CASE t.type = "value" /\ t.object \notin freed
    <3>1. objects' = [objects EXCEPT ![t.object] = [@ EXCEPT ![k + 1] = source]]
      BY <1>1, <2>2
    <3> QED
      BY <1>1, <1>2, <2>1, <2>2, <3>1
  <2>3. CASE ~(t.type = "value" /\ t.object \notin freed)
    BY <1>1, <2>1, <2>3
  <2> QED
    BY <2>2, <2>3
<1>8. progress' \in Nat
  <2>1. k \in Nat /\ progress' = IF k + 1 = t.size THEN 0 ELSE k + 1
    BY <1>1
  <2> QED
    BY ONLY <2>1
<1>9. Types'
  BY <1>1, <1>4, <1>5, <1>6, <1>7, <1>8 DEF ParseInv, Types, wireVars
<1>10. Ring'
  <2>1. ASSUME NEW i \in 1 .. Len(tasks') PROVE Lives(tasks'[i])
    <3>1. PICK l \in 1 .. Len(tasks) : tasks'[i] = tasks[l]
      BY <1>4
    <3>2. Lives(tasks[l])
      BY TaskOf
    <3> QED
      BY <3>1, <3>2
  <2>2. IF tasks' = <<>> THEN progress' = 0 ELSE progress' < tasks'[1].size
    <3>1. CASE k + 1 = t.size
      <4>1. progress' = 0
        BY <1>1, <3>1
      <4>2. tasks' # <<>> => tasks'[1] \in TaskType
        BY <1>4
      <4> QED
        BY <4>1, <4>2, TaskParts
    <3>2. CASE k + 1 # t.size
      BY <1>1, <1>2, <3>2
    <3> QED
      BY <3>1, <3>2
  <2>3. UNCHANGED <<owner, status, stream>>
    BY <1>1, SMTT(30) DEF wireVars
  <2> QED
    BY <2>1, <2>2, <2>3 DEF Ring, Lives
<1>11. ASSUME NEW x \in Clients, x # c PROVE Untouched(x)
  BY <1>1, <1>4, <1>5, <1>6, <1>11 DEF Untouched, wireVars
<1>12. /\ Owed(c)' = Owed(c) /\ Asked(c)' = Asked(c) /\ Size(c)' = Size(c) /\ Start(c)' = Start(c)
  BY <1>1, SameWire DEF wireVars
<1>13. Taken(c)' = Taken(c) /\ (Served(c)' <=> Served(c))
  BY <1>1, <1>12 DEF Taken, Served, At
<1>u. /\ c \in Clients
      /\ UNCHANGED <<sent, stream, answered, received, len, room, owner, qbPos, stage, head, short,
                     long, status, pc, cur>>
  BY <1>1 DEF wireVars
<1>14. ClientInv(c)'
  <2>1. Requests(c)'
    <3>1. Requests(c)
      BY Known, <1>u
    <3> QED
      BY <1>u, <1>12, <1>13, <3>1 DEF Requests
  <2>2. Places(c)'
    BY Known, <1>1 DEF Places, At, Waiting, wireVars
  <2>3. Arguments(c)'
    BY Known, <1>1, <1>12 DEF Arguments, At, wireVars
  <2>4. Room(c)'
    <3>1. Room(c) /\ room' = room
      BY Known, <1>1
    <3> QED
      BY ONLY <3>1 DEF Room
  <2>5. Contents(c)'
    <3>1. \A p \in Positions : buf'[c][p] \in Range(stream[c]) \cup {NUL}
      BY Known, <1>1, <1>5 DEF Contents
    <3>2. descriptor'[c] \in -1 .. BufMax
      <4>1. t.to + k \in -1 .. BufMax
        <5>1. t.to + k \in Positions
          BY <1>1
        <5> QED
          BY ONLY <5>1, Numbers DEF Positions
      <4> QED
        BY Known, <1>1, <1>6, <4>1 DEF Contents
    <3> QED
      BY Known, <1>1, <3>1, <3>2 DEF Contents, wireVars
  <2>6. Fresh(c)'
    <3>1. SUFFICES ASSUME stage[c] = "new", len[c] > qbPos[c] PROVE Fresh(c)'
      BY <1>1 DEF Fresh
    <3>2. /\ At(c, "loop") /\ status[c] = "open" /\ qbPos[c] = 0 /\ FirstCopy(c) /\ Copied(c)
      BY <1>1, <3>1, Known DEF Fresh
    <3>3. FirstCopy(c)' /\ Copied(c)'
      BY <1>1, <3>2, FirstCopying
    <3>4. UNCHANGED <<len, qbPos, stage, status>> /\ At(c, "loop")'
      BY <1>1, <3>2, SMTT(30) DEF At
    <3> QED
      BY <3>2, <3>3, <3>4 DEF Fresh
  <2>7. Expecting(c)'
    <3>1. SUFFICES ASSUME stage[c] = "short" PROVE Expecting(c)'
      BY <1>1 DEF Expecting
    <3>2. 1 \in 1 .. Len(tasks)
      BY <1>1, <1>3
    <3>3. ~NoneOf(c)
      BY <3>2 DEF NoneOf
    <3>4. len[c] \in Nat /\ qbPos[c] \in Nat /\ qbPos[c] <= len[c]
      BY <1>1, Known DEF Requests
    <3>5. /\ status[c] = "open" /\ len[c] > qbPos[c]
          /\ buf[c][qbPos[c]] \in {NUL, Cell(c, sent[c], 2)}
          /\ Brings(c, qbPos[c], Cell(c, sent[c], 2))
          /\ qbPos[c] > 0 => At(c, "loop") /\ buf[c][qbPos[c]] # NUL
      BY <1>1, <3>1, <3>3, <3>4, Known, SMTT(30) DEF Expecting
    <3>6. /\ t.type = "recv"
          /\ t.to <= qbPos[c] /\ qbPos[c] < t.to + t.size =>
                stream[c][t.from + (qbPos[c] - t.to) + 1] = Cell(c, sent[c], 2)
      BY <3>2, <3>5 DEF Brings
    <3>7. /\ buf'[c][qbPos[c]] \in {buf[c][qbPos[c]], Cell(c, sent[c], 2)}
      <4>1. qbPos[c] \in Positions
        BY <1>1, <3>5, NextCell
      <4>2. CASE qbPos[c] = t.to + k
        <5>1. /\ t.to <= qbPos[c] /\ qbPos[c] < t.to + t.size
              /\ t.from + (qbPos[c] - t.to) + 1 = t.from + k + 1
          BY <1>1, <1>2, <4>2
        <5>2. source = stream[c][t.from + k + 1]
          BY <3>6 DEF Moved
        <5> QED
          BY <1>5, <3>6, <4>1, <4>2, <5>1, <5>2
      <4>3. CASE qbPos[c] # t.to + k
        BY <1>5, <4>1, <4>3
      <4> QED
        BY <4>2, <4>3
    <3>8. Cell(c, sent[c], 2) # NUL
      <4>1. sent[c] \in Nat /\ 2 \in Nat
        BY <1>u, Known
      <4> QED
        BY <1>u, <4>1, CellParts
    <3>9. Brings(c, qbPos[c], Cell(c, sent[c], 2))'
      <4>1. \A p, cell : Brings(c, p, cell) => Brings(c, p, cell)'
        BY <1>4, <1>u DEF Brings
      <4>2. qbPos'[c] = qbPos[c] /\ Cell(c, sent'[c], 2) = Cell(c, sent[c], 2)
        BY <1>u
      <4> QED
        BY <3>5, <4>1, <4>2 DEF Cell
    <3> QED
      BY <1>u, <3>1, <3>4, <3>5, <3>7, <3>8, <3>9, SMTT(30) DEF Expecting, At, Cell
  <2> QED
    BY <2>1, <2>2, <2>3, <2>4, <2>5, <2>6, <2>7 DEF ClientInv
<1>15. (cur = NoClient <=> pc = "idle")'
  BY <1>1 DEF ParseInv
<1> QED
  BY <1>1, <1>9, <1>10, <1>11, <1>14, <1>15, Together

LEMMA ParseStutter ==
    ASSUME ParseInv, UNCHANGED vars
    PROVE  ParseInv'
<1>1. UNCHANGED <<sent, stream, answered, received, buf, len, room, owner, qbPos, stage, head, short,
                  long, descriptor, status, tasks, progress, objects, freed, db, used, pc, cur>>
  BY DEF vars, wireVars, clientVars, taskVars, storeVars
<1>2. Types'
  BY <1>1 DEF ParseInv, Types
<1>3. Ring'
  BY <1>1, RingSame
<1>4. \A x \in Clients : Untouched(x)
  BY <1>1 DEF Untouched
<1>5. (cur = NoClient <=> pc = "idle")'
  BY <1>1 DEF ParseInv
<1>6. ASSUME NEW x \in Clients PROVE ClientInv(x)'
  BY <1>4, Others DEF ClientInv
<1> QED
  BY <1>2, <1>3, <1>5, <1>6 DEF ParseInv, ClientInv

LEMMA ParseNext ==
    ASSUME ParseInv, Setting, [Next]_vars
    PROVE  ParseInv'
<1>1. CASE CopyCell
  BY <1>1, CopyStep
<1>2. ASSUME NEW c \in Clients, ClientSend(c) PROVE ParseInv'
  BY <1>2, SendStep
<1>3. ASSUME NEW c \in Clients, ReadQuery(c) PROVE ParseInv'
  BY <1>3, ReadStep
<1>4. ASSUME NEW c \in Clients, \E n \in ReadSizes(c) : Recv(c, n) PROVE ParseInv'
  BY <1>4, RecvStep
<1>5. ASSUME NEW c \in Clients, ParseHead(c) PROVE ParseInv'
  BY <1>5, HeadStep
<1>6. ASSUME NEW c \in Clients, ParseShort(c) PROVE ParseInv'
  BY <1>6, ShortStep
<1>7. ASSUME NEW c \in Clients, ParseLength(c) PROVE ParseInv'
  BY <1>7, LengthStep
<1>8. ASSUME NEW c \in Clients, ParseBulk(c) PROVE ParseInv'
  BY <1>8, BulkStep
<1>9. ASSUME NEW c \in Clients, StopParsing(c) PROVE ParseInv'
  BY <1>9, StopStep
<1>10. ASSUME NEW c \in Clients, Execute(c) PROVE ParseInv'
  BY <1>10, ExecuteStep
<1>11. ASSUME NEW c \in Clients, Reset(c) PROVE ParseInv'
  BY <1>11, ResetStep
<1>12. ASSUME NEW c \in Clients, Trim(c) PROVE ParseInv'
  BY <1>12, TrimStep
<1>13. ASSUME NEW c \in Clients, Terminate(c) PROVE ParseInv'
  BY <1>13, TerminateStep
<1>14. ASSUME NEW c \in Clients, Close(c) PROVE ParseInv'
  BY <1>14, CloseStep
<1>15. ASSUME NEW c \in Clients, Unblock(c) PROVE ParseInv'
  BY <1>15, UnblockStep
<1>16. CASE UNCHANGED vars
  BY <1>16, ParseStutter
<1> QED
  BY <1>1, <1>2, <1>3, <1>4, <1>5, <1>6, <1>7, <1>8, <1>9, <1>10, <1>11, <1>12, <1>13, <1>14, <1>15,
     <1>16 DEF Next, Handler

\* What the server and Copier keep true, whatever pieces the requests come in.
THEOREM Parsed == ASSUME Setting PROVE Spec => []ParseInv
<1>1. Init => ParseInv
  BY ParseInit
<1>2. ParseInv /\ [Next]_vars => ParseInv'
  BY ParseNext
<1> QED
  BY <1>1, <1>2, PTL DEF Spec

LEMMA ParseTypes == ParseInv => TypeOK
<1> SUFFICES ASSUME ParseInv PROVE TypeOK
  OBVIOUS
<1>1. ASSUME NEW c \in Clients
      PROVE  /\ answered[c] <= sent[c] /\ sent[c] <= Len(Script[c])
             /\ received[c] \in 0 .. Len(stream[c])
             /\ qbPos[c] \in 0 .. len[c]
             /\ len[c] \in 0 .. room[c]
             /\ room[c] \in Positions
             /\ owner[c] \in Nat
             /\ stage[c] \in {"new", "inline", "short", "len", "bulk"}
             /\ {head[c], short[c]} \subseteq Range(stream[c]) \cup {NUL}
             /\ long[c] \in Objects \cup {NoObject}
             /\ descriptor[c] \in -1 .. BufMax
             /\ status[c] \in {"open", "blocked", "garbled", "closed"}
             /\ buf[c] \in [Positions -> Range(stream[c]) \cup {NUL}]
  <2>1. /\ received[c] \in Nat /\ len[c] \in Nat /\ room[c] \in Nat /\ qbPos[c] \in Nat
        /\ Len(stream[c]) \in Nat
        /\ qbPos[c] <= len[c] /\ len[c] <= room[c] /\ received[c] <= Len(stream[c])
    BY Known DEF Requests
  <2>2. room[c] <= BufMax
    BY Known, Numbers DEF Room
  <2>3. /\ received[c] \in 0 .. Len(stream[c]) /\ qbPos[c] \in 0 .. len[c]
        /\ len[c] \in 0 .. room[c]
    BY ONLY <2>1
  <2>4. room[c] \in Positions
    BY ONLY <2>1, <2>2, Numbers DEF Positions
  <2>5. answered[c] <= sent[c] /\ sent[c] <= Len(Script[c])
    BY Known DEF Requests
  <2>6. owner[c] \in Nat /\ long[c] \in Objects \cup {NoObject}
    BY DEF ParseInv, Types
  <2>7. /\ {head[c], short[c]} \subseteq Range(stream[c]) \cup {NUL}
        /\ descriptor[c] \in -1 .. BufMax
    BY Known DEF Contents
  <2>8. buf[c] \in [Positions -> Range(stream[c]) \cup {NUL}]
    <3>1. buf[c] \in [Positions -> Memory] /\ \A p \in Positions : buf[c][p] \in Range(stream[c]) \cup {NUL}
      BY Known DEF Contents
    <3> QED
      BY ONLY <3>1
  <2> QED
    BY <2>3, <2>4, <2>5, <2>6, <2>7, <2>8, Known
<1>2. \A i \in 1 .. Len(tasks) : progress < tasks[i].size \/ i > 1
  <2>1. ASSUME NEW i \in 1 .. Len(tasks), ~(i > 1) PROVE progress < tasks[i].size
    <3>1. i = 1 /\ tasks # <<>>
      BY <2>1 DEF ParseInv, Types
    <3> QED
      BY <3>1 DEF ParseInv, Ring
  <2> QED
    BY <2>1
<1>3. /\ db \in Objects \cup {NoObject} /\ freed \subseteq Objects
      /\ pc \in {"idle", "drain", "loop", "exec", "reset", "trim", "terminate"}
      /\ cur \in Clients \cup {NoClient}
  BY DEF ParseInv, Types
<1> QED
  BY <1>1, <1>2, <1>3 DEF TypeOK

LEMMA ParseKeys == ParseInv => KeyAsSent
<1> SUFFICES ASSUME ParseInv, pc = "exec"
             PROVE  /\ head[cur] = Cell(cur, answered[cur] + 1, 1)
                    /\ short[cur] = Cell(cur, answered[cur] + 1, 2)
  BY DEF KeyAsSent
<1>1. PICK c \in Clients : cur = c
  BY DEF ParseInv, Types
<1>2. At(c, "exec") /\ Served(c)
  BY <1>1 DEF At, Served
<1>3. sent[c] = answered[c] + 1
  BY <1>2, Owing, Known DEF Requests
<1> QED
  BY <1>1, <1>2, <1>3, Known DEF Arguments

\* The parser never passes what was received, the buffer never outgrows its
\* allocation, and memory holds nothing but what was sent.
THEOREM TypeCorrect == ASSUME Setting PROVE Spec => []TypeOK
  BY Parsed, ParseTypes, PTL

\* Every command runs with the name and the key of the request whose turn it is.
THEOREM KeyIsSent == ASSUME Setting PROVE Spec => []KeyAsSent
  BY Parsed, ParseKeys, PTL

-----------------------------------------------------------------------------
(* The objects of commands that have run are given back, and no others     *)

LEMMA ObjectParts ==
    ASSUME NEW o \in Objects
    PROVE  /\ o[1] \in Clients /\ o[2] \in Nat /\ o = <<o[1], o[2]>>
           /\ o # NoObject /\ o \in Clients \X Nat
<1>1. PICK c \in Clients : \E j \in 1 .. Len(Script[c]) : o = <<c, j>>
  BY DEF Objects
<1>2. PICK j \in 1 .. Len(Script[c]) : o = <<c, j>>
  BY <1>1
<1>3. j \in Nat
  BY Constants
<1> QED
  BY <1>2, <1>3, Constants

\* The thread leaves the place where a command is answered by answering it.
Onward ==
    \A x \in Clients :
        \/ answered'[x] = answered[x] /\ (At(x, "reset") => At(x, "reset")')
        \/ answered'[x] = answered[x] + 1

LEMMA PastStays ==
    ASSUME ParseInv, NEW o \in Objects, Past(o), Onward
    PROVE  Past(o)'
<1> PICK x \in Clients : x = o[1]
  BY ObjectParts
<1>1. o[2] \in Nat /\ answered[x] \in Nat
  BY ObjectParts, Known
<1>2. \/ answered'[x] = answered[x] /\ (At(x, "reset") => At(x, "reset")')
      \/ answered'[x] = answered[x] + 1
  BY DEF Onward
<1>3. o[2] <= answered[x] \/ (o[2] = answered[x] + 1 /\ At(x, "reset"))
  BY DEF Past
<1>4. o[2] <= answered'[x] \/ (o[2] = answered'[x] + 1 /\ At(x, "reset")')
  BY ONLY <1>1, <1>2, <1>3
<1> QED
  BY <1>4 DEF Past

LEMMA InitObjects == Init => ObjectInv
  BY Constants DEF Init, ObjectInv, NoValues, At

\* A step that posts no value, and gives nothing back.
LEMMA ObjectFrame ==
    ASSUME ParseInv, ObjectInv, UNCHANGED <<freed, db>>, Onward,
           \A k \in 1 .. Len(tasks') : tasks'[k].type = "value" =>
              \E l \in 1 .. Len(tasks) : tasks'[k] = tasks[l],
           \A x \in Clients :
              /\ At(x, "loop")' /\ len'[x] > qbPos'[x] /\ status'[x] = "open" => NoValues
              /\ At(x, "exec")' =>
                    NoValues \/ (At(x, "exec") /\ long'[x] = long[x] /\ Asked(x)' = Asked(x))
    PROVE  ObjectInv'
<1>1. db \in Objects \cup {NoObject} /\ freed \subseteq Objects
  BY DEF ParseInv, Types
<1>2. (db # NoObject => Past(db) /\ db \notin freed)'
  <2>1. ASSUME db # NoObject PROVE Past(db)' /\ db \notin freed
    BY <1>1, <2>1, PastStays DEF ObjectInv
  <2> QED
    BY <2>1 DEF Past
<1>3. \A o \in freed : Past(o)'
  BY <1>1, PastStays DEF ObjectInv
<1>4. \A k \in 1 .. Len(tasks') : tasks'[k].type = "value" => tasks'[k].object \notin freed
  BY DEF ObjectInv
<1>5. NoValues => NoValues'
  BY DEF NoValues
<1>6. ASSUME NEW x \in Clients, At(x, "exec")', NEW k \in 1 .. Len(tasks'), tasks'[k].type = "value"
      PROVE  HasValue(Asked(x)') /\ tasks'[k].object = long'[x]
  <2>1. PICK l \in 1 .. Len(tasks) : tasks'[k] = tasks[l]
    BY <1>6
  <2>2. ~NoValues
    BY <1>6, <2>1 DEF NoValues
  <2> QED
    BY <1>6, <2>1, <2>2 DEF ObjectInv
<1> QED
  BY <1>2, <1>3, <1>4, <1>5, <1>6 DEF ObjectInv

LEMMA NoValuesWhileParsing ==
    ASSUME ParseInv, ObjectInv, NEW c \in Clients, cur = c, pc = "loop",
           qbPos[c] < len[c], status[c] = "open"
    PROVE  NoValues
<1>1. len[c] \in Nat /\ qbPos[c] \in Nat
  BY Known
<1> QED
  BY <1>1 DEF ObjectInv, At

\* A step of the parser that posts nothing.
LEMMA ObjectParse ==
    ASSUME ParseInv, ObjectInv, NEW c \in Clients, cur = c, cur' = c, pc = "loop",
           qbPos[c] < len[c], status[c] = "open", UNCHANGED <<freed, db, tasks, answered>>
    PROVE  ObjectInv'
<1>1. NoValues
  BY NoValuesWhileParsing
<1>2. Onward
  BY Constants DEF Onward, At
<1>3. \A k \in 1 .. Len(tasks') : tasks'[k].type = "value" =>
          \E l \in 1 .. Len(tasks) : tasks'[k] = tasks[l]
  OBVIOUS
<1>4. UNCHANGED <<freed, db>>
  OBVIOUS
<1> QED
  BY <1>1, <1>2, <1>3, <1>4, ObjectFrame

\* A step of the server that neither parses nor posts a value.
LEMMA ObjectRest ==
    ASSUME ParseInv, ObjectInv, UNCHANGED <<freed, db>>, Onward,
           \A k \in 1 .. Len(tasks') : tasks'[k].type = "value" =>
              \E l \in 1 .. Len(tasks) : tasks'[k] = tasks[l],
           pc' \notin {"loop", "exec"}
    PROVE  ObjectInv'
<1>1. \A x \in Clients : ~At(x, "loop")' /\ ~At(x, "exec")'
  BY DEF At
<1> QED
  BY <1>1, ObjectFrame

LEMMA ObjectSend ==
    ASSUME ParseInv, ObjectInv, Setting, NEW c \in Clients, ClientSend(c)
    PROVE  ObjectInv'
<1>1. UNCHANGED <<answered, clientVars, taskVars, storeVars, pc, cur>> /\ sent' = [sent EXCEPT ![c] = @ + 1]
  BY DEF ClientSend
<1>2. UNCHANGED <<freed, db, tasks, len, qbPos, status, long>>
  BY <1>1 DEF clientVars, taskVars, storeVars
<1>3. ~Owed(c)
  BY Known DEF ClientSend, Setting, OneAtATime, Owed, Requests
<1>4. Onward
  BY <1>1 DEF Onward, At
<1>5. \A k \in 1 .. Len(tasks') : tasks'[k].type = "value" =>
          \E l \in 1 .. Len(tasks) : tasks'[k] = tasks[l]
  BY <1>2
<1>6. ASSUME NEW x \in Clients
      PROVE  /\ At(x, "loop")' /\ len'[x] > qbPos'[x] /\ status'[x] = "open" => NoValues
             /\ At(x, "exec")' => At(x, "exec") /\ long'[x] = long[x] /\ Asked(x)' = Asked(x)
  <2>1. At(x, "loop")' /\ len'[x] > qbPos'[x] /\ status'[x] = "open" => NoValues
    BY <1>1, <1>2 DEF ObjectInv, At
  <2>2. ASSUME At(x, "exec")' PROVE At(x, "exec") /\ long'[x] = long[x] /\ Asked(x)' = Asked(x)
    <3>1. At(x, "exec")
      BY <1>1, <2>2 DEF At
    <3>2. Owed(x)
      BY <3>1, Known DEF Served, Requests
    <3>3. sent'[x] = sent[x]
      BY <1>1, <1>3, <3>2 DEF ParseInv, Types
    <3> QED
      BY <1>2, <3>1, <3>3 DEF Asked
  <2> QED
    BY <2>1, <2>2
<1>7. UNCHANGED <<freed, db>>
  BY <1>2
<1> QED
  BY <1>4, <1>5, <1>6, <1>7, ObjectFrame

LEMMA ObjectCopy ==
    ASSUME ParseInv, ObjectInv, CopyCell
    PROVE  ObjectInv'
<1>1. /\ UNCHANGED <<wireVars, len, qbPos, status, long, freed, db, pc, cur>>
      /\ tasks # <<>> /\ tasks' \in {tasks, Tail(tasks)}
  BY DEF CopyCell
<1>2. UNCHANGED <<sent, answered, freed, db>>
  BY <1>1 DEF wireVars
<1>3. tasks \in Seq(TaskType)
  BY DEF ParseInv, Types
<1>4. \A k \in 1 .. Len(tasks') : \E l \in 1 .. Len(tasks) : tasks'[k] = tasks[l]
  BY <1>1, <1>3, RingCopied
<1>5. Onward
  BY <1>1, <1>2 DEF Onward, At
<1>6. ASSUME NEW x \in Clients
      PROVE  /\ At(x, "loop")' /\ len'[x] > qbPos'[x] /\ status'[x] = "open" => NoValues
             /\ At(x, "exec")' => At(x, "exec") /\ long'[x] = long[x] /\ Asked(x)' = Asked(x)
  BY <1>1, <1>2 DEF ObjectInv, At, Asked
<1> QED
  BY <1>2, <1>4, <1>5, <1>6, ObjectFrame

LEMMA ObjectBulk ==
    ASSUME ParseInv, ObjectInv, NEW c \in Clients, ParseBulk(c)
    PROVE  ObjectInv'
<1>1. /\ cur = c /\ cur' = c /\ pc = "loop" /\ qbPos[c] < len[c] /\ status[c] = "open"
      /\ stage[c] = "bulk"
      /\ UNCHANGED <<sent, answered, freed, db>>
  BY DEF ParseBulk, Parsing, parseFrame, wireVars, storeVars
<1>2. CASE UNCHANGED tasks
  BY <1>1, <1>2, ObjectParse
<1>3. CASE tasks' # tasks
  <2>t. PICK t : t = [type |-> "value", client |-> c, owner |-> owner[c], from |-> BulkStart(c),
                      to |-> 0, size |-> ValueLen, object |-> <<c, answered[c] + 1>>]
    OBVIOUS
  <2>1. /\ tasks' = Append(tasks, t) /\ pc' = "exec" /\ t.object = <<c, answered[c] + 1>>
        /\ long' = [long EXCEPT ![c] = <<c, answered[c] + 1>>]
    BY <1>3, <2>t DEF ParseBulk, Break, Posted
  <2>2. tasks \in Seq(TaskType) /\ Len(tasks) \in Nat
    BY DEF ParseInv, Types
  <2>3. /\ Len(tasks') = Len(tasks) + 1 /\ tasks'[Len(tasks) + 1] = t
        /\ \A k \in 1 .. Len(tasks) : tasks'[k] = tasks[k]
    BY <2>1, <2>2
  <2>4. NoValues
    BY <1>1, NoValuesWhileParsing
  <2>5. \A k \in 1 .. Len(tasks') : tasks'[k].type = "value" => tasks'[k] = t
    BY <2>2, <2>3, <2>4 DEF NoValues
  <2>6. Onward /\ \A x \in Clients : ~At(x, "reset")
    BY <1>1 DEF Onward, At
  <2>7. freed \subseteq Objects /\ db \in Objects \cup {NoObject}
    BY DEF ParseInv, Types
  <2>8. ~Past(<<c, answered[c] + 1>>)
    <3>1. answered[c] \in Nat
      BY Known
    <3> QED
      BY <2>6, <3>1 DEF Past
  <2>9. t.object \notin freed
    BY <2>1, <2>8 DEF ObjectInv
  <2>10. (db # NoObject => Past(db) /\ db \notin freed)'
    <3>1. ASSUME db # NoObject PROVE Past(db)' /\ db \notin freed
      <4>1. PICK o \in Objects : o = db
        BY <2>7, <3>1
      <4>2. Past(o) /\ o \notin freed
        BY <3>1, <4>1 DEF ObjectInv
      <4>3. Past(o)'
        BY <2>6, <4>2, PastStays
      <4> QED
        BY <1>1, <4>1, <4>2, <4>3
    <3> QED
      BY <1>1, <3>1 DEF Past
  <2>11. \A o \in freed : Past(o)'
    BY <2>6, <2>7, PastStays DEF ObjectInv
  <2>12. \A x \in Clients : At(x, "exec")' => x = c
    BY <1>1 DEF At
  <2>13. HasValue(Asked(c)) /\ Asked(c)' = Asked(c) /\ long'[c] = t.object
    <3>1. HasValue(Asked(c))
      BY <1>1, Known DEF Arguments
    <3> QED
      BY <1>1, <2>1, <3>1 DEF Asked, ParseInv, Types
  <2>14. \A x \in Clients : ~At(x, "loop")'
    BY <2>1 DEF At
  <2> QED
    BY <1>1, <2>5, <2>9, <2>10, <2>11, <2>12, <2>13, <2>14 DEF ObjectInv
<1> QED
  BY <1>2, <1>3

LEMMA ObjectExecute ==
    ASSUME ParseInv, ObjectInv, NoEval, NEW c \in Clients, Execute(c)
    PROVE  ObjectInv'
<1>1. /\ cur = c /\ pc = "exec" /\ cur' = c
      /\ UNCHANGED <<sent, answered, tasks, long>>
      /\ \/ status' = [status EXCEPT ![c] = "blocked"] /\ pc' = "loop"
         \/ status' = status /\ pc' = "reset"
  BY DEF Execute, wireVars, taskVars
<1>2. At(c, "exec") /\ Owed(c) /\ Kind(head[c]) = Asked(c) /\ sent[c] = answered[c] + 1
      /\ Asked(c) # "eval" /\ (HasValue(Asked(c)) => long[c] = <<c, sent[c]>>)
  <2>1. At(c, "exec")
    BY <1>1 DEF At
  <2>2. Owed(c) /\ head[c] = Cell(c, sent[c], 1) /\ (HasValue(Asked(c)) => long[c] = <<c, sent[c]>>)
    BY <2>1, Known DEF Arguments, Requests, Served
  <2>3. Kind(head[c]) = Asked(c)
    BY <2>2, CellParts, Known DEF Asked
  <2>4. sent[c] = answered[c] + 1 /\ sent[c] \in 1 .. Len(Script[c])
    BY <2>2, Owing
  <2>5. Asked(c) # "eval"
    BY <2>4 DEF NoEval, Asked
  <2> QED
    BY <2>1, <2>2, <2>3, <2>4, <2>5
<1>3. freed \subseteq Objects /\ db \in Objects \cup {NoObject}
  BY DEF ParseInv, Types
<1>4. Onward
  BY <1>1 DEF Onward, At
<1>5. \A x \in Clients : ~At(x, "exec")'
  BY <1>1 DEF At
<1>6. ASSUME NEW x \in Clients, At(x, "loop")' PROVE status'[x] # "open"
  <2>1. x = c /\ status' = [status EXCEPT ![c] = "blocked"]
    BY <1>1, <1>6 DEF At
  <2> QED
    BY <2>1 DEF ParseInv, Types
<1>7. \A o \in freed : Past(o)'
  BY <1>3, <1>4, PastStays DEF ObjectInv
<1>8. ASSUME NEW o, o = db, db # NoObject PROVE Past(o)' /\ o \notin freed
  <2>1. o \in Objects /\ Past(o) /\ o \notin freed
    BY <1>3, <1>8 DEF ObjectInv
  <2> QED
    BY <1>4, <2>1, PastStays
<1>9. CASE Asked(c) = "set"
  <2>1. /\ db' = <<c, sent[c]>> /\ freed' = freed \cup ({db} \ {NoObject})
        /\ long[c] = <<c, sent[c]>> /\ HasValue(Asked(c)) /\ pc' = "reset"
    BY <1>2, <1>9 DEF Execute, Dropped, HasValue
  <2>2. <<c, sent[c]>> \in Objects
    BY <1>2, Owing
  <2>3. ~Past(<<c, sent[c]>>)
    <3>1. answered[c] \in Nat
      BY Known
    <3>2. ~At(c, "reset")
      BY <1>1 DEF At
    <3> QED
      BY <1>2, <3>1, <3>2 DEF Past
  <2>4. <<c, sent[c]>> \notin freed'
    BY <2>1, <2>3 DEF ObjectInv
  <2>5. ASSUME NEW o, o = <<c, sent[c]>> PROVE Past(o)'
    <3>1. At(c, "reset")' /\ answered'[c] = answered[c]
      BY <1>1, <2>1 DEF At
    <3>2. o[1] = c /\ o[2] = answered'[c] + 1
      BY <1>1, <1>2, <2>5
    <3> QED
      BY <3>1, <3>2 DEF Past
  <2>6. (db # NoObject => Past(db) /\ db \notin freed)'
    <3>u. PICK o : o = <<c, sent[c]>>
      OBVIOUS
    <3>1. Past(o)' /\ o \notin freed' /\ db' = o
      <4>1. Past(o)'
        BY <2>5, <3>u
      <4> QED
        BY <2>1, <2>4, <3>u, <4>1
    <3> QED
      BY <3>1 DEF Past
  <2>7. ASSUME NEW o \in freed' PROVE Past(o)'
    <3>1. CASE o \in freed
      BY <1>7, <3>1
    <3>2. CASE o = db /\ db # NoObject
      BY <1>8, <3>2
    <3> QED
      BY <2>1, <2>7, <3>1, <3>2
  <2>8. \A k \in 1 .. Len(tasks') : tasks'[k].type = "value" => tasks'[k].object \notin freed'
    BY <1>1, <1>2, <2>1, <2>4 DEF ObjectInv
  <2> QED
    BY <1>5, <1>6, <2>6, <2>7, <2>8 DEF ObjectInv
<1>10. CASE Asked(c) # "set"
  <2>1. UNCHANGED <<freed, db>>
    BY <1>2, <1>10 DEF Execute, Dropped
  <2>2. \A x \in Clients : At(x, "loop")' => status'[x] # "open"
    BY <1>6
  <2>3. \A k \in 1 .. Len(tasks') : tasks'[k].type = "value" =>
            \E l \in 1 .. Len(tasks) : tasks'[k] = tasks[l]
    BY <1>1
  <2> QED
    BY <1>4, <1>5, <2>1, <2>2, <2>3, ObjectFrame
<1> QED
  BY <1>9, <1>10

LEMMA ObjectReset ==
    ASSUME ParseInv, ObjectInv, NEW c \in Clients, Reset(c)
    PROVE  ObjectInv'
<1>1. /\ cur = c /\ pc = "reset" /\ pc' = "loop" /\ cur' = c
      /\ answered' = [answered EXCEPT ![c] = @ + 1]
      /\ UNCHANGED <<len, qbPos, tasks>> /\ UNCHANGED <<freed, db>>
  BY DEF Reset, taskVars, storeVars
<1>2. len[c] = qbPos[c] /\ len[c] \in Nat
  <2>1. At(c, "reset") /\ Served(c)
    BY <1>1 DEF At, Served
  <2> QED
    BY <2>1, Counting, Known DEF Places
<1>3. Onward
  BY <1>1 DEF Onward, At, ParseInv, Types
<1>4. \A x \in Clients : ~At(x, "exec")' /\ (At(x, "loop")' => ~(len'[x] > qbPos'[x]))
  BY <1>1, <1>2 DEF At
<1>5. \A k \in 1 .. Len(tasks') : tasks'[k].type = "value" =>
          \E l \in 1 .. Len(tasks) : tasks'[k] = tasks[l]
  BY <1>1
<1> QED
  BY <1>1, <1>3, <1>4, <1>5, ObjectFrame

LEMMA ObjectTrim ==
    ASSUME ParseInv, ObjectInv, NEW c \in Clients, Trim(c)
    PROVE  ObjectInv'
<1>1. /\ pc = "trim" /\ pc' = "terminate" /\ UNCHANGED <<freed, db>> /\ UNCHANGED answered
      /\ \/ tasks' = tasks
         \/ \E t : tasks' = Append(tasks, t) /\ t.type = "move"
  BY DEF Trim, Posted, wireVars, storeVars
<1>2. tasks \in Seq(TaskType) /\ Len(tasks) \in Nat
  BY DEF ParseInv, Types
<1>3. \A k \in 1 .. Len(tasks') : tasks'[k].type = "value" =>
          \E l \in 1 .. Len(tasks) : tasks'[k] = tasks[l]
  <2>1. CASE tasks' = tasks
    BY <2>1
  <2>2. ASSUME NEW t, tasks' = Append(tasks, t), t.type = "move",
               NEW k \in 1 .. Len(tasks'), tasks'[k].type = "value"
        PROVE  \E l \in 1 .. Len(tasks) : tasks'[k] = tasks[l]
    <3>1. Len(tasks') = Len(tasks) + 1 /\ tasks'[Len(tasks) + 1] = t
          /\ \A l \in 1 .. Len(tasks) : tasks'[l] = tasks[l]
      BY <1>2, <2>2
    <3>2. k # Len(tasks) + 1
      BY <2>2, <3>1
    <3>3. k \in 1 .. Len(tasks)
      BY <1>2, <3>1, <3>2
    <3> QED
      BY <3>1, <3>3
  <2> QED
    BY <1>1, <2>1, <2>2
<1>4. Onward
  BY <1>1 DEF Onward, At
<1> QED
  BY <1>1, <1>3, <1>4, ObjectRest

LEMMA ObjectNext ==
    ASSUME ParseInv, ObjectInv, Setting, NoEval, [Next]_vars
    PROVE  ObjectInv'
<1>1. CASE UNCHANGED vars
  <2>1. UNCHANGED <<sent, answered, len, qbPos, status, long, tasks, freed, db, pc, cur>>
    BY <1>1 DEF vars, wireVars, clientVars, taskVars, storeVars
  <2> QED
    BY <2>1 DEF ObjectInv, Past, At, NoValues, Asked
<1>2. CASE CopyCell
  BY <1>2, ObjectCopy
<1>3. ASSUME NEW c \in Clients, ClientSend(c) PROVE ObjectInv'
  BY <1>3, ObjectSend
<1>4. ASSUME NEW c \in Clients, ReadQuery(c) PROVE ObjectInv'
  <2>1. /\ UNCHANGED <<freed, db>> /\ UNCHANGED <<answered, tasks>>
        /\ pc = "idle" /\ pc' = "drain"
    BY <1>4 DEF ReadQuery, wireVars, taskVars, storeVars
  <2>2. Onward
    BY <2>1 DEF Onward, At
  <2> QED
    BY <2>1, <2>2, ObjectRest
<1>5. ASSUME NEW c \in Clients, NEW n \in ReadSizes(c), Recv(c, n) PROVE ObjectInv'
  <2>t. PICK t : t = [type |-> "recv", client |-> c, owner |-> owner[c], from |-> received[c],
                      to |-> len[c], size |-> n]
    OBVIOUS
  <2>1. /\ UNCHANGED <<freed, db>> /\ UNCHANGED answered
        /\ pc = "drain" /\ pc' = "loop" /\ tasks = <<>> /\ tasks' = <<t>> /\ t.type = "recv"
    BY <1>5, <2>t DEF Recv, Drained, Posted, storeVars
  <2>2. Onward
    BY <2>1 DEF Onward, At
  <2>3. NoValues /\ \A k \in 1 .. Len(tasks') : tasks'[k].type # "value"
    BY <2>1 DEF NoValues
  <2>4. \A x \in Clients : ~At(x, "exec")'
    BY <2>1 DEF At
  <2> QED
    BY <2>1, <2>2, <2>3, <2>4, ObjectFrame
<1>6. ASSUME NEW c \in Clients, ParseHead(c) \/ ParseShort(c) \/ ParseLength(c) PROVE ObjectInv'
  <2>1. /\ cur = c /\ cur' = c /\ pc = "loop" /\ qbPos[c] < len[c] /\ status[c] = "open"
        /\ UNCHANGED <<freed, db>> /\ UNCHANGED answered
    BY <1>6 DEF ParseHead, ParseShort, ParseLength, Parsing, parseFrame, wireVars, storeVars
  <2>2. UNCHANGED tasks
    BY <1>6 DEF ParseHead, ParseShort, ParseLength, Unexpected
  <2> QED
    BY <2>1, <2>2, ObjectParse
<1>7. ASSUME NEW c \in Clients, ParseBulk(c) PROVE ObjectInv'
  BY <1>7, ObjectBulk
<1>8. ASSUME NEW c \in Clients, StopParsing(c) PROVE ObjectInv'
  <2>1. /\ UNCHANGED <<freed, db>> /\ UNCHANGED <<answered, tasks>> /\ pc = "loop" /\ pc' = "trim"
    BY <1>8 DEF StopParsing, Break, parseFrame, wireVars, storeVars
  <2>2. Onward
    BY <2>1 DEF Onward, At
  <2> QED
    BY <2>1, <2>2, ObjectRest
<1>9. ASSUME NEW c \in Clients, Execute(c) PROVE ObjectInv'
  BY <1>9, ObjectExecute
<1>10. ASSUME NEW c \in Clients, Reset(c) PROVE ObjectInv'
  BY <1>10, ObjectReset
<1>11. ASSUME NEW c \in Clients, Trim(c) PROVE ObjectInv'
  BY <1>11, ObjectTrim
<1>12. ASSUME NEW c \in Clients, Terminate(c) PROVE ObjectInv'
  <2>1. /\ UNCHANGED <<freed, db>> /\ UNCHANGED <<answered, tasks>>
        /\ pc = "terminate" /\ pc' = "idle"
    BY <1>12 DEF Terminate, wireVars, taskVars, storeVars
  <2>2. Onward
    BY <2>1 DEF Onward, At
  <2> QED
    BY <2>1, <2>2, ObjectRest
<1>13. ASSUME NEW c \in Clients, Close(c) PROVE ObjectInv'
  <2>1. /\ UNCHANGED <<freed, db>> /\ UNCHANGED <<answered, tasks>> /\ pc = "idle" /\ pc' = "idle"
    BY <1>13 DEF Close, wireVars, taskVars, storeVars
  <2>2. Onward
    BY <2>1 DEF Onward, At
  <2> QED
    BY <2>1, <2>2, ObjectRest
<1>14. ASSUME NEW c \in Clients, Unblock(c) PROVE ObjectInv'
  <2>1. /\ UNCHANGED <<freed, db>> /\ UNCHANGED tasks /\ pc = "idle"
        /\ answered' = [answered EXCEPT ![c] = @ + 1]
        /\ status[c] = "blocked" /\ pc' = (IF len[c] > 0 THEN "loop" ELSE "idle")
    BY <1>14 DEF Unblock, taskVars, storeVars
  <2>2. len[c] = 0
    BY <2>1, Idle, Known DEF Places
  <2>3. pc' = "idle"
    BY <2>1, <2>2
  <2>4. Onward
    BY <2>1 DEF Onward, At, ParseInv, Types
  <2> QED
    BY <2>1, <2>3, <2>4, ObjectRest
<1> QED
  BY <1>1, <1>2, <1>3, <1>4, <1>5, <1>6, <1>7, <1>8, <1>9, <1>10, <1>11, <1>12, <1>13, <1>14
     DEF Next, Handler

\* No copy of a value writes to an object that was given back, as long as no
\* client sends a long script: the script of EVAL is dropped behind the posted
\* copy into it.  SET gives back the value of an earlier request, whose copy is
\* done since the receive call waited for it.  The query buffer may move with
\* copies into and out of it pending.
THEOREM NothingFreed == ASSUME Setting, NoEval PROVE Spec => []NoCopyIntoFreedValue
<1>1. Init => ParseInv /\ ObjectInv
  BY ParseInit, InitObjects
<1>2. ParseInv /\ ObjectInv /\ [Next]_vars => (ParseInv /\ ObjectInv)'
  BY ParseNext, ObjectNext
<1>3. ObjectInv => NoCopyIntoFreedValue
  BY DEF ObjectInv, NoCopyIntoFreedValue
<1> QED
  BY <1>1, <1>2, <1>3, PTL DEF Spec

-----------------------------------------------------------------------------
(* Requests that are read as a whole                                       *)

LEMMA WholeConditions == WholeSetting => Setting /\ WholeReads /\ NoEval
  BY Constants DEF WholeSetting, Setting, LinesTogether, WholeReads, Fits

\* Before its first line is read, the rest of the stream is the request.
LEMMA WholeNew == WholeReads => \A c \in Clients : ParseInv /\ stage[c] = "new" => Whole(c)
<1> SUFFICES ASSUME WholeReads, ParseInv, NEW c \in Clients, stage[c] = "new", len[c] > qbPos[c]
             PROVE  /\ At(c, "loop") /\ status[c] = "open"
                    /\ len[c] = Size(c) /\ qbPos[c] = Taken(c) /\ FirstCopy(c) /\ Copied(c)
  BY DEF Whole, Partial
<1>1. /\ At(c, "loop") /\ status[c] = "open" /\ qbPos[c] = 0 /\ FirstCopy(c) /\ Copied(c)
  BY Known DEF Fresh
<1>2. Taken(c) = 0
  BY <1>1 DEF Taken, Served, At
<1>3. /\ len[c] \in Nat /\ received[c] \in Nat /\ Start(c) \in Nat
      /\ received[c] = Start(c) + Taken(c) + (len[c] - qbPos[c])
      /\ received[c] \in {Start(c), Len(stream[c])}
  BY Known, Counting DEF Requests
<1>4. Owed(c)
  BY <1>1, <1>3, Counting
<1>5. Start(c) + Size(c) = Len(stream[c]) /\ Size(c) \in Nat
  BY <1>4, Counting, Owing
<1>6. len[c] = Size(c)
  BY ONLY <1>1, <1>2, <1>3, <1>5, len[c] > qbPos[c]
<1> QED
  BY <1>1, <1>2, <1>6

LEMMA WholeNewNext ==
    WholeReads => (\A c \in Clients : ParseInv /\ stage[c] = "new" => Whole(c))'
<1>1. (WholeReads => \A c \in Clients : ParseInv /\ stage[c] = "new" => Whole(c))'
  BY WholeNew, PTL
<1> QED
  BY <1>1 DEF WholeReads

LEMMA NothingLeft ==
    ASSUME ParseInv, NEW c \in Clients, Whole(c), ~At(c, "loop")
    PROVE  stage[c] = "new" /\ len[c] = qbPos[c]
<1>1. stage[c] = "new" /\ ~(len[c] > qbPos[c])
  BY DEF Whole, Partial
<1> QED
  BY <1>1, Known DEF Requests

\* All lines are there when the first one is reported.
LEMMA LinesThere ==
    ASSUME ParseInv, NEW c \in Clients, stage[c] = "new", len[c] > qbPos[c],
           descriptor[c] >= qbPos[c] + Window - 1, LinesTogether(3), len[c] = Size(c)
    PROVE  Lines(c)
<1>1. /\ Owed(c) /\ Copied(c)
      /\ tasks # <<>> => 3 <= progress
  BY FirstLines
<1>2. /\ Start(c) \in Nat /\ Size(c) \in Nat
      /\ \A i \in 1 .. Size(c) : stream[c][Start(c) + i] = Cell(c, sent[c], i)
  BY <1>1, Owing
<1>3. progress \in Nat
  BY Known DEF Types
<1>4. ASSUME NEW k \in 0 .. 2, k < len[c] PROVE buf[c][k] = Cell(c, sent[c], k + 1)
  <2>1. k \in 0 .. len[c] - 1 /\ (tasks = <<>> \/ k < progress) /\ k + 1 \in 1 .. Size(c)
    BY <1>1, <1>2, <1>3, <1>4
  <2>2. buf[c][k] = stream[c][Start(c) + k + 1]
    BY <1>1, <2>1 DEF Copied
  <2>3. Start(c) + k + 1 = Start(c) + (k + 1)
    BY <1>2
  <2> QED
    BY <1>2, <2>1, <2>2, <2>3
<1> QED
  BY <1>4 DEF Lines

LEMMA LineTaken ==
    ASSUME ParseInv, NEW c \in Clients, Whole(c), Partial(c), Lines(c), cur' = c, pc' = "loop",
           UNCHANGED <<sent, stream, answered, buf, len, owner, descriptor, tasks, progress, status>>,
           stage'[c] \in {"short", "len", "bulk"}, qbPos'[c] = Taken(c)'
    PROVE  Whole(c)'
<1>1. /\ Asked(c)' = Asked(c) /\ Size(c)' = Size(c) /\ Start(c)' = Start(c)
  BY SameWire
<1>2. At(c, "loop")'
  BY DEF At
<1>3. FirstCopy(c) /\ Copied(c) /\ status[c] = "open" /\ len[c] = Size(c)
  BY DEF Whole
<1>4. FirstCopy(c)' /\ Copied(c)'
  BY <1>1, <1>3 DEF FirstCopy, Copied
<1>5. Lines(c)'
  BY DEF Lines, Cell
<1> QED
  BY <1>1, <1>2, <1>3, <1>4, <1>5 DEF Whole

LEMMA WholeHead ==
    ASSUME ParseInv, ParseInv', WholeSetting, NEW c \in Clients, Whole(c), ParseHead(c),
           stage'[c] # "new"
    PROVE  Whole(c)'
<1>1. /\ cur = c /\ cur' = c /\ pc = "loop" /\ qbPos[c] < len[c] /\ status[c] = "open"
      /\ UNCHANGED <<sent, stream, answered, buf, len, owner, descriptor, progress>>
  BY DEF ParseHead, Parsing, parseFrame, wireVars
<1>2. stage[c] = "new" /\ descriptor[c] >= qbPos[c] + Window - 1
  BY Known DEF ParseHead, Places
<1>3. stage'[c] # "inline"
  BY DEF ParseInv, Places
<1>4. /\ stage' = [stage EXCEPT ![c] = "short"] /\ qbPos' = [qbPos EXCEPT ![c] = @ + 1]
      /\ pc' = "loop" /\ UNCHANGED <<tasks, status>>
  <2>1. stage \in [Clients -> {"new", "inline", "short", "len", "bulk"}]
    BY DEF ParseInv, Types
  <2>2. ~Unexpected(c, "inline")
    BY <1>3, <2>1 DEF Unexpected
  <2>3. PICK st \in {"short", "new"} :
           /\ Consume(c, st) /\ pc' = IF st = "short" THEN "loop" ELSE "reset"
           /\ UNCHANGED <<tasks, status>>
    BY <1>2, <2>2 DEF ParseHead
  <2>4. stage'[c] = st
    BY <2>1, <2>3 DEF Consume
  <2> QED
    BY <2>3, <2>4, stage'[c] # "new" DEF Consume
<1>5. Partial(c) /\ len[c] > qbPos[c] /\ qbPos[c] = 0
  <2>1. len[c] > qbPos[c]
    BY <1>1, Known
  <2> QED
    BY <1>2, <2>1, Known DEF Partial, Fresh
<1>6. Lines(c)
  BY <1>2, <1>5, LinesThere DEF Whole, WholeSetting
<1>7. stage'[c] = "short" /\ qbPos'[c] = 1
  BY <1>4, <1>5 DEF ParseInv, Types
<1>8. qbPos'[c] = Taken(c)'
  BY <1>7 DEF Taken
<1> QED
  BY <1>1, <1>4, <1>5, <1>6, <1>7, <1>8, LineTaken

LEMMA WholeShort ==
    ASSUME ParseInv, ParseInv', WholeSetting, NEW c \in Clients, Whole(c), ParseShort(c),
           stage'[c] # "new"
    PROVE  Whole(c)'
<1>1. /\ cur = c /\ cur' = c /\ pc = "loop" /\ qbPos[c] < len[c] /\ status[c] = "open"
      /\ stage[c] = "short"
      /\ UNCHANGED <<sent, stream, answered, buf, len, owner, descriptor, progress>>
  BY DEF ParseShort, Parsing, parseFrame, wireVars
<1>2. Partial(c) /\ Lines(c) /\ qbPos[c] = 1
  BY <1>1 DEF Whole, Partial, Taken
<1>3. FirstCell(c) = Cell(c, sent[c], 2)
  BY <1>1, <1>2, Known DEF Lines, FirstCell
<1>4. Type(FirstCell(c)) = "S"
  <2>1. Owed(c) /\ Asked(c) # "empty"
    BY <1>1, Counting, Known DEF Arguments
  <2>2. Asked(c) \in Kinds /\ sent[c] \in Nat /\ 2 \in Nat
    BY <2>1, Owing, Known
  <2> QED
    BY <1>3, <2>1, <2>2, CellParts, Shapes DEF Asked
<1>5. /\ stage' = [stage EXCEPT ![c] = "len"] /\ qbPos' = [qbPos EXCEPT ![c] = @ + 1]
      /\ pc' = "loop" /\ UNCHANGED <<tasks, status>>
  <2>1. stage \in [Clients -> {"new", "inline", "short", "len", "bulk"}]
    BY DEF ParseInv, Types
  <2>2. stage' # [stage EXCEPT ![c] = "new"]
    BY <2>1
  <2>3. HasValue(Kind(head[c])) /\ Consume(c, "len") /\ UNCHANGED <<pc, tasks, status>>
    BY <1>4, <2>2 DEF ParseShort, Consume
  <2> QED
    BY <1>1, <2>3 DEF Consume
<1>6. stage'[c] = "len" /\ qbPos'[c] = 2
  BY <1>2, <1>5 DEF ParseInv, Types
<1>7. qbPos'[c] = Taken(c)'
  BY <1>6 DEF Taken
<1> QED
  BY <1>1, <1>2, <1>5, <1>6, <1>7, LineTaken

LEMMA WholeLength ==
    ASSUME ParseInv, ParseInv', WholeSetting, NEW c \in Clients, Whole(c), ParseLength(c),
           stage'[c] # "new"
    PROVE  Whole(c)'
<1>1. /\ cur = c /\ cur' = c /\ pc = "loop" /\ qbPos[c] < len[c] /\ status[c] = "open"
      /\ stage[c] = "len"
      /\ UNCHANGED <<sent, stream, answered, buf, len, owner, descriptor, progress>>
  BY DEF ParseLength, Parsing, parseFrame, wireVars
<1>2. Partial(c) /\ Lines(c) /\ qbPos[c] = 2
  BY <1>1 DEF Whole, Partial, Taken
<1>3. FirstCell(c) = Cell(c, sent[c], 3)
  BY <1>1, <1>2, Known DEF Lines, FirstCell
<1>4. Type(FirstCell(c)) = "L"
  <2>1. HasValue(Asked(c)) /\ sent[c] \in Nat /\ 3 \in Nat
    BY <1>1, Known DEF Arguments
  <2>2. Shape[Asked(c)][3] = "L"
    BY <2>1, LongShape DEF HasValue
  <2> QED
    BY <1>3, <2>1, <2>2, CellParts DEF Asked
<1>5. /\ stage' = [stage EXCEPT ![c] = "bulk"] /\ qbPos' = [qbPos EXCEPT ![c] = @ + 1]
      /\ pc' = "loop" /\ UNCHANGED <<tasks, status>>
  BY <1>1, <1>4 DEF ParseLength, Consume
<1>6. stage'[c] = "bulk" /\ qbPos'[c] = 3
  BY <1>2, <1>5 DEF ParseInv, Types
<1>7. qbPos'[c] = Taken(c)'
  BY <1>6 DEF Taken
<1> QED
  BY <1>1, <1>2, <1>5, <1>6, <1>7, LineTaken

\* The long argument is received with the rest.
LEMMA WholeBulk ==
    ASSUME ParseInv, NEW c \in Clients, Whole(c), ParseBulk(c)
    PROVE  /\ qbPos[c] = 3 /\ len[c] = ValueLen + 4 /\ FirstCopy(c) /\ Copied(c) /\ Owed(c)
           /\ Size(c) = ValueLen + 4 /\ sent[c] = answered[c] + 1
           /\ tasks' = Append(tasks, [type |-> "value", client |-> c, owner |-> owner[c],
                                      from |-> 3, to |-> 0, size |-> ValueLen,
                                      object |-> <<c, sent[c]>>])
           /\ long'[c] = <<c, sent[c]>> /\ stage'[c] = "new" /\ pc' = "exec" /\ cur' = c
           /\ UNCHANGED <<sent, stream, answered, buf, progress, objects, db, used>>
<1>1. /\ cur = c /\ cur' = c /\ stage[c] = "bulk"
      /\ UNCHANGED <<sent, stream, answered, buf, progress, objects, db, used>>
  BY DEF ParseBulk, Parsing, parseFrame, wireVars, storeVars
<1>2. qbPos[c] = 3 /\ len[c] = Size(c) /\ FirstCopy(c) /\ Copied(c)
  BY <1>1 DEF Whole, Partial, Taken
<1>3. Owed(c) /\ Size(c) = ValueLen + 4 /\ sent[c] = answered[c] + 1
  BY <1>1, Counting, Owing, Known DEF Arguments
<1>4. len[c] - qbPos[c] >= BulkSize
  BY <1>2, <1>3, Numbers DEF BulkSize
<1>5. /\ long' = [long EXCEPT ![c] = <<c, sent[c]>>] /\ stage' = [stage EXCEPT ![c] = "new"]
      /\ pc' = "exec"
      /\ tasks' = Append(tasks, [type |-> "value", client |-> c, owner |-> owner[c],
                                 from |-> 3, to |-> 0, size |-> ValueLen,
                                 object |-> <<c, sent[c]>>])
  <2>1. ~(len[c] - qbPos[c] < BulkSize)
    <3>1. len[c] \in Nat /\ qbPos[c] \in Nat /\ BulkSize \in Nat
      BY Known, Numbers DEF BulkSize
    <3> QED
      BY ONLY <1>4, <3>1
  <2> QED
    BY <1>2, <1>3, <2>1 DEF ParseBulk, BulkStart, Posted
<1>6. long'[c] = <<c, sent[c]>> /\ stage'[c] = "new"
  BY <1>5 DEF ParseInv, Types
<1> QED
  BY <1>1, <1>2, <1>3, <1>5, <1>6

LEMMA WholeCopy ==
    ASSUME ParseInv, NEW c \in Clients, Whole(c), CopyCell, stage[c] # "new"
    PROVE  Whole(c)'
<1>1. /\ At(c, "loop") /\ status[c] = "open" /\ len[c] = Size(c) /\ qbPos[c] = Taken(c)
      /\ FirstCopy(c) /\ Copied(c) /\ Lines(c)
  BY DEF Whole, Partial
<1>2. FirstCopy(c)' /\ Copied(c)'
  BY <1>1, FirstCopying
<1>3. UNCHANGED <<sent, stream, answered, len, qbPos, stage, status, pc, cur>>
  BY DEF CopyCell, wireVars
<1>4. Asked(c)' = Asked(c) /\ Size(c)' = Size(c) /\ Start(c)' = Start(c)
  BY <1>3, SameWire
<1>5. At(c, "loop")' /\ Taken(c)' = Taken(c)
  BY <1>1, <1>3, <1>4 DEF At, Taken, Served
<1>6. ASSUME NEW k \in 0 .. 2, k < len[c] PROVE buf'[c][k] = Cell(c, sent[c], k + 1)
  <2>t. PICK t : t = tasks[1]
    OBVIOUS
  <2>j. PICK j : j = progress
    OBVIOUS
  <2>s. PICK source : source = Moved(t, j)
    OBVIOUS
  <2>1. tasks # <<>>
    BY DEF CopyCell
  <2>2. /\ t.type = "recv" /\ t.client = c /\ t.to = 0 /\ t.from = Start(c) /\ t.owner = owner[c]
    BY <1>1, <2>t, <2>1 DEF FirstCopy
  <2>3. t = tasks[1] /\ c = t.client /\ j = progress
    BY <2>t, <2>j, <2>2
  <2>4. /\ tasks # <<>> /\ t \in TaskType /\ Lives(t) /\ c \in Clients
        /\ j \in Nat /\ j < t.size /\ t.to + j \in Positions
        /\ source \in Range(stream[c]) \cup {NUL} /\ source \in Memory
        /\ UNCHANGED <<wireVars, len, room, owner, qbPos, stage, head, short, long, status,
                       freed, db, used, pc, cur>>
        /\ buf' = IF Lands(t) THEN [buf EXCEPT ![c][t.to + j] = source] ELSE buf
        /\ objects' = IF t.type = "value" /\ t.object \notin freed
                      THEN [objects EXCEPT ![t.object][j + 1] = source] ELSE objects
        /\ descriptor' = IF t.type = "recv" /\ (j + 1 = t.size \/ (j + 1) % Chunk = 0)
                         THEN [descriptor EXCEPT ![c] = t.to + j] ELSE descriptor
        /\ tasks' = IF j + 1 = t.size THEN Tail(tasks) ELSE tasks
        /\ progress' = IF j + 1 = t.size THEN 0 ELSE j + 1
    BY <2>s, <2>3, Copying
  <2>5. buf \in [Clients -> [Positions -> Memory]] /\ t.to + j = j /\ j \in Positions
    BY <2>2, <2>4 DEF ParseInv, Types
  <2>6. buf' = [buf EXCEPT ![c] = [@ EXCEPT ![j] = source]]
    <3>1. Lands(t)
      BY <2>2, <2>4 DEF Lands, Stale, Lives
    <3> QED
      BY <2>4, <2>5, <3>1
  <2>7. buf[c][k] = Cell(c, sent[c], k + 1)
    BY <1>1, <1>6 DEF Lines
  <2>8. buf'[c][k] = IF k = j THEN source ELSE buf[c][k]
    BY <2>5, <2>6
  <2>9. ASSUME k = j PROVE source = Cell(c, sent[c], k + 1)
    <3>1. Owed(c) /\ stage[c] \in {"short", "len", "bulk"}
      BY Known, Counting DEF Places
    <3>2. Start(c) \in Nat /\ Size(c) \in Nat
      BY <3>1, Owing
    <3>3. k + 1 \in 1 .. Size(c) /\ Start(c) + k + 1 = Start(c) + (k + 1)
      BY <1>1, <1>6, <3>2
    <3>4. stream[c][Start(c) + (k + 1)] = Cell(c, sent[c], k + 1)
      BY <3>1, <3>3, Owing
    <3> QED
      BY <2>2, <2>9, <2>s, <3>3, <3>4 DEF Moved
  <2> QED
    BY <2>7, <2>8, <2>9
<1>7. Lines(c)'
  BY <1>3, <1>6 DEF Lines, Cell
<1> QED
  BY <1>1, <1>2, <1>3, <1>4, <1>5, <1>7 DEF Whole

LEMMA WholeStep ==
    ASSUME ParseInv, ParseInv', WholeSetting, \A c \in Clients : Whole(c), [Next]_vars,
           NEW x \in Clients
    PROVE  Whole(x)'
<1>1. WholeReads
  BY WholeConditions
<1>2. SUFFICES ASSUME stage'[x] # "new" PROVE Whole(x)'
  BY <1>1, WholeNewNext
<1>3. Whole(x)
  OBVIOUS
<1>4. stage[x] # "new" => At(x, "loop") /\ len[x] = Size(x) /\ Owed(x) /\ qbPos[x] < len[x]
                          /\ status[x] = "open"
  <2>1. SUFFICES ASSUME stage[x] # "new"
                 PROVE  At(x, "loop") /\ len[x] = Size(x) /\ Owed(x) /\ qbPos[x] < len[x]
                        /\ status[x] = "open"
    OBVIOUS
  <2>2. At(x, "loop") /\ len[x] = Size(x) /\ qbPos[x] = Taken(x) /\ status[x] = "open"
    BY <1>3, <2>1 DEF Whole, Partial
  <2>3. Owed(x) /\ stage[x] \in {"short", "len", "bulk"} /\ Asked(x) # "empty"
        /\ (stage[x] # "short" => HasValue(Asked(x)))
    BY <2>1, Known, Counting DEF Places, Arguments
  <2>4. Size(x) >= 2 /\ (stage[x] # "short" => Size(x) = ValueLen + 4) /\ Size(x) \in Nat
    BY <2>3, Owing
  <2>5. Taken(x) < Size(x)
    BY <2>3, <2>4, Numbers DEF Taken
  <2> QED
    BY <2>2, <2>3, <2>5
<1>5. CASE UNCHANGED vars
  <2>1. UNCHANGED <<sent, stream, answered, buf, len, owner, qbPos, stage, status, descriptor, tasks,
                    progress, pc, cur>>
    BY <1>5 DEF vars, wireVars, clientVars, taskVars
  <2>2. Asked(x)' = Asked(x) /\ Size(x)' = Size(x) /\ Start(x)' = Start(x)
    BY <2>1, SameWire
  <2>3. Whole(x)' = Whole(x)
    BY <2>1, <2>2 DEF Whole, Partial, At, Taken, Served, FirstCopy, Copied, Lines, Cell
  <2> QED
    BY <1>3, <2>3
<1>6. CASE CopyCell
  <2>1. stage' = stage
    BY <1>6 DEF CopyCell
  <2> QED
    BY <1>2, <1>3, <1>6, <2>1, WholeCopy
<1>7. ASSUME NEW c \in Clients, ClientSend(c) PROVE Whole(x)'
  <2>1. /\ UNCHANGED <<answered, clientVars, taskVars, pc, cur>> /\ sent' = [sent EXCEPT ![c] = @ + 1]
        /\ stream' = [stream EXCEPT ![c] = @ \o Request(c, sent[c] + 1)]
    BY <1>7 DEF ClientSend
  <2>2. UNCHANGED <<buf, len, owner, qbPos, stage, status, descriptor, tasks, progress>>
    BY <2>1 DEF clientVars, taskVars
  <2>3. ~Owed(c)
    BY <1>7, Known, WholeConditions DEF ClientSend, Setting, OneAtATime, Owed, Requests
  <2>4. x # c
    BY <1>2, <1>4, <2>2, <2>3
  <2>5. sent'[x] = sent[x] /\ stream'[x] = stream[x]
    BY <2>1, <2>4 DEF ParseInv, Types
  <2>6. Asked(x)' = Asked(x) /\ Size(x)' = Size(x) /\ Start(x)' = Start(x)
    <3>1. answered'[x] = answered[x]
      BY <2>1
    <3>2. (Owed(x))' = Owed(x) /\ Asked(x)' = Asked(x)
      BY <2>5, <3>1 DEF Owed, Asked
    <3>3. Size(x)' = Size(x)
      BY <3>2 DEF Size
    <3> QED
      BY <2>5, <3>2, <3>3 DEF Start
  <2>7. Whole(x)' = Whole(x)
    <3>1. UNCHANGED <<pc, cur>>
      BY <2>1
    <3> QED
      BY <3>1, <2>2, <2>5, <2>6 DEF Whole, Partial, At, Taken, Served, FirstCopy, Copied, Lines, Cell
  <2> QED
    BY <1>3, <2>7
<1>8. ASSUME NEW c \in Clients, stage' = stage, pc # "loop" PROVE FALSE
  BY <1>2, <1>4, <1>8 DEF At
<1>9. ASSUME NEW c \in Clients, StopParsing(c) PROVE FALSE
  <2>1. cur = c /\ ~Parsing(c) /\ stage' = stage /\ pc = "loop"
    BY <1>9 DEF StopParsing, Break
  <2> QED
    BY <1>2, <1>4, <2>1 DEF At, Parsing
<1>10. ASSUME NEW c \in Clients, cur = c, \A y \in Clients : y # c => stage'[y] = stage[y] PROVE x = c
  BY <1>2, <1>4, <1>10 DEF At
<1>11. ASSUME NEW c \in Clients, ParseHead(c) \/ ParseShort(c) \/ ParseLength(c) \/ ParseBulk(c)
       PROVE  Whole(x)'
  <2>1. cur = c /\ \E st \in {"new", "inline", "short", "len", "bulk"} : stage' = [stage EXCEPT ![c] = st]
    <3>1. stage = [stage EXCEPT ![c] = stage[c]]
      BY DEF ParseInv, Types
    <3>2. stage[c] \in {"new", "inline", "short", "len", "bulk"}
      BY Known
    <3> QED
      BY <1>11, <3>1, <3>2
         DEF ParseHead, ParseShort, ParseLength, ParseBulk, Parsing, Consume, Unexpected, Break
  <2>2. \A y \in Clients : y # c => stage'[y] = stage[y]
    BY <2>1
  <2>3. x = c
    BY <1>10, <2>1, <2>2
  <2>4. ~ParseBulk(c)
    BY <1>2, <1>3, <2>3, WholeBulk
  <2> QED
    BY <1>2, <1>3, <1>11, <2>3, <2>4, WholeHead, WholeShort, WholeLength
<1>12. ASSUME NEW c \in Clients,
              \/ ReadQuery(c) \/ (\E n \in ReadSizes(c) : Recv(c, n)) \/ Execute(c) \/ Reset(c)
              \/ Trim(c) \/ Terminate(c) \/ Close(c) \/ Unblock(c)
       PROVE  FALSE
  <2>1. stage' = stage /\ pc # "loop"
    BY <1>12 DEF ReadQuery, Recv, Execute, Reset, Trim, Terminate, Close, Unblock
  <2> QED
    BY <1>8, <2>1
<1> QED
  BY <1>5, <1>6, <1>7, <1>9, <1>11, <1>12 DEF Next, Handler

-----------------------------------------------------------------------------
(* The sources of the values                                               *)

LEMMA ServerFrame ==
    ASSUME NEW c \in Clients, Handler(c) \/ Unblock(c)
    PROVE  UNCHANGED <<sent, stream, objects, progress>>
  BY DEF Handler, Unblock, ReadQuery, Recv, ParseHead, ParseShort, ParseLength, ParseBulk, StopParsing,
         Execute, Reset, Trim, Terminate, Close, parseFrame, wireVars, taskVars, storeVars

\* Nothing is left behind a request that was read as a whole.
LEMMA TrimNothing ==
    ASSUME ParseInv, NEW c \in Clients, Whole(c), Trim(c)
    PROVE  UNCHANGED <<buf, tasks>>
<1>1. ~At(c, "loop")
  BY DEF Trim, At
<1>2. len[c] = qbPos[c] /\ len[c] \in Nat
  BY <1>1, NothingLeft, Known
<1>3. ~(len[c] - qbPos[c] > 0)
  BY <1>2
<1> QED
  BY <1>3 DEF Trim

\* A read of a whole request finds the query buffer as it left it.
LEMMA SteadyRead ==
    ASSUME ParseInv, Steady, NEW c \in Clients, Whole(c), ReadQuery(c)
    PROVE  Steady'
<1>1. pc = "idle" /\ UNCHANGED tasks
  BY DEF ReadQuery, taskVars
<1>2. len[c] = 0 /\ room \in [Clients -> Nat] /\ owner \in [Clients -> Nat]
  <2>1. ~At(c, "loop")
    BY <1>1 DEF At
  <2> QED
    BY <1>1, <2>1, NothingLeft, Idle DEF ParseInv, Types
<1>3. CASE room[c] - len[c] >= ReadLen
  BY <1>1, <1>3 DEF ReadQuery, Steady
<1>4. CASE ~(room[c] - len[c] >= ReadLen)
  <2>1. room[c] = 0 /\ \A k \in 1 .. Len(tasks) : tasks[k].client # c
    <3>1. room[c] # ReadLen + Prealloc
      BY ONLY <1>2, <1>4, Numbers
    <3> QED
      BY <3>1 DEF Steady
  <2>2. room' = [room EXCEPT ![c] = EnlargedRoom(c)] /\ EnlargedRoom(c) = ReadLen + Prealloc
    BY <1>2, <1>4, Numbers DEF ReadQuery, EnlargedRoom
  <2>3. \A x \in Clients : x # c => owner'[x] = owner[x] /\ room'[x] = room[x]
    BY <1>2, <1>4, <2>2 DEF ReadQuery
  <2>4. room'[c] = ReadLen + Prealloc
    BY <1>2, <2>2
  <2>5. \A k \in 1 .. Len(tasks) : tasks[k].client \in Clients
    BY TaskOf, TaskParts
  <2> QED
    BY <1>1, <2>1, <2>3, <2>4, <2>5 DEF Steady
<1> QED
  BY <1>3, <1>4

\* A posted copy is of the query buffer as it is.
LEMMA SteadyPost ==
    ASSUME ParseInv, Steady, NEW c \in Clients, len[c] > 0 \/ room[c] - len[c] >= ReadLen,
           NEW t, t.client = c, t.owner = owner[c], tasks' = Append(tasks, t), UNCHANGED <<owner, room>>
    PROVE  Steady'
<1>1. tasks \in Seq(TaskType) /\ Len(tasks) \in Nat
  BY DEF ParseInv, Types
<1>2. /\ Len(tasks') = Len(tasks) + 1 /\ tasks'[Len(tasks) + 1] = t
      /\ \A k \in 1 .. Len(tasks) : tasks'[k] = tasks[k]
  BY <1>1
<1>3. room[c] # 0
  <2>1. room[c] \in Nat /\ len[c] \in Nat /\ len[c] <= room[c]
    BY Known DEF Requests
  <2> QED
    BY <2>1, Numbers
<1>4. ASSUME NEW k \in 1 .. Len(tasks')
      PROVE  k \in 1 .. Len(tasks) \/ (k = Len(tasks) + 1 /\ tasks'[k] = t)
  BY <1>1, <1>2
<1>5. ASSUME NEW k \in 1 .. Len(tasks') PROVE owner'[tasks'[k].client] = tasks'[k].owner
  BY <1>2, <1>4 DEF Steady
<1>6. ASSUME NEW x \in Clients, room'[x] # ReadLen + Prealloc
      PROVE  room'[x] = 0 /\ \A k \in 1 .. Len(tasks') : tasks'[k].client # x
  <2>1. room[x] = 0 /\ \A k \in 1 .. Len(tasks) : tasks[k].client # x
    BY <1>6 DEF Steady
  <2>2. x # c
    BY <1>3, <2>1
  <2> QED
    BY <1>2, <1>4, <2>1, <2>2
<1> QED
  BY <1>5, <1>6 DEF Steady

LEMMA SteadyNext ==
    ASSUME ParseInv, Steady, \A c \in Clients : Whole(c), [Next]_vars
    PROVE  Steady'
<1>1. CASE UNCHANGED vars
  BY <1>1 DEF Steady, vars, clientVars, taskVars
<1>2. CASE CopyCell
  <2>1. /\ tasks # <<>> /\ tasks \in Seq(TaskType) /\ UNCHANGED <<owner, room>>
        /\ tasks' \in {tasks, Tail(tasks)}
    BY <1>2 DEF CopyCell, ParseInv, Types
  <2>2. \A i \in 1 .. Len(tasks') : \E l \in 1 .. Len(tasks) : tasks'[i] = tasks[l]
    BY <2>1, RingCopied
  <2> QED
    BY <2>1, <2>2 DEF Steady
<1>3. ASSUME NEW c \in Clients, ClientSend(c) PROVE Steady'
  BY <1>3 DEF ClientSend, Steady, clientVars, taskVars
<1>4. ASSUME NEW c \in Clients, ReadQuery(c) PROVE Steady'
  BY <1>4, SteadyRead
<1>5. ASSUME NEW c \in Clients, NEW n \in ReadSizes(c), Recv(c, n) PROVE Steady'
  <2>t. PICK t : t = [type |-> "recv", client |-> c, owner |-> owner[c], from |-> received[c],
                      to |-> len[c], size |-> n]
    OBVIOUS
  <2>1. tasks' = Append(tasks, t) /\ UNCHANGED <<owner, room>>
    BY <1>5, <2>t DEF Recv, Posted
  <2>2. room[c] - len[c] >= ReadLen
    BY <1>5, Known DEF Recv, Places, At
  <2> QED
    BY <2>t, <2>1, <2>2, SteadyPost
<1>6. ASSUME NEW c \in Clients, ParseBulk(c) PROVE Steady'
  <2>1. UNCHANGED <<owner, room>>
    BY <1>6 DEF ParseBulk, parseFrame
  <2>2. CASE UNCHANGED tasks
    BY <2>1, <2>2 DEF Steady
  <2>3. CASE tasks' # tasks
    <3>t. PICK t : t = [type |-> "value", client |-> c, owner |-> owner[c], from |-> BulkStart(c),
                        to |-> 0, size |-> ValueLen, object |-> <<c, answered[c] + 1>>]
      OBVIOUS
    <3>1. tasks' = Append(tasks, t) /\ len[c] > qbPos[c]
      BY <1>6, <2>3, <3>t DEF ParseBulk, Parsing, Break, Posted
    <3>2. len[c] > 0
      BY <3>1, Known
    <3> QED
      BY <2>1, <3>t, <3>1, <3>2, SteadyPost
  <2> QED
    BY <2>2, <2>3
<1>7. ASSUME NEW c \in Clients,
             \/ ParseHead(c) \/ ParseShort(c) \/ ParseLength(c) \/ StopParsing(c) \/ Execute(c)
             \/ Reset(c) \/ Trim(c) \/ Terminate(c) \/ Close(c) \/ Unblock(c)
      PROVE  Steady'
  <2>1. UNCHANGED tasks
    <3>1. CASE Trim(c)
      BY <3>1, TrimNothing
    <3>2. CASE ~Trim(c)
      BY <1>7, <3>2 DEF ParseHead, ParseShort, ParseLength, StopParsing, Execute, Reset, Terminate,
                        Close, Unblock, Break, Unexpected, taskVars
    <3> QED
      BY <3>1, <3>2
  <2>2. UNCHANGED <<owner, room>>
    BY <1>7 DEF ParseHead, ParseShort, ParseLength, StopParsing, Execute, Reset, Trim, Terminate,
                Close, Unblock, parseFrame
  <2> QED
    BY <2>1, <2>2 DEF Steady
<1> QED
  BY <1>1, <1>2, <1>3, <1>4, <1>5, <1>6, <1>7 DEF Next, Handler

\* The server leaves alone what a posted copy has to read: it stores only at the
\* start of the buffer of a client nothing is left of, and moves only buffers
\* nothing was posted for.
LEMMA BufferKept ==
    ASSUME ParseInv, Steady, NEW c \in Clients, Whole(c), Handler(c) \/ Unblock(c),
           NEW k \in 1 .. Len(tasks), NEW p \in Nat, p # 0
    PROVE  buf'[tasks[k].client][p] = buf[tasks[k].client][p]
<1>d. PICK d : d = tasks[k].client
  OBVIOUS
<1>0. tasks # <<>> /\ buf \in [Clients -> [Positions -> Memory]] /\ d \in Clients
  <2>1. tasks \in Seq(TaskType) /\ tasks[k] \in TaskType
    BY DEF ParseInv, Types
  <2> QED
    BY <1>d, <2>1, TaskParts DEF ParseInv, Types
<1>1. CASE ReadQuery(c)
  <2>1. /\ pc = "idle"
        /\ IF room[c] - len[c] >= ReadLen THEN UNCHANGED buf
           ELSE \/ UNCHANGED buf
                \/ buf' = [buf EXCEPT ![c] = [q \in Positions |-> IF q < len[c] THEN @[q] ELSE NUL]]
    BY <1>1 DEF ReadQuery
  <2>2. len[c] = 0 /\ room[c] \in Nat
    <3>1. ~At(c, "loop")
      BY <2>1 DEF At
    <3> QED
      BY <2>1, <3>1, NothingLeft, Idle, Known
  <2>3. CASE d = c
    <3>1. room[c] = ReadLen + Prealloc
      <4>1. tasks[k].client = c
        BY <1>d, <2>3
      <4> QED
        BY <4>1 DEF Steady
    <3>2. room[c] - len[c] >= ReadLen
      BY ONLY <2>2, <3>1, Numbers
    <3> QED
      BY <1>d, <2>1, <3>2
  <2>4. CASE d # c
    <3>1. buf'[d] = buf[d]
      BY <1>0, <2>1, <2>4
    <3> QED
      BY <1>d, <3>1
  <2> QED
    BY <2>3, <2>4
<1>2. CASE \E n \in ReadSizes(c) : Recv(c, n)
  BY <1>0, <1>2 DEF Recv, Drained
<1>3. CASE Trim(c)
  BY <1>3, TrimNothing
<1>4. CASE Terminate(c)
  <2>1. ~At(c, "loop")
    BY <1>4 DEF Terminate, At
  <2>2. RestEnd(c) = 0
    BY <2>1, NothingLeft, Known DEF RestEnd
  <2>3. buf' = buf \/ buf' = [buf EXCEPT ![c] = [@ EXCEPT ![0] = NUL]]
    BY <1>4, <2>2 DEF Terminate
  <2>4. buf'[d][p] = buf[d][p]
    <3>1. CASE buf' = buf
      BY <3>1
    <3>2. CASE buf' = [buf EXCEPT ![c] = [@ EXCEPT ![0] = NUL]]
      <4>1. buf'[d] = IF d = c THEN [buf[d] EXCEPT ![0] = NUL] ELSE buf[d]
        BY <1>0, <3>2
      <4>2. [buf[d] EXCEPT ![0] = NUL][p] = buf[d][p]
        <5>1. buf[d] \in [Positions -> Memory]
          BY <1>0
        <5> QED
          BY <5>1
      <4> QED
        BY <4>1, <4>2
    <3> QED
      BY <2>3, <3>1, <3>2
  <2> QED
    BY <1>d, <2>4
<1>5. CASE \/ ParseHead(c) \/ ParseShort(c) \/ ParseLength(c) \/ ParseBulk(c) \/ StopParsing(c)
           \/ Execute(c) \/ Reset(c) \/ Close(c) \/ Unblock(c)
  <2>1. buf' = buf
    BY <1>5 DEF ParseHead, ParseShort, ParseLength, ParseBulk, StopParsing, Execute, Reset, Close,
                Unblock, parseFrame
  <2> QED
    BY <2>1
<1> QED
  BY <1>1, <1>2, <1>3, <1>4, <1>5 DEF Handler

LEMMA SourcesServer ==
    ASSUME ParseInv, Steady, Sources, NEW c \in Clients, Whole(c), Handler(c) \/ Unblock(c), UNCHANGED tasks
    PROVE  Sources'
<1>1. UNCHANGED <<sent, stream, objects, progress>>
  BY ServerFrame
<1>2. ASSUME NEW k \in 1 .. Len(tasks), tasks[k].type = "value"
      PROVE  Sourced(k)'
  <2>1. Sourced(k)
    BY <1>2 DEF Sources
  <2>2. \A i \in 1 .. ValueLen : buf'[tasks[k].client][i + 2] = buf[tasks[k].client][i + 2]
    <3>1. \A i \in 1 .. ValueLen : i + 2 \in Nat /\ i + 2 # 0
      BY Numbers
    <3> QED
      BY <3>1, BufferKept
  <2> QED
    BY <1>1, <2>1, <2>2 DEF Sourced
<1> QED
  BY <1>2 DEF Sources

LEMMA SourcesSend ==
    ASSUME ParseInv, Sources, NEW c \in Clients, ClientSend(c)
    PROVE  Sources'
<1>1. /\ UNCHANGED <<buf, tasks, progress, objects>> /\ sent' = [sent EXCEPT ![c] = @ + 1]
      /\ stream' = [stream EXCEPT ![c] = @ \o Request(c, sent[c] + 1)]
  BY DEF ClientSend, clientVars, taskVars, storeVars
<1>2. ASSUME NEW k \in 1 .. Len(tasks), tasks[k].type = "value"
      PROVE  Sourced(k)'
  <2>1. Sourced(k)
    BY <1>2 DEF Sources
  <2>2. tasks[k] \in TaskType /\ tasks[k].client \in Clients /\ tasks # <<>>
    BY TaskOf, TaskParts
  <2>d. PICK d \in Clients : d = tasks[k].client
    BY <2>2
  <2>3. sent'[d] >= sent[d] /\ sent[d] \in Nat /\ sent'[d] \in Nat
    <3>1. sent \in [Clients -> Nat]
      BY DEF ParseInv, Types
    <3>2. sent'[d] = IF d = c THEN sent[d] + 1 ELSE sent[d]
      BY <1>1, <3>1
    <3> QED
      BY <3>1, <3>2
  <2>o. PICK o : o = tasks[k].object
    OBVIOUS
  <2>4. o[2] <= sent[d] /\ o[2] \in Nat
    BY <1>2, <2>1, <2>2, <2>d, <2>o, TaskParts, ObjectParts DEF Sourced
  <2>5. o[2] <= sent'[d]
    BY ONLY <2>3, <2>4
  <2>6. ASSUME k = 2, NEW i \in 1 .. ValueLen
        PROVE  stream'[d][tasks[1].from + i + 3] = stream[d][tasks[1].from + i + 3]
    <3>1. /\ tasks[1].type = "recv" /\ tasks[1].client = d /\ tasks[1].size >= ValueLen + 3
      BY <2>1, <2>6, <2>d DEF Sourced
    <3>2. 1 \in 1 .. Len(tasks)
      BY <2>6
    <3>3. /\ tasks[1].from \in Nat /\ tasks[1].size \in Nat
          /\ tasks[1].from + tasks[1].size <= Len(stream[d])
      <4>1. tasks[1] \in TaskType /\ Lives(tasks[1])
        BY <3>2, TaskOf
      <4> QED
        BY <3>1, <4>1, TaskParts DEF Lives
    <3>4. tasks[1].from + i + 3 \in 1 .. Len(stream[d])
      <4>1. Len(stream[d]) \in Nat /\ i \in Nat /\ i >= 1 /\ i <= ValueLen
        BY Known, Numbers
      <4> QED
        <5>a. PICK from, size : from = tasks[1].from /\ size = tasks[1].size
          OBVIOUS
        <5>1. /\ from \in Nat /\ size \in Nat /\ size >= ValueLen + 3
              /\ from + size <= Len(stream[d])
          BY <3>1, <3>3, <5>a
        <5>2. from + i + 3 \in 1 .. Len(stream[d])
          BY ONLY <4>1, <5>1, Numbers
        <5> QED
          BY <5>2, <5>a
    <3>5. stream[c] \in Seq(CellType) /\ Request(c, sent[c] + 1) \in Seq(CellType)
      <4>1. sent[c] + 1 \in 1 .. Len(Script[c])
        <5>1. sent[c] \in Nat /\ sent[c] < Len(Script[c]) /\ Len(Script[c]) \in Nat
          BY Known, Constants DEF ClientSend
        <5> QED
          BY ONLY <5>1
      <4> QED
        BY <4>1, Requested, Known
    <3>6. stream'[d] = IF d = c THEN stream[c] \o Request(c, sent[c] + 1) ELSE stream[d]
      BY <1>1 DEF ParseInv, Types
    <3>7. \A j \in 1 .. Len(stream[c]) : (stream[c] \o Request(c, sent[c] + 1))[j] = stream[c][j]
      BY <3>5, Joined, ZenonT(30)
    <3> QED
      <4>j. PICK j : j = tasks[1].from + i + 3
        OBVIOUS
      <4>1. j \in 1 .. Len(stream[d])
        BY <3>4, <4>j
      <4>2. stream'[d][j] = stream[d][j]
        <5>1. CASE d = c
          <6>1. (stream[c] \o Request(c, sent[c] + 1))[j] = stream[c][j]
            BY <3>7, <4>1, <5>1
          <6>2. stream'[d] = stream[c] \o Request(c, sent[c] + 1)
            BY <3>6, <5>1
          <6> QED
            BY ONLY <5>1, <6>1, <6>2
        <5>2. CASE d # c
          BY <3>6, <5>2
        <5> QED
          BY <5>1, <5>2
      <4> QED
        BY <4>j, <4>2
  <2> QED
    BY <1>1, <2>1, <2>5, <2>6, <2>d, <2>o DEF Sourced
<1> QED
  BY <1>1, <1>2 DEF Sources

LEMMA SourcesRecv ==
    ASSUME ParseInv, NEW c \in Clients, NEW n \in ReadSizes(c), Recv(c, n)
    PROVE  Sources'
<1>t. PICK t : t = [type |-> "recv", client |-> c, owner |-> owner[c], from |-> received[c],
                    to |-> len[c], size |-> n]
  OBVIOUS
<1>1. tasks' = <<t>> /\ t.type = "recv"
  BY <1>t DEF Recv, Drained, Posted
<1> QED
  BY <1>1 DEF Sources

LEMMA SourcesBulk ==
    ASSUME ParseInv, ObjectInv, Sources, NEW c \in Clients, Whole(c), ParseBulk(c)
    PROVE  Sources'
<1>t. PICK t : t = [type |-> "value", client |-> c, owner |-> owner[c], from |-> 3, to |-> 0,
                    size |-> ValueLen, object |-> <<c, sent[c]>>]
  OBVIOUS
<1>1. /\ qbPos[c] = 3 /\ len[c] = ValueLen + 4 /\ FirstCopy(c) /\ Copied(c) /\ Owed(c)
      /\ Size(c) = ValueLen + 4 /\ tasks' = Append(tasks, t)
      /\ UNCHANGED <<sent, stream, buf, progress, objects>>
  BY <1>t, WholeBulk
<1>2. NoValues
  <2>1. cur = c /\ pc = "loop" /\ qbPos[c] < len[c] /\ status[c] = "open"
    BY DEF ParseBulk, Parsing
  <2> QED
    BY <2>1, NoValuesWhileParsing
<1>3. tasks \in Seq(TaskType) /\ Len(tasks) \in Nat /\ (Len(tasks) = 0 => tasks = <<>>)
      /\ (tasks = <<>> => Len(tasks) = 0)
  BY DEF ParseInv, Types
<1>4. /\ Len(tasks') = Len(tasks) + 1 /\ tasks'[Len(tasks) + 1] = t
      /\ \A k \in 1 .. Len(tasks) : tasks'[k] = tasks[k]
  BY <1>1, <1>3
<1>5. /\ t.type = "value" /\ t.from = 3 /\ t.client = c /\ t.object = <<c, sent[c]>>
  BY <1>t
<1>o. PICK o : o = <<c, sent[c]>>
  OBVIOUS
<1>6. o[1] = c /\ o[2] = sent[c] /\ sent[c] \in Nat
  BY <1>o, Known
<1>7. /\ Start(c) \in Nat
      /\ \A i \in 1 .. ValueLen : /\ stream[c][Start(c) + i + 3] = ValueOf(o)[i]
                                  /\ tasks = <<>> \/ i + 2 < progress => buf[c][i + 2] = ValueOf(o)[i]
  <2>1. Start(c) \in Nat
    BY <1>1, Owing
  <2>2. ASSUME NEW i \in 1 .. ValueLen
        PROVE  /\ stream[c][Start(c) + i + 3] = ValueOf(o)[i]
               /\ tasks = <<>> \/ i + 2 < progress => buf[c][i + 2] = ValueOf(o)[i]
    <3>1. ValueOf(o)[i] = Cell(c, sent[c], i + 3)
      BY <1>6 DEF ValueOf
    <3>2. /\ i + 3 \in 1 .. Size(c) /\ Start(c) + i + 3 = Start(c) + (i + 3)
          /\ i + 2 \in 0 .. len[c] - 1 /\ Start(c) + (i + 2) + 1 = Start(c) + i + 3
      BY <1>1, <2>1, Numbers
    <3>3. stream[c][Start(c) + i + 3] = Cell(c, sent[c], i + 3)
      BY <1>1, <3>2, Owing
    <3>4. tasks = <<>> \/ i + 2 < progress => buf[c][i + 2] = stream[c][Start(c) + (i + 2) + 1]
      BY <1>1, <3>2 DEF Copied
    <3> QED
      BY <3>1, <3>2, <3>3, <3>4
  <2> QED
    BY <2>1, <2>2
<1>k. PICK last : last = Len(tasks) + 1
  OBVIOUS
<1>8. Sourced(last)'
  <2>1. CASE tasks = <<>>
    <3>1. last = 1 /\ progress' = 0 /\ tasks'[1] = t
      BY <1>1, <1>3, <1>4, <1>k, <2>1, Known DEF Ring
    <3>2. \A i \in 1 .. ValueLen : ~(i <= 0) /\ buf'[c][i + 2] = ValueOf(o)[i]
      BY <1>1, <1>7, <2>1
    <3>3. tasks'[last] = t /\ last # 2 /\ sent'[c] = sent[c]
      BY <1>1, <3>1
    <3> QED
      BY <1>5, <1>6, <1>o, <3>1, <3>2, <3>3 DEF Sourced
  <2>2. CASE tasks # <<>>
    <3>1. Len(tasks) = 1 /\ tasks[1].type = "recv" /\ tasks[1].client = c /\ tasks[1].to = 0
          /\ tasks[1].from = Start(c) /\ tasks[1].size = ValueLen + 4
      BY <1>1, <2>2 DEF FirstCopy
    <3>2. tasks'[1] = tasks[1] /\ last = 2 /\ tasks'[last] = t /\ last # 1
      BY <1>4, <1>k, <3>1
    <3>3. ValueLen + 4 >= ValueLen + 3
      BY Numbers
    <3>4. \A i \in 1 .. ValueLen : /\ stream'[c][tasks'[1].from + i + 3] = ValueOf(o)[i]
                                   /\ i + 2 < progress' => buf'[c][i + 2] = ValueOf(o)[i]
      BY <1>1, <1>7, <3>1, <3>2, ZenonT(30)
    <3>5. tasks'[1].type = "recv" /\ tasks'[1].client = c /\ tasks'[1].to = 0
          /\ tasks'[1].size >= ValueLen + 3 /\ sent'[c] = sent[c]
      BY <1>1, <3>1, <3>2, <3>3
    <3> QED
      BY <1>5, <1>6, <1>o, <3>2, <3>4, <3>5 DEF Sourced
  <2> QED
    BY <2>1, <2>2
<1> QED
  <2>1. ASSUME NEW k \in 1 .. Len(tasks')
        PROVE  tasks'[k].type # "move" /\ (tasks'[k].type = "value" => k = last)
    <3>1. CASE k = last
      BY <1>4, <1>5, <1>k, <3>1
    <3>2. CASE k # last
      <4>1. k \in 1 .. Len(tasks)
        BY <1>3, <1>4, <1>k, <3>2
      <4> QED
        BY <1>2, <1>4, <4>1 DEF Sources, NoValues
    <3> QED
      BY <3>1, <3>2
  <2> QED
    BY <1>8, <2>1 DEF Sources

\* The next cell of a receive, and of the copy of a value.
LEMMA FirstIsNotStale ==
    ASSUME ParseInv, Steady, tasks # <<>>
    PROVE  ~Stale(tasks[1])
<1>1. 1 \in 1 .. Len(tasks)
  BY DEF ParseInv, Types
<1> QED
  BY <1>1, TaskOf DEF Steady, Stale, Lives

LEMMA CopyRecv ==
    ASSUME ParseInv, Steady, CopyCell, NEW t, t = tasks[1], t.type = "recv", NEW c, c = t.client,
           NEW k, k = progress
    PROVE  /\ tasks # <<>> /\ c \in Clients /\ k \in Nat /\ k < t.size
           /\ t.from \in Nat /\ t.to \in Nat /\ t.size \in Nat
           /\ UNCHANGED <<sent, stream, objects>>
           /\ \A x \in Clients, p \in Positions :
                 buf'[x][p] = IF x = c /\ p = t.to + k THEN stream[c][t.from + k + 1] ELSE buf[x][p]
           /\ tasks' = IF k + 1 = t.size THEN Tail(tasks) ELSE tasks
           /\ progress' = IF k + 1 = t.size THEN 0 ELSE k + 1
<1>s. PICK source : source = Moved(t, k)
  OBVIOUS
<1>1. /\ tasks # <<>> /\ t \in TaskType /\ Lives(t) /\ c \in Clients
      /\ k \in Nat /\ k < t.size /\ t.to + k \in Positions
      /\ source \in Range(stream[c]) \cup {NUL} /\ source \in Memory
      /\ UNCHANGED <<wireVars, len, room, owner, qbPos, stage, head, short, long, status,
                     freed, db, used, pc, cur>>
      /\ buf' = IF Lands(t) THEN [buf EXCEPT ![c][t.to + k] = source] ELSE buf
      /\ objects' = IF t.type = "value" /\ t.object \notin freed
                    THEN [objects EXCEPT ![t.object][k + 1] = source] ELSE objects
      /\ descriptor' = IF t.type = "recv" /\ (k + 1 = t.size \/ (k + 1) % Chunk = 0)
                       THEN [descriptor EXCEPT ![c] = t.to + k] ELSE descriptor
      /\ tasks' = IF k + 1 = t.size THEN Tail(tasks) ELSE tasks
      /\ progress' = IF k + 1 = t.size THEN 0 ELSE k + 1
  BY ONLY ParseInv, CopyCell, t = tasks[1], c = t.client, k = progress, <1>s, Copying
<1>2. t.from \in Nat /\ t.to \in Nat /\ t.size \in Nat
  BY <1>1, TaskParts
<1>3. source = stream[c][t.from + k + 1] /\ Lands(t) /\ t.type # "value"
  BY <1>1, <1>s, FirstIsNotStale DEF Moved, Lands
<1>4. UNCHANGED <<sent, stream, objects>>
  BY <1>1, <1>3 DEF wireVars
<1>5. buf \in [Clients -> [Positions -> Memory]]
  BY DEF ParseInv, Types
<1>6. buf' = [buf EXCEPT ![c] = [@ EXCEPT ![t.to + k] = source]]
  BY <1>1, <1>3
<1>7. \A x \in Clients, p \in Positions :
         buf'[x][p] = IF x = c /\ p = t.to + k THEN source ELSE buf[x][p]
  BY <1>1, <1>5, <1>6
<1> QED
  BY <1>1, <1>2, <1>3, <1>4, <1>7

LEMMA CopyValue ==
    ASSUME ParseInv, Steady, ObjectInv, CopyCell, NEW t, t = tasks[1], t.type = "value",
           NEW c, c = t.client, NEW k, k = progress
    PROVE  /\ tasks # <<>> /\ c \in Clients /\ k \in Nat /\ k < ValueLen /\ t.size = ValueLen
           /\ t.object \in Objects
           /\ UNCHANGED <<sent, stream, buf>>
           /\ objects' = [objects EXCEPT ![t.object] = [@ EXCEPT ![k + 1] = buf[c][t.from + k]]]
           /\ tasks' = IF k + 1 = t.size THEN Tail(tasks) ELSE tasks
           /\ progress' = IF k + 1 = t.size THEN 0 ELSE k + 1
<1> PICK source : source = Moved(t, k)
  OBVIOUS
<1>1. /\ tasks # <<>> /\ t \in TaskType /\ Lives(t) /\ c \in Clients
      /\ k \in Nat /\ k < t.size /\ t.to + k \in Positions
      /\ source \in Range(stream[c]) \cup {NUL} /\ source \in Memory
      /\ UNCHANGED <<wireVars, len, room, owner, qbPos, stage, head, short, long, status,
                     freed, db, used, pc, cur>>
      /\ buf' = IF Lands(t) THEN [buf EXCEPT ![c][t.to + k] = source] ELSE buf
      /\ objects' = IF t.type = "value" /\ t.object \notin freed
                    THEN [objects EXCEPT ![t.object][k + 1] = source] ELSE objects
      /\ descriptor' = IF t.type = "recv" /\ (k + 1 = t.size \/ (k + 1) % Chunk = 0)
                       THEN [descriptor EXCEPT ![c] = t.to + k] ELSE descriptor
      /\ tasks' = IF k + 1 = t.size THEN Tail(tasks) ELSE tasks
      /\ progress' = IF k + 1 = t.size THEN 0 ELSE k + 1
  BY Copying
<1>2. t.size = ValueLen /\ t.object \in Objects
  BY <1>1, TaskParts
<1>3. source = buf[c][t.from + k] /\ ~Lands(t)
  BY <1>1, FirstIsNotStale DEF Moved, Lands
<1>4. t.object \notin freed
  <2>1. 1 \in 1 .. Len(tasks)
    BY <1>1 DEF ParseInv, Types
  <2> QED
    BY <2>1 DEF ObjectInv
<1>5. objects' = [objects EXCEPT ![t.object] = [@ EXCEPT ![k + 1] = source]]
  BY <1>1, <1>4
<1>6. UNCHANGED <<sent, stream, buf>>
  BY <1>1, <1>3 DEF wireVars
<1> QED
  BY <1>1, <1>2, <1>3, <1>5, <1>6

\* The cells of a value come in behind the first lines of their request.
LEMMA ValueComesIn ==
    ASSUME ParseInv, Steady, CopyCell, NEW t, t = tasks[1], t.type = "recv", t.to = 0,
           NEW i \in 1 .. ValueLen, NEW v, stream[t.client][t.from + i + 3] = v,
           i + 2 < progress => buf[t.client][i + 2] = v
    PROVE  i + 2 < progress + 1 => buf'[t.client][i + 2] = v
<1>c. PICK c : c = t.client
  OBVIOUS
<1>k. PICK k : k = progress
  OBVIOUS
<1>1. /\ c \in Clients /\ k \in Nat /\ t.from \in Nat
      /\ \A x \in Clients, p \in Positions :
            buf'[x][p] = IF x = c /\ p = t.to + k THEN stream[c][t.from + k + 1] ELSE buf[x][p]
  <2>1. t.type = "recv"
    OBVIOUS
  <2> QED
    BY ONLY ParseInv, Steady, CopyCell, t = tasks[1], <2>1, <1>c, <1>k, CopyRecv, SMTT(30)
<1>2. k < t.size /\ t.size \in Nat /\ t.size <= BufMax
  <2>1. tasks # <<>> /\ 1 \in 1 .. Len(tasks)
    BY DEF CopyCell, ParseInv, Types
  <2>2. t \in TaskType /\ Lives(t)
    BY <2>1, TaskOf
  <2>3. t.size \in Nat /\ t.to + t.size <= BufMax
    BY <2>2, TaskParts DEF Lives
  <2> QED
    BY <1>k, <2>1, <2>3 DEF ParseInv, Ring
<1>3. ASSUME i + 2 < progress + 1 PROVE buf'[c][i + 2] = v
  <2>p. i + 2 \in Positions
    <3>1. i \in Nat /\ i + 2 < k + 1
      BY <1>k, <1>3
    <3> QED
      BY ONLY <1>1, <1>2, <3>1, Numbers DEF Positions
  <2>1. CASE i + 2 = k
    <3>1. t.from + k + 1 = t.from + i + 3 /\ t.to + k = i + 2
      BY <1>1, <2>1
    <3> QED
      BY <1>1, <2>p, <1>c, <3>1
  <2>2. CASE i + 2 # k
    <3>1. i + 2 < progress /\ i + 2 # t.to + k
      BY <1>1, <1>k, <1>3, <2>2
    <3> QED
      BY <1>1, <2>p, <1>c, <3>1
  <2> QED
    BY <2>1, <2>2
<1> QED
  BY <1>c, <1>3

LEMMA SourcesCopy ==
    ASSUME ParseInv, Steady, ObjectInv, Sources, CopyCell
    PROVE  Sources'
<1>t. PICK t : t = tasks[1]
  OBVIOUS
<1>c. PICK c : c = t.client
  OBVIOUS
<1>p. PICK p : p = progress
  OBVIOUS
<1>1. tasks # <<>> /\ tasks \in Seq(TaskType) /\ 1 \in 1 .. Len(tasks)
  BY DEF CopyCell, ParseInv, Types
<1>2. /\ t \in TaskType /\ t.type \in {"recv", "value"} /\ t.size \in Nat /\ t.size >= 1
  <2>1. t \in TaskType /\ t.type # "move"
    BY <1>1, <1>t, TaskOf DEF Sources
  <2> QED
    BY <2>1, TaskParts
<1>3. /\ p \in Nat /\ UNCHANGED <<sent, stream>>
      /\ tasks' = IF p + 1 = t.size THEN Tail(tasks) ELSE tasks
      /\ progress' = IF p + 1 = t.size THEN 0 ELSE p + 1
  <2>1. CASE t.type = "recv"
    BY ONLY ParseInv, Steady, CopyCell, <1>t, <1>c, <1>p, <2>1, CopyRecv
  <2>2. CASE t.type = "value"
    BY ONLY ParseInv, Steady, ObjectInv, CopyCell, <1>t, <1>c, <1>p, <2>2, CopyValue
  <2> QED
    BY <1>2, <2>1, <2>2
<1>4. ASSUME NEW k \in 1 .. Len(tasks')
      PROVE  \E l \in 1 .. Len(tasks) :
                tasks'[k] = tasks[l] /\ l = IF p + 1 = t.size THEN k + 1 ELSE k
  <2>1. CASE p + 1 = t.size
    <3>1. Len(tasks') = Len(tasks) - 1 /\ k + 1 \in 1 .. Len(tasks) /\ tasks'[k] = tasks[k + 1]
      BY <1>1, <1>3, <2>1
    <3> QED
      BY <2>1, <3>1
  <2>2. CASE p + 1 # t.size
    BY <1>3, <2>2
  <2> QED
    BY <2>1, <2>2
<1>5. ASSUME NEW k \in 1 .. Len(tasks'), tasks'[k].type = "value"
      PROVE  Sourced(k)'
  <2>1. PICK l \in 1 .. Len(tasks) :
            tasks'[k] = tasks[l] /\ l = IF p + 1 = t.size THEN k + 1 ELSE k
    BY <1>4
  <2>2. Sourced(l) /\ tasks[l].type = "value"
    BY <1>5, <2>1 DEF Sources
  <2>u. PICK u : u = tasks[l]
    OBVIOUS
  <2>o. PICK o : o = u.object
    OBVIOUS
  <2>3. u.from = 3 /\ o[1] = u.client /\ o[2] <= sent[u.client] /\ (l = 1 \/ l = 2)
    BY <2>2, <2>u, <2>o DEF Sourced
  <2>4. CASE t.type = "recv"
    <3>1. l = 2
      BY <1>t, <2>2, <2>3, <2>4
    <3>2. /\ u.client = c /\ t.to = 0 /\ t.size >= ValueLen + 3
          /\ \A i \in 1 .. ValueLen :
                /\ stream[c][t.from + i + 3] = ValueOf(o)[i]
                /\ i + 2 < progress => buf[c][i + 2] = ValueOf(o)[i]
      BY <1>t, <1>c, <2>2, <2>u, <2>o, <3>1 DEF Sourced
    <3>3. \A i \in 1 .. ValueLen : i + 2 < p + 1 => buf'[c][i + 2] = ValueOf(o)[i]
      BY ONLY ParseInv, Steady, CopyCell, <1>t, <1>c, <1>p, <2>4, <3>2, ValueComesIn
    <3>4. CASE p + 1 = t.size
      <4>1. k = 1 /\ progress' = 0
        BY <1>3, <2>1, <3>1, <3>4
      <4>2. \A i \in 1 .. ValueLen : i + 2 < p + 1 /\ ~(i <= 0)
        BY <1>2, <1>3, <3>2, <3>4, Numbers
      <4>3. \A i \in 1 .. ValueLen : buf'[c][i + 2] = ValueOf(o)[i] /\ ~(i <= progress')
        BY <3>3, <4>1, <4>2
      <4>4. tasks'[k] = u /\ k # 2 /\ sent'[c] = sent[c]
        BY <1>3, <2>1, <2>u, <4>1
      <4> QED
        BY <2>3, <2>o, <3>2, <4>1, <4>3, <4>4 DEF Sourced
    <3>5. CASE p + 1 # t.size
      <4>1. k = 2 /\ progress' = p + 1 /\ tasks' = tasks
        BY <1>3, <2>1, <3>1, <3>5
      <4>2. tasks'[k] = u /\ k # 1 /\ sent'[c] = sent[c] /\ stream' = stream /\ tasks'[1] = t
        BY <1>3, <1>t, <2>1, <2>u, <4>1
      <4>3. \A i \in 1 .. ValueLen :
                /\ stream'[c][t.from + i + 3] = ValueOf(o)[i]
                /\ i + 2 < progress' => buf'[c][i + 2] = ValueOf(o)[i]
        BY <3>2, <3>3, <4>1, <4>2
      <4> QED
        BY <1>c, <2>3, <2>4, <2>o, <3>2, <4>1, <4>2, <4>3 DEF Sourced
    <3> QED
      BY <3>4, <3>5
  <2>5. CASE t.type = "value"
    <3>1. l = 1
      BY <1>t, <2>2, <2>3, <2>5 DEF Sourced
    <3>2. u = t /\ u.client = c /\ o = t.object
      BY <1>t, <1>c, <2>u, <2>o, <3>1
    <3>3. \A i \in 1 .. ValueLen : IF i <= p THEN objects[o][i] = ValueOf(o)[i]
                                   ELSE buf[c][i + 2] = ValueOf(o)[i]
      BY <1>p, <2>2, <2>u, <2>o, <3>1, <3>2 DEF Sourced
    <3>4. k = 1 /\ p + 1 # t.size
      BY <2>1, <3>1
    <3>5. progress' = p + 1 /\ tasks' = tasks
      BY <1>3, <3>4
    <3>6. /\ o \in Objects /\ buf' = buf /\ t.from = 3
          /\ objects' = [objects EXCEPT ![o] = [@ EXCEPT ![p + 1] = buf[c][3 + p]]]
      <4>1. /\ t.object \in Objects /\ UNCHANGED <<sent, stream, buf>>
            /\ objects' = [objects EXCEPT ![t.object] = [@ EXCEPT ![p + 1] = buf[c][t.from + p]]]
        BY ONLY ParseInv, Steady, ObjectInv, CopyCell, <1>t, <1>c, <1>p, <2>5, CopyValue
      <4> QED
        BY <2>3, <3>2, <4>1
    <3>7. objects \in [Objects -> [1 .. ValueLen -> Memory]]
      BY DEF ParseInv, Types
    <3>8. ASSUME NEW i \in 1 .. ValueLen
          PROVE  IF i <= p + 1 THEN objects'[o][i] = ValueOf(o)[i] ELSE buf'[c][i + 2] = ValueOf(o)[i]
      <4>1. CASE i = p + 1
        <5>1. buf[c][i + 2] = ValueOf(o)[i] /\ 3 + p = i + 2
          BY <1>3, <3>3, <4>1
        <5>2. objects'[o][i] = buf[c][3 + p]
          BY <3>6, <3>7, <4>1
        <5> QED
          BY <1>3, <4>1, <5>1, <5>2
      <4>2. CASE i <= p
        <5>1. objects'[o][i] = objects[o][i]
          BY <1>3, <3>6, <3>7, <4>2
        <5> QED
          BY <1>3, <3>3, <4>2, <5>1
      <4>3. CASE i > p + 1
        BY <1>3, <3>3, <3>6, <4>3
      <4> QED
        BY <1>3, <4>1, <4>2, <4>3
    <3>9. tasks'[k] = u /\ k # 2 /\ sent'[c] = sent[c]
      BY <1>3, <2>1, <2>u, <3>4
    <3> QED
      BY <2>3, <2>o, <3>2, <3>4, <3>5, <3>8, <3>9 DEF Sourced
  <2> QED
    BY <1>2, <2>4, <2>5
<1>6. ASSUME NEW k \in 1 .. Len(tasks') PROVE tasks'[k].type # "move"
  BY <1>4 DEF Sources
<1> QED
  BY <1>5, <1>6 DEF Sources

-----------------------------------------------------------------------------
(* The values of objects nothing is copied to any more                     *)

LEMMA StoredFrame ==
    ASSUME Stored, UNCHANGED objects, UNCHANGED db,
           \A l \in 1 .. Len(tasks) : tasks[l].type = "value" =>
              \E k \in 1 .. Len(tasks') : tasks'[k] = tasks[l],
           \A x \in Clients : At(x, "exec")' /\ HasValue(Asked(x)') =>
              At(x, "exec") /\ HasValue(Asked(x)) /\ long'[x] = long[x]
    PROVE  Stored'
<1>1. ASSUME NEW o \in Objects, Made(o)',
             \A k \in 1 .. Len(tasks') : tasks'[k].type = "value" => tasks'[k].object # o
      PROVE  objects'[o] = ValueOf(o)
  <2>1. Made(o)
    BY <1>1 DEF Made
  <2>2. \A l \in 1 .. Len(tasks) : tasks[l].type = "value" => tasks[l].object # o
    BY <1>1
  <2> QED
    BY <2>1, <2>2 DEF Stored, Filled
<1> QED
  BY <1>1 DEF Stored, Filled

LEMMA StoredCopy ==
    ASSUME ParseInv, Steady, ObjectInv, Sources, Stored, CopyCell
    PROVE  Stored'
<1>t. PICK t : t = tasks[1]
  OBVIOUS
<1>c. PICK c : c = t.client
  OBVIOUS
<1>p. PICK p : p = progress
  OBVIOUS
<1>1. tasks # <<>> /\ tasks \in Seq(TaskType) /\ 1 \in 1 .. Len(tasks)
  BY DEF CopyCell, ParseInv, Types
<1>2. t \in TaskType /\ t.type \in {"recv", "value"}
  <2>1. t \in TaskType /\ t.type # "move"
    BY <1>1, <1>t, TaskOf DEF Sources
  <2> QED
    BY <2>1, TaskParts
<1>3. UNCHANGED <<sent, long, db, pc, cur>>
  BY DEF CopyCell, wireVars
<1>4. /\ p \in Nat
      /\ tasks' = IF p + 1 = t.size THEN Tail(tasks) ELSE tasks
      /\ t.type = "recv" => objects' = objects
      /\ t.type = "value" =>
            /\ t.object \in Objects /\ t.size = ValueLen
            /\ objects' = [objects EXCEPT ![t.object] = [@ EXCEPT ![p + 1] = buf[c][t.from + p]]]
  <2>1. CASE t.type = "recv"
    <3>1. /\ p \in Nat /\ UNCHANGED <<sent, stream, objects>>
          /\ tasks' = IF p + 1 = t.size THEN Tail(tasks) ELSE tasks
      BY ONLY ParseInv, Steady, CopyCell, <1>t, <1>c, <1>p, <2>1, CopyRecv
    <3> QED
      BY <2>1, <3>1
  <2>2. CASE t.type = "value"
    <3>1. /\ p \in Nat /\ t.object \in Objects /\ t.size = ValueLen
          /\ objects' = [objects EXCEPT ![t.object] = [@ EXCEPT ![p + 1] = buf[c][t.from + p]]]
          /\ tasks' = IF p + 1 = t.size THEN Tail(tasks) ELSE tasks
      BY ONLY ParseInv, Steady, ObjectInv, CopyCell, <1>t, <1>c, <1>p, <2>2, CopyValue
    <3> QED
      BY <2>2, <3>1
  <2> QED
    BY <1>2, <2>1, <2>2
<1>5. objects \in [Objects -> [1 .. ValueLen -> Memory]]
  BY DEF ParseInv, Types
<1>6. ASSUME NEW o \in Objects, Made(o)',
             \A k \in 1 .. Len(tasks') : tasks'[k].type = "value" => tasks'[k].object # o
      PROVE  objects'[o] = ValueOf(o)
  <2>1. Made(o)
    BY <1>3, <1>6 DEF Made, At, Asked
  <2>2. CASE \E l \in 1 .. Len(tasks) : tasks[l].type = "value" /\ tasks[l].object = o
    <3>1. PICK l \in 1 .. Len(tasks) : tasks[l].type = "value" /\ tasks[l].object = o
      BY <2>2
    <3>2. p + 1 = t.size /\ l = 1
      <4>1. \A k \in 1 .. Len(tasks') : tasks'[k] # tasks[l]
        BY <1>6, <3>1
      <4>2. CASE p + 1 # t.size
        BY <1>4, <4>1, <4>2
      <4>3. CASE p + 1 = t.size /\ l # 1
        <5>1. Len(tasks') = Len(tasks) - 1 /\ l - 1 \in 1 .. Len(tasks') /\ tasks'[l - 1] = tasks[l]
          BY <1>1, <1>4, <4>3
        <5> QED
          BY <4>1, <5>1
      <4> QED
        BY <4>2, <4>3
    <3>3. t.type = "value" /\ t.object = o /\ t.size = ValueLen /\ p + 1 = ValueLen
      BY <1>t, <1>4, <3>1, <3>2
    <3>4. t.from = 3 /\ \A i \in 1 .. ValueLen : IF i <= p THEN objects[o][i] = ValueOf(o)[i]
                                               ELSE buf[c][i + 2] = ValueOf(o)[i]
      <4>1. Sourced(1)
        BY <1>1, <1>t, <3>3 DEF Sources
      <4> QED
        BY <1>t, <1>c, <1>p, <3>3, <4>1 DEF Sourced
    <3>5. objects' = [objects EXCEPT ![o] = [@ EXCEPT ![p + 1] = buf[c][3 + p]]]
      BY <1>4, <3>3, <3>4
    <3>6. ASSUME NEW i \in 1 .. ValueLen PROVE objects'[o][i] = ValueOf(o)[i]
      <4>1. CASE i = p + 1
        <5>1. buf[c][i + 2] = ValueOf(o)[i] /\ 3 + p = i + 2
          BY <1>4, <3>4, <4>1
        <5>2. objects'[o][i] = buf[c][3 + p]
          BY <1>5, <3>5, <4>1
        <5> QED
          BY <5>1, <5>2
      <4>2. CASE i # p + 1
        <5>1. i <= p
          BY <1>4, <3>3, <4>2, Numbers, SMTT(30)
        <5>2. objects'[o][i] = objects[o][i]
          BY <1>5, <3>5, <4>2
        <5> QED
          BY <3>4, <5>1, <5>2
      <4> QED
        BY <4>1, <4>2
    <3>7. objects'[o] \in [1 .. ValueLen -> {objects'[o][i] : i \in 1 .. ValueLen}]
      BY <1>5, <3>5
    <3>8. objects'[o] = [i \in 1 .. ValueLen |-> objects'[o][i]]
      BY <3>7
    <3>9. ValueOf(o) = [i \in 1 .. ValueLen |-> ValueOf(o)[i]]
      BY DEF ValueOf
    <3> QED
      BY <3>6, <3>8, <3>9
  <2>3. CASE \A l \in 1 .. Len(tasks) : tasks[l].type = "value" => tasks[l].object # o
    <3>1. objects[o] = ValueOf(o)
      BY <2>1, <2>3 DEF Stored, Filled
    <3>2. t.type = "value" => t.object # o
      BY <1>1, <1>t, <2>3
    <3>3. objects'[o] = objects[o]
      BY <1>2, <1>4, <1>5, <3>2
    <3> QED
      BY <3>1, <3>3
  <2> QED
    BY <2>2, <2>3
<1> QED
  BY <1>6 DEF Stored, Filled

LEMMA StoredBulk ==
    ASSUME ParseInv, Stored, NEW c \in Clients, Whole(c), ParseBulk(c)
    PROVE  Stored'
<1>t. PICK t : t = [type |-> "value", client |-> c, owner |-> owner[c], from |-> 3, to |-> 0,
                    size |-> ValueLen, object |-> <<c, sent[c]>>]
  OBVIOUS
<1>1. /\ tasks' = Append(tasks, t) /\ long'[c] = <<c, sent[c]>> /\ cur' = c
      /\ UNCHANGED <<sent, objects, db>>
  BY <1>t, WholeBulk
<1>2. tasks \in Seq(TaskType) /\ Len(tasks) \in Nat
  BY DEF ParseInv, Types
<1>3. /\ Len(tasks') = Len(tasks) + 1 /\ tasks'[Len(tasks) + 1] = t
      /\ \A k \in 1 .. Len(tasks) : tasks'[k] = tasks[k]
  BY <1>1, <1>2
<1>4. t.type = "value" /\ t.object = <<c, sent[c]>>
  BY <1>t
<1>5. ASSUME NEW o \in Objects, Made(o)',
             \A k \in 1 .. Len(tasks') : tasks'[k].type = "value" => tasks'[k].object # o
      PROVE  objects'[o] = ValueOf(o)
  <2>1. o # <<c, sent[c]>>
    <3>1. Len(tasks) + 1 \in 1 .. Len(tasks')
      BY <1>2, <1>3
    <3> QED
      BY <1>3, <1>4, <1>5, <3>1
  <2>2. o = db
    BY <1>1, <1>5, <2>1 DEF Made, At
  <2>3. \A l \in 1 .. Len(tasks) : tasks[l].type = "value" => tasks[l].object # o
    <3>1. \A l \in 1 .. Len(tasks) : l \in 1 .. Len(tasks')
      BY <1>2, <1>3
    <3> QED
      BY <1>3, <1>5, <3>1
  <2> QED
    BY <1>1, <2>2, <2>3 DEF Stored, Filled, Made
<1> QED
  BY <1>5 DEF Stored, Filled

\* The command whose turn it is.
LEMMA Commanded ==
    ASSUME ParseInv, NoEval, NEW c \in Clients, Execute(c)
    PROVE  At(c, "exec") /\ Kind(head[c]) = Asked(c) /\ Asked(c) # "eval"
           /\ Dropped(c) \subseteq {db}
<1>1. At(c, "exec")
  BY DEF Execute, At
<1>2. Owed(c) /\ head[c] = Cell(c, sent[c], 1)
  BY <1>1, Known DEF Arguments, Requests, Served
<1>3. Kind(head[c]) = Asked(c)
  BY <1>2, CellParts, Known DEF Asked
<1>4. sent[c] \in 1 .. Len(Script[c])
  BY <1>2, Owing
<1>5. Asked(c) # "eval"
  BY <1>4 DEF NoEval, Asked
<1>6. Dropped(c) \subseteq {db}
  BY <1>3, <1>5 DEF Dropped
<1> QED
  BY <1>1, <1>3, <1>5, <1>6

LEMMA StoredExecute ==
    ASSUME ParseInv, Stored, NoEval, NEW c \in Clients, Execute(c)
    PROVE  Stored'
<1>1. /\ At(c, "exec") /\ Kind(head[c]) = Asked(c) /\ cur' = c /\ pc' # "exec"
      /\ UNCHANGED <<objects, tasks>>
      /\ db' = IF Asked(c) = "set" THEN long[c] ELSE db
  BY Commanded DEF Execute, taskVars
<1>2. ASSUME NEW o \in Objects, Made(o)',
             \A k \in 1 .. Len(tasks') : tasks'[k].type = "value" => tasks'[k].object # o
      PROVE  objects'[o] = ValueOf(o)
  <2>1. o = db'
    BY <1>1, <1>2 DEF Made, At
  <2>2. Made(o)
    BY <1>1, <2>1 DEF Made, HasValue
  <2> QED
    BY <1>1, <1>2, <2>2 DEF Stored, Filled
<1> QED
  BY <1>2 DEF Stored, Filled

\* GET reads the value of the key: no copy is on its way to any value then.
LEMMA UsedExecute ==
    ASSUME ParseInv, ObjectInv, Stored, GetReturnsSet, NoEval, NEW c \in Clients, Execute(c)
    PROVE  GetReturnsSet'
<1>1. At(c, "exec") /\ Kind(head[c]) = Asked(c) /\ Asked(c) # "eval"
  BY Commanded
<1>2. \/ used' = used
      \/ /\ Asked(c) = "get" /\ db # NoObject
         /\ used' = [used EXCEPT ![c] = [object |-> db, value |-> objects[db]]]
  BY <1>1 DEF Execute
<1>3. CASE used' = used
  BY <1>3 DEF GetReturnsSet
<1>4. CASE /\ Asked(c) = "get" /\ db # NoObject
           /\ used' = [used EXCEPT ![c] = [object |-> db, value |-> objects[db]]]
  <2>1. db \in Objects
    BY <1>4 DEF ParseInv, Types
  <2>2. \A k \in 1 .. Len(tasks) : tasks[k].type # "value"
    BY <1>1, <1>4 DEF ObjectInv, HasValue
  <2>3. objects[db] = ValueOf(db)
    BY <2>1, <2>2 DEF Stored, Filled, Made
  <2>4. used' = [x \in Clients |-> IF x = c THEN [object |-> db, value |-> objects[db]] ELSE used[x]]
    BY <1>4 DEF ParseInv, Types
  <2>5. ASSUME NEW x \in Clients, used'[x].object # NoObject
        PROVE  used'[x].value = ValueOf(used'[x].object)
    <3>1. CASE x = c
      BY <2>3, <2>4, <3>1
    <3>2. CASE x # c
      BY <2>4, <2>5, <3>2 DEF GetReturnsSet
    <3> QED
      BY <3>1, <3>2
  <2> QED
    BY <2>5 DEF GetReturnsSet
<1> QED
  BY <1>2, <1>3, <1>4

-----------------------------------------------------------------------------
(* The values are those that were sent                                     *)

LEMMA ValueInit == Init => ValueInv
<1> SUFFICES ASSUME Init PROVE ValueInv
  OBVIOUS
<1>1. \A c \in Clients : Whole(c)
  BY DEF Init, Whole, Partial
<1>2. Sources
  BY DEF Init, Sources
<1>3. \A o \in Objects : ~Made(o)
  BY ObjectParts DEF Init, Made, At
<1>4. GetReturnsSet
  BY DEF Init, GetReturnsSet
<1>5. Steady
  BY DEF Init, Steady
<1> QED
  BY <1>1, <1>2, <1>3, <1>4, <1>5 DEF ValueInv, Stored

LEMMA ValueServer ==
    ASSUME ParseInv, Steady, Sources, Stored, GetReturnsSet, NEW c \in Clients, Whole(c),
           Handler(c) \/ Unblock(c), UNCHANGED tasks, UNCHANGED <<db, used>>,
           \A x \in Clients : At(x, "exec")' => ~HasValue(Asked(x)')
    PROVE  Sources' /\ Stored' /\ GetReturnsSet'
<1>1. Sources'
  BY SourcesServer
<1>2. UNCHANGED objects
  BY ServerFrame
<1>3. \A l \in 1 .. Len(tasks) : tasks[l].type = "value" => \E k \in 1 .. Len(tasks') : tasks'[k] = tasks[l]
  OBVIOUS
<1>4. Stored'
  BY <1>2, <1>3, StoredFrame
<1>5. GetReturnsSet'
  BY DEF GetReturnsSet
<1> QED
  BY <1>1, <1>4, <1>5

LEMMA ValueSend ==
    ASSUME ParseInv, Setting, Sources, Stored, GetReturnsSet, NEW c \in Clients, ClientSend(c)
    PROVE  Sources' /\ Stored' /\ GetReturnsSet'
<1>1. /\ UNCHANGED tasks /\ UNCHANGED objects /\ UNCHANGED db /\ UNCHANGED <<used, long, pc, cur>>
      /\ sent' = [sent EXCEPT ![c] = @ + 1]
  BY DEF ClientSend, clientVars, taskVars, storeVars
<1>2. ~Owed(c)
  BY Known DEF ClientSend, Setting, OneAtATime, Owed, Requests
<1>3. ASSUME NEW x \in Clients, At(x, "exec")', HasValue(Asked(x)')
      PROVE  At(x, "exec") /\ HasValue(Asked(x)) /\ long'[x] = long[x]
  <2>1. At(x, "exec")
    BY <1>1, <1>3 DEF At
  <2>2. Owed(x)
    BY <2>1, Known DEF Served, Requests
  <2>3. sent'[x] = sent[x]
    BY <1>1, <1>2, <2>2 DEF ParseInv, Types
  <2> QED
    BY <1>1, <1>3, <2>1, <2>3 DEF Asked
<1>4. \A l \in 1 .. Len(tasks) : tasks[l].type = "value" => \E k \in 1 .. Len(tasks') : tasks'[k] = tasks[l]
  BY <1>1
<1>5. Stored'
  BY <1>1, <1>3, <1>4, StoredFrame
<1>6. GetReturnsSet'
  BY <1>1 DEF GetReturnsSet
<1> QED
  BY <1>5, <1>6, SourcesSend

LEMMA ValueHandler ==
    ASSUME ParseInv, ObjectInv, ValueInv, WholeSetting, NEW c \in Clients, Handler(c) \/ Unblock(c)
    PROVE  Sources' /\ Stored' /\ GetReturnsSet'
<1>1. Whole(c) /\ Steady /\ Sources /\ Stored /\ GetReturnsSet /\ NoEval /\ Setting
  BY WholeConditions DEF ValueInv
<1>2. CASE \/ ReadQuery(c) \/ ParseHead(c) \/ ParseLength(c) \/ StopParsing(c) \/ Reset(c)
           \/ Trim(c) \/ Terminate(c) \/ Close(c) \/ Unblock(c)
  <2>1. UNCHANGED tasks
    <3>1. CASE Trim(c)
      BY <1>1, <3>1, TrimNothing
    <3>2. CASE ~Trim(c)
      BY <1>2, <3>2 DEF ReadQuery, ParseHead, ParseLength, StopParsing, Reset, Terminate, Close,
                        Unblock, Break, Unexpected, taskVars
    <3> QED
      BY <3>1, <3>2
  <2>2. UNCHANGED <<db, used>>
    BY <1>2 DEF ReadQuery, ParseHead, ParseLength, StopParsing, Reset, Trim, Terminate, Close,
                Unblock, parseFrame, storeVars
  <2>3. pc' # "exec"
    BY <1>2 DEF ReadQuery, ParseHead, ParseLength, Parsing, StopParsing, Reset, Trim, Terminate, Close,
                Unblock, Break, Unexpected
  <2>4. \A x \in Clients : At(x, "exec")' => ~HasValue(Asked(x)')
    BY <2>3 DEF At
  <2> QED
    BY <1>1, <2>1, <2>2, <2>4, ValueServer
<1>3. CASE ParseShort(c)
  <2>1. /\ UNCHANGED tasks /\ UNCHANGED <<db, used>> /\ UNCHANGED sent
        /\ cur' = c /\ stage[c] = "short" /\ cur = c /\ pc = "loop"
    BY <1>3 DEF ParseShort, Parsing, Unexpected, parseFrame, wireVars, storeVars
  <2>2. pc' = "exec" => ~HasValue(Kind(head[c]))
    BY <1>3 DEF ParseShort, Parsing, Unexpected
  <2>3. Kind(head[c]) = Asked(c)
    BY <2>1, CellParts, Known DEF Arguments, Asked
  <2>4. \A x \in Clients : At(x, "exec")' => ~HasValue(Asked(x)')
    BY <2>1, <2>2, <2>3 DEF At, Asked
  <2> QED
    BY <1>1, <2>1, <2>4, ValueServer
<1>4. CASE ParseBulk(c)
  <2>1. UNCHANGED used
    BY <1>1, <1>4, WholeBulk
  <2> QED
    BY <1>1, <1>4, <2>1, SourcesBulk, StoredBulk DEF GetReturnsSet
<1>5. CASE Execute(c)
  <2>1. UNCHANGED tasks
    BY <1>5 DEF Execute, taskVars
  <2> QED
    BY <1>1, <1>5, <2>1, SourcesServer, StoredExecute, UsedExecute
<1>6. ASSUME NEW n \in ReadSizes(c), Recv(c, n) PROVE Sources' /\ Stored' /\ GetReturnsSet'
  <2>1. /\ tasks = <<>> /\ pc' # "exec" /\ UNCHANGED objects /\ UNCHANGED db /\ UNCHANGED used
    BY <1>6 DEF Recv, Drained, storeVars
  <2>2. Sources'
    BY <1>6, SourcesRecv
  <2>3. Stored'
    <3>1. \A x \in Clients : ~At(x, "exec")'
      BY <2>1 DEF At
    <3>2. \A l \in 1 .. Len(tasks) : FALSE
      BY <2>1
    <3> QED
      BY <1>1, <2>1, <3>1, <3>2, StoredFrame
  <2> QED
    BY <1>1, <2>1, <2>2, <2>3 DEF GetReturnsSet
<1> QED
  BY <1>2, <1>3, <1>4, <1>5, <1>6 DEF Handler

LEMMA ValueNext ==
    ASSUME ParseInv, ObjectInv, ValueInv, WholeSetting, [Next]_vars
    PROVE  ValueInv'
<1>1. \A c \in Clients : Whole(c)'
  <2>1. ParseInv' /\ \A c \in Clients : Whole(c)
    BY WholeConditions, ParseNext DEF ValueInv
  <2> QED
    BY <2>1, WholeStep
<1>2. Steady /\ Sources /\ Stored /\ GetReturnsSet /\ Setting
  BY WholeConditions DEF ValueInv
<1>s. Steady'
  BY SteadyNext DEF ValueInv
<1>3. CASE UNCHANGED vars
  <2>1. UNCHANGED <<sent, stream, answered, buf, tasks, progress, objects, db, used, long, pc, cur>>
    BY <1>3 DEF vars, wireVars, clientVars, taskVars, storeVars
  <2>2. Sources'
    BY <1>2, <2>1 DEF Sources, Sourced
  <2>3. Stored' /\ GetReturnsSet'
    BY <1>2, <2>1 DEF Stored, Made, Filled, At, Asked, GetReturnsSet
  <2> QED
    BY <1>1, <1>s, <2>2, <2>3 DEF ValueInv
<1>4. CASE CopyCell
  <2>1. GetReturnsSet'
    BY <1>2, <1>4 DEF CopyCell, GetReturnsSet
  <2> QED
    BY <1>1, <1>2, <1>s, <1>4, <2>1, SourcesCopy, StoredCopy DEF ValueInv
<1>5. ASSUME NEW c \in Clients, ClientSend(c) PROVE ValueInv'
  BY <1>1, <1>2, <1>s, <1>5, ValueSend DEF ValueInv
<1>6. ASSUME NEW c \in Clients, Handler(c) \/ Unblock(c) PROVE ValueInv'
  BY <1>1, <1>s, <1>6, ValueHandler DEF ValueInv
<1> QED
  BY <1>3, <1>4, <1>5, <1>6 DEF Next

\* The invariant of the server that reads whole requests.
LEMMA ValueInductive ==
    ASSUME WholeSetting
    PROVE  /\ Init => ParseInv /\ ObjectInv /\ ValueInv
           /\ ParseInv /\ ObjectInv /\ ValueInv /\ [Next]_vars => (ParseInv /\ ObjectInv /\ ValueInv)'
<1>1. Setting /\ NoEval
  BY WholeConditions
<1>2. Init => ParseInv /\ ObjectInv /\ ValueInv
  BY ParseInit, InitObjects, ValueInit
<1>3. ParseInv /\ ObjectInv /\ ValueInv /\ [Next]_vars => (ParseInv /\ ObjectInv /\ ValueInv)'
  BY <1>1, ParseNext, ObjectNext, ValueNext
<1> QED
  BY <1>2, <1>3

\* When a request is read as a whole, the value a client gets is, cell by cell,
\* the value that was sent, although the server stored it by a copy nobody
\* waited for, out of a buffer that was itself still being filled.
THEOREM ValuesAsSent == ASSUME WholeSetting PROVE Spec => []GetReturnsSet
<1>1. Init => ParseInv /\ ObjectInv /\ ValueInv
  BY ValueInductive
<1>2. ParseInv /\ ObjectInv /\ ValueInv /\ [Next]_vars => (ParseInv /\ ObjectInv /\ ValueInv)'
  BY ValueInductive
<1>3. ValueInv => GetReturnsSet
  BY DEF ValueInv
<1> QED
  BY <1>1, <1>2, <1>3, PTL DEF Spec
=============================================================================
