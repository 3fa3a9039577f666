-------------------------- MODULE RedisSendProofs --------------------------
(***************************************************************************)
(* What the GET server sends.  For any clients, scripts, values and sizes: *)
(* no cell of a reply is lost or counted twice between the buffer, the     *)
(* list of blocks and the socket.  If the send call returns when its bytes *)
(* are taken and no client leaves before it is answered, no copy into a    *)
(* block hits a value.  And if besides nobody writes to the source of a    *)
(* copy that waits, each reply is what its command promised.               *)
(***************************************************************************)
EXTENDS RedisSend, FiniteSetTheorems, TLAPS

-----------------------------------------------------------------------------
(* The types                                                               *)

Cells == (Values \X Nat) \cup {Header(n) : n \in Nat} \cup {LineEnd, Ok, Null, Junk, Pending}
DbType == [Keys -> [block : Blocks \cup {NoBlock}, value : Values]]
BlockType == [block : Blocks, size : Nat, used : Nat \ {0}, place : Nat]
PieceType == [from : Locations, n : Nat \ {0}, header : Cells]
CopyType == [op : {"copy"}, to : Blocks, from : Locations, pos : Nat, n : Nat \ {0}]
SendType ==
    [op : {"send"}, conn : Clients, place : Nat, from : Locations, pos : Nat, n : Nat \ {0}]
TaskType == CopyType \cup SendType

Types ==
    /\ db \in DbType
    /\ mem \in [Locations -> Seq(Cells)]
    /\ tasks \in Seq(TaskType)
    /\ asked \in [Clients -> Nat]
    /\ left \subseteq Clients
    /\ out \in [Clients -> Seq(Cells)]
    /\ phase \in {"events", "writes"}
    /\ now \in Clients \cup {NoClient}
    /\ todo \in Seq(PieceType)
    /\ bufpos \in [Clients -> Nat]
    /\ reply \in [Clients -> Seq(BlockType)]
    /\ sentlen \in [Clients -> Nat]
    /\ pendingWrite \subseteq Clients
    /\ handler \subseteq Clients
    /\ writer \in Clients \cup {NoClient}
    /\ expected \in [Clients -> Seq(Cells)]
    /\ ends \in [Clients -> Seq(Nat)]

-----------------------------------------------------------------------------
(* The counts                                                              *)

\* The cells of the pieces that are not added yet, from the i-th on: at most
\* three pieces make a reply.
Cost(i) == IF i <= Len(todo) THEN todo[i].n ELSE 0
ToAdd == Cost(1) + Cost(2) + Cost(3)

Commands(c) ==
    /\ asked[c] <= Len(Script[c]) /\ Len(ends[c]) <= asked[c]
    /\ ends[c] = <<>> => expected[c] = <<>>
    /\ ends[c] # <<>> => ends[c][Len(ends[c])] = Len(expected[c])

Counters(c) ==
    /\ bufpos[c] <= BufSize
    /\ \A i \in 1 .. Len(reply[c]) : reply[c][i].used <= reply[c][i].size
    /\ HasReplies(c) => sentlen[c] < Extent(c)
    /\ ~HasReplies(c) => sentlen[c] = 0
    /\ sentlen[c] <= Len(out[c])

Places(c) ==
    c \notin left =>
        Gapless(Behind(c), reply[c], Len(expected[c]) - (IF now = c THEN ToAdd ELSE 0))

SendsFit ==
    \A k \in 1 .. Len(tasks) : tasks[k].op = "send" =>
        tasks[k].place + tasks[k].n <= Len(out[tasks[k].conn])

CountInv ==
    /\ Types /\ Len(todo) <= 3 /\ SendsFit
    /\ \A c \in Clients : Commands(c) /\ Counters(c) /\ Places(c)

-----------------------------------------------------------------------------
(* The values                                                              *)

Listed(b) == \E c \in Clients : \E i \in 1 .. Len(reply[c]) : reply[c][i].block = b
Kept(b) == b # NoBlock /\ \E k \in Keys : db[k].block = b

Apart ==
    /\ \A k, l \in Keys : k # l /\ ~Absent(k) => db[k].block # db[l].block
    /\ \A b \in Blocks : Listed(b) => ~Kept(b)

\* A copy that may hit a value is known: its block went to the value while the
\* copy was waiting.  A value in another block is intact.
CopiesExposed ==
    \A k \in 1 .. Len(tasks) : tasks[k].op = "copy" /\ Kept(tasks[k].to) => tasks[k].to \in exposed
Intact ==
    \A k \in Keys : ~Absent(k) /\ db[k].block \notin exposed =>
        Piece(mem[db[k].block], 0, ValueLen[db[k].value]) = ValueCells(db[k].value)

\* A client that has all its replies has no list: the places in a list rise.
Rising(list) ==
    \A i, j \in 1 .. Len(list) : i < j => list[i].place + list[i].used <= list[j].place

\* The send call returns when its bytes are taken, and nobody has left before it
\* was answered.  Then a copy goes to a block of a list, or to one that is in the
\* send the server waits for; never to a value.
Waited == SendWaits /\ \A c \in left : Answered(c) = Len(Script[c])
CopiesInside ==
    \A k \in 1 .. Len(tasks) : tasks[k].op = "copy" =>
        /\ ~Kept(tasks[k].to)
        /\ Listed(tasks[k].to) \/ tasks[Len(tasks)].op = "send"
SendIsLast == \A k \in 1 .. Len(tasks) : tasks[k].op = "send" => k = Len(tasks)
Orderly == CopiesInside /\ SendIsLast /\ exposed = {}

ValueInv ==
    /\ CountInv /\ \A c \in Clients : Rising(reply[c])
    /\ Apart /\ CopiesExposed /\ Intact
    /\ Waited => Orderly

\* Nothing is sent any more to a client that has left.
Present ==
    /\ left \subseteq Clients
    /\ writer \notin left /\ pendingWrite \cap left = {} /\ handler \cap left = {}
    /\ SendWaits => \A k \in 1 .. Len(tasks) : tasks[k].op = "send" => tasks[k].conn \notin left

-----------------------------------------------------------------------------
(* The replies                                                             *)

CellAt(s, j) == IF j <= Len(s) THEN s[j] ELSE Junk
At(x, j) == CellAt(mem[x], j)

\* When all copies are done, cell j of location x is this one.
WillBe(x, j, cell) ==
    \/ \E k \in 1 .. Len(tasks) :
          /\ tasks[k].op = "copy" /\ tasks[k].to = x /\ j <= tasks[k].n
          /\ At(tasks[k].from, tasks[k].pos + j) = cell
    \/ /\ \A k \in 1 .. Len(tasks) :
            tasks[k].op = "copy" /\ tasks[k].to = x => tasks[k].n < j
       /\ At(x, j) = cell

BufferRight(c) ==
    \A j \in 1 .. bufpos[c] : At(Static(c), j) = expected[c][Len(out[c]) - sentlen[c] + j]
ListRight(c) ==
    \A i \in 1 .. Len(reply[c]) :
        /\ reply[c][i].place + reply[c][i].used <= Len(expected[c])
        /\ \A j \in 1 .. reply[c][i].used :
              WillBe(reply[c][i].block, j, expected[c][reply[c][i].place + j])
SendRight ==
    \A k \in 1 .. Len(tasks) : tasks[k].op = "send" =>
        LET t == tasks[k] IN \A i \in 1 .. t.n :
            /\ t.place + i <= Len(expected[t.conn])
            /\ WillBe(t.from, t.pos + i, expected[t.conn][t.place + i])

\* The cells of the i-th piece to add, and their place in the stream.
Rest(i) == IF i = 1 THEN ToAdd ELSE IF i = 2 THEN Cost(2) + Cost(3) ELSE Cost(3)
CellOf(piece, j) == IF piece.from = Stack THEN piece.header ELSE At(piece.from, j)
TodoRight ==
    now \in Clients => \A i \in 1 .. Len(todo) :
        /\ todo[i].from \in {Stack} \cup SharedObjects \/ Kept(todo[i].from)
        /\ todo[i].from = Stack => todo[i].n = 1
        /\ \A j \in 1 .. todo[i].n :
              CellOf(todo[i], j) = expected[now][Len(expected[now]) - Rest(i) + j]

Gone == now \notin left /\ \A c \in left : ~HasReplies(c)
OneCopy ==
    \A j, k \in 1 .. Len(tasks) :
        tasks[j].op = "copy" /\ tasks[k].op = "copy" /\ tasks[j].to = tasks[k].to => j = k
OneUser ==
    \A c, x \in Clients : \A i \in 1 .. Len(reply[c]), j \in 1 .. Len(reply[x]) :
        reply[c][i].block = reply[x][j].block => c = x /\ i = j
SharedRight == \A x \in SharedObjects : mem[x] = <<x>>

\* A copy into a block of a list is its first part.
CopyFits ==
    \A k \in 1 .. Len(tasks) : tasks[k].op = "copy" =>
        \A c \in Clients : \A i \in 1 .. Len(reply[c]) :
            reply[c][i].block = tasks[k].to => tasks[k].n <= reply[c][i].used

AllKept ==
    \A k \in Keys : ~Absent(k) =>
        Piece(mem[db[k].block], 0, ValueLen[db[k].value]) = ValueCells(db[k].value)

ReplyInv ==
    /\ ValueInv /\ Waited /\ Gone /\ OneCopy /\ CopyFits /\ OneUser /\ SharedRight
    /\ \A c \in Clients : BufferRight(c) /\ ListRight(c)
    /\ SendRight /\ TodoRight /\ RepliesAsPromised

\* No step writes to the source of a copy that waits.
SourceKept ==
    \A k \in 1 .. Len(tasks) : tasks[k].op = "copy" => mem'[tasks[k].from] = mem[tasks[k].from]

-----------------------------------------------------------------------------
(* The sources of the copies                                               *)

\* The clients wait for each reply, and what a client reads only that client writes.
Reads(c, k) == \E i \in 1 .. Len(Script[c]) : Script[c][i].op # "set" /\ Script[c][i].key = k
Writes(c, k) == \E i \in 1 .. Len(Script[c]) : Script[c][i].op # "get" /\ Script[c][i].key = k
OneAsked == \A c \in Clients : Pipeline[c] = 1
OwnKeys ==
    /\ \A c \in Clients : \A i \in 1 .. Len(Script[c]) : Script[c][i].op # "getdel"
    /\ \A c, d \in Clients, k \in Keys : Reads(c, k) /\ Writes(d, k) => c = d

\* Who is executed has been sent all before.
Turns ==
    \A c \in Clients : c \notin left =>
        /\ asked[c] <= Len(ends[c]) + 1
        /\ Len(ends[c]) < asked[c] => Len(expected[c]) <= Len(out[c])

\* A copy is made from a shared object or from a value that its client reads.
HeldFor(c, x) ==
    x \in SharedObjects \/ \E k \in Keys : Reads(c, k) /\ db[k].block = x /\ x # NoBlock
OwnList(c, b) ==
    \A d \in Clients : \A i \in 1 .. Len(reply[d]) : reply[d][i].block = b => d = c
Sources ==
    \A k \in 1 .. Len(tasks) : tasks[k].op = "copy" =>
        \E c \in Clients : HeldFor(c, tasks[k].from) /\ OwnList(c, tasks[k].to)

\* A header is the first piece of a reply and goes to an empty buffer.
Heads ==
    now \in Clients =>
        /\ writer = NoClient /\ ends[now] # <<>>
        /\ \A i \in 1 .. Len(todo) :
              IF todo[i].from = Stack
              THEN i = 1 /\ todo[1].n = 1 /\ bufpos[now] = 0 /\ reply[now] = <<>>
              ELSE HeldFor(now, todo[i].from)

SourceInv == Turns /\ Sources /\ Heads

-----------------------------------------------------------------------------
(* Cells and sequences of them                                             *)

LEMMA Constants ==
    /\ \A c \in Clients : Script[c] \in Seq(Command) /\ Pipeline[c] \in Nat \ {0}
    /\ \A v \in Values : ValueLen[v] \in Nat \ {0}
    /\ NoBlock \notin Blocks /\ NoClient \notin Clients
    /\ \A k \in Keys : InitialDb[k] \in Values
    /\ BufSize \in Nat \ {0} /\ ChunkSize \in Nat \ {0} /\ MaxWrites \in Nat
  BY SendAssumption DEF SendAssumption

\* The heap is apart from the other locations.
LEMMA Locate ==
    /\ Blocks \subseteq Locations /\ Stack \in Locations /\ SharedObjects \subseteq Locations
    /\ \A c \in Clients : Static(c) \in Locations /\ Static(c) \notin Blocks
    /\ Stack \notin Blocks /\ SharedObjects \cap Blocks = {}
  BY HeapAssumption DEF HeapAssumption, Locations

LEMMA SomeCells ==
    /\ SharedObjects \subseteq Cells /\ {LineEnd, Ok, Null, Junk, Pending} \subseteq Cells
    /\ \A n \in Nat : Header(n) \in Cells
    /\ \A v \in Values, i \in Nat : Cell(v, i) \in Cells
  BY DEF Cells, SharedObjects, Cell

LEMMA ValueSeq ==
    ASSUME NEW v \in Values
    PROVE  /\ ValueCells(v) \in Seq(Cells) /\ Len(ValueCells(v)) = ValueLen[v]
           /\ \A i \in 1 .. ValueLen[v] : ValueCells(v)[i] = Cell(v, i)
<1>1. PICK n \in Nat : n = ValueLen[v]
  BY Constants
<1>2. \A i \in 1 .. n : Cell(v, i) \in Cells
  BY SomeCells
<1>3. ValueCells(v) = [i \in 1 .. n |-> Cell(v, i)]
  BY <1>1 DEF ValueCells
<1>4. ValueCells(v) \in [1 .. n -> Cells]
  BY <1>2, <1>3
<1> QED
  BY <1>1, <1>3, <1>4

LEMMA PieceSeq ==
    ASSUME NEW s \in Seq(Cells), NEW p \in Nat, NEW n \in Nat
    PROVE  /\ Piece(s, p, n) \in Seq(Cells) /\ Len(Piece(s, p, n)) = n
           /\ \A i \in 1 .. n : Piece(s, p, n)[i] = IF p + i <= Len(s) THEN s[p + i] ELSE Junk
<1>1. ASSUME NEW i \in 1 .. n PROVE (IF p + i <= Len(s) THEN s[p + i] ELSE Junk) \in Cells
  <2>1. CASE p + i <= Len(s)
    <3>1. p + i \in 1 .. Len(s)
      BY <2>1
    <3> QED
      BY <2>1, <3>1
  <2> QED
    BY <2>1, SomeCells
<1>2. Piece(s, p, n) \in [1 .. n -> Cells]
  BY <1>1 DEF Piece
<1>3. \A i \in 1 .. n : Piece(s, p, n)[i] = IF p + i <= Len(s) THEN s[p + i] ELSE Junk
  BY DEF Piece
<1> QED
  BY <1>2, <1>3

LEMMA StoredSeq ==
    ASSUME NEW s \in Seq(Cells), NEW p \in Nat, NEW d \in Seq(Cells)
    PROVE  /\ Stored(s, p, d) \in Seq(Cells)
           /\ Len(Stored(s, p, d)) = Larger(Len(s), p + Len(d))
           /\ \A i \in 1 .. Larger(Len(s), p + Len(d)) :
                 Stored(s, p, d)[i] = IF i - p \in 1 .. Len(d) THEN d[i - p]
                                      ELSE IF i <= Len(s) THEN s[i] ELSE Junk
<1>1. PICK n \in Nat : n = Larger(Len(s), p + Len(d))
  BY DEF Larger
<1>2. ASSUME NEW i \in 1 .. n
      PROVE  (IF i - p \in 1 .. Len(d) THEN d[i - p] ELSE IF i <= Len(s) THEN s[i] ELSE Junk) \in Cells
  BY SomeCells
<1>3. DOMAIN d = 1 .. Len(d)
  OBVIOUS
<1>4. Stored(s, p, d) = [i \in 1 .. n |-> IF i - p \in 1 .. Len(d) THEN d[i - p]
                                          ELSE IF i <= Len(s) THEN s[i] ELSE Junk]
  BY <1>1, <1>3 DEF Stored
<1>5. Stored(s, p, d) \in [1 .. n -> Cells]
  BY <1>2, <1>4
<1>6. /\ Stored(s, p, d) \in Seq(Cells) /\ Len(Stored(s, p, d)) = n
  BY <1>5
<1>7. \A i \in 1 .. n :
         Stored(s, p, d)[i] = IF i - p \in 1 .. Len(d) THEN d[i - p]
                              ELSE IF i <= Len(s) THEN s[i] ELSE Junk
  BY <1>4
<1> QED
  BY <1>1, <1>6, <1>7

-----------------------------------------------------------------------------
(* Lists without gaps                                                      *)

LEMMA BlockParts ==
    ASSUME NEW b \in BlockType
    PROVE  /\ b.block \in Blocks /\ b.size \in Nat /\ b.place \in Nat
           /\ b.used \in Nat /\ b.used >= 1
  BY DEF BlockType

\* The last block of a list takes n more cells.
LEMMA GrownList ==
    ASSUME NEW list \in Seq(BlockType), list # <<>>, NEW n \in Nat,
           NEW new, new = [list EXCEPT ![Len(list)].used = @ + n]
    PROVE  /\ new \in Seq(BlockType) /\ Len(new) = Len(list) /\ new # <<>>
           /\ \A i \in 1 .. Len(list) : i # Len(list) => new[i] = list[i]
           /\ new[Len(list)].used = list[Len(list)].used + n
           /\ new[Len(list)].place = list[Len(list)].place
           /\ new[Len(list)].size = list[Len(list)].size
           /\ new[Len(list)].block = list[Len(list)].block
<1>1. PICK m \in Nat \ {0} : m = Len(list) /\ m \in 1 .. m
  OBVIOUS
<1>2. PICK a \in BlockType : a = list[m]
  BY <1>1
<1>3. a = [block |-> a.block, size |-> a.size, used |-> a.used, place |-> a.place]
  BY DEF BlockType
<1>4. PICK b : b = [a EXCEPT !.used = @ + n]
  OBVIOUS
<1>5. b = [block |-> a.block, size |-> a.size, used |-> a.used + n, place |-> a.place]
  BY <1>3, <1>4
<1>6. b \in BlockType
  <2>1. a.used + n \in Nat \ {0}
    BY BlockParts
  <2> QED
    BY <1>5, <2>1, BlockParts DEF BlockType
<1>7. new = [list EXCEPT ![m] = b]
  BY <1>1, <1>2, <1>4
<1>8. new \in Seq(BlockType) /\ Len(new) = m /\ new[m] = b
      /\ \A i \in 1 .. m : i # m => new[i] = list[i]
  BY <1>1, <1>6, <1>7
<1>9. new # <<>>
  BY <1>1, <1>8
<1> QED
  BY <1>1, <1>2, <1>5, <1>8, <1>9

LEMMA GaplessGrown ==
    ASSUME NEW list \in Seq(BlockType), list # <<>>, NEW n \in Nat,
           NEW new, new = [list EXCEPT ![Len(list)].used = @ + n],
           NEW start \in Int, NEW end \in Int, Gapless(start, list, end)
    PROVE  Gapless(start, new, end + n)
<1>1. PICK m \in Nat \ {0} : m = Len(list) /\ m \in 1 .. m /\ 1 \in 1 .. m
  OBVIOUS
<1>2. /\ new \in Seq(BlockType) /\ Len(new) = m /\ new # <<>>
      /\ \A i \in 1 .. m : i # m => new[i] = list[i]
      /\ new[m].used = list[m].used + n /\ new[m].place = list[m].place
  <2>1. /\ new \in Seq(BlockType) /\ Len(new) = Len(list) /\ new # <<>>
        /\ \A i \in 1 .. Len(list) : i # Len(list) => new[i] = list[i]
        /\ new[Len(list)].used = list[Len(list)].used + n
        /\ new[Len(list)].place = list[Len(list)].place
    BY GrownList
  <2> QED
    BY <1>1, <2>1
<1>3. \A i \in 1 .. m : new[i].place = list[i].place
  BY <1>2
<1>4. /\ list[1].place = start
      /\ \A i \in 2 .. m : list[i].place = list[i - 1].place + list[i - 1].used
      /\ list[m].place + list[m].used = end
  BY <1>1 DEF Gapless
<1>5. ASSUME NEW i \in 2 .. m PROVE new[i].place = new[i - 1].place + new[i - 1].used
  <2>1. i \in 1 .. m /\ i - 1 \in 1 .. m /\ i - 1 # m
    OBVIOUS
  <2>2. new[i - 1] = list[i - 1]
    BY <1>2, <2>1
  <2> QED
    BY <1>3, <1>4, <2>1, <2>2
<1>6. new[m].place + new[m].used = end + n
  <2>1. PICK a \in BlockType : a = list[m]
    BY <1>1
  <2>2. a.used \in Nat /\ a.place \in Nat
    BY BlockParts
  <2>3. a.place + a.used = end
    BY <1>4, <2>1
  <2>4. new[m].used = a.used + n /\ new[m].place = a.place
    BY <1>2, <2>1
  <2>5. a.place + (a.used + n) = end + n
    BY <2>2, <2>3
  <2> QED
    BY <2>4, <2>5
<1> QED
  BY <1>1, <1>2, <1>3, <1>4, <1>5, <1>6 DEF Gapless

LEMMA GaplessAppend ==
    ASSUME NEW list \in Seq(BlockType), NEW b \in BlockType,
           NEW start \in Int, NEW end \in Int, Gapless(start, list, end), b.place = end
    PROVE  Gapless(start, Append(list, b), end + b.used)
<1>0. PICK new \in Seq(BlockType) : new = Append(list, b)
  <2>1. Append(list, b) \in Seq(BlockType)
    OBVIOUS
  <2> QED
    BY <2>1
<1>1. PICK m \in Nat : m = Len(list) /\ new = Append(list, b)
  BY <1>0
<1>2. /\ Len(new) = m + 1 /\ new # <<>> /\ new[m + 1] = b
      /\ \A i \in 1 .. m : new[i] = list[i]
  BY <1>1
<1>3. CASE m = 0
  BY <1>1, <1>2, <1>3 DEF Gapless
<1>4. CASE m # 0
  <2>1. /\ list[1].place = start
        /\ \A i \in 2 .. m : list[i].place = list[i - 1].place + list[i - 1].used
        /\ list[m].place + list[m].used = end
    BY <1>1, <1>4 DEF Gapless
  <2>2. new[1].place = start
    BY <1>2, <1>4, <2>1
  <2>3. ASSUME NEW i \in 2 .. m + 1 PROVE new[i].place = new[i - 1].place + new[i - 1].used
    <3>1. CASE i = m + 1
      <4>1. i - 1 = m /\ m \in 1 .. m
        BY <1>4, <3>1
      <4> QED
        BY <1>2, <2>1, <3>1, <4>1
    <3>2. CASE i # m + 1
      <4>1. i \in 1 .. m /\ i - 1 \in 1 .. m /\ i \in 2 .. m
        BY <3>2
      <4> QED
        BY <1>2, <2>1, <4>1
    <3> QED
      BY <3>1, <3>2
  <2> QED
    BY <1>1, <1>2, <2>2, <2>3 DEF Gapless
<1> QED
  BY <1>3, <1>4

LEMMA GaplessTail ==
    ASSUME NEW list \in Seq(BlockType), list # <<>>,
           NEW start \in Int, NEW end \in Int, Gapless(start, list, end)
    PROVE  Gapless(start + list[1].used, Tail(list), end)
<1>0. PICK new \in Seq(BlockType) : new = Tail(list)
  <2>1. Tail(list) \in Seq(BlockType)
    OBVIOUS
  <2> QED
    BY <2>1
<1>1. PICK m \in Nat : m = Len(list) /\ new = Tail(list) /\ m >= 1
  BY <1>0
<1>2. Len(new) = m - 1 /\ \A i \in 1 .. m - 1 : new[i] = list[i + 1]
  BY <1>1
<1>3. /\ list[1].place = start
      /\ \A i \in 2 .. m : list[i].place = list[i - 1].place + list[i - 1].used
      /\ list[m].place + list[m].used = end
  BY <1>1 DEF Gapless
<1>4. CASE m = 1
  <2>1. new = <<>>
    BY <1>1, <1>2, <1>4
  <2> QED
    BY <1>1, <1>3, <1>4, <2>1 DEF Gapless
<1>5. CASE m # 1
  <2>0. 1 \in 1 .. m - 1 /\ 2 \in 2 .. m /\ m - 1 \in 1 .. m - 1
    BY <1>1, <1>5
  <2>1. new # <<>> /\ 1 \in 1 .. m - 1 /\ 2 \in 2 .. m /\ m - 1 \in 1 .. m - 1
    BY <1>2, <2>0
  <2>2. new[1].place = start + list[1].used
    BY <1>2, <1>3, <2>1
  <2>3. ASSUME NEW i \in 2 .. m - 1 PROVE new[i].place = new[i - 1].place + new[i - 1].used
    <3>1. i \in 1 .. m - 1 /\ i - 1 \in 1 .. m - 1 /\ i - 1 + 1 = i /\ i + 1 - 1 = i /\ i + 1 \in 2 .. m
      OBVIOUS
    <3>2. new[i] = list[i + 1] /\ new[i - 1] = list[i]
      BY <1>2, <3>1
    <3>3. list[i + 1].place = list[i + 1 - 1].place + list[i + 1 - 1].used
      BY <1>3, <3>1
    <3>4. list[i + 1].place = list[i].place + list[i].used
      BY <3>1, <3>3
    <3> QED
      BY <3>2, <3>4
  <2>4. new[m - 1] = list[m]
    <3>1. m - 1 + 1 = m
      BY <1>1
    <3> QED
      BY <1>2, <2>1, <3>1
  <2> QED
    BY <1>1, <1>2, <1>3, <2>1, <2>2, <2>3, <2>4 DEF Gapless
<1> QED
  BY <1>4, <1>5

-----------------------------------------------------------------------------
(* At first                                                                *)

LEMMA FirstValues ==
    ASSUME Init
    PROVE  /\ db \in [Keys -> [block : Blocks, value : Values]]
           /\ \A k \in Keys : db[k].value = InitialDb[k]
           /\ \A k, l \in Keys : k # l => db[k].block # db[l].block
<1> DEFINE S == [Keys -> [block : Blocks, value : Values]]
           P(f) == /\ \A k \in Keys : f[k].value = InitialDb[k]
                   /\ \A k, l \in Keys : k # l => f[k].block # f[l].block
<1>1. PICK g \in [Keys -> Blocks] : \A k, l \in Keys : k # l => g[k] # g[l]
  BY SendAssumption DEF SendAssumption
<1>2. PICK f : f = [k \in Keys |-> [block |-> g[k], value |-> InitialDb[k]]]
  OBVIOUS
<1>3. f \in S /\ P(f)
  BY <1>1, <1>2, Constants
<1>4. db = CHOOSE h \in S : P(h)
  BY DEF Init
<1> HIDE DEF S, P
<1>5. db \in S /\ P(db)
  BY <1>3, <1>4
<1> QED
  BY <1>5 DEF S, P

LEMMA FirstMemory ==
    ASSUME Init
    PROVE  /\ mem \in [Locations -> Seq(Cells)]
           /\ \A k \in Keys : mem[db[k].block] = ValueCells(db[k].value)
           /\ \A x \in SharedObjects : mem[x] = <<x>>
<1> DEFINE First(x) == IF \E k \in Keys : db[k].block = x
                       THEN ValueCells(InitialDb[CHOOSE k \in Keys : db[k].block = x])
                       ELSE IF x \in SharedObjects THEN <<x>> ELSE <<>>
<1>1. mem = [x \in Locations |-> First(x)]
  BY DEF Init
<1>2. ASSUME NEW x \in Locations PROVE First(x) \in Seq(Cells)
  <2>1. CASE \E k \in Keys : db[k].block = x
    <3>1. PICK l \in Keys : l = CHOOSE k \in Keys : db[k].block = x
      BY <2>1
    <3>2. ValueCells(InitialDb[l]) \in Seq(Cells)
      BY Constants, ValueSeq
    <3> QED
      BY <2>1, <3>1, <3>2
  <2>2. CASE ~\E k \in Keys : db[k].block = x
    <3>1. x \in SharedObjects => <<x>> \in Seq(Cells)
      BY SomeCells
    <3> QED
      BY <2>2, <3>1
  <2> QED
    BY <2>1, <2>2
<1>3. ASSUME NEW k \in Keys PROVE First(db[k].block) = ValueCells(db[k].value)
  <2>1. PICK b : b = db[k].block
    OBVIOUS
  <2>2. PICK l \in Keys : l = (CHOOSE m \in Keys : db[m].block = b) /\ db[l].block = b
    BY <2>1
  <2>3. l = k
    BY <2>1, <2>2, FirstValues
  <2>4. First(b) = ValueCells(InitialDb[l])
    BY <2>1, <2>2
  <2> QED
    BY <2>1, <2>3, <2>4, FirstValues
<1>4. ASSUME NEW x \in SharedObjects PROVE First(x) = <<x>>
  <2>1. x \notin Blocks
    BY Locate
  <2>2. \A k \in Keys : db[k].block \in Blocks
    BY FirstValues
  <2> QED
    BY <2>1, <2>2
<1>5. \A k \in Keys : db[k].block \in Locations
  BY FirstValues, Locate
<1> HIDE DEF First
<1> QED
  BY <1>1, <1>2, <1>3, <1>4, <1>5, Locate

LEMMA InitCounts == Init => CountInv
<1> SUFFICES ASSUME Init PROVE CountInv
  OBVIOUS
<1>1. Types
  <2>1. db \in DbType
    BY FirstValues DEF DbType
  <2>2. mem \in [Locations -> Seq(Cells)]
    BY FirstMemory
  <2>3. tasks \in Seq(TaskType) /\ todo \in Seq(PieceType)
    BY DEF Init
  <2>4. out \in [Clients -> Seq(Cells)] /\ expected \in [Clients -> Seq(Cells)]
    BY DEF Init
  <2>5. reply \in [Clients -> Seq(BlockType)]
    BY DEF Init
  <2>6. ends \in [Clients -> Seq(Nat)]
    BY DEF Init
  <2>7. /\ asked \in [Clients -> Nat] /\ bufpos \in [Clients -> Nat] /\ sentlen \in [Clients -> Nat]
        /\ left \subseteq Clients /\ pendingWrite \subseteq Clients /\ handler \subseteq Clients
        /\ phase \in {"events", "writes"}
        /\ now \in Clients \cup {NoClient} /\ writer \in Clients \cup {NoClient}
    BY DEF Init
  <2> QED
    BY <2>1, <2>2, <2>3, <2>4, <2>5, <2>6, <2>7 DEF Types
<1>2. Len(todo) <= 3 /\ SendsFit
  BY DEF Init, SendsFit
<1>3. ASSUME NEW c \in Clients PROVE Commands(c) /\ Counters(c) /\ Places(c)
  <2>1. Script[c] \in Seq(Command)
    BY Constants
  <2>2. Commands(c)
    BY <2>1 DEF Init, Commands
  <2>3. Counters(c)
    BY Constants DEF Init, Counters, HasReplies
  <2>4. Places(c)
    BY Constants DEF Init, Places, Gapless, Behind
  <2> QED
    BY <2>2, <2>3, <2>4
<1> QED
  BY <1>1, <1>2, <1>3 DEF CountInv

-----------------------------------------------------------------------------
(* What a step leaves alone                                                *)

\* What the invariant says of one client.
LEMMA Known ==
    ASSUME CountInv, NEW c \in Clients
    PROVE  /\ Types /\ SendsFit /\ Len(todo) <= 3
           /\ Commands(c) /\ Counters(c) /\ Places(c)
           /\ Script[c] \in Seq(Command)
           /\ asked[c] \in Nat /\ bufpos[c] \in Nat /\ sentlen[c] \in Nat
           /\ out[c] \in Seq(Cells) /\ expected[c] \in Seq(Cells)
           /\ reply[c] \in Seq(BlockType) /\ ends[c] \in Seq(Nat)
  BY Constants DEF CountInv, Types

\* A client at which nothing changes.
LEMMA ClientSame ==
    ASSUME NEW c \in Clients, Commands(c), Counters(c), Places(c),
           asked'[c] = asked[c], ends'[c] = ends[c], expected'[c] = expected[c],
           bufpos'[c] = bufpos[c], reply'[c] = reply[c], sentlen'[c] = sentlen[c],
           Len(out'[c]) = Len(out[c]), left \subseteq left',
           now' = c <=> now = c, now = c => todo' = todo
    PROVE  Commands(c)' /\ Counters(c)' /\ Places(c)'
<1>1. Commands(c)'
  BY DEF Commands
<1>2. HasReplies(c)' <=> HasReplies(c)
  BY DEF HasReplies
<1>3. HasReplies(c) => Extent(c)' = Extent(c)
  BY DEF Extent
<1>4. Counters(c)'
  BY <1>2, <1>3 DEF Counters
<1>5. Behind(c)' = Behind(c)
  BY DEF Behind
<1>6. now = c => ToAdd' = ToAdd
  BY DEF ToAdd, Cost
<1>7. Places(c)'
  BY <1>5, <1>6 DEF Places, Gapless
<1> QED
  BY <1>1, <1>4, <1>7

LEMMA CountSame ==
    ASSUME CountInv, Types',
           UNCHANGED <<tasks, asked, left, out, now, todo, bufpos, reply, sentlen, expected, ends>>
    PROVE  CountInv'
<1>1. SendsFit'
  BY DEF CountInv, SendsFit
<1>2. \A c \in Clients : Commands(c)' /\ Counters(c)' /\ Places(c)'
  BY ClientSame DEF CountInv
<1> QED
  BY <1>1, <1>2 DEF CountInv

LEMMA Costs ==
    ASSUME todo \in Seq(PieceType)
    PROVE  /\ \A i \in 1 .. 3 : Cost(i) \in Nat
           /\ ToAdd \in Nat /\ (todo = <<>> => ToAdd = 0)
<1>1. ASSUME NEW i \in 1 .. 3 PROVE Cost(i) \in Nat
  <2>1. CASE i <= Len(todo)
    <3>1. PICK a \in PieceType : a = todo[i]
      BY <2>1
    <3> QED
      BY <2>1, <3>1 DEF Cost, PieceType
  <2>2. CASE ~(i <= Len(todo))
    BY <2>2 DEF Cost
  <2> QED
    BY <2>1, <2>2
<1>2. todo = <<>> => \A i \in 1 .. 3 : Cost(i) = 0
  BY DEF Cost
<1> QED
  BY <1>1, <1>2 DEF ToAdd

-----------------------------------------------------------------------------
(* The clients and the service                                             *)

LEMMA AskCounts ==
    ASSUME CountInv, NEW c \in Clients, Ask(c)
    PROVE  CountInv'
<1>0. Types /\ c \notin left /\ asked[c] < Len(Script[c])
  BY DEF CountInv, Ask
<1>1. asked' = [asked EXCEPT ![c] = @ + 1]
  BY DEF Ask
<1>2. UNCHANGED <<db, mem, tasks, left, out, phase, now, todo, bufpos, reply, sentlen,
                  pendingWrite, handler, writer, expected, ends>>
  BY DEF Ask, bufferVars, loopVars, history
<1>3. Types'
  <2>1. asked \in [Clients -> Nat]
    BY <1>0 DEF Types
  <2>2. asked' \in [Clients -> Nat]
    BY <1>1, <2>1
  <2> QED
    BY <1>0, <1>2, <2>2 DEF Types
<1>4. SendsFit'
  BY <1>2 DEF CountInv, SendsFit
<1>5. ASSUME NEW x \in Clients PROVE Commands(x)' /\ Counters(x)' /\ Places(x)'
  <2>1. CASE x # c
    <3>1. asked'[x] = asked[x]
      BY <1>0, <1>1, <2>1 DEF Types
    <3>2. Commands(x) /\ Counters(x) /\ Places(x)
      BY DEF CountInv
    <3> QED
      BY <1>2, <3>1, <3>2, ClientSame
  <2>2. CASE x = c
    <3>1. asked'[c] = asked[c] + 1 /\ asked[c] \in Nat /\ Script[c] \in Seq(Command)
      BY <1>0, <1>1, Known DEF Types
    <3>2. ends[c] \in Seq(Nat) /\ Commands(c) /\ Counters(c) /\ Places(c)
      BY Known
    <3>3. Commands(c)'
      BY <1>0, <1>2, <3>1, <3>2 DEF Commands
    <3>4. Counters(c)'
      BY <1>2, <3>2 DEF Counters, HasReplies, Extent
    <3>5. Places(c)'
      BY <1>2, <3>2 DEF Places, Gapless, Behind, ToAdd, Cost
    <3> QED
      BY <2>2, <3>3, <3>4, <3>5
  <2> QED
    BY <2>1, <2>2
<1> QED
  BY <1>2, <1>3, <1>4, <1>5 DEF CountInv

LEMMA DrainCounts ==
    ASSUME CountInv, NEW c \in Clients, Drain(c)
    PROVE  CountInv'
<1>1. UNCHANGED <<db, mem, tasks, asked, left, out, phase, now, todo, bufpos, reply, sentlen,
                  pendingWrite, handler, writer, expected, ends>>
  BY DEF Drain, bufferVars, loopVars, history
<1>2. Types'
  BY <1>1 DEF CountInv, Types
<1> QED
  BY <1>1, <1>2, CountSame

LEMMA TaskParts ==
    ASSUME NEW t \in TaskType
    PROVE  /\ t.op = "copy" \/ t.op = "send"
           /\ t.from \in Locations /\ t.pos \in Nat /\ t.n \in Nat /\ t.n >= 1
           /\ t.op = "copy" => t \in CopyType /\ t.to \in Blocks
           /\ t.op = "send" => t \in SendType /\ t.conn \in Clients /\ t.place \in Nat
  BY DEF TaskType, CopyType, SendType

\* What the first task does.
LEMMA CopierDoes ==
    ASSUME Types, CopierStep
    PROVE  \E t \in TaskType, cells \in Seq(Cells) :
              /\ Len(tasks) \in Nat \ {0} /\ t = tasks[1] /\ tasks' = Tail(tasks)
              /\ tasks' \in Seq(TaskType) /\ Len(tasks') = Len(tasks) - 1
              /\ \A i \in 1 .. Len(tasks') : tasks'[i] = tasks[i + 1]
              /\ cells = Piece(mem[t.from], t.pos, t.n)
              /\ Len(cells) = t.n
              /\ t.op = "copy" => mem' = [mem EXCEPT ![t.to] = Stored(@, 0, cells)] /\ out' = out
              /\ t.op = "send" =>
                    out' = [out EXCEPT ![t.conn] = Stored(@, t.place, cells)] /\ mem' = mem
<1>0. tasks \in Seq(TaskType) /\ mem \in [Locations -> Seq(Cells)] /\ tasks # <<>>
  BY DEF Types, CopierStep
<1>1. PICK t \in TaskType : t = tasks[1] /\ t = Head(tasks)
  <2>1. Head(tasks) \in TaskType /\ Head(tasks) = tasks[1]
    BY <1>0
  <2> QED
    BY <2>1
<1>2. PICK s \in Seq(Cells), p \in Nat, n \in Nat : s = mem[t.from] /\ p = t.pos /\ n = t.n
  <2>1. mem[t.from] \in Seq(Cells) /\ t.pos \in Nat /\ t.n \in Nat
    BY <1>0, TaskParts
  <2> QED
    BY <2>1
<1>3. PICK cells \in Seq(Cells) : cells = Piece(mem[t.from], t.pos, t.n) /\ Len(cells) = t.n
  <2>1. PICK cells \in Seq(Cells) : cells = Piece(s, p, n) /\ Len(cells) = n
    <3>1. s \in Seq(Cells) /\ p \in Nat /\ n \in Nat
      OBVIOUS
    <3> QED
      BY ONLY <3>1, PieceSeq
  <2> QED
    BY <1>2, <2>1
<1>4. /\ tasks' = Tail(tasks)
      /\ IF t.op = "copy"
         THEN mem' = [mem EXCEPT ![t.to] = Stored(@, 0, cells)] /\ out' = out
         ELSE out' = [out EXCEPT ![t.conn] = Stored(@, t.place, cells)] /\ mem' = mem
  BY <1>1, <1>3 DEF CopierStep
<1>5. /\ tasks' \in Seq(TaskType) /\ Len(tasks') = Len(tasks) - 1 /\ Len(tasks) \in Nat \ {0}
      /\ \A i \in 1 .. Len(tasks') : tasks'[i] = tasks[i + 1]
  <2>1. PICK q \in Seq(TaskType) : q = tasks /\ q # <<>>
    BY <1>0
  <2>2. Tail(q) \in Seq(TaskType) /\ Len(Tail(q)) = Len(q) - 1 /\ Len(q) \in Nat \ {0}
    BY <2>1
  <2>3. \A i \in 1 .. Len(Tail(q)) : Tail(q)[i] = q[i + 1]
    BY <2>1
  <2> QED
    BY <1>4, <2>1, <2>2, <2>3
<1> QED
  BY <1>1, <1>3, <1>4, <1>5

\* What memory and the streams are then.
LEMMA CopierTypes ==
    ASSUME Types, CopierStep
    PROVE  /\ mem' \in [Locations -> Seq(Cells)] /\ out' \in [Clients -> Seq(Cells)]
           /\ Types'
<1>1. PICK t \in TaskType, cells \in Seq(Cells) :
              /\ tasks' \in Seq(TaskType)
              /\ t.op = "copy" => mem' = [mem EXCEPT ![t.to] = Stored(@, 0, cells)] /\ out' = out
              /\ t.op = "send" =>
                    out' = [out EXCEPT ![t.conn] = Stored(@, t.place, cells)] /\ mem' = mem
  BY CopierDoes
<1>2. mem \in [Locations -> Seq(Cells)] /\ out \in [Clients -> Seq(Cells)]
  BY DEF Types
<1>3. CASE t.op = "copy"
  <2>1. t.to \in Locations
    BY <1>3, TaskParts, Locate
  <2>2. Stored(mem[t.to], 0, cells) \in Seq(Cells)
    BY <1>2, <2>1, StoredSeq
  <2> QED
    BY <1>1, <1>2, <1>3, <2>1, <2>2 DEF CopierStep, Types, clientVars, bufferVars, loopVars, history
<1>4. CASE t.op = "send"
  <2>1. t.conn \in Clients /\ t.place \in Nat
    BY <1>4, TaskParts
  <2>2. Stored(out[t.conn], t.place, cells) \in Seq(Cells)
    BY <1>2, <2>1, StoredSeq
  <2> QED
    BY <1>1, <1>2, <1>4, <2>1, <2>2 DEF CopierStep, Types, clientVars, bufferVars, loopVars, history
<1> QED
  BY <1>3, <1>4, TaskParts

LEMMA CopierLengths ==
    ASSUME CountInv, CopierStep, NEW c \in Clients
    PROVE  Len(out'[c]) = Len(out[c])
<1>0. Types /\ SendsFit /\ out \in [Clients -> Seq(Cells)]
  BY DEF CountInv, Types
<1>1. PICK t \in TaskType, cells \in Seq(Cells) :
              /\ Len(tasks) \in Nat \ {0} /\ t = tasks[1]
              /\ Len(cells) = t.n
              /\ t.op = "copy" => out' = out
              /\ t.op = "send" => out' = [out EXCEPT ![t.conn] = Stored(@, t.place, cells)]
  BY <1>0, CopierDoes
<1>2. CASE t.op = "copy"
  BY <1>1, <1>2
<1>3. CASE t.op = "send"
  <2>1. t.conn \in Clients /\ t.place \in Nat /\ t.n \in Nat
    BY <1>3, TaskParts
  <2>2. t.place + t.n <= Len(out[t.conn])
    BY <1>0, <1>1, <1>3 DEF SendsFit
  <2>3. PICK s \in Seq(Cells) : s = out[t.conn]
    BY <1>0, <2>1
  <2>4. Len(Stored(s, t.place, cells)) = Larger(Len(s), t.place + Len(cells))
    BY <2>1, StoredSeq
  <2>5. Larger(Len(s), t.place + Len(cells)) = Len(s)
    <3>1. PICK a \in Int, b \in Int : a = Len(s) /\ b = t.place + Len(cells)
      BY <2>1
    <3>2. b <= a
      BY <1>1, <2>2, <2>3, <3>1
    <3>3. Larger(a, b) = a
      BY <3>2 DEF Larger
    <3> QED
      BY <3>1, <3>3
  <2>6. CASE c = t.conn
    <3>1. out'[c] = Stored(s, t.place, cells)
      BY <1>0, <1>1, <1>3, <2>1, <2>3, <2>6
    <3> QED
      BY <2>3, <2>4, <2>5, <2>6, <3>1
  <2>7. CASE c # t.conn
    BY <1>0, <1>1, <1>3, <2>7
  <2> QED
    BY <2>6, <2>7
<1> QED
  BY <1>2, <1>3, TaskParts

LEMMA CopierCounts ==
    ASSUME CountInv, CopierStep
    PROVE  CountInv'
<1>0. Types /\ SendsFit /\ Len(todo) <= 3
  BY DEF CountInv
<1>1. UNCHANGED <<asked, left, now, todo, bufpos, reply, sentlen, expected, ends>>
  BY DEF CopierStep, clientVars, bufferVars, history
<1>2. Types'
  BY <1>0, CopierTypes
<1>3. SendsFit'
  <2>1. /\ Len(tasks) \in Nat \ {0} /\ Len(tasks') = Len(tasks) - 1
        /\ tasks' \in Seq(TaskType)
        /\ \A i \in 1 .. Len(tasks') : tasks'[i] = tasks[i + 1]
    BY <1>0, CopierDoes
  <2> SUFFICES ASSUME NEW k \in 1 .. Len(tasks'), tasks'[k].op = "send"
               PROVE  tasks'[k].place + tasks'[k].n <= Len(out'[tasks'[k].conn])
    BY DEF SendsFit
  <2>2. PICK t \in TaskType : t = tasks'[k]
    BY <2>1
  <2>3. t = tasks[k + 1] /\ k + 1 \in 1 .. Len(tasks)
    BY <2>1, <2>2
  <2>4. t.place + t.n <= Len(out[t.conn]) /\ t.conn \in Clients
    BY <1>0, <2>2, <2>3, TaskParts DEF SendsFit
  <2> QED
    BY <2>2, <2>4, CopierLengths
<1>4. ASSUME NEW c \in Clients PROVE Commands(c)' /\ Counters(c)' /\ Places(c)'
  <2>1. Commands(c) /\ Counters(c) /\ Places(c)
    BY DEF CountInv
  <2>2. Len(out'[c]) = Len(out[c])
    BY CopierLengths
  <2> QED
    BY <1>1, <2>1, <2>2, ClientSame
<1> QED
  BY <1>0, <1>1, <1>2, <1>3, <1>4 DEF CountInv

-----------------------------------------------------------------------------
(* The loop                                                                *)

LEMMA LoopCounts ==
    ASSUME CountInv,
           \/ BeginWrites \/ EndWrites
           \/ \E c \in Clients : BeginWriteTo(c) \/ EndWriteTo(c)
    PROVE  CountInv'
<1>0. Types
  BY DEF CountInv
<1>1. UNCHANGED <<db, mem, tasks, asked, left, out, now, todo, bufpos, reply, sentlen, expected, ends>>
  BY DEF BeginWrites, EndWrites, BeginWriteTo, EndWriteTo, clientVars, bufferVars, history
<1>2. /\ phase' \in {"events", "writes"} /\ pendingWrite' \subseteq Clients
      /\ handler' \subseteq Clients /\ writer' \in Clients \cup {NoClient}
  BY <1>0 DEF Types, BeginWrites, EndWrites, BeginWriteTo, EndWriteTo, Handlers
<1>3. Types'
  BY <1>0, <1>1, <1>2 DEF Types
<1> QED
  BY <1>1, <1>3, CountSame

\* The client that leaves has nothing to come.
LEMMA LeaveCounts ==
    ASSUME CountInv, NEW c \in Clients, Leave(c)
    PROVE  CountInv'
<1>0. Types /\ SendsFit /\ Len(todo) <= 3
  BY DEF CountInv
<1>1. /\ left' = left \cup {c} /\ bufpos' = [bufpos EXCEPT ![c] = 0]
      /\ reply' = [reply EXCEPT ![c] = <<>>] /\ sentlen' = [sentlen EXCEPT ![c] = 0]
      /\ pendingWrite' = pendingWrite \ {c} /\ handler' = handler \ {c}
      /\ UNCHANGED <<db, mem, tasks, asked, out, now, todo, phase, writer, expected, ends>>
  BY DEF Leave, history
<1>2. /\ bufpos \in [Clients -> Nat] /\ reply \in [Clients -> Seq(BlockType)]
      /\ sentlen \in [Clients -> Nat]
  BY <1>0 DEF Types
<1>3. /\ bufpos' \in [Clients -> Nat] /\ reply' \in [Clients -> Seq(BlockType)]
      /\ sentlen' \in [Clients -> Nat]
  BY <1>1, <1>2
<1>4. Types'
  BY <1>0, <1>1, <1>3 DEF Types
<1>5. SendsFit'
  BY <1>0, <1>1 DEF SendsFit
<1>6. ASSUME NEW x \in Clients PROVE Commands(x)' /\ Counters(x)' /\ Places(x)'
  <2>1. CASE x # c
    <3>1. bufpos'[x] = bufpos[x] /\ reply'[x] = reply[x] /\ sentlen'[x] = sentlen[x]
      BY <1>1, <1>2, <2>1
    <3>2. Commands(x) /\ Counters(x) /\ Places(x)
      BY DEF CountInv
    <3> QED
      BY <1>1, <3>1, <3>2, ClientSame
  <2>2. CASE x = c
    <3>1. bufpos'[c] = 0 /\ reply'[c] = <<>> /\ sentlen'[c] = 0
      BY <1>1, <1>2
    <3>2. Commands(c)' /\ Places(c)'
      BY <1>1, Known DEF Commands, Places
    <3>3. Counters(c)'
      BY <1>1, <3>1, Known, Constants DEF Counters, HasReplies
    <3> QED
      BY <2>2, <3>2, <3>3
  <2> QED
    BY <2>1, <2>2
<1> QED
  BY <1>0, <1>1, <1>4, <1>5, <1>6 DEF CountInv

-----------------------------------------------------------------------------
(* Commands                                                                *)

\* The pieces of a reply are those of what the command promised.
LEMMA BulkTotal ==
    ASSUME Types, NEW k \in Keys
    PROVE  /\ BulkCells(k) \in Seq(Cells) /\ BulkPieces(k) \in Seq(PieceType)
           /\ \/ /\ Absent(k)
                 /\ Len(BulkPieces(k)) = 1 /\ BulkPieces(k)[1].n = 1 /\ Len(BulkCells(k)) = 1
              \/ /\ ~Absent(k)
                 /\ Len(BulkPieces(k)) = 3 /\ BulkPieces(k)[1].n = 1
                 /\ BulkPieces(k)[2].n = ValueLen[db[k].value] /\ BulkPieces(k)[3].n = 1
                 /\ Len(BulkCells(k)) = ValueLen[db[k].value] + 2
<1>1. /\ db[k].value \in Values /\ db[k].block \in Blocks \cup {NoBlock}
      /\ (~Absent(k) => db[k].block \in Locations)
  BY Locate DEF Types, DbType, Absent
<1>2. {LineEnd, Null, Stack} \subseteq Locations /\ {Null, LineEnd} \subseteq Cells
  BY Locate, SomeCells DEF SharedObjects
<1>3. CASE Absent(k)
  <2>1. Object(Null, 1) \in PieceType /\ Object(Null, 1).n = 1
    BY <1>2 DEF Object, PieceType
  <2> QED
    BY <1>2, <1>3, <2>1 DEF BulkCells, BulkPieces
<1>4. CASE ~Absent(k)
  <2>1. PICK n \in Nat \ {0} : n = ValueLen[db[k].value]
    BY <1>1, Constants
  <2>2. PICK s \in Seq(Cells) : s = ValueCells(db[k].value) /\ Len(s) = n
    BY <1>1, <2>1, ValueSeq
  <2>3. Header(n) \in Cells
    BY SomeCells
  <2>4. BulkCells(k) = <<Header(n)>> \o s \o <<LineEnd>>
    BY <1>4, <2>1, <2>2 DEF BulkCells
  <2>5. /\ <<Header(n)>> \in Seq(Cells) /\ Len(<<Header(n)>>) = 1
        /\ <<LineEnd>> \in Seq(Cells) /\ Len(<<LineEnd>>) = 1
    BY <1>2, <2>3
  <2>6. BulkCells(k) \in Seq(Cells) /\ Len(BulkCells(k)) = n + 2
    BY <2>2, <2>4, <2>5
  <2>7. /\ OnStack(Header(n)) \in PieceType /\ OnStack(Header(n)).n = 1
        /\ Object(db[k].block, n) \in PieceType /\ Object(db[k].block, n).n = n
        /\ Object(LineEnd, 1) \in PieceType /\ Object(LineEnd, 1).n = 1
    BY <1>1, <1>2, <1>4, <2>3 DEF Object, OnStack, PieceType
  <2>8. BulkPieces(k) = <<OnStack(Header(n)), Object(db[k].block, n), Object(LineEnd, 1)>>
    BY <1>4, <2>1 DEF BulkPieces
  <2>9. PICK p1 \in PieceType, p2 \in PieceType, p3 \in PieceType :
          /\ p1 = OnStack(Header(n)) /\ p2 = Object(db[k].block, n) /\ p3 = Object(LineEnd, 1)
          /\ p1.n = 1 /\ p2.n = n /\ p3.n = 1
    BY <2>7
  <2>10. BulkPieces(k) = <<p1, p2, p3>>
    BY <2>8, <2>9
  <2>11. /\ BulkPieces(k) \in Seq(PieceType) /\ Len(BulkPieces(k)) = 3
         /\ BulkPieces(k)[1] = p1 /\ BulkPieces(k)[2] = p2 /\ BulkPieces(k)[3] = p3
    BY <2>10
  <2> QED
    BY <1>4, <2>1, <2>6, <2>9, <2>11
<1> QED
  BY <1>3, <1>4

LEMMA CommandParts ==
    ASSUME NEW cmd \in Command
    PROVE  /\ cmd.op \in {"get", "getdel", "set"} /\ cmd.key \in Keys
           /\ cmd.op = "set" => cmd.value \in Values
  BY DEF Command

LEMMA TotalOf ==
    ASSUME NEW p \in Seq(PieceType), todo' = p
    PROVE  /\ Len(p) = 1 => ToAdd' = p[1].n
           /\ Len(p) = 3 => ToAdd' = p[1].n + p[2].n + p[3].n
<1>1. ASSUME NEW i \in 1 .. 3 PROVE Cost(i)' = IF i <= Len(p) THEN p[i].n ELSE 0
  BY DEF Cost
<1>2. ToAdd' = Cost(1)' + Cost(2)' + Cost(3)'
  BY DEF ToAdd
<1>3. CASE Len(p) = 1
  <2>1. Cost(1)' = p[1].n /\ Cost(2)' = 0 /\ Cost(3)' = 0
    BY <1>1, <1>3
  <2>2. p[1] \in PieceType
    BY <1>3
  <2>3. p[1].n \in Nat
    BY <2>2 DEF PieceType
  <2> QED
    BY <1>2, <1>3, <2>1, <2>3
<1>4. CASE Len(p) = 3
  <2>1. Cost(1)' = p[1].n /\ Cost(2)' = p[2].n /\ Cost(3)' = p[3].n
    BY <1>1, <1>4
  <2> QED
    BY <1>2, <1>4, <2>1
<1> QED
  BY <1>3, <1>4

LEMMA PromiseTotal ==
    ASSUME Types, NEW cmd \in Command
    PROVE  /\ Promise(cmd) \in Seq(Cells) /\ Pieces(cmd) \in Seq(PieceType)
           /\ Len(Pieces(cmd)) <= 3
           /\ todo' = Pieces(cmd) => ToAdd' = Len(Promise(cmd))
<1>1. CASE cmd.op = "set"
  <2>1. Object(Ok, 1) \in PieceType /\ Object(Ok, 1).n = 1 /\ Ok \in Cells
    BY Locate, SomeCells DEF SharedObjects, Object, PieceType
  <2>2. Promise(cmd) = <<Ok>> /\ Pieces(cmd) = <<Object(Ok, 1)>>
    BY <1>1 DEF Promise, Pieces
  <2>3. /\ Promise(cmd) \in Seq(Cells) /\ Len(Promise(cmd)) = 1
        /\ Pieces(cmd) \in Seq(PieceType) /\ Len(Pieces(cmd)) = 1 /\ Pieces(cmd)[1].n = 1
    BY <2>1, <2>2
  <2>4. PICK p \in Seq(PieceType) : p = Pieces(cmd)
    BY <2>3
  <2>5. todo' = p => ToAdd' = 1
    BY <2>3, <2>4, TotalOf
  <2> QED
    BY <2>3, <2>4, <2>5
<1>2. CASE cmd.op # "set"
  <2>1. PICK k \in Keys : k = cmd.key
    BY CommandParts
  <2>2. PICK p \in Seq(PieceType), s \in Seq(Cells) :
          p = BulkPieces(k) /\ s = BulkCells(k)
    BY BulkTotal
  <2>3. Promise(cmd) = s /\ Pieces(cmd) = p
    BY <1>2, <2>1, <2>2 DEF Promise, Pieces
  <2>4. CASE Len(p) = 1 /\ p[1].n = 1 /\ Len(s) = 1
    BY <2>2, <2>3, <2>4, TotalOf
  <2>5. CASE /\ Len(p) = 3 /\ p[1].n = 1 /\ p[3].n = 1
             /\ p[2].n = ValueLen[db[k].value] /\ Len(s) = ValueLen[db[k].value] + 2
    <3>1. PICK n \in Nat : n = ValueLen[db[k].value]
      BY Constants DEF Types, DbType
    <3>2. todo' = p => ToAdd' = 1 + n + 1
      BY <2>2, <2>5, <3>1, TotalOf
    <3>3. 1 + n + 1 = Len(s)
      BY <2>5, <3>1
    <3> QED
      BY <2>3, <2>5, <3>2, <3>3
  <2> QED
    BY <2>2, <2>4, <2>5, BulkTotal
<1> QED
  BY <1>1, <1>2

\* The command that runs.
LEMMA NextCommand ==
    ASSUME CountInv, NEW c \in Clients, Execute(c)
    PROVE  \E cmd \in Command :
              /\ cmd = Script[c][Len(ends[c]) + 1]
              /\ Running /\ now = NoClient /\ c \notin left /\ Len(ends[c]) < asked[c]
              /\ now' = c /\ todo' = Pieces(cmd)
              /\ expected' = [expected EXCEPT ![c] = @ \o Promise(cmd)]
              /\ ends' = [ends EXCEPT ![c] = Append(@, Len(expected'[c]))]
              /\ IF cmd.op = "set"
                 THEN \E b \in Free :
                     /\ db' = [db EXCEPT ![cmd.key] = [block |-> b, value |-> cmd.value]]
                     /\ mem' = [mem EXCEPT ![b] = Stored(@, 0, ValueCells(cmd.value))]
                     /\ exposed' = IF CopyWaits(b) THEN exposed \cup {b} ELSE exposed \ {b}
                 ELSE UNCHANGED <<db, mem, exposed>>
              /\ pendingWrite' = Scheduled(c)
              /\ UNCHANGED <<tasks, asked, left, out, bufpos, reply, sentlen, phase, handler, writer>>
<1>1. Script[c] \in Seq(Command) /\ asked[c] \in Nat /\ ends[c] \in Seq(Nat) /\ Commands(c)
  BY Known
<1>2. Len(ends[c]) < asked[c] /\ asked[c] <= Len(Script[c])
  BY <1>1 DEF Execute, Commands
<1>3. PICK cmd \in Command : cmd = Script[c][Len(ends[c]) + 1]
  <2>1. Len(ends[c]) + 1 \in 1 .. Len(Script[c])
    BY <1>1, <1>2
  <2> QED
    BY <1>1, <2>1
<1> QED
  BY <1>3 DEF Execute, Idle, clientVars, bufferVars

LEMMA StoredValue ==
    ASSUME Types, NEW cmd \in Command, cmd.op = "set", NEW b \in Blocks,
           db' = [db EXCEPT ![cmd.key] = [block |-> b, value |-> cmd.value]],
           mem' = [mem EXCEPT ![b] = Stored(@, 0, ValueCells(cmd.value))]
    PROVE  db' \in DbType /\ mem' \in [Locations -> Seq(Cells)]
<1>0. db \in DbType /\ mem \in [Locations -> Seq(Cells)]
  BY DEF Types
<1>1. cmd.key \in Keys /\ cmd.value \in Values /\ b \in Locations
  BY CommandParts, Locate
<1>2. db' \in DbType
  BY <1>0, <1>1 DEF DbType
<1>3. ValueCells(cmd.value) \in Seq(Cells)
  BY <1>1, ValueSeq
<1>4. Stored(mem[b], 0, ValueCells(cmd.value)) \in Seq(Cells)
  BY <1>0, <1>1, <1>3, StoredSeq
<1> QED
  BY <1>0, <1>1, <1>2, <1>4

LEMMA ExecuteCounts ==
    ASSUME CountInv, NEW c \in Clients, Execute(c)
    PROVE  CountInv'
<1>0. Types /\ SendsFit
  BY DEF CountInv
<1>1. PICK cmd \in Command :
              /\ now = NoClient /\ c \notin left /\ Len(ends[c]) < asked[c]
              /\ now' = c /\ todo' = Pieces(cmd)
              /\ expected' = [expected EXCEPT ![c] = @ \o Promise(cmd)]
              /\ ends' = [ends EXCEPT ![c] = Append(@, Len(expected'[c]))]
              /\ IF cmd.op = "set"
                 THEN \E b \in Free :
                     /\ db' = [db EXCEPT ![cmd.key] = [block |-> b, value |-> cmd.value]]
                     /\ mem' = [mem EXCEPT ![b] = Stored(@, 0, ValueCells(cmd.value))]
                     /\ exposed' = IF CopyWaits(b) THEN exposed \cup {b} ELSE exposed \ {b}
                 ELSE UNCHANGED <<db, mem, exposed>>
              /\ pendingWrite' = Scheduled(c)
              /\ UNCHANGED <<tasks, asked, left, out, bufpos, reply, sentlen, phase, handler, writer>>
  BY NextCommand
<1>2. PICK promise \in Seq(Cells) : promise = Promise(cmd)
  BY <1>0, PromiseTotal
<1>3. todo' \in Seq(PieceType) /\ Len(todo') <= 3 /\ ToAdd' = Len(promise)
  BY <1>0, <1>1, <1>2, PromiseTotal
<1>4. /\ expected \in [Clients -> Seq(Cells)] /\ ends \in [Clients -> Seq(Nat)]
      /\ asked \in [Clients -> Nat]
  BY <1>0 DEF Types
<1>5. /\ expected' \in [Clients -> Seq(Cells)] /\ Len(expected'[c]) = Len(expected[c]) + Len(promise)
      /\ \A x \in Clients : x # c => expected'[x] = expected[x]
  <2>1. PICK s \in Seq(Cells) : s = expected[c]
    BY <1>4
  <2>2. s \o promise \in Seq(Cells) /\ Len(s \o promise) = Len(s) + Len(promise)
    BY <2>1
  <2>3. expected' = [expected EXCEPT ![c] = s \o promise]
    BY <1>1, <1>2, <2>1
  <2> QED
    BY <1>4, <2>1, <2>2, <2>3
<1>6. PICK m \in Nat : m = Len(expected'[c])
  BY <1>5
<1>7. /\ ends' \in [Clients -> Seq(Nat)] /\ Len(ends'[c]) = Len(ends[c]) + 1
      /\ ends'[c][Len(ends'[c])] = m /\ ends'[c] # <<>>
      /\ \A x \in Clients : x # c => ends'[x] = ends[x]
  <2>1. PICK s \in Seq(Nat) : s = ends[c]
    BY <1>4
  <2>2. /\ Append(s, m) \in Seq(Nat) /\ Len(Append(s, m)) = Len(s) + 1
        /\ Append(s, m)[Len(s) + 1] = m /\ Append(s, m) # <<>>
    BY <2>1
  <2>3. ends' = [ends EXCEPT ![c] = Append(s, m)]
    BY <1>1, <1>6, <2>1
  <2> QED
    BY <1>4, <2>1, <2>2, <2>3
<1>8. Types'
  <2>1. db' \in DbType /\ mem' \in [Locations -> Seq(Cells)]
    <3>1. CASE cmd.op = "set"
      BY <1>0, <1>1, <3>1, StoredValue DEF Free
    <3>2. CASE cmd.op # "set"
      BY <1>0, <1>1, <3>2 DEF Types
    <3> QED
      BY <3>1, <3>2
  <2>2. pendingWrite' \subseteq Clients
    BY <1>0, <1>1 DEF Types, Scheduled
  <2> QED
    BY <1>0, <1>1, <1>3, <1>5, <1>7, <2>1, <2>2 DEF Types
<1>9. SendsFit'
  BY <1>0, <1>1 DEF SendsFit
<1>10. ASSUME NEW x \in Clients PROVE Commands(x)' /\ Counters(x)' /\ Places(x)'
  <2>0. Commands(x) /\ Counters(x) /\ Places(x) /\ c # NoClient /\ x # NoClient
    BY Constants DEF CountInv
  <2>1. CASE x # c
    BY <1>1, <1>5, <1>7, <2>0, <2>1, ClientSame
  <2>2. CASE x = c
    <3>1. Commands(c)'
      <4>1. Len(ends[c]) \in Nat /\ asked[c] \in Nat
        BY <1>4
      <4>2. Len(ends'[c]) <= asked'[c]
        BY <1>1, <1>7, <4>1
      <4> QED
        BY <1>1, <1>6, <1>7, <2>0, <2>2, <4>2 DEF Commands
    <3>2. Counters(c)'
      BY <1>1, <2>0, <2>2 DEF Counters, HasReplies, Extent
    <3>3. Places(c)'
      <4>1. Gapless(Behind(c), reply[c], Len(expected[c]))
        <5>1. Len(expected[c]) - 0 = Len(expected[c])
          BY <1>4
        <5> QED
          BY <1>1, <2>0, <2>2, <5>1 DEF Places
      <4>2. Len(expected'[c]) - ToAdd' = Len(expected[c])
        BY <1>2, <1>3, <1>4, <1>5
      <4>3. Behind(c)' = Behind(c)
        BY <1>1 DEF Behind
      <4> QED
        BY <1>1, <4>1, <4>2, <4>3 DEF Places, Gapless
    <3> QED
      BY <2>2, <3>1, <3>2, <3>3
  <2> QED
    BY <2>1, <2>2
<1> QED
  BY <1>3, <1>8, <1>9, <1>10 DEF CountInv

LEMMA FinishCounts ==
    ASSUME CountInv, Finish
    PROVE  CountInv'
<1>0. Types /\ SendsFit /\ Len(todo) <= 3
  BY DEF CountInv
<1>1. /\ now # NoClient /\ todo = <<>> /\ now' = NoClient
      /\ UNCHANGED <<mem, tasks, asked, left, out, phase, todo, bufpos, reply, sentlen,
                     pendingWrite, handler, writer, expected, ends>>
  BY DEF Finish, clientVars, bufferVars, loopVars, history
<1>2. db' \in DbType
  <2>1. db \in DbType
    BY <1>0 DEF Types
  <2>2. \A k : [db EXCEPT ![k].block = NoBlock] \in DbType
    BY <2>1 DEF DbType
  <2> QED
    BY <2>1, <2>2 DEF Finish
<1>3. Types'
  BY <1>0, <1>1, <1>2 DEF Types
<1>4. SendsFit'
  BY <1>0, <1>1 DEF SendsFit
<1>5. ASSUME NEW c \in Clients PROVE Commands(c)' /\ Counters(c)' /\ Places(c)'
  <2>0. Commands(c) /\ Counters(c) /\ Places(c) /\ c # NoClient
    BY Constants DEF CountInv
  <2>1. CASE now # c
    BY <1>1, <2>0, <2>1, ClientSame
  <2>2. CASE now = c
    <3>1. Commands(c)' /\ Counters(c)'
      BY <1>1, <2>0 DEF Commands, Counters, HasReplies, Extent
    <3>2. ToAdd = 0
      BY <1>0, <1>1, Costs DEF Types
    <3>3. c \notin left => Gapless(Behind(c), reply[c], Len(expected[c]) - 0)
      BY <2>0, <2>2, <3>2 DEF Places
    <3>4. Places(c)'
      BY <1>1, <2>0, <2>2, <3>2, <3>3 DEF Places, Gapless, Behind
    <3> QED
      BY <3>1, <3>4
  <2> QED
    BY <2>1, <2>2
<1> QED
  BY <1>0, <1>1, <1>3, <1>4, <1>5 DEF CountInv

-----------------------------------------------------------------------------
(* A piece is added                                                        *)

\* It goes to the buffer,
ToBuffer(c, n, memory, cells) ==
    /\ reply[c] = <<>> /\ n <= BufSize - bufpos[c]
    /\ mem' = [memory EXCEPT ![Static(c)] = Stored(@, bufpos[c], cells)]
    /\ bufpos' = [bufpos EXCEPT ![c] = @ + n]
    /\ UNCHANGED <<reply, tasks>>

\* or its first part to the last block of the list,
Grown(list, part) ==
    IF list = <<>> THEN <<>> ELSE [list EXCEPT ![Len(list)].used = @ + part]
ToLast(c, part, memory, cells) ==
    LET list == reply[c] IN
    IF list = <<>> THEN part = 0 /\ mem' = memory
    ELSE /\ part <= list[Len(list)].size - list[Len(list)].used
         /\ mem' = [memory EXCEPT ![list[Len(list)].block] =
                      Stored(@, list[Len(list)].used, SubSeq(cells, 1, part))]

\* and what is left of it to a new one.
ToNew(c, piece, part, b) ==
    /\ reply' = [reply EXCEPT ![c] = Append(Grown(@, part), NewBlock(b, part, piece.n))]
    /\ tasks' = Append(tasks, CopyTask(b, piece.from, part, piece.n - part))

LEMMA RoomLeft ==
    ASSUME CountInv, NEW c \in Clients, NEW n \in Nat, n >= 1
    PROVE  /\ TailPart(c, n) \in Nat /\ TailPart(c, n) <= n
           /\ reply[c] = <<>> => TailPart(c, n) = 0
           /\ reply[c] # <<>> =>
                 TailPart(c, n) <= reply[c][Len(reply[c])].size - reply[c][Len(reply[c])].used
<1>1. PICK list \in Seq(BlockType) : list = reply[c]
  BY Known
<1>2. \A i \in 1 .. Len(list) : list[i].used <= list[i].size
  BY <1>1, Known DEF Counters
<1>3. CASE list = <<>>
  BY <1>1, <1>3 DEF TailPart, Room, Smaller
<1>4. CASE list # <<>>
  <2>1. PICK z \in BlockType : z = list[Len(list)] /\ z.used <= z.size
    BY <1>2, <1>4
  <2>2. PICK s \in Nat, u \in Nat : s = z.size /\ u = z.used /\ u <= s
    BY <2>1, BlockParts
  <2>3. Room(c) = s - u
    BY <1>1, <1>4, <2>1, <2>2 DEF Room, Last
  <2>4. TailPart(c, n) \in Nat /\ TailPart(c, n) <= n /\ TailPart(c, n) <= s - u
    BY <2>2, <2>3 DEF TailPart, Smaller
  <2> QED
    BY <1>1, <1>4, <2>1, <2>2, <2>4
<1> QED
  BY <1>3, <1>4

LEMMA PieceParts ==
    ASSUME NEW p \in PieceType
    PROVE  p.from \in Locations /\ p.n \in Nat /\ p.n >= 1 /\ p.header \in Cells
  BY DEF PieceType

\* The header is on the stack while its call runs.
LEMMA ComposedMemory ==
    ASSUME Types, NEW piece \in PieceType
    PROVE  /\ Composed(piece) \in [Locations -> Seq(Cells)]
           /\ \A x \in Locations : x # Stack => Composed(piece)[x] = mem[x]
           /\ piece.from = Stack => Composed(piece)[Stack] = <<piece.header>>
<1>1. mem \in [Locations -> Seq(Cells)] /\ Stack \in Locations
  BY Locate DEF Types
<1>2. <<piece.header>> \in Seq(Cells) /\ <<Junk>> \in Seq(Cells)
  BY PieceParts, SomeCells
<1> QED
  BY <1>1, <1>2 DEF Composed

LEMMA AddDoes ==
    ASSUME CountInv, AddReply
    PROVE  \E c \in Clients, piece \in PieceType, cells \in Seq(Cells),
              memory \in [Locations -> Seq(Cells)] :
              /\ Running /\ c = now /\ todo # <<>> /\ piece = todo[1] /\ todo' = Tail(todo)
              /\ memory = Composed(piece)
              /\ cells = Piece(memory[piece.from], 0, piece.n) /\ Len(cells) = piece.n
              /\ UNCHANGED <<db, asked, left, out, phase, now, sentlen,
                             pendingWrite, handler, writer, expected, ends>>
              /\ \/ ToBuffer(c, piece.n, memory, cells)
                 \/ /\ ToLast(c, piece.n, memory, cells)
                    /\ reply' = [reply EXCEPT ![c] = Grown(@, piece.n)]
                    /\ UNCHANGED <<bufpos, tasks>>
                 \/ \E b \in Free, part \in Nat :
                    /\ part < piece.n
                    /\ ToLast(c, part, memory, cells) /\ ToNew(c, piece, part, b)
                    /\ UNCHANGED bufpos
<1>0. Types /\ todo \in Seq(PieceType) /\ todo # <<>> /\ reply \in [Clients -> Seq(BlockType)]
  BY DEF CountInv, Types, AddReply
<1>1. PICK c \in Clients : c = now
  BY <1>0 DEF Types, AddReply
<1>2. PICK piece \in PieceType : piece = todo[1] /\ piece = Head(todo)
  <2>1. Head(todo) \in PieceType /\ Head(todo) = todo[1]
    BY <1>0
  <2> QED
    BY <2>1
<1>3. PICK memory \in [Locations -> Seq(Cells)] : memory = Composed(piece)
  BY <1>0, ComposedMemory
<1>4. memory[piece.from] \in Seq(Cells) /\ piece.n \in Nat /\ piece.n >= 1
  BY PieceParts
<1>5. PICK cells \in Seq(Cells) : cells = Piece(memory[piece.from], 0, piece.n) /\ Len(cells) = piece.n
  <2>1. PICK s \in Seq(Cells), n \in Nat : s = memory[piece.from] /\ n = piece.n
    BY <1>4
  <2>2. Piece(s, 0, n) \in Seq(Cells) /\ Len(Piece(s, 0, n)) = n
    BY PieceSeq
  <2> QED
    BY <2>1, <2>2
<1>6. PICK part \in Nat : part = TailPart(c, piece.n) /\ part <= piece.n
  BY <1>4, RoomLeft
<1>7. /\ Running /\ todo' = Tail(todo)
      /\ UNCHANGED <<db, asked, left, out, phase, now, sentlen,
                     pendingWrite, handler, writer, expected, ends>>
  BY DEF AddReply, clientVars, loopVars, history
<1>8. PICK list \in Seq(BlockType) : list = reply[c]
  BY <1>0
<1>9. IF FitsBuffer(c, piece.n)
      THEN /\ mem' = [memory EXCEPT ![Static(c)] = Stored(@, bufpos[c], cells)]
           /\ bufpos' = [bufpos EXCEPT ![c] = @ + piece.n]
           /\ UNCHANGED <<reply, tasks>>
      ELSE /\ mem' = IF list = <<>> THEN memory
                     ELSE [memory EXCEPT ![list[Len(list)].block] =
                             Stored(@, list[Len(list)].used, SubSeq(cells, 1, part))]
           /\ IF part = piece.n
              THEN reply' = [reply EXCEPT ![c] = Grown(list, part)] /\ UNCHANGED tasks
              ELSE \E b \in Free :
                      /\ reply' = [reply EXCEPT ![c] =
                                     Append(Grown(list, part), NewBlock(b, part, piece.n))]
                      /\ tasks' = Append(tasks, CopyTask(b, piece.from, part, piece.n - part))
           /\ UNCHANGED bufpos
  BY <1>1, <1>2, <1>3, <1>5, <1>6, <1>8, Zenon DEF AddReply, Grown, Last
<1>10. CASE FitsBuffer(c, piece.n)
  <2>1. ToBuffer(c, piece.n, memory, cells)
    BY <1>9, <1>10 DEF ToBuffer, FitsBuffer
  <2> QED
    BY <1>0, <1>1, <1>2, <1>3, <1>5, <1>7, <2>1
<1>11. CASE ~FitsBuffer(c, piece.n)
  <2>1. ToLast(c, part, memory, cells)
    BY <1>4, <1>6, <1>8, <1>9, <1>11, RoomLeft DEF ToLast
  <2>2. CASE part = piece.n
    <3>1. reply' = [reply EXCEPT ![c] = Grown(@, piece.n)] /\ UNCHANGED <<bufpos, tasks>>
      BY <1>8, <1>9, <1>11, <2>2
    <3>2. ToLast(c, piece.n, memory, cells)
      BY <2>1, <2>2
    <3> QED
      BY <1>0, <1>1, <1>2, <1>3, <1>5, <1>7, <3>1, <3>2
  <2>3. CASE part # piece.n
    <3>1. PICK b \in Free :
                      /\ reply' = [reply EXCEPT ![c] =
                                     Append(Grown(list, part), NewBlock(b, part, piece.n))]
                      /\ tasks' = Append(tasks, CopyTask(b, piece.from, part, piece.n - part))
      BY <1>9, <1>11, <2>3
    <3>2. ToNew(c, piece, part, b) /\ UNCHANGED bufpos
      BY <1>8, <1>9, <1>11, <3>1 DEF ToNew
    <3>3. part < piece.n
      BY <1>4, <1>6, <2>3
    <3> QED
      BY <1>0, <1>1, <1>2, <1>3, <1>5, <1>7, <2>1, <3>2, <3>3
  <2> QED
    BY <2>2, <2>3
<1> QED
  BY <1>10, <1>11

LEMMA TodoTail ==
    ASSUME todo \in Seq(PieceType), todo # <<>>, Len(todo) <= 3, todo' = Tail(todo)
    PROVE  /\ todo' \in Seq(PieceType) /\ Len(todo') = Len(todo) - 1 /\ Len(todo') <= 3
           /\ Len(todo) \in Nat
           /\ \A i \in 1 .. Len(todo') : todo'[i] = todo[i + 1]
           /\ ToAdd = todo[1].n + ToAdd' /\ ToAdd' \in Nat
           /\ Cost(1)' = Cost(2) /\ Cost(2)' = Cost(3) /\ Cost(3)' = 0
<1>1. PICK m \in Nat, s \in Seq(PieceType) : m = Len(todo) /\ s = todo /\ m >= 1 /\ m <= 3
  OBVIOUS
<1>2. /\ todo' \in Seq(PieceType) /\ Len(todo') = m - 1
      /\ \A i \in 1 .. m - 1 : todo'[i] = todo[i + 1]
  BY <1>1
<1>3. Cost(1)' = Cost(2)
  <2>1. CASE m >= 2
    <3>1. todo'[1] = todo[2]
      BY <1>2, <2>1
    <3> QED
      BY <1>1, <1>2, <2>1, <3>1 DEF Cost
  <2>2. CASE ~(m >= 2)
    BY <1>1, <1>2, <2>2 DEF Cost
  <2> QED
    BY <2>1, <2>2
<1>4. Cost(2)' = Cost(3)
  <2>1. CASE m >= 3
    <3>1. todo'[2] = todo[3]
      BY <1>2, <2>1
    <3> QED
      BY <1>1, <1>2, <2>1, <3>1 DEF Cost
  <2>2. CASE ~(m >= 3)
    BY <1>1, <1>2, <2>2 DEF Cost
  <2> QED
    BY <2>1, <2>2
<1>5. Cost(3)' = 0
  BY <1>1, <1>2 DEF Cost
<1>6. Cost(1) = todo[1].n
  BY <1>1 DEF Cost
<1>7. ToAdd = todo[1].n + ToAdd' /\ ToAdd' \in Nat
  <2>1. Cost(1) \in Nat /\ Cost(2) \in Nat /\ Cost(3) \in Nat
    BY Costs
  <2>2. ToAdd' = Cost(1)' + Cost(2)' + Cost(3)'
    BY DEF ToAdd
  <2>3. ToAdd' = Cost(2) + Cost(3)
    BY <1>3, <1>4, <1>5, <2>1, <2>2
  <2>4. ToAdd = Cost(1) + Cost(2) + Cost(3)
    BY DEF ToAdd
  <2> QED
    BY <1>6, <2>1, <2>3, <2>4, SMTT(30)
<1> QED
  BY <1>1, <1>2, <1>3, <1>4, <1>5, <1>7

LEMMA GrownParts ==
    ASSUME NEW list \in Seq(BlockType), NEW part \in Nat, list = <<>> => part = 0
    PROVE  /\ Grown(list, part) \in Seq(BlockType) /\ Len(Grown(list, part)) = Len(list)
           /\ \A i \in 1 .. Len(list) :
                 /\ Grown(list, part)[i].block = list[i].block
                 /\ Grown(list, part)[i].place = list[i].place
                 /\ Grown(list, part)[i].size = list[i].size
                 /\ Grown(list, part)[i].used = IF i = Len(list) THEN list[i].used + part
                                                ELSE list[i].used
<1>1. CASE list = <<>>
  BY <1>1 DEF Grown
<1>2. CASE list # <<>>
  <2>1. PICK new : new = [list EXCEPT ![Len(list)].used = @ + part]
    OBVIOUS
  <2>2. /\ new \in Seq(BlockType) /\ Len(new) = Len(list)
        /\ \A i \in 1 .. Len(list) : i # Len(list) => new[i] = list[i]
        /\ new[Len(list)].used = list[Len(list)].used + part
        /\ new[Len(list)].place = list[Len(list)].place
        /\ new[Len(list)].size = list[Len(list)].size
        /\ new[Len(list)].block = list[Len(list)].block
    BY <1>2, <2>1, GrownList
  <2>3. Grown(list, part) = new
    BY <1>2, <2>1 DEF Grown
  <2> QED
    BY <2>2, <2>3
<1> QED
  BY <1>1, <1>2

LEMMA GrownGapless ==
    ASSUME NEW list \in Seq(BlockType), NEW part \in Nat, list = <<>> => part = 0,
           NEW start \in Int, NEW end \in Int, Gapless(start, list, end)
    PROVE  Gapless(start, Grown(list, part), end + part)
<1>1. CASE list = <<>>
  <2>1. Grown(list, part) = list /\ end + part = end
    BY <1>1 DEF Grown
  <2> QED
    BY <2>1
<1>2. CASE list # <<>>
  <2>1. PICK new : new = [list EXCEPT ![Len(list)].used = @ + part]
    OBVIOUS
  <2>2. Gapless(start, new, end + part)
    BY <1>2, <2>1, GaplessGrown
  <2>3. Grown(list, part) = new
    BY <1>2, <2>1 DEF Grown
  <2> QED
    BY <2>2, <2>3
<1> QED
  BY <1>1, <1>2

LEMMA LastMemory ==
    ASSUME Types, NEW c \in Clients, NEW part \in Nat, NEW memory \in [Locations -> Seq(Cells)],
           NEW cells \in Seq(Cells), part <= Len(cells), ToLast(c, part, memory, cells)
    PROVE  mem' \in [Locations -> Seq(Cells)]
<1>1. PICK list \in Seq(BlockType) : list = reply[c]
  BY DEF Types
<1>2. CASE list = <<>>
  BY <1>1, <1>2 DEF ToLast
<1>3. CASE list # <<>>
  <2>1. PICK z \in BlockType : z = list[Len(list)]
    BY <1>3
  <2>2. z.block \in Locations /\ z.used \in Nat
    BY BlockParts, Locate
  <2>3. PICK s \in Seq(Cells), d \in Seq(Cells) : s = memory[z.block] /\ d = SubSeq(cells, 1, part)
    <3>1. memory[z.block] \in Seq(Cells)
      BY <2>2
    <3>2. SubSeq(cells, 1, part) \in Seq(Cells)
      OBVIOUS
    <3> QED
      BY <3>1, <3>2
  <2>4. Stored(s, z.used, d) \in Seq(Cells)
    BY <2>2, StoredSeq
  <2>5. mem' = [memory EXCEPT ![z.block] = Stored(s, z.used, d)]
    BY <1>1, <1>3, <2>1, <2>3 DEF ToLast
  <2> QED
    BY <2>2, <2>4, <2>5
<1> QED
  BY <1>2, <1>3

\* Where the next cell of a client goes.
LEMMA AddedPlace ==
    ASSUME CountInv, NEW c \in Clients
    PROVE  /\ Behind(c) \in Nat /\ AddedSoFar(c) \in Nat
           /\ \A end : Gapless(Behind(c), reply[c], end) => AddedSoFar(c) = end
<1>1. PICK a \in Nat, b \in Nat, s \in Nat :
         a = Len(out[c]) /\ b = bufpos[c] /\ s = sentlen[c] /\ s <= a
  BY Known DEF Counters
<1>2. Behind(c) = a + b - s
  BY <1>1 DEF Behind
<1>3. Behind(c) \in Nat
  BY <1>1, <1>2
<1>4. PICK list \in Seq(BlockType) : list = reply[c]
  BY Known
<1>5. CASE list = <<>>
  BY <1>3, <1>4, <1>5 DEF AddedSoFar, Gapless
<1>6. CASE list # <<>>
  <2>1. PICK z \in BlockType : z = list[Len(list)]
    BY <1>6
  <2>2. AddedSoFar(c) = z.place + z.used
    BY <1>4, <1>6, <2>1 DEF AddedSoFar, Last
  <2>3. z.place + z.used \in Nat
    BY BlockParts
  <2> QED
    BY <1>3, <1>4, <1>6, <2>1, <2>2, <2>3 DEF Gapless
<1> QED
  BY <1>5, <1>6

LEMMA LessAndMore ==
    ASSUME NEW e \in Int, NEW n \in Int, NEW m \in Int
    PROVE  e - (n + m) \in Int /\ (e - (n + m)) + n = e - m
  OBVIOUS

\* What does not depend on where the piece goes.
LEMMA AddCommon ==
    ASSUME CountInv, NEW c \in Clients, c = now, todo # <<>>, todo' = Tail(todo),
           UNCHANGED <<db, asked, left, out, phase, now, sentlen,
                       pendingWrite, handler, writer, expected, ends>>,
           mem' \in [Locations -> Seq(Cells)], tasks' \in Seq(TaskType),
           bufpos' \in [Clients -> Nat], reply' \in [Clients -> Seq(BlockType)],
           \A x \in Clients : x # c => bufpos'[x] = bufpos[x] /\ reply'[x] = reply[x],
           Counters(c)', SendsFit',
           \A end \in Int : Gapless(Behind(c), reply[c], end) =>
                              Gapless(Behind(c)', reply'[c], end + todo[1].n)
    PROVE  CountInv'
<1>0. Types /\ Len(todo) <= 3 /\ todo \in Seq(PieceType) /\ expected[c] \in Seq(Cells)
  BY Known DEF Types
<1>1. /\ todo' \in Seq(PieceType) /\ Len(todo') <= 3
      /\ ToAdd = todo[1].n + ToAdd' /\ ToAdd' \in Nat
  BY <1>0, TodoTail
<1>2. Types'
  BY <1>0, <1>1 DEF Types
<1>3. ASSUME NEW x \in Clients PROVE Commands(x)' /\ Counters(x)' /\ Places(x)'
  <2>0. Commands(x) /\ Counters(x) /\ Places(x)
    BY DEF CountInv
  <2>1. CASE x # c
    BY <2>0, <2>1, ClientSame
  <2>2. CASE x = c
    <3>1. Commands(c)'
      BY <2>0, <2>2 DEF Commands
    <3>2. Places(c)'
      <4>1. PICK e \in Nat, n \in Nat, m \in Nat :
               e = Len(expected[c]) /\ n = todo[1].n /\ m = ToAdd'
        <5>1. todo[1] \in PieceType
          BY <1>0
        <5>2. todo[1].n \in Nat
          BY <5>1, PieceParts
        <5>3. ToAdd' \in Nat
          BY <1>1
        <5> QED
          BY <1>0, <5>2, <5>3
      <4>2. ToAdd = n + m /\ e - (n + m) \in Int /\ (e - (n + m)) + n = e - m
        <5>1. ToAdd = n + m
          BY <1>1, <4>1
        <5>2. e \in Int /\ n \in Int /\ m \in Int
          OBVIOUS
        <5>3. e - (n + m) \in Int /\ (e - (n + m)) + n = e - m
          BY ONLY <5>2
        <5> QED
          BY ONLY <5>1, <5>3
      <4>3. c \notin left => Gapless(Behind(c), reply[c], e - (n + m))
        BY <2>0, <2>2, <4>1, <4>2 DEF Places
      <4>4. c \notin left => Gapless(Behind(c)', reply'[c], e - m)
        BY <4>1, <4>2, <4>3
      <4> QED
        BY <4>1, <4>4 DEF Places, Gapless
    <3> QED
      BY <2>2, <3>1, <3>2
  <2> QED
    BY <2>1, <2>2
<1> QED
  BY <1>1, <1>2, <1>3 DEF CountInv

LEMMA BufferCounts ==
    ASSUME CountInv, NEW c \in Clients, NEW piece \in PieceType, NEW cells \in Seq(Cells),
           NEW memory \in [Locations -> Seq(Cells)],
           c = now, todo # <<>>, piece = todo[1], todo' = Tail(todo), Len(cells) = piece.n,
           UNCHANGED <<db, asked, left, out, phase, now, sentlen,
                       pendingWrite, handler, writer, expected, ends>>,
           ToBuffer(c, piece.n, memory, cells)
    PROVE  CountInv'
<1>0. /\ bufpos \in [Clients -> Nat] /\ reply \in [Clients -> Seq(BlockType)]
      /\ tasks \in Seq(TaskType)
  BY DEF CountInv, Types
<1>1. PICK n \in Nat, b \in Nat, s \in Nat, o \in Nat :
          n = piece.n /\ n >= 1 /\ b = bufpos[c] /\ s = sentlen[c] /\ o = Len(out[c])
  <2>1. piece.n \in Nat /\ piece.n >= 1
    BY PieceParts
  <2>2. bufpos[c] \in Nat /\ sentlen[c] \in Nat
    BY Known
  <2>3. Len(out[c]) \in Nat
    BY Known
  <2> QED
    BY <2>1, <2>2, <2>3
<1>2. /\ bufpos' = [bufpos EXCEPT ![c] = b + n] /\ reply' = reply /\ tasks' = tasks
      /\ reply[c] = <<>> /\ n <= BufSize - b
      /\ mem' = [memory EXCEPT ![Static(c)] = Stored(@, b, cells)]
  BY <1>1 DEF ToBuffer
<1>3. bufpos' \in [Clients -> Nat] /\ bufpos'[c] = b + n
      /\ \A x \in Clients : x # c => bufpos'[x] = bufpos[x]
  BY <1>0, <1>2
<1>4. mem' \in [Locations -> Seq(Cells)]
  <2>1. Static(c) \in Locations
    BY Locate
  <2>2. Stored(memory[Static(c)], b, cells) \in Seq(Cells)
    BY <2>1, StoredSeq
  <2> QED
    BY <1>2, <2>1, <2>2
<1>5. Counters(c)'
  <2>1. s <= o /\ (b > 0 => s < b) /\ (b = 0 => s = 0)
    BY <1>1, <1>2, Known DEF Counters, HasReplies, Extent
  <2>2. HasReplies(c)' /\ Extent(c)' = b + n /\ s < b + n
    BY <1>1, <1>3, <2>1 DEF HasReplies, Extent
  <2>3. b + n <= BufSize
    BY <1>1, <1>2, Constants
  <2>4. \A i \in 1 .. Len(reply'[c]) : reply'[c][i].used <= reply'[c][i].size
    BY <1>2
  <2> QED
    BY <1>1, <1>3, <2>1, <2>2, <2>3, <2>4 DEF Counters
<1>6. SendsFit'
  BY <1>2, Known DEF SendsFit
<1>7. Behind(c)' = Behind(c) + n
  <2>1. Behind(c) = o + b - s /\ Behind(c)' = o + (b + n) - s
    BY <1>1, <1>3 DEF Behind
  <2> QED
    BY <2>1
<1>8. ASSUME NEW end \in Int, Gapless(Behind(c), reply[c], end)
      PROVE  Gapless(Behind(c)', reply'[c], end + todo[1].n)
  BY <1>1, <1>2, <1>7, <1>8 DEF Gapless
<1> QED
  BY <1>0, <1>2, <1>3, <1>4, <1>5, <1>6, <1>8, AddCommon

\* The list gets longer.
LEMMA LongerCounters ==
    ASSUME CountInv, NEW c \in Clients, NEW new \in Seq(BlockType), new # <<>>, reply'[c] = new,
           bufpos'[c] = bufpos[c], sentlen'[c] = sentlen[c], out' = out,
           reply[c] # <<>> => reply[c][1].used <= new[1].used,
           \A i \in 1 .. Len(new) : new[i].used <= new[i].size
    PROVE  Counters(c)'
<1>1. PICK a \in BlockType : a = new[1] /\ a = Head(new)
  <2>1. Head(new) \in BlockType /\ Head(new) = new[1]
    OBVIOUS
  <2> QED
    BY <2>1
<1>2. PICK b \in Nat, s \in Nat, u \in Nat :
         b = bufpos[c] /\ s = sentlen[c] /\ u = a.used /\ u >= 1
  <2>1. bufpos[c] \in Nat /\ sentlen[c] \in Nat
    BY Known
  <2>2. a.used \in Nat /\ a.used >= 1
    BY BlockParts
  <2> QED
    BY <2>1, <2>2
<1>3. HasReplies(c)' /\ Extent(c)' = IF b > 0 THEN b ELSE u
  BY <1>1, <1>2 DEF HasReplies, Extent
<1>4. s < IF b > 0 THEN b ELSE u
  <2>1. CASE b > 0
    BY <1>2, <2>1, Known DEF Counters, HasReplies, Extent
  <2>2. CASE b = 0 /\ reply[c] = <<>>
    <3>1. ~HasReplies(c)
      BY <1>2, <2>2 DEF HasReplies
    <3> QED
      BY <1>2, <2>2, <3>1, Known DEF Counters
  <2>3. CASE b = 0 /\ reply[c] # <<>>
    <3>1. PICK list \in Seq(BlockType) : list = reply[c]
      BY Known
    <3>2. PICK h \in BlockType : h = list[1] /\ h = Head(list)
      <4>1. Head(list) \in BlockType /\ Head(list) = list[1]
        BY <2>3, <3>1
      <4> QED
        BY <4>1
    <3>3. s < h.used
      <4>1. HasReplies(c) /\ Extent(c) = h.used
        BY <1>2, <2>3, <3>1, <3>2 DEF HasReplies, Extent
      <4>2. sentlen[c] < Extent(c)
        BY <4>1, Known DEF Counters
      <4> QED
        BY <1>2, <4>1, <4>2
    <3>4. h.used <= u /\ h.used \in Nat
      BY <1>1, <1>2, <2>3, <3>1, <3>2, BlockParts
    <3> QED
      BY <1>2, <2>3, <3>3, <3>4
  <2> QED
    BY <1>2, <2>1, <2>2, <2>3
<1>5. bufpos[c] <= BufSize /\ sentlen[c] <= Len(out[c])
  BY Known DEF Counters
<1> QED
  BY <1>2, <1>3, <1>4, <1>5 DEF Counters

LEMMA TailCounts ==
    ASSUME CountInv, NEW c \in Clients, NEW piece \in PieceType, NEW cells \in Seq(Cells),
           NEW memory \in [Locations -> Seq(Cells)],
           c = now, todo # <<>>, piece = todo[1], todo' = Tail(todo), Len(cells) = piece.n,
           UNCHANGED <<db, asked, left, out, phase, now, sentlen,
                       pendingWrite, handler, writer, expected, ends>>,
           ToLast(c, piece.n, memory, cells),
           reply' = [reply EXCEPT ![c] = Grown(@, piece.n)],
           UNCHANGED <<bufpos, tasks>>
    PROVE  CountInv'
<1>0. /\ bufpos \in [Clients -> Nat] /\ reply \in [Clients -> Seq(BlockType)]
      /\ tasks \in Seq(TaskType) /\ Types
  BY DEF CountInv, Types
<1>1. PICK n \in Nat, list \in Seq(BlockType) : n = piece.n /\ n >= 1 /\ list = reply[c]
  BY <1>0, PieceParts
<1>2. list # <<>> /\ n <= list[Len(list)].size - list[Len(list)].used
  BY <1>1 DEF ToLast
<1>3. PICK new \in Seq(BlockType) : new = Grown(list, n)
  BY <1>2, GrownParts
<1>4. /\ Len(new) = Len(list) /\ new # <<>>
      /\ \A i \in 1 .. Len(list) :
            /\ new[i].size = list[i].size
            /\ new[i].used = IF i = Len(list) THEN list[i].used + n ELSE list[i].used
  <2>1. /\ Len(new) = Len(list)
        /\ \A i \in 1 .. Len(list) :
            /\ new[i].size = list[i].size
            /\ new[i].used = IF i = Len(list) THEN list[i].used + n ELSE list[i].used
    BY <1>2, <1>3, GrownParts
  <2>2. Len(list) # 0
    BY <1>2
  <2> QED
    BY <2>1, <2>2
<1>5. reply' \in [Clients -> Seq(BlockType)] /\ reply'[c] = new
      /\ \A x \in Clients : x # c => reply'[x] = reply[x]
  <2>1. reply' = [reply EXCEPT ![c] = new]
    BY <1>1, <1>3
  <2> QED
    BY <1>0, <2>1
<1>6. mem' \in [Locations -> Seq(Cells)]
  <2>1. ToLast(c, n, memory, cells) /\ n <= Len(cells)
    BY <1>1
  <2> QED
    BY <1>0, <2>1, LastMemory
<1>7. ASSUME NEW i \in 1 .. Len(new) PROVE new[i].used <= new[i].size
  <2>1. PICK a \in BlockType : a = list[i] /\ a.used <= a.size
    <3>1. list[i].used <= list[i].size
      BY <1>1, <1>4, Known DEF Counters
    <3> QED
      BY <1>4, <3>1
  <2>2. a.used \in Nat /\ a.size \in Nat
    BY BlockParts
  <2>3. new[i].size = a.size /\ new[i].used = IF i = Len(list) THEN a.used + n ELSE a.used
    BY <1>4, <2>1
  <2>4. i = Len(list) => n <= a.size - a.used
    BY <1>2, <2>1
  <2> QED
    BY <2>1, <2>2, <2>3, <2>4
<1>8. list[1].used <= new[1].used
  <2>1. PICK a \in BlockType : a = list[1]
    BY <1>2
  <2>2. a.used \in Nat
    BY BlockParts
  <2>3. new[1].used = a.used \/ new[1].used = a.used + n
    <3>1. 1 \in 1 .. Len(list)
      BY <1>2
    <3> QED
      BY <1>4, <2>1, <3>1
  <2> QED
    BY <2>1, <2>2, <2>3
<1>9. Counters(c)'
  <2>1. bufpos'[c] = bufpos[c] /\ sentlen'[c] = sentlen[c] /\ out' = out
    OBVIOUS
  <2> QED
    BY <1>1, <1>4, <1>5, <1>7, <1>8, <2>1, LongerCounters
<1>10. SendsFit'
  BY Known DEF SendsFit
<1>11. Behind(c)' = Behind(c) /\ Behind(c) \in Int
  BY AddedPlace DEF Behind
<1>12. ASSUME NEW end \in Int, Gapless(Behind(c), reply[c], end)
       PROVE  Gapless(Behind(c)', reply'[c], end + todo[1].n)
  <2>1. Gapless(Behind(c), Grown(list, n), end + n)
    BY <1>1, <1>2, <1>11, <1>12, GrownGapless
  <2> QED
    BY <1>1, <1>3, <1>5, <1>11, <2>1
<1> QED
  BY <1>0, <1>5, <1>6, <1>9, <1>10, <1>12, AddCommon

\* The block for the rest of a piece.
LEMMA NewBlockParts ==
    ASSUME CountInv, NEW c \in Clients, c = now, NEW n \in Nat, NEW part \in Nat, part < n,
           NEW b \in Blocks
    PROVE  /\ NewBlock(b, part, n) \in BlockType /\ NewBlock(b, part, n).block = b
           /\ NewBlock(b, part, n).used = n - part
           /\ NewBlock(b, part, n).used <= NewBlock(b, part, n).size
           /\ NewBlock(b, part, n).place = AddedSoFar(c) + part
<1>1. PICK r \in Nat : r = n - part /\ r >= 1
  OBVIOUS
<1>2. BlockSize(r) \in Nat /\ r <= BlockSize(r)
  BY Constants DEF BlockSize, Larger
<1>3. AddedSoFar(c) + part \in Nat
  BY AddedPlace
<1>4. NewBlock(b, part, n) =
        [block |-> b, size |-> BlockSize(r), used |-> r, place |-> AddedSoFar(c) + part]
  BY <1>1 DEF NewBlock
<1> QED
  BY <1>1, <1>2, <1>3, <1>4 DEF BlockType

LEMMA NewCopy ==
    ASSUME NEW piece \in PieceType, NEW part \in Nat, part < piece.n, NEW b \in Blocks
    PROVE  /\ CopyTask(b, piece.from, part, piece.n - part) \in CopyType
           /\ CopyTask(b, piece.from, part, piece.n - part) \in TaskType
           /\ CopyTask(b, piece.from, part, piece.n - part).op = "copy"
<1>1. PICK r \in Nat \ {0} : r = piece.n - part
  BY PieceParts
<1> QED
  BY <1>1, PieceParts DEF CopyTask, CopyType, TaskType

\* The list of the client behind its last block and the new one.
LEMMA NewList ==
    ASSUME CountInv, NEW c \in Clients, c = now, NEW piece \in PieceType, NEW part \in Nat,
           part < piece.n, NEW b \in Blocks, NEW memory, NEW cells,
           ToLast(c, part, memory, cells), ToNew(c, piece, part, b)
    PROVE  \E new \in Seq(BlockType), z \in BlockType :
              /\ z = NewBlock(b, part, piece.n)
              /\ new = Append(Grown(reply[c], part), z) /\ new # <<>>
              /\ reply' = [reply EXCEPT ![c] = new]
              /\ reply' \in [Clients -> Seq(BlockType)] /\ reply'[c] = new
              /\ \A x \in Clients : x # c => reply'[x] = reply[x]
              /\ Len(new) = Len(reply[c]) + 1 /\ new[Len(new)] = z
              /\ \A i \in 1 .. Len(reply[c]) :
                    /\ new[i].block = reply[c][i].block
                    /\ new[i].place = reply[c][i].place
                    /\ new[i].size = reply[c][i].size
                    /\ new[i].used = IF i = Len(reply[c]) THEN reply[c][i].used + part
                                     ELSE reply[c][i].used
<1>1. reply \in [Clients -> Seq(BlockType)]
  BY Known DEF Types
<1>2. PICK list \in Seq(BlockType) : list = reply[c]
  BY <1>1
<1>3. list = <<>> => part = 0
  BY <1>2 DEF ToLast
<1>4. PICK g \in Seq(BlockType) : g = Grown(list, part)
  BY <1>3, GrownParts
<1>5. /\ Len(g) = Len(list)
      /\ \A i \in 1 .. Len(list) :
            /\ g[i].block = list[i].block /\ g[i].place = list[i].place
            /\ g[i].size = list[i].size
            /\ g[i].used = IF i = Len(list) THEN list[i].used + part ELSE list[i].used
  BY <1>3, <1>4, GrownParts
<1>6. piece.n \in Nat
  BY PieceParts
<1>7. PICK z \in BlockType : z = NewBlock(b, part, piece.n)
  BY <1>6, NewBlockParts
<1>8. PICK new \in Seq(BlockType) : new = Append(g, z)
  <2>1. Append(g, z) \in Seq(BlockType)
    OBVIOUS
  <2> QED
    BY <2>1
<1>9. /\ Len(new) = Len(list) + 1 /\ new # <<>> /\ new[Len(new)] = z
      /\ \A i \in 1 .. Len(list) : new[i] = g[i]
  BY <1>5, <1>8
<1>10. reply' = [reply EXCEPT ![c] = new]
  BY <1>2, <1>4, <1>7, <1>8 DEF ToNew
<1>11. /\ reply' \in [Clients -> Seq(BlockType)] /\ reply'[c] = new
       /\ \A x \in Clients : x # c => reply'[x] = reply[x]
  BY <1>1, <1>10
<1>12. \A i \in 1 .. Len(list) :
          /\ new[i].block = list[i].block /\ new[i].place = list[i].place
          /\ new[i].size = list[i].size
          /\ new[i].used = IF i = Len(list) THEN list[i].used + part ELSE list[i].used
  BY <1>5, <1>9
<1>13. new = Append(Grown(list, part), z)
  BY <1>4, <1>8
<1> WITNESS new \in Seq(BlockType), z \in BlockType
<1> QED
  BY <1>2, <1>7, <1>9, <1>10, <1>11, <1>12, <1>13

LEMMA NewCounts ==
    ASSUME CountInv, NEW c \in Clients, NEW piece \in PieceType, NEW cells \in Seq(Cells),
           NEW memory \in [Locations -> Seq(Cells)],
           c = now, todo # <<>>, piece = todo[1], todo' = Tail(todo), Len(cells) = piece.n,
           UNCHANGED <<db, asked, left, out, phase, now, sentlen,
                       pendingWrite, handler, writer, expected, ends>>,
           NEW b \in Free, NEW part \in Nat, part < piece.n,
           ToLast(c, part, memory, cells), ToNew(c, piece, part, b), UNCHANGED bufpos
    PROVE  CountInv'
<1>0. Types /\ SendsFit /\ tasks \in Seq(TaskType) /\ b \in Blocks /\ bufpos \in [Clients -> Nat]
  BY DEF CountInv, Types, Free
<1>1. PICK n \in Nat, list \in Seq(BlockType) : n = piece.n /\ list = reply[c]
  BY Known, PieceParts
<1>2. PICK new \in Seq(BlockType), z \in BlockType :
              /\ z = NewBlock(b, part, piece.n)
              /\ new = Append(Grown(reply[c], part), z) /\ new # <<>>
              /\ reply' \in [Clients -> Seq(BlockType)] /\ reply'[c] = new
              /\ \A x \in Clients : x # c => reply'[x] = reply[x]
              /\ Len(new) = Len(reply[c]) + 1 /\ new[Len(new)] = z
              /\ \A i \in 1 .. Len(reply[c]) :
                    /\ new[i].block = reply[c][i].block
                    /\ new[i].place = reply[c][i].place
                    /\ new[i].size = reply[c][i].size
                    /\ new[i].used = IF i = Len(reply[c]) THEN reply[c][i].used + part
                                     ELSE reply[c][i].used
  <2>1. b \in Blocks
    BY <1>0
  <2> QED
    BY <2>1, NewList
<1>2a. /\ z = NewBlock(b, part, n) /\ new = Append(Grown(list, part), z)
       /\ Len(new) = Len(list) + 1 /\ new[Len(new)] = z
       /\ \A i \in 1 .. Len(list) :
             /\ new[i].size = list[i].size
             /\ new[i].used = IF i = Len(list) THEN list[i].used + part ELSE list[i].used
  BY <1>1, <1>2
<1>3. z.used = n - part /\ z.used <= z.size /\ z.place = AddedSoFar(c) + part
  BY <1>0, <1>1, <1>2, NewBlockParts, SMTT(30)
<1>4. list # <<>> => part <= list[Len(list)].size - list[Len(list)].used
  BY <1>1 DEF ToLast
<1>5. ASSUME NEW i \in 1 .. Len(new) PROVE new[i].used <= new[i].size
  <2>1. CASE i = Len(new)
    BY <1>2a, <1>3, <2>1
  <2>2. CASE i # Len(new)
    <3>0. i \in 1 .. Len(list)
      BY <1>2a, <2>2
    <3>1. PICK a \in BlockType : a = list[i] /\ a.used <= a.size
      <4>1. list[i].used <= list[i].size
        BY <1>1, <3>0, Known DEF Counters
      <4> QED
        BY <3>0, <4>1
    <3>2. a.used \in Nat /\ a.size \in Nat
      BY BlockParts
    <3>3. new[i].size = a.size /\ new[i].used = IF i = Len(list) THEN a.used + part ELSE a.used
      BY <1>2a, <3>0, <3>1
    <3>4. i = Len(list) => part <= a.size - a.used
      BY <1>4, <3>0, <3>1
    <3> QED
      BY <3>1, <3>2, <3>3, <3>4
  <2> QED
    BY <2>1, <2>2
<1>6. list # <<>> => list[1].used <= new[1].used
  <2> SUFFICES ASSUME list # <<>> PROVE list[1].used <= new[1].used
    OBVIOUS
  <2>1. PICK a \in BlockType : a = list[1] /\ 1 \in 1 .. Len(list)
    OBVIOUS
  <2>2. a.used \in Nat
    BY BlockParts
  <2>3. new[1].used = a.used \/ new[1].used = a.used + part
    BY <1>2a, <2>1
  <2> QED
    BY <2>1, <2>2, <2>3
<1>7. Counters(c)'
  <2>1. bufpos'[c] = bufpos[c] /\ sentlen'[c] = sentlen[c] /\ out' = out
    OBVIOUS
  <2> QED
    BY <1>1, <1>2, <1>5, <1>6, <2>1, LongerCounters
<1>8. mem' \in [Locations -> Seq(Cells)]
  <2>1. part <= Len(cells)
    BY <1>1
  <2> QED
    BY <1>0, <2>1, LastMemory
<1>9. tasks' \in Seq(TaskType) /\ SendsFit'
  <2>1. PICK t \in TaskType : t = CopyTask(b, piece.from, part, piece.n - part) /\ t.op = "copy"
    BY <1>0, NewCopy
  <2>2. tasks' = Append(tasks, t)
    BY <2>1 DEF ToNew
  <2>3. /\ tasks' \in Seq(TaskType) /\ Len(tasks') = Len(tasks) + 1 /\ tasks'[Len(tasks) + 1] = t
        /\ \A k \in 1 .. Len(tasks) : tasks'[k] = tasks[k]
    BY <1>0, <2>2
  <2>4. ASSUME NEW k \in 1 .. Len(tasks'), tasks'[k].op = "send" PROVE k \in 1 .. Len(tasks)
    BY <1>0, <2>1, <2>3, <2>4
  <2>5. SendsFit'
    BY <1>0, <2>3, <2>4 DEF SendsFit
  <2> QED
    BY <2>3, <2>5
<1>10. Behind(c)' = Behind(c) /\ Behind(c) \in Int
  BY AddedPlace DEF Behind
<1>11. ASSUME NEW end \in Int, Gapless(Behind(c), reply[c], end)
       PROVE  Gapless(Behind(c)', reply'[c], end + todo[1].n)
  <2>1. list = <<>> => part = 0
    BY <1>1 DEF ToLast
  <2>2. PICK g \in Seq(BlockType) : g = Grown(list, part)
    BY <2>1, GrownParts
  <2>3. Gapless(Behind(c), g, end + part)
    BY <1>1, <1>10, <1>11, <2>1, <2>2, GrownGapless
  <2>4. AddedSoFar(c) = end
    BY <1>11, AddedPlace
  <2>5. z.place = end + part /\ end + part \in Int
    BY <1>3, <2>4
  <2>6. Gapless(Behind(c), Append(g, z), end + part + z.used)
    BY <1>10, <2>3, <2>5, GaplessAppend
  <2>7. end + part + z.used = end + n
    BY <1>3
  <2> QED
    BY <1>1, <1>2, <1>10, <2>2, <2>6, <2>7
<1> QED
  BY <1>0, <1>2, <1>7, <1>8, <1>9, <1>11, AddCommon

LEMMA AddCounts ==
    ASSUME CountInv, AddReply
    PROVE  CountInv'
<1>1. PICK c \in Clients, piece \in PieceType, cells \in Seq(Cells),
           memory \in [Locations -> Seq(Cells)] :
              /\ c = now /\ todo # <<>> /\ piece = todo[1] /\ todo' = Tail(todo)
              /\ Len(cells) = piece.n
              /\ UNCHANGED <<db, asked, left, out, phase, now, sentlen,
                             pendingWrite, handler, writer, expected, ends>>
              /\ \/ ToBuffer(c, piece.n, memory, cells)
                 \/ /\ ToLast(c, piece.n, memory, cells)
                    /\ reply' = [reply EXCEPT ![c] = Grown(@, piece.n)]
                    /\ UNCHANGED <<bufpos, tasks>>
                 \/ \E b \in Free, part \in Nat :
                    /\ part < piece.n
                    /\ ToLast(c, part, memory, cells) /\ ToNew(c, piece, part, b)
                    /\ UNCHANGED bufpos
  BY AddDoes
<1> QED
  BY <1>1, BufferCounts, TailCounts, NewCounts

-----------------------------------------------------------------------------
(* A write                                                                 *)

\* What is sent next.
LEMMA SourceParts ==
    ASSUME CountInv, NEW c \in Clients, HasReplies(c)
    PROVE  /\ Source(c) \in Locations /\ Extent(c) \in Nat /\ Extent(c) >= 1
           /\ sentlen[c] < Extent(c) /\ sentlen[c] \in Nat /\ bufpos[c] \in Nat
           /\ bufpos[c] > 0 => Source(c) = Static(c) /\ Extent(c) = bufpos[c]
           /\ bufpos[c] = 0 => /\ reply[c] # <<>> /\ 1 \in 1 .. Len(reply[c])
                               /\ Source(c) = reply[c][1].block /\ Source(c) \in Blocks
                               /\ Extent(c) = reply[c][1].used
<1>1. PICK b \in Nat, list \in Seq(BlockType) : b = bufpos[c] /\ list = reply[c]
  BY Known
<1>2. sentlen[c] < Extent(c) /\ sentlen[c] \in Nat
  BY Known DEF Counters
<1>3. CASE b > 0
  BY <1>1, <1>2, <1>3, Locate DEF Source, Extent
<1>4. CASE b = 0
  <2>1. list # <<>>
    BY <1>1, <1>4 DEF HasReplies
  <2>2. PICK a \in BlockType : a = list[1] /\ a = Head(list) /\ 1 \in 1 .. Len(list)
    <3>1. Head(list) \in BlockType /\ Head(list) = list[1] /\ 1 \in 1 .. Len(list)
      BY <2>1
    <3> QED
      BY <3>1
  <2>3. Source(c) = a.block /\ Extent(c) = a.used
    BY <1>1, <1>4, <2>2 DEF Source, Extent
  <2> QED
    BY <1>1, <1>2, <1>4, <2>1, <2>2, <2>3, BlockParts, Locate
<1> QED
  BY <1>1, <1>3, <1>4

LEMMA WriteDoes ==
    ASSUME CountInv, NEW c \in Clients, WriteToClient(c)
    PROVE  \E n \in Nat, rest \in Nat :
              /\ n >= 1 /\ n <= rest /\ rest = Extent(c) - sentlen[c]
              /\ Running /\ HasReplies(c)
              /\ tasks' = Append(tasks, SendTask(c, Source(c), sentlen[c], n))
              /\ out' = [out EXCEPT ![c] = @ \o [i \in 1 .. n |-> Pending]]
              /\ sentlen' = [sentlen EXCEPT ![c] = NextSent(c, n)]
              /\ IF n < rest THEN UNCHANGED <<bufpos, reply>>
                 ELSE IF bufpos[c] > 0
                 THEN bufpos' = [bufpos EXCEPT ![c] = 0] /\ UNCHANGED reply
                 ELSE reply' = [reply EXCEPT ![c] = Tail(@)] /\ UNCHANGED bufpos
              /\ UNCHANGED <<db, mem, asked, left, now, todo, phase, pendingWrite, handler,
                             writer, expected, ends>>
<1>1. HasReplies(c)
  BY DEF WriteToClient
<1>2. Extent(c) \in Nat /\ sentlen[c] \in Nat /\ sentlen[c] < Extent(c)
  BY <1>1, SourceParts
<1>3. PICK rest \in Nat : rest = Extent(c) - sentlen[c] /\ rest >= 1
  BY <1>2
<1>4. (IF c \in Slow THEN 1 .. rest ELSE {rest}) \subseteq 1 .. rest
  BY <1>3
<1>5. PICK n \in 1 .. rest :
              /\ tasks' = Append(tasks, SendTask(c, Source(c), sentlen[c], n))
              /\ out' = [out EXCEPT ![c] = @ \o [i \in 1 .. n |-> Pending]]
              /\ sentlen' = [sentlen EXCEPT ![c] = NextSent(c, n)]
              /\ IF n < rest THEN UNCHANGED <<bufpos, reply>>
                 ELSE IF bufpos[c] > 0
                 THEN bufpos' = [bufpos EXCEPT ![c] = 0] /\ UNCHANGED reply
                 ELSE reply' = [reply EXCEPT ![c] = Tail(@)] /\ UNCHANGED bufpos
  BY <1>3, <1>4 DEF WriteToClient
<1>6. /\ UNCHANGED <<db, mem, asked, left, now, todo, phase, pendingWrite, handler,
                     writer, expected, ends>>
      /\ Running
  BY DEF WriteToClient, history
<1>7. n \in Nat /\ n >= 1 /\ n <= rest
  BY <1>5
<1> QED
  BY <1>1, <1>3, <1>5, <1>6, <1>7

\* The stream gets longer by the places of a send.
LEMMA LongerStream ==
    ASSUME NEW s \in Seq(Cells), NEW n \in Nat
    PROVE  /\ s \o [i \in 1 .. n |-> Pending] \in Seq(Cells)
           /\ Len(s \o [i \in 1 .. n |-> Pending]) = Len(s) + n
           /\ \A j \in 1 .. Len(s) : (s \o [i \in 1 .. n |-> Pending])[j] = s[j]
           /\ \A j \in Len(s) + 1 .. Len(s) + n : (s \o [i \in 1 .. n |-> Pending])[j] = Pending
<1>1. [i \in 1 .. n |-> Pending] \in [1 .. n -> Cells]
  BY SomeCells
<1>2. PICK d \in Seq(Cells) : d = [i \in 1 .. n |-> Pending] /\ Len(d) = n
  <2>1. PICK f \in [1 .. n -> Cells] : f = [i \in 1 .. n |-> Pending]
    BY <1>1
  <2>2. f \in Seq(Cells) /\ Len(f) = n
    BY <2>1
  <2> QED
    BY <2>1, <2>2
<1>3. \A j \in 1 .. n : d[j] = Pending
  BY <1>2
<1>4. s \o d \in Seq(Cells) /\ Len(s \o d) = Len(s) + n
  BY <1>2
<1>5. \A j \in 1 .. Len(s) : (s \o d)[j] = s[j]
  OBVIOUS
<1>6. ASSUME NEW j \in Len(s) + 1 .. Len(s) + n PROVE (s \o d)[j] = Pending
  <2>1. j - Len(s) \in 1 .. n /\ j \in 1 .. Len(s) + Len(d)
    BY <1>2
  <2>2. (s \o d)[j] = d[j - Len(s)]
    BY <1>2, <2>1
  <2> QED
    BY <1>3, <2>1, <2>2
<1> QED
  BY <1>2, <1>4, <1>5, <1>6

\* The first block of a list is given back.
LEMMA ShorterList ==
    ASSUME NEW list \in Seq(BlockType), list # <<>>
    PROVE  /\ Tail(list) \in Seq(BlockType) /\ Len(Tail(list)) = Len(list) - 1
           /\ \A i \in 1 .. Len(Tail(list)) : Tail(list)[i] = list[i + 1] /\ i + 1 \in 1 .. Len(list)
  OBVIOUS

\* Extents of what is left behind a write.
LEMMA WriteCounters ==
    ASSUME CountInv, NEW c \in Clients, HasReplies(c), NEW n \in Nat, NEW rest \in Nat,
           n >= 1, n <= rest, rest = Extent(c) - sentlen[c],
           Len(out'[c]) = Len(out[c]) + n, sentlen'[c] = NextSent(c, n),
           NEW list \in Seq(BlockType), list = reply[c],
           IF n < rest THEN bufpos'[c] = bufpos[c] /\ reply'[c] = list
           ELSE IF bufpos[c] > 0 THEN bufpos'[c] = 0 /\ reply'[c] = list
           ELSE bufpos'[c] = bufpos[c] /\ reply'[c] = Tail(list)
    PROVE  /\ Counters(c)'
           /\ \A end \in Int : Gapless(Behind(c), list, end) => Gapless(Behind(c)', reply'[c], end)
<1>1. PICK o \in Nat, b \in Nat, s \in Nat, e \in Nat :
         o = Len(out[c]) /\ b = bufpos[c] /\ s = sentlen[c] /\ e = Extent(c)
  <2>1. Len(out[c]) \in Nat
    BY Known
  <2>2. Extent(c) \in Nat /\ sentlen[c] \in Nat /\ bufpos[c] \in Nat
    BY SourceParts
  <2> QED
    BY <2>1, <2>2
<1>2. s < e /\ e >= 1 /\ s <= o /\ b <= BufSize /\ (b > 0 => e = b)
      /\ (b = 0 => list # <<>> /\ e = list[1].used)
      /\ \A i \in 1 .. Len(list) : list[i].used <= list[i].size
  BY <1>1, SourceParts, Known DEF Counters
<1>3. Behind(c) = o + b - s /\ Behind(c)' = (o + n) + bufpos'[c] - sentlen'[c]
  BY <1>1 DEF Behind
<1>4. CASE n < rest
  <2>1. sentlen'[c] = s + n /\ s + n < e
    BY <1>1, <1>4 DEF NextSent
  <2>2. HasReplies(c)' /\ Extent(c)' = e
    BY <1>1, <1>4 DEF HasReplies, Extent
  <2>3. Counters(c)'
    <3>1. bufpos'[c] = b /\ reply'[c] = list /\ sentlen'[c] = s + n /\ Len(out'[c]) = o + n
      BY <1>1, <1>4, <2>1
    <3>2. s + n <= o + n
      BY <1>2
    <3> QED
      BY <1>2, <2>1, <2>2, <3>1, <3>2 DEF Counters
  <2>4. Behind(c)' = Behind(c)
    <3>1. Behind(c)' = (o + n) + b - (s + n)
      BY <1>1, <1>3, <1>4, <2>1
    <3> QED
      BY <1>3, <3>1
  <2> QED
    BY <1>4, <2>3, <2>4
<1>5. CASE n = rest
  <2>1. sentlen'[c] = 0 /\ n = e - s
    BY <1>1, <1>2, <1>5 DEF NextSent
  <2>2. CASE b > 0
    <3>1. bufpos'[c] = 0 /\ reply'[c] = list
      BY <1>1, <1>5, <2>2
    <3>2. ASSUME HasReplies(c)' PROVE 0 < Extent(c)'
      <4>1. list # <<>>
        BY <3>1, <3>2 DEF HasReplies
      <4>2. Head(list) \in BlockType
        BY <4>1
      <4>3. Extent(c)' = Head(list).used
        BY <3>1 DEF Extent
      <4>4. PICK a \in BlockType : a = Head(list)
        BY <4>2
      <4> QED
        BY <4>3, <4>4, BlockParts
    <3>3. 0 <= BufSize
      BY Constants
    <3>4. 0 <= Len(out'[c])
      BY <1>1
    <3>5. Counters(c)'
      BY <1>2, <2>1, <3>1, <3>2, <3>3, <3>4 DEF Counters
    <3>6. Behind(c)' = Behind(c)
      BY <1>2, <1>3, <2>1, <2>2, <3>1
    <3> QED
      BY <3>1, <3>5, <3>6
  <2>3. CASE b = 0
    <3>0. list # <<>> /\ e = list[1].used
      BY <1>2, <2>3
    <3>1. PICK new \in Seq(BlockType) : new = Tail(list)
      BY <3>0, ShorterList
    <3>2. bufpos'[c] = 0 /\ reply'[c] = new
      BY <1>1, <1>5, <2>3, <3>1
    <3>3. ASSUME NEW i \in 1 .. Len(new) PROVE new[i].used <= new[i].size
      <4>1. new[i] = list[i + 1] /\ i + 1 \in 1 .. Len(list)
        BY <3>0, <3>1, ShorterList
      <4> QED
        BY <1>2, <4>1
    <3>4. ASSUME HasReplies(c)' PROVE 0 < Extent(c)'
      <4>1. new # <<>>
        BY <3>2, <3>4 DEF HasReplies
      <4>2. PICK a \in BlockType : a = Head(new)
        <5>1. Head(new) \in BlockType
          BY <4>1
        <5> QED
          BY <5>1
      <4>3. Extent(c)' = a.used
        BY <3>2, <4>2 DEF Extent
      <4> QED
        BY <4>3, BlockParts
    <3>5. 0 <= BufSize
      BY Constants
    <3>6. 0 <= Len(out'[c])
      BY <1>1
    <3>7. Counters(c)'
      BY <2>1, <3>2, <3>3, <3>4, <3>5, <3>6 DEF Counters
    <3>8. Behind(c)' = Behind(c) + e /\ Behind(c) \in Int
      BY <1>2, <1>3, <2>1, <2>3, <3>2
    <3>9. ASSUME NEW end \in Int, Gapless(Behind(c), list, end)
          PROVE  Gapless(Behind(c)', new, end)
      <4>1. Gapless(Behind(c) + list[1].used, Tail(list), end)
        BY <3>0, <3>8, <3>9, GaplessTail
      <4> QED
        BY <3>0, <3>1, <3>8, <4>1
    <3> QED
      BY <3>2, <3>7, <3>9
  <2> QED
    BY <1>1, <2>2, <2>3
<1> QED
  BY <1>4, <1>5

LEMMA NewSend ==
    ASSUME CountInv, NEW c \in Clients, HasReplies(c), NEW n \in Nat, n >= 1
    PROVE  \E t \in TaskType :
              /\ t = SendTask(c, Source(c), sentlen[c], n) /\ t.op = "send" /\ t \in SendType
              /\ t.conn = c /\ t.place = Len(out[c]) /\ t.n = n
              /\ t.from = Source(c) /\ t.pos = sentlen[c]
<1>1. Source(c) \in Locations /\ sentlen[c] \in Nat
  BY SourceParts
<1>2. PICK o \in Nat : o = Len(out[c])
  <2>1. out[c] \in Seq(Cells)
    BY Known
  <2>2. Len(out[c]) \in Nat
    BY ONLY <2>1
  <2> QED
    BY ONLY <2>2
<1>3. PICK t : t = [op |-> "send", conn |-> c, place |-> o, from |-> Source(c),
                    pos |-> sentlen[c], n |-> n]
  OBVIOUS
<1>4. t = SendTask(c, Source(c), sentlen[c], n)
  BY <1>2, <1>3 DEF SendTask
<1>5. t \in SendType
  BY <1>1, <1>3 DEF SendType
<1>6. t \in TaskType
  BY <1>5 DEF TaskType
<1> QED
  BY <1>2, <1>3, <1>4, <1>5, <1>6

LEMMA WriteCounts ==
    ASSUME CountInv, NEW c \in Clients, WriteToClient(c)
    PROVE  CountInv'
<1>0. /\ Types /\ SendsFit /\ Len(todo) <= 3 /\ tasks \in Seq(TaskType)
      /\ out \in [Clients -> Seq(Cells)] /\ reply \in [Clients -> Seq(BlockType)]
      /\ bufpos \in [Clients -> Nat] /\ sentlen \in [Clients -> Nat]
  BY DEF CountInv, Types
<1>1. PICK n \in Nat, rest \in Nat :
              /\ n >= 1 /\ n <= rest /\ rest = Extent(c) - sentlen[c]
              /\ HasReplies(c)
              /\ tasks' = Append(tasks, SendTask(c, Source(c), sentlen[c], n))
              /\ out' = [out EXCEPT ![c] = @ \o [i \in 1 .. n |-> Pending]]
              /\ sentlen' = [sentlen EXCEPT ![c] = NextSent(c, n)]
              /\ IF n < rest THEN UNCHANGED <<bufpos, reply>>
                 ELSE IF bufpos[c] > 0
                 THEN bufpos' = [bufpos EXCEPT ![c] = 0] /\ UNCHANGED reply
                 ELSE reply' = [reply EXCEPT ![c] = Tail(@)] /\ UNCHANGED bufpos
              /\ UNCHANGED <<db, mem, asked, left, now, todo, phase, pendingWrite, handler,
                             writer, expected, ends>>
  BY WriteDoes
<1>2. PICK s \in Seq(Cells) : s = out[c]
  BY <1>0
<1>3. /\ out' \in [Clients -> Seq(Cells)] /\ Len(out'[c]) = Len(out[c]) + n
      /\ \A x \in Clients : x # c => out'[x] = out[x]
  <2>1. PICK d \in Seq(Cells) : d = s \o [i \in 1 .. n |-> Pending] /\ Len(d) = Len(s) + n
    BY LongerStream
  <2>2. out' = [out EXCEPT ![c] = d]
    BY <1>1, <1>2, <2>1
  <2> QED
    BY <1>0, <1>2, <2>1, <2>2
<1>4. /\ sentlen' \in [Clients -> Nat] /\ sentlen'[c] = NextSent(c, n)
      /\ \A x \in Clients : x # c => sentlen'[x] = sentlen[x]
  <2>1. NextSent(c, n) \in Nat
    BY <1>0 DEF NextSent
  <2> QED
    BY <1>0, <1>1, <2>1
<1>5. PICK list \in Seq(BlockType) : list = reply[c]
  BY <1>0
<1>6. bufpos[c] = 0 => list # <<>> /\ Tail(list) \in Seq(BlockType)
  <2>1. bufpos[c] = 0 => list # <<>>
    BY <1>1, <1>5, SourceParts
  <2> QED
    BY <2>1, ShorterList
<1>7. /\ bufpos' \in [Clients -> Nat] /\ reply' \in [Clients -> Seq(BlockType)]
      /\ \A x \in Clients : x # c => bufpos'[x] = bufpos[x] /\ reply'[x] = reply[x]
      /\ IF n < rest THEN bufpos'[c] = bufpos[c] /\ reply'[c] = list
         ELSE IF bufpos[c] > 0 THEN bufpos'[c] = 0 /\ reply'[c] = list
         ELSE bufpos'[c] = bufpos[c] /\ reply'[c] = Tail(list)
  <2>1. CASE n < rest
    BY <1>0, <1>1, <1>5, <2>1
  <2>2. CASE ~(n < rest) /\ bufpos[c] > 0
    <3>1. bufpos' = [bufpos EXCEPT ![c] = 0] /\ reply' = reply
      BY <1>1, <2>2
    <3> QED
      BY <1>0, <1>5, <2>2, <3>1
  <2>3. CASE ~(n < rest) /\ ~(bufpos[c] > 0)
    <3>1. reply' = [reply EXCEPT ![c] = Tail(list)] /\ bufpos' = bufpos
      BY <1>1, <1>5, <2>3
    <3>2. Tail(list) \in Seq(BlockType)
      <4>1. bufpos[c] = 0
        BY <1>0, <2>3
      <4> QED
        BY <1>6, <4>1
    <3> QED
      BY <1>0, <1>5, <2>3, <3>1, <3>2
  <2> QED
    BY <2>1, <2>2, <2>3
<1>8. tasks' \in Seq(TaskType) /\ SendsFit'
  <2>1. PICK t \in TaskType :
              /\ t = SendTask(c, Source(c), sentlen[c], n)
              /\ t.conn = c /\ t.place = Len(out[c]) /\ t.n = n
    BY <1>1, NewSend
  <2>2. tasks' = Append(tasks, t)
    BY <1>1, <2>1
  <2>3. /\ tasks' \in Seq(TaskType) /\ Len(tasks') = Len(tasks) + 1 /\ tasks'[Len(tasks) + 1] = t
        /\ \A k \in 1 .. Len(tasks) : tasks'[k] = tasks[k]
    BY <1>0, <2>2
  <2> SUFFICES ASSUME NEW k \in 1 .. Len(tasks'), tasks'[k].op = "send"
               PROVE  tasks'[k].place + tasks'[k].n <= Len(out'[tasks'[k].conn])
    BY <2>3 DEF SendsFit
  <2>4. CASE k \in 1 .. Len(tasks)
    <3>1. PICK u \in TaskType : u = tasks[k] /\ u = tasks'[k]
      BY <1>0, <2>3, <2>4
    <3>2. u.place + u.n <= Len(out[u.conn]) /\ u.conn \in Clients /\ u.place \in Nat /\ u.n \in Nat
      BY <1>0, <2>4, <3>1, TaskParts DEF SendsFit
    <3>4. PICK o \in Nat, m \in Nat : o = Len(out[u.conn]) /\ m = Len(out'[u.conn])
      <4>1. out[u.conn] \in Seq(Cells) /\ out'[u.conn] \in Seq(Cells)
        BY <1>0, <1>3, <3>2
      <4>2. Len(out[u.conn]) \in Nat /\ Len(out'[u.conn]) \in Nat
        BY <4>1
      <4> QED
        BY <4>2
    <3>3. o <= m
      <4>1. m = o \/ m = o + n
        BY <1>3, <3>2, <3>4
      <4> QED
        BY <4>1
    <3> QED
      BY <3>1, <3>2, <3>3, <3>4, SMTT(30)
  <2>5. CASE k = Len(tasks) + 1
    BY <1>2, <1>3, <2>1, <2>3, <2>5
  <2> QED
    BY <2>3, <2>4, <2>5
<1>9. Types'
  BY <1>0, <1>1, <1>3, <1>4, <1>7, <1>8 DEF Types
<1>10. ASSUME NEW x \in Clients PROVE Commands(x)' /\ Counters(x)' /\ Places(x)'
  <2>0. Commands(x) /\ Counters(x) /\ Places(x)
    BY DEF CountInv
  <2>1. CASE x # c
    BY <1>1, <1>3, <1>4, <1>7, <2>0, <2>1, ClientSame
  <2>2. CASE x = c
    <3>1. Commands(c)'
      BY <1>1, <2>0, <2>2 DEF Commands
    <3>2. /\ Counters(c)'
          /\ \A end \in Int : Gapless(Behind(c), list, end) => Gapless(Behind(c)', reply'[c], end)
      BY <1>1, <1>3, <1>4, <1>5, <1>7, WriteCounters, ZenonT(30)
    <3>3. Places(c)'
      <4>1. ToAdd' = ToAdd /\ ToAdd \in Nat
        BY <1>0, <1>1, Costs DEF ToAdd, Cost, Types
      <4>2. PICK end \in Int : end = Len(expected[c]) - (IF now = c THEN ToAdd ELSE 0)
        <5>1. PICK e \in Nat, a \in Nat : e = Len(expected[c]) /\ a = IF now = c THEN ToAdd ELSE 0
          <6>1. Len(expected[c]) \in Nat
            BY Known
          <6>2. (IF now = c THEN ToAdd ELSE 0) \in Nat
            BY <4>1
          <6> QED
            BY <6>1, <6>2
        <5>2. e - a \in Int
          BY <5>1
        <5> QED
          BY <5>1, <5>2
      <4>3. c \notin left => Gapless(Behind(c), list, end)
        BY <1>5, <2>0, <2>2, <4>2 DEF Places
      <4>4. c \notin left => Gapless(Behind(c)', reply'[c], end)
        BY <3>2, <4>3
      <4>5. UNCHANGED <<left, now, expected>>
        BY <1>1
      <4> QED
        BY <4>1, <4>2, <4>4, <4>5 DEF Places, Gapless
    <3> QED
      BY <2>2, <3>1, <3>2, <3>3
  <2> QED
    BY <2>1, <2>2
<1> QED
  BY <1>0, <1>1, <1>8, <1>9, <1>10 DEF CountInv

-----------------------------------------------------------------------------
(* The counts are right                                                    *)

LEMMA NextCounts == CountInv /\ [Next]_vars => CountInv'
<1> SUFFICES ASSUME CountInv, [Next]_vars PROVE CountInv'
  OBVIOUS
<1>1. CASE \E c \in Clients : Ask(c) \/ Drain(c)
  BY <1>1, AskCounts, DrainCounts
<1>2. CASE CopierStep
  BY <1>2, CopierCounts
<1>3. CASE Finish
  BY <1>3, FinishCounts
<1>4. CASE AddReply
  BY <1>4, AddCounts
<1>5. CASE BeginWrites \/ EndWrites \/ \E c \in Clients : BeginWriteTo(c) \/ EndWriteTo(c)
  BY <1>5, LoopCounts
<1>6. CASE \E c \in Clients : Execute(c)
  BY <1>6, ExecuteCounts
<1>7. CASE \E c \in Clients : WriteToClient(c)
  BY <1>7, WriteCounts
<1>8. CASE \E c \in Clients : Leave(c)
  BY <1>8, LeaveCounts
<1>9. CASE UNCHANGED vars
  <2>1. UNCHANGED <<db, mem, tasks, asked, left, out, phase, now, todo, bufpos, reply, sentlen,
                    pendingWrite, handler, writer, expected, ends>>
    BY <1>9 DEF vars, clientVars, bufferVars, loopVars, history
  <2>2. Types'
    BY <2>1 DEF CountInv, Types
  <2> QED
    BY <2>1, <2>2, CountSame
<1> QED
  BY <1>1, <1>2, <1>3, <1>4, <1>5, <1>6, <1>7, <1>8, <1>9 DEF Next, Server

LEMMA Counted == Spec => []CountInv
<1>1. Init => CountInv
  BY InitCounts
<1>2. CountInv /\ [Next]_vars => CountInv'
  BY NextCounts
<1> QED
  BY <1>1, <1>2, PTL DEF Spec

\* The variables keep their types: no client sends more than its script, the
\* buffer never holds more than its size, and a block of a list is never empty
\* nor overfull.
THEOREM TypeCorrect == Spec => []TypeOK
<1>1. CountInv => TypeOK
  <2> SUFFICES ASSUME CountInv PROVE TypeOK
    OBVIOUS
  <2>1. Types
    BY DEF CountInv
  <2>2. ASSUME NEW k \in Keys PROVE db[k].block \in Blocks \cup {NoBlock} /\ db[k].value \in Values
    BY <2>1 DEF Types, DbType
  <2>3. ASSUME NEW c \in Clients
        PROVE  /\ asked[c] \in 0 .. Len(Script[c]) /\ bufpos[c] \in 0 .. BufSize
               /\ \A i \in 1 .. Len(reply[c]) :
                    reply[c][i].block \in Blocks /\ reply[c][i].used \in 1 .. reply[c][i].size
    <3>1. asked[c] \in Nat /\ Script[c] \in Seq(Command) /\ bufpos[c] \in Nat /\ BufSize \in Nat
      BY Known, Constants
    <3>2. asked[c] <= Len(Script[c]) /\ bufpos[c] <= BufSize
      BY Known DEF Commands, Counters
    <3>3. ASSUME NEW i \in 1 .. Len(reply[c])
          PROVE  reply[c][i].block \in Blocks /\ reply[c][i].used \in 1 .. reply[c][i].size
      <4>1. PICK a \in BlockType : a = reply[c][i]
        BY Known
      <4>2. a.used <= a.size
        BY <4>1, Known DEF Counters
      <4> QED
        BY <4>1, <4>2, BlockParts
    <3> QED
      BY <3>1, <3>2, <3>3
  <2> QED
    BY <2>1, <2>2, <2>3 DEF TypeOK, Types
<1> QED
  BY <1>1, Counted, PTL

\* What is sent, what waits in the buffer and what waits in the list are the
\* whole reply, place by place, whatever was sent in parts and wherever the
\* pieces went.
THEOREM NothingIsLost == Spec => []NothingLost
<1>1. CountInv => NothingLost
  <2> SUFFICES ASSUME CountInv, NEW c \in Clients, c \notin left, now # c
               PROVE  Gapless(Behind(c), reply[c], Len(expected[c]))
    BY DEF NothingLost
  <2>1. Len(expected[c]) - 0 = Len(expected[c])
    BY Known
  <2> QED
    BY <2>1, Known DEF Places
<1> QED
  BY <1>1, Counted, PTL

-----------------------------------------------------------------------------
(* Values are kept, if clients wait for what they asked for                *)

LEMMA RisingGrown ==
    ASSUME NEW list \in Seq(BlockType), NEW part \in Nat, list = <<>> => part = 0, Rising(list)
    PROVE  Rising(Grown(list, part))
<1>1. PICK new \in Seq(BlockType) : new = Grown(list, part)
  BY GrownParts
<1>2. /\ Len(new) = Len(list)
      /\ \A i \in 1 .. Len(list) :
            /\ new[i].place = list[i].place
            /\ new[i].used = IF i = Len(list) THEN list[i].used + part ELSE list[i].used
  BY <1>1, GrownParts
<1>3. ASSUME NEW i \in 1 .. Len(new), NEW j \in 1 .. Len(new), i < j
      PROVE  new[i].place + new[i].used <= new[j].place
  <2>1. i # Len(list)
    BY <1>2, <1>3
  <2>2. list[i].place + list[i].used <= list[j].place
    BY <1>2, <1>3 DEF Rising
  <2>3. new[i].place = list[i].place /\ new[i].used = list[i].used /\ new[j].place = list[j].place
    BY <1>2, <2>1
  <2> QED
    BY <2>2, <2>3
<1> QED
  BY <1>1, <1>3 DEF Rising

LEMMA RisingAppend ==
    ASSUME NEW list \in Seq(BlockType), NEW b \in BlockType, Rising(list),
           list # <<>> => list[Len(list)].place + list[Len(list)].used <= b.place
    PROVE  Rising(Append(list, b))
<1>1. PICK new : new = Append(list, b)
  OBVIOUS
<1>2. PICK m \in Nat : m = Len(list)
  OBVIOUS
<1>3. Len(new) = m + 1 /\ new[m + 1] = b /\ \A i \in 1 .. m : new[i] = list[i]
  BY <1>1, <1>2
<1>4. ASSUME NEW i \in 1 .. m + 1, NEW j \in 1 .. m + 1, i < j
      PROVE  new[i].place + new[i].used <= new[j].place
  <2>1. i \in 1 .. m /\ new[i] = list[i]
    BY <1>3, <1>4
  <2>2. CASE j \in 1 .. m
    BY <1>2, <1>3, <1>4, <2>1, <2>2 DEF Rising
  <2>3. CASE j = m + 1
    <3>1. PICK z \in BlockType : z = list[m] /\ m \in 1 .. m
      BY <1>2, <2>1
    <3>2. PICK p \in Nat, u \in Nat, q \in Nat : p = z.place /\ u = z.used /\ q = b.place
      BY BlockParts
    <3>3. p + u <= q
      BY <1>2, <2>1, <3>1, <3>2
    <3>4. CASE i = m
      BY <1>3, <2>1, <2>3, <3>1, <3>2, <3>3, <3>4
    <3>5. CASE i # m
      <4>1. i < m
        BY <1>2, <2>1, <3>5
      <4>2. list[i].place + list[i].used <= list[m].place
        BY <1>2, <2>1, <3>1, <4>1 DEF Rising
      <4>3. PICK y \in BlockType : y = list[i]
        BY <1>2, <2>1
      <4>4. PICK v \in Nat, w \in Nat : v = y.place /\ w = y.used
        BY BlockParts
      <4>5. v + w <= p
        BY <3>1, <3>2, <4>2, <4>3, <4>4
      <4>6. v + w <= q
        BY <3>2, <3>3, <4>4, <4>5, SMTT(30)
      <4> QED
        BY <1>3, <2>1, <2>3, <3>2, <4>3, <4>4, <4>6
    <3> QED
      BY <3>4, <3>5
  <2> QED
    BY <2>2, <2>3
<1> QED
  BY <1>1, <1>2, <1>3, <1>4 DEF Rising

LEMMA RisingTail ==
    ASSUME NEW list \in Seq(BlockType), list # <<>>, Rising(list)
    PROVE  Rising(Tail(list))
<1>1. PICK new \in Seq(BlockType) : new = Tail(list)
  BY ShorterList
<1>2. ASSUME NEW i \in 1 .. Len(new), NEW j \in 1 .. Len(new), i < j
      PROVE  new[i].place + new[i].used <= new[j].place
  <2>1. /\ new[i] = list[i + 1] /\ new[j] = list[j + 1]
        /\ i + 1 \in 1 .. Len(list) /\ j + 1 \in 1 .. Len(list) /\ i + 1 < j + 1
    BY <1>1, <1>2, ShorterList
  <2> QED
    BY <2>1 DEF Rising
<1> QED
  BY <1>1, <1>2 DEF Rising

LEMMA GaplessExtent ==
    ASSUME NEW list \in Seq(BlockType), list # <<>>, Rising(list),
           NEW start \in Int, NEW end \in Int, Gapless(start, list, end)
    PROVE  start + list[1].used <= end
<1>1. PICK m \in Nat : m = Len(list) /\ m >= 1 /\ m \in 1 .. m /\ 1 \in 1 .. m
  OBVIOUS
<1>2. PICK a \in BlockType, z \in BlockType : a = list[1] /\ z = list[m]
  BY <1>1
<1>3. PICK p \in Nat, u \in Nat : p = a.place /\ u = a.used
  BY BlockParts
<1>4. PICK q \in Nat, v \in Nat : q = z.place /\ v = z.used
  BY BlockParts
<1>5. p = start /\ q + v = end
  BY <1>1, <1>2, <1>3, <1>4 DEF Gapless
<1>6. m = 1 \/ p + u <= q
  BY <1>1, <1>2, <1>3, <1>4 DEF Rising
<1>7. m = 1 => p = q /\ u = v
  BY <1>2, <1>3, <1>4
<1>8. start + u <= end
  BY <1>5, <1>6, <1>7
<1> QED
  BY <1>2, <1>3, <1>8

\* At most what was executed is answered; when all of it is, all of it was sent,
\* and when all was sent, nothing waits.
LEMMA AnsweredRange ==
    ASSUME CountInv, NEW c \in Clients
    PROVE  /\ Answered(c) \in Nat /\ Answered(c) <= Len(ends[c]) /\ Len(ends[c]) \in Nat
           /\ Answered(c) <= Len(Script[c])
           /\ Answered(c) = Len(ends[c]) => Len(expected[c]) <= Len(out[c])
<1>1. PICK e \in Seq(Nat) : e = ends[c]
  BY Known
<1>2. PICK n \in Nat, a \in Nat, s \in Nat : n = Len(e) /\ a = asked[c] /\ s = Len(Script[c])
  <2>1. Len(e) \in Nat /\ asked[c] \in Nat
    BY Known
  <2>2. Len(Script[c]) \in Nat
    BY Constants
  <2> QED
    BY <2>1, <2>2
<1>3. n <= s
  BY <1>1, <1>2, Known DEF Commands
<1> DEFINE Whole == {i \in 1 .. n : e[i] <= Len(out[c]) /\ \A j \in 1 .. e[i] : out[c][j] # Pending}
<1>4. Answered(c) = Cardinality(Whole)
  BY <1>1, <1>2 DEF Answered
<1>5. /\ Cardinality(Whole) \in Nat /\ Cardinality(Whole) <= n
      /\ Cardinality(Whole) = n => Whole = 1 .. n
  <2>1. IsFiniteSet(1 .. n) /\ Cardinality(1 .. n) = IF 1 > n THEN 0 ELSE n - 1 + 1
    <3>1. 1 \in Int /\ n \in Int
      OBVIOUS
    <3> QED
      BY ONLY <3>1, FS_Interval
  <2>2. Cardinality(1 .. n) = n
    BY <2>1
  <2>3. Whole \in SUBSET (1 .. n)
    OBVIOUS
  <2> HIDE DEF Whole
  <2>4. /\ IsFiniteSet(Whole)
        /\ Cardinality(Whole) <= Cardinality(1 .. n)
        /\ Cardinality(1 .. n) = Cardinality(Whole) => 1 .. n = Whole
    BY <2>1, <2>3, FS_Subset
  <2>5. Cardinality(Whole) \in Nat
    BY <2>4, FS_CardinalityType
  <2> QED
    BY <2>2, <2>4, <2>5
<1>6. Cardinality(Whole) = n => Len(expected[c]) <= Len(out[c])
  <2> SUFFICES ASSUME Whole = 1 .. n PROVE Len(expected[c]) <= Len(out[c])
    BY <1>5
  <2>1. CASE n = 0
    <3>1. Len(expected[c]) = 0
      <4>1. e = <<>>
        <5>1. Len(e) = 0 /\ e \in Seq(Nat)
          BY <1>2, <2>1
        <5> QED
          BY ONLY <5>1
      <4>2. expected[c] = <<>>
        BY <1>1, <4>1, Known DEF Commands
      <4> QED
        BY <4>2
    <3>2. 0 <= Len(out[c])
      BY Known
    <3> QED
      BY <3>1, <3>2
  <2>2. CASE n # 0
    <3>1. n \in 1 .. n
      BY <2>2
    <3>2. n \in Whole
      BY <3>1
    <3>3. e[n] <= Len(out[c])
      BY <3>2
    <3>4. e # <<>>
      BY <1>2, <2>2
    <3>5. e[n] = Len(expected[c])
      BY <1>1, <1>2, <3>4, Known DEF Commands
    <3> QED
      BY <3>3, <3>5
  <2> QED
    BY <2>1, <2>2
<1> HIDE DEF Whole
<1>7. Answered(c) \in Nat /\ Answered(c) <= n /\ Answered(c) <= s
  BY <1>3, <1>4, <1>5
<1>8. Len(ends[c]) = n /\ Len(Script[c]) = s
  BY <1>1, <1>2
<1> QED
  BY <1>4, <1>6, <1>7, <1>8

LEMMA NothingLeft ==
    ASSUME CountInv, NEW c \in Clients, c \notin left, now # c, Rising(reply[c]),
           Len(expected[c]) <= Len(out[c])
    PROVE  bufpos[c] = 0 /\ reply[c] = <<>>
<1>7. PICK o \in Nat, x \in Nat : o = Len(out[c]) /\ x = Len(expected[c]) /\ x <= o
  <2>1. Len(out[c]) \in Nat /\ Len(expected[c]) \in Nat
    BY Known
  <2> QED
    BY <2>1
<1>8. PICK list \in Seq(BlockType), b \in Nat, l \in Nat :
         list = reply[c] /\ b = bufpos[c] /\ l = sentlen[c]
  BY Known
<1>9. Behind(c) = o + b - l /\ o + b - l \in Int
  BY <1>7, <1>8 DEF Behind
<1>10. Gapless(o + b - l, list, x)
  <2>1. Len(expected[c]) - 0 = x
    BY <1>7
  <2> QED
    BY <1>8, <1>9, <2>1, Known DEF Places
<1>11. list = <<>>
  <2> SUFFICES ASSUME list # <<>> PROVE FALSE
    OBVIOUS
  <2>11. (o + b - l) + list[1].used <= x
    <3>1. x \in Int /\ Rising(list)
      BY <1>8
    <3> QED
      BY <1>9, <1>10, <3>1, GaplessExtent
  <2>12. PICK u \in Nat : u = list[1].used /\ u >= 1
    <3>1. PICK z \in BlockType : z = list[1]
      OBVIOUS
    <3> QED
      BY <3>1, BlockParts
  <2>13. HasReplies(c)
    BY <1>8 DEF HasReplies
  <2>14. b > 0 => l < b
    BY <1>8, <2>13, SourceParts
  <2>15. b = 0 => l < u
    BY <1>8, <2>12, <2>13, SourceParts
  <2> QED
    BY <1>7, <2>11, <2>12, <2>14, <2>15
<1>12. b = 0
  <2> SUFFICES ASSUME b > 0 PROVE FALSE
    OBVIOUS
  <2>1. HasReplies(c)
    BY <1>8 DEF HasReplies
  <2>2. l < b
    BY <1>8, <2>1, SourceParts
  <2>3. o + b - l = x
    BY <1>10, <1>11 DEF Gapless
  <2> QED
    BY <1>7, <2>2, <2>3
<1> QED
  BY <1>8, <1>11, <1>12

LEMMA NothingWaits ==
    ASSUME CountInv, NEW c \in Clients, c \notin left, now # c, Rising(reply[c]),
           Answered(c) = Len(Script[c])
    PROVE  reply[c] = <<>>
<1>1. Len(ends[c]) <= Len(Script[c]) /\ Len(Script[c]) \in Nat
  <2>1. Commands(c) /\ asked[c] \in Nat /\ Len(ends[c]) \in Nat /\ Len(Script[c]) \in Nat
    BY Known, Constants
  <2> QED
    BY <2>1 DEF Commands
<1>2. Answered(c) = Len(ends[c])
  BY <1>1, AnsweredRange
<1> QED
  BY <1>2, AnsweredRange, NothingLeft

LEMMA ValueParts ==
    ASSUME ValueInv
    PROVE  /\ CountInv /\ Types /\ Apart /\ CopiesExposed /\ Intact
           /\ Waited => CopiesInside /\ SendIsLast /\ exposed = {}
           /\ \A c \in Clients : Rising(reply[c])
           /\ db \in DbType /\ mem \in [Locations -> Seq(Cells)] /\ tasks \in Seq(TaskType)
           /\ reply \in [Clients -> Seq(BlockType)]
  BY DEF ValueInv, CountInv, Types, Orderly

LEMMA KeyParts ==
    ASSUME db \in DbType, NEW k \in Keys
    PROVE  /\ db[k].value \in Values /\ db[k].block \in Blocks \cup {NoBlock}
           /\ ~Absent(k) <=> db[k].block \in Blocks
           /\ ~Absent(k) <=> Kept(db[k].block)
  BY Constants DEF DbType, Absent, Kept

\* While the server runs no task is a send, and what copies go to is in a list.
LEMMA WhileRunning ==
    ASSUME ValueInv, Waited, Running, NEW k \in 1 .. Len(tasks)
    PROVE  tasks[k].op = "copy" /\ Listed(tasks[k].to) /\ tasks[k].to \in Blocks
<1>1. tasks \in Seq(TaskType) /\ CopiesInside
  BY ValueParts
<1>2. \A j \in 1 .. Len(tasks) : tasks[j].op # "send"
  BY DEF Running, Waited
<1>3. PICK t \in TaskType : t = tasks[k]
  BY <1>1
<1>4. t.op = "copy" /\ t.to \in Blocks
  BY <1>2, <1>3, TaskParts
<1>5. Len(tasks) \in 1 .. Len(tasks)
  BY <1>1
<1>6. Listed(t.to)
  BY <1>1, <1>2, <1>3, <1>4, <1>5 DEF CopiesInside
<1> QED
  BY <1>3, <1>4, <1>6

\* A free block is no value and in no list.
LEMMA FreeParts ==
    ASSUME Types, NEW b \in Free
    PROVE  /\ b \in Blocks /\ b # NoBlock /\ ~Kept(b) /\ ~Listed(b)
           /\ \A k \in Keys : db[k].block # b
<1>1. b \in Blocks /\ \A k \in Keys : db[k].block # b
  BY DEF Free, InUse
<1>2. ~Listed(b)
  <2> SUFFICES ASSUME NEW c \in Clients, NEW i \in 1 .. Len(reply[c]), reply[c][i].block = b
               PROVE  FALSE
    BY DEF Listed
  <2>1. b \in {reply[c][j].block : j \in 1 .. Len(reply[c])}
    OBVIOUS
  <2>2. b \in UNION {{reply[x][j].block : j \in 1 .. Len(reply[x])} : x \in Clients}
    BY <2>1
  <2> QED
    BY <2>2 DEF Free, InUse
<1> QED
  BY <1>1, <1>2, Constants DEF Kept

LEMMA StoredWhole ==
    ASSUME NEW s \in Seq(Cells), NEW v \in Values
    PROVE  /\ Piece(ValueCells(v), 0, ValueLen[v]) = ValueCells(v)
           /\ Piece(Stored(s, 0, ValueCells(v)), 0, ValueLen[v]) = ValueCells(v)
<1>1. PICK n \in Nat, d \in Seq(Cells) : n = ValueLen[v] /\ d = ValueCells(v) /\ Len(d) = n
  <2>1. ValueLen[v] \in Nat /\ ValueCells(v) \in Seq(Cells) /\ Len(ValueCells(v)) = ValueLen[v]
    BY Constants, ValueSeq
  <2> QED
    BY <2>1
<1>2. d = [i \in 1 .. n |-> d[i]]
  BY <1>1 DEF ValueCells
<1>3. ASSUME NEW u \in Seq(Cells), n <= Len(u), \A i \in 1 .. n : u[i] = d[i]
      PROVE  Piece(u, 0, n) = d
  <2>1. \A i \in 1 .. n : (IF 0 + i <= Len(u) THEN u[0 + i] ELSE Junk) = d[i]
    BY <1>3
  <2>2. Piece(u, 0, n) = [i \in 1 .. n |-> d[i]]
    BY <2>1 DEF Piece
  <2> QED
    BY <1>2, <2>2
<1>4. Piece(d, 0, n) = d
  BY <1>1, <1>3
<1>5. PICK u \in Seq(Cells) : u = Stored(s, 0, d)
  BY StoredSeq
<1>6. /\ Len(u) = Larger(Len(s), 0 + Len(d))
      /\ \A i \in 1 .. Larger(Len(s), 0 + Len(d)) :
            u[i] = IF i - 0 \in 1 .. Len(d) THEN d[i - 0] ELSE IF i <= Len(s) THEN s[i] ELSE Junk
  <2>1. PICK p \in Nat : p = 0
    OBVIOUS
  <2>2. /\ Len(Stored(s, p, d)) = Larger(Len(s), p + Len(d))
        /\ \A i \in 1 .. Larger(Len(s), p + Len(d)) :
              Stored(s, p, d)[i] = IF i - p \in 1 .. Len(d) THEN d[i - p]
                                   ELSE IF i <= Len(s) THEN s[i] ELSE Junk
    BY StoredSeq, ZenonT(30)
  <2> QED
    BY <1>5, <2>1, <2>2
<1>7. PICK l \in Nat : l = Larger(Len(s), 0 + Len(d)) /\ n <= l
  <2>1. Larger(Len(s), 0 + Len(d)) \in Nat /\ n <= Larger(Len(s), 0 + Len(d))
    BY <1>1 DEF Larger
  <2> QED
    BY <2>1
<1>8. Piece(u, 0, n) = d
  <2>1. ASSUME NEW i \in 1 .. n PROVE u[i] = d[i]
    <3>1. i \in 1 .. l /\ i - 0 = i
      BY <1>7
    <3> QED
      BY <1>1, <1>6, <1>7, <3>1
  <2> QED
    BY <1>3, <1>6, <1>7, <2>1
<1> QED
  BY <1>1, <1>4, <1>5, <1>8

LEMMA InitValues == Init => ValueInv
<1> SUFFICES ASSUME Init PROVE ValueInv
  OBVIOUS
<1>1. CountInv /\ db \in DbType
  BY InitCounts DEF CountInv, Types
<1>2. /\ tasks = <<>> /\ reply = [c \in Clients |-> <<>>]
  BY DEF Init
<1>3. \A c \in Clients : Rising(reply[c])
  BY <1>2 DEF Rising
<1>4. Apart
  BY <1>2, FirstValues DEF Apart, Listed
<1>5. CopiesExposed /\ Orderly
  BY <1>2 DEF Init, CopiesExposed, Orderly, CopiesInside, SendIsLast
<1>6. Intact
  <2> SUFFICES ASSUME NEW k \in Keys
               PROVE  Piece(mem[db[k].block], 0, ValueLen[db[k].value]) = ValueCells(db[k].value)
    BY DEF Intact
  <2>1. mem[db[k].block] = ValueCells(db[k].value)
    BY FirstMemory
  <2>2. db[k].value \in Values
    BY <1>1, KeyParts
  <2>3. <<>> \in Seq(Cells)
    OBVIOUS
  <2> QED
    BY <2>1, <2>2, <2>3, StoredWhole
<1> QED
  BY <1>1, <1>3, <1>4, <1>5, <1>6 DEF ValueInv

LEMMA ValuesSame ==
    ASSUME ValueInv, CountInv', Waited' => Waited, UNCHANGED <<db, mem, tasks, reply, exposed>>
    PROVE  ValueInv'
<1>1. \A b : Listed(b)' <=> Listed(b)
  BY DEF Listed
<1>2. \A b : Kept(b)' <=> Kept(b)
  BY DEF Kept
<1>3. \A k \in Keys : Absent(k)' <=> Absent(k)
  BY DEF Absent
<1>4. Apart'
  BY <1>1, <1>2, <1>3, ValueParts DEF Apart
<1>5. CopiesExposed' /\ Intact'
  BY <1>2, <1>3, ValueParts DEF CopiesExposed, Intact
<1>6. Waited' => Orderly'
  BY <1>1, <1>2, ValueParts DEF Orderly, CopiesInside, SendIsLast
<1>7. \A c \in Clients : Rising(reply[c])'
  BY ValueParts DEF Rising
<1> QED
  BY <1>4, <1>5, <1>6, <1>7 DEF ValueInv

\* What is in the memory of a value stays, and so does the value.
LEMMA MemoryKept ==
    ASSUME ValueInv, UNCHANGED <<db, exposed>>,
           \A b \in Blocks : Kept(b) /\ b \notin exposed => mem'[b] = mem[b]
    PROVE  Intact'
<1> SUFFICES ASSUME NEW k \in Keys, ~Absent(k), db[k].block \notin exposed
             PROVE  Piece(mem'[db[k].block], 0, ValueLen[db[k].value]) = ValueCells(db[k].value)
  BY DEF Intact, Absent
<1>1. db[k].block \in Blocks /\ Kept(db[k].block)
  BY ValueParts, KeyParts
<1>2. mem'[db[k].block] = mem[db[k].block]
  BY <1>1
<1> QED
  BY <1>2, ValueParts DEF Intact

LEMMA CopierValues ==
    ASSUME ValueInv, CopierStep, Waited' => Waited
    PROVE  ValueInv'
<1>0. Types /\ CopiesExposed /\ (Waited => Orderly) /\ mem \in [Locations -> Seq(Cells)] /\ tasks \in Seq(TaskType)
  BY ValueParts DEF Orderly
<1>1. PICK t \in TaskType, cells \in Seq(Cells) :
              /\ Len(tasks) \in Nat \ {0} /\ t = tasks[1]
              /\ tasks' \in Seq(TaskType) /\ Len(tasks') = Len(tasks) - 1
              /\ \A i \in 1 .. Len(tasks') : tasks'[i] = tasks[i + 1]
              /\ t.op = "copy" => mem' = [mem EXCEPT ![t.to] = Stored(@, 0, cells)]
              /\ t.op = "send" => mem' = mem
  BY <1>0, CopierDoes
<1>2. PICK m \in Nat : m = Len(tasks) /\ m >= 1 /\ m - 1 = Len(tasks')
  BY <1>1
<1>3. UNCHANGED <<db, reply, exposed>>
  BY DEF CopierStep, bufferVars, history
<1>4. \A b : (Listed(b)' <=> Listed(b)) /\ (Kept(b)' <=> Kept(b))
  BY <1>3 DEF Listed, Kept
<1>5. Intact'
  <2>1. ASSUME NEW b \in Blocks, Kept(b), b \notin exposed PROVE mem'[b] = mem[b]
    <3>1. CASE t.op = "copy"
      <4>1. (Kept(t.to) => t.to \in exposed) /\ t.to \in Locations /\ b \in Locations
        <5>1. 1 \in 1 .. Len(tasks)
          BY <1>2
        <5> QED
          BY <1>0, <1>1, <3>1, <5>1, TaskParts, Locate DEF CopiesExposed
      <4>2. b # t.to
        BY <2>1, <4>1
      <4> QED
        BY <1>0, <1>1, <3>1, <4>1, <4>2
    <3>2. CASE t.op = "send"
      BY <1>1, <3>2
    <3> QED
      BY <3>1, <3>2, TaskParts
  <2> QED
    BY <1>3, <2>1, MemoryKept
<1>6. CopiesExposed'
  <2> SUFFICES ASSUME NEW k \in 1 .. m - 1, tasks'[k].op = "copy", Kept(tasks'[k].to)
               PROVE  tasks'[k].to \in exposed
    BY <1>2, <1>3, <1>4 DEF CopiesExposed
  <2>1. k + 1 \in 1 .. m /\ tasks'[k] = tasks[k + 1]
    BY <1>1, <1>2
  <2> QED
    BY <1>0, <1>2, <2>1 DEF CopiesExposed
<1>7. Waited' => Orderly'
  <2> SUFFICES ASSUME Waited PROVE CopiesInside' /\ SendIsLast' /\ exposed' = {}
    BY DEF Orderly
  <2>1. CopiesInside /\ SendIsLast /\ exposed = {}
    BY <1>0 DEF Orderly
  <2>2. CopiesInside'
    <3> SUFFICES ASSUME NEW k \in 1 .. m - 1, tasks'[k].op = "copy"
                 PROVE  /\ ~Kept(tasks'[k].to)
                        /\ Listed(tasks'[k].to) \/ tasks'[m - 1].op = "send"
      BY <1>2, <1>4 DEF CopiesInside
    <3>1. k + 1 \in 1 .. m /\ m - 1 \in 1 .. m - 1 /\ m - 1 + 1 = m
      BY <1>2
    <3>2. tasks'[k] = tasks[k + 1] /\ tasks'[m - 1] = tasks[m]
      BY <1>1, <1>2, <3>1
    <3> QED
      BY <1>2, <2>1, <3>1, <3>2 DEF CopiesInside
  <2>3. SendIsLast'
    <3> SUFFICES ASSUME NEW k \in 1 .. m - 1, tasks'[k].op = "send" PROVE k = m - 1
      BY <1>2 DEF SendIsLast
    <3>1. k + 1 \in 1 .. m /\ tasks'[k] = tasks[k + 1]
      BY <1>1, <1>2
    <3>2. k + 1 = m
      BY <1>2, <2>1, <3>1 DEF SendIsLast
    <3> QED
      BY <1>2, <3>2
  <2> QED
    BY <1>3, <2>1, <2>2, <2>3
<1>8. Apart'
  <2>1. \A k \in Keys : Absent(k)' <=> Absent(k)
    BY <1>3 DEF Absent
  <2> QED
    BY <1>3, <1>4, <2>1, ValueParts DEF Apart
<1>9. CountInv' /\ \A c \in Clients : Rising(reply[c])'
  BY <1>3, CopierCounts, ValueParts DEF Rising
<1> QED
  BY <1>5, <1>6, <1>7, <1>8, <1>9 DEF ValueInv

LEMMA ExecuteValues ==
    ASSUME ValueInv, Waited' => Waited, NEW c \in Clients, Execute(c)
    PROVE  ValueInv'
<1>0. /\ CountInv /\ Types /\ Apart /\ CopiesExposed /\ Intact
      /\ db \in DbType /\ mem \in [Locations -> Seq(Cells)]
  BY ValueParts
<1>1. CountInv'
  BY <1>0, ExecuteCounts
<1>2. PICK cmd \in Command :
              /\ Running
              /\ IF cmd.op = "set"
                 THEN \E b \in Free :
                     /\ db' = [db EXCEPT ![cmd.key] = [block |-> b, value |-> cmd.value]]
                     /\ mem' = [mem EXCEPT ![b] = Stored(@, 0, ValueCells(cmd.value))]
                     /\ exposed' = IF CopyWaits(b) THEN exposed \cup {b} ELSE exposed \ {b}
                 ELSE UNCHANGED <<db, mem, exposed>>
              /\ UNCHANGED <<tasks, reply>>
  BY <1>0, NextCommand
<1>3. CASE cmd.op # "set"
  BY <1>1, <1>2, <1>3, ValuesSame
<1>4. CASE cmd.op = "set"
  <2>1. PICK b \in Free :
                     /\ db' = [db EXCEPT ![cmd.key] = [block |-> b, value |-> cmd.value]]
                     /\ mem' = [mem EXCEPT ![b] = Stored(@, 0, ValueCells(cmd.value))]
                     /\ exposed' = IF CopyWaits(b) THEN exposed \cup {b} ELSE exposed \ {b}
    BY <1>2, <1>4
  <2>2. PICK key \in Keys, v \in Values : key = cmd.key /\ v = cmd.value
    BY <1>4, CommandParts
  <2>3. b \in Blocks /\ b # NoBlock /\ ~Kept(b) /\ ~Listed(b) /\ \A k \in Keys : db[k].block # b
    BY <1>0, FreeParts
  <2>4. /\ db'[key].block = b /\ db'[key].value = v
        /\ \A k \in Keys : k # key => db'[k] = db[k]
    BY <1>0, <2>1, <2>2 DEF DbType
  <2>5. mem'[b] = Stored(mem[b], 0, ValueCells(v)) /\ mem[b] \in Seq(Cells)
        /\ \A x \in Locations : x # b => mem'[x] = mem[x]
    BY <1>0, <2>1, <2>2, <2>3, Locate
  <2>6. \A x : Listed(x)' <=> Listed(x)
    BY <1>2 DEF Listed
  <2>7. ASSUME NEW x, Kept(x)' PROVE x = b \/ Kept(x)
    BY <2>4, <2>7 DEF Kept
  <2>8. Intact'
    <3> SUFFICES ASSUME NEW k \in Keys, db'[k].block # NoBlock, db'[k].block \notin exposed'
                 PROVE  Piece(mem'[db'[k].block], 0, ValueLen[db'[k].value]) = ValueCells(db'[k].value)
      BY DEF Intact, Absent
    <3>1. CASE k = key
      <4>1. Piece(Stored(mem[b], 0, ValueCells(v)), 0, ValueLen[v]) = ValueCells(v)
        BY <2>5, StoredWhole
      <4> QED
        BY <2>4, <2>5, <3>1, <4>1
    <3>2. CASE k # key
      <4>1. db'[k] = db[k] /\ ~Absent(k)
        BY <2>4, <3>2 DEF Absent
      <4>2. db[k].block \in Locations /\ db[k].block # b
        BY <1>0, <2>3, <4>1, KeyParts, Locate
      <4>3. mem'[db[k].block] = mem[db[k].block] /\ db[k].block \notin exposed
        BY <2>1, <2>5, <4>1, <4>2
      <4> QED
        BY <1>0, <4>1, <4>3 DEF Intact
    <3> QED
      BY <3>1, <3>2
  <2>9. Apart'
    <3>1. ASSUME NEW k \in Keys, NEW l \in Keys, k # l, db'[k].block # NoBlock
          PROVE  db'[k].block # db'[l].block
      <4>1. CASE k = key
        BY <2>3, <2>4, <3>1, <4>1
      <4>2. CASE l = key
        BY <2>3, <2>4, <3>1, <4>2
      <4>3. CASE k # key /\ l # key
        BY <1>0, <2>4, <3>1, <4>3 DEF Apart, Absent
      <4> QED
        BY <4>1, <4>2, <4>3
    <3>2. ASSUME NEW x \in Blocks, Listed(x)' PROVE ~Kept(x)'
      BY <1>0, <2>3, <2>6, <2>7, <3>2 DEF Apart
    <3> QED
      BY <3>1, <3>2 DEF Apart, Absent
  <2>10. CopiesExposed'
    <3> SUFFICES ASSUME NEW k \in 1 .. Len(tasks), tasks[k].op = "copy", Kept(tasks[k].to)'
                 PROVE  tasks[k].to \in exposed'
      BY <1>2 DEF CopiesExposed
    <3>1. PICK x : x = tasks[k].to
      OBVIOUS
    <3>2. Kept(x)'
      BY <1>2, <3>1 DEF Kept
    <3>3. CASE x = b
      BY <2>1, <3>1, <3>3 DEF CopyWaits
    <3>4. CASE x # b
      <4>1. x \in exposed
        BY <1>0, <2>7, <3>1, <3>2, <3>4 DEF CopiesExposed
      <4> QED
        BY <2>1, <3>1, <3>4, <4>1
    <3> QED
      BY <3>3, <3>4
  <2>11. Waited' => Orderly'
    <3> SUFFICES ASSUME Waited PROVE CopiesInside' /\ SendIsLast' /\ exposed' = {}
      BY DEF Orderly
    <3>1. ASSUME NEW k \in 1 .. Len(tasks)
          PROVE  /\ tasks[k].op = "copy" /\ Listed(tasks[k].to) /\ tasks[k].to # b
                 /\ ~Kept(tasks[k].to)
      <4>1. tasks[k].op = "copy" /\ Listed(tasks[k].to) /\ tasks[k].to \in Blocks
        BY <1>2, WhileRunning
      <4> QED
        BY <1>0, <2>3, <4>1 DEF Apart
    <3>2. CopiesInside'
      <4> SUFFICES ASSUME NEW k \in 1 .. Len(tasks) PROVE ~Kept(tasks[k].to)' /\ Listed(tasks[k].to)'
        BY <1>2 DEF CopiesInside
      <4> QED
        BY <1>2, <2>6, <2>7, <3>1
    <3>3. SendIsLast'
      BY <1>2, <3>1 DEF SendIsLast
    <3>4. ~CopyWaits(b)
      BY <3>1 DEF CopyWaits
    <3>5. exposed = {}
      BY ValueParts
    <3> QED
      BY <2>1, <3>2, <3>3, <3>4, <3>5
  <2>12. \A x \in Clients : Rising(reply[x])'
    BY <1>2, ValueParts DEF Rising
  <2> QED
    BY <1>1, <2>8, <2>9, <2>10, <2>11, <2>12 DEF ValueInv
<1> QED
  BY <1>3, <1>4

LEMMA FinishValues ==
    ASSUME ValueInv, Waited' => Waited, Finish
    PROVE  ValueInv'
<1>0. /\ CountInv /\ Types /\ Apart /\ CopiesExposed /\ Intact /\ db \in DbType
  BY ValueParts
<1>1. CountInv'
  BY <1>0, FinishCounts
<1>2. UNCHANGED <<mem, tasks, reply, exposed>>
  BY DEF Finish, bufferVars, history
<1>3. \A k \in Keys : db'[k].block = NoBlock \/ db'[k] = db[k]
  <2>1. db' = db \/ \E key : db' = [db EXCEPT ![key].block = NoBlock]
    BY DEF Finish
  <2> QED
    BY <1>0, <2>1 DEF DbType
<1>4. \A x : (Listed(x)' <=> Listed(x)) /\ (Kept(x)' => Kept(x))
  BY <1>2, <1>3 DEF Listed, Kept
<1>5. Intact'
  <2> SUFFICES ASSUME NEW k \in Keys, db'[k].block # NoBlock, db'[k].block \notin exposed
               PROVE  Piece(mem'[db'[k].block], 0, ValueLen[db'[k].value]) = ValueCells(db'[k].value)
    BY <1>2 DEF Intact, Absent
  <2>1. db'[k] = db[k] /\ ~Absent(k)
    BY <1>3 DEF Absent
  <2> QED
    BY <1>0, <1>2, <2>1 DEF Intact
<1>6. Apart'
  <2>1. ASSUME NEW k \in Keys, NEW l \in Keys, k # l, db'[k].block # NoBlock
        PROVE  db'[k].block # db'[l].block
    <3>1. db'[k] = db[k] /\ ~Absent(k)
      BY <1>3, <2>1 DEF Absent
    <3>2. db'[l].block = NoBlock \/ db'[l] = db[l]
      BY <1>3
    <3> QED
      BY <1>0, <2>1, <3>1, <3>2 DEF Apart
  <2> QED
    BY <1>0, <1>4, <2>1 DEF Apart, Absent
<1>7. CopiesExposed'
  BY <1>0, <1>2, <1>4 DEF CopiesExposed
<1>9. Waited' => Orderly'
  BY <1>2, <1>4, ValueParts DEF Orderly, CopiesInside, SendIsLast
<1>8. \A x \in Clients : Rising(reply[x])'
  BY <1>2, ValueParts DEF Rising
<1> QED
  BY <1>1, <1>5, <1>6, <1>7, <1>8, <1>9 DEF ValueInv

\* No value is where a piece is added.
LEMMA AddKeeps ==
    ASSUME ValueInv, NEW c \in Clients, NEW piece \in PieceType, NEW n \in Nat, NEW cells,
           NEW memory \in [Locations -> Seq(Cells)], memory = Composed(piece),
           ToBuffer(c, n, memory, cells) \/ ToLast(c, n, memory, cells),
           NEW b \in Blocks, Kept(b)
    PROVE  mem'[b] = mem[b]
<1>0. Types /\ Apart /\ reply \in [Clients -> Seq(BlockType)]
  BY ValueParts
<1>1. b \in Locations /\ b # Stack /\ b # Static(c) /\ ~Listed(b)
  BY <1>0, Locate DEF Apart
<1>2. memory[b] = mem[b]
  BY <1>0, <1>1, ComposedMemory
<1>3. CASE ToBuffer(c, n, memory, cells)
  BY <1>1, <1>2, <1>3 DEF ToBuffer
<1>4. CASE ToLast(c, n, memory, cells)
  <2>1. PICK list \in Seq(BlockType) : list = reply[c]
    BY <1>0
  <2>2. CASE list = <<>>
    BY <1>2, <1>4, <2>1, <2>2 DEF ToLast
  <2>3. CASE list # <<>>
    <3>1. PICK x : x = list[Len(list)].block
      OBVIOUS
    <3>2. Len(list) \in 1 .. Len(list)
      BY <2>3
    <3>3. Listed(x)
      BY <2>1, <3>1, <3>2 DEF Listed
    <3>4. b # x
      BY <1>1, <3>3
    <3>5. mem' = [memory EXCEPT ![x] = Stored(@, list[Len(list)].used, SubSeq(cells, 1, n))]
      BY <1>4, <2>1, <2>3, <3>1 DEF ToLast
    <3> QED
      BY <1>1, <1>2, <3>4, <3>5
  <2> QED
    BY <2>2, <2>3
<1> QED
  BY <1>3, <1>4

\* The lists keep their blocks, and one that was free may come to them.
LEMMA MoreListed ==
    ASSUME ValueInv, Waited' => Waited, Running, NEW b, b \notin Blocks \/ ~Kept(b), CountInv',
           UNCHANGED <<db, exposed>>,
           \A x \in Blocks : Kept(x) => mem'[x] = mem[x],
           \A x : Listed(x) => Listed(x)', \A x : Listed(x)' => Listed(x) \/ x = b,
           \A c \in Clients : Rising(reply[c])',
           \/ tasks' = tasks
           \/ \E t \in CopyType : t.to = b /\ Listed(b)' /\ tasks' = Append(tasks, t)
    PROVE  ValueInv'
<1>0. Apart /\ tasks \in Seq(TaskType)
  BY ValueParts
<1>1. \A x : Kept(x)' <=> Kept(x)
  BY DEF Kept
<1>2. Intact'
  BY MemoryKept
<1>3. Apart'
  <2>1. \A k \in Keys : Absent(k)' <=> Absent(k)
    BY DEF Absent
  <2> QED
    BY <1>0, <1>1, <2>1 DEF Apart
<1>c. CopiesExposed'
  <2>1. CASE tasks' = tasks
    BY <1>1, <2>1, ValueParts DEF CopiesExposed
  <2>2. CASE \E t \in CopyType : t.to = b /\ Listed(b)' /\ tasks' = Append(tasks, t)
    <3>1. PICK t \in CopyType : t.to = b /\ tasks' = Append(tasks, t)
      BY <2>2
    <3>2. t.to \in Blocks /\ t \in TaskType
      BY DEF CopyType, TaskType
    <3>3. ~Kept(t.to)
      BY <3>1, <3>2
    <3>4. /\ Len(tasks') = Len(tasks) + 1 /\ Len(tasks) \in Nat /\ tasks'[Len(tasks) + 1] = t
          /\ \A k \in 1 .. Len(tasks) : tasks'[k] = tasks[k]
      BY <1>0, <3>1, <3>2
    <3>5. \A k \in 1 .. Len(tasks') : k \in 1 .. Len(tasks) \/ k = Len(tasks) + 1
      BY <3>4
    <3> QED
      BY <1>1, <3>3, <3>4, <3>5, ValueParts DEF CopiesExposed
  <2> QED
    BY <2>1, <2>2
<1>4. Waited => \A k \in 1 .. Len(tasks) :
         tasks[k].op = "copy" /\ Listed(tasks[k].to) /\ tasks[k].to \in Blocks
  BY WhileRunning
<1>5. ASSUME Waited, NEW k \in 1 .. Len(tasks')
      PROVE  tasks'[k].op = "copy" /\ \E x \in Blocks : x = tasks'[k].to /\ Listed(x)'
  <2>1. CASE tasks' = tasks
    <3>1. PICK x \in Blocks : x = tasks[k].to /\ Listed(x) /\ tasks[k].op = "copy"
      BY <1>4, <1>5, <2>1
    <3> QED
      BY <2>1, <3>1
  <2>2. CASE \E t \in CopyType : t.to = b /\ Listed(b)' /\ tasks' = Append(tasks, t)
    <3>1. PICK t \in CopyType : t.to = b /\ Listed(b)' /\ tasks' = Append(tasks, t)
      BY <2>2
    <3>2. t.op = "copy" /\ t.to \in Blocks /\ t \in TaskType
      BY DEF CopyType, TaskType
    <3>3. CASE k \in 1 .. Len(tasks)
      <4>1. tasks'[k] = tasks[k]
        BY <1>0, <3>1, <3>2, <3>3
      <4>2. PICK x \in Blocks : x = tasks[k].to /\ Listed(x) /\ tasks[k].op = "copy"
        BY <1>4, <1>5, <3>3
      <4> QED
        BY <4>1, <4>2
    <3>4. CASE k = Len(tasks) + 1
      <4>1. tasks'[k] = t
        BY <1>0, <3>1, <3>2, <3>4
      <4> QED
        BY <3>1, <3>2, <4>1
    <3>5. Len(tasks') = Len(tasks) + 1 /\ Len(tasks) \in Nat
      BY <1>0, <3>1, <3>2
    <3> QED
      BY <3>3, <3>4, <3>5
  <2> QED
    BY <2>1, <2>2
<1>6. Waited' => Orderly'
  <2> SUFFICES ASSUME Waited PROVE CopiesInside' /\ SendIsLast' /\ exposed' = {}
    BY DEF Orderly
  <2>1. CopiesInside'
    <3> SUFFICES ASSUME NEW k \in 1 .. Len(tasks') PROVE (~Kept(tasks[k].to) /\ Listed(tasks[k].to))'
      BY DEF CopiesInside
    <3>1. PICK x \in Blocks : x = tasks'[k].to /\ Listed(x)'
      BY <1>5
    <3>2. ~Kept(x)'
      BY <1>3, <3>1 DEF Apart
    <3> QED
      BY <3>1, <3>2 DEF Listed, Kept
  <2>2. SendIsLast'
    BY <1>5 DEF SendIsLast
  <2>3. exposed = {}
    BY ValueParts
  <2> QED
    BY <2>1, <2>2, <2>3
<1> QED
  BY <1>2, <1>3, <1>c, <1>6 DEF ValueInv

LEMMA AddValues ==
    ASSUME ValueInv, Waited' => Waited, AddReply
    PROVE  ValueInv'
<1>0. CountInv /\ Types /\ reply \in [Clients -> Seq(BlockType)] /\ \A x \in Clients : Rising(reply[x])
  BY ValueParts
<1>1. CountInv' /\ exposed' = exposed
  BY <1>0, AddCounts DEF AddReply, history
<1>2. PICK c \in Clients, piece \in PieceType, cells \in Seq(Cells),
           memory \in [Locations -> Seq(Cells)] :
              /\ Running /\ c = now /\ memory = Composed(piece)
              /\ db' = db
              /\ \/ ToBuffer(c, piece.n, memory, cells)
                 \/ /\ ToLast(c, piece.n, memory, cells)
                    /\ reply' = [reply EXCEPT ![c] = Grown(@, piece.n)]
                    /\ UNCHANGED <<bufpos, tasks>>
                 \/ \E b \in Free, part \in Nat :
                    /\ part < piece.n
                    /\ ToLast(c, part, memory, cells) /\ ToNew(c, piece, part, b)
                    /\ UNCHANGED bufpos
  <2>1. PICK c \in Clients, piece \in PieceType, cells \in Seq(Cells),
             memory \in [Locations -> Seq(Cells)] :
                /\ Running /\ c = now /\ todo # <<>> /\ piece = todo[1] /\ todo' = Tail(todo)
                /\ memory = Composed(piece)
                /\ cells = Piece(memory[piece.from], 0, piece.n) /\ Len(cells) = piece.n
                /\ UNCHANGED <<db, asked, left, out, phase, now, sentlen,
                               pendingWrite, handler, writer, expected, ends>>
                /\ \/ ToBuffer(c, piece.n, memory, cells)
                   \/ /\ ToLast(c, piece.n, memory, cells)
                      /\ reply' = [reply EXCEPT ![c] = Grown(@, piece.n)]
                      /\ UNCHANGED <<bufpos, tasks>>
                   \/ \E b \in Free, part \in Nat :
                      /\ part < piece.n
                      /\ ToLast(c, part, memory, cells) /\ ToNew(c, piece, part, b)
                      /\ UNCHANGED bufpos
    BY <1>0, AddDoes
  <2> QED
    BY <2>1
<1>3. PICK n \in Nat, list \in Seq(BlockType) : n = piece.n /\ list = reply[c]
  BY <1>0, PieceParts
<1>4. CASE ToBuffer(c, n, memory, cells)
  <2>1. \A x \in Blocks : Kept(x) => mem'[x] = mem[x]
    BY <1>2, <1>4, AddKeeps
  <2>2. tasks' = tasks /\ reply' = reply
    BY <1>4 DEF ToBuffer
  <2>3. \A x : Listed(x)' <=> Listed(x)
    BY <2>2 DEF Listed
  <2>4. \A x \in Clients : Rising(reply[x])'
    BY <1>0, <2>2 DEF Rising
  <2>5. PICK b : b \notin Blocks
    BY Constants
  <2> QED
    BY <1>1, <1>2, <2>1, <2>2, <2>3, <2>4, <2>5, MoreListed
<1>5. CASE /\ ToLast(c, n, memory, cells)
           /\ reply' = [reply EXCEPT ![c] = Grown(@, n)]
           /\ UNCHANGED <<bufpos, tasks>>
  <2>1. \A x \in Blocks : Kept(x) => mem'[x] = mem[x]
    BY <1>2, <1>5, AddKeeps
  <2>2. list = <<>> => n = 0
    BY <1>3, <1>5 DEF ToLast
  <2>3. PICK new \in Seq(BlockType) : new = Grown(list, n)
    BY <2>2, GrownParts
  <2>4. Len(new) = Len(list) /\ \A i \in 1 .. Len(list) : new[i].block = list[i].block
    BY <2>2, <2>3, GrownParts
  <2>5. reply'[c] = new /\ \A x \in Clients : x # c => reply'[x] = reply[x]
    BY <1>0, <1>3, <1>5, <2>3
  <2>6. \A x : Listed(x)' <=> Listed(x)
    <3>1. ASSUME NEW x, NEW y \in Clients
          PROVE  (\E i \in 1 .. Len(reply'[y]) : reply'[y][i].block = x)
                   <=> \E i \in 1 .. Len(reply[y]) : reply[y][i].block = x
      <4>1. CASE y = c
        BY <1>3, <2>4, <2>5, <4>1
      <4>2. CASE y # c
        BY <2>5, <4>2
      <4> QED
        BY <4>1, <4>2
    <3> QED
      BY <3>1 DEF Listed
  <2>7. ASSUME NEW x \in Clients PROVE Rising(reply[x])'
    <3>1. CASE x = c
      <4>1. Rising(new)
        BY <1>0, <1>3, <2>2, <2>3, RisingGrown
      <4> QED
        BY <2>5, <3>1, <4>1 DEF Rising
    <3>2. CASE x # c
      BY <1>0, <2>5, <3>2 DEF Rising
    <3> QED
      BY <3>1, <3>2
  <2>8. PICK b : b \notin Blocks
    BY Constants
  <2> QED
    BY <1>1, <1>2, <1>5, <2>1, <2>6, <2>7, <2>8, MoreListed
<1>6. CASE \E b \in Free, part \in Nat :
              /\ part < piece.n
              /\ ToLast(c, part, memory, cells) /\ ToNew(c, piece, part, b)
  <2>1. PICK b \in Free, part \in Nat :
              part < piece.n /\ ToLast(c, part, memory, cells) /\ ToNew(c, piece, part, b)
    BY <1>6
  <2>2. b \in Blocks /\ ~Kept(b)
    BY <1>0, FreeParts
  <2>3. \A x \in Blocks : Kept(x) => mem'[x] = mem[x]
    BY <1>2, <2>1, AddKeeps
  <2>4. PICK new \in Seq(BlockType), z \in BlockType :
              /\ z = NewBlock(b, part, piece.n)
              /\ new = Append(Grown(reply[c], part), z) /\ new # <<>>
              /\ reply' = [reply EXCEPT ![c] = new]
              /\ reply' \in [Clients -> Seq(BlockType)] /\ reply'[c] = new
              /\ \A x \in Clients : x # c => reply'[x] = reply[x]
              /\ Len(new) = Len(reply[c]) + 1 /\ new[Len(new)] = z
              /\ \A i \in 1 .. Len(reply[c]) :
                    /\ new[i].block = reply[c][i].block
                    /\ new[i].place = reply[c][i].place
                    /\ new[i].size = reply[c][i].size
                    /\ new[i].used = IF i = Len(reply[c]) THEN reply[c][i].used + part
                                     ELSE reply[c][i].used
    BY <1>0, <1>2, <2>1, <2>2, NewList
  <2>5. z.block = b /\ z.place = AddedSoFar(c) + part
    BY <1>0, <1>2, <1>3, <2>1, <2>2, <2>4, NewBlockParts
  <2>6. /\ Len(new) = Len(list) + 1 /\ new[Len(list) + 1].block = b
        /\ \A i \in 1 .. Len(list) : new[i].block = list[i].block
    BY <1>3, <2>4, <2>5
  <2>7. \A x : (Listed(x) => Listed(x)') /\ (Listed(x)' => Listed(x) \/ x = b)
    <3>1. ASSUME NEW x, Listed(x) PROVE Listed(x)'
      <4>1. PICK y \in Clients : \E i \in 1 .. Len(reply[y]) : reply[y][i].block = x
        BY <3>1 DEF Listed
      <4>4. PICK i \in 1 .. Len(reply[y]) : reply[y][i].block = x
        BY <4>1
      <4>2. CASE y = c
        <5>1. i \in 1 .. Len(reply'[c]) /\ reply'[c][i].block = x
          BY <1>3, <2>4, <2>6, <4>4, <4>2
        <5> QED
          BY <5>1 DEF Listed
      <4>3. CASE y # c
        BY <2>4, <4>4, <4>3 DEF Listed
      <4> QED
        BY <4>2, <4>3
    <3>2. ASSUME NEW x, Listed(x)' PROVE Listed(x) \/ x = b
      <4>1. PICK y \in Clients : \E i \in 1 .. Len(reply'[y]) : reply'[y][i].block = x
        BY <3>2 DEF Listed
      <4>4. PICK i \in 1 .. Len(reply'[y]) : reply'[y][i].block = x
        BY <4>1
      <4>2. CASE y = c
        <5>1. i \in 1 .. Len(list) \/ i = Len(list) + 1
          BY <2>4, <2>6, <4>4, <4>2
        <5>2. i \in 1 .. Len(list) => list[i].block = x
          BY <2>4, <2>6, <4>4, <4>2
        <5>3. i = Len(list) + 1 => x = b
          BY <2>4, <2>6, <4>4, <4>2
        <5> QED
          BY <1>3, <5>1, <5>2, <5>3 DEF Listed
      <4>3. CASE y # c
        BY <2>4, <4>4, <4>3 DEF Listed
      <4> QED
        BY <4>2, <4>3
    <3> QED
      BY <3>1, <3>2
  <2>8. ASSUME NEW x \in Clients PROVE Rising(reply[x])'
    <3>1. CASE x = c
      <4>1. list = <<>> => part = 0
        BY <1>3, <2>1 DEF ToLast
      <4>2. PICK g \in Seq(BlockType) : g = Grown(list, part)
        BY <4>1, GrownParts
      <4>3. Rising(g)
        BY <1>0, <1>3, <4>1, <4>2, RisingGrown
      <4>4. ASSUME g # <<>> PROVE g[Len(g)].place + g[Len(g)].used <= z.place
        <5>1. Len(g) = Len(list)
          BY <4>1, <4>2, GrownParts
        <5>2. list # <<>> /\ Len(list) \in 1 .. Len(list)
          BY <4>4, <5>1
        <5>3. PICK a \in BlockType : a = list[Len(list)]
          BY <5>2
        <5>4. PICK p \in Nat, u \in Nat : p = a.place /\ u = a.used
          BY BlockParts
        <5>5. g[Len(g)].place = p /\ g[Len(g)].used = u + part
          BY <4>1, <4>2, <5>1, <5>2, <5>3, <5>4, GrownParts
        <5>6. AddedSoFar(c) = p + u
          BY <1>3, <5>2, <5>3, <5>4 DEF AddedSoFar, Last
        <5>7. z.place = p + u + part
          BY <2>5, <5>6
        <5>8. p + (u + part) <= p + u + part
          OBVIOUS
        <5> QED
          BY <5>5, <5>7, <5>8
      <4>5. Rising(Append(g, z))
        BY <4>3, <4>4, RisingAppend
      <4>6. reply'[x] = Append(g, z)
        BY <1>3, <2>4, <3>1, <4>2
      <4> QED
        BY <4>5, <4>6 DEF Rising
    <3>2. CASE x # c
      BY <1>0, <2>4, <3>2 DEF Rising
    <3> QED
      BY <3>1, <3>2
  <2>9. \E t \in CopyType : t.to = b /\ Listed(b)' /\ tasks' = Append(tasks, t)
    <3>1. PICK t \in CopyType : t = CopyTask(b, piece.from, part, piece.n - part)
      BY <2>1, <2>2, NewCopy
    <3>2. t.to = b
      BY <3>1 DEF CopyTask
    <3>3. Listed(b)'
      <4>1. Len(list) + 1 \in 1 .. Len(reply'[c]) /\ reply'[c][Len(list) + 1].block = b
        BY <2>4, <2>6
      <4> QED
        BY <4>1 DEF Listed
    <3>4. tasks' = Append(tasks, t)
      BY <2>1, <3>1 DEF ToNew
    <3> QED
      BY <3>2, <3>3, <3>4
  <2> QED
    BY <1>1, <1>2, <2>2, <2>3, <2>7, <2>8, <2>9, MoreListed
<1> QED
  BY <1>2, <1>3, <1>4, <1>5, <1>6

LEMMA WriteValues ==
    ASSUME ValueInv, Waited' => Waited, NEW c \in Clients, WriteToClient(c)
    PROVE  ValueInv'
<1>0. /\ CountInv /\ Types /\ Apart /\ CopiesExposed /\ tasks \in Seq(TaskType)
      /\ reply \in [Clients -> Seq(BlockType)] /\ \A x \in Clients : Rising(reply[x])
  BY ValueParts
<1>1. CountInv' /\ exposed' = exposed
  BY <1>0, WriteCounts DEF WriteToClient, history
<1>2. PICK n \in Nat, rest \in Nat :
              /\ n >= 1 /\ n <= rest /\ rest = Extent(c) - sentlen[c]
              /\ Running /\ HasReplies(c)
              /\ tasks' = Append(tasks, SendTask(c, Source(c), sentlen[c], n))
              /\ out' = [out EXCEPT ![c] = @ \o [i \in 1 .. n |-> Pending]]
              /\ sentlen' = [sentlen EXCEPT ![c] = NextSent(c, n)]
              /\ IF n < rest THEN UNCHANGED <<bufpos, reply>>
                 ELSE IF bufpos[c] > 0
                 THEN bufpos' = [bufpos EXCEPT ![c] = 0] /\ UNCHANGED reply
                 ELSE reply' = [reply EXCEPT ![c] = Tail(@)] /\ UNCHANGED bufpos
              /\ UNCHANGED <<db, mem, asked, left, now, todo, phase, pendingWrite, handler,
                             writer, expected, ends>>
  BY <1>0, WriteDoes
<1>3. PICK t \in TaskType : t.op = "send" /\ tasks' = Append(tasks, t)
  <2>1. PICK t \in TaskType : t = SendTask(c, Source(c), sentlen[c], n) /\ t.op = "send"
    BY <1>0, <1>2, NewSend
  <2> QED
    BY <1>2, <2>1
<1>4. PICK m \in Nat : m = Len(tasks) /\ Len(tasks') = m + 1 /\ tasks'[m + 1].op = "send"
                       /\ \A k \in 1 .. m : tasks'[k] = tasks[k]
  <2>1. tasks \in Seq(TaskType) /\ t \in TaskType /\ tasks' = Append(tasks, t) /\ t.op = "send"
    BY <1>0, <1>3
  <2>2. PICK m \in Nat : m = Len(tasks)
    BY <2>1
  <2>3. Len(tasks') = m + 1 /\ tasks'[m + 1] = t
    BY ONLY <2>1, <2>2
  <2>4. \A k \in 1 .. m : tasks'[k] = tasks[k]
    BY ONLY <2>1, <2>2
  <2> QED
    BY <2>1, <2>2, <2>3, <2>4
<1>5. Waited => \A k \in 1 .. m : tasks[k].op = "copy" /\ Listed(tasks[k].to) /\ tasks[k].to \in Blocks
  BY <1>2, <1>4, WhileRunning
<1>6. reply' = reply \/ (reply' = [reply EXCEPT ![c] = Tail(@)] /\ reply[c] # <<>>)
  <2>1. bufpos[c] \in Nat /\ (bufpos[c] = 0 => reply[c] # <<>>)
    BY <1>0, <1>2, SourceParts
  <2> QED
    BY <1>2, <2>1
<1>7. PICK list \in Seq(BlockType) : list = reply[c]
  BY <1>0
<1>8. \A x : Listed(x)' => Listed(x)
  <2>1. CASE reply' = reply
    BY <2>1 DEF Listed
  <2>2. CASE reply' = [reply EXCEPT ![c] = Tail(@)] /\ reply[c] # <<>>
    <3>1. PICK new \in Seq(BlockType) : new = Tail(list)
      BY <1>7, <2>2, ShorterList
    <3>2. \A i \in 1 .. Len(new) : new[i] = list[i + 1] /\ i + 1 \in 1 .. Len(list)
      BY <1>7, <2>2, <3>1, ShorterList
    <3>3. reply'[c] = new /\ \A y \in Clients : y # c => reply'[y] = reply[y]
      BY <1>0, <1>7, <2>2, <3>1
    <3>4. ASSUME NEW x, NEW y \in Clients, NEW i \in 1 .. Len(reply'[y]), reply'[y][i].block = x
          PROVE  \E j \in 1 .. Len(reply[y]) : reply[y][j].block = x
      <4>1. CASE y = c
        <5>1. new[i] = list[i + 1] /\ i + 1 \in 1 .. Len(list)
          BY <3>2, <3>3, <3>4, <4>1
        <5> QED
          BY <1>7, <3>3, <3>4, <4>1, <5>1
      <4>2. CASE y # c
        BY <3>3, <3>4, <4>2
      <4> QED
        BY <4>1, <4>2
    <3> QED
      BY <3>4 DEF Listed
  <2> QED
    BY <1>6, <2>1, <2>2
<1>9. ASSUME NEW x \in Clients PROVE Rising(reply[x])'
  <2>1. CASE reply'[x] = reply[x]
    BY <1>0, <2>1 DEF Rising
  <2>2. CASE reply'[x] # reply[x]
    <3>1. x = c /\ reply'[c] = Tail(list) /\ list # <<>>
      BY <1>0, <1>6, <1>7, <2>2
    <3>2. Rising(Tail(list))
      BY <1>0, <1>7, <3>1, RisingTail
    <3> QED
      BY <3>1, <3>2 DEF Rising
  <2> QED
    BY <2>1, <2>2
<1>10. \A x : Kept(x)' <=> Kept(x)
  BY <1>2 DEF Kept
<1>11. Apart'
  <2>1. \A k \in Keys : Absent(k)' <=> Absent(k)
    BY <1>2 DEF Absent
  <2> QED
    BY <1>0, <1>2, <1>8, <1>10, <2>1 DEF Apart
<1>12. Intact'
  BY <1>1, <1>2, MemoryKept
<1>13. CopiesExposed'
  <2> SUFFICES ASSUME NEW k \in 1 .. m + 1, tasks'[k].op = "copy", Kept(tasks[k].to)'
               PROVE  tasks'[k].to \in exposed
    BY <1>1, <1>4 DEF CopiesExposed, Kept
  <2>1. k \in 1 .. m /\ tasks'[k] = tasks[k]
    BY <1>4
  <2>2. PICK x : x = tasks[k].to
    OBVIOUS
  <2>3. Kept(x)
    BY <1>2, <2>1, <2>2 DEF Kept
  <2> QED
    BY <1>0, <1>4, <2>1, <2>2, <2>3 DEF CopiesExposed
<1>14. Waited' => Orderly'
  <2> SUFFICES ASSUME Waited PROVE CopiesInside' /\ SendIsLast' /\ exposed' = {}
    BY DEF Orderly
  <2>1. CopiesInside'
    <3> SUFFICES ASSUME NEW k \in 1 .. m + 1, tasks'[k].op = "copy"
                 PROVE  (~Kept(tasks[k].to))'
      BY <1>4 DEF CopiesInside
    <3>1. k \in 1 .. m /\ tasks'[k] = tasks[k]
      BY <1>4
    <3>2. PICK x \in Blocks : x = tasks[k].to /\ Listed(x)
      BY <1>5, <3>1
    <3>3. ~Kept(x)
      BY <1>0, <3>2 DEF Apart
    <3> QED
      BY <1>2, <3>1, <3>2, <3>3 DEF Kept
  <2>2. SendIsLast'
    <3> SUFFICES ASSUME NEW k \in 1 .. m + 1, tasks'[k].op = "send" PROVE k = m + 1
      BY <1>4 DEF SendIsLast
    <3>1. k \in 1 .. m => tasks'[k].op = "copy"
      BY <1>4, <1>5
    <3> QED
      BY <3>1
  <2>3. exposed = {}
    BY ValueParts
  <2> QED
    BY <1>1, <2>1, <2>2, <2>3
<1> QED
  BY <1>1, <1>9, <1>11, <1>12, <1>13, <1>14 DEF ValueInv

LEMMA LeaveValues ==
    ASSUME ValueInv, Waited' => Waited, NEW c \in Clients, Leave(c)
    PROVE  ValueInv'
<1>0. /\ CountInv /\ Types /\ Apart /\ CopiesExposed
      /\ reply \in [Clients -> Seq(BlockType)] /\ \A x \in Clients : Rising(reply[x])
  BY ValueParts
<1>1. CountInv'
  BY <1>0, LeaveCounts
<1>2. /\ UNCHANGED <<db, mem, tasks, exposed, out, ends>> /\ reply' = [reply EXCEPT ![c] = <<>>]
      /\ c \notin left /\ now = NoClient /\ left' = left \cup {c}
  BY DEF Leave, Idle, history
<1>3. reply'[c] = <<>> /\ \A x \in Clients : x # c => reply'[x] = reply[x]
  BY <1>0, <1>2
<1>4. \A x : (Kept(x)' <=> Kept(x)) /\ (Listed(x)' => Listed(x))
  BY <1>2, <1>3 DEF Kept, Listed
<1>5. Apart'
  <2>1. \A k \in Keys : Absent(k)' <=> Absent(k)
    BY <1>2 DEF Absent
  <2> QED
    BY <1>0, <1>2, <1>4, <2>1 DEF Apart
<1>6. CopiesExposed'
  BY <1>0, <1>2, <1>4 DEF CopiesExposed
<1>7. Intact'
  BY <1>2, MemoryKept
<1>8. ASSUME NEW x \in Clients PROVE Rising(reply[x])'
  BY <1>0, <1>3 DEF Rising
<1>9. Waited' => Orderly'
  <2> SUFFICES ASSUME Waited' PROVE Orderly'
    OBVIOUS
  <2>1. Answered(c) = Len(Script[c])
    <3>1. Answered(c)' = Answered(c)
      BY <1>2 DEF Answered
    <3>2. c \in left'
      BY <1>2
    <3> QED
      BY <3>1, <3>2 DEF Waited
  <2>2. reply[c] = <<>>
    BY <1>0, <1>2, <2>1, Constants, NothingWaits
  <2>3. reply' = reply
    BY <1>0, <1>2, <2>2
  <2>4. \A x : Listed(x)' <=> Listed(x)
    BY <2>3 DEF Listed
  <2> QED
    BY <1>2, <1>4, <2>4, ValueParts DEF Orderly, CopiesInside, SendIsLast
<1> QED
  BY <1>1, <1>5, <1>6, <1>7, <1>8, <1>9 DEF ValueInv

-----------------------------------------------------------------------------
(* Clients that have left                                                  *)

LEMMA InitPresent == Init => Present
  BY Constants DEF Init, Present

LEMMA NextPresent ==
    ASSUME ValueInv, Present, [Next]_vars
    PROVE  Present'
<1>0. Types /\ tasks \in Seq(TaskType)
  BY ValueParts
<1>1. CASE \E c \in Clients : Ask(c) \/ Drain(c)
  BY <1>1 DEF Present, Ask, Drain, loopVars
<1>2. CASE CopierStep
  <2>1. UNCHANGED <<left, pendingWrite, handler, writer>>
    BY <1>2 DEF CopierStep, clientVars, loopVars
  <2>2. /\ Len(tasks') = Len(tasks) - 1 /\ Len(tasks) \in Nat \ {0}
        /\ \A i \in 1 .. Len(tasks') : tasks'[i] = tasks[i + 1] /\ i + 1 \in 1 .. Len(tasks)
    BY <1>0, <1>2 DEF CopierStep
  <2> QED
    BY <2>1, <2>2 DEF Present
<1>3. CASE Finish \/ AddReply
  <2>1. UNCHANGED <<left, pendingWrite, handler, writer>>
    BY <1>3 DEF Finish, AddReply, clientVars, loopVars
  <2>2. CASE tasks' = tasks
    BY <2>1, <2>2 DEF Present
  <2>3. CASE \E b, from, pos, n : tasks' = Append(tasks, CopyTask(b, from, pos, n))
    <3>1. PICK t : t.op = "copy" /\ tasks' = Append(tasks, t)
      BY <2>3 DEF CopyTask
    <3>2. /\ Len(tasks') = Len(tasks) + 1 /\ Len(tasks) \in Nat
          /\ \A k \in 1 .. Len(tasks') : tasks'[k] = IF k = Len(tasks) + 1 THEN t ELSE tasks[k]
          /\ \A k \in 1 .. Len(tasks') : k = Len(tasks) + 1 \/ k \in 1 .. Len(tasks)
      BY <1>0, <3>1
    <3> QED
      BY <2>1, <3>1, <3>2 DEF Present
  <2> QED
    BY <1>3, <2>2, <2>3 DEF Finish, AddReply
<1>4. CASE BeginWrites \/ EndWrites
  BY <1>4 DEF Present, BeginWrites, EndWrites, clientVars
<1>5. CASE \E c \in Clients : Execute(c)
  BY <1>5 DEF Present, Execute, Scheduled, clientVars
<1>6. CASE \E c \in Clients : BeginWriteTo(c) \/ EndWriteTo(c)
  <2>1. PICK c \in Clients : BeginWriteTo(c) \/ EndWriteTo(c)
    BY <1>6
  <2>2. UNCHANGED <<left, tasks>>
    BY <2>1 DEF BeginWriteTo, EndWriteTo, clientVars
  <2>3. CASE BeginWriteTo(c)
    BY <2>2, <2>3 DEF Present, BeginWriteTo
  <2>4. CASE EndWriteTo(c)
    <3>1. NoClient \notin left
      BY Constants DEF Present
    <3> QED
      BY <2>2, <2>4, <3>1 DEF Present, EndWriteTo, Handlers
  <2> QED
    BY <2>1, <2>3, <2>4
<1>7. CASE \E c \in Clients : WriteToClient(c)
  <2>1. PICK t : /\ writer \in Clients /\ t.conn = writer /\ tasks' = Append(tasks, t)
                 /\ UNCHANGED <<left, pendingWrite, handler, writer>>
    BY <1>7 DEF WriteToClient, SendTask
  <2>2. /\ Len(tasks') = Len(tasks) + 1 /\ Len(tasks) \in Nat
        /\ \A k \in 1 .. Len(tasks') : tasks'[k] = IF k = Len(tasks) + 1 THEN t ELSE tasks[k]
        /\ \A k \in 1 .. Len(tasks') : k = Len(tasks) + 1 \/ k \in 1 .. Len(tasks)
    BY <1>0, <2>1
  <2> QED
    BY <2>1, <2>2 DEF Present
<1>8. CASE \E c \in Clients : Leave(c)
  <2>1. PICK c \in Clients : Leave(c)
    BY <1>8
  <2>2. /\ left' = left \cup {c} /\ pendingWrite' = pendingWrite \ {c} /\ handler' = handler \ {c}
        /\ writer = NoClient /\ writer' = writer /\ tasks' = tasks
        /\ SendWaits => \A k \in 1 .. Len(tasks) : tasks[k].op # "send"
    BY <2>1 DEF Leave, Idle, Running
  <2> QED
    BY <2>2, Constants DEF Present
<1>9. CASE UNCHANGED vars
  BY <1>9 DEF Present, vars, clientVars, loopVars
<1> QED
  BY <1>1, <1>2, <1>3, <1>4, <1>5, <1>6, <1>7, <1>8, <1>9 DEF Next, Server

\* Who has left before it was answered will not be answered any more.
LEMMA AnswersStay ==
    ASSUME ValueInv, Present, SendWaits, [Next]_vars, NEW c \in left
    PROVE  Answered(c)' = Answered(c) /\ c \in left'
<1>0. Types /\ tasks \in Seq(TaskType) /\ c \in Clients
  BY ValueParts DEF Present
<1>1. ASSUME ends'[c] = ends[c], out'[c] = out[c] PROVE Answered(c)' = Answered(c)
  BY <1>1 DEF Answered
<1>2. CASE UNCHANGED <<ends, out>> /\ left \subseteq left'
  BY <1>1, <1>2
<1>3. CASE CopierStep
  <2>1. ends' = ends /\ left' = left
    BY <1>3 DEF CopierStep, history, clientVars
  <2>2. out'[c] = out[c]
    <3>1. Head(tasks) = tasks[1] /\ 1 \in 1 .. Len(tasks)
      BY <1>0, <1>3 DEF CopierStep
    <3>2. CASE tasks[1].op = "copy"
      BY <1>3, <3>1, <3>2 DEF CopierStep
    <3>3. CASE tasks[1].op = "send"
      <4>1. tasks[1].conn # c
        BY <3>1, <3>3 DEF Present
      <4>2. PICK conn, cells : conn # c /\ out' = [out EXCEPT ![conn] = cells]
        BY <1>3, <3>1, <3>3, <4>1 DEF CopierStep
      <4>3. c \in DOMAIN out
        BY <1>0 DEF Types
      <4> QED
        BY <4>2, <4>3
    <3>4. tasks[1] \in TaskType
      BY <1>0, <3>1
    <3> QED
      BY <3>2, <3>3, <3>4, TaskParts
  <2> QED
    BY <1>1, <2>1, <2>2
<1>4. CASE \E x \in Clients : Execute(x)
  <2>1. PICK x \in Clients : Execute(x)
    BY <1>4
  <2>2. x # c /\ out' = out /\ left' = left
    BY <2>1 DEF Execute, clientVars
  <2>3. PICK new : ends' = [ends EXCEPT ![x] = new]
    BY <2>1 DEF Execute
  <2>4. ends'[c] = ends[c]
    BY <1>0, <2>2, <2>3 DEF Types
  <2> QED
    BY <1>1, <2>2, <2>4
<1>5. CASE \E x \in Clients : WriteToClient(x)
  <2>1. PICK x \in Clients : WriteToClient(x)
    BY <1>5
  <2>2. x # c /\ ends' = ends /\ left' = left
    BY <2>1 DEF WriteToClient, Present, history
  <2>3. PICK new : out' = [out EXCEPT ![x] = new]
    BY <2>1 DEF WriteToClient
  <2>4. out'[c] = out[c]
    BY <1>0, <2>2, <2>3 DEF Types
  <2> QED
    BY <1>1, <2>2, <2>4
<1>6. CASE \E x \in Clients : Ask(x) \/ Drain(x) \/ BeginWriteTo(x) \/ EndWriteTo(x)
  BY <1>2, <1>6 DEF Ask, Drain, BeginWriteTo, EndWriteTo, history, clientVars
<1>7. CASE Finish \/ AddReply \/ BeginWrites \/ EndWrites \/ \E x \in Clients : Leave(x)
  BY <1>2, <1>7 DEF Finish, AddReply, BeginWrites, EndWrites, Leave, history, clientVars
<1>8. CASE UNCHANGED vars
  BY <1>2, <1>8 DEF vars, history, clientVars
<1> QED
  BY <1>3, <1>4, <1>5, <1>6, <1>7, <1>8 DEF Next, Server

LEMMA WaitedBefore ==
    ASSUME ValueInv, Present, [Next]_vars
    PROVE  Waited' => Waited
<1> SUFFICES ASSUME Waited' PROVE Waited
  OBVIOUS
<1>1. SendWaits
  BY DEF Waited
<1>2. ASSUME NEW c \in left PROVE Answered(c) = Len(Script[c])
  <2>1. Answered(c)' = Answered(c) /\ c \in left'
    BY <1>1, AnswersStay
  <2> QED
    BY <2>1 DEF Waited
<1> QED
  BY <1>1, <1>2 DEF Waited

LEMMA NextValues ==
    ASSUME ValueInv, Present, [Next]_vars
    PROVE  ValueInv'
<1>0. CountInv' /\ (Waited' => Waited)
  BY ValueParts, NextCounts, WaitedBefore
<1>1. CASE \E c \in Clients : Ask(c) \/ Drain(c)
  <2>1. UNCHANGED <<db, mem, tasks, reply, exposed>>
    BY <1>1 DEF Ask, Drain, bufferVars, history
  <2> QED
    BY <1>0, <2>1, ValuesSame
<1>2. CASE CopierStep
  BY <1>0, <1>2, CopierValues
<1>3. CASE Finish
  BY <1>0, <1>3, FinishValues
<1>4. CASE AddReply
  BY <1>0, <1>4, AddValues
<1>5. CASE BeginWrites \/ EndWrites \/ \E c \in Clients : BeginWriteTo(c) \/ EndWriteTo(c)
  <2>1. UNCHANGED <<db, mem, tasks, reply, exposed>>
    BY <1>5 DEF BeginWrites, EndWrites, BeginWriteTo, EndWriteTo, bufferVars, history
  <2> QED
    BY <1>0, <2>1, ValuesSame
<1>6. CASE \E c \in Clients : Execute(c)
  BY <1>0, <1>6, ExecuteValues
<1>7. CASE \E c \in Clients : WriteToClient(c)
  BY <1>0, <1>7, WriteValues
<1>8. CASE \E c \in Clients : Leave(c)
  BY <1>0, <1>8, LeaveValues
<1>9. CASE UNCHANGED vars
  <2>1. UNCHANGED <<db, mem, tasks, reply, exposed>>
    BY <1>9 DEF vars, bufferVars, history
  <2> QED
    BY <1>0, <2>1, ValuesSame
<1> QED
  BY <1>1, <1>2, <1>3, <1>4, <1>5, <1>6, <1>7, <1>8, <1>9 DEF Next, Server

\* A copy that waits hits the value of a key only in a block that was freed and
\* given to the value in the meantime; and if the send call returns when its
\* bytes are taken, no block is, unless a client has left before it was answered
\* (freeClient).  Otherwise the value of a key is what was set.
THEOREM ValuesStay == Spec => []ValuesKept
<1>1. Init => ValueInv /\ Present
  BY InitValues, InitPresent
<1>2. ValueInv /\ Present /\ [Next]_vars => ValueInv' /\ Present'
  BY NextValues, NextPresent
<1>3. ValueInv /\ Present => ValuesKept
  <2> SUFFICES ASSUME ValueInv, Present PROVE ValuesKept
    OBVIOUS
  <2>1. ASSUME exposed # {}, SendWaits PROVE \E c \in Clients : Hasty(c)
    <3>1. ~Waited
      BY <2>1, ValueParts
    <3>2. PICK c \in left : Answered(c) # Len(Script[c])
      BY <2>1, <3>1 DEF Waited
    <3>3. c \in Clients
      BY DEF Present
    <3>4. Answered(c) \in Nat /\ Answered(c) <= Len(Script[c]) /\ Len(Script[c]) \in Nat
      BY <3>3, ValueParts, AnsweredRange, Constants
    <3>5. Answered(c) < Len(Script[c])
      BY <3>2, <3>4
    <3> QED
      BY <3>3, <3>5 DEF Hasty
  <2>2. Intact
    BY ValueParts
  <2> QED
    BY <2>1, <2>2 DEF ValuesKept, Intact
<1> QED
  BY <1>1, <1>2, <1>3, PTL DEF Spec

-----------------------------------------------------------------------------
(* The replies are right, as long as the sources of the copies are kept    *)

LEMMA CellOfPiece ==
    ASSUME NEW s \in Seq(Cells), NEW p \in Nat, NEW n \in Nat, NEW i \in 1 .. n
    PROVE  Piece(s, p, n)[i] = CellAt(s, p + i)
  BY PieceSeq DEF CellAt

LEMMA CellOfStored ==
    ASSUME NEW s \in Seq(Cells), NEW p \in Nat, NEW d \in Seq(Cells), NEW j \in Nat, j >= 1
    PROVE  CellAt(Stored(s, p, d), j) = IF j - p \in 1 .. Len(d) THEN d[j - p] ELSE CellAt(s, j)
<1>1. PICK u \in Seq(Cells) : u = Stored(s, p, d)
  BY StoredSeq
<1>2. /\ Len(u) = Larger(Len(s), p + Len(d))
      /\ \A i \in 1 .. Larger(Len(s), p + Len(d)) :
            u[i] = IF i - p \in 1 .. Len(d) THEN d[i - p] ELSE IF i <= Len(s) THEN s[i] ELSE Junk
  <2>1. /\ Len(Stored(s, p, d)) = Larger(Len(s), p + Len(d))
        /\ \A i \in 1 .. Larger(Len(s), p + Len(d)) :
              Stored(s, p, d)[i] = IF i - p \in 1 .. Len(d) THEN d[i - p]
                                   ELSE IF i <= Len(s) THEN s[i] ELSE Junk
    BY StoredSeq, ZenonT(30)
  <2> QED
    BY <1>1, <2>1
<1>3. PICK l \in Nat, m \in Nat, n \in Nat : l = Len(u) /\ m = Len(s) /\ n = Len(d)
  OBVIOUS
<1>4. l >= m /\ l >= p + n /\ (l = m \/ l = p + n)
  BY <1>2, <1>3 DEF Larger
<1>5. CASE j <= l
  <2>1. j \in 1 .. l
    BY <1>5
  <2>2. u[j] = IF j - p \in 1 .. n THEN d[j - p] ELSE IF j <= m THEN s[j] ELSE Junk
    BY <1>2, <1>3, <2>1
  <2> QED
    BY <1>1, <1>3, <1>5, <2>2 DEF CellAt
<1>6. CASE ~(j <= l)
  <2>1. ~(j <= m) /\ j - p \notin 1 .. n
    BY <1>4, <1>6
  <2> QED
    BY <1>1, <1>3, <1>6, <2>1 DEF CellAt
<1> QED
  BY <1>5, <1>6

LEMMA ReplyParts ==
    ASSUME ReplyInv
    PROVE  /\ ValueInv /\ Waited /\ Gone /\ OneCopy /\ CopyFits /\ OneUser /\ SharedRight
           /\ \A c \in Clients : BufferRight(c) /\ ListRight(c)
           /\ SendRight /\ TodoRight /\ RepliesAsPromised
           /\ CountInv /\ Types /\ Apart /\ CopiesInside /\ SendIsLast /\ AllKept
           /\ \A c \in Clients : Rising(reply[c])
           /\ db \in DbType /\ mem \in [Locations -> Seq(Cells)] /\ tasks \in Seq(TaskType)
           /\ reply \in [Clients -> Seq(BlockType)]
<1>1. ValueInv /\ Waited /\ exposed = {}
  BY ValueParts DEF ReplyInv
<1>2. AllKept
  BY <1>1, ValueParts DEF AllKept, Intact
<1> QED
  BY <1>1, <1>2, ValueParts DEF ReplyInv

\* A cell of x that is right, or will be, stays so if x and the sources of the
\* copies are not written to and no other copy to x is posted.
AddsNoCopyTo(x) ==
    \/ tasks' = tasks
    \/ \E t \in TaskType : tasks' = Append(tasks, t) /\ (t.op = "copy" => t.to # x)

LEMMA WillStay ==
    ASSUME tasks \in Seq(TaskType), SourceKept, NEW x, NEW j, NEW cell, WillBe(x, j, cell),
           AddsNoCopyTo(x), CellAt(mem'[x], j) = CellAt(mem[x], j)
    PROVE  WillBe(x, j, cell)'
<1>1. /\ Len(tasks') \in Nat /\ Len(tasks) \in Nat /\ Len(tasks) <= Len(tasks')
      /\ \A k \in 1 .. Len(tasks) : tasks'[k] = tasks[k]
      /\ \A k \in 1 .. Len(tasks') : k \in 1 .. Len(tasks) \/ ~(tasks'[k].op = "copy" /\ tasks'[k].to = x)
  <2>1. CASE tasks' = tasks
    BY <2>1
  <2>2. CASE \E t \in TaskType : tasks' = Append(tasks, t) /\ (t.op = "copy" => t.to # x)
    <3>1. PICK t \in TaskType : tasks' = Append(tasks, t) /\ (t.op = "copy" => t.to # x)
      BY <2>2
    <3>2. /\ Len(tasks') = Len(tasks) + 1 /\ tasks'[Len(tasks) + 1] = t
          /\ \A k \in 1 .. Len(tasks) : tasks'[k] = tasks[k]
      BY <3>1
    <3>3. \A k \in 1 .. Len(tasks') : k \in 1 .. Len(tasks) \/ k = Len(tasks) + 1
      BY <3>2
    <3> QED
      BY <3>1, <3>2, <3>3
  <2> QED
    BY <2>1, <2>2 DEF AddsNoCopyTo
<1>2. CASE \E k \in 1 .. Len(tasks) :
              /\ tasks[k].op = "copy" /\ tasks[k].to = x /\ j <= tasks[k].n
              /\ CellAt(mem[tasks[k].from], tasks[k].pos + j) = cell
  <2>1. PICK k \in 1 .. Len(tasks) :
              /\ tasks[k].op = "copy" /\ tasks[k].to = x /\ j <= tasks[k].n
              /\ CellAt(mem[tasks[k].from], tasks[k].pos + j) = cell
    BY <1>2
  <2>2. mem'[tasks[k].from] = mem[tasks[k].from]
    BY <2>1 DEF SourceKept
  <2>3. k \in 1 .. Len(tasks') /\ tasks'[k] = tasks[k]
    BY <1>1
  <2>4. /\ tasks'[k].op = "copy" /\ tasks'[k].to = x /\ j <= tasks'[k].n
        /\ CellAt(mem'[tasks'[k].from], tasks'[k].pos + j) = cell
    BY <2>1, <2>2, <2>3
  <2> QED
    BY <2>3, <2>4 DEF WillBe, At
<1>3. CASE /\ \A k \in 1 .. Len(tasks) : tasks[k].op = "copy" /\ tasks[k].to = x => tasks[k].n < j
           /\ CellAt(mem[x], j) = cell
  <2>1. \A k \in 1 .. Len(tasks') : tasks'[k].op = "copy" /\ tasks'[k].to = x => tasks'[k].n < j
    BY <1>1, <1>3
  <2> QED
    BY <1>3, <2>1 DEF WillBe, At
<1> QED
  BY <1>2, <1>3 DEF WillBe, At

\* What is sent, and what is sent next, is part of what was promised.
LEMMA SentOfPromise ==
    ASSUME CountInv, NEW c \in Clients, c \notin left, Rising(reply[c])
    PROVE  \E e \in Nat :
              /\ e = Len(expected[c]) - (IF now = c THEN ToAdd ELSE 0) /\ e <= Len(expected[c])
              /\ Len(out[c]) <= e /\ Behind(c) <= e /\ AddedSoFar(c) = e
              /\ HasReplies(c) => (Len(out[c]) - sentlen[c]) + Extent(c) <= e
<1>1. PICK o \in Nat, x \in Nat : o = Len(out[c]) /\ x = Len(expected[c])
  <2>1. Len(out[c]) \in Nat /\ Len(expected[c]) \in Nat
    BY Known
  <2> QED
    BY <2>1
<1>2. PICK a \in Nat : a = IF now = c THEN ToAdd ELSE 0
  <2>1. ToAdd \in Nat
    BY Costs DEF CountInv, Types
  <2> QED
    BY <2>1
<1>3. PICK e \in Int : e = x - a
  OBVIOUS
<1>4. PICK list \in Seq(BlockType), b \in Nat, l \in Nat :
         list = reply[c] /\ b = bufpos[c] /\ l = sentlen[c]
  BY Known
<1>5. Gapless(Behind(c), list, e)
  BY <1>1, <1>2, <1>3, <1>4, Known DEF Places
<1>6. PICK s \in Nat : s = Behind(c) /\ s = (o + b) - l
  <2>1. Behind(c) \in Nat
    BY AddedPlace
  <2>2. Behind(c) = (o + b) - l
    BY <1>1, <1>4 DEF Behind
  <2> QED
    BY <2>1, <2>2
<1>7. AddedSoFar(c) = e
  BY <1>4, <1>5, AddedPlace
<1>8. CASE b > 0
  <2>1. HasReplies(c)
    BY <1>4, <1>8 DEF HasReplies
  <2>2. Extent(c) = b /\ l < b
    BY <1>4, <1>8, <2>1, SourceParts
  <2>3. s <= e
    <3>1. CASE list = <<>>
      BY <1>5, <1>6, <3>1 DEF Gapless
    <3>2. CASE list # <<>>
      <4>1. s + list[1].used <= e
        BY <1>4, <1>5, <1>6, <3>2, GaplessExtent
      <4>2. PICK z \in BlockType : z = list[1]
        BY <3>2
      <4>3. PICK u \in Nat : u = z.used
        BY BlockParts
      <4> QED
        BY <4>1, <4>2, <4>3
    <3> QED
      BY <3>1, <3>2
  <2>4. o <= e /\ (o - l) + b <= e /\ e \in Nat /\ e <= x
    BY <1>3, <1>6, <2>2, <2>3
  <2> QED
    BY <1>1, <1>2, <1>3, <1>4, <1>6, <1>7, <2>2, <2>3, <2>4
<1>9. CASE b = 0 /\ list # <<>>
  <2>1. HasReplies(c)
    BY <1>4, <1>9 DEF HasReplies
  <2>2. Extent(c) = list[1].used /\ l < Extent(c)
    BY <1>4, <1>9, <2>1, SourceParts
  <2>3. PICK u \in Nat : u = list[1].used /\ l < u
    <3>1. PICK z \in BlockType : z = list[1]
      BY <1>9
    <3>2. PICK u \in Nat : u = z.used
      BY BlockParts
    <3> QED
      BY <2>2, <3>1, <3>2
  <2>4. s + list[1].used <= e
    BY <1>4, <1>5, <1>6, <1>9, GaplessExtent
  <2>5. s + u <= e /\ o <= e /\ (o - l) + u <= e /\ s <= e /\ e \in Nat /\ e <= x
    BY <1>3, <1>6, <1>9, <2>3, <2>4
  <2> QED
    BY <1>1, <1>2, <1>3, <1>4, <1>6, <1>7, <2>2, <2>3, <2>5
<1>10. CASE b = 0 /\ list = <<>>
  <2>1. ~HasReplies(c)
    BY <1>4, <1>10 DEF HasReplies
  <2>2. l = 0
    BY <1>4, <2>1, Known DEF Counters
  <2>3. s = e
    BY <1>5, <1>6, <1>10 DEF Gapless
  <2>4. o <= e /\ s <= e /\ e \in Nat /\ e <= x
    BY <1>3, <1>6, <1>10, <2>2, <2>3
  <2> QED
    BY <1>1, <1>2, <1>3, <1>6, <1>7, <2>1, <2>4
<1> QED
  BY <1>8, <1>9, <1>10

\* Where the cells in the buffer and the list are in the stream.
LEMMA InPromise ==
    ASSUME ReplyInv, NEW c \in Clients
    PROVE  /\ \A j \in 1 .. bufpos[c] : Len(out[c]) - sentlen[c] + j \in 1 .. Len(expected[c])
           /\ c \notin left => Len(out[c]) <= Len(expected[c])
<1>0. CountInv /\ Gone /\ Rising(reply[c])
  BY ReplyParts
<1>1. PICK o \in Nat, b \in Nat, l \in Nat : o = Len(out[c]) /\ b = bufpos[c] /\ l = sentlen[c] /\ l <= o
  <2>1. Len(out[c]) \in Nat /\ bufpos[c] \in Nat /\ sentlen[c] \in Nat /\ sentlen[c] <= Len(out[c])
    BY <1>0, Known DEF Counters
  <2> QED
    BY <2>1
<1>2. CASE c \in left
  <2>1. ~(b > 0)
    BY <1>0, <1>1, <1>2 DEF Gone, HasReplies
  <2> QED
    BY <1>1, <1>2, <2>1
<1>3. CASE c \notin left
  <2>1. PICK e \in Nat :
              /\ e <= Len(expected[c]) /\ o <= e
              /\ HasReplies(c) => (o - l) + Extent(c) <= e
    BY <1>0, <1>1, <1>3, SentOfPromise
  <2>2. b > 0 => (o - l) + b <= e
    <3>1. b > 0 => HasReplies(c) /\ Extent(c) = b
      BY <1>1 DEF HasReplies, Extent
    <3> QED
      BY <2>1, <3>1
  <2>3. PICK x \in Nat : x = Len(expected[c])
    <3>1. Len(expected[c]) \in Nat
      BY <1>0, Known
    <3> QED
      BY <3>1
  <2>4. ASSUME NEW j \in 1 .. b PROVE o - l + j \in 1 .. x
    <3>1. (o - l) + b <= e /\ e <= x /\ l <= o
      BY <1>1, <2>1, <2>2, <2>3
    <3> QED
      BY <3>1
  <2> QED
    BY <1>1, <2>1, <2>3, <2>4
<1> QED
  BY <1>2, <1>3

\* A promise is only made longer.
Longer(c) ==
    /\ expected'[c] \in Seq(Cells) /\ Len(expected[c]) <= Len(expected'[c])
    /\ \A i \in 1 .. Len(expected[c]) : expected'[c][i] = expected[c][i]

LEMMA BufferStays ==
    ASSUME ReplyInv, NEW c \in Clients, Longer(c), mem'[Static(c)] = mem[Static(c)],
           bufpos'[c] = bufpos[c], out'[c] = out[c], sentlen'[c] = sentlen[c]
    PROVE  BufferRight(c)'
<1> SUFFICES ASSUME NEW j \in 1 .. bufpos[c]
             PROVE  CellAt(mem[Static(c)], j) = expected'[c][Len(out[c]) - sentlen[c] + j]
  BY DEF BufferRight, At
<1>1. PICK i \in 1 .. Len(expected[c]) : i = Len(out[c]) - sentlen[c] + j
  BY InPromise
<1>2. expected'[c][i] = expected[c][i]
  BY DEF Longer
<1>3. CellAt(mem[Static(c)], j) = expected[c][Len(out[c]) - sentlen[c] + j]
  BY ReplyParts DEF BufferRight, At
<1> QED
  BY <1>1, <1>2, <1>3

LEMMA ListStays ==
    ASSUME ReplyInv, SourceKept, NEW c \in Clients, Longer(c), reply'[c] \in Seq(BlockType),
           \A i \in 1 .. Len(reply'[c]) : \E k \in 1 .. Len(reply[c]) : reply'[c][i] = reply[c][k],
           \A k \in 1 .. Len(reply[c]) :
              /\ mem'[reply[c][k].block] = mem[reply[c][k].block]
              /\ AddsNoCopyTo(reply[c][k].block)
    PROVE  ListRight(c)'
<1>0. /\ ListRight(c) /\ tasks \in Seq(TaskType) /\ reply[c] \in Seq(BlockType)
      /\ expected[c] \in Seq(Cells) /\ expected'[c] \in Seq(Cells)
      /\ Len(expected[c]) <= Len(expected'[c])
      /\ \A i \in 1 .. Len(expected[c]) : expected'[c][i] = expected[c][i]
  BY ReplyParts, Known DEF Longer
<1> SUFFICES ASSUME NEW i \in 1 .. Len(reply'[c])
             PROVE  /\ reply'[c][i].place + reply'[c][i].used <= Len(expected'[c])
                    /\ \A j \in 1 .. reply'[c][i].used :
                          (WillBe(reply[c][i].block, j, expected[c][reply[c][i].place + j]))'
  BY DEF ListRight
<1>1. PICK k \in 1 .. Len(reply[c]) : reply'[c][i] = reply[c][k]
  OBVIOUS
<1>2. PICK z \in BlockType : z = reply[c][k] /\ z = reply'[c][i]
  BY <1>0, <1>1
<1>3. PICK x \in Blocks, p \in Nat, u \in Nat : x = z.block /\ p = z.place /\ u = z.used
  BY BlockParts
<1>4. PICK a \in Nat, b \in Nat : a = Len(expected[c]) /\ b = Len(expected'[c]) /\ a <= b
  BY <1>0
<1>5. p + u <= a
  BY <1>0, <1>1, <1>2, <1>3, <1>4 DEF ListRight
<1>6. ASSUME NEW j \in 1 .. u
      PROVE  (WillBe(reply[c][i].block, j, expected[c][reply[c][i].place + j]))'
  <2>1. PICK cell : cell = expected[c][p + j] /\ cell = expected'[c][p + j]
    <3>1. p + j \in 1 .. a
      BY <1>5
    <3> QED
      BY <1>0, <1>4, <3>1
  <2>2. WillBe(x, j, cell)
    <3>1. \A h \in 1 .. reply[c][k].used :
             WillBe(reply[c][k].block, h, expected[c][reply[c][k].place + h])
      BY <1>0, <1>1 DEF ListRight
    <3>2. j \in 1 .. reply[c][k].used
      BY <1>2, <1>3
    <3>3. WillBe(reply[c][k].block, j, expected[c][reply[c][k].place + j])
      BY <3>1, <3>2
    <3> QED
      BY <1>2, <1>3, <2>1, <3>3
  <2>3. CellAt(mem'[x], j) = CellAt(mem[x], j) /\ AddsNoCopyTo(x)
    BY <1>1, <1>2, <1>3
  <2>4. WillBe(x, j, cell)'
    BY <1>0, <2>2, <2>3, WillStay
  <2> QED
    BY <1>2, <1>3, <2>1, <2>4
<1>7. reply'[c][i].place + reply'[c][i].used <= Len(expected'[c])
  <2>1. p + u <= b
    BY <1>4, <1>5
  <2> QED
    BY <1>2, <1>3, <1>4, <2>1
<1>8. u = reply'[c][i].used
  BY <1>2, <1>3
<1> QED
  BY <1>6, <1>7, <1>8

LEMMA RepliesSame ==
    ASSUME ReplyInv, ValueInv', Waited',
           UNCHANGED <<db, mem, tasks, left, out, now, todo, bufpos, reply, sentlen, expected>>
    PROVE  ReplyInv'
<1>1. \A x, j, cell : WillBe(x, j, cell)' <=> WillBe(x, j, cell)
  BY DEF WillBe, At
<1>2. Gone' /\ OneCopy' /\ CopyFits' /\ OneUser' /\ SharedRight'
  <2>1. Gone'
    BY ReplyParts DEF Gone, HasReplies
  <2>2. OneCopy' /\ CopyFits'
    BY ReplyParts DEF OneCopy, CopyFits
  <2>3. OneUser' /\ SharedRight'
    BY ReplyParts DEF OneUser, SharedRight
  <2> QED
    BY <2>1, <2>2, <2>3
<1>3. ASSUME NEW c \in Clients PROVE BufferRight(c)'
  <2>1. BufferRight(c)
    BY ReplyParts
  <2> QED
    BY <2>1 DEF BufferRight, At
<1>4. ASSUME NEW c \in Clients PROVE ListRight(c)'
  <2>1. ListRight(c)
    BY ReplyParts
  <2> QED
    BY <1>1, <2>1 DEF ListRight
<1>5. SendRight'
  BY <1>1, ReplyParts DEF SendRight
<1>6. TodoRight'
  <2>1. \A i : Rest(i)' = Rest(i)
    BY DEF Rest, ToAdd, Cost
  <2>2. \A p, j : CellOf(p, j)' = CellOf(p, j)
    BY DEF CellOf, At
  <2>3. \A b : Kept(b)' <=> Kept(b)
    BY DEF Kept
  <2>4. TodoRight
    BY ReplyParts
  <2> QED
    BY <2>1, <2>2, <2>3, <2>4 DEF TodoRight
<1>7. RepliesAsPromised'
  BY ReplyParts DEF RepliesAsPromised
<1> QED
  BY <1>2, <1>3, <1>4, <1>5, <1>6, <1>7 DEF ReplyInv

\* What a cell will be when all copies are done, it is still to be when one of
\* them is.
LEMMA CopierWill ==
    ASSUME ReplyInv, CopierStep, SourceKept, NEW x \in Locations, NEW j \in Nat, j >= 1, NEW cell,
           WillBe(x, j, cell)
    PROVE  WillBe(x, j, cell)'
<1>0. /\ Types /\ OneCopy /\ SendIsLast /\ tasks \in Seq(TaskType)
      /\ mem \in [Locations -> Seq(Cells)]
  BY ReplyParts
<1>1. PICK t \in TaskType, cells \in Seq(Cells) :
              /\ Len(tasks) \in Nat \ {0} /\ t = tasks[1] /\ tasks' = Tail(tasks)
              /\ tasks' \in Seq(TaskType) /\ Len(tasks') = Len(tasks) - 1
              /\ \A i \in 1 .. Len(tasks') : tasks'[i] = tasks[i + 1]
              /\ cells = Piece(mem[t.from], t.pos, t.n)
              /\ Len(cells) = t.n
              /\ t.op = "copy" => mem' = [mem EXCEPT ![t.to] = Stored(@, 0, cells)] /\ out' = out
              /\ t.op = "send" =>
                    out' = [out EXCEPT ![t.conn] = Stored(@, t.place, cells)] /\ mem' = mem
  BY <1>0, CopierDoes
<1>2. PICK m \in Nat, n \in Nat : m = Len(tasks) /\ m >= 1 /\ m - 1 = Len(tasks') /\ n = t.n
  <2>1. t.n \in Nat
    BY TaskParts
  <2>2. Len(tasks) \in Nat /\ Len(tasks) >= 1 /\ Len(tasks) - 1 = Len(tasks')
    BY <1>1
  <2> QED
    BY <2>1, <2>2
<1>3. CASE t.op = "send"
  <2>1. m = 1
    <3>1. 1 \in 1 .. m
      BY <1>2
    <3> QED
      BY <1>0, <1>1, <1>2, <1>3, <3>1 DEF SendIsLast
  <2>2. CellAt(mem[x], j) = cell
    <3>1. \A k \in 1 .. Len(tasks) : tasks[k].op # "copy"
      BY <1>1, <1>2, <1>3, <2>1
    <3> QED
      BY <3>1 DEF WillBe, At
  <2>3. Len(tasks') = 0 /\ mem' = mem
    BY <1>1, <1>2, <1>3, <2>1
  <2> QED
    BY <2>2, <2>3 DEF WillBe, At
<1>4. CASE t.op = "copy"
  <2>1. PICK y \in Locations : y = t.to
    BY <1>4, TaskParts, Locate
  <2>2. mem' = [mem EXCEPT ![y] = Stored(mem[y], 0, cells)] /\ mem[y] \in Seq(Cells)
    BY <1>0, <1>1, <1>4, <2>1
  <2>3. ASSUME x # y \/ n < j PROVE CellAt(mem'[x], j) = CellAt(mem[x], j)
    <3>1. CASE x # y
      BY <1>0, <2>2, <3>1
    <3>2. CASE x = y
      <4>1. mem'[x] = Stored(mem[x], 0, cells) /\ mem[x] \in Seq(Cells)
        BY <1>0, <2>2, <3>2
      <4>2. j - 0 \notin 1 .. Len(cells)
        BY <1>1, <1>2, <2>3, <3>2
      <4>3. CellAt(Stored(mem[x], 0, cells), j) =
              IF j - 0 \in 1 .. Len(cells) THEN cells[j - 0] ELSE CellAt(mem[x], j)
        BY <4>1, CellOfStored
      <4> QED
        BY <4>1, <4>2, <4>3
    <3> QED
      BY <3>1, <3>2
  <2>4. CASE \E k \in 1 .. Len(tasks) :
              /\ tasks[k].op = "copy" /\ tasks[k].to = x /\ j <= tasks[k].n
              /\ CellAt(mem[tasks[k].from], tasks[k].pos + j) = cell
    <3>1. PICK k \in 1 .. m :
              /\ tasks[k].op = "copy" /\ tasks[k].to = x /\ j <= tasks[k].n
              /\ CellAt(mem[tasks[k].from], tasks[k].pos + j) = cell
      BY <1>2, <2>4
    <3>2. CASE k = 1
      <4>1. x = y /\ j \in 1 .. n /\ CellAt(mem[t.from], t.pos + j) = cell
        BY <1>1, <1>2, <2>1, <3>1, <3>2
      <4>2. mem'[x] = Stored(mem[x], 0, cells) /\ mem[x] \in Seq(Cells)
        BY <1>0, <2>2, <4>1
      <4>3. j - 0 \in 1 .. Len(cells) /\ j - 0 = j
        BY <1>1, <1>2, <4>1
      <4>4. CellAt(Stored(mem[x], 0, cells), j) =
              IF j - 0 \in 1 .. Len(cells) THEN cells[j - 0] ELSE CellAt(mem[x], j)
        BY <4>2, CellOfStored
      <4>5. cells[j] = CellAt(mem[t.from], t.pos + j)
        <5>1. PICK s \in Seq(Cells), p \in Nat : s = mem[t.from] /\ p = t.pos
          BY <1>0, TaskParts
        <5>2. Piece(s, p, n)[j] = CellAt(s, p + j)
          BY <4>1, CellOfPiece
        <5>3. cells = Piece(s, p, n)
          BY <1>1, <1>2, <5>1
        <5> QED
          BY <5>1, <5>2, <5>3
      <4>6. CellAt(mem'[x], j) = cell
        BY <4>1, <4>2, <4>3, <4>4, <4>5
      <4>7. \A i \in 1 .. Len(tasks') : ~(tasks'[i].op = "copy" /\ tasks'[i].to = x)
        <5> SUFFICES ASSUME NEW i \in 1 .. Len(tasks'), tasks'[i].op = "copy", tasks'[i].to = x
                     PROVE  FALSE
          OBVIOUS
        <5>1. i + 1 \in 1 .. m /\ 1 \in 1 .. m /\ i + 1 # 1 /\ tasks'[i] = tasks[i + 1]
          BY <1>1, <1>2
        <5>2. tasks[i + 1].op = "copy" /\ tasks[i + 1].to = x /\ tasks[1].op = "copy" /\ tasks[1].to = x
          BY <1>1, <1>4, <2>1, <4>1, <5>1
        <5> QED
          BY <1>0, <1>2, <5>1, <5>2 DEF OneCopy
      <4> QED
        BY <4>6, <4>7 DEF WillBe, At
    <3>3. CASE k # 1
      <4>1. PICK i \in 1 .. m - 1 : i + 1 = k
        <5>1. k - 1 \in 1 .. m - 1 /\ k - 1 + 1 = k
          BY <3>3
        <5> QED
          BY <5>1
      <4>2. i \in 1 .. Len(tasks') /\ tasks'[i] = tasks[k]
        BY <1>1, <1>2, <4>1
      <4>3. mem'[tasks[k].from] = mem[tasks[k].from]
        BY <1>2, <3>1 DEF SourceKept
      <4> QED
        BY <3>1, <4>2, <4>3 DEF WillBe, At
    <3> QED
      BY <3>2, <3>3
  <2>5. CASE /\ \A k \in 1 .. Len(tasks) : tasks[k].op = "copy" /\ tasks[k].to = x => tasks[k].n < j
             /\ CellAt(mem[x], j) = cell
    <3>1. x # y \/ n < j
      <4>1. 1 \in 1 .. Len(tasks)
        BY <1>2
      <4> QED
        BY <1>1, <1>2, <1>4, <2>1, <2>5, <4>1
    <3>2. CellAt(mem'[x], j) = cell
      BY <2>3, <2>5, <3>1
    <3>3. ASSUME NEW i \in 1 .. Len(tasks'), tasks'[i].op = "copy", tasks'[i].to = x
          PROVE  tasks'[i].n < j
      <4>1. i + 1 \in 1 .. Len(tasks) /\ tasks'[i] = tasks[i + 1]
        BY <1>1, <1>2
      <4> QED
        BY <2>5, <3>3, <4>1
    <3> QED
      BY <3>2, <3>3 DEF WillBe, At
  <2> QED
    BY <2>4, <2>5 DEF WillBe, At
<1> QED
  BY <1>3, <1>4, TaskParts

LEMMA CopierMemory ==
    ASSUME ValueInv, Waited, CopierStep, NEW x \in Locations, x \notin Blocks \/ Kept(x)
    PROVE  mem'[x] = mem[x]
<1>0. Types /\ CopiesInside /\ mem \in [Locations -> Seq(Cells)]
  BY ValueParts
<1>1. PICK t \in TaskType, cells \in Seq(Cells) :
              /\ Len(tasks) \in Nat \ {0} /\ t = tasks[1]
              /\ t.op = "copy" => mem' = [mem EXCEPT ![t.to] = Stored(@, 0, cells)]
              /\ t.op = "send" => mem' = mem
  BY <1>0, CopierDoes
<1>2. CASE t.op = "copy"
  <2>1. t.to \in Blocks /\ ~Kept(t.to)
    <3>1. 1 \in 1 .. Len(tasks)
      BY <1>1
    <3> QED
      BY <1>0, <1>1, <1>2, <3>1, TaskParts DEF CopiesInside
  <2>2. x # t.to
    BY <2>1
  <2> QED
    BY <1>0, <1>1, <1>2, <2>2
<1>3. CASE t.op = "send"
  BY <1>1, <1>3
<1> QED
  BY <1>2, <1>3, TaskParts

\* A send takes what is right.
LEMMA SendDelivers ==
    ASSUME ReplyInv, CopierStep
    PROVE  RepliesAsPromised'
<1>0. /\ Types /\ SendIsLast /\ SendRight /\ RepliesAsPromised /\ CountInv
      /\ mem \in [Locations -> Seq(Cells)] /\ out \in [Clients -> Seq(Cells)]
  BY ReplyParts DEF Types
<1>1. PICK t \in TaskType, cells \in Seq(Cells) :
              /\ Len(tasks) \in Nat \ {0} /\ t = tasks[1]
              /\ cells = Piece(mem[t.from], t.pos, t.n)
              /\ Len(cells) = t.n
              /\ t.op = "copy" => out' = out
              /\ t.op = "send" => out' = [out EXCEPT ![t.conn] = Stored(@, t.place, cells)]
  BY <1>0, CopierDoes
<1>2. expected' = expected
  BY DEF CopierStep, history
<1> SUFFICES ASSUME NEW c \in Clients, NEW i \in 1 .. Len(out'[c])
             PROVE  out'[c][i] \in {Pending, expected[c][i]}
  BY <1>2 DEF RepliesAsPromised
<1>3. i \in 1 .. Len(out[c])
  BY <1>0, CopierLengths
<1>4. out[c][i] \in {Pending, expected[c][i]}
  BY <1>0, <1>3 DEF RepliesAsPromised
<1>5. CASE t.op = "copy" \/ t.conn # c
  <2>1. out'[c] = out[c]
    BY <1>0, <1>1, <1>5, TaskParts
  <2> QED
    BY <1>4, <2>1
<1>6. CASE t.op = "send" /\ t.conn = c
  <2>1. PICK s \in Seq(Cells), p \in Nat, n \in Nat : s = out[c] /\ p = t.place /\ n = t.n
    BY <1>0, <1>6, TaskParts
  <2>2. out'[c] = Stored(s, p, cells)
    BY <1>0, <1>1, <1>6, <2>1
  <2>3. /\ Len(Stored(s, p, cells)) = Larger(Len(s), p + Len(cells))
        /\ \A h \in 1 .. Larger(Len(s), p + Len(cells)) :
              Stored(s, p, cells)[h] = IF h - p \in 1 .. Len(cells) THEN cells[h - p]
                                       ELSE IF h <= Len(s) THEN s[h] ELSE Junk
    BY <2>1, StoredSeq, ZenonT(30)
  <2>4. i \in 1 .. Larger(Len(s), p + Len(cells))
    BY <2>2, <2>3
  <2>5. out'[c][i] = IF i - p \in 1 .. n THEN cells[i - p] ELSE s[i]
    BY <1>1, <1>3, <2>1, <2>2, <2>3, <2>4
  <2>6. CASE i - p \notin 1 .. n
    BY <1>4, <2>1, <2>5, <2>6
  <2>7. CASE i - p \in 1 .. n
    <3>1. PICK h \in 1 .. n : h = i - p /\ i = p + h
      BY <2>7
    <3>2. Len(tasks) = 1
      <4>1. 1 \in 1 .. Len(tasks)
        BY <1>1
      <4> QED
        BY <1>0, <1>1, <1>6, <4>1 DEF SendIsLast
    <3>3. WillBe(t.from, t.pos + h, expected[c][p + h])
      <4>1. 1 \in 1 .. Len(tasks) /\ h \in 1 .. t.n
        BY <2>1, <3>2
      <4> QED
        BY <1>0, <1>1, <1>6, <2>1, <4>1 DEF SendRight
    <3>4. CellAt(mem[t.from], t.pos + h) = expected[c][p + h]
      <4>1. \A k \in 1 .. Len(tasks) : tasks[k].op # "copy"
        BY <1>1, <1>6, <3>2
      <4> QED
        BY <3>3, <4>1 DEF WillBe, At
    <3>5. cells[h] = CellAt(mem[t.from], t.pos + h)
      <4>1. PICK r \in Seq(Cells), q \in Nat : r = mem[t.from] /\ q = t.pos
        BY <1>0, TaskParts
      <4>2. Piece(r, q, n)[h] = CellAt(r, q + h)
        BY CellOfPiece
      <4> QED
        BY <1>1, <2>1, <4>1, <4>2
    <3> QED
      BY <2>5, <2>7, <3>1, <3>4, <3>5
  <2> QED
    BY <2>6, <2>7
<1> QED
  BY <1>5, <1>6, TaskParts

LEMMA CopierReplies ==
    ASSUME ReplyInv, Waited', CopierStep, SourceKept
    PROVE  ReplyInv'
<1>0. /\ ValueInv /\ CountInv /\ Types /\ tasks \in Seq(TaskType) /\ db \in DbType
      /\ reply \in [Clients -> Seq(BlockType)]
  BY ReplyParts
<1>1. /\ tasks' \in Seq(TaskType) /\ Len(tasks) \in Nat \ {0} /\ Len(tasks') = Len(tasks) - 1
      /\ \A i \in 1 .. Len(tasks') : tasks'[i] = tasks[i + 1]
  BY <1>0, CopierDoes
<1>2. \A i \in 1 .. Len(tasks') : tasks'[i] = tasks[i + 1] /\ i + 1 \in 1 .. Len(tasks)
  BY <1>1
<1>3. UNCHANGED <<db, left, now, todo, bufpos, reply, sentlen, expected>>
  BY DEF CopierStep, clientVars, bufferVars, history
<1>4. ValueInv'
  BY <1>0, ReplyParts, CopierValues
<1>5. Gone' /\ OneUser'
  <2>1. Gone'
    BY <1>3, ReplyParts DEF Gone, HasReplies
  <2> QED
    BY <1>3, <2>1, ReplyParts DEF OneUser
<1>6. OneCopy'
  <2> SUFFICES ASSUME NEW j \in 1 .. Len(tasks'), NEW k \in 1 .. Len(tasks'),
                      tasks'[j].op = "copy", tasks'[k].op = "copy", tasks'[j].to = tasks'[k].to
               PROVE  j = k
    BY DEF OneCopy
  <2>1. j + 1 = k + 1
    BY <1>2, ReplyParts DEF OneCopy
  <2> QED
    BY <2>1
<1>7. CopyFits'
  <2>1. CopyFits
    BY ReplyParts
  <2> QED
    BY <1>2, <1>3, <2>1 DEF CopyFits
<1>8. SharedRight'
  <2> SUFFICES ASSUME NEW x \in SharedObjects PROVE mem'[x] = <<x>>
    BY DEF SharedRight
  <2>1. x \in Locations /\ x \notin Blocks
    BY Locate
  <2> QED
    BY <2>1, CopierMemory, ReplyParts DEF SharedRight
<1>9. ASSUME NEW c \in Clients PROVE BufferRight(c)'
  <2>1. mem'[Static(c)] = mem[Static(c)]
    BY Locate, CopierMemory, ReplyParts
  <2>2. Len(out'[c]) = Len(out[c])
    BY <1>0, CopierLengths
  <2>3. BufferRight(c)
    BY ReplyParts
  <2> QED
    BY <1>3, <2>1, <2>2, <2>3 DEF BufferRight, At
<1>10. ASSUME NEW c \in Clients PROVE ListRight(c)'
  <2>1. ListRight(c)
    BY ReplyParts
  <2> SUFFICES ASSUME NEW i \in 1 .. Len(reply[c])
               PROVE  \A j \in 1 .. reply[c][i].used :
                         (WillBe(reply[c][i].block, j, expected[c][reply[c][i].place + j]))'
    BY <1>3, <2>1 DEF ListRight
  <2>2. PICK z \in BlockType : z = reply[c][i]
    BY <1>0
  <2>3. PICK x \in Locations, p \in Nat, u \in Nat : x = z.block /\ p = z.place /\ u = z.used
    BY BlockParts, Locate
  <2>4. ASSUME NEW j \in 1 .. u PROVE (WillBe(reply[c][i].block, j, expected[c][reply[c][i].place + j]))'
    <3>1. PICK cell : cell = expected[c][p + j]
      OBVIOUS
    <3>2. WillBe(x, j, cell)
      <4>1. WillBe(reply[c][i].block, j, expected[c][reply[c][i].place + j])
        BY <2>1, <2>2, <2>3 DEF ListRight
      <4> QED
        BY <2>2, <2>3, <3>1, <4>1
    <3>3. WillBe(x, j, cell)'
      BY <3>2, CopierWill
    <3> QED
      BY <1>3, <2>2, <2>3, <3>1, <3>3
  <2> QED
    BY <2>2, <2>3, <2>4
<1>11. SendRight'
  <2> SUFFICES ASSUME NEW k \in 1 .. Len(tasks'), tasks'[k].op = "send",
                      NEW i \in 1 .. tasks'[k].n
               PROVE  /\ tasks'[k].place + i <= Len(expected'[tasks'[k].conn])
                      /\ (WillBe(tasks[k].from, tasks[k].pos + i, expected[tasks[k].conn][tasks[k].place + i]))'
    BY DEF SendRight
  <2>1. PICK t \in TaskType : t = tasks'[k] /\ t = tasks[k + 1] /\ k + 1 \in 1 .. Len(tasks)
    BY <1>1, <1>2
  <2>2. /\ t.place + i <= Len(expected[t.conn])
        /\ WillBe(t.from, t.pos + i, expected[t.conn][t.place + i])
    <3>1. SendRight
      BY ReplyParts
    <3> QED
      BY <2>1, <3>1 DEF SendRight
  <2>5. PICK cell : cell = expected[t.conn][t.place + i]
    OBVIOUS
  <2>3. PICK x \in Locations, j \in Nat :
           x = t.from /\ j = t.pos + i /\ j >= 1
    <3>1. t.from \in Locations /\ t.pos \in Nat /\ t.n \in Nat
      BY TaskParts
    <3>2. t.pos + i \in Nat /\ t.pos + i >= 1
      BY <2>1, <3>1
    <3> QED
      BY <3>1, <3>2
  <2>4. WillBe(x, j, cell)'
    BY <2>2, <2>3, <2>5, CopierWill
  <2> QED
    BY <1>3, <2>1, <2>2, <2>3, <2>4, <2>5
<1>12. TodoRight'
  <2>1. TodoRight
    BY ReplyParts
  <2> SUFFICES ASSUME now \in Clients, NEW i \in 1 .. Len(todo)
               PROVE  (/\ todo[i].from \in {Stack} \cup SharedObjects \/ Kept(todo[i].from)
                       /\ todo[i].from = Stack => todo[i].n = 1
                       /\ \A j \in 1 .. todo[i].n :
                             CellOf(todo[i], j) = expected[now][Len(expected[now]) - Rest(i) + j])'
    BY <1>3 DEF TodoRight
  <2>2. PICK p \in PieceType, x \in Locations : p = todo[i] /\ x = p.from
    BY <1>0, PieceParts, SMTT(30) DEF Types
  <2>3. x \in {Stack} \cup SharedObjects \/ Kept(x)
    BY <2>1, <2>2 DEF TodoRight
  <2>4. Kept(x)' <=> Kept(x)
    BY <1>3 DEF Kept
  <2>5. mem'[x] = mem[x]
    <3>1. x \notin Blocks \/ Kept(x)
      BY <2>3, Locate
    <3> QED
      BY <3>1, CopierMemory, ReplyParts
  <2>6. \A j : CellOf(p, j)' = CellOf(p, j)
    BY <2>2, <2>5 DEF CellOf, At
  <2>7. Rest(i)' = Rest(i)
    BY <1>3 DEF Rest, ToAdd, Cost
  <2>8. /\ x = Stack => p.n = 1
        /\ \A j \in 1 .. p.n : CellOf(p, j) = expected[now][Len(expected[now]) - Rest(i) + j]
    BY <2>1, <2>2 DEF TodoRight
  <2> QED
    BY <1>3, <2>2, <2>3, <2>4, <2>6, <2>7, <2>8
<1> QED
  BY <1>4, <1>5, <1>6, <1>7, <1>8, <1>9, <1>10, <1>11, <1>12, SendDelivers DEF ReplyInv

LEMMA FinishReplies ==
    ASSUME ReplyInv, Waited', Finish
    PROVE  ReplyInv'
<1>0. ValueInv /\ Types
  BY ReplyParts
<1>1. ValueInv'
  BY <1>0, ReplyParts, FinishValues
<1>2. now' = NoClient /\ UNCHANGED <<mem, tasks, left, out, bufpos, reply, sentlen, expected>>
  BY DEF Finish, clientVars, bufferVars, history
<1>3. \A x, j, cell : WillBe(x, j, cell)' <=> WillBe(x, j, cell)
  BY <1>2 DEF WillBe, At
<1>4. Gone'
  <2>1. NoClient \notin left
    BY <1>0, Constants DEF Types
  <2> QED
    BY <1>2, <2>1, ReplyParts DEF Gone, HasReplies
<1>5. OneCopy' /\ CopyFits'
  BY <1>2, ReplyParts DEF OneCopy, CopyFits
<1>6. OneUser' /\ SharedRight'
  BY <1>2, ReplyParts DEF OneUser, SharedRight
<1>7. ASSUME NEW c \in Clients PROVE BufferRight(c)' /\ ListRight(c)'
  <2>1. BufferRight(c) /\ ListRight(c)
    BY ReplyParts
  <2>2. BufferRight(c)'
    BY <1>2, <2>1 DEF BufferRight, At
  <2>3. ListRight(c)'
    BY <1>2, <1>3, <2>1 DEF ListRight
  <2> QED
    BY <2>2, <2>3
<1>8. SendRight'
  BY <1>2, <1>3, ReplyParts DEF SendRight
<1>9. TodoRight'
  BY <1>2, Constants DEF TodoRight
<1>10. RepliesAsPromised'
  BY <1>2, ReplyParts DEF RepliesAsPromised
<1> QED
  BY <1>1, <1>4, <1>5, <1>6, <1>7, <1>8, <1>9, <1>10 DEF ReplyInv

\* The pieces of a command are what it promised.
LEMMA PiecesRight ==
    ASSUME NEW c \in Clients, now' = c, NEW t \in Seq(PieceType), todo' = t,
           NEW e \in Seq(Cells), expected'[c] = e,
           \A i \in 1 .. Len(t) :
              /\ t[i].from \in {Stack} \cup SharedObjects \/ Kept(t[i].from)'
              /\ t[i].from = Stack => t[i].n = 1
              /\ \A j \in 1 .. t[i].n : CellOf(t[i], j)' = e[Len(e) - Rest(i)' + j]
    PROVE  TodoRight'
<1> SUFFICES ASSUME NEW i \in 1 .. Len(t)
             PROVE  (/\ todo[i].from \in {Stack} \cup SharedObjects \/ Kept(todo[i].from)
                     /\ todo[i].from = Stack => todo[i].n = 1
                     /\ \A j \in 1 .. todo[i].n :
                           CellOf(todo[i], j) = expected[now][Len(expected[now]) - Rest(i) + j])'
  BY DEF TodoRight
<1>1. PICK p : p = t[i]
  OBVIOUS
<1>2. /\ p.from \in {Stack} \cup SharedObjects \/ Kept(p.from)'
      /\ p.from = Stack => p.n = 1
      /\ \A j \in 1 .. p.n : CellOf(p, j)' = e[Len(e) - Rest(i)' + j]
  BY <1>1
<1>3. todo'[i] = p /\ expected'[now'] = e
  BY <1>1
<1>4. Kept(p.from)' => Kept(todo[i].from)'
  BY <1>3 DEF Kept
<1>5. \A j : CellOf(todo[i], j)' = CellOf(p, j)'
  BY <1>3 DEF CellOf, At
<1> QED
  BY <1>2, <1>3, <1>4, <1>5

LEMMA Concat ==
    ASSUME NEW a \in Seq(Cells), NEW b \in Seq(Cells)
    PROVE  \E e \in Seq(Cells), m \in Nat, n \in Nat :
              /\ e = a \o b /\ m = Len(a) /\ n = Len(b) /\ Len(e) = m + n
              /\ \A j \in 1 .. m : e[j] = a[j]
              /\ \A j \in 1 .. n : e[m + j] = b[j]
<1>1. PICK m \in Nat, n \in Nat : m = Len(a) /\ n = Len(b)
  OBVIOUS
<1>2. a \o b \in Seq(Cells) /\ Len(a \o b) = m + n
  BY <1>1
<1>3. \A j \in 1 .. m : (a \o b)[j] = a[j]
  BY <1>1
<1>4. \A j \in 1 .. n : (a \o b)[m + j] = b[j]
  <2> SUFFICES ASSUME NEW j \in 1 .. n PROVE (a \o b)[m + j] = b[j]
    OBVIOUS
  <2>1. m + j \in 1 .. m + n /\ ~(m + j <= m) /\ (m + j) - m = j
    OBVIOUS
  <2> QED
    BY <1>1, <2>1
<1> QED
  BY <1>1, <1>2, <1>3, <1>4

LEMMA OnePiece ==
    ASSUME NEW c \in Clients, now' = c, NEW x \in SharedObjects, todo' = <<Object(x, 1)>>,
           mem'[x] = <<x>>, NEW s \in Seq(Cells), expected'[c] = s \o <<x>>
    PROVE  TodoRight'
<1>1. PICK p \in PieceType : p = Object(x, 1)
  BY Locate, SomeCells DEF Object, PieceType, SharedObjects
<1>2. p.from = x /\ p.n = 1
  BY <1>1 DEF Object
<1>3. PICK t \in Seq(PieceType) : t = <<p>> /\ Len(t) = 1 /\ t[1] = p
  <2>1. <<p>> \in Seq(PieceType)
    OBVIOUS
  <2> QED
    BY <2>1
<1>4. todo' = t
  BY <1>1, <1>3
<1>5. Rest(1)' = 1
  <2>1. ToAdd' = p.n
    BY <1>3, <1>4, TotalOf
  <2> QED
    BY <1>2, <2>1 DEF Rest
<1>6. PICK e \in Seq(Cells) : e = s \o <<x>> /\ Len(e) = Len(s) + 1 /\ e[Len(s) + 1] = x
  <2>1. x \in Cells
    BY SomeCells
  <2>2. PICK y \in Seq(Cells) : y = <<x>> /\ Len(y) = 1 /\ y[1] = x
    <3>1. <<x>> \in Seq(Cells)
      BY <2>1
    <3> QED
      BY <3>1
  <2>3. s \o y \in Seq(Cells)
    OBVIOUS
  <2>4. Len(s \o y) = Len(s) + 1 /\ (s \o y)[Len(s) + 1] = x
    BY <2>2
  <2> QED
    BY <2>2, <2>3, <2>4
<1>7. CellOf(p, 1)' = x /\ x # Stack
  <2>1. x # Stack
    BY DEF SharedObjects, Stack, LineEnd, Ok, Null
  <2>2. CellAt(<<x>>, 1) = x
    BY DEF CellAt
  <2> QED
    BY <1>2, <2>1, <2>2 DEF CellOf, At
<1>8. Len(e) - 1 + 1 = Len(s) + 1
  BY <1>6
<1>9. ASSUME NEW j \in 1 .. 1 PROVE CellOf(p, j)' = e[Len(e) - Rest(1)' + j]
  <2>1. j = 1
    OBVIOUS
  <2>2. e[Len(e) - Rest(1)' + 1] = x
    BY <1>5, <1>6, <1>8
  <2> QED
    BY <1>7, <2>1, <2>2
<1>10. \A i \in 1 .. Len(t) : i = 1 /\ t[i] = p
  BY <1>3
<1>11. \A i \in 1 .. Len(t) :
          /\ t[i].from \in {Stack} \cup SharedObjects \/ Kept(t[i].from)'
          /\ t[i].from = Stack => t[i].n = 1
          /\ \A j \in 1 .. t[i].n : CellOf(t[i], j)' = e[Len(e) - Rest(i)' + j]
  BY <1>2, <1>7, <1>9, <1>10
<1>12. expected'[c] = e
  BY <1>6
<1> QED
  BY <1>4, <1>11, <1>12, PiecesRight

LEMMA ThreePieces ==
    ASSUME ReplyInv, SharedRight', NEW c \in Clients, now' = c, NEW x \in Keys, ~Absent(x),
           UNCHANGED <<db, mem>>, todo' = BulkPieces(x), expected'[c] = expected[c] \o BulkCells(x)
    PROVE  TodoRight'
<1>1. /\ CountInv /\ AllKept /\ expected[c] \in Seq(Cells)
      /\ db \in DbType /\ mem \in [Locations -> Seq(Cells)]
  BY ReplyParts, Known
<1>2. PICK w \in Values, b \in Blocks : w = db[x].value /\ b = db[x].block /\ Kept(b)
  BY <1>1, KeyParts
<1>3. PICK n \in Nat \ {0}, d \in Seq(Cells) : n = ValueLen[w] /\ d = ValueCells(w) /\ Len(d) = n
  <2>1. ValueLen[w] \in Nat \ {0} /\ ValueCells(w) \in Seq(Cells) /\ Len(ValueCells(w)) = ValueLen[w]
    BY Constants, ValueSeq
  <2> QED
    BY <2>1
<1>4. todo' = <<OnStack(Header(n)), Object(b, n), Object(LineEnd, 1)>>
  BY <1>2, <1>3 DEF BulkPieces
<1>5. PICK s \in Seq(Cells) : s = expected[c]
  BY <1>1
<1>6. expected'[c] = s \o (<<Header(n)>> \o d \o <<LineEnd>>)
  BY <1>2, <1>3, <1>5 DEF BulkCells
<1>7. mem'[LineEnd] = <<LineEnd>> /\ mem' = mem
  BY DEF SharedRight, SharedObjects
<1>8. Kept(b)'
  BY <1>2 DEF Kept
<1>9. \A j \in 1 .. n : CellAt(mem'[b], j) = d[j]
  <2>1. Piece(mem[b], 0, n) = d
    BY <1>1, <1>2, <1>3 DEF AllKept
  <2> SUFFICES ASSUME NEW j \in 1 .. n PROVE CellAt(mem[b], j) = d[j]
    BY <1>7
  <2>2. PICK u \in Seq(Cells), p \in Nat : u = mem[b] /\ p = 0
    BY <1>1, Locate
  <2>3. Piece(u, p, n)[j] = CellAt(u, p + j)
    BY CellOfPiece
  <2>4. p + j = j
    BY <2>2
  <2> QED
    BY <2>1, <2>2, <2>3, <2>4
<1>10. /\ b \in Locations /\ b # Stack /\ LineEnd # Stack /\ LineEnd \in SharedObjects
      /\ LineEnd \in Locations /\ LineEnd \in Cells /\ Header(n) \in Cells /\ Null \in Cells
      /\ Stack \in Locations
  BY Locate, SomeCells DEF SharedObjects, Stack, LineEnd
<1>11. PICK p \in PieceType, q \in PieceType, r \in PieceType :
         /\ p = OnStack(Header(n)) /\ q = Object(b, n) /\ r = Object(LineEnd, 1)
  <2>1. n \in Nat \ {0} /\ 1 \in Nat \ {0}
    OBVIOUS
  <2>2. OnStack(Header(n)) \in PieceType /\ Object(LineEnd, 1) \in PieceType
    BY ONLY <1>10, <2>1 DEF OnStack, Object, PieceType
  <2>3. Object(b, n) \in PieceType
    BY ONLY <1>10, <2>1 DEF Object, PieceType
  <2> QED
    BY <2>2, <2>3
<1>12. /\ p.from = Stack /\ p.n = 1 /\ p.header = Header(n)
      /\ q.from = b /\ q.n = n /\ r.from = LineEnd /\ r.n = 1
  BY <1>11 DEF OnStack, Object
<1>13. PICK t \in Seq(PieceType) : t = <<p, q, r>> /\ Len(t) = 3 /\ t[1] = p /\ t[2] = q /\ t[3] = r
  <2>1. <<p, q, r>> \in Seq(PieceType)
    OBVIOUS
  <2> QED
    BY <2>1
<1>14. todo' = t
  BY <1>4, <1>11, <1>13
<1>15. Rest(1)' = 1 + n + 1 /\ Rest(2)' = n + 1 /\ Rest(3)' = 1
  <2>1. ToAdd' = p.n + q.n + r.n
    BY <1>13, <1>14, TotalOf
  <2>2. Cost(2)' = n /\ Cost(3)' = 1
    BY <1>12, <1>13, <1>14 DEF Cost
  <2> QED
    BY <1>12, <2>1, <2>2 DEF Rest
<1>16. PICK e \in Seq(Cells), l \in Nat :
         /\ expected'[c] = e /\ Len(e) = l + n + 2 /\ e[l + 1] = Header(n) /\ e[l + n + 2] = LineEnd
         /\ \A j \in 1 .. n : e[l + 1 + j] = d[j]
  <2>1. PICK f \in Seq(Cells), g \in Seq(Cells) :
           /\ f = <<Header(n)>> /\ Len(f) = 1 /\ f[1] = Header(n)
           /\ g = <<LineEnd>> /\ Len(g) = 1 /\ g[1] = LineEnd
    <3>1. <<Header(n)>> \in Seq(Cells) /\ <<LineEnd>> \in Seq(Cells)
      BY <1>10
    <3> QED
      BY <3>1
  <2>2. PICK l \in Nat : l = Len(s)
    BY ONLY <1>10
  <2>3. PICK u \in Seq(Cells) :
           u = f \o d /\ Len(u) = n + 1 /\ u[1] = Header(n) /\ \A j \in 1 .. n : u[1 + j] = d[j]
    <3>1. PICK u \in Seq(Cells), k \in Nat, m \in Nat :
             /\ u = f \o d /\ k = Len(f) /\ m = Len(d) /\ Len(u) = k + m
             /\ \A j \in 1 .. k : u[j] = f[j]
             /\ \A j \in 1 .. m : u[k + j] = d[j]
      BY Concat
    <3>2. k = 1 /\ m = n /\ 1 \in 1 .. k
      BY <1>3, <2>1, <3>1
    <3>3. Len(u) = n + 1 /\ u[1] = Header(n)
      BY <2>1, <3>1, <3>2
    <3> QED
      BY <3>1, <3>2, <3>3, ZenonT(30)
  <2>4. PICK v \in Seq(Cells) :
           v = u \o g /\ Len(v) = n + 2 /\ v[n + 2] = LineEnd /\ \A j \in 1 .. n + 1 : v[j] = u[j]
    <3>1. PICK v \in Seq(Cells), k \in Nat, m \in Nat :
             /\ v = u \o g /\ k = Len(u) /\ m = Len(g) /\ Len(v) = k + m
             /\ \A j \in 1 .. k : v[j] = u[j]
             /\ \A j \in 1 .. m : v[k + j] = g[j]
      BY Concat
    <3>2. k = n + 1 /\ m = 1 /\ k + m = n + 2 /\ k + 1 = n + 2 /\ 1 \in 1 .. m
      BY <2>1, <2>3, <3>1
    <3> QED
      BY <2>1, <3>1, <3>2
  <2>5. PICK e \in Seq(Cells) : e = s \o v /\ Len(e) = l + (n + 2) /\ \A j \in 1 .. n + 2 : e[l + j] = v[j]
    <3>1. PICK e \in Seq(Cells), k \in Nat, m \in Nat :
             /\ e = s \o v /\ k = Len(s) /\ m = Len(v) /\ Len(e) = k + m
             /\ \A j \in 1 .. k : e[j] = s[j]
             /\ \A j \in 1 .. m : e[k + j] = v[j]
      BY Concat, ZenonT(30)
    <3>2. k = l /\ m = n + 2
      BY <2>2, <2>4, <3>1
    <3>3. Len(e) = l + (n + 2) /\ \A j \in 1 .. n + 2 : e[l + j] = v[j]
      BY <3>1, <3>2
    <3> QED
      BY <3>1, <3>3
  <2>6. e[l + 1] = Header(n) /\ e[l + n + 2] = LineEnd /\ Len(e) = l + n + 2
    <3>1. 1 \in 1 .. n + 1 /\ 1 \in 1 .. n + 2 /\ n + 2 \in 1 .. n + 2 /\ l + n + 2 = l + (n + 2)
      OBVIOUS
    <3>2. e[l + 1] = v[1] /\ v[1] = u[1] /\ e[l + (n + 2)] = v[n + 2]
      BY <2>4, <2>5, <3>1
    <3> QED
      BY <2>3, <2>4, <2>5, <3>1, <3>2
  <2>7. ASSUME NEW j \in 1 .. n PROVE e[l + 1 + j] = d[j]
    <3>1. 1 + j \in 1 .. n + 1 /\ 1 + j \in 1 .. n + 2 /\ l + 1 + j = l + (1 + j)
      OBVIOUS
    <3>2. e[l + (1 + j)] = v[1 + j]
      BY ONLY <2>5, <3>1
    <3>3. v[1 + j] = u[1 + j] /\ u[1 + j] = d[j]
      BY ONLY <2>3, <2>4, <3>1
    <3> QED
      BY ONLY <3>1, <3>2, <3>3
  <2>8. expected'[c] = e
    BY <1>6, <2>1, <2>3, <2>4, <2>5
  <2> QED
    BY <2>6, <2>7, <2>8
<1>17. \A j \in 1 .. p.n : CellOf(p, j)' = e[Len(e) - Rest(1)' + j]
  <2>1. CellOf(p, 1)' = Header(n)
    BY <1>12 DEF CellOf
  <2>2. Len(e) - (1 + n + 1) + 1 = l + 1
    BY <1>16
  <2> QED
    BY <1>12, <1>15, <1>16, <2>1, <2>2
<1>18. ASSUME NEW j \in 1 .. n PROVE CellOf(q, j)' = e[Len(e) - Rest(2)' + j]
  <2>1. CellOf(q, j)' = d[j]
    BY <1>10, <1>12, <1>9 DEF CellOf, At
  <2>2. Len(e) - (n + 1) + j = l + 1 + j
    BY <1>16
  <2> QED
    BY <1>15, <1>16, <2>1, <2>2
<1>19. ASSUME NEW j \in 1 .. 1 PROVE CellOf(r, j)' = e[Len(e) - Rest(3)' + j]
  <2>0. j = 1
    OBVIOUS
  <2>1. CellOf(r, 1)' = LineEnd
    <3>1. CellAt(<<LineEnd>>, 1) = LineEnd
      BY DEF CellAt
    <3> QED
      BY <1>10, <1>12, <1>7, <3>1 DEF CellOf, At
  <2>2. Len(e) - 1 + 1 = l + n + 2
    BY <1>16
  <2>3. e[Len(e) - Rest(3)' + 1] = LineEnd
    BY <1>15, <1>16, <2>2
  <2>4. e[Len(e) - Rest(3)' + j] = LineEnd
    BY <2>0, <2>3
  <2>5. CellOf(r, j)' = LineEnd
    BY <2>0, <2>1
  <2> QED
    BY <2>4, <2>5
<1>20. \A i \in 1 .. Len(t) :
          \/ i = 1 /\ t[i] = p
          \/ i = 2 /\ t[i] = q
          \/ i = 3 /\ t[i] = r
  BY <1>13
<1>21. \A i \in 1 .. Len(t) :
          /\ t[i].from \in {Stack} \cup SharedObjects \/ Kept(t[i].from)'
          /\ t[i].from = Stack => t[i].n = 1
          /\ \A j \in 1 .. t[i].n : CellOf(t[i], j)' = e[Len(e) - Rest(i)' + j]
  <2> SUFFICES ASSUME NEW i \in 1 .. Len(t)
               PROVE  /\ t[i].from \in {Stack} \cup SharedObjects \/ Kept(t[i].from)'
                      /\ t[i].from = Stack => t[i].n = 1
                      /\ \A j \in 1 .. t[i].n : CellOf(t[i], j)' = e[Len(e) - Rest(i)' + j]
    OBVIOUS
  <2>1. CASE i = 1 /\ t[i] = p
    BY <1>12, <1>17, <2>1
  <2>2. CASE i = 2 /\ t[i] = q
    BY <1>10, <1>12, <1>18, <1>8, <2>2
  <2>3. CASE i = 3 /\ t[i] = r
    BY <1>10, <1>12, <1>19, <2>3
  <2> QED
    BY <1>20, <2>1, <2>2, <2>3
<1> QED
  BY <1>14, <1>16, <1>21, PiecesRight

\* A command that is executed writes to a free block at most, and what it
\* promises is what its pieces are.
LEMMA ExecuteMemory ==
    ASSUME ValueInv, NEW c \in Clients, Execute(c), NEW x \in Locations,
           x \in Blocks => Kept(x) \/ Listed(x)
    PROVE  mem'[x] = mem[x]
<1>1. CountInv /\ Types /\ mem \in [Locations -> Seq(Cells)]
  BY ValueParts
<1>2. PICK cmd \in Command :
              IF cmd.op = "set"
              THEN \E b \in Free :
                     /\ db' = [db EXCEPT ![cmd.key] = [block |-> b, value |-> cmd.value]]
                     /\ mem' = [mem EXCEPT ![b] = Stored(@, 0, ValueCells(cmd.value))]
              ELSE UNCHANGED <<db, mem>>
  BY <1>1, NextCommand
<1>3. CASE cmd.op # "set"
  BY <1>2, <1>3
<1>4. CASE cmd.op = "set"
  <2>1. PICK b \in Free : mem' = [mem EXCEPT ![b] = Stored(@, 0, ValueCells(cmd.value))]
    BY <1>2, <1>4
  <2>2. b \in Blocks /\ ~Kept(b) /\ ~Listed(b)
    BY <1>1, FreeParts
  <2>3. x # b
    BY <2>2
  <2> QED
    BY <1>1, <2>1, <2>3
<1> QED
  BY <1>3, <1>4

LEMMA SharedAfter ==
    ASSUME SharedRight, \A x \in Locations \ Blocks : x # Stack => mem'[x] = mem[x]
    PROVE  SharedRight'
<1> SUFFICES ASSUME NEW x \in SharedObjects PROVE mem'[x] = <<x>>
  BY DEF SharedRight
<1>1. x \in Locations \ Blocks
  BY Locate
<1>2. x # Stack
  BY DEF SharedObjects, Stack, LineEnd, Ok, Null
<1> QED
  BY <1>1, <1>2 DEF SharedRight

LEMMA ExecuteTodo ==
    ASSUME ReplyInv, ValueInv', SharedRight', NEW c \in Clients, Execute(c)
    PROVE  TodoRight'
<1>0. /\ ValueInv /\ CountInv /\ Types /\ SharedRight /\ expected[c] \in Seq(Cells)
      /\ db \in DbType /\ mem \in [Locations -> Seq(Cells)]
      /\ expected \in [Clients -> Seq(Cells)]
  BY ReplyParts, Known DEF Types
<1>1. PICK cmd \in Command :
              /\ now' = c /\ todo' = Pieces(cmd)
              /\ expected' = [expected EXCEPT ![c] = @ \o Promise(cmd)]
              /\ cmd.op # "set" => UNCHANGED <<db, mem>>
  <2>1. PICK cmd \in Command :
              /\ now' = c /\ todo' = Pieces(cmd)
              /\ expected' = [expected EXCEPT ![c] = @ \o Promise(cmd)]
              /\ IF cmd.op = "set"
                 THEN \E b \in Free :
                     /\ db' = [db EXCEPT ![cmd.key] = [block |-> b, value |-> cmd.value]]
                     /\ mem' = [mem EXCEPT ![b] = Stored(@, 0, ValueCells(cmd.value))]
                     /\ exposed' = IF CopyWaits(b) THEN exposed \cup {b} ELSE exposed \ {b}
                 ELSE UNCHANGED <<db, mem, exposed>>
    BY <1>0, NextCommand
  <2> QED
    BY <2>1
<1>2. expected'[c] = expected[c] \o Promise(cmd)
  BY <1>0, <1>1
<1>3. PICK s \in Seq(Cells) : s = expected[c]
  BY <1>0
<1>4. Ok \in SharedObjects /\ Null \in SharedObjects /\ LineEnd \in SharedObjects
  BY DEF SharedObjects
<1>5. mem'[Ok] = <<Ok>> /\ mem'[Null] = <<Null>> /\ mem'[LineEnd] = <<LineEnd>>
  BY <1>4 DEF SharedRight
<1>6. CASE cmd.op = "set"
  <2>1. todo' = <<Object(Ok, 1)>> /\ expected'[c] = s \o <<Ok>>
    BY <1>1, <1>2, <1>3, <1>6 DEF Pieces, Promise
  <2> QED
    BY <1>1, <1>4, <1>5, <2>1, OnePiece
<1>7. CASE cmd.op # "set" /\ Absent(cmd.key)
  <2>1. todo' = <<Object(Null, 1)>> /\ expected'[c] = s \o <<Null>>
    BY <1>1, <1>2, <1>3, <1>7 DEF Pieces, Promise, BulkPieces, BulkCells
  <2> QED
    BY <1>1, <1>4, <1>5, <2>1, OnePiece
<1>8. CASE cmd.op # "set" /\ ~Absent(cmd.key)
  <2>1. PICK k \in Keys : k = cmd.key /\ ~Absent(k)
    BY <1>8, CommandParts
  <2>2. todo' = BulkPieces(k) /\ expected'[c] = expected[c] \o BulkCells(k)
    BY <1>1, <1>2, <1>8, <2>1 DEF Pieces, Promise
  <2> QED
    BY <1>1, <1>8, <2>1, <2>2, ThreePieces
<1> QED
  BY <1>6, <1>7, <1>8

LEMMA ExecuteReplies ==
    ASSUME ReplyInv, Waited', SourceKept, NEW c \in Clients, Execute(c)
    PROVE  ReplyInv'
<1>0. /\ ValueInv /\ CountInv /\ Types /\ tasks \in Seq(TaskType) /\ db \in DbType
      /\ reply \in [Clients -> Seq(BlockType)] /\ expected \in [Clients -> Seq(Cells)]
      /\ Gone /\ OneCopy /\ CopyFits /\ OneUser /\ SharedRight /\ RepliesAsPromised
  BY ReplyParts DEF Types
<1>1. ValueInv'
  BY <1>0, ReplyParts, ExecuteValues
<1>2. PICK cmd \in Command :
              /\ Running /\ c \notin left /\ now' = c
              /\ expected' = [expected EXCEPT ![c] = @ \o Promise(cmd)]
              /\ UNCHANGED <<tasks, left, out, bufpos, reply, sentlen>>
  BY <1>0, NextCommand
<1>3. ASSUME NEW x \in Clients
      PROVE  Longer(x) /\ (x # c => expected'[x] = expected[x])
  <2>1. CASE x # c
    <3>1. expected'[x] = expected[x] /\ expected[x] \in Seq(Cells)
      BY <1>0, <1>2, <2>1
    <3> QED
      BY <2>1, <3>1 DEF Longer
  <2>2. CASE x = c
    <3>1. PICK a \in Seq(Cells), b \in Seq(Cells) : a = expected[c] /\ b = Promise(cmd)
      BY <1>0, PromiseTotal
    <3>2. expected'[x] = a \o b
      BY <1>0, <1>2, <2>2, <3>1
    <3>3. PICK e \in Seq(Cells), m \in Nat, n \in Nat :
              /\ e = a \o b /\ m = Len(a) /\ n = Len(b) /\ Len(e) = m + n
              /\ \A j \in 1 .. m : e[j] = a[j]
              /\ \A j \in 1 .. n : e[m + j] = b[j]
      BY Concat
    <3>4. m <= Len(e)
      BY <3>3
    <3> QED
      BY <2>2, <3>1, <3>2, <3>3, <3>4 DEF Longer
  <2> QED
    BY <2>1, <2>2
<1>4. ASSUME NEW x \in Locations, x \in Blocks => Kept(x) \/ Listed(x)
      PROVE  mem'[x] = mem[x]
  BY <1>0, <1>4, ExecuteMemory
<1>5. Gone'
  BY <1>0, <1>2 DEF Gone, HasReplies
<1>6. OneCopy' /\ CopyFits'
  BY <1>0, <1>2 DEF OneCopy, CopyFits
<1>7. OneUser'
  BY <1>0, <1>2 DEF OneUser
<1>8. SharedRight'
  BY <1>0, <1>4, SharedAfter
<1>9. ASSUME NEW x \in Clients PROVE BufferRight(x)' /\ ListRight(x)'
  <2>1. Longer(x)
    BY <1>3
  <2>2. mem'[Static(x)] = mem[Static(x)]
    BY <1>4, Locate
  <2>3. BufferRight(x)'
    BY <1>2, <2>1, <2>2, BufferStays
  <2>4. ASSUME NEW k \in 1 .. Len(reply[x]) PROVE mem'[reply[x][k].block] = mem[reply[x][k].block]
    <3>1. PICK z \in BlockType : z = reply[x][k]
      BY <1>0
    <3>2. z.block \in Locations /\ Listed(z.block)
      BY <3>1, BlockParts, Locate DEF Listed
    <3> QED
      BY <1>4, <3>1, <3>2
  <2>5. \A y : AddsNoCopyTo(y)
    BY <1>2 DEF AddsNoCopyTo
  <2>6. ListRight(x)'
    BY <1>0, <1>2, <2>1, <2>4, <2>5, ListStays
  <2> QED
    BY <2>3, <2>6
<1>10. SendRight'
  <2>1. \A k \in 1 .. Len(tasks) : tasks[k].op = "copy"
    BY <1>0, <1>2, ReplyParts, WhileRunning
  <2> QED
    BY <1>2, <2>1 DEF SendRight
<1>11. TodoRight'
  BY <1>1, <1>8, ExecuteTodo
<1>12. RepliesAsPromised'
  <2> SUFFICES ASSUME NEW x \in Clients, NEW i \in 1 .. Len(out[x])
               PROVE  out[x][i] \in {Pending, expected'[x][i]}
    BY <1>2 DEF RepliesAsPromised
  <2>1. out[x][i] \in {Pending, expected[x][i]}
    BY <1>0 DEF RepliesAsPromised
  <2>2. expected'[x][i] = expected[x][i]
    <3>1. CASE x = c
      <4>1. Len(out[x]) <= Len(expected[x]) /\ Len(out[x]) \in Nat /\ Len(expected[x]) \in Nat
        BY <1>0, <1>2, <3>1, InPromise, Known
      <4>2. i \in 1 .. Len(expected[x])
        BY <4>1
      <4> QED
        BY <1>3, <4>2 DEF Longer
    <3> QED
      BY <1>3, <3>1
  <2> QED
    BY <2>1, <2>2
<1> QED
  BY <1>1, <1>5, <1>6, <1>7, <1>8, <1>9, <1>10, <1>11, <1>12 DEF ReplyInv

\* The cells of the first piece are those that are promised next.
LEMMA AddCells ==
    ASSUME ReplyInv, NEW c \in Clients, c = now, todo # <<>>,
           NEW piece \in PieceType, piece = todo[1],
           NEW memory \in [Locations -> Seq(Cells)], memory = Composed(piece),
           NEW cells, cells = Piece(memory[piece.from], 0, piece.n)
    PROVE  /\ piece.from \in Blocks => Kept(piece.from)
           /\ AddedSoFar(c) + piece.n <= Len(expected[c])
           /\ \A j \in 1 .. piece.n :
                 /\ CellAt(memory[piece.from], j) = expected[c][AddedSoFar(c) + j]
                 /\ cells[j] = expected[c][AddedSoFar(c) + j]
<1>0. /\ CountInv /\ Types /\ Gone /\ TodoRight /\ Rising(reply[c])
      /\ todo \in Seq(PieceType) /\ Len(todo) <= 3 /\ mem \in [Locations -> Seq(Cells)]
  BY ReplyParts DEF Types, CountInv
<1>1. PICK n \in Nat, x \in Locations : n = piece.n /\ x = piece.from
  BY PieceParts
<1>2. 1 \in 1 .. Len(todo)
  BY <1>0
<1>3. PICK r \in Nat : ToAdd = n + r
  <2>2. /\ Cost(1) \in Nat /\ Cost(2) \in Nat /\ Cost(3) \in Nat
    BY <1>0, Costs
  <2>3. Cost(1) = n
    BY <1>1, <1>2 DEF Cost
  <2>4. Cost(2) + Cost(3) \in Nat /\ ToAdd = n + (Cost(2) + Cost(3))
    BY <2>2, <2>3 DEF ToAdd
  <2> QED
    BY <2>4
<1>4. PICK e \in Nat, a \in Nat : e = Len(expected[c]) /\ a = AddedSoFar(c) /\ a = e - (n + r)
  <2>1. c \notin left
    BY <1>0 DEF Gone
  <2>2. PICK a \in Nat : a = Len(expected[c]) - ToAdd /\ AddedSoFar(c) = a
    BY <1>0, <2>1, SentOfPromise
  <2>3. Len(expected[c]) \in Nat
    BY <1>0, Known
  <2> QED
    BY <1>3, <2>2, <2>3
<1>5. Rest(1) = n + r
  BY <1>3 DEF Rest
<1>6. /\ x \in {Stack} \cup SharedObjects \/ Kept(x)
      /\ x = Stack => n = 1
      /\ \A j \in 1 .. n : CellOf(piece, j) = expected[c][e - (n + r) + j]
  BY <1>0, <1>1, <1>2, <1>4, <1>5 DEF TodoRight
<1>7. ASSUME NEW j \in 1 .. n PROVE CellAt(memory[x], j) = expected[c][a + j]
  <2>1. CellAt(memory[x], j) = CellOf(piece, j)
    <3>1. CASE x = Stack
      <4>0. j = 1
        BY <1>6, <3>1
      <4>3. Composed(piece)[Stack] = <<piece.header>>
        BY <1>0, <1>1, <3>1, ComposedMemory
      <4>1. j = 1 /\ memory[x] = <<piece.header>>
        BY <3>1, <4>0, <4>3
      <4>2. CellAt(<<piece.header>>, 1) = piece.header
        BY DEF CellAt
      <4> QED
        BY <1>1, <3>1, <4>1, <4>2 DEF CellOf
    <3>2. CASE x # Stack
      <4>1. memory[x] = mem[x]
        BY <1>0, <3>2, ComposedMemory
      <4> QED
        BY <1>1, <3>2, <4>1 DEF CellOf, At
    <3> QED
      BY <3>1, <3>2
  <2>2. CellOf(piece, j) = expected[c][e - (n + r) + j]
    BY <1>6
  <2> QED
    BY <1>4, <2>1, <2>2
<1>8. ASSUME NEW j \in 1 .. n PROVE cells[j] = CellAt(memory[x], j)
  <2>1. PICK s \in Seq(Cells), p \in Nat : s = memory[x] /\ p = 0
    OBVIOUS
  <2>2. Piece(s, p, n)[j] = CellAt(s, p + j)
    BY CellOfPiece
  <2>3. p + j = j
    BY <2>1
  <2> QED
    BY <1>1, <2>1, <2>2, <2>3
<1>9. x \in Blocks => Kept(x)
  BY <1>6, Locate
<1>10. a + n <= e
  BY <1>4
<1> QED
  BY <1>1, <1>4, <1>7, <1>8, <1>9, <1>10

\* What it does to the lists: the last block grows, or one that was free is added
\* and the copy to it posted.
LEMMA AddShape ==
    ASSUME ValueInv, AddReply, NEW c \in Clients, c = now
    PROVE  \E b :
              /\ Running /\ UNCHANGED <<db, left, out, now, sentlen, expected>>
              /\ reply' \in [Clients -> Seq(BlockType)]
              /\ \A y \in Clients : y # c => reply'[y] = reply[y] /\ bufpos'[y] = bufpos[y]
              /\ \A i \in 1 .. Len(reply[c]) :
                    /\ i \in 1 .. Len(reply'[c])
                    /\ reply'[c][i].block = reply[c][i].block
                    /\ reply[c][i].used <= reply'[c][i].used
              /\ \/ tasks' = tasks /\ Len(reply'[c]) = Len(reply[c])
                 \/ /\ b \in Free /\ Len(reply'[c]) = Len(reply[c]) + 1
                    /\ reply'[c][Len(reply[c]) + 1].block = b
                    /\ \E t \in CopyType : /\ t.to = b /\ tasks' = Append(tasks, t)
                                           /\ t.n <= reply'[c][Len(reply[c]) + 1].used
<1>0. /\ CountInv /\ Types /\ reply \in [Clients -> Seq(BlockType)]
      /\ bufpos \in [Clients -> Nat]
  BY ValueParts DEF Types
<1>1. PICK piece \in PieceType, cells \in Seq(Cells), memory \in [Locations -> Seq(Cells)] :
              /\ Running /\ UNCHANGED <<db, left, out, now, sentlen, expected>>
              /\ \/ ToBuffer(c, piece.n, memory, cells)
                 \/ /\ ToLast(c, piece.n, memory, cells)
                    /\ reply' = [reply EXCEPT ![c] = Grown(@, piece.n)]
                    /\ UNCHANGED <<bufpos, tasks>>
                 \/ \E b \in Free, part \in Nat :
                    /\ part < piece.n
                    /\ ToLast(c, part, memory, cells) /\ ToNew(c, piece, part, b)
                    /\ UNCHANGED bufpos
  <2>1. PICK x \in Clients, piece \in PieceType, cells \in Seq(Cells),
             memory \in [Locations -> Seq(Cells)] :
              /\ Running /\ x = now /\ todo # <<>> /\ piece = todo[1] /\ todo' = Tail(todo)
              /\ memory = Composed(piece)
              /\ cells = Piece(memory[piece.from], 0, piece.n) /\ Len(cells) = piece.n
              /\ UNCHANGED <<db, asked, left, out, phase, now, sentlen,
                             pendingWrite, handler, writer, expected, ends>>
              /\ \/ ToBuffer(x, piece.n, memory, cells)
                 \/ /\ ToLast(x, piece.n, memory, cells)
                    /\ reply' = [reply EXCEPT ![x] = Grown(@, piece.n)]
                    /\ UNCHANGED <<bufpos, tasks>>
                 \/ \E b \in Free, part \in Nat :
                    /\ part < piece.n
                    /\ ToLast(x, part, memory, cells) /\ ToNew(x, piece, part, b)
                    /\ UNCHANGED bufpos
    BY <1>0, AddDoes
  <2>2. x = c
    BY <2>1
  <2> QED
    BY <2>1, <2>2
<1>2. PICK n \in Nat, list \in Seq(BlockType) : n = piece.n /\ list = reply[c]
  BY <1>0, PieceParts
<1>3. ASSUME NEW i \in 1 .. Len(list) PROVE list[i].used \in Nat
  <2>1. PICK z \in BlockType : z = list[i]
    OBVIOUS
  <2> QED
    BY <2>1, BlockParts
<1>4. CASE ToBuffer(c, n, memory, cells)
  <2>1. /\ tasks' = tasks /\ reply' = reply
        /\ bufpos' = [bufpos EXCEPT ![c] = @ + n]
    BY <1>4 DEF ToBuffer
  <2>2. \A y \in Clients : y # c => bufpos'[y] = bufpos[y]
    BY <1>0, <2>1
  <2>3. \A i \in 1 .. Len(reply[c]) : reply[c][i].used <= reply[c][i].used
    BY <1>2, <1>3
  <2> QED
    BY <1>0, <1>1, <2>1, <2>2, <2>3
<1>5. CASE /\ ToLast(c, n, memory, cells)
           /\ reply' = [reply EXCEPT ![c] = Grown(@, n)]
           /\ UNCHANGED <<bufpos, tasks>>
  <2>1. list = <<>> => n = 0
    BY <1>2, <1>5 DEF ToLast
  <2>2. PICK new \in Seq(BlockType) : new = Grown(list, n)
    BY <2>1, GrownParts
  <2>3. /\ Len(new) = Len(list)
        /\ \A i \in 1 .. Len(list) :
              /\ new[i].block = list[i].block
              /\ new[i].used = IF i = Len(list) THEN list[i].used + n ELSE list[i].used
    BY <2>1, <2>2, GrownParts
  <2>4. \A i \in 1 .. Len(list) : list[i].used <= new[i].used
    BY <1>3, <2>3
  <2>5. /\ reply' \in [Clients -> Seq(BlockType)] /\ reply'[c] = new
        /\ \A y \in Clients : y # c => reply'[y] = reply[y]
    BY <1>0, <1>2, <1>5, <2>2
  <2> QED
    BY <1>1, <1>2, <1>5, <2>3, <2>4, <2>5
<1>6. CASE \E b \in Free, part \in Nat :
              /\ part < piece.n
              /\ ToLast(c, part, memory, cells) /\ ToNew(c, piece, part, b)
              /\ UNCHANGED bufpos
  <2>1. PICK b \in Free, part \in Nat :
              /\ part < piece.n /\ ToLast(c, part, memory, cells) /\ ToNew(c, piece, part, b)
              /\ UNCHANGED bufpos
    BY <1>6
  <2>2. b \in Blocks
    BY <1>0, FreeParts
  <2>3. PICK new \in Seq(BlockType), z \in BlockType :
              /\ z = NewBlock(b, part, piece.n)
              /\ new = Append(Grown(reply[c], part), z) /\ new # <<>>
              /\ reply' = [reply EXCEPT ![c] = new]
              /\ reply' \in [Clients -> Seq(BlockType)] /\ reply'[c] = new
              /\ \A x \in Clients : x # c => reply'[x] = reply[x]
              /\ Len(new) = Len(reply[c]) + 1 /\ new[Len(new)] = z
              /\ \A i \in 1 .. Len(reply[c]) :
                    /\ new[i].block = reply[c][i].block
                    /\ new[i].place = reply[c][i].place
                    /\ new[i].size = reply[c][i].size
                    /\ new[i].used = IF i = Len(reply[c]) THEN reply[c][i].used + part
                                     ELSE reply[c][i].used
    BY <1>0, <2>1, <2>2, NewList
  <2>4. z.block = b /\ z.used = n - part
    BY <1>0, <1>2, <2>1, <2>2, <2>3, NewBlockParts
  <2>5. /\ Len(new) = Len(list) + 1 /\ new[Len(list) + 1] = z
        /\ \A i \in 1 .. Len(list) :
              /\ new[i].block = list[i].block
              /\ new[i].used = IF i = Len(list) THEN list[i].used + part ELSE list[i].used
    BY <1>2, <2>3
  <2>6. ASSUME NEW i \in 1 .. Len(list)
        PROVE  list[i].used <= new[i].used /\ i \in 1 .. Len(new) /\ new[i].block = list[i].block
    <3>1. i \in 1 .. Len(new)
      BY <2>5
    <3>2. list[i].used \in Nat
      BY <1>3
    <3>3. list[i].used <= new[i].used
      BY <2>5, <3>2
    <3> QED
      BY <2>5, <3>1, <3>3
  <2>7. PICK t \in CopyType : t = CopyTask(b, piece.from, part, piece.n - part)
    BY <2>1, <2>2, NewCopy
  <2>8. t.to = b /\ t.n = n - part /\ tasks' = Append(tasks, t) /\ n - part \in Int
    BY <1>2, <2>1, <2>7 DEF CopyTask, ToNew
  <2>9. t.n <= new[Len(list) + 1].used
    BY <2>4, <2>5, <2>8
  <2>10. /\ reply' \in [Clients -> Seq(BlockType)] /\ reply'[c] = new
         /\ \A y \in Clients : y # c => reply'[y] = reply[y] /\ bufpos'[y] = bufpos[y]
    BY <2>1, <2>3
  <2>11. \E u \in CopyType : /\ u.to = b /\ tasks' = Append(tasks, u)
                             /\ u.n <= new[Len(list) + 1].used
    BY <2>8, <2>9
  <2>12. new[Len(list) + 1].block = b
    BY <2>4, <2>5
  <2>13. Len(new) = Len(list) + 1
    BY <2>5
  <2>14. \A i \in 1 .. Len(list) :
            i \in 1 .. Len(new) /\ new[i].block = list[i].block /\ list[i].used <= new[i].used
    BY <2>6
  <2> QED
    BY <1>1, <1>2, <2>10, <2>11, <2>12, <2>13, <2>14
<1> QED
  BY <1>1, <1>2, <1>4, <1>5, <1>6

LEMMA AddOthers ==
    ASSUME ReplyInv, AddReply, NEW c \in Clients, c = now
    PROVE  Gone' /\ OneCopy' /\ CopyFits' /\ OneUser' /\ SendRight' /\ RepliesAsPromised'
<1>0. /\ ValueInv /\ CountInv /\ Types /\ tasks \in Seq(TaskType)
      /\ reply \in [Clients -> Seq(BlockType)]
      /\ Gone /\ OneCopy /\ CopyFits /\ OneUser /\ RepliesAsPromised
  BY ReplyParts
<1>1. PICK b :
              /\ Running /\ UNCHANGED <<db, left, out, now, sentlen, expected>>
              /\ reply' \in [Clients -> Seq(BlockType)]
              /\ \A y \in Clients : y # c => reply'[y] = reply[y] /\ bufpos'[y] = bufpos[y]
              /\ \A i \in 1 .. Len(reply[c]) :
                    /\ i \in 1 .. Len(reply'[c])
                    /\ reply'[c][i].block = reply[c][i].block
                    /\ reply[c][i].used <= reply'[c][i].used
              /\ \/ tasks' = tasks /\ Len(reply'[c]) = Len(reply[c])
                 \/ /\ b \in Free /\ Len(reply'[c]) = Len(reply[c]) + 1
                    /\ reply'[c][Len(reply[c]) + 1].block = b
                    /\ \E t \in CopyType : /\ t.to = b /\ tasks' = Append(tasks, t)
                                           /\ t.n <= reply'[c][Len(reply[c]) + 1].used
  BY <1>0, AddShape
<1>2. \A k \in 1 .. Len(tasks) : tasks[k].op = "copy" /\ Listed(tasks[k].to)
  BY <1>0, <1>1, ReplyParts, WhileRunning
<1>3. b \in Free => ~Listed(b)
  BY <1>0, FreeParts
<1>4. PICK m \in Nat, l \in Nat : m = Len(tasks) /\ l = Len(reply[c])
  <2>1. Len(tasks) \in Nat /\ Len(reply[c]) \in Nat
    BY <1>0
  <2> QED
    BY <2>1
<1>5. ASSUME NEW k \in 1 .. Len(tasks')
      PROVE  /\ tasks'[k].op = "copy"
             /\ \/ k \in 1 .. m /\ tasks'[k] = tasks[k]
                \/ /\ k = m + 1 /\ tasks'[k].to = b /\ b \in Free /\ Len(reply'[c]) = l + 1
                   /\ tasks'[k].n <= reply'[c][l + 1].used
  <2>1. CASE tasks' = tasks
    BY <1>2, <1>4, <2>1
  <2>2. CASE tasks' # tasks
    <3>1. PICK t \in CopyType : /\ t.to = b /\ tasks' = Append(tasks, t)
                                /\ t.n <= reply'[c][l + 1].used /\ b \in Free
                                /\ Len(reply'[c]) = l + 1
      BY <1>1, <1>4, <2>2
    <3>2. t.op = "copy" /\ t \in TaskType
      BY DEF CopyType, TaskType
    <3>3. /\ Len(tasks') = m + 1 /\ tasks'[m + 1] = t
          /\ \A i \in 1 .. m : tasks'[i] = tasks[i]
      BY <1>0, <1>4, <3>1, <3>2
    <3>4. k \in 1 .. m \/ k = m + 1
      BY <3>3
    <3> QED
      BY <1>2, <1>4, <3>1, <3>2, <3>3, <3>4
  <2> QED
    BY <2>1, <2>2
<1>6. ASSUME NEW y \in Clients, NEW i \in 1 .. Len(reply'[y])
      PROVE  \/ i \in 1 .. Len(reply[y]) /\ reply'[y][i].block = reply[y][i].block
             \/ y = c /\ i = l + 1 /\ reply'[y][i].block = b /\ b \in Free
  <2>1. CASE y # c
    BY <1>1, <2>1
  <2>2. CASE y = c /\ i \in 1 .. l
    BY <1>1, <1>4, <2>2
  <2>3. CASE y = c /\ i \notin 1 .. l
    <3>1. i = l + 1 /\ Len(reply'[c]) = l + 1
      BY <1>1, <1>4, <2>3
    <3> QED
      BY <1>1, <1>4, <2>3, <3>1
  <2> QED
    BY <1>4, <2>1, <2>2, <2>3
<1>7. Gone'
  <2>1. \A y \in Clients : y # c => (HasReplies(y)' <=> HasReplies(y))
    BY <1>1 DEF HasReplies
  <2>2. left \subseteq Clients /\ c \notin left
    BY <1>0 DEF Types, Gone
  <2> QED
    BY <1>0, <1>1, <2>1, <2>2 DEF Gone
<1>8. OneCopy'
  <2> SUFFICES ASSUME NEW j \in 1 .. Len(tasks'), NEW k \in 1 .. Len(tasks'),
                      tasks'[j].to = tasks'[k].to
               PROVE  j = k
    BY DEF OneCopy
  <2>1. CASE j \in 1 .. m /\ tasks'[j] = tasks[j] /\ k \in 1 .. m /\ tasks'[k] = tasks[k]
    BY <1>0, <1>2, <1>4, <2>1 DEF OneCopy
  <2>2. CASE j \in 1 .. m /\ tasks'[j] = tasks[j] /\ tasks'[k].to = b /\ b \in Free
    BY <1>2, <1>3, <1>4, <2>2
  <2>3. CASE k \in 1 .. m /\ tasks'[k] = tasks[k] /\ tasks'[j].to = b /\ b \in Free
    BY <1>2, <1>3, <1>4, <2>3
  <2> QED
    BY <1>5, <2>1, <2>2, <2>3
<1>9. OneUser'
  <2> SUFFICES ASSUME NEW x \in Clients, NEW y \in Clients,
                      NEW i \in 1 .. Len(reply'[x]), NEW j \in 1 .. Len(reply'[y]),
                      reply'[x][i].block = reply'[y][j].block
               PROVE  x = y /\ i = j
    BY DEF OneUser
  <2>1. CASE /\ i \in 1 .. Len(reply[x]) /\ reply'[x][i].block = reply[x][i].block
             /\ j \in 1 .. Len(reply[y]) /\ reply'[y][j].block = reply[y][j].block
    <3>1. reply[x][i].block = reply[y][j].block
      BY <2>1
    <3> QED
      BY <1>0, <2>1, <3>1 DEF OneUser
  <2>2. CASE /\ i \in 1 .. Len(reply[x]) /\ reply'[x][i].block = reply[x][i].block
             /\ reply'[y][j].block = b /\ b \in Free
    <3>1. Listed(b)
      BY <2>2 DEF Listed
    <3> QED
      BY <1>3, <2>2, <3>1
  <2>3. CASE /\ j \in 1 .. Len(reply[y]) /\ reply'[y][j].block = reply[y][j].block
             /\ reply'[x][i].block = b /\ b \in Free
    <3>1. Listed(b)
      BY <2>3 DEF Listed
    <3> QED
      BY <1>3, <2>3, <3>1
  <2> QED
    BY <1>6, <2>1, <2>2, <2>3
<1>10. CopyFits'
  <2> SUFFICES ASSUME NEW k \in 1 .. Len(tasks'), NEW y \in Clients, NEW i \in 1 .. Len(reply'[y]),
                      reply'[y][i].block = tasks'[k].to
               PROVE  tasks'[k].n <= reply'[y][i].used
    BY DEF CopyFits
  <2>1. CASE /\ k \in 1 .. m /\ tasks'[k] = tasks[k]
             /\ i \in 1 .. Len(reply[y]) /\ reply'[y][i].block = reply[y][i].block
    <3>1. tasks[k].n <= reply[y][i].used
      BY <1>0, <1>2, <1>4, <2>1 DEF CopyFits
    <3>2. reply[y][i].used <= reply'[y][i].used
      <4>1. CASE y = c
        BY <1>1, <2>1, <4>1
      <4>2. CASE y # c
        <5>1. PICK z \in BlockType : z = reply[y][i] /\ z = reply'[y][i]
          BY <1>0, <1>1, <2>1, <4>2
        <5>2. z.used \in Nat
          BY BlockParts
        <5> QED
          BY <5>1, <5>2
      <4> QED
        BY <4>1, <4>2
    <3>3. PICK z \in BlockType, w \in BlockType, t \in TaskType :
             z = reply[y][i] /\ w = reply'[y][i] /\ t = tasks[k]
      BY <1>0, <1>1, <1>4, <2>1
    <3>4. z.used \in Nat /\ w.used \in Nat /\ t.n \in Nat
      BY BlockParts, TaskParts
    <3> QED
      BY <2>1, <3>1, <3>2, <3>3, <3>4
  <2>2. CASE /\ k \in 1 .. m /\ tasks'[k] = tasks[k] /\ reply'[y][i].block = b /\ b \in Free
    BY <1>2, <1>3, <1>4, <2>2
  <2>3. CASE /\ tasks'[k].to = b /\ b \in Free
             /\ i \in 1 .. Len(reply[y]) /\ reply'[y][i].block = reply[y][i].block
    <3>1. Listed(b)
      BY <2>3 DEF Listed
    <3> QED
      BY <1>3, <2>3, <3>1
  <2>4. CASE tasks'[k].n <= reply'[c][l + 1].used /\ y = c /\ i = l + 1
    BY <2>4
  <2> QED
    BY <1>5, <1>6, <2>1, <2>2, <2>3, <2>4
<1>11. SendRight'
  BY <1>5 DEF SendRight
<1>12. RepliesAsPromised'
  BY <1>0, <1>1 DEF RepliesAsPromised
<1> QED
  BY <1>7, <1>8, <1>9, <1>10, <1>11, <1>12

LEMMA AddNoCopyTo ==
    ASSUME ValueInv, AddReply, NEW x, Listed(x)
    PROVE  AddsNoCopyTo(x)
<1>0. Types
  BY ValueParts
<1>1. PICK c \in Clients : c = now
  BY <1>0 DEF Types, AddReply
<1>2. PICK b :
              \/ tasks' = tasks
              \/ b \in Free /\ \E t \in CopyType : t.to = b /\ tasks' = Append(tasks, t)
  BY <1>1, AddShape
<1>3. CASE tasks' = tasks
  BY <1>3 DEF AddsNoCopyTo
<1>4. CASE b \in Free /\ \E t \in CopyType : t.to = b /\ tasks' = Append(tasks, t)
  <2>1. PICK t \in CopyType : t.to = b /\ tasks' = Append(tasks, t)
    BY <1>4
  <2>2. t \in TaskType
    BY DEF TaskType
  <2>3. x # b
    BY <1>0, <1>4, FreeParts
  <2> QED
    BY <2>1, <2>2, <2>3 DEF AddsNoCopyTo
<1> QED
  BY <1>2, <1>3, <1>4

\* What adding a piece writes to: the stack, the buffer and the last block.
LEMMA AddMemory ==
    ASSUME ValueInv, AddReply, NEW c \in Clients, c = now, NEW x \in Locations,
           x # Stack, x # Static(c), ~Listed(x)
    PROVE  mem'[x] = mem[x]
<1>0. CountInv /\ Types /\ reply \in [Clients -> Seq(BlockType)]
  BY ValueParts
<1>1. PICK y \in Clients, piece \in PieceType, cells \in Seq(Cells),
             memory \in [Locations -> Seq(Cells)] :
              /\ Running /\ y = now /\ todo # <<>> /\ piece = todo[1] /\ todo' = Tail(todo)
              /\ memory = Composed(piece)
              /\ cells = Piece(memory[piece.from], 0, piece.n) /\ Len(cells) = piece.n
              /\ UNCHANGED <<db, asked, left, out, phase, now, sentlen,
                             pendingWrite, handler, writer, expected, ends>>
              /\ \/ ToBuffer(y, piece.n, memory, cells)
                 \/ /\ ToLast(y, piece.n, memory, cells)
                    /\ reply' = [reply EXCEPT ![y] = Grown(@, piece.n)]
                    /\ UNCHANGED <<bufpos, tasks>>
                 \/ \E b \in Free, part \in Nat :
                    /\ part < piece.n
                    /\ ToLast(y, part, memory, cells) /\ ToNew(y, piece, part, b)
                    /\ UNCHANGED bufpos
  BY <1>0, AddDoes
<1>2. y = c /\ memory[x] = mem[x]
  BY <1>0, <1>1, ComposedMemory
<1>3. CASE ToBuffer(c, piece.n, memory, cells)
  BY <1>2, <1>3 DEF ToBuffer
<1>4. ASSUME NEW part \in Nat, ToLast(c, part, memory, cells) PROVE mem'[x] = mem[x]
  <2>1. PICK list \in Seq(BlockType) : list = reply[c]
    BY <1>0
  <2>2. CASE list = <<>>
    BY <1>2, <1>4, <2>1, <2>2 DEF ToLast
  <2>3. CASE list # <<>>
    <3>1. PICK w : w = list[Len(list)].block
      OBVIOUS
    <3>2. Len(list) \in 1 .. Len(list)
      BY <2>3
    <3>3. Listed(w)
      BY <2>1, <3>1, <3>2 DEF Listed
    <3>4. x # w
      BY <3>3
    <3>5. mem' = [memory EXCEPT ![w] = Stored(@, list[Len(list)].used, SubSeq(cells, 1, part))]
      BY <1>4, <2>1, <2>3, <3>1 DEF ToLast
    <3> QED
      BY <1>2, <3>4, <3>5
  <2> QED
    BY <2>2, <2>3
<1>5. piece.n \in Nat
  BY PieceParts
<1> QED
  BY <1>1, <1>2, <1>3, <1>4, <1>5

\* What is in the blocks stays.
LEMMA OldCells ==
    ASSUME ReplyInv, AddReply, NEW y \in Clients, NEW i \in 1 .. Len(reply[y]),
           NEW z \in BlockType, z = reply[y][i], NEW j \in 1 .. z.used
    PROVE  CellAt(mem'[z.block], j) = CellAt(mem[z.block], j)
<1>0. /\ ValueInv /\ CountInv /\ Types /\ OneUser /\ reply \in [Clients -> Seq(BlockType)]
  BY ReplyParts
<1>1. PICK c \in Clients, piece \in PieceType, cells \in Seq(Cells),
             memory \in [Locations -> Seq(Cells)] :
              /\ Running /\ c = now /\ todo # <<>> /\ piece = todo[1] /\ todo' = Tail(todo)
              /\ memory = Composed(piece)
              /\ cells = Piece(memory[piece.from], 0, piece.n) /\ Len(cells) = piece.n
              /\ UNCHANGED <<db, asked, left, out, phase, now, sentlen,
                             pendingWrite, handler, writer, expected, ends>>
              /\ \/ ToBuffer(c, piece.n, memory, cells)
                 \/ /\ ToLast(c, piece.n, memory, cells)
                    /\ reply' = [reply EXCEPT ![c] = Grown(@, piece.n)]
                    /\ UNCHANGED <<bufpos, tasks>>
                 \/ \E b \in Free, part \in Nat :
                    /\ part < piece.n
                    /\ ToLast(c, part, memory, cells) /\ ToNew(c, piece, part, b)
                    /\ UNCHANGED bufpos
  BY <1>0, AddDoes
<1>2. PICK x \in Locations, n \in Nat : x = z.block /\ n = piece.n /\ x \in Blocks
  BY BlockParts, Locate, PieceParts
<1>3. x # Stack /\ x # Static(c)
  BY <1>2, Locate
<1>4. memory[x] = mem[x]
  BY <1>0, <1>1, <1>3, ComposedMemory
<1>5. CASE ToBuffer(c, n, memory, cells)
  <2>1. mem'[x] = mem[x]
    BY <1>3, <1>4, <1>5 DEF ToBuffer
  <2> QED
    BY <1>2, <2>1
<1>6. ASSUME NEW part \in Nat, part <= n, ToLast(c, part, memory, cells)
      PROVE  CellAt(mem'[x], j) = CellAt(mem[x], j)
  <2>1. PICK list \in Seq(BlockType) : list = reply[c]
    BY <1>0
  <2>2. CASE list = <<>>
    BY <1>4, <1>6, <2>1, <2>2 DEF ToLast
  <2>3. CASE list # <<>>
    <3>1. Len(list) \in 1 .. Len(list)
      BY <2>3
    <3>2. PICK w \in BlockType : w = list[Len(list)]
      BY <3>1
    <3>3. CASE x = w.block
      <4>1. y = c /\ i = Len(list)
        <5>1. PICK k \in 1 .. Len(reply[c]) : k = Len(list) /\ reply[c][k].block = reply[y][i].block
          BY <1>2, <2>1, <3>1, <3>2, <3>3
        <5> QED
          BY <1>0, <5>1 DEF OneUser
      <4>2. z = w
        BY <2>1, <3>2, <4>1
      <4>3. PICK u \in Nat : u = z.used
        BY BlockParts
      <4>4. PICK h \in Nat : h = j /\ h >= 1 /\ h - u \notin 1 .. part
        BY <4>3
      <4>5. PICK s \in Seq(Cells), d \in Seq(Cells) :
               s = memory[x] /\ d = SubSeq(cells, 1, part) /\ Len(d) = part
        <5>1. memory[x] \in Seq(Cells) /\ SubSeq(cells, 1, part) \in Seq(Cells)
          <6>1. part \in Nat /\ part <= Len(cells) /\ cells \in Seq(Cells)
            BY <1>1, <1>2, <1>6
          <6>2. SubSeq(cells, 1, part) \in Seq(Cells)
            BY ONLY <6>1
          <6> QED
            BY <6>2
        <5>2. Len(SubSeq(cells, 1, part)) = part
          BY <1>1, <1>2, <1>6
        <5> QED
          BY <5>1, <5>2
      <4>6. mem'[x] = Stored(s, u, d)
        BY <1>2, <1>6, <2>1, <2>3, <3>2, <3>3, <4>2, <4>3, <4>5 DEF ToLast
      <4>7. CellAt(Stored(s, u, d), h) = CellAt(s, h)
        <5>1. h - u \notin 1 .. Len(d)
          BY <4>4, <4>5
        <5>2. CellAt(Stored(s, u, d), h) = IF h - u \in 1 .. Len(d) THEN d[h - u] ELSE CellAt(s, h)
          <6>1. s \in Seq(Cells) /\ u \in Nat /\ d \in Seq(Cells) /\ h \in Nat /\ h >= 1
            BY <4>4
          <6> QED
            BY ONLY <6>1, CellOfStored
        <5> QED
          BY <5>1, <5>2
      <4> QED
        BY <1>4, <4>4, <4>5, <4>6, <4>7
    <3>4. CASE x # w.block
      <4>1. mem' = [memory EXCEPT ![w.block] = Stored(@, list[Len(list)].used, SubSeq(cells, 1, part))]
        BY <1>6, <2>1, <2>3, <3>2 DEF ToLast
      <4>2. mem'[x] = memory[x]
        BY <3>4, <4>1
      <4> QED
        BY <1>4, <4>2
    <3> QED
      BY <3>3, <3>4
  <2> QED
    BY <2>2, <2>3
<1> QED
  BY <1>1, <1>2, <1>5, <1>6

\* So the cells that are there are, or will be, what they were to be.
LEMMA OldBlock ==
    ASSUME ReplyInv, SourceKept, AddReply, NEW y \in Clients, NEW i \in 1 .. Len(reply[y]),
           NEW z \in BlockType, z = reply[y][i]
    PROVE  /\ z.place + z.used <= Len(expected[y])
           /\ \A j \in 1 .. z.used : \A cell :
                 cell = expected[y][z.place + j] => WillBe(z.block, j, cell)'
<1>0. ValueInv /\ ListRight(y) /\ tasks \in Seq(TaskType)
  BY ReplyParts
<1>1. /\ z.place + z.used <= Len(expected[y])
      /\ \A j \in 1 .. z.used : WillBe(z.block, j, expected[y][z.place + j])
  BY <1>0 DEF ListRight
<1>2. ASSUME NEW j \in 1 .. z.used, NEW cell, cell = expected[y][z.place + j]
      PROVE  WillBe(z.block, j, cell)'
  <2>1. Listed(z.block)
    BY DEF Listed
  <2>2. AddsNoCopyTo(z.block)
    BY <1>0, <2>1, AddNoCopyTo
  <2>3. CellAt(mem'[z.block], j) = CellAt(mem[z.block], j)
    BY OldCells
  <2>4. WillBe(z.block, j, cell)
    BY <1>1, <1>2
  <2> QED
    BY <1>0, <2>2, <2>3, <2>4, WillStay
<1> QED
  BY <1>1, <1>2

\* The piece at the head, in these terms.
Frame == Composed(todo[1])
NewCells == Piece(Frame[todo[1].from], 0, todo[1].n)
ToTail(c, part) == ToLast(c, part, Frame, NewCells) /\ part <= todo[1].n /\ UNCHANGED bufpos
ToOther(c, part) == \E b \in Free : part < todo[1].n /\ ToNew(c, todo[1], part, b)

LEMMA AddNow ==
    ASSUME CountInv, AddReply, NEW c \in Clients, c = now
    PROVE  /\ todo # <<>> /\ todo[1] \in PieceType /\ todo' = Tail(todo)
           /\ UNCHANGED <<db, left, out, now, sentlen, expected>>
           /\ NewCells \in Seq(Cells) /\ Len(NewCells) = todo[1].n
           /\ Frame \in [Locations -> Seq(Cells)]
           /\ \/ ToBuffer(c, todo[1].n, Frame, NewCells)
              \/ \E part \in Nat :
                    /\ ToTail(c, part)
                    /\ \/ /\ part = todo[1].n /\ UNCHANGED tasks
                          /\ reply' = [reply EXCEPT ![c] = Grown(@, part)]
                       \/ ToOther(c, part)
<1>1. PICK x \in Clients, piece \in PieceType, cells \in Seq(Cells),
             memory \in [Locations -> Seq(Cells)] :
              /\ Running /\ x = now /\ todo # <<>> /\ piece = todo[1] /\ todo' = Tail(todo)
              /\ memory = Composed(piece)
              /\ cells = Piece(memory[piece.from], 0, piece.n) /\ Len(cells) = piece.n
              /\ UNCHANGED <<db, asked, left, out, phase, now, sentlen,
                             pendingWrite, handler, writer, expected, ends>>
              /\ \/ ToBuffer(x, piece.n, memory, cells)
                 \/ /\ ToLast(x, piece.n, memory, cells)
                    /\ reply' = [reply EXCEPT ![x] = Grown(@, piece.n)]
                    /\ UNCHANGED <<bufpos, tasks>>
                 \/ \E b \in Free, part \in Nat :
                    /\ part < piece.n
                    /\ ToLast(x, part, memory, cells) /\ ToNew(x, piece, part, b)
                    /\ UNCHANGED bufpos
  BY AddDoes
<1>2. x = c /\ memory = Frame /\ cells = NewCells
  BY <1>1 DEF Frame, NewCells
<1>3. piece.n \in Nat
  BY PieceParts
<1>4. ASSUME ToLast(c, piece.n, memory, cells),
             reply' = [reply EXCEPT ![c] = Grown(@, piece.n)], UNCHANGED <<bufpos, tasks>>
      PROVE  \E part \in Nat :
                /\ ToTail(c, part)
                /\ part = todo[1].n /\ UNCHANGED tasks
                /\ reply' = [reply EXCEPT ![c] = Grown(@, part)]
  <2>1. ToTail(c, piece.n)
    BY <1>1, <1>2, <1>3, <1>4 DEF ToTail
  <2> QED
    BY <1>1, <1>3, <1>4, <2>1
<1>5. ASSUME NEW b \in Free, NEW part \in Nat, part < piece.n,
             ToLast(c, part, memory, cells), ToNew(c, piece, part, b), UNCHANGED bufpos
      PROVE  ToTail(c, part) /\ ToOther(c, part)
  <2>1. ToTail(c, part)
    BY <1>1, <1>2, <1>3, <1>5 DEF ToTail
  <2>2. ToOther(c, part)
    BY <1>1, <1>5 DEF ToOther
  <2> QED
    BY <2>1, <2>2
<1>6. \/ ToBuffer(c, todo[1].n, Frame, NewCells)
      \/ \E part \in Nat :
            /\ ToTail(c, part)
            /\ \/ /\ part = todo[1].n /\ UNCHANGED tasks
                  /\ reply' = [reply EXCEPT ![c] = Grown(@, part)]
               \/ ToOther(c, part)
  <2>1. CASE ToBuffer(x, piece.n, memory, cells)
    BY <1>1, <1>2, <2>1
  <2>2. CASE /\ ToLast(x, piece.n, memory, cells)
             /\ reply' = [reply EXCEPT ![x] = Grown(@, piece.n)]
             /\ UNCHANGED <<bufpos, tasks>>
    BY <1>2, <1>4, <2>2
  <2>3. CASE \E b \in Free, part \in Nat :
                /\ part < piece.n
                /\ ToLast(x, part, memory, cells) /\ ToNew(x, piece, part, b)
                /\ UNCHANGED bufpos
    BY <1>2, <1>5, <2>3
  <2> QED
    BY <1>1, <2>1, <2>2, <2>3
<1> QED
  BY <1>1, <1>2, <1>6

\* What the last block grows by is the next part of the reply, and the source of
\* the piece stays.
LEMMA TailRight ==
    ASSUME ReplyInv, AddReply, NEW c \in Clients, c = now, NEW part \in Nat, ToTail(c, part)
    PROVE  /\ reply[c] = <<>> => part = 0
           /\ reply[c] # <<>> => \A h \in 1 .. part :
                 CellAt(mem'[reply[c][Len(reply[c])].block], reply[c][Len(reply[c])].used + h)
                   = expected[c][AddedSoFar(c) + h]
           /\ AddedSoFar(c) + todo[1].n <= Len(expected[c])
           /\ \A j \in 1 .. todo[1].n :
                 CellAt(mem'[todo[1].from], j) = expected[c][AddedSoFar(c) + j]
<1>0. /\ CountInv /\ Types /\ Apart /\ reply \in [Clients -> Seq(BlockType)]
      /\ mem \in [Locations -> Seq(Cells)]
  BY ReplyParts
<1>1. /\ todo # <<>> /\ todo[1] \in PieceType
      /\ NewCells \in Seq(Cells) /\ Len(NewCells) = todo[1].n
      /\ Frame \in [Locations -> Seq(Cells)]
  BY <1>0, AddNow
<1>2. PICK piece \in PieceType, memory \in [Locations -> Seq(Cells)], cells \in Seq(Cells) :
         piece = todo[1] /\ memory = Frame /\ cells = NewCells /\ Len(cells) = piece.n
  BY <1>1
<1>3. PICK n \in Nat, x \in Locations, list \in Seq(BlockType) :
         n = piece.n /\ x = piece.from /\ list = reply[c]
  BY <1>0, PieceParts
<1>4. /\ x \in Blocks => Kept(x)
      /\ AddedSoFar(c) + n <= Len(expected[c])
      /\ \A j \in 1 .. n :
            /\ CellAt(memory[x], j) = expected[c][AddedSoFar(c) + j]
            /\ cells[j] = expected[c][AddedSoFar(c) + j]
  <2>1. memory = Composed(piece) /\ cells = Piece(memory[piece.from], 0, piece.n)
    BY <1>2 DEF Frame, NewCells
  <2>2. /\ piece.from \in Blocks => Kept(piece.from)
        /\ AddedSoFar(c) + piece.n <= Len(expected[c])
        /\ \A j \in 1 .. piece.n :
              /\ CellAt(memory[piece.from], j) = expected[c][AddedSoFar(c) + j]
              /\ cells[j] = expected[c][AddedSoFar(c) + j]
    BY <1>1, <1>2, <2>1, AddCells
  <2> QED
    BY <1>3, <2>2
<1>5. ToLast(c, part, memory, cells) /\ part <= n
  BY <1>2, <1>3 DEF ToTail
<1>6. CASE list = <<>>
  <2>1. part = 0 /\ mem' = memory
    BY <1>3, <1>5, <1>6 DEF ToLast
  <2> QED
    BY <1>2, <1>3, <1>4, <1>6, <2>1
<1>7. CASE list # <<>>
  <2>1. Len(list) \in 1 .. Len(list)
    BY <1>7
  <2>2. PICK w \in BlockType : w = list[Len(list)]
    BY <2>1
  <2>3. PICK y \in Locations, u \in Nat : y = w.block /\ u = w.used /\ y \in Blocks
    BY BlockParts, Locate
  <2>4. ~Kept(y)
    <3>1. Listed(y)
      BY <1>3, <2>1, <2>2, <2>3 DEF Listed
    <3> QED
      BY <1>0, <2>3, <3>1 DEF Apart
  <2>5. x # y
    BY <1>4, <2>3, <2>4
  <2>6. PICK s \in Seq(Cells), d \in Seq(Cells) :
           s = memory[y] /\ d = SubSeq(cells, 1, part) /\ Len(d) = part
           /\ \A h \in 1 .. part : d[h] = cells[h]
    <3>1. part \in Nat /\ part <= Len(cells) /\ cells \in Seq(Cells)
      BY <1>2, <1>3, <1>5
    <3>2. /\ SubSeq(cells, 1, part) \in Seq(Cells) /\ Len(SubSeq(cells, 1, part)) = part
          /\ \A h \in 1 .. part : SubSeq(cells, 1, part)[h] = cells[h]
      BY ONLY <3>1
    <3>3. memory[y] \in Seq(Cells)
      OBVIOUS
    <3> QED
      BY <3>2, <3>3
  <2>7. mem' = [memory EXCEPT ![y] = Stored(s, u, d)]
    BY <1>3, <1>5, <1>7, <2>2, <2>3, <2>6 DEF ToLast
  <2>8. mem'[y] = Stored(s, u, d) /\ mem'[x] = memory[x]
    BY <2>5, <2>7
  <2>9. ASSUME NEW h \in 1 .. part PROVE CellAt(mem'[y], u + h) = expected[c][AddedSoFar(c) + h]
    <3>1. PICK k \in Nat : k = u + h /\ k >= 1 /\ k - u = h
      <4>1. u + h \in Nat /\ u + h >= 1 /\ (u + h) - u = h
        OBVIOUS
      <4> QED
        BY <4>1
    <3>2. CellAt(Stored(s, u, d), k) = IF k - u \in 1 .. Len(d) THEN d[k - u] ELSE CellAt(s, k)
      <4>1. s \in Seq(Cells) /\ u \in Nat /\ d \in Seq(Cells) /\ k \in Nat /\ k >= 1
        BY <3>1
      <4> QED
        BY ONLY <4>1, CellOfStored
    <3>3. CellAt(Stored(s, u, d), k) = cells[h]
      BY <2>6, <3>1, <3>2
    <3>4. h \in 1 .. n
      BY <1>5
    <3> QED
      BY <1>4, <2>8, <3>1, <3>3, <3>4
  <2>10. /\ \A h \in 1 .. part :
               CellAt(mem'[list[Len(list)].block], list[Len(list)].used + h)
                 = expected[c][AddedSoFar(c) + h]
         /\ \A j \in 1 .. n : CellAt(mem'[x], j) = expected[c][AddedSoFar(c) + j]
    BY <1>4, <2>2, <2>3, <2>8, <2>9
  <2> QED
    BY <1>2, <1>3, <1>4, <1>7, <2>10
<1> QED
  BY <1>6, <1>7

\* The last block, as it is behind the call.
LEMMA TailBlock ==
    ASSUME ReplyInv, SourceKept, AddReply, NEW c \in Clients, c = now,
           NEW part \in Nat, ToTail(c, part),
           NEW i \in 1 .. Len(reply[c]), NEW z \in BlockType, z = reply[c][i],
           NEW u \in Nat, u = IF i = Len(reply[c]) THEN z.used + part ELSE z.used
    PROVE  /\ z.place + u <= Len(expected[c])
           /\ \A j \in 1 .. u : \A cell :
                 cell = expected[c][z.place + j] => WillBe(z.block, j, cell)'
<1>0. /\ ValueInv /\ CountInv /\ CopyFits /\ tasks \in Seq(TaskType)
      /\ reply \in [Clients -> Seq(BlockType)]
  BY ReplyParts
<1>1. /\ z.place + z.used <= Len(expected[c])
      /\ \A j \in 1 .. z.used : \A cell :
            cell = expected[c][z.place + j] => WillBe(z.block, j, cell)'
  BY OldBlock
<1>2. PICK p \in Nat, v \in Nat, x \in Locations :
         p = z.place /\ v = z.used /\ x = z.block
  BY BlockParts, Locate
<1>3. CASE i # Len(reply[c])
  BY <1>1, <1>3
<1>4. CASE i = Len(reply[c])
  <2>1. PICK list \in Seq(BlockType) : list = reply[c]
    BY <1>0
  <2>2. list # <<>> /\ Last(list) = z /\ reply[c] # <<>> /\ z = reply[c][Len(reply[c])]
    BY <1>4, <2>1 DEF Last
  <2>3. AddedSoFar(c) = p + v
    BY <1>2, <2>1, <2>2 DEF AddedSoFar
  <2>4. /\ \A h \in 1 .. part : CellAt(mem'[x], v + h) = expected[c][AddedSoFar(c) + h]
        /\ AddedSoFar(c) + todo[1].n <= Len(expected[c])
    BY <1>2, <2>2, TailRight
  <2>5. part <= todo[1].n /\ todo[1].n \in Nat
    <3>1. todo[1] \in PieceType
      BY <1>0, AddNow
    <3> QED
      BY <3>1, PieceParts DEF ToTail
  <2>6. Len(expected[c]) \in Nat
    BY <1>0, Known
  <2>7. p + u <= Len(expected[c])
    <3>1. PICK n \in Nat, e \in Nat : n = todo[1].n /\ e = Len(expected[c])
      BY <2>5, <2>6
    <3>2. (p + v) + n <= e /\ part <= n /\ u = v + part
      BY <1>2, <1>4, <2>3, <2>4, <2>5, <3>1
    <3>3. p + u <= e
      BY ONLY <3>2
    <3> QED
      BY <3>1, <3>3
  <2>8. ASSUME NEW j \in 1 .. u, NEW cell, cell = expected[c][p + j] PROVE WillBe(x, j, cell)'
    <3>1. CASE j <= v
      <4>1. j \in 1 .. z.used
        BY <1>2, <3>1
      <4> QED
        BY <1>1, <1>2, <2>8, <4>1
    <3>2. CASE j > v
      <4>1. PICK h \in 1 .. part : j = v + h
        <5>1. j - v \in 1 .. part /\ j = v + (j - v)
          BY <1>2, <1>4, <3>2, SMTT(30)
        <5> QED
          BY <5>1
      <4>2. (p + v) + h = p + j
        BY <4>1
      <4>3. CellAt(mem'[x], j) = cell
        BY <2>3, <2>4, <2>8, <4>1, <4>2
      <4>4. At(x, j)' = cell
        BY <4>3 DEF At
      <4>5. Listed(x)
        BY <1>2 DEF Listed
      <4>6. AddsNoCopyTo(x)
        BY <1>0, <4>5, AddNoCopyTo
      <4>7. ASSUME NEW k \in 1 .. Len(tasks), tasks[k].op = "copy", tasks[k].to = x
            PROVE  tasks[k].n < j
        <5>1. tasks[k].n <= v
          BY <1>0, <1>2, <4>7 DEF CopyFits
        <5>2. tasks[k].n \in Nat
          <6>1. tasks[k] \in TaskType
            BY <1>0
          <6> QED
            BY <6>1, TaskParts
        <5> QED
          BY <3>2, <5>1, <5>2
      <4>8. ASSUME NEW k \in 1 .. Len(tasks'), tasks'[k].op = "copy", tasks'[k].to = x
            PROVE  tasks'[k].n < j
        <5>1. CASE tasks' = tasks
          BY <4>7, <4>8, <5>1
        <5>2. CASE \E t \in TaskType : tasks' = Append(tasks, t) /\ (t.op = "copy" => t.to # x)
          <6>1. PICK t \in TaskType : tasks' = Append(tasks, t) /\ (t.op = "copy" => t.to # x)
            BY <5>2
          <6>2. /\ Len(tasks') = Len(tasks) + 1 /\ tasks'[Len(tasks) + 1] = t
                /\ \A m \in 1 .. Len(tasks) : tasks'[m] = tasks[m]
            BY <1>0, <6>1
          <6>3. k # Len(tasks) + 1
            BY <4>8, <6>1, <6>2
          <6>4. k \in 1 .. Len(tasks)
            <7>1. PICK m \in Nat : m = Len(tasks)
              BY <1>0
            <7>2. k \in 1 .. m + 1 /\ k # m + 1
              BY <6>2, <6>3, <7>1
            <7> QED
              BY <7>1, <7>2
          <6> QED
            BY <4>7, <4>8, <6>2, <6>4
        <5> QED
          BY <4>6, <5>1, <5>2 DEF AddsNoCopyTo
      <4> QED
        BY <4>4, <4>8 DEF WillBe
    <3> QED
      BY <1>2, <3>1, <3>2
  <2> QED
    BY <1>2, <2>7, <2>8
<1> QED
  BY <1>3, <1>4

\* The block that is added.
LEMMA AddedBlock ==
    ASSUME ReplyInv, AddReply, NEW c \in Clients, c = now,
           NEW part \in Nat, ToTail(c, part),
           NEW b \in Free, part < todo[1].n, ToNew(c, todo[1], part, b),
           NEW z \in BlockType, z = NewBlock(b, part, todo[1].n)
    PROVE  /\ z.place + z.used <= Len(expected[c])
           /\ \A j \in 1 .. z.used : \A cell :
                 cell = expected[c][z.place + j] => WillBe(z.block, j, cell)'
<1>0. /\ CountInv /\ Types /\ tasks \in Seq(TaskType)
  BY ReplyParts
<1>1. PICK piece \in PieceType : piece = todo[1]
  BY <1>0, AddNow
<1>2. PICK n \in Nat, x \in Locations : n = piece.n /\ x = piece.from
  BY PieceParts
<1>3. PICK a \in Nat, e \in Nat : a = AddedSoFar(c) /\ e = Len(expected[c])
  BY <1>0, AddedPlace, Known
<1>4. b \in Blocks
  BY <1>0, FreeParts
<1>5. z.block = b /\ z.used = n - part /\ z.place = a + part
  BY <1>0, <1>1, <1>2, <1>3, <1>4, NewBlockParts
<1>6. /\ a + n <= e
      /\ \A j \in 1 .. n : CellAt(mem'[x], j) = expected[c][a + j]
  BY <1>1, <1>2, <1>3, TailRight
<1>7. PICK t \in TaskType : t = CopyTask(b, x, part, n - part)
  BY <1>1, <1>2, <1>4, NewCopy
<1>8. t.op = "copy" /\ t.to = b /\ t.from = x /\ t.pos = part /\ t.n = n - part
  BY <1>7 DEF CopyTask
<1>9. /\ Len(tasks') = Len(tasks) + 1 /\ tasks'[Len(tasks) + 1] = t /\ Len(tasks) \in Nat
  BY <1>0, <1>1, <1>2, <1>7 DEF ToNew
<1>10. part < n
  BY <1>1, <1>2
<1>11. z.place + z.used <= e
  BY <1>5, <1>6, <1>10
<1>12. ASSUME NEW j \in 1 .. z.used, NEW cell, cell = expected[c][z.place + j]
       PROVE  WillBe(b, j, cell)'
  <2>1. part + j \in 1 .. n /\ a + (part + j) = (a + part) + j /\ j <= n - part
    BY <1>5, <1>10
  <2>2. CellAt(mem'[x], part + j) = cell
    BY <1>5, <1>6, <1>12, <2>1
  <2>3. At(x, part + j)' = cell
    BY <2>2 DEF At
  <2>4. PICK k \in 1 .. Len(tasks') : k = Len(tasks) + 1
    BY <1>9
  <2>5. /\ tasks'[k].op = "copy" /\ tasks'[k].to = b /\ j <= tasks'[k].n
        /\ CellAt(mem'[tasks'[k].from], tasks'[k].pos + j) = cell
    <3>1. tasks'[k] = t
      BY <1>9, <2>4
    <3> QED
      BY <1>8, <2>1, <2>2, <3>1
  <2> QED
    BY <2>5 DEF WillBe, At
<1> QED
  BY <1>3, <1>5, <1>11, <1>12

\* A list is right if each of its blocks is.
LEMMA ListFrom ==
    ASSUME NEW c \in Clients, reply'[c] \in Seq(BlockType),
           \A i \in 1 .. Len(reply'[c]) : \E z \in BlockType :
              /\ z = reply'[c][i] /\ z.place + z.used <= Len(expected'[c])
              /\ \A j \in 1 .. z.used : \A cell :
                    cell = expected'[c][z.place + j] => WillBe(z.block, j, cell)'
    PROVE  ListRight(c)'
<1> SUFFICES ASSUME NEW i \in 1 .. Len(reply'[c])
             PROVE  /\ reply'[c][i].place + reply'[c][i].used <= Len(expected'[c])
                    /\ \A j \in 1 .. reply'[c][i].used :
                          (WillBe(reply[c][i].block, j, expected[c][reply[c][i].place + j]))'
  BY DEF ListRight
<1>1. PICK z \in BlockType :
         /\ z = reply'[c][i] /\ z.place + z.used <= Len(expected'[c])
         /\ \A j \in 1 .. z.used : \A cell :
               cell = expected'[c][z.place + j] => WillBe(z.block, j, cell)'
  OBVIOUS
<1>2. PICK x, p, u : x = z.block /\ p = z.place /\ u = z.used
  OBVIOUS
<1>3. ASSUME NEW j \in 1 .. u
      PROVE  (WillBe(reply[c][i].block, j, expected[c][reply[c][i].place + j]))'
  <2>1. PICK cell : cell = expected'[c][p + j]
    OBVIOUS
  <2>2. WillBe(x, j, cell)'
    BY <1>1, <1>2, <2>1
  <2> QED
    BY <1>1, <1>2, <2>1, <2>2
<1> QED
  BY <1>1, <1>2, <1>3

LEMMA AddList ==
    ASSUME ReplyInv, SourceKept, AddReply, NEW y \in Clients
    PROVE  ListRight(y)'
<1>0. ValueInv /\ CountInv /\ Types /\ Gone /\ reply \in [Clients -> Seq(BlockType)]
  BY ReplyParts
<1>1. PICK c \in Clients : c = now
  BY <1>0, AddDoes
<1>2. /\ todo[1] \in PieceType /\ expected' = expected
      /\ \/ ToBuffer(c, todo[1].n, Frame, NewCells)
         \/ \E part \in Nat :
               /\ ToTail(c, part)
               /\ \/ /\ part = todo[1].n /\ UNCHANGED tasks
                     /\ reply' = [reply EXCEPT ![c] = Grown(@, part)]
                  \/ ToOther(c, part)
  BY <1>0, <1>1, AddNow
<1>3. PICK list \in Seq(BlockType) : list = reply[y]
  BY <1>0
<1>4. CASE reply'[y] = list
  <2>1. ASSUME NEW i \in 1 .. Len(list)
        PROVE  \E z \in BlockType :
                  /\ z = list[i] /\ z.place + z.used <= Len(expected'[y])
                  /\ \A j \in 1 .. z.used : \A cell :
                        cell = expected'[y][z.place + j] => WillBe(z.block, j, cell)'
    <3>1. PICK z \in BlockType : z = list[i]
      OBVIOUS
    <3>2. /\ z.place + z.used <= Len(expected[y])
          /\ \A j \in 1 .. z.used : \A cell :
                cell = expected[y][z.place + j] => WillBe(z.block, j, cell)'
      BY <1>3, <3>1, OldBlock
    <3> QED
      BY <1>2, <3>1, <3>2
  <2> QED
    BY <1>3, <1>4, <2>1, ListFrom
<1>5. CASE y # c
  <2>1. reply'[y] = reply[y]
    BY <1>0, <1>1, <1>5, AddShape
  <2> QED
    BY <1>3, <1>4, <2>1
<1>6. CASE y = c /\ ToBuffer(c, todo[1].n, Frame, NewCells)
  <2>1. reply'[y] = reply[y]
    BY <1>6 DEF ToBuffer
  <2> QED
    BY <1>3, <1>4, <2>1
<1>7. ASSUME y = c, NEW part \in Nat, ToTail(c, part), NEW new \in Seq(BlockType),
             Len(new) = Len(list) \/ Len(new) = Len(list) + 1, reply'[y] = new,
             \A i \in 1 .. Len(list) :
                 /\ new[i].block = list[i].block
                 /\ new[i].place = list[i].place
                 /\ new[i].used = IF i = Len(list) THEN list[i].used + part ELSE list[i].used,
             Len(new) = Len(list) + 1 =>
                 \E z \in BlockType :
                     /\ z = new[Len(new)] /\ z.place + z.used <= Len(expected[c])
                     /\ \A j \in 1 .. z.used : \A cell :
                           cell = expected[c][z.place + j] => WillBe(z.block, j, cell)'
      PROVE  ListRight(y)'
  <2>1. ASSUME NEW i \in 1 .. Len(new)
        PROVE  \E z \in BlockType :
                  /\ z = new[i] /\ z.place + z.used <= Len(expected'[y])
                  /\ \A j \in 1 .. z.used : \A cell :
                        cell = expected'[y][z.place + j] => WillBe(z.block, j, cell)'
    <3>1. CASE i \in 1 .. Len(list)
      <4>1. PICK g \in BlockType, z \in BlockType : g = new[i] /\ z = list[i]
        BY <3>1
      <4>2. PICK u \in Nat, v \in Nat : u = g.used /\ v = z.used
        BY BlockParts
      <4>3. /\ g.block = z.block /\ g.place = z.place
            /\ u = IF i = Len(list) THEN v + part ELSE v
        BY <1>7, <3>1, <4>1, <4>2
      <4>4. i \in 1 .. Len(reply[c]) /\ z = reply[c][i]
            /\ u = IF i = Len(reply[c]) THEN z.used + part ELSE z.used
        BY <1>3, <1>7, <3>1, <4>1, <4>2, <4>3
      <4>5. /\ z.place + u <= Len(expected[c])
            /\ \A j \in 1 .. u : \A cell :
                  cell = expected[c][z.place + j] => WillBe(z.block, j, cell)'
        <5>1. /\ ReplyInv /\ SourceKept /\ AddReply /\ c \in Clients /\ c = now
              /\ part \in Nat /\ ToTail(c, part) /\ z \in BlockType /\ u \in Nat
          BY <1>1, <1>7
        <5> QED
          BY ONLY <4>4, <5>1, TailBlock, ZenonT(30)
      <4>6. /\ g.place + g.used <= Len(expected[c])
            /\ \A j \in 1 .. g.used : \A cell :
                  cell = expected[c][g.place + j] => WillBe(g.block, j, cell)'
        BY <4>2, <4>3, <4>5
      <4> QED
        BY <1>2, <1>7, <4>1, <4>6
    <3>2. CASE i \notin 1 .. Len(list)
      <4>1. i = Len(new) /\ Len(new) = Len(list) + 1
        BY <1>7, <3>2
      <4> QED
        BY <1>2, <1>7, <4>1
    <3> QED
      BY <3>1, <3>2
  <2> QED
    BY <1>7, <2>1, ListFrom, ZenonT(30)
<1>8. ASSUME y = c, NEW part \in Nat, ToTail(c, part),
             reply' = [reply EXCEPT ![c] = Grown(@, part)]
      PROVE  ListRight(y)'
  <2>1. list = <<>> => part = 0
    BY <1>1, <1>3, <1>8, TailRight
  <2>2. PICK new \in Seq(BlockType) : new = Grown(list, part)
    BY <2>1, GrownParts
  <2>3. /\ Len(new) = Len(list)
        /\ \A i \in 1 .. Len(list) :
              /\ new[i].block = list[i].block
              /\ new[i].place = list[i].place
              /\ new[i].used = IF i = Len(list) THEN list[i].used + part ELSE list[i].used
    BY <2>1, <2>2, GrownParts
  <2>4. reply'[y] = new
    BY <1>0, <1>3, <1>8, <2>2
  <2>5. Len(new) # Len(list) + 1
    BY <2>3
  <2> QED
    BY <1>7, <1>8, <2>3, <2>4, <2>5
<1>9. ASSUME y = c, NEW part \in Nat, ToTail(c, part), ToOther(c, part)
      PROVE  ListRight(y)'
  <2>1. PICK b \in Free : part < todo[1].n /\ ToNew(c, todo[1], part, b)
    BY <1>9 DEF ToOther
  <2>2. PICK piece \in PieceType : piece = todo[1]
    BY <1>2
  <2>3. b \in Blocks
    BY <1>0, FreeParts
  <2>4. ToLast(c, part, Frame, NewCells)
    BY <1>9 DEF ToTail
  <2>5. PICK new \in Seq(BlockType), z \in BlockType :
              /\ z = NewBlock(b, part, piece.n)
              /\ new = Append(Grown(reply[c], part), z) /\ new # <<>>
              /\ reply' = [reply EXCEPT ![c] = new]
              /\ reply' \in [Clients -> Seq(BlockType)] /\ reply'[c] = new
              /\ \A x \in Clients : x # c => reply'[x] = reply[x]
              /\ Len(new) = Len(reply[c]) + 1 /\ new[Len(new)] = z
              /\ \A i \in 1 .. Len(reply[c]) :
                    /\ new[i].block = reply[c][i].block
                    /\ new[i].place = reply[c][i].place
                    /\ new[i].size = reply[c][i].size
                    /\ new[i].used = IF i = Len(reply[c]) THEN reply[c][i].used + part
                                     ELSE reply[c][i].used
    BY <1>0, <1>1, <2>1, <2>2, <2>3, <2>4, NewList
  <2>6. /\ z.place + z.used <= Len(expected[c])
        /\ \A j \in 1 .. z.used : \A cell :
              cell = expected[c][z.place + j] => WillBe(z.block, j, cell)'
    BY <1>1, <1>9, <2>1, <2>2, <2>5, AddedBlock, ZenonT(30)
  <2>7. /\ Len(new) = Len(list) + 1 /\ reply'[y] = new /\ z = new[Len(new)]
        /\ \A i \in 1 .. Len(list) :
              /\ new[i].block = list[i].block
              /\ new[i].place = list[i].place
              /\ new[i].used = IF i = Len(list) THEN list[i].used + part ELSE list[i].used
    BY <1>3, <1>9, <2>5
  <2> QED
    BY <1>7, <1>9, <2>6, <2>7
<1> QED
  BY <1>2, <1>5, <1>6, <1>8, <1>9

\* What is neither a block of a list nor the buffer is not written to.
LEMMA AddLeaves ==
    ASSUME ReplyInv, AddReply, NEW c \in Clients, c = now, NEW x \in Locations,
           x \in SharedObjects \/ Kept(x) \/ \E y \in Clients : y # c /\ x = Static(y)
    PROVE  mem'[x] = mem[x]
<1>0. ValueInv /\ Apart /\ db \in DbType /\ reply \in [Clients -> Seq(BlockType)]
  BY ReplyParts
<1>1. ASSUME Listed(x) PROVE x \in Blocks
  <2>1. PICK y \in Clients : \E i \in 1 .. Len(reply[y]) : reply[y][i].block = x
    BY <1>1 DEF Listed
  <2>2. PICK i \in 1 .. Len(reply[y]) : reply[y][i].block = x
    BY <2>1
  <2>3. reply[y][i] \in BlockType
    BY <1>0
  <2> QED
    BY <2>2, <2>3, BlockParts
<1>2. Kept(x) => x \in Blocks /\ ~Listed(x)
  <2>1. Kept(x) => x \in Blocks
    BY <1>0 DEF Kept, DbType
  <2> QED
    BY <1>0, <2>1 DEF Apart
<1>3. x \in SharedObjects => x # Stack /\ x # Static(c) /\ x \notin Blocks
  BY Locate DEF SharedObjects, Stack, Static, LineEnd, Ok, Null
<1>4. (\E y \in Clients : y # c /\ x = Static(y)) => x # Stack /\ x # Static(c) /\ x \notin Blocks
  BY Locate DEF Stack, Static
<1>5. x # Stack /\ x # Static(c) /\ ~Listed(x)
  BY <1>1, <1>2, <1>3, <1>4, Locate
<1> QED
  BY <1>0, <1>5, AddMemory

LEMMA AddBuffer ==
    ASSUME ReplyInv, AddReply, NEW y \in Clients
    PROVE  BufferRight(y)'
<1>0. /\ ValueInv /\ CountInv /\ Types /\ reply \in [Clients -> Seq(BlockType)]
      /\ bufpos \in [Clients -> Nat]
  BY ReplyParts DEF Types
<1>1. PICK c \in Clients : c = now
  BY <1>0, AddDoes
<1>2. /\ todo # <<>> /\ todo[1] \in PieceType /\ UNCHANGED <<out, sentlen, expected>>
      /\ NewCells \in Seq(Cells) /\ Len(NewCells) = todo[1].n
      /\ Frame \in [Locations -> Seq(Cells)]
      /\ \/ ToBuffer(c, todo[1].n, Frame, NewCells)
         \/ \E part \in Nat : ToTail(c, part)
  BY <1>0, <1>1, AddNow
<1>3. Longer(y)
  <2>1. expected[y] \in Seq(Cells)
    BY <1>0, Known
  <2>2. Len(expected[y]) <= Len(expected[y])
    BY <2>1
  <2> QED
    BY <1>2, <2>1, <2>2 DEF Longer
<1>4. PICK x \in Locations : x = Static(c) /\ x \notin Blocks /\ x # Stack
  BY Locate DEF Static, Stack
<1>5. Frame[x] = mem[x]
  BY <1>0, <1>2, <1>4, ComposedMemory DEF Frame
<1>6. CASE y # c
  <2>1. mem'[Static(y)] = mem[Static(y)]
    BY <1>1, <1>6, AddLeaves, Locate
  <2>2. bufpos'[y] = bufpos[y]
    BY <1>0, <1>1, <1>6, AddShape
  <2> QED
    BY <1>2, <1>3, <2>1, <2>2, BufferStays
<1>7. ASSUME y = c, NEW part \in Nat, ToTail(c, part) PROVE BufferRight(y)'
  <2>1. ToLast(c, part, Frame, NewCells) /\ bufpos' = bufpos
    BY <1>7 DEF ToTail
  <2>2. PICK list \in Seq(BlockType) : list = reply[c]
    BY <1>0
  <2>3. CASE list = <<>>
    <3>1. mem' = Frame
      BY <2>1, <2>2, <2>3 DEF ToLast
    <3> QED
      BY <1>2, <1>3, <1>4, <1>5, <1>7, <2>1, <3>1, BufferStays
  <2>4. CASE list # <<>>
    <3>1. PICK w \in BlockType : w = list[Len(list)]
      <4>1. Len(list) \in 1 .. Len(list)
        BY <2>4
      <4> QED
        BY <4>1
    <3>2. w.block # x
      BY <1>4, BlockParts
    <3>3. mem' = [Frame EXCEPT ![w.block] =
                    Stored(@, list[Len(list)].used, SubSeq(NewCells, 1, part))]
      BY <2>1, <2>2, <2>4, <3>1 DEF ToLast
    <3>4. mem'[x] = Frame[x]
      BY <1>2, <3>2, <3>3
    <3> QED
      BY <1>2, <1>3, <1>4, <1>5, <1>7, <2>1, <3>4, BufferStays
  <2> QED
    BY <2>3, <2>4
<1>8. CASE y = c /\ ToBuffer(c, todo[1].n, Frame, NewCells)
  <2>1. PICK piece \in PieceType, memory \in [Locations -> Seq(Cells)], d \in Seq(Cells) :
           piece = todo[1] /\ memory = Frame /\ d = NewCells /\ Len(d) = piece.n
    BY <1>2
  <2>2. PICK n \in Nat, p \in Nat, q \in Nat, l \in Nat :
           n = piece.n /\ p = bufpos[c] /\ q = sentlen[c] /\ l = Len(out[c])
    <3>1. piece.n \in Nat
      BY PieceParts
    <3>2. bufpos[c] \in Nat /\ sentlen[c] \in Nat /\ Len(out[c]) \in Nat
      BY <1>0, Known
    <3> QED
      BY <3>1, <3>2
  <2>3. /\ reply[c] = <<>> /\ bufpos' = [bufpos EXCEPT ![c] = p + n]
        /\ mem' = [memory EXCEPT ![x] = Stored(@, p, d)]
    BY <1>4, <1>8, <2>1, <2>2 DEF ToBuffer
  <2>4. PICK s \in Seq(Cells) : s = mem[x] /\ mem'[x] = Stored(s, p, d)
    BY <1>5, <2>1, <2>3
  <2>5. \A h \in 1 .. n : d[h] = expected[c][AddedSoFar(c) + h]
    <3>1. memory = Composed(piece) /\ d = Piece(memory[piece.from], 0, piece.n)
      BY <2>1 DEF Frame, NewCells
    <3>2. \A j \in 1 .. piece.n :
              /\ CellAt(memory[piece.from], j) = expected[c][AddedSoFar(c) + j]
              /\ d[j] = expected[c][AddedSoFar(c) + j]
      BY <1>1, <1>2, <2>1, <3>1, AddCells
    <3> QED
      BY <2>2, <3>2
  <2>6. AddedSoFar(c) = (l + p) - q
    <3>1. AddedSoFar(c) = Len(out[c]) + bufpos[c] - sentlen[c]
      BY <2>3 DEF AddedSoFar, Behind
    <3>2. AddedSoFar(c) = l + p - q
      BY <2>2, <3>1
    <3> QED
      BY <3>2
  <2> SUFFICES ASSUME NEW j \in 1 .. p + n PROVE CellAt(mem'[x], j) = expected[c][(l - q) + j]
    <3>1. bufpos'[c] = p + n
      BY <1>0, <2>3
    <3> QED
      BY <1>2, <1>4, <1>8, <2>2, <3>1 DEF BufferRight, At
  <2>7. CellAt(Stored(s, p, d), j) = IF j - p \in 1 .. Len(d) THEN d[j - p] ELSE CellAt(s, j)
    <3>1. s \in Seq(Cells) /\ p \in Nat /\ d \in Seq(Cells) /\ j \in Nat /\ j >= 1
      OBVIOUS
    <3> QED
      BY ONLY <3>1, CellOfStored
  <2>8. CASE j <= p
    <3>1. j - p \notin 1 .. Len(d)
      BY <2>1, <2>2, <2>8
    <3>2. CellAt(mem[x], j) = expected[c][(l - q) + j]
      <4>1. BufferRight(c) /\ j \in 1 .. bufpos[c]
        BY <2>2, <2>8, ReplyParts
      <4> QED
        BY <1>4, <2>2, <4>1 DEF BufferRight, At
    <3> QED
      BY <2>4, <2>7, <3>1, <3>2
  <2>9. CASE j > p
    <3>1. PICK h \in 1 .. n : h = j - p
      <4>1. j - p \in 1 .. n
        BY <2>9
      <4> QED
        BY <4>1
    <3>2. h \in 1 .. Len(d) /\ j - p \in 1 .. Len(d)
      BY <2>1, <2>2, <3>1
    <3>3. ((l + p) - q) + h = (l - q) + j
      BY <3>1
    <3> QED
      BY <2>4, <2>5, <2>6, <2>7, <3>1, <3>2, <3>3
  <2> QED
    BY <2>8, <2>9
<1> QED
  BY <1>2, <1>6, <1>7, <1>8

LEMMA AddTodo ==
    ASSUME ReplyInv, AddReply
    PROVE  TodoRight'
<1>0. /\ ValueInv /\ CountInv /\ Types /\ TodoRight /\ todo \in Seq(PieceType) /\ Len(todo) <= 3
  BY ReplyParts DEF Types, CountInv
<1>1. PICK c \in Clients : c = now
  BY <1>0, AddDoes
<1>2. todo # <<>> /\ todo' = Tail(todo) /\ UNCHANGED <<db, now, expected>>
  BY <1>0, <1>1, AddNow
<1>3. /\ todo' \in Seq(PieceType) /\ Len(todo') = Len(todo) - 1 /\ Len(todo) \in Nat
      /\ \A i \in 1 .. Len(todo') : todo'[i] = todo[i + 1]
      /\ Cost(1)' = Cost(2) /\ Cost(2)' = Cost(3) /\ Cost(3)' = 0
  BY <1>0, <1>2, TodoTail
<1>4. ASSUME NEW i \in 1 .. Len(todo') PROVE Rest(i)' = Rest(i + 1)
  <2>1. PICK a \in Nat, b \in Nat : a = Cost(2) /\ b = Cost(3)
    BY <1>0, Costs
  <2>2. ToAdd' = a + b
    BY <1>3, <2>1 DEF ToAdd
  <2>3. i = 1 \/ i = 2
    BY <1>0, <1>3
  <2>4. CASE i = 1
    BY <2>1, <2>2, <2>4 DEF Rest
  <2>5. CASE i = 2
    <3>1. Rest(2)' = Cost(2)' + Cost(3)'
      BY DEF Rest
    <3>2. Rest(3) = Cost(3)
      BY DEF Rest
    <3> QED
      BY <1>3, <2>1, <2>5, <3>1, <3>2
  <2> QED
    BY <2>3, <2>4, <2>5
<1> SUFFICES ASSUME NEW i \in 1 .. Len(todo')
             PROVE  (/\ todo[i].from \in {Stack} \cup SharedObjects \/ Kept(todo[i].from)
                     /\ todo[i].from = Stack => todo[i].n = 1
                     /\ \A j \in 1 .. todo[i].n :
                           CellOf(todo[i], j) = expected[now][Len(expected[now]) - Rest(i) + j])'
  BY DEF TodoRight
<1>5. PICK p \in PieceType : p = todo'[i] /\ p = todo[i + 1] /\ i + 1 \in 1 .. Len(todo)
  BY <1>3
<1>6. PICK x \in Locations : x = p.from
  BY PieceParts
<1>7. /\ x \in {Stack} \cup SharedObjects \/ Kept(x)
      /\ x = Stack => p.n = 1
      /\ \A j \in 1 .. p.n : CellOf(p, j) = expected[c][Len(expected[c]) - Rest(i + 1) + j]
  BY <1>0, <1>1, <1>5, <1>6 DEF TodoRight
<1>8. Kept(x)' <=> Kept(x)
  BY <1>2 DEF Kept
<1>9. \A j : CellOf(p, j)' = CellOf(p, j)
  <2>1. CASE x = Stack
    BY <1>6, <2>1 DEF CellOf
  <2>2. CASE x # Stack
    <3>1. mem'[x] = mem[x]
      BY <1>1, <1>7, <2>2, AddLeaves
    <3> QED
      BY <1>6, <2>2, <3>1 DEF CellOf, At
  <2> QED
    BY <2>1, <2>2
<1> QED
  BY <1>1, <1>2, <1>4, <1>5, <1>6, <1>7, <1>8, <1>9

LEMMA AddReplies ==
    ASSUME ReplyInv, Waited', SourceKept, AddReply
    PROVE  ReplyInv'
<1>0. ValueInv /\ CountInv /\ SharedRight
  BY ReplyParts
<1>1. PICK c \in Clients : c = now
  BY <1>0, AddDoes
<1>2. ValueInv'
  BY <1>0, ReplyParts, AddValues
<1>3. SharedRight'
  <2> SUFFICES ASSUME NEW x \in SharedObjects PROVE mem'[x] = <<x>>
    BY DEF SharedRight
  <2>1. mem'[x] = mem[x]
    BY <1>1, AddLeaves, Locate
  <2> QED
    BY <1>0, <2>1 DEF SharedRight
<1>4. Gone' /\ OneCopy' /\ CopyFits' /\ OneUser' /\ SendRight' /\ RepliesAsPromised'
  BY <1>1, AddOthers
<1>5. \A y \in Clients : BufferRight(y)' /\ ListRight(y)'
  BY AddBuffer, AddList
<1>6. TodoRight'
  BY AddTodo
<1> QED
  BY <1>2, <1>3, <1>4, <1>5, <1>6 DEF ReplyInv

-----------------------------------------------------------------------------
(* A write keeps the replies right                                         *)

\* What is sent next is, or will be, what is promised next.
LEMMA SourceRight ==
    ASSUME ReplyInv, NEW c \in Clients, HasReplies(c), NEW i \in 1 .. Extent(c) - sentlen[c]
    PROVE  /\ Len(out[c]) + i <= Len(expected[c])
           /\ WillBe(Source(c), sentlen[c] + i, expected[c][Len(out[c]) + i])
<1>0. /\ CountInv /\ Types /\ Gone /\ BufferRight(c) /\ ListRight(c) /\ Rising(reply[c])
      /\ tasks \in Seq(TaskType)
  BY ReplyParts
<1>1. c \notin left
  BY <1>0 DEF Gone
<1>2. PICK x \in Locations, n \in Nat, l \in Nat, b \in Nat :
         /\ x = Source(c) /\ n = Extent(c) /\ l = sentlen[c] /\ b = bufpos[c] /\ l < n
  BY <1>0, SourceParts
<1>3. PICK o \in Nat, m \in Nat : o = Len(out[c]) /\ m = Len(expected[c])
  <2>1. Len(out[c]) \in Nat /\ Len(expected[c]) \in Nat
    BY <1>0, Known
  <2> QED
    BY <2>1
<1>4. (o - l) + n <= m /\ l <= o
  <2>1. PICK e \in Nat :
              /\ e <= Len(expected[c])
              /\ HasReplies(c) => (Len(out[c]) - sentlen[c]) + Extent(c) <= e
    BY <1>0, <1>1, SentOfPromise
  <2>2. (o - l) + n <= e /\ e <= m
    BY <1>2, <1>3, <2>1
  <2>3. l <= o
    BY <1>0, <1>2, <1>3, Known DEF Counters
  <2> QED
    BY <2>2, <2>3
<1>5. i \in 1 .. n - l
  BY <1>2
<1>6. o + i <= m /\ l + i \in 1 .. n
  BY <1>4, <1>5
<1>7. CASE b > 0
  <2>1. x = Static(c) /\ n = b
    BY <1>0, <1>2, <1>7, SourceParts
  <2>2. At(x, l + i) = expected[c][(o - l) + (l + i)]
    <3>1. l + i \in 1 .. b
      BY <1>6, <2>1
    <3> QED
      BY <1>0, <1>2, <1>3, <2>1, <3>1 DEF BufferRight
  <2>3. (o - l) + (l + i) = o + i
    BY <1>5
  <2>4. \A k \in 1 .. Len(tasks) : tasks[k].op = "copy" => tasks[k].to # x
    <3> SUFFICES ASSUME NEW k \in 1 .. Len(tasks), tasks[k].op = "copy" PROVE tasks[k].to # x
      OBVIOUS
    <3>1. tasks[k] \in TaskType
      BY <1>0
    <3>2. tasks[k].to \in Blocks
      BY <3>1, TaskParts
    <3> QED
      BY <2>1, <3>2, Locate
  <2>5. WillBe(x, l + i, expected[c][o + i])
    BY <2>2, <2>3, <2>4 DEF WillBe
  <2> QED
    BY <1>2, <1>3, <1>6, <2>5
<1>8. CASE b = 0
  <2>1. /\ reply[c] # <<>> /\ 1 \in 1 .. Len(reply[c]) /\ x = reply[c][1].block
        /\ n = reply[c][1].used
    BY <1>0, <1>2, <1>8, SourceParts
  <2>2. reply[c][1].place = o - l
    <3>1. Gapless(Behind(c), reply[c], Len(expected[c]) - (IF now = c THEN ToAdd ELSE 0))
      BY <1>0, <1>1, Known DEF Places
    <3>2. reply[c][1].place = Behind(c)
      BY <2>1, <3>1 DEF Gapless
    <3>3. Behind(c) = o + b - l
      BY <1>2, <1>3 DEF Behind
    <3> QED
      BY <1>8, <3>2, <3>3
  <2>3. WillBe(x, l + i, expected[c][(o - l) + (l + i)])
    <3>1. \A j \in 1 .. reply[c][1].used :
             WillBe(reply[c][1].block, j, expected[c][reply[c][1].place + j])
      BY <1>0, <2>1 DEF ListRight
    <3>2. l + i \in 1 .. reply[c][1].used
      BY <1>6, <2>1
    <3>3. WillBe(reply[c][1].block, l + i, expected[c][reply[c][1].place + (l + i)])
      BY <3>1, <3>2
    <3> QED
      BY <2>1, <2>2, <3>3
  <2>4. (o - l) + (l + i) = o + i
    BY <1>5
  <2> QED
    BY <1>2, <1>3, <1>6, <2>3, <2>4
<1> QED
  BY <1>7, <1>8

\* What a write leaves, for all clients.
LEMMA WriteShape ==
    ASSUME CountInv, NEW c \in Clients, WriteToClient(c)
    PROVE  \E t \in TaskType, n \in Nat :
              /\ Running /\ HasReplies(c)
              /\ UNCHANGED <<db, mem, left, now, todo, expected>>
              /\ tasks' = Append(tasks, t) /\ t.op = "send" /\ t.conn = c
              /\ t.place = Len(out[c]) /\ t.n = n /\ t.from = Source(c) /\ t.pos = sentlen[c]
              /\ n <= Extent(c) - sentlen[c]
              /\ out' = [out EXCEPT ![c] = @ \o [i \in 1 .. n |-> Pending]]
              /\ sentlen' = [sentlen EXCEPT ![c] = NextSent(c, n)]
              /\ \A y \in Clients : y # c => bufpos'[y] = bufpos[y] /\ reply'[y] = reply[y]
              /\ bufpos'[c] = 0 \/ (bufpos'[c] = bufpos[c] /\ n < Extent(c) - sentlen[c])
              /\ \/ reply'[c] = reply[c]
                 \/ reply'[c] = Tail(reply[c]) /\ reply[c] # <<>>
<1>0. reply \in [Clients -> Seq(BlockType)] /\ bufpos \in [Clients -> Nat]
  BY DEF CountInv, Types
<1>1. PICK n \in Nat, rest \in Nat :
              /\ n >= 1 /\ n <= rest /\ rest = Extent(c) - sentlen[c]
              /\ Running /\ HasReplies(c)
              /\ tasks' = Append(tasks, SendTask(c, Source(c), sentlen[c], n))
              /\ out' = [out EXCEPT ![c] = @ \o [i \in 1 .. n |-> Pending]]
              /\ sentlen' = [sentlen EXCEPT ![c] = NextSent(c, n)]
              /\ IF n < rest THEN UNCHANGED <<bufpos, reply>>
                 ELSE IF bufpos[c] > 0
                 THEN bufpos' = [bufpos EXCEPT ![c] = 0] /\ UNCHANGED reply
                 ELSE reply' = [reply EXCEPT ![c] = Tail(@)] /\ UNCHANGED bufpos
              /\ UNCHANGED <<db, mem, asked, left, now, todo, phase, pendingWrite, handler,
                             writer, expected, ends>>
  BY WriteDoes
<1>2. PICK t \in TaskType :
              /\ t = SendTask(c, Source(c), sentlen[c], n) /\ t.op = "send"
              /\ t.conn = c /\ t.place = Len(out[c]) /\ t.n = n
              /\ t.from = Source(c) /\ t.pos = sentlen[c]
  BY <1>1, NewSend
<1>3. bufpos[c] \in Nat /\ (bufpos[c] = 0 => reply[c] # <<>>)
  BY <1>1, SourceParts
<1>4. /\ \A y \in Clients : y # c => bufpos'[y] = bufpos[y] /\ reply'[y] = reply[y]
      /\ bufpos'[c] = 0 \/ (bufpos'[c] = bufpos[c] /\ n < rest)
      /\ \/ reply'[c] = reply[c]
         \/ reply'[c] = Tail(reply[c]) /\ reply[c] # <<>>
  <2>1. CASE n < rest
    BY <1>1, <2>1
  <2>2. CASE ~(n < rest) /\ bufpos[c] > 0
    BY <1>0, <1>1, <2>2
  <2>3. CASE ~(n < rest) /\ bufpos[c] = 0
    BY <1>0, <1>1, <1>3, <2>3
  <2> QED
    BY <1>3, <2>1, <2>2, <2>3
<1> QED
  BY <1>1, <1>2, <1>4

LEMMA WriteReplies ==
    ASSUME ReplyInv, Waited', SourceKept, NEW c \in Clients, WriteToClient(c)
    PROVE  ReplyInv'
<1>0. /\ ValueInv /\ CountInv /\ Types /\ tasks \in Seq(TaskType)
      /\ reply \in [Clients -> Seq(BlockType)] /\ out \in [Clients -> Seq(Cells)]
      /\ sentlen \in [Clients -> Nat]
      /\ Gone /\ OneCopy /\ CopyFits /\ OneUser /\ SharedRight /\ RepliesAsPromised
  BY ReplyParts DEF Types
<1>1. ValueInv'
  BY <1>0, ReplyParts, WriteValues
<1>2. PICK t \in TaskType, n \in Nat :
              /\ Running /\ HasReplies(c)
              /\ UNCHANGED <<db, mem, left, now, todo, expected>>
              /\ tasks' = Append(tasks, t) /\ t.op = "send" /\ t.conn = c
              /\ t.place = Len(out[c]) /\ t.n = n /\ t.from = Source(c) /\ t.pos = sentlen[c]
              /\ n <= Extent(c) - sentlen[c]
              /\ out' = [out EXCEPT ![c] = @ \o [i \in 1 .. n |-> Pending]]
              /\ sentlen' = [sentlen EXCEPT ![c] = NextSent(c, n)]
              /\ \A y \in Clients : y # c => bufpos'[y] = bufpos[y] /\ reply'[y] = reply[y]
              /\ bufpos'[c] = 0 \/ (bufpos'[c] = bufpos[c] /\ n < Extent(c) - sentlen[c])
              /\ \/ reply'[c] = reply[c]
                 \/ reply'[c] = Tail(reply[c]) /\ reply[c] # <<>>
  BY <1>0, WriteShape
<1>3. PICK m \in Nat : /\ m = Len(tasks) /\ Len(tasks') = m + 1 /\ tasks'[m + 1] = t
                       /\ \A k \in 1 .. m : tasks'[k] = tasks[k]
  <2>1. tasks' = Append(tasks, t)
    BY <1>2
  <2>2. /\ Len(tasks) \in Nat /\ Len(tasks') = Len(tasks) + 1 /\ tasks'[Len(tasks) + 1] = t
        /\ \A k \in 1 .. Len(tasks) : tasks'[k] = tasks[k]
    BY <1>0, <2>1
  <2> QED
    BY <2>2
<1>4. \A k \in 1 .. m : tasks[k].op = "copy"
  BY <1>0, <1>2, <1>3, ReplyParts, WhileRunning
<1>5. ASSUME NEW k \in 1 .. m + 1, tasks'[k].op = "copy"
      PROVE  k \in 1 .. m /\ tasks'[k] = tasks[k]
  BY <1>2, <1>3, <1>5
<1>6. \A x : AddsNoCopyTo(x)
  BY <1>2 DEF AddsNoCopyTo
<1>7. c \notin left
  BY <1>0, <1>2 DEF Gone
<1>8. ASSUME NEW y \in Clients
      PROVE  \E d \in 0 .. 1 :
                /\ d = 1 => y = c
                /\ reply'[y] \in Seq(BlockType)
                /\ \A i \in 1 .. Len(reply'[y]) :
                      reply'[y][i] = reply[y][i + d] /\ i + d \in 1 .. Len(reply[y])
  <2>1. CASE reply'[y] = reply[y]
    <3>1. PICK d \in 0 .. 1 : d = 0
      OBVIOUS
    <3>2. PICK list \in Seq(BlockType) : list = reply[y]
      BY <1>0
    <3>3. \A i \in 1 .. Len(list) : list[i] = list[i + d] /\ i + d \in 1 .. Len(list)
      BY <3>1
    <3> QED
      BY <2>1, <3>1, <3>2, <3>3
  <2>2. CASE reply'[y] # reply[y]
    <3>1. y = c /\ reply'[c] = Tail(reply[c]) /\ reply[c] # <<>>
      BY <1>2, <2>2
    <3>2. PICK list \in Seq(BlockType) : list = reply[c] /\ list # <<>>
      BY <1>0, <3>1
    <3>3. /\ Tail(list) \in Seq(BlockType)
          /\ \A i \in 1 .. Len(Tail(list)) :
                Tail(list)[i] = list[i + 1] /\ i + 1 \in 1 .. Len(list)
      BY <3>2, ShorterList
    <3> QED
      BY <3>1, <3>2, <3>3
  <2> QED
    BY <2>1, <2>2
<1>9. Gone'
  <2> SUFFICES ASSUME NEW y \in left PROVE ~HasReplies(y)'
    BY <1>0, <1>2 DEF Gone
  <2>1. ~HasReplies(y) /\ y # c /\ y \in Clients
    BY <1>0, <1>7 DEF Gone, Types
  <2> QED
    BY <1>2, <2>1 DEF HasReplies
<1>10. OneCopy'
  <2> SUFFICES ASSUME NEW j \in 1 .. m + 1, NEW k \in 1 .. m + 1,
                      tasks'[j].op = "copy", tasks'[k].op = "copy", tasks'[j].to = tasks'[k].to
               PROVE  j = k
    BY <1>3 DEF OneCopy
  <2>1. j \in 1 .. m /\ k \in 1 .. m /\ tasks'[j] = tasks[j] /\ tasks'[k] = tasks[k]
    BY <1>5
  <2> QED
    BY <1>0, <1>3, <2>1 DEF OneCopy
<1>11. CopyFits'
  <2> SUFFICES ASSUME NEW k \in 1 .. m + 1, tasks'[k].op = "copy", NEW y \in Clients,
                      NEW i \in 1 .. Len(reply'[y]), reply'[y][i].block = tasks'[k].to
               PROVE  tasks'[k].n <= reply'[y][i].used
    BY <1>3 DEF CopyFits
  <2>1. k \in 1 .. m /\ tasks'[k] = tasks[k]
    BY <1>5
  <2>2. PICK j \in 1 .. Len(reply[y]) : reply'[y][i] = reply[y][j]
    BY <1>8
  <2> QED
    BY <1>0, <1>3, <2>1, <2>2 DEF CopyFits
<1>12. OneUser'
  <2> SUFFICES ASSUME NEW x \in Clients, NEW y \in Clients,
                      NEW i \in 1 .. Len(reply'[x]), NEW j \in 1 .. Len(reply'[y]),
                      reply'[x][i].block = reply'[y][j].block
               PROVE  x = y /\ i = j
    BY DEF OneUser
  <2>1. PICK a \in 0 .. 1 : reply'[x][i] = reply[x][i + a] /\ i + a \in 1 .. Len(reply[x])
                            /\ (x = y => reply'[y][j] = reply[y][j + a] /\ j + a \in 1 .. Len(reply[y]))
    BY <1>8
  <2>2. PICK b \in 0 .. 1 : reply'[y][j] = reply[y][j + b] /\ j + b \in 1 .. Len(reply[y])
    BY <1>8
  <2>3. x = y
    BY <1>0, <2>1, <2>2 DEF OneUser
  <2>4. i + a = j + a
    <3>1. PICK p \in 1 .. Len(reply[x]), q \in 1 .. Len(reply[x]) : p = i + a /\ q = j + a
      BY <2>1, <2>3
    <3>2. reply[x][p].block = reply[x][q].block
      BY <2>1, <2>3, <3>1
    <3>3. p = q
      <4>1. OneUser
        BY <1>0
      <4> QED
        BY ONLY <3>2, <4>1 DEF OneUser
    <3> QED
      BY <3>1, <3>3
  <2> QED
    BY <2>3, <2>4
<1>13. SharedRight'
  BY <1>0, <1>2 DEF SharedRight
<1>14. ASSUME NEW y \in Clients PROVE Longer(y)
  <2>1. expected[y] \in Seq(Cells)
    BY <1>0, Known
  <2>2. Len(expected[y]) <= Len(expected[y])
    BY <2>1
  <2> QED
    BY <1>2, <2>1, <2>2 DEF Longer
<1>15. ASSUME NEW y \in Clients PROVE ListRight(y)'
  <2>1. /\ reply'[y] \in Seq(BlockType)
        /\ \A i \in 1 .. Len(reply'[y]) : \E k \in 1 .. Len(reply[y]) : reply'[y][i] = reply[y][k]
    BY <1>8
  <2>2. \A k \in 1 .. Len(reply[y]) : /\ mem'[reply[y][k].block] = mem[reply[y][k].block]
                                      /\ AddsNoCopyTo(reply[y][k].block)
    BY <1>2, <1>6
  <2> QED
    BY <1>14, <2>1, <2>2, ListStays
<1>16. PICK o \in Nat, l \in Nat : /\ o = Len(out[c]) /\ l = sentlen[c]
                                   /\ Len(out'[c]) = o + n /\ sentlen'[c] = NextSent(c, n)
  <2>1. PICK s \in Seq(Cells) : s = out[c]
    BY <1>0
  <2>2. Len(s \o [i \in 1 .. n |-> Pending]) = Len(s) + n
    BY LongerStream
  <2>3. out'[c] = s \o [i \in 1 .. n |-> Pending] /\ sentlen'[c] = NextSent(c, n)
    BY <1>0, <1>2, <2>1
  <2>4. Len(s) \in Nat /\ sentlen[c] \in Nat
    BY <1>0
  <2> QED
    BY <2>1, <2>2, <2>3, <2>4
<1>17. ASSUME NEW y \in Clients PROVE BufferRight(y)'
  <2>1. CASE y # c
    <3>1. out'[y] = out[y] /\ sentlen'[y] = sentlen[y] /\ bufpos'[y] = bufpos[y]
      BY <1>0, <1>2, <2>1
    <3> QED
      BY <1>2, <1>14, <3>1, BufferStays
  <2>2. CASE y = c /\ bufpos'[c] = 0
    BY <2>2 DEF BufferRight
  <2>3. CASE y = c /\ bufpos'[c] = bufpos[c] /\ n < Extent(c) - sentlen[c]
    <3>1. Extent(c) \in Nat
      BY <1>0, <1>2, SourceParts
    <3>2. sentlen'[c] = l + n
      <4>1. PICK x \in Nat : x = Extent(c)
        BY <3>1
      <4>2. n < x - l
        BY <1>16, <2>3, <4>1
      <4>3. l + n # x
        BY ONLY <1>16, <4>2
      <4>4. sentlen'[c] = IF l + n = x THEN 0 ELSE l + n
        BY <1>16, <4>1 DEF NextSent
      <4> QED
        BY <4>3, <4>4
    <3>3. Len(out'[c]) - sentlen'[c] = o - l
      <4>1. Len(out'[c]) = o + n /\ (o + n) - (l + n) = o - l
        BY <1>16
      <4> QED
        BY <3>2, <4>1
    <3>4. BufferRight(c)
      BY ReplyParts
    <3>5. \A j \in 1 .. bufpos[c] : At(Static(c), j)' = At(Static(c), j)
      BY <1>2 DEF At
    <3> QED
      BY <1>2, <1>16, <2>3, <3>3, <3>4, <3>5 DEF BufferRight
  <2> QED
    BY <1>2, <2>1, <2>2, <2>3
<1>18. SendRight'
  <2> SUFFICES ASSUME NEW k \in 1 .. Len(tasks'), tasks'[k].op = "send",
                      NEW i \in 1 .. tasks'[k].n
               PROVE  /\ tasks'[k].place + i <= Len(expected'[tasks'[k].conn])
                      /\ (WillBe(tasks[k].from, tasks[k].pos + i, expected[tasks[k].conn][tasks[k].place + i]))'
    BY DEF SendRight
  <2>1. tasks'[k] = t
    <3>1. k \notin 1 .. m
      BY <1>2, <1>3, <1>4
    <3>2. k = m + 1
      BY <1>3, <3>1
    <3> QED
      BY <1>3, <3>2
  <2>2. i \in 1 .. n /\ i \in 1 .. Extent(c) - sentlen[c]
    <3>1. Extent(c) \in Nat
      BY <1>0, <1>2, SourceParts
    <3> QED
      BY <1>2, <1>16, <2>1, <3>1
  <2>3. PICK x, h, cell : x = Source(c) /\ h = l + i /\ cell = expected[c][o + i]
    OBVIOUS
  <2>4. o + i <= Len(expected[c]) /\ WillBe(x, h, cell)
    BY <1>2, <1>16, <2>2, <2>3, SourceRight
  <2>5. CellAt(mem'[x], h) = CellAt(mem[x], h)
    BY <1>2
  <2>6. WillBe(x, h, cell)'
    BY <1>0, <1>6, <2>4, <2>5, WillStay
  <2> QED
    BY <1>2, <1>16, <2>1, <2>3, <2>4, <2>6
<1>19. TodoRight'
  <2>1. \A i : Rest(i)' = Rest(i)
    BY <1>2 DEF Rest, ToAdd, Cost
  <2>2. \A p, j : CellOf(p, j)' = CellOf(p, j)
    BY <1>2 DEF CellOf, At
  <2>3. \A b : Kept(b)' <=> Kept(b)
    BY <1>2 DEF Kept
  <2>4. TodoRight
    BY ReplyParts
  <2> QED
    BY <1>2, <2>1, <2>2, <2>3, <2>4 DEF TodoRight
<1>20. RepliesAsPromised'
  <2> SUFFICES ASSUME NEW y \in Clients, NEW i \in 1 .. Len(out'[y])
               PROVE  out'[y][i] \in {Pending, expected[y][i]}
    BY <1>2 DEF RepliesAsPromised
  <2>1. CASE y # c
    <3>1. out'[y] = out[y]
      BY <1>0, <1>2, <2>1
    <3> QED
      BY <1>0, <3>1 DEF RepliesAsPromised
  <2>2. CASE y = c
    <3>1. PICK s \in Seq(Cells) : s = out[c]
      BY <1>0
    <3>2. out'[c] = s \o [j \in 1 .. n |-> Pending]
      BY <1>0, <1>2, <3>1
    <3>3. /\ \A j \in 1 .. Len(s) : out'[c][j] = s[j]
          /\ \A j \in Len(s) + 1 .. Len(s) + n : out'[c][j] = Pending
          /\ Len(out'[c]) = Len(s) + n
      BY <3>2, LongerStream
    <3>4. i \in 1 .. Len(s) \/ i \in Len(s) + 1 .. Len(s) + n
      BY <2>2, <3>3
    <3>5. i \in 1 .. Len(s) => s[i] \in {Pending, expected[c][i]}
      BY <1>0, <3>1 DEF RepliesAsPromised
    <3> QED
      BY <2>2, <3>3, <3>4, <3>5
  <2> QED
    BY <2>1, <2>2
<1> QED
  BY <1>1, <1>9, <1>10, <1>11, <1>12, <1>13, <1>15, <1>17, <1>18, <1>19, <1>20 DEF ReplyInv

\* A client that leaves has got everything, so nothing of it is thrown away.
LEMMA LeaveReplies ==
    ASSUME ReplyInv, Waited', NEW c \in Clients, Answered(c) = Len(Script[c]), Leave(c)
    PROVE  ReplyInv'
<1>0. /\ ValueInv /\ CountInv /\ Types /\ Gone /\ OneCopy /\ CopyFits /\ OneUser /\ SharedRight
      /\ RepliesAsPromised /\ SendRight /\ TodoRight /\ Rising(reply[c])
      /\ reply \in [Clients -> Seq(BlockType)] /\ bufpos \in [Clients -> Nat]
      /\ sentlen \in [Clients -> Nat] /\ tasks \in Seq(TaskType)
  BY ReplyParts DEF Types
<1>1. ValueInv'
  BY <1>0, ReplyParts, LeaveValues
<1>2. c \notin left /\ now = NoClient /\ Answered(c) = Len(Script[c])
  BY DEF Leave, Idle
<1>3. now # c
  BY <1>2, Constants
<1>4. reply[c] = <<>>
  BY <1>0, <1>2, <1>3, NothingWaits
<1>5. /\ UNCHANGED <<db, mem, tasks, out, now, todo, expected>> /\ left' = left \cup {c}
      /\ reply' = [reply EXCEPT ![c] = <<>>] /\ bufpos' = [bufpos EXCEPT ![c] = 0]
      /\ sentlen' = [sentlen EXCEPT ![c] = 0]
  BY DEF Leave, history
<1>6. reply' = reply /\ bufpos'[c] = 0
      /\ \A y \in Clients : y # c => bufpos'[y] = bufpos[y] /\ sentlen'[y] = sentlen[y]
  BY <1>0, <1>4, <1>5
<1>7. \A x, j, cell : WillBe(x, j, cell)' <=> WillBe(x, j, cell)
  BY <1>5 DEF WillBe, At
<1>8. Gone'
  <2>1. ~HasReplies(c)'
    BY <1>4, <1>6 DEF HasReplies
  <2>2. \A y \in left : y # c /\ y \in Clients /\ ~HasReplies(y)
    BY <1>0, <1>2 DEF Gone, Types
  <2>3. \A y \in left : ~HasReplies(y)'
    BY <1>6, <2>2 DEF HasReplies
  <2>4. now \notin left'
    BY <1>0, <1>2, <1>3, <1>5 DEF Gone
  <2> QED
    BY <1>5, <2>1, <2>3, <2>4 DEF Gone
<1>9. OneCopy' /\ CopyFits' /\ OneUser' /\ SharedRight'
  <2>1. OneCopy'
    BY <1>0, <1>5 DEF OneCopy
  <2>2. CopyFits'
    <3>1. CopyFits /\ tasks' = tasks /\ reply' = reply
      BY <1>0, <1>5, <1>6
    <3> QED
      BY ONLY <3>1 DEF CopyFits
  <2>3. OneUser'
    <3>1. OneUser /\ reply' = reply
      BY <1>0, <1>6
    <3> QED
      BY ONLY <3>1 DEF OneUser
  <2>4. SharedRight'
    <3>1. SharedRight /\ mem' = mem
      BY <1>0, <1>5
    <3> QED
      BY ONLY <3>1 DEF SharedRight
  <2> QED
    BY <2>1, <2>2, <2>3, <2>4
<1>10. ASSUME NEW y \in Clients PROVE BufferRight(y)'
  <2>1. BufferRight(y)
    BY ReplyParts
  <2>2. CASE y = c
    BY <1>6, <2>2 DEF BufferRight
  <2>3. CASE y # c
    BY <1>5, <1>6, <2>1, <2>3 DEF BufferRight, At
  <2> QED
    BY <2>2, <2>3
<1>11. ASSUME NEW y \in Clients PROVE ListRight(y)'
  <2>1. ListRight(y)
    BY ReplyParts
  <2> QED
    BY <1>5, <1>6, <1>7, <2>1 DEF ListRight
<1>12. SendRight'
  BY <1>0, <1>5, <1>7 DEF SendRight
<1>13. TodoRight'
  BY <1>2, <1>5, Constants DEF TodoRight
<1>14. RepliesAsPromised'
  BY <1>0, <1>5 DEF RepliesAsPromised
<1> QED
  BY <1>1, <1>8, <1>9, <1>10, <1>11, <1>12, <1>13, <1>14 DEF ReplyInv

\* Only a client that has all its replies leaves.
Patient == SendWaits /\ Impatient = {}

LEMMA StillWaited ==
    ASSUME ValueInv, Waited, Present, Patient, [Next]_vars
    PROVE  Waited'
<1>1. ASSUME NEW c \in left', c \notin left PROVE Leave(c)
  <2>1. CASE Next
    <3>1. left' = left \/ \E x \in Clients : Leave(x)
      BY <2>1 DEF Next, Server, Ask, Drain, CopierStep, Finish, AddReply, BeginWrites, EndWrites,
                  Execute, BeginWriteTo, WriteToClient, EndWriteTo, clientVars
    <3> QED
      BY <1>1, <3>1 DEF Leave
  <2>2. CASE UNCHANGED vars
    BY <1>1, <2>2 DEF vars, clientVars
  <2> QED
    BY <2>1, <2>2
<1>2. ASSUME NEW c \in left' PROVE Answered(c)' = Len(Script[c])
  <2>1. CASE c \in left
    BY <2>1, AnswersStay DEF Waited
  <2>2. CASE c \notin left
    <3>1. Leave(c)
      BY <1>1, <2>2
    <3>2. Answered(c) = Len(Script[c])
      BY <3>1 DEF Leave, Patient
    <3>3. Answered(c)' = Answered(c)
      BY <3>1 DEF Leave, Answered, history
    <3> QED
      BY <3>2, <3>3
  <2> QED
    BY <2>1, <2>2
<1> QED
  BY <1>2 DEF Waited

LEMMA NextReplies ==
    ASSUME ReplyInv, Present, Patient, [Next]_vars, [SourceKept]_vars
    PROVE  ReplyInv'
<1>0. ValueInv /\ ValueInv' /\ Waited'
  BY ReplyParts, NextValues, StillWaited
<1>1. ASSUME UNCHANGED vars PROVE ReplyInv'
  <2>1. UNCHANGED <<db, mem, tasks, left, out, now, todo, bufpos, reply, sentlen, expected>>
    BY <1>1 DEF vars, clientVars, bufferVars, history
  <2> QED
    BY <1>0, <2>1, RepliesSame
<1>2. ASSUME SourceKept, Next PROVE ReplyInv'
  <2>1. CASE \E c \in Clients : Ask(c) \/ Drain(c)
    <3>1. UNCHANGED <<db, mem, tasks, left, out, now, todo, bufpos, reply, sentlen, expected>>
      BY <2>1 DEF Ask, Drain, bufferVars, history
    <3> QED
      BY <1>0, <3>1, RepliesSame
  <2>2. CASE CopierStep
    BY <1>2, <2>2, <1>0, CopierReplies
  <2>3. CASE Finish
    BY <2>3, <1>0, FinishReplies
  <2>4. CASE AddReply
    BY <1>2, <2>4, <1>0, AddReplies
  <2>5. CASE BeginWrites \/ EndWrites \/ \E c \in Clients : BeginWriteTo(c) \/ EndWriteTo(c)
    <3>1. UNCHANGED <<db, mem, tasks, left, out, now, todo, bufpos, reply, sentlen, expected>>
      BY <2>5 DEF BeginWrites, EndWrites, BeginWriteTo, EndWriteTo, clientVars, bufferVars, history
    <3> QED
      BY <1>0, <3>1, RepliesSame
  <2>6. CASE \E c \in Clients : Execute(c)
    BY <1>2, <2>6, <1>0, ExecuteReplies
  <2>7. CASE \E c \in Clients : WriteToClient(c)
    BY <1>2, <2>7, <1>0, WriteReplies
  <2>8. CASE \E c \in Clients : Leave(c)
    <3>1. PICK c \in Clients : Leave(c)
      BY <2>8
    <3>2. Answered(c) = Len(Script[c])
      BY <3>1 DEF Leave, Patient
    <3> QED
      BY <1>0, <3>1, <3>2, LeaveReplies
  <2> QED
    BY <1>2, <2>1, <2>2, <2>3, <2>4, <2>5, <2>6, <2>7, <2>8 DEF Next, Server
<1> QED
  BY <1>1, <1>2

LEMMA InitReplies ==
    ASSUME Init, Patient
    PROVE  ReplyInv
<1>1. /\ tasks = <<>> /\ reply = [c \in Clients |-> <<>>] /\ bufpos = [c \in Clients |-> 0]
      /\ out = [c \in Clients |-> <<>>] /\ left = {} /\ now = NoClient
  BY DEF Init
<1>2. ValueInv /\ Waited
  <2>1. SendWaits
    BY DEF Patient
  <2> QED
    BY <1>1, <2>1, InitValues DEF Waited
<1>3. Gone /\ OneCopy /\ CopyFits /\ OneUser
  BY <1>1 DEF Gone, OneCopy, CopyFits, OneUser
<1>4. SharedRight
  BY FirstMemory DEF SharedRight
<1>5. \A c \in Clients : BufferRight(c) /\ ListRight(c)
  BY <1>1 DEF BufferRight, ListRight
<1>6. SendRight /\ TodoRight /\ RepliesAsPromised
  BY <1>1, Constants DEF SendRight, TodoRight, RepliesAsPromised
<1> QED
  BY <1>2, <1>3, <1>4, <1>5, <1>6 DEF ReplyInv

-----------------------------------------------------------------------------
(* The sources of the copies are kept                                      *)

LEMMA SourceInvParts ==
    ASSUME ReplyInv, SourceInv
    PROVE  /\ Turns /\ Sources /\ Heads /\ CountInv /\ Types /\ ValueInv /\ Waited
           /\ tasks \in Seq(TaskType) /\ db \in DbType /\ reply \in [Clients -> Seq(BlockType)]
           /\ todo \in Seq(PieceType) /\ now \in Clients \cup {NoClient}
           /\ left \subseteq Clients /\ writer \in Clients \cup {NoClient}
  BY ReplyParts DEF SourceInv, Types

\* The client whose command is executed has nothing waiting.
LEMMA NothingBefore ==
    ASSUME ReplyInv, SourceInv, NEW c \in Clients, Execute(c)
    PROVE  bufpos[c] = 0 /\ reply[c] = <<>>
<1>1. c \notin left /\ now = NoClient /\ Len(ends[c]) < asked[c]
  BY SourceInvParts, NextCommand
<1>2. Len(expected[c]) <= Len(out[c])
  BY <1>1, SourceInvParts DEF Turns
<1>3. now # c
  BY <1>1, Constants
<1> QED
  BY <1>1, <1>2, <1>3, ReplyParts, NothingLeft

\* The command is one of the script.
LEMMA OfScript ==
    ASSUME CountInv, NEW c \in Clients, Execute(c)
    PROVE  LET cmd == Script[c][Len(ends[c]) + 1] IN
           /\ cmd \in Command /\ cmd.key \in Keys
           /\ cmd.op # "set" => Reads(c, cmd.key)
           /\ cmd.op # "get" => Writes(c, cmd.key)
<1>1. PICK n \in Nat, a \in Nat, l \in Nat :
         n = Len(ends[c]) /\ a = asked[c] /\ l = Len(Script[c]) /\ n < a /\ a <= l
  <2>1. Len(ends[c]) \in Nat /\ asked[c] \in Nat /\ Len(Script[c]) \in Nat
    BY Known
  <2>2. Len(ends[c]) < asked[c] /\ asked[c] <= Len(Script[c])
    BY Known, NextCommand DEF Commands
  <2> QED
    BY <2>1, <2>2
<1>2. n + 1 \in 1 .. l
  BY <1>1
<1>3. Script[c][n + 1] \in Command
  BY <1>1, <1>2, Constants
<1> QED
  BY <1>1, <1>2, <1>3, CommandParts DEF Reads, Writes

\* What a client reads, only that client itself can have replaced.
LEMMA HeldStill ==
    ASSUME ReplyInv, SourceInv, OwnKeys, NEW c \in Clients, Execute(c),
           NEW d \in Clients, d # c, NEW x, HeldFor(d, x)
    PROVE  HeldFor(d, x)'
<1>1. PICK cmd \in Command :
              /\ cmd = Script[c][Len(ends[c]) + 1]
              /\ IF cmd.op = "set"
                 THEN \E b \in Free :
                     db' = [db EXCEPT ![cmd.key] = [block |-> b, value |-> cmd.value]]
                 ELSE UNCHANGED db
  <2>1. CountInv
    BY SourceInvParts
  <2> QED
    BY <2>1, NextCommand
<1>2. CASE x \in SharedObjects
  BY <1>2 DEF HeldFor
<1>3. CASE x \notin SharedObjects
  <2>1. PICK k \in Keys : Reads(d, k) /\ db[k].block = x /\ x # NoBlock
    BY <1>3 DEF HeldFor
  <2>2. db'[k] = db[k]
    <3>1. CASE cmd.op # "set"
      BY <1>1, <3>1
    <3>2. CASE cmd.op = "set"
      <4>1. Writes(c, cmd.key)
        BY <1>1, <3>2, OfScript, SourceInvParts
      <4>2. k # cmd.key
        BY <2>1, <4>1 DEF OwnKeys
      <4>3. PICK new : db' = [db EXCEPT ![cmd.key] = new]
        BY <1>1, <3>2
      <4> QED
        BY <4>2, <4>3, SourceInvParts DEF DbType
    <3> QED
      BY <3>1, <3>2
  <2>3. Reads(d, k)'
    BY <2>1 DEF Reads
  <2> QED
    BY <2>1, <2>2, <2>3 DEF HeldFor
<1> QED
  BY <1>2, <1>3

\* No step writes to what a copy is still to be made from.
LEMMA KeepsSources ==
    ASSUME ReplyInv, SourceInv, Next
    PROVE  SourceKept
<1> SUFFICES ASSUME NEW k \in 1 .. Len(tasks), tasks[k].op = "copy"
             PROVE  mem'[tasks[k].from] = mem[tasks[k].from]
  BY DEF SourceKept
<1>1. PICK x \in Locations : x = tasks[k].from
  <2>1. tasks[k] \in TaskType
    BY SourceInvParts
  <2> QED
    BY <2>1, TaskParts
<1>2. x \in SharedObjects \/ Kept(x)
  <2>1. PICK c \in Clients : HeldFor(c, x)
    BY <1>1, SourceInvParts DEF Sources
  <2> QED
    BY <2>1 DEF HeldFor, Kept
<1>3. x \in Blocks => Kept(x)
  BY <1>2, Locate
<1>4. CASE CopierStep
  BY <1>1, <1>3, <1>4, SourceInvParts, CopierMemory
<1>5. CASE AddReply
  <2>1. PICK c \in Clients : c = now
    BY <1>5, SourceInvParts, AddDoes
  <2> QED
    BY <1>1, <1>2, <1>5, <2>1, AddLeaves
<1>6. CASE \E c \in Clients : Execute(c)
  BY <1>1, <1>3, <1>6, SourceInvParts, ExecuteMemory
<1>7. CASE \E c \in Clients : Ask(c) \/ Drain(c) \/ BeginWriteTo(c) \/ EndWriteTo(c)
  BY <1>1, <1>7 DEF Ask, Drain, BeginWriteTo, EndWriteTo
<1>8. CASE Finish \/ BeginWrites \/ EndWrites \/ \E c \in Clients : WriteToClient(c) \/ Leave(c)
  BY <1>1, <1>8 DEF Finish, BeginWrites, EndWrites, WriteToClient, Leave
<1> QED
  BY <1>4, <1>5, <1>6, <1>7, <1>8 DEF Next, Server

LEMMA TurnsSame ==
    ASSUME Turns, UNCHANGED <<asked, ends, expected>>, left \subseteq left',
           \A c \in Clients : c \notin left => Len(out[c]) \in Nat /\ Len(out'[c]) \in Nat
                             /\ Len(expected[c]) \in Nat /\ Len(out[c]) <= Len(out'[c])
    PROVE  Turns'
<1> SUFFICES ASSUME NEW c \in Clients, c \notin left'
             PROVE  /\ asked[c] <= Len(ends[c]) + 1
                    /\ Len(ends[c]) < asked[c] => Len(expected[c]) <= Len(out'[c])
  BY DEF Turns
<1>1. c \notin left
  OBVIOUS
<1>2. Len(ends[c]) < asked[c] => Len(expected[c]) <= Len(out[c])
  BY <1>1 DEF Turns
<1>3. /\ Len(out[c]) \in Nat /\ Len(out'[c]) \in Nat /\ Len(expected[c]) \in Nat
      /\ Len(out[c]) <= Len(out'[c])
  BY <1>1
<1> QED
  BY <1>1, <1>2, <1>3 DEF Turns

LEMMA NextTurns ==
    ASSUME ReplyInv, SourceInv, OneAsked, [Next]_vars
    PROVE  Turns'
<1>0. Turns /\ CountInv
  BY SourceInvParts
<1>1. ASSUME NEW c \in Clients
      PROVE  /\ Len(out[c]) \in Nat /\ Len(expected[c]) \in Nat /\ Len(ends[c]) \in Nat
             /\ asked[c] \in Nat
  BY <1>0, Known
<1>2. CASE UNCHANGED <<asked, ends, expected, out>> /\ left \subseteq left'
  <2>1. \A c \in Clients : Len(out[c]) <= Len(out'[c]) /\ Len(out'[c]) \in Nat
    BY <1>1, <1>2
  <2> QED
    BY <1>0, <1>1, <1>2, <2>1, TurnsSame
<1>3. CASE \E c \in Clients : Ask(c)
  <2>1. PICK c \in Clients : Ask(c)
    BY <1>3
  <2>2. /\ c \notin left /\ asked[c] - Answered(c) < 1 /\ asked' = [asked EXCEPT ![c] = @ + 1]
        /\ UNCHANGED <<left, ends, expected, out>>
    BY <2>1 DEF Ask, OneAsked, history
  <2>3. PICK a \in Nat, e \in Nat, n \in Nat :
           /\ a = asked[c] /\ e = Len(ends[c]) /\ n = Answered(c) /\ n <= e
           /\ n = e => Len(expected[c]) <= Len(out[c])
    <3>1. /\ Answered(c) \in Nat /\ Answered(c) <= Len(ends[c])
          /\ Answered(c) = Len(ends[c]) => Len(expected[c]) <= Len(out[c])
      BY <1>0, AnsweredRange
    <3> QED
      BY <1>1, <3>1
  <2>4. e <= a
    BY <1>0, <2>3, Known DEF Commands
  <2>5. n = e /\ a = e
    BY <2>2, <2>3, <2>4
  <2>6. asked \in [Clients -> Nat]
    BY <1>0 DEF CountInv, Types
  <2>7. asked'[c] = e + 1 /\ Len(expected[c]) <= Len(out[c])
    BY <2>2, <2>3, <2>5, <2>6
  <2>8. \A x \in Clients : x # c => asked'[x] = asked[x]
    BY <2>2, <2>6
  <2> SUFFICES ASSUME NEW x \in Clients, x \notin left
               PROVE  /\ asked'[x] <= Len(ends[x]) + 1
                      /\ Len(ends[x]) < asked'[x] => Len(expected[x]) <= Len(out[x])
    BY <2>2 DEF Turns
  <2>9. CASE x = c
    BY <2>3, <2>7, <2>9
  <2>10. CASE x # c
    BY <1>0, <2>8, <2>10 DEF Turns
  <2> QED
    BY <2>9, <2>10
<1>4. CASE \E c \in Clients : Execute(c)
  <2>1. PICK c \in Clients : Execute(c)
    BY <1>4
  <2>2. PICK new, more :
           /\ Len(ends[c]) < asked[c] /\ c \notin left /\ UNCHANGED <<asked, left, out>>
           /\ ends' = [ends EXCEPT ![c] = Append(@, new)]
           /\ expected' = [expected EXCEPT ![c] = more]
    BY <1>0, <2>1, NextCommand
  <2>3. ends \in [Clients -> Seq(Nat)] /\ expected \in [Clients -> Seq(Cells)]
    BY <1>0 DEF CountInv, Types
  <2>4. PICK e \in Seq(Nat) : e = ends[c]
    BY <2>3
  <2>5. ends'[c] = Append(e, new) /\ Len(Append(e, new)) = Len(e) + 1
    <3>1. ends'[c] = Append(e, new)
      BY <2>2, <2>3, <2>4
    <3>2. Len(Append(e, new)) = Len(e) + 1
      BY <2>4
    <3> QED
      BY <3>1, <3>2
  <2>6. \A x \in Clients : x # c => ends'[x] = ends[x] /\ expected'[x] = expected[x]
    BY <2>2, <2>3
  <2> SUFFICES ASSUME NEW x \in Clients, x \notin left
               PROVE  /\ asked[x] <= Len(ends'[x]) + 1
                      /\ Len(ends'[x]) < asked[x] => Len(expected'[x]) <= Len(out[x])
    BY <2>2 DEF Turns
  <2>7. asked[x] <= Len(ends[x]) + 1
    BY <1>0 DEF Turns
  <2>8. CASE x = c
    <3>1. PICK a \in Nat, n \in Nat : a = asked[c] /\ n = Len(e) /\ a <= n + 1
      BY <1>1, <2>4, <2>7, <2>8
    <3>2. Len(ends'[c]) = n + 1
      BY <2>5, <3>1
    <3>3. a <= (n + 1) + 1 /\ ~(n + 1 < a)
      BY <3>1
    <3> QED
      BY <2>8, <3>1, <3>2, <3>3
  <2>9. CASE x # c
    BY <1>0, <2>6, <2>9 DEF Turns
  <2> QED
    BY <2>8, <2>9
<1>5. CASE \E c \in Clients : WriteToClient(c)
  <2>1. PICK c \in Clients : WriteToClient(c)
    BY <1>5
  <2>2. PICK n \in Nat : /\ UNCHANGED <<asked, left, ends, expected>>
                         /\ out' = [out EXCEPT ![c] = @ \o [i \in 1 .. n |-> Pending]]
    BY <1>0, <2>1, WriteDoes
  <2>3. out \in [Clients -> Seq(Cells)]
    BY <1>0 DEF CountInv, Types
  <2>4. PICK s \in Seq(Cells) : s = out[c]
    BY <2>3
  <2>5. Len(s \o [i \in 1 .. n |-> Pending]) = Len(s) + n /\ Len(s) \in Nat
    BY LongerStream
  <2>6. out'[c] = s \o [i \in 1 .. n |-> Pending]
    BY <2>2, <2>3, <2>4
  <2>7. PICK l \in Nat : l = Len(out[c]) /\ Len(out'[c]) = l + n
    BY <2>4, <2>5, <2>6
  <2>8. ASSUME NEW x \in Clients PROVE Len(out[x]) <= Len(out'[x]) /\ Len(out'[x]) \in Nat
    <3>1. CASE x = c
      <4>1. l <= l + n /\ l + n \in Nat
        OBVIOUS
      <4> QED
        BY <2>7, <3>1, <4>1
    <3>2. CASE x # c
      <4>1. out'[x] = out[x]
        BY <2>2, <2>3, <3>2
      <4> QED
        BY <1>1, <4>1
    <3> QED
      BY <3>1, <3>2
  <2> QED
    BY <1>0, <1>1, <2>2, <2>8, TurnsSame
<1>6. CASE CopierStep
  <2>1. UNCHANGED <<asked, left, ends, expected>>
    BY <1>6 DEF CopierStep, clientVars, history
  <2>2. \A x \in Clients : Len(out[x]) <= Len(out'[x]) /\ Len(out'[x]) \in Nat
    BY <1>0, <1>1, <1>6, CopierLengths
  <2> QED
    BY <1>0, <1>1, <2>1, <2>2, TurnsSame
<1>7. CASE \E c \in Clients : Drain(c) \/ BeginWriteTo(c) \/ EndWriteTo(c) \/ Leave(c)
  BY <1>2, <1>7 DEF Drain, BeginWriteTo, EndWriteTo, Leave, clientVars, history
<1>8. CASE Finish \/ AddReply \/ BeginWrites \/ EndWrites
  BY <1>2, <1>8 DEF Finish, AddReply, BeginWrites, EndWrites, clientVars, history
<1>9. CASE UNCHANGED vars
  BY <1>2, <1>9 DEF vars, clientVars, history
<1> QED
  BY <1>3, <1>4, <1>5, <1>6, <1>7, <1>8, <1>9 DEF Next, Server

\* Copies that are there, lists that only lose blocks.
LEMMA SourcesSame ==
    ASSUME Sources, db' = db,
           \A k \in 1 .. Len(tasks') : tasks'[k].op = "copy" =>
              \E j \in 1 .. Len(tasks) : tasks'[k] = tasks[j],
           \A d \in Clients : \A i \in 1 .. Len(reply'[d]) :
              \E j \in 1 .. Len(reply[d]) : reply'[d][i].block = reply[d][j].block
    PROVE  Sources'
<1> SUFFICES ASSUME NEW k \in 1 .. Len(tasks'), tasks'[k].op = "copy"
             PROVE  \E c \in Clients : (HeldFor(c, tasks[k].from) /\ OwnList(c, tasks[k].to))'
  BY DEF Sources
<1>1. PICK j \in 1 .. Len(tasks) : tasks'[k] = tasks[j]
  OBVIOUS
<1>2. PICK c \in Clients : HeldFor(c, tasks[j].from) /\ OwnList(c, tasks[j].to)
  BY <1>1 DEF Sources
<1>3. PICK x, b : x = tasks[j].from /\ b = tasks[j].to /\ x = tasks'[k].from /\ b = tasks'[k].to
  BY <1>1
<1>4. HeldFor(c, x)'
  BY <1>2, <1>3 DEF HeldFor, Reads
<1>5. OwnList(c, b)'
  BY <1>2, <1>3 DEF OwnList
<1> QED
  BY <1>3, <1>4, <1>5 DEF HeldFor, OwnList

\* A command replaces no value that a copy is still to be made from.
LEMMA ExecuteSources ==
    ASSUME ReplyInv, SourceInv, OwnKeys, NEW c \in Clients, Execute(c)
    PROVE  Sources'
<1>0. CountInv /\ Sources /\ ValueInv /\ Waited
  BY SourceInvParts
<1>1. Running /\ UNCHANGED <<tasks, reply>>
  BY <1>0, NextCommand
<1> SUFFICES ASSUME NEW k \in 1 .. Len(tasks), tasks[k].op = "copy"
             PROVE  \E d \in Clients : HeldFor(d, tasks[k].from)' /\ OwnList(d, tasks[k].to)
  BY <1>1 DEF Sources, HeldFor, OwnList
<1>2. PICK x, b : x = tasks[k].from /\ b = tasks[k].to
  OBVIOUS
<1>3. PICK d \in Clients : HeldFor(d, x) /\ OwnList(d, b)
  BY <1>0, <1>2 DEF Sources
<1>4. Listed(b)
  BY <1>0, <1>1, <1>2, WhileRunning
<1>5. reply[c] = <<>>
  BY NothingBefore
<1>6. d # c
  <2>1. PICK y \in Clients : \E i \in 1 .. Len(reply[y]) : reply[y][i].block = b
    BY <1>4 DEF Listed
  <2>2. y = d
    BY <1>3, <2>1 DEF OwnList
  <2>3. Len(<<>>) = 0
    OBVIOUS
  <2>4. y # c
    BY <1>5, <2>1, <2>3
  <2> QED
    BY <2>2, <2>4
<1>7. HeldFor(d, x)'
  BY <1>3, <1>6, HeldStill
<1> QED
  BY <1>1, <1>2, <1>3, <1>7 DEF HeldFor

\* The copy that is posted is made from a piece of the reply, into a free block.
LEMMA AddSources ==
    ASSUME ReplyInv, SourceInv, AddReply
    PROVE  Sources'
<1>0. /\ CountInv /\ Sources /\ Heads /\ ValueInv /\ Waited /\ Types /\ tasks \in Seq(TaskType)
      /\ reply \in [Clients -> Seq(BlockType)] /\ todo \in Seq(PieceType)
  BY SourceInvParts
<1>1. PICK c \in Clients : c = now
  BY <1>0, AddDoes
<1>2. PICK b :
         /\ Running /\ db' = db
         /\ \A y \in Clients : y # c => reply'[y] = reply[y]
         /\ \A i \in 1 .. Len(reply[c]) : reply'[c][i].block = reply[c][i].block
         /\ \/ tasks' = tasks /\ Len(reply'[c]) = Len(reply[c])
            \/ /\ b \in Free /\ Len(reply'[c]) = Len(reply[c]) + 1
               /\ reply'[c][Len(reply[c]) + 1].block = b
               /\ \E t \in CopyType : t.to = b /\ tasks' = Append(tasks, t)
  BY <1>0, <1>1, AddShape
<1>3. CASE tasks' = tasks /\ Len(reply'[c]) = Len(reply[c])
  <2>1. \A d \in Clients : \A i \in 1 .. Len(reply'[d]) :
              \E j \in 1 .. Len(reply[d]) : reply'[d][i].block = reply[d][j].block
    BY <1>2, <1>3
  <2> QED
    BY <1>0, <1>2, <1>3, <2>1, SourcesSame
<1>4. CASE tasks' # tasks /\ b \in Free
  <2>0. /\ Len(reply'[c]) = Len(reply[c]) + 1 /\ reply'[c][Len(reply[c]) + 1].block = b
    BY <1>2, <1>4
  <2>1. PICK piece \in PieceType, t \in TaskType :
           /\ piece = todo[1] /\ todo # <<>>
           /\ t.op = "copy" /\ t.from = piece.from /\ t.to = b /\ tasks' = Append(tasks, t)
    <3>1. PICK piece \in PieceType, a \in Free, part \in Nat :
             /\ piece = todo[1] /\ todo # <<>> /\ part < piece.n
             /\ tasks' = Append(tasks, CopyTask(a, piece.from, part, piece.n - part))
      BY <1>0, <1>4, AddDoes DEF ToBuffer, ToNew
    <3>2. PICK t \in TaskType :
             t = CopyTask(a, piece.from, part, piece.n - part)
             /\ t.op = "copy" /\ t.from = piece.from /\ t.to = a
      <4>1. a \in Blocks
        BY <1>0, FreeParts
      <4> QED
        BY <3>1, <4>1, NewCopy DEF CopyTask
    <3>3. PICK u \in CopyType : u.to = b /\ tasks' = Append(tasks, u)
      BY <1>2, <1>4
    <3>4. u = t
      <4>1. Append(tasks, u) = Append(tasks, t)
        BY <3>1, <3>2, <3>3
      <4>2. u \in TaskType
        BY <3>3 DEF TaskType
      <4>3. Append(tasks, u)[Len(tasks) + 1] = u /\ Append(tasks, t)[Len(tasks) + 1] = t
        BY <1>0, <4>2
      <4> QED
        BY <4>1, <4>3
    <3> QED
      BY <3>1, <3>2, <3>3, <3>4
  <2>2. HeldFor(c, piece.from)
    <3>1. 1 \in 1 .. Len(todo)
      BY <1>0, <2>1
    <3>2. CASE piece.from = Stack
      <4>1. piece.n = 1 /\ bufpos[c] = 0 /\ reply[c] = <<>>
        BY <1>0, <1>1, <2>1, <3>1, <3>2 DEF Heads
      <4>2. 1 <= BufSize - 0
        BY Constants
      <4>3. FitsBuffer(c, piece.n)
        BY <4>1, <4>2 DEF FitsBuffer
      <4>4. Head(todo) = piece
        BY <1>0, <2>1
      <4>5. tasks' = tasks
        BY <1>1, <4>3, <4>4 DEF AddReply
      <4> QED
        BY <1>4, <4>5
    <3>3. CASE piece.from # Stack
      BY <1>0, <1>1, <2>1, <3>1, <3>3 DEF Heads
    <3> QED
      BY <3>2, <3>3
  <2>3. \A x : HeldFor(c, x)' <=> HeldFor(c, x)
    BY <1>2 DEF HeldFor, Reads
  <2>4. /\ Len(tasks') = Len(tasks) + 1 /\ Len(tasks) \in Nat
        /\ \A k \in 1 .. Len(tasks') : k \in 1 .. Len(tasks) \/ k = Len(tasks) + 1
        /\ \A k \in 1 .. Len(tasks) : tasks'[k] = tasks[k]
        /\ tasks'[Len(tasks) + 1] = t
    BY <1>0, <2>1
  <2>5. ~Listed(b)
    BY <1>0, <1>4, FreeParts
  <2>6. ASSUME NEW d \in Clients, NEW i \in 1 .. Len(reply'[d])
        PROVE  \/ \E j \in 1 .. Len(reply[d]) : reply'[d][i].block = reply[d][j].block
               \/ d = c /\ reply'[d][i].block = b
    <3>1. CASE d # c
      BY <1>2, <3>1
    <3>2. CASE d = c
      <4>1. i \in 1 .. Len(reply[c]) \/ i = Len(reply[c]) + 1
        <5>1. Len(reply[c]) \in Nat
          BY <1>0
        <5>2. Len(reply'[c]) = Len(reply[c]) + 1
          BY <2>0
        <5> QED
          BY <3>2, <5>1, <5>2
      <4> QED
        BY <1>2, <2>0, <3>2, <4>1
    <3> QED
      BY <3>1, <3>2
  <2> SUFFICES ASSUME NEW k \in 1 .. Len(tasks'), tasks'[k].op = "copy"
               PROVE  \E d \in Clients : (HeldFor(d, tasks[k].from) /\ OwnList(d, tasks[k].to))'
    BY DEF Sources
  <2>7. CASE k = Len(tasks) + 1
    <3>1. OwnList(c, b)'
      <4> SUFFICES ASSUME NEW d \in Clients, NEW i \in 1 .. Len(reply'[d]), reply'[d][i].block = b
                   PROVE  d = c
        BY DEF OwnList
      <4> QED
        BY <2>5, <2>6 DEF Listed
    <3>2. tasks'[k].from = piece.from /\ tasks'[k].to = b
      BY <2>1, <2>4, <2>7
    <3>3. HeldFor(c, piece.from)'
      BY <2>2, <2>3
    <3> QED
      BY <3>1, <3>2, <3>3 DEF HeldFor, OwnList
  <2>8. CASE k \in 1 .. Len(tasks)
    <3>1. PICK x, y : x = tasks[k].from /\ y = tasks[k].to /\ x = tasks'[k].from /\ y = tasks'[k].to
      BY <2>4, <2>8
    <3>2. tasks[k].op = "copy"
      BY <2>4, <2>8
    <3>3. PICK d \in Clients : HeldFor(d, x) /\ OwnList(d, y)
      BY <1>0, <2>8, <3>1, <3>2 DEF Sources
    <3>4. Listed(y)
      BY <1>0, <1>2, <2>8, <3>1, WhileRunning
    <3>5. y # b
      BY <2>5, <3>4
    <3>6. OwnList(d, y)'
      <4> SUFFICES ASSUME NEW e \in Clients, NEW i \in 1 .. Len(reply'[e]), reply'[e][i].block = y
                   PROVE  e = d
        BY DEF OwnList
      <4>1. PICK j \in 1 .. Len(reply[e]) : reply'[e][i].block = reply[e][j].block
        BY <2>6, <3>5
      <4> QED
        BY <3>3, <4>1 DEF OwnList
    <3>7. HeldFor(d, x)'
      BY <1>2, <3>3 DEF HeldFor, Reads
    <3> QED
      BY <3>1, <3>6, <3>7 DEF HeldFor, OwnList
  <2> QED
    BY <2>4, <2>7, <2>8
<1> QED
  BY <1>2, <1>3, <1>4

LEMMA NextSources ==
    ASSUME ReplyInv, SourceInv, OwnKeys, [Next]_vars
    PROVE  Sources'
<1>0. /\ CountInv /\ Sources /\ Heads /\ Types /\ tasks \in Seq(TaskType)
      /\ reply \in [Clients -> Seq(BlockType)]
  BY SourceInvParts
<1>1. CASE UNCHANGED <<db, tasks, reply>>
  BY <1>0, <1>1, SourcesSame
<1>2. CASE \E c \in Clients : Ask(c) \/ Drain(c) \/ BeginWriteTo(c) \/ EndWriteTo(c)
  BY <1>1, <1>2 DEF Ask, Drain, BeginWriteTo, EndWriteTo, bufferVars
<1>3. CASE BeginWrites \/ EndWrites \/ UNCHANGED vars
  BY <1>1, <1>3 DEF BeginWrites, EndWrites, vars, bufferVars
<1>4. CASE Finish
  <2>1. PICK c \in Clients : c = now /\ ends[c] # <<>>
    BY <1>0, <1>4 DEF Types, Finish, Heads
  <2>2. PICK n \in Nat, a \in Nat, l \in Nat :
           n = Len(ends[c]) /\ a = asked[c] /\ l = Len(Script[c]) /\ n <= a /\ a <= l
    <3>1. Len(ends[c]) \in Nat /\ asked[c] \in Nat /\ Len(Script[c]) \in Nat
      BY <1>0, Known
    <3>2. Len(ends[c]) <= asked[c] /\ asked[c] <= Len(Script[c])
      BY <1>0, Known DEF Commands
    <3> QED
      BY <3>1, <3>2
  <2>3. n # 0
    <3>1. PICK e \in Seq(Nat) : e = ends[c]
      BY <1>0, Known
    <3> QED
      BY <2>1, <2>2, <3>1
  <2>4. n \in 1 .. l
    BY <2>2, <2>3
  <2>5. Script[c][n].op # "getdel"
    BY <2>2, <2>4 DEF OwnKeys
  <2> QED
    BY <1>1, <1>4, <2>1, <2>2, <2>5 DEF Finish, bufferVars
<1>5. CASE CopierStep
  <2>1. UNCHANGED <<db, reply>>
    BY <1>5 DEF CopierStep, bufferVars
  <2>2. /\ Len(tasks') = Len(tasks) - 1 /\ Len(tasks) \in Nat \ {0}
        /\ \A i \in 1 .. Len(tasks') : tasks'[i] = tasks[i + 1] /\ i + 1 \in 1 .. Len(tasks)
    BY <1>0, <1>5 DEF CopierStep
  <2>3. \A k \in 1 .. Len(tasks') : \E j \in 1 .. Len(tasks) : tasks'[k] = tasks[j]
    BY <2>2
  <2> QED
    BY <1>0, <2>1, <2>3, SourcesSame
<1>6. CASE AddReply
  BY <1>6, AddSources
<1>7. CASE \E c \in Clients : Execute(c)
  BY <1>7, ExecuteSources
<1>8. CASE \E c \in Clients : WriteToClient(c)
  <2>1. PICK c \in Clients : WriteToClient(c)
    BY <1>8
  <2>2. PICK t \in TaskType :
           /\ db' = db /\ tasks' = Append(tasks, t) /\ t.op = "send"
           /\ \A y \in Clients : y # c => reply'[y] = reply[y]
           /\ \/ reply'[c] = reply[c]
              \/ reply'[c] = Tail(reply[c]) /\ reply[c] # <<>>
    BY <1>0, <2>1, WriteShape
  <2>3. ASSUME NEW d \in Clients, NEW i \in 1 .. Len(reply'[d])
        PROVE  \E j \in 1 .. Len(reply[d]) : reply'[d][i].block = reply[d][j].block
    <3>1. CASE reply'[d] = reply[d]
      BY <3>1
    <3>2. CASE reply'[d] = Tail(reply[d]) /\ reply[d] # <<>>
      <4>1. PICK list \in Seq(BlockType) : list = reply[d] /\ list # <<>>
        BY <1>0, <3>2
      <4>2. Len(Tail(list)) = Len(list) - 1 /\ Len(list) \in Nat /\ reply'[d] = Tail(list)
        BY <3>2, <4>1
      <4>3. i + 1 \in 1 .. Len(list) /\ Tail(list)[i] = list[i + 1]
        BY <4>1, <4>2
      <4> QED
        BY <4>1, <4>2, <4>3
    <3> QED
      BY <2>2, <3>1, <3>2
  <2>4. \A k \in 1 .. Len(tasks') : tasks'[k].op = "copy" =>
              \E j \in 1 .. Len(tasks) : tasks'[k] = tasks[j]
    <3>1. /\ Len(tasks') = Len(tasks) + 1 /\ Len(tasks) \in Nat
          /\ \A k \in 1 .. Len(tasks) : tasks'[k] = tasks[k]
          /\ tasks'[Len(tasks) + 1] = t
      BY <1>0, <2>2
    <3>2. \A k \in 1 .. Len(tasks') : k \in 1 .. Len(tasks) \/ k = Len(tasks) + 1
      BY <3>1
    <3> QED
      BY <2>2, <3>1, <3>2
  <2> QED
    BY <1>0, <2>2, <2>3, <2>4, SourcesSame
<1>9. CASE \E c \in Clients : Leave(c)
  <2>1. PICK c \in Clients : UNCHANGED <<db, tasks>> /\ reply' = [reply EXCEPT ![c] = <<>>]
    BY <1>9 DEF Leave
  <2>2. ASSUME NEW d \in Clients, NEW i \in 1 .. Len(reply'[d])
        PROVE  \E j \in 1 .. Len(reply[d]) : reply'[d][i].block = reply[d][j].block
    <3>1. CASE d = c
      <4>1. reply'[d] = <<>>
        BY <1>0, <2>1, <3>1
      <4>2. Len(<<>>) = 0
        OBVIOUS
      <4> QED
        BY <4>1, <4>2
    <3>2. CASE d # c
      <4>1. reply'[d] = reply[d]
        BY <1>0, <2>1, <3>2
      <4> QED
        BY <4>1
    <3> QED
      BY <3>1, <3>2
  <2> QED
    BY <1>0, <2>1, <2>2, SourcesSame
<1> QED
  BY <1>2, <1>3, <1>4, <1>5, <1>6, <1>7, <1>8, <1>9 DEF Next, Server

\* The pieces of a reply.
LEMMA ExecuteHeads ==
    ASSUME ReplyInv, SourceInv, NEW c \in Clients, Execute(c)
    PROVE  Heads'
<1>0. CountInv /\ Types
  BY SourceInvParts
<1>1. bufpos[c] = 0 /\ reply[c] = <<>>
  BY NothingBefore
<1>2. PICK cmd \in Command :
              /\ cmd = Script[c][Len(ends[c]) + 1]
              /\ now' = c /\ todo' = Pieces(cmd)
              /\ \E new : ends' = [ends EXCEPT ![c] = Append(@, new)]
              /\ cmd.op # "set" => db' = db
              /\ UNCHANGED <<bufpos, reply, writer>>
  BY <1>0, NextCommand
<1>3. writer' = NoClient
  BY <1>2 DEF Execute, Idle
<1>4. ends'[c] # <<>>
  <2>1. PICK e \in Seq(Nat) : e = ends[c]
    BY <1>0, Known
  <2>2. PICK new : ends'[c] = Append(e, new)
    BY <1>0, <1>2, <2>1 DEF Types
  <2>3. Append(e, new) # <<>>
    BY <2>1
  <2> QED
    BY <2>2, <2>3
<1>5. Ok \in SharedObjects /\ Null \in SharedObjects /\ LineEnd \in SharedObjects
  BY DEF SharedObjects
<1>6. \A x \in SharedObjects : x # Stack
  BY DEF SharedObjects, Stack, LineEnd, Ok, Null
<1>7. ASSUME NEW x \in SharedObjects, todo' = <<Object(x, 1)>>, NEW i \in 1 .. Len(todo')
      PROVE  todo'[i].from # Stack /\ HeldFor(c, todo[i].from)'
  <2>1. i = 1 /\ todo'[1] = Object(x, 1)
    BY <1>7
  <2>2. todo'[i].from = x
    BY <2>1 DEF Object
  <2> QED
    BY <1>6, <2>2 DEF HeldFor
<1>8. ASSUME cmd.op # "set", ~Absent(cmd.key), NEW i \in 1 .. Len(todo')
      PROVE  IF todo'[i].from = Stack THEN i = 1 /\ todo'[1].n = 1
             ELSE HeldFor(c, todo[i].from)'
  <2>1. PICK k \in Keys : k = cmd.key /\ ~Absent(k) /\ Reads(c, k)
    BY <1>0, <1>2, <1>8, OfScript
  <2>0. PICK n : n = ValueLen[db[k].value]
    OBVIOUS
  <2>2. PICK p, q, r : /\ p = OnStack(Header(n)) /\ q = Object(db[k].block, n) /\ r = Object(LineEnd, 1)
                      /\ todo' = <<p, q, r>>
    BY <1>2, <1>8, <2>0, <2>1 DEF Pieces, BulkPieces
  <2>3. p.from = Stack /\ p.n = 1 /\ q.from = db[k].block /\ r.from = LineEnd
    BY <2>2 DEF OnStack, Object
  <2>4. \/ i = 1 /\ todo'[i] = p
        \/ i = 2 /\ todo'[i] = q
        \/ i = 3 /\ todo'[i] = r
    BY <2>2
  <2>5. ASSUME NEW y, y = db[k].block PROVE HeldFor(c, y)'
    <3>1. db'[k].block = y /\ y # NoBlock
      BY <1>2, <1>8, <2>1, <2>5 DEF Absent
    <3>2. Reads(c, k)'
      BY <2>1 DEF Reads
    <3> QED
      BY <3>1, <3>2 DEF HeldFor
  <2>6. HeldFor(c, LineEnd)'
    BY <1>5 DEF HeldFor
  <2>7. todo'[1] = p
    BY <2>2
  <2>8. CASE i = 1 /\ todo'[i] = p
    BY <2>3, <2>8
  <2>9. CASE i = 2 /\ todo'[i] = q
    <3>1. db[k].block # Stack
      <4>1. db[k].block \in Blocks
        BY <1>0, <2>1, KeyParts DEF Types
      <4> QED
        BY <4>1, Locate
    <3>2. todo'[i].from = db[k].block
      BY <2>3, <2>9
    <3>3. PICK y : y = db[k].block
      OBVIOUS
    <3>4. HeldFor(c, y)'
      BY <2>5, <3>3
    <3> QED
      BY <3>1, <3>2, <3>3, <3>4 DEF HeldFor
  <2>10. CASE i = 3 /\ todo'[i] = r
    BY <1>5, <1>6, <2>3, <2>6, <2>10 DEF HeldFor
  <2> QED
    BY <2>4, <2>8, <2>9, <2>10
<1>9. ASSUME NEW i \in 1 .. Len(todo')
      PROVE  IF todo'[i].from = Stack THEN i = 1 /\ todo'[1].n = 1
             ELSE HeldFor(c, todo[i].from)'
  <2>1. CASE cmd.op = "set"
    <3>1. todo' = <<Object(Ok, 1)>>
      BY <1>2, <2>1 DEF Pieces
    <3> QED
      BY <1>5, <1>7, <3>1
  <2>2. CASE cmd.op # "set" /\ Absent(cmd.key)
    <3>1. todo' = <<Object(Null, 1)>>
      BY <1>2, <2>2 DEF Pieces, BulkPieces
    <3> QED
      BY <1>5, <1>7, <3>1
  <2>3. CASE cmd.op # "set" /\ ~Absent(cmd.key)
    BY <1>8, <2>3
  <2> QED
    BY <2>1, <2>2, <2>3
<1> QED
  BY <1>1, <1>2, <1>3, <1>4, <1>9 DEF Heads, HeldFor

LEMMA AddHeads ==
    ASSUME ReplyInv, SourceInv, AddReply
    PROVE  Heads'
<1>0. CountInv /\ Heads /\ todo \in Seq(PieceType)
  BY SourceInvParts
<1>1. PICK c \in Clients :
         /\ c = now /\ todo # <<>> /\ todo' = Tail(todo)
         /\ UNCHANGED <<db, now, writer, ends>>
  BY <1>0, AddDoes
<1> SUFFICES ASSUME NEW i \in 1 .. Len(todo')
             PROVE  todo'[i].from # Stack /\ HeldFor(c, todo[i].from)'
  BY <1>0, <1>1 DEF Heads
<1>2. i + 1 \in 1 .. Len(todo) /\ todo'[i] = todo[i + 1] /\ i + 1 # 1
  BY <1>0, <1>1
<1>3. PICK x : x = todo[i + 1].from /\ x = todo'[i].from
  BY <1>2
<1>4. x # Stack /\ HeldFor(c, x)
  BY <1>0, <1>1, <1>2, <1>3 DEF Heads
<1>5. HeldFor(c, x)'
  BY <1>1, <1>4 DEF HeldFor, Reads
<1> QED
  BY <1>3, <1>4, <1>5 DEF HeldFor

LEMMA NextHeads ==
    ASSUME ReplyInv, SourceInv, [Next]_vars
    PROVE  Heads'
<1>0. Heads /\ now \in Clients \cup {NoClient}
  BY SourceInvParts
<1>1. CASE UNCHANGED <<db, now, todo, bufpos, reply, ends, writer>>
  BY <1>0, <1>1 DEF Heads, HeldFor, Reads
<1>2. CASE now' = NoClient
  BY <1>2, Constants DEF Heads
<1>3. CASE Finish \/ BeginWrites \/ EndWrites
  BY <1>2, <1>3 DEF Finish, BeginWrites, EndWrites, Idle
<1>4. CASE \E c \in Clients : BeginWriteTo(c) \/ Leave(c)
  BY <1>2, <1>4 DEF BeginWriteTo, Leave, Idle
<1>5. CASE \E c \in Clients : WriteToClient(c) \/ EndWriteTo(c)
  <2>1. writer # NoClient /\ now' = now
    BY <1>5, Constants DEF WriteToClient, EndWriteTo
  <2>2. now = NoClient
    BY <1>0, <2>1 DEF Heads
  <2> QED
    BY <1>2, <2>1, <2>2
<1>6. CASE CopierStep \/ UNCHANGED vars
  BY <1>1, <1>6 DEF CopierStep, vars, bufferVars, loopVars, history
<1>7. CASE \E c \in Clients : Ask(c) \/ Drain(c)
  BY <1>1, <1>7 DEF Ask, Drain, bufferVars, loopVars, history
<1>8. CASE AddReply
  BY <1>8, AddHeads
<1>9. CASE \E c \in Clients : Execute(c)
  BY <1>9, ExecuteHeads
<1> QED
  BY <1>3, <1>4, <1>5, <1>6, <1>7, <1>8, <1>9 DEF Next, Server

LEMMA InitSources ==
    ASSUME Init
    PROVE  SourceInv
<1>1. \A c \in Clients : asked[c] = 0 /\ ends[c] = <<>>
  BY DEF Init
<1>2. Len(<<>>) = 0
  OBVIOUS
<1>3. Turns
  BY <1>1, <1>2 DEF Turns
<1>4. Sources /\ Heads
  BY <1>2, Constants DEF Init, Sources, Heads
<1> QED
  BY <1>3, <1>4 DEF SourceInv

\* If the send call returns when its bytes are taken, each client waits for its
\* replies, and what one client reads no other writes, then each client gets,
\* place by place, what its commands promised when they were executed: from the
\* buffer, from a block the server wrote to and from one a copy is still to be
\* made to, across partial sends, blocks used again and values replaced by the
\* clients that read them.  No step then writes to what a copy is still to be
\* made from.
THEOREM AsPromised ==
    ASSUME Patient, OneAsked, OwnKeys
    PROVE  Spec => []RepliesAsPromised
<1>1. Init => ReplyInv /\ Present /\ SourceInv
  BY InitReplies, InitPresent, InitSources
<1>2. ASSUME ReplyInv, Present, SourceInv, [Next]_vars
      PROVE  ReplyInv' /\ Present' /\ SourceInv'
  <2>1. [SourceKept]_vars
    BY <1>2, KeepsSources
  <2>2. ReplyInv'
    BY <1>2, <2>1, NextReplies
  <2>3. Present'
    BY <1>2, ReplyParts, NextPresent
  <2>4. SourceInv'
    BY <1>2, NextTurns, NextSources, NextHeads DEF SourceInv
  <2> QED
    BY <2>2, <2>3, <2>4
<1>3. ReplyInv => RepliesAsPromised
  BY ReplyParts
<1> QED
  BY <1>1, <1>2, <1>3, PTL DEF Spec
=============================================================================
