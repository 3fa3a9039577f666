----------------------- MODULE TinyproxyRelayProofs -----------------------
(***************************************************************************)
(* What tinyproxy relays is what was sent, in order, for any number of     *)
(* connections and blocks of heap, any lengths of the streams and sizes of *)
(* the buffers, although a buffer or line is freed, and used again, with   *)
(* copies into it and out of it still in the queue; the processor spoils   *)
(* the units that such a copy has still to read where it writes, and no    *)
(* others.                                                                 *)
(*                                                                         *)
(* The argument has two halves.  The contents: at every task of the queue  *)
(* its source holds, when the tasks before it are done, what the task is   *)
(* to find there, or these units are spoiled; and a piece of heap that is  *)
(* in use, a claim, will hold its units when all tasks are done, or they   *)
(* are spoiled.  The counts: at each place of a      *)
(* thread its buffer and its lists are the part of the stream between what *)
(* was received and what was sent.                                         *)
(***************************************************************************)
EXTENDS TinyproxyRelay, SequenceTheorems, TLAPS

-----------------------------------------------------------------------------
(* The types                                                               *)

UnitSeq == Seq(Units)
LineType == [block : Blocks, first : Nat \ {0}, length : Nat \ {0}, pos : Nat]
HeldType == [block : Blocks \cup {NoBlock}, dir : Dirs, first : Nat \ {0}, length : Nat]
RecvType == [op : {"recv"}, to : Blocks, units : UnitSeq]
CopyType == [op : {"copy"}, to : Blocks, from : Blocks, units : UnitSeq]
SendType == [op : {"send"}, conn : Conns, dir : Dirs, place : Nat, from : Blocks,
             units : UnitSeq, pos : Nat, n : Nat]
TaskType == RecvType \cup CopyType \cup SendType

Types ==
    /\ pc \in [Conns -> Labels]
    /\ arrived \in [Conns -> [Dirs -> Nat]]
    /\ got \in [Conns -> [Dirs -> Nat]]
    /\ held \in [Conns -> HeldType]
    /\ lines \in [Conns -> [Dirs -> Seq(LineType)]]
    /\ size \in [Conns -> [Dirs -> Int]]
    /\ left \in [Conns -> Int]
    /\ out \in [Conns -> [Dirs -> Seq(Units \cup {Pending, Junk})]]
    /\ mem \in [Blocks -> Seq(Units \cup {Junk})]
    /\ tasks \in Seq(TaskType)
    /\ spoiled \subseteq Units

Flags ==
    /\ over \in [Conns -> [Dirs -> BOOLEAN]]
    /\ full \in [Conns -> [Dirs -> BOOLEAN]]
    /\ gone \in [Conns -> [Dirs -> BOOLEAN]]
    /\ ready \in [Conns -> BOOLEAN]

-----------------------------------------------------------------------------
(* The contents                                                            *)

\* t brings units to the piece of heap b.
Writes(t, b) == t.op \in {"recv", "copy"} /\ t.to = b

\* When the tasks before the k-th are done, b holds units.
Found(b, k, units) ==
    \/ \E j \in 1 .. k - 1 :
          /\ Writes(tasks[j], b) /\ tasks[j].units = units
          /\ \A i \in j + 1 .. k - 1 : ~Writes(tasks[i], b)
    \/ (\A i \in 1 .. k - 1 : ~Writes(tasks[i], b)) /\ mem[b] = units

\* It does, or the processor has spoiled them.
Tainted(units) == UnitsIn(units) \subseteq spoiled
Holds(b, k, units) == Tainted(units) \/ Found(b, k, units)

\* The pieces of heap in use for the service, and for which units.
HeldClaim(c) ==
    [block |-> held[c].block, conn |-> c, dir |-> held[c].dir,
     first |-> held[c].first, length |-> held[c].length]
LineClaim(c, d, i) ==
    [block |-> lines[c][d][i].block, conn |-> c, dir |-> d,
     first |-> lines[c][d][i].first, length |-> lines[c][d][i].length]
Claims ==
    {HeldClaim(c) : c \in {x \in Conns : held[x].block \in Blocks}} \cup
    UNION {{LineClaim(c, d, i) : i \in 1 .. Len(lines[c][d])} : c \in Conns, d \in Dirs}
UnitsOf(q) == Run(q.conn, q.dir, q.first, q.length)

\* No piece of heap is claimed twice, and each will hold its units.
Distinct == \A p, q \in Claims : p.block = q.block => p = q
Kept == \A q \in Claims : Holds(q.block, Len(tasks) + 1, UnitsOf(q))

\* A line of a head is there at once, and no task waits to write over it.
HeadPlaces == {"requestHeld", "responseHeld"}
HeadOf(c) == Run(c, held[c].dir, held[c].first, held[c].length)
HeadKept(c) ==
    /\ held[c].block \in Blocks
    /\ \/ Tainted(HeadOf(c))
       \/ /\ mem[held[c].block] = HeadOf(c)
          /\ \A i \in 1 .. Len(tasks) : ~Writes(tasks[i], held[c].block)
HeadsKept == \A c \in Conns : pc[c] \in HeadPlaces => HeadKept(c)

\* A copy or send will find in its source what it is to find, and a send fills
\* places of the stream with their units.
Sources ==
    \A k \in 1 .. Len(tasks) :
        tasks[k].op \in {"copy", "send"} => Holds(tasks[k].from, k, tasks[k].units)
SendsFit ==
    \A k \in 1 .. Len(tasks) : tasks[k].op = "send" =>
        LET t == tasks[k] IN
            /\ t.pos + t.n <= Len(t.units)
            /\ t.place + t.n <= Len(out[t.conn][t.dir])
            /\ \A i \in 1 .. t.n : t.units[t.pos + i] = Unit(t.conn, t.dir, t.place + i)

Contents ==
    /\ Distinct /\ Kept /\ HeadsKept
    /\ Sources /\ SendsFit /\ RelayedInOrder

-----------------------------------------------------------------------------
(* The counts                                                              *)

\* A list of so many units, added up to the last of them, of which so many
\* were sent.
GapOK(added, list, units, sentUp) ==
    IF list = <<>>
    THEN units = 0 /\ sentUp = added
    ELSE /\ units + list[1].first = added + 1
         /\ list[1].first + list[1].pos = sentUp + 1
         /\ list[Len(list)].first + list[Len(list)].length = added + 1
         /\ list[1].pos < list[1].length
         /\ \A i \in 2 .. Len(list) :
               /\ list[i].pos = 0
               /\ list[i].first = list[i - 1].first + list[i - 1].length
         /\ \A i, j \in 1 .. Len(list) : i < j => list[i].first + list[i].length <= list[j].first

Gap(c, d) == GapOK(got[c][d] - NotAdded(c, d), lines[c][d], size[c][d], Len(out[c][d]))

BeforeRelay == {"request", "requestHeld", "body", "bodyHeld", "response", "responseHeld"}
Sent(c, d) == Len(out[c][d])

\* The buffer of thread c holds the last units that it received.
HoldsLast(c, d) ==
    /\ held[c].dir = d
    /\ held[c].length >= 1
    /\ held[c].first + held[c].length = got[c][d] + 1

\* How far a thread is at each place.
Before(c) ==
    /\ pc[c] \in BeforeRelay => \A d \in Dirs : lines[c][d] = <<>> /\ size[c][d] = 0
    /\ pc[c] \in BeforeRelay \ {"responseHeld"} => got[c]["down"] = 0 /\ Sent(c, "down") = 0
    /\ pc[c] = "request" => got[c]["up"] = 0 /\ Sent(c, "up") = 0
    /\ pc[c] = "requestHeld" =>
          /\ got[c]["up"] = 1 /\ Sent(c, "up") = 0
          /\ held[c].block \in Blocks /\ held[c].first = 1 /\ held[c].length = 1
          /\ held[c].dir = "up"
    /\ pc[c] \in {"body", "response", "responseHeld"} => Sent(c, "up") = got[c]["up"]
    /\ pc[c] = "body" => held[c].block \in Blocks \cup {NoBlock}
    /\ pc[c] = "bodyHeld" =>
          /\ HoldsLast(c, "up")
          /\ held[c].block \in Blocks
          /\ held[c].first <= Sent(c, "up") + 1
          /\ Sent(c, "up") < got[c]["up"]
    /\ pc[c] = "responseHeld" =>
          /\ got[c]["down"] = 1 /\ Sent(c, "down") = 0
          /\ held[c].block \in Blocks /\ held[c].first = 1 /\ held[c].length = 1
          /\ held[c].dir = "down"

InRelay(c) ==
    /\ pc[c] \in Relaying => Gap(c, "up") /\ Gap(c, "down")
    /\ pc[c] \in {"request", "response", "poll", "readDown", "writeDown", "readUp", "writeUp"} =>
          held[c] = NotHeld
    /\ pc[c] \in {"addDown", "addUp"} =>
          LET d == IF pc[c] = "addDown" THEN "down" ELSE "up"
          IN HoldsLast(c, d) /\ held[c].block \in Blocks
             /\ held[c].length <= ReadSize /\ size[c][d] < MaxSize
    /\ pc[c] \in {"flushDown", "flushUp", "destroy", "done"} => held[c].block = NoBlock
    /\ pc[c] = "flushUp" /\ ~gone[c]["down"] => lines[c]["down"] = <<>>

Counts(c) ==
    /\ \A d \in Dirs :
          /\ got[c][d] <= arrived[c][d] /\ arrived[c][d] <= Length[d]
          /\ Sent(c, d) <= got[c][d]
          /\ size[c][d] \in 0 .. MaxSize + ReadSize - 1
    /\ Before(c)
    /\ InRelay(c)

RelayInv == Types /\ Flags /\ Contents /\ \A c \in Conns : Counts(c)

-----------------------------------------------------------------------------
(* Runs of units                                                           *)

LEMMA Sizes ==
    /\ Length["up"] \in Nat /\ Length["down"] \in Nat /\ BodyLength \in Nat
    /\ ReadSize \in Nat \ {0} /\ MaxSize \in Nat \ {0}
    /\ "up" \in Dirs /\ "down" \in Dirs /\ \A d \in Dirs : d = "up" \/ d = "down"
    /\ \A d \in Dirs : Length[d] \in Nat
  BY RelayAssumption DEF RelayAssumption, Dirs

LEMMA Heaps == NoBlock \notin Blocks
  BY RelayAssumption DEF RelayAssumption

\* A run of a stream is made of its units.
LEMMA RunUnits ==
    ASSUME NEW c \in Conns, NEW d \in Dirs, NEW first \in Nat \ {0}, NEW n \in Nat,
           first + n <= Length[d] + 1
    PROVE  /\ Run(c, d, first, n) \in UnitSeq
           /\ Len(Run(c, d, first, n)) = n
           /\ \A i \in 1 .. n : Run(c, d, first, n)[i] = Unit(c, d, first + i - 1)
<1>1. ASSUME NEW i \in 1 .. n PROVE Unit(c, d, first + i - 1) \in Units
  <2>1. first + i - 1 \in 1 .. Length["up"] + Length["down"]
    BY Sizes
  <2> QED
    BY <2>1 DEF Units
<1>2. Run(c, d, first, n) \in [1 .. n -> Units]
  BY <1>1 DEF Run
<1>3. \A i \in 1 .. n : Run(c, d, first, n)[i] = Unit(c, d, first + i - 1)
  BY DEF Run
<1> QED
  BY <1>2, <1>3 DEF UnitSeq

\* A piece of a sequence of units is a sequence of units, or of junk.
LEMMA PieceUnits ==
    ASSUME NEW s \in Seq(Units \cup {Junk}), NEW p \in Nat, NEW n \in Nat
    PROVE  /\ Piece(s, p, n) \in Seq(Units \cup {Junk})
           /\ Len(Piece(s, p, n)) = n
           /\ \A i \in 1 .. n : p + i <= Len(s) => Piece(s, p, n)[i] = s[p + i]
<1>1. Piece(s, p, n) \in [1 .. n -> Units \cup {Junk}]
  <2>1. \A i \in 1 .. n : p + i <= Len(s) => s[p + i] \in Units \cup {Junk}
    OBVIOUS
  <2> QED
    BY <2>1 DEF Piece
<1>2. \A i \in 1 .. n : p + i <= Len(s) => Piece(s, p, n)[i] = s[p + i]
  BY DEF Piece
<1> QED
  BY <1>1, <1>2

\* All of a sequence is a piece of it.
LEMMA PieceWhole ==
    ASSUME NEW s \in Seq(Units)
    PROVE  Piece(s, 0, Len(s)) = s
<1>1. Piece(s, 0, Len(s)) = [i \in 1 .. Len(s) |-> s[i]]
  BY DEF Piece
<1> QED
  BY <1>1

-----------------------------------------------------------------------------
(* What a piece of heap will hold                                          *)

\* Nothing changes for it.
LEMMA FoundSame ==
    ASSUME NEW b, NEW k, NEW u, Found(b, k, u), tasks' = tasks, mem'[b] = mem[b]
    PROVE  Found(b, k, u)'
  BY DEF Found, Writes

\* A task is added behind.
LEMMA FoundBefore ==
    ASSUME NEW t, NEW b, NEW k \in 1 .. Len(tasks) + 1, NEW u, Found(b, k, u),
           tasks \in Seq(TaskType), tasks' = Append(tasks, t), mem'[b] = mem[b]
    PROVE  Found(b, k, u)'
<1>1. \A i \in 1 .. k - 1 : tasks'[i] = tasks[i]
  OBVIOUS
<1>2. CASE \E j \in 1 .. k - 1 :
              /\ Writes(tasks[j], b) /\ tasks[j].units = u
              /\ \A i \in j + 1 .. k - 1 : ~Writes(tasks[i], b)
  <2>1. PICK j \in 1 .. k - 1 :
              /\ Writes(tasks[j], b) /\ tasks[j].units = u
              /\ \A i \in j + 1 .. k - 1 : ~Writes(tasks[i], b)
    BY <1>2
  <2>2. /\ Writes(tasks'[j], b) /\ tasks'[j].units = u
        /\ \A i \in j + 1 .. k - 1 : ~Writes(tasks'[i], b)
    BY <1>1, <2>1
  <2> QED
    BY <2>2 DEF Found, Writes
<1>3. CASE (\A i \in 1 .. k - 1 : ~Writes(tasks[i], b)) /\ mem[b] = u
  BY <1>1, <1>3 DEF Found, Writes
<1> QED
  BY <1>2, <1>3 DEF Found

\* A task is added that does not write it.
LEMMA FoundBehind ==
    ASSUME NEW t, NEW b, NEW u, Found(b, Len(tasks) + 1, u), ~Writes(t, b),
           tasks \in Seq(TaskType), tasks' = Append(tasks, t), mem'[b] = mem[b]
    PROVE  Found(b, Len(tasks) + 1, u)'
<1> DEFINE n == Len(tasks)
<1>0. n \in Nat /\ n + 1 - 1 = n /\ Len(tasks') = n + 1 /\ (n + 1) + 1 - 1 = n + 1
  OBVIOUS
<1>1. tasks'[n + 1] = t /\ \A i \in 1 .. n : tasks'[i] = tasks[i]
  OBVIOUS
<1>2. CASE \E j \in 1 .. n :
              /\ Writes(tasks[j], b) /\ tasks[j].units = u
              /\ \A i \in j + 1 .. n : ~Writes(tasks[i], b)
  <2>1. PICK j \in 1 .. n :
              /\ Writes(tasks[j], b) /\ tasks[j].units = u
              /\ \A i \in j + 1 .. n : ~Writes(tasks[i], b)
    BY <1>2
  <2>2. /\ Writes(tasks'[j], b) /\ tasks'[j].units = u
        /\ \A i \in j + 1 .. n + 1 : ~Writes(tasks'[i], b)
    BY <1>0, <1>1, <2>1
  <2> QED
    BY <1>0, <2>2, SMTT(30) DEF Found, Writes
<1>3. CASE (\A i \in 1 .. n : ~Writes(tasks[i], b)) /\ mem[b] = u
  BY <1>0, <1>1, <1>3 DEF Found, Writes
<1> QED
  BY <1>0, <1>2, <1>3 DEF Found

\* The same for what is held, or spoiled.
LEMMA HoldsSame ==
    ASSUME NEW b, NEW k, NEW u, Holds(b, k, u), tasks' = tasks, mem'[b] = mem[b],
           spoiled \subseteq spoiled'
    PROVE  Holds(b, k, u)'
<1>1. CASE Tainted(u)
  BY <1>1 DEF Holds, Tainted
<1>2. CASE Found(b, k, u)
  BY <1>2, FoundSame DEF Holds
<1> QED
  BY <1>1, <1>2 DEF Holds

LEMMA HoldsBefore ==
    ASSUME NEW t, NEW b, NEW k \in 1 .. Len(tasks) + 1, NEW u, Holds(b, k, u),
           tasks \in Seq(TaskType), tasks' = Append(tasks, t), mem'[b] = mem[b],
           spoiled' = spoiled
    PROVE  Holds(b, k, u)'
<1>1. CASE Tainted(u)
  BY <1>1 DEF Holds, Tainted
<1>2. CASE Found(b, k, u)
  BY <1>2, FoundBefore DEF Holds
<1> QED
  BY <1>1, <1>2 DEF Holds

LEMMA HoldsBehind ==
    ASSUME NEW t, NEW b, NEW u, Holds(b, Len(tasks) + 1, u), ~Writes(t, b),
           tasks \in Seq(TaskType), tasks' = Append(tasks, t), mem'[b] = mem[b],
           spoiled' = spoiled
    PROVE  Holds(b, Len(tasks) + 1, u)'
<1>1. CASE Tainted(u)
  BY <1>1 DEF Holds, Tainted
<1>2. CASE Found(b, Len(tasks) + 1, u)
  BY <1>2, FoundBehind DEF Holds
<1> QED
  BY <1>1, <1>2 DEF Holds

\* A task is added that writes it.
LEMMA HoldsNew ==
    ASSUME NEW t, NEW b, Writes(t, b), tasks \in Seq(TaskType), tasks' = Append(tasks, t)
    PROVE  Holds(b, Len(tasks) + 1, t.units)'
<1> DEFINE n == Len(tasks')
<1>1. tasks'[n] = t /\ n \in 1 .. (n + 1) - 1 /\ \A i \in n + 1 .. (n + 1) - 1 : FALSE
  OBVIOUS
<1>2. Writes(tasks'[n], b) /\ tasks'[n].units = t.units
  BY <1>1
<1> HIDE DEF n
<1>3. \E j \in 1 .. (n + 1) - 1 :
         /\ Writes(tasks'[j], b) /\ tasks'[j].units = t.units
         /\ \A i \in j + 1 .. (n + 1) - 1 : ~Writes(tasks'[i], b)
  BY <1>1, <1>2
<1> QED
  BY <1>3 DEF Holds, Found, Writes, n

\* What there is to a task.
LEMMA TaskParts ==
    ASSUME NEW t \in TaskType
    PROVE  /\ t.op \in {"recv", "copy", "send"} /\ t.units \in UnitSeq
           /\ t.op \in {"recv", "copy"} => t.to \in Blocks
           /\ t.op \in {"copy", "send"} => t.from \in Blocks
           /\ t.op = "send" => /\ t.conn \in Conns /\ t.dir \in Dirs
                               /\ t.place \in Nat /\ t.pos \in Nat /\ t.n \in Nat
<1>1. CASE t \in RecvType
  BY <1>1 DEF RecvType
<1>2. CASE t \in CopyType
  BY <1>2 DEF CopyType
<1>3. CASE t \in SendType
  BY <1>3 DEF SendType
<1> QED
  BY <1>1, <1>2, <1>3 DEF TaskType

\* The service takes the first task.
LEMMA FirstTask ==
    ASSUME Types, CopierStep
    PROVE  /\ 1 \in 1 .. Len(tasks) /\ Head(tasks) = tasks[1] /\ tasks[1] \in TaskType
           /\ tasks' \in Seq(TaskType) /\ Len(tasks') = Len(tasks) - 1 /\ Len(tasks) \in Nat
           /\ \A k \in 1 .. Len(tasks') : k + 1 \in 1 .. Len(tasks) /\ tasks'[k] = tasks[k + 1]
<1>1. tasks \in Seq(TaskType) /\ tasks # <<>> /\ tasks' = Tail(tasks)
  BY DEF Types, CopierStep
<1> QED
  BY <1>1

\* It brings to its destination what it is to bring, or what is spoiled.
LEMMA FirstBrings ==
    ASSUME Types, Sources, CopierStep
    PROVE  /\ mem' \in [Blocks -> Seq(Units \cup {Junk})]
           /\ \A b \in Blocks : Writes(tasks[1], b) =>
                 mem'[b] = tasks[1].units \/ Tainted(tasks[1].units)
           /\ \A b \in Blocks : ~Writes(tasks[1], b) => mem'[b] = mem[b]
           /\ tasks[1].op # "send" => out' = out
           /\ tasks[1].op \in {"copy", "send"} =>
                 mem[tasks[1].from] = tasks[1].units \/ Tainted(tasks[1].units)
<1> DEFINE t == tasks[1]
<1>1. /\ 1 \in 1 .. Len(tasks) /\ Head(tasks) = t /\ t \in TaskType
      /\ t.op \in {"recv", "copy", "send"} /\ t.units \in Seq(Units)
      /\ t.op \in {"recv", "copy"} => t.to \in Blocks
      /\ t.op \in {"copy", "send"} => t.from \in Blocks
  BY FirstTask, TaskParts DEF UnitSeq
<1>2. t.op \in {"copy", "send"} => mem[t.from] = t.units \/ Tainted(t.units)
  <2> SUFFICES ASSUME t.op \in {"copy", "send"}
               PROVE  mem[t.from] = t.units \/ Tainted(t.units)
    OBVIOUS
  <2>1. Holds(t.from, 1, t.units)
    BY <1>1 DEF Sources
  <2> HIDE DEF t
  <2> QED
    BY <2>1 DEF Holds, Found
<1>3. mem \in [Blocks -> Seq(Units \cup {Junk})]
  BY DEF Types
<1>4. t.units \in Seq(Units \cup {Junk})
  BY <1>1
<1>5. CASE t.op = "recv"
  <2>1. mem' = [mem EXCEPT ![t.to] = t.units] /\ out' = out
    BY <1>1, <1>5 DEF CopierStep
  <2> HIDE DEF t
  <2> QED
    BY <1>1, <1>3, <1>4, <1>5, <2>1 DEF Writes, t
<1>6. CASE t.op = "copy"
  <2>1. mem' = [mem EXCEPT ![t.to] = Piece(mem[t.from], 0, Len(t.units))] /\ out' = out
    BY <1>1, <1>6 DEF CopierStep
  <2>2. PICK new \in Seq(Units \cup {Junk}) :
            /\ new = Piece(mem[t.from], 0, Len(t.units))
            /\ new = t.units \/ Tainted(t.units)
    <3>1. CASE mem[t.from] = t.units
      <4>1. Piece(mem[t.from], 0, Len(t.units)) = t.units
        BY <1>1, <3>1, PieceWhole
      <4> QED
        BY <1>4, <4>1
    <3>2. CASE Tainted(t.units)
      <4>1. mem[t.from] \in Seq(Units \cup {Junk}) /\ Len(t.units) \in Nat
        BY <1>1, <1>3, <1>6
      <4>2. Piece(mem[t.from], 0, Len(t.units)) \in Seq(Units \cup {Junk})
        BY <4>1, PieceUnits
      <4> QED
        BY <3>2, <4>2
    <3> QED
      BY <1>2, <1>6, <3>1, <3>2
  <2>3. mem' = [mem EXCEPT ![t.to] = new]
    BY <2>1, <2>2
  <2> HIDE DEF t
  <2> QED
    BY <1>1, <1>2, <1>3, <1>6, <2>1, <2>2, <2>3 DEF Writes, t
<1>7. CASE t.op = "send"
  <2>1. mem' = mem
    BY <1>1, <1>7 DEF CopierStep
  <2> QED
    BY <1>2, <1>3, <1>7, <2>1 DEF Writes
<1> QED
  BY <1>1, <1>5, <1>6, <1>7

\* What a piece of heap holds behind the first task it holds on when that is done.
LEMMA HoldsOn ==
    ASSUME Types, Sources, CopierStep, NEW b \in Blocks, NEW k \in 1 .. Len(tasks), NEW u,
           Holds(b, k + 1, u)
    PROVE  Holds(b, k, u)'
<1>1. /\ \A i \in 1 .. k - 1 : tasks'[i] = tasks[i + 1]
      /\ k \in Nat \ {0} /\ k + 1 - 1 = k
  BY FirstTask
<1>2. /\ Writes(tasks[1], b) => mem'[b] = tasks[1].units \/ Tainted(tasks[1].units)
      /\ ~Writes(tasks[1], b) => mem'[b] = mem[b]
      /\ spoiled' = spoiled
  BY FirstBrings DEF CopierStep
<1>5. Tainted(u) => Holds(b, k, u)'
  BY <1>2 DEF Holds, Tainted
<1>3. CASE \E j \in 1 .. k :
              /\ Writes(tasks[j], b) /\ tasks[j].units = u
              /\ \A i \in j + 1 .. k : ~Writes(tasks[i], b)
  <2>1. PICK j \in 1 .. k :
              /\ Writes(tasks[j], b) /\ tasks[j].units = u
              /\ \A i \in j + 1 .. k : ~Writes(tasks[i], b)
    BY <1>3
  <2>2. CASE j = 1
    <3>1. mem'[b] = u \/ Tainted(u)
      BY <1>2, <2>1, <2>2
    <3>2. \A i \in 1 .. k - 1 : ~Writes(tasks'[i], b)
      BY <1>1, <2>1, <2>2
    <3>3. mem'[b] = u => Found(b, k, u)'
      BY <3>2 DEF Found, Writes
    <3> QED
      BY <1>5, <3>1, <3>3 DEF Holds
  <2>3. CASE j # 1
    <3>1. j - 1 \in 1 .. k - 1 /\ j - 1 + 1 = j
      BY <1>1, <2>3
    <3>2. Writes(tasks'[j - 1], b) /\ tasks'[j - 1].units = u
      BY <1>1, <2>1, <3>1
    <3>3. \A i \in j - 1 + 1 .. k - 1 : i \in 1 .. k - 1 /\ i + 1 \in j + 1 .. k
      BY <1>1, <2>3
    <3>4. \A i \in j - 1 + 1 .. k - 1 : ~Writes(tasks'[i], b)
      BY <1>1, <2>1, <3>3
    <3>5. \E m \in 1 .. k - 1 :
              /\ Writes(tasks'[m], b) /\ tasks'[m].units = u
              /\ \A i \in m + 1 .. k - 1 : ~Writes(tasks'[i], b)
      BY <3>1, <3>2, <3>4
    <3> QED
      BY <3>5 DEF Holds, Found, Writes
  <2> QED
    BY <2>2, <2>3
<1>4. CASE (\A i \in 1 .. k : ~Writes(tasks[i], b)) /\ mem[b] = u
  <2>1. mem'[b] = u
    BY <1>1, <1>2, <1>4
  <2>2. \A i \in 1 .. k - 1 : ~Writes(tasks'[i], b)
    BY <1>1, <1>4
  <2> QED
    BY <2>1, <2>2 DEF Holds, Found, Writes
<1> QED
  BY <1>1, <1>3, <1>4, <1>5 DEF Holds, Found

-----------------------------------------------------------------------------
(* The contents, step by step                                              *)

\* Claims are of blocks for the service.
LEMMA ClaimBlocks ==
    ASSUME Types, NEW q \in Claims
    PROVE  q.block \in Blocks
<1>1. ASSUME NEW c \in Conns, held[c].block \in Blocks, q = HeldClaim(c) PROVE q.block \in Blocks
  BY <1>1 DEF HeldClaim
<1>2. ASSUME NEW c \in Conns, NEW d \in Dirs, NEW i \in 1 .. Len(lines[c][d]),
             q = LineClaim(c, d, i)
      PROVE  q.block \in Blocks
  <2>1. lines[c][d][i] \in LineType
    BY DEF Types
  <2> QED
    BY <1>2, <2>1 DEF LineClaim, LineType
<1> QED
  BY <1>1, <1>2 DEF Claims

\* A step that leaves the queue and its blocks alone, and claims nothing new.
LEMMA ContentsSame ==
    ASSUME Types, Contents, UNCHANGED <<mem, tasks, spoiled>>, Claims' \subseteq Claims,
           \A c \in Conns, d \in Dirs :
              Sent(c, d) \in Nat /\ Sent(c, d)' \in Nat /\ Sent(c, d)' >= Sent(c, d)
    PROVE  Distinct' /\ Kept' /\ Sources' /\ SendsFit'
<1>0. Distinct /\ Kept /\ Sources /\ SendsFit /\ tasks \in Seq(TaskType)
  BY DEF Contents, Types
<1>1. Distinct'
  BY <1>0 DEF Distinct
<1>2. Kept'
  <2> SUFFICES ASSUME NEW q \in Claims' PROVE Holds(q.block, Len(tasks) + 1, UnitsOf(q))'
    BY DEF Kept
  <2>1. PICK u : u = UnitsOf(q)
    OBVIOUS
  <2>2. Holds(q.block, Len(tasks) + 1, u)
    BY <1>0, <2>1 DEF Kept
  <2>3. Holds(q.block, Len(tasks) + 1, u)'
    BY <2>2 DEF Holds, Found, Writes, Tainted, UnitsIn
  <2> QED
    BY <2>1, <2>3 DEF UnitsOf, Run, Unit
<1>3. Sources'
  <2> SUFFICES ASSUME NEW k \in 1 .. Len(tasks), tasks[k].op \in {"copy", "send"}
               PROVE  Holds(tasks[k].from, k, tasks[k].units)'
    BY DEF Sources
  <2>1. Holds(tasks[k].from, k, tasks[k].units)
    BY <1>0 DEF Sources
  <2> QED
    BY <2>1 DEF Holds, Found, Writes, Tainted, UnitsIn
<1>4. SendsFit'
  <2> SUFFICES ASSUME NEW k \in 1 .. Len(tasks), tasks[k].op = "send"
               PROVE  LET t == tasks[k] IN
                        /\ t.pos + t.n <= Len(t.units)
                        /\ t.place + t.n <= Len(out'[t.conn][t.dir])
                        /\ \A i \in 1 .. t.n : t.units[t.pos + i] = Unit(t.conn, t.dir, t.place + i)
    BY DEF SendsFit, Unit
  <2>1. tasks[k] \in TaskType
    BY <1>0
  <2> DEFINE t == tasks[k]
  <2>2. t.conn \in Conns /\ t.dir \in Dirs /\ t.place \in Nat /\ t.n \in Nat
    BY <2>1, TaskParts
  <2>3. /\ t.pos + t.n <= Len(t.units)
        /\ t.place + t.n <= Len(out[t.conn][t.dir])
        /\ \A i \in 1 .. t.n : t.units[t.pos + i] = Unit(t.conn, t.dir, t.place + i)
    BY <1>0 DEF SendsFit
  <2> HIDE DEF t
  <2>4. t.place + t.n <= Len(out'[t.conn][t.dir])
    <3>1. PICK c \in Conns, d \in Dirs : c = t.conn /\ d = t.dir
      BY <2>2
    <3>2. /\ Len(out[c][d]) \in Nat /\ Len(out'[c][d]) \in Nat
          /\ Len(out'[c][d]) >= Len(out[c][d])
      BY DEF Sent
    <3>3. t.place + t.n \in Int /\ t.place + t.n <= Len(out[c][d])
      BY <2>2, <2>3, <3>1
    <3>4. t.place + t.n <= Len(out'[c][d])
      BY <3>2, <3>3
    <3> QED
      BY <3>1, <3>4
  <2> QED
    BY <2>3, <2>4 DEF t
<1> QED
  BY <1>1, <1>2, <1>3, <1>4

\* A step that posts a task, t, which finds what it is to find.
LEMMA ContentsPosted ==
    ASSUME Types, Contents, NEW t \in TaskType, tasks' = Append(tasks, t),
           UNCHANGED <<mem, spoiled>>,
           t.op \in {"copy", "send"} => Holds(t.from, Len(tasks) + 1, t.units),
           t.op = "send" =>
               /\ t.pos + t.n <= Len(t.units)
               /\ t.place + t.n <= Sent(t.conn, t.dir)'
               /\ \A i \in 1 .. t.n : t.units[t.pos + i] = Unit(t.conn, t.dir, t.place + i),
           \A q \in Claims' :
               \/ q \in Claims /\ ~Writes(t, q.block)
               \/ Writes(t, q.block) /\ t.units = UnitsOf(q),
           \A p, q \in Claims' : p.block = q.block => p = q,
           \A c \in Conns, d \in Dirs :
              Sent(c, d) \in Nat /\ Sent(c, d)' \in Nat /\ Sent(c, d)' >= Sent(c, d)
    PROVE  Distinct' /\ Kept' /\ Sources' /\ SendsFit'
<1>0. Kept /\ Sources /\ SendsFit /\ tasks \in Seq(TaskType) /\ Len(tasks) \in Nat
  BY DEF Contents, Types
<1>1. Distinct'
  BY DEF Distinct
<1>2. Kept'
  <2> SUFFICES ASSUME NEW q \in Claims' PROVE Holds(q.block, Len(tasks) + 1, UnitsOf(q))'
    BY DEF Kept
  <2>1. CASE q \in Claims /\ ~Writes(t, q.block)
    <3>1. q.block \in Blocks /\ Holds(q.block, Len(tasks) + 1, UnitsOf(q))
      BY <1>0, <2>1, ClaimBlocks DEF Kept
    <3>2. PICK u : u = UnitsOf(q)
      OBVIOUS
    <3>3. Holds(q.block, Len(tasks) + 1, u)'
      BY <1>0, <2>1, <3>1, <3>2, HoldsBehind
    <3> QED
      BY <3>2, <3>3 DEF UnitsOf, Run, Unit
  <2>2. CASE Writes(t, q.block) /\ t.units = UnitsOf(q)
    <3>1. Holds(q.block, Len(tasks) + 1, t.units)'
      BY <1>0, <2>2, HoldsNew
    <3> QED
      BY <2>2, <3>1 DEF UnitsOf, Run, Unit
  <2> QED
    BY <2>1, <2>2
<1>3. /\ Len(tasks') = Len(tasks) + 1
      /\ \A k \in 1 .. Len(tasks') :
            \/ k \in 1 .. Len(tasks) /\ tasks'[k] = tasks[k] /\ tasks[k] \in TaskType
            \/ k = Len(tasks) + 1 /\ tasks'[k] = t
  BY <1>0
<1>4. Sources'
  <2> SUFFICES ASSUME NEW k \in 1 .. Len(tasks'), tasks'[k].op \in {"copy", "send"}
               PROVE  Holds(tasks[k].from, k, tasks[k].units)'
    BY DEF Sources
  <2>1. PICK v \in TaskType : v = tasks'[k]
    BY <1>3
  <2>2. Holds(v.from, k, v.units) /\ v.from \in Blocks /\ k \in 1 .. Len(tasks) + 1
    BY <1>0, <1>3, <2>1, TaskParts DEF Sources
  <2>3. Holds(v.from, k, v.units)'
    BY <1>0, <2>2, HoldsBefore
  <2> QED
    BY <2>1, <2>3
<1>5. SendsFit'
  <2> SUFFICES ASSUME NEW k \in 1 .. Len(tasks'), tasks'[k].op = "send"
               PROVE  LET v == tasks'[k] IN
                        /\ v.pos + v.n <= Len(v.units)
                        /\ v.place + v.n <= Len(out'[v.conn][v.dir])
                        /\ \A i \in 1 .. v.n : v.units[v.pos + i] = Unit(v.conn, v.dir, v.place + i)
    BY DEF SendsFit, Unit
  <2>0. PICK v \in TaskType : v = tasks'[k]
    BY <1>3
  <2> SUFFICES /\ v.pos + v.n <= Len(v.units)
               /\ v.place + v.n <= Len(out'[v.conn][v.dir])
               /\ \A i \in 1 .. v.n : v.units[v.pos + i] = Unit(v.conn, v.dir, v.place + i)
    BY <2>0
  <2>3. v.op = "send"
    BY <2>0
  <2>1. CASE k \in 1 .. Len(tasks) /\ v = tasks[k]
    <3>1. v.conn \in Conns /\ v.dir \in Dirs /\ v.place \in Nat /\ v.n \in Nat
      BY <2>3, TaskParts
    <3>2. /\ v.pos + v.n <= Len(v.units)
          /\ v.place + v.n <= Len(out[v.conn][v.dir])
          /\ \A i \in 1 .. v.n : v.units[v.pos + i] = Unit(v.conn, v.dir, v.place + i)
      BY <1>0, <2>1, <2>3 DEF SendsFit
    <3>3. v.place + v.n <= Len(out'[v.conn][v.dir])
      <4>1. PICK c \in Conns, d \in Dirs : c = v.conn /\ d = v.dir
        BY <3>1
      <4>2. /\ Len(out[c][d]) \in Nat /\ Len(out'[c][d]) \in Nat
            /\ Len(out'[c][d]) >= Len(out[c][d])
        BY DEF Sent
      <4>3. v.place + v.n \in Int /\ v.place + v.n <= Len(out[c][d])
        BY <3>1, <3>2, <4>1
      <4>4. v.place + v.n <= Len(out'[c][d])
        BY <4>2, <4>3
      <4> QED
        BY <4>1, <4>4
    <3> QED
      BY <3>2, <3>3
  <2>2. CASE v = t
    BY <2>2, <2>3, TaskParts DEF Sent
  <2> QED
    BY <1>3, <2>0, <2>1, <2>2
<1> QED
  BY <1>1, <1>2, <1>4, <1>5

\* A head stays where nothing writes.
LEMMA HeadStays ==
    ASSUME NEW x \in Conns, HeadKept(x), held'[x] = held[x], spoiled \subseteq spoiled',
           (\A i \in 1 .. Len(tasks) : ~Writes(tasks[i], held[x].block)) =>
               mem'[held[x].block] = mem[held[x].block],
           \A i \in 1 .. Len(tasks') :
               \/ ~Writes(tasks'[i], held[x].block)
               \/ \E j \in 1 .. Len(tasks) : tasks'[i] = tasks[j]
    PROVE  HeadKept(x)'
<1>1. PICK u : u = HeadOf(x)
  OBVIOUS
<1>2. HeadOf(x)' = u
  BY <1>1 DEF HeadOf, Run, Unit
<1>3. CASE Tainted(u)
  <2>1. Tainted(HeadOf(x))'
    BY <1>2, <1>3 DEF Tainted, UnitsIn
  <2> QED
    BY <2>1 DEF HeadKept
<1>4. CASE ~Tainted(u)
  <2>1. /\ held[x].block \in Blocks /\ mem[held[x].block] = u
        /\ \A i \in 1 .. Len(tasks) : ~Writes(tasks[i], held[x].block)
    BY <1>1, <1>4 DEF HeadKept
  <2>2. \A i \in 1 .. Len(tasks') : ~Writes(tasks'[i], held[x].block)
    BY <2>1
  <2>3. mem'[held'[x].block] = HeadOf(x)'
    BY <1>2, <2>1
  <2> QED
    BY <2>1, <2>2, <2>3 DEF HeadKept, Writes
<1> QED
  BY <1>3, <1>4

\* A send fills its places with the units that belong there.
LEMMA FirstFills ==
    ASSUME Types, Contents, CopierStep
    PROVE  /\ out' \in [Conns -> [Dirs -> Seq(Units \cup {Pending, Junk})]]
           /\ \A c \in Conns, d \in Dirs :
                 /\ Len(out'[c][d]) = Len(out[c][d])
                 /\ \A i \in 1 .. Len(out[c][d]) :
                       Unit(c, d, i) \in spoiled \/ out'[c][d][i] \in {out[c][d][i], Unit(c, d, i)}
<1>0. out \in [Conns -> [Dirs -> Seq(Units \cup {Pending, Junk})]]
  BY DEF Types
<1>1. CASE tasks[1].op # "send"
  <2>1. out' = out
    BY <1>1, FirstBrings DEF Contents
  <2> QED
    BY <1>0, <2>1
<1>2. CASE tasks[1].op = "send"
  <2>1. 1 \in 1 .. Len(tasks) /\ Head(tasks) = tasks[1] /\ tasks[1] \in TaskType
    BY FirstTask
  <2>2. PICK t \in TaskType : t = tasks[1]
    BY <2>1
  <2>3. /\ t.conn \in Conns /\ t.dir \in Dirs /\ t.place \in Nat /\ t.pos \in Nat /\ t.n \in Nat
        /\ t.units \in Seq(Units) /\ t.from \in Blocks
    BY <1>2, <2>2, TaskParts DEF UnitSeq
  <2>4. /\ t.pos + t.n <= Len(t.units)
        /\ \A i \in 1 .. t.n : t.units[t.pos + i] = Unit(t.conn, t.dir, t.place + i)
    BY <1>2, <2>1, <2>2 DEF Contents, SendsFit
  <2>5. mem[t.from] = t.units \/ Tainted(t.units)
    BY <1>2, <2>2, FirstBrings DEF Contents
  <2> DEFINE old == out[t.conn][t.dir]
             new == Filled(t)
             piece == Piece(mem[t.from], t.pos, t.n)
  <2>6. old \in Seq(Units \cup {Pending, Junk}) /\ mem[t.from] \in Seq(Units \cup {Junk})
    BY <1>0, <2>3 DEF Types
  <2>7. ASSUME NEW i \in 1 .. t.n
        PROVE  \/ piece[i] = Unit(t.conn, t.dir, t.place + i)
               \/ Unit(t.conn, t.dir, t.place + i) \in spoiled
    <3>1. t.pos + i \in 1 .. Len(t.units) /\ t.pos + i <= Len(t.units)
      BY <2>3, <2>4
    <3>2. t.units[t.pos + i] = Unit(t.conn, t.dir, t.place + i)
      BY <2>4
    <3>3. CASE mem[t.from] = t.units
      <4>1. piece[i] = t.units[t.pos + i]
        BY <2>3, <2>6, <3>1, <3>3, PieceUnits
      <4> QED
        BY <3>2, <4>1
    <3>4. CASE Tainted(t.units)
      <4>1. t.units[t.pos + i] \in UnitsIn(t.units)
        BY <3>1 DEF UnitsIn
      <4> QED
        BY <3>2, <3>4, <4>1 DEF Tainted
    <3> QED
      BY <2>5, <3>3, <3>4
  <2>8. ASSUME NEW i \in 1 .. t.n PROVE piece[i] \in Units \cup {Junk}
    <3>1. piece \in Seq(Units \cup {Junk}) /\ Len(piece) = t.n
      BY <2>3, <2>6, PieceUnits
    <3> HIDE DEF piece
    <3> QED
      BY <3>1
  <2>9. new = [i \in 1 .. Len(old) |->
                IF i - t.place \in 1 .. t.n THEN piece[i - t.place] ELSE old[i]]
    BY DEF Filled
  <2> HIDE DEF new, piece, old
  <2>10. new \in [1 .. Len(old) -> Units \cup {Pending, Junk}]
    BY <2>6, <2>8, <2>9
  <2>11. new \in Seq(Units \cup {Pending, Junk}) /\ Len(new) = Len(old)
    BY <2>6, <2>10
  <2>12. ASSUME NEW i \in 1 .. Len(old)
         PROVE  \/ Unit(t.conn, t.dir, i) \in spoiled
                \/ new[i] \in {old[i], Unit(t.conn, t.dir, i)}
    <3>1. CASE i - t.place \in 1 .. t.n
      <4>1. t.place + (i - t.place) = i
        BY <2>3
      <4> QED
        BY <2>7, <2>9, <3>1, <4>1
    <3>2. CASE ~(i - t.place \in 1 .. t.n)
      BY <2>9, <3>2
    <3> QED
      BY <3>1, <3>2
  <2>13. out' = [out EXCEPT ![t.conn][t.dir] = new]
    BY <1>2, <2>1, <2>2 DEF CopierStep, new
  <2>14. out' \in [Conns -> [Dirs -> Seq(Units \cup {Pending, Junk})]]
    BY <1>0, <2>3, <2>11, <2>13
  <2>15. ASSUME NEW c \in Conns, NEW d \in Dirs
         PROVE  /\ Len(out'[c][d]) = Len(out[c][d])
                /\ \A i \in 1 .. Len(out[c][d]) :
                      \/ Unit(c, d, i) \in spoiled
                      \/ out'[c][d][i] \in {out[c][d][i], Unit(c, d, i)}
    <3>1. CASE c = t.conn /\ d = t.dir
      <4>1. out'[c][d] = new /\ old = out[c][d]
        BY <1>0, <2>3, <2>13, <3>1 DEF old
      <4> QED
        BY <2>11, <2>12, <3>1, <4>1
    <3>2. CASE ~(c = t.conn /\ d = t.dir)
      <4>1. out'[c][d] = out[c][d]
        BY <1>0, <2>3, <2>13, <3>2
      <4> QED
        BY <4>1
    <3> QED
      BY <3>1, <3>2
  <2> QED
    BY <2>14, <2>15
<1> QED
  BY <1>1, <1>2

\* The service keeps the contents.
LEMMA CopierContents ==
    ASSUME Types, Contents, CopierStep
    PROVE  Contents'
<1>0. Distinct /\ Kept /\ HeadsKept /\ Sources /\ SendsFit /\ RelayedInOrder
  BY DEF Contents
<1>1. UNCHANGED <<pc, held, lines, spoiled>>
  BY DEF CopierStep, threadVars
<1>2. Claims' = Claims
  BY <1>1 DEF Claims, HeldClaim, LineClaim
<1>3. /\ Len(tasks) \in Nat \ {0} /\ Len(tasks') = Len(tasks) - 1 /\ 1 \in 1 .. Len(tasks)
      /\ \A k \in 1 .. Len(tasks') : k + 1 \in 1 .. Len(tasks) /\ tasks'[k] = tasks[k + 1]
  BY FirstTask
<1>4. Distinct'
  BY <1>0, <1>2 DEF Distinct
<1>5. Kept'
  <2> SUFFICES ASSUME NEW q \in Claims PROVE Holds(q.block, Len(tasks) + 1, UnitsOf(q))'
    BY <1>2 DEF Kept
  <2>1. PICK u, k : u = UnitsOf(q) /\ k = Len(tasks)
    OBVIOUS
  <2>2. Holds(q.block, k + 1, u) /\ q.block \in Blocks /\ k \in 1 .. Len(tasks)
    BY <1>0, <1>3, <2>1, ClaimBlocks DEF Kept
  <2>3. Holds(q.block, k, u)'
    BY <1>0, <2>2, HoldsOn
  <2>4. Len(tasks') + 1 = k
    BY <1>3, <2>1
  <2> QED
    BY <2>1, <2>3, <2>4 DEF UnitsOf, Run, Unit
<1>6. Sources'
  <2> SUFFICES ASSUME NEW k \in 1 .. Len(tasks'), tasks'[k].op \in {"copy", "send"}
               PROVE  Holds(tasks[k].from, k, tasks[k].units)'
    BY DEF Sources
  <2>1. k + 1 \in 1 .. Len(tasks) /\ tasks'[k] = tasks[k + 1] /\ k \in 1 .. Len(tasks)
    BY <1>3
  <2>2. PICK v \in TaskType : v = tasks[k + 1]
    BY <2>1 DEF Types
  <2>3. Holds(v.from, k + 1, v.units) /\ v.from \in Blocks
    BY <1>0, <2>1, <2>2, TaskParts DEF Sources
  <2>4. Holds(v.from, k, v.units)'
    BY <1>0, <2>1, <2>3, HoldsOn
  <2> QED
    BY <2>1, <2>2, <2>4
<1>7. SendsFit'
  <2> SUFFICES ASSUME NEW k \in 1 .. Len(tasks'), tasks'[k].op = "send"
               PROVE  LET v == tasks'[k] IN
                        /\ v.pos + v.n <= Len(v.units)
                        /\ v.place + v.n <= Len(out'[v.conn][v.dir])
                        /\ \A i \in 1 .. v.n : v.units[v.pos + i] = Unit(v.conn, v.dir, v.place + i)
    BY DEF SendsFit, Unit
  <2>1. k + 1 \in 1 .. Len(tasks) /\ tasks'[k] = tasks[k + 1]
    BY <1>3
  <2>2. PICK v \in TaskType : v = tasks[k + 1]
    BY <2>1 DEF Types
  <2>3. v.conn \in Conns /\ v.dir \in Dirs /\ v.op = "send"
    BY <2>1, <2>2, TaskParts
  <2>4. /\ v.pos + v.n <= Len(v.units)
        /\ v.place + v.n <= Len(out[v.conn][v.dir])
        /\ \A i \in 1 .. v.n : v.units[v.pos + i] = Unit(v.conn, v.dir, v.place + i)
    BY <1>0, <2>1, <2>2, <2>3 DEF SendsFit
  <2>5. Len(out'[v.conn][v.dir]) = Len(out[v.conn][v.dir])
    BY <2>3, FirstFills
  <2> QED
    BY <2>1, <2>2, <2>4, <2>5
<1>8. HeadsKept'
  <2> SUFFICES ASSUME NEW c \in Conns, pc[c] \in HeadPlaces PROVE HeadKept(c)'
    BY <1>1 DEF HeadsKept
  <2>1. HeadKept(c) /\ held[c].block \in Blocks
    BY <1>0 DEF HeadsKept, HeadKept
  <2>2. (\A i \in 1 .. Len(tasks) : ~Writes(tasks[i], held[c].block)) =>
            mem'[held[c].block] = mem[held[c].block]
    BY <1>0, <1>3, <2>1, FirstBrings
  <2>3. \A i \in 1 .. Len(tasks') : \E j \in 1 .. Len(tasks) : tasks'[i] = tasks[j]
    BY <1>3
  <2> QED
    BY <1>1, <2>1, <2>2, <2>3, HeadStays
<1>9. RelayedInOrder'
  <2> SUFFICES ASSUME NEW c \in Conns, NEW d \in Dirs, NEW i \in 1 .. Len(out'[c][d]),
                      Unit(c, d, i) \notin spoiled
               PROVE  out'[c][d][i] \in {Pending, Unit(c, d, i)}
    BY <1>1, Zenon DEF RelayedInOrder, Pending, Unit
  <2>1. i \in 1 .. Len(out[c][d])
    BY FirstFills
  <2>2. out'[c][d][i] \in {out[c][d][i], Unit(c, d, i)}
    BY <2>1, FirstFills
  <2>3. out[c][d][i] \in {Pending, Unit(c, d, i)}
    BY <1>0, <2>1 DEF RelayedInOrder
  <2> QED
    BY <2>2, <2>3
<1> QED
  BY <1>4, <1>5, <1>6, <1>7, <1>8, <1>9 DEF Contents

-----------------------------------------------------------------------------
(* The lists                                                               *)

LEMMA LineParts ==
    ASSUME NEW l \in LineType
    PROVE  /\ l.first \in Int /\ l.first >= 1 /\ l.length \in Int /\ l.length >= 1
           /\ l.pos \in Int /\ l.pos >= 0
  BY DEF LineType

\* What a list says of its sizes.
LEMMA GapBounds ==
    ASSUME NEW added \in Int, NEW list \in Seq(LineType), NEW units \in Int, NEW sent \in Int,
           GapOK(added, list, units, sent)
    PROVE  /\ units >= 0 /\ sent <= added
           /\ list = <<>> <=> units = 0
           /\ list # <<>> =>
                 /\ list[1] \in LineType /\ 1 \in 1 .. Len(list)
                 /\ list[1].pos < list[1].length
                 /\ sent + 1 = list[1].first + list[1].pos
                 /\ list[1].first + list[1].length <= added + 1
<1>1. CASE list = <<>>
  BY <1>1 DEF GapOK
<1>2. CASE list # <<>>
  <2>1. Len(list) \in Nat \ {0} /\ 1 \in 1 .. Len(list) /\ Len(list) \in 1 .. Len(list)
    BY <1>2
  <2>2. PICK a \in LineType, z \in LineType : a = list[1] /\ z = list[Len(list)]
    BY <2>1
  <2>3. /\ units + a.first = added + 1
        /\ a.first + a.pos = sent + 1
        /\ z.first + z.length = added + 1
        /\ a.pos < a.length
    BY <1>2, <2>2 DEF GapOK
  <2>4. Len(list) = 1 \/ a.first + a.length <= z.first
    <3>1. \A i, j \in 1 .. Len(list) : i < j => list[i].first + list[i].length <= list[j].first
      BY <1>2 DEF GapOK
    <3>2. Len(list) = 1 \/ 1 < Len(list)
      <4>1. PICK m \in Nat : m = Len(list) /\ m # 0
        BY <2>1
      <4> QED
        BY <4>1
    <3> QED
      BY <2>1, <2>2, <3>1, <3>2
  <2>5. a.first + a.length <= added + 1
    <3>1. CASE Len(list) = 1
      BY <2>2, <2>3, <3>1
    <3>2. CASE a.first + a.length <= z.first
      <4>1. a.first \in Int /\ a.length \in Int /\ a.pos \in Int /\ a.length >= 1
        BY LineParts
      <4>2. z.first \in Int /\ z.length \in Int /\ z.pos \in Int /\ z.length >= 1
        BY LineParts
      <4> QED
        BY <2>3, <3>2, <4>1, <4>2, SMTT(30)
    <3> QED
      BY <2>4, <3>1, <3>2
  <2>6. units > 0 /\ sent <= added
    <3>1. a.first \in Int /\ a.length \in Int /\ a.pos \in Int /\ a.length >= 1
      BY LineParts
    <3> QED
      BY <2>3, <2>5, <3>1
  <2> QED
    BY <1>2, <2>1, <2>2, <2>3, <2>5, <2>6
<1> QED
  BY <1>1, <1>2

\* A line is added.
LEMMA GapAppend ==
    ASSUME NEW added \in Int, NEW list \in Seq(LineType), NEW units \in Int, NEW sent \in Int,
           GapOK(added, list, units, sent),
           NEW line \in LineType, line.first = added + 1, line.pos = 0
    PROVE  GapOK(added + line.length, Append(list, line), units + line.length, sent)
<1> DEFINE new == Append(list, line)
           m == Len(list)
<1>0. line.first \in Nat /\ line.length \in Nat \ {0}
  BY DEF LineType
<1>1. /\ m \in Nat /\ Len(new) = m + 1 /\ new # <<>> /\ new[m + 1] = line
      /\ \A i \in 1 .. m : new[i] = list[i]
  OBVIOUS
<1>2. CASE list = <<>>
  <2>1. m = 0 /\ units = 0 /\ sent = added
    BY <1>2 DEF GapOK
  <2>2. new[1] = line /\ Len(new) = 1
    BY <1>1, <2>1
  <2> HIDE DEF new, m
  <2> QED
    BY <1>0, <1>1, <2>1, <2>2 DEF GapOK, new
<1>3. CASE list # <<>>
  <2>1. m \in Nat \ {0} /\ 1 \in 1 .. m /\ m \in 1 .. m
    BY <1>3
  <2>2. /\ units + list[1].first = added + 1
        /\ list[1].first + list[1].pos = sent + 1
        /\ list[m].first + list[m].length = added + 1
        /\ list[1].pos < list[1].length
        /\ \A i \in 2 .. m :
              /\ list[i].pos = 0
              /\ list[i].first = list[i - 1].first + list[i - 1].length
        /\ \A i, j \in 1 .. m : i < j => list[i].first + list[i].length <= list[j].first
    BY <1>3 DEF GapOK
  <2>3. \A i \in 1 .. m : list[i] \in LineType
    OBVIOUS
  <2>4. \A i \in 1 .. m : list[i].first \in Int /\ list[i].length \in Int /\ list[i].length >= 1
    BY <2>3, LineParts
  <2> HIDE DEF new, m
  <2>5. \A i \in 1 .. m : list[i].first + list[i].length <= added + 1
    <3> SUFFICES ASSUME NEW i \in 1 .. m PROVE list[i].first + list[i].length <= added + 1
      OBVIOUS
    <3>1. CASE i = m
      BY <2>2, <3>1
    <3>2. CASE i < m
      <4>1. list[i].first + list[i].length <= list[m].first
        BY <2>1, <2>2, <3>2
      <4>2. list[m].first <= added + 1
        <5>1. PICK z \in LineType : z = list[m]
          BY <2>1, <2>3
        <5>2. z.first \in Int /\ z.length \in Int /\ z.length >= 1
          BY LineParts
        <5>3. z.first + z.length = added + 1
          BY <2>2, <5>1
        <5>4. z.first <= added + 1
          BY <5>2, <5>3
        <5> QED
          BY <5>1, <5>4
      <4> QED
        <5>1. PICK a \in LineType, z \in LineType : a = list[i] /\ z = list[m]
          BY <2>1, <2>3
        <5>2. a.first \in Int /\ a.length \in Int /\ z.first \in Int
          BY LineParts
        <5>3. a.first + a.length <= z.first /\ z.first <= added + 1
          BY <4>1, <4>2, <5>1
        <5>4. a.first + a.length <= added + 1
          BY <5>2, <5>3
        <5> QED
          BY <5>1, <5>4
    <3> QED
      BY <2>1, <3>1, <3>2
  <2>6. new[1] = list[1] /\ new[Len(new)] = line
    BY <1>1, <2>1
  <2>7. /\ (units + line.length) + new[1].first = (added + line.length) + 1
        /\ new[1].first + new[1].pos = sent + 1
        /\ new[Len(new)].first + new[Len(new)].length = (added + line.length) + 1
        /\ new[1].pos < new[1].length
    <3>1. PICK a \in LineType : a = list[1]
      BY <2>1, <2>3
    <3>2. units + a.first = added + 1 /\ a.first + a.pos = sent + 1 /\ a.pos < a.length
      BY <2>2, <3>1
    <3>3. (units + line.length) + a.first = (added + line.length) + 1
      <4>1. a.first \in Int /\ a.length \in Int /\ a.pos \in Int /\ a.length >= 1
        BY LineParts
      <4> QED
        BY <1>0, <3>2, <4>1, SMTT(30)
    <3>4. line.first + line.length = (added + line.length) + 1
      BY <1>0
    <3> QED
      BY <2>6, <3>1, <3>2, <3>3, <3>4
  <2>8. ASSUME NEW i \in 2 .. Len(new)
        PROVE  new[i].pos = 0 /\ new[i].first = new[i - 1].first + new[i - 1].length
    <3>1. CASE i = m + 1
      <4>1. i - 1 = m /\ new[i] = line /\ new[i - 1] = list[m]
        BY <1>1, <2>1, <3>1
      <4> QED
        BY <2>2, <4>1
    <3>2. CASE i # m + 1
      <4>1. i \in 2 .. m /\ i \in 1 .. m /\ i - 1 \in 1 .. m
        BY <1>1, <3>2
      <4> QED
        BY <1>1, <2>2, <4>1
    <3> QED
      BY <3>1, <3>2
  <2>9. ASSUME NEW i \in 1 .. Len(new), NEW j \in 1 .. Len(new), i < j
        PROVE  new[i].first + new[i].length <= new[j].first
    <3>1. i \in 1 .. m /\ new[i] = list[i]
      BY <1>1, <2>9
    <3>2. CASE j = m + 1
      BY <1>1, <2>5, <3>1, <3>2
    <3>3. CASE j # m + 1
      <4>1. j \in 1 .. m
        BY <1>1, <3>3
      <4> QED
        BY <1>1, <2>2, <2>9, <3>1, <4>1
    <3> QED
      BY <3>2, <3>3
  <2> QED
    BY <1>1, <2>7, <2>8, <2>9 DEF GapOK, new
<1> QED
  BY <1>2, <1>3

\* Some of the first line is sent.
LEMMA GapPart ==
    ASSUME NEW added \in Int, NEW list \in Seq(LineType), NEW units \in Int, NEW sent \in Int,
           GapOK(added, list, units, sent), list # <<>>,
           NEW n \in Nat, n < list[1].length - list[1].pos
    PROVE  /\ [list EXCEPT ![1].pos = @ + n] \in Seq(LineType)
           /\ GapOK(added, [list EXCEPT ![1].pos = @ + n], units, sent + n)
<1> DEFINE first == [list[1] EXCEPT !.pos = @ + n]
           new == [list EXCEPT ![1] = first]
<1>1. list[1] \in LineType /\ 1 \in 1 .. Len(list) /\ Len(list) \in Nat \ {0}
  OBVIOUS
<1>2. /\ first \in LineType /\ first.pos = list[1].pos + n /\ first.first = list[1].first
      /\ first.length = list[1].length
      /\ list[1].pos \in Int /\ list[1].first \in Int /\ list[1].length \in Int
  <2>1. PICK a \in LineType : a = list[1]
    BY <1>1
  <2>2. a.pos + n \in Nat
    BY SMTT(30) DEF LineType
  <2>3. first = [block |-> a.block, first |-> a.first, length |-> a.length, pos |-> a.pos + n]
    <3>1. a = [block |-> a.block, first |-> a.first, length |-> a.length, pos |-> a.pos]
      BY DEF LineType
    <3>2. [a EXCEPT !.pos = a.pos + n]
            = [block |-> a.block, first |-> a.first, length |-> a.length, pos |-> a.pos + n]
      BY <3>1
    <3> QED
      BY <2>1, <3>2 DEF first
  <2>4. first \in LineType
    BY <2>2, <2>3 DEF LineType
  <2> QED
    BY <2>1, <2>3, <2>4, LineParts
<1> HIDE DEF first
<1>3. /\ new \in Seq(LineType) /\ Len(new) = Len(list) /\ new # <<>> /\ new[1] = first
      /\ \A i \in 2 .. Len(list) : new[i] = list[i]
  BY <1>1, <1>2
<1>4. new = [list EXCEPT ![1].pos = @ + n]
  BY <1>1 DEF first
<1> HIDE DEF new
<1>5. \A i \in 1 .. Len(list) : new[i].first = list[i].first /\ new[i].length = list[i].length
  BY <1>2, <1>3
<1>6. /\ units + list[1].first = added + 1
      /\ list[1].first + list[1].pos = sent + 1
      /\ list[Len(list)].first + list[Len(list)].length = added + 1
      /\ \A i \in 2 .. Len(list) :
            /\ list[i].pos = 0
            /\ list[i].first = list[i - 1].first + list[i - 1].length
      /\ \A i, j \in 1 .. Len(list) : i < j => list[i].first + list[i].length <= list[j].first
  BY DEF GapOK
<1>7. /\ units + new[1].first = added + 1
      /\ new[1].first + new[1].pos = sent + n + 1
      /\ new[Len(new)].first + new[Len(new)].length = added + 1
      /\ new[1].pos < new[1].length
  <2>1. PICK a \in LineType : a = list[1]
    BY <1>1
  <2>2. a.first + a.pos = sent + 1 /\ n < a.length - a.pos
    BY <1>6, <2>1
  <2>3. a.first + (a.pos + n) = sent + n + 1 /\ a.pos + n < a.length
    <3>1. a.first \in Int /\ a.length \in Int /\ a.pos \in Int /\ a.length >= 1
      BY LineParts
    <3>2. a.first + (a.pos + n) = (a.first + a.pos) + n
      BY <3>1
    <3>3. a.pos + n < a.length
      BY <2>2, <3>1
    <3> QED
      BY <2>2, <3>2, <3>3
  <2>4. new[1].first = a.first /\ new[1].length = a.length /\ new[1].pos = a.pos + n
    BY <1>2, <1>3, <2>1
  <2>5. new[Len(new)].first + new[Len(new)].length = added + 1
    BY <1>1, <1>3, <1>5, <1>6
  <2> QED
    BY <1>6, <2>1, <2>3, <2>4, <2>5
<1>8. ASSUME NEW i \in 2 .. Len(new)
      PROVE  new[i].pos = 0 /\ new[i].first = new[i - 1].first + new[i - 1].length
  <2>1. i \in 2 .. Len(list) /\ i \in 1 .. Len(list) /\ i - 1 \in 1 .. Len(list)
    BY <1>1, <1>3
  <2> QED
    BY <1>3, <1>5, <1>6, <2>1
<1>9. \A i, j \in 1 .. Len(new) : i < j => new[i].first + new[i].length <= new[j].first
  BY <1>3, <1>5, <1>6
<1>10. GapOK(added, new, units, sent + n)
  BY <1>3, <1>7, <1>8, <1>9 DEF GapOK
<1> QED
  BY <1>3, <1>4, <1>10

\* All of the first line is sent.
LEMMA GapTail ==
    ASSUME NEW added \in Int, NEW list \in Seq(LineType), NEW units \in Int, NEW sent \in Int,
           GapOK(added, list, units, sent), list # <<>>
    PROVE  /\ Tail(list) \in Seq(LineType)
           /\ GapOK(added, Tail(list), units - list[1].length,
                    sent + (list[1].length - list[1].pos))
<1> DEFINE new == Tail(list)
           m == Len(list)
<1>1. /\ m \in Nat \ {0} /\ 1 \in 1 .. m /\ new \in Seq(LineType) /\ Len(new) = m - 1
      /\ \A i \in 1 .. m - 1 : new[i] = list[i + 1]
      /\ \A i \in 1 .. m : list[i] \in LineType
  OBVIOUS
<1>2. \A i \in 1 .. m :
         /\ list[i].first \in Int /\ list[i].length \in Int /\ list[i].length >= 1
         /\ list[i].pos \in Int
  BY <1>1, LineParts
<1>3. /\ units + list[1].first = added + 1
      /\ list[1].first + list[1].pos = sent + 1
      /\ list[m].first + list[m].length = added + 1
      /\ \A i \in 2 .. m :
            /\ list[i].pos = 0
            /\ list[i].first = list[i - 1].first + list[i - 1].length
      /\ \A i, j \in 1 .. m : i < j => list[i].first + list[i].length <= list[j].first
  BY DEF GapOK
<1> HIDE DEF new, m
<1>4. CASE m = 1
  <2>1. new = <<>>
    BY <1>1, <1>4
  <2>2. units - list[1].length = 0 /\ sent + (list[1].length - list[1].pos) = added
    BY <1>1, <1>2, <1>3, <1>4, SMTT(30)
  <2>3. GapOK(added, new, units - list[1].length, sent + (list[1].length - list[1].pos))
    BY <2>1, <2>2 DEF GapOK
  <2> QED
    BY <1>1, <2>3 DEF new
<1>5. CASE m # 1
  <2>1. /\ 2 \in 2 .. m /\ 2 \in 1 .. m /\ m - 1 \in 1 .. m - 1 /\ m - 1 + 1 = m /\ new # <<>>
        /\ 1 \in 1 .. m - 1 /\ 2 - 1 = 1
    BY <1>1, <1>5
  <2>2. new[1] = list[2] /\ new[Len(new)] = list[m]
    BY <1>1, <2>1
  <2>3. list[2].pos = 0 /\ list[2].first = list[1].first + list[1].length
    BY <1>3, <2>1
  <2>4. /\ (units - list[1].length) + new[1].first = added + 1
        /\ new[1].first + new[1].pos = sent + (list[1].length - list[1].pos) + 1
        /\ new[Len(new)].first + new[Len(new)].length = added + 1
        /\ new[1].pos < new[1].length
    <3>1. PICK a \in LineType, z \in LineType : a = list[1] /\ z = list[2]
      BY <1>1, <2>1
    <3>2. /\ units + a.first = added + 1 /\ a.first + a.pos = sent + 1
          /\ z.pos = 0 /\ z.first = a.first + a.length
      BY <1>3, <2>3, <3>1
    <3>3. /\ (units - a.length) + z.first = added + 1
          /\ z.first + z.pos = sent + (a.length - a.pos) + 1
          /\ z.pos < z.length
      <4>1. a.first \in Int /\ a.length \in Int /\ a.pos \in Int /\ a.length >= 1
        BY LineParts
      <4>2. z.first \in Int /\ z.length \in Int /\ z.pos \in Int /\ z.length >= 1
        BY LineParts
      <4>3. (units - a.length) + z.first = added + 1
        BY <3>2, <4>1, <4>2, SMTT(30)
      <4>4. z.first + z.pos = sent + (a.length - a.pos) + 1
        <5>1. PICK f \in Int, l \in Int, p \in Int : f = a.first /\ l = a.length /\ p = a.pos
          BY <4>1
        <5>2. f + p = sent + 1
          BY <3>2, <5>1
        <5>3. f + l + 0 = sent + (l - p) + 1
          BY <5>2
        <5> QED
          BY <3>2, <5>1, <5>3
      <4>5. z.pos < z.length
        BY <3>2, <4>2
      <4> QED
        BY <4>3, <4>4, <4>5
    <3> QED
      BY <1>3, <2>2, <3>1, <3>3
  <2>5. ASSUME NEW i \in 2 .. Len(new)
        PROVE  new[i].pos = 0 /\ new[i].first = new[i - 1].first + new[i - 1].length
    <3>1. i \in 1 .. m - 1 /\ i - 1 \in 1 .. m - 1 /\ i + 1 \in 2 .. m /\ i - 1 + 1 = i + 1 - 1
      BY <1>1
    <3>2. new[i] = list[i + 1] /\ new[i - 1] = list[i - 1 + 1]
      BY <1>1, <3>1
    <3>3. PICK j \in 2 .. m : j = i + 1
      BY <3>1
    <3>4. list[j].pos = 0 /\ list[j].first = list[j - 1].first + list[j - 1].length
      BY <1>3
    <3>5. j - 1 = i - 1 + 1
      BY <3>3
    <3> QED
      BY <3>2, <3>3, <3>4, <3>5
  <2>6. ASSUME NEW i \in 1 .. Len(new), NEW j \in 1 .. Len(new), i < j
        PROVE  new[i].first + new[i].length <= new[j].first
    <3>1. /\ i \in 1 .. m - 1 /\ j \in 1 .. m - 1 /\ i + 1 \in 1 .. m /\ j + 1 \in 1 .. m
          /\ i + 1 < j + 1
      BY <1>1, <2>6
    <3> QED
      BY <1>1, <1>3, <3>1
  <2>7. GapOK(added, new, units - list[1].length, sent + (list[1].length - list[1].pos))
    BY <2>1, <2>4, <2>5, <2>6 DEF GapOK
  <2> QED
    BY <1>1, <2>7 DEF new
<1> QED
  BY <1>4, <1>5

-----------------------------------------------------------------------------
(* The counts, step by step                                                *)

\* What does not concern a connection leaves its counts as they are.
LEMMA CountsSame ==
    ASSUME NEW c \in Conns, Counts(c),
           pc'[c] = pc[c], held'[c] = held[c], lines'[c] = lines[c], size'[c] = size[c],
           got'[c] = got[c], gone[c]["down"] => gone'[c]["down"],
           \A d \in Dirs : Sent(c, d)' = Sent(c, d),
           \A d \in Dirs : got[c][d] <= arrived'[c][d] /\ arrived'[c][d] <= Length[d]
    PROVE  Counts(c)'
<1>0. /\ \A d \in Dirs : Sent(c, d) <= got[c][d] /\ size[c][d] \in 0 .. MaxSize + ReadSize - 1
      /\ Before(c) /\ InRelay(c)
  BY DEF Counts
<1>1. \A d \in Dirs : NotAdded(c, d)' = NotAdded(c, d) /\ HoldsLast(c, d)' = HoldsLast(c, d)
  BY DEF NotAdded, HoldsLast
<1>2. Gap(c, "up")' = Gap(c, "up") /\ Gap(c, "down")' = Gap(c, "down")
  <2>1. ASSUME NEW d \in Dirs PROVE Gap(c, d)' = Gap(c, d)
    BY <1>1, ZenonT(60) DEF Gap, GapOK, Sent
  <2> QED
    BY <2>1, Sizes
<1>3. Before(c)'
  <2>1. HoldsLast(c, "up")' = HoldsLast(c, "up")
    BY <1>1, Sizes
  <2>2. Sent(c, "up")' = Sent(c, "up") /\ Sent(c, "down")' = Sent(c, "down")
    BY Sizes
  <2> QED
    BY <1>0, <2>1, <2>2 DEF Before, BeforeRelay
<1>4. InRelay(c)'
  <2>1. HoldsLast(c, "up")' = HoldsLast(c, "up") /\ HoldsLast(c, "down")' = HoldsLast(c, "down")
    BY <1>1, Sizes
  <2> QED
    BY <1>0, <1>2, <2>1 DEF InRelay, Relaying, NotHeld, Hold
<1> QED
  BY <1>0, <1>3, <1>4 DEF Counts

\* A step of one connection's thread.
Others(c) ==
    \A x \in Conns \ {c} :
        /\ pc'[x] = pc[x] /\ held'[x] = held[x] /\ lines'[x] = lines[x]
        /\ size'[x] = size[x] /\ got'[x] = got[x] /\ out'[x] = out[x]

LEMMA OthersCount ==
    ASSUME RelayInv, NEW c \in Conns, Others(c), UNCHANGED <<arrived, gone>>, Counts(c)'
    PROVE  \A x \in Conns : Counts(x)'
<1> SUFFICES ASSUME NEW x \in Conns, x # c PROVE Counts(x)'
  OBVIOUS
<1>1. Counts(x)
  BY DEF RelayInv
<1>2. /\ pc'[x] = pc[x] /\ held'[x] = held[x] /\ lines'[x] = lines[x]
      /\ size'[x] = size[x] /\ got'[x] = got[x] /\ gone'[x] = gone[x]
      /\ \A d \in Dirs : Sent(x, d)' = Sent(x, d)
      /\ \A d \in Dirs : got[x][d] <= arrived'[x][d] /\ arrived'[x][d] <= Length[d]
  BY <1>1 DEF Others, Counts, Sent
<1> QED
  BY <1>1, <1>2, CountsSame

\* The service.
LEMMA CopierKeeps == ASSUME RelayInv, CopierStep PROVE RelayInv'
<1>0. Types /\ Flags /\ Contents
  BY DEF RelayInv
<1>1. UNCHANGED <<pc, arrived, over, full, gone, got, held, lines, size, left, ready, spoiled>>
  BY DEF CopierStep, peerVars, sourceVars, threadVars
<1>2. Types'
  <2>1. mem' \in [Blocks -> Seq(Units \cup {Junk})]
    BY <1>0, FirstBrings DEF Contents
  <2> QED
    BY <1>0, <1>1, <2>1, FirstTask, FirstFills DEF Types
<1>3. Flags'
  BY <1>0, <1>1, Zenon DEF Flags
<1>4. ASSUME NEW c \in Conns PROVE Counts(c)'
  <2>1. Counts(c)
    BY DEF RelayInv
  <2>2. \A d \in Dirs : Sent(c, d)' = Sent(c, d)
    BY <1>0, FirstFills DEF Sent
  <2>3. \A d \in Dirs : got[c][d] <= arrived'[c][d] /\ arrived'[c][d] <= Length[d]
    BY <1>1, <2>1 DEF Counts
  <2> QED
    BY <1>1, <2>1, <2>2, <2>3, CountsSame
<1> QED
  BY <1>0, <1>2, <1>3, <1>4, CopierContents DEF RelayInv

\* A step that leaves the contents alone.
LEMMA ContentsIdle ==
    ASSUME Contents, UNCHANGED <<held, lines, out, mem, tasks, spoiled>>,
           \A c \in Conns : pc'[c] \in HeadPlaces => pc[c] \in HeadPlaces
    PROVE  Contents'
<1>1. Claims' = Claims
  BY DEF Claims, HeldClaim, LineClaim
<1>2. Distinct'
  BY <1>1 DEF Contents, Distinct
<1>3. Kept'
  <2> SUFFICES ASSUME NEW q \in Claims PROVE Holds(q.block, Len(tasks) + 1, UnitsOf(q))'
    BY <1>1 DEF Kept
  <2>1. PICK u : u = UnitsOf(q)
    OBVIOUS
  <2>2. Holds(q.block, Len(tasks) + 1, u)
    BY <2>1 DEF Contents, Kept
  <2>3. Holds(q.block, Len(tasks) + 1, u)'
    BY <2>2 DEF Holds, Found, Writes, Tainted, UnitsIn
  <2> QED
    BY <2>1, <2>3 DEF UnitsOf, Run, Unit
<1>4. HeadsKept'
  <2> SUFFICES ASSUME NEW c \in Conns, pc[c] \in HeadPlaces PROVE HeadKept(c)'
    BY DEF HeadsKept
  <2>1. HeadKept(c)
    BY DEF Contents, HeadsKept
  <2>2. \A i \in 1 .. Len(tasks') : \E j \in 1 .. Len(tasks) : tasks'[i] = tasks[j]
    OBVIOUS
  <2> QED
    BY <2>1, <2>2, HeadStays
<1>5. Sources' /\ SendsFit' /\ RelayedInOrder'
  BY DEF Contents, Sources, SendsFit, RelayedInOrder, Holds, Found, Tainted, UnitsIn, Writes,
         Unit, Pending
<1> QED
  BY <1>2, <1>3, <1>4, <1>5 DEF Contents

\* A flag is set or cleared.
LEMMA FlagSet ==
    ASSUME NEW f \in [Conns -> [Dirs -> BOOLEAN]], NEW c \in Conns, NEW d \in Dirs, NEW g,
           g = f \/ g = [f EXCEPT ![c][d] = TRUE] \/ g = [f EXCEPT ![c][d] = FALSE]
    PROVE  g \in [Conns -> [Dirs -> BOOLEAN]]
<1>1. CASE g = f
  BY <1>1
<1>2. CASE g = [f EXCEPT ![c][d] = TRUE]
  BY <1>2
<1>3. CASE g = [f EXCEPT ![c][d] = FALSE]
  BY <1>3
<1> QED
  BY <1>1, <1>2, <1>3

\* The two peers.
LEMMA PeerKeeps ==
    ASSUME RelayInv, NEW c \in Conns, NEW d \in Dirs, Peer(c, d)
    PROVE  RelayInv'
<1>0. Types /\ Flags /\ Contents
  BY DEF RelayInv
<1>1. /\ UNCHANGED <<pc, got, held, lines, size, left, ready, out, mem, tasks, spoiled>>
      /\ \/ arrived' = arrived
         \/ arrived' = [arrived EXCEPT ![c][d] = @ + 1] /\ arrived[c][d] < Length[d]
      /\ gone' = gone \/ gone' = [gone EXCEPT ![c][d] = TRUE]
  <2>1. CASE Arrive(c, d)
    BY <2>1 DEF Arrive, threadVars
  <2>2. CASE Over(c, d)
    BY <2>2 DEF Over, threadVars
  <2>3. CASE Gone(c, d)
    BY <2>3 DEF Gone, threadVars
  <2>4. CASE Drain(c, d)
    BY <2>4 DEF Drain, threadVars, sourceVars
  <2> QED
    BY <2>1, <2>2, <2>3, <2>4 DEF Peer
<1>2. Flags'
  <2>1. /\ over' = over \/ over' = [over EXCEPT ![c][d] = TRUE]
        /\ full' = full \/ full' = [full EXCEPT ![c][d] = FALSE]
        /\ gone' = gone \/ gone' = [gone EXCEPT ![c][d] = TRUE]
        /\ ready' = ready
    BY Zenon DEF Peer, Arrive, Over, Gone, Drain, threadVars, sourceVars
  <2>2. over' \in [Conns -> [Dirs -> BOOLEAN]]
    BY <1>0, <2>1, FlagSet DEF Flags
  <2>3. full' \in [Conns -> [Dirs -> BOOLEAN]]
    BY <1>0, <2>1, FlagSet DEF Flags
  <2>4. gone' \in [Conns -> [Dirs -> BOOLEAN]]
    BY <1>0, <2>1, FlagSet DEF Flags
  <2>5. ready' \in [Conns -> BOOLEAN]
    BY <1>0, <2>1, Zenon DEF Flags
  <2> QED
    BY <2>2, <2>3, <2>4, <2>5, Zenon DEF Flags
<1>3. /\ arrived' \in [Conns -> [Dirs -> Nat]]
      /\ \A x \in Conns, e \in Dirs :
            /\ arrived[x][e] <= arrived'[x][e]
            /\ arrived'[x][e] = arrived[x][e] \/ arrived'[x][e] <= Length[e]
  <2>1. arrived \in [Conns -> [Dirs -> Nat]]
    BY <1>0 DEF Types
  <2>2. CASE arrived' = arrived
    BY <2>1, <2>2
  <2>3. CASE arrived' = [arrived EXCEPT ![c][d] = @ + 1] /\ arrived[c][d] < Length[d]
    <3>1. arrived' \in [Conns -> [Dirs -> Nat]]
      BY <2>1, <2>3
    <3>2. ASSUME NEW x \in Conns, NEW e \in Dirs
          PROVE  /\ arrived[x][e] <= arrived'[x][e]
                 /\ arrived'[x][e] = arrived[x][e] \/ arrived'[x][e] <= Length[e]
      <4>1. CASE x = c /\ e = d
        BY <2>1, <2>3, <4>1, Sizes
      <4>2. CASE ~(x = c /\ e = d)
        BY <2>1, <2>3, <4>2
      <4> QED
        BY <4>1, <4>2
    <3> QED
      BY <3>1, <3>2
  <2> QED
    BY <1>1, <2>2, <2>3
<1>4. Types'
  BY <1>0, <1>1, <1>3 DEF Types
<1>5. ASSUME NEW x \in Conns PROVE Counts(x)'
  <2>1. Counts(x)
    BY DEF RelayInv
  <2>2. \A e \in Dirs : Sent(x, e)' = Sent(x, e)
    BY <1>1 DEF Sent
  <2>3. ASSUME NEW e \in Dirs PROVE got[x][e] <= arrived'[x][e] /\ arrived'[x][e] <= Length[e]
    <3>1. got[x][e] \in Nat /\ arrived[x][e] \in Nat /\ arrived'[x][e] \in Nat /\ Length[e] \in Nat
      BY <1>0, <1>3, Sizes DEF Types
    <3>2. got[x][e] <= arrived[x][e] /\ arrived[x][e] <= Length[e]
      BY <2>1 DEF Counts
    <3> QED
      BY <1>3, <3>1, <3>2
  <2>4. gone[x]["down"] => gone'[x]["down"]
    <3>1. CASE gone' = gone
      BY <3>1
    <3>2. CASE gone' = [gone EXCEPT ![c][d] = TRUE]
      <4>1. gone \in [Conns -> [Dirs -> BOOLEAN]]
        BY <1>0 DEF Flags
      <4>2. CASE x = c /\ d = "down"
        BY <3>2, <4>1, <4>2, Zenon
      <4>3. CASE ~(x = c /\ d = "down")
        <5>1. gone'[x]["down"] = gone[x]["down"]
          BY <3>2, <4>1, <4>3, Sizes
        <5> QED
          BY <5>1
      <4> QED
        BY <4>2, <4>3
    <3> QED
      BY <1>1, <3>1, <3>2
  <2> QED
    BY <1>1, <2>1, <2>2, <2>3, <2>4, CountsSame
<1> QED
  BY <1>1, <1>0, <1>2, <1>4, <1>5, ContentsIdle DEF RelayInv

-----------------------------------------------------------------------------
(* The claims of a thread                                                  *)

\* What a thread has is claimed.
LEMMA LineClaimed ==
    ASSUME NEW c \in Conns, NEW d \in Dirs, NEW i \in 1 .. Len(lines[c][d])
    PROVE  LineClaim(c, d, i) \in Claims
<1> DEFINE of(x, y) == {LineClaim(x, y, j) : j \in 1 .. Len(lines[x][y])}
<1>1. LineClaim(c, d, i) \in of(c, d)
  OBVIOUS
<1> HIDE DEF of
<1>2. LineClaim(c, d, i) \in UNION {of(x, y) : x \in Conns, y \in Dirs}
  BY <1>1
<1> QED
  BY <1>2 DEF Claims, of

LEMMA HeldClaimed ==
    ASSUME NEW c \in Conns, held[c].block \in Blocks
    PROVE  HeldClaim(c) \in Claims
  BY DEF Claims

LEMMA LineUsed ==
    ASSUME NEW c \in Conns, NEW d \in Dirs, NEW i \in 1 .. Len(lines[c][d])
    PROVE  lines[c][d][i].block \in InUse
<1> DEFINE all == {{lines[x][y][j].block : j \in 1 .. Len(lines[x][y])} :
                      x \in Conns, y \in Dirs}
<1>1. PICK S : S = {lines[c][d][j].block : j \in 1 .. Len(lines[c][d])}
  OBVIOUS
<1>2. lines[c][d][i].block \in S
  BY <1>1
<1>3. S \in all
  BY <1>1
<1>4. UNION all \subseteq InUse
  BY DEF InUse
<1> HIDE DEF all
<1> QED
  BY <1>2, <1>3, <1>4

\* The claims of the other connections are as they were.
LEMMA ClaimsOfOthers ==
    ASSUME NEW c \in Conns, Others(c), NEW q \in Claims', q.conn # c
    PROVE  q \in Claims
<1>1. ASSUME NEW x \in Conns, held'[x].block \in Blocks, q = HeldClaim(x)' PROVE q \in Claims
  <2>1. x # c
    BY <1>1 DEF HeldClaim
  <2>2. held'[x] = held[x] /\ q = HeldClaim(x)
    BY <1>1, <2>1 DEF Others, HeldClaim
  <2> QED
    BY <1>1, <2>2 DEF Claims
<1>2. ASSUME NEW x \in Conns, NEW d \in Dirs, NEW i \in 1 .. Len(lines'[x][d]),
             q = LineClaim(x, d, i)'
      PROVE  q \in Claims
  <2>1. x # c
    BY <1>2 DEF LineClaim
  <2>2. lines'[x] = lines[x]
    BY <2>1 DEF Others
  <2>3. i \in 1 .. Len(lines[x][d]) /\ q = LineClaim(x, d, i)
    BY <1>2, <2>2 DEF LineClaim
  <2> QED
    BY <2>3, LineClaimed
<1> QED
  BY <1>1, <1>2, SMTT(30) DEF Claims

\* Its own are its buffer and its lines.
LEMMA ClaimsOfThread ==
    ASSUME NEW c \in Conns, NEW q \in Claims', q.conn = c
    PROVE  \/ held'[c].block \in Blocks /\ q = HeldClaim(c)'
           \/ \E d \in Dirs : \E i \in 1 .. Len(lines'[c][d]) : q = LineClaim(c, d, i)'
<1>1. ASSUME NEW x \in Conns, held'[x].block \in Blocks, q = HeldClaim(x)'
      PROVE  held'[c].block \in Blocks /\ q = HeldClaim(c)'
  <2>1. x = c
    BY <1>1 DEF HeldClaim
  <2> QED
    BY <1>1, <2>1
<1>2. ASSUME NEW x \in Conns, NEW d \in Dirs, NEW i \in 1 .. Len(lines'[x][d]),
             q = LineClaim(x, d, i)'
      PROVE  \E e \in Dirs : \E j \in 1 .. Len(lines'[c][e]) : q = LineClaim(c, e, j)'
  <2>1. x = c
    BY <1>2 DEF LineClaim
  <2> QED
    BY <1>2, <2>1
<1> QED
  BY <1>1, <1>2 DEF Claims

\* It gives its buffer up, or keeps what it has.
LEMMA ClaimsLost ==
    ASSUME NEW c \in Conns, Others(c), lines'[c] = lines[c],
           held'[c] = held[c] \/ held'[c].block \notin Blocks
    PROVE  Claims' \subseteq Claims
<1> SUFFICES ASSUME NEW q \in Claims', q.conn = c PROVE q \in Claims
  BY ClaimsOfOthers
<1>1. CASE held'[c].block \in Blocks /\ q = HeldClaim(c)'
  <2>1. held'[c] = held[c]
    BY <1>1
  <2>2. q = HeldClaim(c) /\ held[c].block \in Blocks
    BY <1>1, <2>1 DEF HeldClaim
  <2> QED
    BY <2>2 DEF Claims
<1>2. ASSUME NEW d \in Dirs, NEW i \in 1 .. Len(lines'[c][d]), q = LineClaim(c, d, i)'
      PROVE  q \in Claims
  <2>1. i \in 1 .. Len(lines[c][d]) /\ q = LineClaim(c, d, i)
    BY <1>2 DEF LineClaim
  <2> QED
    BY <2>1, LineClaimed
<1> QED
  BY <1>1, <1>2, ClaimsOfThread

\* What malloc returns is claimed by no one.
LEMMA FreeBlock ==
    ASSUME NEW b \in Free
    PROVE  /\ b \in Blocks
           /\ \A q \in Claims : q.block # b
           /\ \A c \in Conns : held[c].block # b
<1>1. b \in Blocks /\ b \notin InUse
  BY DEF Free
<1>2. \A c \in Conns : held[c].block # b
  BY <1>1 DEF InUse
<1>3. ASSUME NEW c \in Conns, NEW d \in Dirs, NEW i \in 1 .. Len(lines[c][d])
      PROVE  lines[c][d][i].block # b
  BY <1>1, LineUsed
<1>4. ASSUME NEW q \in Claims PROVE q.block # b
  <2>1. CASE \E c \in Conns : q = HeldClaim(c)
    BY <1>2, <2>1 DEF HeldClaim
  <2>2. ASSUME NEW c \in Conns, NEW d \in Dirs, NEW i \in 1 .. Len(lines[c][d]),
               q = LineClaim(c, d, i)
        PROVE  q.block # b
    BY <1>3, <2>2 DEF LineClaim
  <2> QED
    BY <2>1, <2>2 DEF Claims
<1> QED
  BY <1>1, <1>2, <1>4

\* A task is posted, or none, that writes over no head of another connection.
Spares(c) ==
    \/ tasks' = tasks
    \/ \E t \in TaskType :
          tasks' = Append(tasks, t) /\ \A x \in Conns \ {c} : ~Writes(t, held[x].block)

\* A thread that holds no head leaves those of the others.
LEMMA HeadsDropped ==
    ASSUME Types, HeadsKept, NEW c \in Conns, Others(c), pc'[c] \notin HeadPlaces,
           UNCHANGED <<mem, spoiled>>, Spares(c)
    PROVE  HeadsKept'
<1>0. tasks \in Seq(TaskType)
  BY DEF Types
<1> SUFFICES ASSUME NEW x \in Conns, pc'[x] \in HeadPlaces PROVE HeadKept(x)'
  BY DEF HeadsKept
<1>1. x # c /\ pc'[x] = pc[x] /\ held'[x] = held[x]
  BY DEF Others
<1>2. HeadKept(x)
  BY <1>1 DEF HeadsKept
<1>3. \A i \in 1 .. Len(tasks') :
         \/ ~Writes(tasks'[i], held[x].block)
         \/ \E j \in 1 .. Len(tasks) : tasks'[i] = tasks[j]
  <2>1. CASE tasks' = tasks
    BY <2>1
  <2>2. ASSUME NEW t \in TaskType, tasks' = Append(tasks, t), ~Writes(t, held[x].block)
        PROVE  \A i \in 1 .. Len(tasks') :
                  \/ ~Writes(tasks'[i], held[x].block)
                  \/ \E j \in 1 .. Len(tasks) : tasks'[i] = tasks[j]
    <3> SUFFICES ASSUME NEW i \in 1 .. Len(tasks')
                 PROVE  \/ ~Writes(tasks'[i], held[x].block)
                        \/ \E j \in 1 .. Len(tasks) : tasks'[i] = tasks[j]
      OBVIOUS
    <3>1. \/ i \in 1 .. Len(tasks) /\ tasks'[i] = tasks[i]
          \/ tasks'[i] = t
      BY <1>0, <2>2
    <3> QED
      BY <2>2, <3>1
  <2> QED
    BY <1>1, <2>1, <2>2 DEF Spares
<1> QED
  BY <1>1, <1>2, <1>3, HeadStays

\* A thread that goes on without a task, a read or a write.
LEMMA ContentsLeft ==
    ASSUME Types, Contents, NEW c \in Conns, Others(c), lines'[c] = lines[c],
           held'[c].block = NoBlock, pc'[c] \notin HeadPlaces,
           UNCHANGED <<out, mem, tasks, spoiled>>
    PROVE  Contents'
<1>1. Claims' \subseteq Claims
  BY ClaimsLost, Heaps
<1>2. \A x \in Conns, d \in Dirs :
         Sent(x, d) \in Nat /\ Sent(x, d)' \in Nat /\ Sent(x, d)' >= Sent(x, d)
  BY DEF Types, Sent
<1>3. Distinct' /\ Kept' /\ Sources' /\ SendsFit'
  BY <1>1, <1>2, ContentsSame
<1>4. HeadsKept'
  BY HeadsDropped DEF Contents, Spares
<1>5. RelayedInOrder'
  BY DEF Contents, RelayedInOrder, Pending, Unit
<1> QED
  BY <1>3, <1>4, <1>5 DEF Contents

-----------------------------------------------------------------------------
(* The thread, action by action                                            *)

\* What is known of a connection before a step of its thread.
LEMMA Known ==
    ASSUME RelayInv, NEW c \in Conns
    PROVE  /\ Types /\ Flags /\ Contents /\ Counts(c) /\ Before(c) /\ InRelay(c)
           /\ pc[c] \in Labels /\ held[c] \in HeldType
           /\ \A d \in Dirs :
                 /\ arrived[c][d] \in Nat /\ got[c][d] \in Nat /\ Sent(c, d) \in Nat
                 /\ size[c][d] \in Nat /\ Length[d] \in Nat
                 /\ got[c][d] <= arrived[c][d] /\ arrived[c][d] <= Length[d]
                 /\ Sent(c, d) <= got[c][d] /\ size[c][d] <= MaxSize + ReadSize - 1
                 /\ lines[c][d] \in Seq(LineType)
<1>1. Types /\ Flags /\ Contents /\ Counts(c)
  BY DEF RelayInv
<1>2. Before(c) /\ InRelay(c)
  BY <1>1 DEF Counts
<1>3. pc[c] \in Labels /\ held[c] \in HeldType
  BY <1>1 DEF Types
<1>4. ASSUME NEW d \in Dirs
      PROVE  /\ arrived[c][d] \in Nat /\ got[c][d] \in Nat /\ Sent(c, d) \in Nat
             /\ Length[d] \in Nat /\ lines[c][d] \in Seq(LineType)
  BY <1>1, Sizes DEF Types, Sent
<1>5. ASSUME NEW d \in Dirs
      PROVE  /\ got[c][d] <= arrived[c][d] /\ arrived[c][d] <= Length[d]
             /\ Sent(c, d) <= got[c][d] /\ size[c][d] \in 0 .. MaxSize + ReadSize - 1
  BY <1>1 DEF Counts
<1>6. ASSUME NEW d \in Dirs
      PROVE  size[c][d] \in Nat /\ size[c][d] <= MaxSize + ReadSize - 1
  <2>1. size[c][d] \in 0 .. MaxSize + ReadSize - 1
    BY <1>5
  <2> QED
    BY <2>1, Sizes
<1> QED
  BY <1>1, <1>2, <1>3, <1>4, <1>5, <1>6

\* A step of a thread is a step of its connection alone.
LEMMA ThreadKeeps ==
    ASSUME RelayInv, NEW c \in Conns, Others(c), UNCHANGED <<arrived, gone>>,
           Types', Flags', Contents', Counts(c)'
    PROVE  RelayInv'
  BY OthersCount DEF RelayInv

LEMMA NotHeldFits ==
    /\ NotHeld \in HeldType /\ NotHeld.block = NoBlock /\ NotHeld.length = 0
    /\ NotHeld.block \notin Blocks
  BY Heaps, Sizes DEF NotHeld, Hold, HeldType

LEMMA GiveUpKeeps == ASSUME RelayInv, NEW c \in Conns, GiveUp(c) PROVE RelayInv'
<1>0. Types /\ Flags /\ Contents /\ Counts(c)
  BY Known
<1>1. /\ pc' = [pc EXCEPT ![c] = "destroy"] /\ held' = [held EXCEPT ![c] = NotHeld]
      /\ UNCHANGED <<arrived, over, full, gone, got, lines, size, left, ready, out, mem, tasks, spoiled>>
  BY DEF GiveUp, Goto, peerVars, sourceVars
<1>2. /\ pc' \in [Conns -> Labels] /\ pc'[c] = "destroy" /\ \A x \in Conns \ {c} : pc'[x] = pc[x]
      /\ held' \in [Conns -> HeldType] /\ held'[c] = NotHeld
      /\ \A x \in Conns \ {c} : held'[x] = held[x]
  BY <1>0, <1>1, NotHeldFits DEF Types, Labels
<1>3. Others(c)
  BY <1>1, <1>2 DEF Others
<1>4. Types'
  BY <1>0, <1>1, <1>2 DEF Types
<1>5. Flags'
  BY <1>0, <1>1, Zenon DEF Flags
<1>6. Contents'
  BY <1>0, <1>1, <1>2, <1>3, NotHeldFits, ContentsLeft DEF HeadPlaces
<1>7. Counts(c)'
  <2>1. \A d \in Dirs :
          /\ got'[c][d] <= arrived'[c][d] /\ arrived'[c][d] <= Length[d]
          /\ Sent(c, d)' <= got'[c][d]
          /\ size'[c][d] \in 0 .. MaxSize + ReadSize - 1
    BY <1>0, <1>1 DEF Counts, Sent
  <2>2. Before(c)'
    BY <1>2 DEF Before, BeforeRelay
  <2>3. InRelay(c)'
    BY <1>2, NotHeldFits DEF InRelay, Relaying
  <2> QED
    BY <2>1, <2>2, <2>3 DEF Counts
<1> QED
  BY <1>1, <1>3, <1>4, <1>5, <1>6, <1>7, ThreadKeeps

\* mypoll returns.
LEMMA PollKeeps == ASSUME RelayInv, NEW c \in Conns, Poll(c) PROVE RelayInv'
<1>0. Types /\ Flags /\ Contents /\ Counts(c) /\ InRelay(c)
  BY Known
<1>1. /\ pc[c] = "poll"
      /\ \E l \in {"readDown", "readUp"} : pc' = [pc EXCEPT ![c] = l]
      /\ UNCHANGED <<arrived, over, full, gone, got, held, lines, size, left, out, mem, tasks, spoiled>>
  BY DEF Poll, Goto, peerVars, sourceVars
<1>2. /\ pc' \in [Conns -> Labels] /\ pc'[c] \in {"readDown", "readUp"}
      /\ \A x \in Conns \ {c} : pc'[x] = pc[x]
  BY <1>0, <1>1 DEF Types, Labels
<1>3. Others(c)
  BY <1>1, <1>2 DEF Others
<1>4. Types'
  BY <1>0, <1>1, <1>2 DEF Types
<1>5. Flags'
  <2>1. Readable(c, "up") \in BOOLEAN
    BY Zenon DEF Readable
  <2>2. ready' = [ready EXCEPT ![c] = Readable(c, "up")]
    BY DEF Poll
  <2> HIDE DEF Readable
  <2>3. ready' \in [Conns -> BOOLEAN]
    BY <1>0, <2>1, <2>2, Zenon DEF Flags
  <2> QED
    BY <1>0, <1>1, <2>3, Zenon DEF Flags
<1>6. Contents'
  <2>1. \A x \in Conns : pc'[x] \in HeadPlaces => pc[x] \in HeadPlaces
    BY <1>2 DEF HeadPlaces
  <2> QED
    BY <1>0, <1>1, <2>1, ContentsIdle
<1>7. Counts(c)'
  <2>1. \A d \in Dirs :
          /\ got'[c][d] <= arrived'[c][d] /\ arrived'[c][d] <= Length[d]
          /\ Sent(c, d)' <= got'[c][d]
          /\ size'[c][d] \in 0 .. MaxSize + ReadSize - 1
    BY <1>0, <1>1 DEF Counts, Sent
  <2>2. Before(c)'
    BY <1>2 DEF Before, BeforeRelay
  <2>3. Gap(c, "up") /\ Gap(c, "down")
    BY <1>0, <1>1 DEF InRelay, Relaying
  <2>4. Gap(c, "up")' /\ Gap(c, "down")'
    BY <1>1, <2>3 DEF Gap, GapOK, NotAdded
  <2>5. held'[c] = NotHeld
    BY <1>0, <1>1 DEF InRelay
  <2>6. InRelay(c)'
    BY <1>2, <2>4, <2>5 DEF InRelay, Relaying, NotHeld, Hold
  <2> QED
    BY <2>1, <2>2, <2>6 DEF Counts
<1> QED
  BY <1>1, <1>3, <1>4, <1>5, <1>6, <1>7, ThreadKeeps

\* A thread in the relay, without a buffer, goes on and nothing else changes.
LEMMA MovesOn ==
    ASSUME RelayInv, NEW c \in Conns,
           NEW label \in (Relaying \ {"addDown", "addUp"}) \cup {"destroy"},
           pc[c] \in Relaying, held[c].block = NoBlock, pc' = [pc EXCEPT ![c] = label],
           UNCHANGED <<arrived, over, full, gone, got, held, lines, size, left, ready, out, mem,
                       tasks, spoiled>>,
           label \in {"poll", "readDown", "writeDown", "readUp", "writeUp"} => held[c] = NotHeld,
           label = "flushUp" /\ ~gone[c]["down"] => lines[c]["down"] = <<>>
    PROVE  RelayInv'
<1>0. Types /\ Flags /\ Contents /\ Counts(c) /\ InRelay(c)
  BY Known
<1>2. /\ pc' \in [Conns -> Labels] /\ pc'[c] = label
      /\ \A x \in Conns \ {c} : pc'[x] = pc[x]
  BY <1>0 DEF Types, Labels, Relaying
<1>3. Others(c)
  BY <1>2 DEF Others
<1>4. Types'
  BY <1>0, <1>2 DEF Types
<1>5. Flags'
  BY <1>0, Zenon DEF Flags
<1>6. Contents'
  <2>1. \A x \in Conns : pc'[x] \in HeadPlaces => pc[x] \in HeadPlaces
    BY <1>2 DEF HeadPlaces, Relaying
  <2> QED
    BY <1>0, <2>1, ContentsIdle
<1>7. Counts(c)'
  <2>1. \A d \in Dirs :
          /\ got'[c][d] <= arrived'[c][d] /\ arrived'[c][d] <= Length[d]
          /\ Sent(c, d)' <= got'[c][d]
          /\ size'[c][d] \in 0 .. MaxSize + ReadSize - 1
    BY <1>0 DEF Counts, Sent
  <2>2. Before(c)'
    BY <1>2 DEF Before, BeforeRelay, Relaying
  <2>3. Gap(c, "up") /\ Gap(c, "down")
    BY <1>0 DEF InRelay
  <2>4. Gap(c, "up")' /\ Gap(c, "down")'
    BY <2>3 DEF Gap, GapOK, NotAdded
  <2>6. InRelay(c)'
    BY <1>2, <2>4 DEF InRelay, Relaying, NotHeld, Hold
  <2> QED
    BY <2>1, <2>2, <2>6 DEF Counts
<1> QED
  BY <1>3, <1>4, <1>5, <1>6, <1>7, ThreadKeeps

\* A list is empty when its size is 0.
LEMMA ListAt ==
    ASSUME RelayInv, NEW c \in Conns, NEW d \in Dirs, pc[c] \in Relaying
    PROVE  /\ got[c][d] - NotAdded(c, d) \in Int
           /\ GapOK(got[c][d] - NotAdded(c, d), lines[c][d], size[c][d], Sent(c, d))
           /\ lines[c][d] = <<>> <=> size[c][d] = 0
<1>1. GapOK(got[c][d] - NotAdded(c, d), lines[c][d], size[c][d], Sent(c, d))
  <2>1. Gap(c, "up") /\ Gap(c, "down")
    BY Known DEF InRelay
  <2>2. Gap(c, d)
    BY <2>1, Sizes
  <2> QED
    BY <2>2 DEF Gap, Sent
<1>2. got[c][d] - NotAdded(c, d) \in Int
  <2>1. held[c].length \in Int /\ got[c][d] \in Int
    BY Known DEF HeldType
  <2> QED
    BY <2>1 DEF NotAdded
<1>3. lines[c][d] \in Seq(LineType) /\ size[c][d] \in Int /\ Sent(c, d) \in Int
  BY Known
<1> QED
  BY <1>1, <1>2, <1>3, GapBounds

\* Without memory for the line the relay ends, and what was received is lost.
LEMMA AddFailsKeeps ==
    ASSUME RelayInv, NEW c \in Conns, pc[c] \in {"addDown", "addUp"},
           held' = [held EXCEPT ![c].block = NoBlock], pc' = [pc EXCEPT ![c] = "flushDown"],
           UNCHANGED <<arrived, over, full, gone, got, lines, size, left, ready, out, mem, tasks, spoiled>>
    PROVE  RelayInv'
<1>0. Types /\ Flags /\ Contents /\ Counts(c) /\ InRelay(c) /\ held[c] \in HeldType
  BY Known
<1>1. /\ pc' \in [Conns -> Labels] /\ pc'[c] = "flushDown"
      /\ \A x \in Conns \ {c} : pc'[x] = pc[x]
  BY <1>0 DEF Types, Labels
<1>2. PICK h \in HeldType : /\ h = [held[c] EXCEPT !.block = NoBlock]
                            /\ h.block = NoBlock /\ h.dir = held[c].dir /\ h.length = held[c].length
  <2>1. PICK a \in HeldType : a = held[c]
    BY <1>0
  <2>2. [a EXCEPT !.block = NoBlock]
          = [block |-> NoBlock, dir |-> a.dir, first |-> a.first, length |-> a.length]
    <3>1. a = [block |-> a.block, dir |-> a.dir, first |-> a.first, length |-> a.length]
      BY DEF HeldType
    <3> QED
      BY <3>1
  <2>3. [a EXCEPT !.block = NoBlock] \in HeldType
    BY <2>2 DEF HeldType
  <2> QED
    BY <2>1, <2>2, <2>3
<1>3. held' = [held EXCEPT ![c] = h]
  BY <1>0, <1>2 DEF Types
<1>4. /\ held' \in [Conns -> HeldType] /\ held'[c] = h
      /\ \A x \in Conns \ {c} : held'[x] = held[x]
  BY <1>0, <1>3 DEF Types
<1>5. Others(c)
  BY <1>1, <1>4 DEF Others
<1>6. Types'
  BY <1>0, <1>1, <1>4 DEF Types
<1>7. Flags'
  BY <1>0, Zenon DEF Flags
<1>8. Contents'
  BY <1>0, <1>1, <1>2, <1>4, <1>5, ContentsLeft DEF HeadPlaces
<1>9. Counts(c)'
  <2>1. \A d \in Dirs :
          /\ got'[c][d] <= arrived'[c][d] /\ arrived'[c][d] <= Length[d]
          /\ Sent(c, d)' <= got'[c][d]
          /\ size'[c][d] \in 0 .. MaxSize + ReadSize - 1
    BY <1>0 DEF Counts, Sent
  <2>2. Before(c)'
    BY <1>1 DEF Before, BeforeRelay
  <2>3. Gap(c, "up") /\ Gap(c, "down")
    BY <1>0 DEF InRelay, Relaying
  <2>4. Gap(c, "up")' /\ Gap(c, "down")'
    BY <1>2, <1>4, <2>3, ZenonT(60) DEF Gap, GapOK, NotAdded
  <2>5. InRelay(c)'
    BY <1>1, <1>2, <1>4, <2>4 DEF InRelay, Relaying
  <2> QED
    BY <2>1, <2>2, <2>5 DEF Counts
<1> QED
  BY <1>5, <1>6, <1>7, <1>8, <1>9, ThreadKeeps

\* The lists are freed, with what is in them.
LEMMA DestroyKeeps == ASSUME RelayInv, NEW c \in Conns, Destroy(c) PROVE RelayInv'
<1>0. Types /\ Flags /\ Contents /\ Counts(c) /\ InRelay(c)
  BY Known
<1>1. /\ pc[c] = "destroy" /\ pc' = [pc EXCEPT ![c] = "done"]
      /\ lines' = [lines EXCEPT ![c] = [d \in Dirs |-> <<>>]]
      /\ size' = [size EXCEPT ![c] = [d \in Dirs |-> 0]]
      /\ UNCHANGED <<arrived, over, full, gone, got, held, left, ready, out, mem, tasks, spoiled>>
  BY DEF Destroy, Goto, peerVars, sourceVars
<1>2. /\ pc' \in [Conns -> Labels] /\ pc'[c] = "done"
      /\ lines' \in [Conns -> [Dirs -> Seq(LineType)]] /\ \A d \in Dirs : lines'[c][d] = <<>>
      /\ size' \in [Conns -> [Dirs -> Int]] /\ \A d \in Dirs : size'[c][d] = 0
      /\ \A x \in Conns \ {c} : pc'[x] = pc[x] /\ lines'[x] = lines[x] /\ size'[x] = size[x]
  BY <1>0, <1>1 DEF Types, Labels
<1>3. Others(c)
  BY <1>1, <1>2 DEF Others
<1>4. held[c].block = NoBlock
  BY <1>0, <1>1 DEF InRelay
<1>5. Types'
  BY <1>0, <1>1, <1>2 DEF Types
<1>6. Flags'
  BY <1>0, <1>1, Zenon DEF Flags
<1>7. Contents'
  <2>1. Claims' \subseteq Claims
    <3> SUFFICES ASSUME NEW q \in Claims', q.conn = c PROVE q \in Claims
      BY <1>3, ClaimsOfOthers
    <3>1. held'[c].block \notin Blocks
      BY <1>1, <1>4, Heaps
    <3>2. \A d \in Dirs : 1 .. Len(lines'[c][d]) = {}
      BY <1>2
    <3> QED
      BY <3>1, <3>2, ClaimsOfThread
  <2>2. \A x \in Conns, d \in Dirs :
           Sent(x, d) \in Nat /\ Sent(x, d)' \in Nat /\ Sent(x, d)' >= Sent(x, d)
    BY <1>0, <1>1 DEF Types, Sent
  <2>3. Distinct' /\ Kept' /\ Sources' /\ SendsFit'
    BY <1>0, <1>1, <2>1, <2>2, ContentsSame
  <2>4. HeadsKept'
    BY <1>0, <1>1, <1>2, <1>3, HeadsDropped DEF Contents, Spares, HeadPlaces
  <2>5. RelayedInOrder'
    BY <1>0, <1>1 DEF Contents, RelayedInOrder, Pending, Unit
  <2> QED
    BY <2>3, <2>4, <2>5 DEF Contents
<1>8. Counts(c)'
  <2>1. \A d \in Dirs :
          /\ got'[c][d] <= arrived'[c][d] /\ arrived'[c][d] <= Length[d]
          /\ Sent(c, d)' <= got'[c][d]
    BY <1>0, <1>1 DEF Counts, Sent
  <2>2. \A d \in Dirs : size'[c][d] \in 0 .. MaxSize + ReadSize - 1
    BY <1>2, Sizes
  <2>3. Before(c)'
    BY <1>2 DEF Before, BeforeRelay
  <2>4. InRelay(c)'
    BY <1>1, <1>2, <1>4 DEF InRelay, Relaying
  <2> QED
    BY <2>1, <2>2, <2>3, <2>4 DEF Counts
<1> QED
  BY <1>1, <1>3, <1>5, <1>6, <1>7, <1>8, ThreadKeeps

\* A stream is extended.
LEMMA OutAppended ==
    ASSUME Types, NEW c \in Conns, NEW d \in Dirs, NEW s \in Seq(Units \cup {Pending, Junk}),
           out' = [out EXCEPT ![c][d] = @ \o s]
    PROVE  /\ out' \in [Conns -> [Dirs -> Seq(Units \cup {Pending, Junk})]]
           /\ out'[c][d] = out[c][d] \o s /\ Sent(c, d)' = Sent(c, d) + Len(s)
           /\ \A x \in Conns \ {c} : out'[x] = out[x]
           /\ \A e \in Dirs \ {d} : out'[c][e] = out[c][e]
           /\ \A x \in Conns, e \in Dirs :
                 Sent(x, e) \in Nat /\ Sent(x, e)' \in Nat /\ Sent(x, e)' >= Sent(x, e)
<1>1. out \in [Conns -> [Dirs -> Seq(Units \cup {Pending, Junk})]]
  BY DEF Types
<1>2. PICK new \in Seq(Units \cup {Pending, Junk}) :
         new = out[c][d] \o s /\ Len(new) = Len(out[c][d]) + Len(s)
  <2>1. PICK S : S = Units \cup {Pending, Junk}
    OBVIOUS
  <2>2. PICK old \in Seq(S) : old = out[c][d]
    BY <1>1, <2>1
  <2>3. s \in Seq(S)
    BY <2>1
  <2>4. old \o s \in Seq(S) /\ Len(old \o s) = Len(old) + Len(s)
    BY <2>2, <2>3
  <2> QED
    BY <2>1, <2>2, <2>4
<1>3. out' = [out EXCEPT ![c][d] = new]
  BY <1>2
<1>4. /\ out' \in [Conns -> [Dirs -> Seq(Units \cup {Pending, Junk})]]
      /\ out'[c][d] = new
      /\ \A x \in Conns \ {c} : out'[x] = out[x]
      /\ \A e \in Dirs \ {d} : out'[c][e] = out[c][e]
  BY <1>1, <1>3
<1>5. ASSUME NEW x \in Conns, NEW e \in Dirs
      PROVE  Sent(x, e) \in Nat /\ Sent(x, e)' \in Nat /\ Sent(x, e)' >= Sent(x, e)
  <2>1. Len(out[x][e]) \in Nat /\ Len(out'[x][e]) \in Nat
    BY <1>1, <1>4
  <2>2. CASE x = c /\ e = d
    BY <1>2, <1>4, <2>1, <2>2 DEF Sent
  <2>3. CASE ~(x = c /\ e = d)
    BY <1>4, <2>1, <2>3 DEF Sent
  <2> QED
    BY <2>2, <2>3
<1> QED
  BY <1>2, <1>4, <1>5 DEF Sent

\* With places for the units that come next, or with these.
LEMMA OrderAppended ==
    ASSUME Types, RelayedInOrder, NEW c \in Conns, NEW d \in Dirs, UNCHANGED spoiled,
           NEW s \in Seq(Units \cup {Pending, Junk}), out' = [out EXCEPT ![c][d] = @ \o s],
           \A i \in 1 .. Len(s) : \/ Unit(c, d, Sent(c, d) + i) \in spoiled
                                  \/ s[i] \in {Pending, Unit(c, d, Sent(c, d) + i)}
    PROVE  RelayedInOrder'
<1> SUFFICES ASSUME NEW x \in Conns, NEW e \in Dirs, NEW i \in 1 .. Len(out'[x][e]),
                    Unit(x, e, i) \notin spoiled
             PROVE  out'[x][e][i] \in {Pending, Unit(x, e, i)}
  BY DEF RelayedInOrder, Pending, Unit
<1>1. out'[c][d] = out[c][d] \o s /\ Sent(c, d)' = Sent(c, d) + Len(s)
  BY OutAppended, ZenonT(60)
<1>2. CASE x = c /\ e = d
  <2>0. out[c][d] \in Seq(Units \cup {Pending, Junk}) /\ Sent(c, d) \in Nat
    <3>1. PICK S : S = Seq(Units \cup {Pending, Junk})
      OBVIOUS
    <3>2. out \in [Conns -> [Dirs -> S]]
      BY <3>1 DEF Types
    <3>3. out[c][d] \in S
      BY <3>2
    <3> QED
      BY <3>1, <3>3 DEF Sent
  <2>1. CASE i <= Sent(c, d)
    <3>1. out'[c][d][i] = out[c][d][i] /\ i \in 1 .. Len(out[c][d])
      BY <1>1, <1>2, <2>0, <2>1 DEF Sent
    <3> QED
      BY <1>2, <3>1 DEF RelayedInOrder
  <2>2. CASE i > Sent(c, d)
    <3>1. PICK j \in 1 .. Len(s) : i = Sent(c, d) + j
      <4>1. i \in Int /\ i <= Sent(c, d) + Len(s) /\ Len(s) \in Nat
        BY <1>1, <1>2 DEF Sent
      <4>2. i - Sent(c, d) \in 1 .. Len(s) /\ i = Sent(c, d) + (i - Sent(c, d))
        BY <2>0, <2>2, <4>1
      <4> QED
        BY <4>2
    <3>2. out'[c][d][i] = s[j]
      BY <1>1, <2>0, <3>1, SMTT(30) DEF Sent
    <3> QED
      BY <1>2, <3>1, <3>2
  <2> QED
    BY <2>0, <2>1, <2>2
<1>3. CASE ~(x = c /\ e = d)
  <2>1. out'[x][e] = out[x][e]
    BY <1>3, OutAppended
  <2> QED
    BY <2>1 DEF RelayedInOrder
<1> QED
  BY <1>2, <1>3

\* The units of the tasks are units.
LEMMA LaterUnits ==
    ASSUME Types, NEW b
    PROVE  /\ ReadLater(b) \subseteq Units
           /\ \A k \in 1 .. Len(tasks) : tasks[k].op \in {"copy", "send"} /\ tasks[k].from = b
                 => UnitsIn(tasks[k].units) \subseteq ReadLater(b)
<1>1. \A k \in 1 .. Len(tasks) : tasks[k].units \in Seq(Units)
  BY TaskParts DEF Types, UnitSeq
<1>2. \A k \in 1 .. Len(tasks) : UnitsIn(tasks[k].units) \subseteq Units
  BY <1>1 DEF UnitsIn
<1> QED
  BY <1>2 DEF ReadLater

\* The processor writes to a piece of heap that malloc may return.
LEMMA WrittenDirectly ==
    ASSUME Types, Contents, NEW b \in Free, NEW m, mem' = [mem EXCEPT ![b] = m],
           UNCHANGED <<tasks, out>>, spoiled \subseteq spoiled', ReadLater(b) \subseteq spoiled'
    PROVE  /\ Sources' /\ SendsFit' /\ RelayedInOrder'
           /\ \A q \in Claims : Holds(q.block, Len(tasks) + 1, UnitsOf(q))'
<1>0. Kept /\ Sources /\ SendsFit /\ RelayedInOrder /\ tasks \in Seq(TaskType)
  BY DEF Contents, Types
<1>1. \A x : x # b => mem'[x] = mem[x]
  BY DEF Types
<1>2. Sources'
  <2> SUFFICES ASSUME NEW k \in 1 .. Len(tasks), tasks[k].op \in {"copy", "send"}
               PROVE  Holds(tasks[k].from, k, tasks[k].units)'
    BY DEF Sources
  <2>1. PICK v \in TaskType : v = tasks[k]
    BY <1>0
  <2>2. CASE v.from = b
    <3>1. UnitsIn(v.units) \subseteq ReadLater(b)
      BY <2>1, <2>2, LaterUnits
    <3>2. Tainted(v.units)'
      BY <3>1 DEF Tainted, UnitsIn
    <3>3. Holds(v.from, k, v.units)'
      BY <3>2 DEF Holds
    <3> QED
      BY <2>1, <3>3
  <2>3. CASE v.from # b
    <3>1. Holds(v.from, k, v.units) /\ mem'[v.from] = mem[v.from]
      BY <1>0, <1>1, <2>1, <2>3 DEF Sources
    <3>2. Holds(v.from, k, v.units)'
      BY <3>1, HoldsSame
    <3> QED
      BY <2>1, <3>2
  <2> QED
    BY <2>2, <2>3
<1>3. SendsFit'
  BY <1>0 DEF SendsFit, Unit
<1>4. RelayedInOrder'
  BY <1>0 DEF RelayedInOrder, Pending, Unit
<1>5. ASSUME NEW q \in Claims PROVE Holds(q.block, Len(tasks) + 1, UnitsOf(q))'
  <2>1. PICK u : u = UnitsOf(q)
    OBVIOUS
  <2>2. q.block # b /\ Holds(q.block, Len(tasks) + 1, u)
    BY <1>0, <2>1, FreeBlock DEF Kept
  <2>3. mem'[q.block] = mem[q.block]
    BY <1>1, <2>2
  <2>4. Holds(q.block, Len(tasks) + 1, u)'
    <3>1. PICK k : k = Len(tasks) + 1
      OBVIOUS
    <3>2. Holds(q.block, k, u)'
      BY <2>2, <2>3, <3>1, HoldsSame
    <3> QED
      BY <3>1, <3>2
  <2> QED
    BY <2>1, <2>4 DEF UnitsOf, Run, Unit
<1> QED
  BY <1>2, <1>3, <1>4, <1>5

\* A line of a head is read.
LEMMA HeadInKeeps ==
    ASSUME RelayInv, NEW c \in Conns, NEW d \in Dirs, NEW from, NEW to, HeadIn(c, d, from, to),
           \/ d = "up" /\ from = "request" /\ to = "requestHeld"
           \/ d = "down" /\ from = "response" /\ to = "responseHeld"
    PROVE  RelayInv'
<1>0. /\ Types /\ Flags /\ Contents /\ Counts(c) /\ Before(c) /\ InRelay(c)
      /\ arrived[c][d] \in Nat /\ got[c][d] \in Nat
  BY Known
<1>1. /\ pc[c] = from /\ got[c][d] < arrived[c][d]
      /\ got' = [got EXCEPT ![c][d] = @ + 1] /\ pc' = [pc EXCEPT ![c] = to]
      /\ UNCHANGED <<arrived, over, full, gone, lines, size, left, ready, out, tasks>>
  BY DEF HeadIn, Goto, peerVars, sourceVars
<1>2. PICK b \in Free :
          /\ held' = [held EXCEPT ![c] = Hold(b, d, got[c][d] + 1, 1)]
          /\ mem' = [mem EXCEPT ![b] = Run(c, d, got[c][d] + 1, 1)]
          /\ spoiled' = spoiled \cup ReadLater(b) \cup
                (IF WrittenLater(b) THEN {Unit(c, d, got[c][d] + 1)} ELSE {})
  BY DEF HeadIn
<1>3. /\ b \in Blocks /\ b # NoBlock
      /\ \A x \in Conns : held[x].block # b
  BY FreeBlock, Heaps
<1>4. got[c][d] = 0 /\ \A e \in Dirs : lines[c][e] = <<>> /\ size[c][e] = 0
  BY <1>0, <1>1 DEF Before, BeforeRelay
<1>5. /\ pc' \in [Conns -> Labels] /\ pc'[c] = to
      /\ \A x \in Conns \ {c} : pc'[x] = pc[x]
  BY <1>0, <1>1 DEF Types, Labels
<1>6. /\ got' \in [Conns -> [Dirs -> Nat]] /\ got'[c][d] = 1
      /\ \A e \in Dirs \ {d} : got'[c][e] = got[c][e]
      /\ \A x \in Conns \ {c} : got'[x] = got[x]
  BY <1>0, <1>1, <1>4 DEF Types
<1>7. PICK h \in HeldType : h = [block |-> b, dir |-> d, first |-> 1, length |-> 1]
  <2>1. [block |-> b, dir |-> d, first |-> 1, length |-> 1] \in HeldType
    BY <1>3 DEF HeldType
  <2> QED
    BY <2>1
<1>8. PICK u : u = Run(c, d, 1, 1)
  OBVIOUS
<1>9. held' = [held EXCEPT ![c] = h] /\ mem' = [mem EXCEPT ![b] = u]
  BY <1>2, <1>4, <1>7, <1>8 DEF Hold
<1>10. /\ u \in Seq(Units) /\ UnitsIn(u) = {Unit(c, d, 1)} /\ Unit(c, d, 1) \in Units
  <2>1. arrived[c][d] <= Length[d] /\ Length[d] \in Nat
    BY Known
  <2>2. u \in UnitSeq /\ Len(u) = 1
    <3>1. PICK i \in Nat \ {0}, n \in Nat : i = 1 /\ n = 1
      OBVIOUS
    <3>2. i + n <= Length[d] + 1
      BY <1>0, <1>1, <1>4, <2>1, <3>1
    <3>3. Run(c, d, i, n) \in UnitSeq /\ Len(Run(c, d, i, n)) = n
      BY <3>2, RunUnits
    <3> QED
      BY <1>8, <3>1, <3>3
  <2>3. u[1] = Unit(c, d, 1)
    <3>1. 1 \in 1 .. 1 /\ 1 + 1 - 1 = 1
      OBVIOUS
    <3> QED
      BY <1>8, <3>1 DEF Run
  <2>4. u[1] \in Units
    <3>1. PICK all : all = Units
      OBVIOUS
    <3>2. u \in Seq(all) /\ Len(u) = 1
      BY <2>2, <3>1 DEF UnitSeq
    <3>3. u[1] \in all
      BY ONLY <3>2
    <3> QED
      BY <3>1, <3>3
  <2> QED
    BY <2>2, <2>3, <2>4 DEF UnitSeq, UnitsIn
<1>11. /\ held' \in [Conns -> HeldType] /\ held'[c] = h
       /\ \A x \in Conns \ {c} : held'[x] = held[x]
  BY <1>0, <1>9 DEF Types
<1>12. /\ mem' \in [Blocks -> Seq(Units \cup {Junk})] /\ mem'[b] = u
       /\ \A x \in Blocks \ {b} : mem'[x] = mem[x]
  <2>1. u \in Seq(Units \cup {Junk})
    BY <1>10
  <2> QED
    BY <1>0, <1>3, <1>9, <2>1 DEF Types
<1>13. /\ spoiled \subseteq spoiled' /\ ReadLater(b) \subseteq spoiled' /\ spoiled' \subseteq Units
       /\ WrittenLater(b) => Unit(c, d, 1) \in spoiled'
  <2>1. ReadLater(b) \subseteq Units /\ spoiled \subseteq Units
    BY <1>0, LaterUnits DEF Types
  <2>2. got[c][d] + 1 = 1
    BY <1>4
  <2> QED
    BY <1>2, <1>10, <2>1, <2>2
<1>14. Others(c)
  BY <1>1, <1>5, <1>6, <1>11 DEF Others
<1>16. Types'
  BY <1>0, <1>1, <1>5, <1>6, <1>11, <1>12, <1>13 DEF Types
<1>17. Flags'
  BY <1>0, <1>1, Zenon DEF Flags
<1>18. Contents'
  <2>1. PICK new : new = HeldClaim(c)'
    OBVIOUS
  <2>2. new = [block |-> b, conn |-> c, dir |-> d, first |-> 1, length |-> 1]
    BY <1>7, <1>11, <2>1 DEF HeldClaim
  <2>3. ASSUME NEW q \in Claims', q # new PROVE q \in Claims /\ q.block # b
    <3>1. q.conn # c
      <4> SUFFICES ASSUME q.conn = c PROVE FALSE
        OBVIOUS
      <4>1. PICK e \in Dirs : \E i \in 1 .. Len(lines'[c][e]) : q = LineClaim(c, e, i)'
        BY <2>1, <2>3, ClaimsOfThread
      <4>2. lines'[c][e] = <<>>
        BY <1>1, <1>4
      <4> QED
        BY <4>1, <4>2
    <3>2. q \in Claims
      BY <1>14, <3>1, ClaimsOfOthers
    <3> QED
      BY <3>2, FreeBlock
  <2>4. Distinct'
    BY <1>0, <2>2, <2>3 DEF Contents, Distinct
  <2>5. /\ Sources' /\ SendsFit' /\ RelayedInOrder'
        /\ \A q \in Claims : Holds(q.block, Len(tasks) + 1, UnitsOf(q))'
    BY <1>0, <1>1, <1>9, <1>13, WrittenDirectly
  <2>6. \/ Tainted(u)'
        \/ mem'[b] = u /\ \A i \in 1 .. Len(tasks) : ~Writes(tasks[i], b)
    <3>1. CASE WrittenLater(b)
      BY <1>10, <1>13, <3>1 DEF Tainted, UnitsIn
    <3>2. CASE ~WrittenLater(b)
      BY <1>12, <3>2 DEF WrittenLater, Writes
    <3> QED
      BY <3>1, <3>2
  <2>7. Kept'
    <3> SUFFICES ASSUME NEW q \in Claims' PROVE Holds(q.block, Len(tasks) + 1, UnitsOf(q))'
      BY DEF Kept
    <3>1. CASE q # new
      BY <2>3, <2>5, <3>1
    <3>2. CASE q = new
      <4>1. q.block = b /\ UnitsOf(q) = u
        BY <1>8, <2>2, <3>2 DEF UnitsOf
      <4>2. Tainted(u)' \/ Found(b, Len(tasks) + 1, u)'
        <5>1. Len(tasks) + 1 - 1 = Len(tasks)
          BY <1>0 DEF Types
        <5>2. Len(tasks') = Len(tasks) /\ tasks' = tasks
          BY <1>1
        <5> QED
          BY <2>6, <5>1, <5>2 DEF Found, Writes
      <4>3. Holds(b, Len(tasks) + 1, u)'
        BY <4>2 DEF Holds
      <4> QED
        BY <4>1, <4>3 DEF UnitsOf, Run, Unit
    <3> QED
      BY <3>1, <3>2
  <2>8. HeadsKept'
    <3> SUFFICES ASSUME NEW x \in Conns, pc'[x] \in HeadPlaces PROVE HeadKept(x)'
      BY DEF HeadsKept
    <3>1. CASE x = c
      <4>1. HeadOf(x)' = u /\ held'[x].block = b
        BY <1>7, <1>8, <1>11, <3>1 DEF HeadOf, Run, Unit
      <4>2. Tainted(u)' => Tainted(HeadOf(x))'
        BY <4>1 DEF Tainted, UnitsIn
      <4> QED
        BY <1>1, <1>3, <2>6, <4>1, <4>2 DEF HeadKept, Writes
    <3>2. CASE x # c
      <4>1. held'[x] = held[x] /\ held[x].block # b /\ pc'[x] = pc[x]
        BY <1>3, <1>5, <1>11, <3>2
      <4>2. HeadKept(x) /\ held[x].block \in Blocks
        BY <1>0, <4>1 DEF Contents, HeadsKept, HeadKept
      <4>3. mem'[held[x].block] = mem[held[x].block]
        BY <1>12, <4>1, <4>2
      <4>4. \A i \in 1 .. Len(tasks') : \E j \in 1 .. Len(tasks) : tasks'[i] = tasks[j]
        BY <1>1
      <4> QED
        BY <1>13, <4>1, <4>2, <4>3, <4>4, HeadStays
    <3> QED
      BY <3>1, <3>2
  <2> QED
    BY <2>4, <2>5, <2>7, <2>8 DEF Contents
<1>15. Counts(c)'
  <2>1. ASSUME NEW e \in Dirs
        PROVE  /\ got'[c][e] <= arrived'[c][e] /\ arrived'[c][e] <= Length[e]
               /\ Sent(c, e)' <= got'[c][e]
               /\ size'[c][e] \in 0 .. MaxSize + ReadSize - 1
    <3>1. /\ got[c][e] <= arrived[c][e] /\ arrived[c][e] <= Length[e]
          /\ Sent(c, e) <= got[c][e] /\ Sent(c, e) \in Nat
          /\ size[c][e] \in 0 .. MaxSize + ReadSize - 1
      BY <1>0, Known DEF Counts
    <3>2. CASE e = d
      BY <1>0, <1>1, <1>4, <1>6, <3>1, <3>2 DEF Sent
    <3>3. CASE e # d
      BY <1>1, <1>6, <3>1, <3>3 DEF Sent
    <3> QED
      BY <3>2, <3>3
  <2>2. Before(c)'
    <3>1. /\ held'[c].block \in Blocks /\ held'[c].first = 1 /\ held'[c].length = 1
          /\ held'[c].dir = d
      BY <1>3, <1>7, <1>11
    <3>2. CASE to = "requestHeld" /\ d = "up" /\ pc[c] = "request"
      <4>1. /\ Sent(c, "up")' = 0 /\ got'[c]["up"] = 1
            /\ got'[c]["down"] = 0 /\ Sent(c, "down")' = 0
        BY <1>0, <1>1, <1>6, <3>2, Sizes DEF Before, BeforeRelay, Sent
      <4> QED
        BY <1>1, <1>4, <1>5, <3>1, <3>2, <4>1 DEF Before, BeforeRelay
    <3>3. CASE to = "responseHeld" /\ d = "down" /\ pc[c] = "response"
      <4>1. /\ Sent(c, "up")' = got'[c]["up"]
            /\ got'[c]["down"] = 1 /\ Sent(c, "down")' = 0
        BY <1>0, <1>1, <1>6, <3>3, Sizes DEF Before, BeforeRelay, Sent
      <4> QED
        BY <1>1, <1>4, <1>5, <3>1, <3>3, <4>1 DEF Before, BeforeRelay
    <3> QED
      BY <1>1, <3>2, <3>3
  <2>3. InRelay(c)'
    BY <1>5 DEF InRelay, Relaying
  <2> QED
    BY <2>1, <2>2, <2>3 DEF Counts
<1> QED
  BY <1>1, <1>14, <1>15, <1>16, <1>17, <1>18, ThreadKeeps

\* It is written, and dropped.
LEMMA HeadOutKeeps ==
    ASSUME RelayInv, NEW c \in Conns, NEW d \in Dirs, NEW from, NEW to, HeadOut(c, d, from, to),
           \/ d = "up" /\ from = "requestHeld" /\ to \in {"body", "response"}
           \/ d = "down" /\ from = "responseHeld" /\ to = "poll"
    PROVE  RelayInv'
<1>0. /\ Types /\ Flags /\ Contents /\ Counts(c) /\ Before(c) /\ InRelay(c)
      /\ arrived[c][d] \in Nat /\ got[c][d] \in Nat
  BY Known
<1>1. /\ pc[c] = from /\ pc' = [pc EXCEPT ![c] = to]
      /\ held' = [held EXCEPT ![c] = NotHeld]
      /\ UNCHANGED <<arrived, over, full, gone, got, lines, size, left, ready, mem, tasks, spoiled>>
  BY DEF HeadOut, Goto, peerVars, sourceVars
<1>2. /\ got[c][d] = 1 /\ Sent(c, d) = 0
      /\ held[c].block \in Blocks /\ held[c].dir = d /\ held[c].first = 1
      /\ held[c].length = 1
      /\ \A e \in Dirs : lines[c][e] = <<>> /\ size[c][e] = 0
  BY <1>0, <1>1 DEF Before, BeforeRelay
<1>3. PICK s \in Seq(Units \cup {Pending, Junk}) :
          /\ out' = [out EXCEPT ![c][d] = @ \o s] /\ Len(s) = 1
          /\ Unit(c, d, 1) \in spoiled \/ s[1] = Unit(c, d, 1)
  <2>1. PICK m \in Seq(Units \cup {Junk}) : m = mem[held[c].block]
    BY <1>0, <1>2 DEF Types
  <2>2. PICK u : u = Run(c, d, 1, 1)
    OBVIOUS
  <2>3. HeadOf(c) = u /\ pc[c] \in HeadPlaces
    BY <1>1, <1>2, <2>2 DEF HeadOf, HeadPlaces
  <2>4. Tainted(u) \/ m = u
    BY <1>0, <2>1, <2>3 DEF Contents, HeadsKept, HeadKept
  <2>5. Len(u) = 1 /\ u[1] = Unit(c, d, 1)
    <3>1. 1 + 1 <= Length[d] + 1
      BY <1>2, Known
    <3>2. Len(Run(c, d, 1, 1)) = 1
      <4>1. PICK i \in Nat \ {0}, n \in Nat : i = 1 /\ n = 1
        OBVIOUS
      <4>2. i + n <= Length[d] + 1
        BY <3>1, <4>1
      <4>3. Len(Run(c, d, i, n)) = n
        BY <4>2, RunUnits
      <4> QED
        BY <4>1, <4>3
    <3>3. 1 \in 1 .. 1 /\ 1 + 1 - 1 = 1
      OBVIOUS
    <3>4. Run(c, d, 1, 1)[1] = Unit(c, d, 1)
      BY <3>3 DEF Run
    <3> QED
      BY <2>2, <3>2, <3>4
  <2>6. PICK s : s = Piece(m, 0, 1)
    OBVIOUS
  <2>7. /\ s \in Seq(Units \cup {Junk}) /\ Len(s) = 1
        /\ Unit(c, d, 1) \in spoiled \/ s[1] = Unit(c, d, 1)
    <3>1. s \in Seq(Units \cup {Junk}) /\ Len(s) = 1
      BY <2>6, PieceUnits, ZenonT(60)
    <3>2. 1 \in 1 .. 1 /\ 0 + 1 = 1
      OBVIOUS
    <3>3. CASE m = u
      <4>1. s[1] = m[1]
        BY <2>5, <2>6, <3>2, <3>3 DEF Piece
      <4> QED
        BY <2>5, <3>1, <3>3, <4>1
    <3>4. CASE Tainted(u)
      <4>1. u[1] \in UnitsIn(u)
        BY <2>5 DEF UnitsIn
      <4> QED
        BY <2>5, <3>1, <3>4, <4>1 DEF Tainted
    <3> QED
      BY <2>4, <3>3, <3>4
  <2>8. s \in Seq(Units \cup {Pending, Junk})
    BY <2>7
  <2>9. out' = [out EXCEPT ![c][d] = @ \o s]
    BY <2>1, <2>6 DEF HeadOut
  <2> QED
    BY <2>7, <2>8, <2>9
<1>4. /\ pc' \in [Conns -> Labels] /\ pc'[c] = to
      /\ \A x \in Conns \ {c} : pc'[x] = pc[x]
  BY <1>0, <1>1 DEF Types, Labels
<1>5. /\ held' \in [Conns -> HeldType] /\ held'[c] = NotHeld
      /\ \A x \in Conns \ {c} : held'[x] = held[x]
  BY <1>0, <1>1, NotHeldFits DEF Types
<1>6. /\ out' \in [Conns -> [Dirs -> Seq(Units \cup {Pending, Junk})]]
      /\ Sent(c, d)' = 1 /\ \A x \in Conns \ {c} : out'[x] = out[x]
      /\ \A e \in Dirs \ {d} : out'[c][e] = out[c][e]
      /\ \A x \in Conns, e \in Dirs :
            Sent(x, e) \in Nat /\ Sent(x, e)' \in Nat /\ Sent(x, e)' >= Sent(x, e)
  <2>1. Sent(c, d)' = Sent(c, d) + Len(s)
    BY <1>0, <1>3, OutAppended, ZenonT(60)
  <2>2. Sent(c, d)' = 1
    BY <1>2, <1>3, <2>1
  <2> QED
    BY <1>0, <1>3, <2>2, OutAppended
<1>7. Others(c)
  BY <1>1, <1>4, <1>5, <1>6 DEF Others
<1>8. Types'
  BY <1>0, <1>1, <1>4, <1>5, <1>6 DEF Types
<1>9. Flags'
  BY <1>0, <1>1, Zenon DEF Flags
<1>10. Contents'
  <2>1. Claims' \subseteq Claims
    BY <1>1, <1>5, <1>7, ClaimsLost, NotHeldFits
  <2>2. Distinct' /\ Kept' /\ Sources' /\ SendsFit'
    BY <1>0, <1>1, <1>6, <2>1, ContentsSame
  <2>3. HeadsKept'
    BY <1>0, <1>1, <1>4, <1>7, HeadsDropped DEF Contents, Spares, HeadPlaces
  <2>4. \A i \in 1 .. Len(s) : \/ Unit(c, d, Sent(c, d) + i) \in spoiled
                                \/ s[i] \in {Pending, Unit(c, d, Sent(c, d) + i)}
    <3>1. \A i \in 1 .. Len(s) : i = 1 /\ Sent(c, d) + i = 1
      BY <1>2, <1>3
    <3> QED
      BY <1>3, <3>1
  <2>5. RelayedInOrder'
    BY <1>0, <1>1, <1>3, <2>4, OrderAppended DEF Contents
  <2> QED
    BY <2>2, <2>3, <2>5 DEF Contents
<1>11. Counts(c)'
  <2>1. ASSUME NEW e \in Dirs
        PROVE  /\ got'[c][e] <= arrived'[c][e] /\ arrived'[c][e] <= Length[e]
               /\ Sent(c, e)' <= got'[c][e]
               /\ size'[c][e] \in 0 .. MaxSize + ReadSize - 1
    <3>1. /\ got[c][e] <= arrived[c][e] /\ arrived[c][e] <= Length[e]
          /\ Sent(c, e) <= got[c][e] /\ Sent(c, e) \in Nat
          /\ size[c][e] \in 0 .. MaxSize + ReadSize - 1
      BY <1>0, Known DEF Counts
    <3>2. CASE e = d
      BY <1>1, <1>2, <1>6, <3>1, <3>2
    <3>3. CASE e # d
      BY <1>1, <1>6, <3>1, <3>3 DEF Sent
    <3> QED
      BY <3>2, <3>3
  <2>2. CASE d = "up" /\ pc[c] = "requestHeld" /\ pc'[c] \in {"body", "response"}
    <3>1. /\ Sent(c, "up")' = got'[c]["up"]
          /\ got'[c]["down"] = 0 /\ Sent(c, "down")' = 0
      BY <1>0, <1>1, <1>2, <1>6, <2>2, Sizes DEF Before, BeforeRelay, Sent
    <3>2. Before(c)'
      BY <1>1, <1>2, <1>5, <2>2, <3>1, NotHeldFits DEF Before, BeforeRelay
    <3>3. InRelay(c)'
      BY <1>5, <2>2 DEF InRelay, Relaying, NotHeld, Hold
    <3> QED
      BY <2>1, <3>2, <3>3 DEF Counts
  <2>3. CASE d = "down" /\ pc[c] = "responseHeld" /\ pc'[c] = "poll"
    <3>1. Before(c)'
      BY <2>3 DEF Before, BeforeRelay
    <3>2. Sent(c, "up")' = got'[c]["up"] /\ Sent(c, "down")' = got'[c]["down"]
      BY <1>0, <1>1, <1>2, <1>6, <2>3, Sizes DEF Before, Sent
    <3>3. ASSUME NEW e \in Dirs PROVE Gap(c, e)'
      <4>1. NotAdded(c, e)' = 0
        BY <1>5 DEF NotAdded, NotHeld, Hold
      <4>2. Sent(c, e)' = got'[c][e] /\ got'[c][e] \in Nat
        BY <1>1, <3>2, Known, Sizes
      <4>3. lines'[c][e] = <<>> /\ size'[c][e] = 0
        BY <1>1, <1>2
      <4> QED
        BY <4>1, <4>2, <4>3 DEF Gap, GapOK, Sent
    <3>4. InRelay(c)'
      BY <1>5, <2>3, <3>3, Sizes DEF InRelay, Relaying, NotHeld, Hold
    <3> QED
      BY <2>1, <3>1, <3>4 DEF Counts
  <2> QED
    BY <1>1, <1>4, <2>2, <2>3
<1> QED
  BY <1>1, <1>7, <1>8, <1>9, <1>10, <1>11, ThreadKeeps

\* A task is posted that brings units to a block which only new claims.
LEMMA BringsPosted ==
    ASSUME Types, Contents, NEW t \in TaskType, tasks' = Append(tasks, t), UNCHANGED <<out, mem, spoiled>>,
           t.op # "send", t.op = "copy" => Holds(t.from, Len(tasks) + 1, t.units),
           NEW new, new.block = t.to, UnitsOf(new) = t.units,
           \A q \in Claims' : (q \in Claims /\ q.block # t.to) \/ q = new
    PROVE  Distinct' /\ Kept' /\ Sources' /\ SendsFit'
<1>1. \A p, q \in Claims' : p.block = q.block => p = q
  BY DEF Contents, Distinct
<1>2. \A q \in Claims' :
         \/ q \in Claims /\ ~Writes(t, q.block)
         \/ Writes(t, q.block) /\ t.units = UnitsOf(q)
  BY TaskParts DEF Writes
<1>3. \A c \in Conns, d \in Dirs :
         Sent(c, d) \in Nat /\ Sent(c, d)' \in Nat /\ Sent(c, d)' >= Sent(c, d)
  BY DEF Types, Sent
<1>4. t.op \in {"copy", "send"} => Holds(t.from, Len(tasks) + 1, t.units)
  BY TaskParts
<1> QED
  BY <1>1, <1>2, <1>3, <1>4, ContentsPosted

\* A send is posted.
LEMMA SendPosted ==
    ASSUME Types, Contents, NEW t \in SendType, tasks' = Append(tasks, t), UNCHANGED <<mem, spoiled>>,
           Holds(t.from, Len(tasks) + 1, t.units), t.pos + t.n <= Len(t.units),
           t.place + t.n <= Sent(t.conn, t.dir)',
           \A i \in 1 .. t.n : t.units[t.pos + i] = Unit(t.conn, t.dir, t.place + i),
           Claims' \subseteq Claims,
           \A c \in Conns, d \in Dirs :
              Sent(c, d) \in Nat /\ Sent(c, d)' \in Nat /\ Sent(c, d)' >= Sent(c, d)
    PROVE  Distinct' /\ Kept' /\ Sources' /\ SendsFit'
<1>1. \A p, q \in Claims' : p.block = q.block => p = q
  BY DEF Contents, Distinct
<1>2. t \in TaskType /\ t.op = "send"
  BY DEF TaskType, SendType
<1>3. \A q \in Claims' : q \in Claims /\ ~Writes(t, q.block)
  BY <1>2 DEF Writes
<1> QED
  BY <1>1, <1>2, <1>3, ContentsPosted

\* LazyRecv takes some of what has arrived.
LEMMA ReceivedSome ==
    ASSUME RelayInv, NEW c \in Conns, NEW d \in Dirs, NEW b, NEW n, LazyRecv(c, d, b, n)
    PROVE  n \in Nat \ {0} /\ got[c][d] + n <= arrived[c][d]
<1>1. got[c][d] \in Nat /\ arrived[c][d] \in Nat
  BY Known
<1>2. n \in 1 .. arrived[c][d] - got[c][d]
  BY DEF LazyRecv
<1> QED
  BY <1>1, <1>2

\* It is held.
LEMMA ReceivedHeld ==
    ASSUME RelayInv, NEW c \in Conns, NEW d \in Dirs, NEW b \in Blocks, NEW n \in Nat \ {0},
           LazyRecv(c, d, b, n)
    PROVE  /\ held' \in [Conns -> HeldType]
           /\ held'[c] = [block |-> b, dir |-> d, first |-> got[c][d] + 1, length |-> n]
           /\ \A x \in Conns \ {c} : held'[x] = held[x]
<1>1. Types /\ got[c][d] \in Nat
  BY Known
<1>2. PICK h \in HeldType : h = [block |-> b, dir |-> d, first |-> got[c][d] + 1, length |-> n]
  <2>1. got[c][d] + 1 \in Nat \ {0}
    BY <1>1
  <2>2. [block |-> b, dir |-> d, first |-> got[c][d] + 1, length |-> n] \in HeldType
    BY <2>1 DEF HeldType
  <2> QED
    BY <2>2
<1>3. held' = [held EXCEPT ![c] = h]
  BY <1>2 DEF LazyRecv, Hold
<1>4. /\ held' \in [Conns -> HeldType] /\ held'[c] = h
      /\ \A x \in Conns \ {c} : held'[x] = held[x]
  BY <1>1, <1>3 DEF Types
<1> QED
  BY <1>2, <1>4

\* It is counted.
LEMMA ReceivedCount ==
    ASSUME RelayInv, NEW c \in Conns, NEW d \in Dirs, NEW b, NEW n \in Nat \ {0},
           LazyRecv(c, d, b, n)
    PROVE  /\ got' \in [Conns -> [Dirs -> Nat]] /\ got'[c][d] = got[c][d] + n
           /\ \A e \in Dirs \ {d} : got'[c][e] = got[c][e]
           /\ \A x \in Conns \ {c} : got'[x] = got[x]
<1>1. got \in [Conns -> [Dirs -> Nat]]
  BY Known DEF Types
<1>2. got' = [got EXCEPT ![c][d] = @ + n]
  BY DEF LazyRecv
<1> QED
  BY <1>1, <1>2

\* Its task is posted.
LEMMA ReceivedTask ==
    ASSUME RelayInv, NEW c \in Conns, NEW d \in Dirs, NEW b \in Blocks, NEW n \in Nat \ {0},
           LazyRecv(c, d, b, n), NEW u, u = Run(c, d, got[c][d] + 1, n)
    PROVE  \E t \in RecvType : tasks' = Append(tasks, t) /\ t.to = b /\ t.units = u
<1>1. /\ got[c][d] \in Nat /\ arrived[c][d] \in Nat /\ Length[d] \in Nat
      /\ arrived[c][d] <= Length[d]
  BY Known
<1>2. got[c][d] + n <= arrived[c][d]
  BY ReceivedSome
<1>3. u \in UnitSeq
  <2>1. PICK first \in Nat \ {0} : first = got[c][d] + 1
    BY <1>1
  <2>2. first + n <= Length[d] + 1
    BY <1>1, <1>2, <2>1
  <2>3. Run(c, d, first, n) \in UnitSeq
    BY <2>2, RunUnits
  <2> QED
    BY <2>1, <2>3
<1>4. PICK t \in RecvType : t = [op |-> "recv", to |-> b, units |-> u]
  BY <1>3 DEF RecvType
<1>5. tasks' = Append(tasks, t) /\ t.to = b /\ t.units = u
  BY <1>4 DEF LazyRecv, RecvTask
<1> QED
  BY <1>5

LEMMA ReceivedContents ==
    ASSUME RelayInv, NEW c \in Conns, NEW d \in Dirs, NEW b \in Blocks, NEW n,
           LazyRecv(c, d, b, n), Others(c), UNCHANGED <<lines, out, mem, spoiled>>,
           pc'[c] \notin HeadPlaces,
           \/ b \in Free
           \/ held[c].block = b /\ \A e \in Dirs : lines[c][e] = <<>>
    PROVE  Contents'
<1>0. Types /\ Contents /\ Distinct
  BY Known DEF Contents
<1> n \in Nat \ {0}
  BY ReceivedSome
<1> DEFINE h == [block |-> b, dir |-> d, first |-> got[c][d] + 1, length |-> n]
<1>1. held'[c] = h
  BY ReceivedHeld
<1>2. PICK u : u = Run(c, d, got[c][d] + 1, n)
  OBVIOUS
<1>3. PICK t \in RecvType : tasks' = Append(tasks, t) /\ t.to = b /\ t.units = u
  BY <1>2, ReceivedTask
<1>4. PICK new : new = HeldClaim(c)'
  OBVIOUS
<1>5. new = [block |-> b, conn |-> c, dir |-> d, first |-> got[c][d] + 1, length |-> n]
  BY <1>4, <1>1 DEF HeldClaim
<1>6. new.block = t.to /\ UnitsOf(new) = t.units
  BY <1>3, <1>5, <1>2 DEF UnitsOf
<1>7. ASSUME NEW q \in Claims', q # new PROVE q \in Claims /\ q.block # b
  <2>1. CASE q.conn # c
    <3>1. q \in Claims
      BY <1>7, <2>1, ClaimsOfOthers
    <3>2. CASE b \in Free
      BY <3>1, <3>2, FreeBlock
    <3>3. CASE held[c].block = b
      <4>1. HeldClaim(c) \in Claims /\ HeldClaim(c).block = b /\ HeldClaim(c).conn = c
        BY <3>3, HeldClaimed DEF HeldClaim
      <4> QED
        BY <1>0, <2>1, <3>1, <4>1 DEF Distinct
    <3> QED
      BY <3>1, <3>2, <3>3
  <2>2. CASE q.conn = c
    <3>1. PICK e \in Dirs : \E i \in 1 .. Len(lines'[c][e]) : q = LineClaim(c, e, i)'
      BY <1>4, <1>7, <2>2, ClaimsOfThread
    <3>2. PICK i \in 1 .. Len(lines[c][e]) : q = LineClaim(c, e, i)
      BY <3>1 DEF LineClaim
    <3>3. q \in Claims
      BY <3>2, LineClaimed
    <3>4. b \in Free
      BY <3>2
    <3> QED
      BY <3>3, <3>4, FreeBlock
  <2> QED
    BY <2>1, <2>2
<1>8. Distinct' /\ Kept' /\ Sources' /\ SendsFit'
  <2>1. t \in TaskType /\ t.op = "recv"
    BY DEF TaskType, RecvType
  <2>2. \A q \in Claims' : (q \in Claims /\ q.block # t.to) \/ q = new
    BY <1>3, <1>7
  <2> QED
    BY <1>0, <1>3, <1>6, <2>1, <2>2, BringsPosted
<1>9. HeadsKept'
  <2>1. ASSUME NEW x \in Conns \ {c} PROVE held[x].block # b
    <3>1. CASE b \in Free
      BY <3>1, FreeBlock
    <3>2. CASE held[c].block = b
      <4> SUFFICES ASSUME held[x].block = b PROVE FALSE
        OBVIOUS
      <4>1. HeldClaim(c) \in Claims /\ HeldClaim(x) \in Claims
        BY <3>2, HeldClaimed
      <4>2. HeldClaim(c) = HeldClaim(x)
        BY <1>0, <3>2, <4>1 DEF Distinct, HeldClaim
      <4> QED
        BY <4>2 DEF HeldClaim
    <3> QED
      BY <3>1, <3>2
  <2>2. t \in TaskType /\ \A x \in Conns \ {c} : ~Writes(t, held[x].block)
    BY <1>3, <2>1 DEF TaskType, Writes
  <2>3. Spares(c)
    BY <1>3, <2>2 DEF Spares
  <2> QED
    BY <1>0, <2>3, HeadsDropped DEF Contents
<1>10. RelayedInOrder'
  BY <1>0 DEF Contents, RelayedInOrder, Pending, Unit
<1> QED
  BY <1>8, <1>9, <1>10 DEF Contents

\* The counts of what a connection received, sent and keeps in its lists.
LEMMA ReceivedBounds ==
    ASSUME RelayInv, NEW c \in Conns, NEW d \in Dirs, NEW b, NEW n \in Nat \ {0},
           LazyRecv(c, d, b, n), UNCHANGED <<arrived, size, out>>
    PROVE  \A e \in Dirs :
              /\ got'[c][e] <= arrived'[c][e] /\ arrived'[c][e] <= Length[e]
              /\ Sent(c, e)' <= got'[c][e]
              /\ size'[c][e] \in 0 .. MaxSize + ReadSize - 1
<1> SUFFICES ASSUME NEW e \in Dirs
             PROVE  /\ got'[c][e] <= arrived[c][e] /\ arrived[c][e] <= Length[e]
                    /\ Sent(c, e) <= got'[c][e]
                    /\ size[c][e] \in 0 .. MaxSize + ReadSize - 1
  BY DEF Sent
<1>1. /\ got[c][e] \in Nat /\ arrived[c][e] \in Nat /\ Sent(c, e) \in Nat
      /\ got[c][e] <= arrived[c][e] /\ arrived[c][e] <= Length[e] /\ Sent(c, e) <= got[c][e]
      /\ size[c][e] \in 0 .. MaxSize + ReadSize - 1
  BY Known DEF Counts
<1>2. CASE e = d
  <2>1. got'[c][e] = got[c][e] + n /\ got[c][e] + n <= arrived[c][e]
    BY <1>2, ReceivedCount, ReceivedSome
  <2> QED
    BY <1>1, <2>1
<1>3. CASE e # d
  <2>1. got'[c][e] = got[c][e]
    BY <1>3, ReceivedCount
  <2> QED
    BY <1>1, <2>1
<1> QED
  BY <1>2, <1>3

\* Some of the body is received.
LEMMA BodyInKeeps == ASSUME RelayInv, NEW c \in Conns, BodyIn(c) PROVE RelayInv'
<1>0. Types /\ Flags /\ Contents /\ Counts(c) /\ Before(c) /\ held[c] \in HeldType
  BY Known
<1>1. /\ pc[c] = "body" /\ pc' = [pc EXCEPT ![c] = "bodyHeld"] /\ "up" \in Dirs
      /\ UNCHANGED <<arrived, over, full, gone, lines, size, left, ready, out, mem, spoiled>>
  BY Sizes DEF BodyIn, Goto, peerVars, sourceVars
<1>2. /\ \A e \in Dirs : lines[c][e] = <<>> /\ size[c][e] = 0
      /\ got[c]["down"] = 0 /\ Sent(c, "down") = 0 /\ Sent(c, "up") = got[c]["up"]
      /\ held[c].block \in Blocks \cup {NoBlock}
  BY <1>0, <1>1 DEF Before, BeforeRelay
<1>3. PICK b \in Blocks, n \in Nat \ {0} :
          LazyRecv(c, "up", b, n) /\ (b \in Free \/ held[c].block = b)
  <2>1. PICK b \in IF held[c].block = NoBlock THEN Free ELSE {held[c].block} :
             \E n \in 1 .. BodyLeft(c) : LazyRecv(c, "up", b, n)
    BY DEF BodyIn
  <2>2. PICK n : LazyRecv(c, "up", b, n)
    BY <2>1
  <2>3. n \in Nat \ {0}
    BY <1>1, <2>2, ReceivedSome
  <2>4. b \in Blocks /\ (b \in Free \/ held[c].block = b)
    <3>1. CASE held[c].block = NoBlock
      BY <2>1, <3>1, FreeBlock
    <3>2. CASE held[c].block # NoBlock
      BY <1>2, <2>1, <3>2
    <3> QED
      BY <3>1, <3>2
  <2> QED
    BY <2>2, <2>3, <2>4
<1>4. /\ pc' \in [Conns -> Labels] /\ pc'[c] = "bodyHeld"
      /\ \A x \in Conns \ {c} : pc'[x] = pc[x]
  BY <1>0, <1>1 DEF Types, Labels
<1>5. /\ held' \in [Conns -> HeldType]
      /\ held'[c] = [block |-> b, dir |-> "up", first |-> got[c]["up"] + 1, length |-> n]
      /\ \A x \in Conns \ {c} : held'[x] = held[x]
  BY <1>1, <1>3, ReceivedHeld
<1>6. /\ got' \in [Conns -> [Dirs -> Nat]] /\ got'[c]["up"] = got[c]["up"] + n
      /\ \A e \in Dirs \ {"up"} : got'[c][e] = got[c][e]
      /\ \A x \in Conns \ {c} : got'[x] = got[x]
  BY <1>1, <1>3, ReceivedCount
<1>7. tasks' \in Seq(TaskType)
  <2>1. PICK u : u = Run(c, "up", got[c]["up"] + 1, n)
    OBVIOUS
  <2>2. PICK t \in RecvType : tasks' = Append(tasks, t)
    BY <1>1, <1>3, <2>1, ReceivedTask
  <2> QED
    BY <1>0, <2>2 DEF Types, TaskType
<1>8. Others(c)
  BY <1>1, <1>4, <1>5, <1>6 DEF Others
<1>9. Types'
  BY <1>0, <1>1, <1>4, <1>5, <1>6, <1>7 DEF Types
<1>10. Flags'
  BY <1>0, <1>1, Zenon DEF Flags
<1>11. Contents'
  <2>1. pc'[c] \notin HeadPlaces
    BY <1>4 DEF HeadPlaces
  <2> QED
    BY <1>1, <1>2, <1>3, <1>8, <2>1, ReceivedContents
<1>12. Counts(c)'
  <2>1. \A e \in Dirs :
          /\ got'[c][e] <= arrived'[c][e] /\ arrived'[c][e] <= Length[e]
          /\ Sent(c, e)' <= got'[c][e]
          /\ size'[c][e] \in 0 .. MaxSize + ReadSize - 1
    BY <1>1, <1>3, ReceivedBounds
  <2>2. /\ got'[c]["down"] = 0 /\ Sent(c, "down")' = 0 /\ Sent(c, "up")' = got[c]["up"]
    BY <1>1, <1>2, <1>6, Sizes DEF Sent
  <2>3. /\ held'[c].dir = "up" /\ held'[c].length = n /\ held'[c].first = got[c]["up"] + 1
        /\ held'[c].block \in Blocks /\ got[c]["up"] \in Nat
    BY <1>1, <1>3, <1>5, Known
  <2>4. HoldsLast(c, "up")'
    BY <1>6, <2>3 DEF HoldsLast
  <2>5. held'[c].first <= Sent(c, "up")' + 1 /\ Sent(c, "up")' < got'[c]["up"]
    BY <1>6, <2>2, <2>3
  <2>6. Before(c)'
    BY <1>1, <1>2, <1>4, <2>2, <2>3, <2>4, <2>5 DEF Before, BeforeRelay
  <2>7. InRelay(c)'
    BY <1>4 DEF InRelay, Relaying
  <2> QED
    BY <2>1, <2>6, <2>7 DEF Counts
<1> QED
  BY <1>1, <1>8, <1>9, <1>10, <1>11, <1>12, ThreadKeeps

\* read_buffer_lazy receives into a new buffer, or fails.
LEMMA ReadKeeps ==
    ASSUME RelayInv, NEW c \in Conns, NEW d \in Dirs, NEW from, NEW to, Read(c, d, from, to),
           \/ d = "down" /\ from = "readDown" /\ to = "addDown"
           \/ d = "up" /\ from = "readUp" /\ to = "addUp"
    PROVE  RelayInv'
<1>0. Types /\ Flags /\ Contents /\ Counts(c) /\ InRelay(c)
  BY Known
<1>1. /\ pc[c] = from /\ pc[c] \in Relaying
      /\ UNCHANGED <<arrived, over, full, gone, lines, size, left, ready, out, mem, spoiled>>
  BY DEF Read, peerVars, sourceVars, Relaying
<1>2. held[c] = NotHeld
  BY <1>0, <1>1 DEF InRelay
<1>3. CASE ReadFails(c, d)
  <2>1. pc' = [pc EXCEPT ![c] = "flushDown"] /\ UNCHANGED <<got, held, tasks>>
    BY <1>3 DEF Read, Goto
  <2> QED
    BY <1>1, <1>2, <2>1, MovesOn, NotHeldFits DEF Relaying
<1>4. CASE ~ReadFails(c, d)
  <2>1. pc' = [pc EXCEPT ![c] = to] /\ ReadBuffer(c, d)
    BY <1>4 DEF Read, Goto
  <2>2. PICK b \in Free, n \in 1 .. ReadSize : LazyRecv(c, d, b, n)
    BY <2>1 DEF ReadBuffer
  <2>3. b \in Blocks /\ n \in Nat \ {0} /\ n <= ReadSize /\ size[c][d] < MaxSize
    BY <2>1, <2>2, FreeBlock, Sizes DEF ReadBuffer, Room
  <2>4. /\ pc' \in [Conns -> Labels] /\ pc'[c] = to
        /\ \A x \in Conns \ {c} : pc'[x] = pc[x]
    BY <1>0, <2>1 DEF Types, Labels
  <2>5. /\ held' \in [Conns -> HeldType]
        /\ held'[c] = [block |-> b, dir |-> d, first |-> got[c][d] + 1, length |-> n]
        /\ \A x \in Conns \ {c} : held'[x] = held[x]
    BY <2>2, <2>3, ReceivedHeld
  <2>6. /\ got' \in [Conns -> [Dirs -> Nat]] /\ got'[c][d] = got[c][d] + n
        /\ \A e \in Dirs \ {d} : got'[c][e] = got[c][e]
        /\ \A x \in Conns \ {c} : got'[x] = got[x]
    BY <2>2, <2>3, ReceivedCount
  <2>7. tasks' \in Seq(TaskType)
    <3>1. PICK u : u = Run(c, d, got[c][d] + 1, n)
      OBVIOUS
    <3>2. PICK t \in RecvType : tasks' = Append(tasks, t)
      BY <2>2, <2>3, <3>1, ReceivedTask
    <3> QED
      BY <1>0, <3>2 DEF Types, TaskType
  <2>8. Others(c)
    BY <1>1, <2>4, <2>5, <2>6 DEF Others
  <2>9. Types'
    BY <1>0, <1>1, <2>4, <2>5, <2>6, <2>7 DEF Types
  <2>10. Flags'
    BY <1>0, <1>1, Zenon DEF Flags
  <2>11. Contents'
    <3>1. pc'[c] \notin HeadPlaces
      BY <2>4 DEF HeadPlaces
    <3> QED
      BY <1>1, <2>2, <2>3, <2>8, <3>1, ReceivedContents
  <2>12. Counts(c)'
    <3>1. \A e \in Dirs :
            /\ got'[c][e] <= arrived'[c][e] /\ arrived'[c][e] <= Length[e]
            /\ Sent(c, e)' <= got'[c][e]
            /\ size'[c][e] \in 0 .. MaxSize + ReadSize - 1
      BY <1>1, <2>2, <2>3, ReceivedBounds
    <3>2. /\ held'[c].dir = d /\ held'[c].length = n /\ held'[c].first = got[c][d] + 1
          /\ held'[c].block \in Blocks /\ got[c][d] \in Nat
      BY <2>3, <2>5, Known
    <3>3. HoldsLast(c, d)' /\ held'[c].length <= ReadSize /\ size'[c][d] < MaxSize
      BY <1>1, <2>3, <2>6, <3>2 DEF HoldsLast
    <3>4. ASSUME NEW e \in Dirs PROVE Gap(c, e)'
      <4>1. GapOK(got[c][e] - NotAdded(c, e), lines[c][e], size[c][e], Sent(c, e))
        BY <1>1, ListAt
      <4>2. NotAdded(c, e) = 0
        BY <1>2 DEF NotAdded, NotHeld, Hold
      <4>3. got[c][e] \in Nat /\ got'[c][e] - NotAdded(c, e)' = got[c][e] - NotAdded(c, e)
        <5>0. got[c][e] \in Nat
          BY Known
        <5>1. CASE e = d
          BY <2>3, <2>6, <3>2, <4>2, <5>0, <5>1 DEF NotAdded
        <5>2. CASE e # d
          BY <2>6, <3>2, <4>2, <5>0, <5>2 DEF NotAdded
        <5> QED
          BY <5>0, <5>1, <5>2
      <4> QED
        BY <1>1, <4>1, <4>3 DEF Gap, GapOK, Sent
    <3>5. Before(c)'
      BY <2>4 DEF Before, BeforeRelay
    <3>6. InRelay(c)'
      BY <2>4, <3>2, <3>3, <3>4, Sizes DEF InRelay, Relaying
    <3> QED
      BY <3>1, <3>5, <3>6 DEF Counts
  <2> QED
    BY <1>1, <2>8, <2>9, <2>10, <2>11, <2>12, ThreadKeeps
<1> QED
  BY <1>3, <1>4

\* What add_to_bufferCopier does to the list.
LEMMA LineAdded ==
    ASSUME Types, NEW c \in Conns, NEW d \in Dirs, NEW line \in LineType,
           lines' = [lines EXCEPT ![c][d] = Append(lines[c][d], line)]
    PROVE  /\ lines' \in [Conns -> [Dirs -> Seq(LineType)]]
           /\ lines'[c][d] = Append(lines[c][d], line)
           /\ \A e \in Dirs \ {d} : lines'[c][e] = lines[c][e]
           /\ \A x \in Conns \ {c} : lines'[x] = lines[x]
<1>1. lines \in [Conns -> [Dirs -> Seq(LineType)]]
  BY DEF Types
<1>2. PICK new \in Seq(LineType) : new = Append(lines[c][d], line)
  <2>1. lines[c][d] \in Seq(LineType)
    BY <1>1
  <2>2. Append(lines[c][d], line) \in Seq(LineType)
    BY <2>1
  <2> QED
    BY <2>2
<1>3. lines' = [lines EXCEPT ![c][d] = new]
  BY <1>2
<1> QED
  BY <1>1, <1>2, <1>3

\* The claims then: the line's, on a new block, in place of the buffer's.
LEMMA AddedContents ==
    ASSUME RelayInv, NEW c \in Conns, NEW d \in Dirs, NEW b \in Free, NEW line \in LineType,
           held[c].block \in Blocks, held[c].dir = d,
           line.block = b, line.first = held[c].first, line.length = held[c].length,
           lines' = [lines EXCEPT ![c][d] = Append(lines[c][d], line)],
           held'[c] = NotHeld, Others(c), UNCHANGED <<out, mem, spoiled>>, pc'[c] \notin HeadPlaces,
           NEW u \in UnitSeq, u = Run(c, d, held[c].first, held[c].length),
           tasks' = Append(tasks, CopyTask(b, held[c].block, u))
    PROVE  Contents'
<1>0. Types /\ Contents /\ Kept
  BY Known DEF Contents
<1>1. PICK t \in CopyType : t = CopyTask(b, held[c].block, u)
  BY FreeBlock DEF CopyTask, CopyType
<1>2. /\ t \in TaskType /\ t.op = "copy" /\ t.to = b /\ t.from = held[c].block /\ t.units = u
      /\ tasks' = Append(tasks, t)
  BY <1>1 DEF CopyTask, CopyType, TaskType
<1>3. Holds(t.from, Len(tasks) + 1, t.units)
  <2>1. PICK q \in Claims : q = HeldClaim(c)
    BY HeldClaimed
  <2>2. q.block = t.from /\ UnitsOf(q) = t.units
    BY <1>2, <2>1 DEF HeldClaim, UnitsOf
  <2> QED
    BY <1>0, <2>2 DEF Kept
<1>4. PICK new : new = [block |-> b, conn |-> c, dir |-> d,
                        first |-> line.first, length |-> line.length]
  OBVIOUS
<1>5. new.block = t.to /\ UnitsOf(new) = t.units
  BY <1>2, <1>4 DEF UnitsOf
<1>6. ASSUME NEW q \in Claims', q # new PROVE q \in Claims /\ q.block # b
  <2>1. q \in Claims
    <3>1. CASE q.conn # c
      BY <3>1, ClaimsOfOthers
    <3>2. CASE q.conn = c
      <4>1. PICK e \in Dirs : \E i \in 1 .. Len(lines'[c][e]) : q = LineClaim(c, e, i)'
        BY <3>2, ClaimsOfThread, NotHeldFits
      <4>2. PICK i \in 1 .. Len(lines'[c][e]) : q = LineClaim(c, e, i)'
        BY <4>1
      <4>3. i \in 1 .. Len(lines[c][e]) /\ lines'[c][e][i] = lines[c][e][i]
        <5>1. CASE e # d
          BY <1>0, <5>1, LineAdded
        <5>2. CASE e = d
          <6>1. PICK old \in Seq(LineType) : old = lines[c][d]
            BY <1>0, SMTT(30) DEF Types
          <6>2. lines'[c][d] = Append(old, line)
            BY <1>0, <6>1, LineAdded
          <6>3. i \in 1 .. Len(old) + 1
            BY <4>2, <5>2, <6>2
          <6>4. i # Len(old) + 1
            <7> SUFFICES ASSUME i = Len(old) + 1 PROVE FALSE
              OBVIOUS
            <7>1. lines'[c][e][i] = line
              BY <5>2, <6>2
            <7>2. q = [block |-> line.block, conn |-> c, dir |-> d,
                       first |-> line.first, length |-> line.length]
              BY <4>2, <5>2, <7>1 DEF LineClaim
            <7> QED
              BY <1>4, <1>6, <7>2
          <6>5. i \in 1 .. Len(old) /\ Append(old, line)[i] = old[i]
            BY <6>3, <6>4
          <6> QED
            BY <5>2, <6>1, <6>2, <6>5
        <5> QED
          BY <5>1, <5>2
      <4>4. q = LineClaim(c, e, i)
        BY <4>2, <4>3 DEF LineClaim
      <4> QED
        BY <4>3, <4>4, LineClaimed
    <3> QED
      BY <3>1, <3>2
  <2> QED
    BY <2>1, FreeBlock
<1>7. Distinct' /\ Kept' /\ Sources' /\ SendsFit'
  <2>1. \A q \in Claims' : (q \in Claims /\ q.block # t.to) \/ q = new
    BY <1>2, <1>6
  <2> QED
    BY <1>0, <1>2, <1>3, <1>5, <2>1, BringsPosted
<1>8. HeadsKept'
  <2>1. \A x \in Conns \ {c} : ~Writes(t, held[x].block)
    BY <1>2, FreeBlock DEF Writes
  <2>2. Spares(c)
    BY <1>2, <2>1 DEF Spares
  <2> QED
    BY <1>0, <2>2, HeadsDropped DEF Contents
<1>9. RelayedInOrder'
  BY <1>0 DEF Contents, RelayedInOrder, Pending, Unit
<1> QED
  BY <1>7, <1>8, <1>9 DEF Contents

\* The line is added, or the relay ends for want of memory.
LEMMA AddKeeps ==
    ASSUME RelayInv, NEW c \in Conns, NEW d \in Dirs, NEW from, NEW to, Add(c, d, from, to),
           \/ d = "down" /\ from = "addDown" /\ to = "writeDown"
           \/ d = "up" /\ from = "addUp" /\ to = "writeUp"
    PROVE  RelayInv'
<1>0. Types /\ Flags /\ Contents /\ Counts(c) /\ InRelay(c) /\ held[c] \in HeldType
  BY Known
<1>1. /\ pc[c] = from /\ pc[c] \in {"addDown", "addUp"} /\ pc[c] \in Relaying
      /\ UNCHANGED <<arrived, over, full, gone, got, ready, out, mem, spoiled>>
  BY DEF Add, peerVars, sourceVars, Relaying
<1>2. /\ HoldsLast(c, d) /\ held[c].block \in Blocks /\ held[c].length <= ReadSize
      /\ size[c][d] < MaxSize
  BY <1>0, <1>1 DEF InRelay
<1>3. CASE Free = {}
  <2>1. /\ held' = [held EXCEPT ![c].block = NoBlock] /\ pc' = [pc EXCEPT ![c] = "flushDown"]
        /\ UNCHANGED <<lines, size, tasks, left>>
    BY <1>3 DEF Add, Goto
  <2> QED
    BY <1>1, <2>1, AddFailsKeeps
<1>4. CASE Free # {}
  <2>1. /\ AddToBuffer(c, d)
        /\ left' = IF d = "down" THEN [left EXCEPT ![c] = @ - held[c].length] ELSE left
        /\ pc' = [pc EXCEPT ![c] = IF d = "down" /\ left'[c] = 0 THEN "flushDown" ELSE to]
    BY <1>4 DEF Add, Goto
  <2>2. PICK first \in Nat \ {0}, n \in Nat \ {0} :
            /\ first = held[c].first /\ n = held[c].length /\ n <= ReadSize
            /\ first + n = got[c][d] + 1 /\ held[c].dir = d
    <3>1. held[c].first \in Nat \ {0} /\ held[c].length \in Nat
      BY <1>0 DEF HeldType
    <3> QED
      BY <1>2, <3>1 DEF HoldsLast
  <2>3. PICK b \in Free :
          LET line == [block |-> b, first |-> first, length |-> n, pos |-> 0]
          IN /\ lines' = [lines EXCEPT ![c][d] = Append(lines[c][d], line)]
             /\ tasks' = Append(tasks, CopyTask(b, held[c].block, Run(c, d, first, n)))
    BY <2>1, <2>2 DEF AddToBuffer, Appended
  <2>4. b \in Blocks
    BY FreeBlock
  <2>5. PICK line \in LineType :
            line = [block |-> b, first |-> first, length |-> n, pos |-> 0]
    BY <2>4 DEF LineType
  <2>6. /\ line.block = b /\ line.first = first /\ line.length = n /\ line.pos = 0
        /\ lines' = [lines EXCEPT ![c][d] = Append(lines[c][d], line)]
    BY <2>3, <2>5
  <2>7. size' = [size EXCEPT ![c][d] = @ + n] /\ held' = [held EXCEPT ![c] = NotHeld]
    BY <2>1, <2>2 DEF AddToBuffer
  <2>8. PICK u \in UnitSeq : u = Run(c, d, first, n)
    <3>1. got[c][d] \in Nat /\ Length[d] \in Nat /\ got[c][d] <= Length[d]
      <4>1. /\ got[c][d] \in Nat /\ arrived[c][d] \in Nat /\ Length[d] \in Nat
            /\ got[c][d] <= arrived[c][d] /\ arrived[c][d] <= Length[d]
        BY Known
      <4> QED
        BY <4>1
    <3>2. first + n <= Length[d] + 1
      BY <2>2, <3>1
    <3> QED
      BY <3>2, RunUnits
  <2>9. PICK t \in TaskType : t = CopyTask(b, held[c].block, u)
    BY <1>2, <2>4 DEF CopyTask, CopyType, TaskType
  <2>10. tasks' = Append(tasks, t) /\ tasks' \in Seq(TaskType)
    BY <1>0, <2>3, <2>8, <2>9 DEF Types
  <2>11. /\ pc' \in [Conns -> Labels] /\ pc'[c] \in {"writeDown", "writeUp", "flushDown"}
         /\ \A x \in Conns \ {c} : pc'[x] = pc[x]
    BY <1>0, <2>1 DEF Types, Labels
  <2>12. /\ held' \in [Conns -> HeldType] /\ held'[c] = NotHeld
         /\ \A x \in Conns \ {c} : held'[x] = held[x]
    BY <1>0, <2>7, NotHeldFits DEF Types
  <2>13. /\ lines' \in [Conns -> [Dirs -> Seq(LineType)]]
         /\ lines'[c][d] = Append(lines[c][d], line)
         /\ \A e \in Dirs \ {d} : lines'[c][e] = lines[c][e]
         /\ \A x \in Conns \ {c} : lines'[x] = lines[x]
    BY <1>0, <2>6, LineAdded
  <2>14. /\ size' \in [Conns -> [Dirs -> Int]] /\ size'[c][d] = size[c][d] + n
         /\ \A e \in Dirs \ {d} : size'[c][e] = size[c][e]
         /\ \A x \in Conns \ {c} : size'[x] = size[x]
    BY <1>0, <2>7 DEF Types
  <2>15. left' \in [Conns -> Int]
    BY <1>0, <2>1, <2>2 DEF Types
  <2>16. Others(c)
    BY <1>1, <2>11, <2>12, <2>13, <2>14 DEF Others
  <2>17. Types'
    BY <1>0, <1>1, <2>10, <2>11, <2>12, <2>13, <2>14, <2>15 DEF Types
  <2>18. Flags'
    BY <1>0, <1>1, Zenon DEF Flags
  <2>19. Contents'
    <3>1. pc'[c] \notin HeadPlaces
      BY <2>11 DEF HeadPlaces
    <3> QED
      BY <1>1, <1>2, <2>2, <2>6, <2>8, <2>9, <2>10, <2>12, <2>16, <3>1, AddedContents
  <2>20. Counts(c)'
    <3>1. ASSUME NEW e \in Dirs
          PROVE  /\ got'[c][e] <= arrived'[c][e] /\ arrived'[c][e] <= Length[e]
                 /\ Sent(c, e)' <= got'[c][e]
                 /\ size'[c][e] \in 0 .. MaxSize + ReadSize - 1
      <4>1. /\ got[c][e] <= arrived[c][e] /\ arrived[c][e] <= Length[e]
            /\ Sent(c, e) <= got[c][e] /\ size[c][e] \in 0 .. MaxSize + ReadSize - 1
        BY <1>0 DEF Counts
      <4>2. size'[c][e] \in 0 .. MaxSize + ReadSize - 1
        <5>1. CASE e = d
          <6>1. size[c][d] \in Nat
            BY Known
          <6> QED
            BY <1>2, <2>2, <2>14, <5>1, <6>1, Sizes
        <5>2. CASE e # d
          BY <2>14, <4>1, <5>2
        <5> QED
          BY <5>1, <5>2
      <4> QED
        BY <1>1, <4>1, <4>2 DEF Sent
    <3>2. ASSUME NEW e \in Dirs PROVE Gap(c, e)'
      <4>1. GapOK(got[c][e] - NotAdded(c, e), lines[c][e], size[c][e], Sent(c, e))
        BY <1>1, ListAt
      <4>2. NotAdded(c, e)' = 0
        BY <2>12 DEF NotAdded, NotHeld, Hold
      <4>3. got[c][e] \in Nat /\ size[c][e] \in Nat /\ Sent(c, e) \in Nat
            /\ lines[c][e] \in Seq(LineType)
        BY Known
      <4>4. CASE e = d
        <5>1. PICK added \in Int : added = got[c][d] - n /\ line.first = added + 1
          <6>1. PICK g \in Nat : g = got[c][d]
            BY <4>3, <4>4
          <6>2. first + n = g + 1 /\ first = (g - n) + 1 /\ g - n \in Int
            BY <2>2, <6>1
          <6> QED
            BY <2>6, <6>1, <6>2
        <5>2. GapOK(added, lines[c][d], size[c][d], Sent(c, d))
          BY <2>2, <4>1, <4>4, <5>1 DEF NotAdded
        <5>3. GapOK(added + line.length, Append(lines[c][d], line), size[c][d] + line.length,
                    Sent(c, d))
          <6>1. PICK list \in Seq(LineType), units \in Int, sent \in Int :
                    list = lines[c][d] /\ units = size[c][d] /\ sent = Sent(c, d)
            BY <4>3, <4>4
          <6>2. GapOK(added + line.length, Append(list, line), units + line.length, sent)
            BY <2>6, <5>1, <5>2, <6>1, GapAppend
          <6> QED
            BY <6>1, <6>2
        <5>4. added + line.length = got[c][d]
          BY <2>2, <2>6, <4>3, <4>4, <5>1
        <5>5. GapOK(got[c][d], lines'[c][d], size'[c][d], Sent(c, d))
          BY <2>6, <2>13, <2>14, <5>3, <5>4
        <5>6. got'[c][d] - NotAdded(c, d)' = got[c][d]
          BY <1>1, <4>2, <4>3, <4>4
        <5> QED
          BY <1>1, <4>4, <5>5, <5>6 DEF Gap, GapOK, Sent
      <4>5. CASE e # d
        <5>1. got'[c][e] - NotAdded(c, e)' = got[c][e] - NotAdded(c, e)
          BY <1>1, <2>2, <4>2, <4>3, <4>5 DEF NotAdded
        <5> QED
          BY <1>1, <2>13, <2>14, <4>1, <4>5, <5>1 DEF Gap, GapOK, Sent
      <4> QED
        BY <4>4, <4>5
    <3>3. Before(c)'
      BY <2>11 DEF Before, BeforeRelay
    <3>4. InRelay(c)'
      BY <2>11, <2>12, <3>2, NotHeldFits, Sizes DEF InRelay, Relaying, NotHeld, Hold
    <3> QED
      BY <3>1, <3>3, <3>4 DEF Counts
  <2> QED
    BY <1>1, <2>16, <2>17, <2>18, <2>19, <2>20, ThreadKeeps
<1> QED
  BY <1>3, <1>4

\* LazySend gives its bytes their places.
LEMMA PlacesFit ==
    ASSUME NEW n \in Nat
    PROVE  /\ [i \in 1 .. n |-> Pending] \in Seq(Units \cup {Pending, Junk})
           /\ Len([i \in 1 .. n |-> Pending]) = n
           /\ \A i \in 1 .. n : [j \in 1 .. n |-> Pending][i] = Pending
<1>1. [i \in 1 .. n |-> Pending] \in [1 .. n -> Units \cup {Pending, Junk}]
  OBVIOUS
<1> QED
  BY <1>1

LEMMA Shifted ==
    ASSUME NEW a \in Int, NEW b \in Int, NEW p \in Int, NEW i \in Int, a + b = p + 1
    PROVE  (a + (b + i)) - 1 = p + i
  OBVIOUS

LEMMA PlacesAdded ==
    ASSUME Types, NEW c \in Conns, NEW d \in Dirs, NEW n \in Nat, NEW m \in Nat,
           m = Sent(c, d) + n,
           out' = [out EXCEPT ![c][d] = @ \o [i \in 1 .. n |-> Pending]]
    PROVE  Sent(c, d)' = m
<1>1. PICK S : S = Units \cup {Pending, Junk}
  OBVIOUS
<1>2. out \in [Conns -> [Dirs -> Seq(S)]]
  BY <1>1 DEF Types
<1>3. PICK s \in Seq(S) : s = [i \in 1 .. n |-> Pending] /\ Len(s) = n
  BY <1>1, PlacesFit
<1>4. PICK old \in Seq(S) : old = out[c][d]
  BY <1>2
<1>5. out'[c][d] = old \o s
  BY <1>2, <1>3, <1>4
<1>6. Len(old \o s) = Len(old) + n
  BY <1>3, <1>4
<1> QED
  BY <1>4, <1>5, <1>6 DEF Sent

\* It sends units that its source will hold, the next ones of the stream.
LEMMA SentContents ==
    ASSUME RelayInv, NEW c \in Conns, NEW d \in Dirs, NEW block \in Blocks, NEW first \in Nat \ {0},
           NEW len \in Nat, NEW pos \in Nat, NEW n \in Nat, NEW u, u = Run(c, d, first, len),
           first + len <= Length[d] + 1, pos + n <= len, first + pos = Sent(c, d) + 1,
           Holds(block, Len(tasks) + 1, u),
           tasks' = Append(tasks, SendTask(c, d, block, u, pos, n)),
           out' = [out EXCEPT ![c][d] = @ \o [i \in 1 .. n |-> Pending]], UNCHANGED <<mem, spoiled>>,
           Claims' \subseteq Claims, Others(c), pc'[c] \notin HeadPlaces
    PROVE  /\ Contents' /\ tasks' \in Seq(TaskType)
           /\ out' \in [Conns -> [Dirs -> Seq(Units \cup {Pending, Junk})]]
           /\ \A e \in Dirs \ {d} : out'[c][e] = out[c][e]
           /\ \A x \in Conns \ {c} : out'[x] = out[x]
<1>0. Types /\ Contents /\ Sent(c, d) \in Nat
  BY Known
<1>1. /\ u \in UnitSeq /\ Len(u) = len
      /\ \A i \in 1 .. len : u[i] = Unit(c, d, first + i - 1)
  BY RunUnits
<1>2. PICK place \in Nat : place = Sent(c, d) /\ place = Len(out[c][d])
  BY <1>0 DEF Sent
<1>3. PICK t \in SendType : t = SendTask(c, d, block, u, pos, n)
  BY <1>1, <1>2 DEF SendTask, SendType
<1>4. /\ t \in TaskType /\ t.conn = c /\ t.dir = d /\ t.place = place /\ t.from = block
      /\ t.units = u /\ t.pos = pos /\ t.n = n /\ tasks' = Append(tasks, t)
  BY <1>2, <1>3 DEF SendTask, TaskType
<1>5. PICK s \in Seq(Units \cup {Pending, Junk}) :
          /\ s = [i \in 1 .. n |-> Pending] /\ Len(s) = n /\ \A i \in 1 .. n : s[i] = Pending
  BY PlacesFit
<1>6. out' = [out EXCEPT ![c][d] = @ \o s]
  BY <1>5
<1>7. /\ out' \in [Conns -> [Dirs -> Seq(Units \cup {Pending, Junk})]]
      /\ Sent(c, d)' = Sent(c, d) + Len(s)
      /\ \A x \in Conns \ {c} : out'[x] = out[x]
      /\ \A e \in Dirs \ {d} : out'[c][e] = out[c][e]
      /\ \A x \in Conns, e \in Dirs :
            Sent(x, e) \in Nat /\ Sent(x, e)' \in Nat /\ Sent(x, e)' >= Sent(x, e)
  <2>1. Sent(c, d)' = Sent(c, d) + Len(s)
    <3>1. PICK m \in Nat : m = Sent(c, d) + n
      BY <1>0
    <3>2. Sent(c, d)' = m
      BY <1>0, <3>1, PlacesAdded
    <3> QED
      BY <1>5, <3>1, <3>2
  <2>2. /\ out' \in [Conns -> [Dirs -> Seq(Units \cup {Pending, Junk})]]
        /\ \A x \in Conns \ {c} : out'[x] = out[x]
        /\ \A e \in Dirs \ {d} : out'[c][e] = out[c][e]
    BY <1>0, <1>6, OutAppended
  <2>3. \A x \in Conns, e \in Dirs :
           Sent(x, e) \in Nat /\ Sent(x, e)' \in Nat /\ Sent(x, e)' >= Sent(x, e)
    BY <1>0, <1>6, OutAppended, ZenonT(60)
  <2> QED
    BY <2>1, <2>2, <2>3
<1>8. Distinct' /\ Kept' /\ Sources' /\ SendsFit'
  <2>1. t.pos + t.n <= Len(t.units) /\ t.place + t.n <= Sent(t.conn, t.dir)'
    <3>1. Sent(c, d)' = place + n
      BY <1>2, <1>5, <1>7
    <3> QED
      BY <1>1, <1>4, <3>1
  <2>2. ASSUME NEW i \in 1 .. t.n
        PROVE  t.units[t.pos + i] = Unit(t.conn, t.dir, t.place + i)
    <3>1. PICK j \in 1 .. len : j = pos + i /\ (first + j) - 1 = place + i
      <4>1. i \in 1 .. n
        BY <1>4
      <4>2. pos + i \in 1 .. len
        BY <4>1
      <4>3. (first + (pos + i)) - 1 = place + i
        <5>1. first + pos = place + 1 /\ i \in Int
          BY <1>2, <4>1
        <5> QED
          BY <5>1, Shifted, SMTT(30)
      <4> QED
        BY <4>2, <4>3
    <3>2. u[j] = Unit(c, d, place + i)
      <4>1. first + j - 1 = place + i
        BY <3>1
      <4> QED
        BY <1>1, <4>1
    <3> QED
      BY <1>4, <3>1, <3>2
  <2>3. Holds(t.from, Len(tasks) + 1, t.units)
    BY <1>4
  <2> QED
    BY <1>0, <1>4, <1>7, <2>1, <2>2, <2>3, SendPosted
<1>9. RelayedInOrder'
  <2>1. \A i \in 1 .. Len(s) : \/ Unit(c, d, Sent(c, d) + i) \in spoiled
                                \/ s[i] \in {Pending, Unit(c, d, Sent(c, d) + i)}
    BY <1>5
  <2> QED
    BY <1>0, <1>6, <2>1, OrderAppended DEF Contents
<1>11. HeadsKept'
  <2>1. \A x \in Conns \ {c} : ~Writes(t, held[x].block)
    BY DEF Writes, SendType
  <2>2. Spares(c)
    BY <1>4, <2>1 DEF Spares
  <2> QED
    BY <1>0, <2>2, HeadsDropped DEF Contents
<1>10. tasks' \in Seq(TaskType)
  BY <1>0, <1>4 DEF Types
<1> QED
  BY <1>7, <1>8, <1>9, <1>10, <1>11 DEF Contents

\* It notes whether all was taken.
LEMMA SendFlags ==
    ASSUME Flags, NEW c \in Conns, NEW d \in Dirs, NEW source, NEW pos, NEW all, NEW n,
           LazySend(c, d, source, pos, all, n), UNCHANGED <<over, gone, ready>>
    PROVE  Flags'
<1>1. full' = [full EXCEPT ![c][d] = n < all]
  BY DEF LazySend
<1>2. full' = [full EXCEPT ![c][d] = TRUE] \/ full' = [full EXCEPT ![c][d] = FALSE]
  <2>1. CASE n < all
    <3>1. (n < all) = TRUE
      BY <2>1
    <3> QED
      BY <1>1, <3>1
  <2>2. CASE ~(n < all)
    <3>1. (n < all) = FALSE
      BY <2>2
    <3> QED
      BY <1>1, <3>1
  <2> QED
    BY <2>1, <2>2
<1>3. full' \in [Conns -> [Dirs -> BOOLEAN]]
  BY <1>2, FlagSet DEF Flags
<1> QED
  BY <1>3, Zenon DEF Flags

\* All that was held is sent, or some of it.
LEMMA SentOf ==
    ASSUME NEW first \in Int, NEW len \in Int, NEW place \in Int, NEW g \in Int,
           NEW pos \in Int, NEW n \in Int,
           first + len = g + 1, first + pos = place + 1, pos + n <= len
    PROVE  /\ place + n <= g
           /\ n < len - pos => place + n < g
           /\ n >= len - pos => place + n = g
  OBVIOUS

\* Some of the body is sent.
LEMMA BodyOutKeeps == ASSUME RelayInv, NEW c \in Conns, BodyOut(c) PROVE RelayInv'
<1>0. /\ Types /\ Flags /\ Contents /\ Kept /\ Counts(c) /\ Before(c) /\ held[c] \in HeldType
      /\ "up" \in Dirs /\ "down" \in Dirs
  BY Known, Sizes DEF Contents
<1>1. /\ pc[c] = "bodyHeld"
      /\ UNCHANGED <<arrived, over, gone, got, lines, size, left, ready, mem, spoiled>>
  BY DEF BodyOut, sourceVars
<1>2. /\ \A e \in Dirs : lines[c][e] = <<>> /\ size[c][e] = 0
      /\ got[c]["down"] = 0 /\ Sent(c, "down") = 0
      /\ HoldsLast(c, "up") /\ held[c].block \in Blocks
      /\ held[c].first <= Sent(c, "up") + 1 /\ Sent(c, "up") < got[c]["up"]
  BY <1>0, <1>1 DEF Before, BeforeRelay
<1>3. PICK first \in Nat \ {0}, len \in Nat, place \in Nat, g \in Nat :
          /\ first = held[c].first /\ len = held[c].length /\ place = Sent(c, "up")
          /\ g = got[c]["up"] /\ first + len = g + 1 /\ first <= place + 1 /\ place < g
          /\ held[c].dir = "up"
  <2>1. held[c].first \in Nat \ {0} /\ held[c].length \in Nat
    BY <1>0 DEF HeldType
  <2>2. Sent(c, "up") \in Nat /\ got[c]["up"] \in Nat
    BY <1>0, Known
  <2> QED
    BY <1>2, <2>1, <2>2 DEF HoldsLast
<1>4. PICK pos \in Nat, n \in Nat \ {0} :
          /\ pos = (place + 1) - first /\ first + pos = place + 1 /\ pos + n <= len
          /\ LazySend(c, "up", held[c], pos, len - pos, n)
          /\ IF n < len - pos THEN UNCHANGED <<pc, held>>
             ELSE IF BodyLeft(c) > 0 THEN Goto(c, "body") /\ UNCHANGED held
             ELSE /\ Goto(c, "response")
                  /\ held' = [held EXCEPT ![c] = NotHeld]
  <2>1. PICK pos \in Nat : pos = (place + 1) - first /\ first + pos = place + 1 /\ pos < len
    <3>1. (place + 1) - first \in Nat /\ first + ((place + 1) - first) = place + 1
      BY <1>3
    <3>2. (place + 1) - first < len
      BY <1>3
    <3> QED
      BY <3>1, <3>2
  <2>2. Len(out[c]["up"]) + 1 - held[c].first = pos /\ held[c].length = len
    <3>1. Len(out[c]["up"]) = place
      BY <1>3 DEF Sent
    <3>2. place + 1 - first = pos
      BY <2>1
    <3> QED
      BY <1>3, <3>1, <3>2
  <2>3. PICK n \in 1 .. len - pos :
          /\ LazySend(c, "up", held[c], pos, len - pos, n)
          /\ IF n < len - pos THEN UNCHANGED <<pc, held>>
             ELSE IF BodyLeft(c) > 0 THEN Goto(c, "body") /\ UNCHANGED held
             ELSE /\ Goto(c, "response")
                  /\ held' = [held EXCEPT ![c] = NotHeld]
    BY <2>2 DEF BodyOut
  <2>4. n \in Nat \ {0} /\ pos + n <= len
    BY <2>1
  <2> QED
    BY <2>1, <2>3, <2>4
<1>5. PICK u : u = Run(c, "up", first, len)
  OBVIOUS
<1>6. /\ tasks' = Append(tasks, SendTask(c, "up", held[c].block, u, pos, n))
      /\ out' = [out EXCEPT ![c]["up"] = @ \o [i \in 1 .. n |-> Pending]]
  BY <1>3, <1>4, <1>5 DEF LazySend
<1>7. /\ pc' \in [Conns -> Labels] /\ held' \in [Conns -> HeldType]
      /\ \A x \in Conns \ {c} : pc'[x] = pc[x] /\ held'[x] = held[x]
      /\ \/ n < len - pos /\ pc'[c] = "bodyHeld" /\ held'[c] = held[c]
         \/ n >= len - pos /\ pc'[c] = "body" /\ held'[c] = held[c]
         \/ n >= len - pos /\ pc'[c] = "response" /\ held'[c] = NotHeld
  <2>1. pc \in [Conns -> Labels] /\ held \in [Conns -> HeldType]
    BY <1>0 DEF Types
  <2>2. CASE n < len - pos
    BY <1>1, <1>4, <2>1, <2>2
  <2>3. CASE ~(n < len - pos) /\ BodyLeft(c) > 0
    <3>1. n >= len - pos /\ pc' = [pc EXCEPT ![c] = "body"] /\ held' = held
      BY <1>4, <2>3 DEF Goto
    <3> QED
      BY <2>1, <3>1 DEF Labels
  <2>4. CASE ~(n < len - pos) /\ ~(BodyLeft(c) > 0)
    <3>1. /\ n >= len - pos /\ pc' = [pc EXCEPT ![c] = "response"]
          /\ held' = [held EXCEPT ![c] = NotHeld]
      BY <1>4, <2>4 DEF Goto
    <3> QED
      BY <2>1, <3>1, NotHeldFits DEF Labels
  <2> QED
    BY <2>2, <2>3, <2>4
<1>8. Others(c) /\ \A e \in Dirs \ {"up"} : out'[c][e] = out[c][e]
  <2>1. /\ \A x \in Conns \ {c} : out'[x] = out[x]
        /\ \A e \in Dirs \ {"up"} : out'[c][e] = out[c][e]
    BY <1>0, <1>6 DEF Types
  <2> QED
    BY <1>1, <1>7, <2>1 DEF Others
<1>9. /\ Contents' /\ tasks' \in Seq(TaskType)
      /\ out' \in [Conns -> [Dirs -> Seq(Units \cup {Pending, Junk})]]
  <2>3. Claims' \subseteq Claims
    BY <1>1, <1>7, <1>8, ClaimsLost, NotHeldFits
  <2>4. pc'[c] \notin HeadPlaces
    BY <1>7 DEF HeadPlaces
  <2>5. Holds(held[c].block, Len(tasks) + 1, u)
    <3>1. PICK q \in Claims : q = HeldClaim(c)
      BY <1>2, HeldClaimed
    <3>2. q.block = held[c].block /\ UnitsOf(q) = u
      BY <1>3, <1>5, <3>1 DEF HeldClaim, UnitsOf
    <3> QED
      BY <1>0, <3>2 DEF Kept
  <2>6. first + len <= Length["up"] + 1
    <3>1. /\ arrived[c]["up"] \in Nat /\ Length["up"] \in Nat
          /\ got[c]["up"] <= arrived[c]["up"] /\ arrived[c]["up"] <= Length["up"]
      BY <1>0, Known
    <3> QED
      BY <1>3, <3>1
  <2>7. first + pos = Sent(c, "up") + 1
    BY <1>3, <1>4
  <2>8. PICK block \in Blocks : block = held[c].block
    BY <1>2
  <2>9. /\ Contents' /\ tasks' \in Seq(TaskType)
        /\ out' \in [Conns -> [Dirs -> Seq(Units \cup {Pending, Junk})]]
    BY <1>0, <1>1, <1>4, <1>5, <1>6, <1>8, <2>3, <2>4, <2>5, <2>6, <2>7, <2>8, SentContents
  <2> QED
    BY <2>9
<1>10. Types'
  BY <1>0, <1>1, <1>7, <1>9 DEF Types
<1>11. Flags'
  BY <1>0, <1>1, <1>4, SendFlags
<1>12. Counts(c)'
  <2>1. Sent(c, "up")' = place + n /\ place + n <= g /\ (n >= len - pos => place + n = g)
        /\ (n < len - pos => place + n < g)
    <3>1. Sent(c, "up")' = place + n
      <4>1. PICK m \in Nat : m = place + n
        BY <1>3
      <4>2. m = Sent(c, "up") + n
        BY <1>3, <4>1
      <4> QED
        BY <1>0, <1>6, <4>1, <4>2, PlacesAdded
    <3>2. /\ place + n <= g /\ (n >= len - pos => place + n = g)
          /\ (n < len - pos => place + n < g)
      <4>1. first + len = g + 1 /\ first + pos = place + 1 /\ pos + n <= len
        BY <1>3, <1>4
      <4> QED
        BY <4>1, SentOf
    <3> QED
      BY <3>1, <3>2
  <2>2. Sent(c, "down")' = Sent(c, "down")
    BY <1>0, <1>8, Sizes DEF Sent
  <2>3. ASSUME NEW e \in Dirs
        PROVE  /\ got'[c][e] <= arrived'[c][e] /\ arrived'[c][e] <= Length[e]
               /\ Sent(c, e)' <= got'[c][e]
               /\ size'[c][e] \in 0 .. MaxSize + ReadSize - 1
    <3>1. /\ got[c][e] <= arrived[c][e] /\ arrived[c][e] <= Length[e]
          /\ Sent(c, e) <= got[c][e] /\ size[c][e] \in 0 .. MaxSize + ReadSize - 1
      BY <1>0 DEF Counts
    <3>2. Sent(c, e)' <= got[c][e]
      <4>1. CASE e = "up"
        BY <1>3, <2>1, <4>1
      <4>2. CASE e = "down"
        BY <2>2, <3>1, <4>2
      <4> QED
        BY <4>1, <4>2, Sizes
    <3> QED
      BY <1>1, <3>1, <3>2
  <2>4. CASE pc'[c] = "bodyHeld" /\ n < len - pos /\ held'[c] = held[c]
    <3>1. held'[c].first <= Sent(c, "up")' + 1 /\ Sent(c, "up")' < got'[c]["up"]
      BY <1>1, <1>3, <2>1, <2>4
    <3>2. HoldsLast(c, "up")'
      BY <1>1, <1>2, <2>4 DEF HoldsLast
    <3>3. Before(c)'
      BY <1>1, <1>2, <2>2, <2>4, <3>1, <3>2 DEF Before, BeforeRelay
    <3>4. InRelay(c)'
      BY <2>4 DEF InRelay, Relaying
    <3> QED
      BY <2>3, <3>3, <3>4 DEF Counts
  <2>5. CASE pc'[c] = "body" /\ n >= len - pos /\ held'[c] = held[c]
    <3>1. Sent(c, "up")' = got'[c]["up"]
      BY <1>1, <1>3, <2>1, <2>5
    <3>2. Before(c)'
      BY <1>1, <1>2, <2>2, <2>5, <3>1 DEF Before, BeforeRelay
    <3>3. InRelay(c)'
      BY <2>5 DEF InRelay, Relaying
    <3> QED
      BY <2>3, <3>2, <3>3 DEF Counts
  <2>6. CASE pc'[c] = "response" /\ n >= len - pos /\ held'[c] = NotHeld
    <3>1. Sent(c, "up")' = got'[c]["up"]
      BY <1>1, <1>3, <2>1, <2>6
    <3>2. Before(c)'
      BY <1>1, <1>2, <2>2, <2>6, <3>1 DEF Before, BeforeRelay
    <3>3. InRelay(c)'
      BY <2>6 DEF InRelay, Relaying, NotHeld, Hold
    <3> QED
      BY <2>3, <3>2, <3>3 DEF Counts
  <2> QED
    BY <1>7, <2>4, <2>5, <2>6
<1> QED
  BY <1>1, <1>8, <1>9, <1>10, <1>11, <1>12, ThreadKeeps

\* What write_buffer_lazy leaves of a list: the lines behind the first, or all of them.
LEMMA LinesLeft ==
    ASSUME NEW old \in Seq(LineType), old # <<>>, NEW n \in Nat, NEW new \in Seq(LineType),
           new = Tail(old) \/ new = [old EXCEPT ![1].pos = @ + n]
    PROVE  \A i \in 1 .. Len(new) : \E j \in 1 .. Len(old) :
              /\ new[i].block = old[j].block /\ new[i].first = old[j].first
              /\ new[i].length = old[j].length
<1> SUFFICES ASSUME NEW i \in 1 .. Len(new)
             PROVE  \E j \in 1 .. Len(old) :
                       /\ new[i].block = old[j].block /\ new[i].first = old[j].first
                       /\ new[i].length = old[j].length
  OBVIOUS
<1>1. CASE new = Tail(old)
  <2>1. i + 1 \in 1 .. Len(old) /\ new[i] = old[i + 1]
    BY <1>1
  <2> QED
    BY <2>1
<1>2. CASE new = [old EXCEPT ![1].pos = @ + n]
  <2>1. i \in 1 .. Len(old)
    BY <1>2
  <2>2. CASE i # 1
    <3>1. new[i] = old[i]
      BY <1>2, <2>1, <2>2
    <3> QED
      BY <2>1, <3>1
  <2>3. CASE i = 1
    <3>1. PICK a \in LineType : a = old[1]
      BY <2>1, <2>3
    <3>2. new[1] = [a EXCEPT !.pos = @ + n]
      BY <1>2, <2>1, <2>3, <3>1
    <3>3. a = [block |-> a.block, first |-> a.first, length |-> a.length, pos |-> a.pos]
      BY DEF LineType
    <3>4. [a EXCEPT !.pos = @ + n]
            = [block |-> a.block, first |-> a.first, length |-> a.length, pos |-> a.pos + n]
      BY <3>3
    <3>5. new[1].block = a.block /\ new[1].first = a.first /\ new[1].length = a.length
      BY <3>2, <3>4
    <3> QED
      BY <2>1, <2>3, <3>1, <3>5
  <2> QED
    BY <2>2, <2>3
<1> QED
  BY <1>1, <1>2

\* They are claimed as they were.
LEMMA ClaimsWritten ==
    ASSUME Types, NEW c \in Conns, NEW d \in Dirs, lines[c][d] # <<>>, NEW n \in Nat,
           NEW new \in Seq(LineType), lines' = [lines EXCEPT ![c][d] = new],
           new = Tail(lines[c][d]) \/ new = [lines[c][d] EXCEPT ![1].pos = @ + n],
           held'[c] = held[c], Others(c)
    PROVE  Claims' \subseteq Claims
<1> SUFFICES ASSUME NEW q \in Claims', q.conn = c PROVE q \in Claims
  BY ClaimsOfOthers
<1>0. lines \in [Conns -> [Dirs -> Seq(LineType)]]
  BY DEF Types
<1>1. CASE held'[c].block \in Blocks /\ q = HeldClaim(c)'
  <2>1. q = HeldClaim(c) /\ held[c].block \in Blocks
    BY <1>1 DEF HeldClaim
  <2> QED
    BY <2>1, HeldClaimed
<1>2. ASSUME NEW e \in Dirs, NEW i \in 1 .. Len(lines'[c][e]), q = LineClaim(c, e, i)'
      PROVE  q \in Claims
  <2>1. CASE e # d
    <3>1. lines'[c][e] = lines[c][e]
      BY <1>0, <2>1
    <3>2. i \in 1 .. Len(lines[c][e]) /\ q = LineClaim(c, e, i)
      BY <1>2, <3>1 DEF LineClaim
    <3> QED
      BY <3>2, LineClaimed
  <2>2. CASE e = d
    <3>1. lines'[c][d] = new /\ i \in 1 .. Len(new)
      BY <1>0, <2>2
    <3>2. PICK old \in Seq(LineType) : old = lines[c][d]
      BY <1>0
    <3>3. PICK j \in 1 .. Len(old) :
              /\ new[i].block = old[j].block /\ new[i].first = old[j].first
              /\ new[i].length = old[j].length
      <4>1. old # <<>> /\ (new = Tail(old) \/ new = [old EXCEPT ![1].pos = @ + n])
        BY <3>2
      <4>2. \A k \in 1 .. Len(new) : \E j \in 1 .. Len(old) :
               /\ new[k].block = old[j].block /\ new[k].first = old[j].first
               /\ new[k].length = old[j].length
        BY <4>1, LinesLeft, ZenonT(90)
      <4> QED
        BY <3>1, <4>2
    <3>4. q = LineClaim(c, d, j)
      BY <1>2, <2>2, <3>1, <3>2, <3>3 DEF LineClaim
    <3> QED
      BY <3>2, <3>4, LineClaimed
  <2> QED
    BY <2>1, <2>2
<1> QED
  BY <1>1, <1>2, ClaimsOfThread

\* What write_buffer_lazy does, in terms of the list and its counts.
LEMMA Written ==
    ASSUME RelayInv, NEW c \in Conns, NEW d \in Dirs, WriteBuffer(c, d), pc[c] \in Relaying
    PROVE  /\ lines[c][d] # <<>>
           /\ \E line \in LineType, n \in Nat \ {0}, new \in Seq(LineType), units \in Nat :
                 /\ line = lines[c][d][1] /\ line.pos + n <= line.length
                 /\ line.first + line.pos = Sent(c, d) + 1
                 /\ line.first + line.length <= Length[d] + 1
                 /\ LazySend(c, d, line, line.pos, line.length - line.pos, n)
                 /\ new = Tail(lines[c][d]) \/ new = [lines[c][d] EXCEPT ![1].pos = @ + n]
                 /\ lines' = [lines EXCEPT ![c][d] = new]
                 /\ size' = [size EXCEPT ![c][d] = units] /\ units <= size[c][d]
                 /\ GapOK(got[c][d] - NotAdded(c, d), new, units, Sent(c, d) + n)
                 /\ Sent(c, d) + n <= got[c][d]
<1>0. /\ Types /\ got[c][d] \in Nat /\ Sent(c, d) \in Nat /\ size[c][d] \in Nat
      /\ lines[c][d] \in Seq(LineType) /\ held[c] \in HeldType /\ arrived[c][d] \in Nat
      /\ Length[d] \in Nat /\ got[c][d] <= arrived[c][d] /\ arrived[c][d] <= Length[d]
  BY Known
<1>1. PICK added \in Int, list \in Seq(LineType), total \in Int, sent \in Int,
           g \in Int, all \in Int :
          /\ added = got[c][d] - NotAdded(c, d) /\ list = lines[c][d] /\ total = size[c][d]
          /\ sent = Sent(c, d) /\ g = got[c][d] /\ all = Length[d]
          /\ GapOK(added, list, total, sent) /\ added <= g /\ g <= all
  <2>1. NotAdded(c, d) \in Nat
    BY <1>0 DEF NotAdded, HeldType
  <2>2. got[c][d] - NotAdded(c, d) \in Int /\ got[c][d] - NotAdded(c, d) <= got[c][d]
    BY <1>0, <2>1
  <2>3. GapOK(got[c][d] - NotAdded(c, d), lines[c][d], size[c][d], Sent(c, d))
    BY ListAt
  <2>4. got[c][d] <= Length[d]
    BY <1>0
  <2> QED
    BY <1>0, <2>2, <2>3, <2>4
<1>2. list # <<>> /\ GapOK(added, list, total, sent)
  <2>1. size[c][d] > 0
    BY DEF WriteBuffer
  <2> QED
    BY <1>1, <2>1, GapBounds
<1>3. PICK line \in LineType : line = list[1]
  BY <1>2, GapBounds
<1>4. PICK first \in Int, length \in Int, pos \in Int :
          /\ first = line.first /\ length = line.length /\ pos = line.pos
          /\ first >= 1 /\ length >= 1 /\ pos >= 0
          /\ pos < length /\ sent + 1 = first + pos /\ first + length <= added + 1
  <2>1. /\ line.first \in Int /\ line.length \in Int /\ line.pos \in Int
        /\ line.first >= 1 /\ line.length >= 1 /\ line.pos >= 0
    BY LineParts
  <2>2. /\ list[1].pos < list[1].length /\ sent + 1 = list[1].first + list[1].pos
        /\ list[1].first + list[1].length <= added + 1
    BY <1>2, GapBounds
  <2> QED
    BY <1>3, <2>1, <2>2
<1>5. PICK rest \in Nat : rest = length - pos /\ rest = line.length - line.pos
  BY <1>4
<1>6. PICK n \in Nat \ {0} :
          /\ n <= rest /\ pos + n <= length
          /\ LazySend(c, d, line, line.pos, rest, n)
          /\ IF n = rest
             THEN /\ lines' = [lines EXCEPT ![c][d] = Tail(@)]
                  /\ size' = [size EXCEPT ![c][d] = @ - line.length]
             ELSE /\ lines' = [lines EXCEPT ![c][d][1].pos = @ + n]
                  /\ UNCHANGED size
  <2>1. Head(lines[c][d]) = line
    BY <1>1, <1>2, <1>3
  <2>2. PICK n \in 1 .. rest :
          /\ LazySend(c, d, line, line.pos, rest, n)
          /\ IF n = rest
             THEN /\ lines' = [lines EXCEPT ![c][d] = Tail(@)]
                  /\ size' = [size EXCEPT ![c][d] = @ - line.length]
             ELSE /\ lines' = [lines EXCEPT ![c][d][1].pos = @ + n]
                  /\ UNCHANGED size
    BY <1>5, <2>1 DEF WriteBuffer, Rest, SendFrom, LineLength
  <2>3. n \in Nat \ {0} /\ n <= rest /\ pos + n <= length
    BY <1>5
  <2> QED
    BY <2>2, <2>3
<1>7. PICK m \in Int : m = sent + n
  OBVIOUS
<1>8. PICK new \in Seq(LineType), units \in Nat :
          /\ new = Tail(list) \/ new = [list EXCEPT ![1].pos = @ + n]
          /\ lines' = [lines EXCEPT ![c][d] = new] /\ size' = [size EXCEPT ![c][d] = units]
          /\ units <= total /\ GapOK(added, new, units, m)
  <2>1. CASE n = rest
    <3>1. /\ Tail(list) \in Seq(LineType)
          /\ GapOK(added, Tail(list), total - list[1].length,
                   sent + (list[1].length - list[1].pos))
      BY <1>2, GapTail
    <3>2. PICK units \in Int : units = total - length
      OBVIOUS
    <3>3. PICK new \in Seq(LineType) : new = Tail(list)
      BY <3>1
    <3>4. GapOK(added, new, units, m)
      <4>1. total - list[1].length = units /\ sent + (list[1].length - list[1].pos) = m
        BY <1>3, <1>4, <1>5, <1>7, <2>1, <3>2
      <4> QED
        BY <3>1, <3>3, <4>1
    <3>5. units >= 0
      BY <3>4, GapBounds
    <3>6. units \in Nat /\ units <= total
      BY <1>4, <3>2, <3>5
    <3>7. lines' = [lines EXCEPT ![c][d] = new] /\ size' = [size EXCEPT ![c][d] = units]
      BY <1>1, <1>4, <1>6, <2>1, <3>2, <3>3
    <3> QED
      BY <3>3, <3>4, <3>6, <3>7
  <2>2. CASE n # rest
    <3>1. n < list[1].length - list[1].pos
      BY <1>3, <1>5, <1>6, <2>2, SMTT(30)
    <3>2. /\ [list EXCEPT ![1].pos = @ + n] \in Seq(LineType)
          /\ GapOK(added, [list EXCEPT ![1].pos = @ + n], total, sent + n)
      BY <1>2, <3>1, GapPart
    <3>3. PICK new \in Seq(LineType) : new = [list EXCEPT ![1].pos = @ + n]
      BY <3>2
    <3>4. GapOK(added, new, total, m)
      BY <1>7, <3>2, <3>3
    <3>5. lines' = [lines EXCEPT ![c][d] = new]
      BY <1>1, <1>6, <2>2, <3>3
    <3>6. PICK units \in Nat : units = total
      BY <1>0, <1>1
    <3>7. size' = [size EXCEPT ![c][d] = units]
      BY <1>0, <1>1, <1>6, <2>2, <3>6 DEF Types
    <3>8. units <= total /\ GapOK(added, new, units, m)
      BY <3>4, <3>6
    <3> QED
      BY <3>3, <3>5, <3>7, <3>8
  <2> QED
    BY <2>1, <2>2
<1>9. first + length <= all + 1 /\ sent + n <= g
  <2>1. added <= g /\ g <= all /\ pos + n <= length
    BY <1>1, <1>6
  <2>2. sent + 1 = first + pos /\ first + length <= added + 1
    BY <1>4
  <2> QED
    BY <2>1, <2>2
<1>10. /\ line = lines[c][d][1] /\ line.pos + n <= line.length
       /\ line.first + line.pos = Sent(c, d) + 1
       /\ line.first + line.length <= Length[d] + 1
       /\ LazySend(c, d, line, line.pos, line.length - line.pos, n)
  BY <1>1, <1>3, <1>4, <1>5, <1>6, <1>9
<1>11. /\ new = Tail(lines[c][d]) \/ new = [lines[c][d] EXCEPT ![1].pos = @ + n]
       /\ units <= size[c][d]
       /\ GapOK(got[c][d] - NotAdded(c, d), new, units, Sent(c, d) + n)
       /\ Sent(c, d) + n <= got[c][d]
  BY <1>1, <1>7, <1>8, <1>9
<1> QED
  BY <1>1, <1>2, <1>8, <1>10, <1>11

\* Some of a list is written.
LEMMA BufferKeeps ==
    ASSUME RelayInv, NEW c \in Conns, NEW d \in Dirs, WriteBuffer(c, d), pc[c] \in Relaying,
           held[c].block = NoBlock, NEW label \in Relaying \ {"addDown", "addUp"},
           pc' = [pc EXCEPT ![c] = label],
           UNCHANGED <<arrived, over, gone, got, held, left, ready, mem, spoiled>>,
           label \in {"poll", "readDown", "writeDown", "readUp", "writeUp"} => held[c] = NotHeld,
           label = "flushUp" => d = "up" /\ (~gone[c]["down"] => lines[c]["down"] = <<>>)
    PROVE  RelayInv'
<1>0. Types /\ Flags /\ Contents /\ Kept /\ Counts(c) /\ lines[c][d] # <<>>
  BY Known, Written DEF Contents
<1>1. PICK line \in LineType, n \in Nat \ {0}, new \in Seq(LineType), units \in Nat :
         /\ line = lines[c][d][1] /\ line.pos + n <= line.length
         /\ line.first + line.pos = Sent(c, d) + 1
         /\ line.first + line.length <= Length[d] + 1
         /\ LazySend(c, d, line, line.pos, line.length - line.pos, n)
         /\ new = Tail(lines[c][d]) \/ new = [lines[c][d] EXCEPT ![1].pos = @ + n]
         /\ lines' = [lines EXCEPT ![c][d] = new]
         /\ size' = [size EXCEPT ![c][d] = units] /\ units <= size[c][d]
         /\ GapOK(got[c][d] - NotAdded(c, d), new, units, Sent(c, d) + n)
         /\ Sent(c, d) + n <= got[c][d]
  BY Written
<1>2. PICK first \in Nat \ {0}, len \in Nat, pos \in Nat, block \in Blocks, m \in Nat :
         /\ first = line.first /\ len = line.length /\ pos = line.pos /\ block = line.block
         /\ m = Sent(c, d) + n
  <2>1. Sent(c, d) \in Nat
    BY Known
  <2> QED
    BY <2>1 DEF LineType
<1>3. PICK u : u = Run(c, d, first, len)
  OBVIOUS
<1>4. /\ tasks' = Append(tasks, SendTask(c, d, block, u, pos, n))
      /\ out' = [out EXCEPT ![c][d] = @ \o [i \in 1 .. n |-> Pending]]
  BY <1>1, <1>2, <1>3 DEF LazySend
<1>5. /\ pc' \in [Conns -> Labels] /\ pc'[c] = label
      /\ \A x \in Conns \ {c} : pc'[x] = pc[x]
  BY <1>0 DEF Types, Labels, Relaying
<1>6. /\ lines' \in [Conns -> [Dirs -> Seq(LineType)]] /\ lines'[c][d] = new
      /\ \A e \in Dirs \ {d} : lines'[c][e] = lines[c][e]
      /\ \A x \in Conns \ {c} : lines'[x] = lines[x]
  BY <1>0, <1>1 DEF Types
<1>7. /\ size' \in [Conns -> [Dirs -> Int]] /\ size'[c][d] = units
      /\ \A e \in Dirs \ {d} : size'[c][e] = size[c][e]
      /\ \A x \in Conns \ {c} : size'[x] = size[x]
  BY <1>0, <1>1, SMTT(30) DEF Types
<1>8. /\ \A x \in Conns \ {c} : out'[x] = out[x]
      /\ \A e \in Dirs \ {d} : out'[c][e] = out[c][e]
  BY <1>0, <1>4 DEF Types
<1>9. Others(c)
  BY <1>5, <1>6, <1>7, <1>8 DEF Others
<1>10. Contents' /\ tasks' \in Seq(TaskType)
       /\ out' \in [Conns -> [Dirs -> Seq(Units \cup {Pending, Junk})]]
  <2>1. Claims' \subseteq Claims
    BY <1>0, <1>1, <1>9, ClaimsWritten
  <2>2. pc'[c] \notin HeadPlaces
    BY <1>5 DEF HeadPlaces, Relaying
  <2>3. Holds(block, Len(tasks) + 1, u)
    <3>1. 1 \in 1 .. Len(lines[c][d])
      BY <1>0 DEF Types
    <3>2. PICK q \in Claims : q = LineClaim(c, d, 1)
      BY <3>1, LineClaimed
    <3>3. q.block = block /\ UnitsOf(q) = u
      BY <1>1, <1>2, <1>3, <3>2 DEF LineClaim, UnitsOf
    <3> QED
      BY <1>0, <3>3 DEF Kept
  <2>4. first + len <= Length[d] + 1 /\ pos + n <= len /\ first + pos = Sent(c, d) + 1
    BY <1>1, <1>2
  <2> QED
    BY <1>3, <1>4, <1>9, <2>1, <2>2, <2>3, <2>4, SentContents
<1>11. Types'
  BY <1>0, <1>5, <1>6, <1>7, <1>10 DEF Types
<1>12. Flags'
  BY <1>0, <1>1, SendFlags
<1>13. Counts(c)'
  <2>1. Sent(c, d)' = m /\ m <= got[c][d]
    <3>1. Sent(c, d)' = m
      BY <1>0, <1>2, <1>4, PlacesAdded
    <3> QED
      BY <1>1, <1>2, <3>1
  <2>2. ASSUME NEW e \in Dirs
        PROVE  /\ got'[c][e] <= arrived'[c][e] /\ arrived'[c][e] <= Length[e]
               /\ Sent(c, e)' <= got'[c][e]
               /\ size'[c][e] \in 0 .. MaxSize + ReadSize - 1
    <3>1. /\ got[c][e] <= arrived[c][e] /\ arrived[c][e] <= Length[e]
          /\ Sent(c, e) <= got[c][e] /\ size[c][e] \in 0 .. MaxSize + ReadSize - 1
      BY <1>0 DEF Counts
    <3>2. CASE e = d
      <4>1. size[c][d] \in Nat /\ size[c][d] <= MaxSize + ReadSize - 1
        BY Known
      <4>2. units \in 0 .. MaxSize + ReadSize - 1
        BY <1>1, <4>1, Sizes, SMTT(30)
      <4> QED
        BY <1>7, <2>1, <3>1, <3>2, <4>2
    <3>3. CASE e # d
      BY <1>7, <1>8, <3>1, <3>3 DEF Sent
    <3> QED
      BY <3>2, <3>3
  <2>3. ASSUME NEW e \in Dirs PROVE Gap(c, e)'
    <3>1. got'[c][e] - NotAdded(c, e)' = got[c][e] - NotAdded(c, e)
      BY DEF NotAdded
    <3>2. CASE e = d
      <4>1. GapOK(got[c][d] - NotAdded(c, d), lines'[c][d], size'[c][d], Sent(c, d)')
        BY <1>1, <1>2, <1>6, <1>7, <2>1
      <4> QED
        BY <3>1, <3>2, <4>1 DEF Gap, GapOK, Sent
    <3>3. CASE e # d
      <4>1. GapOK(got[c][e] - NotAdded(c, e), lines[c][e], size[c][e], Sent(c, e))
        BY ListAt
      <4> QED
        BY <1>6, <1>7, <1>8, <3>1, <3>3, <4>1 DEF Gap, GapOK, Sent
    <3> QED
      BY <3>2, <3>3
  <2>4. Before(c)'
    BY <1>5 DEF Before, BeforeRelay, Relaying
  <2>5. label = "flushUp" /\ ~gone[c]["down"] => lines'[c]["down"] = <<>>
    BY <1>6, Sizes
  <2>6. InRelay(c)'
    BY <1>5, <2>3, <2>5, Sizes DEF InRelay, Relaying, NotHeld, Hold
  <2> QED
    BY <2>2, <2>4, <2>6 DEF Counts
<1> QED
  BY <1>9, <1>10, <1>11, <1>12, <1>13, ThreadKeeps

\* After each read a line is written, unless the window is full or the peer gone.
LEMMA WriteKeeps ==
    ASSUME RelayInv, NEW c \in Conns, NEW d \in Dirs, NEW from, NEW to, Write(c, d, from, to),
           from \in {"writeDown", "writeUp"}, to \in {"readUp", "poll"}
    PROVE  RelayInv'
<1>1. /\ pc[c] \in {"writeDown", "writeUp"} /\ pc[c] \in Relaying
      /\ UNCHANGED <<arrived, over, gone, got, held, left, ready, mem, spoiled>>
  BY DEF Write, sourceVars, Relaying
<1>2. held[c] = NotHeld /\ held[c].block = NoBlock
  <2>1. InRelay(c)
    BY Known
  <2> QED
    BY <1>1, <2>1, NotHeldFits DEF InRelay
<1>3. CASE WriteBuffer(c, d) /\ Goto(c, to)
  <2>1. pc' = [pc EXCEPT ![c] = to] /\ to \in Relaying \ {"addDown", "addUp"} /\ to # "flushUp"
    BY <1>3 DEF Goto, Relaying
  <2> QED
    BY <1>1, <1>2, <1>3, <2>1, BufferKeeps
<1>4. ASSUME NEW label \in {"readUp", "poll", "flushDown"}, Goto(c, label),
             UNCHANGED <<full, lines, size, tasks, out>>
      PROVE  RelayInv'
  <2>1. /\ pc' = [pc EXCEPT ![c] = label] /\ label \in Relaying \ {"addDown", "addUp"}
        /\ label # "flushUp"
    BY <1>4 DEF Goto, Relaying
  <2> QED
    BY <1>1, <1>2, <1>4, <2>1, MovesOn
<1> QED
  BY <1>3, <1>4 DEF Write

\* A list is written out, or cannot be.
LEMMA FlushKeeps ==
    ASSUME RelayInv, NEW c \in Conns, NEW d \in Dirs, NEW from, NEW to, Flush(c, d, from, to),
           \/ d = "down" /\ from = "flushDown" /\ to = "flushUp"
           \/ d = "up" /\ from = "flushUp" /\ to = "destroy"
    PROVE  RelayInv'
<1>0. Types /\ InRelay(c)
  BY Known
<1>1. /\ pc[c] = from /\ pc[c] \in {"flushDown", "flushUp"} /\ pc[c] \in Relaying
      /\ UNCHANGED <<arrived, over, gone, got, held, left, ready, mem, spoiled>>
  BY DEF Flush, sourceVars, Relaying
<1>2. held[c].block = NoBlock
  BY <1>0, <1>1 DEF InRelay
<1>3. CASE More(c, d)
  <2>1. WriteBuffer(c, d) /\ pc' = pc
    BY <1>3 DEF Flush
  <2>2. PICK label : label = pc[c]
    OBVIOUS
  <2>3. pc' = [pc EXCEPT ![c] = label]
    BY <1>0, <2>1, <2>2 DEF Types
  <2>4. label \in Relaying \ {"addDown", "addUp"} /\ label \in {"flushDown", "flushUp"}
    BY <1>1, <2>2
  <2>5. label = "flushUp" => d = "up" /\ (~gone[c]["down"] => lines[c]["down"] = <<>>)
    BY <1>0, <1>1, <2>2 DEF InRelay
  <2> QED
    BY <1>1, <1>2, <2>1, <2>3, <2>4, <2>5, BufferKeeps
<1>4. CASE ~More(c, d)
  <2>1. pc' = [pc EXCEPT ![c] = to] /\ UNCHANGED <<full, lines, size, tasks, out>>
    BY <1>4 DEF Flush, Goto
  <2>2. to \in (Relaying \ {"addDown", "addUp"}) \cup {"destroy"} /\ to \in {"flushUp", "destroy"}
    BY DEF Relaying
  <2>3. to = "flushUp" /\ ~gone[c]["down"] => lines[c]["down"] = <<>>
    <3> SUFFICES ASSUME to = "flushUp", ~gone[c]["down"] PROVE lines[c]["down"] = <<>>
      OBVIOUS
    <3>1. d = "down" /\ ~(size[c][d] > 0)
      BY <1>4 DEF More
    <3>2. size[c][d] = 0
      <4>1. size[c][d] \in Nat
        BY Known
      <4> QED
        BY <3>1, <4>1
    <3> QED
      BY <1>1, <3>1, <3>2, ListAt
  <2> QED
    BY <1>1, <1>2, <2>1, <2>2, <2>3, MovesOn
<1> QED
  BY <1>3, <1>4

-----------------------------------------------------------------------------
(* The invariant                                                           *)

LEMMA InitRelay == Init => RelayInv
<1> SUFFICES ASSUME Init PROVE RelayInv
  OBVIOUS
<1> USE DEF Init
<1>1. Types
  <2>1. NotHeld \in HeldType
    BY NotHeldFits
  <2>2. /\ pc \in [Conns -> Labels] /\ arrived \in [Conns -> [Dirs -> Nat]]
        /\ got \in [Conns -> [Dirs -> Nat]] /\ size \in [Conns -> [Dirs -> Int]]
    BY DEF Labels
  <2>3. held \in [Conns -> HeldType] /\ lines \in [Conns -> [Dirs -> Seq(LineType)]]
    BY <2>1
  <2>4. left \in [Conns -> Int]
    BY RelayAssumption DEF RelayAssumption
  <2>5. out \in [Conns -> [Dirs -> Seq(Units \cup {Pending, Junk})]]
    OBVIOUS
  <2>6. mem \in [Blocks -> Seq(Units \cup {Junk})] /\ tasks \in Seq(TaskType)
    OBVIOUS
  <2> QED
    BY <2>2, <2>3, <2>4, <2>5, <2>6 DEF Types
<1>2. Flags
  BY Zenon DEF Flags
<1>3. Contents
  <2>1. Claims = {}
    <3>1. \A c \in Conns : held[c].block \notin Blocks
      BY NotHeldFits
    <3>2. \A c \in Conns, d \in Dirs : 1 .. Len(lines[c][d]) = {}
      OBVIOUS
    <3> QED
      BY <3>1, <3>2 DEF Claims
  <2>2. Distinct /\ Kept
    BY <2>1 DEF Distinct, Kept
  <2>3. HeadsKept
    BY DEF HeadsKept, HeadPlaces
  <2>4. Sources /\ SendsFit
    BY DEF Sources, SendsFit
  <2>5. RelayedInOrder
    BY DEF RelayedInOrder
  <2> QED
    BY <2>2, <2>3, <2>4, <2>5 DEF Contents
<1>4. ASSUME NEW c \in Conns PROVE Counts(c)
  <2>1. \A d \in Dirs :
          /\ got[c][d] <= arrived[c][d] /\ arrived[c][d] <= Length[d]
          /\ Sent(c, d) <= got[c][d]
          /\ size[c][d] \in 0 .. MaxSize + ReadSize - 1
    BY Sizes DEF Sent
  <2>2. Before(c)
    BY Sizes DEF Before, BeforeRelay, Sent
  <2>3. InRelay(c)
    BY DEF InRelay, Relaying
  <2> QED
    BY <2>1, <2>2, <2>3 DEF Counts
<1> QED
  BY <1>1, <1>2, <1>3, <1>4 DEF RelayInv

\* Each step of a connection's thread.
LEMMA ThreadStep ==
    ASSUME RelayInv, NEW c \in Conns, Thread(c) \/ Timeout(c) \/ Interrupt(c)
    PROVE  RelayInv'
<1>1. CASE Timeout(c) \/ Interrupt(c) \/ Fail(c)
  BY <1>1, GiveUpKeeps DEF Timeout, Interrupt, Fail
<1>2. CASE \/ HeadIn(c, "up", "request", "requestHeld")
           \/ HeadIn(c, "down", "response", "responseHeld")
  BY <1>2, HeadInKeeps, Sizes
<1>3. CASE \/ HeadOut(c, "up", "requestHeld", IF BodyLength > 0 THEN "body" ELSE "response")
           \/ HeadOut(c, "down", "responseHeld", "poll")
  BY <1>3, HeadOutKeeps, Sizes
<1>4. CASE BodyIn(c) \/ BodyOut(c)
  BY <1>4, BodyInKeeps, BodyOutKeeps
<1>5. CASE Poll(c) \/ Destroy(c)
  BY <1>5, PollKeeps, DestroyKeeps
<1>6. CASE Read(c, "down", "readDown", "addDown") \/ Read(c, "up", "readUp", "addUp")
  BY <1>6, ReadKeeps, Sizes
<1>7. CASE Add(c, "down", "addDown", "writeDown") \/ Add(c, "up", "addUp", "writeUp")
  BY <1>7, AddKeeps, Sizes
<1>8. CASE Write(c, "down", "writeDown", NextReader(c)) \/ Write(c, "up", "writeUp", "poll")
  <2>1. NextReader(c) \in {"readUp", "poll"}
    BY DEF NextReader
  <2> QED
    BY <1>8, <2>1, WriteKeeps, Sizes
<1>9. CASE Flush(c, "down", "flushDown", "flushUp") \/ Flush(c, "up", "flushUp", "destroy")
  BY <1>9, FlushKeeps, Sizes
<1> QED
  BY <1>1, <1>2, <1>3, <1>4, <1>5, <1>6, <1>7, <1>8, <1>9 DEF Thread

\* A freed piece is overwritten.
LEMMA WriteFreedKeeps == ASSUME RelayInv, NEW b \in Blocks, WriteFreed(b) PROVE RelayInv'
<1>0. Types /\ Flags /\ Contents
  BY DEF RelayInv
<1>1. /\ b \in Free /\ UNCHANGED <<tasks, out, pc, held, lines>>
      /\ UNCHANGED <<arrived, over, full, gone, got, size, left, ready>>
      /\ spoiled' = spoiled \cup ReadLater(b)
  BY DEF WriteFreed, peerVars, sourceVars, threadVars
<1>2. PICK m \in Seq(Units \cup {Junk}) : mem' = [mem EXCEPT ![b] = m]
  <2>1. mem[b] \in Seq(Units \cup {Junk})
    BY <1>0 DEF Types
  <2>2. PICK n \in Nat : n = Len(mem[b])
    BY <2>1
  <2>3. [i \in 1 .. n |-> Junk] \in [1 .. n -> Units \cup {Junk}]
    OBVIOUS
  <2>4. [i \in 1 .. n |-> Junk] \in Seq(Units \cup {Junk})
    BY <2>3
  <2>5. mem' = [mem EXCEPT ![b] = [i \in 1 .. n |-> Junk]]
    BY <2>2 DEF WriteFreed
  <2> QED
    BY <2>4, <2>5
<1>3. spoiled \subseteq spoiled' /\ ReadLater(b) \subseteq spoiled' /\ spoiled' \subseteq Units
  BY <1>0, <1>1, LaterUnits DEF Types
<1>4. Types'
  <2>1. mem' \in [Blocks -> Seq(Units \cup {Junk})]
    BY <1>0, <1>2 DEF Types
  <2> QED
    BY <1>0, <1>1, <1>3, <2>1 DEF Types
<1>5. Flags'
  BY <1>0, <1>1, Zenon DEF Flags
<1>6. Contents'
  <2>1. Claims' = Claims
    BY <1>1 DEF Claims, HeldClaim, LineClaim
  <2>2. Distinct'
    BY <1>0, <2>1 DEF Contents, Distinct
  <2>3. /\ Sources' /\ SendsFit' /\ RelayedInOrder'
        /\ \A q \in Claims : Holds(q.block, Len(tasks) + 1, UnitsOf(q))'
    BY <1>0, <1>1, <1>2, <1>3, WrittenDirectly
  <2>4. Kept'
    BY <2>1, <2>3 DEF Kept
  <2>5. HeadsKept'
    <3> SUFFICES ASSUME NEW x \in Conns, pc[x] \in HeadPlaces PROVE HeadKept(x)'
      BY <1>1 DEF HeadsKept
    <3>1. HeadKept(x)
      BY <1>0 DEF Contents, HeadsKept
    <3>2. mem'[held[x].block] = mem[held[x].block]
      <4>1. held[x].block # b
        BY <1>1, FreeBlock
      <4> QED
        BY <1>0, <1>2, <4>1 DEF Types
    <3>3. \A i \in 1 .. Len(tasks') : \E j \in 1 .. Len(tasks) : tasks'[i] = tasks[j]
      BY <1>1
    <3> QED
      BY <1>1, <1>3, <3>1, <3>2, <3>3, HeadStays
  <2> QED
    BY <2>2, <2>3, <2>4, <2>5 DEF Contents
<1>7. ASSUME NEW c \in Conns PROVE Counts(c)'
  <2>1. Counts(c)
    BY DEF RelayInv
  <2>2. \A d \in Dirs : Sent(c, d)' = Sent(c, d)
    BY <1>1 DEF Sent
  <2>3. \A d \in Dirs : got[c][d] <= arrived'[c][d] /\ arrived'[c][d] <= Length[d]
    BY <1>1, <2>1 DEF Counts
  <2> QED
    BY <1>1, <2>1, <2>2, <2>3, CountsSame
<1> QED
  BY <1>4, <1>5, <1>6, <1>7 DEF RelayInv

\* A step in which nothing happens.
LEMMA Stutter == ASSUME RelayInv, UNCHANGED vars PROVE RelayInv'
<1>0. Types /\ Flags /\ Contents
  BY DEF RelayInv
<1>1. UNCHANGED <<pc, arrived, over, full, gone, got, held, lines, size, left, ready, out, mem,
                  tasks, spoiled>>
  BY DEF vars, peerVars, sourceVars, threadVars
<1>2. Types'
  BY <1>0, <1>1 DEF Types
<1>3. Flags'
  BY <1>0, <1>1, Zenon DEF Flags
<1>4. ASSUME NEW c \in Conns PROVE Counts(c)'
  <2>1. Counts(c)
    BY DEF RelayInv
  <2>2. \A d \in Dirs : Sent(c, d)' = Sent(c, d)
    BY <1>1 DEF Sent
  <2>3. \A d \in Dirs : got[c][d] <= arrived'[c][d] /\ arrived'[c][d] <= Length[d]
    BY <1>1, <2>1 DEF Counts
  <2> QED
    BY <1>1, <2>1, <2>2, <2>3, CountsSame
<1> QED
  BY <1>0, <1>1, <1>2, <1>3, <1>4, ContentsIdle DEF RelayInv

LEMMA NextRelay == RelayInv /\ [Next]_vars => RelayInv'
<1> SUFFICES ASSUME RelayInv, [Next]_vars PROVE RelayInv'
  OBVIOUS
<1>1. ASSUME NEW c \in Conns, NEW d \in Dirs, Peer(c, d) PROVE RelayInv'
  BY <1>1, PeerKeeps
<1>2. ASSUME NEW c \in Conns, Thread(c) \/ Timeout(c) \/ Interrupt(c) PROVE RelayInv'
  BY <1>2, ThreadStep
<1>3. CASE CopierStep
  BY <1>3, CopierKeeps
<1>4. CASE UNCHANGED vars
  BY <1>4, Stutter
<1>5. ASSUME NEW b \in Blocks, WriteFreed(b) PROVE RelayInv'
  BY <1>5, WriteFreedKeeps
<1> QED
  BY <1>1, <1>2, <1>3, <1>4, <1>5 DEF Next

LEMMA Invariance == Spec => []RelayInv
<1>1. Init => RelayInv
  BY InitRelay
<1>2. RelayInv /\ [Next]_vars => RelayInv'
  BY NextRelay
<1> QED
  BY <1>1, <1>2, PTL DEF Spec

-----------------------------------------------------------------------------
(* What follows                                                            *)

LEMMA RelayTypes == RelayInv => TypeOK
<1> SUFFICES ASSUME RelayInv PROVE TypeOK
  OBVIOUS
<1>0. Types /\ Flags
  BY DEF RelayInv
<1>1. pc \in [Conns -> Labels]
  BY <1>0 DEF Types
<1>2. ASSUME NEW c \in Conns, NEW d \in Dirs
      PROVE  /\ arrived[c][d] \in 0 .. Length[d]
             /\ got[c][d] \in 0 .. arrived[c][d]
             /\ size[c][d] \in 0 .. MaxSize + ReadSize - 1
             /\ Len(out[c][d]) <= got[c][d]
  <2>1. /\ arrived[c][d] \in Nat /\ got[c][d] \in Nat /\ Length[d] \in Nat
        /\ got[c][d] <= arrived[c][d] /\ arrived[c][d] <= Length[d] /\ Sent(c, d) <= got[c][d]
    BY Known
  <2>2. size[c][d] \in 0 .. MaxSize + ReadSize - 1
    BY Known DEF Counts
  <2> QED
    BY <2>1, <2>2 DEF Sent
<1>3. ASSUME NEW c \in Conns, NEW d \in Dirs
      PROVE  <<over[c][d], full[c][d], gone[c][d], ready[c]>>
                \in BOOLEAN \X BOOLEAN \X BOOLEAN \X BOOLEAN
  <2>1. over[c][d] \in BOOLEAN /\ full[c][d] \in BOOLEAN /\ gone[c][d] \in BOOLEAN
    BY <1>0, Zenon DEF Flags
  <2>2. ready[c] \in BOOLEAN
    BY <1>0, Zenon DEF Flags
  <2> QED
    BY <2>1, <2>2
<1>4. ASSUME NEW c \in Conns, NEW d \in Dirs, NEW i \in 1 .. Len(out[c][d])
      PROVE  out[c][d][i] \in Units \cup {Pending, Junk}
  <2>1. PICK S : S = Units \cup {Pending, Junk}
    OBVIOUS
  <2>2. out \in [Conns -> [Dirs -> Seq(S)]]
    BY <1>0, <2>1 DEF Types
  <2>3. out[c][d] \in Seq(S)
    BY <2>2
  <2> QED
    BY <2>1, <2>3
<1>5. ASSUME NEW c \in Conns, NEW d \in Dirs, NEW i \in 1 .. Len(lines[c][d])
      PROVE  lines[c][d][i].block \in Blocks
  <2>1. lines[c][d][i] \in LineType
    BY <1>0 DEF Types
  <2> QED
    BY <2>1 DEF LineType
<1>6. ASSUME NEW c \in Conns PROVE left[c] \in Int /\ held[c].block \in Blocks \cup {NoBlock}
  <2>1. left[c] \in Int /\ held[c] \in HeldType
    BY <1>0 DEF Types
  <2> QED
    BY <2>1 DEF HeldType
<1>7. ASSUME NEW b \in Blocks, NEW i \in 1 .. Len(mem[b]) PROVE mem[b][i] \in Units \cup {Junk}
  <2>1. PICK S : S = Units \cup {Junk}
    OBVIOUS
  <2>2. mem \in [Blocks -> Seq(S)]
    BY <1>0, <2>1 DEF Types
  <2>3. mem[b] \in Seq(S)
    BY <2>2
  <2> QED
    BY <2>1, <2>3
<1>8. \A c \in Conns, d \in Dirs :
          /\ arrived[c][d] \in 0 .. Length[d]
          /\ got[c][d] \in 0 .. arrived[c][d]
          /\ <<over[c][d], full[c][d], gone[c][d], ready[c]>>
                 \in BOOLEAN \X BOOLEAN \X BOOLEAN \X BOOLEAN
          /\ size[c][d] \in 0 .. MaxSize + ReadSize - 1
          /\ Len(out[c][d]) <= got[c][d]
          /\ \A i \in 1 .. Len(out[c][d]) : out[c][d][i] \in Units \cup {Pending, Junk}
          /\ \A i \in 1 .. Len(lines[c][d]) : lines[c][d][i].block \in Blocks
  BY <1>2, <1>3, <1>4, <1>5, Zenon
<1>9. spoiled \subseteq Units
  BY <1>0 DEF Types
<1> QED
  BY <1>1, <1>6, <1>7, <1>8, <1>9, Zenon DEF TypeOK

\* The values of tinyproxy's variables: among them, that a list never takes more than MAXBUFFSIZE
\* less one and one buffer (read_buffer_lazy reads only below the limit), and that no more is sent
\* than was received.
THEOREM TypeCorrect == Spec => []TypeOK
  BY Invariance, RelayTypes, PTL

\* Whatever reaches a peer is what the other one sent as this part of its stream, for any number of
\* connections, of pieces of heap and of tasks that wait, although write_buffer_lazy and
\* add_to_bufferCopier free a line or buffer while the service has still to read it.  A unit is
\* wrong only if the processor wrote into its piece of heap, by malloc's own lists or by a line or
\* header that was given this piece, before the task that reads the unit was done.
THEOREM InOrder == Spec => []RelayedInOrder
<1>1. RelayInv => RelayedInOrder
  BY DEF RelayInv, Contents
<1> QED
  BY <1>1, Invariance, PTL

LEMMA RelayLists == RelayInv => ListIsTheGap
<1> SUFFICES ASSUME RelayInv, NEW c \in Conns, NEW d \in Dirs, pc[c] \in Relaying
             PROVE  LET list == lines[c][d]
                        added == got[c][d] - NotAdded(c, d)
                    IN IF list = <<>>
                       THEN size[c][d] = 0 /\ Len(out[c][d]) = added
                       ELSE /\ size[c][d] = added + 1 - list[1].first
                            /\ list[1].first + list[1].pos = Len(out[c][d]) + 1
                            /\ list[1].pos < list[1].length
                            /\ \A i \in 2 .. Len(list) :
                                  /\ list[i].pos = 0
                                  /\ list[i].first = list[i - 1].first + list[i - 1].length
  BY DEF ListIsTheGap
<1>1. PICK added \in Int, list \in Seq(LineType), total \in Int, sent \in Int :
          /\ added = got[c][d] - NotAdded(c, d) /\ list = lines[c][d] /\ total = size[c][d]
          /\ sent = Len(out[c][d])
  <2>1. got[c][d] - NotAdded(c, d) \in Int
    BY ListAt
  <2>2. lines[c][d] \in Seq(LineType) /\ size[c][d] \in Int /\ Sent(c, d) \in Int
    BY Known
  <2> QED
    BY <2>1, <2>2 DEF Sent
<1>2. GapOK(added, list, total, sent)
  <2>1. GapOK(got[c][d] - NotAdded(c, d), lines[c][d], size[c][d], Len(out[c][d]))
    BY ListAt DEF Sent
  <2> QED
    BY <1>1, <2>1
<1>3. CASE list = <<>>
  BY <1>1, <1>2, <1>3 DEF GapOK
<1>4. CASE list # <<>>
  <2>1. list[1] \in LineType
    BY <1>4
  <2>2. PICK first \in Int : first = list[1].first
    BY <2>1, LineParts
  <2>3. /\ total + first = added + 1
        /\ list[1].first + list[1].pos = sent + 1
        /\ list[1].pos < list[1].length
        /\ \A i \in 2 .. Len(list) :
              /\ list[i].pos = 0
              /\ list[i].first = list[i - 1].first + list[i - 1].length
    BY <1>2, <1>4, <2>2 DEF GapOK
  <2>4. total = added + 1 - first
    BY <2>3
  <2> QED
    BY <1>1, <1>4, <2>2, <2>3, <2>4
<1> QED
  BY <1>3, <1>4

\* While relay_connection runs, the list of each stream is the part of it between what was added
\* (add_to_bufferCopier) and what was sent (write_buffer_lazy), in order and without a gap, and
\* buffer_size counts its whole lines.
THEOREM ListsAreGaps == Spec => []ListIsTheGap
  BY Invariance, RelayLists, PTL

\* When relay_connection has written out the client's list and turns to the server's, all that was
\* added of the response has been sent.
THEOREM Flushed == Spec => []FlushedAtShutdown
<1>1. RelayInv => FlushedAtShutdown
  <2> SUFFICES ASSUME RelayInv, NEW c \in Conns, pc[c] = "flushUp", ~gone[c]["down"]
               PROVE  Len(out[c]["down"]) = got[c]["down"] - NotAdded(c, "down")
    BY DEF FlushedAtShutdown
  <2>1. lines[c]["down"] = <<>> /\ Gap(c, "down")
    BY Known DEF InRelay, Relaying
  <2> QED
    BY <2>1 DEF Gap, GapOK
<1> QED
  BY <1>1, Invariance, PTL
=============================================================================
