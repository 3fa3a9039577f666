-------------------------- MODULE CopierRingProofs --------------------------
(***************************************************************************)
(* Proofs about CopierRing for every number of producers, every set of     *)
(* tasks and every length of the ring.  The inductive invariant RingInv    *)
(* ties the shared memory to the histories: the k-th published task lies   *)
(* in entry (k - 1) % QueueLen until it is complete.                       *)
(***************************************************************************)
EXTENDS CopierRing, SequenceTheorems, TLAPS

-----------------------------------------------------------------------------
(* Arithmetic of ring positions.                                           *)

\* Quotient and remainder.
LEMMA DivisionIdentity ==
    ASSUME NEW N \in Nat \ {0}, NEW a \in Nat
    PROVE  /\ a \div N \in Nat
           /\ a % N \in 0 .. N - 1
           /\ a = N * (a \div N) + (a % N)
  BY SMT

\* Multiples of N are at least N apart.
LEMMA MultiplesApart ==
    ASSUME NEW N \in Nat \ {0}, NEW p \in Nat, NEW q \in Nat, p < q
    PROVE  N * p + N <= N * q
<1>1. N * q = N * p + N * (q - p)
  OBVIOUS
<1>2. N * (q - p) >= N
  <2>1. q - p >= 1
    OBVIOUS
  <2>2. N * (q - p) = N + N * (q - p - 1)
    OBVIOUS
  <2>3. QED
    BY <2>1, <2>2
<1>3. QED
  BY <1>1, <1>2

\* The remainder is the only number below N at a multiple of N from a.
LEMMA RemainderUnique ==
    ASSUME NEW N \in Nat \ {0}, NEW a \in Nat, NEW q \in Nat, NEW r \in 0 .. N - 1,
           a = N * q + r
    PROVE  a % N = r
<1> DEFINE p == a \div N
           s == a % N
<1>1. p \in Nat /\ s \in 0 .. N - 1 /\ a = N * p + s
  BY DivisionIdentity
<1>2. CASE p < q
  BY <1>1, <1>2, MultiplesApart
<1>3. CASE q < p
  BY <1>1, <1>3, MultiplesApart
<1>4. CASE p = q
  BY <1>1, <1>4
<1>5. QED
  BY <1>1, <1>2, <1>3, <1>4

\* Adding before or after taking the remainder is the same: the store of
\* (write_index + 1) % N follows the count of published tasks.
LEMMA RemainderOfSum ==
    ASSUME NEW N \in Nat \ {0}, NEW a \in Nat, NEW b \in Nat
    PROVE  ((a % N) + b) % N = (a + b) % N
<1> DEFINE p == a \div N
           s == a % N
           q == (s + b) \div N
           r == (s + b) % N
<1>1. p \in Nat /\ s \in 0 .. N - 1 /\ a = N * p + s
  BY DivisionIdentity
<1>2. q \in Nat /\ r \in 0 .. N - 1 /\ s + b = N * q + r
  <2>1. s + b \in Nat
    BY <1>1
  <2>2. QED
    BY <2>1, DivisionIdentity
<1>3. a + b = N * (p + q) + r
  <2>1. N * (p + q) = N * p + N * q
    BY <1>1, <1>2
  <2>2. QED
    BY <1>1, <1>2, <2>1
<1>4. p + q \in Nat /\ a + b \in Nat
  BY <1>1, <1>2
<1>5. (a + b) % N = r
  BY <1>2, <1>3, <1>4, RemainderUnique
<1>6. QED
  BY <1>5

\* Two positions less than N apart lie in different entries.
LEMMA PositionsDistinct ==
    ASSUME NEW N \in Nat \ {0}, NEW a \in Nat, NEW b \in Nat, a < b, b < a + N
    PROVE  a % N # b % N
<1> DEFINE p == a \div N
           q == b \div N
<1>1. p \in Nat /\ a % N \in 0 .. N - 1 /\ a = N * p + (a % N)
  BY DivisionIdentity
<1>2. q \in Nat /\ b % N \in 0 .. N - 1 /\ b = N * q + (b % N)
  BY DivisionIdentity
<1>3. ASSUME a % N = b % N
      PROVE  FALSE
  <2>1. CASE p < q
    BY <1>1, <1>2, <1>3, <2>1, MultiplesApart
  <2>2. CASE q < p
    BY <1>1, <1>2, <1>3, <2>2, MultiplesApart
  <2>3. CASE p = q
    BY <1>1, <1>2, <1>3, <2>3
  <2>4. QED
    BY <1>1, <1>2, <2>1, <2>2, <2>3
<1>4. QED
  BY <1>3

\* The distance between two indices is the number of positions between them.
LEMMA RingDistance ==
    ASSUME NEW N \in Nat \ {0}, NEW a \in Nat, NEW d \in 0 .. N - 1
    PROVE  (((a + d) % N) - (a % N)) % N = d
<1> DEFINE p == a \div N
           s == a % N
           q == (a + d) \div N
           t == (a + d) % N
<1>1. p \in Nat /\ s \in 0 .. N - 1 /\ a = N * p + s
  BY DivisionIdentity
<1>2. q \in Nat /\ t \in 0 .. N - 1 /\ a + d = N * q + t
  <2>1. a + d \in Nat
    OBVIOUS
  <2>2. QED
    BY <2>1, DivisionIdentity
<1>3. q = p \/ q = p + 1
  <2>1. CASE q < p
    BY <1>1, <1>2, <2>1, MultiplesApart
  <2>2. CASE p + 1 < q
    <3>1. N * (p + 1) + N <= N * q
      BY <1>1, <1>2, <2>2, MultiplesApart
    <3>2. N * (p + 1) = N * p + N
      BY <1>1
    <3>3. QED
      BY <1>1, <1>2, <3>1, <3>2
  <2>3. QED
    BY <1>1, <1>2, <2>1, <2>2
<1>4. CASE q = p
  <2>1. t - s = d
    BY <1>1, <1>2, <1>4
  <2>2. d % N = d
    <3>1. d = N * 0 + d /\ d \in Nat
      OBVIOUS
    <3>2. QED
      BY <3>1, RemainderUnique
  <2>3. QED
    BY <2>1, <2>2
<1>5. CASE q = p + 1
  <2>1. t - s = d - N
    <3>1. N * q = N * p + N
      BY <1>1, <1>5
    <3>2. QED
      BY <1>1, <1>2, <3>1
  <2>2. (d - N) % N = d
    BY SMT
  <2>3. QED
    BY <2>1, <2>2
<1>6. QED
  BY <1>3, <1>4, <1>5

-----------------------------------------------------------------------------
(* The inductive invariant.                                                *)

\* The indices count the histories, and the ring is never full.
IndicesFollow ==
    /\ Len(executed) <= Len(posted)
    /\ Backlog <= MaxBacklog
    /\ writeIndex = Len(posted) % QueueLen
    /\ readIndex = Len(executed) % QueueLen

\* An incomplete task lies in the entry of its position.
EntriesFollow ==
    \A k \in Len(executed) + 1 .. Len(posted) :
        entries[(k - 1) % QueueLen] = posted[k]

\* The completed tasks are the oldest published ones, the next is under way.
ServiceFollows ==
    /\ \A k \in 1 .. Len(executed) : executed[k] = posted[k]
    /\ current # NoTask =>
        /\ Len(executed) < Len(posted)
        /\ current = posted[Len(executed) + 1]

\* Only the owner of the mutex is between Lock and Unlock; what it remembers
\* of write_index is true, and there is room for its task.
CallsFollow ==
    \A p \in Producers :
        /\ pc[p] # "idle" => task[p] \in Tasks
        /\ pc[p] \in {"locked", "claimed", "filled", "published"} => mutex = p
        /\ pc[p] \in {"claimed", "filled"} =>
            /\ local[p] = writeIndex
            /\ Backlog < MaxBacklog
        /\ pc[p] = "filled" => entries[local[p]] = task[p]

RingInv == TypeOK /\ IndicesFollow /\ EntriesFollow /\ ServiceFollows /\ CallsFollow

\* The ring starts empty and satisfies the invariant.
LEMMA RingInvInit == Init => RingInv
<1> SUFFICES ASSUME Init PROVE RingInv
  OBVIOUS
<1> USE RingAssumption DEF RingAssumption, Init, Slots
<1>1. Len(posted) = 0 /\ Len(executed) = 0 /\ 0 % QueueLen = 0
  BY RemainderUnique
<1>2. TypeOK
  BY DEF TypeOK
<1>3. IndicesFollow
  BY <1>1 DEF IndicesFollow, Backlog
<1>4. EntriesFollow /\ ServiceFollows /\ CallsFollow
  BY <1>1 DEF EntriesFollow, ServiceFollows, CallsFollow
<1>5. QED
  BY <1>2, <1>3, <1>4 DEF RingInv

\* Every step of a producer and of the service keeps the invariant.
LEMMA RingInvStep == RingInv /\ [Next]_vars => RingInv'
<1> SUFFICES ASSUME RingInv, [Next]_vars PROVE RingInv'
  OBVIOUS
<1> USE RingAssumption DEF RingAssumption
<1> USE DEF RingInv
<1>0. /\ Len(posted) \in Nat /\ Len(executed) \in Nat
      /\ Backlog \in 0 .. QueueLen - 1
  BY DEF TypeOK, IndicesFollow, Backlog
<1>1. ASSUME NEW p \in Producers, NEW t \in Tasks, Call(p, t)
      PROVE  RingInv'
  <2>1. UNCHANGED <<entries, writeIndex, readIndex, mutex, local, current, posted, executed>>
    BY <1>1 DEF Call
  <2>2. TypeOK'
    BY <1>1 DEF Call, Step, TypeOK, Slots
  <2>3. CallsFollow'
    BY <1>1, <2>1 DEF Call, Step, TypeOK, CallsFollow, Backlog
  <2>4. IndicesFollow' /\ EntriesFollow' /\ ServiceFollows'
    BY <2>1 DEF IndicesFollow, EntriesFollow, ServiceFollows, Backlog
  <2>5. QED
    BY <2>2, <2>3, <2>4
<1>2. ASSUME NEW p \in Producers, Lock(p)
      PROVE  RingInv'
  <2>1. UNCHANGED <<entries, writeIndex, readIndex, local, task, current, posted, executed>>
    BY <1>2 DEF Lock
  <2>2. TypeOK'
    BY <1>2 DEF Lock, Step, TypeOK, Slots
  <2>3. CallsFollow'
    BY <1>2, <2>1 DEF Lock, Step, TypeOK, CallsFollow, Backlog
  <2>4. IndicesFollow' /\ EntriesFollow' /\ ServiceFollows'
    BY <2>1 DEF IndicesFollow, EntriesFollow, ServiceFollows, Backlog
  <2>5. QED
    BY <2>2, <2>3, <2>4
<1>3. ASSUME NEW p \in Producers, ReadIndex(p)
      PROVE  RingInv'
  <2>1. UNCHANGED <<entries, writeIndex, readIndex, mutex, task, current, posted, executed>>
    BY <1>3 DEF ReadIndex
  <2>2. TypeOK'
    BY <1>3 DEF ReadIndex, Step, TypeOK, Slots
  <2>3. CallsFollow'
    BY <1>3, <2>1 DEF ReadIndex, RoomLeft, Step, TypeOK, CallsFollow, Backlog
  <2>4. IndicesFollow' /\ EntriesFollow' /\ ServiceFollows'
    BY <2>1 DEF IndicesFollow, EntriesFollow, ServiceFollows, Backlog
  <2>5. QED
    BY <2>2, <2>3, <2>4
<1>4. ASSUME NEW p \in Producers, Fill(p)
      PROVE  RingInv'
  <2>1. UNCHANGED <<writeIndex, readIndex, mutex, local, task, current, posted, executed>>
    BY <1>4 DEF Fill, ClaimedEntry
  <2>2. local[p] = writeIndex /\ Backlog < MaxBacklog /\ task[p] \in Tasks
    BY <1>4 DEF Fill, ClaimedEntry, Step, CallsFollow
  <2>3. TypeOK'
    BY <1>4, <2>2 DEF Fill, ClaimedEntry, Step, TypeOK, Slots
  <2>4. CallsFollow'
    BY <1>4, <2>1, <2>2 DEF Fill, ClaimedEntry, Step, TypeOK, CallsFollow, Backlog
  <2>5. EntriesFollow'
    <3> SUFFICES ASSUME NEW k \in Len(executed) + 1 .. Len(posted)
                 PROVE  entries'[(k - 1) % QueueLen] = posted[k]
      BY <2>1 DEF EntriesFollow
    <3>1. (k - 1) % QueueLen # Len(posted) % QueueLen
      <4>1. /\ k - 1 \in Nat /\ Len(posted) \in Nat
            /\ k - 1 < Len(posted) /\ Len(posted) < (k - 1) + QueueLen
        BY <1>0, <2>2 DEF Backlog
      <4>2. QED
        BY <4>1, PositionsDistinct
    <3>2. QED
      BY <1>4, <2>2, <3>1 DEF Fill, ClaimedEntry, TypeOK, EntriesFollow, IndicesFollow
  <2>6. IndicesFollow' /\ ServiceFollows'
    BY <2>1 DEF IndicesFollow, ServiceFollows, Backlog
  <2>7. QED
    BY <2>3, <2>4, <2>5, <2>6
<1>5. ASSUME NEW p \in Producers, Publish(p)
      PROVE  RingInv'
  <2>1. UNCHANGED <<entries, readIndex, mutex, local, task, current, executed>>
    BY <1>5 DEF Publish
  <2>2. /\ local[p] = writeIndex /\ Backlog < MaxBacklog /\ task[p] \in Tasks
        /\ entries[writeIndex] = task[p] /\ mutex = p
    BY <1>5 DEF Publish, Step, CallsFollow
  <2>3. /\ posted' \in Seq(Tasks)
        /\ Len(posted') = Len(posted) + 1
        /\ \A k \in 1 .. Len(posted) : posted'[k] = posted[k]
        /\ posted'[Len(posted) + 1] = task[p]
    BY <1>5, <2>2, AppendProperties DEF Publish, TypeOK
  <2>4. writeIndex' = Len(posted') % QueueLen
    <3>1. ((Len(posted) % QueueLen) + 1) % QueueLen = (Len(posted) + 1) % QueueLen
      BY <1>0, RemainderOfSum
    <3>2. QED
      BY <1>5, <2>2, <2>3, <3>1 DEF Publish, NextSlot, IndicesFollow
  <2>5. writeIndex' \in Slots
    <3>1. Len(posted') \in Nat
      BY <1>0, <2>3
    <3>2. QED
      BY <2>4, <3>1, DivisionIdentity DEF Slots
  <2>6. TypeOK'
    BY <1>5, <2>1, <2>3, <2>5 DEF Publish, Step, TypeOK
  <2>7. IndicesFollow'
    BY <1>0, <2>1, <2>2, <2>3, <2>4 DEF IndicesFollow, Backlog
  <2>8. EntriesFollow'
    <3> SUFFICES ASSUME NEW k \in Len(executed) + 1 .. Len(posted) + 1
                 PROVE  entries[(k - 1) % QueueLen] = posted'[k]
      BY <2>1, <2>3 DEF EntriesFollow
    <3>1. CASE k = Len(posted) + 1
      <4>1. (k - 1) % QueueLen = writeIndex
        BY <1>0, <3>1 DEF IndicesFollow
      <4>2. QED
        BY <2>2, <2>3, <3>1, <4>1
    <3>2. CASE k # Len(posted) + 1
      <4>1. k \in Len(executed) + 1 .. Len(posted) /\ k \in 1 .. Len(posted)
        BY <1>0, <3>2
      <4>2. QED
        BY <2>3, <4>1 DEF EntriesFollow
    <3>3. QED
      BY <3>1, <3>2
  <2>9. ServiceFollows'
    <3>1. \A k \in 1 .. Len(executed) : executed[k] = posted'[k]
      BY <1>0, <2>3 DEF ServiceFollows, IndicesFollow
    <3>2. current # NoTask =>
            Len(executed) < Len(posted') /\ current = posted'[Len(executed) + 1]
      BY <1>0, <2>3 DEF ServiceFollows
    <3>3. QED
      BY <2>1, <3>1, <3>2 DEF ServiceFollows
  <2>10. CallsFollow'
    BY <1>5, <2>1, <2>2, <2>3 DEF Publish, Step, TypeOK, CallsFollow, Backlog
  <2>11. QED
    BY <2>6, <2>7, <2>8, <2>9, <2>10
<1>6. ASSUME NEW p \in Producers, Unlock(p)
      PROVE  RingInv'
  <2>1. UNCHANGED <<entries, writeIndex, readIndex, local, task, current, posted, executed>>
    BY <1>6 DEF Unlock
  <2>2. TypeOK'
    BY <1>6 DEF Unlock, Step, TypeOK, Slots
  <2>3. CallsFollow'
    BY <1>6, <2>1 DEF Unlock, Step, TypeOK, CallsFollow, Backlog
  <2>4. IndicesFollow' /\ EntriesFollow' /\ ServiceFollows'
    BY <2>1 DEF IndicesFollow, EntriesFollow, ServiceFollows, Backlog
  <2>5. QED
    BY <2>2, <2>3, <2>4
<1>7. CASE CopierTake
  <2>1. UNCHANGED <<entries, writeIndex, readIndex, producerVars, posted, executed>>
    BY <1>7 DEF CopierTake
  <2>2. Len(executed) < Len(posted)
    BY <1>0, <1>7 DEF CopierTake, IndicesFollow
  <2>3. current' = posted[Len(executed) + 1]
    <3>1. entries[Len(executed) % QueueLen] = posted[Len(executed) + 1]
      <4>1. Len(executed) + 1 \in Len(executed) + 1 .. Len(posted)
        BY <1>0, <2>2
      <4>2. (Len(executed) + 1) - 1 = Len(executed)
        BY <1>0
      <4>3. QED
        BY <4>1, <4>2 DEF EntriesFollow
    <3>2. QED
      BY <1>7, <3>1 DEF CopierTake, IndicesFollow
  <2>4. posted[Len(executed) + 1] \in Tasks
    BY <1>0, <2>2, ElementOfSeq DEF TypeOK
  <2>5. TypeOK'
    BY <2>1, <2>3, <2>4 DEF TypeOK, producerVars
  <2>6. ServiceFollows'
    BY <2>1, <2>2, <2>3 DEF ServiceFollows
  <2>7. IndicesFollow' /\ EntriesFollow' /\ CallsFollow'
    BY <2>1 DEF IndicesFollow, EntriesFollow, CallsFollow, Backlog, producerVars
  <2>8. QED
    BY <2>5, <2>6, <2>7
<1>8. CASE CopierFinish
  <2>1. UNCHANGED <<entries, writeIndex, producerVars, posted>>
    BY <1>8 DEF CopierFinish
  <2>2. /\ Len(executed) < Len(posted)
        /\ current = posted[Len(executed) + 1]
        /\ current \in Tasks
    BY <1>8 DEF CopierFinish, ServiceFollows, TypeOK
  <2>3. /\ executed' \in Seq(Tasks)
        /\ Len(executed') = Len(executed) + 1
        /\ \A k \in 1 .. Len(executed) : executed'[k] = executed[k]
        /\ executed'[Len(executed) + 1] = current
    BY <1>8, <2>2, AppendProperties DEF CopierFinish, TypeOK
  <2>4. readIndex' = Len(executed') % QueueLen
    <3>1. ((Len(executed) % QueueLen) + 1) % QueueLen = (Len(executed) + 1) % QueueLen
      BY <1>0, RemainderOfSum
    <3>2. QED
      BY <1>8, <2>3, <3>1 DEF CopierFinish, NextSlot, IndicesFollow
  <2>5. readIndex' \in Slots
    <3>1. Len(executed') \in Nat
      BY <1>0, <2>3
    <3>2. QED
      BY <2>4, <3>1, DivisionIdentity DEF Slots
  <2>6. TypeOK'
    BY <1>8, <2>1, <2>3, <2>5 DEF CopierFinish, TypeOK, producerVars
  <2>7. IndicesFollow'
    BY <1>0, <2>1, <2>2, <2>3, <2>4 DEF IndicesFollow, Backlog
  <2>8. EntriesFollow'
    BY <1>0, <2>1, <2>3 DEF EntriesFollow
  <2>9. ServiceFollows'
    <3>1. current' = NoTask
      BY <1>8 DEF CopierFinish
    <3>2. \A k \in 1 .. Len(executed') : executed'[k] = posted'[k]
      BY <1>0, <2>1, <2>2, <2>3 DEF ServiceFollows
    <3>3. QED
      BY <3>1, <3>2 DEF ServiceFollows
  <2>10. CallsFollow'
    BY <1>0, <2>1, <2>3 DEF CallsFollow, Backlog, producerVars
  <2>11. QED
    BY <2>6, <2>7, <2>8, <2>9, <2>10
<1>9. CASE UNCHANGED vars
  BY <1>9 DEF vars, producerVars, TypeOK, IndicesFollow, EntriesFollow, ServiceFollows,
              CallsFollow, Backlog
<1>10. QED
  BY <1>1, <1>2, <1>3, <1>4, <1>5, <1>6, <1>7, <1>8, <1>9 DEF Next, Post

\* The invariant holds in every state of every behaviour.
LEMMA RingInvAlways == Spec => []RingInv
<1>1. Init => RingInv
  BY RingInvInit
<1>2. RingInv /\ [Next]_vars => RingInv'
  BY RingInvStep
<1>3. QED
  BY <1>1, <1>2, PTL DEF Spec

-----------------------------------------------------------------------------
(* What follows from the invariant.                                        *)

\* Every variable keeps its type: no index of the ring ever leaves it.
THEOREM TypeCorrect == Spec => []TypeOK
<1>1. RingInv => TypeOK
  BY DEF RingInv
<1>2. QED
  BY <1>1, RingInvAlways, PTL

\* The service carries out the published copies in order, each once.
THEOREM CopiesExactlyOnce == Spec => []ExactlyOnceInOrder
<1>1. RingInv => ExactlyOnceInOrder
  BY DEF RingInv, ExactlyOnceInOrder, IndicesFollow, ServiceFollows
<1>2. QED
  BY <1>1, RingInvAlways, PTL

\* The wait for equal indices is a wait for all published copies.
THEOREM DrainIsBarrier == Spec => []DrainMeansDone
<1>1. RingInv => DrainMeansDone
  <2> SUFFICES ASSUME RingInv, readIndex = writeIndex, Len(executed) # Len(posted)
               PROVE  FALSE
    BY DEF DrainMeansDone
  <2> USE RingAssumption DEF RingAssumption
  <2>1. /\ Len(posted) \in Nat /\ Len(executed) \in Nat
        /\ Len(executed) < Len(posted)
        /\ Len(posted) < Len(executed) + QueueLen
    BY DEF RingInv, TypeOK, IndicesFollow, Backlog
  <2>2. Len(executed) % QueueLen # Len(posted) % QueueLen
    BY <2>1, PositionsDistinct
  <2>3. QED
    BY <2>2 DEF RingInv, IndicesFollow
<1>2. QED
  BY <1>1, RingInvAlways, PTL

\* The memory between the indices holds the incomplete part of the history.
LEMMA MemoryHoldsBacklog ==
    ASSUME RingInv
    PROVE  /\ Backlog \in Nat
           /\ (writeIndex - readIndex) % QueueLen = Backlog
           /\ \A i \in 1 .. Backlog :
                 /\ (readIndex + i - 1) % QueueLen = (Len(executed) + i - 1) % QueueLen
                 /\ entries[(readIndex + i - 1) % QueueLen] = posted[Len(executed) + i]
<1> USE RingAssumption DEF RingAssumption
<1>1. /\ Len(posted) \in Nat /\ Len(executed) \in Nat
      /\ Backlog \in 0 .. QueueLen - 1
      /\ Len(posted) = Len(executed) + Backlog
      /\ writeIndex = Len(posted) % QueueLen
      /\ readIndex = Len(executed) % QueueLen
  BY DEF RingInv, TypeOK, IndicesFollow, Backlog
<1>2. (writeIndex - readIndex) % QueueLen = Backlog
  <2>1. (((Len(executed) + Backlog) % QueueLen) - (Len(executed) % QueueLen)) % QueueLen
          = Backlog
    BY <1>1, RingDistance
  <2>2. QED
    BY <1>1, <2>1
<1>3. ASSUME NEW i \in 1 .. Backlog
      PROVE  /\ (readIndex + i - 1) % QueueLen = (Len(executed) + i - 1) % QueueLen
             /\ entries[(readIndex + i - 1) % QueueLen] = posted[Len(executed) + i]
  <2>1. i - 1 \in Nat
    BY <1>1, <1>3
  <2>2. ((Len(executed) % QueueLen) + (i - 1)) % QueueLen = (Len(executed) + (i - 1)) % QueueLen
    BY <1>1, <2>1, RemainderOfSum
  <2>3. /\ readIndex + i - 1 = (Len(executed) % QueueLen) + (i - 1)
        /\ Len(executed) + i - 1 = Len(executed) + (i - 1)
    BY <1>1, <1>3 DEF RingInv, TypeOK, Slots
  <2>4. entries[(Len(executed) + i - 1) % QueueLen] = posted[Len(executed) + i]
    <3>1. Len(executed) + i \in Len(executed) + 1 .. Len(posted)
      BY <1>1, <1>3
    <3>2. (Len(executed) + i) - 1 = Len(executed) + i - 1
      BY <1>1
    <3>3. QED
      BY <3>1, <3>2 DEF RingInv, EntriesFollow
  <2>5. QED
    BY <2>2, <2>3, <2>4
<1>4. QED
  BY <1>1, <1>2, <1>3

\* No step writes an entry that the service has not finished.
THEOREM PendingEntriesKept == Spec => PendingEntryStable
<1>1. ASSUME RingInv, [Next]_vars, NEW i \in 1 .. (writeIndex - readIndex) % QueueLen
      PROVE  LET s == (readIndex + i - 1) % QueueLen IN entries'[s] = entries[s]
  <2> DEFINE s == (readIndex + i - 1) % QueueLen
  <2> USE RingAssumption DEF RingAssumption
  <2>1. CASE UNCHANGED entries
    BY <2>1
  <2>2. ASSUME NEW p \in Producers, Fill(p)
        PROVE  entries'[s] = entries[s]
    <3>1. local[p] = writeIndex /\ Backlog < MaxBacklog
      BY <1>1, <2>2 DEF Fill, ClaimedEntry, Step, RingInv, CallsFollow
    <3>2. i \in 1 .. Backlog /\ s = (Len(executed) + i - 1) % QueueLen
      BY <1>1, MemoryHoldsBacklog
    <3>3. /\ Len(executed) + i - 1 \in Nat /\ Len(posted) \in Nat
          /\ Len(executed) + i - 1 < Len(posted)
          /\ Len(posted) < (Len(executed) + i - 1) + QueueLen
      BY <1>1, <3>1, <3>2 DEF RingInv, TypeOK, Backlog
    <3>4. s # writeIndex
      <4>1. (Len(executed) + i - 1) % QueueLen # Len(posted) % QueueLen
        BY <3>3, PositionsDistinct
      <4>2. QED
        BY <1>1, <3>2, <4>1 DEF RingInv, IndicesFollow
    <3>5. entries' = [entries EXCEPT ![writeIndex] = task[p]]
      BY <2>2, <3>1 DEF Fill, ClaimedEntry
    <3>6. QED
      BY <1>1, <3>4, <3>5 DEF RingInv, TypeOK
  <2>3. QED
    BY <1>1, <2>1, <2>2 DEF Next, Post, Call, Lock, ReadIndex, Publish, Unlock, CopierTake,
                            CopierFinish, vars
<1>2. RingInv /\ [Next]_vars =>
        [\A i \in 1 .. (writeIndex - readIndex) % QueueLen :
            LET s == (readIndex + i - 1) % QueueLen IN entries'[s] = entries[s]]_vars
  BY <1>1
<1>3. QED
  BY <1>2, RingInvAlways, PTL DEF Spec, PendingEntryStable

-----------------------------------------------------------------------------
(* The ring implements CopierFifo (its safety part).                       *)

OutstandingFollows ==
    /\ Outstanding \in Seq(Tasks)
    /\ Len(Outstanding) = Backlog
    /\ \A i \in 1 .. Backlog : Outstanding[i] = posted[Len(executed) + i]

\* What the shared memory shows is the incomplete part of the history.
LEMMA OutstandingIsBacklog == RingInv => OutstandingFollows
<1> SUFFICES ASSUME RingInv PROVE OutstandingFollows
  OBVIOUS
<1>1. /\ Backlog \in Nat
      /\ (writeIndex - readIndex) % QueueLen = Backlog
      /\ \A i \in 1 .. Backlog :
            entries[(readIndex + i - 1) % QueueLen] = posted[Len(executed) + i]
  BY MemoryHoldsBacklog
<1>2. \A i \in 1 .. Backlog : posted[Len(executed) + i] \in Tasks
  <2> SUFFICES ASSUME NEW i \in 1 .. Backlog
               PROVE  posted[Len(executed) + i] \in Tasks
    OBVIOUS
  <2>1. posted \in Seq(Tasks) /\ Len(executed) + i \in 1 .. Len(posted)
    BY <1>1 DEF RingInv, TypeOK, Backlog
  <2>2. QED
    BY <2>1, ElementOfSeq
<1>3. Outstanding = [i \in 1 .. Backlog |-> entries[(readIndex + i - 1) % QueueLen]]
  BY <1>1 DEF Outstanding
<1>4. Outstanding \in [1 .. Backlog -> Tasks]
  BY <1>1, <1>2, <1>3
<1>5. QED
  BY <1>1, <1>3, <1>4 DEF OutstandingFollows

\* The same of the state after a step.
LEMMA OutstandingIsBacklogNext == RingInv' => OutstandingFollows'
  BY OutstandingIsBacklog, PTL

\* Publishing puts the task at the end of the queue.
LEMMA PublishAppends ==
    ASSUME RingInv, RingInv', NEW p \in Producers, Publish(p)
    PROVE  task[p] \in Tasks /\ Outstanding' = Append(Outstanding, task[p]) /\ executed' = executed
<1>1. task[p] \in Tasks
  BY DEF Publish, Step, RingInv, CallsFollow
<1>2. /\ posted \in Seq(Tasks) /\ executed \in Seq(Tasks) /\ executed' = executed
      /\ posted' = Append(posted, task[p])
      /\ Len(executed) <= Len(posted)
  BY DEF Publish, RingInv, TypeOK, IndicesFollow
<1>3. /\ Len(posted') = Len(posted) + 1
      /\ \A k \in 1 .. Len(posted) : posted'[k] = posted[k]
      /\ posted'[Len(posted) + 1] = task[p]
  BY <1>1, <1>2, AppendProperties
<1>4. Backlog \in Nat /\ Backlog' = Backlog + 1
  BY <1>2, <1>3 DEF Backlog
<1>5. /\ Outstanding \in Seq(Tasks) /\ Len(Outstanding) = Backlog
      /\ \A i \in 1 .. Backlog : Outstanding[i] = posted[Len(executed) + i]
  BY OutstandingIsBacklog DEF OutstandingFollows
<1>6. /\ Outstanding' \in Seq(Tasks) /\ Len(Outstanding') = Backlog'
      /\ \A i \in 1 .. Backlog' : Outstanding'[i] = posted'[Len(executed') + i]
  BY OutstandingIsBacklogNext DEF OutstandingFollows
<1>7. /\ Append(Outstanding, task[p]) \in Seq(Tasks)
      /\ Len(Append(Outstanding, task[p])) = Backlog + 1
      /\ \A i \in 1 .. Backlog : Append(Outstanding, task[p])[i] = Outstanding[i]
      /\ Append(Outstanding, task[p])[Backlog + 1] = task[p]
  BY <1>1, <1>5, AppendProperties
<1>8. \A i \in 1 .. Backlog + 1 : Outstanding'[i] = Append(Outstanding, task[p])[i]
  <2> SUFFICES ASSUME NEW i \in 1 .. Backlog + 1
               PROVE  Outstanding'[i] = Append(Outstanding, task[p])[i]
    OBVIOUS
  <2>1. Outstanding'[i] = posted'[Len(executed) + i]
    BY <1>2, <1>4, <1>6
  <2>2. CASE i \in 1 .. Backlog
    <3>1. Len(executed) + i \in 1 .. Len(posted)
      BY <1>2, <2>2 DEF Backlog
    <3>2. posted'[Len(executed) + i] = Outstanding[i]
      BY <1>3, <1>5, <2>2, <3>1
    <3>3. QED
      BY <1>7, <2>1, <2>2, <3>2
  <2>3. CASE i = Backlog + 1
    <3>1. Len(executed) + i = Len(posted) + 1
      BY <1>2, <2>3 DEF Backlog
    <3>2. QED
      BY <1>3, <1>7, <2>1, <2>3, <3>1
  <2>4. i \in 1 .. Backlog \/ i = Backlog + 1
    BY <1>4
  <2>5. QED
    BY <2>2, <2>3, <2>4
<1>9. QED
  BY <1>1, <1>2, <1>4, <1>6, <1>7, <1>8, SeqEqual

\* Completing a copy removes the head of the queue.
LEMMA FinishRemovesHead ==
    ASSUME RingInv, RingInv', CopierFinish
    PROVE  /\ Outstanding # <<>>
           /\ Outstanding' = Tail(Outstanding)
           /\ executed' = Append(executed, Head(Outstanding))
<1>1. /\ posted \in Seq(Tasks) /\ executed \in Seq(Tasks) /\ posted' = posted
      /\ Len(executed) < Len(posted)
      /\ current = posted[Len(executed) + 1]
      /\ current \in Tasks
      /\ executed' = Append(executed, current)
  BY DEF CopierFinish, RingInv, TypeOK, ServiceFollows
<1>2. Len(executed') = Len(executed) + 1
  BY <1>1, AppendProperties
<1>3. Backlog \in Nat \ {0} /\ Backlog' = Backlog - 1
  BY <1>1, <1>2 DEF Backlog
<1>4. /\ Outstanding \in Seq(Tasks) /\ Len(Outstanding) = Backlog
      /\ \A i \in 1 .. Backlog : Outstanding[i] = posted[Len(executed) + i]
  BY OutstandingIsBacklog DEF OutstandingFollows
<1>5. /\ Outstanding' \in Seq(Tasks) /\ Len(Outstanding') = Backlog'
      /\ \A i \in 1 .. Backlog' : Outstanding'[i] = posted'[Len(executed') + i]
  BY OutstandingIsBacklogNext DEF OutstandingFollows
<1>6. Outstanding # <<>> /\ Head(Outstanding) = current
  BY <1>1, <1>3, <1>4
<1>7. /\ Tail(Outstanding) \in Seq(Tasks)
      /\ Len(Tail(Outstanding)) = Backlog - 1
      /\ \A i \in 1 .. Backlog - 1 : Tail(Outstanding)[i] = Outstanding[i + 1]
  BY <1>3, <1>4, <1>6, HeadTailProperties
<1>8. \A i \in 1 .. Backlog - 1 : Outstanding'[i] = Tail(Outstanding)[i]
  <2> SUFFICES ASSUME NEW i \in 1 .. Backlog - 1
               PROVE  Outstanding'[i] = Tail(Outstanding)[i]
    OBVIOUS
  <2>1. Outstanding'[i] = posted[Len(executed) + 1 + i]
    BY <1>1, <1>2, <1>3, <1>5
  <2>2. Tail(Outstanding)[i] = posted[Len(executed) + (i + 1)]
    BY <1>3, <1>4, <1>7
  <2>3. Len(executed) + 1 + i = Len(executed) + (i + 1)
    BY <1>1
  <2>4. QED
    BY <2>1, <2>2, <2>3
<1>9. QED
  BY <1>1, <1>3, <1>5, <1>6, <1>7, <1>8, SeqEqual

\* Every behaviour of the ring, seen through Outstanding and executed, is one
\* of the unbounded queue: the ring neither loses, repeats nor reorders tasks.
THEOREM RingImplementsFifo == Spec => Fifo!Init /\ [][Fifo!Next]_(Fifo!vars)
<1>1. Init => Fifo!Init
  <2> SUFFICES ASSUME Init PROVE Fifo!Init
    OBVIOUS
  <2>1. RingInv
    BY RingInvInit
  <2>2. Outstanding \in Seq(Tasks) /\ Len(Outstanding) = 0
    BY <2>1, OutstandingIsBacklog DEF OutstandingFollows, Init, Backlog
  <2>3. QED
    BY <2>2, EmptySeq DEF Init, Fifo!Init
<1>2. RingInv /\ RingInv' /\ [Next]_vars => [Fifo!Next]_(Fifo!vars)
  <2> SUFFICES ASSUME RingInv, RingInv', [Next]_vars
               PROVE  [Fifo!Next]_(Fifo!vars)
    OBVIOUS
  <2>1. ASSUME NEW p \in Producers, Publish(p)
        PROVE  Fifo!Next
    BY <2>1, PublishAppends DEF Fifo!Next, Fifo!Post
  <2>2. CASE CopierFinish
    BY <2>2, FinishRemovesHead DEF Fifo!Next, Fifo!Complete
  <2>3. ASSUME NEW p \in Producers, Fill(p)
        PROVE  UNCHANGED Fifo!vars
    <3>1. UNCHANGED <<writeIndex, readIndex, posted, executed>>
      BY <2>3 DEF Fill, ClaimedEntry
    <3>2. OutstandingFollows /\ OutstandingFollows'
      BY OutstandingIsBacklog, OutstandingIsBacklogNext
    <3>3. Len(Outstanding') = Len(Outstanding)
      BY <3>1, <3>2 DEF OutstandingFollows, Backlog
    <3>4. \A i \in 1 .. Len(Outstanding) : Outstanding'[i] = Outstanding[i]
      BY <3>1, <3>2 DEF OutstandingFollows, Backlog
    <3>5. Outstanding \in Seq(Tasks) /\ Outstanding' \in Seq(Tasks)
      BY <3>2 DEF OutstandingFollows
    <3>6. Outstanding' = Outstanding
      BY <3>3, <3>4, <3>5, SeqEqual
    <3>7. QED
      BY <3>1, <3>6 DEF Fifo!vars
  <2>4. CASE UNCHANGED <<entries, writeIndex, readIndex, executed>>
    BY <2>4 DEF Fifo!vars, Outstanding
  <2>5. QED
    BY <2>1, <2>2, <2>3, <2>4 DEF Next, Post, Call, Lock, ReadIndex, Unlock, CopierTake, vars
<1>3. QED
  BY <1>1, <1>2, RingInvAlways, PTL DEF Spec
=============================================================================
