-------------------------- MODULE SmartBufferProofs --------------------------
(***************************************************************************)
(* Proofs about SmartBuffer, for every number and size of blocks and every *)
(* number of rounds.                                                       *)
(***************************************************************************)
EXTENDS SmartBuffer, TLAPS

\* All blocks of the copy in service are copied and reported.
AllReported == \A b \in BlockIds : reported[b] = Granularity

\* Between two rounds at most the last copy is left to be retired.
Quiet ==
    \/ retired = posted
    \/ retired = posted - 1 /\ AllReported

\* While main reads, the service still has to retire the copy of the round
\* before, or is at this round's copy, or is through with it; what the
\* descriptors say follows from that.
Reading ==
    \/ /\ retired = round - 2
       /\ AllReported
       /\ \A b \in BlockIds : descriptors[b] = 0
    \/ /\ retired = round - 1
       /\ \A b \in BlockIds : descriptors[b] = reported[b]
    \/ /\ retired = round
       /\ \A b \in BlockIds : descriptors[b] = Granularity

\* Main has read the blocks behind it, each when its descriptor was full.
Behind ==
    \A b \in BlockIds : b < block => descriptors[b] >= Granularity /\ seen[b] = {round}

\* What is reported is copied, and nothing is copied ahead of a posting.
Counted ==
    \A b \in BlockIds : reported[b] <= copied[b] /\ (retired = posted => copied[b] = 0)

\* The copied units are those of the copy in service, the others still those
\* of the copy before.
Filled ==
    \A b \in BlockIds : \A u \in Units :
        to[b][u] = IF u < copied[b] THEN retired + 1 ELSE retired

\* The inductive invariant.
SmartInv ==
    /\ TypeOK
    /\ posted = IF pc = "post" THEN round - 1 ELSE round
    /\ pc = "post" => \A b \in BlockIds : descriptors[b] = 0
    /\ pc # "read" => Quiet
    /\ pc = "read" => Reading /\ Behind
    /\ Counted
    /\ Filled

\* A full block fits its descriptor: no store loses anything.
LEMMA NothingLost == \A n \in 0 .. Granularity : Stored(n) = n
BY SmartAssumption DEF SmartAssumption, Stored

\* The program starts between two rounds with nothing posted.
LEMMA SmartInvInit == Init => SmartInv
BY SmartAssumption
DEF SmartAssumption, Init, SmartInv, TypeOK, Quiet, Counted, Filled, Zeros, BlockIds, Units

\* The counters of a block and the numbers of copies, as integers.
LEMMA BlockTypes ==
    ASSUME TypeOK, NEW b \in BlockIds
    PROVE  /\ descriptors[b] \in Int /\ copied[b] \in 0 .. Granularity
           /\ reported[b] \in 0 .. Granularity
           /\ {round, posted, retired, block} \subseteq Int
           /\ Granularity \in Nat \ {0} /\ Blocks \in Nat \ {0}
BY SmartAssumption DEF SmartAssumption, TypeOK

\* A block whose descriptor is full holds the units of this round.
LEMMA PresentIsCopied ==
    ASSUME SmartInv, pc = "read", NEW b \in BlockIds, Present(b)
    PROVE  \A u \in Units : to[b][u] = round
<1>1. TypeOK /\ Reading /\ posted = round
  BY DEF SmartInv
<1>2. /\ descriptors[b] \in Int /\ copied[b] \in 0 .. Granularity
      /\ reported[b] \in 0 .. Granularity
      /\ round \in Int /\ retired \in Int /\ Granularity \in Nat \ {0}
  BY <1>1, BlockTypes
<1>3. reported[b] <= copied[b] /\ (retired = round => copied[b] = 0)
  BY <1>1 DEF SmartInv, Counted
<1>4. \A u \in Units : to[b][u] = IF u < copied[b] THEN retired + 1 ELSE retired
  BY DEF SmartInv, Filled
<1>5. \A u \in Units : u \in 0 .. Granularity - 1
  BY DEF Units
<1>6. descriptors[b] >= Granularity
  BY DEF Present
<1>7. \/ descriptors[b] = 0
      \/ retired = round - 1 /\ descriptors[b] = reported[b]
      \/ retired = round
  BY <1>1 DEF Reading
<1>8. CASE retired = round - 1 /\ descriptors[b] = reported[b]
  <2>1. copied[b] = Granularity
    BY <1>2, <1>3, <1>6, <1>8
  <2> QED
    BY <1>2, <1>4, <1>5, <1>8, <2>1
<1>9. CASE retired = round
  BY <1>2, <1>3, <1>4, <1>5, <1>9
<1> QED
  BY <1>2, <1>6, <1>7, <1>8, <1>9

\* main's steps keep the invariant.
LEMMA MainKeepsSmartInv == SmartInv /\ Main => SmartInv'
<1> SUFFICES ASSUME SmartInv, Main PROVE SmartInv'
  OBVIOUS
<1>0. TypeOK
  BY DEF SmartInv
<1>1. TypeOK'
  <2>1. CASE Read
    <3>1. block \in BlockIds /\ block + 1 \in 0 .. Blocks
      BY <1>0, <2>1, SmartAssumption DEF SmartAssumption, Read, LoopEnd, TypeOK, BlockIds
    <3>2. {to[block][u] : u \in Units} \subseteq 0 .. Rounds
      BY <1>0, <3>1 DEF TypeOK
    <3>3. seen' \in [BlockIds -> SUBSET (0 .. Rounds)]
      BY <1>0, <2>1, <3>1, <3>2 DEF Read, TypeOK
    <3> QED
      BY <1>0, <2>1, <3>1, <3>3 DEF Read, serviceVars, TypeOK
  <2>2. CASE Clear
    BY <1>0, <2>2, SmartAssumption
    DEF SmartAssumption, Clear, MoreRounds, Cleared, Zeros, serviceVars, TypeOK
  <2>3. CASE Post
    <3>1. posted + 1 \in 0 .. Rounds
      BY <1>0, <2>3, SmartAssumption DEF SmartAssumption, Post, SmartInv, TypeOK
    <3> QED
      BY <1>0, <2>3, <3>1, SmartAssumption DEF SmartAssumption, Post, serviceVars, TypeOK
  <2>4. CASE EndRound \/ Unmap \/ Delete
    BY <1>0, <2>4 DEF EndRound, Unmap, Delete, serviceVars, TypeOK
  <2> QED
    BY <2>1, <2>2, <2>3, <2>4 DEF Main
<1>2. Counted /\ Filled
  BY DEF SmartInv
<1>3. Filled'
  BY <1>2 DEF Main, Clear, Post, Read, EndRound, Unmap, Delete, serviceVars, Filled
<1>4. {round, posted, retired, block} \subseteq Int /\ Granularity \in Nat \ {0}
  BY <1>0, <1>1, SmartAssumption DEF SmartAssumption, TypeOK
<1>5. CASE Clear
  BY <1>0, <1>1, <1>2, <1>3, <1>4, <1>5
  DEF Clear, Cleared, Zeros, serviceVars, SmartInv, Quiet, AllReported, Counted
<1>6. CASE Post
  <2>1. Quiet /\ posted = round - 1 /\ \A b \in BlockIds : descriptors[b] = 0
    BY <1>6 DEF Post, SmartInv
  <2>2. \A b \in BlockIds : reported[b] \in Nat /\ copied[b] \in Nat
    BY <1>0 DEF TypeOK
  <2>3. Reading'
    BY <1>2, <1>4, <1>6, <2>1, <2>2
    DEF Post, serviceVars, Quiet, Reading, AllReported, Counted
  <2>4. \A b \in BlockIds : b \in Nat
    BY SmartAssumption DEF SmartAssumption, BlockIds
  <2>5. Behind'
    BY <1>6, <2>4 DEF Post, Behind
  <2>6. retired' # posted'
    BY <1>4, <1>6, <2>1 DEF Post, serviceVars, Quiet
  <2>7. Counted'
    BY <1>2, <1>6, <2>6 DEF Post, serviceVars, Counted
  <2> QED
    BY <1>0, <1>1, <1>3, <1>4, <1>6, <2>1, <2>3, <2>5, <2>7 DEF Post, SmartInv
<1>7. CASE Read
  <2>1. pc = "read" /\ Present(block) /\ block \in BlockIds
    BY <1>0, <1>1, <1>7, SmartAssumption DEF SmartAssumption, Read, LoopEnd, TypeOK, BlockIds
  <2>2. {to[block][u] : u \in Units} = {round}
    <3>1. \A u \in Units : to[block][u] = round
      BY <2>1, PresentIsCopied
    <3>2. 0 \in Units
      BY <1>4 DEF Units
    <3> QED
      BY <3>1, <3>2
  <2>3. seen' = [seen EXCEPT ![block] = {round}]
    BY <1>7, <2>2 DEF Read
  <2>4. \A b \in BlockIds : b \in Int
    BY DEF BlockIds
  <2>5. Behind'
    <3> SUFFICES ASSUME NEW b \in BlockIds, b < block + 1
                 PROVE  descriptors[b] >= Granularity /\ seen'[b] = {round}
      BY <1>7 DEF Read, Behind
    <3>1. seen \in [BlockIds -> SUBSET (0 .. Rounds)]
      BY <1>0 DEF TypeOK
    <3>2. CASE b = block
      BY <2>1, <2>3, <3>1, <3>2 DEF Present
    <3>3. CASE b # block
      BY <1>4, <2>1, <2>3, <2>4, <3>1, <3>3 DEF SmartInv, Behind
    <3> QED
      BY <3>2, <3>3
  <2>6. Reading'
    BY <1>7, <2>1 DEF Read, serviceVars, SmartInv, Reading, AllReported
  <2> QED
    BY <1>0, <1>1, <1>2, <1>3, <1>7, <2>1, <2>5, <2>6 DEF Read, serviceVars, SmartInv, Counted
<1>8. CASE EndRound
  <2>1. pc = "read" /\ Reading /\ Behind /\ posted = round
    BY <1>8 DEF EndRound, SmartInv
  <2>2. \A b \in BlockIds : descriptors[b] >= Granularity
    BY <1>8, <2>1, SmartAssumption DEF SmartAssumption, EndRound, LoopEnd, Behind, BlockIds
  <2>3. 0 \in BlockIds
    BY SmartAssumption DEF SmartAssumption, BlockIds
  <2>4. \A b \in BlockIds : reported[b] \in 0 .. Granularity
    BY <1>0 DEF TypeOK
  <2>5. Quiet
    BY <1>4, <2>1, <2>2, <2>3, <2>4 DEF Reading, Quiet, AllReported
  <2> QED
    BY <1>0, <1>1, <1>2, <1>3, <1>8, <2>1, <2>5
    DEF EndRound, serviceVars, SmartInv, Quiet, AllReported, Counted
<1>9. CASE Unmap \/ Delete
  BY <1>0, <1>1, <1>2, <1>3, <1>9
  DEF Unmap, Delete, serviceVars, SmartInv, Quiet, AllReported, Counted
<1> QED
  BY <1>5, <1>6, <1>7, <1>8, <1>9 DEF Main

\* While the service is not through with a copy, main reads and the
\* descriptors are what the service has reported.
LEMMA AtWork ==
    ASSUME SmartInv, Busy, ~AllReported
    PROVE  pc = "read" /\ retired = round - 1 /\ \A b \in BlockIds : descriptors[b] = reported[b]
<1>1. retired \in Int /\ round \in Int /\ posted \in Int
  BY DEF SmartInv, TypeOK
<1>2. retired < posted
  BY DEF Busy
<1>3. pc = "read" /\ Reading /\ posted = round
  BY <1>1, <1>2 DEF SmartInv, Quiet
<1> QED
  BY <1>1, <1>2, <1>3 DEF Reading

\* Whoever has something to copy or to report is not through.
LEMMA NotThrough ==
    ASSUME SmartInv, NEW b \in BlockIds, Copy(b) \/ Report(b)
    PROVE  Busy /\ ~AllReported
<1>1. reported[b] <= copied[b] /\ copied[b] \in 0 .. Granularity /\ reported[b] \in 0 .. Granularity
  BY BlockTypes DEF SmartInv, Counted
<1>2. Granularity \in Nat
  BY SmartAssumption DEF SmartAssumption
<1> QED
  BY <1>1, <1>2 DEF Copy, Report, AllReported

\* The service's steps keep the invariant.
LEMMA ServiceKeepsSmartInv == SmartInv /\ Service => SmartInv'
<1> SUFFICES ASSUME SmartInv, Service PROVE SmartInv'
  OBVIOUS
<1>1. TypeOK /\ Counted /\ Filled
  BY DEF SmartInv
<1>2. ASSUME NEW b \in BlockIds, Copy(b) PROVE SmartInv'
  <2>1. /\ copied[b] \in 0 .. Granularity - 1
        /\ copied' = [copied EXCEPT ![b] = copied[b] + 1]
        /\ to' = [to EXCEPT ![b][copied[b]] = retired + 1]
        /\ UNCHANGED <<pc, round, block, descriptors, posted, retired, reported, seen>>
    BY <1>1, <1>2, BlockTypes DEF Copy, mainVars
  <2>2. pc = "read" /\ retired = round - 1 /\ \A c \in BlockIds : descriptors[c] = reported[c]
    BY <1>2, NotThrough, AtWork
  <2>3. posted = round /\ Behind
    BY <2>2 DEF SmartInv
  <2>4. {round, retired} \subseteq 0 .. Rounds /\ Rounds \in Nat /\ Granularity \in Nat
    BY <1>1, SmartAssumption DEF SmartAssumption, TypeOK
  <2>5. copied' \in [BlockIds -> 0 .. Granularity]
    BY <1>1, <2>1, <2>4 DEF TypeOK
  <2>6. copied[b] \in Units /\ retired + 1 \in 0 .. Rounds
    BY <2>1, <2>2, <2>4 DEF Units
  <2>7. to' \in [BlockIds -> [Units -> 0 .. Rounds]]
    BY <1>1, <2>1, <2>6 DEF TypeOK
  <2>8. TypeOK'
    BY <1>1, <2>1, <2>5, <2>7 DEF TypeOK
  <2>9. Reading' /\ Behind'
    BY <2>1, <2>2, <2>3 DEF Reading, Behind
  <2>10. Counted'
    <3> SUFFICES ASSUME NEW c \in BlockIds PROVE reported[c] <= copied'[c]
      BY <2>1, <2>2, <2>3, <2>4 DEF Counted
    <3>1. copied \in [BlockIds -> 0 .. Granularity] /\ reported \in [BlockIds -> 0 .. Granularity]
      BY <1>1 DEF TypeOK
    <3>2. reported[c] <= copied[c]
      BY <1>1 DEF Counted
    <3> QED
      BY <2>1, <2>4, <3>1, <3>2
  <2>11. Filled'
    <3> SUFFICES ASSUME NEW c \in BlockIds, NEW u \in Units
                 PROVE  to'[c][u] = IF u < copied'[c] THEN retired + 1 ELSE retired
      BY <2>1 DEF Filled
    <3>1. to[c][u] = IF u < copied[c] THEN retired + 1 ELSE retired
      BY <1>1 DEF Filled
    <3>2. /\ copied \in [BlockIds -> 0 .. Granularity]
          /\ to \in [BlockIds -> [Units -> 0 .. Rounds]]
          /\ u \in Int
      BY <1>1 DEF TypeOK, Units
    <3>3. CASE c = b
      BY <2>1, <3>1, <3>2, <3>3
    <3>4. CASE c # b
      BY <2>1, <3>1, <3>2, <3>4
    <3> QED
      BY <3>3, <3>4
  <2> QED
    BY <2>1, <2>2, <2>3, <2>8, <2>9, <2>10, <2>11 DEF SmartInv
<1>3. ASSUME NEW b \in BlockIds, Report(b) PROVE SmartInv'
  <2>1. pc = "read" /\ retired = round - 1 /\ \A c \in BlockIds : descriptors[c] = reported[c]
    BY <1>3, NotThrough, AtWork
  <2>2. copied[b] \in 0 .. Granularity /\ reported[b] < copied[b]
    BY <1>1, <1>3, BlockTypes DEF Report
  <2>3. /\ descriptors' = [descriptors EXCEPT ![b] = copied[b]]
        /\ reported' = [reported EXCEPT ![b] = copied[b]]
        /\ UNCHANGED <<pc, round, block, posted, retired, copied, to, seen>>
    BY <1>3, <2>2, NothingLost DEF Report, mainVars
  <2>4. 0 .. Granularity \subseteq 0 .. Modulus - 1 /\ Granularity \in Nat
    BY SmartAssumption DEF SmartAssumption
  <2>5. TypeOK'
    BY <1>1, <2>2, <2>3, <2>4 DEF TypeOK
  <2>6. posted = round /\ Behind
    BY <2>1 DEF SmartInv
  <2>7. /\ descriptors \in [BlockIds -> 0 .. Modulus - 1]
        /\ reported \in [BlockIds -> 0 .. Granularity]
        /\ copied \in [BlockIds -> 0 .. Granularity]
    BY <1>1 DEF TypeOK
  <2>8. Reading'
    BY <2>1, <2>3, <2>7 DEF Reading
  <2>9. \A c \in BlockIds : descriptors'[c] >= descriptors[c]
    BY <2>1, <2>2, <2>3, <2>4, <2>7
  <2>10. \A c \in BlockIds : descriptors[c] \in Int /\ descriptors'[c] \in Int
    BY <2>5, <2>7 DEF TypeOK
  <2>11. Behind'
    BY <2>3, <2>4, <2>6, <2>9, <2>10 DEF Behind
  <2>12. Counted'
    BY <1>1, <2>2, <2>3, <2>4, <2>7 DEF Counted
  <2>13. Filled'
    BY <1>1, <2>3 DEF Filled
  <2> QED
    BY <2>1, <2>3, <2>5, <2>6, <2>8, <2>11, <2>12, <2>13 DEF SmartInv
<1>4. CASE Retire
  <2>1. /\ Busy /\ AllReported
        /\ retired' = retired + 1 /\ copied' = Zeros /\ reported' = Zeros
        /\ UNCHANGED <<pc, round, block, descriptors, posted, to, seen>>
    BY <1>4 DEF Retire, AllReported, mainVars
  <2>2. {round, posted, retired} \subseteq 0 .. Rounds /\ Rounds \in Nat /\ Granularity \in Nat
    BY <1>1, SmartAssumption DEF SmartAssumption, TypeOK
  <2>3. retired < posted
    BY <2>1 DEF Busy
  <2>4. \A b \in BlockIds : copied[b] = Granularity
    BY <1>1, <2>1, <2>2 DEF TypeOK, Counted, AllReported
  <2>5. \A b \in BlockIds : \A u \in Units : to[b][u] = retired + 1 /\ u >= 0
    BY <1>1, <2>2, <2>4 DEF Filled, Units
  <2>6. Filled'
    BY <2>1, <2>5 DEF Filled, Zeros, Units
  <2>7. TypeOK'
    BY <1>1, <2>1, <2>2, <2>3 DEF TypeOK, Zeros
  <2>8. Counted'
    BY <2>1 DEF Counted, Zeros
  <2>9. pc # "read" => Quiet'
    BY <2>1, <2>2, <2>3 DEF SmartInv, Quiet
  <2>10. pc = "read" => Reading' /\ Behind'
    <3> SUFFICES ASSUME pc = "read" PROVE Reading' /\ Behind'
      OBVIOUS
    <3>1. Reading /\ Behind /\ posted = round
      BY DEF SmartInv
    <3>2. Behind'
      BY <2>1, <3>1 DEF Behind
    <3>3. CASE retired = round - 2 /\ \A b \in BlockIds : descriptors[b] = 0
      <4>1. retired' = round' - 1
        BY <2>1, <2>2, <3>3
      <4>2. \A b \in BlockIds : descriptors'[b] = reported'[b]
        BY <2>1, <3>3 DEF Zeros
      <4> QED
        BY <3>2, <4>1, <4>2 DEF Reading
    <3>4. CASE retired = round - 1 /\ \A b \in BlockIds : descriptors[b] = reported[b]
      <4>1. retired' = round'
        BY <2>1, <2>2, <3>4
      <4>2. \A b \in BlockIds : descriptors'[b] = Granularity
        BY <2>1, <3>4 DEF AllReported
      <4> QED
        BY <3>2, <4>1, <4>2 DEF Reading
    <3>5. retired # round
      BY <2>2, <2>3, <3>1
    <3> QED
      BY <3>1, <3>2, <3>3, <3>4, <3>5 DEF Reading
  <2> QED
    BY <2>1, <2>6, <2>7, <2>8, <2>9, <2>10 DEF SmartInv
<1> QED
  BY <1>2, <1>3, <1>4 DEF Service

\* Every step keeps the invariant.
LEMMA SmartInvStep == SmartInv /\ [Next]_vars => SmartInv'
<1>1. SmartInv /\ UNCHANGED vars => SmartInv'
  BY DEF vars, mainVars, serviceVars, SmartInv, TypeOK, Quiet, AllReported, Reading, Behind,
         Counted, Filled
<1> QED
  BY <1>1, MainKeepsSmartInv, ServiceKeepsSmartInv DEF Next

\* The invariant holds in every reachable state.
LEMMA SmartInvAlways == Spec => []SmartInv
BY SmartInvInit, SmartInvStep, PTL DEF Spec

-----------------------------------------------------------------------------
\* Counters, descriptors and contents stay in their bounds, for any number of
\* blocks and rounds.
THEOREM TypeCorrect == Spec => []TypeOK
<1>1. SmartInv => TypeOK
  BY DEF SmartInv
<1> QED
  BY <1>1, SmartInvAlways, PTL

\* main never reads a block before this round's copy of it is complete,
\* whatever the descriptors held before.
THEOREM ReadsAreFresh == Spec => []ReadsThisRound
<1>1. SmartInv => ReadsThisRound
  BY DEF SmartInv, Behind, ReadsThisRound
<1> QED
  BY <1>1, SmartInvAlways, PTL

\* The queues are unmapped and the thread deleted only when every copy is
\* complete: the descriptors alone make the teardown safe.
THEOREM TeardownIsSafe == Spec => []TeardownIdle
<1>1. ASSUME SmartInv, pc \in {"unmapped", "deleted"}, NEW b \in BlockIds, NEW u \in Units
      PROVE  to[b][u] = posted
  <2>1. Quiet /\ retired \in Int /\ posted \in Int
    BY <1>1 DEF SmartInv, TypeOK
  <2>2. /\ copied[b] \in 0 .. Granularity /\ reported[b] \in 0 .. Granularity
        /\ Granularity \in Nat
    BY <1>1, BlockTypes DEF SmartInv
  <2>3. reported[b] <= copied[b] /\ (retired = posted => copied[b] = 0)
    BY <1>1 DEF SmartInv, Counted
  <2>4. to[b][u] = IF u < copied[b] THEN retired + 1 ELSE retired
    BY <1>1 DEF SmartInv, Filled
  <2>5. u \in 0 .. Granularity - 1
    BY DEF Units
  <2>6. retired = posted \/ (retired = posted - 1 /\ reported[b] = Granularity)
    BY <2>1 DEF Quiet, AllReported
  <2> QED
    BY <2>1, <2>2, <2>3, <2>4, <2>5, <2>6
<1>2. SmartInv => TeardownIdle
  BY <1>1 DEF TeardownIdle
<1> QED
  BY <1>2, SmartInvAlways, PTL

\* No step but main's own memset lowers a descriptor.
THEOREM DescriptorsOnlyGrow == Spec => NeverTakenBack
<1>1. ASSUME SmartInv, [Next]_vars
      PROVE  [pc # "clear" => \A b \in BlockIds : descriptors'[b] >= descriptors[b]]_vars
  <2> SUFFICES ASSUME Next, pc # "clear", NEW c \in BlockIds
               PROVE  descriptors'[c] >= descriptors[c]
    BY <1>1
  <2>1. descriptors[c] \in Int /\ descriptors \in [BlockIds -> 0 .. Modulus - 1]
    BY <1>1, BlockTypes DEF SmartInv, TypeOK
  <2>2. ASSUME NEW b \in BlockIds, Report(b) PROVE descriptors'[c] >= descriptors[c]
    <3>1. descriptors[b] = reported[b]
      BY <1>1, <2>2, NotThrough, AtWork
    <3>2. copied[b] \in 0 .. Granularity /\ reported[b] < copied[b]
      BY <1>1, <2>2, BlockTypes DEF SmartInv, Report
    <3>3. descriptors' = [descriptors EXCEPT ![b] = copied[b]]
      BY <2>2, <3>2, NothingLost DEF Report
    <3> QED
      BY <1>1, <2>1, <3>1, <3>2, <3>3, BlockTypes DEF SmartInv
  <2>3. ASSUME ~\E b \in BlockIds : Report(b) PROVE descriptors' = descriptors
    BY <2>3 DEF Next, Main, Service, Clear, Post, Read, EndRound, Unmap, Delete, Copy, Retire
  <2> QED
    BY <2>1, <2>2, <2>3
<1> QED
  BY <1>1, SmartInvAlways, PTL DEF Spec, NeverTakenBack
=============================================================================
