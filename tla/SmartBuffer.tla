----------------------------- MODULE SmartBuffer -----------------------------
(***************************************************************************)
(* A copy with one descriptor per block, as the program in hello-world     *)
(* makes and consumes it.  In every round main clears the descriptors,     *)
(* posts one asynchronous copy of the whole array, and goes through the    *)
(* blocks, waiting for the descriptor of each to reach the block's size    *)
(* before it reads the block.  After the last round it unmaps the queues   *)
(* and deletes the service's thread.  Nothing waits for the copy as such:  *)
(* that it is complete follows from the descriptors alone.                 *)
(*                                                                         *)
(* The service is not part of the repository.  It is presumed to carry out *)
(* the copies in turn, the blocks of one in any order, to store into a     *)
(* block's descriptor how much of the block is there, and to leave the     *)
(* descriptors alone once all of them are stored.                          *)
(***************************************************************************)
EXTENDS Integers

CONSTANTS Blocks,       \* arrayLength / granularity
          Granularity,  \* units of a block (1024 bytes in the program)
          Modulus,      \* values of a descriptor (65536: uint16_t)
          Rounds        \* prewarmRounds + evaluationRounds

ASSUME SmartAssumption ==
    /\ Blocks \in Nat \ {0}
    /\ Granularity \in Nat \ {0}
    /\ Modulus \in Nat
    /\ Granularity < Modulus    \* a full block fits its descriptor
    /\ Rounds \in Nat

VARIABLES pc,           \* where main is
          round,        \* the round main is in, from 1
          block,        \* the next block main reads
          descriptors,  \* descriptors[b]: units of block b said to be there
          posted,       \* copies posted; the copy of round r is the r-th
          retired,      \* copies the service is through with
          copied,       \* units of each block the service has copied
          reported,     \* units of each block it has reported
          to,           \* for each unit of the array the round it was copied in
          seen          \* history: the rounds of the units main read last

mainVars == <<pc, round, block>>
serviceVars == <<retired, copied, reported>>
vars == <<mainVars, descriptors, posted, serviceVars, to, seen>>

BlockIds == 0 .. Blocks - 1
Units == 0 .. Granularity - 1
Zeros == [b \in BlockIds |-> 0]

Init ==
    /\ pc = "clear"
    /\ round = 0
    /\ block = 0
    /\ descriptors = Zeros
    /\ posted = 0
    /\ retired = 0
    /\ copied = Zeros
    /\ reported = Zeros
    /\ to = [b \in BlockIds |-> [u \in Units |-> 0]]
    /\ seen = [b \in BlockIds |-> {}]

-----------------------------------------------------------------------------
(* main                                                                    *)

\* memset(descriptors, 0, ...)
Uncleared == descriptors    \* without the memset
Cleared == Zeros

\* r < evaluationRounds
OneMoreRound == round <= Rounds     \* off by one
MoreRounds == round < Rounds

\* A round begins.
Clear ==
    /\ pc = "clear"
    /\ MoreRounds
    /\ round' = round + 1
    /\ descriptors' = Cleared
    /\ pc' = "post"
    /\ UNCHANGED <<block, posted, serviceVars, to, seen>>

\* memcpyAsync(to, from, cp_queue, descriptors, arrayLength, granularity)
Post ==
    /\ pc = "post"
    /\ posted' = posted + 1
    /\ block' = 0
    /\ pc' = "read"
    /\ UNCHANGED <<round, descriptors, serviceVars, to, seen>>

\* smartBufferGetAlignedOnlyWait returns.
AnyPresent(b) == descriptors[b] > 0     \* it waits for the first unit only
Present(b) == descriptors[b] >= Granularity

\* The number of blocks the loop over b goes through.
AllButOne == Blocks - 1     \* the loop stops early
LoopEnd == Blocks

\* main has waited for the block and reads it.
Read ==
    /\ pc = "read"
    /\ block < LoopEnd
    /\ Present(block)
    /\ seen' = [seen EXCEPT ![block] = {to[block][u] : u \in Units}]
    /\ block' = block + 1
    /\ UNCHANGED <<pc, round, descriptors, posted, serviceVars, to>>

\* The round is over.
EndRound ==
    /\ pc = "read"
    /\ block = LoopEnd
    /\ pc' = "clear"
    /\ UNCHANGED <<round, block, descriptors, posted, serviceVars, to, seen>>

\* munmapQueues(queues)
Unmap ==
    /\ pc = "clear"
    /\ round = Rounds
    /\ pc' = "unmapped"
    /\ UNCHANGED <<round, block, descriptors, posted, serviceVars, to, seen>>

\* delCpThread(queuefd): the service stops.
Delete ==
    /\ pc = "unmapped"
    /\ pc' = "deleted"
    /\ UNCHANGED <<round, block, descriptors, posted, serviceVars, to, seen>>

-----------------------------------------------------------------------------
(* The service                                                             *)

Busy == retired < posted /\ pc # "deleted"

\* The next unit of block b.
Copy(b) ==
    /\ Busy
    /\ copied[b] < Granularity
    /\ to' = [to EXCEPT ![b][copied[b]] = retired + 1]
    /\ copied' = [copied EXCEPT ![b] = @ + 1]
    /\ UNCHANGED <<mainVars, descriptors, posted, retired, reported, seen>>

\* What a descriptor holds after a store of n.
Narrow(n) == n % Granularity    \* a descriptor too narrow for a full block
Stored(n) == n % Modulus

\* The descriptor of block b is brought up to date.
Report(b) ==
    /\ Busy
    /\ reported[b] < copied[b]
    /\ reported' = [reported EXCEPT ![b] = copied[b]]
    /\ descriptors' = [descriptors EXCEPT ![b] = Stored(copied[b])]
    /\ UNCHANGED <<mainVars, posted, retired, copied, to, seen>>

\* All blocks are reported: on to the next copy.
Retire ==
    /\ Busy
    /\ \A b \in BlockIds : reported[b] = Granularity
    /\ retired' = retired + 1
    /\ copied' = Zeros
    /\ reported' = Zeros
    /\ UNCHANGED <<mainVars, descriptors, posted, to, seen>>

-----------------------------------------------------------------------------
Main == Clear \/ Post \/ Read \/ EndRound \/ Unmap \/ Delete

Service ==
    \/ \E b \in BlockIds : Copy(b) \/ Report(b)
    \/ Retire

Next == Main \/ Service

\* main runs and polls for ever; the service polls and copies for ever.
Spec == Init /\ [][Next]_vars /\ WF_vars(Main) /\ WF_vars(Service)

-----------------------------------------------------------------------------
\* The values each variable may take.
TypeOK ==
    /\ pc \in {"clear", "post", "read", "unmapped", "deleted"}
    /\ round \in 0 .. Rounds
    /\ block \in 0 .. Blocks
    /\ descriptors \in [BlockIds -> 0 .. Modulus - 1]
    /\ posted \in 0 .. Rounds
    /\ retired \in 0 .. Rounds
    /\ copied \in [BlockIds -> 0 .. Granularity]
    /\ reported \in [BlockIds -> 0 .. Granularity]
    /\ to \in [BlockIds -> [Units -> 0 .. Rounds]]
    /\ seen \in [BlockIds -> SUBSET (0 .. Rounds)]

\* Whatever main has read in this round was copied in this round, all of it:
\* a descriptor left from the round before never lets main run ahead of the
\* copy.
ReadsThisRound ==
    pc = "read" => \A b \in BlockIds : b < block => seen[b] = {round}

\* When main unmaps the queues and deletes the thread, no unit of any posted
\* copy is still to be moved, although main never asked the queue.
TeardownIdle ==
    pc \in {"unmapped", "deleted"} =>
        \A b \in BlockIds, u \in Units : to[b][u] = posted

\* A block that was reported stays reported: only main, at the start of a
\* round, lowers a descriptor.
NeverTakenBack ==
    [][pc # "clear" => \A b \in BlockIds : descriptors'[b] >= descriptors[b]]_vars

\* The program ends.
Ends == <>(pc = "deleted")
=============================================================================
