----------------------------- MODULE CopierFifo -----------------------------
(***************************************************************************)
(* What a client of Copier may rely on when it posts asynchronous copies:  *)
(* the copies posted through one queue are carried out one at a time, in   *)
(* the order in which they were posted, each exactly once.  Nothing here   *)
(* mentions the ring buffer, its indices or the producers' steps;          *)
(* CopierRing implements this specification.                               *)
(***************************************************************************)
EXTENDS Sequences

CONSTANT Tasks      \* the copies a client may ask for (source, target, length)

VARIABLES queue,    \* copies that were posted and are not complete, oldest first
          done      \* copies that are complete, in the order of their completion

vars == <<queue, done>>

Init ==
    /\ queue = <<>>
    /\ done = <<>>

\* A client hands the copy t to Copier and goes on without waiting for it.
Post(t) ==
    /\ queue' = Append(queue, t)
    /\ UNCHANGED done

\* Copier completes the oldest outstanding copy.
Complete ==
    /\ queue # <<>>
    /\ queue' = Tail(queue)
    /\ done' = Append(done, Head(queue))

Next ==
    \/ \E t \in Tasks : Post(t)
    \/ Complete

Spec == Init /\ [][Next]_vars /\ WF_vars(Complete)
=============================================================================
