---------------------------- MODULE MCRedisSend ----------------------------
(* Scripts and values for RedisSend. *)
EXTENDS RedisSend, TLC

CONSTANTS c1, c2, k1, k2, v1, v2, v3

Get(k) == [op |-> "get", key |-> k]
GetDel(k) == [op |-> "getdel", key |-> k]
Set(k, v) == [op |-> "set", key |-> k, value |-> v]

Lengths == (v1 :> 2 @@ v2 :> 3 @@ v3 :> 4)
FirstDb == (k1 :> v1 @@ k2 :> v2)

\* c1 takes k1 and writes it, c2 reads both, pipelined.
TakenAndRead == (c1 :> <<GetDel(k1), Set(k1, v3)>> @@ c2 :> <<Get(k2), Get(k1)>>)
SecondPipelines == (c1 :> 1 @@ c2 :> 2)

\* A value is read and deleted, and its memory used for another one (README,
\* section 3; no run checks it).
Deleted == (c1 :> <<GetDel(k2)>> @@ c2 :> <<Set(k1, v3)>>)
=============================================================================
