---------------------------- MODULE MCKvServer ----------------------------
(* Values for KvServer: c1 sends messages of one block in pieces, c2 longer *)
(* ones that come whole, c3 one of a single granule.                        *)
EXTENDS KvServer, TLC

CONSTANTS c1, c2, c3

Lengths == (c1 :> 2 @@ c2 :> 5 @@ c3 :> 1)
Counts == (c1 :> 2 @@ c2 :> 2 @@ c3 :> 1)
=============================================================================
