-------------------------- MODULE MCTinyproxyRelay --------------------------
(* Values of the constants of TinyproxyRelay for TLC. *)
EXTENDS TinyproxyRelay, TLC

CONSTANTS c1, b1, b2, b3

LengthEven == [d \in Dirs |-> 3]
LengthLong == [d \in Dirs |-> IF d = "up" THEN 3 ELSE 4]

Symmetric == Permutations({b1, b2, b3})
=============================================================================
