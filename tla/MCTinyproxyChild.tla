-------------------------- MODULE MCTinyproxyChild --------------------------
(* Connections for the runs of TinyproxyChild. *)
EXTENDS TinyproxyChild

CONSTANTS c1, c2
=============================================================================
