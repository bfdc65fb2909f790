--------------------------- MODULE MCConnections ----------------------------
(* Connections on a small instance: two nodes. *)
EXTENDS Connections, TLC

Symmetry == Permutations(Node)
=============================================================================
