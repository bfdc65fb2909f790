----------------------------- MODULE MCSession ------------------------------
(* Session on a small instance: two nodes, interchangeable send_dm commands. *)
EXTENDS Session, TLC

Symmetry == Permutations(Command \ FileCommand) \cup Permutations(Node)
=============================================================================
