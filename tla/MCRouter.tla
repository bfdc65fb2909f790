------------------------------ MODULE MCRouter ------------------------------
(* Router on a small instance. *)
EXTENDS Router, TLC

InvalidMacDelta == -1
RateLimitDelta == -2

Symmetry == Permutations(PacketId) \cup Permutations(Peer)
=============================================================================
