------------------------------- MODULE MCMesh -------------------------------
(* Mesh on small instances. *)
EXTENDS Mesh, TLC

InvalidMacDelta == -1
RateLimitDelta == -2

Both(E) == E \cup {<<e[2], e[1]>> : e \in E}

CONSTANTS a, b, c, d

Triangle == Both({<<a, b>>, <<b, c>>, <<a, c>>})

\* a triangle and a node that hangs off b
Kite == Both({<<a, b>>, <<b, c>>, <<a, c>>, <<b, d>>})

\* everybody sends everything; a floods each type of packet
AllSends == Node \X {"Dm", "Broadcast"}
OneEach == {<<a, "Dm">>, <<a, "Broadcast">>}

Symmetry == Permutations({a, b, c}) \cup Permutations(PacketId)
=============================================================================
