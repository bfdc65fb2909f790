----------------------------- MODULE MCPeerBook ------------------------------
(* PeerBook on a small instance: two nodes, three addresses of the router *)
(* or two, and one or two of the hotspot.                                  *)
EXTENDS PeerBook

CONSTANTS a, b, r1, r2, h1

HomeAddresses == [n \in Node |-> IF n = a THEN r1 ELSE r2]
=============================================================================
