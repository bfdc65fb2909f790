------------------------------- MODULE Flood --------------------------------
(***************************************************************************)
(* What controlled flooding promises the application (docs/CLAMP-SPEC.md,  *)
(* sections 4.1 and 4.2): a packet published at one node is handed to the  *)
(* application of every other node at most once, never back to its origin, *)
(* and only across a link from a node that has it.                         *)
(***************************************************************************)
EXTENDS Naturals

CONSTANTS
  Node, PacketId,
  Edge,   \* pairs of nodes that can be connected
  None    \* the origin of a packet not yet published

VARIABLES
  origin,     \* origin[id]: the node that published id, or None
  delivered   \* delivered[n][id]: times n's application was given id

Init ==
  /\ origin = [id \in PacketId |-> None]
  /\ delivered = [n \in Node |-> [id \in PacketId |-> 0]]

Publish(n, id) ==
  /\ origin[id] = None
  /\ origin' = [origin EXCEPT ![id] = n]
  /\ UNCHANGED delivered

Has(n, id) == origin[id] = n \/ delivered[n][id] > 0

Deliver(n, id) ==
  /\ origin[id] # None
  /\ ~ Has(n, id)
  /\ \E m \in Node : <<m, n>> \in Edge /\ Has(m, id)
  /\ delivered' = [delivered EXCEPT ![n][id] = 1]
  /\ UNCHANGED origin

Next == \E n \in Node, id \in PacketId : Publish(n, id) \/ Deliver(n, id)

Spec == Init /\ [][Next]_<<origin, delivered>>

-----------------------------------------------------------------------------
\* The application is given a packet at most once, and never its own.
AtMostOnce ==
  \A n \in Node, id \in PacketId :
    /\ delivered[n][id] <= 1
    /\ origin[id] = n => delivered[n][id] = 0
=============================================================================
