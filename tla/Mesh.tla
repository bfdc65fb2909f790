-------------------------------- MODULE Mesh --------------------------------
(***************************************************************************)
(* Nodes flooding Dm (and File) and Broadcast packets over TCP connections *)
(* (transport.rs, with the sending half of commands.rs): a router per node *)
(* and a queue of frames per direction of a connection.                    *)
(*                                                                         *)
(* A reader task handles one frame at a time.  The router lock is released *)
(* before the packet is emitted to the frontend, and peer_senders locked   *)
(* after that to relay it, so what a reader still has to emit and to       *)
(* relay, and what a command has registered but not sent, is state of its  *)
(* own (emitting, relays, sending) and other tasks run in between.         *)
(* Whatever queues at a writer task and in the socket behind it is one     *)
(* sequence, wire; try_send may fail only once CHANNEL_CAP frames queue    *)
(* there.  A dropped connection loses its frames; a task on it still       *)
(* finishes what it does.                                                  *)
(***************************************************************************)
EXTENDS Routing, FiniteSets

CONSTANTS
  Edge,            \* pairs of nodes that can be connected
  None,            \* the origin of a packet not yet sent
  Sends,           \* the sends users may make: pairs of node and type
  BROADCAST_TTL,   \* ttl of a Broadcast at its origin (5)
  CHANNEL_CAP,     \* frames of a writer's channel (64)
  MAX_BREAKS       \* bound on connections dropped

ASSUME MeshAssumption ==
  /\ Edge \subseteq Node \X Node
  /\ \A m, n \in Node : <<m, n>> \in Edge => <<n, m>> \in Edge /\ m # n
  /\ None \notin Node
  /\ Sends \subseteq Node \X {"Dm", "Broadcast"}
  /\ BROADCAST_TTL \in 0..TTL_MAX
  /\ CHANNEL_CAP \in Nat
  /\ MAX_BREAKS \in Nat

VARIABLES
  origin,        \* origin[id]: the node that sent id, or None
  delivered,     \* delivered[n][id]: times n's frontend was given id, where
                 \* 2 stands for more than once
  taken,         \* history: the ids n's router has registered, as taken[n],
                 \* in this order
  peer_senders,  \* peer_senders[n]: the peers n has a writer for
  wire,          \* wire[m][n]: frames queued from m to n
  sending,       \* [at, pkt]: registered by a command, not yet broadcast
  emitting,      \* [at, from, pkt, open]: registered by a reader, not yet
                 \* emitted; open while the connection it came by is up
  relays,        \* [at, from, pkt, open]: emitted, not yet relayed
  breaks         \* connections dropped so far

vars == <<packet_cache, trust_scores, tokens, origin, delivered, taken,
          peer_senders, wire, sending, emitting, relays, breaks>>

OriginTtl(type) == IF type = "Broadcast" THEN BROADCAST_TTL ELSE TTL_MAX

\* A frame that the reader at node at of the connection from from works on.
Handled == [at : Node, from : Node, pkt : Packet, open : BOOLEAN]

TypeOK ==
  /\ RouterTypeOK
  /\ origin \in [PacketId -> Node \cup {None}]
  /\ delivered \in [Node -> [PacketId -> 0..2]]
  /\ taken \in [Node -> Seq(PacketId)]
  /\ peer_senders \in [Node -> SUBSET Node]
  /\ wire \in [Node -> [Node -> Seq(Packet)]]
  /\ sending \in SUBSET [at : Node, pkt : Packet]
  /\ {emitting, relays} \subseteq SUBSET Handled
  /\ breaks \in 0..MAX_BREAKS

Init ==
  /\ RouterInit
  /\ origin = [id \in PacketId |-> None]
  /\ delivered = [n \in Node |-> [id \in PacketId |-> 0]]
  /\ taken = [n \in Node |-> <<>>]
  /\ peer_senders = [n \in Node |-> {p \in Node : <<n, p>> \in Edge}]
  /\ wire = [m \in Node |-> [n \in Node |-> <<>>]]
  /\ sending = {}
  /\ emitting = {}
  /\ relays = {}
  /\ breaks = 0

-----------------------------------------------------------------------------
(* Sending: broadcast_packet and relay_packet *)

Full(n) == {q \in Node : Len(wire[n][q]) >= CHANNEL_CAP}

Forward(n, targets, pkt) ==
  \E lost \in SUBSET (targets \cap Full(n)) :
    wire' = [wire EXCEPT ![n] =
               [q \in Node |-> IF q \in targets \ lost
                                 THEN Append(wire[n][q], pkt)
                                 ELSE wire[n][q]]]

\* The packet send_dm, send_file or send_broadcast builds at node n.
Built(n, id, type) ==
  [id |-> id, type |-> type, ttl |-> OriginTtl(type), hop |-> 0,
   mac |-> IF type = "Broadcast" THEN NoMac ELSE Mac(id, 0, n)]

Take(n, id) == taken' = [taken EXCEPT ![n] = Append(@, id)]

\* The command up to register_outgoing; generate_packet_id is fresh.
Send(n, id, type) ==
  /\ origin[id] = None
  /\ origin' = [origin EXCEPT ![id] = n]
  /\ Register(n, id)
  /\ Take(n, id)
  /\ sending' = sending \cup {[at |-> n, pkt |-> Built(n, id, type)]}
  /\ UNCHANGED <<delivered, peer_senders, wire, emitting, relays, breaks>>

\* Its broadcast_packet.
Transmit(s) ==
  /\ s \in sending
  /\ Forward(s.at, peer_senders[s.at], s.pkt)
  /\ sending' = sending \ {s}
  /\ UNCHANGED routerVars
  /\ UNCHANGED <<origin, delivered, taken, peer_senders, emitting, relays, breaks>>

-----------------------------------------------------------------------------
(* Receiving: process_incoming_packet at n for the connection from m *)

Reads(m, n) ==
  /\ m \in peer_senders[n]
  /\ wire[m][n] # <<>>
  /\ ~ \E r \in emitting \cup relays : r.at = n /\ r.from = m /\ r.open
  /\ wire' = [wire EXCEPT ![m][n] = Tail(@)]

\* n takes pkt, and has still to emit it.
TakeIn(m, n, pkt) ==
  /\ Take(n, pkt.id)
  /\ emitting' = emitting \cup {[at |-> n, from |-> m, pkt |-> pkt, open |-> TRUE]}

\* Fault: is_duplicate is not asked.
FloodBroadcast(m, n) ==
  /\ Reads(m, n)
  /\ LET pkt == Head(wire[m][n])
     IN  /\ pkt.type = "Broadcast"
         /\ Register(n, pkt.id)
         /\ TakeIn(m, n, pkt)
  /\ UNCHANGED <<origin, delivered, peer_senders, sending, relays, breaks>>

\* is_duplicate and register_broadcast, under the router lock
ReceiveBroadcast(m, n) ==
  /\ Reads(m, n)
  /\ LET pkt == Head(wire[m][n])
     IN  /\ pkt.type = "Broadcast"
         /\ IF pkt.id \in Cached(packet_cache[n])
              THEN UNCHANGED routerVars /\ UNCHANGED <<taken, emitting>>
              ELSE Register(n, pkt.id) /\ TakeIn(m, n, pkt)
  /\ UNCHANGED <<origin, delivered, peer_senders, sending, relays, breaks>>

\* handle_incoming, under the router lock
ReceiveDm(m, n, fresh) ==
  /\ Reads(m, n)
  /\ LET pkt == Head(wire[m][n])
     IN  /\ pkt.type = "Dm"
         /\ \/ Drop(n, m, pkt, fresh) /\ UNCHANGED <<taken, emitting>>
            \/ Accept(n, m, pkt, fresh) /\ TakeIn(m, n, pkt)
  /\ UNCHANGED <<origin, delivered, peer_senders, sending, relays, breaks>>

\* What n passes on of a packet; the tag of a Broadcast stays as it is.
Onward(n, pkt) ==
  IF pkt.type = "Dm" THEN Relayed(n, pkt)
  ELSE [pkt EXCEPT !.ttl = @ - 1, !.hop = @ + 1]

\* Faults: a packet out of ttl is relayed too; the last hop is not used.
QueueRelayAlways(e) ==
  relays' = relays \cup {[e EXCEPT !.pkt = Onward(e.at, e.pkt)]}

QueueRelayTooFew(e) ==
  relays' = IF e.pkt.ttl <= 1 THEN relays
            ELSE relays \cup {[e EXCEPT !.pkt = Onward(e.at, e.pkt)]}

\* Relay a packet that came with some ttl left.
QueueRelay(e) ==
  relays' = IF e.pkt.ttl = 0 THEN relays
            ELSE relays \cup {[e EXCEPT !.pkt = Onward(e.at, e.pkt)]}

\* deliver_to_app, or the emit of a Broadcast
DeliverToApp(e) ==
  /\ e \in emitting
  /\ delivered' = [delivered EXCEPT ![e.at][e.pkt.id] = IF @ = 0 THEN 1 ELSE 2]
  /\ emitting' = emitting \ {e}
  /\ QueueRelay(e)
  /\ UNCHANGED routerVars
  /\ UNCHANGED <<origin, taken, peer_senders, wire, sending, breaks>>

\* Fault: a packet nobody else can take is kept for later.
RelayToSomebody(r) ==
  /\ r \in relays
  /\ Forward(r.at, peer_senders[r.at] \ {r.from}, r.pkt)
  /\ relays' = IF peer_senders[r.at] = {r.from} THEN relays ELSE relays \ {r}
  /\ UNCHANGED routerVars
  /\ UNCHANGED <<origin, delivered, taken, peer_senders, sending, emitting, breaks>>

\* relay_packet: everyone but the peer it came from.
Relay(r) ==
  /\ r \in relays
  /\ Forward(r.at, peer_senders[r.at] \ {r.from}, r.pkt)
  /\ relays' = relays \ {r}
  /\ UNCHANGED routerVars
  /\ UNCHANGED <<origin, delivered, taken, peer_senders, sending, emitting, breaks>>

-----------------------------------------------------------------------------
(* Connections *)

\* The reader of r goes on without its connection, if that is cut.
CutOff(r, m, n) == IF {r.at, r.from} = {m, n} THEN [r EXCEPT !.open = FALSE] ELSE r

Disconnect(m, n) ==
  /\ breaks < MAX_BREAKS
  /\ n \in peer_senders[m]
  /\ breaks' = breaks + 1
  /\ peer_senders' = [peer_senders EXCEPT ![m] = @ \ {n}, ![n] = @ \ {m}]
  /\ wire' = [wire EXCEPT ![m][n] = <<>>, ![n][m] = <<>>]
  /\ emitting' = {CutOff(r, m, n) : r \in emitting}
  /\ relays' = {CutOff(r, m, n) : r \in relays}
  /\ UNCHANGED routerVars
  /\ UNCHANGED <<origin, delivered, taken, sending>>

Connect(m, n) ==
  /\ <<m, n>> \in Edge
  /\ n \notin peer_senders[m]
  /\ peer_senders' = [peer_senders EXCEPT ![m] = @ \cup {n}, ![n] = @ \cup {m}]
  /\ UNCHANGED routerVars
  /\ UNCHANGED <<origin, delivered, taken, wire, sending, emitting, relays, breaks>>

Receive(m, n) ==
  ReceiveBroadcast(m, n) \/ \E fresh \in REFILLS : ReceiveDm(m, n, fresh)

Next ==
  \/ \E send \in Sends, id \in PacketId : Send(send[1], id, send[2])
  \/ \E s \in sending : Transmit(s)
  \/ \E m, n \in Node : Receive(m, n) \/ Disconnect(m, n) \/ Connect(m, n)
  \/ \E e \in emitting : DeliverToApp(e)
  \/ \E r \in relays : Relay(r)

Spec == Init /\ [][Next]_vars

\* Tokio runs every task that is ready: a command goes on to broadcast, a
\* reader to its next frame, and to the emit and the relay of the last one.
Fairness ==
  /\ WF_vars(\E s \in sending : Transmit(s))
  /\ WF_vars(\E e \in emitting : DeliverToApp(e))
  /\ WF_vars(\E r \in relays : Relay(r))
  /\ \A m, n \in Node : WF_vars(Receive(m, n))

FairSpec == Spec /\ Fairness

-----------------------------------------------------------------------------
(* On every hop the tag is the one of the node the frame comes from, so    *)
(* verify_hop_mac at the next node succeeds whatever the path was: no      *)
(* relay, reconnection or interleaving makes an honest node look forged.   *)
MacChain ==
  /\ \A m, n \in Node : \A i \in DOMAIN wire[m][n] :
       wire[m][n][i].type = "Dm" => MacVerifies(wire[m][n][i], m)
  /\ \A s \in sending : s.pkt.type = "Dm" => MacVerifies(s.pkt, s.at)
  /\ \A e \in emitting : e.pkt.type = "Dm" => MacVerifies(e.pkt, e.from)
  /\ \A r \in relays : r.pkt.type = "Dm" => MacVerifies(r.pkt, r.at)

(* ttl and hop counter of a frame add up to the ttl at its origin: no hop  *)
(* is free, so no packet travels further than its type allows.             *)
HopBudget ==
  /\ \A m, n \in Node : \A i \in DOMAIN wire[m][n] :
       wire[m][n][i].ttl + wire[m][n][i].hop = OriginTtl(wire[m][n][i].type)
  /\ \A s \in sending : s.pkt.ttl + s.pkt.hop = OriginTtl(s.pkt.type)
  /\ \A r \in emitting \cup relays :
       r.pkt.ttl + r.pkt.hop = OriginTtl(r.pkt.type)

(* Nodes that run this code do not lower each other's trust: only the rate *)
(* limit can.  (Where every refill credits a token, there is no such loss.) *)
HonestNeverPunished ==
  0 \notin REFILLS =>
    \A n, p \in Node : trust_scores[n][p] >= TRUST_INITIAL

(* Emits come in another order than the routing that led to them, when a   *)
(* reader is overtaken between the two.  Still a frontend is given a       *)
(* packet again, or one of its own, only if the router of its node took    *)
(* that packet twice with as many others in between as its replay cache    *)
(* holds, whichever readers and commands put them there.                   *)
Given(n, id) == delivered[n][id] + (IF origin[id] = n THEN 1 ELSE 0)

GivenAgainLate ==
  \A n \in Node, id \in PacketId : Given(n, id) > 1 =>
    \E i, j \in DOMAIN taken[n] :
      /\ i < j /\ taken[n][i] = id /\ taken[n][j] = id
      /\ Cardinality({taken[n][k] : k \in (i + 1)..(j - 1)} \ {id}) >= CACHE_SIZE

(* As long as no more ids are in use than the replay cache holds, every    *)
(* interleaving of readers, commands, relays and reconnections is a flood  *)
(* as the application expects it: each packet at most once per node, never *)
(* back at its origin.                                                     *)
Flooding == INSTANCE Flood WITH origin <- origin, delivered <- delivered

ImplementsFlood == Flooding!Spec

(* Every flood dies out, even with a replay cache so small that nodes      *)
(* forget a packet while copies of it still circulate.                     *)
Quiet ==
  sending = {} /\ emitting = {} /\ relays = {} /\ \A m, n \in Node : wire[m][n] = <<>>

FloodsDieOut == <>[]Quiet

(* docs/CLAMP-SPEC.md 4.1: flooding reaches all nodes of the mesh.  Here:   *)
(* those within two hops of the origin, with a ttl that allows one relay.  *)
(* True without loss if the ttl covers every path between two nodes; not   *)
(* if it only covers the shortest, because the copy that comes first may   *)
(* have spent more of it than the one that comes next and is a duplicate.  *)
WithinTwoHops(m, n) ==
  <<m, n>> \in Edge \/ \E q \in Node : <<m, q>> \in Edge /\ <<q, n>> \in Edge

Reached ==
  \A id \in PacketId : \A m, n \in Node :
    (m # n /\ WithinTwoHops(m, n) /\ TTL_MAX >= 1 /\ BROADCAST_TTL >= 1) =>
      (origin[id] = m => delivered[n][id] > 0)

FloodsReachAll == <>[]Reached
=============================================================================
