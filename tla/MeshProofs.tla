----------------------------- MODULE MeshProofs ------------------------------
(***************************************************************************)
(* Theorems about Mesh, for every graph of connections, every set of ids,  *)
(* every capacity and every setting of the router: what packets in transit *)
(* look like, that honest nodes do not punish each other, and that the     *)
(* mesh implements Flood as long as the replay cache can hold every id.    *)
(***************************************************************************)
EXTENDS Mesh, RoutingLemmas

\* The frames on their way from m to n.
Frames(m, n) == Cached(wire[m][n])

LEMMA TailFrames ==
  ASSUME NEW w \in Seq(Packet), w # <<>>
  PROVE  /\ Head(w) \in Packet /\ Head(w) \in Cached(w)
         /\ Tail(w) \in Seq(Packet) /\ Cached(Tail(w)) \subseteq Cached(w)
<1>1. /\ Len(w) \in Nat /\ Len(w) # 0 /\ DOMAIN w = 1..Len(w)
      /\ Tail(w) \in Seq(Packet) /\ Len(Tail(w)) = Len(w) - 1
      /\ \A i \in 1..Len(Tail(w)) : Tail(w)[i] = w[i + 1]
  OBVIOUS
<1>2. \A i \in DOMAIN Tail(w) : i + 1 \in DOMAIN w /\ Tail(w)[i] = w[i + 1]
  BY <1>1
<1>3. Cached(Tail(w)) \subseteq Cached(w)
  BY <1>2 DEF Cached
<1>4. 1 \in DOMAIN w /\ Head(w) = w[1] /\ w[1] \in Packet
  BY <1>1
<1>. QED BY <1>1, <1>3, <1>4 DEF Cached

LEMMA AppendFrames ==
  ASSUME NEW w \in Seq(Packet), NEW pkt \in Packet
  PROVE  /\ Append(w, pkt) \in Seq(Packet)
         /\ Cached(Append(w, pkt)) \subseteq Cached(w) \cup {pkt}
<1>1. /\ DOMAIN w = 1..Len(w) /\ DOMAIN Append(w, pkt) = 1..(Len(w) + 1)
      /\ Append(w, pkt)[Len(w) + 1] = pkt
      /\ \A i \in 1..Len(w) : Append(w, pkt)[i] = w[i]
      /\ Len(w) \in Nat
  OBVIOUS
<1>2. \A i \in 1..(Len(w) + 1) : i \in 1..Len(w) \/ i = Len(w) + 1
  BY <1>1
<1>. QED BY <1>1, <1>2 DEF Cached

Wires == [Node -> [Node -> Seq(Packet)]]

\* Only the node that broadcasts or relays a packet adds it to the wires, and
\* only to those towards its targets.
LEMMA ForwardFrames ==
  ASSUME wire \in Wires, NEW n \in Node, NEW targets \in SUBSET Node,
         NEW pkt \in Packet, Forward(n, targets, pkt)
  PROVE  /\ wire' \in Wires
         /\ \A p, q \in Node : \A f \in Frames(p, q)' :
              f \in Frames(p, q) \/ (p = n /\ q \in targets /\ f = pkt)
<1>1. PICK lost \in SUBSET (targets \cap Full(n)) :
        wire' = [wire EXCEPT ![n] =
                   [q \in Node |-> IF q \in targets \ lost
                                     THEN Append(wire[n][q], pkt)
                                     ELSE wire[n][q]]]
  BY DEF Forward
<1>2. \A p, q \in Node : wire[p][q] \in Seq(Packet)
  BY DEF Wires
<1>3. \A q \in Node : /\ Append(wire[n][q], pkt) \in Seq(Packet)
                      /\ Cached(Append(wire[n][q], pkt)) \subseteq Frames(n, q) \cup {pkt}
  BY <1>2, AppendFrames DEF Frames
<1>4. /\ \A p, q \in Node : p # n => wire'[p][q] = wire[p][q]
      /\ \A q \in Node : wire'[n][q] = IF q \in targets \ lost
                                         THEN Append(wire[n][q], pkt) ELSE wire[n][q]
  BY <1>1 DEF Wires
<1>5. wire' \in Wires
  <2>1. [q \in Node |-> IF q \in targets \ lost THEN Append(wire[n][q], pkt)
                        ELSE wire[n][q]] \in [Node -> Seq(Packet)]
    BY <1>2, <1>3
  <2>. QED BY <1>1, <2>1 DEF Wires
<1>6. ASSUME NEW p \in Node, NEW q \in Node, NEW f \in Frames(p, q)'
      PROVE  f \in Frames(p, q) \/ (p = n /\ q \in targets /\ f = pkt)
  <2>1. f \in Cached(wire'[p][q])
    BY <1>6 DEF Frames
  <2>2. CASE wire'[p][q] = wire[p][q]
    BY <2>1, <2>2 DEF Frames
  <2>3. CASE p = n /\ q \in targets /\ wire'[p][q] = Append(wire[n][q], pkt)
    BY <1>3, <2>1, <2>3
  <2>. QED BY <1>4, <2>2, <2>3
<1>. QED BY <1>5, <1>6

\* A reader takes a frame off a wire and adds none.
LEMMA ReadsFrames ==
  ASSUME wire \in Wires, NEW m \in Node, NEW n \in Node, Reads(m, n)
  PROVE  /\ wire' \in Wires
         /\ Head(wire[m][n]) \in Packet /\ Head(wire[m][n]) \in Frames(m, n)
         /\ m \in peer_senders[n]
         /\ \A p, q \in Node : Frames(p, q)' \subseteq Frames(p, q)
<1>1. wire[m][n] \in Seq(Packet) /\ wire[m][n] # <<>> /\ m \in peer_senders[n]
      /\ wire' = [wire EXCEPT ![m][n] = Tail(@)]
  BY DEF Reads, Wires
<1>2. /\ Head(wire[m][n]) \in Packet /\ Head(wire[m][n]) \in Frames(m, n)
      /\ Tail(wire[m][n]) \in Seq(Packet)
      /\ Cached(Tail(wire[m][n])) \subseteq Frames(m, n)
  BY <1>1, TailFrames DEF Frames
<1>3. \A p, q \in Node : wire'[p][q] = wire[p][q]
                         \/ (p = m /\ q = n /\ wire'[p][q] = Tail(wire[m][n]))
  BY <1>1 DEF Wires
<1>4. \A p, q \in Node : Cached(wire'[p][q]) \subseteq Cached(wire[p][q])
  BY <1>2, <1>3 DEF Frames
<1>5. wire' \in Wires
  BY <1>1, <1>2 DEF Wires
<1>. QED BY <1>1, <1>2, <1>4, <1>5 DEF Frames

LEMMA DisconnectFrames ==
  ASSUME wire \in Wires, NEW m \in Node, NEW n \in Node, Disconnect(m, n)
  PROVE  /\ wire' \in Wires
         /\ \A p, q \in Node : Frames(p, q)' \subseteq Frames(p, q)
<1>1. wire' = [wire EXCEPT ![m][n] = <<>>, ![n][m] = <<>>]
  BY DEF Disconnect
<1>2. <<>> \in Seq(Packet) /\ Cached(<<>>) = {}
  BY DEF Cached
<1>3. \A p, q \in Node : wire'[p][q] = wire[p][q] \/ wire'[p][q] = <<>>
  BY <1>1 DEF Wires
<1>4. \A p, q \in Node : Cached(wire'[p][q]) \subseteq Cached(wire[p][q])
  BY <1>2, <1>3
<1>5. wire' \in Wires
  BY <1>1, <1>2 DEF Wires
<1>. QED BY <1>4, <1>5 DEF Frames

-----------------------------------------------------------------------------
(* The two outcomes of the router, for either type of packet *)

Dropped == UNCHANGED <<packet_cache, taken, emitting>>

\* pkt is cached, and left to the reader to emit.
Accepted(m, n, pkt) ==
  /\ pkt.id \notin Cached(packet_cache[n])
  /\ packet_cache' = [packet_cache EXCEPT ![n] = Put(@, pkt.id)]
  /\ TakeIn(m, n, pkt)

LEMMA PacketParts ==
  ASSUME NEW pkt \in Packet
  PROVE  /\ pkt.id \in PacketId /\ pkt.ttl \in Nat /\ pkt.ttl <= TTL_MAX
         /\ pkt.hop \in Nat /\ TTL_MAX \in Nat
BY RoutingAssumption DEF Packet

LEMMA ReceiveOutcome ==
  ASSUME TypeOK, NEW m \in Node, NEW n \in Node, Receive(m, n)
  PROVE  /\ Reads(m, n)
         /\ UNCHANGED <<origin, delivered, peer_senders, sending, relays, breaks>>
         /\ RouterTypeOK'
         /\ Dropped \/ Accepted(m, n, Head(wire[m][n]))
<1>. DEFINE pkt == Head(wire[m][n])
<1>1. Reads(m, n) /\ UNCHANGED <<origin, delivered, peer_senders, sending, relays, breaks>>
  BY DEF Receive, ReceiveBroadcast, ReceiveDm
<1>2. pkt \in Packet /\ pkt.id \in PacketId
  BY <1>1, ReadsFrames, PacketParts DEF TypeOK, Wires
<1>3. RouterTypeOK
  BY DEF TypeOK
<1>4. CASE ReceiveBroadcast(m, n)
  <2>1. CASE pkt.id \in Cached(packet_cache[n])
    <3>1. UNCHANGED routerVars /\ UNCHANGED <<taken, emitting>>
      BY <1>4, <2>1 DEF ReceiveBroadcast
    <3>. QED BY <1>1, <1>3, <3>1 DEF routerVars, RouterTypeOK, Dropped
  <2>2. CASE pkt.id \notin Cached(packet_cache[n])
    <3>1. Register(n, pkt.id) /\ TakeIn(m, n, pkt)
      BY <1>4, <2>2 DEF ReceiveBroadcast
    <3>2. RouterTypeOK'
      BY <1>2, <1>3, <3>1, RegisterType
    <3>. QED BY <1>1, <2>2, <3>1, <3>2 DEF Register, Accepted
  <2>. QED BY <2>1, <2>2
<1>5. CASE \E fresh \in REFILLS : ReceiveDm(m, n, fresh)
  <2>1. PICK fresh \in REFILLS : ReceiveDm(m, n, fresh)
    BY <1>5
  <2>2. CASE Drop(n, m, pkt, fresh) /\ UNCHANGED <<taken, emitting>>
    BY <1>1, <1>2, <1>3, <2>2, DropType DEF Dropped
  <2>3. CASE Accept(n, m, pkt, fresh) /\ TakeIn(m, n, pkt)
    <3>1. RouterTypeOK'
      BY <1>2, <1>3, <2>3, AcceptType
    <3>. QED BY <1>1, <2>3, <3>1 DEF Accept, Accepted
  <2>. QED BY <2>1, <2>2, <2>3 DEF ReceiveDm
<1>. QED BY <1>4, <1>5 DEF Receive

LEMMA OnwardParts ==
  ASSUME NEW n \in Node, NEW pkt \in Packet, pkt.ttl # 0
  PROVE  /\ Onward(n, pkt) \in Packet
         /\ Onward(n, pkt).id = pkt.id /\ Onward(n, pkt).type = pkt.type
         /\ Onward(n, pkt).ttl = pkt.ttl - 1 /\ Onward(n, pkt).hop = pkt.hop + 1
         /\ pkt.type = "Dm" => Onward(n, pkt).mac = Mac(pkt.id, pkt.hop + 1, n)
<1>1. pkt.ttl - 1 \in 0..TTL_MAX /\ pkt.hop + 1 \in Nat
  BY PacketParts
<1>2. Mac(pkt.id, pkt.hop + 1, n) \in PacketId \X Nat \X Node
  BY <1>1, PacketParts DEF Mac
<1>3. CASE pkt.type = "Dm"
  <2>1. Onward(n, pkt) = Relayed(n, pkt)
    BY <1>3 DEF Onward
  <2>. QED BY <1>1, <1>2, <2>1 DEF Relayed, Packet
<1>4. CASE pkt.type # "Dm"
  <2>1. Onward(n, pkt) = [pkt EXCEPT !.ttl = @ - 1, !.hop = @ + 1]
    BY <1>4 DEF Onward
  <2>. QED BY <1>1, <1>4, <2>1 DEF Packet
<1>. QED BY <1>3, <1>4

LEMMA BuiltParts ==
  ASSUME NEW n \in Node, NEW id \in PacketId, NEW type \in {"Dm", "Broadcast"}
  PROVE  /\ Built(n, id, type) \in Packet
         /\ Built(n, id, type).id = id /\ Built(n, id, type).type = type
         /\ Built(n, id, type).ttl = OriginTtl(type) /\ Built(n, id, type).hop = 0
         /\ OriginTtl(type) \in Nat
         /\ type = "Dm" => Built(n, id, type).mac = Mac(id, 0, n)
<1>1. OriginTtl(type) \in 0..TTL_MAX /\ TTL_MAX \in Nat
  BY MeshAssumption, RoutingAssumption DEF OriginTtl
<1>2. Mac(id, 0, n) \in PacketId \X Nat \X Node
  BY DEF Mac
<1>. QED BY <1>1, <1>2 DEF Built, Packet, PacketType

-----------------------------------------------------------------------------
(* Types *)

LEMMA TakeType ==
  ASSUME TypeOK, NEW n \in Node, NEW id \in PacketId, Take(n, id)
  PROVE  /\ taken' \in [Node -> Seq(PacketId)]
         /\ taken'[n] = Append(taken[n], id)
         /\ \A p \in Node : p # n => taken'[p] = taken[p]
<1>1. taken \in [Node -> Seq(PacketId)]
  BY DEF TypeOK
<1>2. Append(taken[n], id) \in Seq(PacketId)
  BY <1>1
<1>. QED BY <1>1, <1>2 DEF Take

LEMMA GivenType ==
  ASSUME TypeOK, NEW n \in Node, NEW id \in PacketId
  PROVE  delivered[n][id] \in Nat /\ Given(n, id) \in Nat
<1>1. delivered \in [Node -> [PacketId -> 0..2]]
  BY DEF TypeOK
<1>2. delivered[n][id] \in 0..2
  BY <1>1
<1>. QED BY <1>2 DEF Given

\* What the reader keeps of a packet that n has taken.
Kept(m, n, pkt) == [at |-> n, from |-> m, pkt |-> pkt, open |-> TRUE]

LEMMA KeptParts ==
  ASSUME NEW m \in Node, NEW n \in Node, NEW pkt \in Packet
  PROVE  /\ Kept(m, n, pkt) \in Handled
         /\ Kept(m, n, pkt).at = n /\ Kept(m, n, pkt).from = m
         /\ Kept(m, n, pkt).pkt = pkt
BY DEF Kept, Handled

LEMMA ReceiveType ==
  ASSUME TypeOK, NEW m \in Node, NEW n \in Node, Receive(m, n)
  PROVE  TypeOK'
<1>. DEFINE pkt == Head(wire[m][n])
<1>1. /\ Reads(m, n) /\ RouterTypeOK'
      /\ UNCHANGED <<origin, delivered, peer_senders, sending, relays, breaks>>
      /\ Dropped \/ Accepted(m, n, pkt)
  BY ReceiveOutcome
<1>2. wire' \in Wires /\ pkt \in Packet
  BY <1>1, ReadsFrames DEF TypeOK, Wires
<1>3. CASE Dropped
  BY <1>1, <1>2, <1>3 DEF Dropped, TypeOK, Wires
<1>4. CASE Accepted(m, n, pkt)
  <2>1. taken' \in [Node -> Seq(PacketId)]
    BY <1>2, <1>4, TakeType, PacketParts DEF Accepted, TakeIn
  <2>2. emitting' \in SUBSET Handled
    <3>1. emitting' = emitting \cup {Kept(m, n, pkt)}
      BY <1>4 DEF Accepted, TakeIn, Kept
    <3>2. Kept(m, n, pkt) \in Handled
      BY <1>2, KeptParts
    <3>. QED BY <3>1, <3>2 DEF TypeOK
  <2>. HIDE DEF pkt
  <2>. QED BY <1>1, <1>2, <2>1, <2>2 DEF TypeOK, Wires
<1>. QED BY <1>1, <1>3, <1>4

\* A packet is emitted, and relayed unless its ttl is spent.
LEMMA DeliverParts ==
  ASSUME TypeOK, NEW e \in emitting, DeliverToApp(e)
  PROVE  /\ e \in Handled /\ e.at \in Node /\ e.from \in Node
         /\ e.pkt \in Packet /\ e.pkt.id \in PacketId
         /\ delivered' \in [Node -> [PacketId -> 0..2]]
         /\ delivered'[e.at][e.pkt.id] # 0
         /\ \A n \in Node, id \in PacketId :
              delivered'[n][id] = IF n = e.at /\ id = e.pkt.id
                                    THEN (IF delivered[n][id] = 0 THEN 1 ELSE 2)
                                    ELSE delivered[n][id]
         /\ relays' \in SUBSET Handled
         /\ \A r \in relays' :
              \/ r \in relays
              \/ /\ e.pkt.ttl # 0
                 /\ r.at = e.at /\ r.from = e.from /\ r.pkt = Onward(e.at, e.pkt)
<1>1. /\ e \in Handled /\ e.at \in Node /\ e.from \in Node
      /\ e.pkt \in Packet /\ e.open \in BOOLEAN
  BY DEF TypeOK, Handled
<1>2. e.pkt.id \in PacketId
  BY <1>1, PacketParts
<1>3. delivered' = [delivered EXCEPT ![e.at][e.pkt.id] = IF @ = 0 THEN 1 ELSE 2]
  BY DEF DeliverToApp
<1>4. \A n \in Node, id \in PacketId :
        delivered'[n][id] = IF n = e.at /\ id = e.pkt.id
                              THEN (IF delivered[n][id] = 0 THEN 1 ELSE 2)
                              ELSE delivered[n][id]
  BY <1>1, <1>2, <1>3 DEF TypeOK
<1>5. delivered' \in [Node -> [PacketId -> 0..2]]
  BY <1>1, <1>2, <1>3 DEF TypeOK
<1>. DEFINE FirstOrMore == delivered'[e.at][e.pkt.id] # 0
<1>0. FirstOrMore
  BY <1>1, <1>2, <1>4
<1>. HIDE DEF FirstOrMore
<1>6. CASE e.pkt.ttl = 0
  <2>1. relays' = relays
    BY <1>6 DEF DeliverToApp, QueueRelay
  <2>2. relays' \in SUBSET Handled /\ \A r \in relays' : r \in relays
    BY <2>1 DEF TypeOK
  <2>. QED BY <1>0, <1>1, <1>2, <1>4, <1>5, <2>2 DEF FirstOrMore
<1>7. CASE e.pkt.ttl # 0
  <2>. DEFINE new == [e EXCEPT !.pkt = Onward(e.at, e.pkt)]
  <2>1. relays' = relays \cup {new}
    BY <1>7 DEF DeliverToApp, QueueRelay
  <2>2. Onward(e.at, e.pkt) \in Packet
    BY <1>1, <1>7, OnwardParts
  <2>3. new \in Handled /\ new.at = e.at /\ new.from = e.from
        /\ new.pkt = Onward(e.at, e.pkt)
    BY <1>1, <2>2 DEF Handled
  <2>. HIDE DEF new
  <2>4. relays' \in SUBSET Handled
    BY <2>1, <2>3 DEF TypeOK
  <2>5. \A r \in relays' : r \in relays \/ r = new
    BY <2>1
  <2>. QED BY <1>0, <1>1, <1>2, <1>4, <1>5, <1>7, <2>3, <2>4, <2>5 DEF FirstOrMore
<1>. QED BY <1>6, <1>7

\* A cut connection changes nothing else of what its reader works on.
LEMMA CutOffParts ==
  ASSUME NEW r \in Handled, NEW m \in Node, NEW n \in Node
  PROVE  /\ CutOff(r, m, n) \in Handled
         /\ CutOff(r, m, n).at = r.at /\ CutOff(r, m, n).from = r.from
         /\ CutOff(r, m, n).pkt = r.pkt
<1>1. [r EXCEPT !.open = FALSE] \in Handled
      /\ [r EXCEPT !.open = FALSE].at = r.at
      /\ [r EXCEPT !.open = FALSE].from = r.from
      /\ [r EXCEPT !.open = FALSE].pkt = r.pkt
  BY DEF Handled
<1>. QED BY <1>1 DEF CutOff

LEMMA TypeKeeps ==
  ASSUME TypeOK, [Next]_vars
  PROVE  TypeOK'
<1>1. CASE \E send \in Sends, id \in PacketId : Send(send[1], id, send[2])
  <2>1. PICK send \in Sends, id \in PacketId : Send(send[1], id, send[2])
    BY <1>1
  <2>2. send[1] \in Node /\ send[2] \in {"Dm", "Broadcast"}
    BY MeshAssumption
  <2>3. RouterTypeOK'
    BY <2>1, <2>2, RegisterType DEF Send, TypeOK
  <2>4. Built(send[1], id, send[2]) \in Packet
    BY <2>2, BuiltParts
  <2>5. taken' \in [Node -> Seq(PacketId)]
    BY <2>1, <2>2, TakeType DEF Send
  <2>6. /\ origin' \in [PacketId -> Node \cup {None}]
        /\ sending' \in SUBSET [at : Node, pkt : Packet]
    BY <2>1, <2>2, <2>4 DEF Send, TypeOK
  <2>7. UNCHANGED <<delivered, peer_senders, wire, emitting, relays, breaks>>
    BY <2>1 DEF Send
  <2>. QED BY <2>3, <2>5, <2>6, <2>7 DEF TypeOK
<1>2. CASE \E s \in sending : Transmit(s)
  <2>1. PICK s \in sending : Transmit(s)
    BY <1>2
  <2>2. s.at \in Node /\ s.pkt \in Packet /\ peer_senders[s.at] \in SUBSET Node
    BY DEF TypeOK
  <2>3. wire' \in Wires
    BY <2>1, <2>2, ForwardFrames DEF Transmit, TypeOK, Wires
  <2>. QED BY <2>1, <2>3 DEF Transmit, TypeOK, RouterTypeOK, routerVars, Wires
<1>3. CASE \E m, n \in Node : Receive(m, n)
  BY <1>3, ReceiveType
<1>4. CASE \E m, n \in Node : Disconnect(m, n)
  <2>1. PICK m \in Node, n \in Node : Disconnect(m, n)
    BY <1>4
  <2>2. wire' \in Wires
    BY <2>1, DisconnectFrames DEF TypeOK, Wires
  <2>3. peer_senders' \in [Node -> SUBSET Node]
    BY <2>1 DEF Disconnect, TypeOK
  <2>4. breaks' \in 0..MAX_BREAKS
    BY <2>1, MeshAssumption DEF Disconnect, TypeOK
  <2>5. emitting' \in SUBSET Handled /\ relays' \in SUBSET Handled
    <3>1. \A r \in emitting \cup relays : CutOff(r, m, n) \in Handled
      BY CutOffParts DEF TypeOK
    <3>. QED BY <2>1, <3>1 DEF Disconnect
  <2>. QED BY <2>1, <2>2, <2>3, <2>4, <2>5
           DEF Disconnect, TypeOK, RouterTypeOK, routerVars, Wires
<1>5. CASE \E m, n \in Node : Connect(m, n)
  <2>1. PICK m \in Node, n \in Node : Connect(m, n)
    BY <1>5
  <2>2. peer_senders' \in [Node -> SUBSET Node]
    BY <2>1 DEF Connect, TypeOK
  <2>. QED BY <2>1, <2>2 DEF Connect, TypeOK, RouterTypeOK, routerVars
<1>6. CASE \E r \in relays : Relay(r)
  <2>1. PICK r \in relays : Relay(r)
    BY <1>6
  <2>2. r.at \in Node /\ r.pkt \in Packet /\ peer_senders[r.at] \ {r.from} \in SUBSET Node
    BY DEF TypeOK, Handled
  <2>3. wire' \in Wires
    BY <2>1, <2>2, ForwardFrames DEF Relay, TypeOK, Wires
  <2>. QED BY <2>1, <2>3 DEF Relay, TypeOK, RouterTypeOK, routerVars, Wires
<1>7. CASE \E e \in emitting : DeliverToApp(e)
  <2>1. PICK e \in emitting : DeliverToApp(e)
    BY <1>7
  <2>2. /\ delivered' \in [Node -> [PacketId -> 0..2]]
        /\ relays' \in SUBSET Handled
    BY <2>1, DeliverParts
  <2>3. emitting' \in SUBSET Handled
    BY <2>1 DEF DeliverToApp, TypeOK
  <2>. QED BY <2>1, <2>2, <2>3 DEF DeliverToApp, TypeOK, RouterTypeOK, routerVars
<1>8. CASE UNCHANGED vars
  BY <1>8 DEF vars, TypeOK, RouterTypeOK
<1>. QED BY <1>1, <1>2, <1>3, <1>4, <1>5, <1>6, <1>7, <1>8 DEF Next

-----------------------------------------------------------------------------
(* Where what is in transit comes from *)

\* Every frame on a wire was there before, or its sender has just broadcast
\* or relayed it.
LEMMA FrameSource ==
  ASSUME TypeOK, [Next]_vars, NEW p \in Node, NEW q \in Node, NEW f \in Frames(p, q)'
  PROVE  \/ f \in Frames(p, q)
         \/ q \in peer_senders[p] /\ \E s \in sending : s.at = p /\ s.pkt = f
         \/ q \in peer_senders[p] /\ \E r \in relays : r.at = p /\ r.pkt = f
<1>. wire \in Wires
  BY DEF TypeOK, Wires
<1>1. CASE wire' = wire
  BY <1>1 DEF Frames
<1>2. CASE \E s \in sending : Transmit(s)
  <2>1. PICK s \in sending : Transmit(s)
    BY <1>2
  <2>2. s.at \in Node /\ s.pkt \in Packet /\ peer_senders[s.at] \in SUBSET Node
    BY DEF TypeOK
  <2>3. \/ f \in Frames(p, q)
        \/ p = s.at /\ q \in peer_senders[s.at] /\ f = s.pkt
    BY <2>1, <2>2, ForwardFrames DEF Transmit
  <2>. QED BY <2>3
<1>3. CASE \E r \in relays : Relay(r)
  <2>1. PICK r \in relays : Relay(r)
    BY <1>3
  <2>2. r.at \in Node /\ r.pkt \in Packet /\ peer_senders[r.at] \ {r.from} \in SUBSET Node
    BY DEF TypeOK, Handled
  <2>3. \/ f \in Frames(p, q)
        \/ p = r.at /\ q \in peer_senders[r.at] \ {r.from} /\ f = r.pkt
    BY <2>1, <2>2, ForwardFrames DEF Relay
  <2>. QED BY <2>3
<1>4. CASE \E m, n \in Node : Receive(m, n)
  BY <1>4, ReceiveOutcome, ReadsFrames
<1>5. CASE \E m, n \in Node : Disconnect(m, n)
  BY <1>5, DisconnectFrames
<1>. QED BY <1>1, <1>2, <1>3, <1>4, <1>5 DEF Next, Send, Connect, DeliverToApp, vars

\* Every packet registered but not broadcast has just been built, or was
\* there.
LEMMA SendingSource ==
  ASSUME TypeOK, [Next]_vars, NEW s \in sending'
  PROVE  \/ s \in sending
         \/ \E id \in PacketId, type \in {"Dm", "Broadcast"} :
              /\ s.at \in Node /\ s.pkt = Built(s.at, id, type)
              /\ origin[id] = None /\ origin' = [origin EXCEPT ![id] = s.at]
<1>1. CASE \E send \in Sends, id \in PacketId : Send(send[1], id, send[2])
  <2>1. PICK send \in Sends, id \in PacketId : Send(send[1], id, send[2])
    BY <1>1
  <2>2. send[1] \in Node /\ send[2] \in {"Dm", "Broadcast"}
    BY MeshAssumption
  <2>3. s \in sending \/ s = [at |-> send[1], pkt |-> Built(send[1], id, send[2])]
    BY <2>1 DEF Send
  <2>4. CASE s = [at |-> send[1], pkt |-> Built(send[1], id, send[2])]
    <3>1. s.at = send[1] /\ s.pkt = Built(send[1], id, send[2])
      BY <2>4
    <3>2. origin[id] = None /\ origin' = [origin EXCEPT ![id] = s.at]
      BY <2>1, <3>1 DEF Send
    <3>. QED BY <2>2, <3>1, <3>2
  <2>. QED BY <2>3, <2>4
<1>2. CASE sending' \subseteq sending
  BY <1>2
<1>3. (\E m, n \in Node : Receive(m, n)) => sending' = sending
  BY ReceiveOutcome
<1>. QED BY <1>1, <1>2, <1>3 DEF Next, Transmit, Disconnect, Connect, DeliverToApp,
                                Relay, vars

\* Every packet a reader has to emit was there, or has just been taken off a
\* wire.
LEMMA EmittingSource ==
  ASSUME TypeOK, [Next]_vars, NEW e \in emitting'
  PROVE  \/ \E q \in emitting : q.at = e.at /\ q.from = e.from /\ q.pkt = e.pkt
         \/ \E m, n \in Node : \E f \in Frames(m, n) :
              /\ f \in Packet /\ Accepted(m, n, f)
              /\ e.at = n /\ e.from = m /\ e.pkt = f
<1>1. CASE \E m, n \in Node : Receive(m, n)
  <2>1. PICK m \in Node, n \in Node : Receive(m, n)
    BY <1>1
  <2>. DEFINE pkt == Head(wire[m][n])
  <2>2. /\ pkt \in Frames(m, n) /\ pkt \in Packet
        /\ Dropped \/ Accepted(m, n, pkt)
    BY <2>1, ReceiveOutcome, ReadsFrames DEF TypeOK, Wires
  <2>. HIDE DEF pkt
  <2>3. CASE Dropped
    BY <2>3 DEF Dropped
  <2>4. CASE Accepted(m, n, pkt)
    <3>1. e \in emitting \/ e = Kept(m, n, pkt)
      BY <2>4 DEF Accepted, TakeIn, Kept
    <3>. QED BY <2>2, <2>4, <3>1, KeptParts
  <2>. QED BY <2>2, <2>3, <2>4
<1>2. CASE \E m, n \in Node : Disconnect(m, n)
  <2>1. PICK m \in Node, n \in Node : Disconnect(m, n)
    BY <1>2
  <2>2. PICK q \in emitting : e = CutOff(q, m, n)
    BY <2>1 DEF Disconnect
  <2>3. q \in Handled
    BY DEF TypeOK
  <2>. QED BY <2>2, <2>3, CutOffParts
<1>3. CASE emitting' \subseteq emitting
  BY <1>3
<1>. QED BY <1>1, <1>2, <1>3 DEF Next, Send, Transmit, Connect, DeliverToApp, Relay, vars

\* Every packet to be relayed was there, or has just been emitted.
LEMMA RelaySource ==
  ASSUME TypeOK, [Next]_vars, NEW r \in relays'
  PROVE  \/ \E q \in relays : q.at = r.at /\ q.from = r.from /\ q.pkt = r.pkt
         \/ \E e \in emitting :
              /\ DeliverToApp(e) /\ e.pkt.ttl # 0
              /\ r.at = e.at /\ r.from = e.from /\ r.pkt = Onward(e.at, e.pkt)
<1>1. CASE \E e \in emitting : DeliverToApp(e)
  BY <1>1, DeliverParts
<1>2. CASE \E m, n \in Node : Disconnect(m, n)
  <2>1. PICK m \in Node, n \in Node : Disconnect(m, n)
    BY <1>2
  <2>2. PICK q \in relays : r = CutOff(q, m, n)
    BY <2>1 DEF Disconnect
  <2>3. q \in Handled
    BY DEF TypeOK
  <2>. QED BY <2>2, <2>3, CutOffParts
<1>3. CASE relays' \subseteq relays
  BY <1>3
<1>4. (\E m, n \in Node : Receive(m, n)) => relays' = relays
  BY ReceiveOutcome
<1>. QED BY <1>1, <1>2, <1>3, <1>4 DEF Next, Send, Transmit, Connect, Relay, vars

-----------------------------------------------------------------------------
(* MacChain and HopBudget, packet by packet *)

\* pkt as node at holds it for the next hop.
Sound(at, pkt) ==
  /\ pkt.type = "Dm" => MacVerifies(pkt, at)
  /\ pkt.ttl + pkt.hop = OriginTtl(pkt.type)

SoundInTransit ==
  /\ \A m, n \in Node : \A f \in Frames(m, n) : Sound(m, f)
  /\ \A s \in sending : Sound(s.at, s.pkt)
  /\ \A e \in emitting : Sound(e.from, e.pkt)
  /\ \A r \in relays : Sound(r.at, r.pkt)

LEMMA SoundOnward ==
  ASSUME NEW m \in Node, NEW n \in Node, NEW pkt \in Packet, pkt.ttl # 0, Sound(m, pkt)
  PROVE  Sound(n, Onward(n, pkt))
<1>1. /\ Onward(n, pkt).ttl + Onward(n, pkt).hop = pkt.ttl + pkt.hop
      /\ Onward(n, pkt).type = pkt.type
  BY OnwardParts, PacketParts
<1>2. pkt.type = "Dm" =>
        Onward(n, pkt).mac = Mac(Onward(n, pkt).id, Onward(n, pkt).hop, n)
  BY OnwardParts
<1>. QED BY <1>1, <1>2 DEF Sound, MacVerifies

LEMMA SoundKeeps ==
  ASSUME TypeOK, SoundInTransit, [Next]_vars
  PROVE  SoundInTransit'
<1>1. ASSUME NEW m \in Node, NEW n \in Node, NEW f \in Frames(m, n)'
      PROVE  Sound(m, f)
  BY FrameSource DEF SoundInTransit
<1>2. ASSUME NEW s \in sending'
      PROVE  Sound(s.at, s.pkt)
  <2>1. CASE s \in sending
    BY <2>1 DEF SoundInTransit
  <2>2. ASSUME NEW id \in PacketId, NEW type \in {"Dm", "Broadcast"},
               s.at \in Node, s.pkt = Built(s.at, id, type)
        PROVE  Sound(s.at, s.pkt)
    BY <2>2, BuiltParts DEF Sound, MacVerifies
  <2>. QED BY <2>1, <2>2, SendingSource
<1>3. ASSUME NEW r \in relays'
      PROVE  Sound(r.at, r.pkt)
  <2>1. CASE \E q \in relays : q.at = r.at /\ q.from = r.from /\ q.pkt = r.pkt
    BY <2>1 DEF SoundInTransit
  <2>2. ASSUME NEW e \in emitting, DeliverToApp(e), e.pkt.ttl # 0,
               r.at = e.at, r.pkt = Onward(e.at, e.pkt)
        PROVE  Sound(r.at, r.pkt)
    <3>1. Sound(e.from, e.pkt)
      BY DEF SoundInTransit
    <3>2. e.at \in Node /\ e.from \in Node /\ e.pkt \in Packet
      BY <2>2, DeliverParts
    <3>. QED BY <2>2, <3>1, <3>2, SoundOnward
  <2>. QED BY <2>1, <2>2, RelaySource
<1>4. ASSUME NEW e \in emitting'
      PROVE  Sound(e.from, e.pkt)
  BY EmittingSource DEF SoundInTransit
<1>. QED BY <1>1, <1>2, <1>3, <1>4 DEF SoundInTransit, Sound

\* A rate limit that finds a token at every call refuses nobody, and a tag
\* that verifies costs nothing.
LEMMA TrustKeeps ==
  ASSUME TypeOK, SoundInTransit, HonestNeverPunished, [Next]_vars
  PROVE  HonestNeverPunished'
<1>. SUFFICES ASSUME 0 \notin REFILLS, NEW u \in Node, NEW v \in Node
              PROVE  trust_scores'[u][v] >= TRUST_INITIAL
  BY DEF HonestNeverPunished
<1>1. /\ trust_scores[u][v] >= TRUST_INITIAL
      /\ trust_scores[u][v] \in TRUST_MIN..TRUST_MAX
  BY DEF HonestNeverPunished, TypeOK, RouterTypeOK
<1>2. CASE trust_scores' = trust_scores
  BY <1>1, <1>2
<1>3. ASSUME NEW m \in Node, NEW n \in Node, NEW fresh \in REFILLS,
             ReceiveDm(m, n, fresh)
      PROVE  trust_scores'[u][v] >= TRUST_INITIAL
  <2>. DEFINE pkt == Head(wire[m][n])
  <2>1. pkt \in Packet /\ pkt.type = "Dm" /\ pkt \in Frames(m, n)
    BY <1>3, ReadsFrames DEF ReceiveDm, TypeOK, Wires
  <2>2. MacVerifies(pkt, m)
    BY <2>1 DEF SoundInTransit, Sound
  <2>3. Credit(n, m, fresh) # 0
    <3>1. fresh \in Nat /\ fresh # 0 /\ RATE_BURST \in Nat /\ RATE_BURST # 0
      BY RoutingAssumption
    <3>2. tokens[n][m] \in Nat
      BY <3>1 DEF TypeOK, RouterTypeOK
    <3>. QED BY <3>1, <3>2 DEF Credit
  <2>4. CASE Drop(n, m, pkt, fresh)
    <3>1. trust_scores' = trust_scores
      BY <2>2, <2>3, <2>4 DEF Drop, DropRateLimited, DropUntrusted, DropDuplicate,
                              DropInvalidMac
    <3>. QED BY <1>2, <3>1
  <2>5. CASE Accept(n, m, pkt, fresh)
    <3>1. UpdateTrust(n, m, TRUST_VALID_DELTA)
          /\ TRUST_VALID_DELTA \in Int /\ TRUST_VALID_DELTA >= 0
      BY <2>5, TrustAssumption DEF Accept
    <3>2. \/ trust_scores'[u][v] = trust_scores[u][v]
          \/ trust_scores'[u][v] = Clamp(trust_scores[u][v] + TRUST_VALID_DELTA)
      <4>1. RouterTypeOK
        BY DEF TypeOK
      <4>2. /\ trust_scores'[n][m] = Clamp(trust_scores[n][m] + TRUST_VALID_DELTA)
            /\ \A p, q \in Node : p # n \/ q # m =>
                 trust_scores'[p][q] = trust_scores[p][q]
        BY <3>1, <4>1, UpdateTrustType
      <4>. QED BY <4>2
    <3>3. /\ Clamp(trust_scores[u][v] + TRUST_VALID_DELTA) >= trust_scores[u][v]
          /\ Clamp(trust_scores[u][v] + TRUST_VALID_DELTA) \in TRUST_MIN..TRUST_MAX
      BY <1>1, <3>1, ClampBounds
    <3>4. {TRUST_INITIAL, TRUST_MIN, TRUST_MAX} \subseteq Int
      BY TrustAssumption
    <3>. QED BY <1>1, <3>2, <3>3, <3>4
  <2>. QED BY <1>3, <2>4, <2>5 DEF ReceiveDm
<1>4. ASSUME NEW m \in Node, NEW n \in Node, ReceiveBroadcast(m, n)
      PROVE  trust_scores' = trust_scores
  BY <1>4 DEF ReceiveBroadcast, Register, routerVars
<1>. QED BY <1>2, <1>3, <1>4 DEF Next, Receive, Send, Register, Transmit, Disconnect,
                                Connect, DeliverToApp, Relay, routerVars, vars

-----------------------------------------------------------------------------
(* Flooding *)

Has(n, id) == Flooding!Has(n, id)

\* What changes the caches, the history of the routers, what is to be emitted
\* and the state of the flood.
LEMMA FloodCases ==
  ASSUME TypeOK, [Next]_vars
  PROVE  \/ UNCHANGED <<packet_cache, origin, delivered, taken, emitting>>
         \/ \E n \in Node, id \in PacketId :
              /\ origin[id] = None /\ origin' = [origin EXCEPT ![id] = n]
              /\ packet_cache' = [packet_cache EXCEPT ![n] = Put(@, id)]
              /\ Take(n, id)
              /\ UNCHANGED <<delivered, emitting>>
         \/ \E m, n \in Node : \E f \in Frames(m, n) :
              f \in Packet /\ Accepted(m, n, f) /\ UNCHANGED <<origin, delivered>>
         \/ \E e \in emitting :
              DeliverToApp(e) /\ UNCHANGED <<packet_cache, origin, taken>>
         \/ \E m, n \in Node :
              /\ emitting' = {CutOff(e, m, n) : e \in emitting}
              /\ UNCHANGED <<packet_cache, origin, delivered, taken>>
<1>1. CASE \E send \in Sends, id \in PacketId : Send(send[1], id, send[2])
  <2>1. PICK send \in Sends, id \in PacketId : Send(send[1], id, send[2])
    BY <1>1
  <2>2. send[1] \in Node
    BY MeshAssumption
  <2>. QED BY <2>1, <2>2 DEF Send, Register
<1>2. CASE \E m, n \in Node : Receive(m, n)
  <2>1. PICK m \in Node, n \in Node : Receive(m, n)
    BY <1>2
  <2>. DEFINE pkt == Head(wire[m][n])
  <2>2. /\ pkt \in Packet /\ pkt \in Frames(m, n) /\ UNCHANGED <<origin, delivered>>
        /\ Dropped \/ Accepted(m, n, pkt)
    BY <2>1, ReceiveOutcome, ReadsFrames DEF TypeOK, Wires
  <2>. HIDE DEF pkt
  <2>. QED BY <2>2 DEF Dropped
<1>3. CASE \E e \in emitting : DeliverToApp(e)
  BY <1>3 DEF DeliverToApp, routerVars
<1>4. CASE \E m, n \in Node : Disconnect(m, n)
  BY <1>4 DEF Disconnect, routerVars
<1>. QED BY <1>1, <1>2, <1>3, <1>4 DEF Next, Transmit, Connect, Relay, routerVars, vars

\* A flood never forgets.
LEMMA HasForGood ==
  ASSUME TypeOK, [Next]_vars, NEW n \in Node, NEW id \in PacketId
  PROVE  /\ Has(n, id) => Has(n, id)'
         /\ origin[id] # None => origin'[id] = origin[id]
<1>1. CASE UNCHANGED <<origin, delivered>>
  BY <1>1 DEF Has, Flooding!Has
<1>2. ASSUME NEW p \in Node, NEW i \in PacketId,
             origin[i] = None, origin' = [origin EXCEPT ![i] = p], delivered' = delivered
      PROVE  /\ Has(n, id) => Has(n, id)'
             /\ origin[id] # None => origin'[id] = origin[id]
  BY <1>2, MeshAssumption DEF Has, Flooding!Has, TypeOK
<1>3. ASSUME NEW e \in emitting, DeliverToApp(e), origin' = origin
      PROVE  /\ Has(n, id) => Has(n, id)'
             /\ origin[id] # None => origin'[id] = origin[id]
  <2>1. delivered'[n][id] \in {delivered[n][id], 1, 2}
    BY <1>3, DeliverParts
  <2>. QED BY <1>3, <2>1 DEF Has, Flooding!Has
<1>. QED BY <1>1, <1>2, <1>3, FloodCases

\* Connections follow the graph, and what is in transit comes from a node
\* that has it.
InFlood ==
  /\ \A n \in Node : \A p \in peer_senders[n] : <<n, p>> \in Edge
  /\ \A m, n \in Node : \A f \in Frames(m, n) :
       <<m, n>> \in Edge /\ Has(m, f.id) /\ origin[f.id] # None
  /\ \A s \in sending : Has(s.at, s.pkt.id) /\ origin[s.pkt.id] # None
  /\ \A e \in emitting :
       <<e.from, e.at>> \in Edge /\ Has(e.from, e.pkt.id) /\ origin[e.pkt.id] # None
  /\ \A r \in relays : Has(r.at, r.pkt.id) /\ origin[r.pkt.id] # None

LEMMA InFloodKeeps ==
  ASSUME TypeOK, TypeOK', InFlood, [Next]_vars
  PROVE  InFlood'
<1>. DEFINE Known(n, id) == Has(n, id) /\ origin[id] # None
<1>1. \A n \in Node, id \in PacketId : Known(n, id) => Known(n, id)'
  BY HasForGood
<1>2. \A n \in Node : \A p \in peer_senders'[n] : <<n, p>> \in Edge
  <2>1. CASE \E m, n \in Node : Connect(m, n)
    <3>1. PICK k \in Node, l \in Node : Connect(k, l)
      BY <2>1
    <3>2. <<k, l>> \in Edge /\ <<l, k>> \in Edge
      BY <3>1, MeshAssumption DEF Connect
    <3>3. \A n \in Node : \A p \in peer_senders'[n] :
            p \in peer_senders[n] \/ (n = k /\ p = l) \/ (n = l /\ p = k)
      BY <3>1 DEF Connect, TypeOK
    <3>. QED BY <3>2, <3>3 DEF InFlood
  <2>2. CASE \E m, n \in Node : Disconnect(m, n)
    <3>1. PICK k \in Node, l \in Node : Disconnect(k, l)
      BY <2>2
    <3>2. \A n \in Node : peer_senders'[n] \subseteq peer_senders[n]
      BY <3>1 DEF Disconnect, TypeOK
    <3>. QED BY <3>2 DEF InFlood
  <2>3. (\E m, n \in Node : Receive(m, n)) => peer_senders' = peer_senders
    BY ReceiveOutcome
  <2>. QED BY <2>1, <2>2, <2>3 DEF Next, Send, Transmit, DeliverToApp, Relay, InFlood, vars
<1>3. ASSUME NEW m \in Node, NEW n \in Node, NEW f \in Frames(m, n)'
      PROVE  <<m, n>> \in Edge /\ Known(m, f.id)'
  <2>1. f \in Packet
    <3>1. wire'[m][n] \in Seq(Packet)
      BY DEF TypeOK
    <3>. QED BY <1>3, <3>1 DEF Frames, Cached
  <2>2. <<m, n>> \in Edge /\ Known(m, f.id)
    BY <1>3, FrameSource DEF InFlood
  <2>. QED BY <1>1, <2>1, <2>2, PacketParts
<1>4. ASSUME NEW s \in sending'
      PROVE  Known(s.at, s.pkt.id)'
  <2>1. s.at \in Node /\ s.pkt \in Packet /\ s.pkt.id \in PacketId
    BY PacketParts DEF TypeOK
  <2>2. CASE s \in sending
    BY <1>1, <2>1, <2>2 DEF InFlood
  <2>3. ASSUME NEW id \in PacketId, NEW type \in {"Dm", "Broadcast"},
               s.pkt = Built(s.at, id, type), origin' = [origin EXCEPT ![id] = s.at]
        PROVE  Known(s.at, s.pkt.id)'
    <3>1. s.pkt.id = id /\ origin'[id] = s.at
      BY <2>1, <2>3, BuiltParts DEF TypeOK
    <3>. QED BY <2>1, <3>1, MeshAssumption DEF Has, Flooding!Has
  <2>. QED BY <2>2, <2>3, SendingSource
<1>5. ASSUME NEW r \in relays'
      PROVE  Known(r.at, r.pkt.id)'
  <2>1. r.at \in Node /\ r.pkt \in Packet /\ r.pkt.id \in PacketId
    BY PacketParts DEF TypeOK, Handled
  <2>2. CASE \E q \in relays : q.at = r.at /\ q.from = r.from /\ q.pkt = r.pkt
    BY <1>1, <2>1, <2>2 DEF InFlood
  <2>3. ASSUME NEW e \in emitting, DeliverToApp(e), e.pkt.ttl # 0,
               r.at = e.at, r.pkt = Onward(e.at, e.pkt)
        PROVE  Known(r.at, r.pkt.id)'
    <3>1. /\ e.at \in Node /\ e.pkt \in Packet /\ e.pkt.id \in PacketId
          /\ delivered'[e.at][e.pkt.id] # 0
      BY <2>3, DeliverParts
    <3>2. r.pkt.id = e.pkt.id
      BY <2>3, <3>1, OnwardParts
    <3>3. delivered'[e.at][e.pkt.id] > 0
      <4>1. delivered'[e.at][e.pkt.id] \in 0..2
        BY <3>1 DEF TypeOK
      <4>. QED BY <3>1, <4>1
    <3>4. origin'[e.pkt.id] # None
      <4>1. origin[e.pkt.id] # None
        BY DEF InFlood
      <4>. QED BY <3>1, <4>1, HasForGood
    <3>. QED BY <2>3, <3>1, <3>2, <3>3, <3>4 DEF Has, Flooding!Has
  <2>. QED BY <2>2, <2>3, RelaySource
<1>6. ASSUME NEW e \in emitting'
      PROVE  <<e.from, e.at>> \in Edge /\ Known(e.from, e.pkt.id)'
  <2>1. e.from \in Node /\ e.pkt \in Packet /\ e.pkt.id \in PacketId
    BY PacketParts DEF TypeOK, Handled
  <2>2. <<e.from, e.at>> \in Edge /\ Known(e.from, e.pkt.id)
    BY EmittingSource DEF InFlood
  <2>. QED BY <1>1, <2>1, <2>2
<1>. QED BY <1>2, <1>3, <1>4, <1>5, <1>6 DEF InFlood

-----------------------------------------------------------------------------
(* What a cache has forgotten was followed by as many others as it holds.  *)

\* A cache is that of what its router took, and of packets that were sent.
WindowInv ==
  /\ \A n \in Node : CacheOf(packet_cache[n], taken[n]) /\ Window(taken[n])
  /\ \A n \in Node : \A id \in Cached(packet_cache[n]) : origin[id] # None

LEMMA WindowInvKeeps ==
  ASSUME TypeOK, InFlood, WindowInv, [Next]_vars
  PROVE  WindowInv'
<1>1. ASSUME NEW n \in Node, NEW id \in PacketId,
             id \notin Cached(packet_cache[n]),
             packet_cache' = [packet_cache EXCEPT ![n] = Put(@, id)],
             Take(n, id), origin'[id] # None,
             \A i \in PacketId : origin[i] # None => origin'[i] # None
      PROVE  WindowInv'
  <2>1. /\ packet_cache[n] \in Seq(PacketId) /\ Len(packet_cache[n]) <= CACHE_SIZE
        /\ taken[n] \in Seq(PacketId)
    BY DEF TypeOK, RouterTypeOK
  <2>2. /\ packet_cache'[n] = Put(packet_cache[n], id)
        /\ \A p \in Node : p # n => packet_cache'[p] = packet_cache[p]
    BY <1>1 DEF TypeOK, RouterTypeOK
  <2>3. /\ taken'[n] = Append(taken[n], id)
        /\ \A p \in Node : p # n => taken'[p] = taken[p]
    BY <1>1, TakeType
  <2>4. CacheOf(packet_cache'[n], taken'[n]) /\ Window(taken'[n])
    BY <1>1, <2>1, <2>2, <2>3, PutAfter DEF WindowInv
  <2>5. \A p \in Node : CacheOf(packet_cache'[p], taken'[p]) /\ Window(taken'[p])
    BY <2>2, <2>3, <2>4 DEF WindowInv
  <2>6. ASSUME NEW p \in Node, NEW i \in Cached(packet_cache'[p])
        PROVE  origin'[i] # None
    <3>1. i = id \/ i \in Cached(packet_cache[p])
      BY <2>1, <2>2, PutType
    <3>2. Cached(packet_cache[p]) \subseteq PacketId
      BY DEF Cached, TypeOK, RouterTypeOK
    <3>. QED BY <1>1, <3>1, <3>2 DEF WindowInv
  <2>. QED BY <2>5, <2>6 DEF WindowInv
<1>2. CASE UNCHANGED <<packet_cache, origin, taken>>
  BY <1>2 DEF WindowInv
<1>3. ASSUME NEW n \in Node, NEW id \in PacketId,
             origin[id] = None, origin' = [origin EXCEPT ![id] = n],
             packet_cache' = [packet_cache EXCEPT ![n] = Put(@, id)], Take(n, id)
      PROVE  WindowInv'
  <2>1. id \notin Cached(packet_cache[n])
    BY <1>3 DEF WindowInv
  <2>2. origin'[id] = n /\ n # None /\ \A i \in PacketId : i # id => origin'[i] = origin[i]
    BY <1>3, MeshAssumption DEF TypeOK
  <2>. QED BY <1>1, <1>3, <2>1, <2>2
<1>4. ASSUME NEW m \in Node, NEW n \in Node, NEW f \in Frames(m, n),
             f \in Packet, Accepted(m, n, f), origin' = origin
      PROVE  WindowInv'
  <2>1. f.id \in PacketId /\ origin[f.id] # None
    BY <1>4, PacketParts DEF InFlood
  <2>2. /\ f.id \notin Cached(packet_cache[n]) /\ Take(n, f.id)
        /\ packet_cache' = [packet_cache EXCEPT ![n] = Put(@, f.id)]
    BY <1>4 DEF Accepted, TakeIn
  <2>. QED BY <1>1, <1>4, <2>1, <2>2
<1>. QED BY <1>2, <1>3, <1>4, FloodCases

-----------------------------------------------------------------------------
(* What a frontend is given its router has taken, once for each time: the  *)
(* taking comes first, and each leads to one emit.                         *)

Pending(n, id) == {e \in emitting : e.at = n /\ e.pkt.id = id}

Took(n, id) == \E i \in DOMAIN taken[n] : taken[n][i] = id

TookTwice(n, id) ==
  \E i, j \in DOMAIN taken[n] : i < j /\ taken[n][i] = id /\ taken[n][j] = id

Covered(n, id) ==
  /\ Given(n, id) # 0 \/ Pending(n, id) # {} => Took(n, id)
  /\ \/ Given(n, id) > 1
     \/ Given(n, id) # 0 /\ Pending(n, id) # {}
     \/ \E x, y \in Pending(n, id) : x # y
     => TookTwice(n, id)

TakenInv == \A n \in Node, id \in PacketId : Covered(n, id)

\* An id that is taken again is taken twice, and no taking is forgotten.
LEMMA TookKeeps ==
  ASSUME TypeOK, NEW n \in Node, NEW id \in PacketId, Take(n, id),
         NEW p \in Node, NEW i \in PacketId
  PROVE  /\ Took(p, i) => Took(p, i)'
         /\ TookTwice(p, i) => TookTwice(p, i)'
         /\ Took(n, id)'
         /\ Took(n, id) => TookTwice(n, id)'
<1>. DEFINE s == taken[n]
<1>1. /\ taken'[n] = Append(s, id) /\ s \in Seq(PacketId)
      /\ \A q \in Node : q # n => taken'[q] = taken[q]
  BY TakeType DEF TypeOK
<1>2. /\ Len(s) + 1 \in DOMAIN Append(s, id)
      /\ Append(s, id)[Len(s) + 1] = id
      /\ \A k \in DOMAIN s :
           k \in DOMAIN Append(s, id) /\ Append(s, id)[k] = s[k] /\ k < Len(s) + 1
  BY <1>1
<1>3. Took(n, id)' /\ (Took(n, id) => TookTwice(n, id)')
  BY <1>1, <1>2 DEF Took, TookTwice
<1>4. CASE p = n
  BY <1>1, <1>2, <1>3, <1>4 DEF Took, TookTwice
<1>5. CASE p # n
  BY <1>1, <1>3, <1>5 DEF Took, TookTwice
<1>. QED BY <1>3, <1>4, <1>5

LEMMA TakenInvKeeps ==
  ASSUME TypeOK, InFlood, TakenInv, [Next]_vars
  PROVE  TakenInv'
<1>. SUFFICES ASSUME NEW n \in Node, NEW id \in PacketId
              PROVE  Covered(n, id)'
  BY DEF TakenInv
<1>1. Covered(n, id) /\ Given(n, id) \in Nat
  BY GivenType DEF TakenInv
<1>2. CASE UNCHANGED <<packet_cache, origin, delivered, taken, emitting>>
  BY <1>1, <1>2 DEF Covered, Given, Pending, Took, TookTwice
<1>3. ASSUME NEW p \in Node, NEW i \in PacketId,
             origin[i] = None, origin' = [origin EXCEPT ![i] = p], Take(p, i),
             UNCHANGED <<delivered, emitting>>
      PROVE  Covered(n, id)'
  <2>1. /\ Pending(n, id)' = Pending(n, id)
        /\ Took(n, id) => Took(n, id)'
        /\ TookTwice(n, id) => TookTwice(n, id)'
    BY <1>3, TookKeeps DEF Pending
  <2>2. CASE p = n /\ i = id
    <3>1. Took(n, id)' /\ (Took(n, id) => TookTwice(n, id)')
      BY <1>3, <2>2, TookKeeps
    <3>2. Given(n, id)' = Given(n, id) + 1
      <4>1. origin'[id] = n /\ origin[id] # n
        BY <1>3, <2>2, MeshAssumption DEF TypeOK
      <4>2. delivered' = delivered /\ delivered[n][id] \in Nat
        BY <1>3, GivenType
      <4>. QED BY <4>1, <4>2 DEF Given
    <3>3. CASE Took(n, id)
      BY <3>1, <3>3 DEF Covered
    <3>4. CASE ~ Took(n, id)
      <4>1. Given(n, id) = 0 /\ Pending(n, id) = {}
        BY <1>1, <3>4 DEF Covered
      <4>2. Given(n, id)' = 1 /\ Pending(n, id)' = {}
        BY <2>1, <3>2, <4>1
      <4>. QED BY <3>1, <4>2 DEF Covered
    <3>. QED BY <3>3, <3>4
  <2>3. CASE ~ (p = n /\ i = id)
    <3>1. origin'[id] = n <=> origin[id] = n
      BY <1>3, <2>3, MeshAssumption DEF TypeOK
    <3>2. Given(n, id)' = Given(n, id)
      BY <1>3, <3>1 DEF Given
    <3>. QED BY <1>1, <2>1, <3>2 DEF Covered
  <2>. QED BY <2>2, <2>3
<1>4. ASSUME NEW m \in Node, NEW p \in Node, NEW f \in Packet,
             Accepted(m, p, f), UNCHANGED <<origin, delivered>>
      PROVE  Covered(n, id)'
  <2>1. /\ f.id \in PacketId /\ Take(p, f.id)
        /\ emitting' = emitting \cup {Kept(m, p, f)}
        /\ Kept(m, p, f).at = p /\ Kept(m, p, f).pkt = f
    BY <1>4, PacketParts, KeptParts DEF Accepted, TakeIn, Kept
  <2>2. /\ Given(n, id)' = Given(n, id)
        /\ Took(n, id) => Took(n, id)'
        /\ TookTwice(n, id) => TookTwice(n, id)'
    BY <1>4, <2>1, TookKeeps DEF Given
  <2>3. CASE p = n /\ f.id = id
    <3>1. Took(n, id)' /\ (Took(n, id) => TookTwice(n, id)')
      BY <2>1, <2>3, TookKeeps
    <3>2. CASE Took(n, id)
      BY <3>1, <3>2 DEF Covered
    <3>3. CASE ~ Took(n, id)
      <4>1. Given(n, id) = 0 /\ Pending(n, id) = {}
        BY <1>1, <3>3 DEF Covered
      <4>2. Given(n, id)' = 0 /\ \A x \in Pending(n, id)' : x = Kept(m, p, f)
        BY <2>1, <2>2, <4>1 DEF Pending
      <4>. QED BY <3>1, <4>2 DEF Covered
    <3>. QED BY <3>2, <3>3
  <2>4. CASE ~ (p = n /\ f.id = id)
    <3>1. Pending(n, id)' = Pending(n, id)
      BY <2>1, <2>4 DEF Pending
    <3>. QED BY <1>1, <2>2, <3>1 DEF Covered
  <2>. QED BY <2>3, <2>4
<1>5. ASSUME NEW e \in emitting, DeliverToApp(e), UNCHANGED <<packet_cache, origin, taken>>
      PROVE  Covered(n, id)'
  <2>1. /\ e.at \in Node /\ e.pkt.id \in PacketId
        /\ delivered'[n][id] = IF n = e.at /\ id = e.pkt.id
                                 THEN (IF delivered[n][id] = 0 THEN 1 ELSE 2)
                                 ELSE delivered[n][id]
    BY <1>5, DeliverParts
  <2>2. Pending(n, id)' = Pending(n, id) \ {e}
    BY <1>5 DEF DeliverToApp, Pending
  <2>3. Took(n, id)' = Took(n, id) /\ TookTwice(n, id)' = TookTwice(n, id)
    BY <1>5 DEF Took, TookTwice
  <2>4. CASE n = e.at /\ id = e.pkt.id
    <3>1. e \in Pending(n, id) /\ Took(n, id)
      BY <1>1, <2>4 DEF Pending, Covered
    <3>2. CASE TookTwice(n, id)
      BY <2>3, <3>1, <3>2 DEF Covered
    <3>3. CASE ~ TookTwice(n, id)
      <4>1. Given(n, id) = 0 /\ Pending(n, id) = {e}
        BY <1>1, <3>1, <3>3 DEF Covered
      <4>2. Given(n, id)' = 1
        <5>1. delivered[n][id] \in Nat /\ origin' = origin
          BY <1>5, GivenType
        <5>2. delivered[n][id] = 0 /\ origin[id] # n
          BY <4>1, <5>1 DEF Given
        <5>3. delivered'[n][id] = 1
          BY <2>1, <2>4, <5>2
        <5>. QED BY <5>1, <5>2, <5>3 DEF Given
      <4>3. Pending(n, id)' = {}
        BY <2>2, <4>1
      <4>. QED BY <2>3, <3>1, <4>2, <4>3 DEF Covered
    <3>. QED BY <3>2, <3>3
  <2>5. CASE ~ (n = e.at /\ id = e.pkt.id)
    <3>1. Given(n, id)' = Given(n, id)
      BY <1>5, <2>1, <2>5 DEF Given
    <3>. QED BY <1>1, <2>2, <2>3, <3>1 DEF Covered
  <2>. QED BY <2>4, <2>5
<1>6. ASSUME NEW p \in Node, NEW q \in Node,
             emitting' = {CutOff(e, p, q) : e \in emitting},
             UNCHANGED <<packet_cache, origin, delivered, taken>>
      PROVE  Covered(n, id)'
  <2>1. /\ Given(n, id)' = Given(n, id) /\ Took(n, id)' = Took(n, id)
        /\ TookTwice(n, id)' = TookTwice(n, id)
    BY <1>6 DEF Given, Took, TookTwice
  <2>2. \A x \in Pending(n, id)' : \E e \in Pending(n, id) : x = CutOff(e, p, q)
    <3>1. \A e \in emitting :
            CutOff(e, p, q).at = e.at /\ CutOff(e, p, q).pkt = e.pkt
      BY CutOffParts DEF TypeOK
    <3>. QED BY <1>6, <3>1 DEF Pending
  <2>3. /\ Pending(n, id)' # {} => Pending(n, id) # {}
        /\ (\E x, y \in Pending(n, id)' : x # y) => \E x, y \in Pending(n, id) : x # y
    BY <2>2
  <2>. QED BY <1>1, <2>1, <2>3 DEF Covered
<1>. QED BY <1>2, <1>3, <1>4, <1>5, <1>6, FloodCases

\* A cache that holds every id in use never lets one in again.
CacheHoldsAll == IsFiniteSet(PacketId) /\ Cardinality(PacketId) <= CACHE_SIZE

LEMMA NeverTwice ==
  ASSUME CacheHoldsAll, TypeOK, WindowInv, NEW n \in Node, NEW id \in PacketId
  PROVE  ~ TookTwice(n, id)
<1>. SUFFICES ASSUME NEW i \in DOMAIN taken[n], NEW j \in DOMAIN taken[n],
                     i < j, taken[n][i] = id, taken[n][j] = id
              PROVE  FALSE
  BY DEF TookTwice
<1>. DEFINE others == {taken[n][k] : k \in (i + 1)..(j - 1)} \ {taken[n][i]}
<1>1. taken[n] \in Seq(PacketId)
  BY DEF TypeOK
<1>2. Cardinality(others) >= CACHE_SIZE
  BY DEF WindowInv, Window
<1>3. others \in SUBSET (PacketId \ {id})
  <2>1. \A k \in (i + 1)..(j - 1) : taken[n][k] \in PacketId
    BY <1>1
  <2>. QED BY <2>1
<1>4. /\ IsFiniteSet(PacketId \ {id})
      /\ Cardinality(PacketId \ {id}) = Cardinality(PacketId) - 1
  BY FS_RemoveElement DEF CacheHoldsAll
<1>. HIDE DEF others
<1>5. Cardinality(others) <= Cardinality(PacketId \ {id}) /\ IsFiniteSet(others)
  BY <1>3, <1>4, FS_Subset
<1>6. Cardinality(PacketId) \in Nat /\ Cardinality(others) \in Nat /\ CACHE_SIZE \in Nat
  BY <1>5, FS_CardinalityType, RoutingAssumption DEF CacheHoldsAll
<1>. QED BY <1>2, <1>4, <1>5, <1>6 DEF CacheHoldsAll

\* So a packet is emitted for the first time, and comes from a neighbour.
LEMMA FloodStep ==
  ASSUME CacheHoldsAll, TypeOK, InFlood, WindowInv, TakenInv, [Next]_vars
  PROVE  [Flooding!Next]_<<origin, delivered>>
<1>1. CASE UNCHANGED <<origin, delivered>>
  BY <1>1
<1>2. ASSUME NEW n \in Node, NEW id \in PacketId,
             origin[id] = None, origin' = [origin EXCEPT ![id] = n],
             delivered' = delivered
      PROVE  Flooding!Next
  BY <1>2 DEF Flooding!Next, Flooding!Publish
<1>3. ASSUME NEW e \in emitting, DeliverToApp(e), origin' = origin
      PROVE  Flooding!Next
  <2>. DEFINE n == e.at
              id == e.pkt.id
  <2>1. n \in Node /\ e.from \in Node /\ id \in PacketId
    BY <1>3, DeliverParts
  <2>2. <<e.from, n>> \in Edge /\ Has(e.from, id) /\ origin[id] # None
    BY DEF InFlood
  <2>3. delivered' = [delivered EXCEPT ![n][id] = IF @ = 0 THEN 1 ELSE 2]
    BY <1>3 DEF DeliverToApp
  <2>4. Given(n, id) = 0
    <3>1. ~ TookTwice(n, id) /\ Covered(n, id)
      BY <2>1, NeverTwice DEF TakenInv
    <3>2. e \in Pending(n, id)
      BY DEF Pending
    <3>. QED BY <3>1, <3>2 DEF Covered
  <2>. HIDE DEF n, id
  <2>5. delivered[n][id] = 0 /\ origin[id] # n
    <3>1. delivered[n][id] \in Nat
      BY <2>1, GivenType
    <3>. QED BY <2>4, <3>1 DEF Given
  <2>6. delivered' = [delivered EXCEPT ![n][id] = 1]
    BY <2>3, <2>5
  <2>7. Flooding!Deliver(n, id)
    BY <1>3, <2>1, <2>2, <2>5, <2>6 DEF Flooding!Deliver, Has, Flooding!Has
  <2>. QED BY <2>1, <2>7 DEF Flooding!Next
<1>. QED BY <1>1, <1>2, <1>3, FloodCases

-----------------------------------------------------------------------------
(* The invariants, and what they imply *)

MeshInv ==
  /\ TypeOK /\ SoundInTransit /\ HonestNeverPunished
  /\ InFlood /\ WindowInv /\ TakenInv

LEMMA MeshInit ==
  ASSUME Init
  PROVE  MeshInv
<1>1. RouterTypeOK
  BY RoutingAssumption, TrustAssumption DEF Init, RouterInit, RouterTypeOK
<1>2. TypeOK
  BY <1>1, MeshAssumption DEF Init, TypeOK
<1>3. \A m, n \in Node : Frames(m, n) = {}
  <2>1. \A m, n \in Node : wire[m][n] = <<>>
    BY DEF Init
  <2>2. Cached(<<>>) = {}
    BY DEF Cached
  <2>. QED BY <2>1, <2>2 DEF Frames
<1>4. SoundInTransit /\ InFlood
  BY <1>3 DEF Init, SoundInTransit, InFlood
<1>5. HonestNeverPunished
  BY TrustAssumption DEF Init, RouterInit, HonestNeverPunished
<1>6. TakenInv
  <2>1. \A n \in Node, id \in PacketId : Given(n, id) = 0 /\ Pending(n, id) = {}
    BY MeshAssumption DEF Init, Given, Pending
  <2>. QED BY <2>1 DEF TakenInv, Covered
<1>7. WindowInv
  <2>1. \A n \in Node : packet_cache[n] = <<>> /\ taken[n] = <<>>
    BY DEF Init, RouterInit
  <2>2. Cached(<<>>) = {}
    BY DEF Cached
  <2>. QED BY <2>1, <2>2, EmptyCache DEF WindowInv
<1>. QED BY <1>2, <1>4, <1>5, <1>6, <1>7 DEF MeshInv

\* The inductive invariant of the mesh, for every topology, every capacity of
\* channels and caches and every number of packets.
THEOREM MeshInvariant == Spec => []MeshInv
<1>1. Init => MeshInv
  BY MeshInit
<1>2. ASSUME MeshInv, [Next]_vars PROVE MeshInv'
  BY <1>2, TypeKeeps, SoundKeeps, TrustKeeps, InFloodKeeps, WindowInvKeeps, TakenInvKeeps
     DEF MeshInv
<1>3. MeshInv /\ [Next]_vars => MeshInv'
  BY <1>2
<1>. QED BY <1>1, <1>3, PTL DEF Spec

\* Routers, wires and tasks stay well-formed.
THEOREM MeshTypeCorrect == Spec => []TypeOK
<1>1. MeshInv => TypeOK
  BY DEF MeshInv
<1>. QED BY <1>1, MeshInvariant, PTL

\* On every path the tag of a frame is that of the node it comes from.
THEOREM MeshMacChain == Spec => []MacChain
<1>1. MeshInv => MacChain
  <2>. SUFFICES ASSUME MeshInv PROVE MacChain
    OBVIOUS
  <2>1. \A m, n \in Node : \A i \in DOMAIN wire[m][n] : wire[m][n][i] \in Frames(m, n)
    BY DEF Frames, Cached
  <2>. QED BY <2>1 DEF MeshInv, SoundInTransit, Sound, MacChain
<1>. QED BY <1>1, MeshInvariant, PTL

\* No hop is free.
THEOREM MeshHopBudget == Spec => []HopBudget
<1>1. MeshInv => HopBudget
  <2>. SUFFICES ASSUME MeshInv PROVE HopBudget
    OBVIOUS
  <2>1. \A m, n \in Node : \A i \in DOMAIN wire[m][n] : wire[m][n][i] \in Frames(m, n)
    BY DEF Frames, Cached
  <2>. QED BY <2>1 DEF MeshInv, SoundInTransit, Sound, HopBudget
<1>. QED BY <1>1, MeshInvariant, PTL

\* Nodes that run this code keep their trust in each other.
THEOREM MeshHonestNeverPunished == Spec => []HonestNeverPunished
<1>1. MeshInv => HonestNeverPunished
  BY DEF MeshInv
<1>. QED BY <1>1, MeshInvariant, PTL

\* Whatever the size of the caches, and in whatever order readers emit, a node
\* gives its frontend a packet again only if its router took that packet twice
\* and as many others in between as its cache holds.
THEOREM MeshGivenAgainLate == Spec => []GivenAgainLate
<1>1. MeshInv => GivenAgainLate
  <2>. SUFFICES ASSUME MeshInv, NEW n \in Node, NEW id \in PacketId, Given(n, id) > 1
                PROVE  \E i, j \in DOMAIN taken[n] :
                         /\ i < j /\ taken[n][i] = id /\ taken[n][j] = id
                         /\ Cardinality({taken[n][k] : k \in (i + 1)..(j - 1)} \ {id})
                              >= CACHE_SIZE
    BY DEF GivenAgainLate
  <2>1. PICK i \in DOMAIN taken[n], j \in DOMAIN taken[n] :
          i < j /\ taken[n][i] = id /\ taken[n][j] = id
    BY DEF MeshInv, TakenInv, Covered, TookTwice
  <2>2. Cardinality({taken[n][k] : k \in (i + 1)..(j - 1)} \ {id}) >= CACHE_SIZE
    BY <2>1 DEF MeshInv, WindowInv, Window
  <2>. QED BY <2>1, <2>2
<1>. QED BY <1>1, MeshInvariant, PTL

\* With a replay cache for every id in use, the mesh is a flood that gives
\* each node each packet at most once.
THEOREM MeshImplementsFlood ==
  ASSUME CacheHoldsAll
  PROVE  Spec => ImplementsFlood
<1>1. Init => Flooding!Init
  BY DEF Init, Flooding!Init
<1>2. ASSUME MeshInv, [Next]_vars
      PROVE  [Flooding!Next]_<<origin, delivered>>
  BY <1>2, FloodStep DEF MeshInv
<1>3. MeshInv /\ [Next]_vars => [Flooding!Next]_<<origin, delivered>>
  BY <1>2
<1>. QED BY <1>1, <1>3, MeshInvariant, PTL DEF Spec, ImplementsFlood, Flooding!Spec

\* What a flood has delivered it has published, and not where it delivers it.
FloodInv ==
  /\ origin \in [PacketId -> Node \cup {None}]
  /\ delivered \in [Node -> [PacketId -> 0..1]]
  /\ \A n \in Node, id \in PacketId :
       origin[id] \in {n, None} => delivered[n][id] = 0

\* A flood gives every node every packet at most once, and never its own.
THEOREM FloodAtMostOnce == Flooding!Spec => []Flooding!AtMostOnce
<1>1. Flooding!Init => FloodInv
  BY DEF Flooding!Init, FloodInv
<1>2. ASSUME FloodInv, Flooding!Next
      PROVE  FloodInv'
  <2>1. ASSUME NEW n \in Node, NEW id \in PacketId, Flooding!Publish(n, id)
        PROVE  FloodInv'
    BY <1>2, <2>1 DEF FloodInv, Flooding!Publish
  <2>2. ASSUME NEW n \in Node, NEW id \in PacketId, Flooding!Deliver(n, id)
        PROVE  FloodInv'
    <3>1. /\ origin' = origin /\ origin[id] # None /\ origin[id] # n
          /\ delivered' = [delivered EXCEPT ![n][id] = 1]
      BY <2>2 DEF Flooding!Deliver, Flooding!Has
    <3>2. \A m \in Node, i \in PacketId :
            delivered'[m][i] = IF m = n /\ i = id THEN 1 ELSE delivered[m][i]
      BY <1>2, <3>1 DEF FloodInv
    <3>3. delivered' \in [Node -> [PacketId -> 0..1]]
      BY <1>2, <3>1 DEF FloodInv
    <3> QED
      BY <1>2, <3>1, <3>2, <3>3 DEF FloodInv
  <2>. QED BY <1>2, <2>1, <2>2 DEF Flooding!Next
<1>3. ASSUME FloodInv, UNCHANGED <<origin, delivered>>
      PROVE  FloodInv'
  BY <1>3 DEF FloodInv
<1>4. FloodInv => Flooding!AtMostOnce
  BY MeshAssumption DEF FloodInv, Flooding!AtMostOnce
<1>. QED BY <1>1, <1>2, <1>3, <1>4, PTL DEF Flooding!Spec

\* So the application of every node is given every packet at most once, and
\* never its own, as long as the replay cache holds every id in use.
THEOREM MeshDeliversOnce ==
  ASSUME CacheHoldsAll
  PROVE  Spec => []Flooding!AtMostOnce
BY MeshImplementsFlood, FloodAtMostOnce, PTL DEF ImplementsFlood
=============================================================================
