------------------------------ MODULE PeerBook -------------------------------
(***************************************************************************)
(* The peers table of every node and what is dialled from it.  Rows are    *)
(* written by beacons (discovery.rs), by the Hello an acceptor reads in    *)
(* its reader loop (transport.rs) and by connect_via_tor; they are read    *)
(* by reconnect_known_peers and by the redials that follow a Tor           *)
(* bootstrap (commands.rs, state.rs).  Nodes move between two networks,    *)
(* the router's and an emergency hotspot's, addresses are given out again, *)
(* links break and processes restart; the table stays.                     *)
(*                                                                         *)
(* A link is a pair of nodes that are in each other's peer_senders; module *)
(* Connections has the steps by which it comes and goes.  The display name *)
(* and last_seen of a row are left out, and onion says whether the onion   *)
(* address of the peer, which never changes, is in the row.                *)
(***************************************************************************)
EXTENDS Naturals, FiniteSets

CONSTANTS
  Node,
  Ip,
  None,
  Hotspot,   \* the addresses of the hotspot's network; the rest: the router's
  Home,      \* Home[n]: n's address at first
  MAX_ACTS   \* bound on user commands, moves, cuts, restarts, lost datagrams
             \* and failed dials

ASSUME PeerBookAssumption ==
  /\ None \notin Node \cup Ip
  /\ Node \cap Ip = {}
  /\ Hotspot \subseteq Ip
  /\ Home \in [Node -> Ip]
  /\ \A n, p \in Node : n # p => Home[n] # Home[p]
  /\ MAX_ACTS \in Nat

VARIABLES
  ip,       \* ip[n]: n's LAN address, None without a network
  book,     \* book[n][p]: n's row of p
  links,    \* pairs of connected nodes
  beacons,  \* datagrams on their way
  dials,    \* calls of connect_to_peer and connect_to_tor_peer past their check
  hellos,   \* Hellos on their way to the reader loop of an acceptor
  tor,      \* tor[n]: n's Tor state
  greeted,  \* greeted[n]: nodes whose Hello n has stored
  acts      \* spent so far

vars == <<ip, book, links, beacons, dials, hellos, tor, greeted, acts>>

\* The data port, the virtual port of the onion service, and any other: what
\* the socket of a dialer was given.
Port == {"Data", "Tor", "Ephemeral"}

\* A trust of 1.0 or 2.0; 0 and no port: there is no row.
Row == [ip : Ip \cup {None}, port : Port \cup {None}, onion : BOOLEAN, trust : 0..2]
NoRow == [ip |-> None, port |-> None, onion |-> FALSE, trust |-> 0]

Beacon == [from : Node, to : Node, ip : Ip]
Dialing == [by : Node, to : Ip \cup Node, port : Port]
Hello == [at : Node, of : Node, ip : Ip \cup {None}, via : {"Lan", "Tor"}]

TypeOK ==
  /\ ip \in [Node -> Ip \cup {None}]
  /\ book \in [Node -> [Node -> Row]]
  /\ \A l \in links : \E n, p \in Node : l = {n, p}
  /\ beacons \subseteq Beacon
  /\ dials \subseteq Dialing
  /\ hellos \subseteq Hello
  /\ tor \in [Node -> {"Bootstrapping", "Ready", "Failed"}]
  /\ greeted \in [Node -> SUBSET Node]
  /\ acts \in 0..MAX_ACTS

Init ==
  /\ ip = Home
  /\ book = [n \in Node |-> [p \in Node |-> NoRow]]
  /\ links = {} /\ beacons = {} /\ dials = {} /\ hellos = {}
  /\ tor = [n \in Node |-> "Bootstrapping"]
  /\ greeted = [n \in Node |-> {}]
  /\ acts = 0

Spend == acts < MAX_ACTS /\ acts' = acts + 1

SameLan(n, p) ==
  /\ ip[n] # None /\ ip[p] # None
  /\ (ip[n] \in Hotspot) = (ip[p] \in Hotspot)

\* What the two dial functions look up in peer_senders first, when they are told
\* whom they dial.  They give the lock back, dial, on Tor for up to minutes, and
\* do not look again; here they look in the step that calls them.  An address is
\* no key of the map (see Connections).
Linked(n, p) == {n, p} \in links

Known(n) == {p \in Node : book[n][p] # NoRow}

-----------------------------------------------------------------------------
(* upsert_peer *)

\* Fault: every column is overwritten.
UpsertAll(n, p, row) == book' = [book EXCEPT ![n][p] = row]

\* Fault: the port of an address that is known is kept.
UpsertKeepPort(n, p, row) ==
  book' = [book EXCEPT ![n][p] =
             [ip    |-> IF row.ip = None THEN @.ip ELSE row.ip,
              port  |-> IF @ = NoRow THEN row.port ELSE @.port,
              onion |-> row.onion \/ @.onion,
              trust |-> row.trust]]

\* An empty ip or onion address does not overwrite the old one.
Upsert(n, p, row) ==
  book' = [book EXCEPT ![n][p] =
             [ip    |-> IF row.ip = None THEN @.ip ELSE row.ip,
              port  |-> row.port,
              onion |-> row.onion \/ @.onion,
              trust |-> row.trust]]

-----------------------------------------------------------------------------
(* start_broadcaster, start_listener *)

\* To every node of the network; the sender's own listener skips it.
SendBeacon(n) ==
  /\ beacons' = beacons \cup
       {[from |-> n, to |-> p, ip |-> ip[n]] : p \in {q \in Node \ {n} : SameLan(n, q)}}
  /\ UNCHANGED <<ip, book, links, dials, hellos, tor, greeted, acts>>

\* save_peer_from_beacon, then "connect_to_peer"
ReceiveBeacon(b) ==
  /\ beacons' = beacons \ {b}
  /\ Upsert(b.to, b.from,
            [ip |-> b.ip, port |-> "Data", onion |-> FALSE, trust |-> 1])
  /\ dials' = IF Linked(b.to, b.from) THEN dials
              ELSE dials \cup {[by |-> b.to, to |-> b.ip, port |-> "Data"]}
  /\ UNCHANGED <<ip, links, hellos, tor, greeted, acts>>

LoseBeacon(b) ==
  /\ Spend
  /\ beacons' = beacons \ {b}
  /\ UNCHANGED <<ip, book, links, dials, hellos, tor, greeted>>

-----------------------------------------------------------------------------
(* connect_to_peer, connect_to_tor_peer *)

\* Who answers at the address: nothing stops a node from reaching itself.
Reached(d) ==
  {p \in Node : \/ d.to = p /\ tor[p] = "Ready"
                \/ d.to = ip[p] /\ d.port = "Data" /\ SameLan(d.by, p)}

\* Each end sends a Hello when it has read one, the dialer also at once: the
\* one Hello that is left for a reader loop is the dialer's second.
Connect(d) ==
  /\ \E p \in Reached(d) :
       /\ links' = links \cup {{d.by, p}}
       /\ hellos' = hellos \cup
            {[at |-> p, of |-> d.by, ip |-> ip[d.by],
              via |-> IF d.to \in Node THEN "Tor" ELSE "Lan"]}
  /\ dials' = dials \ {d}
  /\ UNCHANGED <<ip, book, beacons, tor, greeted, acts>>

\* Refused, or the last of the attempts of connect_to_tor_peer.
DialFails(d) ==
  /\ Reached(d) = {}
  /\ dials' = dials \ {d}
  /\ UNCHANGED <<ip, book, links, beacons, hellos, tor, greeted, acts>>

\* The same, though somebody is there.
DialTimesOut(d) ==
  /\ Spend
  /\ dials' = dials \ {d}
  /\ UNCHANGED <<ip, book, links, beacons, hellos, tor, greeted>>

\* Fault: the ip column takes what the frontend is shown as the host.
SaveDisplayHost(h) ==
  /\ hellos' = hellos \ {h}
  /\ Upsert(h.at, h.of,
            IF h.via = "Lan"
              THEN [ip |-> h.ip, port |-> "Ephemeral", onion |-> FALSE, trust |-> 2]
              ELSE [ip |-> "tor", port |-> "Tor", onion |-> FALSE, trust |-> 2])
  /\ greeted' = [greeted EXCEPT ![h.at] = @ \cup {h.of}]
  /\ UNCHANGED <<ip, links, beacons, dials, tor, acts>>

\* save_peer_from_hello; a stream into the onion service has no address.
SaveFromHello(h) ==
  /\ hellos' = hellos \ {h}
  /\ Upsert(h.at, h.of,
            IF h.via = "Lan"
              THEN [ip |-> h.ip, port |-> "Ephemeral", onion |-> FALSE, trust |-> 2]
              ELSE [ip |-> None, port |-> "Tor", onion |-> FALSE, trust |-> 2])
  /\ greeted' = [greeted EXCEPT ![h.at] = @ \cup {h.of}]
  /\ UNCHANGED <<ip, links, beacons, dials, tor, acts>>

-----------------------------------------------------------------------------
(* Commands *)

DialAll(new) ==
  /\ Spend
  /\ dials' = dials \cup new
  /\ UNCHANGED <<ip, book, links, beacons, hellos, tor, greeted>>

\* Also with the address of an invite code; the port may be anything.
AddPeerManual(n, i) ==
  DialAll({[by |-> n, to |-> i, port |-> "Data"]})

ReconnectKnownPeers(n) ==
  DialAll({[by |-> n, to |-> book[n][p].ip, port |-> book[n][p].port] :
            p \in {q \in Node : book[n][q].ip # None /\ ~ Linked(n, q)}})

\* Every address of the hotspot's network that answers on the data port.
ScanEmergencyNetwork(n) ==
  DialAll({[by |-> n, to |-> i, port |-> "Data"] :
            i \in {ip[p] : p \in {q \in Node : SameLan(n, q)}} \cap Hotspot})

\* Fault: a peer somebody vouches for is trusted like one that said Hello.
ConnectViaTorTrusting(n, p) ==
  /\ Spend
  /\ tor[n] = "Ready"
  /\ Upsert(n, p, [ip |-> None, port |-> "Tor", onion |-> TRUE, trust |-> 2])
  /\ dials' = IF Linked(n, p) THEN dials
              ELSE dials \cup {[by |-> n, to |-> p, port |-> "Tor"]}
  /\ UNCHANGED <<ip, links, beacons, hellos, tor, greeted>>

\* With the node id of an invite code the row is written before the dial;
\* nothing stops the user from pasting the code of the node itself.
ConnectViaTor(n, p) ==
  /\ Spend
  /\ tor[n] = "Ready"
  /\ Upsert(n, p, [ip |-> None, port |-> "Tor", onion |-> TRUE,
                   trust |-> IF p \in Known(n) THEN book[n][p].trust ELSE 1])
  /\ dials' = IF Linked(n, p) THEN dials
              ELSE dials \cup {[by |-> n, to |-> p, port |-> "Tor"]}
  /\ UNCHANGED <<ip, links, beacons, hellos, tor, greeted>>

\* With an onion address alone nothing is stored.
ConnectToOnion(n, p) ==
  /\ tor[n] = "Ready"
  /\ DialAll({[by |-> n, to |-> p, port |-> "Tor"]})

\* The bootstrap ends, and the onion addresses in the table are dialled.
TorReady(n) ==
  /\ tor[n] = "Bootstrapping"
  /\ tor' = [tor EXCEPT ![n] = "Ready"]
  /\ dials' = dials \cup
       {[by |-> n, to |-> p, port |-> "Tor"] :
         p \in {q \in Node : book[n][q].onion /\ ~ Linked(n, q)}}
  /\ UNCHANGED <<ip, book, links, beacons, hellos, greeted, acts>>

TorFails(n) ==
  /\ Spend
  /\ tor[n] = "Bootstrapping"
  /\ tor' = [tor EXCEPT ![n] = "Failed"]
  /\ UNCHANGED <<ip, book, links, beacons, dials, hellos, greeted>>

-----------------------------------------------------------------------------
(* The surroundings *)

\* The links in cut break; Hellos already written may still be read.
Break(cut) ==
  /\ links' = links \ cut
  /\ hellos' \in {hellos, {h \in hellos : {h.at, h.of} \notin cut}}

\* n changes its network, or loses it, or is given another address.
Move(n, i) ==
  /\ Spend
  /\ i \notin {ip[p] : p \in Node} \ {None}
  /\ ip' = [ip EXCEPT ![n] = i]
  /\ Break({l \in links : n \in l})
  /\ UNCHANGED <<book, beacons, dials, tor, greeted>>

Cut(l) ==
  /\ Spend
  /\ Break({l})
  /\ UNCHANGED <<ip, book, beacons, dials, tor, greeted>>

\* The process of n ends and starts again.
Restart(n) ==
  /\ Spend
  /\ links' = {l \in links : n \notin l}
  /\ hellos' \in {{h \in hellos : h.at # n},
                  {h \in hellos : n \notin {h.at, h.of}}}
  /\ beacons' = {b \in beacons : b.to # n}
  /\ dials' = {d \in dials : d.by # n}
  /\ tor' = [tor EXCEPT ![n] = "Bootstrapping"]
  /\ UNCHANGED <<ip, book, greeted>>

Receive(n, p) == \E b \in beacons : b.to = n /\ b.from = p /\ ReceiveBeacon(b)

RunDial(n) == \E d \in dials : d.by = n /\ (Connect(d) \/ DialFails(d))

Store(n) == \E h \in hellos : h.at = n /\ SaveFromHello(h)

UserDials(n) ==
  \/ \E i \in Ip : AddPeerManual(n, i)
  \/ ReconnectKnownPeers(n)
  \/ ScanEmergencyNetwork(n)
  \/ \E p \in Node : ConnectViaTor(n, p) \/ ConnectToOnion(n, p)

Next ==
  \/ \E n \in Node : SendBeacon(n) \/ RunDial(n) \/ Store(n)
  \/ \E n, p \in Node : Receive(n, p)
  \/ \E n \in Node : UserDials(n) \/ TorReady(n) \/ TorFails(n) \/ Restart(n)
  \/ \E n \in Node, i \in Ip \cup {None} : Move(n, i)
  \/ \E b \in beacons : LoseBeacon(b)
  \/ \E d \in dials : DialTimesOut(d)
  \/ \E l \in links : Cut(l)

Spec == Init /\ [][Next]_vars

\* The broadcaster sends every 5 s, the socket of the listener is a queue,
\* every task spawned runs, and a Hello that was written arrives.
FairSpec ==
  /\ Spec
  /\ \A n \in Node : WF_vars(SendBeacon(n)) /\ WF_vars(RunDial(n)) /\ WF_vars(Store(n))
  /\ \A n, p \in Node : WF_vars(Receive(n, p))

-----------------------------------------------------------------------------
(* store.rs:381: a peer may be known by its LAN address and its onion      *)
(* address at once, and both have to stay stored.  Whatever beacons,       *)
(* Hellos and invites come in whatever order, and across restarts, a row   *)
(* never loses an address it has.                                          *)
AddressesKept ==
  [][\A n, p \in Node :
       /\ book[n][p].ip # None => book'[n][p].ip # None
       /\ book[n][p].onion => book'[n][p].onion]_vars

(* discovery.rs:332: trust is low until a handshake has confirmed who the  *)
(* peer is.  No path through beacons, invites and the copying of an old    *)
(* row raises it before.                                                   *)
TrustNeedsHello ==
  \A n, p \in Node : book[n][p].trust = 2 => p \in greeted[n]

(* Once moves, cuts, commands and restarts stop, two nodes of one network  *)
(* end up linked, and each with a row of the other that can be dialled:    *)
(* its present address and its data port, whatever a Hello, a late beacon  *)
(* or an invite has written before.                                        *)
EventuallyDialable ==
  <>[](\A n, p \in Node : n # p /\ SameLan(n, p) =>
         /\ {n, p} \in links
         /\ book[n][p].ip = ip[p] /\ book[n][p].port = "Data")
=============================================================================
