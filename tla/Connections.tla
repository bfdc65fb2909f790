---------------------------- MODULE Connections ----------------------------
(***************************************************************************)
(* How nodes come to have a writer for each other, and lose it: the dials  *)
(* of connect_to_peer, the two handlers of every connection                *)
(* (handle_connection, one per end), and peer_senders, the map every       *)
(* handler of a node shares (transport.rs).                                *)
(*                                                                         *)
(* Beacons and users start dials; nothing stops two of them, or one from   *)
(* each side, from leading to two connections of the same pair of nodes.   *)
(* A handler's steps are the stretches between its awaits and locks.  Its  *)
(* writer task lives as long as its sender is in peer_senders.  A dropped  *)
(* connection, or a process that ends, is seen by the other end only when  *)
(* its reader runs.  A record of conn is used again once both handlers of  *)
(* a connection have returned.                                             *)
(***************************************************************************)
EXTENDS Naturals, Sequences, FiniteSets

CONSTANTS
  Node,
  None,
  Addr,        \* the ip:port key of a handler that got no node id
  MAX_CONNS,   \* bound on connections at a time
  MAX_DIALS,   \* bound on dials of a node under way at a time
  MAX_MANUAL,  \* bound on dials a user starts (add_peer_manual)
  FRAMES,      \* what commands broadcast: "Data", or "Big" (over 65535 bytes)
  CHANNEL_CAP, \* frames of a channel (64)
  MAX_SENDS,   \* bound on broadcasts
  MAX_FAULTS   \* bound on failed dials, cuts and restarts

ASSUME ConnectionsAssumption ==
  /\ None \notin Node /\ None \notin Nat
  /\ Addr \notin Node
  /\ {MAX_CONNS, MAX_DIALS, MAX_MANUAL, MAX_SENDS, MAX_FAULTS,
      CHANNEL_CAP} \subseteq Nat
  /\ FRAMES \subseteq {"Data", "Big"}

VARIABLES
  conn,          \* conn[c]: connection c, or Unused
  peer_senders,  \* peer_senders[n][k]: connection whose channel n has under k
  saved,         \* saved[n]: peers n has stored from a Hello
  event,         \* event[n][p]: last connection event n's frontend got for p
  manual, sends, faults   \* spent so far

vars == <<conn, peer_senders, saved, event, manual, sends, faults>>

Conn == 1..MAX_CONNS
Key == Node \cup {Addr}
Frame == {"Hello", "Data", "Big"}
Stage == {"Dialing", "AwaitHello", "Registered", "Greeted", "Running",
          "Removed", "Done"}

\* dialer, acceptor; is the stream up; per end: what the handler is doing,
\* its peer_node_id, frames on their way to it, frames in its channel, and
\* whether its writer has failed.
Unused == [dialer |-> None, acceptor |-> None, up |-> FALSE,
           stage |-> [n \in Node |-> "Done"], key |-> [n \in Node |-> Addr],
           wire |-> [n \in Node |-> <<>>], chan |-> [n \in Node |-> <<>>],
           mute |-> [n \in Node |-> FALSE]]

TypeOK ==
  /\ conn \in [Conn -> [dialer : Node \cup {None}, acceptor : Node \cup {None},
                        up : BOOLEAN, stage : [Node -> Stage], key : [Node -> Key],
                        wire : [Node -> Seq(Frame)], chan : [Node -> Seq(Frame)],
                        mute : [Node -> BOOLEAN]]]
  /\ \A c \in Conn, n \in Node : Len(conn[c].chan[n]) <= CHANNEL_CAP
  /\ peer_senders \in [Node -> [Key -> Conn \cup {None}]]
  /\ saved \in [Node -> SUBSET Node]
  /\ event \in [Node -> [Node -> {"none", "connecting", "failed", "connected",
                                  "disconnected"}]]
  /\ manual \in 0..MAX_MANUAL /\ sends \in 0..MAX_SENDS /\ faults \in 0..MAX_FAULTS

Init ==
  /\ conn = [c \in Conn |-> Unused]
  /\ peer_senders = [n \in Node |-> [k \in Key |-> None]]
  /\ saved = [n \in Node |-> {}]
  /\ event = [n \in Node |-> [p \in Node |-> "none"]]
  /\ manual = 0 /\ sends = 0 /\ faults = 0

Ends(c) == {conn[c].dialer, conn[c].acceptor} \ {None}
Other(c, n) == CHOOSE p \in Ends(c) : p # n
At(c, n, stage) == n \in Ends(c) /\ conn[c].stage[n] = stage

Unspent == UNCHANGED <<manual, sends, faults>>

\* Both handlers of a connection have returned.
Freed(r) == IF \A n \in Node : r.stage[n] = "Done" THEN Unused ELSE r

Goto(c, n, stage) == conn' = [conn EXCEPT ![c].stage[n] = stage]

\* The event, and the status the frontend gives the peer.
Emit(n, p, e) ==
  event' = IF p \in Node THEN [event EXCEPT ![n][p] = e] ELSE event

-----------------------------------------------------------------------------
(* connect_to_peer *)

\* The duplicate check, under the lock of peer_senders.
NotConnected(n, p, hint) ==
  /\ hint => peer_senders[n][p] = None
  /\ peer_senders[n][Addr] = None

UnderWay(n) ==
  {c \in Conn : conn[c].dialer = n /\ conn[c].stage[n] \in {"Dialing", "AwaitHello"}}

\* hint: the node id is known, from a beacon.
Dial(n, p, hint) ==
  /\ n # p
  /\ NotConnected(n, p, hint)
  /\ Cardinality(UnderWay(n)) < MAX_DIALS
  /\ \E c \in Conn :
       /\ conn[c] = Unused
       /\ \A d \in 1..(c - 1) : conn[d] # Unused
       /\ conn' = [conn EXCEPT ![c] = [Unused EXCEPT !.dialer = n, !.acceptor = p,
                                                     !.stage[n] = "Dialing"]]
  /\ Emit(n, p, "connecting")
  /\ UNCHANGED <<peer_senders, saved>>

\* A beacon of p reaches n: "connect_to_peer".
Beacon(n, p) == Dial(n, p, TRUE) /\ Unspent

DialManual(n, p) ==
  /\ manual < MAX_MANUAL
  /\ manual' = manual + 1
  /\ Dial(n, p, FALSE)
  /\ UNCHANGED <<sends, faults>>

\* Refused, or no answer for 5 s.
DialFails(c, n) ==
  /\ At(c, n, "Dialing")
  /\ faults < MAX_FAULTS
  /\ faults' = faults + 1
  /\ conn' = [conn EXCEPT ![c] = Unused]
  /\ Emit(n, conn[c].acceptor, "failed")
  /\ UNCHANGED <<peer_senders, saved, manual, sends>>

\* The dialer sends its Hello; each end starts its handler.
Established(c, n) ==
  /\ At(c, n, "Dialing")
  /\ LET p == conn[c].acceptor
     IN  conn' = [conn EXCEPT ![c].up = TRUE,
                              ![c].stage[n] = "AwaitHello",
                              ![c].stage[p] = "AwaitHello",
                              ![c].wire[p] = <<"Hello">>]
  /\ Unspent
  /\ UNCHANGED <<peer_senders, saved, event>>

-----------------------------------------------------------------------------
(* handle_connection at n *)

\* The first frame names the peer; the sender goes into the map, over the
\* one of another connection of the same peer.
Register(c, n) ==
  /\ At(c, n, "AwaitHello")
  /\ conn[c].wire[n] # <<>>
  /\ LET key == IF Head(conn[c].wire[n]) = "Hello" THEN Other(c, n) ELSE Addr
     IN  /\ conn' = [conn EXCEPT ![c].stage[n] = "Registered", ![c].key[n] = key,
                                 ![c].wire[n] = Tail(@)]
         /\ peer_senders' = [peer_senders EXCEPT ![n][key] = c]
  /\ Unspent
  /\ UNCHANGED <<saved, event>>

\* The stream ends before the Hello.
NoHello(c, n) ==
  /\ At(c, n, "AwaitHello")
  /\ ~ conn[c].up /\ conn[c].wire[n] = <<>>
  /\ conn' = [conn EXCEPT ![c] = Freed([@ EXCEPT !.stage[n] = "Done"])]
  /\ Unspent
  /\ UNCHANGED <<peer_senders, saved, event>>

\* Its Hello in reply; an error is ignored.
Greet(c, n) ==
  /\ At(c, n, "Registered")
  /\ conn' = [conn EXCEPT ![c].stage[n] = "Greeted",
                          ![c].wire[Other(c, n)] =
                             IF conn[c].up THEN Append(@, "Hello") ELSE @]
  /\ Unspent
  /\ UNCHANGED <<peer_senders, saved, event>>

\* "peer_connected"; then the writer task and the reader loop start.
Announce(c, n) ==
  /\ At(c, n, "Greeted")
  /\ Goto(c, n, "Running")
  /\ Emit(n, conn[c].key[n], "connected")
  /\ Unspent
  /\ UNCHANGED <<peer_senders, saved>>

\* What send_raw_packet makes of the next frame of the channel.
Written(r, n, p) ==
  IF Head(r.chan[n]) = "Big"
    THEN [r EXCEPT !.mute[n] = TRUE, !.chan[n] = <<>>]
    ELSE [r EXCEPT !.chan[n] = Tail(@), !.wire[p] = Append(@, Head(r.chan[n]))]

\* Fault: the writer task starts as soon as the sender is in the map.
WriteAtOnce(c, n) ==
  /\ n \in Ends(c) /\ conn[c].stage[n] \in {"Registered", "Greeted", "Running"}
  /\ conn[c].up /\ conn[c].chan[n] # <<>>
  /\ conn' = [conn EXCEPT ![c] = Written(@, n, Other(c, n))]
  /\ Unspent
  /\ UNCHANGED <<peer_senders, saved, event>>

Write(c, n) ==
  /\ At(c, n, "Running")
  /\ conn[c].up /\ conn[c].chan[n] # <<>>
  /\ conn' = [conn EXCEPT ![c] = Written(@, n, Other(c, n))]
  /\ Unspent
  /\ UNCHANGED <<peer_senders, saved, event>>

\* process_incoming_packet; a Hello is stored and emits "peer_handshaked".
Read(c, n) ==
  /\ At(c, n, "Running")
  /\ conn[c].wire[n] # <<>>
  /\ conn' = [conn EXCEPT ![c].wire[n] = Tail(@)]
  /\ IF Head(conn[c].wire[n]) = "Hello"
       THEN /\ saved' = [saved EXCEPT ![n] = @ \cup {Other(c, n)}]
            /\ Emit(n, Other(c, n), "connected")
       ELSE UNCHANGED <<saved, event>>
  /\ Unspent
  /\ UNCHANGED peer_senders

\* Fault: the sender is left in the map.
ReaderEndsOnly(c, n) ==
  /\ At(c, n, "Running")
  /\ ~ conn[c].up /\ conn[c].wire[n] = <<>>
  /\ Goto(c, n, "Removed")
  /\ Unspent
  /\ UNCHANGED <<peer_senders, saved, event>>

\* The reader loop ends; whatever is in the map under its key goes.
ReaderEnds(c, n) ==
  /\ At(c, n, "Running")
  /\ ~ conn[c].up /\ conn[c].wire[n] = <<>>
  /\ Goto(c, n, "Removed")
  /\ peer_senders' = [peer_senders EXCEPT ![n][conn[c].key[n]] = None]
  /\ Unspent
  /\ UNCHANGED <<saved, event>>

\* Fault: nothing is emitted while there is another connection of the two.
DisconnectedOfLast(c, n) ==
  /\ At(c, n, "Removed")
  /\ conn' = [conn EXCEPT ![c] = Freed([@ EXCEPT !.stage[n] = "Done"])]
  /\ IF \E d \in Conn \ {c} : Ends(d) = Ends(c)
       THEN UNCHANGED event
       ELSE Emit(n, conn[c].key[n], "disconnected")
  /\ Unspent
  /\ UNCHANGED <<peer_senders, saved>>

\* "peer_disconnected"; the handler returns.
Disconnected(c, n) ==
  /\ At(c, n, "Removed")
  /\ conn' = [conn EXCEPT ![c] = Freed([@ EXCEPT !.stage[n] = "Done"])]
  /\ Emit(n, conn[c].key[n], "disconnected")
  /\ Unspent
  /\ UNCHANGED <<peer_senders, saved>>

-----------------------------------------------------------------------------
(* Commands and faults *)

TrySendUnbounded(r, n, frame) ==
  IF r.up /\ ~ r.mute[n] THEN [r EXCEPT !.chan[n] = Append(@, frame)] ELSE r

\* try_send: nothing happens to a full channel, or without a receiver.
TrySend(r, n, frame) ==
  IF r.up /\ ~ r.mute[n] /\ Len(r.chan[n]) < CHANNEL_CAP
    THEN [r EXCEPT !.chan[n] = Append(@, frame)]
    ELSE r

\* Fault: the channels of broadcast_packet have no capacity.
SendUnbounded(n, frame) ==
  /\ sends < MAX_SENDS
  /\ sends' = sends + 1
  /\ conn' = [c \in Conn |-> IF \E k \in Key : peer_senders[n][k] = c
                               THEN TrySendUnbounded(conn[c], n, frame)
                               ELSE conn[c]]
  /\ UNCHANGED <<peer_senders, saved, event, manual, faults>>

\* broadcast_packet: to every sender of the map.
Send(n, frame) ==
  /\ sends < MAX_SENDS
  /\ sends' = sends + 1
  /\ conn' = [c \in Conn |-> IF \E k \in Key : peer_senders[n][k] = c
                               THEN TrySend(conn[c], n, frame)
                               ELSE conn[c]]
  /\ UNCHANGED <<peer_senders, saved, event, manual, faults>>

\* The stream of r breaks; what is on its way still reaches the ends of got.
Broken(r, got) ==
  [r EXCEPT !.up = FALSE,
            !.wire = [n \in Node |-> IF n \in got THEN r.wire[n] ELSE <<>>],
            !.chan = [n \in Node |-> <<>>]]

Cut(c) ==
  /\ faults < MAX_FAULTS
  /\ conn[c].up
  /\ faults' = faults + 1
  /\ \E got \in SUBSET Ends(c) : conn' = [conn EXCEPT ![c] = Broken(@, got)]
  /\ UNCHANGED <<peer_senders, saved, event, manual, sends>>

\* The process of n ends and starts again; its peers may still read what it
\* has written.
Restart(n) ==
  /\ faults < MAX_FAULTS
  /\ faults' = faults + 1
  /\ \E got \in SUBSET (Node \ {n}) :
       conn' = [c \in Conn |->
                  IF n \in Ends(c)
                    THEN Freed([Broken(conn[c], got) EXCEPT !.stage[n] = "Done"])
                    ELSE conn[c]]
  /\ peer_senders' = [peer_senders EXCEPT ![n] = [k \in Key |-> None]]
  /\ event' = [event EXCEPT ![n] = [p \in Node |-> "none"]]
  /\ UNCHANGED <<saved, manual, sends>>

Step(c, n) ==
  \/ Established(c, n) \/ Register(c, n) \/ NoHello(c, n) \/ Greet(c, n)
  \/ Announce(c, n) \/ Write(c, n) \/ Read(c, n)
  \/ ReaderEnds(c, n) \/ Disconnected(c, n)

Next ==
  \/ \E n, p \in Node : Beacon(n, p) \/ DialManual(n, p)
  \/ \E c \in Conn, n \in Node : Step(c, n) \/ DialFails(c, n)
  \/ \E n \in Node, frame \in FRAMES : Send(n, frame)
  \/ \E c \in Conn : Cut(c)
  \/ \E n \in Node : Restart(n)

Spec == Init /\ [][Next]_vars

\* Beacons come every 5 s as long as both processes run, a dial that does
\* not fail succeeds, and tokio runs every handler that can go on.
Fairness ==
  /\ \A n, p \in Node : WF_vars(Beacon(n, p))
  /\ \A c \in Conn, n \in Node : WF_vars(Step(c, n))

FairSpec == Spec /\ Fairness

-----------------------------------------------------------------------------
(* The first frame of a stream is the Hello, though commands may queue     *)
(* frames from the moment the sender is in the map: no handler of two      *)
(* nodes that run this code is keyed by address.                           *)
KeyedByNodeId ==
  \A c \in Conn : \A n \in Ends(c) :
    conn[c].stage[n] \in {"Registered", "Greeted", "Running", "Removed"} =>
      conn[c].key[n] = Other(c, n)

(* A sender in the map belongs to a connection with that peer whose reader *)
(* at this end has not ended, and that, while the stream is up, has a      *)
(* handler at the other end to read what is sent: however connections      *)
(* overlap, break and are used again, no entry outlives its connection.    *)
EntryHasReaders ==
  \A n, p \in Node : \A c \in Conn :
    peer_senders[n][p] = c =>
      /\ Ends(c) = {n, p}
      /\ conn[c].stage[n] \in {"Registered", "Greeted", "Running"}
      /\ conn[c].up => conn[c].stage[p] # "Done"

(* The frontend shows a peer as connected, and lets the user send to it,   *)
(* only while a handler of a connection with it has still to end: however  *)
(* the events of several dials and connections overtake each other, the    *)
(* last one of a peer that is gone is never "peer_connected".              *)
ShownWhileConnected ==
  \A n, p \in Node : event[n][p] = "connected" =>
    \E c \in Conn : Ends(c) = {n, p} /\ conn[c].stage[n] \in {"Running", "Removed"}

HasWriter(n, c) == conn[c].up /\ ~ conn[c].mute[n]

Linked ==
  \A n, p \in Node : n # p =>
    \E c \in Conn : peer_senders[n][p] = c /\ HasWriter(n, c)

(* Once cuts and restarts stop, the beacons repair what they broke: every  *)
(* node ends up with a sender on a live connection to every other.         *)
EventuallyLinked == <>[]Linked

(* commands.rs:1287: a file of up to 5 MB can be sent.  So a sender in the *)
(* map of a live stream still has its writer.                              *)
EntryHasWriter ==
  \A n, p \in Node : \A c \in Conn :
    (peer_senders[n][p] = c /\ conn[c].up) => HasWriter(n, c)
=============================================================================
