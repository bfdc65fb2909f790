------------------------------ MODULE Session -------------------------------
(***************************************************************************)
(* End-to-end sessions: send_dm and send_file on one side, try_decrypt_    *)
(* packet and try_decrypt_file_packet on the other, over the two columns   *)
(* of the sessions table, msg_counter and recv_counter_hint.               *)
(*                                                                         *)
(* A command runs without the state lock; each of its lock sections on the *)
(* database is a step, and commands, crashes and database errors come      *)
(* between steps.  Each node has a clock of its own.  The DM key of a      *)
(* packet is determined by its direction and counter (session_id is a      *)
(* function of the two nodes), so a receiver that tries a counter opens    *)
(* exactly the packets sent with it.  The mesh in between delivers to a    *)
(* node at most once (module Mesh), in any order, or not at all.           *)
(***************************************************************************)
EXTENDS Integers, FiniteSets

CONSTANTS
  Node,
  Command,        \* send commands; each is one packet, so also packet ids
  FileCommand,    \* those of them that are send_file, not send_dm
  WINDOW_BACK,    \* counters tried below the hint (5)
  WINDOW_AHEAD,   \* counters tried from the hint on (60)
  MAX_AGE,        \* seconds a nonce may differ from the clock (300)
  ID_SCALE,       \* the factor of the clock in the id of a sent row (1000)
  MAX_TIME,       \* bound on the clocks
  MAX_FAULTS      \* bound on crashes and database errors

ASSUME SessionAssumption ==
  /\ FileCommand \subseteq Command
  /\ {WINDOW_BACK, MAX_AGE, MAX_TIME, MAX_FAULTS} \subseteq Nat
  /\ {WINDOW_AHEAD, ID_SCALE} \subseteq Nat \ {0}

VARIABLES
  now,          \* now[n]: n's clock, in seconds
  msg_counter,  \* msg_counter[n][p]: n's next counter towards p
  recv_hint,    \* recv_hint[n][p]: n's recv_counter_hint for p
  peers,        \* peers[n]: nodes in n's peers table
  messages,     \* messages[n]: rows of n's messages table
  sending,      \* [pkt, step]: commands under way
  started,      \* commands invoked so far
  network,      \* packets on their way; one that is lost, or given to a call
                \* in which get_all_peers fails, is never taken out
  decrypting,   \* [pkt, lookup, start, end, raised]: calls of try_decrypt
                \* under way
  sent,         \* packets broadcast so far
  raised,       \* packets that bump_recv_counter_hint was done for so far
  overlapped,   \* directions in which two commands held the same counter
  faults        \* crashes and database errors so far

vars == <<now, msg_counter, recv_hint, peers, messages, sending, started,
          network, decrypting, sent, raised, overlapped, faults>>

Packet == [id : Command, from : Node, to : Node, kind : {"Dm", "File"},
           counter : Nat, time : Nat]

Row == [id : Node \X Nat, pkt : Packet, counter : Nat]

\* What a call finds of the sender: no row in peers, or its session and its
\* hint, unless the query of one of them fails.
Lookup == {"Unknown", "NoSession", "NoHint", "Found"}

Call == [pkt : Packet, lookup : Lookup, start : Nat, end : Nat, raised : SUBSET Nat]

SameDirection(p, q) == p.from = q.from /\ p.to = q.to

TypeOK ==
  /\ now \in [Node -> 0..MAX_TIME]
  /\ msg_counter \in [Node -> [Node -> Nat]]
  /\ recv_hint \in [Node -> [Node -> Nat]]
  /\ peers \in [Node -> SUBSET Node]
  /\ messages \in [Node -> SUBSET Row]
  /\ sending \in SUBSET [pkt : Packet, step : {"Encrypted", "Saved", "Counted"}]
  /\ started \in SUBSET Command
  /\ {network, sent, raised} \subseteq SUBSET Packet
  /\ decrypting \subseteq Call
  /\ overlapped \in SUBSET (Node \X Node)
  /\ faults \in 0..MAX_FAULTS

Init ==
  /\ now = [n \in Node |-> 0]
  /\ msg_counter = [n \in Node |-> [p \in Node |-> 0]]
  /\ recv_hint = [n \in Node |-> [p \in Node |-> 0]]
  /\ peers = [n \in Node |-> {}]
  /\ messages = [n \in Node |-> {}]
  /\ sending = {} /\ started = {} /\ network = {} /\ decrypting = {}
  /\ sent = {} /\ raised = {} /\ overlapped = {}
  /\ faults = 0

\* k crashes and database errors happen.
Fault(k) == faults + k <= MAX_FAULTS /\ faults' = faults + k

-----------------------------------------------------------------------------
(* save_message: INSERT OR IGNORE, the primary key is id, and packet_id is *)
(* unique too *)

SaveMessage(n, id, pkt, counter) ==
  messages' = IF \E r \in messages[n] : r.id = id \/ r.pkt.id = pkt.id THEN messages
              ELSE [messages EXCEPT ![n] =
                      @ \cup {[id |-> id, pkt |-> pkt, counter |-> counter]}]

\* The first component tells a sender's own rows from those it received.
SentId(pkt) == <<pkt.from, pkt.time * ID_SCALE + pkt.counter>>

ReceivedId(pkt) == <<pkt.from, pkt.time>>

(* send_dm, send_file *)

\* Up to the encryption: the counter is read under the database lock, and
\* the lock released.
Invoke(c, n, p, kind) ==
  /\ c \notin started
  /\ n # p
  /\ LET pkt == [id |-> c, from |-> n, to |-> p, kind |-> kind,
                 counter |-> msg_counter[n][p], time |-> now[n]]
     IN  /\ sending' = sending \cup {[pkt |-> pkt, step |-> "Encrypted"]}
         /\ overlapped' =
              IF \E s \in sending : SameDirection(s.pkt, pkt) /\ s.step # "Counted"
                THEN overlapped \cup {<<n, p>>}
                ELSE overlapped
  /\ started' = started \cup {c}
  /\ UNCHANGED <<now, msg_counter, recv_hint, peers, messages, network,
                 decrypting, sent, raised, faults>>

InvokeDm(c, n, p) == c \notin FileCommand /\ Invoke(c, n, p, "Dm")
InvokeFile(c, n, p) == c \in FileCommand /\ Invoke(c, n, p, "File")

Goto(s, step) == sending' = (sending \ {s}) \cup {[s EXCEPT !.step = step]}

\* Fault: the row gets the counter that the table holds by now.
SaveCurrent(s) ==
  /\ s.step = "Encrypted" /\ s.pkt.kind = "Dm"
  /\ SaveMessage(s.pkt.from, SentId(s.pkt), s.pkt, msg_counter[s.pkt.from][s.pkt.to])
  /\ Goto(s, "Saved")
  /\ UNCHANGED <<now, msg_counter, recv_hint, peers, started, network,
                 decrypting, sent, raised, overlapped, faults>>

\* Only a Dm is stored.
Save(s) ==
  /\ s.step = "Encrypted" /\ s.pkt.kind = "Dm"
  /\ SaveMessage(s.pkt.from, SentId(s.pkt), s.pkt, s.pkt.counter)
  /\ Goto(s, "Saved")
  /\ UNCHANGED <<now, msg_counter, recv_hint, peers, started, network,
                 decrypting, sent, raised, overlapped, faults>>

ReadyToCount(s) ==
  s.step = IF s.pkt.kind = "Dm" THEN "Saved" ELSE "Encrypted"

\* Fault: the counter written is the one read, plus one.
CountFromRead(s) ==
  /\ ReadyToCount(s)
  /\ msg_counter' = [msg_counter EXCEPT ![s.pkt.from][s.pkt.to] = s.pkt.counter + 1]
  /\ Goto(s, "Counted")
  /\ UNCHANGED <<now, recv_hint, peers, messages, started, network,
                 decrypting, sent, raised, overlapped, faults>>

\* increment_msg_counter
Count(s) ==
  /\ ReadyToCount(s)
  /\ msg_counter' = [msg_counter EXCEPT ![s.pkt.from][s.pkt.to] = @ + 1]
  /\ Goto(s, "Counted")
  /\ UNCHANGED <<now, recv_hint, peers, messages, started, network,
                 decrypting, sent, raised, overlapped, faults>>

\* Fault: the packet leaves before its counter is spent.
BroadcastEarly(s) ==
  /\ s.step # "Counted" /\ s.pkt \notin sent
  /\ network' = network \cup {s.pkt}
  /\ sent' = sent \cup {s.pkt}
  /\ UNCHANGED <<now, msg_counter, recv_hint, peers, messages, started, sending,
                 decrypting, raised, overlapped, faults>>

\* register_outgoing, broadcast_packet
Broadcast(s) ==
  /\ s.step = "Counted"
  /\ network' = network \cup {s.pkt}
  /\ sent' = sent \cup {s.pkt}
  /\ sending' = sending \ {s}
  /\ UNCHANGED <<now, msg_counter, recv_hint, peers, messages, started,
                 decrypting, raised, overlapped, faults>>

\* save_message or increment_msg_counter returns an error.
Abort(s) ==
  /\ s.step # "Counted"
  /\ sending' = sending \ {s}
  /\ Fault(1)
  /\ UNCHANGED <<now, msg_counter, recv_hint, peers, messages, started, network,
                 decrypting, sent, raised, overlapped>>

-----------------------------------------------------------------------------
(* try_decrypt_packet, try_decrypt_file_packet *)

RaisedFrom(pkt) == {q.counter : q \in {o \in raised : SameDirection(o, pkt)}}

\* Fault: the subtraction does not saturate.
StartUnsaturated(hint) == hint - WINDOW_BACK

Start(hint) == IF hint < WINDOW_BACK THEN 0 ELSE hint - WINDOW_BACK

Lookups(pkt) ==
  IF pkt.from \in peers[pkt.to] THEN {"NoSession", "NoHint", "Found"} ELSE {"Unknown"}

\* get_all_peers, then get_or_create_session and get_recv_counter_hint: a
\* session that is not found leaves the wrong key, a hint that is not found
\* the hint 0.  The field raised is for the properties.
TryDecrypt(pkt) ==
  /\ network' = network \ {pkt}
  /\ \E lookup \in Lookups(pkt) :
       LET hint == IF lookup = "Found" THEN recv_hint[pkt.to][pkt.from] ELSE 0
       IN  /\ decrypting' = decrypting \cup
                {[pkt |-> pkt, lookup |-> lookup, start |-> Start(hint),
                  end |-> hint + WINDOW_AHEAD, raised |-> RaisedFrom(pkt)]}
           /\ Fault(IF lookup \in {"NoSession", "NoHint"} THEN 1 ELSE 0)
  /\ UNCHANGED <<now, msg_counter, recv_hint, peers, messages, sending, started,
                 sent, raised, overlapped>>

\* validate_nonce_timestamp on a clock, for a nonce made at time.
OutOfTime(time, clock) ==
  \/ clock - time > MAX_AGE
  \/ time - clock > MAX_AGE

\* Fault: the oldest counter of the window is not tried.
OpensShort(d) ==
  /\ d.lookup \in {"NoHint", "Found"}
  /\ d.start < d.pkt.counter /\ d.pkt.counter < d.end
  /\ ~ OutOfTime(d.pkt.time, now[d.pkt.to])

\* Some counter of start..end is the packet's.
Opens(d) ==
  /\ d.lookup \in {"NoHint", "Found"}
  /\ d.start <= d.pkt.counter /\ d.pkt.counter < d.end
  /\ ~ OutOfTime(d.pkt.time, now[d.pkt.to])

\* Fault: the hint is set, not raised.
BumpBack(n, p, next) == recv_hint' = [recv_hint EXCEPT ![n][p] = next]

\* bump_recv_counter_hint
Bump(n, p, next) ==
  recv_hint' = [recv_hint EXCEPT ![n][p] = IF next > @ THEN next ELSE @]

\* Nobody looks at the result of the bump.
Open(d, bumped) ==
  /\ Opens(d)
  /\ IF bumped
       THEN /\ Bump(d.pkt.to, d.pkt.from, d.pkt.counter + 1)
            /\ raised' = raised \cup {d.pkt}
       ELSE UNCHANGED <<recv_hint, raised>>
  /\ decrypting' = decrypting \ {d}
  /\ UNCHANGED <<now, msg_counter, peers, sending, started, network, sent,
                 overlapped>>

\* Nor at that of save_message.  The two statements are in one section of the
\* database lock, so only a crash can come between them, and that leaves the
\* row without the bump.
OpenDm(d, saved, bumped) ==
  /\ d.pkt.kind = "Dm"
  /\ Open(d, bumped)
  /\ IF saved THEN SaveMessage(d.pkt.to, ReceivedId(d.pkt), d.pkt, d.pkt.counter)
     ELSE UNCHANGED messages
  /\ Fault(Cardinality({i \in 1..2 : ~ <<saved, bumped>>[i]}))

\* A file is handed to the frontend and written to disk, or an error is
\* returned if it cannot be; no row.
OpenFile(d, bumped) ==
  /\ d.pkt.kind = "File"
  /\ Open(d, bumped)
  /\ UNCHANGED messages
  /\ Fault(IF bumped THEN 0 ELSE 1)

\* Ok(None)
Fail(d) ==
  /\ ~ Opens(d)
  /\ decrypting' = decrypting \ {d}
  /\ UNCHANGED <<now, msg_counter, recv_hint, peers, messages, sending, started,
                 network, sent, raised, overlapped, faults>>

-----------------------------------------------------------------------------
(* get_messages *)

Between(r, n, p) == {r.pkt.from, r.pkt.to} = {n, p}

\* One attempt under the key of the stored counter; decrypt holds the nonce
\* against n's clock as it does for a packet that has just arrived.
Readable(n, r) == r.counter = r.pkt.counter /\ ~ OutOfTime(r.pkt.time, now[n])

\* What get_messages shows as "[pesan terenkripsi]" in n's history with p, in
\* a call that finds its session; one that does not shows every row so.
Hidden(n, p) ==
  {r.pkt : r \in {q \in messages[n] : Between(q, n, p) /\ ~ Readable(n, q)}}

-----------------------------------------------------------------------------
(* The surroundings *)

\* upsert_peer of n for p: a handshake, a beacon, an invite
Meet(n, p) ==
  /\ n # p /\ p \notin peers[n]
  /\ peers' = [peers EXCEPT ![n] = @ \cup {p}]
  /\ UNCHANGED <<now, msg_counter, recv_hint, messages, sending, started, network,
                 decrypting, sent, raised, overlapped, faults>>

\* A clock goes on, or is set, forward or back.
SetClock(n, t) ==
  /\ t # now[n]
  /\ now' = [now EXCEPT ![n] = t]
  /\ UNCHANGED <<msg_counter, recv_hint, peers, messages, sending, started, network,
                 decrypting, sent, raised, overlapped, faults>>

\* The process of n ends; its database stays.
Crash(n) ==
  /\ Fault(1)
  /\ sending' = {s \in sending : s.pkt.from # n}
  /\ decrypting' = {d \in decrypting : d.pkt.to # n}
  /\ UNCHANGED <<now, msg_counter, recv_hint, peers, messages, started, network,
                 sent, raised, overlapped>>

Next ==
  \/ \E c \in Command, n, p \in Node : InvokeDm(c, n, p) \/ InvokeFile(c, n, p)
  \/ \E s \in sending : Save(s) \/ Count(s) \/ Broadcast(s) \/ Abort(s)
  \/ \E pkt \in network : TryDecrypt(pkt)
  \/ \E d \in decrypting, bumped \in BOOLEAN :
       OpenFile(d, bumped) \/ \E saved \in BOOLEAN : OpenDm(d, saved, bumped)
  \/ \E d \in decrypting : Fail(d)
  \/ \E n, p \in Node : Meet(n, p)
  \/ \E n \in Node : Crash(n) \/ \E t \in 0..MAX_TIME : SetClock(n, t)

Spec == Init /\ [][Next]_vars

-----------------------------------------------------------------------------
(* The hint of a receiver never runs ahead of the counter of the sender:   *)
(* whatever interleaves, crashes or fails, the window is never moved past  *)
(* counters the sender has still to use.                                   *)
HintBehindCounter ==
  \A n, p \in Node : n # p => recv_hint[p][n] <= msg_counter[n][p]

(* Calls of try_decrypt that overlap and finish in any order leave the     *)
(* hint above every counter it was raised for, whichever other raises were *)
(* lost to a database error or a crash.                                    *)
HintAboveRaised ==
  \A pkt \in raised : recv_hint[pkt.to][pkt.from] > pkt.counter

(* Crashes and database errors alone never put two packets under one key:  *)
(* that takes two commands to the same peer that overlap.                  *)
FreshKeys ==
  \A p, q \in sent :
    p # q /\ SameDirection(p, q) /\ <<p.from, p.to>> \notin overlapped
      => p.counter # q.counter

(* What reaches the air is in the sender's history first, unless another   *)
(* row has taken its id.                                                   *)
SentIsRecorded ==
  \A pkt \in sent : pkt.kind = "Dm" =>
    \E r \in messages[pkt.from] : r.id = SentId(pkt)

(* A call of try_decrypt gives up on a packet only if it knows no such     *)
(* sender or could not look up its session, or the two clocks are too far  *)
(* apart, or it could not look up the hint and the packet is not among the *)
(* first WINDOW_AHEAD, or the hint was raised for a packet at least        *)
(* WINDOW_BACK counters younger, or WINDOW_AHEAD counters in front of the  *)
(* packet, none of them raised or overtaken by a raise, are missing.       *)
Cause(d) ==
  \/ d.lookup \in {"Unknown", "NoSession"}
  \/ OutOfTime(d.pkt.time, now[d.pkt.to])
  \/ d.lookup = "NoHint" /\ d.pkt.counter >= WINDOW_AHEAD
  \/ \E k \in d.raised : k >= d.pkt.counter + WINDOW_BACK
  \/ Cardinality({k \in 0..(d.pkt.counter - 1) : \A j \in d.raised : j < k})
       >= WINDOW_AHEAD

UnopenedForCause == [][\A d \in decrypting : Fail(d) => Cause(d)]_vars

(* A row that the history of n shows as encrypted is off n's clock: it was *)
(* stored under the counter it was encrypted with, whatever other commands *)
(* did to the counters meanwhile.                                          *)
HiddenForCause ==
  \A n, p \in Node : \A pkt \in Hidden(n, p) : OutOfTime(pkt.time, now[n])

-----------------------------------------------------------------------------
(* keys.rs: "the key changes with every message because msg_counter is     *)
(* incremented".                                                           *)
KeyPerMessage ==
  \A p, q \in sent : p # q /\ SameDirection(p, q) => p.counter # q.counter
=============================================================================
