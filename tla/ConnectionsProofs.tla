-------------------------- MODULE ConnectionsProofs --------------------------
(***************************************************************************)
(* Proofs about Connections, for every set of nodes and every bound on     *)
(* connections, dials, sends and faults.  Most of the invariant speaks of  *)
(* one connection at a time, so the proofs follow a record of conn through *)
(* the steps of its two handlers, and only then turn to peer_senders and   *)
(* the events.                                                             *)
(***************************************************************************)
EXTENDS Connections, TLAPS

Active == {"Registered", "Greeted", "Running"}
Serving == Active \cup {"AwaitHello"}

ConnRec == [dialer : Node \cup {None}, acceptor : Node \cup {None},
            up : BOOLEAN, stage : [Node -> Stage], key : [Node -> Key],
            wire : [Node -> Seq(Frame)], chan : [Node -> Seq(Frame)],
            mute : [Node -> BOOLEAN]]

EndsOf(r) == {r.dialer, r.acceptor} \ {None}

\* Two different nodes, and no other node has a handler.
Paired(r) ==
  /\ r = Unused \/ (r.dialer \in Node /\ r.acceptor \in Node /\ r.dialer # r.acceptor)
  /\ \A n \in Node : r.stage[n] # "Done" => n \in EndsOf(r)

\* While the dialer waits, there is nothing but the dial.
DialsAlone(r) ==
  \A n \in Node : r.stage[n] = "Dialing" =>
    /\ n = r.dialer /\ ~ r.up /\ r.wire[n] = <<>>
    /\ \A p \in Node \ {n} : r.stage[p] = "Done"

\* A handler returns only after the stream has ended.
UpIsServed(r) == r.up => \A n \in EndsOf(r) : r.stage[n] \in Serving

\* Nothing reaches an end before the Hello of the other end.
HelloFirst(r) ==
  \A n \in EndsOf(r) : r.stage[n] = "AwaitHello" =>
    /\ r.wire[n] # <<>> => Head(r.wire[n]) = "Hello"
    /\ (r.up /\ r.wire[n] = <<>>) =>
         n = r.dialer /\ r.stage[r.acceptor] \in {"AwaitHello", "Registered"}

KeyedByPeer(r) ==
  \A n \in EndsOf(r) : r.stage[n] \in Active \cup {"Removed"} =>
    r.key[n] \in EndsOf(r) /\ r.key[n] # n

Bounded(r) == \A n \in Node : Len(r.chan[n]) <= CHANNEL_CAP

Sane(r) ==
  /\ r \in ConnRec /\ Bounded(r)
  /\ Paired(r) /\ DialsAlone(r) /\ UpIsServed(r)
  /\ HelloFirst(r) /\ KeyedByPeer(r)

-----------------------------------------------------------------------------
(* What each step does to the record of its connection *)

LEMMA SaneUnused == Sane(Unused) /\ EndsOf(Unused) = {}
<1>1. /\ Unused.dialer = None /\ Unused.acceptor = None /\ Unused.up = FALSE
      /\ Unused.stage = [n \in Node |-> "Done"] /\ Unused.key = [n \in Node |-> Addr]
      /\ Unused.wire = [n \in Node |-> <<>>] /\ Unused.chan = [n \in Node |-> <<>>]
      /\ Unused.mute = [n \in Node |-> FALSE]
  BY DEF Unused
<1>2. Unused \in ConnRec
  BY DEF Unused, ConnRec, Stage, Key, Frame
<1>3. EndsOf(Unused) = {}
  BY <1>1 DEF EndsOf
<1>4. CHANNEL_CAP \in Nat
  BY ConnectionsAssumption
<1> QED
  BY <1>1, <1>2, <1>3, <1>4 DEF Sane, Bounded, Paired, DialsAlone, UpIsServed, HelloFirst,
     KeyedByPeer

\* A new dial.
LEMMA SaneDial ==
  ASSUME NEW n \in Node, NEW p \in Node, n # p
  PROVE  Sane([Unused EXCEPT !.dialer = n, !.acceptor = p, !.stage[n] = "Dialing"])
<1> DEFINE q == [Unused EXCEPT !.dialer = n, !.acceptor = p, !.stage[n] = "Dialing"]
<1>1. /\ q.dialer = n /\ q.acceptor = p /\ q.up = FALSE
      /\ q.stage = [m \in Node |-> IF m = n THEN "Dialing" ELSE "Done"]
      /\ q.wire = [m \in Node |-> <<>>] /\ q.chan = [m \in Node |-> <<>>]
  BY DEF Unused
<1>2. q \in ConnRec
  BY SaneUnused DEF Sane, ConnRec, Stage
<1> HIDE DEF q
<1>3. EndsOf(q) = {n, p}
  BY <1>1, ConnectionsAssumption DEF EndsOf
<1>4. CHANNEL_CAP \in Nat
  BY ConnectionsAssumption
<1>5. Sane(q)
  BY <1>1, <1>2, <1>3, <1>4 DEF Sane, Bounded, Paired, DialsAlone, UpIsServed, HelloFirst,
     KeyedByPeer, Active
<1> QED
  BY <1>5 DEF q

\* The ends of a connection that is in use.
LEMMA EndsPair ==
  ASSUME NEW r, Sane(r), NEW n \in EndsOf(r)
  PROVE  /\ r.dialer \in Node /\ r.acceptor \in Node /\ r.dialer # r.acceptor
         /\ EndsOf(r) = {r.dialer, r.acceptor} /\ n \in Node
         /\ \E p \in Node : p # n /\ EndsOf(r) = {n, p}
<1>1. r # Unused
  BY SaneUnused
<1> QED
  BY <1>1, ConnectionsAssumption DEF Sane, Paired, EndsOf

\* The stream is up and both handlers start.
LEMMA SaneEstablished ==
  ASSUME NEW r \in ConnRec, Sane(r), NEW n \in EndsOf(r), r.stage[n] = "Dialing"
  PROVE  Sane([r EXCEPT !.up = TRUE, !.stage[n] = "AwaitHello",
                        !.stage[r.acceptor] = "AwaitHello",
                        !.wire[r.acceptor] = <<"Hello">>])
<1> DEFINE p == r.acceptor
<1> DEFINE q == [r EXCEPT !.up = TRUE, !.stage[n] = "AwaitHello",
                          !.stage[p] = "AwaitHello", !.wire[p] = <<"Hello">>]
<1>1. /\ n = r.dialer /\ p \in Node /\ n \in Node /\ n # p /\ EndsOf(r) = {n, p}
      /\ r.wire[n] = <<>>
      /\ \A m \in Node \ {n} : r.stage[m] = "Done"
  BY EndsPair DEF Sane, DialsAlone
<1>2. <<"Hello">> \in Seq(Frame) /\ Head(<<"Hello">>) = "Hello" /\ <<"Hello">> # <<>>
  BY DEF Frame
<1> HIDE DEF p
<1>3. /\ q.dialer = r.dialer /\ q.acceptor = r.acceptor /\ q.up = TRUE
      /\ q.key = r.key /\ q.chan = r.chan /\ q.mute = r.mute
      /\ q.stage = [[r.stage EXCEPT ![n] = "AwaitHello"] EXCEPT ![p] = "AwaitHello"]
      /\ q.wire = [r.wire EXCEPT ![p] = <<"Hello">>]
      /\ q \in ConnRec
  BY <1>1, <1>2 DEF ConnRec, Stage
<1> HIDE DEF q
<1>4. /\ q.stage[n] = "AwaitHello" /\ q.stage[p] = "AwaitHello"
      /\ q.wire[n] = <<>> /\ q.wire[p] = <<"Hello">>
      /\ \A m \in Node \ {n, p} : q.stage[m] = "Done"
  BY <1>1, <1>3 DEF ConnRec
<1>5. EndsOf(q) = {n, p} /\ q.dialer = n /\ q.acceptor = p
  BY <1>1, <1>3 DEF EndsOf, p
<1>6. Paired(q) /\ DialsAlone(q) /\ UpIsServed(q) /\ KeyedByPeer(q)
  BY <1>1, <1>4, <1>5 DEF Paired, DialsAlone, UpIsServed, KeyedByPeer, Active, Serving
<1>7. HelloFirst(q)
  BY <1>2, <1>4, <1>5 DEF HelloFirst
<1>8. Bounded(q)
  BY <1>3 DEF Bounded, Sane
<1>9. Sane(q)
  BY <1>3, <1>6, <1>7, <1>8 DEF Sane
<1> QED
  BY <1>9 DEF q, p

LEMMA SeqFacts ==
  ASSUME NEW w \in Seq(Frame), NEW f \in Frame
  PROVE  /\ Append(w, f) \in Seq(Frame) /\ Append(w, f) # <<>>
         /\ Len(Append(w, f)) = Len(w) + 1 /\ Len(w) \in Nat
         /\ Head(Append(w, f)) = IF w = <<>> THEN f ELSE Head(w)
         /\ w # <<>> => Tail(w) \in Seq(Frame) /\ Len(Tail(w)) = Len(w) - 1
  OBVIOUS

\* The Hello has been read and names the other end.
LEMMA SaneRegister ==
  ASSUME NEW r \in ConnRec, Sane(r), NEW n \in EndsOf(r), NEW p \in EndsOf(r), p # n,
         r.stage[n] = "AwaitHello", r.wire[n] # <<>>
  PROVE  Sane([r EXCEPT !.stage[n] = "Registered", !.key[n] = p, !.wire[n] = Tail(@)])
<1> DEFINE q == [r EXCEPT !.stage[n] = "Registered", !.key[n] = p, !.wire[n] = Tail(@)]
<1>1. n \in Node /\ p \in Node /\ EndsOf(r) = {n, p}
  BY EndsPair
<1>2. Tail(r.wire[n]) \in Seq(Frame) /\ p \in Key
  BY <1>1, SeqFacts DEF ConnRec, Key
<1>3. /\ q.dialer = r.dialer /\ q.acceptor = r.acceptor /\ q.up = r.up
      /\ q.key = [r.key EXCEPT ![n] = p] /\ q.chan = r.chan /\ q.mute = r.mute
      /\ q.stage = [r.stage EXCEPT ![n] = "Registered"]
      /\ q.wire = [r.wire EXCEPT ![n] = Tail(r.wire[n])]
      /\ q \in ConnRec
  BY <1>1, <1>2 DEF ConnRec, Stage
<1> HIDE DEF q
<1>4. /\ q.stage[n] = "Registered" /\ q.key[n] = p
      /\ \A m \in Node \ {n} : /\ q.stage[m] = r.stage[m] /\ q.key[m] = r.key[m]
                               /\ q.wire[m] = r.wire[m]
  BY <1>1, <1>3 DEF ConnRec
<1>5. EndsOf(q) = EndsOf(r) /\ r # Unused
  BY <1>1, <1>3, SaneUnused DEF EndsOf
<1>6. Paired(q)
  BY <1>1, <1>3, <1>4, <1>5 DEF Sane, Paired
<1>7. DialsAlone(q) /\ UpIsServed(q) /\ KeyedByPeer(q)
  BY <1>1, <1>3, <1>4, <1>5 DEF Sane, DialsAlone, UpIsServed, KeyedByPeer, Active, Serving
<1>8. HelloFirst(q)
  BY <1>1, <1>3, <1>4, <1>5, EndsPair DEF Sane, HelloFirst
<1>9. Bounded(q)
  BY <1>3 DEF Bounded, Sane
<1>10. Sane(q)
  BY <1>3, <1>6, <1>7, <1>8, <1>9 DEF Sane
<1> QED
  BY <1>10 DEF q

\* The Hello in reply.
LEMMA SaneGreet ==
  ASSUME NEW r \in ConnRec, Sane(r), NEW n \in EndsOf(r), NEW p \in EndsOf(r), p # n,
         r.stage[n] = "Registered"
  PROVE  Sane([r EXCEPT !.stage[n] = "Greeted",
                        !.wire[p] = IF r.up THEN Append(@, "Hello") ELSE @])
<1> DEFINE q == [r EXCEPT !.stage[n] = "Greeted",
                          !.wire[p] = IF r.up THEN Append(@, "Hello") ELSE @]
<1> DEFINE w == IF r.up THEN Append(r.wire[p], "Hello") ELSE r.wire[p]
<1>1. n \in Node /\ p \in Node /\ EndsOf(r) = {n, p}
  BY EndsPair
<1>2. /\ w \in Seq(Frame)
      /\ r.up => w # <<>>
      /\ w # <<>> => Head(w) = IF r.wire[p] = <<>> THEN "Hello" ELSE Head(r.wire[p])
  <2>1. r.wire[p] \in Seq(Frame) /\ "Hello" \in Frame
    BY <1>1 DEF ConnRec, Frame
  <2> QED
    BY <2>1, SeqFacts
<1>3. /\ q.dialer = r.dialer /\ q.acceptor = r.acceptor /\ q.up = r.up
      /\ q.key = r.key /\ q.chan = r.chan /\ q.mute = r.mute
      /\ q.stage = [r.stage EXCEPT ![n] = "Greeted"]
      /\ q.wire = [r.wire EXCEPT ![p] = w]
      /\ q \in ConnRec
  BY <1>1, <1>2 DEF ConnRec, Stage
<1> HIDE DEF q, w
<1>4. /\ q.stage[n] = "Greeted" /\ q.wire[p] = w
      /\ \A m \in Node \ {n} : q.stage[m] = r.stage[m]
      /\ \A m \in Node \ {p} : q.wire[m] = r.wire[m]
  BY <1>1, <1>3 DEF ConnRec
<1>5. EndsOf(q) = EndsOf(r) /\ r # Unused
  BY <1>1, <1>3, SaneUnused DEF EndsOf
<1>6. Paired(q)
  BY <1>1, <1>3, <1>4, <1>5 DEF Sane, Paired
<1>7. DialsAlone(q) /\ UpIsServed(q) /\ KeyedByPeer(q)
  BY <1>1, <1>3, <1>4, <1>5 DEF Sane, DialsAlone, UpIsServed, KeyedByPeer, Active, Serving
<1>8. HelloFirst(q)
  BY <1>1, <1>2, <1>3, <1>4, <1>5 DEF Sane, HelloFirst
<1>9. Bounded(q)
  BY <1>3 DEF Bounded, Sane
<1>10. Sane(q)
  BY <1>3, <1>6, <1>7, <1>8, <1>9 DEF Sane
<1> QED
  BY <1>10 DEF q

\* The handler goes on, or ends after the stream.
LEMMA SaneGoto ==
  ASSUME NEW r \in ConnRec, Sane(r), NEW n \in EndsOf(r), NEW stage \in Stage,
         \/ r.stage[n] = "Greeted" /\ stage = "Running"
         \/ r.stage[n] = "Running" /\ ~ r.up /\ stage = "Removed"
         \/ ~ r.up /\ stage = "Done"
  PROVE  Sane([r EXCEPT !.stage[n] = stage])
<1> DEFINE q == [r EXCEPT !.stage[n] = stage]
<1>1. n \in Node
  BY EndsPair
<1>2. /\ q.dialer = r.dialer /\ q.acceptor = r.acceptor /\ q.up = r.up
      /\ q.key = r.key /\ q.chan = r.chan /\ q.mute = r.mute /\ q.wire = r.wire
      /\ q.stage = [r.stage EXCEPT ![n] = stage]
      /\ q \in ConnRec
  BY <1>1 DEF ConnRec
<1> HIDE DEF q
<1>3. q.stage[n] = stage /\ \A m \in Node \ {n} : q.stage[m] = r.stage[m]
  BY <1>1, <1>2 DEF ConnRec
<1>4. EndsOf(q) = EndsOf(r) /\ r # Unused
  BY <1>2, SaneUnused DEF EndsOf
<1>5. Paired(q)
  BY <1>1, <1>2, <1>3, <1>4 DEF Sane, Paired
<1>6. DialsAlone(q)
  BY <1>1, <1>2, <1>3, <1>4 DEF Sane, DialsAlone
<1>7. UpIsServed(q) /\ KeyedByPeer(q)
  <2>1. EndsOf(r) \subseteq Node
    BY EndsPair
  <2> QED
    BY <1>1, <1>2, <1>3, <1>4, <2>1 DEF Sane, UpIsServed, KeyedByPeer, Active, Serving
<1>8. HelloFirst(q)
  BY <1>1, <1>2, <1>3, <1>4, EndsPair DEF Sane, HelloFirst
<1>9. Bounded(q)
  BY <1>2 DEF Bounded, Sane
<1>10. Sane(q)
  BY <1>2, <1>5, <1>6, <1>7, <1>8, <1>9 DEF Sane
<1> QED
  BY <1>10 DEF q

\* A step that leaves the handlers where they are and puts nothing in front
\* of what is on its way.
LEMMA SaneSameStage ==
  ASSUME NEW r \in ConnRec, Sane(r), NEW q \in ConnRec, Bounded(q),
         q.dialer = r.dialer, q.acceptor = r.acceptor,
         q.stage = r.stage, q.key = r.key, r # Unused,
         q.up => r.up,
         \A m \in Node : r.stage[m] = "Dialing" => q.wire[m] = <<>>,
         \A m \in EndsOf(r) : r.stage[m] = "AwaitHello" =>
           /\ q.wire[m] # <<>> =>
                IF r.wire[m] = <<>> THEN ~ r.up \/ Head(q.wire[m]) = "Hello"
                                    ELSE Head(q.wire[m]) = Head(r.wire[m])
           /\ (q.wire[m] = <<>> /\ q.up) => r.wire[m] = <<>>,
         \A m \in EndsOf(r) : ~ r.up /\ r.wire[m] = <<>> => q.wire[m] = <<>>
  PROVE  Sane(q)
<1>1. EndsOf(q) = EndsOf(r)
  BY DEF EndsOf
<1>2. Paired(q)
  BY <1>1 DEF Sane, Paired
<1>3. DialsAlone(q)
  BY DEF Sane, DialsAlone
<1>4. UpIsServed(q) /\ KeyedByPeer(q)
  BY <1>1 DEF Sane, UpIsServed, KeyedByPeer
<1>5. HelloFirst(q)
  BY <1>1 DEF Sane, HelloFirst
<1> QED
  BY <1>2, <1>3, <1>4, <1>5 DEF Sane

\* send_raw_packet
LEMMA SaneWritten ==
  ASSUME NEW r \in ConnRec, Sane(r), NEW n \in EndsOf(r), NEW p \in EndsOf(r), p # n,
         r.stage[n] = "Running", r.chan[n] # <<>>, r.up
  PROVE  Sane(Written(r, n, p))
<1> DEFINE f == Head(r.chan[n])
<1>1. n \in Node /\ p \in Node /\ EndsOf(r) = {n, p} /\ r # Unused
      /\ (n = r.dialer \/ p = r.dialer) /\ (n = r.acceptor \/ p = r.acceptor)
      /\ r.dialer # r.acceptor
  BY EndsPair, SaneUnused
<1>2. /\ r.chan[n] \in Seq(Frame) /\ r.wire[p] \in Seq(Frame)
      /\ f \in Frame /\ Tail(r.chan[n]) \in Seq(Frame)
      /\ Len(Tail(r.chan[n])) <= CHANNEL_CAP
      /\ Append(r.wire[p], f) \in Seq(Frame)
      /\ Append(r.wire[p], f) # <<>>
      /\ r.wire[p] # <<>> => Head(Append(r.wire[p], f)) = Head(r.wire[p])
      /\ <<>> \in Seq(Frame) /\ Len(<<>>) = 0
      /\ CHANNEL_CAP \in Nat
  <2>1. r.chan[n] \in Seq(Frame) /\ r.wire[p] \in Seq(Frame)
    BY <1>1 DEF ConnRec
  <2>2. f \in Frame
    BY <2>1
  <2>3. Len(r.chan[n]) <= CHANNEL_CAP /\ CHANNEL_CAP \in Nat
    BY <1>1, ConnectionsAssumption DEF Sane, Bounded
  <2> HIDE DEF f
  <2> QED
    BY <2>1, <2>2, <2>3, SeqFacts
<1>3. ~ (r.stage[p] = "AwaitHello" /\ r.wire[p] = <<>>) /\ r.stage[p] # "Dialing"
  <2>1. r.stage[p] # "Dialing"
    BY <1>1 DEF Sane, UpIsServed, Serving, Active
  <2> QED
    BY <1>1, <2>1 DEF Sane, HelloFirst
<1> HIDE DEF f
<1>4. CASE f = "Big"
  <2> DEFINE q == [r EXCEPT !.mute[n] = TRUE, !.chan[n] = <<>>]
  <2>1. /\ q.dialer = r.dialer /\ q.acceptor = r.acceptor /\ q.up = r.up
        /\ q.key = r.key /\ q.chan = [r.chan EXCEPT ![n] = <<>>]
        /\ q.stage = r.stage /\ q.wire = r.wire
        /\ q \in ConnRec
    BY <1>1, <1>2 DEF ConnRec
  <2>2. Written(r, n, p) = q
    BY <1>4 DEF Written, f
  <2> HIDE DEF q
  <2>3. Bounded(q)
    BY <1>1, <1>2, <2>1 DEF Bounded, Sane, ConnRec
  <2>4. Sane(q)
    BY <1>1, <2>1, <2>3, SaneSameStage DEF Sane, DialsAlone
  <2> QED
    BY <2>2, <2>4
<1>5. CASE f # "Big"
  <2> DEFINE q == [r EXCEPT !.chan[n] = Tail(@), !.wire[p] = Append(@, f)]
  <2>1. /\ q.dialer = r.dialer /\ q.acceptor = r.acceptor /\ q.up = r.up
        /\ q.key = r.key /\ q.chan = [r.chan EXCEPT ![n] = Tail(r.chan[n])]
        /\ q.stage = r.stage /\ q.wire = [r.wire EXCEPT ![p] = Append(r.wire[p], f)]
        /\ q \in ConnRec
    BY <1>1, <1>2 DEF ConnRec
  <2>2. Written(r, n, p) = q
    BY <1>5 DEF Written, f
  <2> HIDE DEF q
  <2>3. Bounded(q)
    BY <1>1, <1>2, <2>1 DEF Bounded, Sane, ConnRec
  <2>4. /\ q.wire[p] = Append(r.wire[p], f)
        /\ \A m \in Node \ {p} : q.wire[m] = r.wire[m]
    BY <1>1, <2>1 DEF ConnRec
  <2>5. \A m \in Node : r.stage[m] = "Dialing" => q.wire[m] = <<>>
    BY <1>3, <2>4 DEF Sane, DialsAlone
  <2>6. \A m \in EndsOf(r) : r.stage[m] = "AwaitHello" =>
          /\ q.wire[m] # <<>> =>
               IF r.wire[m] = <<>> THEN ~ r.up \/ Head(q.wire[m]) = "Hello"
                                   ELSE Head(q.wire[m]) = Head(r.wire[m])
          /\ (q.wire[m] = <<>> /\ q.up) => r.wire[m] = <<>>
    BY <1>1, <1>2, <1>3, <2>4
  <2>7. Sane(q)
    BY <1>1, <2>1, <2>3, <2>5, <2>6, SaneSameStage
  <2> QED
    BY <2>2, <2>7
<1> QED
  BY <1>4, <1>5

\* process_incoming_packet
LEMMA SaneRead ==
  ASSUME NEW r \in ConnRec, Sane(r), NEW n \in EndsOf(r),
         r.stage[n] = "Running", r.wire[n] # <<>>
  PROVE  Sane([r EXCEPT !.wire[n] = Tail(@)])
<1> DEFINE q == [r EXCEPT !.wire[n] = Tail(@)]
<1>1. n \in Node /\ EndsOf(r) \subseteq Node /\ r # Unused
  BY EndsPair, SaneUnused
<1>2. Tail(r.wire[n]) \in Seq(Frame)
  BY <1>1, SeqFacts DEF ConnRec
<1>3. /\ q.dialer = r.dialer /\ q.acceptor = r.acceptor /\ q.up = r.up
      /\ q.key = r.key /\ q.chan = r.chan /\ q.stage = r.stage
      /\ q.wire = [r.wire EXCEPT ![n] = Tail(r.wire[n])]
      /\ q \in ConnRec
  BY <1>1, <1>2 DEF ConnRec
<1> HIDE DEF q
<1>4. \A m \in Node \ {n} : q.wire[m] = r.wire[m]
  BY <1>1, <1>3 DEF ConnRec
<1>5. Bounded(q)
  BY <1>3 DEF Bounded, Sane
<1>6. \A m \in Node : r.stage[m] = "Dialing" => q.wire[m] = <<>>
  BY <1>4 DEF Sane, DialsAlone
<1>7. Sane(q)
  BY <1>1, <1>3, <1>4, <1>5, <1>6, SaneSameStage
<1> QED
  BY <1>7 DEF q

\* try_send
LEMMA SaneTrySend ==
  ASSUME NEW r \in ConnRec, Sane(r), NEW n \in Node, NEW frame \in Frame
  PROVE  Sane(TrySend(r, n, frame)) /\ TrySend(r, n, frame).stage = r.stage
         /\ EndsOf(TrySend(r, n, frame)) = EndsOf(r)
<1>1. CASE r.up /\ ~ r.mute[n] /\ Len(r.chan[n]) < CHANNEL_CAP
  <2> DEFINE q == [r EXCEPT !.chan[n] = Append(@, frame)]
  <2>1. /\ r.chan[n] \in Seq(Frame) /\ Append(r.chan[n], frame) \in Seq(Frame)
        /\ Len(Append(r.chan[n], frame)) <= CHANNEL_CAP
    <3>1. r.chan[n] \in Seq(Frame) /\ CHANNEL_CAP \in Nat
      BY ConnectionsAssumption DEF ConnRec
    <3> QED
      BY <1>1, <3>1, SeqFacts
  <2>2. /\ q.dialer = r.dialer /\ q.acceptor = r.acceptor /\ q.up = r.up
        /\ q.key = r.key /\ q.chan = [r.chan EXCEPT ![n] = Append(r.chan[n], frame)]
        /\ q.stage = r.stage /\ q.wire = r.wire
        /\ q \in ConnRec
    BY <2>1 DEF ConnRec
  <2>3. TrySend(r, n, frame) = q
    BY <1>1 DEF TrySend
  <2> HIDE DEF q
  <2>4. Bounded(q)
    BY <2>1, <2>2 DEF Bounded, Sane, ConnRec
  <2>5. r # Unused
    BY <1>1 DEF Unused
  <2>6. Sane(q)
    BY <2>2, <2>4, <2>5, SaneSameStage DEF Sane, DialsAlone
  <2> QED
    BY <2>2, <2>3, <2>6 DEF EndsOf
<1>2. CASE ~ (r.up /\ ~ r.mute[n] /\ Len(r.chan[n]) < CHANNEL_CAP)
  BY <1>2 DEF TrySend
<1> QED
  BY <1>1, <1>2

\* The stream breaks.
LEMMA SaneBroken ==
  ASSUME NEW r \in ConnRec, Sane(r), r # Unused, NEW got \in SUBSET Node
  PROVE  /\ Broken(r, got) \in ConnRec /\ Sane(Broken(r, got))
         /\ ~ Broken(r, got).up /\ Broken(r, got).stage = r.stage
         /\ EndsOf(Broken(r, got)) = EndsOf(r)
<1> DEFINE q == Broken(r, got)
<1>1. <<>> \in Seq(Frame) /\ Len(<<>>) = 0 /\ CHANNEL_CAP \in Nat
  BY ConnectionsAssumption
<1>2. /\ q.dialer = r.dialer /\ q.acceptor = r.acceptor /\ q.up = FALSE
      /\ q.key = r.key /\ q.chan = [n \in Node |-> <<>>]
      /\ q.stage = r.stage
      /\ q.wire = [n \in Node |-> IF n \in got THEN r.wire[n] ELSE <<>>]
      /\ q \in ConnRec
  BY <1>1 DEF ConnRec, Broken
<1> HIDE DEF q
<1>3. Bounded(q)
  BY <1>1, <1>2 DEF Bounded
<1>4. \A m \in Node : q.wire[m] = r.wire[m] \/ q.wire[m] = <<>>
  BY <1>2
<1>5. \A m \in Node : r.stage[m] = "Dialing" => q.wire[m] = <<>>
  BY <1>4 DEF Sane, DialsAlone
<1>6. EndsOf(r) \subseteq Node
  BY EndsPair
<1>7. Sane(q)
  BY <1>2, <1>3, <1>4, <1>5, <1>6, SaneSameStage
<1>8. EndsOf(q) = EndsOf(r)
  BY <1>2 DEF EndsOf
<1> QED
  BY <1>2, <1>7, <1>8 DEF q

LEMMA SaneFreed ==
  ASSUME NEW r, Sane(r)
  PROVE  Sane(Freed(r))
BY SaneUnused DEF Freed

-----------------------------------------------------------------------------
(* The invariant: every record is sane, and what peer_senders and the      *)
(* events say of it is true.                                               *)

AllSane == \A c \in Conn : Sane(conn[c])

\* An entry belongs to a connection whose reader at this end has not ended.
EntryServed ==
  \A n, p \in Node, c \in Conn :
    peer_senders[n][p] = c => EndsOf(conn[c]) = {n, p} /\ conn[c].stage[n] \in Active

Shown == {"Running", "Removed"}

ShownServed ==
  \A n, p \in Node : event[n][p] = "connected" =>
    \E c \in Conn : EndsOf(conn[c]) = {n, p} /\ conn[c].stage[n] \in Shown

ConnInv == TypeOK /\ AllSane /\ EntryServed /\ ShownServed

LEMMA ConnParts ==
  ASSUME TypeOK
  PROVE  /\ conn \in [Conn -> ConnRec]
         /\ \A c \in Conn : conn[c] \in ConnRec /\ Ends(c) = EndsOf(conn[c])
         /\ Conn \subseteq Nat /\ MAX_FAULTS \in Nat /\ MAX_SENDS \in Nat
         /\ MAX_MANUAL \in Nat /\ CHANNEL_CAP \in Nat
<1>1. conn \in [Conn -> ConnRec]
  BY DEF TypeOK, ConnRec
<1>2. \A c \in Conn : Ends(c) = EndsOf(conn[c])
  BY DEF Ends, EndsOf
<1>3. MAX_CONNS \in Nat /\ MAX_FAULTS \in Nat /\ MAX_SENDS \in Nat
      /\ MAX_MANUAL \in Nat /\ CHANNEL_CAP \in Nat
  BY ConnectionsAssumption
<1> QED
  BY <1>1, <1>2, <1>3 DEF Conn

\* The other end is what Other chooses.
LEMMA OtherEnd ==
  ASSUME ConnInv, NEW c \in Conn, NEW n \in Ends(c)
  PROVE  /\ n \in Node /\ Other(c, n) \in Node /\ Other(c, n) # n
         /\ EndsOf(conn[c]) = {n, Other(c, n)}
<1>1. /\ Ends(c) = EndsOf(conn[c]) /\ Sane(conn[c]) /\ n \in EndsOf(conn[c])
      /\ conn[c] \in ConnRec
  BY ConnParts DEF ConnInv, AllSane
<1>2. n \in Node /\ \E p \in Node : p # n /\ EndsOf(conn[c]) = {n, p}
  BY <1>1, EndsPair
<1>3. \E p \in Ends(c) : p # n
  BY <1>1, <1>2
<1>4. Other(c, n) \in Ends(c) /\ Other(c, n) # n
  BY <1>3 DEF Other
<1> QED
  BY <1>1, <1>2, <1>4

\* One record changes, the others stay.
LEMMA OneRecord ==
  ASSUME ConnInv, NEW c \in Conn, NEW q \in ConnRec, Sane(q),
         conn' = [conn EXCEPT ![c] = q]
  PROVE  /\ conn' \in [Conn -> ConnRec] /\ AllSane'
         /\ conn'[c] = q /\ \A d \in Conn \ {c} : conn'[d] = conn[d]
<1>1. conn \in [Conn -> ConnRec]
  BY ConnParts DEF ConnInv
<1>2. conn'[c] = q /\ \A d \in Conn \ {c} : conn'[d] = conn[d]
  BY <1>1
<1>3. AllSane'
  BY <1>2 DEF ConnInv, AllSane
<1> QED
  BY <1>1, <1>2, <1>3

\* The record that changes keeps the handlers which peer_senders and the
\* events speak of; no entry and no "connected" is new.
LEMMA HandlersGoOn ==
  ASSUME ConnInv, NEW c \in Conn, NEW q \in ConnRec, Sane(q),
         conn' = [conn EXCEPT ![c] = q],
         \A m \in Node : conn[c].stage[m] \in Active =>
           q.stage[m] \in Active /\ EndsOf(q) = EndsOf(conn[c]),
         \A m \in Node : conn[c].stage[m] \in Shown =>
           q.stage[m] \in Shown /\ EndsOf(q) = EndsOf(conn[c]),
         peer_senders' = peer_senders,
         \A n, p \in Node : event'[n][p] = "connected" => event[n][p] = "connected"
  PROVE  conn' \in [Conn -> ConnRec] /\ AllSane' /\ EntryServed' /\ ShownServed'
<1>1. /\ conn' \in [Conn -> ConnRec] /\ AllSane'
      /\ conn'[c] = q /\ \A d \in Conn \ {c} : conn'[d] = conn[d]
  BY OneRecord
<1>2. \A d \in Conn, m \in Node :
        conn[d].stage[m] \in Active =>
          conn'[d].stage[m] \in Active /\ EndsOf(conn'[d]) = EndsOf(conn[d])
  BY <1>1
<1>3. \A d \in Conn, m \in Node :
        conn[d].stage[m] \in Shown =>
          conn'[d].stage[m] \in Shown /\ EndsOf(conn'[d]) = EndsOf(conn[d])
  BY <1>1
<1>4. EntryServed'
  BY <1>2 DEF ConnInv, EntryServed
<1>5. ASSUME NEW n \in Node, NEW p \in Node, event'[n][p] = "connected"
      PROVE  \E d \in Conn : EndsOf(conn'[d]) = {n, p} /\ conn'[d].stage[n] \in Shown
  <2>1. PICK d \in Conn : EndsOf(conn[d]) = {n, p} /\ conn[d].stage[n] \in Shown
    BY <1>5 DEF ConnInv, ShownServed
  <2> QED
    BY <1>3, <2>1
<1>6. ShownServed'
  BY <1>5 DEF ShownServed
<1> QED
  BY <1>1, <1>4, <1>6

LEMMA TypeFrom ==
  ASSUME TypeOK, AllSane', conn' \in [Conn -> ConnRec],
         peer_senders' \in [Node -> [Key -> Conn \cup {None}]],
         saved' \in [Node -> SUBSET Node],
         event' \in [Node -> [Node -> {"none", "connecting", "failed", "connected",
                                       "disconnected"}]],
         manual' \in 0..MAX_MANUAL, sends' \in 0..MAX_SENDS, faults' \in 0..MAX_FAULTS
  PROVE  TypeOK'
<1>1. \A c \in Conn, n \in Node : Len(conn'[c].chan[n]) <= CHANNEL_CAP
  BY DEF AllSane, Sane, Bounded
<1> QED
  BY <1>1 DEF TypeOK, ConnRec

LEMMA EmitType ==
  ASSUME TypeOK, NEW n \in Node, NEW p \in Node,
         NEW e \in {"none", "connecting", "failed", "connected", "disconnected"},
         Emit(n, p, e)
  PROVE  /\ event' \in [Node -> [Node -> {"none", "connecting", "failed", "connected",
                                          "disconnected"}]]
         /\ event'[n][p] = e
         /\ \A m, q \in Node : m # n \/ q # p => event'[m][q] = event[m][q]
BY DEF Emit, TypeOK

-----------------------------------------------------------------------------
(* The steps *)

LEMMA DialKeeps ==
  ASSUME ConnInv, NEW n \in Node, NEW p \in Node, Beacon(n, p) \/ DialManual(n, p)
  PROVE  ConnInv'
<1>1. /\ Dial(n, p, TRUE) \/ Dial(n, p, FALSE)
      /\ sends' = sends /\ faults' = faults
      /\ manual' = manual \/ (manual < MAX_MANUAL /\ manual' = manual + 1)
  BY DEF Beacon, DialManual, Unspent
<1> DEFINE q == [Unused EXCEPT !.dialer = n, !.acceptor = p, !.stage[n] = "Dialing"]
<1>2. n # p /\ Emit(n, p, "connecting") /\ UNCHANGED <<peer_senders, saved>>
  BY <1>1 DEF Dial
<1>3. PICK c \in Conn : conn[c] = Unused /\ conn' = [conn EXCEPT ![c] = q]
  BY <1>1 DEF Dial
<1>4. Sane(q) /\ q \in ConnRec
  BY <1>2, SaneDial DEF Sane
<1> HIDE DEF q
<1>5. \A m \in Node : conn[c].stage[m] \notin Active /\ conn[c].stage[m] \notin Shown
  BY <1>3 DEF Unused, Active, Shown
<1>6. /\ event' \in [Node -> [Node -> {"none", "connecting", "failed", "connected",
                                       "disconnected"}]]
      /\ \A m, o \in Node : event'[m][o] = "connected" => event[m][o] = "connected"
  BY <1>2, EmitType DEF ConnInv
<1>7. conn' \in [Conn -> ConnRec] /\ AllSane' /\ EntryServed' /\ ShownServed'
  BY <1>2, <1>3, <1>4, <1>5, <1>6, HandlersGoOn
<1>8. manual' \in 0..MAX_MANUAL /\ sends' \in 0..MAX_SENDS /\ faults' \in 0..MAX_FAULTS
  BY <1>1, ConnParts DEF ConnInv, TypeOK
<1>9. TypeOK'
  BY <1>2, <1>6, <1>7, <1>8, TypeFrom DEF ConnInv, TypeOK
<1> QED
  BY <1>7, <1>9 DEF ConnInv

\* What all steps of a handler have in common.
LEMMA StepSetting ==
  ASSUME ConnInv, NEW c \in Conn, NEW n \in Ends(c)
  PROVE  /\ Sane(conn[c]) /\ conn[c] \in ConnRec /\ n \in EndsOf(conn[c])
         /\ n \in Node /\ Other(c, n) \in EndsOf(conn[c]) /\ Other(c, n) # n
         /\ Other(c, n) \in Node
         /\ EndsOf(conn[c]) = {n, Other(c, n)} /\ conn[c] # Unused
         /\ \A p \in EndsOf(conn[c]) : p = n \/ p = Other(c, n)
<1>1. /\ Sane(conn[c]) /\ conn[c] \in ConnRec /\ n \in EndsOf(conn[c])
  BY ConnParts DEF ConnInv, AllSane
<1>2. conn[c] # Unused
  BY <1>1, SaneUnused
<1> QED
  BY <1>1, <1>2, OtherEnd

\* A step of the handler at n that neither enters the map nor leaves it, and
\* tells the frontend nothing.
LEMMA QuietKeeps ==
  ASSUME ConnInv, NEW c \in Conn, NEW q \in ConnRec, Sane(q),
         conn' = [conn EXCEPT ![c] = q],
         \A m \in Node : conn[c].stage[m] \in Active =>
           q.stage[m] \in Active /\ EndsOf(q) = EndsOf(conn[c]),
         \A m \in Node : conn[c].stage[m] \in Shown =>
           q.stage[m] \in Shown /\ EndsOf(q) = EndsOf(conn[c]),
         manual' \in 0..MAX_MANUAL, sends' \in 0..MAX_SENDS, faults' \in 0..MAX_FAULTS,
         UNCHANGED <<peer_senders, saved, event>>
  PROVE  ConnInv'
<1>1. conn' \in [Conn -> ConnRec] /\ AllSane' /\ EntryServed' /\ ShownServed'
  BY HandlersGoOn
<1>2. TypeOK'
  BY <1>1, TypeFrom DEF ConnInv, TypeOK
<1> QED
  BY <1>1, <1>2 DEF ConnInv

LEMMA Unspending ==
  ASSUME ConnInv, Unspent
  PROVE  manual' \in 0..MAX_MANUAL /\ sends' \in 0..MAX_SENDS /\ faults' \in 0..MAX_FAULTS
BY DEF ConnInv, TypeOK, Unspent

LEMMA EstablishedKeeps ==
  ASSUME ConnInv, NEW c \in Conn, NEW n \in Node, Established(c, n)
  PROVE  ConnInv'
<1> DEFINE r == conn[c]
<1> DEFINE q == [r EXCEPT !.up = TRUE, !.stage[n] = "AwaitHello",
                          !.stage[r.acceptor] = "AwaitHello",
                          !.wire[r.acceptor] = <<"Hello">>]
<1>1. n \in Ends(c) /\ r.stage[n] = "Dialing"
  BY DEF Established, At
<1>2. Sane(r) /\ r \in ConnRec /\ n \in EndsOf(r) /\ n \in Node
  BY <1>1, StepSetting
<1>3. conn' = [conn EXCEPT ![c] = q]
  BY DEF Established
<1>4. Sane(q) /\ q \in ConnRec
  BY <1>1, <1>2, SaneEstablished DEF Sane
<1>5. \A m \in Node : r.stage[m] \notin Active /\ r.stage[m] \notin Shown
  BY <1>1, <1>2 DEF Sane, DialsAlone, Active, Shown
<1> HIDE DEF q
<1> QED
  BY <1>3, <1>4, <1>5, QuietKeeps, Unspending DEF Established

LEMMA GreetKeeps ==
  ASSUME ConnInv, NEW c \in Conn, NEW n \in Node, Greet(c, n)
  PROVE  ConnInv'
<1> DEFINE r == conn[c]
<1> DEFINE p == Other(c, n)
<1> DEFINE q == [r EXCEPT !.stage[n] = "Greeted",
                          !.wire[p] = IF r.up THEN Append(@, "Hello") ELSE @]
<1>1. n \in Ends(c) /\ r.stage[n] = "Registered"
  BY DEF Greet, At
<1>2. /\ Sane(r) /\ r \in ConnRec /\ n \in EndsOf(r) /\ n \in Node
      /\ p \in EndsOf(r) /\ p # n
  BY <1>1, StepSetting
<1> HIDE DEF p
<1>3. conn' = [conn EXCEPT ![c] = q]
  BY DEF Greet, p
<1>4. Sane(q) /\ q \in ConnRec
  BY <1>1, <1>2, SaneGreet DEF Sane
<1>5. q.stage = [r.stage EXCEPT ![n] = "Greeted"] /\ EndsOf(q) = EndsOf(r)
  BY <1>2 DEF ConnRec, EndsOf
<1> HIDE DEF q
<1>6. /\ \A m \in Node : r.stage[m] \in Active => q.stage[m] \in Active
      /\ \A m \in Node : r.stage[m] \in Shown => q.stage[m] \in Shown
  BY <1>1, <1>2, <1>5 DEF ConnRec, Active, Shown
<1> QED
  BY <1>3, <1>4, <1>5, <1>6, QuietKeeps, Unspending DEF Greet

LEMMA WriteKeeps ==
  ASSUME ConnInv, NEW c \in Conn, NEW n \in Node, Write(c, n)
  PROVE  ConnInv'
<1> DEFINE r == conn[c]
<1> DEFINE p == Other(c, n)
<1> DEFINE q == Written(r, n, p)
<1>1. n \in Ends(c) /\ r.stage[n] = "Running" /\ r.up /\ r.chan[n] # <<>>
  BY DEF Write, At
<1>2. /\ Sane(r) /\ r \in ConnRec /\ n \in EndsOf(r) /\ n \in Node
      /\ p \in EndsOf(r) /\ p # n
  BY <1>1, StepSetting
<1> HIDE DEF p
<1>3. conn' = [conn EXCEPT ![c] = q]
  BY DEF Write, p
<1>4. Sane(q) /\ q \in ConnRec
  BY <1>1, <1>2, SaneWritten DEF Sane
<1>5. q.stage = r.stage /\ EndsOf(q) = EndsOf(r)
  BY <1>2 DEF ConnRec, EndsOf, Written
<1> HIDE DEF q
<1> QED
  BY <1>3, <1>4, <1>5, QuietKeeps, Unspending DEF Write

\* The handler at n returns; the record of two that have returned is free.
LEMMA DoneRecord ==
  ASSUME NEW r \in ConnRec, Sane(r), NEW n \in EndsOf(r), ~ r.up
  PROVE  LET q == Freed([r EXCEPT !.stage[n] = "Done"])
         IN  /\ q \in ConnRec /\ Sane(q)
             /\ \A m \in Node : r.stage[m] # "Done" /\ m # n =>
                  q.stage[m] = r.stage[m] /\ EndsOf(q) = EndsOf(r)
<1> DEFINE q0 == [r EXCEPT !.stage[n] = "Done"]
<1>1. "Done" \in Stage /\ n \in Node
  BY EndsPair DEF Stage
<1>2. Sane(q0)
  BY <1>1, SaneGoto
<1>3. q0.stage = [r.stage EXCEPT ![n] = "Done"] /\ EndsOf(q0) = EndsOf(r)
  BY <1>1 DEF ConnRec, EndsOf
<1>4. \A m \in Node : m # n => q0.stage[m] = r.stage[m]
  BY <1>1, <1>3 DEF ConnRec
<1> HIDE DEF q0
<1>5. Sane(Freed(q0)) /\ Freed(q0) \in ConnRec
  BY <1>2, SaneFreed DEF Sane
<1>6. ASSUME NEW m \in Node, r.stage[m] # "Done", m # n
      PROVE  Freed(q0) = q0
  BY <1>4, <1>6 DEF Freed
<1>7. \A m \in Node : r.stage[m] # "Done" /\ m # n =>
        Freed(q0).stage[m] = r.stage[m] /\ EndsOf(Freed(q0)) = EndsOf(r)
  BY <1>3, <1>4, <1>6
<1> QED
  BY <1>5, <1>7 DEF q0

LEMMA NoHelloKeeps ==
  ASSUME ConnInv, NEW c \in Conn, NEW n \in Node, NoHello(c, n)
  PROVE  ConnInv'
<1> DEFINE r == conn[c]
<1> DEFINE q == Freed([r EXCEPT !.stage[n] = "Done"])
<1>1. n \in Ends(c) /\ r.stage[n] = "AwaitHello" /\ ~ r.up
  BY DEF NoHello, At
<1>2. Sane(r) /\ r \in ConnRec /\ n \in EndsOf(r) /\ n \in Node
  BY <1>1, StepSetting
<1>3. conn' = [conn EXCEPT ![c] = q]
  BY DEF NoHello
<1>4. /\ q \in ConnRec /\ Sane(q)
      /\ \A m \in Node : r.stage[m] # "Done" /\ m # n =>
           q.stage[m] = r.stage[m] /\ EndsOf(q) = EndsOf(r)
  BY <1>1, <1>2, DoneRecord
<1> HIDE DEF q
<1>5. /\ \A m \in Node : r.stage[m] \in Active => q.stage[m] \in Active /\ EndsOf(q) = EndsOf(r)
      /\ \A m \in Node : r.stage[m] \in Shown => q.stage[m] \in Shown /\ EndsOf(q) = EndsOf(r)
  BY <1>1, <1>4 DEF Active, Shown
<1> QED
  BY <1>3, <1>4, <1>5, QuietKeeps, Unspending DEF NoHello

LEMMA DialFailsKeeps ==
  ASSUME ConnInv, NEW c \in Conn, NEW n \in Node, DialFails(c, n)
  PROVE  ConnInv'
<1> DEFINE r == conn[c]
<1>1. n \in Ends(c) /\ r.stage[n] = "Dialing"
  BY DEF DialFails, At
<1>2. Sane(r) /\ r \in ConnRec /\ n \in EndsOf(r) /\ n \in Node /\ r.acceptor \in Node
  BY <1>1, StepSetting, EndsPair
<1>3. conn' = [conn EXCEPT ![c] = Unused] /\ Sane(Unused) /\ Unused \in ConnRec
  BY SaneUnused DEF DialFails, Sane
<1>4. \A m \in Node : r.stage[m] \notin Active /\ r.stage[m] \notin Shown
  BY <1>1, <1>2 DEF Sane, DialsAlone, Active, Shown
<1>5. /\ event' \in [Node -> [Node -> {"none", "connecting", "failed", "connected",
                                       "disconnected"}]]
      /\ \A m, o \in Node : event'[m][o] = "connected" => event[m][o] = "connected"
  <2>1. Emit(n, r.acceptor, "failed")
    BY DEF DialFails
  <2> QED
    BY <1>2, <2>1, EmitType DEF ConnInv
<1>6. conn' \in [Conn -> ConnRec] /\ AllSane' /\ EntryServed' /\ ShownServed'
  BY <1>3, <1>4, <1>5, HandlersGoOn DEF DialFails
<1>7. TypeOK'
  <2>1. faults' \in 0..MAX_FAULTS
    BY ConnParts DEF ConnInv, TypeOK, DialFails
  <2> QED
    BY <1>5, <1>6, <2>1, TypeFrom DEF ConnInv, TypeOK, DialFails
<1> QED
  BY <1>6, <1>7 DEF ConnInv

LEMMA CutKeeps ==
  ASSUME ConnInv, NEW c \in Conn, Cut(c)
  PROVE  ConnInv'
<1> DEFINE r == conn[c]
<1>1. PICK got \in SUBSET Ends(c) : conn' = [conn EXCEPT ![c] = Broken(@, got)]
  BY DEF Cut
<1> DEFINE q == Broken(r, got)
<1>2. Sane(r) /\ r \in ConnRec /\ r # Unused
  BY ConnParts DEF ConnInv, AllSane, Cut, Unused
<1>3. got \in SUBSET Node
  <2>1. Ends(c) \subseteq Node
    BY StepSetting
  <2> QED
    BY <2>1
<1>4. conn' = [conn EXCEPT ![c] = q]
  BY <1>1
<1>5. q \in ConnRec /\ Sane(q) /\ q.stage = r.stage /\ EndsOf(q) = EndsOf(r)
  BY <1>2, <1>3, SaneBroken
<1> HIDE DEF q
<1>6. faults' \in 0..MAX_FAULTS
  BY ConnParts DEF ConnInv, TypeOK, Cut
<1>7. manual' \in 0..MAX_MANUAL /\ sends' \in 0..MAX_SENDS
  BY DEF ConnInv, TypeOK, Cut
<1> QED
  BY <1>4, <1>5, <1>6, <1>7, QuietKeeps DEF Cut

\* The sender goes into the map under the node id of the Hello.
LEMMA RegisterKeeps ==
  ASSUME ConnInv, NEW c \in Conn, NEW n \in Node, Register(c, n)
  PROVE  ConnInv'
<1> DEFINE r == conn[c]
<1> DEFINE p == Other(c, n)
<1> DEFINE q == [r EXCEPT !.stage[n] = "Registered", !.key[n] = p, !.wire[n] = Tail(@)]
<1>1. n \in Ends(c) /\ r.stage[n] = "AwaitHello" /\ r.wire[n] # <<>>
  BY DEF Register, At
<1>2. /\ Sane(r) /\ r \in ConnRec /\ n \in EndsOf(r) /\ n \in Node
      /\ p \in EndsOf(r) /\ p # n /\ p \in Node /\ EndsOf(r) = {n, p}
  BY <1>1, StepSetting
<1>3. Head(r.wire[n]) = "Hello"
  BY <1>1, <1>2 DEF Sane, HelloFirst
<1> HIDE DEF p
<1>4. conn' = [conn EXCEPT ![c] = q] /\ peer_senders' = [peer_senders EXCEPT ![n][p] = c]
  BY <1>3 DEF Register, p
<1>5. Sane(q) /\ q \in ConnRec
  BY <1>1, <1>2, SaneRegister DEF Sane
<1>6. q.stage = [r.stage EXCEPT ![n] = "Registered"] /\ EndsOf(q) = EndsOf(r)
  BY <1>2 DEF ConnRec, EndsOf
<1> HIDE DEF q
<1>7. /\ conn' \in [Conn -> ConnRec] /\ AllSane'
      /\ conn'[c] = q /\ \A d \in Conn \ {c} : conn'[d] = conn[d]
  BY <1>4, <1>5, OneRecord
<1>8. q.stage[n] = "Registered" /\ \A m \in Node \ {n} : q.stage[m] = r.stage[m]
  BY <1>2, <1>6 DEF ConnRec
<1>9. /\ peer_senders'[n][p] = c
      /\ \A m, o \in Node : m # n \/ o # p => peer_senders'[m][o] = peer_senders[m][o]
      /\ peer_senders' \in [Node -> [Key -> Conn \cup {None}]]
  BY <1>2, <1>4 DEF ConnInv, TypeOK, Key
<1>10. EntryServed'
  <2> SUFFICES ASSUME NEW m \in Node, NEW o \in Node, NEW d \in Conn,
                      peer_senders'[m][o] = d
               PROVE  EndsOf(conn'[d]) = {m, o} /\ conn'[d].stage[m] \in Active
    BY DEF EntryServed
  <2>1. CASE m = n /\ o = p
    BY <1>2, <1>6, <1>7, <1>8, <1>9, <2>1 DEF Active
  <2>2. CASE m # n \/ o # p
    <3>1. EndsOf(conn[d]) = {m, o} /\ conn[d].stage[m] \in Active
      BY <1>9, <2>2 DEF ConnInv, EntryServed
    <3>2. d = c => m # n
      BY <1>1, <3>1 DEF Active
    <3> QED
      BY <1>6, <1>7, <1>8, <3>1, <3>2
  <2> QED
    BY <2>1, <2>2
<1>11. ASSUME NEW m \in Node, NEW o \in Node, event'[m][o] = "connected"
       PROVE  \E d \in Conn : EndsOf(conn'[d]) = {m, o} /\ conn'[d].stage[m] \in Shown
  <2>1. PICK d \in Conn : EndsOf(conn[d]) = {m, o} /\ conn[d].stage[m] \in Shown
    BY <1>11 DEF ConnInv, ShownServed, Register
  <2>2. d = c => m # n
    BY <1>1, <2>1 DEF Shown
  <2> QED
    BY <1>6, <1>7, <1>8, <2>1, <2>2
<1>12. ShownServed'
  BY <1>11 DEF ShownServed
<1>13. TypeOK'
  BY <1>7, <1>9, TypeFrom, Unspending DEF ConnInv, TypeOK, Register
<1> QED
  BY <1>7, <1>10, <1>12, <1>13 DEF ConnInv

\* A running handler tells the frontend that its peer is connected.
LEMMA ConnectedKeeps ==
  ASSUME ConnInv, NEW c \in Conn, NEW q \in ConnRec, Sane(q),
         conn' = [conn EXCEPT ![c] = q],
         EndsOf(q) = EndsOf(conn[c]),
         \A m \in Node : conn[c].stage[m] \in Active => q.stage[m] \in Active,
         \A m \in Node : conn[c].stage[m] \in Shown => q.stage[m] \in Shown,
         NEW n \in Node, NEW p \in Node, EndsOf(q) = {n, p}, q.stage[n] \in Shown,
         Emit(n, p, "connected"),
         saved' \in [Node -> SUBSET Node], peer_senders' = peer_senders, Unspent
  PROVE  ConnInv'
<1>1. /\ conn' \in [Conn -> ConnRec] /\ AllSane'
      /\ conn'[c] = q /\ \A d \in Conn \ {c} : conn'[d] = conn[d]
  BY OneRecord
<1>2. /\ event' \in [Node -> [Node -> {"none", "connecting", "failed", "connected",
                                       "disconnected"}]]
      /\ \A m, o \in Node : m # n \/ o # p => event'[m][o] = event[m][o]
  BY EmitType DEF ConnInv
<1>3. \A d \in Conn, m \in Node :
        conn[d].stage[m] \in Active =>
          conn'[d].stage[m] \in Active /\ EndsOf(conn'[d]) = EndsOf(conn[d])
  BY <1>1
<1>4. EntryServed'
  <2> SUFFICES ASSUME NEW m \in Node, NEW o \in Node, NEW d \in Conn,
                      peer_senders'[m][o] = d
               PROVE  EndsOf(conn'[d]) = {m, o} /\ conn'[d].stage[m] \in Active
    BY DEF EntryServed
  <2>1. peer_senders[m][o] = d
    OBVIOUS
  <2>2. EndsOf(conn[d]) = {m, o} /\ conn[d].stage[m] \in Active
    BY <2>1 DEF ConnInv, EntryServed
  <2> QED
    BY <1>3, <2>2
<1>5. ASSUME NEW m \in Node, NEW o \in Node, event'[m][o] = "connected"
      PROVE  \E d \in Conn : EndsOf(conn'[d]) = {m, o} /\ conn'[d].stage[m] \in Shown
  <2>1. CASE m = n /\ o = p
    BY <1>1, <2>1
  <2>2. CASE m # n \/ o # p
    <3>1. event[m][o] = "connected"
      BY <1>2, <1>5, <2>2
    <3>2. PICK d \in Conn : EndsOf(conn[d]) = {m, o} /\ conn[d].stage[m] \in Shown
      BY <3>1 DEF ConnInv, ShownServed
    <3> QED
      BY <1>1, <3>2
  <2> QED
    BY <2>1, <2>2
<1>6. ShownServed'
  BY <1>5 DEF ShownServed
<1>7. TypeOK'
  BY <1>1, <1>2, TypeFrom, Unspending DEF ConnInv, TypeOK
<1> QED
  BY <1>1, <1>4, <1>6, <1>7 DEF ConnInv

\* The key of a handler is the other end.
LEMMA KeyIsOther ==
  ASSUME ConnInv, NEW c \in Conn, NEW n \in Ends(c),
         conn[c].stage[n] \in Active \cup {"Removed"}
  PROVE  conn[c].key[n] = Other(c, n)
<1>1. /\ Sane(conn[c]) /\ n \in EndsOf(conn[c]) /\ EndsOf(conn[c]) = {n, Other(c, n)}
  BY StepSetting
<1>2. conn[c].key[n] \in EndsOf(conn[c]) /\ conn[c].key[n] # n
  BY <1>1 DEF Sane, KeyedByPeer
<1> QED
  BY <1>1, <1>2

LEMMA AnnounceKeeps ==
  ASSUME ConnInv, NEW c \in Conn, NEW n \in Node, Announce(c, n)
  PROVE  ConnInv'
<1> DEFINE r == conn[c]
<1> DEFINE p == Other(c, n)
<1> DEFINE q == [r EXCEPT !.stage[n] = "Running"]
<1>1. n \in Ends(c) /\ r.stage[n] = "Greeted"
  BY DEF Announce, At
<1>2. /\ Sane(r) /\ r \in ConnRec /\ n \in EndsOf(r) /\ n \in Node
      /\ p \in Node /\ EndsOf(r) = {n, p}
  BY <1>1, StepSetting
<1>3. r.key[n] = p
  BY <1>1, KeyIsOther DEF Active
<1> HIDE DEF p
<1>4. conn' = [conn EXCEPT ![c] = q] /\ Emit(n, p, "connected")
  BY <1>3 DEF Announce, Goto
<1>5. Sane(q) /\ q \in ConnRec
  BY <1>1, <1>2, SaneGoto DEF Sane, Stage
<1>6. q.stage = [r.stage EXCEPT ![n] = "Running"] /\ EndsOf(q) = EndsOf(r)
  BY <1>2 DEF ConnRec, EndsOf
<1> HIDE DEF q
<1>7. q.stage[n] = "Running" /\ \A m \in Node \ {n} : q.stage[m] = r.stage[m]
  BY <1>2, <1>6 DEF ConnRec
<1>8. /\ \A m \in Node : r.stage[m] \in Active => q.stage[m] \in Active
      /\ \A m \in Node : r.stage[m] \in Shown => q.stage[m] \in Shown
      /\ q.stage[n] \in Shown
  BY <1>7 DEF Active, Shown
<1>9. saved' \in [Node -> SUBSET Node] /\ peer_senders' = peer_senders /\ Unspent
  BY DEF ConnInv, TypeOK, Announce
<1> QED
  BY <1>2, <1>4, <1>5, <1>6, <1>8, <1>9, ConnectedKeeps

LEMMA ReadKeeps ==
  ASSUME ConnInv, NEW c \in Conn, NEW n \in Node, Read(c, n)
  PROVE  ConnInv'
<1> DEFINE r == conn[c]
<1> DEFINE p == Other(c, n)
<1> DEFINE q == [r EXCEPT !.wire[n] = Tail(@)]
<1>1. n \in Ends(c) /\ r.stage[n] = "Running" /\ r.wire[n] # <<>>
  BY DEF Read, At
<1>2. /\ Sane(r) /\ r \in ConnRec /\ n \in EndsOf(r) /\ n \in Node
      /\ p \in Node /\ EndsOf(r) = {n, p}
  BY <1>1, StepSetting
<1> HIDE DEF p
<1>3. conn' = [conn EXCEPT ![c] = q] /\ peer_senders' = peer_senders /\ Unspent
  BY DEF Read
<1>4. Sane(q) /\ q \in ConnRec
  BY <1>1, <1>2, SaneRead DEF Sane
<1>5. q.stage = r.stage /\ EndsOf(q) = EndsOf(r)
  BY <1>2 DEF ConnRec, EndsOf
<1> HIDE DEF q
<1>6. CASE Head(r.wire[n]) = "Hello"
  <2>1. Emit(n, p, "connected") /\ saved' = [saved EXCEPT ![n] = @ \cup {p}]
    BY <1>6 DEF Read, p
  <2>2. saved' \in [Node -> SUBSET Node]
    BY <1>2, <2>1 DEF ConnInv, TypeOK
  <2>3. q.stage[n] \in Shown
    BY <1>1, <1>5 DEF Shown
  <2> QED
    BY <1>2, <1>3, <1>4, <1>5, <2>1, <2>2, <2>3, ConnectedKeeps
<1>7. CASE Head(r.wire[n]) # "Hello"
  <2>1. UNCHANGED <<saved, event>>
    BY <1>7 DEF Read
  <2> QED
    BY <1>3, <1>4, <1>5, <2>1, QuietKeeps, Unspending
<1> QED
  BY <1>6, <1>7

\* The entry goes with the reader.
LEMMA ReaderEndsKeeps ==
  ASSUME ConnInv, NEW c \in Conn, NEW n \in Node, ReaderEnds(c, n)
  PROVE  ConnInv'
<1> DEFINE r == conn[c]
<1> DEFINE p == Other(c, n)
<1> DEFINE q == [r EXCEPT !.stage[n] = "Removed"]
<1>1. n \in Ends(c) /\ r.stage[n] = "Running" /\ ~ r.up
  BY DEF ReaderEnds, At
<1>2. /\ Sane(r) /\ r \in ConnRec /\ n \in EndsOf(r) /\ n \in Node
      /\ p \in Node /\ p # n /\ EndsOf(r) = {n, p}
  BY <1>1, StepSetting
<1>3. r.key[n] = p
  BY <1>1, KeyIsOther DEF Active
<1> HIDE DEF p
<1>4. conn' = [conn EXCEPT ![c] = q]
      /\ peer_senders' = [peer_senders EXCEPT ![n][p] = None]
  BY <1>3 DEF ReaderEnds, Goto
<1>5. Sane(q) /\ q \in ConnRec
  BY <1>1, <1>2, SaneGoto DEF Sane, Stage
<1>6. q.stage = [r.stage EXCEPT ![n] = "Removed"] /\ EndsOf(q) = EndsOf(r)
  BY <1>2 DEF ConnRec, EndsOf
<1> HIDE DEF q
<1>7. q.stage[n] = "Removed" /\ \A m \in Node \ {n} : q.stage[m] = r.stage[m]
  BY <1>2, <1>6 DEF ConnRec
<1>8. /\ conn' \in [Conn -> ConnRec] /\ AllSane'
      /\ conn'[c] = q /\ \A d \in Conn \ {c} : conn'[d] = conn[d]
  BY <1>4, <1>5, OneRecord
<1>9. /\ peer_senders'[n][p] = None
      /\ \A m, o \in Node : m # n \/ o # p => peer_senders'[m][o] = peer_senders[m][o]
      /\ peer_senders' \in [Node -> [Key -> Conn \cup {None}]]
  BY <1>2, <1>4 DEF ConnInv, TypeOK, Key
<1>10. EntryServed'
  <2> SUFFICES ASSUME NEW m \in Node, NEW o \in Node, NEW d \in Conn,
                      peer_senders'[m][o] = d
               PROVE  EndsOf(conn'[d]) = {m, o} /\ conn'[d].stage[m] \in Active
    BY DEF EntryServed
  <2>1. None \notin Conn
    BY ConnParts, ConnectionsAssumption DEF ConnInv
  <2>2. m # n \/ o # p
    BY <1>9, <2>1
  <2>3. EndsOf(conn[d]) = {m, o} /\ conn[d].stage[m] \in Active
    BY <1>9, <2>2 DEF ConnInv, EntryServed
  <2>4. d = c => m # n
    BY <1>2, <2>2, <2>3
  <2> QED
    BY <1>6, <1>7, <1>8, <2>3, <2>4
<1>11. ASSUME NEW m \in Node, NEW o \in Node, event'[m][o] = "connected"
       PROVE  \E d \in Conn : EndsOf(conn'[d]) = {m, o} /\ conn'[d].stage[m] \in Shown
  <2>1. PICK d \in Conn : EndsOf(conn[d]) = {m, o} /\ conn[d].stage[m] \in Shown
    BY <1>11 DEF ConnInv, ShownServed, ReaderEnds
  <2> QED
    BY <1>6, <1>7, <1>8, <2>1 DEF Shown
<1>12. ShownServed'
  BY <1>11 DEF ShownServed
<1>13. TypeOK'
  BY <1>8, <1>9, TypeFrom, Unspending DEF ConnInv, TypeOK, ReaderEnds
<1> QED
  BY <1>8, <1>10, <1>12, <1>13 DEF ConnInv

\* The frontend is told last, under the key of the handler.
LEMMA DisconnectedKeeps ==
  ASSUME ConnInv, NEW c \in Conn, NEW n \in Node, Disconnected(c, n)
  PROVE  ConnInv'
<1> DEFINE r == conn[c]
<1> DEFINE p == Other(c, n)
<1> DEFINE q == Freed([r EXCEPT !.stage[n] = "Done"])
<1>1. n \in Ends(c) /\ r.stage[n] = "Removed"
  BY DEF Disconnected, At
<1>2. /\ Sane(r) /\ r \in ConnRec /\ n \in EndsOf(r) /\ n \in Node
      /\ p \in Node /\ p # n /\ EndsOf(r) = {n, p}
  BY <1>1, StepSetting
<1>3. r.key[n] = p
  BY <1>1, KeyIsOther
<1>4. ~ r.up
  BY <1>1, <1>2 DEF Sane, UpIsServed, Serving, Active
<1> HIDE DEF p
<1>5. conn' = [conn EXCEPT ![c] = q] /\ Emit(n, p, "disconnected")
  BY <1>3 DEF Disconnected
<1>6. /\ q \in ConnRec /\ Sane(q)
      /\ \A m \in Node : r.stage[m] # "Done" /\ m # n =>
           q.stage[m] = r.stage[m] /\ EndsOf(q) = EndsOf(r)
  BY <1>2, <1>4, DoneRecord
<1> HIDE DEF q
<1>7. /\ conn' \in [Conn -> ConnRec] /\ AllSane'
      /\ conn'[c] = q /\ \A d \in Conn \ {c} : conn'[d] = conn[d]
  BY <1>5, <1>6, OneRecord
<1>8. /\ event' \in [Node -> [Node -> {"none", "connecting", "failed", "connected",
                                       "disconnected"}]]
      /\ event'[n][p] = "disconnected"
      /\ \A m, o \in Node : m # n \/ o # p => event'[m][o] = event[m][o]
  BY <1>2, <1>5, EmitType DEF ConnInv
<1>9. EntryServed'
  <2> SUFFICES ASSUME NEW m \in Node, NEW o \in Node, NEW d \in Conn,
                      peer_senders'[m][o] = d
               PROVE  EndsOf(conn'[d]) = {m, o} /\ conn'[d].stage[m] \in Active
    BY DEF EntryServed
  <2>1. EndsOf(conn[d]) = {m, o} /\ conn[d].stage[m] \in Active
    BY DEF ConnInv, EntryServed, Disconnected
  <2>2. d = c => m # n
    BY <1>1, <2>1 DEF Active
  <2>3. conn[d].stage[m] # "Done"
    BY <2>1 DEF Active
  <2> QED
    BY <1>6, <1>7, <2>1, <2>2, <2>3
<1>10. ASSUME NEW m \in Node, NEW o \in Node, event'[m][o] = "connected"
       PROVE  \E d \in Conn : EndsOf(conn'[d]) = {m, o} /\ conn'[d].stage[m] \in Shown
  <2>1. m # n \/ o # p
    BY <1>8, <1>10
  <2>2. PICK d \in Conn : EndsOf(conn[d]) = {m, o} /\ conn[d].stage[m] \in Shown
    BY <1>8, <1>10, <2>1 DEF ConnInv, ShownServed
  <2>3. d = c => m # n
    BY <1>2, <2>1, <2>2
  <2>4. conn[d].stage[m] # "Done"
    BY <2>2 DEF Shown
  <2> QED
    BY <1>6, <1>7, <2>2, <2>3, <2>4
<1>11. ShownServed'
  BY <1>10 DEF ShownServed
<1>12. TypeOK'
  BY <1>7, <1>8, TypeFrom, Unspending DEF ConnInv, TypeOK, Disconnected
<1> QED
  BY <1>7, <1>9, <1>11, <1>12 DEF ConnInv

LEMMA SendKeeps ==
  ASSUME ConnInv, NEW n \in Node, NEW frame \in FRAMES, Send(n, frame)
  PROVE  ConnInv'
<1> DEFINE Held(d) == \E k \in Key : peer_senders[n][k] = d
<1>1. conn' = [d \in Conn |-> IF Held(d) THEN TrySend(conn[d], n, frame) ELSE conn[d]]
  BY DEF Send
<1>2. frame \in Frame
  BY ConnectionsAssumption DEF Frame
<1>3. ASSUME NEW d \in Conn
      PROVE  /\ conn'[d] \in ConnRec /\ Sane(conn'[d])
             /\ conn'[d].stage = conn[d].stage /\ EndsOf(conn'[d]) = EndsOf(conn[d])
  <2>1. conn[d] \in ConnRec /\ Sane(conn[d])
    BY ConnParts DEF ConnInv, AllSane
  <2>2. /\ Sane(TrySend(conn[d], n, frame))
        /\ TrySend(conn[d], n, frame).stage = conn[d].stage
        /\ EndsOf(TrySend(conn[d], n, frame)) = EndsOf(conn[d])
    BY <1>2, <2>1, SaneTrySend
  <2>3. conn'[d] = TrySend(conn[d], n, frame) \/ conn'[d] = conn[d]
    BY <1>1
  <2> QED
    BY <2>1, <2>2, <2>3 DEF Sane
<1>4. conn' = [d \in Conn |-> conn'[d]]
  BY <1>1
<1>5. conn' \in [Conn -> ConnRec] /\ AllSane'
  BY <1>3, <1>4 DEF AllSane
<1>6. EntryServed'
  <2>1. peer_senders' = peer_senders
    BY DEF Send
  <2>2. ASSUME NEW m \in Node, NEW o \in Node, NEW d \in Conn, peer_senders[m][o] = d
        PROVE  EndsOf(conn'[d]) = {m, o} /\ conn'[d].stage[m] \in Active
    BY <1>3, <2>2 DEF ConnInv, EntryServed
  <2> QED
    BY <2>1, <2>2 DEF EntryServed
<1>7. ASSUME NEW m \in Node, NEW o \in Node, event'[m][o] = "connected"
      PROVE  \E d \in Conn : EndsOf(conn'[d]) = {m, o} /\ conn'[d].stage[m] \in Shown
  <2>1. PICK d \in Conn : EndsOf(conn[d]) = {m, o} /\ conn[d].stage[m] \in Shown
    BY <1>7 DEF ConnInv, ShownServed, Send
  <2> QED
    BY <1>3, <2>1
<1>8. ShownServed'
  BY <1>7 DEF ShownServed
<1>9. sends' \in 0..MAX_SENDS
  BY ConnParts DEF ConnInv, TypeOK, Send
<1>10. TypeOK'
  BY <1>5, <1>9, TypeFrom DEF ConnInv, TypeOK, Send
<1> QED
  BY <1>5, <1>6, <1>8, <1>10 DEF ConnInv

\* All handlers of n go at once, with its map and what its page shows.
LEMMA RestartKeeps ==
  ASSUME ConnInv, NEW n \in Node, Restart(n)
  PROVE  ConnInv'
<1>1. PICK got \in SUBSET (Node \ {n}) :
        conn' = [d \in Conn |->
                   IF n \in Ends(d)
                     THEN Freed([Broken(conn[d], got) EXCEPT !.stage[n] = "Done"])
                     ELSE conn[d]]
  BY DEF Restart
<1>2. ASSUME NEW d \in Conn
      PROVE  /\ conn'[d] \in ConnRec /\ Sane(conn'[d])
             /\ \A m \in Node : conn[d].stage[m] # "Done" /\ m # n =>
                  conn'[d].stage[m] = conn[d].stage[m]
                  /\ EndsOf(conn'[d]) = EndsOf(conn[d])
  <2>1. conn[d] \in ConnRec /\ Sane(conn[d]) /\ Ends(d) = EndsOf(conn[d])
    BY ConnParts DEF ConnInv, AllSane
  <2>2. CASE n \in Ends(d)
    <3> DEFINE b == Broken(conn[d], got)
    <3>1. conn[d] # Unused
      BY <2>2, StepSetting
    <3>2. /\ b \in ConnRec /\ Sane(b) /\ ~ b.up /\ b.stage = conn[d].stage
          /\ EndsOf(b) = EndsOf(conn[d])
      BY <2>1, <3>1, SaneBroken
    <3>3. conn'[d] = Freed([b EXCEPT !.stage[n] = "Done"])
      BY <1>1, <2>2
    <3> HIDE DEF b
    <3>4. /\ conn'[d] \in ConnRec /\ Sane(conn'[d])
          /\ \A m \in Node : b.stage[m] # "Done" /\ m # n =>
               conn'[d].stage[m] = b.stage[m] /\ EndsOf(conn'[d]) = EndsOf(b)
      BY <2>1, <2>2, <3>2, <3>3, DoneRecord
    <3> QED
      BY <3>2, <3>4
  <2>3. CASE n \notin Ends(d)
    BY <1>1, <2>1, <2>3
  <2> QED
    BY <2>2, <2>3
<1>3. conn' = [d \in Conn |-> conn'[d]]
  BY <1>1
<1>4. conn' \in [Conn -> ConnRec] /\ AllSane'
  BY <1>2, <1>3 DEF AllSane
<1>5. /\ \A k \in Key : peer_senders'[n][k] = None
      /\ \A m \in Node \ {n} : peer_senders'[m] = peer_senders[m]
      /\ peer_senders' \in [Node -> [Key -> Conn \cup {None}]]
  BY DEF ConnInv, TypeOK, Restart
<1>6. /\ \A o \in Node : event'[n][o] = "none"
      /\ \A m \in Node \ {n} : event'[m] = event[m]
      /\ event' \in [Node -> [Node -> {"none", "connecting", "failed", "connected",
                                       "disconnected"}]]
  BY DEF ConnInv, TypeOK, Restart
<1>7. EntryServed'
  <2> SUFFICES ASSUME NEW m \in Node, NEW o \in Node, NEW d \in Conn,
                      peer_senders'[m][o] = d
               PROVE  EndsOf(conn'[d]) = {m, o} /\ conn'[d].stage[m] \in Active
    BY DEF EntryServed
  <2>1. None \notin Conn /\ o \in Key
    BY ConnParts, ConnectionsAssumption DEF ConnInv, Key
  <2>2. m # n
    BY <1>5, <2>1
  <2>3. peer_senders[m][o] = d
    BY <1>5, <2>2
  <2>4. EndsOf(conn[d]) = {m, o} /\ conn[d].stage[m] \in Active
    BY <2>3 DEF ConnInv, EntryServed
  <2>5. conn[d].stage[m] # "Done"
    BY <2>4 DEF Active
  <2> QED
    BY <1>2, <2>2, <2>4, <2>5
<1>8. ASSUME NEW m \in Node, NEW o \in Node, event'[m][o] = "connected"
      PROVE  \E d \in Conn : EndsOf(conn'[d]) = {m, o} /\ conn'[d].stage[m] \in Shown
  <2>1. m # n /\ event[m][o] = "connected"
    BY <1>6, <1>8
  <2>2. PICK d \in Conn : EndsOf(conn[d]) = {m, o} /\ conn[d].stage[m] \in Shown
    BY <2>1 DEF ConnInv, ShownServed
  <2>3. conn[d].stage[m] # "Done"
    BY <2>2 DEF Shown
  <2> QED
    BY <1>2, <2>1, <2>2, <2>3
<1>9. ShownServed'
  BY <1>8 DEF ShownServed
<1>10. faults' \in 0..MAX_FAULTS
  BY ConnParts DEF ConnInv, TypeOK, Restart
<1>11. TypeOK'
  BY <1>4, <1>5, <1>6, <1>10, TypeFrom DEF ConnInv, TypeOK, Restart
<1> QED
  BY <1>4, <1>7, <1>9, <1>11 DEF ConnInv

LEMMA StutterKeeps ==
  ASSUME ConnInv, UNCHANGED vars
  PROVE  ConnInv'
BY DEF ConnInv, TypeOK, AllSane, EntryServed, ShownServed, vars

LEMMA ConnInit ==
  ASSUME Init
  PROVE  ConnInv
<1>1. \A c \in Conn : conn[c] = Unused
  BY DEF Init
<1>2. Sane(Unused) /\ Unused \in ConnRec /\ Bounded(Unused)
  BY SaneUnused DEF Sane
<1>3. AllSane
  BY <1>1, <1>2 DEF AllSane
<1>4. conn \in [Conn -> ConnRec]
  BY <1>2 DEF Init
<1>5. \A c \in Conn, n \in Node : Len(conn[c].chan[n]) <= CHANNEL_CAP
  BY <1>1, <1>2 DEF Bounded
<1>6. TypeOK
  BY <1>4, <1>5, ConnectionsAssumption DEF Init, TypeOK, ConnRec
<1>7. None \notin Conn
  BY ConnParts, ConnectionsAssumption, <1>6
<1>8. EntryServed /\ ShownServed
  BY <1>7 DEF Init, EntryServed, ShownServed, Key
<1> QED
  BY <1>3, <1>6, <1>8 DEF ConnInv

-----------------------------------------------------------------------------
(* The theorems *)

\* The inductive invariant: each connection is as its two handlers have left
\* it, and the map and the events only speak of handlers that are there.
THEOREM ConnectionsInvariant == Spec => []ConnInv
<1>1. Init => ConnInv
  BY ConnInit
<1>2. ASSUME ConnInv, [Next]_vars PROVE ConnInv'
  <2>1. ASSUME NEW c \in Conn, NEW n \in Node, Step(c, n)
        PROVE  ConnInv'
    BY <1>2, <2>1, EstablishedKeeps, RegisterKeeps, NoHelloKeeps, GreetKeeps,
       AnnounceKeeps, WriteKeeps, ReadKeeps, ReaderEndsKeeps, DisconnectedKeeps DEF Step
  <2>2. ASSUME Next PROVE ConnInv'
    BY <1>2, <2>1, <2>2, DialKeeps, DialFailsKeeps, SendKeeps, CutKeeps, RestartKeeps
       DEF Next
  <2> QED
    BY <1>2, <2>2, StutterKeeps
<1> QED
  BY <1>1, <1>2, PTL DEF Spec

\* Type correctness; no channel ever holds more than its capacity.
THEOREM ConnectionsTypeCorrect == Spec => []TypeOK
<1>1. ConnInv => TypeOK
  BY DEF ConnInv
<1> QED
  BY <1>1, ConnectionsInvariant, PTL

\* No handler of two nodes that run this code is keyed by address.
THEOREM ConnectionsKeyedByNodeId == Spec => []KeyedByNodeId
<1>1. ConnInv => KeyedByNodeId
  BY KeyIsOther DEF KeyedByNodeId, Active
<1> QED
  BY <1>1, ConnectionsInvariant, PTL

\* No entry of peer_senders outlives the connection it belongs to, whatever
\* overlaps, breaks or is used again.
THEOREM ConnectionsEntryHasReaders == Spec => []EntryHasReaders
<1>1. ASSUME ConnInv, NEW n \in Node, NEW p \in Node, NEW c \in Conn,
             peer_senders[n][p] = c
      PROVE  /\ Ends(c) = {n, p}
             /\ conn[c].stage[n] \in {"Registered", "Greeted", "Running"}
             /\ conn[c].up => conn[c].stage[p] # "Done"
  <2>1. EndsOf(conn[c]) = {n, p} /\ conn[c].stage[n] \in Active
    BY <1>1 DEF ConnInv, EntryServed
  <2>2. Ends(c) = EndsOf(conn[c]) /\ Sane(conn[c])
    BY <1>1, ConnParts DEF ConnInv, AllSane
  <2>3. conn[c].up => conn[c].stage[p] # "Done"
    BY <2>1, <2>2 DEF Sane, UpIsServed, Serving, Active
  <2> QED
    BY <2>1, <2>2, <2>3 DEF Active
<1>2. ConnInv => EntryHasReaders
  BY <1>1 DEF EntryHasReaders
<1> QED
  BY <1>2, ConnectionsInvariant, PTL

\* A peer that the frontend shows as connected has a handler that has still
\* to end, and to say so.
THEOREM ConnectionsShownWhileConnected == Spec => []ShownWhileConnected
<1>1. ConnInv => ShownWhileConnected
  BY ConnParts DEF ConnInv, ShownServed, ShownWhileConnected, Shown
<1> QED
  BY <1>1, ConnectionsInvariant, PTL
=============================================================================
