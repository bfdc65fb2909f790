---------------------------- MODULE SessionProofs ----------------------------
(***************************************************************************)
(* Theorems about Session, for every set of nodes and commands, every      *)
(* window and age limit and every bound.                                   *)
(***************************************************************************)
EXTENDS Session, FiniteSetTheorems, TLAPS

\* A call that finds the counter, whatever its two statements come to.
Opening(d, saved, bumped) == OpenDm(d, saved, bumped) \/ OpenFile(d, bumped)

(* What no step but those of a command and Open touches; a command may end *)
(* without a trace.                                                        *)
Quiet ==
  /\ sending' \subseteq sending
  /\ UNCHANGED <<msg_counter, recv_hint, messages, started, sent, raised, overlapped>>

LEMMA StepCases ==
  ASSUME [Next]_vars
  PROVE  \/ Quiet
         \/ \E c \in Command, n, p \in Node, kind \in {"Dm", "File"} :
              Invoke(c, n, p, kind)
         \/ \E s \in sending : Save(s) \/ Count(s) \/ Broadcast(s)
         \/ \E d \in decrypting, saved, bumped \in BOOLEAN : Opening(d, saved, bumped)
<1>1. CASE \E c \in Command, n, p \in Node : InvokeDm(c, n, p) \/ InvokeFile(c, n, p)
  BY <1>1 DEF InvokeDm, InvokeFile
<1>2. CASE \E s \in sending : Save(s) \/ Count(s) \/ Broadcast(s) \/ Abort(s)
  BY <1>2 DEF Abort, Quiet
<1>3. CASE \E pkt \in network : TryDecrypt(pkt)
  BY <1>3 DEF TryDecrypt, Quiet
<1>4. CASE \E d \in decrypting, bumped \in BOOLEAN :
             OpenFile(d, bumped) \/ \E saved \in BOOLEAN : OpenDm(d, saved, bumped)
  BY <1>4 DEF Opening
<1>5. CASE \E d \in decrypting : Fail(d)
  BY <1>5 DEF Fail, Quiet
<1>6. CASE \E n, p \in Node : Meet(n, p)
  BY <1>6 DEF Meet, Quiet
<1>7. CASE \E n \in Node : Crash(n) \/ \E t \in 0..MAX_TIME : SetClock(n, t)
  BY <1>7 DEF Crash, SetClock, Quiet
<1>8. CASE UNCHANGED vars
  BY <1>8 DEF vars, Quiet
<1>. QED BY <1>1, <1>2, <1>3, <1>4, <1>5, <1>6, <1>7, <1>8 DEF Next

\* What a call that finds the counter does to the sender's side and to hints.
LEMMA OpeningEffect ==
  ASSUME NEW d \in decrypting, NEW saved \in BOOLEAN, NEW bumped \in BOOLEAN,
         Opening(d, saved, bumped)
  PROVE  /\ UNCHANGED <<now, msg_counter, peers, sending, started, network, sent,
                        overlapped>>
         /\ decrypting' = decrypting \ {d}
         /\ \/ /\ Bump(d.pkt.to, d.pkt.from, d.pkt.counter + 1)
               /\ raised' = raised \cup {d.pkt}
            \/ UNCHANGED <<recv_hint, raised>>
         /\ \/ SaveMessage(d.pkt.to, ReceivedId(d.pkt), d.pkt, d.pkt.counter)
            \/ messages' = messages
<1>1. CASE OpenDm(d, saved, bumped)
  BY <1>1 DEF OpenDm, Open
<1>2. CASE OpenFile(d, bumped)
  BY <1>2 DEF OpenFile, Open
<1>. QED BY <1>1, <1>2 DEF Opening

-----------------------------------------------------------------------------
(* Types *)

LEMMA InvokedType ==
  ASSUME TypeOK, NEW c \in Command, NEW n \in Node, NEW p \in Node,
         NEW kind \in {"Dm", "File"}, Invoke(c, n, p, kind)
  PROVE  \E pkt \in Packet :
           /\ pkt.id = c /\ pkt.from = n /\ pkt.to = p /\ pkt.kind = kind
           /\ pkt.counter = msg_counter[n][p]
           /\ sending' = sending \cup {[pkt |-> pkt, step |-> "Encrypted"]}
           /\ overlapped' =
                IF \E s \in sending : SameDirection(s.pkt, pkt) /\ s.step # "Counted"
                  THEN overlapped \cup {<<n, p>>} ELSE overlapped
<1>. DEFINE pkt == [id |-> c, from |-> n, to |-> p, kind |-> kind,
                    counter |-> msg_counter[n][p], time |-> now[n]]
<1>1. msg_counter[n][p] \in Nat /\ now[n] \in Nat
  BY SessionAssumption DEF TypeOK
<1>2. pkt \in Packet
  BY <1>1 DEF Packet
<1>. QED BY <1>2 DEF Invoke

LEMMA SavedType ==
  ASSUME messages \in [Node -> SUBSET Row], NEW n \in Node, NEW id \in Node \X Nat,
         NEW pkt \in Packet, SaveMessage(n, id, pkt, pkt.counter)
  PROVE  messages' \in [Node -> SUBSET Row]
<1>1. [id |-> id, pkt |-> pkt, counter |-> pkt.counter] \in Row
  BY DEF Row, Packet
<1>. QED BY <1>1 DEF SaveMessage

LEMMA IdTypes ==
  ASSUME NEW pkt \in Packet
  PROVE  /\ SentId(pkt) \in Node \X Nat
         /\ ReceivedId(pkt) \in Node \X Nat
         /\ pkt.from \in Node /\ pkt.to \in Node
         /\ pkt.counter \in Nat /\ pkt.time \in Nat
<1>1. pkt.from \in Node /\ pkt.to \in Node /\ pkt.counter \in Nat /\ pkt.time \in Nat
  BY DEF Packet
<1>2. ID_SCALE \in Nat
  BY SessionAssumption
<1>3. pkt.time * ID_SCALE + pkt.counter \in Nat
  BY <1>1, <1>2
<1>. QED BY <1>1, <1>3 DEF SentId, ReceivedId

LEMMA GotoType ==
  ASSUME TypeOK, NEW s \in sending, NEW step \in {"Encrypted", "Saved", "Counted"},
         Goto(s, step)
  PROVE  /\ sending' \in SUBSET [pkt : Packet, step : {"Encrypted", "Saved", "Counted"}]
         /\ s.pkt \in Packet
         /\ \A t \in sending' : t \in sending \/ (t.pkt = s.pkt /\ t.step = step)
<1>1. s \in [pkt : Packet, step : {"Encrypted", "Saved", "Counted"}]
  BY DEF TypeOK
<1>2. /\ [s EXCEPT !.step = step] \in [pkt : Packet, step : {"Encrypted", "Saved", "Counted"}]
      /\ [s EXCEPT !.step = step].pkt = s.pkt /\ [s EXCEPT !.step = step].step = step
  BY <1>1
<1>. QED BY <1>1, <1>2 DEF Goto, TypeOK

LEMMA TryDecryptType ==
  ASSUME TypeOK, NEW pkt \in Packet, TryDecrypt(pkt)
  PROVE  \E d \in Call, hint \in {0, recv_hint[pkt.to][pkt.from]} :
           /\ d.pkt = pkt
           /\ d.lookup = "Found" => hint = recv_hint[pkt.to][pkt.from]
           /\ d.lookup = "NoHint" => hint = 0
           /\ d.start = Start(hint) /\ d.end = hint + WINDOW_AHEAD
           /\ d.raised = RaisedFrom(pkt)
           /\ decrypting' = decrypting \cup {d}
<1>1. PICK lookup \in Lookups(pkt) :
        LET hint == IF lookup = "Found" THEN recv_hint[pkt.to][pkt.from] ELSE 0
        IN  decrypting' = decrypting \cup
              {[pkt |-> pkt, lookup |-> lookup, start |-> Start(hint),
                end |-> hint + WINDOW_AHEAD, raised |-> RaisedFrom(pkt)]}
  BY DEF TryDecrypt
<1>. DEFINE hint == IF lookup = "Found" THEN recv_hint[pkt.to][pkt.from] ELSE 0
            d == [pkt |-> pkt, lookup |-> lookup, start |-> Start(hint),
                  end |-> hint + WINDOW_AHEAD, raised |-> RaisedFrom(pkt)]
<1>2. hint \in Nat /\ WINDOW_AHEAD \in Nat /\ WINDOW_BACK \in Nat
  BY IdTypes, SessionAssumption DEF TypeOK
<1>3. Start(hint) \in Nat /\ hint + WINDOW_AHEAD \in Nat
  BY <1>2 DEF Start
<1>4. RaisedFrom(pkt) \subseteq Nat
  BY DEF RaisedFrom, TypeOK, Packet
<1>5. lookup \in Lookup
  BY DEF Lookups, Lookup
<1>6. /\ hint \in {0, recv_hint[pkt.to][pkt.from]}
      /\ lookup = "Found" => hint = recv_hint[pkt.to][pkt.from]
      /\ lookup = "NoHint" => hint = 0
  OBVIOUS
<1>7. decrypting' = decrypting \cup {d}
  BY <1>1
<1>8. d \in Call
  <2>. HIDE DEF hint
  <2>. QED BY <1>3, <1>4, <1>5 DEF Call
<1>9. d.pkt = pkt /\ d.lookup = lookup /\ d.start = Start(hint)
      /\ d.end = hint + WINDOW_AHEAD /\ d.raised = RaisedFrom(pkt)
  OBVIOUS
<1>. HIDE DEF hint, d
<1>. QED BY <1>6, <1>7, <1>8, <1>9

\* The faults after a step in which k of them happen.
LEMMA FaultType ==
  ASSUME faults \in 0..MAX_FAULTS, NEW k \in Nat, Fault(k)
  PROVE  faults' \in 0..MAX_FAULTS
BY SessionAssumption DEF Fault

LEMMA ErrorsCounted ==
  ASSUME NEW saved \in BOOLEAN, NEW bumped \in BOOLEAN
  PROVE  Cardinality({i \in 1..2 : ~ <<saved, bumped>>[i]}) \in Nat
<1>. DEFINE errors == {i \in 1..2 : ~ <<saved, bumped>>[i]}
<1>1. errors \subseteq 1..2
  OBVIOUS
<1>2. IsFiniteSet(1..2)
  <2>1. 1 \in Int /\ 2 \in Int
    OBVIOUS
  <2>. QED BY <2>1, FS_Interval
<1>. HIDE DEF errors
<1>3. Cardinality(errors) \in Nat
  BY <1>1, <1>2, FS_Subset, FS_CardinalityType
<1>. QED BY <1>3 DEF errors

LEMMA TypeKeeps ==
  ASSUME TypeOK, [Next]_vars
  PROVE  TypeOK'
<1>1. CASE \E c \in Command, n, p \in Node : InvokeDm(c, n, p) \/ InvokeFile(c, n, p)
  <2>1. PICK c \in Command, n \in Node, p \in Node, kind \in {"Dm", "File"} :
          Invoke(c, n, p, kind)
    BY <1>1 DEF InvokeDm, InvokeFile
  <2>2. PICK pkt \in Packet :
          /\ sending' = sending \cup {[pkt |-> pkt, step |-> "Encrypted"]}
          /\ overlapped' \in {overlapped, overlapped \cup {<<n, p>>}}
    BY <2>1, InvokedType
  <2>. QED BY <2>1, <2>2 DEF Invoke, TypeOK
<1>2. CASE \E s \in sending : Save(s)
  <2>1. PICK s \in sending : Save(s)
    BY <1>2
  <2>2. s.pkt \in Packet /\ s.pkt.from \in Node /\ SentId(s.pkt) \in Node \X Nat
    BY IdTypes DEF TypeOK
  <2>3. messages' \in [Node -> SUBSET Row]
    BY <2>1, <2>2, SavedType DEF Save, TypeOK
  <2>4. sending' \in SUBSET [pkt : Packet, step : {"Encrypted", "Saved", "Counted"}]
    BY <2>1, GotoType DEF Save
  <2>. QED BY <2>1, <2>3, <2>4 DEF Save, TypeOK
<1>3. CASE \E s \in sending : Count(s)
  <2>1. PICK s \in sending : Count(s)
    BY <1>3
  <2>2. s.pkt.from \in Node /\ s.pkt.to \in Node
    BY IdTypes DEF TypeOK
  <2>3. msg_counter' \in [Node -> [Node -> Nat]]
    <3>1. msg_counter[s.pkt.from][s.pkt.to] + 1 \in Nat
      BY <2>2 DEF TypeOK
    <3>. QED BY <2>1, <3>1 DEF Count, TypeOK
  <2>4. sending' \in SUBSET [pkt : Packet, step : {"Encrypted", "Saved", "Counted"}]
    BY <2>1, GotoType DEF Count
  <2>. QED BY <2>1, <2>3, <2>4 DEF Count, TypeOK
<1>4. CASE \E s \in sending : Broadcast(s)
  BY <1>4 DEF Broadcast, TypeOK
<1>5. CASE \E s \in sending : Abort(s)
  <2>1. faults' \in 0..MAX_FAULTS
    BY <1>5, FaultType DEF Abort, TypeOK
  <2>. QED BY <1>5, <2>1 DEF Abort, TypeOK
<1>6. CASE \E pkt \in network : TryDecrypt(pkt)
  <2>1. PICK pkt \in network : TryDecrypt(pkt)
    BY <1>6
  <2>2. pkt \in Packet
    BY DEF TypeOK
  <2>3. decrypting' \subseteq Call
    <3>1. \E d \in Call : decrypting' = decrypting \cup {d}
      BY <2>1, <2>2, TryDecryptType
    <3>. QED BY <3>1 DEF TypeOK
  <2>4. faults' \in 0..MAX_FAULTS
    <3>1. Fault(0) \/ Fault(1)
      BY <2>1 DEF TryDecrypt
    <3>. QED BY <3>1, FaultType DEF TypeOK
  <2>. QED BY <2>1, <2>3, <2>4 DEF TryDecrypt, TypeOK
<1>7. CASE \E d \in decrypting, saved, bumped \in BOOLEAN : Opening(d, saved, bumped)
  <2>1. PICK d \in decrypting, saved \in BOOLEAN, bumped \in BOOLEAN :
          Opening(d, saved, bumped)
    BY <1>7
  <2>2. /\ d.pkt \in Packet /\ d.pkt.to \in Node /\ d.pkt.from \in Node
        /\ d.pkt.counter \in Nat /\ ReceivedId(d.pkt) \in Node \X Nat
    BY IdTypes DEF TypeOK, Call
  <2>3. messages' \in [Node -> SUBSET Row]
    BY <2>1, <2>2, SavedType, OpeningEffect DEF TypeOK
  <2>4. recv_hint' \in [Node -> [Node -> Nat]]
    <3>1. \/ d.pkt.counter + 1 \in Nat /\ Bump(d.pkt.to, d.pkt.from, d.pkt.counter + 1)
          \/ recv_hint' = recv_hint
      BY <2>1, <2>2, OpeningEffect
    <3>2. CASE /\ d.pkt.counter + 1 \in Nat
               /\ Bump(d.pkt.to, d.pkt.from, d.pkt.counter + 1)
      BY <2>2, <3>2 DEF Bump, TypeOK
    <3>. QED BY <3>1, <3>2 DEF TypeOK
  <2>5. faults' \in 0..MAX_FAULTS
    <3>1. \E k \in Nat : Fault(k)
      BY <2>1, ErrorsCounted DEF Opening, OpenDm, OpenFile
    <3>. QED BY <3>1, FaultType DEF TypeOK
  <2>6. raised' \subseteq Packet
    BY <2>1, <2>2, OpeningEffect DEF TypeOK
  <2>7. /\ UNCHANGED <<now, msg_counter, peers, sending, started, network, sent,
                       overlapped>>
        /\ decrypting' \subseteq decrypting
    BY <2>1, OpeningEffect
  <2>. QED BY <2>3, <2>4, <2>5, <2>6, <2>7 DEF TypeOK
<1>8. CASE \E d \in decrypting : Fail(d)
  BY <1>8 DEF Fail, TypeOK
<1>9. CASE \E n, p \in Node : Meet(n, p)
  BY <1>9 DEF Meet, TypeOK
<1>10. CASE \E n \in Node : Crash(n)
  <2>1. faults' \in 0..MAX_FAULTS
    BY <1>10, FaultType DEF Crash, TypeOK
  <2>. QED BY <1>10, <2>1 DEF Crash, TypeOK
<1>11. CASE \E n \in Node, t \in 0..MAX_TIME : SetClock(n, t)
  BY <1>11 DEF SetClock, TypeOK
<1>12. CASE UNCHANGED vars
  BY <1>12 DEF vars, TypeOK
<1>13. CASE \E d \in decrypting, bumped \in BOOLEAN :
              OpenFile(d, bumped) \/ \E saved \in BOOLEAN : OpenDm(d, saved, bumped)
  BY <1>7, <1>13 DEF Opening
<1>. QED BY <1>1, <1>2, <1>3, <1>4, <1>5, <1>6, <1>8, <1>9, <1>10, <1>11, <1>12,
            <1>13 DEF Next

-----------------------------------------------------------------------------
(* Counters and hints *)

\* A packet is on its way only once its counter is spent, a command under
\* way holds a counter no higher than the next one, and a hint moves only
\* over counters that are spent.
CountersSpent ==
  /\ \A s \in sending :
       /\ s.pkt.counter <= msg_counter[s.pkt.from][s.pkt.to]
       /\ s.step = "Counted" => s.pkt.counter < msg_counter[s.pkt.from][s.pkt.to]
  /\ \A pkt \in sent : pkt.counter < msg_counter[pkt.from][pkt.to]
  /\ \A n, p \in Node : recv_hint[p][n] <= msg_counter[n][p]

\* What is received was broadcast.
OnlySent ==
  /\ network \subseteq sent
  /\ \A d \in decrypting : d.pkt \in sent
  /\ raised \subseteq sent

\* A hint that has moved is one above a counter that it was raised for.
HintReached ==
  \A n, p \in Node : recv_hint[n][p] # 0 =>
    \E pkt \in raised :
      pkt.from = p /\ pkt.to = n /\ pkt.counter + 1 = recv_hint[n][p]

LEMMA OnlySentKeeps ==
  ASSUME TypeOK, OnlySent, [Next]_vars
  PROVE  OnlySent'
<1>1. CASE \E c \in Command, n, p \in Node : InvokeDm(c, n, p) \/ InvokeFile(c, n, p)
  BY <1>1 DEF InvokeDm, InvokeFile, Invoke, OnlySent
<1>2. CASE \E s \in sending : Save(s) \/ Count(s) \/ Broadcast(s) \/ Abort(s)
  BY <1>2 DEF Save, Count, Broadcast, Abort, OnlySent
<1>3. CASE \E pkt \in network : TryDecrypt(pkt)
  <2>1. PICK pkt \in network : TryDecrypt(pkt)
    BY <1>3
  <2>2. PICK d \in Call : d.pkt = pkt /\ decrypting' = decrypting \cup {d}
    BY <2>1, TryDecryptType DEF TypeOK
  <2>. QED BY <2>1, <2>2 DEF TryDecrypt, OnlySent
<1>4. CASE \E d \in decrypting, saved, bumped \in BOOLEAN : Opening(d, saved, bumped)
  BY <1>4, OpeningEffect DEF OnlySent
<1>5. CASE \E d \in decrypting : Fail(d)
  BY <1>5 DEF Fail, OnlySent
<1>6. CASE \E n, p \in Node : Meet(n, p)
  BY <1>6 DEF Meet, OnlySent
<1>7. CASE \E n \in Node : Crash(n) \/ \E t \in 0..MAX_TIME : SetClock(n, t)
  BY <1>7 DEF Crash, SetClock, OnlySent
<1>8. CASE UNCHANGED vars
  BY <1>8 DEF vars, OnlySent
<1>9. CASE \E d \in decrypting, bumped \in BOOLEAN :
             OpenFile(d, bumped) \/ \E saved \in BOOLEAN : OpenDm(d, saved, bumped)
  BY <1>4, <1>9 DEF Opening
<1>. QED BY <1>1, <1>2, <1>3, <1>5, <1>6, <1>7, <1>8, <1>9 DEF Next

\* The hint after a call of bump_recv_counter_hint.
LEMMA BumpMax ==
  ASSUME recv_hint \in [Node -> [Node -> Nat]],
         NEW n \in Node, NEW p \in Node, NEW next \in Nat, Bump(n, p, next)
  PROVE  /\ recv_hint'[n][p] \in {next, recv_hint[n][p]} /\ recv_hint'[n][p] >= next
         /\ \A m, q \in Node : m # n \/ q # p => recv_hint'[m][q] = recv_hint[m][q]
         /\ \A m, q \in Node : /\ recv_hint'[m][q] \in Nat
                               /\ recv_hint'[m][q] >= recv_hint[m][q]
<1>1. /\ recv_hint'[n][p] = IF next > recv_hint[n][p] THEN next ELSE recv_hint[n][p]
      /\ \A m, q \in Node : m # n \/ q # p => recv_hint'[m][q] = recv_hint[m][q]
  BY DEF Bump
<1>2. \A m, q \in Node : recv_hint[m][q] \in Nat
  OBVIOUS
<1>. QED BY <1>1, <1>2

\* A step of a command or of the receiver, by its effect on counters.
LEMMA CounterTypes ==
  ASSUME TypeOK
  PROVE  /\ \A s \in sending : /\ s.pkt \in Packet /\ s.pkt.from \in Node
                               /\ s.pkt.to \in Node /\ s.pkt.counter \in Nat
         /\ \A pkt \in sent \cup raised :
              pkt.from \in Node /\ pkt.to \in Node /\ pkt.counter \in Nat
         /\ \A d \in decrypting :
              /\ d.pkt \in Packet /\ d.pkt.from \in Node
              /\ d.pkt.to \in Node /\ d.pkt.counter \in Nat
         /\ \A n, p \in Node : msg_counter[n][p] \in Nat /\ recv_hint[n][p] \in Nat
BY IdTypes DEF TypeOK, Call

LEMMA CountersSpentKeeps ==
  ASSUME TypeOK, TypeOK', CountersSpent, OnlySent, [Next]_vars
  PROVE  CountersSpent'
<1>. USE CounterTypes
<1>1. CASE Quiet
  BY <1>1 DEF Quiet, CountersSpent
<1>2. CASE \E c \in Command, n, p \in Node, kind \in {"Dm", "File"} : Invoke(c, n, p, kind)
  <2>1. PICK c \in Command, n \in Node, p \in Node, kind \in {"Dm", "File"} :
          Invoke(c, n, p, kind)
    BY <1>2
  <2>2. PICK pkt \in Packet :
          /\ pkt.from = n /\ pkt.to = p /\ pkt.counter = msg_counter[n][p]
          /\ sending' = sending \cup {[pkt |-> pkt, step |-> "Encrypted"]}
    BY <2>1, InvokedType
  <2>3. UNCHANGED <<msg_counter, recv_hint, sent>>
    BY <2>1 DEF Invoke
  <2>. QED BY <2>2, <2>3 DEF CountersSpent
<1>3. CASE \E s \in sending : Save(s)
  <2>1. PICK s \in sending : Save(s)
    BY <1>3
  <2>2. \A t \in sending' : t \in sending \/ (t.pkt = s.pkt /\ t.step = "Saved")
    BY <2>1, GotoType DEF Save
  <2>3. UNCHANGED <<msg_counter, recv_hint, sent>>
    BY <2>1 DEF Save
  <2>. QED BY <2>2, <2>3 DEF CountersSpent
<1>4. CASE \E s \in sending : Count(s)
  <2>1. PICK s \in sending : Count(s)
    BY <1>4
  <2>2. \A t \in sending' : t \in sending \/ (t.pkt = s.pkt /\ t.step = "Counted")
    BY <2>1, GotoType DEF Count
  <2>3. /\ \A n, p \in Node : msg_counter'[n][p] >= msg_counter[n][p]
        /\ msg_counter'[s.pkt.from][s.pkt.to] > msg_counter[s.pkt.from][s.pkt.to]
    <3>1. s.pkt.from \in Node /\ s.pkt.to \in Node
      OBVIOUS
    <3>2. /\ msg_counter'[s.pkt.from][s.pkt.to] = msg_counter[s.pkt.from][s.pkt.to] + 1
          /\ \A n, p \in Node : n # s.pkt.from \/ p # s.pkt.to =>
               msg_counter'[n][p] = msg_counter[n][p]
      BY <2>1, <3>1 DEF Count, TypeOK
    <3>. QED BY <3>1, <3>2
  <2>4. UNCHANGED <<recv_hint, sent>>
    BY <2>1 DEF Count
  <2>5. \A t \in sending' :
          /\ t.pkt.counter <= msg_counter'[t.pkt.from][t.pkt.to]
          /\ t.step = "Counted" => t.pkt.counter < msg_counter'[t.pkt.from][t.pkt.to]
    <3>. SUFFICES ASSUME NEW t \in sending'
                  PROVE  /\ t.pkt.counter <= msg_counter'[t.pkt.from][t.pkt.to]
                         /\ t.step = "Counted" =>
                              t.pkt.counter < msg_counter'[t.pkt.from][t.pkt.to]
      OBVIOUS
    <3>1. CASE t \in sending
      BY <2>3, <3>1 DEF CountersSpent, TypeOK
    <3>2. CASE t.pkt = s.pkt /\ t.step = "Counted"
      BY <2>3, <3>2 DEF CountersSpent, TypeOK
    <3>. QED BY <2>2, <3>1, <3>2
  <2>6. \A pkt \in sent' : pkt.counter < msg_counter'[pkt.from][pkt.to]
    BY <2>3, <2>4 DEF CountersSpent, TypeOK
  <2>7. \A n, p \in Node : recv_hint'[p][n] <= msg_counter'[n][p]
    BY <2>3, <2>4 DEF CountersSpent, TypeOK
  <2>. QED BY <2>5, <2>6, <2>7 DEF CountersSpent
<1>5. CASE \E s \in sending : Broadcast(s)
  BY <1>5 DEF Broadcast, CountersSpent
<1>6. CASE \E d \in decrypting, saved, bumped \in BOOLEAN : Opening(d, saved, bumped)
  <2>1. PICK d \in decrypting, saved \in BOOLEAN, bumped \in BOOLEAN : Opening(d, saved, bumped)
    BY <1>6
  <2>2. /\ \/ Bump(d.pkt.to, d.pkt.from, d.pkt.counter + 1)
           \/ recv_hint' = recv_hint
        /\ UNCHANGED <<msg_counter, sending, sent>>
    BY <2>1, OpeningEffect
  <2>3. d.pkt \in sent /\ d.pkt.counter < msg_counter[d.pkt.from][d.pkt.to]
    BY DEF OnlySent, CountersSpent
  <2>4. ASSUME NEW n \in Node, NEW p \in Node
        PROVE  recv_hint'[p][n] <= msg_counter[n][p]
    <3>1. \/ recv_hint'[p][n] = recv_hint[p][n]
          \/ /\ p = d.pkt.to /\ n = d.pkt.from
             /\ recv_hint'[p][n] = d.pkt.counter + 1
      <4>1. d.pkt.to \in Node /\ d.pkt.from \in Node /\ d.pkt.counter + 1 \in Nat
        OBVIOUS
      <4>2. CASE Bump(d.pkt.to, d.pkt.from, d.pkt.counter + 1)
        BY <4>1, <4>2, BumpMax DEF TypeOK
      <4>. QED BY <2>2, <4>2
    <3>. QED BY <2>3, <3>1 DEF CountersSpent
  <2>. QED BY <2>2, <2>4 DEF CountersSpent
<1>. QED BY <1>1, <1>2, <1>3, <1>4, <1>5, <1>6, StepCases

LEMMA HintKeeps ==
  ASSUME TypeOK, HintAboveRaised, HintReached, [Next]_vars
  PROVE  HintAboveRaised' /\ HintReached'
<1>. USE CounterTypes
<1>1. CASE Quiet
  BY <1>1 DEF Quiet, HintAboveRaised, HintReached
<1>2. CASE \E c \in Command, n, p \in Node, kind \in {"Dm", "File"} : Invoke(c, n, p, kind)
  BY <1>2 DEF Invoke, HintAboveRaised, HintReached
<1>3. CASE \E s \in sending : Save(s) \/ Count(s) \/ Broadcast(s)
  BY <1>3 DEF Save, Count, Broadcast, HintAboveRaised, HintReached
<1>4. CASE \E d \in decrypting, saved, bumped \in BOOLEAN : Opening(d, saved, bumped)
  <2>1. PICK d \in decrypting, saved \in BOOLEAN, bumped \in BOOLEAN : Opening(d, saved, bumped)
    BY <1>4
  <2>. SUFFICES ASSUME Bump(d.pkt.to, d.pkt.from, d.pkt.counter + 1),
                       raised' = raised \cup {d.pkt}
                PROVE  HintAboveRaised' /\ HintReached'
    BY <2>1, OpeningEffect DEF HintAboveRaised, HintReached
  <2>2. /\ Bump(d.pkt.to, d.pkt.from, d.pkt.counter + 1)
        /\ raised' = raised \cup {d.pkt}
    OBVIOUS
  <2>3. /\ recv_hint'[d.pkt.to][d.pkt.from] > d.pkt.counter
        /\ \A n, p \in Node : /\ recv_hint'[n][p] \in Nat
                              /\ recv_hint'[n][p] >= recv_hint[n][p]
    <3>1. d.pkt.to \in Node /\ d.pkt.from \in Node /\ d.pkt.counter \in Nat
      OBVIOUS
    <3>2. d.pkt.counter + 1 \in Nat
      BY <3>1
    <3>3. /\ recv_hint'[d.pkt.to][d.pkt.from] >= d.pkt.counter + 1
          /\ \A n, p \in Node : /\ recv_hint'[n][p] \in Nat
                                /\ recv_hint'[n][p] >= recv_hint[n][p]
      BY <2>2, <3>1, <3>2, BumpMax DEF TypeOK
    <3>. QED BY <3>1, <3>3
  <2>4. HintAboveRaised'
    <3>. SUFFICES ASSUME NEW pkt \in raised'
                  PROVE  recv_hint'[pkt.to][pkt.from] > pkt.counter
      BY DEF HintAboveRaised
    <3>1. CASE pkt = d.pkt
      BY <2>3, <3>1
    <3>2. CASE pkt \in raised
      <4>1. /\ recv_hint[pkt.to][pkt.from] > pkt.counter
            /\ recv_hint'[pkt.to][pkt.from] >= recv_hint[pkt.to][pkt.from]
            /\ recv_hint[pkt.to][pkt.from] \in Nat /\ pkt.counter \in Nat
        BY <2>3, <3>2 DEF HintAboveRaised
      <4>2. recv_hint'[pkt.to][pkt.from] \in Nat
        BY <2>3, <3>2
      <4>. QED BY <4>1, <4>2
    <3>. QED BY <2>2, <3>1, <3>2
  <2>5. HintReached'
    <3>. SUFFICES ASSUME NEW n \in Node, NEW p \in Node, recv_hint'[n][p] # 0
                  PROVE  \E pkt \in raised' : /\ pkt.from = p /\ pkt.to = n
                                              /\ pkt.counter + 1 = recv_hint'[n][p]
      BY DEF HintReached
    <3>1. \/ recv_hint'[n][p] = recv_hint[n][p]
          \/ /\ n = d.pkt.to /\ p = d.pkt.from
             /\ recv_hint'[n][p] = d.pkt.counter + 1
      BY <2>2, BumpMax DEF TypeOK
    <3>. QED BY <2>2, <3>1 DEF HintReached
  <2>. QED BY <2>4, <2>5
<1>. QED BY <1>1, <1>2, <1>3, <1>4, StepCases

-----------------------------------------------------------------------------
(* Rows and ids *)

\* A packet id names one command, and that is in one place: under way, or
\* broadcast.
IdsFresh ==
  /\ \A s \in sending : s.pkt.id \in started
  /\ \A pkt \in sent : pkt.id \in started
  /\ \A s, t \in sending : s.pkt.id = t.pkt.id => s = t
  /\ \A s \in sending : \A pkt \in sent : s.pkt.id # pkt.id
  /\ \A n \in Node : \A r \in messages[n] : r.pkt.id \in started

\* A Dm has a row under its id once it is saved, and none of its packet
\* before: the unique packet_id never stands in the way of saving it.
RowsInTime ==
  /\ \A s \in sending : (s.pkt.kind = "Dm" /\ s.step # "Encrypted") =>
       \E r \in messages[s.pkt.from] : r.id = SentId(s.pkt)
  /\ \A s \in sending : s.step = "Encrypted" =>
       \A r \in messages[s.pkt.from] : r.pkt.id # s.pkt.id

\* A row keeps the counter its packet was encrypted with.
RowsKeepCounter ==
  \A n \in Node : \A r \in messages[n] : r.counter = r.pkt.counter

\* save_message adds the row, or there is one with its id or its packet.
LEMMA SavedRows ==
  ASSUME messages \in [Node -> SUBSET Row], NEW n \in Node, NEW id \in Node \X Nat,
         NEW pkt \in Packet,
         SaveMessage(n, id, pkt, pkt.counter)
  PROVE  /\ \A m \in Node : messages[m] \subseteq messages'[m]
         /\ \A m \in Node : \A r \in messages'[m] :
              r \in messages[m] \/ (r.pkt = pkt /\ r.counter = pkt.counter)
         /\ \/ \E r \in messages'[n] : r.id = id
            \/ \E r \in messages[n] : r.pkt.id = pkt.id
<1>. DEFINE row == [id |-> id, pkt |-> pkt, counter |-> pkt.counter]
<1>1. row.id = id /\ row.pkt = pkt /\ row.counter = pkt.counter
  OBVIOUS
<1>. HIDE DEF row
<1>2. CASE \E r \in messages[n] : r.id = id \/ r.pkt.id = pkt.id
  BY <1>2 DEF SaveMessage
<1>3. CASE messages' = [messages EXCEPT ![n] = @ \cup {row}]
  <2>1. /\ messages'[n] = messages[n] \cup {row}
        /\ \A m \in Node : m # n => messages'[m] = messages[m]
    BY <1>3
  <2>. QED BY <1>1, <2>1
<1>. QED BY <1>2, <1>3 DEF SaveMessage, row

\* The rows of all nodes after a step that saves, or does not.
LEMMA CommandRows ==
  ASSUME TypeOK, NEW s \in sending, Save(s)
  PROVE  /\ \A m \in Node : messages[m] \subseteq messages'[m]
         /\ \A m \in Node : \A r \in messages'[m] :
              r \in messages[m] \/ (r.pkt = s.pkt /\ r.counter = s.pkt.counter)
         /\ \/ \E r \in messages'[s.pkt.from] : r.id = SentId(s.pkt)
            \/ \E r \in messages[s.pkt.from] : r.pkt.id = s.pkt.id
<1>1. /\ s.pkt \in Packet /\ s.pkt.from \in Node /\ SentId(s.pkt) \in Node \X Nat
      /\ messages \in [Node -> SUBSET Row]
  BY IdTypes DEF TypeOK
<1>2. SaveMessage(s.pkt.from, SentId(s.pkt), s.pkt, s.pkt.counter)
  BY DEF Save
<1>. QED BY <1>1, <1>2, SavedRows

LEMMA ReceiverRows ==
  ASSUME TypeOK, NEW d \in decrypting, NEW saved \in BOOLEAN, NEW bumped \in BOOLEAN,
         Opening(d, saved, bumped)
  PROVE  /\ \A m \in Node : messages[m] \subseteq messages'[m]
         /\ \A m \in Node : \A r \in messages'[m] :
              r \in messages[m] \/ (r.pkt = d.pkt /\ r.counter = d.pkt.counter)
<1>1. /\ d.pkt \in Packet /\ d.pkt.to \in Node /\ ReceivedId(d.pkt) \in Node \X Nat
      /\ messages \in [Node -> SUBSET Row]
  BY IdTypes DEF TypeOK, Call
<1>2. \/ SaveMessage(d.pkt.to, ReceivedId(d.pkt), d.pkt, d.pkt.counter)
      \/ messages' = messages
  BY OpeningEffect
<1>. QED BY <1>1, <1>2, SavedRows

LEMMA IdsFreshKeeps ==
  ASSUME TypeOK, IdsFresh, OnlySent, [Next]_vars
  PROVE  IdsFresh'
<1>. USE CounterTypes
<1>1. CASE Quiet
  BY <1>1 DEF Quiet, IdsFresh
<1>2. CASE \E c \in Command, n, p \in Node, kind \in {"Dm", "File"} : Invoke(c, n, p, kind)
  <2>1. PICK c \in Command, n \in Node, p \in Node, kind \in {"Dm", "File"} :
          Invoke(c, n, p, kind)
    BY <1>2
  <2>2. PICK pkt \in Packet :
          pkt.id = c /\ sending' = sending \cup {[pkt |-> pkt, step |-> "Encrypted"]}
    BY <2>1, InvokedType
  <2>3. UNCHANGED <<sent, messages>> /\ started' = started \cup {c} /\ c \notin started
    BY <2>1 DEF Invoke
  <2>. QED BY <2>2, <2>3 DEF IdsFresh
<1>3. ASSUME NEW s \in sending, NEW step \in {"Encrypted", "Saved", "Counted"},
             Goto(s, step), UNCHANGED <<sent, started>>
      PROVE  /\ \A t \in sending' : t.pkt.id \in started'
             /\ \A pkt \in sent' : pkt.id \in started'
             /\ \A t, u \in sending' : t.pkt.id = u.pkt.id => t = u
             /\ \A t \in sending' : \A pkt \in sent' : t.pkt.id # pkt.id
  <2>1. sending' = (sending \ {s}) \cup {[s EXCEPT !.step = step]}
        /\ [s EXCEPT !.step = step].pkt = s.pkt
    BY <1>3 DEF Goto, TypeOK
  <2>. DEFINE moved == [s EXCEPT !.step = step]
  <2>2. sending' = (sending \ {s}) \cup {moved} /\ moved.pkt = s.pkt
    BY <2>1
  <2>. HIDE DEF moved
  <2>. QED BY <1>3, <2>2 DEF IdsFresh
<1>4. CASE \E s \in sending : Save(s)
  <2>1. PICK s \in sending : Save(s)
    BY <1>4
  <2>3. \A n \in Node : \A r \in messages'[n] : r \in messages[n] \/ r.pkt = s.pkt
    BY <2>1, CommandRows
  <2>. QED BY <1>3, <2>1, <2>3 DEF Save, IdsFresh
<1>5. CASE \E s \in sending : Count(s)
  BY <1>3, <1>5 DEF Count, IdsFresh
<1>6. CASE \E s \in sending : Broadcast(s)
  BY <1>6 DEF Broadcast, IdsFresh
<1>7. CASE \E d \in decrypting, saved, bumped \in BOOLEAN : Opening(d, saved, bumped)
  <2>1. PICK d \in decrypting, saved \in BOOLEAN, bumped \in BOOLEAN : Opening(d, saved, bumped)
    BY <1>7
  <2>2. d.pkt.to \in Node /\ d.pkt \in sent
    BY DEF OnlySent
  <2>3. \A n \in Node : \A r \in messages'[n] : r \in messages[n] \/ r.pkt = d.pkt
    BY <2>1, ReceiverRows
  <2>. QED BY <2>1, <2>2, <2>3, OpeningEffect DEF IdsFresh
<1>. QED BY <1>1, <1>2, <1>4, <1>5, <1>6, <1>7, StepCases

LEMMA RowsKeepCounterKeeps ==
  ASSUME TypeOK, RowsKeepCounter, [Next]_vars
  PROVE  RowsKeepCounter'
<1>. USE CounterTypes
<1>1. CASE Quiet
  BY <1>1 DEF Quiet, RowsKeepCounter
<1>2. CASE \E c \in Command, n, p \in Node, kind \in {"Dm", "File"} : Invoke(c, n, p, kind)
  BY <1>2 DEF Invoke, RowsKeepCounter
<1>3. CASE \E s \in sending : Save(s)
  BY <1>3, CommandRows DEF RowsKeepCounter
<1>4. CASE \E s \in sending : Count(s) \/ Broadcast(s)
  BY <1>4 DEF Count, Broadcast, RowsKeepCounter
<1>5. CASE \E d \in decrypting, saved, bumped \in BOOLEAN : Opening(d, saved, bumped)
  BY <1>5, ReceiverRows DEF RowsKeepCounter
<1>. QED BY <1>1, <1>2, <1>3, <1>4, <1>5, StepCases

LEMMA RowsInTimeKeeps ==
  ASSUME TypeOK, IdsFresh, OnlySent, RowsInTime, SentIsRecorded, [Next]_vars
  PROVE  RowsInTime' /\ SentIsRecorded'
<1>. USE CounterTypes
<1>1. CASE Quiet
  BY <1>1 DEF Quiet, RowsInTime, SentIsRecorded
<1>2. CASE \E c \in Command, n, p \in Node, kind \in {"Dm", "File"} : Invoke(c, n, p, kind)
  <2>1. PICK c \in Command, n \in Node, p \in Node, kind \in {"Dm", "File"} :
          Invoke(c, n, p, kind)
    BY <1>2
  <2>2. PICK pkt \in Packet :
          /\ pkt.id = c /\ pkt.from = n
          /\ sending' = sending \cup {[pkt |-> pkt, step |-> "Encrypted"]}
    BY <2>1, InvokedType
  <2>3. UNCHANGED <<sent, messages>> /\ c \notin started
    BY <2>1 DEF Invoke
  <2>. QED BY <2>2, <2>3 DEF IdsFresh, RowsInTime, SentIsRecorded
<1>3. CASE \E s \in sending : Save(s)
  <2>1. PICK s \in sending : Save(s)
    BY <1>3
  <2>2. s.pkt \in Packet /\ s.pkt.from \in Node /\ s.step = "Encrypted"
    BY <2>1 DEF Save
  <2>3. /\ \A n \in Node : messages[n] \subseteq messages'[n]
        /\ \A n \in Node : \A r \in messages'[n] : r \in messages[n] \/ r.pkt = s.pkt
        /\ \E r \in messages'[s.pkt.from] : r.id = SentId(s.pkt)
    BY <2>1, <2>2, CommandRows DEF RowsInTime
  <2>4. \A t \in sending' :
          (t \in sending /\ t # s) \/ (t.pkt = s.pkt /\ t.step = "Saved")
    BY <2>1 DEF Save, Goto, TypeOK
  <2>5. sent' = sent
    BY <2>1 DEF Save
  <2>. QED BY <2>3, <2>4, <2>5 DEF IdsFresh, RowsInTime, SentIsRecorded
<1>4. CASE \E s \in sending : Count(s)
  <2>1. PICK s \in sending : Count(s)
    BY <1>4
  <2>2. \A t \in sending' : t \in sending \/ (t.pkt = s.pkt /\ t.step = "Counted")
    BY <2>1, GotoType DEF Count
  <2>3. s.pkt.kind = "Dm" => s.step = "Saved"
    BY <2>1 DEF Count, ReadyToCount
  <2>4. UNCHANGED <<messages, sent>>
    BY <2>1 DEF Count
  <2>. QED BY <2>2, <2>3, <2>4 DEF RowsInTime, SentIsRecorded
<1>5. CASE \E s \in sending : Broadcast(s)
  BY <1>5 DEF Broadcast, RowsInTime, SentIsRecorded
<1>6. CASE \E d \in decrypting, saved, bumped \in BOOLEAN : Opening(d, saved, bumped)
  <2>1. PICK d \in decrypting, saved \in BOOLEAN, bumped \in BOOLEAN : Opening(d, saved, bumped)
    BY <1>6
  <2>2. d.pkt.to \in Node /\ d.pkt \in sent
    BY DEF OnlySent
  <2>3. /\ \A n \in Node : messages[n] \subseteq messages'[n]
        /\ \A n \in Node : \A r \in messages'[n] : r \in messages[n] \/ r.pkt = d.pkt
    BY <2>1, ReceiverRows
  <2>4. UNCHANGED <<sending, sent>>
    BY <2>1, OpeningEffect
  <2>. QED BY <2>2, <2>3, <2>4 DEF IdsFresh, RowsInTime, SentIsRecorded
<1>. QED BY <1>1, <1>2, <1>3, <1>4, <1>5, <1>6, StepCases

-----------------------------------------------------------------------------
(* Keys *)

Pending(s) == s.step # "Counted"

Alone(pkt) == <<pkt.from, pkt.to>> \notin overlapped

Spent(pkt) == pkt \in sent \/ \E s \in sending : ~ Pending(s) /\ s.pkt = pkt

\* In a direction where no two commands held the same counter, one command
\* at a time has read the counter and not moved it, so it holds the next one.
OnePending ==
  \A s \in sending : (Pending(s) /\ Alone(s.pkt)) =>
    /\ s.pkt.counter = msg_counter[s.pkt.from][s.pkt.to]
    /\ \A t \in sending : (Pending(t) /\ SameDirection(t.pkt, s.pkt)) => t = s

\* There, the counters that are spent are all different.
SpentOnce ==
  \A p, q \in Packet :
    (Spent(p) /\ Spent(q) /\ p # q /\ SameDirection(p, q) /\ Alone(p)) =>
      p.counter # q.counter

LEMMA OnePendingKeeps ==
  ASSUME TypeOK, OnePending, [Next]_vars
  PROVE  OnePending'
<1>. USE CounterTypes
<1>1. CASE Quiet
  BY <1>1 DEF Quiet, OnePending, Pending, Alone
<1>2. CASE \E c \in Command, n, p \in Node, kind \in {"Dm", "File"} : Invoke(c, n, p, kind)
  <2>1. PICK c \in Command, n \in Node, p \in Node, kind \in {"Dm", "File"} :
          Invoke(c, n, p, kind)
    BY <1>2
  <2>2. PICK pkt \in Packet :
          /\ pkt.from = n /\ pkt.to = p /\ pkt.counter = msg_counter[n][p]
          /\ sending' = sending \cup {[pkt |-> pkt, step |-> "Encrypted"]}
          /\ overlapped' =
               IF \E s \in sending : SameDirection(s.pkt, pkt) /\ s.step # "Counted"
                 THEN overlapped \cup {<<n, p>>} ELSE overlapped
    BY <2>1, InvokedType
  <2>3. msg_counter' = msg_counter
    BY <2>1 DEF Invoke
  <2>. DEFINE new == [pkt |-> pkt, step |-> "Encrypted"]
  <2>4. new.pkt = pkt /\ sending' = sending \cup {new}
    BY <2>2
  <2>. HIDE DEF new
  <2>5. CASE \E s \in sending : SameDirection(s.pkt, pkt) /\ Pending(s)
    <3>1. overlapped' = overlapped \cup {<<n, p>>}
      BY <2>2, <2>5 DEF Pending
    <3>. QED BY <2>2, <2>3, <2>4, <3>1 DEF OnePending, Alone, SameDirection, Pending
  <2>6. CASE ~ \E s \in sending : SameDirection(s.pkt, pkt) /\ Pending(s)
    <3>1. overlapped' = overlapped
      BY <2>2, <2>6 DEF Pending
    <3>. QED BY <2>2, <2>3, <2>4, <2>6, <3>1
             DEF OnePending, Alone, SameDirection, Pending
  <2>. QED BY <2>5, <2>6
<1>3. ASSUME NEW s \in sending, NEW step \in {"Encrypted", "Saved", "Counted"},
             Goto(s, step)
      PROVE  \E moved :
               /\ moved.pkt = s.pkt /\ moved.step = step
               /\ sending' = (sending \ {s}) \cup {moved}
  <2>. DEFINE moved == [s EXCEPT !.step = step]
  <2>1. moved.pkt = s.pkt /\ moved.step = step
    BY DEF TypeOK
  <2>2. sending' = (sending \ {s}) \cup {moved}
    BY <1>3 DEF Goto
  <2>. HIDE DEF moved
  <2>. QED BY <2>1, <2>2
<1>4. CASE \E s \in sending : Save(s)
  <2>1. PICK s \in sending : Save(s)
    BY <1>4
  <2>2. PICK moved : /\ moved.pkt = s.pkt
                     /\ sending' = (sending \ {s}) \cup {moved}
    BY <1>3, <2>1 DEF Save
  <2>3. Pending(s) /\ UNCHANGED <<msg_counter, overlapped>>
    BY <2>1 DEF Save, Pending
  <2>. QED BY <2>2, <2>3 DEF OnePending, Alone, SameDirection
<1>5. CASE \E s \in sending : Count(s)
  <2>1. PICK s \in sending : Count(s)
    BY <1>5
  <2>2. PICK moved : /\ moved.pkt = s.pkt /\ moved.step = "Counted"
                     /\ sending' = (sending \ {s}) \cup {moved}
    BY <1>3, <2>1 DEF Count
  <2>3. Pending(s) /\ ~ Pending(moved) /\ overlapped' = overlapped
    BY <2>1, <2>2 DEF Count, ReadyToCount, Pending
  <2>4. \A n, p \in Node : n # s.pkt.from \/ p # s.pkt.to =>
          msg_counter'[n][p] = msg_counter[n][p]
    BY <2>1 DEF Count, TypeOK
  <2>. SUFFICES ASSUME NEW t \in sending', Pending(t), Alone(t.pkt)'
                PROVE  /\ t.pkt.counter = msg_counter'[t.pkt.from][t.pkt.to]
                       /\ \A u \in sending' :
                            Pending(u) /\ SameDirection(u.pkt, t.pkt) => u = t
    BY DEF OnePending, Pending
  <2>5. t \in sending /\ t # s /\ Alone(t.pkt)
    BY <2>2, <2>3 DEF Alone
  <2>6. ~ SameDirection(s.pkt, t.pkt)
    BY <2>3, <2>5 DEF OnePending
  <2>7. msg_counter'[t.pkt.from][t.pkt.to] = msg_counter[t.pkt.from][t.pkt.to]
    BY <2>4, <2>5, <2>6 DEF SameDirection
  <2>. QED BY <2>2, <2>3, <2>5, <2>7 DEF OnePending
<1>6. CASE \E s \in sending : Broadcast(s)
  BY <1>6 DEF Broadcast, OnePending, Pending, Alone
<1>7. CASE \E d \in decrypting, saved, bumped \in BOOLEAN : Opening(d, saved, bumped)
  BY <1>7, OpeningEffect DEF OnePending, Pending, Alone
<1>. QED BY <1>1, <1>2, <1>4, <1>5, <1>6, <1>7, StepCases

LEMMA SpentOnceKeeps ==
  ASSUME TypeOK, CountersSpent, OnePending, SpentOnce, [Next]_vars
  PROVE  SpentOnce'
<1>. USE CounterTypes
<1>1. ASSUME \A pkt \in Packet : Spent(pkt)' => Spent(pkt),
             overlapped \subseteq overlapped'
      PROVE  SpentOnce'
  BY <1>1 DEF SpentOnce, Alone
<1>2. CASE Quiet
  BY <1>1, <1>2 DEF Quiet, Spent, Pending
<1>3. CASE \E c \in Command, n, p \in Node, kind \in {"Dm", "File"} : Invoke(c, n, p, kind)
  BY <1>1, <1>3 DEF Invoke, Spent, Pending
<1>4. CASE \E s \in sending : Save(s)
  <2>1. PICK s \in sending : Save(s)
    BY <1>4
  <2>2. \A t \in sending' : t \in sending \/ t.step = "Saved"
    BY <2>1, GotoType DEF Save
  <2>. QED BY <1>1, <2>1, <2>2 DEF Save, Spent, Pending
<1>5. CASE \E s \in sending : Count(s)
  <2>1. PICK s \in sending : Count(s)
    BY <1>5
  <2>2. \A t \in sending' : t \in sending \/ (t.pkt = s.pkt /\ t.step = "Counted")
    BY <2>1, GotoType DEF Count
  <2>3. Pending(s) /\ UNCHANGED <<sent, overlapped>>
    BY <2>1 DEF Count, ReadyToCount, Pending
  <2>4. \A pkt \in Packet : Spent(pkt)' => Spent(pkt) \/ pkt = s.pkt
    BY <2>2, <2>3 DEF Spent, Pending
  <2>5. ASSUME NEW pkt \in Packet, Spent(pkt), SameDirection(pkt, s.pkt), Alone(pkt)
        PROVE  pkt.counter # s.pkt.counter
    <3>1. pkt.counter < msg_counter[pkt.from][pkt.to]
      BY <2>5 DEF Spent, Pending, CountersSpent
    <3>2. s.pkt.counter = msg_counter[pkt.from][pkt.to]
      BY <2>3, <2>5 DEF OnePending, SameDirection, Alone
    <3>3. pkt.counter \in Nat /\ s.pkt.counter \in Nat
      BY DEF Packet
    <3>. QED BY <3>1, <3>2, <3>3
  <2>. QED BY <2>3, <2>4, <2>5 DEF SpentOnce, SameDirection, Alone
<1>6. CASE \E s \in sending : Broadcast(s)
  BY <1>1, <1>6 DEF Broadcast, Spent, Pending
<1>7. CASE \E d \in decrypting, saved, bumped \in BOOLEAN : Opening(d, saved, bumped)
  BY <1>1, <1>7, OpeningEffect DEF Spent, Pending
<1>. QED BY <1>2, <1>3, <1>4, <1>5, <1>6, <1>7, StepCases

-----------------------------------------------------------------------------
(* What is not shown, and what is not opened *)

\* The window of a call lies about the hint it read, and that is one above
\* the highest counter it had been raised for by then.
WindowOf(d, hint) ==
  /\ d.start = Start(hint) /\ d.end = hint + WINDOW_AHEAD
  /\ \A j \in d.raised : j < hint
  /\ hint # 0 => hint - 1 \in d.raised

CallsFollowHint ==
  \A d \in decrypting :
    /\ d.lookup = "Found" => \E hint \in Nat : WindowOf(d, hint)
    /\ d.lookup = "NoHint" => d.start = 0 /\ d.end = WINDOW_AHEAD

LEMMA CallsFollowHintKeeps ==
  ASSUME TypeOK, HintAboveRaised, HintReached, CallsFollowHint, [Next]_vars
  PROVE  CallsFollowHint'
<1>. USE CounterTypes
<1>1. CASE \E pkt \in network : TryDecrypt(pkt)
  <2>1. PICK pkt \in network : TryDecrypt(pkt)
    BY <1>1
  <2>. DEFINE top == recv_hint[pkt.to][pkt.from]
  <2>2. pkt \in Packet /\ pkt.from \in Node /\ pkt.to \in Node /\ top \in Nat
    BY IdTypes DEF TypeOK
  <2>3. PICK d \in Call, hint \in {0, top} :
          /\ d.lookup = "Found" => hint = top
          /\ d.lookup = "NoHint" => hint = 0
          /\ d.start = Start(hint) /\ d.end = hint + WINDOW_AHEAD
          /\ d.raised = RaisedFrom(pkt) /\ decrypting' = decrypting \cup {d}
    BY <2>1, <2>2, TryDecryptType
  <2>4. \A j \in RaisedFrom(pkt) : j < top
    <3>. SUFFICES ASSUME NEW q \in raised, SameDirection(q, pkt)
                  PROVE  q.counter < top
      BY DEF RaisedFrom
    <3>1. recv_hint[q.to][q.from] > q.counter /\ q.counter \in Nat
      BY DEF HintAboveRaised
    <3>. QED BY <2>2, <3>1 DEF SameDirection
  <2>5. top # 0 => top - 1 \in RaisedFrom(pkt)
    <3>. SUFFICES ASSUME top # 0 PROVE top - 1 \in RaisedFrom(pkt)
      OBVIOUS
    <3>1. PICK q \in raised : q.from = pkt.from /\ q.to = pkt.to /\ q.counter + 1 = top
      BY <2>2 DEF HintReached
    <3>2. q.counter \in Nat
      OBVIOUS
    <3>3. SameDirection(q, pkt)
      BY <3>1 DEF SameDirection
    <3>4. q.counter = top - 1
      <4>. HIDE DEF top
      <4>. QED BY <2>2, <3>1, <3>2
    <3>. QED BY <3>3, <3>4 DEF RaisedFrom
  <2>. HIDE DEF top
  <2>6. d.lookup = "Found" => WindowOf(d, top)
    BY <2>3, <2>4, <2>5 DEF WindowOf
  <2>7. d.lookup = "NoHint" => d.start = 0 /\ d.end = WINDOW_AHEAD
    BY <2>3, SessionAssumption DEF Start
  <2>8. \A e \in decrypting' : e \in decrypting \/ e = d
    BY <2>3
  <2>. QED BY <2>2, <2>6, <2>7, <2>8 DEF CallsFollowHint, WindowOf, Start
<1>2. CASE decrypting' \subseteq decrypting
  BY <1>2 DEF CallsFollowHint, WindowOf, Start
<1>3. \/ \E pkt \in network : TryDecrypt(pkt)
      \/ decrypting' \subseteq decrypting
  <2>1. CASE \E c \in Command, n, p \in Node : InvokeDm(c, n, p) \/ InvokeFile(c, n, p)
    BY <2>1 DEF InvokeDm, InvokeFile, Invoke
  <2>2. CASE \E s \in sending : Save(s) \/ Count(s) \/ Broadcast(s) \/ Abort(s)
    BY <2>2 DEF Save, Count, Broadcast, Abort
  <2>3. CASE \E d \in decrypting, bumped \in BOOLEAN :
               OpenFile(d, bumped) \/ \E saved \in BOOLEAN : OpenDm(d, saved, bumped)
    BY <2>3 DEF OpenDm, OpenFile, Open
  <2>4. CASE \E d \in decrypting : Fail(d)
    BY <2>4 DEF Fail
  <2>5. CASE \E n, p \in Node : Meet(n, p)
    BY <2>5 DEF Meet
  <2>6. CASE \E n \in Node : Crash(n) \/ \E t \in 0..MAX_TIME : SetClock(n, t)
    BY <2>6 DEF Crash, SetClock
  <2>7. CASE UNCHANGED vars
    BY <2>7 DEF vars
  <2>. QED BY <2>1, <2>2, <2>3, <2>4, <2>5, <2>6, <2>7 DEF Next
<1>. QED BY <1>1, <1>2, <1>3

\* A counter beyond the end of the window has WINDOW_AHEAD missing ones below.
LEMMA CountersMissing ==
  ASSUME NEW k \in Nat, NEW hint \in Nat, NEW marks \in SUBSET Nat,
         k >= hint + WINDOW_AHEAD, \A j \in marks : j < hint
  PROVE  Cardinality({i \in 0..(k - 1) : \A j \in marks : j < i}) >= WINDOW_AHEAD
<1>. DEFINE missing == {i \in 0..(k - 1) : \A j \in marks : j < i}
<1>1. WINDOW_AHEAD \in Nat /\ WINDOW_AHEAD # 0
  BY SessionAssumption
<1>2. hint..(k - 1) \subseteq missing
  OBVIOUS
<1>3. IsFiniteSet(missing)
  <2>1. IsFiniteSet(0..(k - 1))
    BY FS_Interval
  <2>. QED BY <2>1, FS_Subset
<1>4. Cardinality(hint..(k - 1)) = k - hint
  <2>1. Cardinality(hint..(k - 1)) = IF hint > k - 1 THEN 0 ELSE (k - 1) - hint + 1
    BY FS_Interval
  <2>. QED BY <1>1, <2>1
<1>5. /\ Cardinality(hint..(k - 1)) <= Cardinality(missing)
      /\ Cardinality(missing) \in Nat
  BY <1>2, <1>3, FS_Subset, FS_CardinalityType
<1>. QED BY <1>1, <1>4, <1>5

LEMMA FailedForCause ==
  ASSUME TypeOK, CallsFollowHint, NEW d \in decrypting, Fail(d)
  PROVE  Cause(d)
<1>1. /\ d.pkt \in Packet /\ d.pkt.counter \in Nat /\ d.raised \in SUBSET Nat
      /\ d.lookup \in Lookup /\ WINDOW_BACK \in Nat /\ WINDOW_AHEAD \in Nat
  BY SessionAssumption, CounterTypes DEF TypeOK, Call
<1>2. ~ Opens(d)
  BY DEF Fail
<1>3. CASE d.lookup = "Found" /\ ~ OutOfTime(d.pkt.time, now[d.pkt.to])
  <2>1. PICK hint \in Nat : WindowOf(d, hint)
    BY <1>3 DEF CallsFollowHint
  <2>2. ~ (d.start <= d.pkt.counter) \/ ~ (d.pkt.counter < d.end)
    BY <1>2, <1>3 DEF Opens
  <2>3. CASE ~ (d.start <= d.pkt.counter)
    <3>1. d.start = IF hint < WINDOW_BACK THEN 0 ELSE hint - WINDOW_BACK
      BY <2>1 DEF WindowOf, Start
    <3>2. hint - 1 >= d.pkt.counter + WINDOW_BACK /\ hint # 0
      BY <1>1, <2>3, <3>1
    <3>3. hint - 1 \in d.raised
      BY <2>1, <3>2 DEF WindowOf
    <3>. QED BY <3>2, <3>3 DEF Cause
  <2>4. CASE ~ (d.pkt.counter < d.end)
    <3>1. d.pkt.counter >= hint + WINDOW_AHEAD /\ \A j \in d.raised : j < hint
      BY <1>1, <2>1, <2>4 DEF WindowOf
    <3>. QED BY <1>1, <3>1, CountersMissing DEF Cause
  <2>. QED BY <2>2, <2>3, <2>4
<1>4. CASE d.lookup = "NoHint" /\ ~ OutOfTime(d.pkt.time, now[d.pkt.to])
  <2>1. d.start = 0 /\ d.end = WINDOW_AHEAD
    BY <1>4 DEF CallsFollowHint
  <2>2. ~ (0 <= d.pkt.counter) \/ ~ (d.pkt.counter < WINDOW_AHEAD)
    BY <1>2, <1>4, <2>1 DEF Opens
  <2>3. d.pkt.counter >= WINDOW_AHEAD
    BY <1>1, <2>2
  <2>. QED BY <1>4, <2>3 DEF Cause
<1>. QED BY <1>1, <1>3, <1>4 DEF Cause, Lookup

-----------------------------------------------------------------------------
(* The inductive invariant, part by part *)

SessionInv ==
  /\ TypeOK
  /\ CountersSpent /\ OnlySent
  /\ HintAboveRaised /\ HintReached
  /\ IdsFresh /\ RowsInTime /\ SentIsRecorded
  /\ RowsKeepCounter
  /\ OnePending /\ SpentOnce
  /\ CallsFollowHint

LEMMA SessionInit == Init => SessionInv
<1>. SUFFICES ASSUME Init PROVE SessionInv
  OBVIOUS
<1>1. TypeOK
  BY SessionAssumption DEF Init, TypeOK
<1>2. CountersSpent /\ OnlySent /\ HintAboveRaised /\ HintReached
  BY DEF Init, CountersSpent, OnlySent, HintAboveRaised, HintReached
<1>3. IdsFresh /\ RowsInTime /\ SentIsRecorded /\ RowsKeepCounter
  BY DEF Init, IdsFresh, RowsInTime, SentIsRecorded, RowsKeepCounter
<1>4. OnePending /\ SpentOnce /\ CallsFollowHint
  BY DEF Init, OnePending, SpentOnce, Spent, CallsFollowHint
<1>. QED BY <1>1, <1>2, <1>3, <1>4 DEF SessionInv

\* The inductive invariant of the sessions, for every number of nodes, commands,
\* crashes, database errors and clock settings and every window.
THEOREM SessionInvariant == Spec => []SessionInv
<1>1. ASSUME SessionInv, [Next]_vars PROVE SessionInv'
  <2>. USE <1>1 DEF SessionInv
  <2>1. TypeOK' /\ OnlySent' /\ IdsFresh' /\ RowsKeepCounter'
    BY TypeKeeps, OnlySentKeeps, IdsFreshKeeps, RowsKeepCounterKeeps
  <2>2. CountersSpent' /\ HintAboveRaised' /\ HintReached'
    BY <2>1, CountersSpentKeeps, HintKeeps
  <2>3. RowsInTime' /\ SentIsRecorded' /\ OnePending' /\ SpentOnce'
    BY RowsInTimeKeeps, OnePendingKeeps, SpentOnceKeeps
  <2>4. CallsFollowHint'
    BY CallsFollowHintKeeps
  <2>. QED BY <2>1, <2>2, <2>3, <2>4
<1>2. SessionInv /\ [Next]_vars => SessionInv'
  BY <1>1
<1>. QED BY <1>2, SessionInit, PTL DEF Spec

\* Counters, hints, rows and calls stay well-formed.
THEOREM SessionTypeCorrect == Spec => []TypeOK
<1>1. SessionInv => TypeOK
  BY DEF SessionInv
<1>. QED BY <1>1, SessionInvariant, PTL

\* No hint runs ahead of the counter it follows.
THEOREM SessionHintBehindCounter == Spec => []HintBehindCounter
<1>1. SessionInv => HintBehindCounter
  BY DEF SessionInv, CountersSpent, HintBehindCounter
<1>. QED BY <1>1, SessionInvariant, PTL

\* No order in which calls of try_decrypt finish undoes a raise of a hint.
THEOREM SessionHintAboveRaised == Spec => []HintAboveRaised
<1>1. SessionInv => HintAboveRaised
  BY DEF SessionInv
<1>. QED BY <1>1, SessionInvariant, PTL

\* Two packets share a key only where two commands overlapped.
THEOREM SessionFreshKeys == Spec => []FreshKeys
<1>1. SessionInv => FreshKeys
  <2>. SUFFICES ASSUME SessionInv, NEW p \in sent, NEW q \in sent,
                       p # q, SameDirection(p, q), <<p.from, p.to>> \notin overlapped
                PROVE  p.counter # q.counter
    BY DEF FreshKeys
  <2>1. p \in Packet /\ q \in Packet /\ Spent(p) /\ Spent(q) /\ Alone(p)
    BY DEF SessionInv, TypeOK, Spent, Alone
  <2>. QED BY <2>1 DEF SessionInv, SpentOnce
<1>. QED BY <1>1, SessionInvariant, PTL

\* A Dm on the air has a row in its sender's history.
THEOREM SessionSentIsRecorded == Spec => []SentIsRecorded
<1>1. SessionInv => SentIsRecorded
  BY DEF SessionInv
<1>. QED BY <1>1, SessionInvariant, PTL

\* A call of try_decrypt gives up only for one of the causes of Cause, whatever
\* clocks, database errors and crashes do.
THEOREM SessionUnopenedForCause == Spec => UnopenedForCause
<1>1. SessionInv /\ [Next]_vars => [\A d \in decrypting : Fail(d) => Cause(d)]_vars
  BY FailedForCause DEF SessionInv
<1>. QED BY <1>1, SessionInvariant, PTL DEF Spec, UnopenedForCause

\* The history hides a row only for the clock it is read by.
THEOREM SessionHiddenForCause == Spec => []HiddenForCause
<1>1. SessionInv => HiddenForCause
  BY DEF SessionInv, RowsKeepCounter, HiddenForCause, Hidden, Readable
<1>. QED BY <1>1, SessionInvariant, PTL
=============================================================================
