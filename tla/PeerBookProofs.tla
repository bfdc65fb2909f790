--------------------------- MODULE PeerBookProofs ----------------------------
(* Theorems about module PeerBook, for all nodes, addresses and bounds.    *)
EXTENDS PeerBook, TLAPS

Books == [Node -> [Node -> Row]]

\* A row with an address has a port that can be dialled.
AddressHasPort == \A n, p \in Node : book[n][p].ip # None => book[n][p].port \in Port

\* What upsert_peer leaves of every row: the addresses it has.
RowsKeepAddresses ==
  \A n, p \in Node :
    /\ book[n][p].ip # None => book'[n][p].ip # None
    /\ book[n][p].onion => book'[n][p].onion

-----------------------------------------------------------------------------
(* upsert_peer *)

LEMMA UpsertRow ==
  ASSUME NEW n \in Node, NEW p \in Node, NEW row \in Row, book \in Books,
         Upsert(n, p, row)
  PROVE  /\ book' \in Books
         /\ book'[n][p].ip = IF row.ip = None THEN book[n][p].ip ELSE row.ip
         /\ book'[n][p].port = row.port
         /\ book'[n][p].trust = row.trust
         /\ book[n][p].onion => book'[n][p].onion
         /\ \A m, q \in Node : m # n \/ q # p => book'[m][q] = book[m][q]
<1>. DEFINE new == [ip    |-> IF row.ip = None THEN book[n][p].ip ELSE row.ip,
                    port  |-> row.port,
                    onion |-> row.onion \/ book[n][p].onion,
                    trust |-> row.trust]
<1>1. book' = [book EXCEPT ![n][p] = new]
  BY DEF Upsert
<1>2. book[n][p] \in Row
  BY DEF Books
<1>3. new.onion \in BOOLEAN
  OBVIOUS
<1>4. new \in Row
  BY <1>2, <1>3 DEF Row
<1>5. book' \in Books /\ book'[n][p] = new
  <2>. HIDE DEF new
  <2>. QED BY <1>1, <1>4 DEF Books
<1>6. \A m, q \in Node : m # n \/ q # p => book'[m][q] = book[m][q]
  <2>. HIDE DEF new
  <2>. QED BY <1>1 DEF Books
<1>7. book[n][p].onion => new.onion
  OBVIOUS
<1>. QED BY <1>5, <1>6, <1>7

\* What the three writers of rows have in common: a row has the trust of a
\* handshake only for a peer whose Hello is stored by the end of the step.
LEMMA UpsertKeeps ==
  ASSUME NEW n \in Node, NEW p \in Node, NEW row \in Row, row.port \in Port,
         book \in Books, AddressHasPort, TrustNeedsHello, Upsert(n, p, row),
         greeted' \in [Node -> SUBSET Node],
         \A m \in Node : greeted[m] \subseteq greeted'[m],
         row.trust = 2 => p \in greeted'[n]
  PROVE  book' \in Books /\ AddressHasPort' /\ TrustNeedsHello' /\ RowsKeepAddresses
<1>1. /\ book' \in Books
      /\ book'[n][p].ip = IF row.ip = None THEN book[n][p].ip ELSE row.ip
      /\ book'[n][p].port = row.port
      /\ book'[n][p].trust = row.trust
      /\ book[n][p].onion => book'[n][p].onion
      /\ \A m, q \in Node : m # n \/ q # p => book'[m][q] = book[m][q]
  BY UpsertRow
<1>2. AddressHasPort'
  <2>. SUFFICES ASSUME NEW m \in Node, NEW q \in Node, book'[m][q].ip # None
                PROVE  book'[m][q].port \in Port
    BY DEF AddressHasPort
  <2>1. CASE m = n /\ q = p
    BY <1>1, <2>1
  <2>2. CASE m # n \/ q # p
    BY <1>1, <2>2 DEF AddressHasPort
  <2>. QED BY <2>1, <2>2
<1>3. TrustNeedsHello'
  <2>. SUFFICES ASSUME NEW m \in Node, NEW q \in Node, book'[m][q].trust = 2
                PROVE  q \in greeted'[m]
    BY DEF TrustNeedsHello
  <2>1. CASE m = n /\ q = p
    BY <1>1, <2>1
  <2>2. CASE m # n \/ q # p
    BY <1>1, <2>2 DEF TrustNeedsHello
  <2>. QED BY <2>1, <2>2
<1>4. RowsKeepAddresses
  <2>. SUFFICES ASSUME NEW m \in Node, NEW q \in Node
                PROVE  /\ book[m][q].ip # None => book'[m][q].ip # None
                       /\ book[m][q].onion => book'[m][q].onion
    BY DEF RowsKeepAddresses
  <2>1. CASE m = n /\ q = p
    BY <1>1, <2>1
  <2>2. CASE m # n \/ q # p
    BY <1>1, <2>2
  <2>. QED BY <2>1, <2>2
<1>. QED BY <1>1, <1>2, <1>3, <1>4

\* A step that leaves the rows and the Hellos stored alone.
LEMMA NoUpsertKeeps ==
  ASSUME AddressHasPort, TrustNeedsHello, UNCHANGED <<book, greeted>>
  PROVE  AddressHasPort' /\ TrustNeedsHello' /\ RowsKeepAddresses
BY DEF AddressHasPort, TrustNeedsHello, RowsKeepAddresses

-----------------------------------------------------------------------------
(* The inductive invariant: rows are trusted only after a Hello, and what  *)
(* reconnect_known_peers takes from a row can be dialled.                  *)

PeerBookInv == TypeOK /\ AddressHasPort /\ TrustNeedsHello

Kept == PeerBookInv' /\ RowsKeepAddresses

LEMMA ReceiveBeaconKeeps ==
  ASSUME PeerBookInv, NEW b \in beacons, ReceiveBeacon(b)
  PROVE  Kept
<1>. DEFINE row == [ip |-> b.ip, port |-> "Data", onion |-> FALSE, trust |-> 1]
<1>1. b.to \in Node /\ b.from \in Node /\ b.ip \in Ip
  BY DEF PeerBookInv, TypeOK, Beacon
<1>2. row \in Row /\ row.port \in Port /\ row.trust # 2
  BY <1>1 DEF Row, Port
<1>3. Upsert(b.to, b.from, row) /\ greeted' = greeted
  BY DEF ReceiveBeacon
<1>4. book \in Books /\ greeted \in [Node -> SUBSET Node]
  BY DEF PeerBookInv, TypeOK, Books
<1>5. book' \in Books /\ AddressHasPort' /\ TrustNeedsHello' /\ RowsKeepAddresses
  <2>. HIDE DEF row
  <2>. QED BY <1>1, <1>2, <1>3, <1>4, UpsertKeeps DEF PeerBookInv
<1>6. dials' \subseteq Dialing
  BY <1>1 DEF ReceiveBeacon, PeerBookInv, TypeOK, Dialing, Port
<1>7. TypeOK'
  BY <1>5, <1>6 DEF ReceiveBeacon, PeerBookInv, TypeOK, Books
<1>. QED BY <1>5, <1>7 DEF Kept, PeerBookInv

LEMMA SaveFromHelloKeeps ==
  ASSUME PeerBookInv, NEW h \in hellos, SaveFromHello(h)
  PROVE  Kept
<1>. DEFINE row == IF h.via = "Lan"
              THEN [ip |-> h.ip, port |-> "Ephemeral", onion |-> FALSE, trust |-> 2]
              ELSE [ip |-> None, port |-> "Tor", onion |-> FALSE, trust |-> 2]
<1>1. h.at \in Node /\ h.of \in Node /\ h.ip \in Ip \cup {None}
  BY DEF PeerBookInv, TypeOK, Hello
<1>2. row \in Row /\ row.port \in Port
  BY <1>1 DEF Row, Port
<1>3. Upsert(h.at, h.of, row)
  BY DEF SaveFromHello
<1>4. book \in Books /\ greeted \in [Node -> SUBSET Node]
  BY DEF PeerBookInv, TypeOK, Books
<1>5. /\ greeted' \in [Node -> SUBSET Node]
      /\ \A m \in Node : greeted[m] \subseteq greeted'[m]
      /\ h.of \in greeted'[h.at]
  BY <1>1, <1>4 DEF SaveFromHello
<1>6. book' \in Books /\ AddressHasPort' /\ TrustNeedsHello' /\ RowsKeepAddresses
  <2>. HIDE DEF row
  <2>. QED BY <1>1, <1>2, <1>3, <1>4, <1>5, UpsertKeeps DEF PeerBookInv
<1>7. TypeOK'
  BY <1>5, <1>6 DEF SaveFromHello, PeerBookInv, TypeOK, Books
<1>. QED BY <1>6, <1>7 DEF Kept, PeerBookInv

LEMMA ConnectViaTorKeeps ==
  ASSUME PeerBookInv, NEW n \in Node, NEW p \in Node, ConnectViaTor(n, p)
  PROVE  Kept
<1>. DEFINE row == [ip |-> None, port |-> "Tor", onion |-> TRUE,
                    trust |-> IF p \in Known(n) THEN book[n][p].trust ELSE 1]
<1>1. book \in Books /\ greeted \in [Node -> SUBSET Node]
  BY DEF PeerBookInv, TypeOK, Books
<1>2. book[n][p].trust \in 0..2
  BY <1>1 DEF Books, Row
<1>3. row.trust \in 0..2 /\ (row.trust = 2 => book[n][p].trust = 2)
  BY <1>2
<1>4. row \in Row /\ row.port \in Port
  BY <1>3 DEF Row, Port
<1>5. row.trust = 2 => p \in greeted[n]
  BY <1>3 DEF PeerBookInv, TrustNeedsHello
<1>6. Upsert(n, p, row) /\ greeted' = greeted
  BY DEF ConnectViaTor
<1>7. book' \in Books /\ AddressHasPort' /\ TrustNeedsHello' /\ RowsKeepAddresses
  <2>. HIDE DEF row
  <2>. QED BY <1>1, <1>4, <1>5, <1>6, UpsertKeeps DEF PeerBookInv
<1>8. dials' \subseteq Dialing
  BY DEF ConnectViaTor, PeerBookInv, TypeOK, Dialing, Port
<1>9. TypeOK'
  BY <1>7, <1>8, PeerBookAssumption
  DEF ConnectViaTor, Spend, PeerBookInv, TypeOK, Books
<1>. QED BY <1>7, <1>9 DEF Kept, PeerBookInv

\* The steps that write no row, and so keep everything but types trivially.

LEMMA DialingTypeOK ==
  ASSUME PeerBookInv,
         \/ \E d \in dials : Connect(d) \/ DialFails(d) \/ DialTimesOut(d)
         \/ \E n \in Node : TorReady(n) \/ TorFails(n)
  PROVE  TypeOK' /\ UNCHANGED <<book, greeted>>
<1>. USE PeerBookAssumption DEF PeerBookInv, TypeOK
<1>1. ASSUME NEW d \in dials, Connect(d)
      PROVE  TypeOK' /\ UNCHANGED <<book, greeted>>
  <2>1. d.by \in Node
    BY DEF Dialing
  <2>2. PICK p \in Reached(d) :
          /\ links' = links \cup {{d.by, p}}
          /\ hellos' = hellos \cup
               {[at |-> p, of |-> d.by, ip |-> ip[d.by],
                 via |-> IF d.to \in Node THEN "Tor" ELSE "Lan"]}
    BY <1>1 DEF Connect
  <2>3. p \in Node
    BY DEF Reached
  <2>4. \A l \in links' : \E n, q \in Node : l = {n, q}
    BY <2>1, <2>2, <2>3
  <2>5. [at |-> p, of |-> d.by, ip |-> ip[d.by],
         via |-> IF d.to \in Node THEN "Tor" ELSE "Lan"] \in Hello
    BY <2>1, <2>3 DEF Hello
  <2>6. hellos' \subseteq Hello
    BY <2>2, <2>5
  <2>. QED BY <1>1, <2>4, <2>6 DEF Connect
<1>2. ASSUME NEW d \in dials, DialFails(d)
      PROVE  TypeOK' /\ UNCHANGED <<book, greeted>>
  BY <1>2 DEF DialFails
<1>3. ASSUME NEW d \in dials, DialTimesOut(d)
      PROVE  TypeOK' /\ UNCHANGED <<book, greeted>>
  BY <1>3 DEF DialTimesOut, Spend
<1>4. ASSUME NEW n \in Node, TorReady(n)
      PROVE  TypeOK' /\ UNCHANGED <<book, greeted>>
  <2>1. dials' \subseteq Dialing
    BY <1>4 DEF TorReady, Dialing, Port
  <2>. QED BY <1>4, <2>1 DEF TorReady
<1>5. ASSUME NEW n \in Node, TorFails(n)
      PROVE  TypeOK' /\ UNCHANGED <<book, greeted>>
  BY <1>5 DEF TorFails, Spend
<1>. QED BY <1>1, <1>2, <1>3, <1>4, <1>5

LEMMA DialAllTypeOK ==
  ASSUME PeerBookInv, NEW new, new \subseteq Dialing, DialAll(new)
  PROVE  TypeOK' /\ UNCHANGED <<book, greeted>>
BY PeerBookAssumption DEF PeerBookInv, TypeOK, DialAll, Spend

LEMMA CommandsTypeOK ==
  ASSUME PeerBookInv, NEW n \in Node,
         \/ \E i \in Ip : AddPeerManual(n, i)
         \/ ReconnectKnownPeers(n)
         \/ ScanEmergencyNetwork(n)
         \/ \E p \in Node : ConnectToOnion(n, p)
  PROVE  TypeOK' /\ UNCHANGED <<book, greeted>>
<1>1. ASSUME NEW i \in Ip, AddPeerManual(n, i)
      PROVE  TypeOK' /\ UNCHANGED <<book, greeted>>
  <2>1. [by |-> n, to |-> i, port |-> "Data"] \in Dialing
    BY DEF Dialing, Port
  <2>. QED BY <1>1, <2>1, DialAllTypeOK DEF AddPeerManual
<1>2. ASSUME ReconnectKnownPeers(n)
      PROVE  TypeOK' /\ UNCHANGED <<book, greeted>>
  <2>. DEFINE known == {q \in Node : book[n][q].ip # None /\ ~ Linked(n, q)}
  <2>1. ASSUME NEW p \in known
        PROVE  [by |-> n, to |-> book[n][p].ip, port |-> book[n][p].port]
                 \in Dialing
    <3>1. book[n][p] \in Row /\ book[n][p].ip # None /\ p \in Node
      BY DEF PeerBookInv, TypeOK
    <3>2. book[n][p].ip \in Ip
      BY <3>1 DEF Row
    <3>3. book[n][p].port \in Port
      BY <3>1 DEF PeerBookInv, AddressHasPort
    <3>. QED BY <3>1, <3>2, <3>3 DEF Dialing
  <2>2. {[by |-> n, to |-> book[n][p].ip, port |-> book[n][p].port] :
           p \in known} \subseteq Dialing
    BY <2>1
  <2>. QED BY <1>2, <2>2, DialAllTypeOK DEF ReconnectKnownPeers
<1>3. ASSUME ScanEmergencyNetwork(n)
      PROVE  TypeOK' /\ UNCHANGED <<book, greeted>>
  <2>1. {[by |-> n, to |-> i, port |-> "Data"] :
           i \in {ip[p] : p \in {q \in Node : SameLan(n, q)}} \cap Hotspot} \subseteq Dialing
    BY PeerBookAssumption DEF Dialing, Port
  <2>. QED BY <1>3, <2>1, DialAllTypeOK DEF ScanEmergencyNetwork
<1>4. ASSUME NEW p \in Node, ConnectToOnion(n, p)
      PROVE  TypeOK' /\ UNCHANGED <<book, greeted>>
  <2>1. [by |-> n, to |-> p, port |-> "Tor"] \in Dialing
    BY DEF Dialing, Port
  <2>. QED BY <1>4, <2>1, DialAllTypeOK DEF ConnectToOnion
<1>. QED BY <1>1, <1>2, <1>3, <1>4

LEMMA SurroundingsTypeOK ==
  ASSUME PeerBookInv,
         \/ \E n \in Node : SendBeacon(n) \/ Restart(n)
         \/ \E n \in Node, i \in Ip \cup {None} : Move(n, i)
         \/ \E b \in beacons : LoseBeacon(b)
         \/ \E l \in links : Cut(l)
  PROVE  TypeOK' /\ UNCHANGED <<book, greeted>>
<1>. USE PeerBookAssumption DEF PeerBookInv, TypeOK
<1>1. ASSUME NEW n \in Node, SendBeacon(n)
      PROVE  TypeOK' /\ UNCHANGED <<book, greeted>>
  <2>1. ASSUME NEW p \in {q \in Node \ {n} : SameLan(n, q)}
        PROVE  [from |-> n, to |-> p, ip |-> ip[n]] \in Beacon
    BY <2>1 DEF SameLan, Beacon
  <2>2. beacons' \subseteq Beacon
    BY <1>1, <2>1 DEF SendBeacon
  <2>. QED BY <1>1, <2>2 DEF SendBeacon
<1>2. ASSUME NEW n \in Node, Restart(n)
      PROVE  TypeOK' /\ UNCHANGED <<book, greeted>>
  BY <1>2 DEF Restart, Spend
<1>3. ASSUME NEW n \in Node, NEW i \in Ip \cup {None}, Move(n, i)
      PROVE  TypeOK' /\ UNCHANGED <<book, greeted>>
  <2>1. links' \subseteq links /\ hellos' \subseteq hellos
    BY <1>3 DEF Move, Break
  <2>. QED BY <1>3, <2>1 DEF Move, Spend
<1>4. ASSUME NEW b \in beacons, LoseBeacon(b)
      PROVE  TypeOK' /\ UNCHANGED <<book, greeted>>
  BY <1>4 DEF LoseBeacon, Spend
<1>5. ASSUME NEW l \in links, Cut(l)
      PROVE  TypeOK' /\ UNCHANGED <<book, greeted>>
  <2>1. links' \subseteq links /\ hellos' \subseteq hellos
    BY <1>5 DEF Cut, Break
  <2>. QED BY <1>5, <2>1 DEF Cut, Spend
<1>. QED BY <1>1, <1>2, <1>3, <1>4, <1>5

-----------------------------------------------------------------------------
(* Theorems *)

LEMMA NextKeeps ==
  ASSUME PeerBookInv, Next
  PROVE  Kept
<1>1. ASSUME TypeOK', UNCHANGED <<book, greeted>>
      PROVE  Kept
  BY <1>1, NoUpsertKeeps DEF PeerBookInv, Kept
<1>2. ASSUME NEW n \in Node, SendBeacon(n) \/ RunDial(n) \/ Store(n)
      PROVE  Kept
  <2>1. CASE SendBeacon(n)
    BY <1>1, <2>1, SurroundingsTypeOK
  <2>2. CASE RunDial(n)
    BY <1>1, <2>2, DialingTypeOK DEF RunDial
  <2>3. CASE Store(n)
    BY <2>3, SaveFromHelloKeeps DEF Store
  <2>. QED BY <1>2, <2>1, <2>2, <2>3
<1>3. ASSUME NEW n \in Node, NEW p \in Node, Receive(n, p)
      PROVE  Kept
  BY <1>3, ReceiveBeaconKeeps DEF Receive
<1>4. ASSUME NEW n \in Node, UserDials(n) \/ TorReady(n) \/ TorFails(n) \/ Restart(n)
      PROVE  Kept
  <2>1. CASE \E p \in Node : ConnectViaTor(n, p)
    BY <2>1, ConnectViaTorKeeps
  <2>2. CASE UserDials(n) /\ ~ \E p \in Node : ConnectViaTor(n, p)
    BY <1>1, <2>2, CommandsTypeOK DEF UserDials
  <2>3. CASE TorReady(n) \/ TorFails(n)
    BY <1>1, <2>3, DialingTypeOK
  <2>4. CASE Restart(n)
    BY <1>1, <2>4, SurroundingsTypeOK
  <2>. QED BY <1>4, <2>1, <2>2, <2>3, <2>4
<1>5. ASSUME \/ \E n \in Node, i \in Ip \cup {None} : Move(n, i)
             \/ \E b \in beacons : LoseBeacon(b)
             \/ \E l \in links : Cut(l)
      PROVE  Kept
  BY <1>1, <1>5, SurroundingsTypeOK
<1>6. ASSUME \E d \in dials : DialTimesOut(d)
      PROVE  Kept
  BY <1>1, <1>6, DialingTypeOK
<1>. QED BY <1>2, <1>3, <1>4, <1>5, <1>6 DEF Next

LEMMA InitInv ==
  ASSUME Init
  PROVE  PeerBookInv
<1>1. NoRow \in Row
  BY DEF NoRow, Row
<1>2. TypeOK
  BY <1>1, PeerBookAssumption DEF Init, TypeOK
<1>3. \A n, p \in Node : book[n][p] = NoRow
  BY DEF Init
<1>. QED BY <1>2, <1>3 DEF PeerBookInv, AddressHasPort, TrustNeedsHello, NoRow

LEMMA StutterKeeps ==
  ASSUME PeerBookInv, UNCHANGED vars
  PROVE  Kept
<1>1. TypeOK' /\ UNCHANGED <<book, greeted>>
  BY DEF vars, PeerBookInv, TypeOK
<1>. QED BY <1>1, NoUpsertKeeps DEF PeerBookInv, Kept

\* The inductive invariant, for every number of nodes, addresses and faults.
THEOREM PeerBookInvariant == Spec => []PeerBookInv
<1>1. Init => PeerBookInv
  BY InitInv
<1>2. PeerBookInv /\ [Next]_vars => PeerBookInv'
  BY NextKeeps, StutterKeeps DEF Kept
<1>. QED BY <1>1, <1>2, PTL DEF Spec

\* Type correctness: whatever is dialled from the table has an address and a
\* port, and rows, beacons and Hellos stay within their types.
THEOREM PeerBookTypeCorrect == Spec => []TypeOK
<1>1. PeerBookInv => TypeOK
  BY DEF PeerBookInv
<1>. QED BY <1>1, PeerBookInvariant, PTL

\* A row is trusted only after a Hello of its peer.
THEOREM PeerBookTrustNeedsHello == Spec => []TrustNeedsHello
<1>1. PeerBookInv => TrustNeedsHello
  BY DEF PeerBookInv
<1>. QED BY <1>1, PeerBookInvariant, PTL

\* A row never loses the LAN address or the onion address it has.
THEOREM PeerBookAddressesKept == Spec => AddressesKept
<1>1. PeerBookInv /\ [Next]_vars => [RowsKeepAddresses]_vars
  BY NextKeeps DEF Kept
<1>2. [][RowsKeepAddresses]_vars => AddressesKept
  BY DEF RowsKeepAddresses, AddressesKept
<1>. QED BY <1>1, <1>2, PeerBookInvariant, PTL DEF Spec
=============================================================================
