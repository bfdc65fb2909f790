---------------------------- MODULE RouterProofs ----------------------------
(***************************************************************************)
(* Proofs about Router: for every set of peers and packet ids, every cache *)
(* size and every trust scale that meets the assumptions of Routing.       *)
(***************************************************************************)
EXTENDS Router, RoutingLemmas

\* The facts that a step disturbs together.
IInv == TypeOK /\ CorruptedNeverCached /\ TrustLossHasCause

LEMMA PresentedIsPacket ==
  ASSUME NEW p \in Peer, NEW pkt \in Presented(p)
  PROVE  /\ pkt \in Packet
         /\ MacVerifies(pkt, p) => Genuine(pkt)
         /\ p \in Node /\ Me \in Node /\ p # Me
<1>1. p \in Node /\ Me \in Node /\ p # Me
  BY RouterAssumption DEF Peer
<1>2. pkt \in Packet
  BY <1>1, RoutingAssumption DEF Presented, Packet, PacketType, Mac
<1>3. MacVerifies(pkt, p) => Genuine(pkt)
  BY <1>1, <1>2, NoMacAssumption DEF MacVerifies, Genuine, Mac, Packet
<1>4. QED
  BY <1>1, <1>2, <1>3

\* One more fault of a peer is one more penalty in the bound.
LEMMA OneMoreFault ==
  ASSUME NEW k \in Nat, NEW d \in Int
  PROVE  (k + 1) * d = k * d + d /\ k * d \in Int
BY Z3

\* The bound of TrustLossHasCause for one peer, given what a call does to
\* its score and to its two fault counters.
LEMMA CauseStep ==
  ASSUME NEW t \in Int, NEW u \in Int, NEW i \in Nat, NEW f \in Nat,
         NEW j \in Nat, NEW g \in Nat,
         t >= TRUST_INITIAL + i * TRUST_INVALID_MAC_DELTA
                            + f * TRUST_RATE_LIMIT_DELTA,
         \/ u >= t /\ j \in {i, i + 1} /\ g \in {f, f + 1}
         \/ u >= t + TRUST_INVALID_MAC_DELTA /\ j = i + 1 /\ g = f
         \/ u >= t + TRUST_RATE_LIMIT_DELTA /\ j = i /\ g = f + 1
  PROVE  u >= TRUST_INITIAL + j * TRUST_INVALID_MAC_DELTA
                            + g * TRUST_RATE_LIMIT_DELTA
<1> DEFINE a == TRUST_INVALID_MAC_DELTA
<1> DEFINE b == TRUST_RATE_LIMIT_DELTA
<1>1. a \in Int /\ b \in Int /\ TRUST_INITIAL \in Int /\ a <= 0 /\ b <= 0
  BY TrustAssumption
<1>2. (i + 1) * a = i * a + a /\ i * a \in Int
  BY <1>1, OneMoreFault
<1>3. (f + 1) * b = f * b + b /\ f * b \in Int
  BY <1>1, OneMoreFault
<1>4. t >= TRUST_INITIAL + i * a + f * b
  OBVIOUS
<1> HIDE DEF a, b
<1>5. j * a \in {i * a, i * a + a} /\ g * b \in {f * b, f * b + b}
  BY <1>2, <1>3
<1>6. u >= TRUST_INITIAL + j * a + g * b
  <2>1. CASE u >= t /\ j \in {i, i + 1} /\ g \in {f, f + 1}
    BY <1>1, <1>2, <1>3, <1>4, <1>5, <2>1
  <2>2. CASE u >= t + a /\ j = i + 1 /\ g = f
    BY <1>1, <1>2, <1>3, <1>4, <2>2
  <2>3. CASE u >= t + b /\ j = i /\ g = f + 1
    BY <1>1, <1>2, <1>3, <1>4, <2>3
  <2>4. QED
    BY <2>1, <2>2, <2>3 DEF a, b
<1>7. QED
  BY <1>6 DEF a, b

\* The relation of CauseStep for every peer preserves the bound for all.
LEMMA CausePreserved ==
  ASSUME IInv, TypeOK',
         \A q \in Peer :
           \/ /\ trust_scores'[Me][q] >= trust_scores[Me][q]
              /\ invalid'[q] \in {invalid[q], invalid[q] + 1}
              /\ flooded'[q] \in {flooded[q], flooded[q] + 1}
           \/ /\ trust_scores'[Me][q]
                   >= trust_scores[Me][q] + TRUST_INVALID_MAC_DELTA
              /\ invalid'[q] = invalid[q] + 1 /\ flooded'[q] = flooded[q]
           \/ /\ trust_scores'[Me][q]
                   >= trust_scores[Me][q] + TRUST_RATE_LIMIT_DELTA
              /\ invalid'[q] = invalid[q] /\ flooded'[q] = flooded[q] + 1
  PROVE  TrustLossHasCause'
<1> SUFFICES ASSUME NEW q \in Peer
             PROVE  trust_scores'[Me][q]
                      >= TRUST_INITIAL
                         + invalid'[q] * TRUST_INVALID_MAC_DELTA
                         + flooded'[q] * TRUST_RATE_LIMIT_DELTA
  BY DEF TrustLossHasCause
<1>1. /\ q \in Node /\ Me \in Node
      /\ invalid[q] \in Nat /\ flooded[q] \in Nat
      /\ invalid'[q] \in Nat /\ flooded'[q] \in Nat
      /\ trust_scores[Me][q] \in TRUST_MIN..TRUST_MAX
      /\ trust_scores'[Me][q] \in TRUST_MIN..TRUST_MAX
  BY RouterAssumption DEF IInv, TypeOK, RouterTypeOK, Peer
<1>2. TRUST_MIN \in Int /\ TRUST_MAX \in Int
  BY TrustAssumption
<1>3. trust_scores[Me][q] \in Int /\ trust_scores'[Me][q] \in Int
  BY <1>1, <1>2
<1>4. trust_scores[Me][q]
        >= TRUST_INITIAL + invalid[q] * TRUST_INVALID_MAC_DELTA
                         + flooded[q] * TRUST_RATE_LIMIT_DELTA
  BY DEF IInv, TrustLossHasCause
<1>5. QED
  BY <1>1, <1>3, <1>4, CauseStep

\* How one update moves the scores of all peers.
LEMMA TrustMoves ==
  ASSUME RouterTypeOK, NEW p \in Peer, NEW delta \in Int,
         UpdateTrust(Me, p, delta), NEW q \in Peer
  PROVE  /\ q # p => trust_scores'[Me][q] = trust_scores[Me][q]
         /\ q = p /\ delta >= 0 => trust_scores'[Me][q] >= trust_scores[Me][q]
         /\ q = p /\ delta <= 0 => /\ trust_scores'[Me][q] <= trust_scores[Me][q]
                                   /\ trust_scores'[Me][q]
                                        >= trust_scores[Me][q] + delta
         /\ trust_scores[Me][q] >= trust_scores[Me][q]
<1>1. p \in Node /\ q \in Node /\ Me \in Node
  BY RouterAssumption DEF Peer
<1>2. trust_scores[Me][q] \in TRUST_MIN..TRUST_MAX
  BY <1>1 DEF RouterTypeOK
<1>3. trust_scores[Me][q] \in Int
  BY <1>2, TrustAssumption
<1>4. QED
  BY <1>1, <1>2, <1>3, UpdateTrustType, ClampBounds

LEMMA RateLimitedPreserves ==
  ASSUME IInv, NEW p \in Peer, NEW fresh \in REFILLS,
         NEW pkt \in Presented(p), RateLimited(p, pkt, fresh)
  PROVE  IInv'
<1>1. TypeOK /\ RouterTypeOK /\ pkt \in Packet /\ p \in Node /\ Me \in Node
  BY PresentedIsPacket DEF IInv, TypeOK
<1>2. DropRateLimited(Me, p, fresh)
  BY DEF RateLimited
<1>3. RouterTypeOK' /\ packet_cache' = packet_cache
  BY <1>1, <1>2, DropType DEF Drop
<1>4. TypeOK'
  BY <1>1, <1>3, RouterAssumption DEF TypeOK, RateLimited, Called, Packet
<1>5. CorruptedNeverCached'
  BY <1>3 DEF IInv, CorruptedNeverCached, RateLimited
<1>6. TRUST_RATE_LIMIT_DELTA \in Int /\ TRUST_RATE_LIMIT_DELTA <= 0
  BY TrustAssumption
<1>7. ASSUME NEW q \in Peer
      PROVE  \/ /\ trust_scores'[Me][q] >= trust_scores[Me][q]
                /\ invalid'[q] = invalid[q] /\ flooded'[q] = flooded[q]
             \/ /\ trust_scores'[Me][q]
                     >= trust_scores[Me][q] + TRUST_RATE_LIMIT_DELTA
                /\ invalid'[q] = invalid[q] /\ flooded'[q] = flooded[q] + 1
  <2>1. invalid'[q] = invalid[q]
        /\ flooded'[q] = IF q = p THEN flooded[q] + 1 ELSE flooded[q]
    BY <1>1 DEF RateLimited, TypeOK, Peer
  <2>2. UpdateTrust(Me, p, TRUST_RATE_LIMIT_DELTA)
    BY <1>2 DEF DropRateLimited
  <2>3. QED
    BY <1>1, <1>6, <2>1, <2>2, TrustMoves
<1>8. TrustLossHasCause'
  BY <1>4, <1>7, CausePreserved
<1>9. QED
  BY <1>4, <1>5, <1>8 DEF IInv

LEMMA RejectedPreserves ==
  ASSUME IInv, NEW p \in Peer, NEW fresh \in REFILLS,
         NEW pkt \in Presented(p), Rejected(p, pkt, fresh)
  PROVE  IInv'
<1>1. /\ TypeOK /\ RouterTypeOK /\ pkt \in Packet /\ p \in Node /\ Me \in Node
      /\ MacVerifies(pkt, p) => Genuine(pkt)
  BY PresentedIsPacket DEF IInv, TypeOK
<1>2. \/ DropUntrusted(Me, p, fresh)
      \/ DropDuplicate(Me, p, pkt, fresh)
      \/ DropInvalidMac(Me, p, pkt, fresh)
  BY DEF Rejected
<1>3. RouterTypeOK' /\ packet_cache' = packet_cache
  BY <1>1, <1>2, DropType DEF Drop
<1>4. TypeOK'
  <2>1. pkt.id \in PacketId
    BY <1>1 DEF Packet
  <2>2. vouched' \in SUBSET PacketId
    BY <1>1, <2>1 DEF TypeOK, Rejected
  <2>3. invalid' \in [Node -> Nat]
    <3>1. invalid \in [Node -> Nat] /\ invalid[p] + 1 \in Nat
      BY <1>1 DEF TypeOK
    <3>2. invalid' = invalid \/ invalid' = [invalid EXCEPT ![p] = @ + 1]
      BY DEF Rejected
    <3>3. QED
      BY <3>1, <3>2
  <2>4. calls' \in 0..MAX_CALLS /\ UNCHANGED <<puts, flooded>>
    BY <1>1, RouterAssumption DEF TypeOK, Rejected, Called
  <2>5. QED
    BY <1>1, <1>3, <2>2, <2>3, <2>4 DEF TypeOK
<1>5. CorruptedNeverCached'
  BY <1>3 DEF IInv, CorruptedNeverCached, Rejected
<1>6. ASSUME NEW q \in Peer
      PROVE  \/ /\ trust_scores'[Me][q] >= trust_scores[Me][q]
                /\ invalid'[q] \in {invalid[q], invalid[q] + 1}
                /\ flooded'[q] = flooded[q]
             \/ /\ trust_scores'[Me][q]
                     >= trust_scores[Me][q] + TRUST_INVALID_MAC_DELTA
                /\ invalid'[q] = invalid[q] + 1 /\ flooded'[q] = flooded[q]
  <2>1. q \in Node /\ flooded'[q] = flooded[q]
        /\ trust_scores[Me][q] \in TRUST_MIN..TRUST_MAX
    BY <1>1 DEF Rejected, Peer, RouterTypeOK
  <2>2. trust_scores[Me][q] >= trust_scores[Me][q]
    BY <2>1, TrustAssumption
  <2>3. /\ invalid'[q] \in {invalid[q], invalid[q] + 1}
        /\ ~ Genuine(pkt) /\ q = p => invalid'[q] = invalid[q] + 1
        /\ q # p => invalid'[q] = invalid[q]
    BY <1>1, <2>1 DEF Rejected, TypeOK
  <2>4. CASE DropUntrusted(Me, p, fresh)
    BY <2>1, <2>2, <2>3, <2>4 DEF DropUntrusted
  <2>5. CASE DropDuplicate(Me, p, pkt, fresh)
    BY <2>1, <2>2, <2>3, <2>5 DEF DropDuplicate
  <2>6. CASE DropInvalidMac(Me, p, pkt, fresh)
    <3>1. TRUST_INVALID_MAC_DELTA \in Int /\ TRUST_INVALID_MAC_DELTA <= 0
      BY TrustAssumption
    <3>2. UpdateTrust(Me, p, TRUST_INVALID_MAC_DELTA)
      BY <2>6 DEF DropInvalidMac
    <3>3. ~ Genuine(pkt)
      BY <2>6 DEF DropInvalidMac, MacVerifies, Genuine, Presented
    <3>4. QED
      BY <1>1, <2>1, <2>2, <2>3, <3>1, <3>2, <3>3, TrustMoves
  <2>7. QED
    BY <1>2, <2>4, <2>5, <2>6
<1>7. TrustLossHasCause'
  BY <1>4, <1>6, CausePreserved
<1>8. QED
  BY <1>4, <1>5, <1>7 DEF IInv

LEMMA AcceptedPreserves ==
  ASSUME IInv, NEW p \in Peer, NEW fresh \in REFILLS,
         NEW pkt \in Presented(p), Accepted(p, pkt, fresh)
  PROVE  IInv'
<1>1. /\ TypeOK /\ RouterTypeOK /\ pkt \in Packet /\ p \in Node /\ Me \in Node
      /\ MacVerifies(pkt, p) => Genuine(pkt)
      /\ pkt.id \in PacketId
  BY PresentedIsPacket DEF IInv, TypeOK, Packet
<1>2. Accept(Me, p, pkt, fresh)
  BY DEF Accepted
<1>3. RouterTypeOK'
  BY <1>1, <1>2, AcceptType
<1>4. Genuine(pkt) /\ vouched' = vouched \cup {pkt.id} /\ UNCHANGED <<invalid, flooded>>
  BY <1>1, <1>2 DEF Accept, Accepted
<1>5. TypeOK'
  BY <1>1, <1>3, <1>4, RouterAssumption DEF TypeOK, Accepted, Called
<1>6. CorruptedNeverCached'
  <2>1. packet_cache'[Me] = Put(packet_cache[Me], pkt.id)
    BY <1>1, <1>2, PutCaches DEF Accept
  <2>2. Cached(packet_cache'[Me]) \subseteq Cached(packet_cache[Me]) \cup {pkt.id}
    BY <1>1, <2>1, PutType DEF RouterTypeOK
  <2>3. QED
    BY <1>4, <2>2 DEF IInv, CorruptedNeverCached
<1>7. ASSUME NEW q \in Peer
      PROVE  /\ trust_scores'[Me][q] >= trust_scores[Me][q]
             /\ invalid'[q] = invalid[q] /\ flooded'[q] = flooded[q]
  <2>1. TRUST_VALID_DELTA \in Int /\ TRUST_VALID_DELTA >= 0
    BY TrustAssumption
  <2>2. UpdateTrust(Me, p, TRUST_VALID_DELTA)
    BY <1>2 DEF Accept
  <2>3. QED
    BY <1>1, <1>4, <2>1, <2>2, TrustMoves
<1>8. TrustLossHasCause'
  BY <1>5, <1>7, CausePreserved
<1>9. QED
  BY <1>5, <1>6, <1>8 DEF IInv

LEMMA RegisterPreserves ==
  ASSUME IInv, NEW id \in PacketId,
         RegisterOutgoing(id) \/ RegisterBroadcast(id)
  PROVE  IInv'
<1>1. TypeOK /\ RouterTypeOK /\ Me \in Node
  BY RouterAssumption DEF IInv, TypeOK
<1>2. /\ Register(Me, id) /\ vouched' = vouched \cup {id}
      /\ puts' = Append(puts, id) /\ Called /\ UNCHANGED <<invalid, flooded>>
  BY DEF RegisterOutgoing, RegisterBroadcast
<1>3. RouterTypeOK'
  BY <1>1, <1>2, RegisterType
<1>4. TypeOK'
  BY <1>1, <1>2, <1>3, RouterAssumption DEF TypeOK, Called
<1>5. CorruptedNeverCached'
  <2>1. packet_cache'[Me] = Put(packet_cache[Me], id)
    BY <1>1, <1>2, PutCaches DEF Register
  <2>2. Cached(packet_cache'[Me]) \subseteq Cached(packet_cache[Me]) \cup {id}
    BY <1>1, <2>1, PutType DEF RouterTypeOK
  <2>3. QED
    BY <1>2, <2>2 DEF IInv, CorruptedNeverCached
<1>6. TrustLossHasCause'
  BY <1>2 DEF IInv, TrustLossHasCause, Register
<1>7. QED
  BY <1>4, <1>5, <1>6 DEF IInv

LEMMA StutterPreserves ==
  ASSUME IInv, UNCHANGED vars
  PROVE  IInv'
BY DEF IInv, TypeOK, RouterTypeOK, CorruptedNeverCached, TrustLossHasCause, vars

LEMMA InitEstablishes == Init => IInv
<1> SUFFICES ASSUME Init PROVE IInv
  OBVIOUS
<1>1. RouterTypeOK
  BY RoutingAssumption, TrustAssumption DEF Init, RouterInit, RouterTypeOK
<1>2. TypeOK
  BY <1>1, RouterAssumption DEF Init, TypeOK
<1>3. CorruptedNeverCached
  BY RouterAssumption DEF Init, RouterInit, CorruptedNeverCached, Cached
<1>4. TrustLossHasCause
  <2> SUFFICES ASSUME NEW q \in Peer
               PROVE  trust_scores[Me][q]
                        >= TRUST_INITIAL + invalid[q] * TRUST_INVALID_MAC_DELTA
                                         + flooded[q] * TRUST_RATE_LIMIT_DELTA
    BY DEF TrustLossHasCause
  <2>1. trust_scores[Me][q] = TRUST_INITIAL /\ invalid[q] = 0 /\ flooded[q] = 0
    BY RouterAssumption DEF Init, RouterInit, Peer
  <2>2. \A d \in Int : 0 * d = 0
    BY Z3
  <2>3. /\ TRUST_INITIAL \in Int
        /\ 0 * TRUST_INVALID_MAC_DELTA = 0 /\ 0 * TRUST_RATE_LIMIT_DELTA = 0
    BY <2>2, TrustAssumption
  <2>4. QED
    BY <2>1, <2>3
<1>5. QED
  BY <1>2, <1>3, <1>4 DEF IInv

\* The inductive invariant of one router, whatever is presented to it.
THEOREM RouterInvariant == Spec => []IInv
<1>1. IInv /\ [Next]_vars => IInv'
  BY RateLimitedPreserves, RejectedPreserves, AcceptedPreserves,
     RegisterPreserves, StutterPreserves DEF Next
<1>2. QED
  BY <1>1, InitEstablishes, PTL DEF Spec

\* The cache never exceeds its capacity, scores and buckets stay in range.
THEOREM RouterTypeCorrect == Spec => []TypeOK
<1>1. IInv => TypeOK
  BY DEF IInv
<1>2. QED
  BY <1>1, RouterInvariant, PTL

\* A packet that fails verification never occupies the replay cache.
THEOREM RouterCorruptedNeverCached == Spec => []CorruptedNeverCached
<1>1. IInv => CorruptedNeverCached
  BY DEF IInv
<1>2. QED
  BY <1>1, RouterInvariant, PTL

\* A peer's score is never lower than its own faults account for.
THEOREM RouterTrustLossHasCause == Spec => []TrustLossHasCause
<1>1. IInv => TrustLossHasCause
  BY DEF IInv
<1>2. QED
  BY <1>1, RouterInvariant, PTL

\* Below the threshold no call raises a score: the ban of a peer is final.
THEOREM RouterBanIsPermanent == Spec => BanIsPermanent
<1>1. ASSUME IInv, [Next]_vars, NEW q \in Peer, ~ Trusted(Me, q)
      PROVE  trust_scores'[Me][q] <= trust_scores[Me][q]
  <2>1. RouterTypeOK /\ Me \in Node /\ q \in Node
    BY <1>1, RouterAssumption DEF IInv, TypeOK, Peer
  <2>2. trust_scores[Me][q] \in Int /\ trust_scores[Me][q] <= trust_scores[Me][q]
    <3>1. trust_scores[Me][q] \in TRUST_MIN..TRUST_MAX
      BY <2>1 DEF RouterTypeOK
    <3>2. QED
      BY <3>1, TrustAssumption
  <2>3. ASSUME NEW p \in Peer, NEW fresh \in REFILLS, NEW pkt \in Presented(p),
               RateLimited(p, pkt, fresh)
        PROVE  trust_scores'[Me][q] <= trust_scores[Me][q]
    <3>1. UpdateTrust(Me, p, TRUST_RATE_LIMIT_DELTA)
      BY <2>3 DEF RateLimited, DropRateLimited
    <3>2. TRUST_RATE_LIMIT_DELTA \in Int /\ TRUST_RATE_LIMIT_DELTA <= 0
      BY TrustAssumption
    <3>3. QED
      BY <2>1, <2>2, <3>1, <3>2, TrustMoves
  <2>4. ASSUME NEW p \in Peer, NEW fresh \in REFILLS, NEW pkt \in Presented(p),
               Rejected(p, pkt, fresh)
        PROVE  trust_scores'[Me][q] <= trust_scores[Me][q]
    <3>1. \/ trust_scores' = trust_scores
          \/ UpdateTrust(Me, p, TRUST_INVALID_MAC_DELTA)
      BY <2>4 DEF Rejected, DropUntrusted, DropDuplicate, DropInvalidMac
    <3>2. TRUST_INVALID_MAC_DELTA \in Int /\ TRUST_INVALID_MAC_DELTA <= 0
      BY TrustAssumption
    <3>3. QED
      BY <2>1, <2>2, <3>1, <3>2, TrustMoves
  <2>5. ASSUME NEW p \in Peer, NEW fresh \in REFILLS, NEW pkt \in Presented(p),
               Accepted(p, pkt, fresh)
        PROVE  trust_scores'[Me][q] <= trust_scores[Me][q]
    <3>1. UpdateTrust(Me, p, TRUST_VALID_DELTA) /\ p # q
      BY <1>1, <2>5 DEF Accepted, Accept
    <3>2. TRUST_VALID_DELTA \in Int
      BY TrustAssumption
    <3>3. QED
      BY <2>1, <2>2, <3>1, <3>2, TrustMoves
  <2>6. ASSUME NEW id \in PacketId,
               RegisterOutgoing(id) \/ RegisterBroadcast(id)
        PROVE  trust_scores'[Me][q] <= trust_scores[Me][q]
    BY <2>2, <2>6 DEF RegisterOutgoing, RegisterBroadcast, Register
  <2>7. CASE UNCHANGED vars
    BY <2>2, <2>7 DEF vars
  <2>8. QED
    BY <1>1, <2>3, <2>4, <2>5, <2>6, <2>7 DEF Next
<1>2. IInv /\ [Next]_vars =>
        [BannedStaysDown]_vars
  BY <1>1 DEF BannedStaysDown
<1>3. QED
  BY <1>2, RouterInvariant, PTL DEF Spec, BanIsPermanent

-----------------------------------------------------------------------------
(* The replay window *)

\* The cache of Me is the cache of what puts records, and the window holds.
ReplayInv == CacheOf(packet_cache[Me], puts) /\ Window(puts)

\* A step puts at most one id, and only one that is not cached.
LEMMA PutCases ==
  ASSUME IInv, ReplayInv, [Next]_vars
  PROVE  \/ UNCHANGED <<packet_cache, puts>>
         \/ \E id \in PacketId :
              /\ id \notin Cached(packet_cache[Me])
              /\ packet_cache'[Me] = Put(packet_cache[Me], id)
              /\ puts' = Append(puts, id)
<1>1. RouterTypeOK /\ Me \in Node
  BY RouterAssumption DEF IInv, TypeOK
<1>2. ASSUME NEW id \in PacketId,
             packet_cache' = [packet_cache EXCEPT ![Me] = Put(@, id)]
      PROVE  packet_cache'[Me] = Put(packet_cache[Me], id)
  BY <1>1, <1>2 DEF RouterTypeOK
<1>3. ASSUME NEW p \in Peer, NEW fresh \in REFILLS, NEW pkt \in Presented(p),
             RateLimited(p, pkt, fresh) \/ Rejected(p, pkt, fresh)
      PROVE  UNCHANGED <<packet_cache, puts>>
  BY <1>3 DEF RateLimited, Rejected, DropRateLimited, DropUntrusted, DropDuplicate,
              DropInvalidMac
<1>4. ASSUME NEW p \in Peer, NEW fresh \in REFILLS, NEW pkt \in Presented(p),
             Accepted(p, pkt, fresh)
      PROVE  \E id \in PacketId :
               /\ id \notin Cached(packet_cache[Me])
               /\ packet_cache'[Me] = Put(packet_cache[Me], id)
               /\ puts' = Append(puts, id)
  <2>1. pkt.id \in PacketId
    BY PresentedIsPacket DEF Packet
  <2> QED
    BY <1>2, <1>4, <2>1 DEF Accepted, Accept
<1>5. ASSUME NEW id \in PacketId, RegisterOutgoing(id)
      PROVE  /\ id \notin Cached(packet_cache[Me])
             /\ packet_cache'[Me] = Put(packet_cache[Me], id)
             /\ puts' = Append(puts, id)
  BY <1>2, <1>5 DEF RegisterOutgoing, Register, ReplayInv, CacheOf
<1>6. ASSUME NEW id \in PacketId, RegisterBroadcast(id)
      PROVE  /\ id \notin Cached(packet_cache[Me])
             /\ packet_cache'[Me] = Put(packet_cache[Me], id)
             /\ puts' = Append(puts, id)
  BY <1>2, <1>6 DEF RegisterBroadcast, Register
<1>7. CASE UNCHANGED vars
  BY <1>7 DEF vars
<1>8. CASE Next
  BY <1>3, <1>4, <1>5, <1>6, <1>8 DEF Next
<1> QED
  BY <1>7, <1>8

LEMMA ReplayKeeps ==
  ASSUME IInv, ReplayInv, [Next]_vars
  PROVE  ReplayInv'
<1>1. /\ packet_cache[Me] \in Seq(PacketId) /\ Len(packet_cache[Me]) <= CACHE_SIZE
      /\ puts \in Seq(PacketId)
  BY RouterAssumption DEF IInv, TypeOK, RouterTypeOK
<1>2. CASE UNCHANGED <<packet_cache, puts>>
  BY <1>2 DEF ReplayInv
<1>3. ASSUME NEW id \in PacketId,
             id \notin Cached(packet_cache[Me]),
             packet_cache'[Me] = Put(packet_cache[Me], id),
             puts' = Append(puts, id)
      PROVE  ReplayInv'
  <2>1. /\ CacheOf(Put(packet_cache[Me], id), Append(puts, id))
        /\ Window(Append(puts, id))
    BY <1>1, <1>3, PutAfter DEF ReplayInv
  <2> QED
    BY <1>3, <2>1 DEF ReplayInv
<1> QED
  BY <1>2, <1>3, PutCases

\* An id comes back into the cache only after CACHE_SIZE others have entered
\* it: for every cache size and every sequence of calls.
THEOREM RouterReplayWindow == Spec => []ReplayWindow
<1>1. Init => ReplayInv
  <2> SUFFICES ASSUME Init PROVE ReplayInv
    OBVIOUS
  <2>1. packet_cache[Me] = <<>> /\ puts = <<>>
    BY RouterAssumption DEF Init, RouterInit
  <2> QED
    BY <2>1, EmptyCache DEF ReplayInv
<1>2. IInv /\ ReplayInv /\ [Next]_vars => ReplayInv'
  BY ReplayKeeps
<1>3. ReplayInv => ReplayWindow
  BY DEF ReplayInv, Window, ReplayWindow
<1>4. QED
  BY <1>1, <1>2, <1>3, RouterInvariant, PTL DEF Spec
=============================================================================
