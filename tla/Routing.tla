------------------------------ MODULE Routing ------------------------------
(***************************************************************************)
(* The routing engine of src-tauri/src/routing.rs: replay cache, hop MAC,  *)
(* rate limit and trust score, as the actions a node's Router can take.    *)
(* The module has no specification of its own: Router drives one router    *)
(* with arbitrary packets, Mesh composes one router per node.              *)
(*                                                                         *)
(* A peer is known by the key the transport derives from its node id, so   *)
(* peers and nodes are one set.  A MAC tag is the tuple it is computed     *)
(* from (the channel key is the same all-zero key everywhere); NoMac is    *)
(* any tag that verifies nowhere, the zeroed tag of Hello and Broadcast    *)
(* among them.  Trust is an integer number of hundredths.  The clock of    *)
(* the token bucket is not modelled here (TokenBucket is its model): a     *)
(* call to consume finds any number of tokens of REFILLS credited.         *)
(***************************************************************************)
EXTENDS Integers, Sequences

CONSTANTS
  Node,                     \* the nodes, and the peers they hear from
  PacketId,                 \* packet ids
  NoMac,                    \* a tag that verifies nowhere
  CACHE_SIZE,               \* entries of the LRU packet cache (512)
  TTL_MAX,                  \* ttl of a packet at its origin (7)
  RATE_BURST,               \* tokens of a full bucket (200)
  REFILLS,                  \* tokens one consume() may find credited
  TRUST_INITIAL,            \* 200
  TRUST_THRESHOLD,          \* 50
  TRUST_VALID_DELTA,        \* 1
  TRUST_INVALID_MAC_DELTA,  \* -50
  TRUST_RATE_LIMIT_DELTA,   \* -100
  TRUST_MIN,                \* 0
  TRUST_MAX                 \* 500

ASSUME RoutingAssumption ==
  /\ CACHE_SIZE \in Nat \ {0}
  /\ TTL_MAX \in Nat
  /\ RATE_BURST \in Nat \ {0}
  /\ REFILLS \in SUBSET (0..RATE_BURST)

ASSUME TrustAssumption ==
  /\ {TRUST_INITIAL, TRUST_THRESHOLD, TRUST_MIN, TRUST_MAX} \subseteq Int
  /\ {TRUST_VALID_DELTA, TRUST_INVALID_MAC_DELTA, TRUST_RATE_LIMIT_DELTA}
       \subseteq Int
  /\ TRUST_MIN <= TRUST_INITIAL
  /\ TRUST_INITIAL <= TRUST_MAX
  /\ TRUST_VALID_DELTA >= 0
  /\ TRUST_INVALID_MAC_DELTA <= 0
  /\ TRUST_RATE_LIMIT_DELTA <= 0

ASSUME NoMacAssumption == NoMac \notin PacketId \X Nat \X Node

VARIABLES
  packet_cache,  \* packet_cache[n]: ids in n's LRU cache, most recent first
  trust_scores,  \* trust_scores[n][p]: n's trust in peer p
  tokens         \* tokens[n][p]: tokens left in n's bucket for peer p

routerVars == <<packet_cache, trust_scores, tokens>>

PacketType == {"Hello", "Dm", "Broadcast"}

Packet == [id : PacketId, type : PacketType, ttl : 0..TTL_MAX, hop : Nat,
           mac : (PacketId \X Nat \X Node) \cup {NoMac}]

RouterTypeOK ==
  /\ packet_cache \in [Node -> Seq(PacketId)]
  /\ \A n \in Node : Len(packet_cache[n]) <= CACHE_SIZE
  /\ trust_scores \in [Node -> [Node -> TRUST_MIN..TRUST_MAX]]
  /\ tokens \in [Node -> [Node -> 0..RATE_BURST]]

RouterInit ==
  /\ packet_cache = [n \in Node |-> <<>>]
  /\ trust_scores = [n \in Node |-> [p \in Node |-> TRUST_INITIAL]]
  /\ tokens = [n \in Node |-> [p \in Node |-> RATE_BURST]]

-----------------------------------------------------------------------------
(* The LRU packet cache *)

Cached(c) == {c[i] : i \in DOMAIN c}

\* LruCache::put: id becomes the most recent entry.  The entries down to
\* its old slot move back by one; without an old slot, down to the first
\* free one, and the least recent entry falls off a full cache.
Put(c, id) ==
  LET slot == IF id \in Cached(c) THEN CHOOSE i \in DOMAIN c : c[i] = id
              ELSE IF Len(c) < CACHE_SIZE THEN Len(c) + 1
              ELSE CACHE_SIZE
  IN  [i \in 1..(IF slot > Len(c) THEN slot ELSE Len(c)) |->
         IF i = 1 THEN id ELSE IF i <= slot THEN c[i - 1] ELSE c[i]]

(* Trust and rate limit *)

Clamp(x) == IF x < TRUST_MIN THEN TRUST_MIN
            ELSE IF x > TRUST_MAX THEN TRUST_MAX
            ELSE x

\* Fault: the score is not clamped.
UpdateTrustUnclamped(n, peer, delta) ==
  trust_scores' = [trust_scores EXCEPT ![n][peer] = @ + delta]

UpdateTrust(n, peer, delta) ==
  trust_scores' = [trust_scores EXCEPT ![n][peer] = Clamp(@ + delta)]

Trusted(n, peer) == trust_scores[n][peer] >= TRUST_THRESHOLD

\* Tokens consume() finds after crediting fresh ones.
Credit(n, src, fresh) ==
  IF tokens[n][src] + fresh < RATE_BURST
    THEN tokens[n][src] + fresh
    ELSE RATE_BURST

Consume(n, src, fresh) ==
  /\ Credit(n, src, fresh) > 0
  /\ tokens' = [tokens EXCEPT ![n][src] = Credit(n, src, fresh) - 1]

(* Hop MAC *)

Mac(id, hop, node) == <<id, hop, node>>

\* verify_hop_mac, skipped for Hello
MacVerifies(pkt, src) ==
  pkt.type = "Hello" \/ pkt.mac = Mac(pkt.id, pkt.hop, src)

-----------------------------------------------------------------------------
(* handle_incoming at node n for a packet from src: one action per outcome *)

DropRateLimited(n, src, fresh) ==
  /\ Credit(n, src, fresh) = 0
  /\ UpdateTrust(n, src, TRUST_RATE_LIMIT_DELTA)
  /\ UNCHANGED <<packet_cache, tokens>>

DropUntrusted(n, src, fresh) ==
  /\ Consume(n, src, fresh)
  /\ ~ Trusted(n, src)
  /\ UNCHANGED <<packet_cache, trust_scores>>

\* Fault: a duplicate costs its bearer trust.
PunishDuplicate(n, src, pkt, fresh) ==
  /\ Consume(n, src, fresh)
  /\ Trusted(n, src)
  /\ pkt.id \in Cached(packet_cache[n])
  /\ UpdateTrust(n, src, TRUST_INVALID_MAC_DELTA)
  /\ UNCHANGED packet_cache

DropDuplicate(n, src, pkt, fresh) ==
  /\ Consume(n, src, fresh)
  /\ Trusted(n, src)
  /\ pkt.id \in Cached(packet_cache[n])
  /\ UNCHANGED <<packet_cache, trust_scores>>

\* Fault: the id is cached before its tag is verified.
CacheThenVerify(n, src, pkt, fresh) ==
  /\ Consume(n, src, fresh)
  /\ Trusted(n, src)
  /\ pkt.id \notin Cached(packet_cache[n])
  /\ ~ MacVerifies(pkt, src)
  /\ packet_cache' = [packet_cache EXCEPT ![n] = Put(@, pkt.id)]
  /\ UpdateTrust(n, src, TRUST_INVALID_MAC_DELTA)

DropInvalidMac(n, src, pkt, fresh) ==
  /\ Consume(n, src, fresh)
  /\ Trusted(n, src)
  /\ pkt.id \notin Cached(packet_cache[n])
  /\ ~ MacVerifies(pkt, src)
  /\ UpdateTrust(n, src, TRUST_INVALID_MAC_DELTA)
  /\ UNCHANGED packet_cache

Drop(n, src, pkt, fresh) ==
  \/ DropRateLimited(n, src, fresh)
  \/ DropUntrusted(n, src, fresh)
  \/ DropDuplicate(n, src, pkt, fresh)
  \/ DropInvalidMac(n, src, pkt, fresh)

\* Fault: the trust score is not asked.
AcceptUntrusted(n, src, pkt, fresh) ==
  /\ Consume(n, src, fresh)
  /\ pkt.id \notin Cached(packet_cache[n])
  /\ MacVerifies(pkt, src)
  /\ packet_cache' = [packet_cache EXCEPT ![n] = Put(@, pkt.id)]
  /\ UpdateTrust(n, src, TRUST_VALID_DELTA)

\* Fault: the replay cache is not asked.
AcceptDuplicate(n, src, pkt, fresh) ==
  /\ Consume(n, src, fresh)
  /\ Trusted(n, src)
  /\ MacVerifies(pkt, src)
  /\ packet_cache' = [packet_cache EXCEPT ![n] = Put(@, pkt.id)]
  /\ UpdateTrust(n, src, TRUST_VALID_DELTA)

\* DeliverToApp and DeliverAndRelay
Accept(n, src, pkt, fresh) ==
  /\ Consume(n, src, fresh)
  /\ Trusted(n, src)
  /\ pkt.id \notin Cached(packet_cache[n])
  /\ MacVerifies(pkt, src)
  /\ packet_cache' = [packet_cache EXCEPT ![n] = Put(@, pkt.id)]
  /\ UpdateTrust(n, src, TRUST_VALID_DELTA)

\* Faults: the ttl is not spent; the tag is computed before the hop counter
\* moves.
RelayedFree(n, pkt) ==
  [pkt EXCEPT !.hop = @ + 1, !.mac = Mac(pkt.id, pkt.hop + 1, n)]

RelayedTaggedEarly(n, pkt) ==
  [pkt EXCEPT !.ttl = @ - 1, !.hop = @ + 1, !.mac = Mac(pkt.id, pkt.hop, n)]

\* The packet as DeliverAndRelay leaves it, for ttl > 0.
Relayed(n, pkt) ==
  [pkt EXCEPT !.ttl = @ - 1,
              !.hop = @ + 1,
              !.mac = Mac(pkt.id, pkt.hop + 1, n)]

\* register_outgoing and register_broadcast
Register(n, id) ==
  /\ packet_cache' = [packet_cache EXCEPT ![n] = Put(@, id)]
  /\ UNCHANGED <<trust_scores, tokens>>
=============================================================================
