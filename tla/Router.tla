------------------------------- MODULE Router -------------------------------
(***************************************************************************)
(* One router, at node Me, under every sequence of calls its transport can *)
(* make: handle_incoming with well-formed and with corrupted packets from  *)
(* any peer, the duplicate check of a Broadcast, and register_outgoing.    *)
(*                                                                         *)
(* The history variables say what the router saw, independently of what it *)
(* decided: puts is the order in which ids entered the cache, vouched the  *)
(* ids that some peer presented with a tag that verifies (or that came in  *)
(* a Broadcast or from Me), invalid and flooded count per peer the packets *)
(* that failed verification and those over the rate limit.                 *)
(***************************************************************************)
EXTENDS Routing, FiniteSets

CONSTANTS
  Me,          \* the node of this router
  MAX_CALLS    \* bound on the number of calls

ASSUME RouterAssumption == Me \in Node /\ MAX_CALLS \in Nat

VARIABLES calls, puts, vouched, invalid, flooded

vars == <<packet_cache, trust_scores, tokens,
          calls, puts, vouched, invalid, flooded>>

Peer == Node \ {Me}

TypeOK ==
  /\ RouterTypeOK
  /\ calls \in 0..MAX_CALLS
  /\ puts \in Seq(PacketId)
  /\ vouched \in SUBSET PacketId
  /\ invalid \in [Node -> Nat]
  /\ flooded \in [Node -> Nat]

Init ==
  /\ RouterInit
  /\ calls = 0
  /\ puts = <<>>
  /\ vouched = {}
  /\ invalid = [p \in Node |-> 0]
  /\ flooded = [p \in Node |-> 0]

\* What a peer can present: its own tag for the hop, or one that does not
\* verify (corrupted, or computed by another node).
Presented(p) ==
  {pkt \in [id : PacketId, type : {"Hello", "Dm"}, ttl : {0, TTL_MAX},
            hop : {0}, mac : {Mac(i, 0, p) : i \in PacketId} \cup {NoMac}] :
     pkt.mac # NoMac => pkt.mac = Mac(pkt.id, 0, p)}

\* The truth about a packet, whatever the router makes of it.
Genuine(pkt) == pkt.type = "Hello" \/ pkt.mac # NoMac

Called == calls < MAX_CALLS /\ calls' = calls + 1

-----------------------------------------------------------------------------
RateLimited(p, pkt, fresh) ==
  /\ Called
  /\ DropRateLimited(Me, p, fresh)
  /\ flooded' = [flooded EXCEPT ![p] = @ + 1]
  /\ vouched' = IF Genuine(pkt) THEN vouched \cup {pkt.id} ELSE vouched
  /\ UNCHANGED <<puts, invalid>>

Rejected(p, pkt, fresh) ==
  /\ Called
  /\ \/ DropUntrusted(Me, p, fresh)
     \/ DropDuplicate(Me, p, pkt, fresh)
     \/ DropInvalidMac(Me, p, pkt, fresh)
  /\ IF Genuine(pkt)
       THEN vouched' = vouched \cup {pkt.id} /\ UNCHANGED invalid
       ELSE invalid' = [invalid EXCEPT ![p] = @ + 1] /\ UNCHANGED vouched
  /\ UNCHANGED <<puts, flooded>>

Accepted(p, pkt, fresh) ==
  /\ Called
  /\ Accept(Me, p, pkt, fresh)
  /\ puts' = Append(puts, pkt.id)
  /\ IF Genuine(pkt)
       THEN vouched' = vouched \cup {pkt.id} /\ UNCHANGED invalid
       ELSE invalid' = [invalid EXCEPT ![p] = @ + 1] /\ UNCHANGED vouched
  /\ UNCHANGED flooded

\* send_dm, send_file: an id never used before
RegisterOutgoing(id) ==
  /\ Called
  /\ id \notin vouched
  /\ id \notin Cached(puts)
  /\ Register(Me, id)
  /\ puts' = Append(puts, id)
  /\ vouched' = vouched \cup {id}
  /\ UNCHANGED <<invalid, flooded>>

\* is_duplicate and register_broadcast, under one lock of the router
RegisterBroadcast(id) ==
  /\ Called
  /\ id \notin Cached(packet_cache[Me])
  /\ Register(Me, id)
  /\ puts' = Append(puts, id)
  /\ vouched' = vouched \cup {id}
  /\ UNCHANGED <<invalid, flooded>>

Next ==
  \/ \E p \in Peer, fresh \in REFILLS : \E pkt \in Presented(p) :
       \/ RateLimited(p, pkt, fresh)
       \/ Rejected(p, pkt, fresh)
       \/ Accepted(p, pkt, fresh)
  \/ \E id \in PacketId : RegisterOutgoing(id) \/ RegisterBroadcast(id)

Spec == Init /\ [][Next]_vars

-----------------------------------------------------------------------------
(* The replay window: an id enters the cache a second time only after at   *)
(* least CACHE_SIZE other ids have entered it in between (routing.rs, the  *)
(* cache of the last 512 packet ids).                                      *)
ReplayWindow ==
  \A i, j \in DOMAIN puts :
    (i < j /\ puts[i] = puts[j]) =>
      Cardinality({puts[k] : k \in (i + 1)..(j - 1)} \ {puts[i]}) >= CACHE_SIZE

(* A packet that fails verification leaves no trace in the replay cache:   *)
(* an id known only from corrupted copies is not cached, so the genuine    *)
(* packet is still accepted when it comes by another path.                 *)
CorruptedNeverCached == Cached(packet_cache[Me]) \subseteq vouched

(* A peer loses trust only for cause: its score is at least the initial    *)
(* one less the penalties of its own invalid and excess packets.  No order *)
(* of duplicates, relays or other peers' faults costs it anything.         *)
TrustLossHasCause ==
  \A p \in Peer :
    trust_scores[Me][p] >= TRUST_INITIAL
                           + invalid[p] * TRUST_INVALID_MAC_DELTA
                           + flooded[p] * TRUST_RATE_LIMIT_DELTA

(* The threshold is absorbing: once a peer is below it, no later call, not *)
(* even a genuine packet of its own, raises its score again.               *)
BannedStaysDown ==
  \A p \in Peer :
    ~ Trusted(Me, p) => trust_scores'[Me][p] <= trust_scores[Me][p]

BanIsPermanent == [][BannedStaysDown]_vars
=============================================================================
