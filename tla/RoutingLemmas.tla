--------------------------- MODULE RoutingLemmas ---------------------------
(***************************************************************************)
(* What the operators of Routing compute, for every cache size, every set  *)
(* of packet ids and every setting of the trust scale.                     *)
(***************************************************************************)
EXTENDS Routing, FiniteSetTheorems, TLAPS

\* Every slot of the cache holds a different id.
Distinct(c) == \A i, j \in DOMAIN c : c[i] = c[j] => i = j

\* The shape of the cache after put: the newest id first, the entries down to
\* one slot moved back by one, the others where they were.
LEMMA PutShape ==
  ASSUME NEW c \in Seq(PacketId), NEW id \in PacketId, Len(c) <= CACHE_SIZE
  PROVE  \E slot \in Nat, len \in Nat :
           /\ 1 <= slot /\ slot <= len /\ len <= CACHE_SIZE
           /\ Len(c) <= len /\ len <= Len(c) + 1
           /\ id \in Cached(c) => slot \in DOMAIN c /\ c[slot] = id
           /\ id \notin Cached(c) => slot = len
           /\ id \notin Cached(c) /\ Len(c) < CACHE_SIZE => slot = Len(c) + 1
           /\ DOMAIN Put(c, id) = 1..len
           /\ Put(c, id)[1] = id
           /\ \A i \in 2..slot : i - 1 \in DOMAIN c /\ Put(c, id)[i] = c[i - 1]
           /\ \A i \in (slot + 1)..len : i \in DOMAIN c /\ Put(c, id)[i] = c[i]
<1> DEFINE slot == IF id \in Cached(c) THEN CHOOSE i \in DOMAIN c : c[i] = id
                   ELSE IF Len(c) < CACHE_SIZE THEN Len(c) + 1
                   ELSE CACHE_SIZE
<1> DEFINE len == IF slot > Len(c) THEN slot ELSE Len(c)
<1>1. /\ Len(c) \in Nat /\ DOMAIN c = 1..Len(c) /\ Len(c) <= CACHE_SIZE
      /\ CACHE_SIZE \in Nat /\ CACHE_SIZE # 0
  BY RoutingAssumption
<1>2. id \in Cached(c) => slot \in DOMAIN c /\ c[slot] = id
  BY DEF Cached
<1>3. id \notin Cached(c) => slot = IF Len(c) < CACHE_SIZE THEN Len(c) + 1
                                    ELSE CACHE_SIZE
  OBVIOUS
<1>4. Put(c, id) = [i \in 1..len |->
                      IF i = 1 THEN id ELSE IF i <= slot THEN c[i - 1] ELSE c[i]]
  BY DEF Put
<1>5. (slot > Len(c) /\ len = slot) \/ (~ (slot > Len(c)) /\ len = Len(c))
  OBVIOUS
<1> HIDE DEF slot, len
<1>6. slot \in Nat /\ 1 <= slot /\ slot <= Len(c) + 1 /\ slot <= CACHE_SIZE
  <2>1. CASE id \in Cached(c)
    BY <2>1, <1>1, <1>2
  <2>2. CASE id \notin Cached(c)
    BY <2>2, <1>1, <1>3
  <2>3. QED
    BY <2>1, <2>2
<1>7. /\ len \in Nat /\ slot <= len /\ len <= CACHE_SIZE
      /\ Len(c) <= len /\ len <= Len(c) + 1
  BY <1>1, <1>5, <1>6
<1>8. id \notin Cached(c) => slot = len
  <2>1. CASE id \notin Cached(c) /\ Len(c) < CACHE_SIZE
    <3>1. slot = Len(c) + 1
      BY <1>3, <2>1
    <3>2. slot > Len(c)
      BY <1>1, <3>1
    <3>3. QED
      BY <1>5, <3>2
  <2>2. CASE id \notin Cached(c) /\ ~ (Len(c) < CACHE_SIZE)
    <3>1. slot = CACHE_SIZE
      BY <1>3, <2>2
    <3>2. \A m, k \in Nat : m <= k /\ ~ (m < k) => k = m
      OBVIOUS
    <3>3. slot = Len(c)
      BY <1>1, <2>2, <3>1, <3>2, Zenon
    <3>4. ~ (slot > Len(c))
      BY <1>1, <3>3
    <3>5. QED
      BY <1>5, <3>3, <3>4
  <2>3. QED
    BY <2>1, <2>2
<1>9. DOMAIN Put(c, id) = 1..len /\ Put(c, id)[1] = id
  BY <1>4, <1>6, <1>7
<1>10. ASSUME NEW i \in 2..slot
       PROVE  i - 1 \in DOMAIN c /\ Put(c, id)[i] = c[i - 1]
  <2>1. i \in 1..len /\ i # 1 /\ i <= slot /\ i - 1 \in 1..Len(c)
    BY <1>1, <1>6, <1>7
  <2>2. QED
    BY <1>1, <1>4, <2>1
<1>11. ASSUME NEW i \in (slot + 1)..len
       PROVE  i \in DOMAIN c /\ Put(c, id)[i] = c[i]
  <2>1. len = Len(c)
    BY <1>1, <1>5, <1>6
  <2>2. i \in 1..len /\ i # 1 /\ ~ (i <= slot)
    BY <1>6, <1>7
  <2>3. QED
    BY <1>1, <1>4, <2>1, <2>2
<1>12. QED
  BY <1>2, <1>3, <1>6, <1>7, <1>8, <1>9, <1>10, <1>11

\* Ids enter the cache only through put, and the newest is always kept.
LEMMA PutType ==
  ASSUME NEW c \in Seq(PacketId), NEW id \in PacketId, Len(c) <= CACHE_SIZE
  PROVE  /\ Put(c, id) \in Seq(PacketId)
         /\ Len(Put(c, id)) <= CACHE_SIZE
         /\ id \in Cached(Put(c, id))
         /\ Cached(Put(c, id)) \subseteq Cached(c) \cup {id}
<1> DEFINE p == Put(c, id)
<1>1. PICK slot \in Nat, len \in Nat :
        /\ 1 <= slot /\ slot <= len /\ len <= CACHE_SIZE
        /\ DOMAIN p = 1..len
        /\ p[1] = id
        /\ \A i \in 2..slot : i - 1 \in DOMAIN c /\ p[i] = c[i - 1]
        /\ \A i \in (slot + 1)..len : i \in DOMAIN c /\ p[i] = c[i]
  BY PutShape
<1>2. ASSUME NEW i \in 1..len PROVE p[i] \in Cached(c) \cup {id}
  <2>1. i = 1 \/ i \in 2..slot \/ i \in (slot + 1)..len
    BY <1>1
  <2>2. QED
    BY <1>1, <2>1 DEF Cached
<1>3. Cached(c) \subseteq PacketId
  BY DEF Cached
<1>4. p = [i \in 1..len |-> p[i]]
  BY <1>1 DEF Put
<1>5. p \in Seq(PacketId) /\ Len(p) = len
  <2> HIDE DEF p
  <2>1. p \in [1..len -> PacketId]
    BY <1>2, <1>3, <1>4
  <2>2. QED
    BY <2>1
<1>6. QED
  BY <1>1, <1>2, <1>5 DEF Cached

\* put never stores an id twice, and forgets one only when the cache is full.
LEMMA PutKeeps ==
  ASSUME NEW c \in Seq(PacketId), NEW id \in PacketId,
         Len(c) <= CACHE_SIZE, Distinct(c)
  PROVE  /\ Distinct(Put(c, id))
         /\ (id \in Cached(c) \/ Len(c) < CACHE_SIZE) =>
              Cached(Put(c, id)) = Cached(c) \cup {id}
<1> DEFINE p == Put(c, id)
<1>1. PICK slot \in Nat, len \in Nat :
        /\ 1 <= slot /\ slot <= len /\ len <= CACHE_SIZE
        /\ Len(c) <= len /\ len <= Len(c) + 1
        /\ id \in Cached(c) => slot \in DOMAIN c /\ c[slot] = id
        /\ id \notin Cached(c) => slot = len
        /\ id \notin Cached(c) /\ Len(c) < CACHE_SIZE => slot = Len(c) + 1
        /\ DOMAIN p = 1..len
        /\ p[1] = id
        /\ \A i \in 2..slot : i - 1 \in DOMAIN c /\ p[i] = c[i - 1]
        /\ \A i \in (slot + 1)..len : i \in DOMAIN c /\ p[i] = c[i]
  BY PutShape
<1>2. Len(c) \in Nat /\ DOMAIN c = 1..Len(c)
  OBVIOUS
<1> HIDE DEF p
<1>3. ASSUME NEW i \in 1..len
      PROVE  i = 1 \/ i \in 2..slot \/ i \in (slot + 1)..len
  BY <1>1
<1>4. ASSUME NEW j \in 2..len PROVE p[j] # id
  <2>1. CASE id \notin Cached(c)
    <3>1. j \in 2..slot
      BY <1>1, <2>1
    <3>2. QED
      BY <1>1, <2>1, <3>1 DEF Cached
  <2>2. CASE id \in Cached(c)
    <3>1. slot \in DOMAIN c /\ c[slot] = id
      BY <1>1, <2>2
    <3>2. CASE j \in 2..slot
      <4>1. j - 1 \in DOMAIN c /\ p[j] = c[j - 1] /\ j - 1 # slot
        BY <1>1, <3>2
      <4>2. QED
        BY <3>1, <4>1 DEF Distinct
    <3>3. CASE j \in (slot + 1)..len
      <4>1. j \in DOMAIN c /\ p[j] = c[j] /\ j # slot
        BY <1>1, <3>3
      <4>2. QED
        BY <3>1, <4>1 DEF Distinct
    <3>4. QED
      BY <1>1, <3>2, <3>3
  <2>3. QED
    BY <2>1, <2>2
<1>5. ASSUME NEW i \in 2..len, NEW j \in 2..len, p[i] = p[j] PROVE i = j
  <2> DEFINE old(k) == IF k <= slot THEN k - 1 ELSE k
  <2>1. \A k \in 2..len : old(k) \in DOMAIN c /\ p[k] = c[old(k)]
    BY <1>1
  <2>2. old(i) = old(j)
    <3> HIDE DEF old
    <3>1. QED
      BY <1>5, <2>1 DEF Distinct
  <2>3. old(i) # slot \/ old(j) # slot \/ i = j
    BY <1>1, <2>2
  <2>4. i \in Nat /\ j \in Nat
    OBVIOUS
  <2>5. CASE id \in Cached(c)
    <3>1. \A k \in 2..len : old(k) # slot
      <4>1. \A k \in 2..len : p[k] # id /\ p[k] = c[old(k)]
        BY <1>4, <2>1
      <4>2. QED
        BY <1>1, <2>5, <4>1
    <3>2. QED
      BY <1>1, <2>2, <2>4, <3>1
  <2>6. CASE id \notin Cached(c)
    <3>1. i <= slot /\ j <= slot
      BY <1>1, <2>6
    <3>2. QED
      BY <2>2, <2>4, <3>1
  <2>7. QED
    BY <2>5, <2>6
<1>6. Distinct(p)
  <2> SUFFICES ASSUME NEW i \in 1..len, NEW j \in 1..len, p[i] = p[j]
               PROVE  i = j
    BY <1>1 DEF Distinct
  <2>1. (i = 1 \/ i \in 2..len) /\ (j = 1 \/ j \in 2..len)
    OBVIOUS
  <2>2. QED
    BY <1>1, <1>4, <1>5, <2>1
<1>7. ASSUME id \in Cached(c) \/ Len(c) < CACHE_SIZE, NEW k \in DOMAIN c
      PROVE  \E i \in 1..len : p[i] = c[k]
  <2>1. k \in Nat /\ 1 <= k /\ k <= Len(c)
    BY <1>2
  <2>2. CASE k < slot
    <3>1. k + 1 \in 2..slot /\ k + 1 \in 1..len /\ (k + 1) - 1 = k
      BY <1>1, <2>1, <2>2
    <3>2. p[k + 1] = c[k]
      BY <1>1, <3>1
    <3>3. QED
      BY <3>1, <3>2
  <2>3. CASE k = slot
    <3>1. id \in Cached(c)
      BY <1>1, <1>2, <1>7, <2>1, <2>3
    <3>2. QED
      BY <1>1, <2>3, <3>1
  <2>4. CASE k > slot
    <3>1. k \in (slot + 1)..len /\ k \in 1..len
      BY <1>1, <1>2, <2>1, <2>4
    <3>2. QED
      BY <1>1, <3>1
  <2>5. QED
    BY <1>1, <2>1, <2>2, <2>3, <2>4
<1>8. (id \in Cached(c) \/ Len(c) < CACHE_SIZE) => Cached(p) = Cached(c) \cup {id}
  <2>1. Cached(p) \subseteq Cached(c) \cup {id} /\ id \in Cached(p)
    BY PutType DEF p
  <2>2. ASSUME id \in Cached(c) \/ Len(c) < CACHE_SIZE, NEW x \in Cached(c)
        PROVE  x \in Cached(p)
    <3>1. PICK k \in DOMAIN c : x = c[k]
      BY DEF Cached
    <3>2. PICK i \in 1..len : p[i] = c[k]
      BY <1>7, <2>2
    <3>3. QED
      BY <1>1, <3>1, <3>2 DEF Cached
  <2>3. QED
    BY <2>1, <2>2
<1>9. QED
  BY <1>6, <1>8 DEF p

\* An id that is not cached enters in front of all the others, and only the
\* least recent entry of a full cache leaves for it.
LEMMA PutNew ==
  ASSUME NEW c \in Seq(PacketId), NEW id \in PacketId, Len(c) <= CACHE_SIZE,
         id \notin Cached(c)
  PROVE  \E len \in Nat :
           /\ len = IF Len(c) < CACHE_SIZE THEN Len(c) + 1 ELSE CACHE_SIZE
           /\ DOMAIN Put(c, id) = 1..len
           /\ Put(c, id)[1] = id
           /\ \A i \in 2..len : i - 1 \in DOMAIN c /\ Put(c, id)[i] = c[i - 1]
<1> DEFINE p == Put(c, id)
<1>1. PICK slot \in Nat, len \in Nat :
        /\ 1 <= slot /\ slot <= len /\ len <= CACHE_SIZE
        /\ Len(c) <= len /\ len <= Len(c) + 1
        /\ id \notin Cached(c) => slot = len
        /\ id \notin Cached(c) /\ Len(c) < CACHE_SIZE => slot = Len(c) + 1
        /\ DOMAIN p = 1..len
        /\ p[1] = id
        /\ \A i \in 2..slot : i - 1 \in DOMAIN c /\ p[i] = c[i - 1]
  BY PutShape
<1> HIDE DEF p
<1>2. len = IF Len(c) < CACHE_SIZE THEN Len(c) + 1 ELSE CACHE_SIZE
  BY <1>1, RoutingAssumption
<1>3. \E k \in Nat :
        /\ k = IF Len(c) < CACHE_SIZE THEN Len(c) + 1 ELSE CACHE_SIZE
        /\ DOMAIN p = 1..k
        /\ p[1] = id
        /\ \A i \in 2..k : i - 1 \in DOMAIN c /\ p[i] = c[i - 1]
  BY <1>1, <1>2
<1>4. QED
  BY <1>3 DEF p

\* A sequence whose entries differ holds as many as it is long.
LEMMA DistinctCount ==
  ASSUME NEW c \in Seq(PacketId), Distinct(c)
  PROVE  IsFiniteSet(Cached(c)) /\ Cardinality(Cached(c)) = Len(c)
<1>1. Len(c) \in Nat /\ DOMAIN c = 1..Len(c)
  OBVIOUS
<1>2. IsFiniteSet(1..Len(c)) /\ Cardinality(1..Len(c)) = Len(c)
  <2>1. /\ IsFiniteSet(1..Len(c))
        /\ Cardinality(1..Len(c)) = IF 1 > Len(c) THEN 0 ELSE Len(c) - 1 + 1
    <3>1. 1 \in Int /\ Len(c) \in Int
      BY <1>1
    <3>2. QED
      BY <3>1, FS_Interval, Zenon
  <2>2. QED
    BY <1>1, <2>1
<1>3. c \in [1..Len(c) -> Cached(c)]
  BY <1>1 DEF Cached
<1>4. c \in Bijection(1..Len(c), Cached(c))
  BY <1>3, <1>1 DEF Bijection, Injection, Surjection, IsInjective, Cached, Distinct
<1>5. ExistsBijection(1..Len(c), Cached(c))
  BY <1>4 DEF ExistsBijection
<1>6. QED
  BY <1>2, <1>5, FS_Bijection

-----------------------------------------------------------------------------
\* The score stays in its scale, a valid packet never lowers it and a penalty
\* lowers it by no more than the penalty.
LEMMA ClampBounds ==
  ASSUME NEW x \in TRUST_MIN..TRUST_MAX, NEW delta \in Int
  PROVE  /\ Clamp(x + delta) \in TRUST_MIN..TRUST_MAX
         /\ delta >= 0 => Clamp(x + delta) >= x
         /\ delta <= 0 => Clamp(x + delta) <= x
         /\ delta <= 0 => Clamp(x + delta) >= x + delta
BY TrustAssumption DEF Clamp

LEMMA CreditType ==
  ASSUME RouterTypeOK, NEW n \in Node, NEW p \in Node, NEW fresh \in REFILLS
  PROVE  Credit(n, p, fresh) \in 0..RATE_BURST
BY RoutingAssumption DEF RouterTypeOK, Credit

LEMMA ConsumeType ==
  ASSUME RouterTypeOK, NEW n \in Node, NEW p \in Node, NEW fresh \in REFILLS,
         Consume(n, p, fresh)
  PROVE  tokens' \in [Node -> [Node -> 0..RATE_BURST]]
<1>1. Credit(n, p, fresh) - 1 \in 0..RATE_BURST
  BY CreditType, RoutingAssumption DEF Consume
<1>2. QED
  BY <1>1 DEF Consume, RouterTypeOK

LEMMA UpdateTrustType ==
  ASSUME RouterTypeOK, NEW n \in Node, NEW p \in Node, NEW delta \in Int,
         UpdateTrust(n, p, delta)
  PROVE  /\ trust_scores' \in [Node -> [Node -> TRUST_MIN..TRUST_MAX]]
         /\ trust_scores'[n][p] = Clamp(trust_scores[n][p] + delta)
         /\ \A m, q \in Node : m # n \/ q # p =>
              trust_scores'[m][q] = trust_scores[m][q]
<1>1. Clamp(trust_scores[n][p] + delta) \in TRUST_MIN..TRUST_MAX
  BY ClampBounds DEF RouterTypeOK
<1>2. QED
  BY <1>1 DEF RouterTypeOK, UpdateTrust

\* What put does to the caches of all nodes.
LEMMA PutCaches ==
  ASSUME RouterTypeOK, NEW n \in Node, NEW id \in PacketId,
         packet_cache' = [packet_cache EXCEPT ![n] = Put(@, id)]
  PROVE  /\ packet_cache' \in [Node -> Seq(PacketId)]
         /\ \A m \in Node : Len(packet_cache'[m]) <= CACHE_SIZE
         /\ packet_cache'[n] = Put(packet_cache[n], id)
         /\ \A m \in Node : m # n => packet_cache'[m] = packet_cache[m]
<1>1. packet_cache[n] \in Seq(PacketId) /\ Len(packet_cache[n]) <= CACHE_SIZE
  BY DEF RouterTypeOK
<1>2. /\ Put(packet_cache[n], id) \in Seq(PacketId)
      /\ Len(Put(packet_cache[n], id)) <= CACHE_SIZE
  BY <1>1, PutType
<1>3. /\ packet_cache'[n] = Put(packet_cache[n], id)
      /\ \A m \in Node : m # n => packet_cache'[m] = packet_cache[m]
  BY DEF RouterTypeOK
<1>4. packet_cache' \in [Node -> Seq(PacketId)]
  BY <1>2 DEF RouterTypeOK
<1>5. QED
  BY <1>2, <1>3, <1>4 DEF RouterTypeOK

\* Every outcome of handle_incoming keeps the router's state well-formed.
LEMMA DropType ==
  ASSUME RouterTypeOK, NEW n \in Node, NEW p \in Node, NEW pkt \in Packet,
         NEW fresh \in REFILLS, Drop(n, p, pkt, fresh)
  PROVE  RouterTypeOK' /\ packet_cache' = packet_cache
<1>1. CASE DropRateLimited(n, p, fresh)
  BY <1>1, UpdateTrustType, TrustAssumption DEF DropRateLimited, RouterTypeOK
<1>2. CASE DropUntrusted(n, p, fresh)
  BY <1>2, ConsumeType DEF DropUntrusted, RouterTypeOK
<1>3. CASE DropDuplicate(n, p, pkt, fresh)
  BY <1>3, ConsumeType DEF DropDuplicate, RouterTypeOK
<1>4. CASE DropInvalidMac(n, p, pkt, fresh)
  BY <1>4, ConsumeType, UpdateTrustType, TrustAssumption
     DEF DropInvalidMac, RouterTypeOK
<1>5. QED
  BY <1>1, <1>2, <1>3, <1>4 DEF Drop

LEMMA AcceptType ==
  ASSUME RouterTypeOK, NEW n \in Node, NEW p \in Node, NEW pkt \in Packet,
         NEW fresh \in REFILLS, Accept(n, p, pkt, fresh)
  PROVE  RouterTypeOK'
<1>1. pkt.id \in PacketId
  BY DEF Packet
<1>2. QED
  BY <1>1, ConsumeType, UpdateTrustType, PutCaches, TrustAssumption
     DEF Accept, RouterTypeOK

LEMMA RegisterType ==
  ASSUME RouterTypeOK, NEW n \in Node, NEW id \in PacketId, Register(n, id)
  PROVE  RouterTypeOK'
BY PutCaches DEF Register, RouterTypeOK

-----------------------------------------------------------------------------
(* The replay window.  A cache is the list of the latest of the ids put    *)
(* into it: whatever stands before an id in the cache has been put since   *)
(* that id, so CACHE_SIZE others have been by the time it falls off the    *)
(* end.                                                                    *)

\* The ids put after the i-th.
After(s, i) == {s[k] : k \in (i + 1)..Len(s)}

RecentFirst(c, s) ==
  \A p \in DOMAIN c, i \in DOMAIN s :
    s[i] = c[p] => \A q \in 1..(p - 1) : c[q] \in After(s, i)

LongGone(c, s) ==
  \A i \in DOMAIN s :
    s[i] \notin Cached(c) => Cardinality(After(s, i) \ {s[i]}) >= CACHE_SIZE

Window(s) ==
  \A i, j \in DOMAIN s :
    (i < j /\ s[i] = s[j]) =>
      Cardinality({s[k] : k \in (i + 1)..(j - 1)} \ {s[i]}) >= CACHE_SIZE

\* c is a cache into which the ids of s have been put.
CacheOf(c, s) ==
  /\ Distinct(c)
  /\ Cached(c) \subseteq Cached(s)
  /\ RecentFirst(c, s)
  /\ LongGone(c, s)

LEMMA AfterFinite ==
  ASSUME NEW s \in Seq(PacketId), NEW i \in DOMAIN s
  PROVE  IsFiniteSet(After(s, i))
<1> DEFINE I == (i + 1)..Len(s)
<1> DEFINE f == [k \in I |-> s[k]]
<1>1. i + 1 \in Int /\ Len(s) \in Int
  OBVIOUS
<1>2. IsFiniteSet(I)
  BY <1>1, FS_Interval, Zenon
<1>3. f \in Surjection(I, After(s, i))
  BY DEF Surjection, After
<1>4. QED
  BY <1>2, <1>3, FS_Surjection

\* One more id is one more that has been put after every other.
LEMMA AfterAppend ==
  ASSUME NEW s \in Seq(PacketId), NEW id \in PacketId, NEW i \in DOMAIN s
  PROVE  /\ DOMAIN Append(s, id) = DOMAIN s \cup {Len(s) + 1}
         /\ Append(s, id)[i] = s[i]
         /\ Append(s, id)[Len(s) + 1] = id
         /\ After(Append(s, id), i) = After(s, i) \cup {id}
<1> DEFINE t == Append(s, id)
<1>1. /\ t \in Seq(PacketId) /\ Len(t) = Len(s) + 1
      /\ Len(s) \in Nat /\ DOMAIN s = 1..Len(s) /\ DOMAIN t = 1..Len(t)
      /\ \A k \in 1..Len(s) : t[k] = s[k]
      /\ t[Len(s) + 1] = id
  OBVIOUS
<1> HIDE DEF t
<1>2. \A k \in (i + 1)..Len(s) : t[k] = s[k] /\ k \in (i + 1)..Len(t)
  BY <1>1
<1>3. Len(t) \in (i + 1)..Len(t) /\ t[Len(t)] = id
  BY <1>1
<1>4. \A k \in (i + 1)..Len(t) : k \in (i + 1)..Len(s) \/ k = Len(t)
  BY <1>1
<1>5. After(t, i) = After(s, i) \cup {id}
  BY <1>2, <1>3, <1>4 DEF After
<1>6. DOMAIN t = DOMAIN s \cup {Len(s) + 1}
  BY <1>1
<1>7. QED
  BY <1>1, <1>5, <1>6 DEF t

LEMMA CacheOfKeeps ==
  ASSUME NEW c \in Seq(PacketId), NEW s \in Seq(PacketId), NEW id \in PacketId,
         Len(c) <= CACHE_SIZE, id \notin Cached(c), CacheOf(c, s)
  PROVE  CacheOf(Put(c, id), Append(s, id))
<1> DEFINE d == Put(c, id)
<1> DEFINE t == Append(s, id)
<1>1. PICK len \in Nat :
        /\ len = IF Len(c) < CACHE_SIZE THEN Len(c) + 1 ELSE CACHE_SIZE
        /\ DOMAIN d = 1..len
        /\ d[1] = id
        /\ \A i \in 2..len : i - 1 \in DOMAIN c /\ d[i] = c[i - 1]
  BY PutNew
<1>2. /\ d \in Seq(PacketId) /\ id \in Cached(d)
      /\ Cached(d) \subseteq Cached(c) \cup {id}
  BY PutType
<1>3. Distinct(d)
  BY PutKeeps DEF CacheOf
<1>4. /\ DOMAIN t = DOMAIN s \cup {Len(s) + 1}
      /\ t[Len(s) + 1] = id
      /\ t \in Seq(PacketId)
  OBVIOUS
<1>5. \A i \in DOMAIN s : t[i] = s[i] /\ After(t, i) = After(s, i) \cup {id}
  BY AfterAppend
<1>6. /\ DOMAIN c = 1..Len(c) /\ Len(c) \in Nat /\ CACHE_SIZE \in Nat
      /\ Len(d) = len
  <2>1. Len(d) \in Nat /\ DOMAIN d = 1..Len(d)
    BY <1>2
  <2> QED
    BY <1>1, <2>1, RoutingAssumption
<1> HIDE DEF d, t
<1>7. Cached(d) \subseteq Cached(t)
  <2>1. Cached(s) \subseteq Cached(t) /\ id \in Cached(t)
    BY <1>4, <1>5 DEF Cached
  <2> QED
    BY <1>2, <2>1 DEF CacheOf
<1>8. RecentFirst(d, t)
  <2> SUFFICES ASSUME NEW p \in DOMAIN d, NEW i \in DOMAIN t, t[i] = d[p],
                      NEW q \in 1..(p - 1)
               PROVE  d[q] \in After(t, i)
    BY DEF RecentFirst
  <2>1. /\ p \in 2..len /\ p - 1 \in DOMAIN c /\ d[p] = c[p - 1]
        /\ q = 1 \/ (q \in 2..len /\ q - 1 \in 1..((p - 1) - 1))
    BY <1>1
  <2>2. i \in DOMAIN s /\ s[i] = c[p - 1]
    <3>1. t[i] \in Cached(c)
      BY <2>1 DEF Cached
    <3> QED
      BY <1>4, <1>5, <2>1, <3>1
  <2>3. CASE q = 1
    BY <1>1, <1>5, <2>2, <2>3
  <2>4. CASE q \in 2..len /\ q - 1 \in 1..((p - 1) - 1)
    <3>1. c[q - 1] \in After(s, i)
      BY <2>1, <2>2, <2>4 DEF CacheOf, RecentFirst
    <3> QED
      BY <1>1, <1>5, <2>2, <2>4, <3>1
  <2> QED
    BY <2>1, <2>3, <2>4
<1>9. LongGone(d, t)
  <2> SUFFICES ASSUME NEW i \in DOMAIN t, t[i] \notin Cached(d)
               PROVE  Cardinality(After(t, i) \ {t[i]}) >= CACHE_SIZE
    BY DEF LongGone
  <2>1. i \in DOMAIN s /\ t[i] = s[i] /\ s[i] # id
    BY <1>2, <1>4, <1>5
  <2>2. /\ After(t, i) = After(s, i) \cup {id}
        /\ IsFiniteSet(After(t, i) \ {t[i]})
    <3>1. t[i] = s[i] /\ IsFiniteSet(After(s, i))
      BY <2>1, AfterFinite
    <3>2. IsFiniteSet(After(s, i) \cup {id})
      BY <3>1, FS_AddElement
    <3>3. After(t, i) = After(s, i) \cup {id}
      BY <1>5, <2>1
    <3> QED
      BY <3>2, <3>3, FS_RemoveElement
  <2>3. Cardinality(After(t, i) \ {t[i]}) \in Nat
    BY <2>2, FS_CardinalityType
  <2>4. CASE s[i] \notin Cached(c)
    <3>1. Cardinality(After(s, i) \ {s[i]}) >= CACHE_SIZE
      BY <2>1, <2>4 DEF CacheOf, LongGone
    <3>2. After(s, i) \ {s[i]} \in SUBSET (After(t, i) \ {t[i]})
      BY <2>1, <2>2
    <3>3. /\ Cardinality(After(s, i) \ {s[i]}) <= Cardinality(After(t, i) \ {t[i]})
          /\ IsFiniteSet(After(s, i) \ {s[i]})
      BY <2>2, <3>2, FS_Subset
    <3>4. Cardinality(After(s, i) \ {s[i]}) \in Nat
      BY <3>3, FS_CardinalityType
    <3> QED
      BY <1>6, <2>3, <3>1, <3>3, <3>4
  <2>5. CASE s[i] \in Cached(c)
    <3>1. PICK p \in DOMAIN c : c[p] = s[i]
      BY <2>5 DEF Cached
    <3>2. p + 1 \notin 2..len
      <4> SUFFICES ASSUME p + 1 \in 2..len PROVE FALSE
        OBVIOUS
      <4>1. d[p + 1] = c[p] /\ p + 1 \in DOMAIN d
        BY <1>1, <1>6, <3>1
      <4> QED
        BY <2>1, <3>1, <4>1 DEF Cached
    <3>3. len = CACHE_SIZE /\ p = CACHE_SIZE
      BY <1>1, <1>6, <3>1, <3>2
    <3>4. \A q \in 1..(p - 1) : c[q] \in After(s, i)
      BY <2>1, <3>1 DEF CacheOf, RecentFirst
    <3>5. ASSUME NEW q \in DOMAIN d
          PROVE  d[q] \in After(t, i)
      <4>1. q = 1 \/ (q \in 2..len /\ q - 1 \in 1..(p - 1))
        BY <1>1, <3>3
      <4>2. CASE q = 1
        BY <1>1, <2>2, <4>2
      <4>3. CASE q \in 2..len /\ q - 1 \in 1..(p - 1)
        BY <1>1, <2>2, <3>4, <4>3
      <4> QED
        BY <4>1, <4>2, <4>3
    <3>6. Cached(d) \in SUBSET (After(t, i) \ {t[i]})
      BY <3>5 DEF Cached
    <3>7. Cardinality(Cached(d)) = CACHE_SIZE
      BY <1>2, <1>3, <1>6, <3>3, DistinctCount
    <3>8. Cardinality(Cached(d)) <= Cardinality(After(t, i) \ {t[i]})
      BY <2>2, <3>6, FS_Subset
    <3> QED
      BY <1>6, <2>3, <3>7, <3>8
  <2> QED
    BY <2>4, <2>5
<1>10. CacheOf(d, t)
  BY <1>3, <1>7, <1>8, <1>9 DEF CacheOf
<1> QED
  BY <1>10 DEF d, t

LEMMA WindowKeeps ==
  ASSUME NEW c \in Seq(PacketId), NEW s \in Seq(PacketId), NEW id \in PacketId,
         id \notin Cached(c), LongGone(c, s), Window(s)
  PROVE  Window(Append(s, id))
<1> DEFINE t == Append(s, id)
<1>1. /\ DOMAIN s = 1..Len(s) /\ Len(s) \in Nat
      /\ DOMAIN t = 1..(Len(s) + 1)
      /\ \A k \in DOMAIN s : t[k] = s[k]
      /\ t[Len(s) + 1] = id
  OBVIOUS
<1> HIDE DEF t
<1>2. Window(t)
  <2> SUFFICES ASSUME NEW i \in DOMAIN t, NEW j \in DOMAIN t, i < j, t[i] = t[j]
               PROVE  Cardinality({t[k] : k \in (i + 1)..(j - 1)} \ {t[i]}) >= CACHE_SIZE
    BY DEF Window
  <2>1. i \in DOMAIN s /\ t[i] = s[i]
    BY <1>1
  <2>2. {t[k] : k \in (i + 1)..(j - 1)} = {s[k] : k \in (i + 1)..(j - 1)}
    <3>1. \A k \in (i + 1)..(j - 1) : t[k] = s[k]
      BY <1>1, <2>1
    <3> QED
      BY <3>1
  <2>3. CASE j \in DOMAIN s
    BY <1>1, <2>1, <2>2, <2>3 DEF Window
  <2>4. CASE j = Len(s) + 1
    <3>1. s[i] = id
      BY <1>1, <2>1, <2>4
    <3>2. j - 1 = Len(s)
      BY <1>1, <2>4
    <3>3. Cardinality(After(s, i) \ {s[i]}) >= CACHE_SIZE
      BY <2>1, <3>1 DEF LongGone
    <3> QED
      BY <2>1, <2>2, <3>2, <3>3 DEF After
  <2> QED
    BY <1>1, <2>3, <2>4
<1> QED
  BY <1>2 DEF t

\* Nothing is in an empty cache, and nothing has been put into it.
LEMMA EmptyCache == CacheOf(<<>>, <<>>) /\ Window(<<>>)
BY DEF CacheOf, Distinct, Cached, RecentFirst, LongGone, Window

\* Putting an id that is not cached keeps the cache that of its history, and
\* the window.
LEMMA PutAfter ==
  ASSUME NEW c \in Seq(PacketId), NEW s \in Seq(PacketId), NEW id \in PacketId,
         Len(c) <= CACHE_SIZE, id \notin Cached(c), CacheOf(c, s), Window(s)
  PROVE  CacheOf(Put(c, id), Append(s, id)) /\ Window(Append(s, id))
<1>1. LongGone(c, s)
  BY DEF CacheOf
<1>. QED BY <1>1, CacheOfKeeps, WindowKeeps
=============================================================================
