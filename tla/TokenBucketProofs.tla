------------------------- MODULE TokenBucketProofs -------------------------
(***************************************************************************)
(* Proofs about TokenBucket, for every capacity, rate and clock bound.     *)
(***************************************************************************)
EXTENDS TokenBucket, TLAPS

\* Rounding down: what integer division credits never exceeds the elapsed
\* time, and loses less than one token (the cast to u32 in consume).
LEMMA RoundsDown ==
  ASSUME NEW e \in Nat, NEW t \in Nat \ {0}
  PROVE  /\ e \div t \in Nat
         /\ t * (e \div t) <= e
         /\ e \div t = 0 => e < t
  BY Z3

\* The credit of one call, by itself and against the capacity.
LEMMA CreditBounds ==
  ASSUME TypeOK
  PROVE  /\ NewTokens \in Nat
         /\ TICKS_PER_TOKEN * NewTokens <= now - last_refill
         /\ NewTokens = 0 => now - last_refill < TICKS_PER_TOKEN
         /\ Available \in 0..RATE_BURST
         /\ Available <= tokens + NewTokens
         /\ NewTokens > 0 => Available > 0
<1>1. now - last_refill \in Nat
  BY DEF TypeOK
<1>2. TICKS_PER_TOKEN \in Nat \ {0} /\ RATE_BURST \in Nat \ {0}
  BY BucketAssumption
<1>3. /\ NewTokens \in Nat
      /\ TICKS_PER_TOKEN * NewTokens <= now - last_refill
      /\ NewTokens = 0 => now - last_refill < TICKS_PER_TOKEN
  BY <1>1, <1>2, RoundsDown DEF NewTokens
<1>4. QED
  BY <1>2, <1>3 DEF TypeOK, Available, Credited

\* What the admission of one packet does to the bound of IInv when tokens
\* are credited: the two products are split so that only sums remain.
LEMMA CreditIsPaid ==
  ASSUME NEW T \in Nat \ {0}, NEW a \in Nat, NEW k \in Nat, NEW c \in Nat,
         NEW v \in Nat, v <= k + c
  PROVE  /\ T * (a + v) <= T * (a + k) + T * c
         /\ a + k <= RATE_BURST => T * (a + k) <= T * RATE_BURST
         /\ T * (RATE_BURST + 1) = T * RATE_BURST + T
<1> USE BucketAssumption
<1>1. T * (a + v) <= T * (a + k + c)
  BY Z3
<1>2. T * (a + k + c) = T * (a + k) + T * c
  BY Z3
<1>3. a + k <= RATE_BURST => T * (a + k) <= T * RATE_BURST
  BY Z3
<1>4. T * (RATE_BURST + 1) = T * RATE_BURST + T
  BY Z3
<1>5. QED
  BY <1>1, <1>2, <1>3, <1>4, Z3

LEMMA AdmitPreserves ==
  ASSUME IInv, Admit
  PROVE  IInv'
<1> DEFINE T == TICKS_PER_TOKEN
<1> DEFINE a == window.admitted
<1>1. TypeOK
  BY DEF IInv
<1>2. T \in Nat \ {0} /\ RATE_BURST \in Nat \ {0}
  BY BucketAssumption
<1>3. /\ now \in Nat /\ last_refill \in Nat /\ tokens \in Nat
      /\ last_refill <= now /\ a \in Nat /\ window.start \in Nat
      /\ window.start <= now
  BY <1>1 DEF TypeOK
<1>4. /\ now' = now
      /\ tokens' = Available - 1
      /\ window'.start = window.start /\ window'.admitted = a + 1
      /\ lastAdmit' = now
      /\ last_refill' = IF NewTokens > 0 THEN now ELSE last_refill
  BY <1>1 DEF Admit, Refill, TypeOK
<1>5. TypeOK'
  BY <1>1, <1>2, <1>4, CreditBounds DEF TypeOK, Admit, Refill
<1>6. last_refill' <= lastAdmit'
  BY <1>3, <1>4
<1>7. window'.admitted + tokens' = a + Available
  BY <1>1, <1>3, <1>4, CreditBounds
<1>8. CASE NewTokens = 0
  <2>1. Available = tokens /\ last_refill' = last_refill
    BY <1>8, <1>4 DEF Available
  <2>2. now - last_refill < T
    BY <1>1, <1>8, CreditBounds
  <2>3. window'.admitted + tokens' = a + tokens
    BY <1>7, <2>1
  <2>4. window'.start - last_refill' < T
    BY <2>1, <2>2, <1>2, <1>3, <1>4
  <2>5. QED
    BY <1>4, <1>5, <1>6, <2>1, <2>3, <2>4 DEF IInv
<1>9. CASE NewTokens > 0
  <2>1. last_refill' = now
    BY <1>9, <1>4
  <2>2. /\ NewTokens \in Nat /\ Available \in 0..RATE_BURST
        /\ Available <= tokens + NewTokens
        /\ T * NewTokens <= now - last_refill
    BY <1>1, CreditBounds
  <2> DEFINE c == NewTokens
  <2> DEFINE v == Available
  <2>3. /\ T * (a + v) <= T * (a + tokens) + T * c
        /\ a + tokens <= RATE_BURST => T * (a + tokens) <= T * RATE_BURST
        /\ T * (RATE_BURST + 1) = T * RATE_BURST + T
    BY <1>2, <1>3, <2>2, CreditIsPaid
  <2>4. T * (a + v) \in Int /\ T * (a + tokens) \in Int /\ T * c \in Int
        /\ T * RATE_BURST \in Int /\ T * v \in Int
    BY <1>2, <1>3, <2>2
  <2>5. a > 0 \/ a = 0
    BY <1>3
  <2>6. ASSUME a = 0 PROVE T * (a + v) <= T * RATE_BURST
    <3>1. a + v = v
      BY <2>6, <2>2
    <3>2. T * v <= T * RATE_BURST
      <4> HIDE DEF v
      <4>1. v \in Nat /\ v <= RATE_BURST
        BY <2>2, <1>2 DEF v
      <4>2. QED
        BY <4>1, <1>2, Z3
    <3>3. QED
      BY <3>1, <3>2
  <2>7. T * (window'.admitted + tokens') = T * (a + v)
    BY <1>7
  <2>8. ASSUME now > window.start
        PROVE  T * (a + v) < T * (RATE_BURST + 1) + (now - window.start)
    <3>1. CASE a = 0
      BY <2>3, <2>4, <2>6, <2>8, <3>1, <1>2, <1>3
    <3>2. CASE a > 0 /\ last_refill <= window.start
      <4>1. /\ a + tokens <= RATE_BURST
            /\ window.start - last_refill < T
        BY <3>2 DEF IInv
      <4>2. T * (a + tokens) <= T * RATE_BURST
        BY <4>1, <2>3
      <4>3. QED
        BY <4>1, <4>2, <2>2, <2>3, <2>4, <1>2, <1>3
    <3>3. CASE last_refill > window.start
      <4>1. T * (a + tokens) < T * (RATE_BURST + 1) + (last_refill - window.start)
        BY <3>3 DEF IInv
      <4>2. QED
        BY <4>1, <2>2, <2>3, <2>4, <1>2, <1>3
    <3>4. QED
      BY <3>1, <3>2, <3>3, <2>5, <1>3
  <2>9. ASSUME now <= window.start
        PROVE  a + v <= RATE_BURST
    <3>1. now = window.start /\ last_refill <= window.start
      BY <2>9, <1>3
    <3>2. now - last_refill >= T
      <4>1. T * c >= T
        <5> HIDE DEF c, T
        <5>1. c \in Nat /\ c > 0 /\ T \in Nat
          BY <1>9, <2>2, <1>2 DEF c
        <5>2. QED
          BY <5>1, Z3
      <4>2. QED
        BY <4>1, <2>2, <2>4, <1>3, <1>2
    <3>3. a = 0
      BY <3>1, <3>2, <1>3, <1>2 DEF IInv
    <3>4. QED
      BY <3>3, <2>2, <1>2
  <2>10. last_refill' > window'.start =>
           T * (window'.admitted + tokens')
             < T * (RATE_BURST + 1) + (last_refill' - window'.start)
    BY <1>4, <2>1, <2>7, <2>8
  <2>11. last_refill' <= window'.start =>
           /\ window'.admitted + tokens' <= RATE_BURST
           /\ window'.start - last_refill' < T
    <3>1. window.start <= now => now - now < T /\ window.start - now < T
      BY <1>2, <1>3
    <3>2. QED
      BY <1>3, <1>4, <1>7, <2>1, <2>9, <3>1
  <2>12. QED
    BY <1>5, <1>6, <2>10, <2>11 DEF IInv
<1>10. QED
  BY <1>1, <1>8, <1>9, CreditBounds

LEMMA RefusePreserves ==
  ASSUME IInv, Refuse
  PROVE  IInv'
<1>1. TypeOK
  BY DEF IInv
<1>2. NewTokens = 0 /\ tokens = 0
  BY <1>1, CreditBounds DEF Refuse, Available, TypeOK
<1>3. UNCHANGED vars
  BY <1>1, <1>2 DEF Refuse, Refill, Available, vars
<1>4. QED
  BY <1>3 DEF IInv, TypeOK, vars

LEMMA TickPreserves ==
  ASSUME IInv, Tick
  PROVE  IInv'
BY BucketAssumption DEF IInv, TypeOK, Tick

LEMMA OpenWindowPreserves ==
  ASSUME IInv, OpenWindow
  PROVE  IInv'
<1>1. TypeOK /\ TypeOK' /\ last_refill' = last_refill /\ lastAdmit' = lastAdmit
      /\ tokens' = tokens /\ window' = [start |-> now, admitted |-> 0]
  BY DEF IInv, TypeOK, OpenWindow
<1>2. window'.start = now /\ window'.admitted = 0
  BY <1>1
<1>3. last_refill <= now /\ tokens <= RATE_BURST /\ tokens \in Nat
  BY <1>1, BucketAssumption DEF TypeOK
<1>4. QED
  BY <1>1, <1>2, <1>3, BucketAssumption DEF IInv, TypeOK

\* The strengthened invariant of the token bucket is invariant.
THEOREM BucketInvariant == Spec => []IInv
<1>1. Init => IInv
  BY BucketAssumption DEF Init, IInv, TypeOK
<1>2. IInv /\ [Next]_vars => IInv'
  <2>1. ASSUME IInv, UNCHANGED vars PROVE IInv'
    BY <2>1 DEF IInv, TypeOK, vars
  <2>2. QED
    BY <2>1, AdmitPreserves, RefusePreserves, TickPreserves,
       OpenWindowPreserves DEF Next
<1>3. QED
  BY <1>1, <1>2, PTL DEF Spec

\* TokenBucket::consume keeps every variable in its range.
THEOREM BucketTypeCorrect == Spec => []TypeOK
<1>1. IInv => TypeOK
  BY DEF IInv
<1>2. QED
  BY <1>1, BucketInvariant, PTL

\* No window of time sees more than the burst, the tokens earned in it and
\* one: for every burst, rate, window and interleaving of the calls.
THEOREM BucketRollingRate == Spec => []RollingRateBound
<1>1. IInv => RollingRateBound
  <2> SUFFICES ASSUME IInv PROVE RollingRateBound
    OBVIOUS
  <2> DEFINE T == TICKS_PER_TOKEN
  <2> DEFINE a == window.admitted
  <2>1. /\ T \in Nat \ {0} /\ RATE_BURST \in Nat /\ a \in Nat /\ tokens \in Nat
        /\ now \in Nat /\ window.start \in Nat /\ window.start <= now
        /\ last_refill \in Nat /\ last_refill <= now
    BY BucketAssumption DEF IInv, TypeOK
  <2>2. /\ T * a \in Int /\ T * (a + tokens) \in Int
        /\ T * RATE_BURST \in Int
        /\ T * (RATE_BURST + 1) = T * RATE_BURST + T
        /\ T * a <= T * (a + tokens)
        /\ a + tokens <= RATE_BURST => T * (a + tokens) <= T * RATE_BURST
    <3> HIDE DEF a, T
    <3>1. QED
      BY <2>1, Z3
  <2>3. CASE last_refill <= window.start
    BY <2>1, <2>2, <2>3 DEF IInv, RollingRateBound
  <2>4. CASE last_refill > window.start
    BY <2>1, <2>2, <2>4 DEF IInv, RollingRateBound
  <2>5. QED
    BY <2>1, <2>3, <2>4
<1>2. QED
  BY <1>1, BucketInvariant, PTL

\* A refusal never comes later than one token time after an admission.
THEOREM BucketRefusalIsBrief == Spec => []RefusalIsBrief
<1>1. IInv => RefusalIsBrief
  BY CreditBounds, BucketAssumption DEF IInv, TypeOK, RefusalIsBrief
<1>2. QED
  BY <1>1, BucketInvariant, PTL
=============================================================================
