---------------------------- MODULE TokenBucket ----------------------------
(***************************************************************************)
(* The per-peer rate limiter of src-tauri/src/routing.rs (TokenBucket::new *)
(* and TokenBucket::consume), with the clock it reads.                     *)
(*                                                                         *)
(* RATE_PER_SEC tokens a second is one token every TICKS_PER_TOKEN ticks   *)
(* of the clock: the code's 100 tokens a second is one every 10 ms.  The   *)
(* refill is lazy, it happens inside consume, and it rounds the elapsed    *)
(* time down to whole tokens; last_refill moves only when at least one     *)
(* token is credited.  The f32 arithmetic of the code is taken as exact.   *)
(*                                                                         *)
(* window and lastAdmit are history variables: window counts the packets   *)
(* admitted since an arbitrary moment, lastAdmit is the time of the latest *)
(* admitted packet (the creation of the bucket before there is one).       *)
(***************************************************************************)
EXTENDS Integers

CONSTANTS
  RATE_BURST,       \* capacity of the bucket (200)
  TICKS_PER_TOKEN,  \* clock ticks after which one token is credited
  MAX_TIME          \* bound of the clock

ASSUME BucketAssumption ==
  /\ RATE_BURST \in Nat \ {0}
  /\ TICKS_PER_TOKEN \in Nat \ {0}
  /\ MAX_TIME \in Nat

VARIABLES
  now,          \* Instant::now()
  tokens,       \* TokenBucket.tokens
  last_refill,  \* TokenBucket.last_refill
  window,       \* [start, admitted]: packets admitted since start
  lastAdmit     \* time of the latest admitted packet

vars == <<now, tokens, last_refill, window, lastAdmit>>

TypeOK ==
  /\ now \in 0..MAX_TIME
  /\ tokens \in 0..RATE_BURST
  /\ last_refill \in 0..now
  /\ window \in [start : 0..now, admitted : Nat]
  /\ lastAdmit \in 0..now

Init ==
  /\ now = 0
  /\ tokens = RATE_BURST
  /\ last_refill = 0
  /\ window = [start |-> 0, admitted |-> 0]
  /\ lastAdmit = 0

-----------------------------------------------------------------------------
NewTokens == (now - last_refill) \div TICKS_PER_TOKEN

\* Fault: the sum is not cut at the capacity.
CreditedUncapped == tokens + NewTokens

\* saturating_add followed by min(RATE_BURST)
Credited == IF tokens + NewTokens < RATE_BURST
              THEN tokens + NewTokens
              ELSE RATE_BURST

Available == IF NewTokens > 0 THEN Credited ELSE tokens

\* Fault: the refill time is never advanced.
RefillNeverMoved == UNCHANGED last_refill

\* Fault: the refill time advances at every call, credited or not.
RefillAlwaysMoved == last_refill' = now

Refill == last_refill' = IF NewTokens > 0 THEN now ELSE last_refill

\* consume() returns true
Admit ==
  /\ Available > 0
  /\ Refill
  /\ tokens' = Available - 1
  /\ window' = [window EXCEPT !.admitted = @ + 1]
  /\ lastAdmit' = now
  /\ UNCHANGED now

\* consume() returns false: nothing was credited and no token is left
Refuse ==
  /\ Available = 0
  /\ Refill
  /\ tokens' = Available
  /\ UNCHANGED <<now, window, lastAdmit>>

Tick ==
  /\ now < MAX_TIME
  /\ now' = now + 1
  /\ UNCHANGED <<tokens, last_refill, window, lastAdmit>>

\* The observer starts counting afresh.
OpenWindow ==
  /\ window' = [start |-> now, admitted |-> 0]
  /\ UNCHANGED <<now, tokens, last_refill, lastAdmit>>

Next == Admit \/ Refuse \/ Tick \/ OpenWindow

Spec == Init /\ [][Next]_vars

-----------------------------------------------------------------------------
(* In every window of time, wherever it starts, the limiter admits at most *)
(* a full burst, the tokens earned inside the window, and one more: the    *)
(* fraction of a token that was pending when the window opened.  Credit    *)
(* earned while the peer was silent is never added on top of the burst.    *)
RollingRateBound ==
  TICKS_PER_TOKEN * window.admitted
    < TICKS_PER_TOKEN * (RATE_BURST + 1) + (now - window.start)

(* A peer that polls a dry bucket is not starved: whenever consume would   *)
(* refuse, less than one token time has passed since a packet of this peer *)
(* was last admitted, however often it was refused in between.             *)
RefusalIsBrief ==
  Available = 0 => now - lastAdmit < TICKS_PER_TOKEN
-----------------------------------------------------------------------------
(* Strengthening of the two invariants above, inductive: either no token   *)
(* was credited since the window opened, and what was admitted came out of *)
(* the burst, or the credit is paid for by the time up to last_refill.     *)
IInv ==
  /\ TypeOK
  /\ last_refill <= lastAdmit
  /\ last_refill <= window.start =>
       /\ window.admitted + tokens <= RATE_BURST
       /\ window.admitted > 0 => window.start - last_refill < TICKS_PER_TOKEN
  /\ last_refill > window.start =>
       TICKS_PER_TOKEN * (window.admitted + tokens)
         < TICKS_PER_TOKEN * (RATE_BURST + 1) + (last_refill - window.start)
=============================================================================
