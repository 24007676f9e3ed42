----------------------------- MODULE RateLimiter -----------------------------
(***************************************************************************)
(* The token bucket that limits the packets of one connection              *)
(* (pkg/server/limiter.go).                                                *)
(*                                                                         *)
(* Tokens and time have one unit here: the bucket holds the time it took   *)
(* to fill, so that a refill adds the elapsed time and one token costs     *)
(* Cost, that is 1/rate.  The code counts in float64; its rounding is not  *)
(* modelled.  time.Now never goes back: Go compares monotonic clocks.      *)
(*                                                                         *)
(* The bucket itself is now, lastUpdate and tokens.  The other variables   *)
(* are history: what an observer counts from a moment of his choice, and   *)
(* since the bucket was last full.                                         *)
(*                                                                         *)
(* A connection owns its limiter: names that Connection has too begin      *)
(* with Limiter, so that one module can speak of both.                     *)
(***************************************************************************)
EXTENDS Integers

CONSTANTS
  Cost,      \* the time that refills one token, 1/rate
  Capacity   \* the time that fills an empty bucket, capacity/rate

ASSUME LimiterAssumption == Cost \in Nat \ {0} /\ Capacity \in Nat

VARIABLES
  now,         \* time.Now()
  lastUpdate,  \* rl.lastUpdate
  tokens,      \* rl.tokens
  mark,        \* when the observer began to count
  counted,     \* the calls allowed since mark
  fullAt,      \* when the bucket was last full
  sinceFull    \* the calls allowed since fullAt

limiterVars == <<now, lastUpdate, tokens, mark, counted, fullAt, sinceFull>>

(* Times and counters are naturals and the bucket never overflows or goes into debt. *)
LimiterTypeOK ==
  /\ now \in Nat
  /\ lastUpdate \in 0..now
  /\ tokens \in 0..Capacity
  /\ mark \in 0..now
  /\ counted \in Nat
  /\ fullAt \in 0..now
  /\ sinceFull \in Nat

\* A full bucket.
NewRateLimiter ==
  /\ now = 0
  /\ lastUpdate = 0
  /\ tokens = Capacity
  /\ mark = 0
  /\ counted = 0
  /\ fullAt = 0
  /\ sinceFull = 0

-----------------------------------------------------------------------------
Tick ==
  /\ now' = now + 1
  /\ UNCHANGED <<lastUpdate, tokens, mark, counted, fullAt, sinceFull>>

\* Mutant: the refill is not capped.
RefilledUncapped == tokens + (now - lastUpdate)

\* The bucket at a call, refilled since the last call and capped.
Refilled ==
  LET more == tokens + (now - lastUpdate)
  IN  IF more > Capacity THEN Capacity ELSE more

\* The observer of the bucket's last full moment looks at each call.
SeeFull(spent) ==
  /\ fullAt' = IF Refilled = Capacity THEN now ELSE fullAt
  /\ sinceFull' = (IF Refilled = Capacity THEN 0 ELSE sinceFull) + spent

\* Mutant: any positive balance is enough.
AllowOnCredit ==
  /\ Refilled > 0
  /\ lastUpdate' = now
  /\ tokens' = Refilled - Cost
  /\ counted' = counted + 1
  /\ SeeFull(1)
  /\ UNCHANGED <<now, mark>>

\* Allow returning true.
Allow ==
  /\ Refilled >= Cost
  /\ lastUpdate' = now
  /\ tokens' = Refilled - Cost
  /\ counted' = counted + 1
  /\ SeeFull(1)
  /\ UNCHANGED <<now, mark>>

\* Mutant: a refused call forgets the refill it found.
RefuseForgetting ==
  /\ Refilled < Cost
  /\ lastUpdate' = now
  /\ tokens' = tokens
  /\ SeeFull(0)
  /\ UNCHANGED <<now, mark, counted>>

\* Allow returning false: the refill is kept, nothing is spent.
Refuse ==
  /\ Refilled < Cost
  /\ lastUpdate' = now
  /\ tokens' = Refilled
  /\ SeeFull(0)
  /\ UNCHANGED <<now, mark, counted>>

\* The observer starts counting.
Mark ==
  /\ mark' = now
  /\ counted' = 0
  /\ UNCHANGED <<now, lastUpdate, tokens, fullAt, sinceFull>>

LimiterNext == Tick \/ Allow \/ Refuse \/ Mark

LimiterSpec == NewRateLimiter /\ [][LimiterNext]_limiterVars

-----------------------------------------------------------------------------
(* The invariants behind the properties. *)

\* What was allowed since mark and what the bucket would hold now.
Budget == counted * Cost + Refilled <= Capacity + (now - mark)

\* The bucket is what was full, less what was spent, plus what was refilled.
Ledger == tokens = Capacity + (lastUpdate - fullAt) - sinceFull * Cost

LimiterInv ==
  /\ LimiterTypeOK
  /\ fullAt <= lastUpdate
  /\ Budget
  /\ Ledger

-----------------------------------------------------------------------------
(* Properties. *)

\* However calls are timed, whatever moment an observer starts counting at: the
\* calls allowed since then never exceed one burst and the refill of the time that
\* passed ("4 messages/sec, burst 10").
BurstBound == counted * Cost <= Capacity + (now - mark)

\* A call is refused only when the calls allowed since the bucket was last full
\* have used up the burst and all that was refilled since: no refill is lost, not
\* even by a caller that keeps hammering while it is refused.
RefusalJustified ==
  [][Refuse => (sinceFull' + 1) * Cost > Capacity + (now - fullAt')]_limiterVars
=============================================================================
