---------------------------- MODULE TokenBucket ----------------------------
(***************************************************************************)
(* The token bucket of internal/ratelimit/ratelimit.go: each method as an  *)
(* operator from the bucket before the call to the bucket after it.        *)
(*                                                                         *)
(* A bucket of limit tokens refills limit tokens per minute.  The float64  *)
(* token count is kept exactly, in parts of 1/Minute of a token: a token   *)
(* is Minute parts, and limit parts are added per tick of the clock.  The  *)
(* nil bucket of an unlimited key is the one of limit 0.                   *)
(***************************************************************************)
EXTENDS Integers

CONSTANT Minute  \* ticks per minute (60: one tick is a second)

ASSUME MinuteAssumption == Minute \in Nat \ {0}

Least(m, n)    == IF m < n THEN m ELSE n
Greatest(m, n) == IF m > n THEN m ELSE n

BucketRecord == [tokens : Nat, limit : Nat, lastFill : Nat]

Capacity(b) == b.limit * Minute

newBucket(limit, now) ==
  [tokens |-> limit * Minute, limit |-> limit, lastFill |-> now]

\* Mutant: the refill forgets to move lastFill.
refillRepeats(b, now) ==
  IF now <= b.lastFill
  THEN b
  ELSE [b EXCEPT !.tokens = Least(Capacity(b), @ + (now - b.lastFill) * b.limit)]

refill(b, now) ==
  IF now <= b.lastFill
  THEN b
  ELSE [b EXCEPT !.tokens   = Least(Capacity(b), @ + (now - b.lastFill) * b.limit),
                 !.lastFill = now]

\* What tryConsume returns, and what it leaves behind.
Affords(b, n, now) == refill(b, now).tokens >= n * Minute

tryConsume(b, n, now) ==
  LET f == refill(b, now)
  IN  IF f.tokens >= n * Minute THEN [f EXCEPT !.tokens = @ - n * Minute] ELSE f

\* Mutant: whole seconds, rounded down.
retryAfterFloor(b, n) == (n * Minute - b.tokens) \div b.limit

\* The Retry-After header of a refusal: deficit / rate, its integer part plus
\* one second, for a bucket that was refilled and does not hold n tokens.
retryAfter(b, n) == (n * Minute - b.tokens) \div b.limit + 1

adjust(b, delta) ==
  [b EXCEPT !.tokens = Least(Capacity(b), Greatest(0, @ + delta * Minute))]
=============================================================================
