----------------------------- MODULE WindowRing -----------------------------
(***************************************************************************)
(* The sliding window driven by the calls a breaker makes on it: Record    *)
(* and ErrorRate with a time that was read before the breaker's lock was   *)
(* taken, so up to RingLag seconds old, and Reset.                          *)
(*                                                                         *)
(* log is a history variable: the samples recorded since the last Reset,   *)
(* by the second they were filed under.  It is the reference the ring is   *)
(* compared with: a ring of size buckets must hold exactly the last size   *)
(* seconds of it.                                                          *)
(***************************************************************************)
EXTENDS SlidingWindow

CONSTANTS
  RingSize,       \* active buckets of the window
  Weights,    \* error weights, in halves
  RingLag,     \* how old the time of a call may be
  MaxSec,     \* bound: the last second of a behaviour
  RingSamples  \* bound: samples in one second of the log

ASSUME SizeAssumption    == RingSize \in 1 .. MaxBuckets
ASSUME WeightsAssumption == Weights \subseteq Nat
ASSUME BoundsAssumption  == RingLag \in Nat /\ MaxSec \in Nat /\ RingSamples \in Nat

VARIABLES
  sec,     \* the clock, in whole seconds
  window,  \* the SlidingWindow record
  log      \* history: second -> samples filed under it since the last Reset

ringVars == <<sec, window, log>>

Secs == 1 .. MaxSec

RingTypeOK ==
  /\ sec \in Secs
  /\ window \in Window(RingSize)
  /\ log \in [Secs -> Bucket]

\* What was filed under second s; nothing outside the modelled time.
Filed(s) == IF s \in Secs THEN log[s] ELSE EmptyBucket

\* The second a sample taken in nowSec is filed under.
FiledUnder(nowSec) == IF nowSec > window.headTime THEN nowSec ELSE window.headTime

\* Times a call may carry: it read the clock at most RingLag seconds ago.
RingStamps == {s \in Secs : s <= sec /\ sec - s <= RingLag}
-----------------------------------------------------------------------------
RingInit ==
  /\ sec \in Secs
  /\ window = newSlidingWindow(RingSize)
  /\ log = [s \in Secs |-> EmptyBucket]

RingTick ==
  /\ sec < MaxSec
  /\ sec' = sec + 1
  /\ UNCHANGED <<window, log>>

RecordSample(weight, nowSec) ==
  /\ log[FiledUnder(nowSec)].total < RingSamples
  /\ window' = Record(window, weight, nowSec, RingSize)
  /\ log' = [log EXCEPT ![FiledUnder(nowSec)] = AddSample(@, weight)]
  /\ UNCHANGED sec

\* Reading the rate advances the ring too.
ErrorRate(nowSec) ==
  /\ window' = advance(window, nowSec, RingSize)
  /\ UNCHANGED <<sec, log>>

Reset ==
  /\ window' = newSlidingWindow(RingSize)
  /\ log' = [s \in Secs |-> EmptyBucket]
  /\ UNCHANGED sec

RingNext ==
  \/ RingTick
  \/ \E weight \in Weights, nowSec \in RingStamps : RecordSample(weight, nowSec)
  \/ \E nowSec \in RingStamps : ErrorRate(nowSec)
  \/ Reset

RingSpec == RingInit /\ [][RingNext]_ringVars
-----------------------------------------------------------------------------
\* How many seconds before headTime bucket i of w stands for.
Age(w, i) == IF i <= w.head THEN w.head - i ELSE w.head + RingSize - i

HoldsWindow(w) ==
  \A i \in 0 .. RingSize - 1 : w.buckets[i] = Filed(w.headTime - Age(w, i))

(* Every bucket of the ring holds exactly the samples of the second it     *)
(* stands for: advance clears neither too few buckets (an old second would *)
(* be counted again) nor too many, also when the gap is longer than the    *)
(* ring and when calls carry times out of order.                           *)
RingHoldsWindow ==
  /\ HoldsWindow(window)
  /\ \A s \in Secs : s > window.headTime => log[s] = EmptyBucket

(* The sums ErrorRate returns are those of the samples filed in the last   *)
(* RingSize seconds up to the head: no sample is lost early or counted late.   *)
RateCountsRecent ==
  LET recent == [k \in 0 .. RingSize - 1 |-> Filed(window.headTime - RingSize + 1 + k)]
  IN  /\ TotalRequests(window, RingSize) =
           SumOver([k \in 0 .. RingSize - 1 |-> recent[k].total], RingSize)
      /\ TotalErrors(window, RingSize) =
           SumOver([k \in 0 .. RingSize - 1 |-> recent[k].errors], RingSize)
=============================================================================
