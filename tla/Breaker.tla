------------------------------ MODULE Breaker ------------------------------
(***************************************************************************)
(* One circuit breaker of internal/circuitbreaker/circuitbreaker.go: the   *)
(* Breaker struct as a record and each of its methods as an operator from  *)
(* the record before the call to the record after it.  A method runs under *)
(* the breaker's mutex, so it is one step of whoever calls it; the time it *)
(* works with was read before the mutex was taken and is a parameter.      *)
(*                                                                         *)
(* Time is counted in ticks, TicksPerSec to the second.                    *)
(***************************************************************************)
EXTENDS SlidingWindow

CONSTANTS
  Size,          \* active buckets of the window, in seconds
  MinSamples,    \* Config.MinSamples
  ThresholdNum,  \* Config.ErrorThreshold as the fraction
  ThresholdDen,  \*   ThresholdNum / ThresholdDen
  OpenTimeout,   \* Config.OpenTimeout, in ticks
  TicksPerSec    \* resolution of the clock

ASSUME ConfigAssumption ==
  /\ Size \in 1 .. MaxBuckets
  /\ MinSamples \in Nat
  /\ ThresholdNum \in Nat
  /\ ThresholdDen \in Nat \ {0}
  /\ OpenTimeout \in Nat
  /\ TicksPerSec \in Nat \ {0}

State == {"closed", "open", "half_open"}

BreakerRecord ==
  [state : State, probing : BOOLEAN, openedAt : Nat, lastUsed : Nat,
   window : Window(Size)]

NewBreaker(now) ==
  [state |-> "closed", probing |-> FALSE, openedAt |-> 0, lastUsed |-> now,
   window |-> newSlidingWindow(Size)]

Unix(now) == now \div TicksPerSec

TimedOut(b, now) == b.state = "open" /\ now - b.openedAt >= OpenTimeout

\* The result of Allow.
Admits(b, now) ==
  \/ b.state = "closed"
  \/ TimedOut(b, now)
  \/ b.state = "half_open" /\ ~ b.probing

\* Mutant: the probe is not remembered.
AllowForgetsProbe(b, now) ==
  [b EXCEPT !.lastUsed = now,
            !.state = IF b.state # "closed" /\ Admits(b, now) THEN "half_open" ELSE @]

\* The effect of Allow: an admission that is not a plain closed one is the
\* probe of a half-open breaker.
Allow(b, now) ==
  LET probe == b.state # "closed" /\ Admits(b, now)
  IN  [b EXCEPT !.lastUsed = now,
                !.state    = IF probe THEN "half_open" ELSE @,
                !.probing  = IF probe THEN TRUE ELSE @]

\* Mutant: the window survives the success of the probe.
RecordSuccessKeepsWindow(b, now) ==
  IF b.state = "half_open"
  THEN [b EXCEPT !.lastUsed = now, !.state = "closed", !.probing = FALSE]
  ELSE [b EXCEPT !.lastUsed = now,
                 !.window = Record(@, 0, Unix(now), Size)]

RecordSuccess(b, now) ==
  IF b.state = "half_open"
  THEN [b EXCEPT !.lastUsed = now, !.state = "closed", !.probing = FALSE,
                 !.window = newSlidingWindow(Size)]
  ELSE [b EXCEPT !.lastUsed = now,
                 !.window = Record(@, 0, Unix(now), Size)]

\* samples >= minSamples && rate >= threshold, for the rate
\* (errors / 2) / samples that ErrorRate returns, 0 when there is no sample.
OverThreshold(w) ==
  LET samples == TotalRequests(w, Size)
  IN  /\ samples >= MinSamples
      /\ IF samples = 0
         THEN ThresholdNum = 0
         ELSE TotalErrors(w, Size) * ThresholdDen >= 2 * ThresholdNum * samples

\* Mutant: reopening after a failed probe keeps the old openedAt.
RecordErrorKeepsOpenedAt(b, weight, now) ==
  LET w     == Record(b.window, weight, Unix(now), Size)
      trips == b.state = "closed" /\ OverThreshold(w)
  IN  [b EXCEPT !.lastUsed = now,
                !.window   = w,
                !.state    = IF trips \/ @ = "half_open" THEN "open" ELSE @,
                !.openedAt = IF trips THEN now ELSE @,
                !.probing  = IF b.state = "half_open" THEN FALSE ELSE @]

RecordError(b, weight, now) ==
  LET w     == Record(b.window, weight, Unix(now), Size)
      trips == \/ b.state = "closed" /\ OverThreshold(w)
               \/ b.state = "half_open"
  IN  [b EXCEPT !.lastUsed = now,
                !.window   = w,
                !.state    = IF trips THEN "open" ELSE @,
                !.openedAt = IF trips THEN now ELSE @,
                !.probing  = IF b.state = "half_open" THEN FALSE ELSE @]
-----------------------------------------------------------------------------
(* classify.go.  An error is a record: kind tells apart what errors.Is and *)
(* errors.As find in its chain, code is its HTTP status when it has one.   *)

ErrorKind == {"deadline", "http", "net", "domain", "other"}

classifyStatus(code) ==
  CASE code = 429                   -> 1
    [] code >= 500 /\ code <= 504   -> 2
    [] OTHER                        -> 0

\* Twice the weight that ClassifyError returns.
ClassifyError(err) ==
  CASE err.kind = "deadline" -> 3
    [] err.kind = "http"     -> classifyStatus(err.code)
    [] OTHER                 -> 2
=============================================================================
