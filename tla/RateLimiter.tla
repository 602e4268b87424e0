---------------------------- MODULE RateLimiter ----------------------------
(***************************************************************************)
(* The rate limiting of one API key: Limiter and Registry of               *)
(* internal/ratelimit/ratelimit.go, the requests that use them (rateLimit  *)
(* of internal/server/middleware.go, then consumeTPM and adjustTPM of      *)
(* internal/server/proxy.go) and the eviction ticker of cmd/gandalf/run.go.*)
(*                                                                         *)
(* A request looks its limiter up three times, by the limits it saw when   *)
(* it was authenticated: another request may meanwhile have seen other     *)
(* limits, and the limiter may have been replaced or evicted.  Limiters    *)
(* are identities of heap.  A limiter reads the clock under its mutex.     *)
(***************************************************************************)
EXTENDS TokenBucket, FiniteSets

CONSTANTS
  Requests,     \* goroutines
  KeyLimits,    \* [RPM, TPM] an identity may carry, 0 for unset
  Defaults,     \* [RPM, TPM] of the configuration, 0 for unlimited
  Estimates,    \* estimated tokens of a request
  Usages,       \* tokens a provider may report
  IdleTimeout,  \* eviction cutoff (one hour)
  Marks,        \* instants from which admissions are counted
  MaxTime,      \* bound: length of a behaviour
  MaxLimiters   \* bound: limiters created

LimitsRecord == [RPM : Nat, TPM : Nat]

ASSUME LimiterAssumption ==
  /\ KeyLimits \subseteq LimitsRecord /\ Defaults \in LimitsRecord
  /\ Estimates \subseteq Nat /\ Usages \subseteq Nat
  /\ Marks \subseteq Nat
  /\ IdleTimeout \in Nat /\ Minute <= IdleTimeout
  /\ MaxTime \in Nat /\ MaxLimiters \in Nat

Ids    == 1 .. MaxLimiters
Null   == 0
Kinds  == {"rpm", "tpm"}
Never  == [n |-> 0, at |-> 0]

LimiterRecord ==
  [limits : LimitsRecord, rpm : BucketRecord, tpm : BucketRecord, lastUsed : Nat]

VARIABLES
  clock,       \* now, in seconds
  heap,        \* identity -> Limiter
  created,     \* identities 1 .. created are in use
  registered,  \* Registry.limiters of the key: an identity or Null
  pc,          \* request -> step it is about to take
  stage,       \* request -> what it looks its limiter up for
  want,        \* request -> limits of its identity, defaults applied
  ptr,         \* request -> limiter it holds
  est,         \* request -> estimated tokens
  used,        \* request -> tokens the provider reported
  evictor,     \* eviction goroutine: phase and cutoff
  mark,        \* history: the instant from which admissions are counted
  spent,       \* history: limiter -> requests admitted since mark
  promise      \* history: kind, limiter -> last refusal not overtaken by a
               \* later consumption: tokens asked for and the Retry-After time

reqVars  == <<pc, stage, want, ptr, est, used>>
vars     == <<clock, heap, created, registered, reqVars, evictor, mark, spent, promise>>

TypeOK ==
  /\ clock \in Nat
  /\ heap \in [Ids -> LimiterRecord]
  /\ \A i \in Ids : /\ heap[i].rpm.tokens <= Capacity(heap[i].rpm)
                    /\ heap[i].tpm.tokens <= Capacity(heap[i].tpm)
  /\ created \in 0 .. MaxLimiters
  /\ registered \in Ids \cup {Null}
  /\ pc \in [Requests -> {"idle", "get", "create", "use", "call"}]
  /\ stage \in [Requests -> {"rpm", "tpm", "adjust"}]
  /\ want \in [Requests -> LimitsRecord]
  /\ ptr \in [Requests -> Ids \cup {Null}]
  /\ est \in [Requests -> Nat]
  /\ used \in [Requests -> Nat]
  /\ evictor \in [phase : {"idle", "delete"}, cutoff : Int]
  /\ mark \in Nat
  /\ spent \in [Ids -> Nat]
  /\ promise \in [Kinds -> [Ids -> [n : Nat, at : Nat]]]

newLimiter(limits, now) ==
  [limits   |-> limits,
   rpm      |-> newBucket(limits.RPM, now),
   tpm      |-> newBucket(limits.TPM, now),
   lastUsed |-> now]

NoLimits == [RPM |-> 0, TPM |-> 0]

Init ==
  /\ clock = 1
  /\ heap = [i \in Ids |-> newLimiter(NoLimits, 0)]
  /\ created = 0
  /\ registered = Null
  /\ pc = [r \in Requests |-> "idle"]
  /\ stage = [r \in Requests |-> "rpm"]
  /\ want = [r \in Requests |-> NoLimits]
  /\ ptr = [r \in Requests |-> Null]
  /\ est = [r \in Requests |-> 0]
  /\ used = [r \in Requests |-> 0]
  /\ evictor = [phase |-> "idle", cutoff |-> 0]
  /\ mark \in Marks
  /\ spent = [i \in Ids |-> 0]
  /\ promise = [k \in Kinds |-> [i \in Ids |-> Never]]
-----------------------------------------------------------------------------
Tick ==
  /\ clock < MaxTime
  /\ clock' = clock + 1
  /\ UNCHANGED <<heap, created, registered, reqVars, evictor, mark, spent, promise>>

EffectiveLimits(l) ==
  [RPM |-> IF l.RPM = 0 THEN Defaults.RPM ELSE l.RPM,
   TPM |-> IF l.TPM = 0 THEN Defaults.TPM ELSE l.TPM]

\* The request is done: a local of the goroutine is no more.
Finish(r) ==
  /\ pc' = [pc EXCEPT ![r] = "idle"]
  /\ stage' = [stage EXCEPT ![r] = "rpm"]
  /\ want' = [want EXCEPT ![r] = NoLimits]
  /\ est' = [est EXCEPT ![r] = 0]
  /\ used' = [used EXCEPT ![r] = 0]

\* rateLimit: a key without limits has no limiter.
Arrive(r, l, n) ==
  /\ pc[r] = "idle"
  /\ EffectiveLimits(l) # NoLimits
  /\ pc' = [pc EXCEPT ![r] = "get"]
  /\ want' = [want EXCEPT ![r] = EffectiveLimits(l)]
  /\ est' = [est EXCEPT ![r] = n]
  /\ UNCHANGED <<clock, heap, created, registered, stage, ptr, used, evictor,
                 mark, spent, promise>>

Matches(i, limits) == i # Null /\ heap[i].limits = limits

\* GetOrCreate, under the read lock.
GetOrCreate(r) ==
  LET hit == Matches(registered, want[r])
  IN  /\ pc[r] = "get"
      /\ pc' = [pc EXCEPT ![r] = IF hit THEN "use" ELSE "create"]
      /\ ptr' = [ptr EXCEPT ![r] = IF hit THEN registered ELSE Null]
      /\ UNCHANGED <<clock, heap, created, registered, stage, want, est, used,
                     evictor, mark, spent, promise>>

\* Mutant: no second look under the write lock.
CreateLimiterAnyway(r) ==
  /\ pc[r] = "create"
  /\ created < MaxLimiters
  /\ created' = created + 1
  /\ registered' = created + 1
  /\ heap' = [heap EXCEPT ![created + 1] = newLimiter(want[r], clock)]
  /\ pc' = [pc EXCEPT ![r] = "use"]
  /\ ptr' = [ptr EXCEPT ![r] = registered']
  /\ UNCHANGED <<clock, stage, want, est, used, evictor, mark, spent, promise>>

\* GetOrCreate, under the write lock: look again, then replace.
CreateLimiter(r) ==
  /\ pc[r] = "create"
  /\ IF Matches(registered, want[r])
     THEN UNCHANGED <<heap, created, registered>>
     ELSE /\ created < MaxLimiters
          /\ created' = created + 1
          /\ registered' = created + 1
          /\ heap' = [heap EXCEPT ![created + 1] = newLimiter(want[r], clock)]
  /\ pc' = [pc EXCEPT ![r] = "use"]
  /\ ptr' = [ptr EXCEPT ![r] = registered']
  /\ UNCHANGED <<clock, stage, want, est, used, evictor, mark, spent, promise>>
-----------------------------------------------------------------------------
\* What a bucket becomes, and what is promised, when n tokens are asked of it.
Refusal(b, n) == [n |-> n, at |-> clock + retryAfter(refill(b, clock), n)]

\* AllowRPM: an admitted request goes on to the handler, which looks the
\* limiter up again; the native and the listing routes do not.
AllowRPM(r, native) ==
  LET i  == ptr[r]
      b  == heap[i].rpm
      ok == b.limit = 0 \/ Affords(b, 1, clock)
  IN  /\ pc[r] = "use" /\ stage[r] = "rpm"
      /\ heap' = [heap EXCEPT ![i].lastUsed = clock,
                              ![i].rpm = IF b.limit = 0 THEN @ ELSE tryConsume(@, 1, clock)]
      /\ spent' = [spent EXCEPT ![i] = IF ok /\ b.limit # 0 /\ clock >= mark
                                       THEN @ + 1 ELSE @]
      /\ promise' = [promise EXCEPT !["rpm"][i] = IF ok THEN Never ELSE Refusal(b, 1)]
      /\ ptr' = [ptr EXCEPT ![r] = Null]
      /\ IF ok /\ ~ native
         THEN /\ pc' = [pc EXCEPT ![r] = "get"]
              /\ stage' = [stage EXCEPT ![r] = "tpm"]
              /\ UNCHANGED <<want, est, used>>
         ELSE Finish(r)
      /\ UNCHANGED <<clock, created, registered, evictor, mark>>

\* consumeTPM.
ConsumeTPM(r) ==
  LET i  == ptr[r]
      b  == heap[i].tpm
      ok == b.limit = 0 \/ Affords(b, est[r], clock)
  IN  /\ pc[r] = "use" /\ stage[r] = "tpm"
      /\ heap' = [heap EXCEPT ![i].lastUsed = clock,
                              ![i].tpm = IF b.limit = 0 THEN @ ELSE tryConsume(@, est[r], clock)]
      /\ promise' = [promise EXCEPT !["tpm"][i] = IF ok THEN Never ELSE Refusal(b, est[r])]
      /\ ptr' = [ptr EXCEPT ![r] = Null]
      /\ IF ok
         THEN /\ pc' = [pc EXCEPT ![r] = "call"]
              /\ UNCHANGED <<stage, want, est, used>>
         ELSE Finish(r)
      /\ UNCHANGED <<clock, created, registered, evictor, mark, spent>>

\* The response reports its usage.
Respond(r, tokens) ==
  /\ pc[r] = "call"
  /\ pc' = [pc EXCEPT ![r] = "get"]
  /\ stage' = [stage EXCEPT ![r] = "adjust"]
  /\ used' = [used EXCEPT ![r] = tokens]
  /\ UNCHANGED <<clock, heap, created, registered, want, ptr, est, evictor,
                 mark, spent, promise>>

\* The response comes from the cache or reports no usage, the provider fails,
\* or the client leaves a stream: nothing is adjusted.
RespondWithoutUsage(r) ==
  /\ pc[r] = "call"
  /\ Finish(r)
  /\ UNCHANGED <<clock, heap, created, registered, ptr, evictor, mark, spent, promise>>

\* adjustTPM: neither refills the bucket nor renews lastUsed.
AdjustTPM(r) ==
  LET i     == ptr[r]
      delta == est[r] - used[r]
  IN  /\ pc[r] = "use" /\ stage[r] = "adjust"
      /\ heap' = [heap EXCEPT ![i].tpm = IF @.limit = 0 THEN @ ELSE adjust(@, delta)]
      /\ promise' = [promise EXCEPT !["tpm"][i] = IF delta < 0 THEN Never ELSE @]
      /\ ptr' = [ptr EXCEPT ![r] = Null]
      /\ Finish(r)
      /\ UNCHANGED <<clock, created, registered, evictor, mark, spent>>
-----------------------------------------------------------------------------
Stale(i, cutoff) == heap[i].lastUsed < cutoff

\* EvictStale, phase 1: under the read lock.
EvictScan ==
  /\ evictor.phase = "idle"
  /\ registered # Null
  /\ Stale(registered, clock - IdleTimeout)
  /\ evictor' = [phase |-> "delete", cutoff |-> clock - IdleTimeout]
  /\ UNCHANGED <<clock, heap, created, registered, reqVars, mark, spent, promise>>

\* Mutant: no second look before the deletion.
EvictDeleteBlindly ==
  /\ evictor.phase = "delete"
  /\ registered' = Null
  /\ evictor' = [phase |-> "idle", cutoff |-> 0]
  /\ UNCHANGED <<clock, heap, created, reqVars, mark, spent, promise>>

\* EvictStale, phase 2: under the write lock, what is still stale goes.
EvictDelete ==
  /\ evictor.phase = "delete"
  /\ registered' = IF registered # Null /\ Stale(registered, evictor.cutoff)
                   THEN Null ELSE registered
  /\ evictor' = [phase |-> "idle", cutoff |-> 0]
  /\ UNCHANGED <<clock, heap, created, reqVars, mark, spent, promise>>

RequestStep(r) ==
  \/ \E l \in KeyLimits, n \in Estimates : Arrive(r, l, n)
  \/ GetOrCreate(r)
  \/ CreateLimiter(r)
  \/ \E native \in BOOLEAN : AllowRPM(r, native)
  \/ ConsumeTPM(r)
  \/ \E tokens \in Usages : Respond(r, tokens)
  \/ RespondWithoutUsage(r)
  \/ AdjustTPM(r)

Next ==
  \/ Tick
  \/ \E r \in Requests : RequestStep(r)
  \/ EvictScan
  \/ EvictDelete

Spec == Init /\ [][Next]_vars
-----------------------------------------------------------------------------
(* A limiter admits at most its limit plus what refills in the meantime,   *)
(* over every interval: mark is any instant, and refills that were due     *)
(* before it, refunds and refusals do not add to the allowance.            *)
RateBound ==
  \A i \in Ids :
    spent[i] > 0 => spent[i] * Minute <= heap[i].rpm.limit * (Minute + clock - mark)

(* Retry-After is honest: once its time has come the bucket holds what was *)
(* asked for, if nobody took tokens since the refusal.  A request for more *)
(* than the bucket ever holds is told to retry too, and always refused.    *)
Due(p) == p # Never /\ clock >= p.at

RetryAfterHonest ==
  \A i \in Ids :
    LET rpm == promise["rpm"][i]
        tpm == promise["tpm"][i]
    IN  /\ Due(rpm) => Affords(heap[i].rpm, rpm.n, clock)
        /\ Due(tpm) /\ tpm.n <= heap[i].tpm.limit => Affords(heap[i].tpm, tpm.n, clock)

FullAt(b, now) == refill(b, now).tokens = Capacity(b)

(* Forgetting an idle limiter gives nothing away: both its buckets would   *)
(* have been full again, as those of the limiter that replaces it are.     *)
EvictsOnlyFull ==
  [][registered # Null /\ registered' = Null
       => FullAt(heap[registered].rpm, clock) /\ FullAt(heap[registered].tpm, clock)]_vars

(* A limiter is replaced only when its limits are not the ones asked for:  *)
(* of two requests that both missed, the second takes the first's limiter. *)
ReplacesOnlyChanged ==
  [][registered # Null /\ registered' # Null /\ registered' # registered
       => heap[registered].limits # heap'[registered'].limits]_vars
=============================================================================
