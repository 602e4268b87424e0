--------------------------- MODULE CircuitBreaker ---------------------------
(***************************************************************************)
(* The circuit breaker of one provider as its callers see it: the registry *)
(* (internal/circuitbreaker/registry.go), the failover loops that ask it   *)
(* before a call and report to it afterwards (internal/app/proxy.go), and  *)
(* the ticker of cmd/gandalf/run.go that evicts idle breakers.             *)
(*                                                                         *)
(* Requests are goroutines: between fetching a breaker from the registry   *)
(* and running one of its methods others may run, so the time the method   *)
(* works with is any instant since the fetch, and the breaker it works on  *)
(* may have been evicted meanwhile.  The same Breaker object is reached    *)
(* through pointers, modelled as identities of heap.                       *)
(*                                                                         *)
(* The provider is registered: Register runs before the server starts and  *)
(* nothing unregisters.  A target without a provider is never called, so   *)
(* it never gets a breaker; Failover models it.                            *)
(***************************************************************************)
EXTENDS Breaker

CONSTANTS
  Requests,     \* goroutines that may be in a failover loop at a time
  Errors,       \* errors a provider call may return
  IdleTimeout,  \* eviction cutoff of run.go (one hour)
  MaxLag,       \* bound: time from fetching a breaker to holding its mutex
  MaxTime,      \* bound: length of a behaviour
  MaxBreakers,  \* bound: breakers created
  MaxSamples    \* bound: samples and calls in flight when a request starts

ASSUME CallersAssumption ==
  /\ \A e \in Errors : e.kind \in ErrorKind /\ e.code \in Nat
  /\ IdleTimeout \in Nat /\ MaxLag \in Nat /\ MaxTime \in Nat
  /\ MaxBreakers \in Nat /\ MaxSamples \in Nat

Ids  == 1 .. MaxBreakers
Null == 0

VARIABLES
  clock,       \* now
  heap,        \* identity -> Breaker, the objects ever created
  created,     \* identities 1 .. created are in use
  registered,  \* Registry.breakers of the provider: an identity or Null
  pc,          \* request -> where it stands in the loop
  ptr,         \* request -> the breaker it holds
  since,       \* request -> when it fetched that breaker
  weight,      \* request -> weight to record; Success for RecordSuccess
  evictor,     \* the eviction goroutine: its phase, cutoff and stale keys
  hist         \* history, read by properties only

vars == <<clock, heap, created, registered, pc, ptr, since, weight, evictor, hist>>

Success == 0

PcValues == {"idle", "allow", "call", "get", "create", "record"}

(* hist.admits[b]   admissions since b last became half-open               *)
(* hist.tripped[b]  when b last became open                                *)
(* hist.samples[b]  results recorded since b was created or last closed    *)
(* hist.evicted     breakers removed from the registry                     *)
History ==
  [admits : [Ids -> Nat], tripped : [Ids -> Nat], samples : [Ids -> Nat],
   evicted : SUBSET Ids]

TypeOK ==
  /\ clock \in Nat
  /\ heap \in [Ids -> BreakerRecord]
  /\ created \in 0 .. MaxBreakers
  /\ registered \in Ids \cup {Null}
  /\ pc \in [Requests -> PcValues]
  /\ ptr \in [Requests -> Ids \cup {Null}]
  /\ since \in [Requests -> Nat]
  /\ weight \in [Requests -> Nat]
  /\ evictor \in [phase : {"idle", "delete"}, cutoff : Int]
  /\ hist \in History

Init ==
  /\ clock = TicksPerSec
  /\ heap = [i \in Ids |-> NewBreaker(0)]
  /\ created = 0
  /\ registered = Null
  /\ pc = [r \in Requests |-> "idle"]
  /\ ptr = [r \in Requests |-> Null]
  /\ since = [r \in Requests |-> 0]
  /\ weight = [r \in Requests |-> 0]
  /\ evictor = [phase |-> "idle", cutoff |-> 0]
  /\ hist = [admits  |-> [i \in Ids |-> 0],
             tripped |-> [i \in Ids |-> 0],
             samples |-> [i \in Ids |-> 0],
             evicted |-> {}]
-----------------------------------------------------------------------------
InFlight == {r \in Requests : pc[r] # "idle"}

\* Between fetching a breaker and locking it a goroutine is only delayed by
\* the scheduler and the mutex.
Waiting(r) == pc[r] \in {"allow", "record"}

Tick ==
  /\ clock < MaxTime
  /\ \A r \in Requests : Waiting(r) => clock - since[r] < MaxLag
  /\ clock' = clock + 1
  /\ UNCHANGED <<heap, created, registered, pc, ptr, since, weight, evictor, hist>>

\* The instants at which r may have read the clock, once it holds the mutex.
Stamps(r) == since[r] .. clock

Load == Cardinality(InFlight) +
        (IF registered = Null THEN 0 ELSE TotalRequests(heap[registered].window, Size))

\* breakers.Get: no breaker yet means that the call goes ahead unguarded.
Get(r) ==
  /\ pc[r] = "idle"
  /\ Load < MaxSamples
  /\ ptr' = [ptr EXCEPT ![r] = registered]
  /\ since' = [since EXCEPT ![r] = IF registered = Null THEN 0 ELSE clock]
  /\ pc' = [pc EXCEPT ![r] = IF registered = Null THEN "call" ELSE "allow"]
  /\ UNCHANGED <<clock, heap, created, registered, weight, evictor, hist>>

\* cb.Allow(): a refused request goes on to the next target, so it is done
\* with this provider.
AllowRequest(r, now) ==
  LET i  == ptr[r]
      b  == heap[i]
      ok == Admits(b, now)
  IN  /\ pc[r] = "allow"
      /\ heap' = [heap EXCEPT ![i] = Allow(b, now)]
      /\ pc' = [pc EXCEPT ![r] = IF ok THEN "call" ELSE "idle"]
      /\ ptr' = [ptr EXCEPT ![r] = Null]
      /\ since' = [since EXCEPT ![r] = 0]
      /\ hist' = [hist EXCEPT
                    !.admits[i] = IF TimedOut(b, now) THEN 1
                                  ELSE IF ok /\ b.state = "half_open" THEN @ + 1 ELSE @]
      /\ UNCHANGED <<clock, created, registered, weight, evictor>>

\* The provider call returns an error: recordBreakerError skips weight 0.
CallFails(r, err) ==
  LET recorded == ClassifyError(err) > 0
  IN  /\ pc[r] = "call"
      /\ pc' = [pc EXCEPT ![r] = IF recorded THEN "get" ELSE "idle"]
      /\ weight' = [weight EXCEPT ![r] = ClassifyError(err)]
      /\ UNCHANGED <<clock, heap, created, registered, ptr, since, evictor, hist>>

\* The provider call succeeds: recordBreakerSuccess.
CallSucceeds(r) ==
  /\ pc[r] = "call"
  /\ pc' = [pc EXCEPT ![r] = "get"]
  /\ weight' = [weight EXCEPT ![r] = Success]
  /\ UNCHANGED <<clock, heap, created, registered, ptr, since, evictor, hist>>

\* GetOrCreate, under the read lock.
GetOrCreate(r) ==
  /\ pc[r] = "get"
  /\ pc' = [pc EXCEPT ![r] = IF registered = Null THEN "create" ELSE "record"]
  /\ ptr' = [ptr EXCEPT ![r] = registered]
  /\ since' = [since EXCEPT ![r] = IF registered = Null THEN 0 ELSE clock]
  /\ UNCHANGED <<clock, heap, created, registered, weight, evictor, hist>>

\* Mutant: no second look.
CreateBreakerAnyway(r) ==
  /\ pc[r] = "create"
  /\ created < MaxBreakers
  /\ created' = created + 1
  /\ registered' = created + 1
  /\ heap' = [heap EXCEPT ![created + 1] = NewBreaker(clock)]
  /\ ptr' = [ptr EXCEPT ![r] = registered']
  /\ since' = [since EXCEPT ![r] = clock]
  /\ pc' = [pc EXCEPT ![r] = "record"]
  /\ UNCHANGED <<clock, weight, evictor, hist>>

\* GetOrCreate, under the write lock: look again before creating.
CreateBreaker(r) ==
  /\ pc[r] = "create"
  /\ IF registered = Null
     THEN /\ created < MaxBreakers
          /\ created' = created + 1
          /\ registered' = created + 1
          /\ heap' = [heap EXCEPT ![created + 1] = NewBreaker(clock)]
     ELSE UNCHANGED <<created, registered, heap>>
  /\ ptr' = [ptr EXCEPT ![r] = registered']
  /\ since' = [since EXCEPT ![r] = clock]
  /\ pc' = [pc EXCEPT ![r] = "record"]
  /\ UNCHANGED <<clock, weight, evictor, hist>>

Recorded(b, w, now) ==
  IF w = Success THEN RecordSuccess(b, now) ELSE RecordError(b, w, now)

\* RecordSuccess or RecordError, under the breaker's mutex.
RecordResult(r, now) ==
  LET i == ptr[r]
      b == Recorded(heap[i], weight[r], now)
  IN  /\ pc[r] = "record"
      /\ heap' = [heap EXCEPT ![i] = b]
      /\ pc' = [pc EXCEPT ![r] = "idle"]
      /\ ptr' = [ptr EXCEPT ![r] = Null]
      /\ since' = [since EXCEPT ![r] = 0]
      /\ weight' = [weight EXCEPT ![r] = 0]
      /\ hist' = [hist EXCEPT
                    !.tripped[i] = IF heap[i].state # "open" /\ b.state = "open"
                                   THEN clock ELSE @,
                    !.samples[i] = IF heap[i].state # "closed" /\ b.state = "closed"
                                   THEN 0 ELSE @ + 1]
      /\ UNCHANGED <<clock, created, registered, evictor>>
-----------------------------------------------------------------------------
Stale(i, cutoff) == heap[i].lastUsed < cutoff

\* EvictStale, phase 1: under the read lock, remember what looks stale.
EvictScan ==
  /\ evictor.phase = "idle"
  /\ registered # Null
  /\ Stale(registered, clock - IdleTimeout)
  /\ evictor' = [phase |-> "delete", cutoff |-> clock - IdleTimeout]
  /\ UNCHANGED <<clock, heap, created, registered, pc, ptr, since, weight, hist>>

\* Mutant: what looked stale is deleted without a second look.
EvictDeleteBlindly ==
  /\ evictor.phase = "delete"
  /\ IF registered # Null
     THEN /\ registered' = Null
          /\ hist' = [hist EXCEPT !.evicted = @ \cup {registered}]
     ELSE UNCHANGED <<registered, hist>>
  /\ evictor' = [phase |-> "idle", cutoff |-> 0]
  /\ UNCHANGED <<clock, heap, created, pc, ptr, since, weight>>

\* EvictStale, phase 2: under the write lock, delete what is still stale.
EvictDelete ==
  /\ evictor.phase = "delete"
  /\ IF registered # Null /\ Stale(registered, evictor.cutoff)
     THEN /\ registered' = Null
          /\ hist' = [hist EXCEPT !.evicted = @ \cup {registered}]
     ELSE UNCHANGED <<registered, hist>>
  /\ evictor' = [phase |-> "idle", cutoff |-> 0]
  /\ UNCHANGED <<clock, heap, created, pc, ptr, since, weight>>

RequestStep(r) ==
  \/ \E now \in Stamps(r) : AllowRequest(r, now)
  \/ \E err \in Errors : CallFails(r, err)
  \/ CallSucceeds(r)
  \/ GetOrCreate(r)
  \/ CreateBreaker(r)
  \/ \E now \in Stamps(r) : RecordResult(r, now)

Next ==
  \/ Tick
  \/ \E r \in Requests : Get(r) \/ RequestStep(r)
  \/ EvictScan
  \/ EvictDelete

Spec == Init /\ [][Next]_vars

\* Every goroutine that has started runs on: the scheduler and the mutexes
\* serve it, and a provider call returns, at the latest when its client goes
\* away.  Nothing obliges a new request to start, the clock to reach a value
\* or the eviction ticker to fire.
FairSpec == Spec /\ \A r \in Requests : WF_vars(RequestStep(r))
-----------------------------------------------------------------------------
(* "Allow exactly one probe": in each half-open period of a breaker one    *)
(* request is admitted, however many arrive while its result is awaited.   *)
OneProbePerHalfOpen ==
  \A i \in Ids : heap[i].state = "half_open" => hist.admits[i] = 1

(* A tripped breaker refuses every request for OpenTimeout, less the time  *)
(* its last recorder waited for the mutex: openedAt is the instant read    *)
(* before the mutex, and so is the instant it is compared with.            *)
RefusesUntilTimeout ==
  [][\A i \in Ids :
       heap[i].state = "open" /\ heap'[i].state = "half_open"
         => clock >= hist.tripped[i] + OpenTimeout - MaxLag]_vars

(* A closed breaker trips only on MinSamples results recorded since it was *)
(* created or last closed: what was recorded before, while it was open or  *)
(* half-open included, does not count again after the probe succeeded.     *)
TripsOnFreshSamples ==
  [][\A i \in Ids :
       heap[i].state = "closed" /\ heap'[i].state = "open"
         => hist'.samples[i] >= MinSamples]_vars

(* The registry never loses a breaker to a race of two creators: every     *)
(* breaker that was created and not evicted is the registered one.         *)
NoOrphanBreaker ==
  \A i \in 1 .. created : i \in hist.evicted \/ registered = i

(* Eviction removes only a breaker nobody used for IdleTimeout, also when  *)
(* it was used between the two phases; in particular it never forgets an   *)
(* open breaker that would still refuse requests.                          *)
EvictsOnlyIdle ==
  [][\A i \in Ids :
       i \in hist'.evicted \ hist.evicted
         => /\ clock - heap[i].lastUsed > IdleTimeout
            /\ heap[i].state = "open" => TimedOut(heap[i], clock)]_vars

(* The result of a half-open period arrives: a registered breaker does not *)
(* stay half-open, refusing every request, for ever.                       *)
ProbeResolves ==
  \A i \in Ids :
    heap[i].state = "half_open" ~> heap[i].state # "half_open" \/ registered # i
=============================================================================
