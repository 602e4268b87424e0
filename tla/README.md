# Gandalf in TLA+

A TLA+ model of the gateway in `src/`: the parts of it that keep state and are
shared by goroutines, requests or runs of the process, the properties that make
them correct, TLC runs that check those on small instances, and TLAPS proofs, for
every instance, of all the safety properties that the runs check.

Contents: [the system](#the-system), [modules](#modules-and-the-code),
[runs](#runs), [bounds](#bounds), [fairness](#fairness), [proofs](#proofs),
[disagreements](#where-code-and-documents-disagree),
[not modelled](#not-modelled), [plan](#plan).

## The system

Gandalf accepts OpenAI-style requests and the native requests of some
providers. Around every request stands a chain of **middleware**
(`internal/server/server.go`): recovery from panics, then logging, metrics and
tracing, which wrap the response in pooled writers to learn its status. Inside it a
request passes, in this order:

1. **authentication** (`internal/auth`): the key is looked up by its hash, in a
   cache of 30 seconds and then in the store;
2. **quota and request limit** (`internal/server/middleware.go`,
   `internal/ratelimit`): the in-memory quota tracker is asked, then the
   requests-per-minute bucket of the key;
3. **token limit** (`internal/server/proxy.go`): an estimate is taken from the
   tokens-per-minute bucket;
4. **response cache** (`internal/server/cache.go`, `internal/cache`): for
   deterministic requests without a stream, a cached response under a key
   computed from the request;
5. **routing and failover** (`internal/app`): the alias is resolved to targets
   in the order of their priority, through a cache of 10 seconds; each target
   whose **circuit breaker** (`internal/circuitbreaker`) allows it is tried
   until one answers or fails in a way that ends the loop; the **adapter** of the
   target (`internal/provider/*`) translates the messages of the request, and the
   reply with its tool calls;
6. **streaming** (`internal/provider/*`, `internal/server/proxy.go`): a reader
   goroutine of the adapter turns upstream events into chunks on a channel of
   eight, and the handler writes them to the client;
7. **accounting**: the estimate is corrected by the usage, the cost is consumed
   in the quota tracker, and a usage record is queued.

Beside the requests run the **usage recorder** (batches the queue into the
table), the **quota sync** (reloads the tracker from the table), the **usage
rollup** (hourly sums), the eviction of idle limiters and breakers, and the
**admin handlers** that change keys, routes and providers. `cmd/gandalf/run.go`
starts all of it, after **Bootstrap** (`internal/config`) has seeded the tables from
the configuration file, and stops it on a signal.

| part | state | operations | what makes it hard |
|---|---|---|---|
| sliding window | ring of one-second buckets, head, time of the head | Record, ErrorRate, Reset | gaps around the size of the ring, times out of order |
| breaker | closed, open, half-open; openedAt; probing; window | Allow, RecordSuccess, RecordError | clock read before the mutex, late results, errors that are not recorded |
| breaker registry | provider -> breaker | Get, GetOrCreate, EvictStale | double-checked creation, two-phase eviction, held pointers |
| limiter, registry | two buckets a key; key -> limiter | AllowRPM, ConsumeTPM, AdjustTPM, GetOrCreate, EvictStale | lazy refill, replacement when limits change, eviction |
| quota tracker | consumed and budget a key | Check, Consume, Preload, SyncAll | reload overlaps consumption, restart |
| usage recorder | channel, buffer, table | Record, flush, drain | full channel, failing insert, cancellation, crash |
| rollup | rollup rows | query, aggregate, upsert | late records, limit of the query, failing upsert |
| key authentication | cache, index of key to hash | Authenticate, InvalidateByKeyID | invalidation races a lookup |
| router | cache of routes, cache of TTLs | ResolveModel, CacheTTL | caches nothing invalidates |
| failover loop | model of the request, last error | one step a target | rewritten model, every target skipped |
| response cache | entry, its TTL | Get, Set, Purge | lazy expiry in two steps, two expiries |
| cache key | none | cacheKey | rounding, compaction, rewritten model |
| stream | channel, context, reader, handler | read, send, receive, finish | client leaves with the channel full, end of file |
| middleware | pool of writers, what each wraps, gauge | enter, answer, panic, leave | a writer put back while in use, a panic past the clean-up |
| start | tables of rows, entry being seeded, registry | seed, register, serve, drain, admin's writes | a start that is cut short, lookups that fail, rows an admin changed |
| adapter | the conversation as each side has it | request, reply, next request | tool results that lose their call when the provider changes |

## Modules and the code

Every module has the state as variables, one action per operation or atomic
step of a handler, and its properties at the end. `MC*` modules give the
constants values; their `.cfg` files choose the bounds. Mutated forms of
definitions (named after the definition they alter) stand beside some
definitions: each breaks one property, which shows that the property can fail.
`PROJECT.json` maps each definition to its lines.

| module | code | content |
|---|---|---|
| `SlidingWindow` | `circuitbreaker.go` | the ring of buckets as operators on a record; weights in halves (429 is 1/2, so 1; 5xx 1, so 2; timeout 1.5, so 3) |
| `WindowRing` | same | calls of Record, ErrorRate and Reset with times that lag and overtake, beside a log of the samples by second |
| `Breaker` | `circuitbreaker.go`, `classify.go` | Allow, RecordSuccess and RecordError as operators, ClassifyError |
| `CircuitBreaker` | also `registry.go`, `app/proxy.go`, `run.go` | requests that get, ask, call and record; creation and eviction |
| `TokenBucket` | `ratelimit.go` | one bucket; tokens are counted in units of 1/Minute so that refills are exact |
| `RateLimiter` | also `middleware.go`, `proxy.go`, `run.go` | the three lookups of a request, replacement, eviction |
| `Stream` | `sseutil`, `openai`, `anthropic` (with Bedrock's event stream), `gemini`, `server/proxy.go`, `server/sse.go` | reader, channel, handler, client |
| `UsageLedger` | none: abstract | a record is new, pending, then stored once or lost |
| `UsagePipeline` | `quota.go`, `usage_recorder.go`, `quota_sync.go`, `runner.go`, `server/proxy.go`, `run.go` | composition of tracker, recorder, sync and process; implements `UsageLedger` |
| `AuthCache` | `apikey.go`, `admin.go`, `sqlite` | lookups and invalidation against the read-modify-write of admins, field by field |
| `Rollup` | `usage_rollup.go`, `sqlite/usage.go` | cycles of the worker against late inserts |
| `Failover` | `router.go`, `app/proxy.go`, `native.go`, `admin.go` | resolution, the loop, the native route, changes of the route |
| `ResponseCache` | `memory.go`, `router.go`, `server/proxy.go`, `server/cache.go` | one entry and the TTL of its route |
| `CacheKey` | `server/cache.go`, `server/proxy.go` | which requests have the same key |
| `Adapter` | `openai`, `ollama`, `anthropic` and `gemini` (client and translation) | conversations of several rounds through changing providers |
| `ChatPath` | `server/proxy.go` | composition of `ResponseCache`, `CacheKey` and `Adapter`: a completion without a stream |
| `Middleware` | `server.go`, `middleware.go`, `metrics.go`, `health.go`, `provider/proxy.go` (`ForwardRequest`) | the chain, the pool of writers, what a handler may do to the response |
| `Startup` | `run.go`, `bootstrap.go`, `sqlite` | seeding and registration, starts that fail or are cut short |
| `Server` | `run.go`, `admin.go`, `native.go` | composition of `Startup`, `Middleware` and the admin's writes over several lives of the process |
| `*Proofs` | | theorems about the module of that name; `CircuitBreakerProofs` also about `WindowRing`, `UsageProofs` about `UsagePipeline` and `Rollup`, `ChatPathProofs` about the three parts of `ChatPath`, `ServerProofs` about `Startup` and `Middleware` |

How the state corresponds:

- **Objects held by pointer.** `CircuitBreaker` and `RateLimiter` have a `heap`
  of objects by identity and `registered`, the one the registry's map holds for
  the provider or key. A request keeps an identity in `ptr` across steps, as the
  code keeps a pointer after the registry's lock is released.
- **Steps.** A step is what the code does under one lock, or one store, cache or
  channel operation. `pc` says which comes next. Within `CircuitBreaker` the
  clock is read before the mutex is taken: a step uses any instant since the
  request fetched the breaker, at most `MaxLag` ago. In `AuthCache`, `Failover`
  and `ResponseCache`, `MaxLag` is the assumed longest time between reading a
  row (or having a response) and using it; `Tick` waits for it.
- **One key, provider or alias.** Objects of different keys share nothing but
  the registry's map, so one of each stands for all.
- **History.** Variables marked `history` in their declaration record what
  happened for the properties; a guard reads them only to bound a behaviour.
- **Independent parts.** `CacheKey`, `ResponseCache` and `Adapter` share no state.
  `ChatPath` puts them in one specification, in which one moves while the others
  are in their initial states: its states are the sum of theirs and not the product,
  and an invariant of one of them sees every state of that one.
- **External code.** Contexts, net/http, SQLite, otter and providers are modelled
  from how `src/` uses them: a provider answers anything; the context is
  cancelled when the client leaves or the handler returns; a statement is atomic
  and may fail; otter may drop an entry, and does so once its own expiry is over.

Compositions: `CircuitBreaker` joins breaker, registry, failover loop and
evictor; `RateLimiter` joins middleware, handlers, registry and evictor;
`UsagePipeline` joins tracker, handlers, three workers and the process;
`Stream` joins adapter, channel, handler and client; and `Server` joins the start,
the chain of middleware, the admin handlers and the end of the process.

## Runs

Each run is a module and a configuration; `tlc -config X.cfg M` repeats it. The
ones that find no error:

| run | checks | question |
|---|---|---|
| `window_ring` | `RingHoldsWindow`, `RateCountsRecent` | Does `advance` clear exactly the buckets that have expired, for gaps shorter than, equal to and longer than the ring and for late calls? |
| `breaker` | `OneProbePerHalfOpen`, `RefusesUntilTimeout`, `TripsOnFreshSamples`, `NoOrphanBreaker`, `EvictsOnlyIdle` | Do concurrent requests with old clock readings get past an open breaker, both become the probe, or trip a breaker that was just closed? Does a race of creators, or of the evictor's two phases with a request, lose a breaker that is in use? |
| `rate_limiter` | `RateBound`, `RetryAfterHonest`, `EvictsOnlyFull`, `ReplacesOnlyChanged` | From any instant on, do admissions stay within burst plus refill? Is a client that waits for Retry-After admitted if nobody else comes? Does eviction, or replacement when limits change, hand out tokens? |
| `stream` | `OneDoneLast`, `AccountedOnce`, `SuccessIsComplete`, `ChargesLastUsage`, `HandlerReturns` | Does every stream of every adapter end once, get accounted once with the right usage, count as a success only if nothing was dropped, and let its handler go? |
| `usage` | `ImplementsLedger`, `NeverOvercharged`, `LostOnlyForCause`, `RecordsMoveOn`, `TrackerCatchesUp`, `StopsAfterSignal` | Under a full channel, failing inserts, both shutdowns, a crash and a restart: is a record stored twice or revived, does one vanish without a cause, or is a request charged twice? Does a record leave memory, the tracker learn what the table holds, and a stop end? |
| `auth_cache` | `BoundedStaleness`, `StaleOnlyByRace`, `FieldsLostOnlyByRace` | How long can a blocked key be used, what makes an invalidation miss, and when does an update undo another? |
| `rollup` | `RollupsSettle`, `RollupsNeverShrink` | Are late records, failed upserts and cut queries made up for by a later cycle that is not cut? |
| `failover` | `AnsweredByPriority`, `ModelRestored`, `BoundedRouteStaleness` | Whatever targets are skipped or fail: is the answer from the right target, and the client's model back in the request? How long can a replaced route be followed? |
| `chat_path` | `HitsAreFresh`, `TTLOfRoute`, `HitAnswersRequest`, `SpeechKept`, `ResultsNameCalls` | Is a hit ever older than its TTL, and how long can a TTL be another than the route's? Does a hit answer the request it is given to? Over several rounds of text and tools through any adapters: does a provider get what was said, and does a tool result name the call it answers? |
| `server` | `WriterExclusive`, `NotesWhatWasSent`, `GaugeOffByPanics`, `ServesSeeded`, `BootKeepsRows` | Do two requests, or two layers of one, ever share a pooled writer, through panics too? Does each layer note the status the client got? By how much is the gauge of active requests wrong? After starts that fail or crash half-way: does a process serve without its rows, or a start overwrite an admin's? |

`TypeOK` documents the state of each module. Where there is a proof module it is
part of the inductive invariant and proved. The two runs that find a violation are
under [disagreements](#where-code-and-documents-disagree).

`CHECK_DEADLOCK FALSE` stands where a behaviour ends at its bounds: the clock has
reached its last tick, every request has been made, or no restart is left. In
`Stream` a finished stream may only stutter (`Over`) and deadlock is checked; so
it is in `WindowRing`.

## Bounds

Every bound is a constant named `Max...`, or the size of a set, and appears in a
guard. What they have to let happen:

- `window_ring`: three buckets over six seconds, so that gaps of less than, exactly
  and more than the ring occur, with calls two seconds late. The proof lifts it.
- `breaker`: a window of two seconds, trip at half of two samples, timeout of two
  ticks, six ticks: trip, refusal, probe and close fit. `MaxSamples` bounds results
  and calls in flight at three, one more than a trip needs. Two identities, so a
  breaker is evicted, or lost to another creator, and created anew.
- `rate_limiter`: two requests of a key whose limits change between two a minute
  (with three tokens) and none of its own (the default of two tokens), a minute of
  two ticks, four ticks and two limiters: a refill, a refusal, an eviction or a
  replacement. The estimate of three is above one of the token limits, and usages
  of one and four are below and above it.
- `stream`: a channel of two and five events. The channel is full with one more
  chunk waiting, and five events are enough for a usage before, after and between
  data in every protocol.
- `usage`: two requests, a channel of one, batches of two, one restart: overflow,
  full batch and partial batch, before and after a restart. Liveness is checked
  without symmetry, which keeps this run small.
- `auth_cache`: two requests, two admins and three versions of the key: two
  lookups and two writes in every order. A life of two ticks and a lag of one.
- `rollup`: two groups, three hours, two records a group and hour: late records in
  each hour that is still asked for. A limit of three cuts some queries.
- `failover`: two requests, routes of zero, two and three targets, unsorted, with
  equal priorities and an unregistered provider, two versions of the route, and
  one tick more than the life of a cached route and the lag.
- `chat_path`, response cache: two requests, one change of the TTL, any number of
  failing reads, lives of one and three ticks in eight, and an expiry of the cache of
  three: some entries end by their own TTL first, others by the expiry. Cache key: 95
  requests that differ pairwise in one or more of caller, model, messages,
  parameters, rounding and formatting, in a cache of one entry, which is enough for a
  property of pairs. Adapter: three kinds of adapter, two openings, four replies (text,
  a call between texts, two calls of the same and of different functions) and three
  rounds: a call, its result and the next call each pass through any adapter.
- `server`: two starts, seeds with an entry that is skipped (an empty key), provider
  entries that are disabled, of an unknown type and without credentials, two requests
  through logging and metrics, three writers (one fewer than two requests hold in both
  layers, so that they are reused soon) and one panic: a writer goes from one
  request to the other, and a start follows one that was cut short.

Requests are interchangeable, and so are admins: most runs of safety properties use
symmetry, runs of liveness do not.

## Fairness

- `CircuitBreaker`: weak fairness of each request that has begun. The scheduler
  runs it, mutexes are held briefly, and a provider call returns, at the latest
  when its context ends. Nothing makes requests arrive, time pass or the evictor
  run.
- `Stream`: weak fairness of the reader's sends and of the handler. An upstream
  may be silent for ever, so reading is fair only after cancellation, when
  net/http fails the pending read.
- `UsagePipeline`: weak fairness of recorder and quota sync, whose tickers fire,
  of `srv.Shutdown`, which has a timeout, and of the exit. Strong fairness of the
  sync's stop: in its `select` a cancelled context competes with the ticker, and
  Go chooses among ready cases at random. Strong fairness of a successful query
  of the sync: a store that fails does not fail every time. Nothing is assumed of
  requests.

## Proofs

`tlapm` checks them; all hold for every value of the constants under the `ASSUME`s
of the modules. Most of these state types and sizes that are not zero. The others:

- sets of requests are finite where they are counted (`UsagePipeline`, `Middleware`);
- the layers of the chain differ from each other (`Middleware`);
- an idle limiter is kept for at least a minute (`RateLimiter`; the default is an hour);
- the messages a client opens with hold no tool results and no role `model`, which is
  gemini's own, and every call of a provider
  has an ID and a function name that are not empty (`Adapter`).

Priorities of targets are compared as integers. The code subtracts them
(`router.go:83`), which is the same as long as no difference of two priorities
overflows an `int`.

| theorem | module | says, for any number of requests |
|---|---|---|
| `RingCorrect` | `CircuitBreakerProofs` | `RingHoldsWindow`, for every size of ring, lag and length |
| `RateIsRecent` | same | `RateCountsRecent` |
| `OneProbe` | same | `OneProbePerHalfOpen` |
| `NoOrphan` | same | `NoOrphanBreaker` |
| `Refuses` | same | `RefusesUntilTimeout` |
| `Evicts` | same | `EvictsOnlyIdle`, if the idle timeout is longer than the open timeout and the lag |
| `Trips` | same | `TripsOnFreshSamples`, for every size of window and threshold |
| `AdmissionBound` | `RateLimiterProofs` | `RateBound`, for any limits |
| `RetryAfterSuffices` | same | `RetryAfterHonest` |
| `EvictionGivesNothing` | same | `EvictsOnlyFull` |
| `ReplacementChanges` | same | `ReplacesOnlyChanged` |
| `EndsOnce` | `StreamProofs` | `OneDoneLast`, for every capacity of the channel and number of events |
| `Accounts` | same | `AccountedOnce` |
| `Completes` | same | `SuccessIsComplete` |
| `Charges` | same | `ChargesLastUsage` |
| `Overcharge` | `UsageProofs` | `NeverOvercharged`, for any channel, batch and number of restarts |
| `LossHasCause` | same | `LostOnlyForCause` |
| `Refinement` | same | `ImplementsLedger`: `UsagePipeline` implements `UsageLedger` |
| `Settles` | same | `RollupsSettle`, for any groups, hours and limit |
| `NeverShrink` | same | `RollupsNeverShrink` |
| `StalenessBound` | `AuthCacheProofs` | `BoundedStaleness`, for any number of admins |
| `InvalidationMissesOnlyRaces` | same | `StaleOnlyByRace` |
| `UpdatesLoseOnlyByRace` | same | `FieldsLostOnlyByRace` |
| `SortIsStable` | `FailoverProofs` | `sortTargets` permutes any targets, priorities ascend, equal ones keep their order |
| `ByPriority` | same | `AnsweredByPriority`, for any routes |
| `RestoresModel` | same | `ModelRestored` |
| `RouteStaleness` | same | `BoundedRouteStaleness` |
| `FreshHits` | `ChatPathProofs` | `HitsAreFresh` |
| `EntryTTL` | same | `TTLOfRoute` |
| `PathImplementsCache` | same | the entry of a key behaves in `ChatPath` as `ResponseCache` specifies |
| `HitIsForRequest` | same | `HitAnswersRequest`, for any set of requests and size of the cache |
| `KeepsSpeech` | same | `SpeechKept`, for conversations of any length |
| `NamesCalls` | same | `ResultsNameCalls`, for any replies and order of answers |
| `WritersExclusive` | `ServerProofs` | `WriterExclusive`, for any layers and writers |
| `GaugeDrift` | same | `GaugeOffByPanics` |
| `NotesTruth` | same | `NotesWhatWasSent` |
| `SeededBeforeServing` | same | `ServesSeeded`, for any file |
| `BootOnlyAdds` | same | `BootKeepsRows` |

Each of these modules defines one inductive invariant for each specification it is about
(`IInv`, and by other names where there are several), shows that the initial states satisfy
it and, with a lemma for each action or group of actions, that every step preserves it, and
takes the properties from it. TLC finds no violation of them either, on the instances of
the runs.

**Recursion.** Some operators recurse over numbers: the sums over a window (`SumOver`), the
concatenation of the parts of a request (`Joined`), the writers below a writer (`Reached`).
The library's induction theorems cannot be used by the provers, since they take an operator.
In their place stand `LeastNat`, a set of naturals has a least member, and `Climb`, a set with
0 and with the successor of each of its members has every natural; the statement to
be proved is then the definition of a set. A first induction shows that a
function with the recursive equation exists, so that the operator satisfies its own equation
(`SumOverUnfold`, `JoinedUnfold`); the others give what it computes.

**The ring.** What `advance` does to one bucket: the
buckets it clears, which the code enumerates as `head + 1 + i` modulo the size,
are those whose age becomes at least the size (`ExpiredIndex`). `RingHoldsWindow`
with the type invariant and a head that is not ahead of the last second is
inductive (`RingIInv`): `AdvanceHolds` shows that the ring after `advance` agrees with the
log, and `RecordStep` adds the sample to both. `RateIsRecent` follows from it:
`ErrorRate` sums the buckets in the order of the array, the log in the order of the
seconds, and a sum does not change when the array is turned (`SumOverTurns`).

**The breaker.** None of the properties is inductive. `IInv` adds to the type
invariant:

- `Fetched`: a request that waits for the mutex holds a breaker that exists, and
  fetched it at most `MaxLag` ago. Without it a clock reading could be of any age
  and `Refuses` would fail;
- `Consistent`: a breaker is probing exactly when it is half-open, and has then
  admitted one request; an open one was opened by a clock reading at most `MaxLag`
  before it tripped; `lastUsed` is behind `openedAt` by no more than `MaxLag`,
  and neither is ahead of the clock;
- `RegistryInv`: the registered breaker was created and not evicted, and every
  one created and not evicted is the registered one;
- the cutoff that the evictor remembers between its phases is old enough.

`StepInv` has one lemma per action. The action properties then follow from `IInv`
before the step. `Evicts` needs its hypothesis on the timeouts: a breaker evicted
sooner might still be open. The defaults (one hour and 30 seconds) satisfy it.
`Trips` adds `FreshInv`: the window of a breaker counts no more samples than were recorded
since it was created or last closed. It needs that `advance` never raises a sum
(`AdvanceTotals`), that `Record` raises it by one at most, and that `Reset` leaves zero.

**The limiter.** `RateBound` counts admissions since an instant; a step knows only the
tokens. The invariant ties them: a bucket has at most its capacity, and what was spent
since the mark, in units of tokens, together with the tokens that are left, is at most
a burst and the refill up to the last refill (`Paid`). `Kept`: the tokens a refused client
was told to wait for will have come in by then, unless somebody takes from the bucket.
`FreshInv` is that an identity not yet in use has no history and no holder, and
`EvictorInv` that the cutoff the evictor carries between its phases is old enough. A
limiter that was idle for a minute has been refilled in full (`EvictsOnlyFull`).

**The stream.** The properties are about what has come out; the invariant must also say
what is still inside. `Numbered`: the chunks in the channel and in the reader's hands
continue the lines already written, without a gap, then come Done and an error, if
at all. `Drains`: a handler that takes these chunks ends with the adapter's last usage, once
the adapter has sent on the last one it will report (`Settled`, which differs by
protocol). `ReturnedInv` has the three ways in which a handler returns.

**Accounting.** `NeverOvercharged` needs to know where each record is. `QueueInv`: a
record is once in the channel or the buffer, put there by a request that is done, and has no
row while it is there. `CostInv`: a request with a price is charged between its response and
its record, and the sum that the sync has read is at most what is charged. `StopInv`:
the recorder drains only in a cancelled process, and a clean stop has no request in
flight. `Refinement` maps a record in memory to "pending", one with a row to "stored" and
the rest of the finished ones to "lost".

**Rollups.** A rollup never counts more than the table. `CycleInFlight` says what
the sums that a cycle carries to its upserts are worth by then: at most the table, and
if the query was not cut, no less than the rollup, and all of an hour that was over.

**Authentication.** `LookupInv` and `CacheInv` bound the age of the row that a lookup
carries and of the one that is cached, by the time at which its version was replaced.
`RaceInv` is the hard one. Unless a lookup was under way when the row was written:
lookups have the row of the store, a cached key is in the index or about to be, and an
outdated entry in the cache means that an admin handler is on its way to drop it.

**Failover.** `SortIsStable` counts: the place of a target is the number of targets
that do not come after it, which differs for any two, so that the places are a
permutation. With it the cached route and every plan ascend. `Progress` says where a request is: every
target before the current one was passed over, and only a request in a call has another
model than its client's. `Staleness` bounds the age of the route that a lookup carries and of
the cached one.

**Response cache.** `StoreInv` and `TTLCacheInv` say where a TTL in the cache of TTLs
comes from: the route as it is, as it was before the last change, or a failed read, and
since when. `EntryInv` carries it over to the entry, whose response is at most `MaxLag`
older than its insertion. `PathImplementsCache` carries the theorems over to `ChatPath`.

**Cache key.** The entry under a key was stored by a request with that key. What remains is
about the operators: from equal keys `KeyFields` gets equal fields, `RoundNear` that two
floats which round to the same differ by less than a ten-thousandth, and `SameKey` puts them
together.

**Adapters.** What a provider reads out of a request is what the client sent, since each
translation works on one message at a time: `Flat(f, s)` joins what `f` makes of each
member of `s`, it distributes over concatenation (`FlatConcat`), and two of them in a row
are one (`FlatFlat`). `TurnSays` compares for one message, and `RequestSays` for
all. `ChatInv` adds that what was said is what the messages say, that the last reply lists
the calls made last, and that the tool messages have the names of the answered calls.

**Server.** `DepthInv`: a request holds one writer for each layer it has entered.
With `WriterExclusive` it is inductive, and it gives `GaugeOffByPanics`, since who holds
a writer of the metrics layer is counted. `SeedInv`: no request is under way while the
process is down or starting, and the seeds before the one the start has come to are in
the table. For `NotesTruth`, `NoteInv` adds that the writers a request holds are a chain
down to its connection, each with the status the connection has sent (`Linked`), and what
the layers it has left have noted (`Noting`). `ReachedIsChain` then is the induction: a call
on the outermost writer reaches these writers and this connection, and no other.

Only model-checked: the liveness properties `HandlerReturns`, `RecordsMoveOn`,
`TrackerCatchesUp` and `StopsAfterSignal`, since liveness under fairness is out of the
prover's reach, and that the two properties of the next section fail.

## Where code and documents disagree

Two runs check one sentence of a document or comment each, and TLC finds a behaviour of the
code that contradicts it. `PROJECT.json` quotes the sentences.

| run | property | what happens |
|---|---|---|
| `breaker_stuck` | `ProbeResolves` | a probe that ends in a client error is not recorded, and the breaker refuses everything from then on |
| `stream_leak` | `ReaderEnds` | the client leaves, the channel is full, and the reader blocks for ever |

`ReaderEnds` and `HandlerReturns` are the two halves of the end of a stream: the
handler always returns, the reader need not.

The modules also contain the following, which no run reports: the properties are
stated so that they except it or count it as a cause.

| module | what the code does | what is said elsewhere |
|---|---|---|
| `CircuitBreaker` | a request from before the trip that returns in the half-open period decides it | `docs/spec.md:525`: "1 probe request; success -> CLOSED, failure -> OPEN" |
| `RateLimiter` | an estimate above the limit gets a Retry-After although it can never be served (`RetryAfterHonest` excepts it) | the meaning of the header |
| `RateLimiter` | usage above the estimate is taken from a count that was not refilled, and what is missing is forgiven | `ratelimit.go:156`: "negative consumes more" |
| `Stream` | a body that ends before `[DONE]` is a success (`SuccessIsComplete` speaks of what was read) | `openai/client.go:99`: "closed after sending a Done sentinel or an error chunk" |
| `UsagePipeline` | a flush that starts after cancellation loses its batch in a clean stop (`LostOnlyForCause` counts it as a failed INSERT) | `usage_recorder.go`: "drains remaining records" |
| `UsagePipeline` | after a shutdown that timed out the process does not wait for the drain (counted as the end of the process) | `run.go:379`: "so in-flight requests finish recording" |
| `UsagePipeline` | a spent key is admitted after a restart until the first reload | `quota.go:43` says it, as "no entry exists yet" |
| `AuthCache` | of two concurrent updates of a key the later one undoes the other (`FieldsLostOnlyByRace` says when) | `admin.go:316`: "on top of existing" |
| `Rollup` | records beyond the limit are missed by every cycle over their hours | `usage_rollup.go:69`: "picked up in the next one" |
| `Failover` | a 429 ends the loop, as every 4xx does | `docs/spec.md:547`: 429 is retryable |
| `ResponseCache` | a route that cannot be read counts as one without a TTL (`TTLOfRoute` bounds for how long) | `router.go:90`: 0 if none is configured |
| `ResponseCache` | the cache's own expiry cuts a longer TTL | `memory.go:47`: "per-entry TTL" |
| `CacheKey` | requests with a float that overflows in rounding all have one key (`HitAnswersRequest` excepts them) | `cache_test.go:40`: different messages, different keys |
| `Startup` | every start seeds again, so a row of the file that an admin deleted is back after a restart (`ServesSeeded` speaks of rows deleted since the start) | `bootstrap.go:18`: "on first run" |
| `Middleware` | a panic skips the decrement of the gauge, which is one too high for each (`GaugeOffByPanics`) | `telemetry/metrics.go:42`: "Number of currently active requests." |
| `Adapter` | the tool calls of an assistant's message are left out of requests to anthropic and gemini, so that a result stands there without its call (`SpeechKept` is about texts) | `anthropic/translate.go:57`, which keeps the results: "Tool results map to user role in Anthropic's format" |

## Not modelled

- **Cloud authentication**: wraps transports of libraries that sign and refresh.
- **Token counting**: an estimate; `RateLimiter` takes any estimate.

Parts of modelled components:

- **Process life cycle**: flags, the refresh of the DNS cache and the tracing provider.
- **Admin handlers**: validation, lists and reports of usage, which only read.
- **Translation**: sampling parameters, tool schemas and stop reasons, which are copied
  field by field without state.
- **Native requests**: headers and the bytes of a body. `Failover` has the choice of the
  target and the one attempt, `Middleware` how `ForwardRequest` writes the response.
- **Configuration**: syntax, defaults and the expansion of variables.
- **Storage**: SQLite's locking, migrations and pagination. The statements the
  modelled parts use are atomic steps that may fail.
- **Telemetry**: counters and spans that no decision reads, apart from the gauge and the
  statuses of `Middleware`.

Two hazards that `PROJECT.json` lists have no property, since they happen: a late
result decides a half-open period, and the correction of an estimate forgives what the
bucket does not hold. Both are in the table above.

Abstracted within the modelled parts: float64 arithmetic of the buckets (exact
here), the wording of chunks and errors, hashing, permissions and headers. A
request costs one unit in `UsagePipeline`, and a rollup is its request count.
Clocks do not go back.

## Plan

Done: the modules, runs and proofs above, in the order breaker, limiter, stream,
accounting, authentication, rollup, failover, response cache, middleware, start,
adapters; then the proofs of accounting, server, authentication, limiter and response
cache, and last those of stream, rollup, failover, cache key, adapters, and the sums of
the window.

Next, in modelling:

1. `Gateway`: failover and circuit breakers in one module, with several providers:
   a request reaches a working provider although breakers open and close, and a
   failing provider is left alone.
2. `ProviderRegistry`: lookup by name and by type while requests are under way.
3. Quota of several keys, for the partial failure of `SyncAll`.
4. Pages of lists under concurrent inserts.

Next, in proofs: the implications between modules, such as that `Breaker` within
`CircuitBreaker` uses the window as `WindowRing` does, and the invariants of what is
modelled next.
