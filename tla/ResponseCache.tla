---------------------------- MODULE ResponseCache ----------------------------
(***************************************************************************)
(* The response cache around a chat completion: the cache check and the    *)
(* cache store of handleChatCompletion in internal/server/proxy.go, Memory *)
(* of internal/cache/memory.go on top of an otter cache with an expiry of  *)
(* its own, and the TTL of the route, read through ttlCache of             *)
(* internal/app/router.go.  There is one cache key.                        *)
(***************************************************************************)
EXTENDS Integers

CONSTANTS
  Requests,     \* goroutines with the same cacheable request
  RouteTTLs,    \* values of cache_ttl_s of the route, 0 for unset
  DefaultTTL,   \* expiry of the otter cache (cache.default_ttl)
  FallbackTTL,  \* TTL for a route without one (5 minutes)
  RouteCache,   \* life of an entry of ttlCache (10 seconds)
  MaxLag,       \* assumed: longest time from response to cache store
  MaxTime       \* bound: length of a behaviour

ASSUME ResponseCacheAssumption ==
  /\ RouteTTLs \subseteq Nat
  /\ DefaultTTL \in Nat /\ FallbackTTL \in Nat \ {0} /\ RouteCache \in Nat \ {0}
  /\ MaxLag \in Nat /\ MaxTime \in Nat \ {0}

Times   == 0 .. MaxTime
NoEntry == [born |-> 0, at |-> 0, ttl |-> 0]
NoTTL   == [ttl |-> 0, at |-> -1]

VARIABLES
  clock,     \* now, in seconds
  routeTTL,  \* cache_ttl_s of the route in the store
  changed,   \* history: when routeTTL was last changed, and its value before
  failed,    \* history: when the route was last not read for an error, or 0
  ttlCache,  \* RouterService.ttlCache of the alias
  entry,     \* the entry: when its response was made and stored, and its TTL
  pc,        \* request -> step it is about to take
  born,      \* request -> when its response was made
  ttl,       \* request -> TTL for its response
  hit        \* history: last hit: age of the response and TTL of the entry

reqVars  == <<pc, born, ttl>>
histVars == <<changed, failed>>
vars     == <<clock, routeTTL, histVars, ttlCache, entry, reqVars, hit>>

TTLs == RouteTTLs \cup {0, FallbackTTL}

TypeOK ==
  /\ clock \in Times
  /\ routeTTL \in RouteTTLs
  /\ changed \in [at : Times, before : RouteTTLs]
  /\ failed \in Times
  /\ ttlCache \in [ttl : TTLs, at : Times] \cup {NoTTL}
  /\ entry \in [born : Times, at : Times, ttl : TTLs]
  /\ pc \in [Requests -> {"idle", "invalidate", "call", "ttl", "fill", "set"}]
  /\ born \in [Requests -> Times]
  /\ ttl \in [Requests -> TTLs]
  /\ hit \in [age : Times, ttl : TTLs]

Init ==
  /\ clock = 1
  /\ routeTTL \in RouteTTLs
  /\ changed = [at |-> 0, before |-> routeTTL]
  /\ failed = 0
  /\ ttlCache = NoTTL
  /\ entry = NoEntry
  /\ pc = [r \in Requests |-> "idle"]
  /\ born = [r \in Requests |-> 0]
  /\ ttl = [r \in Requests |-> 0]
  /\ hit = [age |-> 0, ttl |-> 0]

Tick ==
  /\ clock < MaxTime
  /\ \A r \in Requests : pc[r] \in {"ttl", "fill", "set"} => clock - born[r] < MaxLag
  /\ clock' = clock + 1
  /\ UNCHANGED <<routeTTL, histVars, ttlCache, entry, reqVars, hit>>

\* What the otter cache still holds: it drops entries DefaultTTL after they
\* were written, whatever their own TTL is.
Present(e) == e # NoEntry /\ clock - e.at < DefaultTTL

\* Mutant: only the expiry of the otter cache counts.
ExpiredNever(e) == FALSE

\* time.Now().After(e.expiresAt).
Expired(e) == clock > e.at + e.ttl

\* Memory.Get: an entry past its own TTL is about to be invalidated.
Get(r) ==
  /\ pc[r] = "idle"
  /\ IF Present(entry) /\ ~ Expired(entry)
     THEN /\ hit' = [age |-> clock - entry.born, ttl |-> entry.ttl]
          /\ UNCHANGED pc
     ELSE /\ pc' = [pc EXCEPT ![r] = IF Present(entry) THEN "invalidate" ELSE "call"]
          /\ UNCHANGED hit
  /\ UNCHANGED <<clock, routeTTL, histVars, ttlCache, entry, born, ttl>>

\* Memory.Get: whatever is there by now goes.
Invalidate(r) ==
  /\ pc[r] = "invalidate"
  /\ pc' = [pc EXCEPT ![r] = "call"]
  /\ entry' = NoEntry
  /\ UNCHANGED <<clock, routeTTL, histVars, ttlCache, born, ttl, hit>>

\* The proxy returns a response ...
Respond(r) ==
  /\ pc[r] = "call"
  /\ pc' = [pc EXCEPT ![r] = "ttl"]
  /\ born' = [born EXCEPT ![r] = clock]
  /\ UNCHANGED <<clock, routeTTL, histVars, ttlCache, entry, ttl, hit>>

\* ... or an error, and nothing is cached.
RespondError(r) ==
  /\ pc[r] = "call"
  /\ pc' = [pc EXCEPT ![r] = "idle"]
  /\ UNCHANGED <<clock, routeTTL, histVars, ttlCache, entry, born, ttl, hit>>

\* cacheTTL.
Effective(t) == IF t > 0 THEN t ELSE FallbackTTL

\* Mutant: what was read from the store once is kept for good.
TTLCachedAlways == ttlCache # NoTTL

TTLCached == ttlCache # NoTTL /\ clock - ttlCache.at < RouteCache

\* CacheTTL with the TTL in its cache ...
CacheTTL(r) ==
  /\ pc[r] = "ttl" /\ TTLCached
  /\ ttl' = [ttl EXCEPT ![r] = Effective(ttlCache.ttl)]
  /\ pc' = [pc EXCEPT ![r] = "set"]
  /\ UNCHANGED <<clock, routeTTL, histVars, ttlCache, entry, born, hit>>

\* ... or read from the store, where a failure counts as no TTL, ...
CacheTTLRead(r, ok) ==
  /\ pc[r] = "ttl" /\ ~ TTLCached
  /\ ttl' = [ttl EXCEPT ![r] = IF ok THEN routeTTL ELSE 0]
  /\ failed' = IF ok THEN failed ELSE clock
  /\ pc' = [pc EXCEPT ![r] = "fill"]
  /\ UNCHANGED <<clock, routeTTL, changed, ttlCache, entry, born, hit>>

\* ... and cached, whoever has cached another one meanwhile.
CacheTTLFill(r) ==
  /\ pc[r] = "fill"
  /\ ttlCache' = [ttl |-> ttl[r], at |-> clock]
  /\ ttl' = [ttl EXCEPT ![r] = Effective(@)]
  /\ pc' = [pc EXCEPT ![r] = "set"]
  /\ UNCHANGED <<clock, routeTTL, histVars, entry, born, hit>>

\* Memory.Set.
Set(r) ==
  /\ pc[r] = "set"
  /\ entry' = [born |-> born[r], at |-> clock, ttl |-> ttl[r]]
  /\ pc' = [pc EXCEPT ![r] = "idle"]
  /\ born' = [born EXCEPT ![r] = 0]
  /\ ttl' = [ttl EXCEPT ![r] = 0]
  /\ UNCHANGED <<clock, routeTTL, histVars, ttlCache, hit>>

\* handleCachePurge; the otter cache may also drop the entry to make room.
Purge ==
  /\ entry # NoEntry
  /\ entry' = NoEntry
  /\ UNCHANGED <<clock, routeTTL, histVars, ttlCache, reqVars, hit>>

\* The route is updated, at most once in a behaviour.
UpdateRoute(t) ==
  /\ changed.at = 0
  /\ t # routeTTL
  /\ routeTTL' = t
  /\ changed' = [at |-> clock, before |-> routeTTL]
  /\ UNCHANGED <<clock, failed, ttlCache, entry, reqVars, hit>>

Next ==
  \/ Tick
  \/ \E r \in Requests :
       \/ Get(r) \/ Invalidate(r) \/ Respond(r) \/ RespondError(r)
       \/ CacheTTL(r) \/ CacheTTLFill(r) \/ Set(r)
       \/ \E ok \in BOOLEAN : CacheTTLRead(r, ok)
  \/ Purge
  \/ \E t \in RouteTTLs : UpdateRoute(t)

Spec == Init /\ [][Next]_vars
-----------------------------------------------------------------------------
(* A hit is no older than the TTL it was stored with and the time it took  *)
(* to store it, even where the otter cache keeps entries longer.           *)
HitsAreFresh == hit.age <= hit.ttl + MaxLag

(* An entry has the TTL of its route, or the fallback of a route that has  *)
(* none.  Another TTL, that of the route before its last change or the     *)
(* fallback of a route that could not be read, is used only for as long as *)
(* ttlCache may have kept it: from when it was read and cached to when the *)
(* response goes to its entry.                                             *)
TTLOfRoute ==
  LET recent(t) == t > 0 /\ entry.at - t < RouteCache + 2 * MaxLag
  IN  entry # NoEntry
        => \/ entry.ttl = Effective(routeTTL)
           \/ entry.ttl = Effective(changed.before) /\ recent(changed.at)
           \/ entry.ttl = FallbackTTL /\ recent(failed)
=============================================================================
