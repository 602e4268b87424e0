------------------------------ MODULE Failover ------------------------------
(***************************************************************************)
(* Routing and failover: ResolveModel of internal/app/router.go with its   *)
(* cache of routes, the failover loop that ChatCompletion,                 *)
(* ChatCompletionStream and Embeddings of internal/app/proxy.go have in    *)
(* common, the native passthrough of internal/server/native.go, and the    *)
(* admin handlers that change the route in the store meanwhile.            *)
(*                                                                         *)
(* There is one alias.  What a circuit breaker or a provider answers is    *)
(* left open here; CircuitBreaker has the breakers.                        *)
(***************************************************************************)
EXTENDS Integers, Sequences, FiniteSets

CONSTANTS
  Requests,      \* goroutines
  Providers,     \* registered providers
  NativeType,    \* providers of the type of the native API
  Routes,        \* target lists the route may have: Seq([prov, model, prio])
  Alias,         \* the model that clients ask for
  RouteTTL,      \* life of a cached route (10 seconds)
  MaxLag,        \* assumed: longest time from reading the route to caching it
  MaxTime,       \* bound: length of a behaviour
  MaxVersions    \* bound: versions of the route

Targets == UNION {{ts[k] : k \in 1 .. Len(ts)} : ts \in Routes}

ASSUME FailoverAssumption ==
  /\ RouteTTL \in Nat \ {0} /\ MaxLag \in Nat /\ MaxTime \in Nat
  /\ MaxVersions \in Nat \ {0}
ASSUME RoutesAssumption ==
  Routes \subseteq Seq(Targets) /\ \A t \in Targets : t.prio \in Int

Versions == 1 .. MaxVersions
NoRoute  == [ver |-> 0, targets |-> <<>>]
RouteRow == [ver : Versions, targets : Routes]
Outcomes == {"ok", "4xx", "failed"}
Models   == {Alias} \cup {t.model : t \in Targets}

VARIABLES
  clock,     \* now, in seconds
  route,     \* the route in the store
  versions,  \* history: versions of the route so far
  replaced,  \* history: version -> when it was overwritten or deleted
  rcache,    \* RouterService.cache of the alias: route, sorted, and time
  pc,        \* request -> step it is about to take
  native,    \* request -> it came in by a native route
  model,     \* request -> req.Model
  orig,      \* request -> origModel
  plan,      \* request -> route it follows
  readAt,    \* request -> when it read the route from the store
  next,      \* request -> index of the next target
  tried,     \* request -> outcome of the targets before next
  lastErr,   \* request -> lastErr
  result,    \* request -> what the loop returned
  used       \* history: last route followed: version and time

routeVars == <<route, versions, replaced>>
reqVars   == <<pc, native, model, orig, plan, readAt, next, tried, lastErr, result>>
vars      == <<clock, routeVars, rcache, reqVars, used>>

Results == Outcomes \cup {"none", "store error", "not found", "no targets", "open", "missing",
                          "unfit", "no native provider"}

SortedTargets == [ver : Versions, targets : Seq(Targets)]

TypeOK ==
  /\ clock \in Nat
  /\ route \in RouteRow \cup {NoRoute}
  /\ versions \in Versions
  /\ replaced \in [Versions -> Nat]
  /\ rcache \in [plan : SortedTargets \cup {NoRoute}, at : Nat]
  /\ pc \in [Requests -> {"idle", "read", "set", "loop", "call", "done"}]
  /\ native \in [Requests -> BOOLEAN]
  /\ model \in [Requests -> Models]
  /\ orig \in [Requests -> Models]
  /\ plan \in [Requests -> SortedTargets \cup {NoRoute}]
  /\ readAt \in [Requests -> Nat]
  /\ next \in [Requests -> Nat \ {0}]
  /\ tried \in [Requests -> Seq(Results)]
  /\ \A r \in Requests : Len(tried[r]) <= Len(plan[r].targets)
  /\ lastErr \in [Requests -> Results]
  /\ result \in [Requests -> Results]
  /\ used \in [ver : Versions \cup {0}, at : Nat]

Init ==
  /\ clock = 1
  /\ route \in [ver : {1}, targets : Routes]
  /\ versions = 1
  /\ replaced = [v \in Versions |-> 0]
  /\ rcache = [plan |-> NoRoute, at |-> 0]
  /\ pc = [r \in Requests |-> "idle"]
  /\ native = [r \in Requests |-> FALSE]
  /\ model = [r \in Requests |-> Alias]
  /\ orig = [r \in Requests |-> Alias]
  /\ plan = [r \in Requests |-> NoRoute]
  /\ readAt = [r \in Requests |-> 0]
  /\ next = [r \in Requests |-> 1]
  /\ tried = [r \in Requests |-> <<>>]
  /\ lastErr = [r \in Requests |-> "none"]
  /\ result = [r \in Requests |-> "none"]
  /\ used = [ver |-> 0, at |-> 0]

\* Time passes; no request holds a route that it read for longer than MaxLag
\* before it caches it.
Tick ==
  /\ clock < MaxTime
  /\ \A r \in Requests : pc[r] = "set" => clock - readAt[r] < MaxLag
  /\ clock' = clock + 1
  /\ UNCHANGED <<routeVars, rcache, reqVars, used>>
-----------------------------------------------------------------------------
(* ResolveModel. *)

\* Mutant: the targets are taken as they are stored.
sortTargetsNot(ts) == ts

\* The targets of ts that do not come after its i-th when the sort is stable.
UpTo(ts, i) ==
  {j \in 1 .. Len(ts) : \/ ts[j].prio < ts[i].prio
                        \/ ts[j].prio = ts[i].prio /\ j <= i}

\* SortStableFunc by ascending priority.
sortTargets(ts) ==
  [k \in 1 .. Len(ts) |->
     ts[CHOOSE i \in 1 .. Len(ts) : Cardinality(UpTo(ts, i)) = k]]

\* Mutant: a cached route never expires.
CachedAlways == rcache.plan # NoRoute

Cached == rcache.plan # NoRoute /\ clock - rcache.at < RouteTTL

Follow(r, p) ==
  /\ plan' = [plan EXCEPT ![r] = p]
  /\ used' = [ver |-> p.ver, at |-> clock]

Arrive(r, n) ==
  /\ pc[r] = "idle"
  /\ native' = [native EXCEPT ![r] = n]
  /\ IF Cached
     THEN /\ pc' = [pc EXCEPT ![r] = "loop"]
          /\ Follow(r, rcache.plan)
     ELSE /\ pc' = [pc EXCEPT ![r] = "read"]
          /\ UNCHANGED <<plan, used>>
  /\ UNCHANGED <<clock, routeVars, rcache, model, orig, readAt, next, tried, lastErr, result>>

\* The error of ResolveModel, or "none".
ResolveError(rt) ==
  IF rt = NoRoute THEN "not found" ELSE IF rt.targets = <<>> THEN "no targets" ELSE "none"

\* GetRouteByAlias, which may fail, parsing and sorting.
GetRouteByAlias(r, ok) ==
  LET err == IF ok THEN ResolveError(route) ELSE "store error"
  IN  /\ pc[r] = "read"
      /\ pc' = [pc EXCEPT ![r] = IF err = "none" THEN "set" ELSE "done"]
      /\ result' = [result EXCEPT ![r] = err]
      /\ plan' = [plan EXCEPT ![r] = IF err = "none"
                                     THEN [ver |-> route.ver, targets |-> sortTargets(route.targets)]
                                     ELSE NoRoute]
      /\ readAt' = [readAt EXCEPT ![r] = clock]
      /\ UNCHANGED <<clock, routeVars, rcache, native, model, orig, next, tried, lastErr, used>>

\* rs.cache.Set.
CacheRoute(r) ==
  /\ pc[r] = "set"
  /\ rcache' = [plan |-> plan[r], at |-> clock]
  /\ pc' = [pc EXCEPT ![r] = "loop"]
  /\ readAt' = [readAt EXCEPT ![r] = 0]
  /\ Follow(r, plan[r])
  /\ UNCHANGED <<clock, routeVars, native, model, orig, next, tried, lastErr, result>>
-----------------------------------------------------------------------------
(* The failover loop. *)

InLoop(r) == pc[r] = "loop" /\ ~ native[r] /\ next[r] <= Len(plan[r].targets)
Target(r) == plan[r].targets[next[r]]

\* continue.
NextTarget(r, outcome) ==
  /\ next' = [next EXCEPT ![r] = @ + 1]
  /\ tried' = [tried EXCEPT ![r] = Append(@, outcome)]
  /\ lastErr' = [lastErr EXCEPT ![r] = outcome]

\* The breaker does not allow the request.
BreakerRefuses(r) ==
  /\ InLoop(r)
  /\ NextTarget(r, "open")
  /\ UNCHANGED <<clock, routeVars, rcache, pc, native, model, orig, plan, readAt, result, used>>

\* The route names a provider that is not registered.
ProviderMissing(r) ==
  /\ InLoop(r)
  /\ Target(r).prov \notin Providers
  /\ NextTarget(r, "missing")
  /\ UNCHANGED <<clock, routeVars, rcache, pc, native, model, orig, plan, readAt, result, used>>

CallProvider(r) ==
  /\ InLoop(r)
  /\ Target(r).prov \in Providers
  /\ orig' = [orig EXCEPT ![r] = model[r]]
  /\ model' = [model EXCEPT ![r] = Target(r).model]
  /\ pc' = [pc EXCEPT ![r] = "call"]
  /\ UNCHANGED <<clock, routeVars, rcache, native, plan, readAt, next, tried, lastErr, result, used>>

\* Every status from 400 to 499 of a provider, 429 included; the other kinds of
\* client error do not come from one.
isClientError(outcome) == outcome = "4xx"

\* Mutant: the model is put back after a success only.
ProviderReturnsNoRestore(r, outcome) ==
  /\ pc[r] = "call"
  /\ model' = [model EXCEPT ![r] = IF outcome = "ok" THEN orig[r] ELSE @]
  /\ IF outcome = "ok" \/ isClientError(outcome)
     THEN /\ pc' = [pc EXCEPT ![r] = "done"]
          /\ result' = [result EXCEPT ![r] = outcome]
          /\ tried' = [tried EXCEPT ![r] = Append(@, outcome)]
          /\ UNCHANGED <<next, lastErr>>
     ELSE /\ pc' = [pc EXCEPT ![r] = "loop"]
          /\ NextTarget(r, outcome)
          /\ UNCHANGED result
  /\ UNCHANGED <<clock, routeVars, rcache, native, orig, plan, readAt, used>>

\* The provider answers: return on success and on a client error, else go on.
ProviderReturns(r, outcome) ==
  /\ pc[r] = "call"
  /\ model' = [model EXCEPT ![r] = orig[r]]
  /\ IF outcome = "ok" \/ isClientError(outcome)
     THEN /\ pc' = [pc EXCEPT ![r] = "done"]
          /\ result' = [result EXCEPT ![r] = outcome]
          /\ tried' = [tried EXCEPT ![r] = Append(@, outcome)]
          /\ UNCHANGED <<next, lastErr>>
     ELSE /\ pc' = [pc EXCEPT ![r] = "loop"]
          /\ NextTarget(r, outcome)
          /\ UNCHANGED result
  /\ UNCHANGED <<clock, routeVars, rcache, native, orig, plan, readAt, used>>

\* return nil, lastErr.
Exhausted(r) ==
  /\ pc[r] = "loop" /\ ~ native[r]
  /\ next[r] > Len(plan[r].targets)
  /\ pc' = [pc EXCEPT ![r] = "done"]
  /\ result' = [result EXCEPT ![r] = lastErr[r]]
  /\ UNCHANGED <<clock, routeVars, rcache, native, model, orig, plan, readAt, next, tried,
                 lastErr, used>>

IsNative(t) == t.prov \in Providers \cap NativeType

\* handleNativeProxy: the first target that speaks the native API gets the
\* request as it is, and its answer, good or bad, is the answer.
NativeForward(r, outcome) ==
  LET ts  == plan[r].targets
      fit == {k \in 1 .. Len(ts) : IsNative(ts[k])}
      k   == CHOOSE i \in fit : \A j \in fit : i <= j
  IN  /\ pc[r] = "loop" /\ native[r]
      /\ pc' = [pc EXCEPT ![r] = "done"]
      /\ IF fit = {}
         THEN /\ result' = [result EXCEPT ![r] = "no native provider"]
              /\ UNCHANGED <<next, tried>>
         ELSE /\ result' = [result EXCEPT ![r] = outcome]
              /\ next' = [next EXCEPT ![r] = k]
              /\ tried' = [tried EXCEPT ![r] = [i \in 1 .. k |-> IF i = k THEN outcome ELSE "unfit"]]
      /\ UNCHANGED <<clock, routeVars, rcache, native, model, orig, plan, readAt, lastErr, used>>

\* The handler is done, and its variables are gone.
Finish(r) ==
  /\ pc[r] = "done"
  /\ pc' = [pc EXCEPT ![r] = "idle"]
  /\ native' = [native EXCEPT ![r] = FALSE]
  /\ model' = [model EXCEPT ![r] = Alias]
  /\ orig' = [orig EXCEPT ![r] = Alias]
  /\ plan' = [plan EXCEPT ![r] = NoRoute]
  /\ readAt' = [readAt EXCEPT ![r] = 0]
  /\ next' = [next EXCEPT ![r] = 1]
  /\ tried' = [tried EXCEPT ![r] = <<>>]
  /\ lastErr' = [lastErr EXCEPT ![r] = "none"]
  /\ result' = [result EXCEPT ![r] = "none"]
  /\ UNCHANGED <<clock, routeVars, rcache, used>>
-----------------------------------------------------------------------------
(* The admin handlers: they write the store and leave the cache alone. *)

Replace == replaced' = [replaced EXCEPT ![route.ver] = clock]

CreateRoute(ts) ==
  /\ route = NoRoute
  /\ versions < MaxVersions
  /\ versions' = versions + 1
  /\ route' = [ver |-> versions + 1, targets |-> ts]
  /\ UNCHANGED <<clock, replaced, rcache, reqVars, used>>

UpdateRoute(ts) ==
  /\ route # NoRoute
  /\ versions < MaxVersions
  /\ versions' = versions + 1
  /\ route' = [ver |-> versions + 1, targets |-> ts]
  /\ Replace
  /\ UNCHANGED <<clock, rcache, reqVars, used>>

DeleteRoute ==
  /\ route # NoRoute
  /\ route' = NoRoute
  /\ Replace
  /\ UNCHANGED <<clock, versions, rcache, reqVars, used>>

RequestStep(r) ==
  \/ \E n \in BOOLEAN : Arrive(r, n)
  \/ \E ok \in BOOLEAN : GetRouteByAlias(r, ok)
  \/ CacheRoute(r)
  \/ BreakerRefuses(r)
  \/ ProviderMissing(r)
  \/ CallProvider(r)
  \/ \E o \in Outcomes : ProviderReturns(r, o)
  \/ Exhausted(r)
  \/ \E o \in Outcomes : NativeForward(r, o)
  \/ Finish(r)

Next ==
  \/ Tick
  \/ \E r \in Requests : RequestStep(r)
  \/ \E ts \in Routes : CreateRoute(ts) \/ UpdateRoute(ts)
  \/ DeleteRoute

Spec == Init /\ [][Next]_vars
-----------------------------------------------------------------------------
(* A request is answered by the target that comes first: every target of   *)
(* its route with a smaller priority number could not be used or failed    *)
(* in a way that allows failover.                                          *)
AnsweredByPriority ==
  \A r \in Requests :
    pc[r] = "done" /\ result[r] = "ok"
      => \A k \in 1 .. Len(plan[r].targets) :
           plan[r].targets[k].prio < plan[r].targets[next[r]].prio
             => k < next[r] /\ tried[r][k] \in {"open", "missing", "unfit", "failed"}

(* Whatever targets were tried, the request has the model the client asked *)
(* for again: the response cache and the usage record go by it.            *)
ModelRestored ==
  \A r \in Requests : pc[r] # "call" => model[r] = Alias

(* A route that was changed or deleted is followed for less than the life  *)
(* of a cached route and the time to cache it.                             *)
BoundedRouteStaleness ==
  used.ver = 0 \/ replaced[used.ver] = 0
    \/ used.at - replaced[used.ver] < RouteTTL + MaxLag
=============================================================================
