--------------------------- MODULE FailoverProofs ---------------------------
(***************************************************************************)
(* Proofs about Failover, for every routing table, any number of requests  *)
(* and of changes by admins, and every length of a behaviour.              *)
(***************************************************************************)
EXTENDS Failover, FiniteSetTheorems, NaturalsInduction, WellFoundedInduction, TLAPS

Ascending(ts) == \A i, j \in 1 .. Len(ts) : i < j => ts[i].prio <= ts[j].prio

\* Outcomes after which the loop goes on.
Passed == {"open", "missing", "unfit", "failed"}

(* Where a request is in its plan: before the loop it has tried nothing,   *)
(* in the loop every target before next was passed over, and a request     *)
(* that succeeded did so at next.                                          *)
Progress(r) ==
  LET n == Len(plan[r].targets)
  IN  /\ pc[r] \in {"idle", "read", "set"} => next[r] = 1 /\ tried[r] = <<>>
      /\ pc[r] \in {"set", "loop", "call"} => plan[r] # NoRoute
      /\ pc[r] \in {"loop", "call"} => Len(tried[r]) = next[r] - 1 /\ next[r] <= n + 1
      /\ pc[r] \in {"idle", "read", "set", "loop", "call"} =>
           \A k \in 1 .. Len(tried[r]) : tried[r][k] \in Passed
      /\ pc[r] = "call" => next[r] <= n /\ ~ native[r] /\ orig[r] = Alias
      /\ pc[r] # "call" => model[r] = Alias
      /\ native[r] /\ pc[r] = "loop" => next[r] = 1
      /\ lastErr[r] \in Passed \cup {"none"}
      /\ pc[r] = "done" /\ result[r] = "ok" =>
           /\ next[r] <= n /\ Len(tried[r]) = next[r]
           /\ \A k \in 1 .. next[r] - 1 : tried[r][k] \in Passed

\* The version v had not been replaced at time t.
Live(v, t) == replaced[v] = 0 \/ replaced[v] >= t

Staleness ==
  /\ \A v \in Versions : v > versions => replaced[v] = 0
  /\ route # NoRoute => route.ver <= versions /\ replaced[route.ver] = 0
  /\ \A r \in Requests : pc[r] = "set" =>
       /\ readAt[r] <= clock /\ clock - readAt[r] <= MaxLag
       /\ Live(plan[r].ver, readAt[r])
  /\ rcache.plan # NoRoute =>
       /\ rcache.at <= clock
       /\ Live(rcache.plan.ver, rcache.at - MaxLag)
  /\ used.at <= clock
  /\ BoundedRouteStaleness

IInv ==
  /\ TypeOK
  /\ Ascending(rcache.plan.targets)
  /\ \A r \in Requests : Ascending(plan[r].targets) /\ Progress(r)
  /\ Staleness

Permutes(f, n) == /\ f \in [1 .. n -> 1 .. n]
                  /\ \A k, l \in 1 .. n : f[k] = f[l] => k = l
                  /\ \A i \in 1 .. n : \E k \in 1 .. n : f[k] = i

(* sortTargets is a stable sort: it permutes the targets, none is lost or  *)
(* doubled, priorities ascend, and equal priorities keep their order.      *)
THEOREM SortIsStable ==
  ASSUME NEW ts \in Seq(Targets)
  PROVE  \E f : /\ Permutes(f, Len(ts))
                /\ sortTargets(ts) = [k \in 1 .. Len(ts) |-> ts[f[k]]]
                /\ \A k, l \in 1 .. Len(ts) : k < l =>
                     \/ ts[f[k]].prio < ts[f[l]].prio
                     \/ ts[f[k]].prio = ts[f[l]].prio /\ f[k] < f[l]
  <1> DEFINE n == Len(ts)
             D == 1 .. n
             rank == [i \in D |-> Cardinality(UpTo(ts, i))]
  <1>1. n \in Nat /\ \A i \in D : ts[i] \in Targets /\ ts[i].prio \in Int
    BY RoutesAssumption
  <1>2. IsFiniteSet(D) /\ Cardinality(D) = n
    <2>1. IsFiniteSet(D) /\ Cardinality(D) = IF 1 > n THEN 0 ELSE n - 1 + 1
      <3>1. \A m \in Int : IsFiniteSet(1 .. m) /\ Cardinality(1 .. m) = IF 1 > m THEN 0 ELSE m - 1 + 1
        BY FS_Interval
      <3>2. n \in Int
        BY <1>1
      <3>3. QED
        BY <3>1, <3>2, Zenon
    <2>2. QED
      BY <1>1, <2>1
  <1>3. \A i \in D : UpTo(ts, i) \in SUBSET D /\ i \in UpTo(ts, i)
    BY <1>1 DEF UpTo
  <1>4. \A i \in D : /\ IsFiniteSet(UpTo(ts, i)) /\ rank[i] \in D
    <2> SUFFICES ASSUME NEW i \in D PROVE IsFiniteSet(UpTo(ts, i)) /\ rank[i] \in D
      OBVIOUS
    <2>1. IsFiniteSet(UpTo(ts, i)) /\ Cardinality(UpTo(ts, i)) <= n
      BY <1>2, <1>3, FS_Subset
    <2>2. Cardinality(UpTo(ts, i)) \in Nat /\ Cardinality(UpTo(ts, i)) # 0
      BY <1>3, <2>1, FS_CardinalityType, FS_EmptySet
    <2>3. QED
      BY <1>1, <2>1, <2>2
  <1> DEFINE Less(i, j) == \/ ts[i].prio < ts[j].prio
                           \/ ts[i].prio = ts[j].prio /\ i < j
  <1>5. \A i, j \in D : i = j \/ Less(i, j) \/ Less(j, i)
    BY <1>1
  <1>6. ASSUME NEW i \in D, NEW j \in D, Less(i, j)
        PROVE  rank[i] < rank[j]
    <2>1. UpTo(ts, i) \in SUBSET UpTo(ts, j) /\ j \notin UpTo(ts, i)
      BY <1>1, <1>6 DEF UpTo
    <2>2. /\ Cardinality(UpTo(ts, i)) <= Cardinality(UpTo(ts, j))
          /\ Cardinality(UpTo(ts, j)) # Cardinality(UpTo(ts, i))
      BY <1>3, <1>4, <2>1, FS_Subset
    <2>3. QED
      BY <1>1, <1>4, <2>2
  <1>7. rank \in Injection(D, D)
    <2>1. rank \in [D -> D]
      BY <1>4
    <2>2. \A i, j \in D : rank[i] = rank[j] => i = j
      <3> SUFFICES ASSUME NEW i \in D, NEW j \in D, rank[i] = rank[j], i # j PROVE FALSE
        OBVIOUS
      <3> HIDE DEF rank
      <3>1. rank[i] < rank[j] \/ rank[j] < rank[i]
        BY <1>5, <1>6
      <3>2. QED
        BY <1>1, <2>1, <3>1
    <2>3. QED
      BY <2>1, <2>2 DEF Injection, IsInjective
  <1>8. \A k \in D : \E i \in D : rank[i] = k
    <2>1. rank \in Surjection(D, D)
      BY <1>2, <1>7, FS_Injection
    <2>2. QED
      BY <2>1, Zenon DEF Surjection
  <1> DEFINE f == [k \in D |-> CHOOSE i \in D : Cardinality(UpTo(ts, i)) = k]
  <1>9. \A k \in D : f[k] \in D /\ rank[f[k]] = k
    <2> SUFFICES ASSUME NEW k \in D PROVE f[k] \in D /\ rank[f[k]] = k
      BY Zenon
    <2>1. \E i \in D : Cardinality(UpTo(ts, i)) = k
      BY <1>8
    <2>2. f[k] \in D /\ Cardinality(UpTo(ts, f[k])) = k
      BY <2>1
    <2>3. QED
      BY <2>2
  <1>10. sortTargets(ts) = [k \in D |-> ts[f[k]]]
    BY DEF sortTargets
  <1> HIDE DEF f
  <1>11. Permutes(f, n)
    <2>1. f \in [D -> D]
      BY <1>9, Zenon DEF f
    <2>2. \A k, l \in D : f[k] = f[l] => k = l
      BY <1>9, Zenon
    <2>3. \A i \in D : f[rank[i]] = i /\ rank[i] \in D
      BY <1>4, <1>7, <1>9, Zenon DEF Injection, IsInjective
    <2>4. QED
      BY <2>1, <2>2, <2>3 DEF Permutes
  <1>12. ASSUME NEW k \in D, NEW l \in D, k < l
         PROVE  Less(f[k], f[l])
    <2>1. f[k] # f[l] /\ ~ Less(f[l], f[k])
      <3>1. /\ f[k] \in D /\ f[l] \in D /\ rank[f[k]] = k /\ rank[f[l]] = l
            /\ k \in Int /\ l \in Int
        BY <1>9
      <3>2. Less(f[l], f[k]) => rank[f[l]] < rank[f[k]]
        BY <1>6, <3>1
      <3> HIDE DEF rank, Less
      <3>3. QED
        BY <1>12, <3>1, <3>2
    <2>2. QED
      BY <1>5, <1>9, <2>1, Zenon
  <1>13. QED
    BY <1>10, <1>11, <1>12

\* The sorted targets are targets in ascending order.
LEMMA SortedPlan ==
  ASSUME NEW ts \in Seq(Targets)
  PROVE  sortTargets(ts) \in Seq(Targets) /\ Ascending(sortTargets(ts))
  <1>1. PICK f : /\ Permutes(f, Len(ts))
                 /\ sortTargets(ts) = [k \in 1 .. Len(ts) |-> ts[f[k]]]
                 /\ \A k, l \in 1 .. Len(ts) : k < l =>
                      \/ ts[f[k]].prio < ts[f[l]].prio
                      \/ ts[f[k]].prio = ts[f[l]].prio /\ f[k] < f[l]
    BY SortIsStable
  <1>2. \A k \in 1 .. Len(ts) : ts[f[k]] \in Targets /\ ts[f[k]].prio \in Int
    <2>1. \A k \in 1 .. Len(ts) : f[k] \in 1 .. Len(ts)
      BY <1>1, Zenon DEF Permutes
    <2>2. \A i \in 1 .. Len(ts) : ts[i] \in Targets
      OBVIOUS
    <2>3. QED
      BY <2>1, <2>2, RoutesAssumption, Zenon
  <1>3. sortTargets(ts) \in Seq(Targets) /\ Len(sortTargets(ts)) = Len(ts)
    BY <1>1, <1>2
  <1>4. Ascending(sortTargets(ts))
    <2>1. \A k, l \in 1 .. Len(ts) : k < l => ts[f[k]].prio <= ts[f[l]].prio
      BY <1>1, <1>2
    <2>2. \A k \in 1 .. Len(ts) : sortTargets(ts)[k] = ts[f[k]]
      BY <1>1, Zenon
    <2>3. QED
      <3>1. PICK st : st = sortTargets(ts) /\ Len(st) = Len(ts)
        BY <1>3
      <3>2. ASSUME NEW k \in 1 .. Len(st), NEW l \in 1 .. Len(st), k < l
            PROVE  st[k].prio <= st[l].prio
        <4>1. k \in 1 .. Len(ts) /\ l \in 1 .. Len(ts)
          BY <3>1
        <4>2. st[k] = ts[f[k]] /\ st[l] = ts[f[l]]
          BY <2>2, <3>1, <4>1
        <4>3. ts[f[k]].prio <= ts[f[l]].prio
          BY <2>1, <3>2, <4>1, Zenon
        <4>4. QED
          BY <4>2, <4>3
      <3>3. QED
        BY <3>1, <3>2, Zenon DEF Ascending
  <1>5. QED
    BY <1>3, <1>4

\* No targets are in order.
LEMMA NoRoutePlan ==
  /\ NoRoute.targets = <<>> /\ NoRoute.ver = 0 /\ Ascending(<<>>)
  /\ \A p \in SortedTargets : p # NoRoute /\ p.ver \in Versions /\ p.targets \in Seq(Targets)
  BY FailoverAssumption DEF NoRoute, Ascending, SortedTargets, Versions

\* What a request plans with is a sequence of targets, or nothing.
LEMMA PlanOf ==
  ASSUME TypeOK, NEW r \in Requests
  PROVE  /\ plan[r].targets \in Seq(Targets) /\ Len(plan[r].targets) \in Nat
         /\ plan[r] # NoRoute => plan[r].ver \in Versions
  <1>1. plan[r] \in SortedTargets \cup {NoRoute}
    BY DEF TypeOK
  <1>2. plan[r].targets \in Seq(Targets) /\ (plan[r] # NoRoute => plan[r].ver \in Versions)
    <2>1. CASE plan[r] \in SortedTargets
      BY <2>1, NoRoutePlan, Zenon
    <2>2. CASE plan[r] = NoRoute
      <3>1. <<>> \in Seq(Targets)
        OBVIOUS
      <3>2. QED
        BY <2>2, <3>1, NoRoutePlan, Zenon
    <2>3. QED
      BY <1>1, <2>1, <2>2
  <1>3. QED
    BY <1>2

\* A set of natural numbers that is not empty has a least element.
LEMMA LeastNat ==
  ASSUME NEW S \in SUBSET Nat, S # {}
  PROVE  \E m \in S : \A n \in S : m <= n
  <1> DEFINE R == {p \in Nat \X Nat : p[1] < p[2]}
  <1>1. IsWellFoundedOn(R, Nat)
    BY NatLessThanWellFounded DEF OpToRel
  <1>2. PICK m \in S : \A n \in S : <<n, m>> \notin R
    <2> HIDE DEF R
    <2>1. QED
      BY <1>1, WFMin, Zenon
  <1>3. ASSUME NEW n \in S PROVE m <= n
    <2>1. n \in Nat /\ m \in Nat
      OBVIOUS
    <2>2. <<n, m>> \in Nat \X Nat /\ <<n, m>>[1] = n /\ <<n, m>>[2] = m
      BY <2>1
    <2>3. ~ (n < m)
      BY <1>2, <2>2, Zenon
    <2>4. QED
      BY <2>1, <2>3
  <1>4. QED
    BY <1>3

\* What other requests do does not move a request.
LEMMA ProgressFrame ==
  ASSUME NEW q, Progress(q), Ascending(plan[q].targets),
         pc'[q] = pc[q], native'[q] = native[q], model'[q] = model[q], orig'[q] = orig[q],
         plan'[q] = plan[q], next'[q] = next[q], tried'[q] = tried[q],
         lastErr'[q] = lastErr[q], result'[q] = result[q]
  PROVE  Progress(q)' /\ Ascending(plan'[q].targets)
  BY DEF Progress, Ascending

\* Steps that neither read, cache nor follow a route keep its age.
LEMMA StalenessFrame ==
  ASSUME Staleness, UNCHANGED <<clock, routeVars, rcache, used>>,
         \A q \in Requests : pc'[q] = "set" =>
           pc[q] = "set" /\ readAt'[q] = readAt[q] /\ plan'[q] = plan[q]
  PROVE  Staleness'
  BY DEF Staleness, Live, BoundedRouteStaleness, routeVars

\* The inductive invariant holds at first.
LEMMA InitIInv == Init => IInv
  <1> SUFFICES ASSUME Init PROVE IInv
    OBVIOUS
  <1>1. \A r \in Requests : /\ plan[r] = NoRoute /\ tried[r] = <<>> /\ next[r] = 1 /\ pc[r] = "idle"
                            /\ model[r] = Alias /\ lastErr[r] = "none" /\ native[r] = FALSE
    BY DEF Init
  <1>2. TypeOK
    <2>1. <<>> \in Seq(Results) /\ Len(<<>>) = 0 /\ 1 \in Versions
      BY FailoverAssumption DEF Versions
    <2>2. route \in RouteRow
      BY <2>1 DEF Init, RouteRow
    <2>3. \A r \in Requests : Len(tried[r]) <= Len(plan[r].targets)
      BY <1>1, <2>1, NoRoutePlan
    <2>4. QED
      BY <2>1, <2>2, <2>3 DEF Init, TypeOK, Models, Results
  <1>3. \A r \in Requests : Ascending(plan[r].targets) /\ Progress(r)
    BY <1>1, NoRoutePlan DEF Progress
  <1>4. Ascending(rcache.plan.targets)
    BY NoRoutePlan DEF Init
  <1>5. Staleness
    BY FailoverAssumption DEF Init, Staleness, BoundedRouteStaleness, Versions
  <1>6. QED
    BY <1>2, <1>3, <1>4, <1>5 DEF IInv

\* Time passes: requests hold a route they read for at most MaxLag.
LEMMA TickIInv == IInv /\ Tick => IInv'
  <1> SUFFICES ASSUME IInv, Tick PROVE IInv'
    OBVIOUS
  <1>1. clock \in Nat /\ clock' = clock + 1 /\ MaxLag \in Nat
    BY FailoverAssumption DEF IInv, TypeOK, Tick
  <1>2. TypeOK'
    BY <1>1 DEF IInv, TypeOK, Tick, routeVars, reqVars
  <1>3. Ascending(rcache'.plan.targets)
    BY DEF IInv, Tick
  <1>4. \A r \in Requests : Ascending(plan'[r].targets) /\ Progress(r)'
    BY ProgressFrame DEF IInv, Tick, reqVars
  <1>5. Staleness'
    <2>1. ASSUME NEW r \in Requests, pc[r] = "set"
          PROVE  readAt[r] <= clock' /\ clock' - readAt[r] <= MaxLag
      <3>1. readAt[r] \in Nat /\ readAt[r] <= clock /\ clock - readAt[r] < MaxLag
        BY <2>1 DEF IInv, TypeOK, Staleness, Tick
      <3>2. QED
        BY <1>1, <3>1
    <2>2. used.at \in Nat /\ rcache.at \in Nat
      BY DEF IInv, TypeOK
    <2>3. QED
      BY <1>1, <2>1, <2>2 DEF IInv, Tick, Staleness, Live, BoundedRouteStaleness, routeVars, reqVars
  <1>6. QED
    BY <1>2, <1>3, <1>4, <1>5 DEF IInv

\* A cached route that has not expired is followed.
LEMMA ArriveIInv ==
  ASSUME IInv, NEW r \in Requests, NEW n \in BOOLEAN, Arrive(r, n)
  PROVE  IInv'
  <1>1. /\ pc[r] = "idle" /\ native' = [native EXCEPT ![r] = n]
        /\ UNCHANGED <<clock, routeVars, rcache, model, orig, readAt, next, tried, lastErr, result>>
    BY DEF Arrive
  <1>2. TypeOK
    BY DEF IInv
  <1>3. next[r] = 1 /\ tried[r] = <<>> /\ model[r] = Alias /\ lastErr[r] \in Passed \cup {"none"}
    BY <1>1 DEF IInv, Progress
  <1>4. CASE Cached
    <2>1. /\ pc' = [pc EXCEPT ![r] = "loop"] /\ plan' = [plan EXCEPT ![r] = rcache.plan]
          /\ used' = [ver |-> rcache.plan.ver, at |-> clock]
      BY <1>4 DEF Arrive, Follow
    <2>2. rcache.plan \in SortedTargets /\ rcache.plan # NoRoute /\ rcache.plan.ver \in Versions
      BY <1>2, <1>4, NoRoutePlan DEF TypeOK, Cached
    <2>3. TypeOK'
      <3>1. \A q \in Requests : Len(tried[q]) <= Len(plan'[q].targets)
        BY <1>2, <1>3, <2>1, <2>2, NoRoutePlan DEF TypeOK
      <3>2. QED
        BY <1>1, <1>2, <2>1, <2>2, <3>1 DEF TypeOK, routeVars
    <2>4. Progress(r)' /\ Ascending(plan'[r].targets)
      <3>1. plan'[r] = rcache.plan /\ pc'[r] = "loop" /\ native'[r] = n
        BY <1>1, <1>2, <2>1 DEF TypeOK
      <3>2. Len(rcache.plan.targets) \in Nat /\ Len(<<>>) = 0
        BY <2>2, NoRoutePlan
      <3>3. QED
        BY <1>1, <1>3, <2>2, <3>1, <3>2 DEF IInv, Progress
    <2>5. \A q \in Requests : Progress(q)' /\ Ascending(plan'[q].targets)
      <3>1. ASSUME NEW q \in Requests, q # r PROVE Progress(q)' /\ Ascending(plan'[q].targets)
        BY <1>1, <1>2, <2>1, <3>1, ProgressFrame DEF IInv, TypeOK
      <3>2. QED
        BY <2>4, <3>1
    <2>6. Staleness'
      <3>1. /\ rcache.at \in Nat /\ clock \in Nat /\ replaced[rcache.plan.ver] \in Nat
            /\ clock - rcache.at < RouteTTL /\ RouteTTL \in Nat /\ MaxLag \in Nat
        BY <1>2, <1>4, <2>2, FailoverAssumption DEF TypeOK, Cached
      <3>2. replaced[rcache.plan.ver] = 0 \/ replaced[rcache.plan.ver] >= rcache.at - MaxLag
        BY <2>2, Zenon DEF IInv, Staleness, Live
      <3>3. BoundedRouteStaleness'
        <4>1. used'.ver = rcache.plan.ver /\ used'.at = clock /\ replaced' = replaced
          BY <1>1, <2>1, Zenon DEF routeVars
        <4>2. PICK x : x = replaced[rcache.plan.ver]
          OBVIOUS
        <4>3. x = 0 \/ clock - x < RouteTTL + MaxLag
          BY <3>1, <3>2, <4>2
        <4>4. QED
          BY <4>1, <4>2, <4>3, Zenon DEF BoundedRouteStaleness
      <3>4. used'.at <= clock'
        <4>1. used'.at = clock /\ clock' = clock
          BY <1>1, <2>1, Zenon
        <4>2. QED
          BY <3>1, <4>1
      <3>5. \A q \in Requests : pc'[q] = "set" => q # r
        BY <1>2, <2>1 DEF TypeOK
      <3>6. \A q \in Requests : pc'[q] = "set" =>
              pc[q] = "set" /\ readAt'[q] = readAt[q] /\ plan'[q] = plan[q]
        BY <1>1, <1>2, <2>1, <3>5 DEF TypeOK
      <3>7. QED
        BY <1>1, <3>3, <3>4, <3>6, Zenon DEF IInv, Staleness, Live, routeVars
    <2>7. QED
      BY <1>1, <2>3, <2>5, <2>6 DEF IInv
  <1>5. CASE ~ Cached
    <2>1. pc' = [pc EXCEPT ![r] = "read"] /\ plan' = plan /\ used' = used
      BY <1>5 DEF Arrive
    <2>2. TypeOK'
      BY <1>1, <1>2, <2>1 DEF TypeOK, routeVars
    <2>3. Progress(r)'
      BY <1>1, <1>2, <1>3, <2>1, Zenon DEF IInv, Progress, TypeOK
    <2>4. \A q \in Requests : Progress(q)' /\ Ascending(plan'[q].targets)
      <3>1. ASSUME NEW q \in Requests, q # r PROVE Progress(q)'
        BY <1>1, <1>2, <2>1, <3>1, ProgressFrame DEF IInv, TypeOK
      <3>2. QED
        BY <2>1, <2>3, <3>1 DEF IInv
    <2>5. Staleness'
      <3>1. \A q \in Requests : pc'[q] = "set" =>
              pc[q] = "set" /\ readAt'[q] = readAt[q] /\ plan'[q] = plan[q]
        BY <1>1, <1>2, <2>1 DEF TypeOK
      <3>2. QED
        BY <1>1, <2>1, <3>1, StalenessFrame, Zenon DEF IInv
    <2>6. QED
      BY <1>1, <2>2, <2>4, <2>5 DEF IInv
  <1>6. QED
    BY <1>4, <1>5

\* A route that is read is sorted, and is current at that moment.
LEMMA GetRouteIInv ==
  ASSUME IInv, NEW r \in Requests, NEW ok \in BOOLEAN, GetRouteByAlias(r, ok)
  PROVE  IInv'
  <1> DEFINE err == IF ok THEN ResolveError(route) ELSE "store error"
             new == [ver |-> route.ver, targets |-> sortTargets(route.targets)]
  <1>1. /\ pc[r] = "read"
        /\ pc' = [pc EXCEPT ![r] = IF err = "none" THEN "set" ELSE "done"]
        /\ result' = [result EXCEPT ![r] = err]
        /\ plan' = [plan EXCEPT ![r] = IF err = "none" THEN new ELSE NoRoute]
        /\ readAt' = [readAt EXCEPT ![r] = clock]
        /\ UNCHANGED <<clock, routeVars, rcache, native, model, orig, next, tried, lastErr, used>>
    BY Zenon DEF GetRouteByAlias
  <1>2. TypeOK
    BY DEF IInv
  <1>3. next[r] = 1 /\ tried[r] = <<>> /\ model[r] = Alias /\ lastErr[r] \in Passed \cup {"none"}
    BY <1>1, Zenon DEF IInv, Progress
  <1>4. err \in {"none", "store error", "not found", "no targets"}
    BY DEF ResolveError
  <1>5. err = "none" => route \in RouteRow
    BY <1>2 DEF ResolveError, TypeOK
  <1>6. err = "none" => new \in SortedTargets /\ Ascending(new.targets) /\ new # NoRoute
    <2> SUFFICES ASSUME err = "none" PROVE new \in SortedTargets /\ Ascending(new.targets) /\ new # NoRoute
      OBVIOUS
    <2>1. route.ver \in Versions /\ route.targets \in Seq(Targets)
      BY <1>5, RoutesAssumption DEF RouteRow
    <2>2. new \in SortedTargets /\ Ascending(new.targets)
      BY <2>1, SortedPlan DEF SortedTargets
    <2>3. QED
      BY <2>2, NoRoutePlan
  <1> HIDE DEF err, new
  <1>7. /\ plan'[r] \in SortedTargets \cup {NoRoute} /\ Ascending(plan'[r].targets)
        /\ pc'[r] = "set" => plan'[r] = new /\ err = "none" /\ plan'[r] # NoRoute
        /\ pc'[r] = IF err = "none" THEN "set" ELSE "done"
    BY <1>1, <1>2, <1>6, NoRoutePlan DEF TypeOK
  <1>8. Len(plan'[r].targets) \in Nat
    BY <1>7, NoRoutePlan
  <1>9. TypeOK'
    <2>1. \A q \in Requests : Len(tried[q]) <= Len(plan'[q].targets)
      BY <1>1, <1>2, <1>3, <1>8 DEF TypeOK
    <2>2. plan' \in [Requests -> SortedTargets \cup {NoRoute}]
      BY <1>1, <1>2, <1>7 DEF TypeOK
    <2>3. QED
      BY <1>1, <1>2, <1>4, <2>1, <2>2, Zenon DEF TypeOK, routeVars, Results
  <1>10. Progress(r)'
    <2>1. result'[r] # "ok" /\ pc'[r] \in {"set", "done"}
      BY <1>1, <1>2, <1>4, <1>7, Zenon DEF TypeOK
    <2>2. /\ next'[r] = 1 /\ tried'[r] = <<>> /\ model'[r] = Alias
          /\ lastErr'[r] \in Passed \cup {"none"}
      BY <1>1, <1>3
    <2>3. QED
      BY <1>7, <2>1, <2>2 DEF Progress
  <1>11. \A q \in Requests : Progress(q)' /\ Ascending(plan'[q].targets)
    <2>1. ASSUME NEW q \in Requests, q # r PROVE Progress(q)' /\ Ascending(plan'[q].targets)
      BY <1>1, <1>2, <2>1, ProgressFrame, Zenon DEF IInv, TypeOK
    <2>2. QED
      BY <1>7, <1>10, <2>1
  <1>12. Staleness'
    <2>1. /\ pc'[r] = "set" => readAt'[r] = clock /\ replaced[plan'[r].ver] = 0
          /\ clock \in Nat /\ MaxLag \in Nat
      BY <1>1, <1>2, <1>5, <1>7, FailoverAssumption, NoRoutePlan, Zenon
      DEF IInv, TypeOK, Staleness, new, ResolveError, err
    <2>2. \A q \in Requests : q # r /\ pc'[q] = "set" =>
            pc[q] = "set" /\ readAt'[q] = readAt[q] /\ plan'[q] = plan[q]
      BY <1>1, <1>2 DEF TypeOK
    <2>3. ASSUME NEW q \in Requests, pc'[q] = "set"
          PROVE  /\ readAt'[q] <= clock' /\ clock' - readAt'[q] <= MaxLag
                 /\ Live(plan[q].ver, readAt[q])'
      <3>1. CASE q = r
        BY <1>1, <2>1, <2>3, <3>1 DEF Live, routeVars
      <3>2. CASE q # r
        BY <1>1, <2>2, <2>3, <3>2 DEF IInv, Staleness, Live, routeVars
      <3>3. QED
        BY <3>1, <3>2
    <2>4. QED
      BY <1>1, <2>3, Zenon DEF IInv, Staleness, Live, BoundedRouteStaleness, routeVars
  <1>13. QED
    BY <1>1, <1>9, <1>11, <1>12, Zenon DEF IInv

\* The route that is cached was current at most MaxLag ago.
LEMMA CacheRouteIInv ==
  ASSUME IInv, NEW r \in Requests, CacheRoute(r)
  PROVE  IInv'
  <1>1. /\ pc[r] = "set" /\ rcache' = [plan |-> plan[r], at |-> clock]
        /\ pc' = [pc EXCEPT ![r] = "loop"] /\ readAt' = [readAt EXCEPT ![r] = 0]
        /\ used' = [ver |-> plan[r].ver, at |-> clock]
        /\ UNCHANGED <<clock, routeVars, native, model, orig, next, tried, lastErr, result>>
        /\ plan' = [plan EXCEPT ![r] = plan[r]]
    BY DEF CacheRoute, Follow
  <1>2. TypeOK /\ plan' = plan
    BY <1>1 DEF IInv, TypeOK
  <1>3. /\ next[r] = 1 /\ tried[r] = <<>> /\ model[r] = Alias /\ plan[r] # NoRoute
        /\ lastErr[r] \in Passed \cup {"none"} /\ Ascending(plan[r].targets)
    BY <1>1 DEF IInv, Progress
  <1>4. plan[r] \in SortedTargets /\ plan[r].ver \in Versions /\ Len(plan[r].targets) \in Nat
    BY <1>2, <1>3, NoRoutePlan DEF TypeOK
  <1>5. TypeOK'
    BY <1>1, <1>2, <1>4, Zenon DEF TypeOK, routeVars
  <1>6. Progress(r)'
    <2>1. pc'[r] = "loop" /\ plan'[r] = plan[r]
      BY <1>1, <1>2 DEF TypeOK
    <2>2. QED
      BY <1>1, <1>3, <1>4, <2>1 DEF Progress
  <1>7. \A q \in Requests : Progress(q)' /\ Ascending(plan'[q].targets)
    <2>1. ASSUME NEW q \in Requests, q # r PROVE Progress(q)'
      BY <1>1, <1>2, <2>1, ProgressFrame DEF IInv, TypeOK
    <2>2. QED
      BY <1>2, <1>6, <2>1, Zenon DEF IInv
  <1>8. Staleness'
    <2>1. /\ readAt[r] \in Nat /\ clock \in Nat /\ readAt[r] <= clock /\ clock - readAt[r] <= MaxLag
          /\ MaxLag \in Nat /\ RouteTTL \in Nat \ {0} /\ replaced[plan[r].ver] \in Nat
          /\ replaced[plan[r].ver] = 0 \/ replaced[plan[r].ver] >= readAt[r]
      BY <1>1, <1>2, <1>4, FailoverAssumption, Zenon DEF IInv, TypeOK, Staleness, Live
    <2>2. BoundedRouteStaleness'
      BY <1>1, <2>1 DEF BoundedRouteStaleness, routeVars
    <2>3. rcache'.at <= clock' /\ Live(rcache.plan.ver, rcache.at - MaxLag)'
      BY <1>1, <2>1 DEF Live, routeVars
    <2>4. \A q \in Requests : pc'[q] = "set" => pc[q] = "set" /\ readAt'[q] = readAt[q]
      BY <1>1, <1>2 DEF TypeOK
    <2>5. used'.at <= clock'
      BY <1>1, <2>1
    <2>6. QED
      BY <1>1, <1>2, <2>2, <2>3, <2>4, <2>5 DEF IInv, Staleness, Live, routeVars
  <1>9. QED
    BY <1>1, <1>3, <1>5, <1>7, <1>8 DEF IInv

\* One more outcome after which the loop goes on.
LEMMA TriedMore ==
  ASSUME NEW s \in Seq(Results), NEW n \in Nat \ {0}, Len(s) = n - 1,
         \A k \in 1 .. Len(s) : s[k] \in Passed,
         NEW x \in Results \cap Passed
  PROVE  /\ Append(s, x) \in Seq(Results) /\ Len(Append(s, x)) = n
         /\ \A k \in 1 .. Len(Append(s, x)) : Append(s, x)[k] \in Passed
  OBVIOUS

(* Going on to the next target: everything but the position in the plan    *)
(* and the model is left alone.                                            *)
LEMMA PassIInv ==
  ASSUME IInv, NEW r \in Requests, NEW outcome \in {"open", "missing", "failed"},
         NextTarget(r, outcome), next[r] <= Len(plan[r].targets), pc[r] \in {"loop", "call"},
         ~ native[r],
         pc' = [pc EXCEPT ![r] = "loop"], model' = [model EXCEPT ![r] = Alias],
         UNCHANGED <<clock, routeVars, rcache, native, orig, plan, readAt, result, used>>
  PROVE  IInv'
  <1>1. /\ next' = [next EXCEPT ![r] = next[r] + 1]
        /\ tried' = [tried EXCEPT ![r] = Append(tried[r], outcome)]
        /\ lastErr' = [lastErr EXCEPT ![r] = outcome]
    BY Zenon DEF NextTarget
  <1>2. TypeOK
    BY Zenon DEF IInv
  <1>3. /\ next[r] \in Nat \ {0} /\ tried[r] \in Seq(Results) /\ outcome \in Results \cap Passed
        /\ Len(tried[r]) = next[r] - 1 /\ plan[r] # NoRoute /\ Len(plan[r].targets) \in Nat
        /\ \A k \in 1 .. Len(tried[r]) : tried[r][k] \in Passed
    <2>1. Len(plan[r].targets) \in Nat
      BY <1>2, PlanOf, Zenon
    <2>2. QED
      BY <1>2, <2>1, Zenon DEF IInv, Progress, TypeOK, Results, Outcomes, Passed
  <1>4. PICK t : t = Append(tried[r], outcome)
    BY Zenon
  <1>5. /\ t \in Seq(Results) /\ Len(t) = next[r] /\ \A k \in 1 .. Len(t) : t[k] \in Passed
    BY <1>3, <1>4, TriedMore, Zenon
  <1>6. /\ tried'[r] = t /\ next'[r] = next[r] + 1 /\ lastErr'[r] = outcome /\ pc'[r] = "loop"
        /\ model'[r] = Alias
    BY <1>1, <1>2, <1>4 DEF TypeOK
  <1>7. TypeOK'
    <2>1. Alias \in Models
      BY DEF Models
    <2>2. \A q \in Requests : Len(tried'[q]) <= Len(plan[q].targets)
      BY <1>1, <1>2, <1>5, <1>6 DEF TypeOK
    <2>3. tried' \in [Requests -> Seq(Results)]
      BY <1>1, <1>2, <1>4, <1>5 DEF TypeOK
    <2>4. next' \in [Requests -> Nat \ {0}]
      BY <1>1, <1>2, <1>3 DEF TypeOK
    <2>5. lastErr' \in [Requests -> Results]
      BY <1>1, <1>2, <1>3 DEF TypeOK
    <2>6. QED
      BY <1>2, <2>1, <2>2, <2>3, <2>4, <2>5, Zenon DEF TypeOK, routeVars
  <1>8. Progress(r)'
    BY <1>3, <1>5, <1>6 DEF Progress
  <1>9. \A q \in Requests : Progress(q)' /\ Ascending(plan'[q].targets)
    <2>1. ASSUME NEW q \in Requests, q # r PROVE Progress(q)'
      BY <1>1, <1>2, <2>1, ProgressFrame, Zenon DEF IInv, TypeOK
    <2>2. QED
      BY <1>8, <2>1, Zenon DEF IInv
  <1>10. Staleness'
    <2>1. \A q \in Requests : pc'[q] = "set" => pc[q] = "set"
      BY <1>2 DEF TypeOK
    <2>2. QED
      BY <2>1, StalenessFrame, Zenon DEF IInv
  <1>11. QED
    BY <1>7, <1>9, <1>10, Zenon DEF IInv

\* A target that cannot be used is passed over.
LEMMA SkipIInv ==
  ASSUME IInv, NEW r \in Requests, BreakerRefuses(r) \/ ProviderMissing(r)
  PROVE  IInv'
  <1>1. pc' = [pc EXCEPT ![r] = "loop"] /\ model' = [model EXCEPT ![r] = Alias]
    <2>1. pc[r] = "loop" /\ pc' = pc /\ model' = model
      BY Zenon DEF BreakerRefuses, ProviderMissing, InLoop
    <2>2. model[r] = Alias
      BY <2>1, Zenon DEF IInv, Progress
    <2>3. QED
      BY <2>1, <2>2 DEF IInv, TypeOK
  <1>2. CASE BreakerRefuses(r)
    BY <1>1, <1>2, PassIInv, Zenon DEF BreakerRefuses, InLoop
  <1>3. CASE ProviderMissing(r)
    BY <1>1, <1>3, PassIInv, Zenon DEF ProviderMissing, InLoop
  <1>4. QED
    BY <1>2, <1>3

\* The model of the target is put into the request for the call.
LEMMA CallIInv ==
  ASSUME IInv, NEW r \in Requests, CallProvider(r)
  PROVE  IInv'
  <1>1. /\ pc[r] = "loop" /\ ~ native[r] /\ next[r] <= Len(plan[r].targets)
        /\ orig' = [orig EXCEPT ![r] = model[r]]
        /\ model' = [model EXCEPT ![r] = Target(r).model]
        /\ pc' = [pc EXCEPT ![r] = "call"]
        /\ UNCHANGED <<clock, routeVars, rcache, native, plan, readAt, next, tried, lastErr, result, used>>
    BY Zenon DEF CallProvider, InLoop
  <1>2. TypeOK
    BY DEF IInv
  <1>3. model[r] = Alias /\ plan[r] # NoRoute
    BY <1>1, Zenon DEF IInv, Progress
  <1>4. Target(r) \in Targets /\ Target(r).model \in Models
    <2>1. plan[r].targets \in Seq(Targets) /\ next[r] \in 1 .. Len(plan[r].targets)
      <3>1. next[r] \in Nat \ {0}
        BY <1>2 DEF TypeOK
      <3>2. plan[r].targets \in Seq(Targets)
        BY <1>2, PlanOf, Zenon
      <3>3. next[r] <= Len(plan[r].targets)
        BY <1>1, Zenon
      <3>4. QED
        BY <3>1, <3>2, <3>3
    <2>2. QED
      BY <2>1 DEF Target, Models
  <1>5. TypeOK'
    BY <1>1, <1>2, <1>4 DEF TypeOK, routeVars
  <1>6. Progress(r)'
    <2>1. pc'[r] = "call" /\ orig'[r] = Alias
      BY <1>1, <1>2, <1>3 DEF TypeOK
    <2>2. QED
      BY <1>1, <2>1, Zenon DEF IInv, Progress
  <1>7. \A q \in Requests : Progress(q)' /\ Ascending(plan'[q].targets)
    <2>1. ASSUME NEW q \in Requests, q # r PROVE Progress(q)'
      BY <1>1, <1>2, <2>1, ProgressFrame, Zenon DEF IInv, TypeOK
    <2>2. QED
      BY <1>1, <1>6, <2>1, Zenon DEF IInv
  <1>8. Staleness'
    <2>1. \A q \in Requests : pc'[q] = "set" => pc[q] = "set"
      BY <1>1, <1>2 DEF TypeOK
    <2>2. QED
      BY <1>1, <2>1, StalenessFrame, Zenon DEF IInv
  <1>9. QED
    BY <1>1, <1>5, <1>7, <1>8, Zenon DEF IInv

\* An answer: the model is put back whatever it is.
LEMMA ReturnIInv ==
  ASSUME IInv, NEW r \in Requests, NEW o \in Outcomes, ProviderReturns(r, o)
  PROVE  IInv'
  <1>1. /\ pc[r] = "call" /\ model' = [model EXCEPT ![r] = orig[r]]
        /\ UNCHANGED <<clock, routeVars, rcache, native, orig, plan, readAt, used>>
    BY Zenon DEF ProviderReturns
  <1>2. TypeOK
    BY DEF IInv
  <1>3. /\ orig[r] = Alias /\ next[r] <= Len(plan[r].targets) /\ ~ native[r]
        /\ Len(tried[r]) = next[r] - 1 /\ \A k \in 1 .. Len(tried[r]) : tried[r][k] \in Passed
        /\ lastErr[r] \in Passed \cup {"none"}
    BY <1>1, Zenon DEF IInv, Progress
  <1>4. CASE ~ (o = "ok" \/ isClientError(o))
    <2>1. o = "failed"
      BY <1>4 DEF isClientError, Outcomes
    <2>2. pc' = [pc EXCEPT ![r] = "loop"] /\ NextTarget(r, o) /\ result' = result
      BY <1>4, Zenon DEF ProviderReturns
    <2>3. QED
      BY <1>1, <1>3, <2>1, <2>2, PassIInv, Zenon
  <1>5. CASE o = "ok" \/ isClientError(o)
    <2>1. /\ pc' = [pc EXCEPT ![r] = "done"] /\ result' = [result EXCEPT ![r] = o]
          /\ tried' = [tried EXCEPT ![r] = Append(tried[r], o)] /\ next' = next /\ lastErr' = lastErr
      BY <1>5, Zenon DEF ProviderReturns
    <2>2. /\ next[r] \in Nat \ {0} /\ tried[r] \in Seq(Results) /\ o \in Results
          /\ Len(plan[r].targets) \in Nat
      <3>1. Len(plan[r].targets) \in Nat
        BY <1>2, NoRoutePlan DEF TypeOK
      <3>2. QED
        BY <1>2, <3>1, Zenon DEF TypeOK, Results
    <2>3. PICK t : t = Append(tried[r], o)
      BY Zenon
    <2>4. t \in Seq(Results) /\ Len(t) = next[r] /\ \A k \in 1 .. next[r] - 1 : t[k] \in Passed
      BY <1>3, <2>2, <2>3
    <2>5. tried'[r] = t /\ pc'[r] = "done" /\ model'[r] = Alias
      BY <1>1, <1>2, <1>3, <2>1, <2>3 DEF TypeOK
    <2>6. TypeOK'
      <3>1. \A q \in Requests : Len(tried'[q]) <= Len(plan[q].targets)
        BY <1>2, <1>3, <2>1, <2>4, <2>5 DEF TypeOK
      <3>2. tried' \in [Requests -> Seq(Results)]
        BY <1>2, <2>1, <2>3, <2>4 DEF TypeOK
      <3>3. QED
        BY <1>1, <1>2, <2>1, <2>2, <3>1, <3>2 DEF TypeOK, routeVars
    <2>7. Progress(r)'
      BY <1>1, <1>3, <2>1, <2>4, <2>5, Zenon DEF Progress
    <2>8. \A q \in Requests : Progress(q)' /\ Ascending(plan'[q].targets)
      <3>1. ASSUME NEW q \in Requests, q # r PROVE Progress(q)'
        BY <1>1, <1>2, <2>1, <3>1, ProgressFrame DEF IInv, TypeOK
      <3>2. QED
        BY <1>1, <2>7, <3>1, Zenon DEF IInv
    <2>9. Staleness'
      <3>1. \A q \in Requests : pc'[q] = "set" => pc[q] = "set"
        BY <1>2, <2>1 DEF TypeOK
      <3>2. QED
        BY <1>1, <3>1, StalenessFrame, Zenon DEF IInv
    <2>10. QED
      BY <1>1, <2>6, <2>8, <2>9 DEF IInv
  <1>6. QED
    BY <1>4, <1>5

\* The loop ends without a success.
LEMMA ExhaustedIInv ==
  ASSUME IInv, NEW r \in Requests, Exhausted(r)
  PROVE  IInv'
  <1>1. /\ pc[r] = "loop" /\ pc' = [pc EXCEPT ![r] = "done"]
        /\ result' = [result EXCEPT ![r] = lastErr[r]]
        /\ UNCHANGED <<clock, routeVars, rcache, native, model, orig, plan, readAt, next, tried,
                       lastErr, used>>
    BY Zenon DEF Exhausted
  <1>2. TypeOK
    BY DEF IInv
  <1>3. lastErr[r] \in Passed \cup {"none"} /\ model[r] = Alias
    BY <1>1, Zenon DEF IInv, Progress
  <1>4. TypeOK'
    BY <1>1, <1>2 DEF TypeOK, routeVars
  <1>5. Progress(r)'
    <2>1. pc'[r] = "done" /\ result'[r] # "ok"
      BY <1>1, <1>2, <1>3 DEF TypeOK, Passed
    <2>2. QED
      BY <1>1, <1>3, <2>1, Zenon DEF Progress
  <1>6. \A q \in Requests : Progress(q)' /\ Ascending(plan'[q].targets)
    <2>1. ASSUME NEW q \in Requests, q # r PROVE Progress(q)'
      BY <1>1, <1>2, <2>1, ProgressFrame DEF IInv, TypeOK
    <2>2. QED
      BY <1>1, <1>5, <2>1, Zenon DEF IInv
  <1>7. Staleness'
    <2>1. \A q \in Requests : pc'[q] = "set" => pc[q] = "set"
      BY <1>1, <1>2 DEF TypeOK
    <2>2. QED
      BY <1>1, <2>1, StalenessFrame, Zenon DEF IInv
  <1>8. QED
    BY <1>1, <1>4, <1>6, <1>7, Zenon DEF IInv

\* The handler is gone.
LEMMA FinishIInv ==
  ASSUME IInv, NEW r \in Requests, Finish(r)
  PROVE  IInv'
  <1>1. TypeOK
    BY DEF IInv
  <1>2. /\ pc'[r] = "idle" /\ native'[r] = FALSE /\ model'[r] = Alias /\ orig'[r] = Alias
        /\ plan'[r] = NoRoute /\ next'[r] = 1 /\ tried'[r] = <<>> /\ lastErr'[r] = "none"
    BY <1>1 DEF Finish, TypeOK
  <1>3. TypeOK'
    <2>1. Alias \in Models /\ <<>> \in Seq(Results) /\ Len(<<>>) = 0
      BY DEF Models
    <2>2. \A q \in Requests : q # r => tried'[q] = tried[q] /\ plan'[q] = plan[q]
      BY <1>1 DEF Finish, TypeOK
    <2>3. \A q \in Requests : Len(tried'[q]) <= Len(plan'[q].targets)
      <3>1. tried'[r] = <<>> /\ plan'[r].targets = <<>> /\ 0 <= 0
        BY <1>2, NoRoutePlan
      <3>2. \A q \in Requests : Len(tried[q]) <= Len(plan[q].targets)
        BY <1>1 DEF TypeOK
      <3>3. QED
        BY <2>1, <2>2, <3>1, <3>2
    <2>4. /\ pc' \in [Requests -> {"idle", "read", "set", "loop", "call", "done"}]
          /\ native' \in [Requests -> BOOLEAN] /\ model' \in [Requests -> Models]
          /\ orig' \in [Requests -> Models]
      BY <1>1, <2>1 DEF Finish, TypeOK
    <2>5. /\ plan' \in [Requests -> SortedTargets \cup {NoRoute}]
          /\ readAt' \in [Requests -> Nat] /\ next' \in [Requests -> Nat \ {0}]
          /\ tried' \in [Requests -> Seq(Results)]
      BY <1>1, <2>1 DEF Finish, TypeOK
    <2>6. lastErr' \in [Requests -> Results] /\ result' \in [Requests -> Results]
      BY <1>1, Zenon DEF Finish, TypeOK, Results
    <2>7. QED
      BY <1>1, <2>3, <2>4, <2>5, <2>6 DEF Finish, TypeOK, routeVars
  <1>4. Progress(r)' /\ Ascending(plan'[r].targets)
    BY <1>2, NoRoutePlan DEF Progress
  <1>5. \A q \in Requests : Progress(q)' /\ Ascending(plan'[q].targets)
    <2>1. ASSUME NEW q \in Requests, q # r PROVE Progress(q)' /\ Ascending(plan'[q].targets)
      BY <1>1, <2>1, ProgressFrame, Zenon DEF IInv, TypeOK, Finish
    <2>2. QED
      BY <1>4, <2>1
  <1>6. Staleness'
    <2>1. \A q \in Requests : pc'[q] = "set" =>
            pc[q] = "set" /\ readAt'[q] = readAt[q] /\ plan'[q] = plan[q]
      BY <1>1 DEF Finish, TypeOK
    <2>2. QED
      BY <2>1, StalenessFrame, Zenon DEF IInv, Finish
  <1>7. QED
    BY <1>3, <1>5, <1>6, Zenon DEF IInv, Finish

(* The native handler: the first fitting target gets the request, so every *)
(* target before it does not fit.                                          *)
LEMMA NativeIInv ==
  ASSUME IInv, NEW r \in Requests, NEW o \in Outcomes, NativeForward(r, o)
  PROVE  IInv'
  <1> DEFINE ts  == plan[r].targets
             fit == {i \in 1 .. Len(ts) : IsNative(ts[i])}
             k   == CHOOSE i \in fit : \A j \in fit : i <= j
  <1>1. /\ pc[r] = "loop" /\ native[r] /\ pc' = [pc EXCEPT ![r] = "done"]
        /\ UNCHANGED <<clock, routeVars, rcache, native, model, orig, plan, readAt, lastErr, used>>
    BY Zenon DEF NativeForward
  <1>2. TypeOK
    BY DEF IInv
  <1>3. /\ model[r] = Alias /\ lastErr[r] \in Passed \cup {"none"} /\ plan[r] # NoRoute
        /\ pc'[r] = "done" /\ Len(ts) \in Nat
    <2>1. Len(ts) \in Nat
      BY <1>2, PlanOf
    <2>2. QED
      BY <1>1, <1>2, <2>1, Zenon DEF IInv, Progress, TypeOK
  <1>4. \A q \in Requests : q # r => pc'[q] = pc[q]
    BY <1>1, <1>2 DEF TypeOK
  <1>5. Staleness'
    <2>1. \A q \in Requests : pc'[q] = "set" => pc[q] = "set"
      BY <1>3, <1>4
    <2>2. QED
      BY <1>1, <2>1, StalenessFrame, Zenon DEF IInv
  <1>6. /\ TypeOK' /\ Progress(r)'
        /\ \A q \in Requests : q # r => next'[q] = next[q] /\ tried'[q] = tried[q]
                                        /\ result'[q] = result[q]
    <2>1. CASE fit = {}
      <3>1. result' = [result EXCEPT ![r] = "no native provider"] /\ next' = next /\ tried' = tried
        BY <2>1, Zenon DEF NativeForward
      <3>2. TypeOK'
        BY <1>1, <1>2, <3>1, Zenon DEF TypeOK, routeVars, Results
      <3>3. result'[r] # "ok"
        BY <1>2, <3>1, Zenon DEF TypeOK
      <3>4. Progress(r)'
        BY <1>1, <1>3, <3>3, Zenon DEF Progress
      <3>5. QED
        BY <1>2, <3>1, <3>2, <3>4, Zenon DEF TypeOK
    <2>2. CASE fit # {}
      <3>1. k \in 1 .. Len(ts)
        <4>1. fit \subseteq Nat /\ fit # {}
          BY <2>2
        <4>2. \E i \in fit : \A j \in fit : i <= j
          BY <4>1, LeastNat, Zenon
        <4>3. k \in fit
          BY <4>2, Zenon
        <4>4. QED
          BY <4>3, Zenon
      <3> DEFINE t == [i \in 1 .. k |-> IF i = k THEN o ELSE "unfit"]
      <3>2. /\ result' = [result EXCEPT ![r] = o] /\ next' = [next EXCEPT ![r] = k]
            /\ tried' = [tried EXCEPT ![r] = t]
        BY <2>2, Zenon DEF NativeForward
      <3> HIDE DEF k
      <3>3. k \in Nat \ {0} /\ k <= Len(ts) /\ o \in Results /\ "unfit" \in Results \cap Passed
        <4>1. k \in Nat \ {0} /\ k <= Len(ts)
          BY <1>3, <3>1
        <4>2. QED
          BY <4>1, Zenon DEF Results, Passed
      <3>4. t \in Seq(Results) /\ Len(t) = k /\ \A i \in 1 .. k - 1 : t[i] \in Passed
        BY <3>3
      <3> HIDE DEF t
      <3>5. next'[r] = k /\ tried'[r] = t
        BY <1>2, <3>2 DEF TypeOK
      <3>6. TypeOK'
        <4>1. \A q \in Requests : Len(tried'[q]) <= Len(plan[q].targets)
          BY <1>2, <3>2, <3>3, <3>4, <3>5 DEF TypeOK
        <4>2. tried' \in [Requests -> Seq(Results)] /\ next' \in [Requests -> Nat \ {0}]
          BY <1>2, <3>2, <3>3, <3>4 DEF TypeOK
        <4>3. result' \in [Requests -> Results] /\ pc' \in [Requests -> {"idle", "read", "set", "loop", "call", "done"}]
          BY <1>1, <1>2, <3>2, <3>3 DEF TypeOK
        <4>4. QED
          BY <1>1, <1>2, <4>1, <4>2, <4>3 DEF TypeOK, routeVars
      <3>7. Progress(r)'
        BY <1>1, <1>3, <3>3, <3>4, <3>5, Zenon DEF Progress
      <3>8. QED
        BY <1>2, <3>2, <3>6, <3>7, Zenon DEF TypeOK
    <2>3. QED
      BY <2>1, <2>2, Zenon
  <1>7. \A q \in Requests : Progress(q)' /\ Ascending(plan'[q].targets)
    <2>1. ASSUME NEW q \in Requests, q # r PROVE Progress(q)'
      BY <1>1, <1>4, <1>6, <2>1, ProgressFrame, Zenon DEF IInv
    <2>2. QED
      BY <1>1, <1>6, <2>1, Zenon DEF IInv
  <1>8. QED
    BY <1>1, <1>5, <1>6, <1>7 DEF IInv

\* Admin steps leave the requests and the cache alone.
LEMMA AdminProgress ==
  ASSUME IInv, UNCHANGED <<rcache, reqVars>>
  PROVE  /\ Ascending(rcache'.plan.targets)
         /\ \A q \in Requests : Progress(q)' /\ Ascending(plan'[q].targets)
  BY ProgressFrame, Zenon DEF IInv, reqVars

\* Replacing a route at this moment makes nothing older than it was.
LEMMA AdminIInv ==
  ASSUME IInv,
         (\E ts \in Routes : CreateRoute(ts) \/ UpdateRoute(ts)) \/ DeleteRoute
  PROVE  IInv'
  <1>1. UNCHANGED <<clock, rcache, reqVars, used>>
    BY DEF CreateRoute, UpdateRoute, DeleteRoute
  <1>2. TypeOK /\ Staleness
    BY DEF IInv
  <1>3. \/ replaced' = replaced /\ route = NoRoute
        \/ route # NoRoute /\ replaced' = [replaced EXCEPT ![route.ver] = clock]
    BY DEF CreateRoute, UpdateRoute, DeleteRoute, Replace
  <1>4. \/ versions' = versions /\ route' = NoRoute
        \/ /\ versions < MaxVersions /\ versions' = versions + 1
           /\ \E ts \in Routes : route' = [ver |-> versions + 1, targets |-> ts]
    BY DEF CreateRoute, UpdateRoute, DeleteRoute
  <1>5. /\ versions \in Nat /\ versions \in Versions /\ versions' \in Versions
        /\ versions <= versions' /\ versions' \in Nat
        /\ route' # NoRoute => route'.ver = versions' /\ versions' = versions + 1
        /\ route' \in RouteRow \cup {NoRoute}
    <2>1. versions \in Nat /\ versions \in Versions /\ versions' \in Versions
          /\ versions <= versions' /\ versions' \in Nat
      BY <1>2, <1>4, FailoverAssumption DEF TypeOK, Versions
    <2>2. QED
      BY <1>4, <2>1 DEF RouteRow
  <1>6. /\ clock \in Nat /\ \A v \in Versions : replaced[v] \in Nat
        /\ \A v \in Versions : replaced'[v] = replaced[v] \/ replaced'[v] = clock
        /\ \A v \in Versions : v > versions => replaced'[v] = 0
        /\ replaced' \in [Versions -> Nat]
    <2>1. clock \in Nat /\ replaced \in [Versions -> Nat]
      BY <1>2 DEF TypeOK
    <2>2. \A v \in Versions : v > versions => replaced[v] = 0
      BY <1>2 DEF Staleness
    <2>3. route # NoRoute => route.ver \in Versions /\ route.ver \in Nat /\ route.ver <= versions
      BY <1>2 DEF TypeOK, Staleness, RouteRow, Versions
    <2>4. \A v \in Versions : v \in Nat
      BY DEF Versions
    <2>5. QED
      BY <1>3, <1>5, <2>1, <2>2, <2>3, <2>4
  <1>7. TypeOK'
    BY <1>1, <1>2, <1>5, <1>6 DEF TypeOK, reqVars
  <1>8. ASSUME NEW v \in Versions, NEW t \in Int, t <= clock, Live(v, t)
        PROVE  Live(v, t)'
    BY <1>6, <1>8 DEF Live
  <1>9. Staleness'
    <2>1. \A v \in Versions : v > versions' => replaced'[v] = 0
      BY <1>5, <1>6 DEF Versions
    <2>2. route' # NoRoute => route'.ver <= versions' /\ replaced'[route'.ver] = 0
      <3>1. route' # NoRoute => versions' \in Versions /\ versions' > versions
        BY <1>5
      <3>2. QED
        BY <1>5, <1>6, <3>1
    <2>3. ASSUME NEW r \in Requests, pc'[r] = "set"
          PROVE  /\ readAt'[r] <= clock' /\ clock' - readAt'[r] <= MaxLag
                 /\ Live(plan[r].ver, readAt[r])'
      <3>1. pc[r] = "set" /\ readAt' = readAt /\ plan' = plan /\ clock' = clock
        BY <1>1, <2>3 DEF reqVars
      <3>2. /\ plan[r].ver \in Versions /\ readAt[r] \in Int /\ readAt[r] <= clock
            /\ clock - readAt[r] <= MaxLag /\ Live(plan[r].ver, readAt[r])
        <4>1. plan[r] # NoRoute /\ TypeOK
          BY <1>2, <3>1, Zenon DEF IInv, Progress
        <4>2. plan[r].ver \in Versions
          BY <4>1, PlanOf
        <4>3. readAt[r] \in Int
          BY <4>1 DEF TypeOK
        <4>4. QED
          BY <1>2, <3>1, <4>2, <4>3, Zenon DEF Staleness
      <3>3. Live(plan[r].ver, readAt[r])'
        BY <1>8, <3>1, <3>2, Zenon DEF Live
      <3>4. QED
        BY <3>1, <3>2, <3>3, Zenon
    <2>4. rcache'.plan # NoRoute => rcache'.at <= clock' /\ Live(rcache.plan.ver, rcache.at - MaxLag)'
      <3> SUFFICES ASSUME rcache.plan # NoRoute
                   PROVE  rcache.at <= clock /\ Live(rcache.plan.ver, rcache.at - MaxLag)'
        BY <1>1
      <3>1. /\ rcache.plan.ver \in Versions /\ rcache.at \in Nat /\ MaxLag \in Nat
            /\ rcache.at <= clock /\ Live(rcache.plan.ver, rcache.at - MaxLag)
        BY <1>2, FailoverAssumption, NoRoutePlan, Zenon DEF TypeOK, Staleness
      <3>2. rcache.at - MaxLag \in Int /\ rcache.at - MaxLag <= clock
        <4>1. ASSUME NEW x \in Nat, NEW y \in Nat, x <= clock, clock \in Nat
              PROVE  x - y \in Int /\ x - y <= clock
          BY <4>1
        <4>2. QED
          BY <1>6, <3>1, <4>1
      <3>3. QED
        BY <1>1, <1>8, <3>1, <3>2 DEF Live
    <2>5. BoundedRouteStaleness'
      <3>1. used.at \in Nat /\ used.at <= clock /\ (used.ver = 0 \/ used.ver \in Versions)
        BY <1>2 DEF TypeOK, Staleness
      <3>2. RouteTTL \in Nat \ {0} /\ MaxLag \in Nat
        BY FailoverAssumption
      <3>3. used.ver = 0 \/ replaced[used.ver] = 0 \/ used.at - replaced[used.ver] < RouteTTL + MaxLag
        BY <1>2, Zenon DEF Staleness, BoundedRouteStaleness
      <3>4. QED
        BY <1>1, <1>6, <3>1, <3>2, <3>3 DEF BoundedRouteStaleness
    <2>6. used'.at <= clock'
      BY <1>1, <1>2, Zenon DEF Staleness
    <2>7. QED
      BY <2>1, <2>2, <2>3, <2>4, <2>5, <2>6, Zenon DEF Staleness
  <1>10. QED
    BY <1>1, <1>7, <1>9, AdminProgress, Zenon DEF IInv

\* Every step keeps the inductive invariant.
LEMMA StepIInv == IInv /\ [Next]_vars => IInv'
  <1> SUFFICES ASSUME IInv, [Next]_vars PROVE IInv'
    OBVIOUS
  <1>1. CASE Tick
    BY <1>1, TickIInv
  <1>2. ASSUME NEW r \in Requests, RequestStep(r) PROVE IInv'
    BY <1>2, ArriveIInv, GetRouteIInv, CacheRouteIInv, SkipIInv, CallIInv, ReturnIInv,
       ExhaustedIInv, NativeIInv, FinishIInv DEF RequestStep
  <1>3. CASE (\E ts \in Routes : CreateRoute(ts) \/ UpdateRoute(ts)) \/ DeleteRoute
    BY <1>3, AdminIInv
  <1>4. CASE UNCHANGED vars
    <2>1. UNCHANGED <<clock, routeVars, rcache, reqVars, used>>
      BY <1>4 DEF vars
    <2>2. TypeOK' /\ Staleness'
      BY <2>1, Zenon DEF IInv, TypeOK, Staleness, Live, BoundedRouteStaleness, routeVars, reqVars
    <2>3. QED
      BY <2>1, <2>2, AdminProgress, Zenon DEF IInv
  <1>5. QED
    BY <1>1, <1>2, <1>3, <1>4 DEF Next

(* Every reachable state satisfies the inductive invariant. *)
THEOREM Invariance == Spec => []IInv
  BY InitIInv, StepIInv, PTL DEF Spec

\* In sorted targets one of a smaller priority number comes before.
LEMMA SmallerFirst ==
  ASSUME NEW ts \in Seq(Targets), Ascending(ts), NEW m \in Nat \ {0}, m <= Len(ts),
         NEW k \in 1 .. Len(ts), ts[k].prio < ts[m].prio
  PROVE  k < m /\ k \in 1 .. m - 1
  <1>1. m \in 1 .. Len(ts) /\ ts[k] \in Targets /\ ts[m] \in Targets
    OBVIOUS
  <1>2. ts[k].prio \in Int /\ ts[m].prio \in Int
    BY <1>1, RoutesAssumption, Zenon
  <1>3. m < k => ts[m].prio <= ts[k].prio
    BY <1>1, Zenon DEF Ascending
  <1>4. QED
    BY <1>1, <1>2, <1>3

(* For any routes and providers: a request is answered by the first target *)
(* in the order of priorities that could be used and did not fail          *)
(* (ResolveModel and the loop of ChatCompletion, native.go).               *)
THEOREM ByPriority == Spec => []AnsweredByPriority
  <1>1. IInv => AnsweredByPriority
    <2> SUFFICES ASSUME IInv, NEW r \in Requests, pc[r] = "done", result[r] = "ok",
                        NEW k \in 1 .. Len(plan[r].targets),
                        plan[r].targets[k].prio < plan[r].targets[next[r]].prio
                 PROVE  k < next[r] /\ tried[r][k] \in {"open", "missing", "unfit", "failed"}
      BY DEF AnsweredByPriority
    <2>1. TypeOK /\ Progress(r) /\ Ascending(plan[r].targets)
      BY Zenon DEF IInv
    <2>2. next[r] \in Nat \ {0} /\ plan[r].targets \in Seq(Targets)
      BY <2>1, PlanOf, Zenon DEF TypeOK
    <2>3. next[r] <= Len(plan[r].targets) /\ \A j \in 1 .. next[r] - 1 : tried[r][j] \in Passed
      BY <2>1, Zenon DEF Progress
    <2>4. k < next[r] /\ k \in 1 .. next[r] - 1
      BY <2>1, <2>2, <2>3, SmallerFirst, Zenon
    <2>5. QED
      BY <2>3, <2>4, Zenon DEF Passed
  <1>2. QED
    BY <1>1, Invariance, PTL

(* Outside the call of a provider the request has the model that the       *)
(* client asked for, whatever was tried.                                   *)
THEOREM RestoresModel == Spec => []ModelRestored
  <1>1. IInv => ModelRestored
    BY DEF IInv, Progress, ModelRestored
  <1>2. QED
    BY <1>1, Invariance, PTL

(* A route is followed for less than RouteTTL + MaxLag after it was        *)
(* replaced in the store, for any TTL and any number of requests.          *)
THEOREM RouteStaleness == Spec => []BoundedRouteStaleness
  <1>1. IInv => BoundedRouteStaleness
    BY Zenon DEF IInv, Staleness
  <1>2. QED
    BY <1>1, Invariance, PTL
=============================================================================
