--------------------------- MODULE ChatPathProofs ---------------------------
(***************************************************************************)
(* Proofs about ResponseCache, CacheKey and Adapter, and with them about   *)
(* ChatPath, for any number of requests, all TTLs, all requests that       *)
(* clients may send, conversations of any length, whatever the replies,    *)
(* and every length of a behaviour.                                        *)
(***************************************************************************)
EXTENDS ChatPath, NaturalsInduction, WellFoundedInduction, SequenceTheorems, TLAPS

\* t is the TTL of the route, or was read as such from the store since time s.
ReadSince(t, s) ==
  \/ t = routeTTL
  \/ t = changed.before /\ changed.at > 0 /\ s <= changed.at
  \/ t = 0 /\ failed > 0 /\ s <= failed

\* The same of the TTL of an entry.
UsedSince(t, s) ==
  \/ t = Effective(routeTTL)
  \/ t = Effective(changed.before) /\ changed.at > 0 /\ s <= changed.at
  \/ t = FallbackTTL /\ failed > 0 /\ s <= failed

ClockInv == 0 < clock /\ changed.at <= clock /\ failed <= clock

\* A request stores its response at most MaxLag after it was made, with a TTL
\* that it has read since, or that ttlCache had less than RouteCache before.
StoreInv ==
  \A r \in Requests : pc[r] \in {"ttl", "fill", "set"} =>
    /\ born[r] <= clock /\ clock <= born[r] + MaxLag
    /\ pc[r] = "fill" => ReadSince(ttl[r], born[r])
    /\ pc[r] = "set" => UsedSince(ttl[r], born[r] - MaxLag - RouteCache + 1)

TTLCacheInv ==
  ttlCache # NoTTL => ttlCache.at <= clock /\ ReadSince(ttlCache.ttl, ttlCache.at - MaxLag)

EntryInv ==
  entry # NoEntry =>
    /\ entry.at <= clock /\ entry.born <= entry.at /\ entry.at <= entry.born + MaxLag
    /\ UsedSince(entry.ttl, entry.at - 2 * MaxLag - RouteCache + 1)

IInv == TypeOK /\ ClockInv /\ StoreInv /\ TTLCacheInv /\ EntryInv /\ HitsAreFresh
-----------------------------------------------------------------------------
(* TTLs. *)

\* The numbers of the model.
LEMMA Numbers ==
  ASSUME TypeOK
  PROVE  /\ clock \in Nat /\ failed \in Nat /\ changed.at \in Nat
         /\ Times \subseteq Nat /\ TTLs \subseteq Nat /\ RouteTTLs \subseteq TTLs
         /\ entry.born \in Nat /\ entry.at \in Nat /\ entry.ttl \in Nat
         /\ changed.before \in RouteTTLs /\ routeTTL \in RouteTTLs
         /\ \A r \in Requests : born[r] \in Nat /\ born[r] \in Times /\ ttl[r] \in TTLs
         /\ ttlCache # NoTTL => ttlCache.at \in Nat /\ ttlCache.ttl \in TTLs
  <1>1. Times \subseteq Nat /\ TTLs \subseteq Nat /\ RouteTTLs \subseteq TTLs
    BY ResponseCacheAssumption DEF Times, TTLs
  <1>2. QED
    BY <1>1, Zenon DEF TypeOK

\* The fallback replaces a TTL that is not set.
LEMMA EffectiveType ==
  /\ \A t \in TTLs : Effective(t) \in TTLs
  /\ Effective(0) = FallbackTTL
  BY ResponseCacheAssumption DEF Effective, TTLs

\* What was read since some time was read since every earlier time.
LEMMA ReadEarlier ==
  ASSUME TypeOK, NEW t, NEW s \in Int, NEW u \in Int, u <= s
  PROVE  /\ ReadSince(t, s) => ReadSince(t, u)
         /\ UsedSince(t, s) => UsedSince(t, u)
         /\ ReadSince(t, s) => UsedSince(Effective(t), u)
  <1>1. changed.at \in Nat /\ failed \in Nat
    BY Numbers
  <1>2. ReadSince(t, s) => ReadSince(t, u)
    BY <1>1 DEF ReadSince
  <1>3. UsedSince(t, s) => UsedSince(t, u)
    BY <1>1 DEF UsedSince
  <1>4. ReadSince(t, u) => UsedSince(Effective(t), u)
    BY EffectiveType DEF ReadSince, UsedSince
  <1>5. QED
    BY <1>2, <1>3, <1>4
-----------------------------------------------------------------------------
(* Steps. *)

\* A step that leaves the route and its history alone keeps what was read.
LEMMA ReadKept ==
  ASSUME UNCHANGED <<routeTTL, changed, failed>>
  PROVE  \A t, s : ReadSince(t, s)' = ReadSince(t, s) /\ UsedSince(t, s)' = UsedSince(t, s)
  BY DEF ReadSince, UsedSince

\* Time passes only as long as no response waits for longer than MaxLag.
LEMMA TickInv == ASSUME IInv, Tick PROVE IInv'
  <1> USE DEF IInv
  <1>1. /\ clock' = clock + 1 /\ clock < MaxTime
        /\ \A r \in Requests : pc[r] \in {"ttl", "fill", "set"} => clock - born[r] < MaxLag
        /\ UNCHANGED <<routeTTL, changed, failed, ttlCache, entry, pc, born, ttl, hit>>
    BY DEF Tick, histVars, reqVars
  <1>2. clock \in Nat /\ clock' \in Times /\ MaxLag \in Nat
    BY <1>1, Numbers, ResponseCacheAssumption DEF Times
  <1>3. TypeOK' /\ HitsAreFresh'
    BY <1>1, <1>2 DEF TypeOK, HitsAreFresh
  <1>4. ClockInv'
    BY <1>1, <1>2, Numbers DEF ClockInv
  <1>5. StoreInv'
    BY <1>1, <1>2, Numbers, ReadKept DEF StoreInv
  <1>6. TTLCacheInv'
    BY <1>1, <1>2, Numbers, ReadKept DEF TTLCacheInv
  <1>7. EntryInv'
    BY <1>1, <1>2, Numbers, ReadKept DEF EntryInv
  <1>8. QED
    BY <1>3, <1>4, <1>5, <1>6, <1>7

\* A step that only drops the entry, if anything, and moves r to where it stores
\* no response.
LEMMA DropInv ==
  ASSUME IInv, entry' \in {entry, NoEntry}, HitsAreFresh', hit' \in [age : Times, ttl : TTLs],
         UNCHANGED <<clock, routeTTL, changed, failed, ttlCache, born, ttl>>,
         pc' = pc \/ \E r \in Requests, v \in {"idle", "invalidate", "call"} : pc' = [pc EXCEPT ![r] = v]
  PROVE  IInv'
  <1> USE DEF IInv
  <1>1. /\ pc' \in [Requests -> {"idle", "invalidate", "call", "ttl", "fill", "set"}]
        /\ \A r \in Requests : pc'[r] \in {"ttl", "fill", "set"} => pc'[r] = pc[r]
    BY DEF TypeOK
  <1>2. NoEntry \in [born : Times, at : Times, ttl : TTLs]
    BY ResponseCacheAssumption DEF NoEntry, Times, TTLs
  <1>3. TypeOK' /\ ClockInv'
    BY <1>1, <1>2 DEF TypeOK, ClockInv
  <1>4. StoreInv'
    BY <1>1, ReadKept DEF StoreInv
  <1>5. TTLCacheInv' /\ EntryInv'
    BY ReadKept DEF TTLCacheInv, EntryInv
  <1>6. QED
    BY <1>3, <1>4, <1>5

\* Memory.Get: a hit is at most as old as its TTL and the time to store it.
LEMMA GetInv == ASSUME IInv, NEW r \in Requests, Get(r) PROVE IInv'
  <1>1. UNCHANGED <<clock, routeTTL, changed, failed, ttlCache, entry, born, ttl>>
    BY DEF Get, histVars
  <1>2. CASE Present(entry) /\ ~ Expired(entry)
    <2>1. pc' = pc /\ hit' = [age |-> clock - entry.born, ttl |-> entry.ttl]
      BY <1>2 DEF Get
    <2>2. entry # NoEntry /\ ~ (clock > entry.at + entry.ttl)
      BY <1>2 DEF Present, Expired
    <2>3. /\ entry.at <= clock /\ entry.born <= entry.at /\ entry.at <= entry.born + MaxLag
          /\ entry.born \in Nat /\ entry.at \in Nat /\ entry.ttl \in Nat /\ clock \in Nat /\ MaxLag \in Nat
      BY <2>2, Numbers, ResponseCacheAssumption DEF IInv, EntryInv
    <2>4. clock - entry.born <= entry.ttl + MaxLag
      BY <2>2, <2>3
    <2>5. clock - entry.born \in Times
      <3>1. clock <= MaxTime /\ MaxTime \in Nat
        BY ResponseCacheAssumption DEF IInv, TypeOK, Times
      <3>2. clock - entry.born \in 0 .. MaxTime
        BY <3>1, <2>3
      <3>3. QED
        BY <3>2 DEF Times
    <2>6. HitsAreFresh' /\ hit' \in [age : Times, ttl : TTLs]
      BY <2>1, <2>4, <2>5 DEF HitsAreFresh, IInv, TypeOK
    <2>7. QED
      BY <1>1, <2>1, <2>6, DropInv
  <1>3. CASE ~ (Present(entry) /\ ~ Expired(entry))
    <2>1. hit' = hit /\ \E v \in {"idle", "invalidate", "call"} : pc' = [pc EXCEPT ![r] = v]
      BY <1>3 DEF Get
    <2>2. HitsAreFresh' /\ hit' \in [age : Times, ttl : TTLs]
      BY <2>1 DEF HitsAreFresh, IInv, TypeOK
    <2>3. QED
      BY <1>1, <2>1, <2>2, DropInv, Zenon
  <1>4. QED
    BY <1>2, <1>3

\* The entry is dropped, or there is no response to store.
LEMMA InvalidateInv ==
  ASSUME IInv, (\E r \in Requests : Invalidate(r) \/ RespondError(r)) \/ Purge
  PROVE  IInv'
  <1>1. /\ UNCHANGED <<clock, routeTTL, changed, failed, ttlCache, born, ttl, hit>>
        /\ entry' \in {entry, NoEntry}
        /\ pc' = pc \/ \E r \in Requests, v \in {"idle", "invalidate", "call"} : pc' = [pc EXCEPT ![r] = v]
    BY DEF Invalidate, RespondError, Purge, histVars, reqVars
  <1>2. HitsAreFresh' /\ hit' \in [age : Times, ttl : TTLs]
    BY <1>1 DEF HitsAreFresh, IInv, TypeOK
  <1>3. QED
    BY <1>1, <1>2, DropInv

\* The proxy returns a response, made now.
LEMMA RespondInv == ASSUME IInv, NEW r \in Requests, Respond(r) PROVE IInv'
  <1> USE DEF IInv
  <1>1. /\ pc' = [pc EXCEPT ![r] = "ttl"] /\ born' = [born EXCEPT ![r] = clock]
        /\ UNCHANGED <<clock, routeTTL, changed, failed, ttlCache, entry, ttl, hit>>
    BY DEF Respond, histVars
  <1>2. TypeOK' /\ ClockInv' /\ HitsAreFresh'
    BY <1>1 DEF TypeOK, ClockInv, HitsAreFresh
  <1>3. StoreInv'
    <2>1. SUFFICES ASSUME NEW q \in Requests, pc'[q] \in {"ttl", "fill", "set"}
                   PROVE  /\ born'[q] <= clock /\ clock <= born'[q] + MaxLag
                          /\ pc'[q] = "fill" => ReadSince(ttl[q], born'[q])
                          /\ pc'[q] = "set" => UsedSince(ttl[q], born'[q] - MaxLag - RouteCache + 1)
      BY <1>1, ReadKept DEF StoreInv
    <2>2. CASE q = r
      <3>1. pc'[q] = "ttl" /\ born'[q] = clock
        BY <1>1, <2>2 DEF TypeOK
      <3>2. clock <= clock + MaxLag /\ clock <= clock
        BY Numbers, ResponseCacheAssumption
      <3>3. QED
        BY <3>1, <3>2
    <2>3. CASE q # r
      BY <1>1, <2>1, <2>3 DEF StoreInv, TypeOK
    <2>4. QED
      BY <2>2, <2>3
  <1>4. TTLCacheInv' /\ EntryInv'
    BY <1>1, ReadKept DEF TTLCacheInv, EntryInv
  <1>5. QED
    BY <1>2, <1>3, <1>4

\* CacheTTL with the TTL in its cache, which was put there less than RouteCache
\* ago.
LEMMA CacheTTLInv == ASSUME IInv, NEW r \in Requests, CacheTTL(r) PROVE IInv'
  <1> USE DEF IInv
  <1>1. /\ pc[r] = "ttl" /\ ttlCache # NoTTL /\ clock - ttlCache.at < RouteCache
        /\ pc' = [pc EXCEPT ![r] = "set"] /\ ttl' = [ttl EXCEPT ![r] = Effective(ttlCache.ttl)]
        /\ UNCHANGED <<clock, routeTTL, changed, failed, ttlCache, entry, born, hit>>
    BY DEF CacheTTL, TTLCached, histVars
  <1>2. Effective(ttlCache.ttl) \in TTLs
    BY <1>1, Numbers, EffectiveType
  <1>3. TypeOK' /\ ClockInv' /\ HitsAreFresh'
    BY <1>1, <1>2 DEF TypeOK, ClockInv, HitsAreFresh
  <1>4. UsedSince(Effective(ttlCache.ttl), born[r] - MaxLag - RouteCache + 1)
    <2>1. /\ born[r] \in Nat /\ clock \in Nat /\ ttlCache.at \in Nat
          /\ MaxLag \in Nat /\ RouteCache \in Nat
      BY <1>1, Numbers, ResponseCacheAssumption
    <2>2. born[r] <= clock /\ ReadSince(ttlCache.ttl, ttlCache.at - MaxLag)
      BY <1>1 DEF StoreInv, TTLCacheInv
    <2>3. /\ born[r] - MaxLag - RouteCache + 1 <= ttlCache.at - MaxLag
          /\ born[r] - MaxLag - RouteCache + 1 \in Int /\ ttlCache.at - MaxLag \in Int
      BY <1>1, <2>1, <2>2
    <2>4. QED
      BY <2>2, <2>3, ReadEarlier
  <1>5. StoreInv'
    <2>1. SUFFICES ASSUME NEW q \in Requests, pc'[q] \in {"ttl", "fill", "set"}
                   PROVE  /\ born[q] <= clock /\ clock <= born[q] + MaxLag
                          /\ pc'[q] = "fill" => ReadSince(ttl'[q], born[q])
                          /\ pc'[q] = "set" => UsedSince(ttl'[q], born[q] - MaxLag - RouteCache + 1)
      BY <1>1, ReadKept DEF StoreInv
    <2>2. CASE q = r
      <3>1. pc'[q] = "set" /\ ttl'[q] = Effective(ttlCache.ttl)
        BY <1>1, <2>2 DEF TypeOK
      <3>2. born[q] <= clock /\ clock <= born[q] + MaxLag
        BY <1>1, <2>2 DEF StoreInv
      <3>3. QED
        BY <1>4, <2>2, <3>1, <3>2
    <2>3. CASE q # r
      BY <1>1, <2>1, <2>3 DEF StoreInv, TypeOK
    <2>4. QED
      BY <2>2, <2>3
  <1>6. TTLCacheInv' /\ EntryInv'
    BY <1>1, ReadKept DEF TTLCacheInv, EntryInv
  <1>7. QED
    BY <1>3, <1>5, <1>6

\* CacheTTL reads the route, or fails to, which is noted.
LEMMA CacheTTLReadInv ==
  ASSUME IInv, NEW r \in Requests, NEW ok \in BOOLEAN, CacheTTLRead(r, ok)
  PROVE  IInv'
  <1> USE DEF IInv
  <1>1. /\ pc[r] = "ttl" /\ pc' = [pc EXCEPT ![r] = "fill"]
        /\ ttl' = [ttl EXCEPT ![r] = IF ok THEN routeTTL ELSE 0]
        /\ failed' = IF ok THEN failed ELSE clock
        /\ UNCHANGED <<clock, routeTTL, changed, ttlCache, entry, born, hit>>
    BY DEF CacheTTLRead
  <1>2. /\ clock \in Nat /\ failed \in Nat /\ failed <= clock /\ 0 < clock
        /\ MaxLag \in Nat /\ RouteCache \in Nat
        /\ failed <= failed' /\ failed' <= clock /\ failed' \in Nat /\ failed' \in Times
    BY <1>1, Numbers, ResponseCacheAssumption DEF ClockInv, TypeOK
  <1>3. TypeOK'
    BY <1>1, <1>2, Numbers DEF TypeOK, TTLs
  <1>4. ClockInv' /\ HitsAreFresh'
    BY <1>1, <1>2 DEF ClockInv, HitsAreFresh
  <1>5. StoreInv'
    <2>1. SUFFICES ASSUME NEW q \in Requests, pc'[q] \in {"ttl", "fill", "set"}
                   PROVE  /\ born[q] <= clock /\ clock <= born[q] + MaxLag
                          /\ pc'[q] = "fill" => ReadSince(ttl[q], born[q])'
                          /\ pc'[q] = "set" => UsedSince(ttl[q], born[q] - MaxLag - RouteCache + 1)'
      BY <1>1 DEF StoreInv
    <2>2. CASE q = r
      <3>1. pc'[q] = "fill" /\ ttl'[q] = IF ok THEN routeTTL ELSE 0
        BY <1>1, <2>2 DEF TypeOK
      <3>2. born[q] <= clock /\ clock <= born[q] + MaxLag
        BY <1>1, <2>2 DEF StoreInv
      <3>3. ReadSince(ttl[q], born[q])'
        BY <1>1, <1>2, <3>1, <3>2 DEF ReadSince
      <3>4. QED
        BY <3>1, <3>2, <3>3
    <2>3. CASE q # r
      <3>1. pc'[q] = pc[q] /\ ttl'[q] = ttl[q] /\ born'[q] = born[q]
        BY <1>1, <2>3 DEF TypeOK
      <3>2. /\ born[q] \in Int /\ born[q] - MaxLag - RouteCache + 1 \in Int
            /\ born[q] <= clock /\ clock <= born[q] + MaxLag
        BY <1>2, <2>1, <3>1, Numbers DEF StoreInv
      <3>3. /\ pc[q] = "fill" => ReadSince(ttl[q], born[q])
            /\ pc[q] = "set" => UsedSince(ttl[q], born[q] - MaxLag - RouteCache + 1)
        BY <2>1, <3>1 DEF StoreInv
      <3>4. /\ pc[q] = "fill" => ReadSince(ttl[q], born[q])'
            /\ pc[q] = "set" => UsedSince(ttl[q], born[q] - MaxLag - RouteCache + 1)'
        <4>1. ASSUME pc[q] = "fill" PROVE ReadSince(ttl[q], born[q])'
          BY <1>1, <1>2, <3>1, <3>2, <3>3, <4>1 DEF ReadSince
        <4>2. ASSUME pc[q] = "set" PROVE UsedSince(ttl[q], born[q] - MaxLag - RouteCache + 1)'
          BY <1>1, <1>2, <3>1, <3>2, <3>3, <4>2 DEF UsedSince
        <4>3. QED
          BY <4>1, <4>2
      <3>5. QED
        BY <3>1, <3>2, <3>4
    <2>4. QED
      BY <2>2, <2>3
  <1>6. TTLCacheInv'
    <2>1. SUFFICES ASSUME ttlCache # NoTTL
                   PROVE  ttlCache.at <= clock /\ ReadSince(ttlCache.ttl, ttlCache.at - MaxLag)'
      BY <1>1 DEF TTLCacheInv
    <2>2. ttlCache.at <= clock /\ ttlCache.at - MaxLag \in Int /\ ReadSince(ttlCache.ttl, ttlCache.at - MaxLag)
      BY <1>2, <2>1, Numbers DEF TTLCacheInv
    <2>3. QED
      BY <1>1, <1>2, <2>2 DEF ReadSince
  <1>7. EntryInv'
    <2>1. entry.at \in Int /\ entry.at - 2 * MaxLag - RouteCache + 1 \in Int
      BY <1>2, Numbers
    <2>2. UsedSince(entry.ttl, entry.at - 2 * MaxLag - RouteCache + 1)
            => UsedSince(entry.ttl, entry.at - 2 * MaxLag - RouteCache + 1)'
      BY <1>1, <1>2, <2>1 DEF UsedSince
    <2>3. QED
      BY <1>1, <2>2 DEF EntryInv
  <1>8. QED
    BY <1>3, <1>4, <1>5, <1>6, <1>7

\* CacheTTL caches what it has read since the response was made.
LEMMA CacheTTLFillInv == ASSUME IInv, NEW r \in Requests, CacheTTLFill(r) PROVE IInv'
  <1> USE DEF IInv
  <1>1. /\ pc[r] = "fill" /\ ttlCache' = [ttl |-> ttl[r], at |-> clock]
        /\ pc' = [pc EXCEPT ![r] = "set"] /\ ttl' = [ttl EXCEPT ![r] = Effective(ttl[r])]
        /\ UNCHANGED <<clock, routeTTL, changed, failed, entry, born, hit>>
    BY DEF CacheTTLFill, histVars
  <1>2. ttl[r] \in TTLs /\ Effective(ttl[r]) \in TTLs
    BY Numbers, EffectiveType
  <1>3. TypeOK' /\ ClockInv' /\ HitsAreFresh'
    BY <1>1, <1>2 DEF TypeOK, ClockInv, HitsAreFresh
  <1>4. /\ born[r] <= clock /\ clock <= born[r] + MaxLag /\ ReadSince(ttl[r], born[r])
        /\ born[r] \in Nat /\ clock \in Nat /\ MaxLag \in Nat /\ RouteCache \in Nat /\ RouteCache >= 1
    BY <1>1, Numbers, ResponseCacheAssumption DEF StoreInv
  <1>5. /\ UsedSince(Effective(ttl[r]), born[r] - MaxLag - RouteCache + 1)
        /\ ReadSince(ttl[r], clock - MaxLag)
    <2>1. /\ born[r] - MaxLag - RouteCache + 1 <= born[r] /\ clock - MaxLag <= born[r]
          /\ born[r] - MaxLag - RouteCache + 1 \in Int /\ clock - MaxLag \in Int /\ born[r] \in Int
      BY <1>4
    <2>2. QED
      BY <1>4, <2>1, ReadEarlier
  <1>6. StoreInv'
    <2>1. SUFFICES ASSUME NEW q \in Requests, pc'[q] \in {"ttl", "fill", "set"}
                   PROVE  /\ born[q] <= clock /\ clock <= born[q] + MaxLag
                          /\ pc'[q] = "fill" => ReadSince(ttl'[q], born[q])
                          /\ pc'[q] = "set" => UsedSince(ttl'[q], born[q] - MaxLag - RouteCache + 1)
      BY <1>1, ReadKept DEF StoreInv
    <2>2. CASE q = r
      <3>1. pc'[q] = "set" /\ ttl'[q] = Effective(ttl[r])
        BY <1>1, <2>2 DEF TypeOK
      <3>2. QED
        BY <1>4, <1>5, <2>2, <3>1
    <2>3. CASE q # r
      BY <1>1, <2>1, <2>3 DEF StoreInv, TypeOK
    <2>4. QED
      BY <2>2, <2>3
  <1>7. TTLCacheInv'
    <2>1. ttlCache'.at = clock /\ ttlCache'.ttl = ttl[r] /\ clock <= clock
      BY <1>1, <1>4
    <2>2. QED
      BY <1>1, <1>5, <2>1, ReadKept DEF TTLCacheInv
  <1>8. EntryInv'
    BY <1>1, ReadKept DEF EntryInv
  <1>9. QED
    BY <1>3, <1>6, <1>7, <1>8

\* Memory.Set: the entry takes over what holds of the request.
LEMMA SetInv == ASSUME IInv, NEW r \in Requests, Set(r) PROVE IInv'
  <1> USE DEF IInv
  <1>1. /\ pc[r] = "set" /\ entry' = [born |-> born[r], at |-> clock, ttl |-> ttl[r]]
        /\ pc' = [pc EXCEPT ![r] = "idle"]
        /\ born' = [born EXCEPT ![r] = 0] /\ ttl' = [ttl EXCEPT ![r] = 0]
        /\ UNCHANGED <<clock, routeTTL, changed, failed, ttlCache, hit>>
    BY DEF Set, histVars
  <1>2. 0 \in Times /\ 0 \in TTLs /\ born[r] \in Times /\ ttl[r] \in TTLs
    BY Numbers, ResponseCacheAssumption DEF Times, TTLs
  <1>3. TypeOK' /\ ClockInv' /\ HitsAreFresh'
    BY <1>1, <1>2 DEF TypeOK, ClockInv, HitsAreFresh
  <1>4. StoreInv'
    <2>1. \A q \in Requests : pc'[q] \in {"ttl", "fill", "set"} =>
            pc'[q] = pc[q] /\ born'[q] = born[q] /\ ttl'[q] = ttl[q]
      BY <1>1 DEF TypeOK
    <2>2. QED
      BY <1>1, <2>1, ReadKept DEF StoreInv
  <1>5. EntryInv'
    <2>1. /\ born[r] <= clock /\ clock <= born[r] + MaxLag
          /\ UsedSince(ttl[r], born[r] - MaxLag - RouteCache + 1)
          /\ born[r] \in Nat /\ clock \in Nat /\ MaxLag \in Nat /\ RouteCache \in Nat
      BY <1>1, Numbers, ResponseCacheAssumption DEF StoreInv
    <2>2. /\ clock - 2 * MaxLag - RouteCache + 1 <= born[r] - MaxLag - RouteCache + 1
          /\ clock - 2 * MaxLag - RouteCache + 1 \in Int /\ born[r] - MaxLag - RouteCache + 1 \in Int
      BY <2>1
    <2>3. UsedSince(ttl[r], clock - 2 * MaxLag - RouteCache + 1)
      BY <2>1, <2>2, ReadEarlier, Zenon
    <2>4. entry'.born = born[r] /\ entry'.at = clock /\ entry'.ttl = ttl[r] /\ clock <= clock
      BY <1>1, <2>1
    <2>5. QED
      BY <1>1, <2>1, <2>3, <2>4, ReadKept DEF EntryInv
  <1>6. TTLCacheInv'
    BY <1>1, ReadKept DEF TTLCacheInv
  <1>7. QED
    BY <1>3, <1>4, <1>5, <1>6

\* The route changes: what has been read up to now is from before the change.
LEMMA UpdateRouteInv == ASSUME IInv, NEW t \in RouteTTLs, UpdateRoute(t) PROVE IInv'
  <1> USE DEF IInv
  <1>1. /\ changed.at = 0 /\ routeTTL' = t /\ changed' = [at |-> clock, before |-> routeTTL]
        /\ UNCHANGED <<clock, failed, ttlCache, entry, pc, born, ttl, hit>>
    BY DEF UpdateRoute, reqVars
  <1>2. clock \in Nat /\ 0 < clock /\ failed \in Nat /\ MaxLag \in Nat /\ RouteCache \in Nat /\ RouteCache >= 1
    BY Numbers, ResponseCacheAssumption DEF ClockInv
  <1>3. TypeOK' /\ HitsAreFresh'
    BY <1>1 DEF TypeOK, HitsAreFresh
  <1>4. ClockInv'
    BY <1>1, <1>2 DEF ClockInv
  <1>5. StoreInv'
    <2>1. SUFFICES ASSUME NEW q \in Requests, pc[q] \in {"ttl", "fill", "set"}
                   PROVE  /\ born[q] <= clock /\ clock <= born[q] + MaxLag
                          /\ pc[q] = "fill" => ReadSince(ttl[q], born[q])'
                          /\ pc[q] = "set" => UsedSince(ttl[q], born[q] - MaxLag - RouteCache + 1)'
      BY <1>1, Zenon DEF StoreInv
    <2>2. /\ born[q] \in Nat /\ born[q] <= clock /\ clock <= born[q] + MaxLag
          /\ pc[q] = "fill" => ReadSince(ttl[q], born[q])
          /\ pc[q] = "set" => UsedSince(ttl[q], born[q] - MaxLag - RouteCache + 1)
      BY <2>1, Numbers, Zenon DEF StoreInv
    <2>3. born[q] - MaxLag - RouteCache + 1 <= clock /\ born[q] - MaxLag - RouteCache + 1 \in Int
      BY <1>2, <2>2
    <2> DEFINE s == born[q] - MaxLag - RouteCache + 1
    <2>4. /\ changed'.at = clock /\ changed'.before = routeTTL /\ s' = s
          /\ UNCHANGED <<ttl, born, failed>> /\ ~ (changed.at > 0)
      BY <1>1
    <2> HIDE DEF s, IInv
    <2>5. ASSUME pc[q] = "fill" PROVE ReadSince(ttl[q], born[q])'
      <3>1. ttl[q] = routeTTL \/ (ttl[q] = 0 /\ failed > 0 /\ born[q] <= failed)
        BY <2>2, <2>4, <2>5, Zenon DEF ReadSince
      <3>2. QED
        BY <1>2, <2>2, <2>4, <3>1 DEF ReadSince
    <2>6. ASSUME pc[q] = "set" PROVE UsedSince(ttl[q], s)'
      <3>1. ttl[q] = Effective(routeTTL) \/ (ttl[q] = FallbackTTL /\ failed > 0 /\ s <= failed)
        BY <2>2, <2>4, <2>6, Zenon DEF UsedSince, s
      <3>2. s <= clock
        BY <2>3 DEF s
      <3>3. QED
        BY <1>2, <2>4, <3>1, <3>2 DEF UsedSince, Effective
    <2> USE DEF s
    <2>7. QED
      BY <2>2, <2>5, <2>6
  <1>6. TTLCacheInv'
    <2>1. SUFFICES ASSUME ttlCache # NoTTL
                   PROVE  ttlCache.at <= clock /\ ReadSince(ttlCache.ttl, ttlCache.at - MaxLag)'
      BY <1>1 DEF TTLCacheInv
    <2>2. ttlCache.at \in Nat /\ ttlCache.at <= clock /\ ReadSince(ttlCache.ttl, ttlCache.at - MaxLag)
      BY <2>1, Numbers DEF TTLCacheInv
    <2>3. ttlCache.at - MaxLag <= clock
      BY <1>2, <2>2
    <2>4. QED
      BY <1>1, <1>2, <2>2, <2>3 DEF ReadSince
  <1>7. EntryInv'
    <2>1. SUFFICES ASSUME entry # NoEntry
                   PROVE  UsedSince(entry.ttl, entry.at - 2 * MaxLag - RouteCache + 1)'
      BY <1>1 DEF EntryInv
    <2>2. /\ entry.at \in Nat /\ entry.at <= clock
          /\ UsedSince(entry.ttl, entry.at - 2 * MaxLag - RouteCache + 1)
      BY <2>1, Numbers, Zenon DEF EntryInv
    <2>3. entry.at - 2 * MaxLag - RouteCache + 1 <= clock
      BY <1>2, <2>2
    <2>4. QED
      BY <1>1, <1>2, <2>2, <2>3 DEF UsedSince
  <1>8. QED
    BY <1>3, <1>4, <1>5, <1>6, <1>7
-----------------------------------------------------------------------------
(* Invariance. *)

\* The invariant holds initially.
LEMMA InitInv == Init => IInv
  <1>1. SUFFICES ASSUME Init PROVE IInv
    OBVIOUS
  <1>2. TypeOK
    BY <1>1, ResponseCacheAssumption DEF Init, TypeOK, Times, TTLs, NoEntry, NoTTL
  <1>3. ClockInv /\ TTLCacheInv /\ EntryInv
    BY <1>1 DEF Init, ClockInv, TTLCacheInv, EntryInv
  <1>4. StoreInv
    BY <1>1 DEF Init, StoreInv
  <1>5. HitsAreFresh
    BY <1>1, ResponseCacheAssumption DEF Init, HitsAreFresh
  <1>6. QED
    BY <1>2, <1>3, <1>4, <1>5 DEF IInv

\* Every step keeps it.
LEMMA StepInv == IInv /\ [Next]_vars => IInv'
  <1>1. SUFFICES ASSUME IInv, [Next]_vars PROVE IInv'
    OBVIOUS
  <1>2. CASE UNCHANGED vars
    <2>1. UNCHANGED <<clock, routeTTL, changed, failed, ttlCache, entry, born, ttl, pc, hit>>
      BY <1>2 DEF vars, histVars, reqVars
    <2>2. HitsAreFresh' /\ hit' \in [age : Times, ttl : TTLs]
      BY <1>1, <2>1 DEF HitsAreFresh, IInv, TypeOK
    <2>3. QED
      BY <1>1, <2>1, <2>2, DropInv
  <1>3. CASE Tick
    BY <1>1, <1>3, TickInv
  <1>4. ASSUME NEW r \in Requests, Get(r) PROVE IInv'
    BY <1>1, <1>4, GetInv
  <1>5. CASE (\E r \in Requests : Invalidate(r) \/ RespondError(r)) \/ Purge
    BY <1>1, <1>5, InvalidateInv
  <1>6. ASSUME NEW r \in Requests, Respond(r) PROVE IInv'
    BY <1>1, <1>6, RespondInv
  <1>7. ASSUME NEW r \in Requests, CacheTTL(r) PROVE IInv'
    BY <1>1, <1>7, CacheTTLInv
  <1>8. ASSUME NEW r \in Requests, NEW ok \in BOOLEAN, CacheTTLRead(r, ok) PROVE IInv'
    BY <1>1, <1>8, CacheTTLReadInv
  <1>9. ASSUME NEW r \in Requests, CacheTTLFill(r) PROVE IInv'
    BY <1>1, <1>9, CacheTTLFillInv
  <1>10. ASSUME NEW r \in Requests, Set(r) PROVE IInv'
    BY <1>1, <1>10, SetInv
  <1>11. ASSUME NEW t \in RouteTTLs, UpdateRoute(t) PROVE IInv'
    BY <1>1, <1>11, UpdateRouteInv
  <1>12. QED
    BY <1>1, <1>2, <1>3, <1>4, <1>5, <1>6, <1>7, <1>8, <1>9, <1>10, <1>11 DEF Next

\* The invariant of the response cache.
THEOREM Invariance == Spec => []IInv
  BY InitInv, StepInv, PTL DEF Spec

\* No hit is older than the TTL it was stored with and the time it took to
\* store it, whatever Memory.Get and Memory.Set of others come between.
THEOREM FreshHits == Spec => []HitsAreFresh
  <1>1. IInv => HitsAreFresh
    BY DEF IInv
  <1>2. QED
    BY <1>1, Invariance, PTL

\* An entry has the TTL of its route, up to what ttlCache may still have kept
\* from before a change or a failed read.
THEOREM EntryTTL == Spec => []TTLOfRoute
  <1>1. IInv => TTLOfRoute
    <2>1. SUFFICES ASSUME IInv, entry # NoEntry
                   PROVE  \/ entry.ttl = Effective(routeTTL)
                          \/ /\ entry.ttl = Effective(changed.before) /\ changed.at > 0
                             /\ entry.at - changed.at < RouteCache + 2 * MaxLag
                          \/ /\ entry.ttl = FallbackTTL /\ failed > 0
                             /\ entry.at - failed < RouteCache + 2 * MaxLag
      BY DEF TTLOfRoute
    <2>2. UsedSince(entry.ttl, entry.at - 2 * MaxLag - RouteCache + 1)
      BY <2>1 DEF IInv, EntryInv
    <2>3. /\ entry.at \in Nat /\ changed.at \in Nat /\ failed \in Nat
          /\ MaxLag \in Nat /\ RouteCache \in Nat
      BY <2>1, Numbers, ResponseCacheAssumption DEF IInv
    <2>4. \A n \in Nat : entry.at - 2 * MaxLag - RouteCache + 1 <= n
                           => entry.at - n < RouteCache + 2 * MaxLag
      BY <2>3
    <2>5. QED
      BY <2>2, <2>3, <2>4 DEF UsedSince
  <1>2. QED
    BY <1>1, Invariance, PTL
-----------------------------------------------------------------------------
\* The fields of a key that could be made.
LEMMA KeyFields ==
  ASSUME NEW a, cacheKey(a) # Empty
  PROVE  /\ cacheKey(a) = [id |-> a.id, model |-> a.model,
                           messages |-> normalizeMessages(a.messages),
                           params |-> normalizeParams(a.params)]
         /\ \A p \in DOMAIN a.params \cap FloatParams : roundFloat(a.params[p]) # Infinite
  <1> DEFINE m == [id |-> a.id, model |-> a.model, messages |-> normalizeMessages(a.messages),
                   params |-> normalizeParams(a.params)]
  <1>1. cacheKey(a) = m /\ ~ \E p \in DOMAIN m.params \cap FloatParams : m.params[p] = Infinite
    BY DEF cacheKey, stableJSON
  <1>2. m.params = normalizeParams(a.params)
    OBVIOUS
  <1>3. ASSUME NEW p \in DOMAIN a.params \cap FloatParams
        PROVE  normalizeParams(a.params)[p] = roundFloat(a.params[p])
    BY DEF normalizeParams, FloatParams, RawParams, IntParams
  <1>4. DOMAIN normalizeParams(a.params) = DOMAIN a.params
    BY DEF normalizeParams
  <1>5. QED
    BY <1>1, <1>2, <1>3, <1>4

\* roundFloat tells apart floats that differ by a ten-thousandth.
LEMMA RoundNear ==
  ASSUME NEW f \in Int, NEW g \in Int, roundFloat(f) = roundFloat(g), roundFloat(f) # Infinite
  PROVE  f - g \in -9 .. 9
  <1>1. Overflow \in Nat \ {0}
    BY CacheKeyAssumption
  <1>2. - Overflow < f /\ f < Overflow /\ - Overflow < g /\ g < Overflow
    BY <1>1 DEF roundFloat
  <1>3. /\ roundFloat(f) = IF f >= 0 THEN (f + 5) \div 10 ELSE - ((5 - f) \div 10)
        /\ roundFloat(g) = IF g >= 0 THEN (g + 5) \div 10 ELSE - ((5 - g) \div 10)
    BY <1>1, <1>2 DEF roundFloat
  <1>4. ASSUME NEW x \in Int
        PROVE  x \div 10 \in Int /\ 10 * (x \div 10) <= x /\ x < 10 * (x \div 10) + 10
    OBVIOUS
  <1>5. ASSUME NEW x \in Int, NEW y,
               y = IF x >= 0 THEN (x + 5) \div 10 ELSE - ((5 - x) \div 10)
        PROVE  /\ y \in Int
               /\ \/ x >= 0 /\ y >= 0 /\ 10 * y <= x + 5 /\ x + 5 < 10 * y + 10
                  \/ x < 0 /\ y <= 0 /\ -10 * y <= 5 - x /\ 5 - x < 10 - 10 * y
    <2>1. x + 5 \in Int /\ 5 - x \in Int
      OBVIOUS
    <2>2. QED
      BY <1>4, <1>5, <2>1
  <1>6. PICK y : y = roundFloat(f) /\ y = roundFloat(g)
    OBVIOUS
  <1>7. /\ y \in Int
        /\ \/ f >= 0 /\ y >= 0 /\ 10 * y <= f + 5 /\ f + 5 < 10 * y + 10
           \/ f < 0 /\ y <= 0 /\ -10 * y <= 5 - f /\ 5 - f < 10 - 10 * y
        /\ \/ g >= 0 /\ y >= 0 /\ 10 * y <= g + 5 /\ g + 5 < 10 * y + 10
           \/ g < 0 /\ y <= 0 /\ -10 * y <= 5 - g /\ 5 - g < 10 - 10 * y
    BY <1>3, <1>5, <1>6, Zenon
  <1>8. QED
    BY <1>7

\* Requests of equal keys are the same but for what the key rounds.
LEMMA SameKey ==
  ASSUME NEW a \in Bodies, NEW b \in Bodies, cacheKey(a) = cacheKey(b), cacheKey(a) # Empty
  PROVE  Same(a, b, 10)
  <1>1. /\ a.id = b.id /\ a.model = b.model
        /\ normalizeMessages(a.messages) = normalizeMessages(b.messages)
        /\ normalizeParams(a.params) = normalizeParams(b.params)
    BY KeyFields
  <1>2. SameMessages(a.messages, b.messages)
    <2>1. DOMAIN a.messages = DOMAIN b.messages
      BY <1>1 DEF normalizeMessages
    <2>2. ASSUME NEW i \in DOMAIN a.messages
          PROVE  /\ a.messages[i].role = b.messages[i].role
                 /\ a.messages[i].content.val = b.messages[i].content.val
      <3> DEFINE x == a.messages[i]
                 y == b.messages[i]
      <3>1. [x EXCEPT !.content = x.content.val] = [y EXCEPT !.content = y.content.val]
        BY <1>1, <2>1 DEF normalizeMessages, compact
      <3>2. {"role", "content"} \subseteq DOMAIN x /\ {"role", "content"} \subseteq DOMAIN y
        BY <2>1, CacheKeyAssumption
      <3> HIDE DEF x, y
      <3>3. x.role = y.role /\ x.content.val = y.content.val
        BY <3>1, <3>2
      <3>4. QED
        BY <3>3 DEF x, y
    <2>3. QED
      BY <2>1, <2>2 DEF SameMessages, SameRaw
  <1>3. DOMAIN a.params = DOMAIN b.params
    BY <1>1 DEF normalizeParams
  <1>4. ASSUME NEW p \in DOMAIN a.params
        PROVE  /\ p \in FloatParams => a.params[p] - b.params[p] \in (1 - 10) .. (10 - 1)
               /\ p \in RawParams => SameRaw(a.params[p], b.params[p])
               /\ p \in IntParams => a.params[p] = b.params[p]
               /\ p \in FloatParams \cup IntParams \cup RawParams
    <2>1. normalizeParams(a.params)[p] = normalizeParams(b.params)[p]
      BY <1>1
    <2>2. /\ p \in FloatParams => roundFloat(a.params[p]) = roundFloat(b.params[p])
          /\ p \in RawParams => a.params[p].val = b.params[p].val
          /\ p \in IntParams => a.params[p] = b.params[p]
      BY <1>3, <2>1 DEF normalizeParams, compact, FloatParams, RawParams, IntParams
    <2>3. p \in FloatParams => a.params[p] \in Int /\ b.params[p] \in Int
      BY <1>3, CacheKeyAssumption
    <2>4. p \in FloatParams => roundFloat(a.params[p]) # Infinite
      BY KeyFields
    <2>5. p \in FloatParams => a.params[p] - b.params[p] \in -9 .. 9
      BY <2>2, <2>3, <2>4, RoundNear
    <2>6. p \in FloatParams \cup IntParams \cup RawParams
      BY CacheKeyAssumption
    <2>7. QED
      BY <2>2, <2>5, <2>6 DEF SameRaw
  <1>5. ASSUME NEW p \in DOMAIN a.params
        PROVE  CASE p \in FloatParams -> a.params[p] - b.params[p] \in (1 - 10) .. (10 - 1)
                 [] p \in RawParams   -> SameRaw(a.params[p], b.params[p])
                 [] p \in IntParams   -> a.params[p] = b.params[p]
    BY <1>4, Zenon DEF FloatParams, RawParams, IntParams
  <1>6. QED
    BY <1>1, <1>2, <1>3, <1>5, Zenon DEF Same

\* What is stored under a key was made for a request with that key.
KeyInv ==
  /\ calling \in Bodies \cup {NoRequest}
  /\ \A k \in DOMAIN store : store[k] \in Bodies /\ cacheKey(store[k]) = k
  /\ last.got # NoRequest =>
       /\ last.asked \in Bodies /\ last.got \in Bodies
       /\ cacheKey(last.asked) = cacheKey(last.got)

\* KeyInv holds at the start and after every step.
LEMMA KeyStep == (KeyInit => KeyInv) /\ (KeyInv /\ [KeyNext]_keyVars => KeyInv')
  <1>1. ASSUME KeyInit PROVE KeyInv
    <2>1. DOMAIN store = {} /\ calling = NoRequest /\ last.got = NoRequest
      BY <1>1 DEF KeyInit
    <2>2. QED
      BY <2>1 DEF KeyInv
  <1>2. ASSUME KeyInv, NEW req \in Bodies, Lookup(req) PROVE KeyInv'
    <2>1. CASE cacheKey(req) \in DOMAIN store
      <3>1. last' = [asked |-> req, got |-> store[cacheKey(req)]] /\ UNCHANGED <<calling, store>>
        BY <1>2, <2>1 DEF Lookup
      <3>2. last'.asked = req /\ last'.got = store[cacheKey(req)]
        BY <3>1
      <3>3. QED
        BY <1>2, <2>1, <3>1, <3>2 DEF KeyInv
    <2>2. CASE cacheKey(req) \notin DOMAIN store
      <3>1. last' = [asked |-> req, got |-> NoRequest] /\ calling' = req /\ store' = store
        BY <1>2, <2>2 DEF Lookup
      <3>2. last'.got = NoRequest
        BY <3>1
      <3>3. QED
        BY <1>2, <3>1, <3>2 DEF KeyInv
    <2>3. QED
      BY <2>1, <2>2
  <1>3. ASSUME KeyInv, NEW req \in Bodies, Bypass(req) PROVE KeyInv'
    <2>1. last'.got = NoRequest /\ UNCHANGED <<store, calling>>
      BY <1>3 DEF Bypass
    <2>2. QED
      BY <1>3, <2>1 DEF KeyInv
  <1>4. ASSUME KeyInv, NEW keep \in SUBSET DOMAIN store, SetEntry(keep) PROVE KeyInv'
    <2>1. PICK k : k = cacheKey(calling)
      OBVIOUS
    <2>2. /\ calling \in Bodies /\ calling' = NoRequest /\ last' = last
          /\ store' = [x \in keep \cup {k} |-> IF x = k THEN calling ELSE store[x]]
      BY <1>4, <2>1 DEF KeyInv, SetEntry
    <2>3. ASSUME NEW x \in DOMAIN store' PROVE store'[x] \in Bodies /\ cacheKey(store'[x]) = x
      BY <1>4, <2>1, <2>2 DEF KeyInv
    <2>4. QED
      BY <1>4, <2>2, <2>3 DEF KeyInv
  <1>5. ASSUME KeyInv, CallFails PROVE KeyInv'
    BY <1>5 DEF KeyInv, CallFails
  <1>6. ASSUME KeyInv, UNCHANGED keyVars PROVE KeyInv'
    BY <1>6 DEF KeyInv, keyVars
  <1>7. QED
    BY <1>1, <1>2, <1>3, <1>4, <1>5, <1>6 DEF KeyNext

(* The entry of a key behaves on the path of a completion as it does by    *)
(* itself, so what is proved of ResponseCache holds of it there.           *)
THEOREM PathImplementsCache == PathSpec => Spec
  <1>1. PathInit => Init
    BY DEF PathInit
  <1>2. [PathNext]_pathVars => [Next]_vars
    BY DEF PathNext, pathVars
  <1>3. QED
    BY <1>1, <1>2, PTL DEF PathSpec, Spec

(* A cached response was made for the request it answers, for all requests *)
(* that clients may send.                                                  *)
THEOREM HitIsForRequest == PathSpec => []HitAnswersRequest
  <1>1. PathInit => KeyInv
    BY KeyStep DEF PathInit
  <1>2. KeyInv /\ [PathNext]_pathVars => KeyInv'
    BY KeyStep DEF PathNext, pathVars
  <1>3. KeyInv => HitAnswersRequest
    BY SameKey DEF KeyInv, HitAnswersRequest
  <1>4. QED
    BY <1>1, <1>2, <1>3, PTL DEF PathSpec
-----------------------------------------------------------------------------
(* Sequences that a loop collects: Joined, and f of every element joined.  *)

\* A set of natural numbers has a least one.
LEMMA LeastNat ==
  ASSUME NEW S \in SUBSET Nat, S # {}
  PROVE  \E m \in S : \A n \in S : m <= n
  <1> DEFINE R == {p \in Nat \X Nat : p[1] < p[2]}
  <1>1. IsWellFoundedOn(R, Nat)
    BY NatLessThanWellFounded DEF OpToRel
  <1>2. PICK m \in S : \A n \in S : <<n, m>> \notin R
    <2> HIDE DEF R
    <2>1. QED
      BY <1>1, WFMin, Zenon
  <1>3. ASSUME NEW n \in S PROVE m <= n
    <2>1. n \in Nat /\ m \in Nat
      OBVIOUS
    <2>2. <<n, m>> \in Nat \X Nat /\ <<n, m>>[1] = n /\ <<n, m>>[2] = m
      BY <2>1
    <2>3. ~ (n < m)
      BY <1>2, <2>2, Zenon
    <2>4. QED
      BY <2>1, <2>3
  <1>4. QED
    BY <1>3

\* What holds of 0 and, when it holds of a number, of the next one up to n
\* holds of all numbers up to n.
LEMMA Climb ==
  ASSUME NEW n \in Nat, NEW Q, 0 \in Q,
         \A k \in 0 .. n : k # n /\ k \in Q => k + 1 \in Q
  PROVE  \A k \in 0 .. n : k \in Q
  <1> DEFINE Fails == {k \in 0 .. n : k \notin Q}
  <1> SUFFICES ASSUME Fails # {} PROVE FALSE
    OBVIOUS
  <1>1. Fails \in SUBSET Nat
    OBVIOUS
  <1>2. PICK m \in Fails : \A k \in Fails : m <= k
    BY <1>1, LeastNat, Zenon
  <1>3. m \in 0 .. n /\ m \notin Q /\ m # 0
    BY <1>2
  <1>4. m - 1 \in 0 .. n /\ m - 1 # n /\ ~ (m <= m - 1)
    BY <1>3
  <1>5. m - 1 \in Q
    BY <1>2, <1>4
  <1>6. m - 1 + 1 = m
    BY <1>3
  <1>7. QED
    BY <1>3, <1>4, <1>5, <1>6


\* u has the sequences that the loop of Joined goes through in m rounds.
Joins(S, ss, m, u) ==
  /\ u \in [0 .. m -> Seq(S)]
  /\ u[0] = <<>>
  /\ \A k \in 0 .. m : k # m => u[k + 1] = u[k] \o ss[k + 1]

\* The loop can go on for a round.
LEMMA JoinsOn ==
  ASSUME NEW S, NEW ss \in Seq(Seq(S)), NEW m \in 0 .. Len(ss), m # Len(ss),
         NEW u, Joins(S, ss, m, u)
  PROVE  \E v : Joins(S, ss, m + 1, v)
  <1>1. m \in Nat /\ m + 1 \in 1 .. Len(ss) /\ Len(ss) \in Nat
    OBVIOUS
  <1>2. ss[m + 1] \in Seq(S)
    BY <1>1
  <1>3. u \in [0 .. m -> Seq(S)] /\ u[0] = <<>> /\ u[m] \in Seq(S)
    BY <1>1 DEF Joins
  <1>4. PICK x : x = u[m] \o ss[m + 1]
    BY Zenon
  <1>5. x \in Seq(S)
    BY <1>2, <1>3, <1>4, ConcatProperties, Zenon
  <1>6. PICK v : v = [k \in 0 .. m + 1 |-> IF k = m + 1 THEN x ELSE u[k]]
    BY Zenon
  <1>7. v \in [0 .. m + 1 -> Seq(S)]
    BY <1>1, <1>3, <1>5, <1>6
  <1>8. v[0] = <<>> /\ v[m + 1] = x /\ \A k \in 0 .. m : v[k] = u[k] /\ k \in 0 .. m + 1
    BY <1>1, <1>3, <1>6
  <1>9. ASSUME NEW k \in 0 .. m + 1, k # m + 1 PROVE v[k + 1] = v[k] \o ss[k + 1]
    <2>1. k \in 0 .. m /\ v[k] = u[k]
      BY <1>1, <1>8, <1>9
    <2>2. CASE k = m
      BY <1>4, <1>8, <2>1, <2>2, Zenon
    <2>3. CASE k # m
      <3>1. k + 1 \in 0 .. m
        BY <1>1, <2>1, <2>3
      <3>2. u[k + 1] = u[k] \o ss[k + 1]
        BY <2>1, <2>3, Zenon DEF Joins
      <3>3. QED
        BY <1>8, <2>1, <3>1, <3>2, Zenon
    <2>4. QED
      BY <2>2, <2>3, Zenon
  <1>10. Joins(S, ss, m + 1, v)
    BY <1>7, <1>8, <1>9, Zenon DEF Joins
  <1>11. QED
    BY <1>10, Zenon

\* The loop comes to its end.
LEMMA JoinsExist ==
  ASSUME NEW S, NEW ss \in Seq(Seq(S))
  PROVE  \E u : Joins(S, ss, Len(ss), u)
  <1>1. PICK n \in Nat : n = Len(ss)
    OBVIOUS
  <1> DEFINE Q == {m \in 0 .. n : \E u : Joins(S, ss, m, u)}
  <1>2. 0 \in Q
    <2>1. PICK u : u = [k \in 0 .. 0 |-> <<>>]
      BY Zenon
    <2>2. Joins(S, ss, 0, u)
      <3>1. u \in [0 .. 0 -> Seq(S)] /\ u[0] = <<>>
        BY <2>1
      <3>2. \A k \in 0 .. 0 : k = 0
        OBVIOUS
      <3>3. QED
        BY <3>1, <3>2, Zenon DEF Joins
    <2>3. 0 \in 0 .. n
      OBVIOUS
    <2>4. QED
      BY <2>2, <2>3, Zenon
  <1>3. ASSUME NEW m \in 0 .. n, m # n, m \in Q
        PROVE  m + 1 \in Q
    <2>1. PICK u : Joins(S, ss, m, u)
      BY <1>3, Zenon
    <2>2. \E v : Joins(S, ss, m + 1, v)
      BY <1>1, <1>3, <2>1, JoinsOn, Zenon
    <2>3. m + 1 \in 0 .. n
      BY <1>3
    <2>4. QED
      BY <2>2, <2>3, Zenon
  <1> HIDE DEF Q
  <1>4. \A m \in 0 .. n : m # n /\ m \in Q => m + 1 \in Q
    BY <1>3, Zenon
  <1>5. \A m \in 0 .. n : m \in Q
    BY <1>2, <1>4, Climb, Zenon
  <1>6. n \in 0 .. n
    OBVIOUS
  <1>7. QED
    BY <1>1, <1>5, <1>6, Zenon DEF Q

\* What Joined computes is the end of the loop.
LEMMA JoinedUnfold ==
  ASSUME NEW S, NEW ss \in Seq(Seq(S))
  PROVE  \E u : Joins(S, ss, Len(ss), u) /\ Joined(ss) = u[Len(ss)]
  <1> DEFINE b == CHOOSE upTo :
                    upTo = [k \in 0 .. Len(ss) |-> IF k = 0 THEN <<>> ELSE upTo[k - 1] \o ss[k]]
  <1>0. Len(ss) \in Nat /\ \A k \in 1 .. Len(ss) : ss[k] \in Seq(S)
    OBVIOUS
  <1>1. PICK g : Joins(S, ss, Len(ss), g)
    BY JoinsExist, Zenon
  <1>2. g = [k \in 0 .. Len(ss) |-> IF k = 0 THEN <<>> ELSE g[k - 1] \o ss[k]]
    <2>1. g = [k \in 0 .. Len(ss) |-> g[k]]
      BY <1>1, Zenon DEF Joins
    <2>2. ASSUME NEW k \in 0 .. Len(ss)
          PROVE  g[k] = IF k = 0 THEN <<>> ELSE g[k - 1] \o ss[k]
      <3>1. CASE k = 0
        BY <1>1, <3>1, Zenon DEF Joins
      <3>2. CASE k # 0
        <4>1. k - 1 \in 0 .. Len(ss) /\ k - 1 # Len(ss) /\ k - 1 + 1 = k
          BY <1>0, <3>2
        <4>2. g[k - 1 + 1] = g[k - 1] \o ss[k - 1 + 1]
          BY <1>1, <4>1, Zenon DEF Joins
        <4>3. QED
          BY <3>2, <4>1, <4>2, Zenon
      <3>3. QED
        BY <3>1, <3>2, Zenon
    <2>3. QED
      BY <2>1, <2>2, Zenon
  <1>3. b = [k \in 0 .. Len(ss) |-> IF k = 0 THEN <<>> ELSE b[k - 1] \o ss[k]]
    BY <1>2, Zenon
  <1>4. Joined(ss) = b[Len(ss)]
    BY Zenon DEF Joined
  <1> HIDE DEF b
  <1>5. \A k \in 0 .. Len(ss) : k # Len(ss) => k + 1 \in 0 .. Len(ss) /\ k + 1 # 0 /\ k + 1 - 1 = k
    BY <1>0
  <1>6. b[0] = <<>>
    <2>1. 0 \in 0 .. Len(ss)
      BY <1>0
    <2>2. QED
      BY <1>3, <2>1, Zenon
  <1>7. ASSUME NEW k \in 0 .. Len(ss), k # Len(ss)
        PROVE  b[k + 1] = b[k] \o ss[k + 1]
    <2>1. PICK j : j = k + 1
      BY Zenon
    <2>2. j \in 0 .. Len(ss) /\ j # 0 /\ j - 1 = k
      BY <1>5, <1>7, <2>1
    <2>3. b[j] = b[j - 1] \o ss[j]
      BY <1>3, <2>2, Zenon
    <2>4. QED
      BY <2>1, <2>2, <2>3, Zenon
  <1>8. b \in [0 .. Len(ss) -> Seq(S)]
    <2>1. PICK n \in Nat : n = Len(ss)
      BY <1>0
    <2> DEFINE Q == {k \in 0 .. n : b[k] \in Seq(S)}
    <2>2. 0 \in Q
      <3>1. 0 \in 0 .. n /\ <<>> \in Seq(S)
        OBVIOUS
      <3>2. QED
        BY <1>6, <3>1, Zenon
    <2>3. ASSUME NEW k \in 0 .. n, k # n, k \in Q PROVE k + 1 \in Q
      <3>1. k + 1 \in 0 .. n /\ k + 1 \in 1 .. n
        BY <2>3
      <3>2. ss[k + 1] \in Seq(S) /\ b[k] \in Seq(S)
        BY <1>0, <2>1, <2>3, <3>1, Zenon
      <3>3. b[k] \o ss[k + 1] \in Seq(S)
        BY <3>2, ConcatProperties, Zenon
      <3>4. b[k + 1] = b[k] \o ss[k + 1]
        BY <1>7, <2>1, <2>3, Zenon
      <3>5. QED
        BY <3>1, <3>3, <3>4, Zenon
    <2> HIDE DEF Q
    <2>4. \A k \in 0 .. n : k # n /\ k \in Q => k + 1 \in Q
      BY <2>3, Zenon
    <2>5. \A k \in 0 .. n : k \in Q
      BY <2>2, <2>4, Climb, Zenon
    <2>6. QED
      BY <1>3, <2>1, <2>5, Zenon DEF Q
  <1>9. Joins(S, ss, Len(ss), b)
    BY <1>6, <1>7, <1>8, Zenon DEF Joins
  <1>10. QED
    BY <1>4, <1>9, Zenon

\* What Joined returns is a sequence of the same elements.
LEMMA JoinedType ==
  ASSUME NEW S, NEW ss \in Seq(Seq(S))
  PROVE  Joined(ss) \in Seq(S)
  <1>1. PICK u : Joins(S, ss, Len(ss), u) /\ Joined(ss) = u[Len(ss)]
    BY JoinedUnfold, Zenon
  <1>2. Len(ss) \in 0 .. Len(ss)
    OBVIOUS
  <1>3. QED
    BY <1>1, <1>2, Zenon DEF Joins

\* Joined of nothing, and of one sequence.
LEMMA JoinedFew ==
  ASSUME NEW S
  PROVE  /\ Joined(<<>>) = <<>>
         /\ \A s \in Seq(S) : Joined(<<s>>) = s
  <1>1. Joined(<<>>) = <<>>
    <2>1. PICK ss : ss = <<>>
      BY Zenon
    <2>2. ss \in Seq(Seq(S)) /\ Len(ss) = 0
      BY <2>1
    <2>3. PICK u : Joins(S, ss, Len(ss), u) /\ Joined(ss) = u[Len(ss)]
      BY <2>2, JoinedUnfold, Zenon
    <2>4. QED
      BY <2>1, <2>2, <2>3, Zenon DEF Joins
  <1>2. ASSUME NEW s \in Seq(S) PROVE Joined(<<s>>) = s
    <2>1. PICK ss : ss = <<s>>
      BY Zenon
    <2>2. ss \in Seq(Seq(S)) /\ Len(ss) = 1 /\ ss[1] = s
      BY <2>1
    <2>3. PICK u : Joins(S, ss, Len(ss), u) /\ Joined(ss) = u[Len(ss)]
      BY <2>2, JoinedUnfold, Zenon
    <2>4. 0 \in 0 .. 1 /\ 0 # 1 /\ 0 + 1 = 1
      OBVIOUS
    <2>5. u[0] = <<>> /\ u[0 + 1] = u[0] \o ss[0 + 1]
      BY <2>2, <2>3, <2>4, Zenon DEF Joins
    <2>6. u[1] = <<>> \o s
      BY <2>2, <2>4, <2>5, Zenon
    <2>7. <<>> \o s = s
      BY ConcatEmptySeq, Zenon
    <2>8. QED
      BY <2>1, <2>2, <2>3, <2>6, <2>7, Zenon
  <1>3. QED
    BY <1>1, <1>2, Zenon

\* Joining the halves of a list and then the two results is joining the list.
LEMMA JoinedConcat ==
  ASSUME NEW S, NEW ss \in Seq(Seq(S)), NEW tt \in Seq(Seq(S))
  PROVE  Joined(ss \o tt) = Joined(ss) \o Joined(tt)
  <1>1. PICK n \in Nat : n = Len(ss)
    OBVIOUS
  <1>2. PICK m \in Nat : m = Len(tt)
    OBVIOUS
  <1>3. PICK both : both = ss \o tt
    BY Zenon
  <1>4. both \in Seq(Seq(S)) /\ Len(both) = n + m
    BY <1>1, <1>2, <1>3, ConcatProperties, Zenon
  <1>5. /\ \A k \in 1 .. n : both[k] = ss[k]
        /\ \A k \in 1 .. m : both[n + k] = tt[k]
    BY <1>1, <1>2, <1>3
  <1>6. PICK u : Joins(S, ss, n, u) /\ Joined(ss) = u[n]
    BY <1>1, JoinedUnfold, Zenon
  <1>7. PICK v : Joins(S, tt, m, v) /\ Joined(tt) = v[m]
    BY <1>2, JoinedUnfold, Zenon
  <1>8. PICK w : Joins(S, both, n + m, w) /\ Joined(both) = w[n + m]
    BY <1>4, JoinedUnfold, Zenon
  <1>9. w[n] = u[n]
    <2> DEFINE Q == {k \in 0 .. n : w[k] = u[k]}
    <2>1. 0 \in Q
      <3>1. 0 \in 0 .. n
        OBVIOUS
      <3>2. QED
        BY <1>6, <1>8, <3>1, Zenon DEF Joins
    <2>2. ASSUME NEW k \in 0 .. n, k # n, k \in Q PROVE k + 1 \in Q
      <3>1. k + 1 \in 0 .. n /\ k + 1 \in 1 .. n /\ k \in 0 .. n + m /\ k # n + m
        BY <2>2
      <3>2. u[k + 1] = u[k] \o ss[k + 1]
        BY <1>6, <2>2, Zenon DEF Joins
      <3>3. w[k + 1] = w[k] \o both[k + 1]
        BY <1>8, <3>1, Zenon DEF Joins
      <3>4. both[k + 1] = ss[k + 1] /\ w[k] = u[k]
        BY <1>5, <2>2, <3>1, Zenon
      <3>5. QED
        BY <3>1, <3>2, <3>3, <3>4, Zenon
    <2> HIDE DEF Q
    <2>3. \A k \in 0 .. n : k # n /\ k \in Q => k + 1 \in Q
      BY <2>2, Zenon
    <2>4. \A k \in 0 .. n : k \in Q
      BY <2>1, <2>3, Climb, Zenon
    <2>5. n \in 0 .. n
      OBVIOUS
    <2>6. QED
      BY <2>4, <2>5, Zenon DEF Q
  <1>10. u[n] \in Seq(S)
    BY <1>1, <1>6, JoinedType, Zenon
  <1>11. w[n + m] = u[n] \o v[m]
    <2> DEFINE Q == {k \in 0 .. m : w[n + k] = u[n] \o v[k]}
    <2>1. 0 \in Q
      <3>1. 0 \in 0 .. m /\ n + 0 = n
        OBVIOUS
      <3>2. v[0] = <<>> /\ u[n] \o <<>> = u[n]
        BY <1>7, <1>10, ConcatEmptySeq, Zenon DEF Joins
      <3>3. QED
        BY <1>9, <3>1, <3>2, Zenon
    <2>2. ASSUME NEW k \in 0 .. m, k # m, k \in Q PROVE k + 1 \in Q
      <3>1. /\ k + 1 \in 0 .. m /\ k + 1 \in 1 .. m /\ n + k \in 0 .. n + m /\ n + k # n + m
            /\ (n + k) + 1 = n + (k + 1)
        BY <2>2
      <3>2. v[k + 1] = v[k] \o tt[k + 1] /\ v[k] \in Seq(S)
        BY <1>7, <2>2, Zenon DEF Joins
      <3>3. w[(n + k) + 1] = w[n + k] \o both[(n + k) + 1]
        BY <1>8, <3>1, Zenon DEF Joins
      <3>4. both[n + (k + 1)] = tt[k + 1] /\ w[n + k] = u[n] \o v[k]
        BY <1>5, <2>2, <3>1, Zenon
      <3>5. tt[k + 1] \in Seq(S)
        BY <1>2, <3>1
      <3>6. (u[n] \o v[k]) \o tt[k + 1] = u[n] \o (v[k] \o tt[k + 1])
        <4>1. PICK a \in Seq(S) : a = u[n]
          BY <1>10, Zenon
        <4>2. PICK b \in Seq(S) : b = v[k]
          BY <3>2, Zenon
        <4>3. PICK c \in Seq(S) : c = tt[k + 1]
          BY <3>5, Zenon
        <4>4. (a \o b) \o c = a \o (b \o c)
          OBVIOUS
        <4>5. QED
          BY <4>1, <4>2, <4>3, <4>4, Zenon
      <3>7. w[n + (k + 1)] = (u[n] \o v[k]) \o tt[k + 1]
        BY <3>1, <3>3, <3>4, Zenon
      <3>8. QED
        BY <3>1, <3>2, <3>6, <3>7, Zenon
    <2> HIDE DEF Q
    <2>3. \A k \in 0 .. m : k # m /\ k \in Q => k + 1 \in Q
      BY <2>2, Zenon
    <2>4. \A k \in 0 .. m : k \in Q
      BY <2>1, <2>3, Climb, Zenon
    <2>5. m \in 0 .. m
      OBVIOUS
    <2>6. QED
      BY <2>4, <2>5, Zenon DEF Q
  <1>12. QED
    BY <1>3, <1>6, <1>7, <1>8, <1>11, Zenon

\* f of every element of x, and these joined.
Each(f, x) == [i \in 1 .. Len(x) |-> f[x[i]]]
Flat(f, x) == Joined(Each(f, x))

\* f gives a sequence of elements of S for every element of D.
Flattens(f, D, S) == f \in [D -> Seq(S)]

\* What Flat joins is a list of sequences.
LEMMA EachType ==
  ASSUME NEW D, NEW S, NEW f, Flattens(f, D, S), NEW x \in Seq(D)
  PROVE  Each(f, x) \in Seq(Seq(S)) /\ Len(Each(f, x)) = Len(x)
  <1>1. Len(x) \in Nat /\ \A i \in 1 .. Len(x) : x[i] \in D
    OBVIOUS
  <1>2. \A i \in 1 .. Len(x) : f[x[i]] \in Seq(S)
    BY <1>1 DEF Flattens
  <1>3. QED
    BY <1>1, <1>2 DEF Each

\* Flat returns a sequence.
LEMMA FlatType ==
  ASSUME NEW D, NEW S, NEW f, Flattens(f, D, S), NEW x \in Seq(D)
  PROVE  Flat(f, x) \in Seq(S)
  <1>1. Each(f, x) \in Seq(Seq(S))
    BY EachType, Zenon
  <1>2. QED
    BY <1>1, JoinedType, Zenon DEF Flat

\* Flat of nothing, and of one element.
LEMMA FlatFew ==
  ASSUME NEW D, NEW S, NEW f, Flattens(f, D, S)
  PROVE  /\ Flat(f, <<>>) = <<>>
         /\ \A d \in D : Flat(f, <<d>>) = f[d]
  <1>1. Flat(f, <<>>) = <<>>
    <2>1. PICK x : x = <<>>
      BY Zenon
    <2>2. PICK g : g = Each(f, x)
      BY Zenon
    <2>3. g = <<>>
      BY <2>1, <2>2 DEF Each
    <2>4. QED
      BY <2>1, <2>2, <2>3, JoinedFew, Zenon DEF Flat
  <1>2. ASSUME NEW d \in D PROVE Flat(f, <<d>>) = f[d]
    <2>1. PICK x : x = <<d>>
      BY Zenon
    <2>2. PICK g : g = Each(f, x)
      BY Zenon
    <2>3. f[d] \in Seq(S)
      BY DEF Flattens
    <2>4. g = <<f[d]>>
      BY <2>1, <2>2 DEF Each
    <2>5. QED
      BY <2>1, <2>2, <2>3, <2>4, JoinedFew, Zenon DEF Flat
  <1>3. QED
    BY <1>1, <1>2, Zenon

\* Flat of a list is Flat of its halves, one after the other.
LEMMA FlatConcat ==
  ASSUME NEW D, NEW S, NEW f, Flattens(f, D, S), NEW x \in Seq(D), NEW y \in Seq(D)
  PROVE  Flat(f, x \o y) = Flat(f, x) \o Flat(f, y)
  <1>1. PICK xy : xy = x \o y
    BY Zenon
  <1>2. PICK g : g = Each(f, x)
    BY Zenon
  <1>3. PICK h : h = Each(f, y)
    BY Zenon
  <1>4. PICK gh : gh = Each(f, xy)
    BY Zenon
  <1>5. xy \in Seq(D) /\ Len(xy) = Len(x) + Len(y) /\ Len(x) \in Nat /\ Len(y) \in Nat
    BY <1>1
  <1>6. /\ g \in Seq(Seq(S)) /\ Len(g) = Len(x)
        /\ h \in Seq(Seq(S)) /\ Len(h) = Len(y)
        /\ gh \in Seq(Seq(S)) /\ Len(gh) = Len(xy)
    <2>1. Each(f, x) \in Seq(Seq(S)) /\ Len(Each(f, x)) = Len(x)
      BY EachType
    <2>2. Each(f, y) \in Seq(Seq(S)) /\ Len(Each(f, y)) = Len(y)
      BY EachType
    <2>3. Each(f, xy) \in Seq(Seq(S)) /\ Len(Each(f, xy)) = Len(xy)
      BY <1>5, EachType
    <2>4. QED
      BY <1>2, <1>3, <1>4, <2>1, <2>2, <2>3, Zenon
  <1>7. gh = g \o h
    <2>0. /\ g \o h \in Seq(Seq(S)) /\ Len(g \o h) = Len(g) + Len(h)
          /\ \A i \in 1 .. Len(g) + Len(h) :
               (g \o h)[i] = IF i <= Len(g) THEN g[i] ELSE h[i - Len(g)]
      <3>1. PICK T : T = Seq(S)
        BY Zenon
      <3>2. g \in Seq(T) /\ h \in Seq(T)
        BY <1>6, <3>1, Zenon
      <3> HIDE <1>6
      <3>3. QED
        BY <3>1, <3>2, ConcatProperties
    <2>1. ASSUME NEW i \in 1 .. Len(x) + Len(y) PROVE gh[i] = (g \o h)[i]
      <3>1. CASE i <= Len(x)
        <4>1. xy[i] = x[i] /\ i \in 1 .. Len(x) /\ i \in 1 .. Len(xy)
          BY <1>1, <1>5, <2>1, <3>1
        <4>2. (g \o h)[i] = g[i]
          BY <1>6, <3>1, <4>1
        <4>3. QED
          BY <1>2, <1>4, <4>1, <4>2, Zenon DEF Each
      <3>2. CASE ~(i <= Len(x))
        <4>1. xy[i] = y[i - Len(x)] /\ i - Len(x) \in 1 .. Len(y) /\ i \in 1 .. Len(xy)
          <5>1. i \in Int /\ i > Len(x) /\ i <= Len(x) + Len(y) /\ i \in 1 .. Len(xy)
            BY <1>5, <2>1, <3>2
          <5>2. i - Len(x) \in 1 .. Len(y)
            BY <1>5, <5>1
          <5>3. QED
            BY <1>1, <1>5, <2>1, <3>2, <5>1, <5>2
        <4>2. (g \o h)[i] = h[i - Len(x)]
          <5>1. i \in 1 .. Len(g) + Len(h) /\ ~(i <= Len(g))
            BY <1>6, <2>1, <3>2, Zenon
          <5>2. QED
            BY <1>6, <2>0, <5>1, Zenon
        <4>3. QED
          BY <1>3, <1>4, <4>1, <4>2, Zenon DEF Each
      <3>3. QED
        BY <3>1, <3>2, Zenon
    <2>2. g \o h \in Seq(Seq(S)) /\ Len(g \o h) = Len(x) + Len(y)
      BY <1>6, <2>0, Zenon
    <2>3. QED
      BY <1>5, <1>6, <2>1, <2>2, SeqEqual, Zenon
  <1>8. QED
    <2>1. Joined(g \o h) = Joined(g) \o Joined(h)
      BY <1>6, JoinedConcat, Zenon
    <2>2. QED
      BY <1>1, <1>2, <1>3, <1>4, <1>7, <2>1, Zenon DEF Flat

\* The first k elements of x.
First(x, k) == [i \in 1 .. k |-> x[i]]

\* What holds of the empty list and, with a list, of one element more, holds of x.
LEMMA FirstGrows ==
  ASSUME NEW D, NEW x \in Seq(D), NEW k \in 0 .. Len(x)
  PROVE  /\ First(x, k) \in Seq(D)
         /\ First(x, 0) = <<>>
         /\ First(x, Len(x)) = x
         /\ k # Len(x) => /\ x[k + 1] \in D
                          /\ First(x, k + 1) = First(x, k) \o <<x[k + 1]>>
  <1>1. Len(x) \in Nat /\ k \in Nat /\ \A i \in 1 .. Len(x) : x[i] \in D
    OBVIOUS
  <1>2. First(x, 0) = <<>>
    BY DEF First
  <1>3. First(x, Len(x)) = x
    BY DEF First
  <1>4. First(x, k) \in Seq(D)
    BY <1>1 DEF First
  <1>5. ASSUME k # Len(x)
        PROVE  x[k + 1] \in D /\ First(x, k + 1) = First(x, k) \o <<x[k + 1]>>
    BY <1>1, <1>5 DEF First
  <1>6. QED
    BY <1>2, <1>3, <1>4, <1>5, Zenon

\* Flat of one element more.
LEMMA FlatMore ==
  ASSUME NEW D, NEW S, NEW f, Flattens(f, D, S), NEW x \in Seq(D),
         NEW k \in 0 .. Len(x), k # Len(x)
  PROVE  Flat(f, First(x, k + 1)) = Flat(f, First(x, k)) \o f[x[k + 1]]
  <1>1. /\ First(x, k) \in Seq(D) /\ x[k + 1] \in D
        /\ First(x, k + 1) = First(x, k) \o <<x[k + 1]>>
    BY FirstGrows, Zenon
  <1>2. PICK d \in D : d = x[k + 1]
    BY <1>1, Zenon
  <1>3. PICK a \in Seq(D) : a = First(x, k)
    BY <1>1, Zenon
  <1>4. PICK b : b = <<d>>
    BY Zenon
  <1>5. b \in Seq(D)
    BY <1>4
  <1>6. Flat(f, a \o b) = Flat(f, a) \o Flat(f, b)
    BY <1>5, FlatConcat
  <1>7. Flat(f, b) = f[d]
    BY <1>4, FlatFew, Zenon
  <1>8. QED
    BY <1>1, <1>2, <1>3, <1>4, <1>6, <1>7, Zenon

\* h does to an element of D what g and then f do.
Composes(f, g, h, D) == \A d \in D : Flat(f, g[d]) = h[d]

\* Flattening twice is flattening once with what the two do to one element.
LEMMA FlatFlat ==
  ASSUME NEW D, NEW S, NEW R, NEW g, Flattens(g, D, S), NEW f, Flattens(f, S, R),
         NEW h, Flattens(h, D, R), Composes(f, g, h, D), NEW x \in Seq(D)
  PROVE  Flat(f, Flat(g, x)) = Flat(h, x)
  <1>1. PICK n \in Nat : n = Len(x)
    OBVIOUS
  <1> DEFINE Q == {k \in 0 .. n : Flat(f, Flat(g, First(x, k))) = Flat(h, First(x, k))}
  <1>2. 0 \in Q
    <2>1. 0 \in 0 .. n
      OBVIOUS
    <2>2. First(x, 0) = <<>>
      BY <1>1, <2>1, FirstGrows, Zenon
    <2>3. Flat(g, <<>>) = <<>> /\ Flat(f, <<>>) = <<>> /\ Flat(h, <<>>) = <<>>
      BY FlatFew, Zenon
    <2>4. QED
      BY <2>1, <2>2, <2>3, Zenon
  <1>3. ASSUME NEW k \in 0 .. n, k # n, k \in Q PROVE k + 1 \in Q
    <2>1. First(x, k) \in Seq(D) /\ x[k + 1] \in D
      BY <1>1, <1>3, FirstGrows, Zenon
    <2>2. PICK a : a = Flat(g, First(x, k))
      BY Zenon
    <2>3. PICK b : b = g[x[k + 1]]
      BY Zenon
    <2>4. a \in Seq(S) /\ b \in Seq(S)
      <3>1. a \in Seq(S)
        BY <2>1, <2>2, FlatType, Zenon
      <3>2. b \in Seq(S)
        BY <2>1, <2>3 DEF Flattens
      <3>3. QED
        BY <3>1, <3>2, Zenon
    <2>5. Flat(g, First(x, k + 1)) = a \o b
      <3>1. Flat(g, First(x, k + 1)) = Flat(g, First(x, k)) \o g[x[k + 1]]
        BY <1>1, <1>3, FlatMore, Zenon
      <3>2. QED
        BY <2>2, <2>3, <3>1, Zenon
    <2>6. Flat(f, a \o b) = Flat(f, a) \o Flat(f, b)
      BY <2>4, FlatConcat
    <2>7. Flat(h, First(x, k + 1)) = Flat(h, First(x, k)) \o h[x[k + 1]]
      BY <1>1, <1>3, FlatMore, Zenon
    <2>8. Flat(f, b) = h[x[k + 1]] /\ Flat(f, a) = Flat(h, First(x, k))
      BY <1>3, <2>1, <2>2, <2>3, Zenon DEF Composes
    <2>9. k + 1 \in 0 .. n
      BY <1>3
    <2>10. QED
      BY <2>5, <2>6, <2>7, <2>8, <2>9, Zenon
  <1> HIDE DEF Q
  <1>4. \A k \in 0 .. n : k # n /\ k \in Q => k + 1 \in Q
    BY <1>3, Zenon
  <1>5. \A k \in 0 .. n : k \in Q
    BY <1>2, <1>4, Climb, Zenon
  <1>6. n \in 0 .. n
    OBVIOUS
  <1>7. First(x, n) = x
    BY <1>1, <1>6, FirstGrows, Zenon
  <1>8. QED
    BY <1>5, <1>6, <1>7, Zenon DEF Q

\* f leaves nothing of the elements of x.
Drops(f, x) == \A i \in 1 .. Len(x) : f[x[i]] = <<>>

\* Flattening what has nothing in it leaves nothing.
LEMMA FlatNone ==
  ASSUME NEW D, NEW S, NEW f, Flattens(f, D, S), NEW x \in Seq(D),
         Drops(f, x)
  PROVE  Flat(f, x) = <<>>
  <1>1. PICK n \in Nat : n = Len(x)
    OBVIOUS
  <1> DEFINE Q == {k \in 0 .. n : Flat(f, First(x, k)) = <<>>}
  <1>2. 0 \in Q
    <2>1. 0 \in 0 .. n
      OBVIOUS
    <2>2. First(x, 0) = <<>>
      BY <1>1, <2>1, FirstGrows, Zenon
    <2>3. Flat(f, <<>>) = <<>>
      BY FlatFew, Zenon
    <2>4. QED
      BY <2>1, <2>2, <2>3, Zenon
  <1>3. ASSUME NEW k \in 0 .. n, k # n, k \in Q PROVE k + 1 \in Q
    <2>1. Flat(f, First(x, k + 1)) = Flat(f, First(x, k)) \o f[x[k + 1]]
      BY <1>1, <1>3, FlatMore, Zenon
    <2>2. k + 1 \in 0 .. n /\ k + 1 \in 1 .. n
      BY <1>3
    <2>3. f[x[k + 1]] = <<>> /\ Flat(f, First(x, k)) = <<>>
      BY <1>1, <1>3, <2>2, Zenon DEF Drops
    <2>4. <<>> \o <<>> = <<>>
      OBVIOUS
    <2>5. QED
      BY <2>1, <2>2, <2>3, <2>4, Zenon
  <1> HIDE DEF Q
  <1>4. \A k \in 0 .. n : k # n /\ k \in Q => k + 1 \in Q
    BY <1>3, Zenon
  <1>5. \A k \in 0 .. n : k \in Q
    BY <1>2, <1>4, Climb, Zenon
  <1>6. n \in 0 .. n
    OBVIOUS
  <1>7. First(x, n) = x
    BY <1>1, <1>6, FirstGrows, Zenon
  <1>8. QED
    BY <1>5, <1>6, <1>7, Zenon DEF Q

\* f gives one element for each element of x, and e has these.
Maps(f, x, e) == Len(e) = Len(x) /\ \A i \in 1 .. Len(x) : f[x[i]] = <<e[i]>>

\* Flattening a list with one element for each element gives the list of these.
LEMMA FlatOnes ==
  ASSUME NEW D, NEW S, NEW f, Flattens(f, D, S), NEW x \in Seq(D),
         NEW e \in Seq(S), Maps(f, x, e)
  PROVE  Flat(f, x) = e
  <1>1. PICK n \in Nat : n = Len(x)
    OBVIOUS
  <1>0. n = Len(e) /\ \A i \in 1 .. n : f[x[i]] = <<e[i]>>
    BY <1>1, Zenon DEF Maps
  <1> DEFINE Q == {k \in 0 .. n : Flat(f, First(x, k)) = First(e, k)}
  <1>2. 0 \in Q
    <2>1. 0 \in 0 .. n
      OBVIOUS
    <2>2. First(x, 0) = <<>> /\ First(e, 0) = <<>>
      BY <1>0, <1>1, <2>1, FirstGrows, Zenon
    <2>3. Flat(f, <<>>) = <<>>
      BY FlatFew, Zenon
    <2>4. QED
      BY <2>1, <2>2, <2>3, Zenon
  <1>3. ASSUME NEW k \in 0 .. n, k # n, k \in Q PROVE k + 1 \in Q
    <2>1. Flat(f, First(x, k + 1)) = Flat(f, First(x, k)) \o f[x[k + 1]]
      BY <1>1, <1>3, FlatMore, Zenon
    <2>2. k + 1 \in 0 .. n /\ k + 1 \in 1 .. n
      BY <1>3
    <2>3. f[x[k + 1]] = <<e[k + 1]>> /\ Flat(f, First(x, k)) = First(e, k)
      BY <1>0, <1>3, <2>2, Zenon
    <2>4. First(e, k + 1) = First(e, k) \o <<e[k + 1]>>
      BY <1>0, <1>3, FirstGrows, Zenon
    <2>5. QED
      BY <2>1, <2>2, <2>3, <2>4, Zenon
  <1> HIDE DEF Q
  <1>4. \A k \in 0 .. n : k # n /\ k \in Q => k + 1 \in Q
    BY <1>3, Zenon
  <1>5. \A k \in 0 .. n : k \in Q
    BY <1>2, <1>4, Climb, Zenon
  <1>6. n \in 0 .. n
    OBVIOUS
  <1>7. First(x, n) = x /\ First(e, n) = e
    BY <1>0, <1>1, <1>6, FirstGrows, Zenon
  <1>8. QED
    BY <1>5, <1>6, <1>7, Zenon DEF Q

-----------------------------------------------------------------------------
(* What the adapters do to one part, message or turn. *)

\* The strings, with those that the adapters write themselves.
Words == STRING \cup {NoID, "user", "assistant", "model", "tool"}
Calls == [id : Words, name : Words]

\* A message is the result of a tool just when it has the ID of a call.
Sendable == {m \in [role : Words, content : Seq(Part), calls : Seq(Calls), id : Words] :
               (m.role = "tool" <=> m.id # NoID) /\ m.role # "model"}
Saying   == [who : Words, text : Seq(Part)]
Turns    == [role : Words, content : Seq(Part), result : Words, calls : Seq(Calls)]

textIn   == [p \in Part |-> IF p.kind = "text" THEN <<p>> ELSE <<>>]
talkIn   == [m \in Sendable |->
               IF m.role \in {"user", "assistant"}
               THEN <<[who |-> m.role, text |-> extractText(m.content)]>> ELSE <<>>]
idIn     == [m \in Sendable |-> IF m.role = "tool" THEN <<m.id>> ELSE <<>>]
turnIn(t) == [m \in Sendable |-> turnOf(t, m)]
speechIn == [u \in Turns |->
               IF u.result = NoID /\ u.role \in {"user", "assistant", "model"}
               THEN <<[who  |-> IF u.role = "user" THEN "user" ELSE "assistant",
                       text |-> extractText(u.content)]>>
               ELSE <<>>]
resultIn == [u \in Turns |-> IF u.result # NoID THEN <<u.result>> ELSE <<>>]

\* extractText goes through the parts one by one, and once is enough.
LEMMA TextFlat ==
  /\ Flattens(textIn, Part, Part)
  /\ \A c \in Seq(Part) : extractText(c) = Flat(textIn, c)
  /\ \A c \in Seq(Part) : extractText(c) \in Seq(Part) /\ extractText(extractText(c)) = extractText(c)
  /\ extractText(<<>>) = <<>>
  <1>1. Flattens(textIn, Part, Part)
    <2>1. \A p \in Part : (IF p.kind = "text" THEN <<p>> ELSE <<>>) \in Seq(Part)
      OBVIOUS
    <2>2. QED
      BY <2>1, Zenon DEF textIn, Flattens
  <1>2. ASSUME NEW c \in Seq(Part) PROVE extractText(c) = Flat(textIn, c)
    <2>1. \A i \in 1 .. Len(c) : c[i] \in Part
      OBVIOUS
    <2>2. \A i \in 1 .. Len(c) :
            textIn[c[i]] = IF c[i].kind = "text" THEN <<c[i]>> ELSE <<>>
      BY <2>1, Zenon DEF textIn
    <2>3. Each(textIn, c)
            = [i \in 1 .. Len(c) |-> IF c[i].kind = "text" THEN <<c[i]>> ELSE <<>>]
      BY <2>2, Zenon DEF Each
    <2>4. QED
      BY <2>3, Zenon DEF Flat, extractText
  <1>3. Composes(textIn, textIn, textIn, Part)
    <2>1. ASSUME NEW p \in Part PROVE Flat(textIn, textIn[p]) = textIn[p]
      <3>1. CASE p.kind = "text"
        <4>1. textIn[p] = <<p>>
          BY <3>1, Zenon DEF textIn
        <4>2. Flat(textIn, <<p>>) = textIn[p]
          BY <1>1, FlatFew, Zenon
        <4>3. QED
          BY <4>1, <4>2, Zenon
      <3>2. CASE p.kind # "text"
        <4>1. textIn[p] = <<>>
          BY <3>2, Zenon DEF textIn
        <4>2. Flat(textIn, <<>>) = <<>>
          BY <1>1, FlatFew, Zenon
        <4>3. QED
          BY <4>1, <4>2, Zenon
      <3>3. QED
        BY <3>1, <3>2, Zenon
    <2>2. QED
      BY <2>1, Zenon DEF Composes
  <1>4. ASSUME NEW c \in Seq(Part)
        PROVE  extractText(c) \in Seq(Part) /\ extractText(extractText(c)) = extractText(c)
    <2>1. Flat(textIn, c) \in Seq(Part)
      BY <1>1, FlatType, Zenon
    <2>2. Flat(textIn, Flat(textIn, c)) = Flat(textIn, c)
      BY <1>1, <1>3, FlatFlat
    <2>3. QED
      BY <1>2, <2>1, <2>2, Zenon
  <1>5. extractText(<<>>) = <<>>
    <2>1. <<>> \in Seq(Part)
      OBVIOUS
    <2>2. Flat(textIn, <<>>) = <<>>
      BY <1>1, FlatFew, Zenon
    <2>3. QED
      BY <1>2, <2>1, <2>2, Zenon
  <1>6. QED
    BY <1>1, <1>2, <1>4, <1>5, Zenon

\* Talk goes through the messages one by one.
LEMMA TalkFlat ==
  /\ Flattens(talkIn, Sendable, Saying)
  /\ \A ms \in Seq(Sendable) : Talk(ms) = Flat(talkIn, ms)
  <1>1. Flattens(talkIn, Sendable, Saying)
    <2>1. ASSUME NEW m \in Sendable
          PROVE  (IF m.role \in {"user", "assistant"}
                  THEN <<[who |-> m.role, text |-> extractText(m.content)]>> ELSE <<>>)
                   \in Seq(Saying)
      <3>1. m.role \in Words /\ m.content \in Seq(Part)
        BY Zenon DEF Sendable
      <3>2. PICK x \in Seq(Part) : x = extractText(m.content)
        BY <3>1, TextFlat, Zenon
      <3>3. [who |-> m.role, text |-> x] \in Saying
        BY <3>1 DEF Saying
      <3>4. PICK y \in Saying : y = [who |-> m.role, text |-> x]
        BY <3>3, Zenon
      <3>5. <<y>> \in Seq(Saying) /\ <<>> \in Seq(Saying)
        OBVIOUS
      <3>6. QED
        BY <3>2, <3>4, <3>5, Zenon
    <2>2. QED
      BY <2>1, Zenon DEF talkIn, Flattens
  <1>2. ASSUME NEW ms \in Seq(Sendable) PROVE Talk(ms) = Flat(talkIn, ms)
    <2>1. \A i \in 1 .. Len(ms) : ms[i] \in Sendable
      OBVIOUS
    <2>2. \A i \in 1 .. Len(ms) :
            talkIn[ms[i]] = IF ms[i].role \in {"user", "assistant"}
                            THEN <<[who |-> ms[i].role, text |-> extractText(ms[i].content)]>>
                            ELSE <<>>
      BY <2>1, Zenon DEF talkIn
    <2>3. Each(talkIn, ms)
            = [i \in 1 .. Len(ms) |->
                 IF ms[i].role \in {"user", "assistant"}
                 THEN <<[who |-> ms[i].role, text |-> extractText(ms[i].content)]>> ELSE <<>>]
      BY <2>2, Zenon DEF Each
    <2>4. QED
      BY <2>3, Zenon DEF Flat, Talk
  <1>3. QED
    BY <1>1, <1>2, Zenon

\* The turns that an adapter makes of a message.
LEMMA TurnType ==
  ASSUME NEW t \in {"openai", "anthropic", "gemini"}, NEW m \in Sendable
  PROVE  /\ t = "openai" => turnOf(t, m) = <<Turn(m.role, m.content, m.id, m.calls)>>
         /\ m.role = "tool" /\ t # "openai" => turnOf(t, m) = <<Turn("user", m.content, m.id, <<>>)>>
         /\ m.role = "user" /\ t = "anthropic" => turnOf(t, m) = <<Turn("user", m.content, NoID, <<>>)>>
         /\ m.role = "assistant" /\ t = "anthropic" =>
              turnOf(t, m) = <<Turn("assistant", m.content, NoID, <<>>)>>
         /\ m.role = "user" /\ t = "gemini" =>
              turnOf(t, m) = <<Turn("user", extractText(m.content), NoID, <<>>)>>
         /\ m.role = "assistant" /\ t = "gemini" =>
              turnOf(t, m) = <<Turn("model", extractText(m.content), NoID, <<>>)>>
         /\ m.role \notin {"user", "assistant", "tool"} /\ t # "openai" => turnOf(t, m) = <<>>
  <1>1. t = "openai" => turnOf(t, m) = openaiTurn(m)
    BY DEF turnOf
  <1>2. t = "anthropic" => turnOf(t, m) = anthropicTurn(m)
    BY DEF turnOf
  <1>3. t = "gemini" => turnOf(t, m) = geminiTurn(m)
    BY DEF turnOf
  <1>4. CASE t = "openai"
    BY <1>1, <1>4 DEF openaiTurn
  <1>5. CASE t = "anthropic"
    BY <1>2, <1>5, Zenon DEF anthropicTurn
  <1>6. CASE t = "gemini"
    BY <1>3, <1>6, Zenon DEF geminiTurn
  <1>7. QED
    BY <1>4, <1>5, <1>6, Zenon

\* A turn and what is in it.
LEMMA TurnFields ==
  ASSUME NEW role \in Words, NEW c \in Seq(Part), NEW r \in Words,
         NEW calls \in Seq(Calls),
         NEW u, u = Turn(role, c, r, calls)
  PROVE  u \in Turns /\ u.role = role /\ u.content = c /\ u.result = r
  BY Zenon DEF Turn, Turns

\* The turn u gives what the message m says, or the result that m names.
Carries(u, m) ==
  /\ u.result = m.id
  /\ m.id = NoID =>
       /\ u.role \in {"user", "assistant", "model"} <=> m.role \in {"user", "assistant"}
       /\ m.role \in {"user", "assistant"} =>
            /\ m.role = IF u.role = "user" THEN "user" ELSE "assistant"
            /\ extractText(u.content) = extractText(m.content)

\* A message makes a turn, which is of a type, or none.
LEMMA TurnShape ==
  ASSUME NEW t \in {"openai", "anthropic", "gemini"}, NEW m \in Sendable
  PROVE  \/ /\ turnOf(t, m) = <<>>
            /\ m.role \notin {"user", "assistant", "tool"}
         \/ \E u \in Turns : turnOf(t, m) = <<u>> /\ Carries(u, m)
  <1>1. /\ m.role \in Words /\ m.id \in Words /\ m.content \in Seq(Part)
        /\ m.calls \in Seq(Calls) /\ m.role # "model"
        /\ m.role = "tool" <=> m.id # NoID
    BY Zenon DEF Sendable
  <1>2. PICK x \in Seq(Part) : x = extractText(m.content) /\ extractText(x) = x
    BY <1>1, TextFlat, Zenon
  <1>3. PICK none \in Seq(Calls) : none = <<>>
    <2>1. <<>> \in Seq(Calls)
      OBVIOUS
    <2>2. QED
      BY <2>1, Zenon
  <1>4. "user" \in Words /\ "assistant" \in Words /\ "model" \in Words /\ NoID \in Words
    BY DEF Words
  <1>5. CASE t = "openai"
    <2>1. turnOf(t, m) = <<Turn(m.role, m.content, m.id, m.calls)>>
      BY <1>5, TurnType, Zenon
    <2>2. PICK u : u = Turn(m.role, m.content, m.id, m.calls)
      BY Zenon
    <2>3. u \in Turns /\ u.role = m.role /\ u.content = m.content /\ u.result = m.id
      BY <1>1, <2>2, TurnFields
    <2>4. QED
      <3>1. Carries(u, m)
        BY <1>1, <2>3 DEF Carries
      <3>2. QED
        BY <2>1, <2>2, <2>3, <3>1, Zenon
  <1>6. CASE t # "openai" /\ m.role = "tool"
    <2>1. turnOf(t, m) = <<Turn("user", m.content, m.id, <<>>)>>
      BY <1>6, TurnType, Zenon
    <2>2. PICK role \in Words : role = "user"
      BY <1>4, Zenon
    <2>3. PICK u : u = Turn(role, m.content, m.id, none)
      BY Zenon
    <2>4. u \in Turns /\ u.result = m.id
      BY <1>1, <2>3, TurnFields
    <2>5. Carries(u, m)
      BY <1>1, <1>6, <2>4 DEF Carries
    <2>6. QED
      BY <1>3, <2>1, <2>2, <2>3, <2>4, <2>5, Zenon
  <1>7. CASE t # "openai" /\ m.role \in {"user", "assistant"}
    <2>1. PICK role \in {"user", "assistant", "model"}, c \in Seq(Part) :
            /\ turnOf(t, m) = <<Turn(role, c, NoID, <<>>)>>
            /\ m.role = IF role = "user" THEN "user" ELSE "assistant"
            /\ c = m.content \/ c = x
      <3>1. t = "anthropic" \/ t = "gemini"
        BY <1>7
      <3>2. t = "anthropic" => turnOf(t, m) = <<Turn(m.role, m.content, NoID, <<>>)>>
        BY <1>7, TurnType, Zenon
      <3>3. t = "gemini" =>
              turnOf(t, m) = <<Turn(IF m.role = "user" THEN "user" ELSE "model", x, NoID, <<>>)>>
        BY <1>2, <1>7, TurnType, Zenon
      <3>4. CASE t = "anthropic"
        BY <1>1, <1>7, <3>2, <3>4, Zenon
      <3>5. CASE t = "gemini"
        BY <1>1, <1>2, <1>7, <3>3, <3>5, Zenon
      <3>6. QED
        BY <3>1, <3>4, <3>5, Zenon
    <2>2. PICK u : u = Turn(role, c, NoID, none)
      BY Zenon
    <2>3. u \in Turns /\ u.role = role /\ u.content = c /\ u.result = NoID
      <3>1. role \in Words
        BY <1>4, <2>1, Zenon
      <3>2. PICK id \in Words : id = NoID
        BY <1>4, Zenon
      <3>3. u = Turn(role, c, id, none)
        BY <2>2, <3>2, Zenon
      <3>4. u \in Turns /\ u.role = role /\ u.content = c /\ u.result = id
        BY <3>1, <3>3, TurnFields
      <3>5. QED
        BY <3>2, <3>4, Zenon
    <2>4. m.id = NoID
      BY <1>1, <1>7, Zenon
    <2>5. extractText(u.content) = extractText(m.content)
      BY <1>2, <2>1, <2>3, Zenon
    <2>6. QED
      <3>1. Carries(u, m)
        BY <1>7, <2>1, <2>3, <2>4, <2>5 DEF Carries
      <3>2. QED
        BY <1>3, <2>1, <2>2, <2>3, <3>1, Zenon
  <1>8. CASE t # "openai" /\ m.role \notin {"user", "assistant", "tool"}
    BY <1>8, TurnType, Zenon
  <1>9. QED
    BY <1>5, <1>6, <1>7, <1>8, Zenon

\* translateRequest goes through the messages one by one.
LEMMA TurnsFlat ==
  ASSUME NEW t \in {"openai", "anthropic", "gemini"}
  PROVE  /\ Flattens(turnIn(t), Sendable, Turns)
         /\ \A ms \in Seq(Sendable) : translateRequest(t, ms).turns = Flat(turnIn(t), ms)
  <1>1. Flattens(turnIn(t), Sendable, Turns)
    <2>1. ASSUME NEW m \in Sendable PROVE turnOf(t, m) \in Seq(Turns)
      <3>1. CASE turnOf(t, m) = <<>>
        BY <3>1
      <3>2. CASE \E u \in Turns : turnOf(t, m) = <<u>>
        BY <3>2
      <3>3. QED
        BY <3>1, <3>2, TurnShape, Zenon
    <2>2. QED
      BY <2>1, Zenon DEF turnIn, Flattens
  <1>2. ASSUME NEW ms \in Seq(Sendable)
        PROVE  translateRequest(t, ms).turns = Flat(turnIn(t), ms)
    <2>1. \A i \in 1 .. Len(ms) : ms[i] \in Sendable
      OBVIOUS
    <2>2. \A i \in 1 .. Len(ms) : turnIn(t)[ms[i]] = turnOf(t, ms[i])
      BY <2>1, Zenon DEF turnIn
    <2>3. Each(turnIn(t), ms) = [i \in 1 .. Len(ms) |-> turnOf(t, ms[i])]
      BY <2>2, Zenon DEF Each
    <2>4. translateRequest(t, ms).turns = Joined([i \in 1 .. Len(ms) |-> turnOf(t, ms[i])])
      BY DEF translateRequest
    <2>5. QED
      BY <2>3, <2>4, Zenon DEF Flat
  <1>3. QED
    BY <1>1, <1>2, Zenon

\* Speech goes through the turns one by one.
LEMMA SpeechFlat ==
  /\ Flattens(speechIn, Turns, Saying)
  /\ \A us \in Seq(Turns) : Speech(us) = Flat(speechIn, us)
  <1>1. Flattens(speechIn, Turns, Saying)
    <2>1. ASSUME NEW u \in Turns
          PROVE  (IF u.result = NoID /\ u.role \in {"user", "assistant", "model"}
                  THEN <<[who  |-> IF u.role = "user" THEN "user" ELSE "assistant",
                          text |-> extractText(u.content)]>>
                  ELSE <<>>) \in Seq(Saying)
      <3>1. u.content \in Seq(Part)
        BY DEF Turns
      <3>2. PICK x \in Seq(Part) : x = extractText(u.content)
        BY <3>1, TextFlat, Zenon
      <3>3. PICK w : w = IF u.role = "user" THEN "user" ELSE "assistant"
        BY Zenon
      <3>4. w \in Words
        BY <3>3 DEF Words
      <3>5. [who |-> w, text |-> x] \in Saying
        BY <3>4 DEF Saying
      <3>6. PICK y \in Saying : y = [who |-> w, text |-> x]
        BY <3>5, Zenon
      <3>7. <<y>> \in Seq(Saying) /\ <<>> \in Seq(Saying)
        OBVIOUS
      <3>8. QED
        BY <3>2, <3>3, <3>6, <3>7, Zenon
    <2>2. QED
      BY <2>1, Zenon DEF speechIn, Flattens
  <1>2. ASSUME NEW us \in Seq(Turns) PROVE Speech(us) = Flat(speechIn, us)
    <2>1. \A i \in 1 .. Len(us) : us[i] \in Turns
      OBVIOUS
    <2>2. \A i \in 1 .. Len(us) :
            speechIn[us[i]] = IF us[i].result = NoID /\ us[i].role \in {"user", "assistant", "model"}
                              THEN <<[who  |-> IF us[i].role = "user" THEN "user" ELSE "assistant",
                                      text |-> extractText(us[i].content)]>>
                              ELSE <<>>
      BY <2>1, Zenon DEF speechIn
    <2>3. Each(speechIn, us)
            = [i \in 1 .. Len(us) |->
                 IF us[i].result = NoID /\ us[i].role \in {"user", "assistant", "model"}
                 THEN <<[who  |-> IF us[i].role = "user" THEN "user" ELSE "assistant",
                         text |-> extractText(us[i].content)]>>
                 ELSE <<>>]
      BY <2>2, Zenon DEF Each
    <2>4. QED
      BY <2>3, Zenon DEF Flat, Speech
  <1>3. QED
    BY <1>1, <1>2, Zenon

\* So does ResultNames, and idIn names a message that is a result.
LEMMA ResultFlat ==
  /\ Flattens(resultIn, Turns, Words)
  /\ Flattens(idIn, Sendable, Words)
  /\ \A us \in Seq(Turns) : ResultNames(us) = Flat(resultIn, us)
  <1>1. Flattens(resultIn, Turns, Words)
    <2>1. ASSUME NEW u \in Turns
          PROVE  (IF u.result # NoID THEN <<u.result>> ELSE <<>>) \in Seq(Words)
      BY DEF Turns
    <2>2. QED
      BY <2>1, Zenon DEF resultIn, Flattens
  <1>2. Flattens(idIn, Sendable, Words)
    <2>1. ASSUME NEW m \in Sendable
          PROVE  (IF m.role = "tool" THEN <<m.id>> ELSE <<>>) \in Seq(Words)
      BY DEF Sendable
    <2>2. QED
      BY <2>1, Zenon DEF idIn, Flattens
  <1>3. ASSUME NEW us \in Seq(Turns) PROVE ResultNames(us) = Flat(resultIn, us)
    <2>1. \A i \in 1 .. Len(us) : us[i] \in Turns
      OBVIOUS
    <2>2. \A i \in 1 .. Len(us) :
            resultIn[us[i]] = IF us[i].result # NoID THEN <<us[i].result>> ELSE <<>>
      BY <2>1, Zenon DEF resultIn
    <2>3. Each(resultIn, us)
            = [i \in 1 .. Len(us) |-> IF us[i].result # NoID THEN <<us[i].result>> ELSE <<>>]
      BY <2>2, Zenon DEF Each
    <2>4. QED
      BY <2>3, Zenon DEF Flat, ResultNames
  <1>4. QED
    BY <1>1, <1>2, <1>3, Zenon

\* A turn says what its message says, and names the result that its message names.
LEMMA TurnSays ==
  ASSUME NEW t \in {"openai", "anthropic", "gemini"}
  PROVE  /\ Composes(speechIn, turnIn(t), talkIn, Sendable)
         /\ Composes(resultIn, turnIn(t), idIn, Sendable)
  <1>1. ASSUME NEW m \in Sendable
        PROVE  /\ Flat(speechIn, turnOf(t, m)) = talkIn[m]
               /\ Flat(resultIn, turnOf(t, m)) = idIn[m]
    <2>0. /\ m.role = "tool" <=> m.id # NoID
          /\ talkIn[m] = IF m.role \in {"user", "assistant"}
                         THEN <<[who |-> m.role, text |-> extractText(m.content)]>> ELSE <<>>
          /\ idIn[m] = IF m.role = "tool" THEN <<m.id>> ELSE <<>>
      BY Zenon DEF talkIn, idIn, Sendable
    <2>1. CASE turnOf(t, m) = <<>> /\ m.role \notin {"user", "assistant", "tool"}
      <3>1. talkIn[m] = <<>> /\ idIn[m] = <<>>
        BY <2>0, <2>1
      <3>2. Flat(speechIn, <<>>) = <<>>
        BY SpeechFlat, FlatFew, Zenon
      <3>3. Flat(resultIn, <<>>) = <<>>
        BY ResultFlat, FlatFew, Zenon
      <3>4. QED
        BY <2>1, <3>1, <3>2, <3>3, Zenon
    <2>2. ASSUME NEW u \in Turns, turnOf(t, m) = <<u>>, Carries(u, m)
          PROVE  /\ Flat(speechIn, turnOf(t, m)) = talkIn[m]
                 /\ Flat(resultIn, turnOf(t, m)) = idIn[m]
      <3>0. Flattens(speechIn, Turns, Saying) /\ Flattens(resultIn, Turns, Words)
        BY SpeechFlat, ResultFlat, Zenon
      <3>1. Flat(speechIn, <<u>>) = speechIn[u]
        BY <3>0, FlatFew, Zenon
      <3>2. Flat(resultIn, <<u>>) = resultIn[u]
        BY <3>0, FlatFew, Zenon
      <3>3. /\ speechIn[u] = IF u.result = NoID /\ u.role \in {"user", "assistant", "model"}
                             THEN <<[who  |-> IF u.role = "user" THEN "user" ELSE "assistant",
                                     text |-> extractText(u.content)]>>
                             ELSE <<>>
            /\ resultIn[u] = IF u.result # NoID THEN <<u.result>> ELSE <<>>
        BY Zenon DEF speechIn, resultIn
      <3>4. CASE m.role = "tool"
        <4>1. talkIn[m] = <<>> /\ idIn[m] = <<m.id>> /\ u.result # NoID
          BY <2>0, <2>2, <3>4 DEF Carries
        <4>2. speechIn[u] = <<>> /\ resultIn[u] = <<m.id>>
          BY <2>2, <3>3, <4>1, Zenon DEF Carries
        <4>3. QED
          BY <2>2, <3>1, <3>2, <4>1, <4>2, Zenon
      <3>5. CASE m.role # "tool"
        <4>1. u.result = NoID /\ idIn[m] = <<>> /\ resultIn[u] = <<>>
          BY <2>0, <2>2, <3>3, <3>5, Zenon DEF Carries
        <4>2. CASE m.role \in {"user", "assistant"}
          <5>1. speechIn[u] = <<[who |-> m.role, text |-> extractText(m.content)]>>
            BY <2>2, <3>3, <4>1, <4>2, Zenon DEF Carries
          <5>2. QED
            BY <2>0, <2>2, <3>1, <3>2, <4>1, <4>2, <5>1, Zenon
        <4>3. CASE m.role \notin {"user", "assistant"}
          <5>1. m.id = NoID /\ u.role \notin {"user", "assistant", "model"}
            BY <2>0, <2>2, <3>5, <4>3, Zenon DEF Carries
          <5>2. QED
            BY <2>0, <2>2, <3>1, <3>2, <3>3, <4>1, <4>3, <5>1, Zenon
        <4>4. QED
          BY <4>2, <4>3, Zenon
      <3>6. QED
        BY <3>4, <3>5, Zenon
    <2>3. QED
      BY <2>1, <2>2, TurnShape, Zenon
  <1>2. \A m \in Sendable : turnIn(t)[m] = turnOf(t, m)
    BY Zenon DEF turnIn
  <1>3. QED
    BY <1>1, <1>2, Zenon DEF Composes

\* A request says what its messages say, and names the results they name.
LEMMA RequestSays ==
  ASSUME NEW t \in {"openai", "anthropic", "gemini"}, NEW ms \in Seq(Sendable)
  PROVE  /\ Speech(translateRequest(t, ms).turns) = Talk(ms)
         /\ ResultNames(translateRequest(t, ms).turns) = Flat(idIn, ms)
  <1>1. PICK g : g = turnIn(t)
    BY Zenon
  <1>2. Flattens(g, Sendable, Turns) /\ translateRequest(t, ms).turns = Flat(g, ms)
    BY <1>1, TurnsFlat, Zenon
  <1>3. Flat(g, ms) \in Seq(Turns)
    BY <1>2, FlatType, Zenon
  <1>4. Composes(speechIn, g, talkIn, Sendable) /\ Composes(resultIn, g, idIn, Sendable)
    BY <1>1, TurnSays, Zenon
  <1>5. Flat(speechIn, Flat(g, ms)) = Flat(talkIn, ms)
    <2>1. Flattens(speechIn, Turns, Saying) /\ Flattens(talkIn, Sendable, Saying)
      BY SpeechFlat, TalkFlat, Zenon
    <2>2. QED
      BY <1>2, <1>4, <2>1, FlatFlat
  <1>6. Flat(resultIn, Flat(g, ms)) = Flat(idIn, ms)
    <2>1. Flattens(resultIn, Turns, Words) /\ Flattens(idIn, Sendable, Words)
      BY ResultFlat, Zenon
    <2>2. QED
      BY <1>2, <1>4, <2>1, FlatFlat
  <1>7. QED
    BY <1>2, <1>3, <1>5, <1>6, SpeechFlat, ResultFlat, TalkFlat, Zenon

\* Calls as providers make them.
MadeCall == [via : Types, id : STRING \ {NoID}, name : STRING \ {NoID}]

\* The reply that the client has last lists the calls that were made last.
LastCalls ==
  LET calls == msgs[Len(msgs)].calls
  IN  /\ msgs # <<>>
      /\ Len(calls) <= Len(made)
      /\ \A i \in 1 .. Len(calls) :
           calls[i].id = callID(made[Len(made) - Len(calls) + i].via,
                                made[Len(made) - Len(calls) + i])

\* The names of the calls that tool messages answer.
NamesOf(calls) == [k \in 1 .. Len(calls) |-> callID(calls[k].via, calls[k])]

ChatInv ==
  /\ phase \in {"new", "ask", "sent", "told"}
  /\ msgs \in Seq(Sendable)
  /\ said = Talk(msgs)
  /\ made \in Seq(MadeCall) /\ answered \in Seq(MadeCall)
  /\ phase = "new" => answered = <<>>
  /\ phase = "sent" => via \in Types /\ wire = translateRequest(via, msgs)
  /\ phase = "told" => LastCalls
  /\ Flat(idIn, msgs) = NamesOf(answered)

\* What an ID is for a call that was made.
LEMMA CallIDType ==
  ASSUME NEW t, NEW c \in MadeCall
  PROVE  callID(t, c) \in Words /\ callID(t, c) # NoID
  BY DEF MadeCall, callID, Words

\* The names of two lists of calls.
LEMMA NamesJoin ==
  ASSUME NEW a \in Seq(MadeCall), NEW b \in Seq(MadeCall)
  PROVE  /\ NamesOf(a) \in Seq(Words) /\ Len(NamesOf(a)) = Len(a)
         /\ NamesOf(a \o b) = NamesOf(a) \o NamesOf(b)
  <1>1. ASSUME NEW c \in Seq(MadeCall)
        PROVE  NamesOf(c) \in Seq(Words) /\ Len(NamesOf(c)) = Len(c)
    <2>1. \A k \in 1 .. Len(c) : c[k] \in MadeCall
      OBVIOUS
    <2>2. \A k \in 1 .. Len(c) : callID(c[k].via, c[k]) \in Words
      BY <2>1, CallIDType, Zenon
    <2>3. QED
      BY <2>2 DEF NamesOf
  <1>2. PICK ab : ab = a \o b
    BY Zenon
  <1>3. ab \in Seq(MadeCall) /\ Len(ab) = Len(a) + Len(b) /\ Len(a) \in Nat /\ Len(b) \in Nat
    BY <1>2
  <1>4. PICK x : x = NamesOf(a)
    BY Zenon
  <1>5. PICK y : y = NamesOf(b)
    BY Zenon
  <1>6. PICK z : z = NamesOf(ab)
    BY Zenon
  <1>7. /\ x \in Seq(Words) /\ Len(x) = Len(a) /\ y \in Seq(Words) /\ Len(y) = Len(b)
        /\ z \in Seq(Words) /\ Len(z) = Len(a) + Len(b)
    BY <1>1, <1>3, <1>4, <1>5, <1>6, Zenon
  <1>8. x \o y \in Seq(Words) /\ Len(x \o y) = Len(a) + Len(b)
    BY <1>7, ConcatProperties
  <1>9. ASSUME NEW i \in 1 .. Len(a) + Len(b) PROVE z[i] = (x \o y)[i]
    <2>1. CASE i <= Len(a)
      <3>1. ab[i] = a[i] /\ i \in 1 .. Len(a) /\ i \in 1 .. Len(ab)
        BY <1>2, <1>3, <1>9, <2>1
      <3>2. (x \o y)[i] = x[i]
        BY <1>7, <2>1, <3>1
      <3>3. QED
        BY <1>4, <1>6, <3>1, <3>2, Zenon DEF NamesOf
    <2>2. CASE ~(i <= Len(a))
      <3>1. i - Len(a) \in 1 .. Len(b) /\ i \in 1 .. Len(ab)
        BY <1>3, <1>9, <2>2
      <3>2. ab[i] = b[i - Len(a)]
        BY <1>2, <1>3, <1>9, <2>2, <3>1
      <3>3. (x \o y)[i] = y[i - Len(a)]
        BY <1>3, <1>7, <1>9, <2>2, <3>1
      <3>4. QED
        BY <1>5, <1>6, <3>1, <3>2, <3>3, Zenon DEF NamesOf
    <2>3. QED
      BY <2>1, <2>2, Zenon
  <1>10. z = x \o y
    BY <1>7, <1>8, <1>9, SeqEqual
  <1>11. QED
    BY <1>1, <1>2, <1>4, <1>5, <1>6, <1>10, Zenon

\* What messages add to a conversation.
LEMMA MessagesAdd ==
  ASSUME NEW ms \in Seq(Sendable), NEW more \in Seq(Sendable)
  PROVE  /\ ms \o more \in Seq(Sendable)
         /\ Talk(ms \o more) = Talk(ms) \o Talk(more)
         /\ Flat(idIn, ms \o more) = Flat(idIn, ms) \o Flat(idIn, more)
  <1>1. PICK both : both = ms \o more
    BY Zenon
  <1>2. both \in Seq(Sendable)
    BY <1>1, ConcatProperties
  <1>3. Flattens(talkIn, Sendable, Saying) /\ Flattens(idIn, Sendable, Words)
    BY TalkFlat, ResultFlat, Zenon
  <1>4. Flat(talkIn, ms \o more) = Flat(talkIn, ms) \o Flat(talkIn, more)
    BY <1>3, FlatConcat
  <1>5. Flat(idIn, ms \o more) = Flat(idIn, ms) \o Flat(idIn, more)
    BY <1>3, FlatConcat
  <1>6. QED
    BY <1>1, <1>2, <1>4, <1>5, TalkFlat, Zenon

\* What one message adds.
LEMMA MessageAdds ==
  ASSUME NEW ms \in Seq(Sendable), NEW m \in Sendable, m.role # "tool"
  PROVE  /\ Append(ms, m) \in Seq(Sendable)
         /\ Talk(<<m>>) = talkIn[m]
         /\ Talk(Append(ms, m)) = Talk(ms) \o talkIn[m]
         /\ Flat(idIn, Append(ms, m)) = Flat(idIn, ms)
  <1>1. PICK more : more = <<m>>
    BY Zenon
  <1>2. more \in Seq(Sendable) /\ Append(ms, m) = ms \o more
    BY <1>1
  <1>3. Flattens(talkIn, Sendable, Saying) /\ Flattens(idIn, Sendable, Words)
    BY TalkFlat, ResultFlat, Zenon
  <1>4. Flat(talkIn, more) = talkIn[m] /\ Flat(idIn, more) = idIn[m]
    BY <1>1, <1>3, FlatFew, Zenon
  <1>5. idIn[m] = <<>>
    BY Zenon DEF idIn
  <1>6. PICK ids \in Seq(Words) : ids = Flat(idIn, ms)
    BY <1>3, FlatType, Zenon
  <1>7. ids \o <<>> = ids
    BY ConcatEmptySeq, Zenon
  <1>8. Talk(more) = talkIn[m]
    BY <1>2, <1>4, TalkFlat, Zenon
  <1>9. /\ ms \o more \in Seq(Sendable)
        /\ Talk(ms \o more) = Talk(ms) \o Talk(more)
        /\ Flat(idIn, ms \o more) = Flat(idIn, ms) \o Flat(idIn, more)
    BY <1>2, MessagesAdd, Zenon
  <1>10. QED
    BY <1>1, <1>2, <1>4, <1>5, <1>6, <1>7, <1>8, <1>9, Zenon

\* A sequence of elements of S is one of elements of a larger set.
LEMMA SeqOfMore ==
  ASSUME NEW S, NEW T, S \subseteq T, NEW x \in Seq(S)
  PROVE  x \in Seq(T)
  <1>1. Len(x) \in Nat /\ x = [i \in 1 .. Len(x) |-> x[i]] /\ \A i \in 1 .. Len(x) : x[i] \in T
    OBVIOUS
  <1>2. QED
    BY <1>1

\* A function on 1 .. n is a sequence.
LEMMA SeqFrom ==
  ASSUME NEW S, NEW n \in Nat, NEW x, x = [i \in 1 .. n |-> x[i]], \A i \in 1 .. n : x[i] \in S
  PROVE  x \in Seq(S) /\ Len(x) = n
  <1>1. PICK y : y = [i \in 1 .. n |-> x[i]]
    BY Zenon
  <1>2. y \in Seq(S) /\ Len(y) = n
    BY <1>1
  <1>3. QED
    BY <1>1, <1>2, Zenon

\* What conversations begin with, and are continued with.
LEMMA OpeningType ==
  ASSUME NEW ms \in Openings
  PROVE  /\ ms \in Seq(Sendable) /\ ms # <<>> /\ Flat(idIn, ms) = <<>>
         /\ ms[Len(ms)] \in Sendable /\ ms[Len(ms)].role # "tool"
  <1>1. /\ ms \in Seq(Message) /\ ms # <<>>
        /\ \A i \in 1 .. Len(ms) : ms[i].role \notin {"tool", "model"} /\ ms[i].id = NoID
    BY AdapterAssumption, Zenon
  <1>2. ASSUME NEW m \in Message, m.role \notin {"tool", "model"}, m.id = NoID
        PROVE  m \in Sendable
    <2>1. m.calls \in Seq(Calls)
      <3>1. m.calls \in Seq([id : STRING, name : STRING])
        BY DEF Message
      <3>2. [id : STRING, name : STRING] \subseteq Calls
        BY DEF Calls, Words
      <3>3. QED
        BY <3>1, <3>2, SeqOfMore, Zenon
    <2>2. m \in [role : Words, content : Seq(Part), calls : Seq(Calls), id : Words]
      BY <2>1 DEF Message, Words
    <2>3. QED
      BY <1>2, <2>2, Zenon DEF Sendable
  <1>3. Len(ms) \in Nat /\ Len(ms) \in 1 .. Len(ms) /\ \A i \in 1 .. Len(ms) : ms[i] \in Message
    BY <1>1
  <1>4. \A i \in 1 .. Len(ms) : ms[i] \in Sendable /\ ms[i].role # "tool"
    BY <1>1, <1>2, <1>3
  <1>5. ms \in Seq(Sendable)
    BY <1>1, <1>3, <1>4
  <1>6. Drops(idIn, ms)
    BY <1>4, Zenon DEF Drops, idIn
  <1>7. Flat(idIn, ms) = <<>>
    BY <1>5, <1>6, ResultFlat, FlatNone
  <1>8. QED
    BY <1>1, <1>3, <1>4, <1>5, <1>7, Zenon

\* The message m is a reply with its texts and calls.
Replied(m, t, reply, calls) ==
  /\ m \in Sendable /\ m.role # "tool"
  /\ talkIn[m] = <<[who |-> "assistant", text |-> extractText(reply)]>>
  /\ Len(m.calls) = Len(calls)
  /\ \A i \in 1 .. Len(calls) : m.calls[i].id = callID(t, calls[i])

\* A reply as the client gets it.
LEMMA ReplyType ==
  ASSUME NEW t, NEW reply \in Seq(Part), NEW calls \in Seq(MadeCall)
  PROVE  Replied(translateResponse(t, reply, calls), t, reply, calls)
  <1>0. PICK m : m = translateResponse(t, reply, calls)
    BY Zenon
  <1>1. PICK x \in Seq(Part) : x = extractText(reply) /\ extractText(x) = x
    BY TextFlat, Zenon
  <1>2. PICK cs : cs = [i \in 1 .. Len(calls) |-> [id |-> callID(t, calls[i]), name |-> calls[i].name]]
    BY Zenon
  <1>3. Len(calls) \in Nat /\ \A i \in 1 .. Len(calls) : calls[i] \in MadeCall
    OBVIOUS
  <1>4. ASSUME NEW i \in 1 .. Len(calls)
        PROVE  [id |-> callID(t, calls[i]), name |-> calls[i].name] \in Calls
    <2>1. calls[i] \in MadeCall
      BY <1>3, Zenon
    <2>2. callID(t, calls[i]) \in Words
      BY <2>1, CallIDType, Zenon
    <2>3. calls[i].name \in Words
      BY <2>1 DEF MadeCall, Words
    <2>4. QED
      BY <2>2, <2>3 DEF Calls
  <1>5. cs \in Seq(Calls) /\ Len(cs) = Len(calls)
    BY <1>2, <1>3, <1>4
  <1>6. \A i \in 1 .. Len(calls) : cs[i].id = callID(t, calls[i])
    BY <1>2
  <1>7. m = [role |-> "assistant", content |-> x, calls |-> cs, id |-> NoID]
    BY <1>0, <1>1, <1>2, Zenon DEF translateResponse, Assistant
  <1> HIDE <1>2
  <1>8. m.role = "assistant" /\ m.content = x /\ m.calls = cs /\ m.id = NoID
    BY <1>7
  <1>9. m \in Sendable
    <2>1. "assistant" \in Words /\ NoID \in Words
      BY DEF Words
    <2>2. m \in [role : Words, content : Seq(Part), calls : Seq(Calls), id : Words]
      BY <1>5, <1>7, <2>1, Zenon
    <2>3. (m.role = "tool" <=> m.id # NoID) /\ m.role # "model"
      BY <1>8
    <2>4. QED
      BY <2>2, <2>3, Zenon DEF Sendable
  <1>10. talkIn[m] = <<[who |-> m.role, text |-> extractText(m.content)]>>
    BY <1>8, <1>9, Zenon DEF talkIn
  <1>11. m.role # "tool"
    BY <1>8
  <1>12. QED
    BY <1>0, <1>1, <1>5, <1>6, <1>8, <1>9, <1>10, <1>11, Zenon DEF Replied

\* The calls of a reply.
Spoken == {p \in Part : p.kind = "call" => p.v # NoID}
Named  == {p \in Part : p.v # NoID}
callIn == [p \in Spoken |-> IF p.kind = "call" THEN <<p>> ELSE <<>>]

\* The calls that translateResponse makes of a reply each have a name.
LEMMA BlocksType ==
  ASSUME NEW reply \in Replies,
         NEW blocks, blocks = Joined([i \in 1 .. Len(reply) |->
                                        IF reply[i].kind = "call" THEN <<reply[i]>> ELSE <<>>])
  PROVE  reply \in Seq(Part) /\ blocks \in Seq(Named)
  <1>1. /\ reply \in Seq(Part)
        /\ \A i \in 1 .. Len(reply) : reply[i].kind = "call" => reply[i].v # NoID
    BY AdapterAssumption, Zenon
  <1>2. Len(reply) \in Nat /\ \A i \in 1 .. Len(reply) : reply[i] \in Spoken
    BY <1>1 DEF Spoken
  <1>3. reply \in Seq(Spoken)
    BY <1>1, <1>2
  <1>4. Flattens(callIn, Spoken, Named)
    <2>1. ASSUME NEW p \in Spoken
          PROVE  (IF p.kind = "call" THEN <<p>> ELSE <<>>) \in Seq(Named)
      <3>1. CASE p.kind = "call"
        <4>1. p \in Named
          BY <3>1 DEF Spoken, Named
        <4>2. <<p>> \in Seq(Named)
          BY <4>1
        <4>3. QED
          BY <3>1, <4>2, Zenon
      <3>2. CASE p.kind # "call"
        BY <3>2
      <3>3. QED
        BY <3>1, <3>2, Zenon
    <2>2. QED
      BY <2>1, Zenon DEF callIn, Flattens
  <1>5. \A i \in 1 .. Len(reply) :
          callIn[reply[i]] = IF reply[i].kind = "call" THEN <<reply[i]>> ELSE <<>>
    BY <1>2, Zenon DEF callIn
  <1>6. Each(callIn, reply)
          = [i \in 1 .. Len(reply) |-> IF reply[i].kind = "call" THEN <<reply[i]>> ELSE <<>>]
    BY <1>5, Zenon DEF Each
  <1>7. blocks = Flat(callIn, reply)
    BY <1>6, Zenon DEF Flat
  <1>8. QED
    BY <1>1, <1>3, <1>4, <1>7, FlatType, Zenon

\* The calls that a provider makes with a reply when n were made before.
MadeWith(blocks, t, n) ==
  [i \in 1 .. Len(blocks) |-> [via |-> t, id |-> Ids[n + i], name |-> blocks[i].v]]

\* They have IDs and names, and are of that provider.
LEMMA MadeType ==
  ASSUME NEW blocks \in Seq(Named), NEW t \in Types, NEW n \in Nat, n + Len(blocks) <= Len(Ids),
         NEW calls, calls = MadeWith(blocks, t, n)
  PROVE  /\ calls \in Seq(MadeCall) /\ Len(calls) = Len(blocks)
         /\ \A i \in 1 .. Len(calls) : calls[i].via = t
  <1>1. Ids \in Seq(STRING \ {NoID}) /\ Len(Ids) \in Nat /\ Len(blocks) \in Nat
    BY AdapterAssumption
  <1>2. ASSUME NEW i \in 1 .. Len(blocks)
        PROVE  [via |-> t, id |-> Ids[n + i], name |-> blocks[i].v] \in MadeCall
    <2>1. n + i \in 1 .. Len(Ids)
      BY <1>1
    <2>2. Ids[n + i] \in STRING \ {NoID}
      BY <1>1, <2>1
    <2>3. blocks[i] \in Named
      OBVIOUS
    <2>4. blocks[i].v \in STRING \ {NoID}
      BY <2>3 DEF Named, Part
    <2>5. QED
      BY <2>2, <2>4, Zenon DEF MadeCall
  <1>3. calls \in Seq(MadeCall) /\ Len(calls) = Len(blocks)
    BY <1>1, <1>2 DEF MadeWith
  <1>4. QED
    BY <1>3 DEF MadeWith

\* The tool messages answer the calls of the last reply, which are those of
\* the calls made that come last, in the given order.
Answering(ms, calls, all, order, tools, those) ==
  /\ ms # <<>> /\ calls = ms[Len(ms)].calls
  /\ Len(calls) <= Len(all)
  /\ \A i \in 1 .. Len(calls) :
       calls[i].id = callID(all[Len(all) - Len(calls) + i].via, all[Len(all) - Len(calls) + i])
  /\ order \in Orders(Len(calls))
  /\ tools = [i \in 1 .. Len(calls) |-> ToolMessage(calls[order[i]].id)]
  /\ those = [i \in 1 .. Len(calls) |-> all[Len(all) - Len(calls) + order[i]]]

\* A tool message is a message.
LEMMA ToolType ==
  ASSUME NEW id \in Words
  PROVE  ToolMessage(id) \in [role : Words, content : Seq(Part), calls : Seq(Calls), id : Words]
  <1>1. "tool" \in Words
    BY DEF Words
  <1>2. QED
    BY <1>1 DEF ToolMessage

\* Such messages say nothing and name the calls they answer.
LEMMA AnswersType ==
  ASSUME NEW ms \in Seq(Sendable), NEW all \in Seq(MadeCall),
         NEW calls, NEW order, NEW tools, NEW those,
         Answering(ms, calls, all, order, tools, those)
  PROVE  /\ tools \in Seq(Sendable) /\ those \in Seq(MadeCall)
         /\ Talk(tools) = <<>>
         /\ Flat(idIn, tools) = NamesOf(those)
  <1>1. PICK n \in Nat : n = Len(calls) /\ n <= Len(all)
    <2>1. ms # <<>> /\ calls = ms[Len(ms)].calls /\ Len(calls) <= Len(all)
      BY Zenon DEF Answering
    <2>2. ms[Len(ms)] \in Sendable
      BY <2>1
    <2>3. calls \in Seq(Calls)
      BY <2>1, <2>2 DEF Sendable
    <2>4. QED
      BY <2>1, <2>3
  <1>2. /\ order \in [1 .. n -> 1 .. n]
        /\ tools = [i \in 1 .. n |-> ToolMessage(calls[order[i]].id)]
        /\ those = [i \in 1 .. n |-> all[Len(all) - n + order[i]]]
        /\ \A i \in 1 .. n :
             calls[i].id = callID(all[Len(all) - n + i].via, all[Len(all) - n + i])
    BY <1>1, Zenon DEF Answering, Orders
  <1>3. PICK d \in Nat : d = Len(all) - n
    BY <1>1
  <1>4. ASSUME NEW i \in 1 .. n
        PROVE  /\ order[i] \in 1 .. n /\ all[d + order[i]] \in MadeCall
               /\ those[i] = all[d + order[i]]
               /\ calls[order[i]].id = callID(those[i].via, those[i])
    <2>1. PICK j \in 1 .. n : j = order[i]
      BY <1>2
    <2>2. d + j \in 1 .. Len(all)
      BY <1>1, <1>3
    <2>3. all[d + j] \in MadeCall
      BY <2>2
    <2>4. those[i] = all[d + j]
      BY <1>2, <1>3, <2>1, Zenon
    <2>5. calls[j].id = callID(all[d + j].via, all[d + j])
      BY <1>2, <1>3, Zenon
    <2>6. QED
      BY <2>1, <2>3, <2>4, <2>5, Zenon
  <1>5. those = [i \in 1 .. n |-> those[i]] /\ tools = [i \in 1 .. n |-> tools[i]]
    BY <1>2, Zenon
  <1>6. those \in Seq(MadeCall) /\ Len(those) = n
    <2>1. \A i \in 1 .. n : those[i] \in MadeCall
      BY <1>4, Zenon
    <2>2. QED
      BY <1>5, <2>1, SeqFrom, Zenon
  <1>7. PICK e : e = NamesOf(those)
    BY Zenon
  <1>8. e \in Seq(Words) /\ Len(e) = n
    BY <1>6, <1>7, NamesJoin, Zenon
  <1>9. ASSUME NEW i \in 1 .. n
        PROVE  e[i] \in Words /\ e[i] # NoID /\ tools[i] = ToolMessage(e[i])
    <2>1. e[i] = callID(those[i].via, those[i])
      BY <1>6, <1>7, <1>9, Zenon DEF NamesOf
    <2>2. those[i] \in MadeCall
      BY <1>4, Zenon
    <2>3. e[i] \in Words /\ e[i] # NoID
      BY <2>1, <2>2, CallIDType, Zenon
    <2>4. tools[i] = ToolMessage(calls[order[i]].id)
      BY <1>2, Zenon
    <2>5. QED
      BY <1>4, <2>1, <2>3, <2>4, Zenon
  <1>10. ASSUME NEW id \in Words, id # NoID, NEW m, m = ToolMessage(id)
         PROVE  m \in Sendable /\ talkIn[m] = <<>> /\ idIn[m] = <<id>>
    <2>1. m = [role |-> "tool", content |-> <<>>, calls |-> <<>>, id |-> id]
      BY <1>10, Zenon DEF ToolMessage
    <2>2. m.role = "tool" /\ m.id = id
      BY <2>1
    <2>3. "tool" \in Words
      BY DEF Words
    <2>4. m \in [role : Words, content : Seq(Part), calls : Seq(Calls), id : Words]
      BY <1>10, ToolType, Zenon
    <2>5. m.role # "model" /\ m.role \notin {"user", "assistant"}
      BY <2>2
    <2>6. m \in Sendable
      BY <1>10, <2>2, <2>4, <2>5, Zenon DEF Sendable
    <2>7. QED
      BY <2>2, <2>5, <2>6, Zenon DEF talkIn, idIn
  <1>11. \A i \in 1 .. n : tools[i] \in Sendable /\ talkIn[tools[i]] = <<>> /\ idIn[tools[i]] = <<e[i]>>
    BY <1>9, <1>10, Zenon
  <1>12. tools \in Seq(Sendable) /\ Len(tools) = n
    BY <1>5, <1>11, SeqFrom, Zenon
  <1>13. Flattens(talkIn, Sendable, Saying) /\ Flattens(idIn, Sendable, Words)
    BY TalkFlat, ResultFlat, Zenon
  <1>14. Talk(tools) = <<>>
    <2>1. Drops(talkIn, tools)
      BY <1>11, <1>12, Zenon DEF Drops
    <2>2. Flat(talkIn, tools) = <<>>
      BY <1>12, <1>13, <2>1, FlatNone
    <2>3. QED
      BY <1>12, <2>2, TalkFlat, Zenon
  <1>15. Flat(idIn, tools) = e
    <2>1. Maps(idIn, tools, e)
      BY <1>8, <1>11, <1>12, Zenon DEF Maps
    <2>2. QED
      BY <1>8, <1>12, <1>13, <2>1, FlatOnes, Zenon
  <1>16. QED
    BY <1>6, <1>7, <1>12, <1>14, <1>15, Zenon

\* Replies with calls, and those that could not be read.
LEMMA ReplyStep ==
  ASSUME ChatInv, phase = "sent", NEW reply \in Seq(Part), NEW calls \in Seq(MadeCall),
         \A i \in 1 .. Len(calls) : calls[i].via = via,
         Told(translateResponse(via, reply, calls)), made' = made \o calls,
         said' = Append(said, [who |-> "assistant", text |-> extractText(reply)])
  PROVE  ChatInv'
  <1>1. /\ msgs \in Seq(Sendable) /\ said = Talk(msgs)
        /\ made \in Seq(MadeCall) /\ answered \in Seq(MadeCall)
        /\ Flat(idIn, msgs) = NamesOf(answered)
    BY Zenon DEF ChatInv
  <1>2. PICK m : m = translateResponse(via, reply, calls)
    BY Zenon
  <1>3. /\ m \in Sendable /\ m.role # "tool"
        /\ talkIn[m] = <<[who |-> "assistant", text |-> extractText(reply)]>>
        /\ Len(m.calls) = Len(calls)
        /\ \A i \in 1 .. Len(calls) : m.calls[i].id = callID(via, calls[i])
    BY <1>2, ReplyType, Zenon DEF Replied
  <1>4. phase' = "told" /\ msgs' = Append(msgs, m) /\ answered' = answered
    BY <1>2, Zenon DEF Told
  <1>5. /\ msgs' \in Seq(Sendable)
        /\ Talk(msgs') = Talk(msgs) \o talkIn[m]
        /\ Flat(idIn, msgs') = Flat(idIn, msgs)
    BY <1>1, <1>3, <1>4, MessageAdds, Zenon
  <1>6. said' = Talk(msgs')
    <2>1. PICK s : s = [who |-> "assistant", text |-> extractText(reply)]
      BY Zenon
    <2>2. s \in Saying
      <3>1. extractText(reply) \in Seq(Part)
        BY TextFlat, Zenon
      <3>2. QED
        BY <2>1, <3>1, Zenon DEF Saying, Words
    <2>3. PICK x : x = Talk(msgs)
      BY Zenon
    <2>4. x \in Seq(Saying)
      BY <1>1, <2>3, TalkFlat, FlatType
    <2>5. Append(x, s) = x \o <<s>>
      BY <2>2, <2>4, AppendIsConcat, Zenon
    <2>6. QED
      BY <1>1, <1>3, <1>5, <2>1, <2>3, <2>5, Zenon
  <1>7. LastCalls'
    <2>1. PICK n \in Nat : n = Len(calls)
      OBVIOUS
    <2>2. PICK d \in Nat : d = Len(made)
      BY <1>1
    <2>3. PICK all : all = made \o calls
      BY Zenon
    <2>4. Len(all) = d + n /\ \A i \in 1 .. n : all[d + i] = calls[i]
      BY <1>1, <2>1, <2>2, <2>3
    <2>5. msgs' # <<>> /\ msgs'[Len(msgs')] = m
      <3>1. PICK ms \in Seq(Sendable) : ms = msgs
        BY <1>1, Zenon
      <3>2. m \in Sendable
        BY <1>3, Zenon
      <3>3. PICK q : q = Append(ms, m)
        BY Zenon
      <3>4. q # <<>> /\ q[Len(q)] = m
        BY <3>2, <3>3
      <3>5. QED
        BY <1>4, <3>1, <3>3, <3>4, Zenon
    <2>6. ASSUME NEW i \in 1 .. n
          PROVE  m.calls[i].id = callID(all[Len(all) - n + i].via, all[Len(all) - n + i])
      <3>1. Len(all) - n + i = d + i
        BY <2>4
      <3>2. calls[i].via = via /\ all[d + i] = calls[i] /\ m.calls[i].id = callID(via, calls[i])
        BY <1>3, <2>1, <2>4, Zenon
      <3>3. QED
        BY <3>1, <3>2, Zenon
    <2>7. n <= Len(all)
      BY <2>4
    <2>8. made' = all /\ Len(m.calls) = n
      BY <1>3, <2>1, <2>3, Zenon
    <2>9. QED
      BY <2>5, <2>6, <2>7, <2>8, Zenon DEF LastCalls
  <1>8. made' \in Seq(MadeCall)
    <2>1. made \o calls \in Seq(MadeCall)
      BY <1>1, ConcatProperties, Zenon
    <2>2. QED
      BY <2>1, Zenon
  <1>9. phase' \in {"new", "ask", "sent", "told"} /\ phase' # "new" /\ phase' # "sent"
    BY <1>4
  <1>10. QED
    BY <1>1, <1>4, <1>5, <1>6, <1>7, <1>8, <1>9, Zenon DEF ChatInv

\* A conversation has nothing in it when it begins.
LEMMA ChatStart == AdapterInit => ChatInv
  <1> SUFFICES ASSUME AdapterInit PROVE ChatInv
    BY Zenon
  <1>1. msgs = <<>> /\ phase = "new" /\ said = <<>> /\ made = <<>> /\ answered = <<>>
    BY Zenon DEF AdapterInit
  <1>2. msgs \in Seq(Sendable) /\ made \in Seq(MadeCall) /\ answered \in Seq(MadeCall)
    <2>1. \A S : <<>> \in Seq(S)
      OBVIOUS
    <2>2. QED
      BY <1>1, <2>1, Zenon
  <1>3. Talk(msgs) = <<>> /\ Flat(idIn, msgs) = <<>>
    BY <1>1, <1>2, TalkFlat, ResultFlat, FlatFew, Zenon
  <1>4. NamesOf(answered) = <<>>
    BY <1>1 DEF NamesOf
  <1>5. phase \in {"new", "ask", "sent", "told"} /\ phase # "sent" /\ phase # "told"
    BY <1>1
  <1>6. QED
    BY <1>1, <1>2, <1>3, <1>4, <1>5, Zenon DEF ChatInv

\* Every step of a conversation keeps the invariant.
LEMMA ChatStep == ChatInv /\ [AdapterNext]_chatVars => ChatInv'
  <1> SUFFICES ASSUME ChatInv, [AdapterNext]_chatVars PROVE ChatInv'
    BY Zenon
  <1>0. /\ phase \in {"new", "ask", "sent", "told"}
        /\ msgs \in Seq(Sendable) /\ said = Talk(msgs)
        /\ made \in Seq(MadeCall) /\ answered \in Seq(MadeCall)
        /\ phase = "new" => answered = <<>>
        /\ phase = "sent" => via \in Types /\ wire = translateRequest(via, msgs)
        /\ phase = "told" => LastCalls
        /\ Flat(idIn, msgs) = NamesOf(answered)
    BY Zenon DEF ChatInv
  <1>1. ASSUME NEW ms \in Openings, Open(ms) PROVE ChatInv'
    <2>1. /\ phase = "new" /\ phase' = "ask" /\ msgs' = ms /\ said' = Talk(ms)
          /\ made' = made /\ answered' = answered
      BY <1>1, Zenon DEF Open
    <2>2. ms \in Seq(Sendable) /\ Flat(idIn, ms) = <<>>
      BY OpeningType, Zenon
    <2>3. answered = <<>>
      BY <1>0, <2>1, Zenon
    <2>4. NamesOf(answered) = <<>>
      BY <2>3 DEF NamesOf
    <2>5. phase' \in {"new", "ask", "sent", "told"} /\ phase' # "sent" /\ phase' # "told"
      BY <2>1
    <2>6. QED
      BY <1>0, <2>1, <2>2, <2>3, <2>4, <2>5, Zenon DEF ChatInv
  <1>2. ASSUME NEW t \in Types, ChatCompletion(t) PROVE ChatInv'
    <2>1. /\ phase' = "sent" /\ via' = t /\ wire' = translateRequest(t, msgs)
          /\ msgs' = msgs /\ said' = said /\ made' = made /\ answered' = answered
      BY <1>2, Zenon DEF ChatCompletion
    <2>2. phase' \in {"new", "ask", "sent", "told"} /\ phase' # "new" /\ phase' # "told"
      BY <2>1
    <2>3. QED
      BY <1>0, <2>1, <2>2, Zenon DEF ChatInv
  <1>3. ASSUME ExchangeFails PROVE ChatInv'
    <2>1. /\ phase' = "ask"
          /\ msgs' = msgs /\ said' = said /\ made' = made /\ answered' = answered
      BY <1>3, Zenon DEF ExchangeFails
    <2>2. phase' \in {"new", "ask", "sent", "told"} /\ phase' \notin {"new", "sent", "told"}
      BY <2>1
    <2>3. QED
      BY <1>0, <2>1, <2>2, Zenon DEF ChatInv
  <1>4. ASSUME NEW reply \in Replies, Reply(reply) PROVE ChatInv'
    <2>1. PICK blocks : blocks = Joined([i \in 1 .. Len(reply) |->
                                           IF reply[i].kind = "call" THEN <<reply[i]>> ELSE <<>>])
      BY Zenon
    <2>2. PICK calls : calls = [i \in 1 .. Len(blocks) |->
                                  [via |-> via, id |-> Ids[Len(made) + i], name |-> blocks[i].v]]
      BY Zenon
    <2>3. /\ phase = "sent" /\ Len(made) + Len(blocks) <= Len(Ids)
          /\ Told(translateResponse(via, reply, calls))
          /\ made' = made \o calls
          /\ said' = Append(said, [who |-> "assistant", text |-> extractText(reply)])
      BY <1>4, <2>1, <2>2, Zenon DEF Reply
    <2>4. reply \in Seq(Part) /\ blocks \in Seq(Named)
      BY <2>1, BlocksType, Zenon
    <2>5. via \in Types
      BY <1>0, <2>3, Zenon
    <2>6. PICK n \in Nat : n = Len(made)
      BY <1>0
    <2>7. calls \in Seq(MadeCall) /\ \A i \in 1 .. Len(calls) : calls[i].via = via
      <3>1. calls = MadeWith(blocks, via, n) /\ n + Len(blocks) <= Len(Ids)
        BY <2>2, <2>3, <2>6, Zenon DEF MadeWith
      <3>2. QED
        BY <2>4, <2>5, <3>1, MadeType
    <2>8. QED
      BY <2>3, <2>4, <2>7, ReplyStep, Zenon
  <1>5. ASSUME ReplyGarbled PROVE ChatInv'
    <2>1. /\ phase = "sent" /\ Told(translateResponse(via, <<>>, <<>>)) /\ made' = made
          /\ said' = Append(said, [who |-> "assistant", text |-> <<>>])
      BY <1>5, Zenon DEF ReplyGarbled
    <2>2. PICK none : none = <<>>
      BY Zenon
    <2>3. none \in Seq(Part) /\ none \in Seq(MadeCall) /\ \A i \in 1 .. Len(none) : none[i].via = via
      BY <2>2
    <2>4. made \o none = made
      BY <1>0, <2>2, ConcatEmptySeq, Zenon
    <2>5. extractText(none) = none
      BY <2>2, TextFlat, Zenon
    <2>6. /\ Told(translateResponse(via, none, none)) /\ made' = made \o none
          /\ said' = Append(said, [who |-> "assistant", text |-> extractText(none)])
      BY <2>1, <2>2, <2>4, <2>5, Zenon
    <2>7. QED
      BY <2>1, <2>3, <2>6, ReplyStep, Zenon
  <1>6. ASSUME NEW order \in Orders(Len(msgs[Len(msgs)].calls)), AnswerCalls(order) PROVE ChatInv'
    <2>1. PICK calls : calls = msgs[Len(msgs)].calls
      BY Zenon
    <2>2. PICK tools : tools = [i \in 1 .. Len(calls) |-> ToolMessage(calls[order[i]].id)]
      BY Zenon
    <2>3. PICK those : those = [i \in 1 .. Len(calls) |-> made[Len(made) - Len(calls) + order[i]]]
      BY Zenon
    <2>4. /\ phase = "told" /\ phase' = "ask"
          /\ msgs' = msgs \o tools /\ answered' = answered \o those
          /\ said' = said /\ made' = made
      BY <1>6, <2>1, <2>2, <2>3, Zenon DEF AnswerCalls
    <2>5. Answering(msgs, calls, made, order, tools, those)
      <3>1. /\ msgs # <<>> /\ Len(calls) <= Len(made)
            /\ \A i \in 1 .. Len(calls) :
                 calls[i].id = callID(made[Len(made) - Len(calls) + i].via,
                                      made[Len(made) - Len(calls) + i])
        BY <1>0, <2>1, <2>4, Zenon DEF LastCalls
      <3>2. order \in Orders(Len(calls))
        BY <2>1, Zenon
      <3>3. QED
        BY <2>1, <2>2, <2>3, <3>1, <3>2, Zenon DEF Answering
    <2>6. /\ tools \in Seq(Sendable) /\ those \in Seq(MadeCall)
          /\ Talk(tools) = <<>> /\ Flat(idIn, tools) = NamesOf(those)
      BY <1>0, <2>5, AnswersType
    <2>7. /\ msgs' \in Seq(Sendable)
          /\ Talk(msgs') = Talk(msgs) \o <<>>
          /\ Flat(idIn, msgs') = NamesOf(answered) \o NamesOf(those)
      BY <1>0, <2>4, <2>6, MessagesAdd, Zenon
    <2>8. Talk(msgs) \o <<>> = Talk(msgs)
      <3>1. Talk(msgs) \in Seq(Saying)
        BY <1>0, TalkFlat, FlatType
      <3>2. QED
        BY <3>1, ConcatEmptySeq, Zenon
    <2>9. NamesOf(answered \o those) = NamesOf(answered) \o NamesOf(those)
      BY <1>0, <2>6, NamesJoin, Zenon
    <2>10. answered \o those \in Seq(MadeCall)
      BY <1>0, <2>6, ConcatProperties, Zenon
    <2>11. phase' \in {"new", "ask", "sent", "told"} /\ phase' \notin {"new", "sent", "told"}
      BY <2>4
    <2>12. QED
      BY <1>0, <2>4, <2>7, <2>8, <2>9, <2>10, <2>11, Zenon DEF ChatInv
  <1>7. ASSUME NEW ms \in Openings, SayMore(ms[Len(ms)]) PROVE ChatInv'
    <2>1. PICK m : m = ms[Len(ms)]
      BY Zenon
    <2>2. /\ phase' = "ask" /\ msgs' = Append(msgs, m) /\ said' = said \o Talk(<<m>>)
          /\ made' = made /\ answered' = answered
      BY <1>7, <2>1, Zenon DEF SayMore
    <2>3. m \in Sendable /\ m.role # "tool"
      BY <2>1, OpeningType, Zenon
    <2>4. /\ msgs' \in Seq(Sendable)
          /\ Talk(msgs') = Talk(msgs) \o Talk(<<m>>)
          /\ Flat(idIn, msgs') = Flat(idIn, msgs)
      BY <1>0, <2>2, <2>3, MessageAdds, Zenon
    <2>5. phase' \in {"new", "ask", "sent", "told"} /\ phase' \notin {"new", "sent", "told"}
      BY <2>2
    <2>6. QED
      BY <1>0, <2>2, <2>4, <2>5, Zenon DEF ChatInv
  <1>8. ASSUME UNCHANGED chatVars PROVE ChatInv'
    BY <1>0, <1>8, Zenon DEF chatVars, ChatInv, LastCalls
  <1>9. QED
    BY <1>1, <1>2, <1>3, <1>4, <1>5, <1>6, <1>7, <1>8, Zenon DEF AdapterNext

\* What the invariant says of a request that was sent.
LEMMA ChatSays == ChatInv => SpeechKept /\ ResultsNameCalls
  <1> SUFFICES ASSUME ChatInv, phase = "sent"
               PROVE  SpeechKept /\ ResultsNameCalls
    BY Zenon DEF SpeechKept, ResultsNameCalls
  <1>1. /\ msgs \in Seq(Sendable) /\ said = Talk(msgs) /\ answered \in Seq(MadeCall)
        /\ via \in Types /\ wire = translateRequest(via, msgs)
        /\ Flat(idIn, msgs) = NamesOf(answered)
    BY Zenon DEF ChatInv
  <1>2. via \in {"openai", "anthropic", "gemini"}
    BY <1>1, AdapterAssumption, Zenon
  <1>3. Speech(wire.turns) = said /\ ResultNames(wire.turns) = NamesOf(answered)
    BY <1>1, <1>2, RequestSays, Zenon
  <1>4. Len(NamesOf(answered)) = Len(answered)
    BY <1>1, NamesJoin, Zenon
  <1>5. ASSUME NEW k \in 1 .. Len(answered), answered[k].via = via
        PROVE  NamesOf(answered)[k] = IF via = "gemini" THEN answered[k].name ELSE answered[k].id
    BY <1>5, Zenon DEF NamesOf, callID
  <1>6. QED
    BY <1>3, <1>4, <1>5, Zenon DEF SpeechKept, ResultsNameCalls

\* The invariant of a conversation.
LEMMA ChatInvariance == PathSpec => []ChatInv
  <1>1. PathInit => ChatInv
    BY ChatStart DEF PathInit
  <1>2. ChatInv /\ [PathNext]_pathVars => ChatInv'
    <2>1. [PathNext]_pathVars => [AdapterNext]_chatVars
      BY DEF PathNext, pathVars
    <2>2. QED
      BY <2>1, ChatStep
  <1>3. QED
    BY <1>1, <1>2, PTL DEF PathSpec

(* A provider is told what user and assistant said, word for word and in   *)
(* order, for conversations of any length through any adapters: what a     *)
(* turn says is what its message says, and translateRequest makes its      *)
(* turns in the order of the messages.                                     *)
THEOREM KeepsSpeech == PathSpec => []SpeechKept
  BY ChatInvariance, ChatSays, PTL

(* A tool result reaches a provider under the name by which that type of   *)
(* provider made the call, in whatever order the client answers.           *)
THEOREM NamesCalls == PathSpec => []ResultsNameCalls
  BY ChatInvariance, ChatSays, PTL
=============================================================================
