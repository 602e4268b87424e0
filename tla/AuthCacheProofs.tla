-------------------------- MODULE AuthCacheProofs --------------------------
(***************************************************************************)
(* Proofs about AuthCache, for any number of requests, admins and versions *)
(* of the key, and every life of a cache entry and duration of a lookup.   *)
(***************************************************************************)
EXTENDS AuthCache, FiniteSetTheorems, TLAPS

\* Version v was in the store at some time since t.
Since(v, t) == replaced[v] = 0 \/ replaced[v] >= t

\* Versions are numbered in the order of the writes, and the last one is the row.
VersionInv ==
  /\ \A v \in Versions : replaced[v] <= clock /\ (v > versions => replaced[v] = 0)
  /\ row # NoRow => row.ver <= versions /\ replaced[row.ver] = 0

\* What a lookup has read was in the store then, and that is not long ago.
LookupInv ==
  \A r \in Requests : pc[r] \in {"set", "index"} =>
    /\ key[r] \in KeyRow
    /\ readAt[r] <= clock /\ clock <= readAt[r] + MaxLag
    /\ Since(key[r].ver, readAt[r])

\* What the cache holds was in the store at most MaxLag before it was put there.
CacheInv ==
  cache # NoEntry => cache.at <= clock /\ Since(cache.key.ver, cache.at - MaxLag)

ServedInv ==
  /\ served.at <= clock
  /\ served.ver # 0 => Since(served.ver, served.at - MaxLag - TTL + 1)

CopyInv == \A a \in Admins : apc[a] = "write" => copy[a] \in KeyRow

\* Without a race, lookups under way have the row of the store; a cached key is
\* in the index unless somebody is about to put it there or to drop it from the
\* cache; and it is the row of the store unless an admin is about to drop it.
RaceInv ==
  ~ raced =>
    /\ \A r \in Requests : pc[r] \in {"set", "index"} => Current(key[r].ver)
    /\ cache # NoEntry =>
         /\ index \/ (\E r \in Requests : pc[r] = "index") \/ \E a \in Admins : apc[a] = "invalidate"
         /\ \/ Current(cache.key.ver)
            \/ \E a \in Admins : apc[a] = "invalidate" \/ (index /\ apc[a] = "load")

IInv == TypeOK /\ VersionInv /\ LookupInv /\ CacheInv /\ ServedInv /\ CopyInv /\ RaceInv
-----------------------------------------------------------------------------
(* Rows and entries. *)

\* A row has a version; no row has none.
LEMMA RowType ==
  /\ \A k \in KeyRow : k.ver \in Versions /\ k.ver \in Nat \ {0} /\ k # NoRow
  /\ NoRow.ver = 0
  BY AuthAssumption DEF KeyRow, NoRow, Versions

\* What an entry consists of.
LEMMA EntryType ==
  /\ \A e \in Entry : e.key \in KeyRow /\ e.at \in Nat
  /\ \A k \in KeyRow, n \in Nat : LET e == [key |-> k, at |-> n]
                                  IN  e \in Entry /\ e.key = k /\ e.at = n /\ e # NoEntry
  <1>1. \A e \in Entry : e.key \in KeyRow /\ e.at \in Nat
    BY DEF Entry
  <1>2. ASSUME NEW k \in KeyRow, NEW n \in Nat
        PROVE  LET e == [key |-> k, at |-> n]
               IN  e \in Entry /\ e.key = k /\ e.at = n /\ e # NoEntry
    BY <1>2 DEF Entry, NoEntry
  <1>3. QED
    BY <1>1, <1>2
-----------------------------------------------------------------------------
(* Time and requests. *)

\* Time passes only as long as no lookup takes longer than MaxLag.
LEMMA TickInv == ASSUME IInv, Tick PROVE IInv'
  <1> USE DEF IInv
  <1>1. /\ clock \in Nat /\ clock' = clock + 1
        /\ \A r \in Requests : pc[r] \in {"set", "index"} => clock - readAt[r] < MaxLag
        /\ UNCHANGED <<row, versions, replaced, cache, index, pc, key, readAt, apc, copy, served, raced>>
    BY DEF Tick, reqVars, adminVars, histVars, TypeOK
  <1>2. TypeOK' /\ CopyInv' /\ RaceInv'
    BY <1>1 DEF TypeOK, CopyInv, RaceInv, Current
  <1>3. VersionInv'
    BY <1>1 DEF TypeOK, VersionInv
  <1>4. LookupInv'
    BY <1>1, AuthAssumption DEF TypeOK, LookupInv, Since
  <1>5. CacheInv'
    BY <1>1, EntryType DEF TypeOK, CacheInv, Since
  <1>6. ServedInv'
    BY <1>1 DEF TypeOK, ServedInv, Since
  <1>7. QED
    BY <1>2, <1>3, <1>4, <1>5, <1>6

\* Admission with a row that was in the store less than TTL + MaxLag ago.
LEMMA AdmitInv ==
  ASSUME IInv, NEW k \in KeyRow, Since(k.ver, clock - MaxLag - TTL + 1), Admit(k),
         UNCHANGED <<clock, replaced>>
  PROVE  ServedInv' /\ served' \in [ver : Versions \cup {0}, at : Nat]
  <1>1. served' = [ver |-> k.ver, at |-> clock] /\ k.ver \in Versions /\ clock \in Nat
    BY RowType DEF Admit, IInv, TypeOK
  <1>2. served'.ver = k.ver /\ served'.at = clock
    BY <1>1
  <1>3. served' \in [ver : Versions \cup {0}, at : Nat]
    BY <1>1
  <1>4. QED
    BY <1>1, <1>2, <1>3 DEF ServedInv, Since

\* A hit is at most TTL after the entry was put.
LEMMA CacheHitInv == ASSUME IInv, NEW r \in Requests, CacheHit(r) PROVE IInv'
  <1> USE DEF IInv
  <1>1. /\ UNCHANGED <<clock, row, versions, replaced, index, pc, key, readAt, apc, copy, raced>>
        /\ cache' \in {cache, NoEntry} /\ Fresh(cache)
        /\ served' = served \/ Admit(cache.key)
    BY DEF CacheHit, reqVars, adminVars
  <1>2. cache # NoEntry /\ cache \in Entry /\ clock - cache.at < TTL
    BY <1>1 DEF Fresh, TypeOK
  <1>3. cache.key \in KeyRow /\ cache.at \in Nat
    BY <1>2, EntryType
  <1>4. ServedInv' /\ served' \in [ver : Versions \cup {0}, at : Nat]
    <2>1. CASE served' = served
      BY <1>1, <2>1 DEF ServedInv, Since, TypeOK
    <2>2. CASE Admit(cache.key)
      <3>1. cache.key.ver \in Versions /\ replaced[cache.key.ver] \in Nat
        BY <1>3, RowType DEF TypeOK
      <3>2. Since(cache.key.ver, cache.at - MaxLag)
        BY <1>2 DEF CacheInv
      <3>3. Since(cache.key.ver, clock - MaxLag - TTL + 1)
        BY <1>2, <1>3, <3>1, <3>2, AuthAssumption DEF Since, TypeOK
      <3>4. QED
        BY <1>1, <1>3, <2>2, <3>3, AdmitInv
    <2>3. QED
      BY <1>1, <2>1, <2>2
  <1>5. TypeOK' /\ CopyInv'
    BY <1>1, <1>4 DEF TypeOK, CopyInv
  <1>6. VersionInv' /\ LookupInv' /\ CacheInv'
    BY <1>1 DEF VersionInv, LookupInv, CacheInv, Since
  <1>7. RaceInv'
    BY <1>1 DEF RaceInv, Current
  <1>8. QED
    BY <1>4, <1>5, <1>6, <1>7

\* A miss; the cache makes room.
LEMMA CacheMissInv ==
  ASSUME IInv, (\E r \in Requests : CacheMiss(r)) \/ CacheEvict
  PROVE  IInv'
  <1> USE DEF IInv
  <1>1. ASSUME NEW r \in Requests, CacheMiss(r) PROVE IInv'
    <2>1. /\ pc[r] = "idle" /\ pc' = [pc EXCEPT ![r] = "read"]
          /\ UNCHANGED <<clock, row, versions, replaced, cache, index, key, readAt, apc, copy, served, raced>>
      BY <1>1 DEF CacheMiss, adminVars, histVars
    <2>2. /\ \A q \in Requests : pc'[q] \in {"set", "index"} => pc'[q] = pc[q]
          /\ \A q \in Requests : pc[q] = "index" => pc'[q] = "index"
          /\ pc' \in [Requests -> {"idle", "read", "set", "index"}]
      BY <2>1 DEF TypeOK
    <2>3. TypeOK' /\ CopyInv' /\ VersionInv'
      BY <2>1, <2>2 DEF TypeOK, CopyInv, VersionInv
    <2>4. LookupInv' /\ CacheInv' /\ ServedInv'
      BY <2>1, <2>2 DEF LookupInv, CacheInv, ServedInv, Since
    <2>5. RaceInv'
      BY <2>1, <2>2 DEF RaceInv, Current
    <2>6. QED
      BY <2>3, <2>4, <2>5
  <1>2. CASE CacheEvict
    <2>1. /\ cache' = NoEntry
          /\ UNCHANGED <<clock, row, versions, replaced, index, pc, key, readAt, apc, copy, served, raced>>
      BY <1>2 DEF CacheEvict, reqVars, adminVars, histVars
    <2>2. QED
      BY <2>1 DEF TypeOK, CopyInv, VersionInv, LookupInv, CacheInv, ServedInv, Since, RaceInv, Current
  <1>3. QED
    BY <1>1, <1>2

\* A lookup reads the row of the moment, or ends.
LEMMA GetKeyByHashInv ==
  ASSUME IInv, NEW r \in Requests, NEW up \in BOOLEAN, GetKeyByHash(r, up)
  PROVE  IInv'
  <1> USE DEF IInv
  <1>1. UNCHANGED <<clock, row, versions, replaced, cache, index, apc, copy, served, raced>>
    BY DEF GetKeyByHash, adminVars, histVars
  <1>2. \/ /\ row # NoRow /\ pc' = [pc EXCEPT ![r] = "set"]
           /\ key' = [key EXCEPT ![r] = row] /\ readAt' = [readAt EXCEPT ![r] = clock]
        \/ /\ pc' = [pc EXCEPT ![r] = "idle"]
           /\ key' = [key EXCEPT ![r] = NoRow] /\ readAt' = [readAt EXCEPT ![r] = 0]
    BY Zenon DEF GetKeyByHash
  <1>3. /\ \A q \in Requests \ {r} : pc'[q] = pc[q] /\ key'[q] = key[q] /\ readAt'[q] = readAt[q]
        /\ \/ pc'[r] = "set" /\ row \in KeyRow /\ key'[r] = row /\ readAt'[r] = clock
           \/ pc'[r] = "idle"
    BY <1>2 DEF TypeOK
  <1>4. TypeOK' /\ CopyInv' /\ VersionInv'
    <2>1. /\ pc' \in [Requests -> {"idle", "read", "set", "index"}]
          /\ key' \in [Requests -> KeyRow \cup {NoRow}] /\ readAt' \in [Requests -> Nat]
      BY <1>2 DEF TypeOK
    <2>2. QED
      BY <1>1, <2>1 DEF TypeOK, CopyInv, VersionInv
  <1>5. CacheInv' /\ ServedInv'
    BY <1>1 DEF CacheInv, ServedInv, Since
  <1>6. LookupInv'
    <2>1. ASSUME NEW q \in Requests, pc'[q] \in {"set", "index"}, q # r
          PROVE  /\ key'[q] \in KeyRow /\ readAt'[q] <= clock' /\ clock' <= readAt'[q] + MaxLag
                 /\ Since(key[q].ver, readAt[q])'
      BY <1>1, <1>3, <2>1 DEF LookupInv, Since
    <2>2. ASSUME pc'[r] \in {"set", "index"}
          PROVE  /\ key'[r] \in KeyRow /\ readAt'[r] <= clock' /\ clock' <= readAt'[r] + MaxLag
                 /\ Since(key[r].ver, readAt[r])'
      <3>1. row \in KeyRow /\ key'[r] = row /\ readAt'[r] = clock /\ clock \in Nat /\ clock' = clock
        BY <1>1, <1>3, <2>2 DEF TypeOK
      <3>2. replaced'[row.ver] = 0
        BY <1>1, <3>1, RowType DEF VersionInv
      <3>3. QED
        BY <3>1, <3>2, AuthAssumption DEF Since
    <2>3. QED
      BY <2>1, <2>2 DEF LookupInv, Since
  <1>7. RaceInv'
    <2>1. ASSUME ~ raced, NEW q \in Requests, pc'[q] \in {"set", "index"}
          PROVE  Current(key[q].ver)'
      <3>1. CASE q = r
        BY <1>1, <1>3, <2>1, <3>1, RowType DEF Current
      <3>2. CASE q # r
        BY <1>1, <1>3, <2>1, <3>2 DEF RaceInv, Current
      <3>3. QED
        BY <3>1, <3>2
    <2>2. \A q \in Requests : pc[q] = "index" => pc'[q] = "index"
      BY <1>3 DEF GetKeyByHash
    <2>3. QED
      BY <1>1, <2>1, <2>2 DEF RaceInv, Current
  <1>8. QED
    BY <1>4, <1>5, <1>6, <1>7

\* A lookup puts into the cache what it has read at most MaxLag ago.
LEMMA CacheSetInv == ASSUME IInv, NEW r \in Requests, CacheSet(r) PROVE IInv'
  <1> USE DEF IInv
  <1>1. /\ pc[r] = "set" /\ pc' = [pc EXCEPT ![r] = "index"] /\ cache' = [key |-> key[r], at |-> clock]
        /\ UNCHANGED <<clock, row, versions, replaced, index, key, readAt, apc, copy, served, raced>>
    BY DEF CacheSet, adminVars, histVars
  <1>2. /\ key[r] \in KeyRow /\ clock \in Nat /\ readAt[r] \in Nat
        /\ readAt[r] <= clock /\ clock <= readAt[r] + MaxLag /\ Since(key[r].ver, readAt[r])
    BY <1>1 DEF LookupInv, TypeOK
  <1>3. cache' \in Entry /\ cache'.key = key[r] /\ cache'.at = clock
    BY <1>1, <1>2, EntryType
  <1>4. /\ pc' \in [Requests -> {"idle", "read", "set", "index"}] /\ pc'[r] = "index"
        /\ \A q \in Requests : pc'[q] \in {"set", "index"} => pc[q] \in {"set", "index"}
    BY <1>1 DEF TypeOK
  <1>5. TypeOK' /\ CopyInv' /\ VersionInv'
    BY <1>1, <1>3, <1>4 DEF TypeOK, CopyInv, VersionInv
  <1>6. LookupInv' /\ ServedInv'
    BY <1>1, <1>4 DEF LookupInv, ServedInv, Since
  <1>7. CacheInv'
    <2>1. key[r].ver \in Versions /\ replaced[key[r].ver] \in Nat
      BY <1>2, RowType DEF TypeOK
    <2>2. QED
      BY <1>1, <1>2, <1>3, <2>1, AuthAssumption DEF CacheInv, Since
  <1>8. RaceInv'
    BY <1>1, <1>3, <1>4 DEF RaceInv, Current
  <1>9. QED
    BY <1>5, <1>6, <1>7, <1>8

\* A lookup ends with an entry of the index and an admission.
LEMMA IndexStoreInv == ASSUME IInv, NEW r \in Requests, IndexStore(r) PROVE IInv'
  <1> USE DEF IInv
  <1>1. /\ pc[r] = "index" /\ pc' = [pc EXCEPT ![r] = "idle"] /\ index' = TRUE /\ Admit(key[r])
        /\ key' = [key EXCEPT ![r] = NoRow] /\ readAt' = [readAt EXCEPT ![r] = 0]
        /\ UNCHANGED <<clock, row, versions, replaced, cache, apc, copy, raced>>
    BY DEF IndexStore, adminVars
  <1>2. /\ key[r] \in KeyRow /\ clock \in Nat /\ readAt[r] \in Nat
        /\ clock <= readAt[r] + MaxLag /\ Since(key[r].ver, readAt[r])
    BY <1>1 DEF LookupInv, TypeOK
  <1>3. ServedInv' /\ served' \in [ver : Versions \cup {0}, at : Nat]
    <2>1. key[r].ver \in Versions /\ replaced[key[r].ver] \in Nat
      BY <1>2, RowType DEF TypeOK
    <2>2. Since(key[r].ver, clock - MaxLag - TTL + 1)
      BY <1>2, <2>1, AuthAssumption DEF Since
    <2>3. QED
      BY <1>1, <1>2, <2>2, AdmitInv
  <1>4. \A q \in Requests : pc'[q] \in {"set", "index"}
          => q # r /\ pc'[q] = pc[q] /\ key'[q] = key[q] /\ readAt'[q] = readAt[q]
    BY <1>1 DEF TypeOK
  <1>5. TypeOK' /\ CopyInv' /\ VersionInv'
    <2>1. /\ pc' \in [Requests -> {"idle", "read", "set", "index"}]
          /\ key' \in [Requests -> KeyRow \cup {NoRow}] /\ readAt' \in [Requests -> Nat]
      BY <1>1 DEF TypeOK
    <2>2. QED
      BY <1>1, <1>3, <2>1 DEF TypeOK, CopyInv, VersionInv
  <1>6. LookupInv'
    BY <1>1, <1>4 DEF LookupInv, Since
  <1>7. CacheInv'
    BY <1>1 DEF CacheInv, Since
  <1>8. RaceInv'
    BY <1>1, <1>4 DEF RaceInv, Current
  <1>9. QED
    BY <1>3, <1>5, <1>6, <1>7, <1>8
-----------------------------------------------------------------------------
(* Admins. *)

\* The row is written: the old version is replaced now, after everything that
\* was read, cached or served; and whoever wrote is about to invalidate.
LEMMA WrittenInv ==
  ASSUME IInv, NEW a \in Admins, apc[a] = "write", row # NoRow, RowWritten,
         apc' = [apc EXCEPT ![a] = "load"], copy' = [copy EXCEPT ![a] = NoRow],
         UNCHANGED <<clock, cache, index, pc, key, readAt, served>>,
         \/ row' = NoRow /\ versions' = versions
         \/ /\ versions < MaxVersions /\ versions' = versions + 1
            /\ row' \in KeyRow /\ row'.ver = versions + 1
  PROVE  IInv'
  <1> USE DEF IInv
  <1>1. /\ row \in KeyRow /\ row.ver \in Versions /\ clock \in Nat /\ versions \in Versions
        /\ versions \in Nat /\ versions' \in Versions
    BY RowType, AuthAssumption DEF TypeOK, Versions
  <1>2. /\ replaced' \in [Versions -> Nat]
        /\ \A v \in Versions : replaced'[v] = IF v = row.ver THEN clock ELSE replaced[v]
    BY <1>1 DEF RowWritten, TypeOK
  <1>3. \A v \in Versions, t \in Int : Since(v, t) /\ t <= clock => Since(v, t)'
    BY <1>2 DEF Since
  <1>4. \A b \in Admins : apc'[b] = "write" => copy'[b] = copy[b] /\ apc[b] = "write"
    BY DEF TypeOK
  <1>5. TypeOK' /\ CopyInv'
    <2>1. raced' \in BOOLEAN /\ row' \in KeyRow \cup {NoRow}
      BY DEF RowWritten, TypeOK
    <2>2. /\ apc' \in [Admins -> {"idle", "write", "load", "invalidate"}]
          /\ copy' \in [Admins -> KeyRow \cup {NoRow}]
      BY DEF TypeOK
    <2>3. QED
      BY <1>1, <1>2, <1>4, <2>1, <2>2 DEF TypeOK, CopyInv
  <1>6. VersionInv'
    <2>1. \A v \in Versions : v \in Nat
      BY DEF Versions
    <2>2. row.ver <= versions
      BY DEF VersionInv
    <2>3. \A v \in Versions : replaced'[v] <= clock
      BY <1>1, <1>2 DEF VersionInv
    <2>4. \A v \in Versions : v > versions => replaced'[v] = 0
      BY <1>1, <1>2, <2>1, <2>2 DEF VersionInv
    <2>5. CASE row' = NoRow /\ versions' = versions
      BY <2>3, <2>4, <2>5 DEF VersionInv
    <2>6. CASE versions' = versions + 1 /\ row' \in KeyRow /\ row'.ver = versions + 1
      BY <1>1, <2>1, <2>3, <2>4, <2>6 DEF VersionInv
    <2>7. QED
      BY <2>5, <2>6
  <1>7. LookupInv'
    <2>1. ASSUME NEW r \in Requests, pc[r] \in {"set", "index"}
          PROVE  Since(key[r].ver, readAt[r])'
      <3>1. /\ key[r] \in KeyRow /\ key[r].ver \in Versions /\ readAt[r] \in Int
            /\ readAt[r] <= clock /\ Since(key[r].ver, readAt[r])
        BY <2>1, RowType DEF LookupInv, TypeOK
      <3>2. Since(key[r].ver, readAt[r])'
        BY <1>3, <3>1 DEF Since
      <3>3. QED
        BY <3>2
    <2>2. QED
      BY <2>1 DEF LookupInv, Since
  <1>8. CacheInv'
    <2>1. SUFFICES ASSUME cache # NoEntry PROVE Since(cache.key.ver, cache.at - MaxLag)'
      BY DEF CacheInv, Since
    <2>2. /\ cache.key.ver \in Versions /\ cache.at - MaxLag \in Int /\ cache.at - MaxLag <= clock
          /\ Since(cache.key.ver, cache.at - MaxLag)
      BY <1>1, <2>1, EntryType, RowType, AuthAssumption DEF CacheInv, TypeOK
    <2>3. QED
      BY <1>3, <2>2 DEF Since
  <1>9. ServedInv'
    <2>1. served.at \in Nat /\ served.ver \in Versions \cup {0}
      BY DEF TypeOK
    <2>2. SUFFICES ASSUME served.ver # 0 PROVE Since(served.ver, served.at - MaxLag - TTL + 1)'
      BY DEF ServedInv, Since
    <2>3. /\ served.ver \in Versions /\ served.at - MaxLag - TTL + 1 \in Int
          /\ served.at - MaxLag - TTL + 1 <= clock
          /\ Since(served.ver, served.at - MaxLag - TTL + 1)
      BY <1>1, <2>1, <2>2, AuthAssumption DEF ServedInv
    <2>4. QED
      BY <1>3, <2>3 DEF Since
  <1>10. RaceInv'
    <2>1. SUFFICES ASSUME ~ raced' PROVE RaceInv'
      BY DEF RaceInv
    <2>2. ~ raced /\ \A r \in Requests : pc[r] \notin {"set", "index"}
      BY <2>1, Zenon DEF RowWritten, TypeOK
    <2>3. apc'[a] = "load" /\ \A b \in Admins : apc[b] = "invalidate" => b = a \/ apc'[b] = "invalidate"
      BY DEF TypeOK
    <2>4. QED
      BY <2>2, <2>3 DEF RaceInv, Current
  <1>11. QED
    BY <1>5, <1>6, <1>7, <1>8, <1>9, <1>10

\* UpdateKey writes a row of the next version, which differs from the one that
\* the admin has read in one field.
LEMMA UpdatedRow ==
  ASSUME IInv, NEW a \in Admins, NEW f \in Fields, NEW v \in Values(f), UpdateKey(a, f, v)
  PROVE  /\ row' \in KeyRow /\ row'.ver = versions + 1
         /\ \A g \in Fields \ {f} : row'[g] = copy[a][g]
  <1>1. /\ apc[a] = "write" /\ versions < MaxVersions
        /\ row' = [copy[a] EXCEPT ![f] = v, !.ver = versions + 1]
    BY Zenon DEF UpdateKey
  <1>2. versions \in Versions /\ copy[a] \in KeyRow
    BY <1>1, Zenon DEF IInv, TypeOK, CopyInv
  <1>3. versions + 1 \in Versions
    <2>1. versions < MaxVersions
      BY <1>1, Zenon
    <2>2. QED
      BY <1>2, <2>1, AuthAssumption DEF Versions
  <1>4. CASE f = "blocked"
    BY <1>1, <1>2, <1>3, <1>4, Zenon DEF Values, Fields, KeyRow
  <1>5. CASE f = "limit"
    BY <1>1, <1>2, <1>3, <1>5, Zenon DEF Values, Fields, KeyRow
  <1>6. CASE f = "expires"
    BY <1>1, <1>2, <1>3, <1>6, Zenon DEF Values, Fields, KeyRow
  <1>7. QED
    BY <1>4, <1>5, <1>6 DEF Fields

\* UpdateKey writes a new version of the row, DeleteKey none.
LEMMA WriteInv ==
  ASSUME IInv, NEW a \in Admins,
         (\E f \in Fields : \E v \in Values(f) : UpdateKey(a, f, v)) \/ DeleteKey(a)
  PROVE  IInv'
  <1>1. ASSUME NEW f \in Fields, NEW v \in Values(f), UpdateKey(a, f, v) PROVE IInv'
    <2>1. row' \in KeyRow /\ row'.ver = versions + 1
      BY <1>1, UpdatedRow
    <2>2. QED
      BY <1>1, <2>1, WrittenInv, Zenon DEF UpdateKey, reqVars
  <1>2. CASE DeleteKey(a)
    BY <1>2, WrittenInv, Zenon DEF DeleteKey, reqVars
  <1>3. QED
    BY <1>1, <1>2

\* An admin reads the row, or gives up.
LEMMA GetKeyInv == ASSUME IInv, NEW a \in Admins, GetKey(a) \/ WriteFails(a) PROVE IInv'
  <1> USE DEF IInv
  <1>1. /\ UNCHANGED <<clock, row, versions, replaced, cache, index, pc, key, readAt, served, raced>>
        /\ apc[a] \in {"idle", "write"}
        /\ \/ row # NoRow /\ apc' = [apc EXCEPT ![a] = "write"] /\ copy' = [copy EXCEPT ![a] = row]
           \/ apc' = [apc EXCEPT ![a] = "idle"] /\ copy' = [copy EXCEPT ![a] = NoRow]
    BY DEF GetKey, WriteFails, reqVars, histVars
  <1>2. /\ apc' \in [Admins -> {"idle", "write", "load", "invalidate"}]
        /\ copy' \in [Admins -> KeyRow \cup {NoRow}]
        /\ \A b \in Admins : apc[b] \in {"load", "invalidate"} => apc'[b] = apc[b]
        /\ \A b \in Admins \ {a} : apc'[b] = apc[b] /\ copy'[b] = copy[b]
        /\ apc'[a] = "write" => copy'[a] \in KeyRow
    BY <1>1 DEF TypeOK
  <1>3. TypeOK' /\ CopyInv' /\ VersionInv'
    BY <1>1, <1>2 DEF TypeOK, CopyInv, VersionInv
  <1>4. LookupInv' /\ CacheInv' /\ ServedInv'
    BY <1>1, Zenon DEF LookupInv, CacheInv, ServedInv, Since
  <1>5. RaceInv'
    BY <1>1, <1>2 DEF RaceInv, Current
  <1>6. QED
    BY <1>3, <1>4, <1>5

\* The two steps of an invalidation.
LEMMA InvalidateInv == ASSUME IInv, NEW a \in Admins, LoadAndDelete(a) \/ Invalidate(a) PROVE IInv'
  <1> USE DEF IInv
  <1>1. UNCHANGED <<clock, row, versions, replaced, pc, key, readAt, copy, served, raced>>
    BY DEF LoadAndDelete, Invalidate, reqVars, histVars
  <1>2. CASE LoadAndDelete(a)
    <2>1. /\ apc[a] = "load" /\ apc' = [apc EXCEPT ![a] = IF index THEN "invalidate" ELSE "idle"]
          /\ index' = FALSE /\ cache' = cache
      BY <1>2 DEF LoadAndDelete
    <2>2. /\ apc' \in [Admins -> {"idle", "write", "load", "invalidate"}]
          /\ \A b \in Admins : apc'[b] = "write" => apc[b] = "write"
          /\ \A b \in Admins : apc[b] = "invalidate" => apc'[b] = "invalidate"
          /\ index => apc'[a] = "invalidate"
      BY <2>1 DEF TypeOK
    <2>3. TypeOK' /\ CopyInv' /\ VersionInv'
      BY <1>1, <2>1, <2>2, Zenon DEF TypeOK, CopyInv, VersionInv
    <2>4. LookupInv' /\ CacheInv' /\ ServedInv'
      BY <1>1, <2>1, Zenon DEF LookupInv, CacheInv, ServedInv, Since
    <2>5. RaceInv'
      BY <1>1, <2>1, <2>2, Zenon DEF RaceInv, Current
    <2>6. QED
      BY <2>3, <2>4, <2>5
  <1>3. CASE Invalidate(a)
    <2>1. apc' = [apc EXCEPT ![a] = "idle"] /\ cache' = NoEntry /\ index' = index
      BY <1>3 DEF Invalidate
    <2>2. /\ apc' \in [Admins -> {"idle", "write", "load", "invalidate"}]
          /\ \A b \in Admins : apc'[b] = "write" => apc[b] = "write"
      BY <2>1 DEF TypeOK
    <2>3. TypeOK' /\ CopyInv' /\ VersionInv'
      BY <1>1, <2>1, <2>2 DEF TypeOK, CopyInv, VersionInv
    <2>4. LookupInv' /\ CacheInv' /\ ServedInv'
      BY <1>1, <2>1 DEF LookupInv, CacheInv, ServedInv, Since
    <2>5. RaceInv'
      BY <1>1, <2>1, Zenon DEF RaceInv, Current
    <2>6. QED
      BY <2>3, <2>4, <2>5
  <1>4. QED
    BY <1>2, <1>3
-----------------------------------------------------------------------------
(* The theorems. *)

\* The invariant holds at first.
LEMMA InitInv == Init => IInv
  <1> SUFFICES ASSUME Init PROVE IInv
    OBVIOUS
  <1>1. row \in KeyRow /\ row.ver = 1
    <2>1. row \in [ver : {1}, blocked : {FALSE}, limit : Limits, expires : Expiries]
      BY Zenon DEF Init
    <2>2. 1 \in Versions
      BY AuthAssumption DEF Versions
    <2>3. QED
      BY <2>1, <2>2, Zenon DEF KeyRow
  <1>2. served = [ver |-> 0, at |-> 0] /\ served \in [ver : Versions \cup {0}, at : Nat] /\ 1 \in Versions
    BY AuthAssumption DEF Init, Versions
  <1>3. TypeOK
    BY <1>1, <1>2, Zenon DEF Init, TypeOK
  <1>4. VersionInv
    BY <1>1, <1>2 DEF Init, VersionInv
  <1>5. LookupInv /\ CacheInv /\ CopyInv /\ RaceInv
    BY DEF Init, LookupInv, CacheInv, CopyInv, RaceInv
  <1>6. ServedInv
    BY <1>2 DEF Init, ServedInv
  <1>7. QED
    BY <1>3, <1>4, <1>5, <1>6 DEF IInv

\* Every step keeps it.
LEMMA StepInv == IInv /\ [Next]_vars => IInv'
  <1> SUFFICES ASSUME IInv, [Next]_vars PROVE IInv'
    OBVIOUS
  <1>1. CASE Tick
    BY <1>1, TickInv
  <1>2. ASSUME NEW r \in Requests, RequestStep(r) PROVE IInv'
    BY <1>2, CacheHitInv, CacheMissInv, GetKeyByHashInv, CacheSetInv, IndexStoreInv DEF RequestStep
  <1>3. ASSUME NEW a \in Admins, AdminStep(a) PROVE IInv'
    BY <1>3, GetKeyInv, WriteInv, InvalidateInv DEF AdminStep
  <1>4. CASE CacheEvict
    BY <1>4, CacheMissInv
  <1>5. CASE UNCHANGED vars
    <2>1. UNCHANGED <<clock, row, versions, replaced, cache, index, pc, key, readAt, apc, copy, served, raced>>
      BY <1>5 DEF vars, reqVars, adminVars, histVars
    <2>2. QED
      BY <2>1, Zenon DEF IInv, TypeOK, CopyInv, VersionInv, LookupInv, CacheInv, ServedInv, Since, RaceInv, Current
  <1>6. QED
    BY <1>1, <1>2, <1>3, <1>4, <1>5 DEF Next

\* IInv is an invariant.
THEOREM Invariance == Spec => []IInv
  BY InitInv, StepInv, PTL DEF Spec

\* A key that was blocked, changed or deleted is admitted in its old form for
\* less than TTL + MaxLag after that.
THEOREM StalenessBound == Spec => []BoundedStaleness
  <1>1. IInv => BoundedStaleness
    <2> SUFFICES ASSUME IInv, served.ver # 0, replaced[served.ver] # 0
                 PROVE  served.at - replaced[served.ver] < TTL + MaxLag
      BY DEF BoundedStaleness
    <2>1. served.ver \in Versions /\ served.at \in Nat
      BY DEF IInv, TypeOK
    <2>2. replaced[served.ver] \in Nat
      BY <2>1 DEF IInv, TypeOK
    <2>3. replaced[served.ver] >= served.at - MaxLag - TTL + 1
      BY DEF IInv, ServedInv, Since
    <2>4. QED
      BY <2>1, <2>2, <2>3, AuthAssumption
  <1>2. QED
    BY <1>1, Invariance, PTL

\* InvalidateByKeyID misses only lookups that were under way during a write.
THEOREM InvalidationMissesOnlyRaces == Spec => []StaleOnlyByRace
  <1>1. IInv => StaleOnlyByRace
    BY DEF IInv, RaceInv, StaleOnlyByRace
  <1>2. QED
    BY <1>1, Invariance, PTL

\* An update loses a field only to another update since it read the row.
THEOREM UpdatesLoseOnlyByRace == Spec => FieldsLostOnlyByRace
  <1> DEFINE Changed == {g \in Fields : row'[g] # row[g]}
  <1>1. ASSUME IInv, [Next]_vars, row # NoRow, row' # NoRow, row' # row,
               ~ \E a \in Admins : apc[a] = "write" /\ apc'[a] = "load" /\ copy[a] # row
        PROVE  Cardinality(Changed) <= 1
    <2>1. \E a \in Admins : \E f \in Fields : \E v \in Values(f) : UpdateKey(a, f, v)
      <3>1. ~ Tick /\ ~ CacheEvict /\ ~ UNCHANGED vars
        BY <1>1 DEF Tick, CacheEvict, vars
      <3>2. ASSUME NEW r \in Requests, RequestStep(r) PROVE FALSE
        BY <1>1, <3>2, Zenon DEF RequestStep, CacheHit, CacheMiss, GetKeyByHash, CacheSet, IndexStore
      <3>3. ASSUME NEW a \in Admins, AdminStep(a)
            PROVE  \E f \in Fields : \E v \in Values(f) : UpdateKey(a, f, v)
        BY <1>1, <3>3 DEF AdminStep, GetKey, WriteFails, DeleteKey, LoadAndDelete, Invalidate
      <3>4. QED
        BY <1>1, <3>1, <3>2, <3>3 DEF Next
    <2>2. PICK a \in Admins, f \in Fields : \E v \in Values(f) : UpdateKey(a, f, v)
      BY <2>1
    <2>3. PICK v \in Values(f) : UpdateKey(a, f, v)
      BY <2>2
    <2>4. \A g \in Fields \ {f} : row'[g] = copy[a][g]
      BY <1>1, <2>3, UpdatedRow, Zenon
    <2>5. \A g \in Fields \ {f} : row'[g] = row[g]
      <3>1. apc[a] = "write" /\ apc' = [apc EXCEPT ![a] = "load"]
        BY <2>3, Zenon DEF UpdateKey
      <3>2. copy[a] = row
        BY <1>1, <3>1 DEF IInv, TypeOK
      <3>3. QED
        BY <2>4, <3>2, Zenon
    <2>6. Changed \in SUBSET {f}
      BY <2>5
    <2>7. IsFiniteSet({f}) /\ Cardinality({f}) = 1
      BY FS_Singleton, Zenon
    <2>8. Cardinality(Changed) <= Cardinality({f})
      BY <2>6, <2>7, FS_Subset
    <2>9. QED
      BY <2>7, <2>8
  <1>2. IInv /\ [Next]_vars => [row # NoRow /\ row' # NoRow /\ row' # row
          => \/ Cardinality({f \in Fields : row'[f] # row[f]}) <= 1
             \/ \E a \in Admins : apc[a] = "write" /\ apc'[a] = "load" /\ copy[a] # row]_vars
    BY <1>1
  <1>3. QED
    BY <1>2, Invariance, PTL DEF Spec, FieldsLostOnlyByRace
=============================================================================
