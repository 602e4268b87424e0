----------------------------- MODULE AuthCache -----------------------------
(***************************************************************************)
(* Authentication of one API key: Authenticate and InvalidateByKeyID of    *)
(* internal/auth/apikey.go with the cache of keys and the index from key   *)
(* ID to hash, and the admin handlers that change or delete the key in the *)
(* store (handleUpdateKey and handleDeleteKey of internal/server/admin.go) *)
(* while requests authenticate with it.                                    *)
(*                                                                         *)
(* Every write to the row gets a number, so that the row a request was     *)
(* admitted with can be told from the row of the moment.                   *)
(***************************************************************************)
EXTENDS Integers, FiniteSets

CONSTANTS
  Requests,     \* goroutines that authenticate with the key
  Admins,       \* goroutines that change the key
  Limits,       \* values of a limit of the key
  Expiries,     \* values of expires_at
  TTL,          \* life of a cache entry (30 seconds)
  MaxLag,       \* assumed: longest time from reading the row to admission
  MaxTime,      \* bound: length of a behaviour
  MaxVersions   \* bound: versions of the row

ASSUME AuthAssumption ==
  /\ Expiries \subseteq Nat
  /\ TTL \in Nat \ {0} /\ MaxLag \in Nat /\ MaxTime \in Nat
  /\ MaxVersions \in Nat \ {0}

Versions == 1 .. MaxVersions
Fields   == {"blocked", "limit", "expires"}

KeyRow == [ver : Versions, blocked : BOOLEAN, limit : Limits, expires : Expiries]
NoRow  == [ver |-> 0]
Entry  == [key : KeyRow, at : Nat]
NoEntry == [at |-> -1]

VARIABLES
  clock,     \* now, in seconds
  row,       \* the key in the store, or NoRow
  versions,  \* history: versions of the row so far
  replaced,  \* history: version -> when it was overwritten or deleted
  cache,     \* APIKeyAuth.cache of the hash
  index,     \* APIKeyAuth.keyIDToHash holds the key
  pc,        \* request -> step it is about to take
  key,       \* request -> row it has read
  readAt,    \* request -> when
  apc,       \* admin -> step it is about to take
  copy,      \* admin -> row it has read
  served,    \* history: last admission: version and time
  raced      \* history: the row was written under an unfinished miss

reqVars   == <<pc, key, readAt>>
adminVars == <<apc, copy>>
histVars  == <<versions, replaced, served, raced>>
vars      == <<clock, row, cache, index, reqVars, adminVars, histVars>>

TypeOK ==
  /\ clock \in Nat
  /\ row \in KeyRow \cup {NoRow}
  /\ versions \in Versions
  /\ replaced \in [Versions -> Nat]
  /\ cache \in Entry \cup {NoEntry}
  /\ index \in BOOLEAN
  /\ pc \in [Requests -> {"idle", "read", "set", "index"}]
  /\ key \in [Requests -> KeyRow \cup {NoRow}]
  /\ readAt \in [Requests -> Nat]
  /\ apc \in [Admins -> {"idle", "write", "load", "invalidate"}]
  /\ copy \in [Admins -> KeyRow \cup {NoRow}]
  /\ served \in [ver : Versions \cup {0}, at : Nat]
  /\ raced \in BOOLEAN

Init ==
  /\ clock = 1
  /\ row \in [ver : {1}, blocked : {FALSE}, limit : Limits, expires : Expiries]
  /\ versions = 1
  /\ replaced = [v \in Versions |-> 0]
  /\ cache = NoEntry
  /\ index = FALSE
  /\ pc = [r \in Requests |-> "idle"]
  /\ key = [r \in Requests |-> NoRow]
  /\ readAt = [r \in Requests |-> 0]
  /\ apc = [a \in Admins |-> "idle"]
  /\ copy = [a \in Admins |-> NoRow]
  /\ served = [ver |-> 0, at |-> 0]
  /\ raced = FALSE

\* Time passes; no request that has read the row waits longer than MaxLag.
Tick ==
  /\ clock < MaxTime
  /\ \A r \in Requests : pc[r] \in {"set", "index"} => clock - readAt[r] < MaxLag
  /\ clock' = clock + 1
  /\ UNCHANGED <<row, cache, index, reqVars, adminVars, histVars>>
-----------------------------------------------------------------------------
(* Authenticate. *)

Expired(k) == k.expires < clock

Admit(k) == served' = [ver |-> k.ver, at |-> clock]

\* Mutant: cache entries live for ever.
FreshAlways(e) == e # NoEntry

\* GetIfPresent: entries expire TTL after they were written.
Fresh(e) == e # NoEntry /\ clock - e.at < TTL

\* A cached key is admitted, unless it is blocked or, being expired, dropped.
CacheHit(r) ==
  /\ pc[r] = "idle"
  /\ Fresh(cache)
  /\ IF cache.key.blocked \/ Expired(cache.key)
     THEN UNCHANGED served
     ELSE Admit(cache.key)
  /\ cache' = IF ~ cache.key.blocked /\ Expired(cache.key) THEN NoEntry ELSE cache
  /\ UNCHANGED <<clock, row, index, reqVars, adminVars, versions, replaced, raced>>

CacheMiss(r) ==
  /\ pc[r] = "idle"
  /\ ~ Fresh(cache)
  /\ pc' = [pc EXCEPT ![r] = "read"]
  /\ UNCHANGED <<clock, row, cache, index, key, readAt, adminVars, histVars>>

\* GetKeyByHash, of a store that is up, and the checks on what it returns.
GetKeyByHash(r, up) ==
  LET ok == up /\ row # NoRow /\ ~ row.blocked /\ ~ Expired(row)
  IN  /\ pc[r] = "read"
      /\ pc' = [pc EXCEPT ![r] = IF ok THEN "set" ELSE "idle"]
      /\ key' = [key EXCEPT ![r] = IF ok THEN row ELSE NoRow]
      /\ readAt' = [readAt EXCEPT ![r] = IF ok THEN clock ELSE 0]
      /\ UNCHANGED <<clock, row, cache, index, adminVars, histVars>>

\* cache.Set.
CacheSet(r) ==
  /\ pc[r] = "set"
  /\ cache' = [key |-> key[r], at |-> clock]
  /\ pc' = [pc EXCEPT ![r] = "index"]
  /\ UNCHANGED <<clock, row, index, key, readAt, adminVars, histVars>>

\* Mutant: the index is not maintained.
IndexStoreNothing(r) ==
  /\ pc[r] = "index"
  /\ Admit(key[r])
  /\ pc' = [pc EXCEPT ![r] = "idle"]
  /\ key' = [key EXCEPT ![r] = NoRow]
  /\ readAt' = [readAt EXCEPT ![r] = 0]
  /\ UNCHANGED <<clock, row, cache, index, adminVars, versions, replaced, raced>>

\* keyIDToHash.Store, and the identity is returned.
IndexStore(r) ==
  /\ pc[r] = "index"
  /\ index' = TRUE
  /\ Admit(key[r])
  /\ pc' = [pc EXCEPT ![r] = "idle"]
  /\ key' = [key EXCEPT ![r] = NoRow]
  /\ readAt' = [readAt EXCEPT ![r] = 0]
  /\ UNCHANGED <<clock, row, cache, adminVars, versions, replaced, raced>>

\* The cache makes room, or drops what has expired.
CacheEvict ==
  /\ cache # NoEntry
  /\ cache' = NoEntry
  /\ UNCHANGED <<clock, row, index, reqVars, adminVars, histVars>>
-----------------------------------------------------------------------------
(* The admin handlers. *)

\* GetKey; a key that is gone is a 404.
GetKey(a) ==
  /\ apc[a] = "idle"
  /\ row # NoRow
  /\ apc' = [apc EXCEPT ![a] = "write"]
  /\ copy' = [copy EXCEPT ![a] = row]
  /\ UNCHANGED <<clock, row, cache, index, reqVars, histVars>>

\* The history of a write: the old version is over, and a miss that has read it
\* but is not done yet will leave it in the cache or the index behind.
RowWritten ==
  /\ replaced' = [replaced EXCEPT ![row.ver] = clock]
  /\ raced' = (raced \/ \E r \in Requests : pc[r] \in {"set", "index"})

\* Nothing is written: the payload is refused, the row was deleted meanwhile
\* (checkRowsAffected), or the store fails.
WriteFails(a) ==
  /\ apc[a] = "write"
  /\ apc' = [apc EXCEPT ![a] = "idle"]
  /\ copy' = [copy EXCEPT ![a] = NoRow]
  /\ UNCHANGED <<clock, row, cache, index, reqVars, histVars>>

\* Mutant: a payload that does not say blocked is taken to say it is not.
UpdateKeyUnblocks(a, f, v) ==
  /\ apc[a] = "write"
  /\ row # NoRow
  /\ versions < MaxVersions
  /\ versions' = versions + 1
  /\ row' = [copy[a] EXCEPT !.blocked = FALSE, ![f] = v, !.ver = versions + 1]
  /\ RowWritten
  /\ apc' = [apc EXCEPT ![a] = "load"]
  /\ copy' = [copy EXCEPT ![a] = NoRow]
  /\ UNCHANGED <<clock, cache, index, reqVars, served>>

\* UpdateKey writes every column, from the copy on which the payload was put.
UpdateKey(a, f, v) ==
  /\ apc[a] = "write"
  /\ row # NoRow
  /\ versions < MaxVersions
  /\ versions' = versions + 1
  /\ row' = [copy[a] EXCEPT ![f] = v, !.ver = versions + 1]
  /\ RowWritten
  /\ apc' = [apc EXCEPT ![a] = "load"]
  /\ copy' = [copy EXCEPT ![a] = NoRow]
  /\ UNCHANGED <<clock, cache, index, reqVars, served>>

DeleteKey(a) ==
  /\ apc[a] = "write"
  /\ row # NoRow
  /\ row' = NoRow
  /\ RowWritten
  /\ apc' = [apc EXCEPT ![a] = "load"]
  /\ copy' = [copy EXCEPT ![a] = NoRow]
  /\ UNCHANGED <<clock, cache, index, reqVars, versions, served>>

\* InvalidateByKeyID: LoadAndDelete of the index ...
LoadAndDelete(a) ==
  /\ apc[a] = "load"
  /\ apc' = [apc EXCEPT ![a] = IF index THEN "invalidate" ELSE "idle"]
  /\ index' = FALSE
  /\ UNCHANGED <<clock, row, cache, reqVars, copy, histVars>>

\* ... then, if the key was there, Invalidate of the cache.
Invalidate(a) ==
  /\ apc[a] = "invalidate"
  /\ apc' = [apc EXCEPT ![a] = "idle"]
  /\ cache' = NoEntry
  /\ UNCHANGED <<clock, row, index, reqVars, copy, histVars>>

Values(f) == CASE f = "blocked" -> BOOLEAN [] f = "limit" -> Limits [] f = "expires" -> Expiries

RequestStep(r) ==
  \/ CacheHit(r)
  \/ CacheMiss(r)
  \/ \E up \in BOOLEAN : GetKeyByHash(r, up)
  \/ CacheSet(r)
  \/ IndexStore(r)

AdminStep(a) ==
  \/ GetKey(a)
  \/ WriteFails(a)
  \/ \E f \in Fields : \E v \in Values(f) : UpdateKey(a, f, v)
  \/ DeleteKey(a)
  \/ LoadAndDelete(a)
  \/ Invalidate(a)

Next ==
  \/ Tick
  \/ \E r \in Requests : RequestStep(r)
  \/ \E a \in Admins : AdminStep(a)
  \/ CacheEvict

Spec == Init /\ [][Next]_vars
-----------------------------------------------------------------------------
Current(v) == row # NoRow /\ row.ver = v

(* A key that was blocked, changed or deleted is used in its old form for  *)
(* less than the life of a cache entry and the duration of a lookup,       *)
(* however lookups, writes and invalidations interleave: no lookup renews  *)
(* an entry but from the store.                                            *)
BoundedStaleness ==
  served.ver = 0 \/ replaced[served.ver] = 0
    \/ served.at - replaced[served.ver] < TTL + MaxLag

(* An invalidation misses only what it raced with: if no lookup was under  *)
(* way whenever the key was written, then once the admin handlers are done *)
(* the cache holds the row of the store or nothing.                        *)
StaleOnlyByRace ==
  cache # NoEntry /\ ~ raced /\ (\A a \in Admins : apc[a] \in {"idle", "write"})
    => Current(cache.key.ver)

(* An update changes no field that its payload does not name, unless       *)
(* another update was written after it read the row: then it writes the    *)
(* old values of all the others back.                                      *)
FieldsLostOnlyByRace ==
  [][row # NoRow /\ row' # NoRow /\ row' # row
       => \/ Cardinality({f \in Fields : row'[f] # row[f]}) <= 1
          \/ \E a \in Admins : apc[a] = "write" /\ apc'[a] = "load" /\ copy[a] # row]_vars
=============================================================================
