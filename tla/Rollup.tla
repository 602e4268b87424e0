------------------------------- MODULE Rollup -------------------------------
(***************************************************************************)
(* Hourly usage rollups: UsageRollupWorker of internal/worker with         *)
(* QueryUsage and UpsertRollup of                                          *)
(* internal/storage/sqlite/usage.go.  A rollup is the number of records of *)
(* a group (organisation, key and model) in an hour; its token and cost    *)
(* sums go the same way.  Records arrive late, by the time the recorder    *)
(* takes to flush them, and so in the hour after the one they belong to.   *)
(***************************************************************************)
EXTENDS Integers, FiniteSetsExt

CONSTANTS
  Groups,   \* groups of records
  MaxHour,  \* bound: length of a behaviour
  MaxRows,  \* bound: records of a group in an hour
  Limit     \* records a query returns at most (10 000)

ASSUME RollupAssumption ==
  /\ MaxHour \in Nat /\ MaxRows \in Nat /\ Limit \in Nat \ {0}

Hours  == 0 .. MaxHour
Counts == [Groups -> [Hours -> 0 .. MaxRows]]
None   == [g \in Groups |-> [h \in Hours |-> 0]]

Idle   == [phase |-> "wait", agg |-> None, at |-> 0, all |-> TRUE]

VARIABLES
  hour,    \* now
  table,   \* usage_records: records of a group in an hour
  worker,  \* the worker: phase, what it aggregated, the hour it asked in,
           \* and (history) whether the query returned all there was
  rollups, \* usage_rollups: request_count of a group and an hour
  whole    \* history: hours in which the last query stored was not cut

rollupVars == <<hour, table, worker, rollups, whole>>

RollupTypeOK ==
  /\ hour \in Hours
  /\ table \in Counts
  /\ worker \in [phase : {"wait", "upsert"}, agg : Counts, at : Hours, all : BOOLEAN]
  /\ rollups \in Counts
  /\ whole \in SUBSET Hours

RollupInit ==
  /\ hour = 0
  /\ table = None
  /\ worker = Idle
  /\ rollups = None
  /\ whole = {}

NextHour ==
  /\ hour < MaxHour
  /\ hour' = hour + 1
  /\ UNCHANGED <<table, worker, rollups, whole>>

\* The recorder flushes a record of this hour or of the one before.
InsertUsage(g, h) ==
  /\ h \in {hour, hour - 1} \cap Hours
  /\ table[g][h] < MaxRows
  /\ table' = [table EXCEPT ![g][h] = @ + 1]
  /\ UNCHANGED <<hour, worker, rollups, whole>>

Total(c, H) == MapThenSumSet(LAMBDA g : MapThenSumSet(LAMBDA h : c[g][h], H), Groups)

\* Mutant: only the hour before.
WindowOne == {hour - 1} \cap Hours

\* since and until, both truncated to the hour.
Window == {hour - 2, hour - 1} \cap Hours

\* Records of a query by group and hour.
Results == [Groups -> [Window -> 0 .. MaxRows]]

\* ORDER BY created_at DESC LIMIT: all of the newer hour before any of the
\* older; which records of the hour that is cut depends on their times.
Newest(a) ==
  \A h, k \in Window :
    h < k /\ Total(a, {h}) > 0 => \A g \in Groups : a[g][k] = table[g][k]

\* Mutant: until is not truncated, and cuts the newer hour.
IsResultUntruncated(a) ==
  \A g \in Groups, h \in Window :
    IF h = hour - 1 THEN a[g][h] <= table[g][h] ELSE a[g][h] = table[g][h]

\* What QueryUsage may return: all there is, or Limit records of it.
IsResult(a) ==
  /\ \A g \in Groups, h \in Window : a[g][h] <= table[g][h]
  /\ IF Total(table, Window) <= Limit
     THEN \A g \in Groups, h \in Window : a[g][h] = table[g][h]
     ELSE Total(a, Window) = Limit
  /\ Newest(a)

\* The first half of rollup: query and aggregate; nothing to do for no records.
QueryUsage ==
  /\ worker.phase = "wait"
  /\ \E a \in Results :
       /\ IsResult(a)
       /\ Total(a, Window) > 0
       /\ worker' = [phase |-> "upsert", at |-> hour,
                     all |-> Total(table, Window) <= Limit,
                     agg |-> [g \in Groups |-> [h \in Hours |->
                                IF h \in Window THEN a[g][h] ELSE 0]]]
  /\ UNCHANGED <<hour, table, rollups, whole>>

\* One transaction; the rows of the groups that were seen are replaced.
UpsertRollup ==
  /\ worker.phase = "upsert"
  /\ rollups' = [g \in Groups |-> [h \in Hours |->
                   IF worker.agg[g][h] > 0 THEN worker.agg[g][h] ELSE rollups[g][h]]]
  /\ whole' = IF worker.all THEN whole \cup {worker.at} ELSE whole \ {worker.at}
  /\ worker' = Idle
  /\ UNCHANGED <<hour, table>>

\* The transaction fails, or the process stops before it.
UpsertFails ==
  /\ worker.phase = "upsert"
  /\ worker' = Idle
  /\ UNCHANGED <<hour, table, rollups, whole>>

RollupNext ==
  \/ NextHour
  \/ \E g \in Groups, h \in Hours : InsertUsage(g, h)
  \/ QueryUsage
  \/ UpsertRollup
  \/ UpsertFails

RollupSpec == RollupInit /\ [][RollupNext]_rollupVars
-----------------------------------------------------------------------------
(* The rollups of an hour are right once the worker has stored the result  *)
(* of a query it made two hours later, when no more records of the hour    *)
(* arrive, and the query returned all there was: earlier rollups, made     *)
(* while records still arrived or cut by the limit, are corrected.         *)
RollupsSettle ==
  \A h \in Hours : h + 2 \in whole => \A g \in Groups : rollups[g][h] = table[g][h]

(* A rollup goes down only when the limit cut the query it was made from:  *)
(* what was counted once stays counted.                                    *)
RollupsNeverShrink ==
  [][worker.all
       => \A g \in Groups, h \in Hours : rollups'[g][h] >= rollups[g][h]]_rollupVars
=============================================================================
