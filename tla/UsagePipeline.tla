--------------------------- MODULE UsagePipeline ---------------------------
(***************************************************************************)
(* Accounting for the requests of one API key with a budget: Check and     *)
(* Consume of the in-memory QuotaTracker, recordUsage of the handlers, the *)
(* UsageRecorder worker with its channel and buffer, the usage table, the  *)
(* QuotaSyncWorker that reloads the tracker from it, and the life of the   *)
(* process around them: graceful shutdown, failing shutdown, crash and     *)
(* restart.  The table survives a restart and nothing else does.           *)
(*                                                                         *)
(* A request costs one unit of the budget, or nothing when its response    *)
(* reports no usage (a cache hit).                                         *)
(***************************************************************************)
EXTENDS Naturals, Sequences, FiniteSets

CONSTANTS
  Requests,     \* requests of the key, each leaving one record
  ChanSize,     \* capacity of the recorder's channel (1000)
  BatchSize,    \* records flushed at once (100)
  Budget,       \* MaxBudget of the key
  Faults,       \* subset of {"crash", "store", "shutdown", "listen"}
  MaxRestarts   \* bound: restarts of the process

ASSUME PipelineAssumption ==
  /\ IsFiniteSet(Requests)
  /\ ChanSize \in Nat \ {0} /\ BatchSize \in Nat \ {0} /\ Budget \in Nat \ {0}
  /\ Faults \subseteq {"crash", "store", "shutdown", "listen"}
  /\ MaxRestarts \in Nat

VARIABLES
  life,      \* of the process: see Cancelled and Down
  restarts,
  req,       \* request -> how far it is
  priced,    \* requests whose response reports a usage
  charged,   \* history: requests whose cost was consumed, in any run
  ch,        \* UsageRecorder.ch
  buf,       \* buf of UsageRecorder.Run and drain
  recorder,  \* UsageRecorder: step it is about to take
  rows,      \* usage_records: record -> rows
  lost,      \* history: records given up: channel full, INSERT failed, process gone
  tracker,   \* QuotaTracker.budgets of the key: entry present, consumed
  syncer     \* QuotaSyncWorker: step it is about to take, total it has read

procVars == <<life, restarts>>
reqVars  == <<req, priced, charged>>
recVars  == <<ch, buf, recorder, rows, lost>>
quotaVars == <<tracker, syncer>>
vars     == <<procVars, reqVars, recVars, quotaVars>>

InFlight == {r \in Requests : req[r] \in {"serving", "responded", "consumed"}}

\* The context of the workers is cancelled.
Cancelled == life \in {"draining", "aborting"}
Alive     == life # "down"

Elements(s) == {s[i] : i \in 1 .. Len(s)}

\* SumUsageCost.
SumUsageCost == Cardinality({r \in priced : rows[r] > 0})

TypeOK ==
  /\ life \in {"up", "stopping", "draining", "aborting", "down"}
  /\ restarts \in Nat
  /\ req \in [Requests -> {"new", "serving", "responded", "consumed", "done",
                           "refused", "failed"}]
  /\ priced \subseteq Requests
  /\ charged \subseteq priced
  /\ ch \in Seq(Requests) /\ Len(ch) <= ChanSize
  /\ buf \in Seq(Requests) /\ Len(buf) <= BatchSize
  /\ recorder \in {"select", "flush", "drain", "drainFlush", "lastFlush", "stopped"}
  /\ rows \in [Requests -> Nat]
  /\ lost \subseteq Requests
  /\ tracker \in [tracked : BOOLEAN, consumed : Nat]
  /\ syncer \in [pc : {"preload", "sum", "write", "wait", "stopped"}, total : Nat]

NoEntry == [tracked |-> FALSE, consumed |-> 0]

Init ==
  /\ life = "up"
  /\ restarts = 0
  /\ req = [r \in Requests |-> "new"]
  /\ priced = {}
  /\ charged = {}
  /\ ch = <<>>
  /\ buf = <<>>
  /\ recorder = "select"
  /\ rows = [r \in Requests |-> 0]
  /\ lost = {}
  /\ tracker = NoEntry
  /\ syncer = [pc |-> "preload", total |-> 0]
-----------------------------------------------------------------------------
(* Requests. *)

\* The quota check of rateLimit: an unknown key passes, and gets an entry.
Check(r) ==
  /\ life = "up"
  /\ req[r] = "new"
  /\ req' = [req EXCEPT ![r] = IF ~ tracker.tracked \/ tracker.consumed < Budget
                               THEN "serving" ELSE "refused"]
  /\ tracker' = [tracker EXCEPT !.tracked = TRUE]
  /\ UNCHANGED <<procVars, priced, charged, recVars, syncer>>

\* A response to account for, with or without a usage.
Respond(r, withUsage) ==
  /\ Alive
  /\ req[r] = "serving"
  /\ req' = [req EXCEPT ![r] = IF withUsage THEN "responded" ELSE "consumed"]
  /\ priced' = IF withUsage THEN priced \cup {r} ELSE priced
  /\ UNCHANGED <<procVars, charged, recVars, quotaVars>>

\* The request ends without recordUsage: an error, or the client left.
Fail(r) ==
  /\ Alive
  /\ req[r] = "serving"
  /\ req' = [req EXCEPT ![r] = "failed"]
  /\ UNCHANGED <<procVars, priced, charged, recVars, quotaVars>>

Consume(r) ==
  /\ tracker' = [tracked |-> TRUE, consumed |-> tracker.consumed + 1]
  /\ charged' = charged \cup {r}
  /\ UNCHANGED <<ch, lost>>

\* Record: dropped when the channel is full.
Record(r) ==
  /\ IF Len(ch) < ChanSize
     THEN ch' = Append(ch, r) /\ UNCHANGED lost
     ELSE lost' = lost \cup {r} /\ UNCHANGED ch
  /\ UNCHANGED <<tracker, charged>>

\* recordUsage: Quota.Consume, then Usage.Record.
recordUsage(r) ==
  /\ Alive
  /\ \/ req[r] = "responded" /\ Consume(r) /\ req' = [req EXCEPT ![r] = "consumed"]
     \/ req[r] = "consumed" /\ Record(r) /\ req' = [req EXCEPT ![r] = "done"]
  /\ UNCHANGED <<procVars, priced, buf, recorder, rows, syncer>>
-----------------------------------------------------------------------------
(* UsageRecorder. *)

\* case r := <-u.ch, in Run and in drain; full is the step for a full batch.
Take(from, full) ==
  /\ Alive
  /\ recorder = from
  /\ ch # <<>>
  /\ ch' = Tail(ch)
  /\ buf' = Append(buf, Head(ch))
  /\ recorder' = IF Len(buf) + 1 >= BatchSize THEN full ELSE from
  /\ UNCHANGED <<procVars, reqVars, rows, lost, quotaVars>>

Receive      == Take("select", "flush")
DrainReceive == Take("drain", "drainFlush")

\* Mutant: the ticker is forgotten.
FlushTickNever ==
  FALSE /\ UNCHANGED vars

\* case <-ticker.C: whatever there is.
FlushTick ==
  /\ Alive
  /\ recorder = "select"
  /\ buf # <<>>
  /\ recorder' = "flush"
  /\ UNCHANGED <<procVars, reqVars, ch, buf, rows, lost, quotaVars>>

\* case <-ctx.Done().
StartDrain ==
  /\ Cancelled
  /\ recorder = "select"
  /\ recorder' = "drain"
  /\ UNCHANGED <<procVars, reqVars, ch, buf, rows, lost, quotaVars>>

\* Mutant: drain returns without a flush of what it has.
DrainLastForgets ==
  /\ Alive
  /\ recorder = "drain"
  /\ ch = <<>>
  /\ recorder' = "stopped"
  /\ UNCHANGED <<procVars, reqVars, ch, buf, rows, lost, quotaVars>>

\* Mutant: drain does not return when the channel is empty.
DrainLastWaits ==
  /\ Alive
  /\ recorder = "drain"
  /\ ch = <<>>
  /\ recorder' = IF buf = <<>> THEN "drain" ELSE "lastFlush"
  /\ UNCHANGED <<procVars, reqVars, ch, buf, rows, lost, quotaVars>>

\* default of drain: the channel is empty.
DrainLast ==
  /\ Alive
  /\ recorder = "drain"
  /\ ch = <<>>
  /\ recorder' = IF buf = <<>> THEN "stopped" ELSE "lastFlush"
  /\ UNCHANGED <<procVars, reqVars, ch, buf, rows, lost, quotaVars>>

AfterFlush ==
  CASE recorder = "flush"      -> "select"
    [] recorder = "drainFlush" -> "drain"
    [] recorder = "lastFlush"  -> "stopped"

Flushing == recorder \in {"flush", "drainFlush", "lastFlush"}

\* Mutant: the buffer is not emptied.
InsertKeepsBuffer ==
  /\ Alive /\ Flushing
  /\ recorder = "flush" => ~ Cancelled
  /\ rows' = [r \in Requests |-> IF r \in Elements(buf) THEN rows[r] + 1 ELSE rows[r]]
  /\ recorder' = AfterFlush
  /\ UNCHANGED <<procVars, reqVars, ch, buf, lost, quotaVars>>

\* flush: one INSERT for the batch.  The flushes of Run use the context of the
\* workers, those of drain one of their own.
Insert ==
  /\ Alive /\ Flushing
  /\ recorder = "flush" => ~ Cancelled
  /\ rows' = [r \in Requests |-> IF r \in Elements(buf) THEN rows[r] + 1 ELSE rows[r]]
  /\ buf' = <<>>
  /\ recorder' = AfterFlush
  /\ UNCHANGED <<procVars, reqVars, ch, lost, quotaVars>>

\* The INSERT fails, and the batch is gone: the context is cancelled, the store
\* is closed by the returning process, or the database fails.
InsertFails ==
  /\ Alive /\ Flushing
  /\ \/ recorder = "flush" /\ Cancelled
     \/ life = "aborting"
     \/ "store" \in Faults
  /\ buf' = <<>>
  /\ lost' = lost \cup Elements(buf)
  /\ recorder' = AfterFlush
  /\ UNCHANGED <<procVars, reqVars, ch, rows, quotaVars>>
-----------------------------------------------------------------------------
(* QuotaSyncWorker. *)

StoreMayFail == Cancelled \/ "store" \in Faults

\* ListBudgetedKeyIDs and Preload; a failure is logged.
Preload(ok) ==
  /\ Alive
  /\ syncer.pc = "preload"
  /\ ok \/ StoreMayFail
  /\ syncer' = [syncer EXCEPT !.pc = "sum"]
  /\ tracker' = IF ok THEN [tracker EXCEPT !.tracked = TRUE] ELSE tracker
  /\ UNCHANGED <<procVars, reqVars, recVars>>

\* SyncAll: the tracked keys, and the sum of the cost of each.
SyncSum(ok) ==
  /\ Alive
  /\ syncer.pc = "sum"
  /\ ok \/ StoreMayFail
  /\ syncer' = IF ok /\ tracker.tracked THEN [pc |-> "write", total |-> SumUsageCost]
                                        ELSE [syncer EXCEPT !.pc = "wait"]
  /\ UNCHANGED <<procVars, reqVars, recVars, tracker>>

\* Mutant: the sum is not written back.
SyncWriteNothing ==
  /\ Alive
  /\ syncer.pc = "write"
  /\ syncer' = [pc |-> "wait", total |-> 0]
  /\ UNCHANGED <<procVars, reqVars, recVars, tracker>>

\* Mutant: the sum is added to what was consumed.
SyncWriteAdds ==
  /\ Alive
  /\ syncer.pc = "write"
  /\ tracker' = [tracked |-> TRUE, consumed |-> tracker.consumed + syncer.total]
  /\ syncer' = [pc |-> "wait", total |-> 0]
  /\ UNCHANGED <<procVars, reqVars, recVars>>

\* Sync: the tracker is overwritten with a sum read before the lock was taken.
SyncWrite ==
  /\ Alive
  /\ syncer.pc = "write"
  /\ tracker' = [tracked |-> TRUE, consumed |-> syncer.total]
  /\ syncer' = [pc |-> "wait", total |-> 0]
  /\ UNCHANGED <<procVars, reqVars, recVars>>

SyncTick ==
  /\ Alive
  /\ syncer.pc = "wait"
  /\ syncer' = [syncer EXCEPT !.pc = "sum"]
  /\ UNCHANGED <<procVars, reqVars, recVars, tracker>>

SyncStop ==
  /\ Cancelled
  /\ syncer.pc = "wait"
  /\ syncer' = [syncer EXCEPT !.pc = "stopped"]
  /\ UNCHANGED <<procVars, reqVars, recVars, tracker>>
-----------------------------------------------------------------------------
(* The process. *)

\* The memory of the process is gone, and with it the requests it served and
\* the records G that it gave up.
Down(G) ==
  /\ life' = "down"
  /\ lost' = lost \cup G
  /\ req' = [r \in Requests |-> IF r \in InFlight THEN "failed" ELSE req[r]]
  /\ ch' = <<>>
  /\ buf' = <<>>
  /\ recorder' = "stopped"
  /\ tracker' = NoEntry
  /\ syncer' = [pc |-> "stopped", total |-> 0]
  /\ UNCHANGED <<restarts, priced, charged, rows>>

\* SIGTERM or SIGINT: srv.Shutdown takes no more requests.
Signal ==
  /\ life = "up"
  /\ life' = "stopping"
  /\ UNCHANGED <<restarts, reqVars, recVars, quotaVars>>

\* srv.Shutdown returns when the last request is done; workerCancel.
ShutdownDone ==
  /\ life = "stopping"
  /\ InFlight = {}
  /\ life' = "draining"
  /\ UNCHANGED <<restarts, reqVars, recVars, quotaVars>>

\* srv.Shutdown gives up waiting, or ListenAndServe fails: workerCancel and
\* return.  The deferred calls and the workers run side by side until the
\* process has exited.
ReturnError ==
  /\ \/ life = "stopping" /\ InFlight # {} /\ "shutdown" \in Faults
     \/ life = "up" /\ "listen" \in Faults
  /\ life' = "aborting"
  /\ UNCHANGED <<restarts, reqVars, recVars, quotaVars>>

Queued == Elements(ch) \cup Elements(buf)

\* A clean exit gives up nothing.
Exit ==
  \/ life = "aborting" /\ Down(Queued)
  \/ life = "draining" /\ recorder = "stopped" /\ syncer.pc = "stopped" /\ Down({})

Crash == Alive /\ "crash" \in Faults /\ Down(Queued)

Restart ==
  /\ life = "down"
  /\ restarts < MaxRestarts
  /\ restarts' = restarts + 1
  /\ life' = "up"
  /\ recorder' = "select"
  /\ syncer' = [pc |-> "preload", total |-> 0]
  /\ UNCHANGED <<reqVars, ch, buf, rows, lost, tracker>>
-----------------------------------------------------------------------------
RequestStep(r) ==
  \/ Check(r)
  \/ \E withUsage \in BOOLEAN : Respond(r, withUsage)
  \/ Fail(r)
  \/ recordUsage(r)

RecorderStep == Receive \/ DrainReceive \/ FlushTick \/ StartDrain \/ DrainLast
                  \/ Insert \/ InsertFails

SyncerStep ==
  \/ \E ok \in BOOLEAN : Preload(ok) \/ SyncSum(ok)
  \/ SyncWrite
  \/ SyncTick
  \/ SyncStop

ProcessStep == Signal \/ ShutdownDone \/ ReturnError \/ Exit \/ Crash \/ Restart

Next ==
  \/ \E r \in Requests : RequestStep(r)
  \/ RecorderStep
  \/ SyncerStep
  \/ ProcessStep

Spec == Init /\ [][Next]_vars

\* The workers are scheduled and their tickers fire; a select in which the
\* context stays ready takes it some time; srv.Shutdown returns, at the latest
\* by its timeout; a store that fails does not fail every time.  Nothing is
\* assumed of the requests.
FairSpec ==
  /\ Spec
  /\ WF_vars(RecorderStep)
  /\ WF_vars(SyncerStep)
  /\ SF_vars(SyncStop)
  /\ SF_vars(SyncSum(TRUE))
  /\ WF_vars(life = "stopping" /\ (ShutdownDone \/ ReturnError))
  /\ WF_vars(Exit)
-----------------------------------------------------------------------------
InPipe(r) == r \in Queued

Status(r) ==
  CASE rows[r] > 0                        -> "stored"
    [] rows[r] = 0 /\ InPipe(r)           -> "pending"
    [] rows[r] = 0 /\ ~ InPipe(r) /\ req[r] = "done" -> "lost"
    [] OTHER                              -> "new"

Ledger == INSTANCE UsageLedger WITH
            Records <- Requests,
            status  <- [r \in Requests |-> Status(r)],
            rows    <- rows

(* The recorder keeps the promise of UsageLedger: channel, buffer, batches *)
(* and restarts write no record twice and revive none that was lost.       *)
ImplementsLedger == Ledger!Spec

(* A key is never charged for more than its requests cost: consuming in    *)
(* memory, storing the record and reloading the sum overlap, but count no  *)
(* request twice, so that Check refuses only a key that did overspend.     *)
NeverOvercharged == tracker.consumed <= Cardinality(charged)

(* A record does not stay in the channel or the buffer: it is stored or    *)
(* given up, however few records follow it.                                *)
RecordsMoveOn == \A r \in Requests : InPipe(r) ~> ~ InPipe(r)

(* What the tracker forgot, by a restart or by a reload that overlapped a  *)
(* Consume, it is told again: a running process comes to count whatever is *)
(* in the table for a key it tracks.                                       *)
TrackerCatchesUp ==
  \A k \in 1 .. Cardinality(Requests) :
    tracker.tracked /\ SumUsageCost >= k ~> tracker.consumed >= k \/ life # "up"

(* A process that was told to stop does: the drain of the recorder and the *)
(* other worker come to an end.                                            *)
StopsAfterSignal == life = "stopping" ~> life = "down"

(* A record that was accepted is stored, or still queued, or it was given  *)
(* up where the code gives records up: the channel was full, an INSERT     *)
(* failed, or the process did not stop cleanly.  In particular a clean     *)
(* stop drains the channel and the buffer, with no request left behind it. *)
LostOnlyForCause ==
  \A r \in Requests : req[r] = "done" => rows[r] > 0 \/ InPipe(r) \/ r \in lost
=============================================================================
