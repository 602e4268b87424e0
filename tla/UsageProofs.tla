---------------------------- MODULE UsageProofs ----------------------------
(***************************************************************************)
(* Proofs about UsagePipeline and Rollup, for every set of requests, every *)
(* capacity of the channel and the batch, every budget and set of faults,  *)
(* and for any groups, hours, row counts and query limit.                  *)
(***************************************************************************)
EXTENDS UsagePipeline, Rollup, FiniteSetTheorems, TLAPS

Injective(s) == \A i, j \in 1 .. Len(s) : s[i] = s[j] => i = j

\* A record is queued once, by a request that is done, before it has a row.
QueueInv ==
  /\ Injective(ch)
  /\ Elements(ch) \cap Elements(buf) = {}
  /\ \A r \in Requests : InPipe(r) => req[r] = "done" /\ rows[r] = 0
  /\ \A r \in Requests : rows[r] > 0 => req[r] = "done"

\* A request is charged between its response and its record.
CostInv ==
  /\ \A r \in Requests :
       /\ req[r] \in {"new", "serving", "refused"} => r \notin priced
       /\ req[r] = "responded" => r \in priced /\ r \notin charged
       /\ req[r] \in {"consumed", "done"} /\ r \in priced => r \in charged
  /\ NeverOvercharged
  /\ syncer.total <= Cardinality(charged)

\* The recorder drains only a cancelled process, and a process that stops
\* cleanly has no request left that could still record.
StopInv ==
  /\ life \in {"up", "stopping"} => recorder \in {"select", "flush"}
  /\ life = "draining" => InFlight = {}
  /\ life = "draining" /\ recorder \in {"lastFlush", "stopped"} => ch = <<>>
  /\ recorder = "stopped" => buf = <<>>
  /\ life = "down" => ch = <<>> /\ buf = <<>>

\* The recorder receives only into a buffer that has room.
BatchInv == recorder \in {"select", "drain"} => Len(buf) < BatchSize

IInv == TypeOK /\ QueueInv /\ LostOnlyForCause /\ CostInv /\ StopInv /\ BatchInv
-----------------------------------------------------------------------------
(* Sequences of records and their elements. *)

\* The empty channel or buffer holds nothing.
LEMMA ElementsEmpty == Elements(<<>>) = {}
  BY DEF Elements

\* Append adds one element.
LEMMA ElementsAppend ==
  ASSUME NEW s \in Seq(Requests), NEW r \in Requests
  PROVE  Elements(Append(s, r)) = Elements(s) \cup {r}
  <1> DEFINE t == Append(s, r)
  <1>1. /\ Len(t) = Len(s) + 1 /\ Len(s) \in Nat
        /\ t[Len(s) + 1] = r
        /\ \A i \in 1 .. Len(s) : t[i] = s[i]
    OBVIOUS
  <1> HIDE DEF t
  <1>2. QED
    BY <1>1 DEF Elements

\* A record appended to records without it leaves them distinct.
LEMMA InjectiveAppend ==
  ASSUME NEW s \in Seq(Requests), NEW r \in Requests, Injective(s), r \notin Elements(s)
  PROVE  Injective(Append(s, r))
  <1> DEFINE t == Append(s, r)
  <1>1. /\ Len(t) = Len(s) + 1 /\ Len(s) \in Nat
        /\ t[Len(s) + 1] = r
        /\ \A i \in 1 .. Len(s) : t[i] = s[i]
    OBVIOUS
  <1> HIDE DEF t
  <1>2. QED
    BY <1>1 DEF Elements, Injective

\* Receiving takes the head away from the channel, and nothing else.
LEMMA ElementsTail ==
  ASSUME NEW s \in Seq(Requests), s # <<>>, Injective(s)
  PROVE  /\ Head(s) \in Requests /\ Tail(s) \in Seq(Requests) /\ Len(Tail(s)) <= Len(s)
         /\ Elements(Tail(s)) = Elements(s) \ {Head(s)}
         /\ Head(s) \in Elements(s)
         /\ Injective(Tail(s))
  <1> DEFINE t == Tail(s)
  <1>1. /\ Len(s) \in Nat \ {0}
        /\ Len(t) = Len(s) - 1
        /\ Head(s) = s[1]
        /\ \A i \in 1 .. Len(t) : t[i] = s[i + 1]
        /\ t \in Seq(Requests) /\ Head(s) \in Requests
    OBVIOUS
  <1> HIDE DEF t
  <1>2. Injective(t)
    BY <1>1 DEF Injective
  <1>3. \A i \in 1 .. Len(t) : t[i] \in Elements(s) /\ t[i] # s[1]
    BY <1>1 DEF Injective, Elements
  <1>4. \A i \in 1 .. Len(s) : i = 1 \/ (i - 1 \in 1 .. Len(t) /\ s[i] = t[i - 1])
    BY <1>1
  <1>5. Elements(t) = Elements(s) \ {s[1]}
    <2>1. ASSUME NEW x \in Elements(t) PROVE x \in Elements(s) \ {s[1]}
      BY <1>3 DEF Elements
    <2>2. ASSUME NEW x \in Elements(s), x # s[1] PROVE x \in Elements(t)
      <3>1. PICK i \in 1 .. Len(s) : x = s[i]
        BY DEF Elements
      <3>2. i - 1 \in 1 .. Len(t) /\ x = t[i - 1]
        BY <1>4, <2>2, <3>1
      <3>3. QED
        BY <3>2 DEF Elements
    <2>3. QED
      BY <2>1, <2>2
  <1>6. s[1] \in Elements(s) /\ Len(t) <= Len(s)
    BY <1>1 DEF Elements
  <1>7. QED
    BY <1>1, <1>2, <1>5, <1>6 DEF t

\* What is queued are records.
LEMMA ElementsType ==
  ASSUME NEW s \in Seq(Requests)
  PROVE  Elements(s) \subseteq Requests
  BY DEF Elements
-----------------------------------------------------------------------------
\* The invariant holds initially.
LEMMA InitInv == Init => IInv
  <1> SUFFICES ASSUME Init PROVE IInv
    OBVIOUS
  <1>1. Cardinality(charged) = 0 /\ Cardinality(charged) \in Nat
    BY FS_EmptySet DEF Init
  <1>2. TypeOK
    BY PipelineAssumption DEF Init, TypeOK, NoEntry
  <1>3. Queued = {}
    BY ElementsEmpty DEF Init, Queued
  <1>4. QueueInv
    BY <1>3, ElementsEmpty DEF Init, QueueInv, Injective, InPipe
  <1>5. CostInv
    BY <1>1 DEF Init, CostInv, NeverOvercharged, NoEntry
  <1>6. BatchInv
    BY PipelineAssumption DEF Init, BatchInv
  <1>7. QED
    BY <1>2, <1>4, <1>5, <1>6 DEF IInv, Init, LostOnlyForCause, StopInv
-----------------------------------------------------------------------------
\* Charges are finitely many.
LEMMA ChargedFinite ==
  ASSUME TypeOK
  PROVE  IsFiniteSet(charged) /\ Cardinality(charged) \in Nat
  <1>1. charged \in SUBSET Requests
    BY DEF TypeOK
  <1>2. IsFiniteSet(charged)
    BY <1>1, PipelineAssumption, FS_Subset
  <1>3. QED
    BY <1>2, FS_CardinalityType

\* A step that leaves the queue and the table alone, and completes no request.
LEMMA QueueUnchanged ==
  ASSUME QueueInv, LostOnlyForCause, UNCHANGED <<ch, buf, rows, lost>>,
         \A q \in Requests : req'[q] = "done" <=> req[q] = "done"
  PROVE  QueueInv' /\ LostOnlyForCause'
  <1>1. /\ Elements(ch') = Elements(ch) /\ Elements(buf') = Elements(buf)
        /\ Injective(ch') = Injective(ch)
    OBVIOUS
  <1>2. QED
    BY <1>1 DEF QueueInv, LostOnlyForCause, InPipe, Queued

\* The steps of a request before its record: the queue is left alone, and none
\* of them is taken by a request that is done.
LEMMA EarlyRequestInv ==
  ASSUME IInv, NEW r \in Requests,
         req[r] # "done", UNCHANGED <<recVars, procVars>>,
         NEW v \in {"serving", "responded", "consumed", "refused", "failed"},
         req' = [req EXCEPT ![r] = v],
         life \in {"draining"} => req[r] \in {"serving", "responded", "consumed"}
  PROVE  QueueInv' /\ LostOnlyForCause' /\ StopInv' /\ BatchInv'
  <1>1. \A q \in Requests : req'[q] = "done" <=> req[q] = "done"
    BY DEF IInv, TypeOK
  <1>2. UNCHANGED <<ch, buf, rows, lost>>
    BY DEF recVars
  <1>3. QueueInv' /\ LostOnlyForCause'
    BY <1>1, <1>2, QueueUnchanged DEF IInv
  <1>4. StopInv' /\ BatchInv'
    BY DEF recVars, procVars, IInv, TypeOK, StopInv, InFlight, BatchInv
  <1>5. QED
    BY <1>3, <1>4

\* QuotaTracker.Check, a response, and a failure.
LEMMA ServeInv ==
  ASSUME IInv, NEW r \in Requests,
         Check(r) \/ (\E withUsage \in BOOLEAN : Respond(r, withUsage)) \/ Fail(r)
  PROVE  IInv'
  <1> USE DEF IInv
  <1>1. PICK v \in {"serving", "responded", "consumed", "refused", "failed"} :
          /\ req' = [req EXCEPT ![r] = v]
          /\ req[r] # "done" /\ UNCHANGED <<recVars, procVars>>
          /\ life = "draining" => req[r] \in {"serving", "responded", "consumed"}
    BY DEF Check, Respond, Fail
  <1>2. QueueInv' /\ LostOnlyForCause' /\ StopInv' /\ BatchInv'
    BY <1>1, EarlyRequestInv, Zenon
  <1>3. charged' = charged /\ tracker'.consumed = tracker.consumed /\ syncer' = syncer
    BY DEF Check, Respond, Fail, TypeOK, quotaVars
  <1>4. /\ req' \in [Requests -> {"new", "serving", "responded", "consumed", "done",
                                  "refused", "failed"}]
        /\ tracker' \in [tracked : BOOLEAN, consumed : Nat]
    BY <1>1, Zenon DEF Check, Respond, Fail, TypeOK, quotaVars
  <1>5. CASE Check(r) \/ Fail(r)
    <2>1. priced' = priced /\ v \in {"serving", "refused", "failed"} /\ r \notin priced
      BY <1>1, <1>5 DEF Check, Fail, TypeOK, CostInv
    <2>2. TypeOK'
      BY <1>1, <1>3, <1>4, <2>1 DEF TypeOK, recVars, procVars
    <2>3. CostInv'
      BY <1>1, <1>3, <2>1 DEF TypeOK, CostInv, NeverOvercharged
    <2>4. QED
      BY <1>2, <2>2, <2>3
  <1>6. ASSUME NEW withUsage \in BOOLEAN, Respond(r, withUsage)
        PROVE  IInv'
    <2>1. /\ priced' = IF withUsage THEN priced \cup {r} ELSE priced
          /\ req' = [req EXCEPT ![r] = IF withUsage THEN "responded" ELSE "consumed"]
          /\ r \notin priced
      BY <1>6 DEF Respond, TypeOK, CostInv
    <2>2. TypeOK'
      BY <1>1, <1>3, <1>4, <2>1 DEF TypeOK, recVars, procVars
    <2>3. CostInv'
      BY <1>3, <2>1 DEF TypeOK, CostInv, NeverOvercharged
    <2>4. QED
      BY <1>2, <2>2, <2>3
  <1>7. QED
    BY <1>5, <1>6

\* Consume charges a request once, and counts it once.
LEMMA ConsumeInv ==
  ASSUME IInv, NEW r \in Requests, recordUsage(r), req[r] = "responded"
  PROVE  IInv'
  <1> USE DEF IInv
  <1>1. /\ req' = [req EXCEPT ![r] = "consumed"]
        /\ charged' = charged \cup {r} /\ r \notin charged
        /\ tracker' = [tracked |-> TRUE, consumed |-> tracker.consumed + 1]
        /\ UNCHANGED <<recVars, procVars, priced, syncer>>
    BY DEF recordUsage, Consume, Record, CostInv, recVars
  <1>2. QueueInv' /\ LostOnlyForCause' /\ StopInv' /\ BatchInv'
    BY <1>1, EarlyRequestInv, Zenon
  <1>3. Cardinality(charged') = Cardinality(charged) + 1 /\ Cardinality(charged) \in Nat
    BY <1>1, ChargedFinite, FS_AddElement, Zenon
  <1>4. r \in priced
    BY <1>1 DEF CostInv, TypeOK
  <1>5. TypeOK'
    BY <1>1, <1>4 DEF TypeOK, recVars, procVars
  <1>6. CostInv'
    BY <1>1, <1>3 DEF TypeOK, CostInv, NeverOvercharged
  <1>7. QED
    BY <1>2, <1>5, <1>6

\* Record queues the record of a request for the first and only time, or gives
\* it up.
LEMMA RecordInv ==
  ASSUME IInv, NEW r \in Requests, recordUsage(r), req[r] = "consumed"
  PROVE  IInv'
  <1> USE DEF IInv
  <1>1. /\ req' = [req EXCEPT ![r] = "done"]
        /\ \/ Len(ch) < ChanSize /\ ch' = Append(ch, r) /\ lost' = lost
           \/ ch' = ch /\ lost' = lost \cup {r}
        /\ UNCHANGED <<buf, recorder, rows, procVars, priced, charged, tracker, syncer>>
    BY DEF recordUsage, Consume, Record, CostInv, recVars
  <1>2. ~ InPipe(r) /\ rows[r] = 0
    <2>1. req[r] # "done" /\ rows[r] \in Nat
      BY DEF TypeOK
    <2>2. QED
      BY <2>1 DEF QueueInv
  <1>3. r \notin Elements(ch) /\ r \notin Elements(buf)
    BY <1>2 DEF InPipe, Queued
  <1>4. /\ ch' \in Seq(Requests) /\ Len(ch') <= ChanSize
        /\ Injective(ch')
        /\ \/ Elements(ch') = Elements(ch) \cup {r} /\ lost' = lost
           \/ Elements(ch') = Elements(ch) /\ lost' = lost \cup {r}
    <2>1. /\ ch \in Seq(Requests) /\ Len(ch) <= ChanSize /\ Injective(ch) /\ Len(ch) \in Nat
          /\ ChanSize \in Nat
      BY PipelineAssumption DEF TypeOK, QueueInv
    <2>2. CASE Len(ch) < ChanSize /\ ch' = Append(ch, r) /\ lost' = lost
      <3>1. ch' \in Seq(Requests) /\ Len(ch') = Len(ch) + 1
        BY <2>1, <2>2
      <3>2. Elements(ch') = Elements(ch) \cup {r}
        BY <2>1, <2>2, ElementsAppend
      <3>3. Injective(ch')
        BY <1>3, <2>1, <2>2, InjectiveAppend
      <3>4. QED
        BY <2>1, <2>2, <3>1, <3>2, <3>3
    <2>3. CASE ch' = ch /\ lost' = lost \cup {r}
      BY <2>1, <2>3
    <2>4. QED
      BY <1>1, <2>2, <2>3
  <1>5. Elements(buf') = Elements(buf)
    BY <1>1
  <1>6. TypeOK'
    BY <1>1, <1>4 DEF TypeOK, procVars
  <1>7. QueueInv'
    BY <1>1, <1>2, <1>3, <1>4, <1>5 DEF TypeOK, QueueInv, InPipe, Queued
  <1>8. LostOnlyForCause'
    BY <1>1, <1>4, <1>5 DEF TypeOK, LostOnlyForCause, InPipe, Queued
  <1>9. CostInv'
    BY <1>1 DEF TypeOK, CostInv, NeverOvercharged
  <1>10. life # "draining" /\ life # "down"
    BY DEF recordUsage, Alive, StopInv, InFlight
  <1>11. StopInv' /\ BatchInv'
    BY <1>1, <1>10 DEF StopInv, BatchInv, procVars
  <1>12. QED
    BY <1>6, <1>7, <1>8, <1>9, <1>11
-----------------------------------------------------------------------------
(* The recorder.  None of its steps touches requests or quota. *)

\* A step that leaves the requests, the quota and the charges alone.
LEMMA CostUnchanged ==
  ASSUME IInv, UNCHANGED <<reqVars, quotaVars>>
  PROVE  CostInv'
  BY DEF IInv, CostInv, NeverOvercharged, reqVars, quotaVars

\* A record received from the channel is in the buffer.
LEMMA TakeInv ==
  ASSUME IInv, Receive \/ DrainReceive
  PROVE  IInv'
  <1> USE DEF IInv
  <1>1. PICK from \in {"select", "drain"} :
          /\ Alive /\ recorder = from /\ ch # <<>>
          /\ ch' = Tail(ch) /\ buf' = Append(buf, Head(ch))
          /\ recorder' = IF Len(buf) + 1 >= BatchSize
                         THEN IF from = "select" THEN "flush" ELSE "drainFlush"
                         ELSE from
          /\ UNCHANGED <<procVars, reqVars, rows, lost, quotaVars>>
    BY DEF Receive, DrainReceive, Take
  <1>2. Len(buf) < BatchSize
    BY <1>1 DEF BatchInv
  <1>3. /\ Head(ch) \in Requests /\ ch' \in Seq(Requests) /\ Len(ch') <= Len(ch)
        /\ Elements(ch') = Elements(ch) \ {Head(ch)} /\ Head(ch) \in Elements(ch)
        /\ Injective(ch')
    BY <1>1, ElementsTail DEF TypeOK, QueueInv
  <1>4. /\ buf' \in Seq(Requests) /\ Len(buf') = Len(buf) + 1
        /\ Elements(buf') = Elements(buf) \cup {Head(ch)}
    BY <1>1, <1>3, ElementsAppend DEF TypeOK
  <1>5. Queued' = Queued /\ Elements(ch') \cap Elements(buf') = {}
    BY <1>3, <1>4 DEF Queued, QueueInv
  <1>6. TypeOK'
    <2>1. Len(ch') \in Nat /\ Len(ch) \in Nat /\ Len(buf) \in Nat
      BY <1>3, <1>4 DEF TypeOK
    <2>2. recorder' \in {"select", "flush", "drain", "drainFlush"}
      BY <1>1
    <2>3. Len(ch') <= ChanSize /\ Len(buf') <= BatchSize
      BY <1>2, <1>3, <1>4, <2>1, PipelineAssumption DEF TypeOK
    <2>4. QED
      BY <1>1, <1>3, <1>4, <2>2, <2>3 DEF TypeOK, procVars, reqVars, quotaVars
  <1>7. QueueInv' /\ LostOnlyForCause'
    BY <1>1, <1>3, <1>5 DEF QueueInv, LostOnlyForCause, InPipe, reqVars
  <1>8. CostInv'
    BY <1>1, CostUnchanged
  <1>9. StopInv'
    BY <1>1 DEF StopInv, Alive, procVars, reqVars, InFlight
  <1>10. BatchInv'
    <2>1. Len(buf) \in Nat
      BY DEF TypeOK
    <2>2. QED
      BY <1>1, <1>2, <1>4, <2>1, PipelineAssumption DEF BatchInv
  <1>11. QED
    BY <1>6, <1>7, <1>8, <1>9, <1>10

\* The steps that only move the recorder.
LEMMA MoveInv ==
  ASSUME IInv, FlushTick \/ StartDrain \/ DrainLast
  PROVE  IInv'
  <1> USE DEF IInv
  <1>1. UNCHANGED <<procVars, reqVars, ch, buf, rows, lost, quotaVars>>
    BY DEF FlushTick, StartDrain, DrainLast
  <1>2. \A q \in Requests : req'[q] = "done" <=> req[q] = "done"
    BY <1>1 DEF reqVars
  <1>3. TypeOK'
    BY <1>1 DEF FlushTick, StartDrain, DrainLast, TypeOK, procVars, reqVars, quotaVars
  <1>4. QueueInv' /\ LostOnlyForCause'
    BY <1>1, <1>2, QueueUnchanged
  <1>5. CostInv'
    BY <1>1, CostUnchanged
  <1>6. StopInv' /\ BatchInv'
    BY <1>1 DEF FlushTick, StartDrain, DrainLast, StopInv, BatchInv, Alive, Cancelled, procVars,
                reqVars, InFlight
  <1>7. QED
    BY <1>3, <1>4, <1>5, <1>6

\* A flush: the batch gets its rows or is given up, and leaves the buffer.
LEMMA FlushInv ==
  ASSUME IInv, Insert \/ InsertFails
  PROVE  IInv'
  <1> USE DEF IInv
  <1>1. /\ Alive /\ Flushing /\ recorder' = AfterFlush /\ buf' = <<>>
        /\ \/ /\ rows' = [r \in Requests |-> IF r \in Elements(buf) THEN rows[r] + 1 ELSE rows[r]]
              /\ lost' = lost
           \/ rows' = rows /\ lost' = lost \cup Elements(buf)
        /\ UNCHANGED <<procVars, reqVars, ch, quotaVars>>
    BY DEF Insert, InsertFails
  <1>2. /\ recorder = "flush" => recorder' = "select"
        /\ recorder = "drainFlush" => recorder' = "drain"
        /\ recorder = "lastFlush" => recorder' = "stopped"
        /\ recorder \in {"flush", "drainFlush", "lastFlush"}
    BY <1>1 DEF AfterFlush, Flushing
  <1>3. Elements(ch') = Elements(ch) /\ Elements(buf') = {} /\ Injective(ch')
    BY <1>1, ElementsEmpty DEF QueueInv
  <1>4. Elements(buf) \subseteq Requests
    BY ElementsType DEF TypeOK
  <1>5. TypeOK'
    <2>1. buf' \in Seq(Requests) /\ Len(buf') <= BatchSize
      BY <1>1, PipelineAssumption
    <2>2. rows' \in [Requests -> Nat] /\ lost' \subseteq Requests
      BY <1>1, <1>4 DEF TypeOK
    <2>3. QED
      BY <1>1, <1>2, <2>1, <2>2 DEF TypeOK, procVars, reqVars, quotaVars
  <1>6. QueueInv'
    <2>1. ASSUME NEW r \in Requests, InPipe(r)' PROVE req'[r] = "done" /\ rows'[r] = 0
      <3>1. r \in Elements(ch) /\ r \notin Elements(buf)
        BY <1>3, <2>1 DEF InPipe, Queued, QueueInv
      <3>2. QED
        BY <1>1, <3>1 DEF QueueInv, InPipe, Queued, reqVars
    <2>2. ASSUME NEW r \in Requests, rows'[r] > 0 PROVE req'[r] = "done"
      BY <1>1, <2>2 DEF QueueInv, InPipe, Queued, reqVars
    <2>3. QED
      BY <1>3, <2>1, <2>2 DEF QueueInv
  <1>7. LostOnlyForCause'
    <2>1. ASSUME NEW r \in Requests, req'[r] = "done"
          PROVE  rows'[r] > 0 \/ InPipe(r)' \/ r \in lost'
      <3>1. rows[r] > 0 \/ r \in Elements(ch) \/ r \in Elements(buf) \/ r \in lost
        BY <1>1, <2>1 DEF LostOnlyForCause, InPipe, Queued, reqVars
      <3>2. rows[r] \in Nat
        BY DEF TypeOK
      <3>3. QED
        BY <1>1, <1>3, <3>1, <3>2 DEF InPipe, Queued
    <2>2. QED
      BY <2>1 DEF LostOnlyForCause
  <1>8. CostInv'
    BY <1>1, CostUnchanged
  <1>9. StopInv'
    BY <1>1, <1>2 DEF StopInv, Alive, procVars, reqVars, InFlight
  <1>10. BatchInv'
    BY <1>1, PipelineAssumption DEF BatchInv
  <1>11. QED
    BY <1>5, <1>6, <1>7, <1>8, <1>9, <1>10
-----------------------------------------------------------------------------
\* The sum in the table counts charged requests only.
LEMMA SumCharged ==
  ASSUME IInv
  PROVE  SumUsageCost \in Nat /\ SumUsageCost <= Cardinality(charged)
  <1> DEFINE T == {r \in priced : rows[r] > 0}
  <1>1. T \in SUBSET charged
    BY DEF IInv, TypeOK, QueueInv, CostInv
  <1>2. IsFiniteSet(charged) /\ Cardinality(charged) \in Nat
    BY ChargedFinite DEF IInv
  <1>3. IsFiniteSet(T) /\ Cardinality(T) <= Cardinality(charged)
    BY <1>1, <1>2, FS_Subset
  <1>4. Cardinality(T) \in Nat
    BY <1>3, FS_CardinalityType
  <1>5. QED
    BY <1>3, <1>4 DEF SumUsageCost

\* The QuotaSyncWorker: whatever it read is at most what was charged since.
LEMMA SyncInv ==
  ASSUME IInv, SyncerStep
  PROVE  IInv'
  <1> USE DEF IInv
  <1>1. UNCHANGED <<procVars, reqVars, recVars>>
    BY DEF SyncerStep, Preload, SyncSum, SyncWrite, SyncTick, SyncStop
  <1>2. Cardinality(charged) \in Nat
    BY ChargedFinite
  <1>3. /\ syncer' \in [pc : {"preload", "sum", "write", "wait", "stopped"}, total : Nat]
        /\ syncer'.total \in {syncer.total, SumUsageCost, 0}
    BY SumCharged DEF SyncerStep, Preload, SyncSum, SyncWrite, SyncTick, SyncStop, TypeOK
  <1>4. /\ tracker' \in [tracked : BOOLEAN, consumed : Nat]
        /\ tracker'.consumed \in {tracker.consumed, syncer.total}
    <2>1. \/ tracker' = tracker
          \/ tracker' = [tracker EXCEPT !.tracked = TRUE]
          \/ tracker' = [tracked |-> TRUE, consumed |-> syncer.total]
      BY DEF SyncerStep, Preload, SyncSum, SyncWrite, SyncTick, SyncStop
    <2>2. tracker \in [tracked : BOOLEAN, consumed : Nat] /\ syncer.total \in Nat
      BY DEF TypeOK
    <2>3. CASE tracker' = tracker
      BY <2>2, <2>3
    <2>4. CASE tracker' = [tracker EXCEPT !.tracked = TRUE]
      BY <2>2, <2>4, Zenon
    <2>5. CASE tracker' = [tracked |-> TRUE, consumed |-> syncer.total]
      BY <2>2, <2>5
    <2>6. QED
      BY <2>1, <2>3, <2>4, <2>5
  <1>5. TypeOK'
    BY <1>1, <1>3, <1>4 DEF TypeOK, procVars, reqVars, recVars
  <1>6. CostInv'
    <2>1. tracker'.consumed <= Cardinality(charged) /\ syncer'.total <= Cardinality(charged)
      BY <1>2, <1>3, <1>4, SumCharged DEF CostInv, NeverOvercharged
    <2>2. QED
      BY <1>1, <2>1 DEF CostInv, NeverOvercharged, reqVars
  <1>7. QueueInv' /\ LostOnlyForCause'
    BY <1>1, QueueUnchanged DEF recVars, reqVars
  <1>8. StopInv' /\ BatchInv'
    BY <1>1 DEF StopInv, BatchInv, InFlight, procVars, reqVars, recVars
  <1>9. QED
    BY <1>5, <1>6, <1>7, <1>8
-----------------------------------------------------------------------------
(* The process. *)

\* Signal, ShutdownDone and ReturnError change the phase only.
LEMMA PhaseInv ==
  ASSUME IInv, Signal \/ ShutdownDone \/ ReturnError
  PROVE  IInv'
  <1> USE DEF IInv
  <1>1. UNCHANGED <<restarts, reqVars, recVars, quotaVars>>
    BY DEF Signal, ShutdownDone, ReturnError
  <1>2. TypeOK'
    BY <1>1 DEF Signal, ShutdownDone, ReturnError, TypeOK, reqVars, recVars, quotaVars
  <1>3. QueueInv' /\ LostOnlyForCause'
    BY <1>1, QueueUnchanged DEF recVars, reqVars
  <1>4. CostInv'
    BY <1>1, CostUnchanged
  <1>5. StopInv' /\ BatchInv'
    BY <1>1 DEF Signal, ShutdownDone, ReturnError, StopInv, BatchInv, InFlight, reqVars, recVars
  <1>6. QED
    BY <1>2, <1>3, <1>4, <1>5

\* The end of the process: a clean exit leaves nothing queued behind.
LEMMA DownInv ==
  ASSUME IInv, Exit \/ Crash
  PROVE  IInv'
  <1> USE DEF IInv
  <1>1. PICK G \in SUBSET Requests : Queued \subseteq G /\ Down(G)
    <2>1. Queued \in SUBSET Requests
      BY ElementsType DEF Queued, TypeOK
    <2>2. life = "draining" /\ recorder = "stopped" => Queued = {}
      BY ElementsEmpty DEF StopInv, Queued
    <2>3. QED
      BY <2>1, <2>2 DEF Exit, Crash
  <1>2. \A r \in Requests : req'[r] = "done" <=> req[r] = "done"
    BY <1>1 DEF Down, InFlight
  <1>3. Elements(ch') = {} /\ Elements(buf') = {} /\ Injective(ch')
    BY <1>1, ElementsEmpty DEF Down, Injective
  <1>4. TypeOK'
    <2>1. req' \in [Requests -> {"new", "serving", "responded", "consumed", "done",
                                 "refused", "failed"}]
      BY <1>1 DEF Down, TypeOK
    <2>2. QED
      BY <1>1, <2>1, PipelineAssumption DEF Down, TypeOK, NoEntry
  <1>5. QueueInv'
    BY <1>1, <1>2, <1>3 DEF QueueInv, InPipe, Queued, Down
  <1>6. LostOnlyForCause'
    BY <1>1, <1>2 DEF LostOnlyForCause, InPipe, Down
  <1>7. CostInv'
    <2>1. tracker'.consumed = 0 /\ syncer'.total = 0 /\ charged' = charged /\ priced' = priced
      BY <1>1 DEF Down, NoEntry
    <2>2. Cardinality(charged) \in Nat
      BY ChargedFinite
    <2>3. \A r \in Requests : req'[r] = req[r] \/ req'[r] = "failed"
      BY <1>1 DEF Down
    <2>4. QED
      BY <2>1, <2>2, <2>3 DEF CostInv, NeverOvercharged
  <1>8. StopInv' /\ BatchInv'
    BY <1>1 DEF StopInv, BatchInv, Down
  <1>9. QED
    BY <1>4, <1>5, <1>6, <1>7, <1>8

\* A new process starts with an empty queue and finds the table.
LEMMA RestartInv ==
  ASSUME IInv, Restart
  PROVE  IInv'
  <1> USE DEF IInv
  <1>1. UNCHANGED <<reqVars, ch, buf, rows, lost, tracker>>
    BY DEF Restart
  <1>2. TypeOK'
    BY <1>1 DEF Restart, TypeOK, reqVars
  <1>3. QueueInv' /\ LostOnlyForCause'
    BY <1>1, QueueUnchanged DEF reqVars
  <1>4. CostInv'
    <2>1. Cardinality(charged) \in Nat
      BY ChargedFinite
    <2>2. QED
      BY <1>1, <2>1 DEF Restart, CostInv, NeverOvercharged, reqVars
  <1>5. StopInv' /\ BatchInv'
    BY <1>1, PipelineAssumption DEF Restart, StopInv, BatchInv
  <1>6. QED
    BY <1>2, <1>3, <1>4, <1>5
-----------------------------------------------------------------------------
\* Every step preserves the invariant.
LEMMA StepInv == IInv /\ [Next]_vars => IInv'
  <1> SUFFICES ASSUME IInv, [Next]_vars PROVE IInv'
    OBVIOUS
  <1>1. ASSUME NEW r \in Requests, RequestStep(r) PROVE IInv'
    <2>1. CASE Check(r) \/ (\E withUsage \in BOOLEAN : Respond(r, withUsage)) \/ Fail(r)
      BY <2>1, ServeInv
    <2>2. CASE recordUsage(r)
      <3>1. req[r] = "responded" \/ req[r] = "consumed"
        BY <2>2 DEF recordUsage
      <3>2. QED
        BY <2>2, <3>1, ConsumeInv, RecordInv
    <2>3. QED
      BY <1>1, <2>1, <2>2 DEF RequestStep
  <1>2. CASE RecorderStep
    BY <1>2, TakeInv, MoveInv, FlushInv DEF RecorderStep
  <1>3. CASE SyncerStep
    BY <1>3, SyncInv
  <1>4. CASE ProcessStep
    BY <1>4, PhaseInv, DownInv, RestartInv DEF ProcessStep
  <1>5. CASE UNCHANGED vars
    <2>1. UNCHANGED <<life, restarts, req, priced, charged, ch, buf, recorder, rows, lost,
                      tracker, syncer>>
      BY <1>5 DEF vars, procVars, reqVars, recVars, quotaVars
    <2>2. TypeOK'
      BY <2>1 DEF IInv, TypeOK
    <2>3. QueueInv' /\ LostOnlyForCause'
      BY <2>1, QueueUnchanged DEF IInv
    <2>4. CostInv' /\ StopInv' /\ BatchInv'
      BY <2>1 DEF IInv, CostInv, NeverOvercharged, StopInv, BatchInv, InFlight
    <2>5. QED
      BY <2>2, <2>3, <2>4 DEF IInv
  <1>6. QED
    BY <1>1, <1>2, <1>3, <1>4, <1>5 DEF Next

\* The inductive invariant holds in every reachable state.
THEOREM Invariance == Spec => []IInv
  BY InitInv, StepInv, PTL DEF Spec

\* Consume, the usage table and the reload by QuotaSyncWorker never count a
\* request twice, whatever the number of requests, crashes and restarts.
THEOREM Overcharge == Spec => []NeverOvercharged
  <1>1. IInv => NeverOvercharged
    BY DEF IInv, CostInv
  <1>2. QED
    BY <1>1, Invariance, PTL

\* A record that UsageRecorder.Record accepted is stored or queued unless it was
\* given up for one of the causes in the code: a clean stop drains everything.
THEOREM LossHasCause == Spec => []LostOnlyForCause
  <1>1. IInv => LostOnlyForCause
    BY DEF IInv
  <1>2. QED
    BY <1>1, Invariance, PTL
-----------------------------------------------------------------------------
(* The recorder implements UsageLedger. *)

\* What the ledger says of a record, without the CASE.
StatusIs(r) ==
  /\ rows[r] > 0 => Status(r) = "stored"
  /\ rows[r] = 0 /\ InPipe(r) => Status(r) = "pending"
  /\ rows[r] = 0 /\ ~ InPipe(r) /\ req[r] = "done" => Status(r) = "lost"
  /\ rows[r] = 0 /\ ~ InPipe(r) /\ req[r] # "done" => Status(r) = "new"

\* The four cases exclude each other.
LEMMA StatusCases ==
  ASSUME NEW r \in Requests, rows[r] \in Nat
  PROVE  StatusIs(r)
  BY DEF StatusIs, Status

\* The same, of the next state.
LEMMA StatusCasesNext ==
  ASSUME NEW r \in Requests, rows'[r] \in Nat
  PROVE  StatusIs(r)'
  BY DEF StatusIs, Status

\* Both, for the proofs of the steps.
LEMMA StatusBoth ==
  ASSUME IInv, IInv'
  PROVE  \A r \in Requests : rows[r] \in Nat /\ rows'[r] \in Nat /\ StatusIs(r) /\ StatusIs(r)'
  <1>1. \A r \in Requests : rows[r] \in Nat /\ rows'[r] \in Nat
    BY DEF IInv, TypeOK
  <1>2. QED
    BY <1>1, StatusCases, StatusCasesNext

\* A record of which nothing changes has the status it had.
LEMMA StatusSame ==
  ASSUME IInv, IInv', NEW r \in Requests,
         rows'[r] = rows[r], InPipe(r)' <=> InPipe(r), req'[r] = "done" <=> req[r] = "done"
  PROVE  Status(r)' = Status(r)
  <1>1. rows[r] \in Nat /\ StatusIs(r) /\ StatusIs(r)'
    BY StatusBoth
  <1>2. CASE rows[r] > 0
    BY <1>1, <1>2 DEF StatusIs
  <1>3. CASE rows[r] = 0 /\ InPipe(r)
    BY <1>1, <1>3 DEF StatusIs
  <1>4. CASE rows[r] = 0 /\ ~ InPipe(r)
    BY <1>1, <1>4 DEF StatusIs
  <1>5. QED
    BY <1>1, <1>2, <1>3, <1>4

\* Steps that touch neither the queue nor the table are stutters of the ledger.
LEMMA Stutters ==
  ASSUME IInv, IInv', rows' = rows, Queued' = Queued,
         \A r \in Requests : req'[r] = "done" <=> req[r] = "done"
  PROVE  UNCHANGED Ledger!vars
  <1>1. \A r \in Requests : Status(r)' = Status(r)
    BY StatusSame DEF InPipe
  <1>2. QED
    BY <1>1 DEF Ledger!vars

\* A step that moves the records of S is a move of the ledger.
LEMMA LedgerMoves ==
  ASSUME NEW S \in SUBSET Requests, NEW from, NEW to,
         \A r \in S : Status(r) = from /\ Status(r)' = to,
         \A r \in Requests \ S : Status(r)' = Status(r)
  PROVE  Ledger!Moves(S, from, to)
  BY DEF Ledger!Moves

\* Record is Accept.
LEMMA RecordAccepts ==
  ASSUME IInv, IInv', NEW r \in Requests, recordUsage(r), req[r] = "consumed"
  PROVE  Ledger!Next
  <1>1. /\ req' = [req EXCEPT ![r] = "done"]
        /\ ch' = Append(ch, r) \/ ch' = ch
        /\ UNCHANGED <<buf, rows>>
    BY DEF recordUsage, Consume, Record
  <1>2. Queued' = Queued \cup {r} \/ Queued' = Queued
    <2>1. Elements(ch') = Elements(ch) \cup {r} \/ Elements(ch') = Elements(ch)
      BY <1>1, ElementsAppend, Zenon DEF IInv, TypeOK
    <2>2. Elements(buf') = Elements(buf)
      BY <1>1
    <2>3. QED
      BY <2>1, <2>2 DEF Queued
  <1>3. req[r] # "done" /\ req'[r] = "done"
    BY <1>1 DEF IInv, TypeOK
  <1>4. rows[r] = 0 /\ rows'[r] = 0 /\ ~ InPipe(r)
    <2>1. rows[r] \in Nat /\ QueueInv
      BY DEF IInv, TypeOK
    <2>2. QED
      BY <1>1, <1>3, <2>1 DEF QueueInv
  <1>5. Status(r) = "new" /\ Status(r)' \in {"pending", "lost"}
    BY <1>3, <1>4, StatusBoth DEF StatusIs
  <1>6. ASSUME NEW q \in Requests \ {r} PROVE Status(q)' = Status(q)
    <2>1. (InPipe(q)' <=> InPipe(q)) /\ req'[q] = req[q] /\ rows'[q] = rows[q]
      BY <1>1, <1>2 DEF InPipe, IInv, TypeOK
    <2>2. QED
      BY <2>1, StatusSame
  <1>7. Ledger!Moves({r}, "new", "pending") \/ Ledger!Moves({r}, "new", "lost")
    BY <1>5, <1>6, LedgerMoves
  <1>8. QED
    BY <1>1, <1>7, Zenon DEF Ledger!Next, Ledger!Accept

\* Receive moves a record within the queue.
LEMMA TakeStutters ==
  ASSUME IInv, IInv', Receive \/ DrainReceive
  PROVE  UNCHANGED Ledger!vars
  <1>1. /\ ch # <<>> /\ ch' = Tail(ch) /\ buf' = Append(buf, Head(ch))
        /\ UNCHANGED <<reqVars, rows>>
    BY DEF Receive, DrainReceive, Take
  <1>2. /\ Elements(ch') = Elements(ch) \ {Head(ch)} /\ Head(ch) \in Elements(ch)
        /\ Head(ch) \in Requests
    BY <1>1, ElementsTail DEF IInv, TypeOK, QueueInv
  <1>3. Elements(buf') = Elements(buf) \cup {Head(ch)}
    BY <1>1, <1>2, ElementsAppend DEF IInv, TypeOK
  <1>4. Queued' = Queued
    BY <1>2, <1>3 DEF Queued
  <1>5. QED
    BY <1>1, <1>4, Stutters DEF reqVars

\* Insert is Commit of the batch, a failed one is GiveUp of it.
LEMMA FlushCommits ==
  ASSUME IInv, IInv', Insert \/ InsertFails
  PROVE  Ledger!Next
  <1> DEFINE S == Elements(buf)
  <1>1. S \in SUBSET Requests
    BY ElementsType DEF IInv, TypeOK
  <1>2. /\ buf' = <<>> /\ UNCHANGED <<reqVars, ch>>
        /\ \/ rows' = [r \in Requests |-> IF r \in S THEN rows[r] + 1 ELSE rows[r]]
           \/ rows' = rows
    BY DEF Insert, InsertFails
  <1>3. Queued' = Elements(ch) /\ S \cap Elements(ch) = {}
    BY <1>2, ElementsEmpty DEF IInv, QueueInv, Queued
  <1>4. \A r \in S : rows[r] = 0 /\ InPipe(r) /\ req[r] = "done" /\ ~ InPipe(r)' /\ req'[r] = "done"
    BY <1>1, <1>2, <1>3 DEF IInv, QueueInv, InPipe, Queued, reqVars
  <1>5. \A r \in Requests \ S : (InPipe(r)' <=> InPipe(r)) /\ rows'[r] = rows[r] /\ req'[r] = req[r]
    BY <1>2, <1>3 DEF InPipe, Queued, reqVars
  <1>6. \A r \in Requests \ S : Status(r)' = Status(r)
    BY <1>5, StatusSame
  <1>7. \A r \in S : Status(r) = "pending"
    BY <1>1, <1>4, StatusBoth DEF StatusIs
  <1>8. CASE rows' = [r \in Requests |-> IF r \in S THEN rows[r] + 1 ELSE rows[r]]
    <2>1. \A r \in S : rows'[r] = 1
      BY <1>1, <1>4, <1>8
    <2>2. \A r \in S : Status(r)' = "stored"
      BY <1>1, <2>1, StatusBoth DEF StatusIs
    <2>3. Ledger!Moves(S, "pending", "stored")
      BY <1>1, <1>6, <1>7, <2>2, LedgerMoves
    <2>4. QED
      BY <1>1, <1>8, <2>3 DEF Ledger!Next, Ledger!Commit
  <1>9. CASE rows' = rows
    <2>1. \A r \in S : Status(r)' = "lost"
      BY <1>1, <1>4, <1>9, StatusBoth DEF StatusIs
    <2>2. Ledger!Moves(S, "pending", "lost")
      BY <1>1, <1>6, <1>7, <2>1, LedgerMoves
    <2>3. QED
      BY <1>1, <1>9, <2>2 DEF Ledger!Next, Ledger!GiveUp
  <1>10. QED
    BY <1>2, <1>8, <1>9

\* The end of the process is GiveUp of what is queued, of nothing if it is clean.
LEMMA DownGivesUp ==
  ASSUME IInv, IInv', Exit \/ Crash
  PROVE  Ledger!Next
  <1>1. Queued \in SUBSET Requests
    BY ElementsType DEF Queued, IInv, TypeOK
  <1>2. /\ ch' = <<>> /\ buf' = <<>> /\ rows' = rows
        /\ \A r \in Requests : req'[r] = "done" <=> req[r] = "done"
    BY DEF Exit, Crash, Down, InFlight
  <1>3. Queued' = {}
    BY <1>2, ElementsEmpty DEF Queued
  <1>4. \A r \in Queued : Status(r) = "pending" /\ Status(r)' = "lost"
    BY <1>1, <1>2, <1>3, StatusBoth DEF StatusIs, InPipe, IInv, QueueInv
  <1>5. ASSUME NEW r \in Requests \ Queued PROVE Status(r)' = Status(r)
    <2>1. ~ InPipe(r) /\ ~ InPipe(r)' /\ rows'[r] = rows[r]
      BY <1>2, <1>3 DEF InPipe
    <2>2. QED
      BY <1>2, <2>1, StatusSame
  <1>6. Ledger!Moves(Queued, "pending", "lost")
    BY <1>1, <1>4, <1>5, LedgerMoves
  <1>7. QED
    BY <1>1, <1>2, <1>6 DEF Ledger!Next, Ledger!GiveUp

\* Every step of the pipeline is a step of the ledger or a stutter.
LEMMA StepRefines ==
  ASSUME IInv, IInv', [Next]_vars
  PROVE  [Ledger!Next]_(Ledger!vars)
  <1>1. ASSUME UNCHANGED <<ch, buf, rows>>,
               \A r \in Requests : req'[r] = "done" <=> req[r] = "done"
        PROVE  UNCHANGED Ledger!vars
    <2>1. Queued' = Queued
      BY <1>1 DEF Queued
    <2>2. QED
      BY <1>1, <2>1, Stutters
  <1>2. ASSUME NEW r \in Requests, RequestStep(r) PROVE [Ledger!Next]_(Ledger!vars)
    <2>1. CASE recordUsage(r) /\ req[r] = "consumed"
      BY <2>1, RecordAccepts
    <2>2. CASE ~ (recordUsage(r) /\ req[r] = "consumed")
      <3>1. /\ UNCHANGED <<ch, buf, rows>> /\ req[r] # "done"
            /\ \E v \in {"serving", "responded", "consumed", "refused", "failed"} :
                 req' = [req EXCEPT ![r] = v]
        BY <1>2, <2>2 DEF RequestStep, Check, Respond, Fail, recordUsage, Consume, recVars
      <3>2. \A q \in Requests : req'[q] = "done" <=> req[q] = "done"
        BY <3>1 DEF IInv, TypeOK
      <3>3. QED
        BY <1>1, <3>1, <3>2
    <2>3. QED
      BY <2>1, <2>2
  <1>3. CASE RecorderStep
    <2>1. CASE FlushTick \/ StartDrain \/ DrainLast
      <3>1. UNCHANGED <<ch, buf, rows, req>>
        BY <2>1 DEF FlushTick, StartDrain, DrainLast, reqVars
      <3>2. QED
        BY <1>1, <3>1
    <2>2. QED
      BY <1>3, <2>1, TakeStutters, FlushCommits DEF RecorderStep
  <1>4. CASE SyncerStep
    <2>1. UNCHANGED <<ch, buf, rows, req>>
      BY <1>4 DEF SyncerStep, Preload, SyncSum, SyncWrite, SyncTick, SyncStop, reqVars, recVars
    <2>2. QED
      BY <1>1, <2>1
  <1>5. CASE ProcessStep
    <2>1. CASE Signal \/ ShutdownDone \/ ReturnError \/ Restart
      <3>1. UNCHANGED <<ch, buf, rows, req>>
        BY <2>1 DEF Signal, ShutdownDone, ReturnError, Restart, reqVars, recVars
      <3>2. QED
        BY <1>1, <3>1
    <2>2. QED
      BY <1>5, <2>1, DownGivesUp DEF ProcessStep
  <1>6. CASE UNCHANGED vars
    <2>1. UNCHANGED <<ch, buf, rows, req>>
      BY <1>6 DEF vars, reqVars, recVars
    <2>2. QED
      BY <1>1, <2>1
  <1>7. QED
    BY <1>2, <1>3, <1>4, <1>5, <1>6 DEF Next

\* Initially every record is new.
LEMMA InitRefines == Init => Ledger!Init
  <1> SUFFICES ASSUME Init PROVE Ledger!Init
    OBVIOUS
  <1>1. Queued = {}
    BY ElementsEmpty DEF Init, Queued
  <1>2. \A r \in Requests : rows[r] = 0 /\ ~ InPipe(r) /\ req[r] = "new"
    BY <1>1 DEF Init, InPipe
  <1>3. ASSUME NEW r \in Requests PROVE Status(r) = "new"
    <2>1. rows[r] = 0 /\ rows[r] \in Nat /\ ~ InPipe(r) /\ req[r] # "done"
      BY <1>2
    <2>2. StatusIs(r)
      BY <2>1, StatusCases
    <2>3. QED
      BY <2>1, <2>2 DEF StatusIs
  <1>4. QED
    BY <1>3 DEF Ledger!Init, Init

\* UsageRecorder, with its channel, its batches, its drain and the restarts of
\* its process, implements UsageLedger: no record is written twice, written in
\* part of a batch, or written after it was given up.
THEOREM Refinement == Spec => ImplementsLedger
  <1>1. IInv /\ IInv' /\ [Next]_vars => [Ledger!Next]_(Ledger!vars)
    BY StepRefines
  <1>2. QED
    BY <1>1, InitRefines, Invariance, PTL DEF Spec, ImplementsLedger, Ledger!Spec
-----------------------------------------------------------------------------
(* A cycle in flight: what it counted is in the table, lies in the two     *)
(* hours before the one it asked in, and, when the query was not cut, is   *)
(* all of the hour that gets no more records and at least what the earlier *)
(* rollups counted.                                                        *)
CycleInFlight ==
  worker.phase = "upsert" =>
    /\ worker.at <= hour
    /\ \A g \in Groups, h \in Hours :
         /\ worker.agg[g][h] <= table[g][h]
         /\ worker.agg[g][h] > 0 => h + 1 = worker.at \/ h + 2 = worker.at
         /\ worker.all /\ h + 2 = worker.at => worker.agg[g][h] = table[g][h]
         /\ worker.all /\ worker.agg[g][h] > 0 => worker.agg[g][h] >= rollups[g][h]

RollupInv ==
  /\ RollupTypeOK
  /\ \A g \in Groups, h \in Hours : rollups[g][h] <= table[g][h]
  /\ \A w \in whole : w <= hour /\ (worker.phase = "upsert" => w <= worker.at)
  /\ CycleInFlight
  /\ RollupsSettle

\* The worker at rest.
LEMMA IdleType ==
  /\ Idle \in [phase : {"wait", "upsert"}, agg : Counts, at : Hours, all : BOOLEAN]
  /\ Idle.phase = "wait"
  <1>1. None \in Counts
    BY RollupAssumption DEF None, Counts
  <1>2. 0 \in Hours
    BY RollupAssumption DEF Hours
  <1>3. QED
    BY <1>1, <1>2 DEF Idle

\* Nothing has been rolled up of an empty table.
LEMMA RollupInitInv == RollupInit => RollupInv
  <1> SUFFICES ASSUME RollupInit PROVE RollupInv
    OBVIOUS
  <1>1. None \in Counts /\ \A g \in Groups, h \in Hours : None[g][h] = 0
    BY RollupAssumption DEF None, Counts
  <1>2. RollupTypeOK
    BY <1>1, RollupAssumption DEF RollupInit, RollupTypeOK, Idle, Hours
  <1>3. QED
    BY <1>1, <1>2 DEF RollupInit, RollupInv, CycleInFlight, RollupsSettle, Idle

\* A new hour: what was settled stays settled.
LEMMA NextHourInv == RollupInv /\ NextHour => RollupInv'
  <1> SUFFICES ASSUME RollupInv, NextHour PROVE RollupInv'
    OBVIOUS
  <1>1. hour \in Nat /\ hour' = hour + 1 /\ hour' \in Hours /\ whole \subseteq Hours /\ worker.at \in Nat
    BY RollupAssumption DEF RollupInv, RollupTypeOK, NextHour, Hours
  <1>2. RollupTypeOK'
    BY <1>1 DEF RollupInv, RollupTypeOK, NextHour
  <1>3. \A w \in whole' : w <= hour' /\ (worker'.phase = "upsert" => w <= worker'.at)
    BY <1>1 DEF RollupInv, NextHour, Hours
  <1>4. CycleInFlight'
    BY <1>1 DEF RollupInv, CycleInFlight, NextHour
  <1>5. QED
    BY <1>2, <1>3, <1>4 DEF RollupInv, RollupsSettle, NextHour

\* A late record belongs to an hour that no stored cycle settled.
LEMMA InsertUsageInv ==
  ASSUME RollupInv, NEW g \in Groups, NEW h \in Hours, InsertUsage(g, h)
  PROVE  RollupInv'
  <1>1. /\ hour \in Nat /\ h \in Nat /\ h + 1 >= hour /\ table \in Counts /\ MaxRows \in Nat
        /\ whole \subseteq Nat /\ worker.agg \in Counts /\ rollups \in Counts
        /\ worker.at \in Nat /\ Hours \subseteq Nat
    BY RollupAssumption DEF RollupInv, RollupTypeOK, InsertUsage, Hours
  <1>2. \A f \in Groups, k \in Hours :
          /\ table[f][k] \in 0 .. MaxRows /\ worker.agg[f][k] \in 0 .. MaxRows
          /\ rollups[f][k] \in 0 .. MaxRows
    BY <1>1 DEF Counts
  <1>3. \A f \in Groups, k \in Hours :
          table'[f][k] = IF f = g /\ k = h THEN table[f][k] + 1 ELSE table[f][k]
    <2>1. table' = [table EXCEPT ![g] = [table[g] EXCEPT ![h] = table[g][h] + 1]]
      BY DEF InsertUsage
    <2>2. \A f \in Groups : table[f] \in [Hours -> 0 .. MaxRows]
      BY <1>1 DEF Counts
    <2>3. \A f \in Groups : table'[f] = IF f = g THEN [table[g] EXCEPT ![h] = table[g][h] + 1]
                                        ELSE table[f]
      BY <1>1, <2>1 DEF Counts
    <2>4. QED
      BY <2>2, <2>3
  <1>4. table' \in Counts
    BY <1>1, <1>2 DEF InsertUsage, Counts
  <1>5. RollupTypeOK'
    BY <1>4 DEF RollupInv, RollupTypeOK, InsertUsage
  <1>6. \A f \in Groups, k \in Hours : table'[f][k] \in Nat /\ table[f][k] <= table'[f][k]
    <2> TAKE f \in Groups, k \in Hours
    <2>1. table[f][k] \in Nat
      BY <1>1, <1>2
    <2>2. table'[f][k] = table[f][k] + 1 \/ table'[f][k] = table[f][k]
      BY <1>3
    <2>3. QED
      BY <2>1, <2>2
  <1>7. \A f \in Groups, k \in Hours : k + 2 <= hour => table'[f][k] = table[f][k]
    <2>1. \A k \in Hours : k + 2 <= hour => k # h
      BY <1>1
    <2>2. QED
      BY <1>3, <2>1, Zenon
  <1>8. \A f \in Groups, k \in Hours : rollups'[f][k] <= table'[f][k]
    BY <1>1, <1>2, <1>6 DEF RollupInv, InsertUsage
  <1>9. CycleInFlight'
    <2> SUFFICES ASSUME worker.phase = "upsert", NEW f \in Groups, NEW k \in Hours
                 PROVE  /\ worker.agg[f][k] <= table'[f][k]
                        /\ worker.all /\ k + 2 = worker.at => worker.agg[f][k] = table'[f][k]
      BY DEF CycleInFlight, RollupInv, InsertUsage
    <2>1. worker.agg[f][k] <= table[f][k] /\ worker.at <= hour
      BY DEF RollupInv, CycleInFlight
    <2>2. worker.all /\ k + 2 = worker.at => worker.agg[f][k] = table[f][k]
      BY DEF RollupInv, CycleInFlight
    <2>3. QED
      BY <1>1, <1>2, <1>6, <1>7, <2>1, <2>2
  <1>10. RollupsSettle'
    BY <1>1, <1>7 DEF RollupInv, RollupsSettle, InsertUsage
  <1>11. QED
    BY <1>5, <1>8, <1>9, <1>10 DEF RollupInv, InsertUsage

\* A query counts records of the table, and all of them unless it is cut.
LEMMA QueryUsageInv == RollupInv /\ QueryUsage => RollupInv'
  <1> SUFFICES ASSUME RollupInv, QueryUsage PROVE RollupInv'
    OBVIOUS
  <1>1. PICK a \in Results :
          /\ IsResult(a)
          /\ worker' = [phase |-> "upsert", at |-> hour,
                        all |-> Total(table, Window) <= Limit,
                        agg |-> [g \in Groups |-> [h \in Hours |->
                                   IF h \in Window THEN a[g][h] ELSE 0]]]
    BY Zenon DEF QueryUsage
  <1>2. /\ hour \in Hours /\ Hours \subseteq Nat /\ table \in Counts /\ rollups \in Counts
        /\ MaxRows \in Nat /\ Window = {hour - 2, hour - 1} \cap Hours
    BY RollupAssumption DEF RollupInv, RollupTypeOK, Hours, Window
  <1>3. \A g \in Groups, h \in Hours :
          /\ table[g][h] \in 0 .. MaxRows /\ rollups[g][h] \in 0 .. MaxRows
          /\ h \in Window => a[g][h] \in 0 .. MaxRows
    BY <1>2 DEF Counts, Results
  <1>4. /\ worker'.phase = "upsert" /\ worker'.at = hour
        /\ worker'.all = (Total(table, Window) <= Limit)
        /\ \A g \in Groups, h \in Hours : worker'.agg[g][h] = IF h \in Window THEN a[g][h] ELSE 0
    BY <1>1
  <1>5. worker' \in [phase : {"wait", "upsert"}, agg : Counts, at : Hours, all : BOOLEAN]
    <2>1. [g \in Groups |-> [h \in Hours |-> IF h \in Window THEN a[g][h] ELSE 0]] \in Counts
      BY <1>2, <1>3 DEF Counts
    <2>2. (Total(table, Window) <= Limit) \in BOOLEAN
      OBVIOUS
    <2>3. QED
      BY <1>1, <1>2, <2>1, <2>2
  <1>6. RollupTypeOK'
    BY <1>5 DEF RollupInv, RollupTypeOK, QueryUsage
  <1>7. ASSUME NEW g \in Groups, NEW h \in Hours
        PROVE  /\ worker'.agg[g][h] <= table[g][h]
               /\ worker'.agg[g][h] > 0 => h + 1 = hour \/ h + 2 = hour
               /\ worker'.all /\ h \in Window => worker'.agg[g][h] = table[g][h]
    <2>1. h \in Window => a[g][h] <= table[g][h]
      BY <1>1 DEF IsResult
    <2>2. worker'.all /\ h \in Window => a[g][h] = table[g][h]
      BY <1>1, <1>4, Zenon DEF IsResult
    <2>3. QED
      BY <1>2, <1>3, <1>4, <2>1, <2>2
  <1>8. CycleInFlight'
    <2> SUFFICES ASSUME NEW g \in Groups, NEW h \in Hours
                 PROVE  /\ worker'.agg[g][h] <= table[g][h]
                        /\ worker'.agg[g][h] > 0 => h + 1 = hour \/ h + 2 = hour
                        /\ worker'.all /\ h + 2 = hour => worker'.agg[g][h] = table[g][h]
                        /\ worker'.all /\ worker'.agg[g][h] > 0 => worker'.agg[g][h] >= rollups[g][h]
      <3>1. hour' = hour /\ table' = table /\ rollups' = rollups /\ hour <= hour
        BY <1>2 DEF QueryUsage
      <3>2. QED
        BY <1>4, <3>1 DEF CycleInFlight
    <2>1. rollups[g][h] <= table[g][h]
      BY DEF RollupInv
    <2>2. h + 2 = hour => h \in Window
      BY <1>2
    <2>3. worker'.agg[g][h] > 0 => h \in Window
      BY <1>4
    <2>4. QED
      BY <1>3, <1>7, <2>1, <2>2, <2>3
  <1>9. \A w \in whole' : w <= hour' /\ (worker'.phase = "upsert" => w <= worker'.at)
    BY <1>4 DEF RollupInv, QueryUsage
  <1>10. QED
    BY <1>6, <1>8, <1>9 DEF RollupInv, RollupsSettle, QueryUsage

\* A cycle replaces rollups of the two hours it is about and no others.
LEMMA UpsertRollupInv ==
  RollupInv /\ UpsertRollup
    => /\ RollupInv'
       /\ worker.all => \A g \in Groups, h \in Hours : rollups'[g][h] >= rollups[g][h]
  <1> SUFFICES ASSUME RollupInv, UpsertRollup
               PROVE  /\ RollupInv'
                      /\ worker.all => \A g \in Groups, h \in Hours : rollups'[g][h] >= rollups[g][h]
    OBVIOUS
  <1>1. /\ Hours \subseteq Nat /\ table \in Counts /\ rollups \in Counts /\ worker.agg \in Counts
        /\ MaxRows \in Nat /\ worker.at \in Hours /\ whole \subseteq Hours /\ hour \in Hours
        /\ worker.at <= hour /\ worker.phase = "upsert"
    BY RollupAssumption DEF RollupInv, RollupTypeOK, CycleInFlight, UpsertRollup, Hours
  <1>2. \A g \in Groups, h \in Hours :
          /\ table[g][h] \in 0 .. MaxRows /\ rollups[g][h] \in 0 .. MaxRows
          /\ worker.agg[g][h] \in 0 .. MaxRows
    BY <1>1, Zenon DEF Counts
  <1>3. \A g \in Groups, h \in Hours :
          rollups'[g][h] = IF worker.agg[g][h] > 0 THEN worker.agg[g][h] ELSE rollups[g][h]
    BY DEF UpsertRollup
  <1>4. \A g \in Groups, h \in Hours :
          /\ worker.agg[g][h] <= table[g][h] /\ rollups[g][h] <= table[g][h]
          /\ worker.agg[g][h] > 0 => h + 1 = worker.at \/ h + 2 = worker.at
          /\ worker.all /\ h + 2 = worker.at => worker.agg[g][h] = table[g][h]
          /\ worker.all /\ worker.agg[g][h] > 0 => worker.agg[g][h] >= rollups[g][h]
    BY <1>1 DEF RollupInv, CycleInFlight
  <1>5. rollups' \in Counts
    BY <1>2 DEF UpsertRollup, Counts
  <1>6. whole' \subseteq Hours /\ \A w \in whole' : w <= hour
    BY <1>1, Zenon DEF UpsertRollup, RollupInv
  <1>7. /\ worker' \in [phase : {"wait", "upsert"}, agg : Counts, at : Hours, all : BOOLEAN]
        /\ worker'.phase = "wait"
    BY IdleType DEF UpsertRollup
  <1>8. RollupTypeOK'
    BY <1>5, <1>6, <1>7 DEF RollupInv, RollupTypeOK, UpsertRollup
  <1>9. \A g \in Groups, h \in Hours : rollups'[g][h] <= table'[g][h]
    BY <1>2, <1>3, <1>4 DEF UpsertRollup
  <1>10. RollupsSettle'
    <2> SUFFICES ASSUME NEW h \in Hours, h + 2 \in whole', NEW g \in Groups
                 PROVE  rollups'[g][h] = table[g][h]
      BY DEF RollupsSettle, UpsertRollup
    <2>1. CASE h + 2 = worker.at
      <3>1. worker.all
        BY <2>1 DEF UpsertRollup
      <3>2. QED
        BY <1>2, <1>3, <1>4, <2>1, <3>1
    <2>2. CASE h + 2 # worker.at
      <3>1. h + 2 \in whole
        BY <2>2 DEF UpsertRollup
      <3>2. h + 2 <= worker.at /\ rollups[g][h] = table[g][h]
        BY <1>1, <3>1 DEF RollupInv, RollupsSettle
      <3>3. ~(worker.agg[g][h] > 0)
        BY <1>1, <1>4, <2>2, <3>2
      <3>4. QED
        BY <1>3, <3>2, <3>3
    <2>3. QED
      BY <2>1, <2>2
  <1>11. RollupInv'
    BY <1>6, <1>7, <1>8, <1>9, <1>10 DEF RollupInv, CycleInFlight, UpsertRollup
  <1>12. QED
    BY <1>2, <1>3, <1>4, <1>11

\* Every step keeps the invariant, and counts nothing away unless it was cut.
LEMMA RollupStep ==
  RollupInv /\ [RollupNext]_rollupVars
    => /\ RollupInv'
       /\ worker.all => \A g \in Groups, h \in Hours : rollups'[g][h] >= rollups[g][h]
  <1> SUFFICES ASSUME RollupInv, [RollupNext]_rollupVars
               PROVE  /\ RollupInv'
                      /\ worker.all => \A g \in Groups, h \in Hours : rollups'[g][h] >= rollups[g][h]
    OBVIOUS
  <1>1. \A g \in Groups, h \in Hours : rollups[g][h] \in Nat
    BY RollupAssumption DEF RollupInv, RollupTypeOK, Counts
  <1>2. rollups' = rollups => \A g \in Groups, h \in Hours : rollups'[g][h] >= rollups[g][h]
    BY <1>1
  <1>3. CASE NextHour
    BY <1>2, <1>3, NextHourInv DEF NextHour
  <1>4. CASE \E g \in Groups, h \in Hours : InsertUsage(g, h)
    BY <1>2, <1>4, InsertUsageInv, Zenon DEF InsertUsage
  <1>5. CASE QueryUsage
    BY <1>2, <1>5, QueryUsageInv, Zenon DEF QueryUsage
  <1>6. CASE UpsertRollup
    BY <1>6, UpsertRollupInv
  <1>7. CASE UpsertFails
    <2>1. /\ worker' \in [phase : {"wait", "upsert"}, agg : Counts, at : Hours, all : BOOLEAN]
          /\ worker'.phase = "wait"
      BY <1>7, IdleType DEF UpsertFails
    <2>2. RollupInv'
      BY <1>7, <2>1 DEF UpsertFails, RollupInv, RollupTypeOK, CycleInFlight, RollupsSettle
    <2>3. QED
      BY <1>2, <1>7, <2>2 DEF UpsertFails
  <1>8. CASE UNCHANGED rollupVars
    BY <1>2, <1>8 DEF rollupVars, RollupInv, RollupTypeOK, CycleInFlight, RollupsSettle
  <1>9. QED
    BY <1>3, <1>4, <1>5, <1>6, <1>7, <1>8 DEF RollupNext

(* The rollups of an hour agree with the table once a query that was not   *)
(* cut has been stored two hours later, for any groups, rows, hours and    *)
(* limit (UsageRollupWorker.rollup, UpsertRollup).                         *)
THEOREM Settles == RollupSpec => []RollupsSettle
  <1>1. RollupInv => RollupsSettle
    BY DEF RollupInv
  <1>2. QED
    BY <1>1, RollupInitInv, RollupStep, PTL DEF RollupSpec

(* UpsertRollup lowers a count only with the result of a query that was    *)
(* cut by its limit.                                                       *)
THEOREM NeverShrink == RollupSpec => RollupsNeverShrink
  <1>1. RollupInv /\ [RollupNext]_rollupVars
          => RollupInv' /\ [worker.all => \A g \in Groups, h \in Hours :
                                            rollups'[g][h] >= rollups[g][h]]_rollupVars
    BY RollupStep
  <1>2. QED
    BY <1>1, RollupInitInv, PTL DEF RollupSpec, RollupsNeverShrink
=============================================================================
