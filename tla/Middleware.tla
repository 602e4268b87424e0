----------------------------- MODULE Middleware -----------------------------
(***************************************************************************)
(* The HTTP side of the gateway: the chain of middleware that New of       *)
(* internal/server/server.go puts around the handlers, and what a handler  *)
(* may do with the response.                                               *)
(*                                                                         *)
(* logging, metricsMiddleware and tracingMiddleware each wrap the response *)
(* in a statusWriter from one pool that all requests share, call on, note  *)
(* the status that the writer captured and put it back.  A panic unwinds   *)
(* through them to recovery, which answers 500.  A writer is an object     *)
(* with a pointer to what it wraps: another writer, or the connection of a *)
(* request.                                                                *)
(***************************************************************************)
EXTENDS Integers, Sequences, FiniteSets

CONSTANTS
  Requests,   \* connections, each with one request at a time
  Writers,    \* statusWriter objects
  Layers,     \* wrapping middleware, outermost first
  Codes,      \* statuses that handlers answer with
  MaxPanics   \* bound: panics

ASSUME MiddlewareAssumption ==
  /\ IsFiniteSet(Requests)
  /\ Layers \in Seq({"logging", "metrics", "tracing"})
  /\ \A i, j \in 1 .. Len(Layers) : Layers[i] = Layers[j] => i = j
  /\ Codes \subseteq 100 .. 599 /\ MaxPanics \in Nat
  /\ Requests \cap Writers = {}

Nil == "nil"

VARIABLES
  pool,      \* statusWriterPool
  writer,    \* writer -> what it wraps, status and wroteHeader
  gauge,     \* Metrics.ActiveRequests
  pc,        \* request -> where it is
  probe,     \* request -> it is for a probe endpoint, outside the layers
  held,      \* request -> writers of the layers it is inside of
  sent,      \* request -> status on the connection, 0 before there is one
  noted,     \* history: request -> statuses that its layers noted
  panicked,  \* history: request -> its handler panicked
  panics     \* history: panics inside the metrics layer

reqVars == <<pc, probe, held, noted, panicked>>
mwVars  == <<pool, writer, gauge, reqVars, sent, panics>>

AllRequests(v) == [r \in Requests |-> v]
NewWriter == [under |-> Nil, status |-> 200, wrote |-> FALSE]
NewWriters == [w \in Writers |-> NewWriter]

MiddlewareInit ==
  /\ pool = {} /\ writer = NewWriters /\ gauge = 0 /\ panics = 0
  /\ pc = AllRequests("idle") /\ probe = AllRequests(FALSE) /\ held = AllRequests(<<>>)
  /\ sent = AllRequests(0) /\ noted = AllRequests(<<>>) /\ panicked = AllRequests(FALSE)

\* The process ends, and all of it is gone.
MiddlewareEnds ==
  /\ pool' = {} /\ writer' = NewWriters /\ gauge' = 0 /\ panics' = 0
  /\ pc' = AllRequests("idle") /\ probe' = AllRequests(FALSE) /\ held' = AllRequests(<<>>)
  /\ sent' = AllRequests(0) /\ noted' = AllRequests(<<>>) /\ panicked' = AllRequests(FALSE)
-----------------------------------------------------------------------------
(* The response: what a call on the outermost writer does to the writers   *)
(* below it and to the connection.                                         *)

Top(r) == IF held[r] = <<>> THEN r ELSE held[r][Len(held[r])]

\* The writers and the connection that a call on the response of r gets to.
Reached(r) ==
  LET below[n \in 0 .. Len(Layers)] ==
        IF n = 0 THEN Top(r)
        ELSE IF below[n - 1] \in Writers THEN writer[below[n - 1]].under ELSE below[n - 1]
  IN  {below[n] : n \in 0 .. Len(Layers)}

\* Only the first status takes effect, on the connection as in the writers.
WriteHeader(r, code) ==
  /\ writer' = [w \in Writers |-> IF w \in Reached(r) /\ ~ writer[w].wrote
                                  THEN [writer[w] EXCEPT !.status = code, !.wrote = TRUE]
                                  ELSE writer[w]]
  /\ sent' = [q \in Requests |-> IF q \in Reached(r) /\ sent[q] = 0 THEN code ELSE sent[q]]

\* A first Write without a status implies 200, as does a Flush, which handlers
\* call only after one of the two.
Write(r) ==
  /\ writer' = [w \in Writers |-> IF w \in Reached(r) THEN [writer[w] EXCEPT !.wrote = TRUE]
                                  ELSE writer[w]]
  /\ sent' = [q \in Requests |-> IF q \in Reached(r) /\ sent[q] = 0 THEN 200 ELSE sent[q]]
-----------------------------------------------------------------------------
(* The chain. *)

Arrive(r, p) ==
  /\ pc[r] = "idle"
  /\ probe' = [probe EXCEPT ![r] = p]
  /\ pc' = [pc EXCEPT ![r] = IF p \/ Layers = <<>> THEN "serve" ELSE "enter"]
  /\ UNCHANGED <<pool, writer, gauge, held, sent, noted, panicked, panics>>

IsHeld(w) == \E r \in Requests : \E i \in 1 .. Len(held[r]) : held[r][i] = w

\* Get of a sync.Pool: an object of the pool or, whatever is in it, a new one.
Gettable(w) == w \in pool \/ ~ IsHeld(w)

\* Mutant: the status of the last request is left in the writer.
ResetKeeps(w, under) == [writer[w] EXCEPT !.under = under, !.wrote = FALSE]

\* The fields are reset on Get.
Reset(w, under) == [under |-> under, status |-> 200, wrote |-> FALSE]

\* Mutant: the writer is put back before the call instead of after it.
EnterReleases(r, w) ==
  LET n == Len(held[r]) + 1
  IN  /\ pc[r] = "enter"
      /\ Gettable(w)
      /\ pool' = pool \cup {w}
      /\ writer' = [writer EXCEPT ![w] = Reset(w, Top(r))]
      /\ held' = [held EXCEPT ![r] = Append(@, w)]
      /\ gauge' = IF Layers[n] = "metrics" THEN gauge + 1 ELSE gauge
      /\ pc' = [pc EXCEPT ![r] = IF n = Len(Layers) THEN "serve" ELSE "enter"]
      /\ UNCHANGED <<probe, sent, noted, panicked, panics>>

\* A layer up to next.ServeHTTP.
Enter(r, w) ==
  LET n == Len(held[r]) + 1
  IN  /\ pc[r] = "enter"
      /\ Gettable(w)
      /\ pool' = pool \ {w}
      /\ writer' = [writer EXCEPT ![w] = Reset(w, Top(r))]
      /\ held' = [held EXCEPT ![r] = Append(@, w)]
      /\ gauge' = IF Layers[n] = "metrics" THEN gauge + 1 ELSE gauge
      /\ pc' = [pc EXCEPT ![r] = IF n = Len(Layers) THEN "serve" ELSE "enter"]
      /\ UNCHANGED <<probe, sent, noted, panicked, panics>>

\* Mutant: the gauge is not decremented.
LeaveUncounted(r) ==
  LET n == Len(held[r])
      w == held[r][n]
  IN  /\ pc[r] = "leave" /\ n > 0
      /\ noted' = [noted EXCEPT ![r] = Append(@, writer[w].status)]
      /\ writer' = [writer EXCEPT ![w].under = Nil]
      /\ pool' = pool \cup {w}
      /\ held' = [held EXCEPT ![r] = SubSeq(@, 1, n - 1)]
      /\ UNCHANGED <<gauge, pc, probe, sent, panicked, panics>>

\* A layer after next.ServeHTTP.
Leave(r) ==
  LET n == Len(held[r])
      w == held[r][n]
  IN  /\ pc[r] = "leave" /\ n > 0
      /\ noted' = [noted EXCEPT ![r] = Append(@, writer[w].status)]
      /\ writer' = [writer EXCEPT ![w].under = Nil]
      /\ pool' = pool \cup {w}
      /\ held' = [held EXCEPT ![r] = SubSeq(@, 1, n - 1)]
      /\ gauge' = IF Layers[n] = "metrics" THEN gauge - 1 ELSE gauge
      /\ UNCHANGED <<pc, probe, sent, panicked, panics>>

\* The handler has returned through all layers: net/http completes a response
\* that has no status with 200.
Complete(r) ==
  /\ pc[r] = "leave" /\ held[r] = <<>>
  /\ sent' = [sent EXCEPT ![r] = IF @ = 0 THEN 200 ELSE @]
  /\ pc' = [pc EXCEPT ![r] = "over"]
  /\ UNCHANGED <<pool, writer, gauge, probe, held, noted, panicked, panics>>

\* The connection is ready for the next request.
Finish(r) ==
  /\ pc[r] = "over"
  /\ pc' = [pc EXCEPT ![r] = "idle"]
  /\ probe' = [probe EXCEPT ![r] = FALSE]
  /\ sent' = [sent EXCEPT ![r] = 0]
  /\ noted' = [noted EXCEPT ![r] = <<>>]
  /\ panicked' = [panicked EXCEPT ![r] = FALSE]
  /\ UNCHANGED <<pool, writer, gauge, held, panics>>

\* The layers after the call are not deferred: nothing is noted, the writers
\* are left to the garbage collector, so that their names are free for new ones,
\* and the gauge stays.
Panic(r) ==
  /\ pc[r] \in {"serve", "body"}
  /\ panics < MaxPanics
  /\ panics' = IF \E i \in 1 .. Len(held[r]) : Layers[i] = "metrics" THEN panics + 1 ELSE panics
  /\ panicked' = [panicked EXCEPT ![r] = TRUE]
  /\ sent' = [sent EXCEPT ![r] = IF @ = 0 THEN 500 ELSE @]
  /\ writer' = [w \in Writers |-> IF w \in Reached(r) THEN NewWriter ELSE writer[w]]
  /\ held' = [held EXCEPT ![r] = <<>>]
  /\ pc' = [pc EXCEPT ![r] = "over"]
  /\ UNCHANGED <<pool, gauge, probe, noted>>
-----------------------------------------------------------------------------
(* The handlers. *)

Returns(r) ==
  /\ pc' = [pc EXCEPT ![r] = "leave"]
  /\ UNCHANGED <<pool, gauge, probe, held, noted, panicked, panics>>

errorStatus(err) ==
  CASE err \in {"unauthorized", "key expired"}                    -> 401
    [] err \in {"forbidden", "model not allowed", "key blocked"}  -> 403
    [] err = "not found"                                          -> 404
    [] err = "conflict"                                           -> 409
    [] err = "rate limited"                                       -> 429
    [] err = "bad request"                                        -> 400
    [] OTHER                                                      -> 500

\* writeJSON, w.WriteHeader(204), and the text of the probes.
Answer(r, code) ==
  /\ pc[r] = "serve"
  /\ WriteHeader(r, code)
  /\ Returns(r)

\* Nothing is written: a response that cannot be marshalled, or a native
\* request whose URL cannot be built.
AnswerNothing(r) ==
  /\ pc[r] = "serve" /\ ~ probe[r]
  /\ Returns(r)
  /\ UNCHANGED <<writer, sent>>

\* A response in pieces begins: writeSSEHeaders with 200, or ForwardRequest
\* with the status of the upstream response.
StartBody(r, code) ==
  /\ pc[r] = "serve"
  /\ WriteHeader(r, code)
  /\ pc' = [pc EXCEPT ![r] = "body"]
  /\ UNCHANGED <<pool, gauge, probe, held, noted, panicked, panics>>

\* A piece is written and flushed.
SendPiece(r) ==
  /\ pc[r] = "body"
  /\ Write(r)
  /\ UNCHANGED <<pool, gauge, reqVars, panics>>

\* The pieces end, by the end of the upstream body, by an error of either side,
\* or at the size limit: ForwardRequest can only log which, and the handler
\* returns all the same.
EndBody(r) ==
  /\ pc[r] = "body"
  /\ Returns(r)
  /\ UNCHANGED <<writer, sent>>

ChainStep(r) ==
  \/ \E w \in Writers : Enter(r, w)
  \/ Leave(r)
  \/ Complete(r)
  \/ Finish(r)
  \/ Panic(r)

HandlerStep(r) ==
  \/ \E code \in Codes : Answer(r, code) \/ StartBody(r, code)
  \/ AnswerNothing(r)
  \/ SendPiece(r)
  \/ EndBody(r)
-----------------------------------------------------------------------------
(* A writer is used by one request at a time, for one layer of it, and     *)
(* never while it is in statusWriterPool: a response can reach no other    *)
(* connection.                                                             *)
WriterExclusive ==
  /\ \A r, q \in Requests : \A i \in 1 .. Len(held[r]), j \in 1 .. Len(held[q]) :
       held[r][i] = held[q][j] => r = q /\ i = j
  /\ \A w \in pool : ~ IsHeld(w)

(* The log, the metrics and the trace of a request say the status that its *)
(* client got, whatever the handler wrote and in which order, and a        *)
(* request that panicked is in none of them and is answered.               *)
NotesWhatWasSent ==
  \A r \in Requests : pc[r] = "over" =>
    /\ sent[r] # 0
    /\ noted[r] = [i \in 1 .. (IF panicked[r] \/ probe[r] THEN 0 ELSE Len(Layers)) |-> sent[r]]

(* ActiveRequests is the number of requests inside the metrics layer, and  *)
(* one more for every panic there: Dec is not deferred.                    *)
GaugeOffByPanics ==
  gauge = panics + Cardinality({r \in Requests : \E i \in 1 .. Len(held[r]) : Layers[i] = "metrics"})
=============================================================================
