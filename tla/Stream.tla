------------------------------- MODULE Stream -------------------------------
(***************************************************************************)
(* One streamed chat completion.  A reader goroutine of a provider adapter *)
(* (sseutil.ReadSSEStream for openai and ollama, readStream of anthropic   *)
(* and gemini, readBedrockStream) turns upstream events into chunks on a   *)
(* bounded channel; handleChatCompletionStream of internal/server/proxy.go *)
(* writes them to the client as server-sent events and accounts for the    *)
(* stream when it ends.  The two share the channel and the context of the  *)
(* request, which is cancelled when the client leaves and, by net/http,    *)
(* when the handler returns.                                               *)
(*                                                                         *)
(* A data chunk is its number in the stream, a usage report the number of  *)
(* events read when the provider made it, so that both can be told apart.  *)
(* Keep-alive comments change nothing and are left out.                    *)
(***************************************************************************)
EXTENDS Integers, Sequences, FiniteSets

CONSTANTS
  Protocols,  \* adapters: subset of {"openai", "anthropic", "gemini"}
  Cap,        \* capacity of the channel (8)
  MaxEvents   \* bound: upstream events before the body ends

ASSUME StreamAssumption ==
  /\ Protocols \subseteq {"openai", "anthropic", "gemini"}
  /\ Cap \in Nat \ {0} /\ MaxEvents \in Nat

VARIABLES
  proto,      \* the adapter in use; "anthropic" stands for bedrock too
  events,     \* upstream events read
  produced,   \* data chunks made of them
  stopped,    \* message_stop of anthropic was read
  lastUsage,  \* last usage the adapter extracted from the events
  reader,     \* reader goroutine: pc, chunks to send, how, and whether to end
  ch,         \* chunks in the channel
  closed,     \* the channel is closed
  cancelled,  \* ctx.Done()
  handler,    \* handler: pc and the usage of the last chunk that carried one
  wire,       \* what was written to the client
  finished    \* calls of finishStream: status and usage

upstream == <<proto, events, produced, stopped, lastUsage>>
vars     == <<upstream, reader, ch, closed, cancelled, handler, wire, finished>>

NoUsage == -1

\* A usage of zero tokens is 0; anthropic starts from it.
Usages == NoUsage .. MaxEvents

Data(n, u) == [kind |-> "data", n |-> n, usage |-> u]
Done       == [kind |-> "done", n |-> 0, usage |-> NoUsage]
Err        == [kind |-> "err", n |-> 0, usage |-> NoUsage]

Chunk == [kind : {"data"}, n : Nat, usage : Usages] \cup {Done, Err}

TypeOK ==
  /\ proto \in Protocols
  /\ events \in 0 .. MaxEvents
  /\ produced \in Nat
  /\ stopped \in BOOLEAN
  /\ lastUsage \in Usages
  /\ reader \in [pc : {"scan", "send", "ended"}, out : Seq(Chunk), select : BOOLEAN,
                 last : BOOLEAN]
  /\ ch \in Seq(Chunk) /\ Len(ch) <= Cap
  /\ closed \in BOOLEAN
  /\ cancelled \in BOOLEAN
  /\ handler \in [pc : {"loop", "returned"}, usage : Usages]
  /\ wire \in Seq([tag : {"data", "error", "[DONE]"}, n : Nat])
  /\ finished \in Seq([status : {200, 502}, usage : Usages])

Init ==
  /\ proto \in Protocols
  /\ events = 0
  /\ produced = 0
  /\ stopped = FALSE
  /\ lastUsage = IF proto = "anthropic" THEN 0 ELSE NoUsage
  /\ reader = [pc |-> "scan", out |-> <<>>, select |-> FALSE, last |-> FALSE]
  /\ ch = <<>>
  /\ closed = FALSE
  /\ cancelled = FALSE
  /\ handler = [pc |-> "loop", usage |-> NoUsage]
  /\ wire = <<>>
  /\ finished = <<>>
-----------------------------------------------------------------------------
(* The reader. *)

\* Chunks to send before the next line is read: in a select with ctx.Done().
Emit(out) ==
  reader' = [pc |-> "send", out |-> out, select |-> TRUE, last |-> FALSE]

\* Chunks to send before the goroutine returns: in plain sends.
EmitAndReturn(out) ==
  reader' = [pc |-> "send", out |-> out, select |-> FALSE, last |-> TRUE]

CanRead == reader.pc = "scan" /\ events < MaxEvents /\ ~ stopped

\* An event that becomes one chunk: a piece of the answer, or message_start of
\* anthropic.  openai forwards the usage it carries with it, the others keep
\* the token counts for the end.
ReadText(withUsage) ==
  LET u == IF withUsage THEN events + 1 ELSE NoUsage
  IN  /\ CanRead
      /\ events' = events + 1
      /\ produced' = produced + 1
      /\ lastUsage' = IF withUsage THEN u ELSE lastUsage
      /\ Emit(<<Data(produced + 1, IF proto = "openai" THEN u ELSE NoUsage)>>)
      /\ UNCHANGED <<proto, stopped, ch, closed, cancelled, handler, wire, finished>>

\* A line that yields no chunk: comments, pings, events of no interest, the
\* token counts of message_delta, a usageMetadata without text.
ReadSilent(withUsage) ==
  /\ CanRead
  /\ withUsage => proto # "openai"
  /\ events' = events + 1
  /\ lastUsage' = IF withUsage THEN events + 1 ELSE lastUsage
  /\ UNCHANGED <<proto, produced, stopped, reader, ch, closed, cancelled, handler,
                 wire, finished>>

\* "data: [DONE]" of openai and ollama.
ReadDone ==
  /\ CanRead /\ proto = "openai"
  /\ events' = events + 1
  /\ EmitAndReturn(<<Done>>)
  /\ UNCHANGED <<proto, produced, stopped, lastUsage, ch, closed, cancelled, handler,
                 wire, finished>>

\* message_stop of anthropic: finish chunk, usage chunk and Done; the loop
\* goes on to the end of the body.
ReadStop ==
  /\ CanRead /\ proto = "anthropic"
  /\ events' = events + 1
  /\ stopped' = TRUE
  /\ produced' = produced + 2
  /\ Emit(<<Data(produced + 1, NoUsage), Data(produced + 2, lastUsage), Done>>)
  /\ UNCHANGED <<proto, lastUsage, ch, closed, cancelled, handler, wire, finished>>

\* The body ends: for gemini that is the regular end, and its usage and Done
\* are sent; the others just return.
ReadEOF ==
  /\ reader.pc = "scan"
  /\ IF proto = "gemini"
     THEN /\ produced' = IF lastUsage # NoUsage THEN produced + 1 ELSE produced
          /\ EmitAndReturn(IF lastUsage # NoUsage THEN <<Data(produced + 1, lastUsage), Done>>
                                            ELSE <<Done>>)
     ELSE /\ EmitAndReturn(<<>>)
          /\ UNCHANGED produced
  /\ UNCHANGED <<proto, events, stopped, lastUsage, ch, closed, cancelled, handler,
                 wire, finished>>

\* Reading fails, by the network, a line that is too long, a malformed or exception
\* frame, or because the context of the upstream request is cancelled.
ReadError ==
  /\ reader.pc = "scan"
  /\ EmitAndReturn(<<Err>>)
  /\ UNCHANGED <<upstream, ch, closed, cancelled, handler, wire, finished>>

\* ch <- chunk, when there is room.
Send ==
  /\ reader.pc = "send" /\ reader.out # <<>>
  /\ Len(ch) < Cap
  /\ ch' = Append(ch, Head(reader.out))
  /\ reader' = [reader EXCEPT
                  !.out = Tail(@),
                  !.pc  = IF Len(reader.out) = 1 /\ ~ reader.last THEN "scan" ELSE @]
  /\ UNCHANGED <<upstream, closed, cancelled, handler, wire, finished>>

\* Mutant: the reader just returns when the context is done.
AbortSilently ==
  /\ reader.pc = "send" /\ reader.out # <<>> /\ reader.select
  /\ cancelled
  /\ EmitAndReturn(<<>>)
  /\ UNCHANGED <<upstream, ch, closed, cancelled, handler, wire, finished>>

\* case <-ctx.Done(): the error is sent in a plain send, then return.
Abort ==
  /\ reader.pc = "send" /\ reader.out # <<>> /\ reader.select
  /\ cancelled
  /\ EmitAndReturn(<<Err>>)
  /\ UNCHANGED <<upstream, ch, closed, cancelled, handler, wire, finished>>

\* Mutant: the goroutine returns and leaves its channel open.
CloseChannelForgotten ==
  /\ reader.pc = "send" /\ reader.out = <<>> /\ reader.last
  /\ reader' = [reader EXCEPT !.pc = "ended"]
  /\ UNCHANGED <<upstream, ch, closed, cancelled, handler, wire, finished>>

\* The deferred close(ch).
CloseChannel ==
  /\ reader.pc = "send" /\ reader.out = <<>> /\ reader.last
  /\ reader' = [reader EXCEPT !.pc = "ended"]
  /\ closed' = TRUE
  /\ UNCHANGED <<upstream, ch, cancelled, handler, wire, finished>>
-----------------------------------------------------------------------------
(* The handler. *)

\* Mutant: the usage is forgotten by the last call.
finishStreamNoUsage(status, usage) ==
  finished' = Append(finished, [status |-> status, usage |-> NoUsage])

finishStream(status, usage) ==
  finished' = Append(finished, [status |-> status, usage |-> usage])

Writes(tag, n) == Append(wire, [tag |-> tag, n |-> n])

\* Mutant: a stream that fails is not accounted for.
EndStreamUnaccounted(status, lines) ==
  /\ wire' = wire \o lines
  /\ IF status = 200 THEN finishStream(status, handler'.usage) ELSE UNCHANGED finished
  /\ cancelled' = TRUE

\* What the handler does with a chunk that ends the stream.  net/http cancels
\* the context of the request when the handler returns.
EndStream(status, lines) ==
  /\ wire' = wire \o lines
  /\ finishStream(status, handler'.usage)
  /\ cancelled' = TRUE

DoneLine  == [tag |-> "[DONE]", n |-> 0]
ErrorLine == [tag |-> "error", n |-> 0]

\* Mutant: an error chunk does not end the loop.
processStreamChunkGoesOn(c) ==
  LET usage == IF c.usage # NoUsage THEN c.usage ELSE handler.usage
  IN  /\ handler' = [pc |-> IF c.kind = "done" THEN "returned" ELSE "loop", usage |-> usage]
      /\ CASE c.kind = "data" -> /\ wire' = Writes("data", c.n)
                                 /\ UNCHANGED <<cancelled, finished>>
           [] c.kind = "done" -> EndStream(200, <<DoneLine>>)
           [] c.kind = "err"  -> /\ wire' = wire \o <<ErrorLine, DoneLine>>
                                 /\ finishStream(502, usage)
                                 /\ UNCHANGED cancelled

\* processStreamChunk, for a chunk: the usage it carries is kept, then data is
\* written, and Done or Err end the stream.
processStreamChunk(c) ==
  LET usage == IF c.usage # NoUsage THEN c.usage ELSE handler.usage
  IN  /\ handler' = [pc |-> IF c.kind = "data" THEN "loop" ELSE "returned", usage |-> usage]
      /\ CASE c.kind = "data" -> /\ wire' = Writes("data", c.n)
                                 /\ UNCHANGED <<cancelled, finished>>
           [] c.kind = "done" -> EndStream(200, <<DoneLine>>)
           [] c.kind = "err"  -> EndStream(502, <<ErrorLine, DoneLine>>)

Receive ==
  /\ handler.pc = "loop"
  /\ ch # <<>>
  /\ ch' = Tail(ch)
  /\ processStreamChunk(Head(ch))
  /\ UNCHANGED <<upstream, reader, closed>>

\* processStreamChunk with chOpen false.
ReceiveClosed ==
  /\ handler.pc = "loop"
  /\ ch = <<>> /\ closed
  /\ handler' = [handler EXCEPT !.pc = "returned"]
  /\ EndStream(200, <<DoneLine>>)
  /\ UNCHANGED <<upstream, reader, ch, closed>>

\* case <-r.Context().Done(): return.
HandlerAborts ==
  /\ handler.pc = "loop"
  /\ cancelled
  /\ handler' = [handler EXCEPT !.pc = "returned"]
  /\ UNCHANGED <<upstream, reader, ch, closed, cancelled, wire, finished>>

\* The client closes its connection.
ClientLeaves ==
  /\ ~ cancelled
  /\ cancelled' = TRUE
  /\ UNCHANGED <<upstream, reader, ch, closed, handler, wire, finished>>

ReaderReads ==
  \/ \E withUsage \in BOOLEAN : ReadText(withUsage) \/ ReadSilent(withUsage)
  \/ ReadDone
  \/ ReadStop
  \/ ReadEOF
  \/ ReadError

ReaderSends == Send \/ Abort \/ CloseChannel

HandlerStep == Receive \/ ReceiveClosed \/ HandlerAborts

\* Both goroutines are done, or the reader is left behind in a send.
Over ==
  /\ handler.pc = "returned"
  /\ \/ reader.pc = "ended"
     \/ reader.pc = "send" /\ ~ reader.select /\ Len(ch) = Cap
  /\ UNCHANGED vars

Next == ReaderReads \/ ReaderSends \/ HandlerStep \/ ClientLeaves \/ Over

Spec == Init /\ [][Next]_vars

\* The scheduler runs a goroutine that is ready.  A provider may be silent for
\* as long as it likes; only once the context is cancelled does net/http make
\* the pending read of the body fail.
FairSpec ==
  /\ Spec
  /\ WF_vars(ReaderSends)
  /\ WF_vars(HandlerStep)
  /\ WF_vars(cancelled /\ ReadError)
-----------------------------------------------------------------------------
Count(tag) == Cardinality({i \in 1 .. Len(wire) : wire[i].tag = tag})

(* The client is told once that the stream is over, and nothing follows:   *)
(* processStreamChunk ends the loop wherever it writes "[DONE]".           *)
OneDoneLast ==
  \A i \in 1 .. Len(wire) : wire[i].tag = "[DONE]" => i = Len(wire)

(* The stream is accounted for exactly when the client was told that it is *)
(* over: finishStream is called once with every "[DONE]", and never when   *)
(* the client left before.                                                 *)
AccountedOnce == Len(finished) = Count("[DONE]")

(* A stream that is accounted a success delivered every chunk that the     *)
(* reader made, in order, and then "[DONE]": a chunk that the reader drops *)
(* because the context is done makes the stream an error, not a short      *)
(* success.                                                                *)
SuccessIsComplete ==
  \A i \in 1 .. Len(finished) :
    finished[i].status = 200
      => wire = Append([k \in 1 .. produced |-> [tag |-> "data", n |-> k]], DoneLine)

(* The usage a successful stream is charged for is the last one that the   *)
(* adapter read from the provider before it made its Done.                 *)
ChargesLastUsage ==
  \A i \in 1 .. Len(finished) :
    finished[i].status = 200 /\ (proto = "anthropic" => stopped)
      => finished[i].usage = lastUsage

(* The handler does not outlive the stream: once the reader has read the   *)
(* end of it, or the client has left, the handler returns.                 *)
HandlerReturns ==
  reader.last \/ cancelled ~> handler.pc = "returned"

(* internal/provider/sseutil/stream.go: "The channel is closed when done." *)
(* A reader whose request is cancelled ends and closes its channel.        *)
ReaderEnds == cancelled ~> closed
=============================================================================
