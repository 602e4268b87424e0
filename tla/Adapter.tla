------------------------------ MODULE Adapter ------------------------------
(***************************************************************************)
(* A conversation through the provider adapters: ChatCompletion of the     *)
(* clients in internal/provider/openai (which ollama's is like), anthropic *)
(* and gemini, with translateRequest and translateResponse of the latter   *)
(* two, and the client of the gateway, which sends the conversation so far *)
(* with every request and answers the tool calls of a reply.               *)
(*                                                                         *)
(* Content is a sequence of parts; a JSON string is content of one part,   *)
(* and joining texts joins their parts.  The parameters of a request, the  *)
(* token counts and the finish reason, which are copied one by one, are    *)
(* left out.                                                               *)
(***************************************************************************)
EXTENDS Integers, Sequences, FiniteSets

CONSTANTS
  Types,      \* provider types: subset of {"openai", "anthropic", "gemini"}
  Openings,   \* message lists that conversations begin with
  Replies,    \* what providers say: sequences of blocks [kind, v]
  Ids,        \* IDs that providers give to tool calls, in this order
  MaxRounds   \* bound: requests of a conversation that are answered

\* What a field for the ID of a call has when there is none.
NoID == ""

Part    == [kind : STRING, v : STRING]
Message == [role : STRING, content : Seq(Part),
            calls : Seq([id : STRING, name : STRING]), id : STRING]

\* Calls have IDs and names.  A conversation does not begin with the result of
\* a tool, and "model" is a role of gemini's API only.
ASSUME AdapterAssumption ==
  /\ Types \subseteq {"openai", "anthropic", "gemini"}
  /\ MaxRounds \in Nat
  /\ \A ms \in Openings :
       /\ ms \in Seq(Message) /\ ms # <<>>
       /\ \A i \in 1 .. Len(ms) : ms[i].role \notin {"tool", "model"} /\ ms[i].id = NoID
  /\ \A reply \in Replies :
       /\ reply \in Seq(Part)
       /\ \A i \in 1 .. Len(reply) : reply[i].kind = "call" => reply[i].v # NoID
  /\ Ids \in Seq(STRING \ {NoID})

VARIABLES
  msgs,      \* messages of the conversation, as the client has them
  phase,     \* "new", "ask": the client has a request, "sent", "told": it has a reply
  via,       \* type of the provider that was asked last
  wire,      \* the request as it was sent to that provider
  rounds,    \* replies so far
  said,      \* history: what user and assistant said: [who, text]
  made,      \* history: tool calls that providers made: [via, id, name]
  answered   \* history: the call that each tool message answers

chatVars == <<msgs, phase, via, wire, rounds, said, made, answered>>

\* The sequences of ss one after the other: what a loop has collected that
\* appends something, or nothing, for each element it comes to.
Joined(ss) ==
  LET upTo[k \in 0 .. Len(ss)] == IF k = 0 THEN <<>> ELSE upTo[k - 1] \o ss[k]
  IN  upTo[Len(ss)]

\* The text of a string, or of the text parts of an array.
extractText(content) ==
  Joined([i \in 1 .. Len(content) |->
            IF content[i].kind = "text" THEN <<content[i]>> ELSE <<>>])
-----------------------------------------------------------------------------
(* Requests: the turns that an adapter makes of a message. *)

Turn(role, content, result, calls) ==
  [role |-> role, content |-> content, result |-> result, calls |-> calls]

\* The system message that comes last.
System(ms) ==
  LET sys == {i \in 1 .. Len(ms) : ms[i].role = "system"}
  IN  IF sys = {} THEN <<>> ELSE ms[CHOOSE i \in sys : \A j \in sys : j <= i].content

\* anthropic: content goes as it is, and a tool result is said by the user.
anthropicTurn(m) ==
  CASE m.role \in {"user", "assistant"} -> <<Turn(m.role, m.content, NoID, <<>>)>>
    [] m.role = "tool"                  -> <<Turn("user", m.content, m.id, <<>>)>>
    [] OTHER                            -> <<>>

\* gemini: only text goes, and a tool result is named by what the client gives
\* as the ID of the call.
geminiTurn(m) ==
  CASE m.role = "user"      -> <<Turn("user", extractText(m.content), NoID, <<>>)>>
    [] m.role = "assistant" -> <<Turn("model", extractText(m.content), NoID, <<>>)>>
    [] m.role = "tool"      -> <<Turn("user", m.content, m.id, <<>>)>>
    [] OTHER                -> <<>>

\* openai and ollama: the message as it is.
openaiTurn(m) == <<Turn(m.role, m.content, m.id, m.calls)>>

turnOf(t, m) ==
  CASE t = "anthropic" -> anthropicTurn(m)
    [] t = "gemini"    -> geminiTurn(m)
    [] t = "openai"    -> openaiTurn(m)

systemOf(t, ms) ==
  CASE t = "anthropic" -> System(ms)
    [] t = "gemini"    -> extractText(System(ms))
    [] t = "openai"    -> <<>>

\* Mutant: the turns of the assistant are collected apart, after the others.
translateRequestReordered(t, ms) ==
  LET apart(theirs) == Joined([i \in 1 .. Len(ms) |->
                                 IF (ms[i].role = "assistant") = theirs
                                 THEN turnOf(t, ms[i]) ELSE <<>>])
  IN  [system |-> systemOf(t, ms), turns |-> apart(FALSE) \o apart(TRUE)]

translateRequest(t, ms) ==
  [system |-> systemOf(t, ms),
   turns  |-> Joined([i \in 1 .. Len(ms) |-> turnOf(t, ms[i])])]
-----------------------------------------------------------------------------
(* Responses. *)

Assistant(content, calls) ==
  [role |-> "assistant", content |-> content, calls |-> calls, id |-> NoID]

\* Mutant: gemini's calls are numbered, as its API has no IDs.
callIDNumbered(t, call) == IF t = "gemini" THEN "call_" ELSE call.id

\* gemini has no IDs: the name of the function stands for one.
callID(t, call) == IF t = "gemini" THEN call.name ELSE call.id

\* Texts and tool calls of a reply, in the order of its blocks.
translateResponse(t, reply, calls) ==
  Assistant(extractText(reply),
            [i \in 1 .. Len(calls) |-> [id |-> callID(t, calls[i]), name |-> calls[i].name]])
-----------------------------------------------------------------------------
NoWire == [system |-> <<>>, turns |-> <<>>]

\* What the client takes user and assistant to have said.
Talk(ms) ==
  Joined([i \in 1 .. Len(ms) |->
            IF ms[i].role \in {"user", "assistant"}
            THEN <<[who |-> ms[i].role, text |-> extractText(ms[i].content)]>> ELSE <<>>])

AdapterInit ==
  /\ msgs = <<>>
  /\ phase = "new"
  /\ via = "none"
  /\ wire = NoWire
  /\ rounds = 0
  /\ said = <<>>
  /\ made = <<>>
  /\ answered = <<>>

\* A client begins a conversation.
Open(ms) ==
  /\ phase = "new"
  /\ phase' = "ask"
  /\ msgs' = ms
  /\ said' = Talk(ms)
  /\ UNCHANGED <<via, wire, rounds, made, answered>>

\* The router picks a provider, whose ChatCompletion sends the request.
ChatCompletion(t) ==
  /\ phase = "ask" /\ rounds < MaxRounds
  /\ phase' = "sent"
  /\ via' = t
  /\ wire' = translateRequest(t, msgs)
  /\ UNCHANGED <<msgs, rounds, said, made, answered>>

\* The request cannot be sent, is refused (ParseAPIError), or its response
\* cannot be read: the next provider is asked, or the client asks again.
ExchangeFails ==
  /\ phase = "sent"
  /\ phase' = "ask"
  /\ via' = "none" /\ wire' = NoWire
  /\ UNCHANGED <<msgs, rounds, said, made, answered>>

Told(m) ==
  /\ phase' = "told"
  /\ msgs' = Append(msgs, m)
  /\ rounds' = rounds + 1
  /\ UNCHANGED <<via, wire, answered>>

\* The provider replies, and numbers the calls it makes.
Reply(reply) ==
  LET blocks == Joined([i \in 1 .. Len(reply) |->
                          IF reply[i].kind = "call" THEN <<reply[i]>> ELSE <<>>])
      calls  == [i \in 1 .. Len(blocks) |->
                   [via |-> via, id |-> Ids[Len(made) + i], name |-> blocks[i].v]]
  IN  /\ phase = "sent"
      /\ Len(made) + Len(blocks) <= Len(Ids)
      /\ Told(translateResponse(via, reply, calls))
      /\ made' = made \o calls
      /\ said' = Append(said, [who |-> "assistant", text |-> extractText(reply)])

\* A body that is not what it should be is an error to a decoder, and an empty
\* reply to gjson, which anthropic and gemini are read with.
ReplyGarbled ==
  /\ phase = "sent"
  /\ via \in {"anthropic", "gemini"}
  /\ Told(translateResponse(via, <<>>, <<>>))
  /\ said' = Append(said, [who |-> "assistant", text |-> <<>>])
  /\ UNCHANGED made

ToolMessage(id) == [role |-> "tool", content |-> <<>>, calls |-> <<>>, id |-> id]

\* The client answers the calls of the reply, in an order of its own, and asks
\* again with the longer conversation.
AnswerCalls(order) ==
  LET calls == msgs[Len(msgs)].calls
      n     == Len(calls)
  IN  /\ phase = "told" /\ n > 0
      /\ phase' = "ask" /\ via' = "none" /\ wire' = NoWire
      /\ msgs' = msgs \o [i \in 1 .. n |-> ToolMessage(calls[order[i]].id)]
      /\ answered' = answered \o [i \in 1 .. n |-> made[Len(made) - n + order[i]]]
      /\ UNCHANGED <<rounds, said, made>>

\* The client says something else.
SayMore(m) ==
  /\ phase = "told"
  /\ phase' = "ask" /\ via' = "none" /\ wire' = NoWire
  /\ msgs' = Append(msgs, m)
  /\ said' = said \o Talk(<<m>>)
  /\ UNCHANGED <<rounds, made, answered>>

Orders(n) == {f \in [1 .. n -> 1 .. n] : \A i, j \in 1 .. n : f[i] = f[j] => i = j}

AdapterNext ==
  \/ \E ms \in Openings : Open(ms)
  \/ \E t \in Types : ChatCompletion(t)
  \/ ExchangeFails
  \/ \E reply \in Replies : Reply(reply)
  \/ ReplyGarbled
  \/ phase = "told" /\ \E order \in Orders(Len(msgs[Len(msgs)].calls)) : AnswerCalls(order)
  \/ \E ms \in Openings : SayMore(ms[Len(ms)])
-----------------------------------------------------------------------------
\* What the turns of a request say, and who they say said it.
Speech(turns) ==
  Joined([i \in 1 .. Len(turns) |->
            IF turns[i].result = NoID /\ turns[i].role \in {"user", "assistant", "model"}
            THEN <<[who  |-> IF turns[i].role = "user" THEN "user" ELSE "assistant",
                    text |-> extractText(turns[i].content)]>>
            ELSE <<>>])

\* The names under which the turns of a request give the results of tools.
ResultNames(turns) ==
  Joined([i \in 1 .. Len(turns) |->
            IF turns[i].result # NoID THEN <<turns[i].result>> ELSE <<>>])

(* What user and assistant said is what the next provider is told they     *)
(* said, word for word and in order, whichever adapters translated the     *)
(* replies and the requests in between.                                    *)
SpeechKept == phase = "sent" => Speech(wire.turns) = said

(* A tool result reaches the provider under the name by which it made the  *)
(* call: its ID, or for gemini its function.  The names are those of       *)
(* another type only after a failover to it.                               *)
ResultsNameCalls ==
  LET names == ResultNames(wire.turns)
  IN  phase = "sent"
        => /\ Len(names) = Len(answered)
           /\ \A k \in 1 .. Len(answered) :
                answered[k].via = via
                  => names[k] = IF via = "gemini" THEN answered[k].name ELSE answered[k].id
=============================================================================
