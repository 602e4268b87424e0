---- MODULE MCChatPath ----
(* Keys: two callers, two models, message lists that differ in a role, in  *)
(* a content or only in formatting, and parameters that differ in          *)
(* presence, within and beyond the rounding, or overflow.                  *)
(* Cache: two requests; the TTL of the route is unset or below the         *)
(* fallback, and the fallback reaches the expiry of the otter cache.       *)
(* Adapters: openings with an image, with a role that only openai knows    *)
(* and with two system messages; replies of text, of calls, of both, and   *)
(* with two calls of the same function and of different ones.              *)
EXTENDS ChatPath, TLC

Raw(v, f) == [val |-> v, fmt |-> f]
Msg(r, v, f) == [role |-> r, content |-> Raw(v, f)]

MCMessages ==
  { <<Msg("user", "a", 0)>>, <<Msg("user", "a", 1)>>, <<Msg("system", "a", 0)>>,
    <<Msg("user", "b", 0)>>, <<Msg("user", "a", 0), Msg("user", "b", 0)>> }

\* temperature 0.2, 0.20004, 0.2002 and 0.5 with and without the rest.
MCParams ==
  { ("temperature" :> t) : t \in {20000, 20004, 20020, 50000} }
    \cup { ("seed" :> s) : s \in {0, 1} }
    \cup { ("seed" :> 0) @@ ("tools" :> Raw("t", f)) : f \in {0, 1} }
    \cup { ("seed" :> 0) @@ ("top_p" :> p) : p \in {20000, 1000000} }
    \cup { ("seed" :> 0) @@ ("presence_penalty" :> p) : p \in {-5, -14} }
    \cup { <<>> }

Body(id, model, ms, stream, n, params) ==
  [id : id, model : model, messages : ms, stream : stream, n : n, params : params]

MCBodies ==
  LET one == {<<Msg("user", "a", 0)>>}
  IN  Body({"k1"}, {"m1"}, MCMessages, {FALSE}, {1}, MCParams)
        \cup Body({"k2"}, {"m1"}, one, {FALSE}, {1}, MCParams)
        \cup Body({"k1"}, {"m2"}, one, {FALSE}, {1}, MCParams)
        \cup Body({"k1"}, {"m1"}, one, BOOLEAN, {0, 2}, {"seed" :> 0})

Text(w) == [kind |-> "text", v |-> w]
Call(n) == [kind |-> "call", v |-> n]
ChatMsg(r, c) == [role |-> r, content |-> c, calls |-> <<>>, id |-> ""]

MCOpenings ==
  { <<ChatMsg("system", <<Text("s")>>), ChatMsg("developer", <<Text("d")>>),
      ChatMsg("user", <<Text("a"), [kind |-> "image", v |-> "i"]>>)>>,
    <<ChatMsg("system", <<Text("s")>>), ChatMsg("user", <<Text("a")>>),
      ChatMsg("system", <<Text("t")>>), ChatMsg("user", <<Text("b")>>)>> }

MCReplies == { <<Text("x")>>, <<Text("x"), Call("f"), Text("y")>>,
               <<Call("f"), Call("g")>>, <<Call("f"), Call("f")>> }
MCIds == <<"c1", "c2", "c3", "c4">>

Symmetry == Permutations(Requests)
====
