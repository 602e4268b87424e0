---- MODULE MCServer ----
(* A file with a route and a key, which has an empty entry too, and with   *)
(* providers that are disabled, of an unknown type or in need of           *)
(* credentials; two connections under two layers with three writers, so    *)
(* that they are reused at once, and the probes.                           *)
EXTENDS Server, TLC

S(x, e) == [row |-> x, empty |-> e]
P(n, e, t, h) == [name |-> n, enabled |-> e, type |-> t, hosting |-> h, auth |-> ""]

MCSeeds == <<S("route", FALSE), S("key", TRUE), S("key", FALSE)>>
MCEntries == {P("p1", TRUE, "openai", ""), P("p2", TRUE, "gemini", "vertex"),
              P("p3", FALSE, "anthropic", "bedrock"), P("p4", TRUE, "other", "")}
MCLayers == <<"logging", "metrics">>

Symmetry == Permutations(Requests) \cup Permutations(Writers)
====
