------------------------------ MODULE CacheKey ------------------------------
(***************************************************************************)
(* Which requests share a cached response: isCacheable and cacheKey of     *)
(* internal/server/cache.go, and the two places of handleChatCompletion in *)
(* internal/server/proxy.go that compute the key, before the call and      *)
(* after it.                                                               *)
(*                                                                         *)
(* A float parameter counts hundred-thousandths, one digit more than the   *)
(* key keeps.  A raw JSON value is its content and its formatting.  The    *)
(* hash is taken to be collision-free, and the expiry of entries is left   *)
(* to ResponseCache.                                                       *)
(***************************************************************************)
EXTENDS Integers, FiniteSets

CONSTANTS
  Bodies,     \* records [id, model, messages, stream, n, params]
  Overflow,   \* floats of this size are infinite when scaled by 10000
  MaxSize     \* entries of the cache

FloatParams == {"temperature", "top_p", "presence_penalty", "frequency_penalty"}
IntParams   == {"max_tokens", "seed"}
RawParams   == {"stop", "tools", "tool_choice", "response_format"}
NoRequest   == [id |-> ""]

\* A parameter that the request leaves out is not in the domain of params.
ASSUME CacheKeyAssumption ==
  /\ Overflow \in Nat \ {0} /\ MaxSize \in Nat \ {0}
  /\ \A b \in Bodies :
       /\ DOMAIN b.params \subseteq FloatParams \cup IntParams \cup RawParams
       /\ \A p \in DOMAIN b.params \cap FloatParams : b.params[p] \in Int
       /\ \A i \in DOMAIN b.messages : {"role", "content"} \subseteq DOMAIN b.messages[i]
-----------------------------------------------------------------------------
Infinite == Overflow

\* Mutant: to one decimal place.
roundFloatCoarse(f) == IF f >= Overflow THEN Infinite ELSE (f + 5000) \div 10000

\* To four decimal places, halves away from zero.
roundFloat(f) ==
  CASE f >= Overflow \/ f <= - Overflow -> Infinite
    [] 0 <= f /\ f < Overflow           -> (f + 5) \div 10
    [] - Overflow < f /\ f < 0          -> - ((5 - f) \div 10)

\* json.Marshal of a json.RawMessage.
compact(raw) == raw.val

normalizeMessages(msgs) ==
  [i \in DOMAIN msgs |-> [msgs[i] EXCEPT !.content = compact(@)]]

normalizeParams(params) ==
  [p \in DOMAIN params |-> CASE p \in FloatParams -> roundFloat(params[p])
                             [] p \in RawParams   -> compact(params[p])
                             [] p \in IntParams   -> params[p]]

\* stableJSON and the hash: sorted pairs of name and value say no more than the
\* map itself.  Marshal fails on an infinite value; the error is dropped, and
\* what is hashed is the empty string.
Empty == [id |-> ""]

stableJSON(m) ==
  IF \E p \in DOMAIN m.params \cap FloatParams : m.params[p] = Infinite THEN Empty ELSE m

cacheKey(req) ==
  stableJSON([id |-> req.id, model |-> req.model,
              messages |-> normalizeMessages(req.messages),
              params |-> normalizeParams(req.params)])

isCacheable(req) ==
  /\ ~ req.stream
  /\ req.n <= 1
  /\ \/ "seed" \in DOMAIN req.params
     \/ "temperature" \in DOMAIN req.params /\ req.params["temperature"] <= 30000
-----------------------------------------------------------------------------
VARIABLES
  store,   \* key -> request whose response is cached
  calling, \* request the proxy is answering, or NoRequest
  last     \* history: last lookup: the request and the one whose response it got

keyVars == <<store, calling, last>>

KeyInit ==
  /\ store = <<>>
  /\ calling = NoRequest
  /\ last = [asked |-> NoRequest, got |-> NoRequest]

\* The cache check, with a hit or a miss, or none for a request that is not
\* cacheable; a miss goes on to the proxy.
Lookup(req) ==
  /\ calling = NoRequest
  /\ isCacheable(req)
  /\ LET k == cacheKey(req)
     IN  IF k \in DOMAIN store
         THEN /\ last' = [asked |-> req, got |-> store[k]]
              /\ UNCHANGED calling
         ELSE /\ last' = [asked |-> req, got |-> NoRequest]
              /\ calling' = req
  /\ UNCHANGED store

Bypass(req) ==
  /\ calling = NoRequest
  /\ ~ isCacheable(req)
  /\ last' = [asked |-> NoRequest, got |-> NoRequest]
  /\ UNCHANGED <<store, calling>>

\* The cache store: the key is computed anew, and otter keeps what fits.
SetEntry(keep) ==
  /\ calling # NoRequest
  /\ keep \in SUBSET DOMAIN store
  /\ Cardinality(keep) < MaxSize
  /\ LET k == cacheKey(calling)
     IN  store' = [x \in keep \cup {k} |-> IF x = k THEN calling ELSE store[x]]
  /\ calling' = NoRequest
  /\ UNCHANGED last

\* The proxy fails: nothing is cached.
CallFails ==
  /\ calling # NoRequest
  /\ calling' = NoRequest
  /\ UNCHANGED <<store, last>>

KeyNext ==
  \/ \E req \in Bodies : Lookup(req) \/ Bypass(req)
  \/ \E keep \in SUBSET DOMAIN store : SetEntry(keep)
  \/ CallFails
-----------------------------------------------------------------------------
SameRaw(a, b) == a.val = b.val

SameMessages(a, b) ==
  /\ DOMAIN a = DOMAIN b
  /\ \A i \in DOMAIN a : a[i].role = b[i].role /\ SameRaw(a[i].content, b[i].content)

\* The same request but for formatting, and for floats less than d apart.
Same(a, b, d) ==
  /\ a.id = b.id /\ a.model = b.model /\ SameMessages(a.messages, b.messages)
  /\ DOMAIN a.params = DOMAIN b.params
  /\ \A p \in DOMAIN a.params :
       CASE p \in FloatParams -> a.params[p] - b.params[p] \in (1 - d) .. (d - 1)
         [] p \in RawParams   -> SameRaw(a.params[p], b.params[p])
         [] p \in IntParams   -> a.params[p] = b.params[p]

(* A cached response was made for the request it answers: same caller,     *)
(* model, messages and parameters, floats equal to four decimal places,    *)
(* unless a float overflowed and the key could not be made.                *)
HitAnswersRequest ==
  last.got # NoRequest /\ cacheKey(last.asked) # Empty => Same(last.asked, last.got, 10)
=============================================================================
