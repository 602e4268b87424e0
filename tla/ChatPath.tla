------------------------------ MODULE ChatPath ------------------------------
(***************************************************************************)
(* What a chat completion without a stream goes through, as                *)
(* handleChatCompletion of internal/server/proxy.go calls it: the key of   *)
(* the request (CacheKey), the life of the entry under one key             *)
(* (ResponseCache), and the provider's adapter (Adapter).                  *)
(*                                                                         *)
(* The three have no state in common, so nothing is lost by letting one of *)
(* them move while the others wait in their initial states.                *)
(***************************************************************************)
EXTENDS ResponseCache, CacheKey, Adapter

pathVars == <<vars, keyVars, chatVars>>

PathInit == Init /\ KeyInit /\ AdapterInit

PathNext ==
  \/ KeyInit /\ AdapterInit /\ Next /\ UNCHANGED <<keyVars, chatVars>>
  \/ Init /\ AdapterInit /\ KeyNext /\ UNCHANGED <<vars, chatVars>>
  \/ Init /\ KeyInit /\ AdapterNext /\ UNCHANGED <<vars, keyVars>>

PathSpec == PathInit /\ [][PathNext]_pathVars
=============================================================================
