---- MODULE MCStream ----
(* A channel of two chunks and up to five upstream events: the channel is  *)
(* full with a chunk waiting, and empty with the handler waiting.          *)
EXTENDS Stream
====
