---- MODULE MCUsagePipeline ----
(* Two requests, a channel of one record and batches of two: the channel   *)
(* overflows, batches are full and partial.                                *)
EXTENDS UsagePipeline
====
