---- MODULE MCRollup ----
(* Two groups, three hours and up to two records a group and hour: some of *)
(* the queries of two hours exceed the limit of three, and others do not.  *)
EXTENDS Rollup
====
