---- MODULE MCWindowRing ----
(* A three-bucket ring over six seconds: gaps shorter than, equal to and   *)
(* longer than the ring all occur, with calls up to two seconds late.      *)
EXTENDS WindowRing
====
