---- MODULE MCAuthCache ----
(* Two requests, one or two admins and up to three versions of the key.    *)
EXTENDS AuthCache, TLC

Symmetry == Permutations(Requests) \cup Permutations(Admins)
====
