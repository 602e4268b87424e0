---- MODULE MCRateLimiter ----
(* A minute of two ticks, a burst of two requests and buckets of two or    *)
(* three tokens: an estimate of three is all or more than the bucket has.  *)
EXTENDS RateLimiter, TLC

TwoLimits  == {[RPM |-> 2, TPM |-> 3], [RPM |-> 0, TPM |-> 0]}
TPMDefault == [RPM |-> 0, TPM |-> 2]

Symmetry == Permutations(Requests)
====
