---- MODULE MCFailover ----
(* Routes of none, two and three targets, out of order and with equal      *)
(* priorities, over two registered providers and one that is not.          *)
EXTENDS Failover, TLC

T(p, m, n) == [prov |-> p, model |-> m, prio |-> n]

MCRoutes == {<<>>,
             <<T("p2", "m2", 2), T("p1", "m1", 1)>>,
             <<T("p3", "m3", 2), T("p1", "m1", 1), T("p2", "m2", 1)>>}

Symmetry == Permutations(Requests)
====
