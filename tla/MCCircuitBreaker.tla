---- MODULE MCCircuitBreaker ----
(* Model values for CircuitBreaker: two-second window, a breaker that      *)
(* trips at half of two samples, two interchangeable goroutines.           *)
EXTENDS CircuitBreaker, TLC

ServerError == [kind |-> "http", code |-> 503]
ClientError == [kind |-> "http", code |-> 404]
RateLimited == [kind |-> "http", code |-> 429]

Faults    == {ServerError, RateLimited}
AllErrors == {ServerError, ClientError}

Symmetry == Permutations(Requests)
====
