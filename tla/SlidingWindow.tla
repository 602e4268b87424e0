--------------------------- MODULE SlidingWindow ---------------------------
(***************************************************************************)
(* The sliding window of internal/circuitbreaker/circuitbreaker.go: a ring *)
(* of one-second buckets that counts requests and their weighted errors.   *)
(*                                                                         *)
(* Only operators are defined here; the window is a record that Breaker    *)
(* embeds and WindowRing exercises on its own.  Error weights are counted  *)
(* in halves (0, 1/2, 1 and 3/2 are the only weights of classify.go), so   *)
(* the float64 sums of the code are exact integers here.                   *)
(***************************************************************************)
EXTENDS Integers, FiniteSets

MaxBuckets == 60

EmptyBucket == [errors |-> 0, total |-> 0]

Bucket == [errors : Nat, total : Nat]

Window(size) ==
  [buckets : [0 .. size - 1 -> Bucket], head : 0 .. size - 1, headTime : Nat]

\* size is in 1 .. MaxBuckets: any other windowSeconds is taken as MaxBuckets.
newSlidingWindow(size) ==
  [buckets  |-> [i \in 0 .. size - 1 |-> EmptyBucket],
   head     |-> 0,
   headTime |-> 0]

\* Mutant: one bucket too few is cleared.
ExpiredShort(w, gap, size) ==
  {(w.head + 1 + i) % size : i \in 0 .. (IF gap < size THEN gap ELSE size) - 2}

\* The buckets between the old head and the new one hold expired seconds.
Expired(w, gap, size) ==
  {(w.head + 1 + i) % size : i \in 0 .. (IF gap < size THEN gap ELSE size) - 1}

\* headTime = 0 means that nothing was recorded since the last Reset.  A time
\* that is not after headTime leaves the head where it is.
advance(w, nowSec, size) ==
  LET gap == nowSec - w.headTime
  IN  IF w.headTime = 0
      THEN [w EXCEPT !.headTime = nowSec]
      ELSE IF gap <= 0
      THEN w
      ELSE [buckets  |-> [i \in 0 .. size - 1 |->
                            IF i \in Expired(w, gap, size) THEN EmptyBucket
                                                           ELSE w.buckets[i]],
            head     |-> (w.head + gap) % size,
            headTime |-> nowSec]

AddSample(b, weight) ==
  [errors |-> b.errors + weight, total |-> b.total + 1]

\* Record files the sample under the head, whatever second it was taken in.
Record(w, weight, nowSec, size) ==
  LET a == advance(w, nowSec, size)
  IN  [a EXCEPT !.buckets[a.head] = AddSample(@, weight)]

\* f[0] + ... + f[n - 1], added up as the loop of ErrorRate does.
SumOver(f, n) ==
  LET sum[k \in 0 .. n] == IF k = 0 THEN 0 ELSE sum[k - 1] + f[k - 1]
  IN  sum[n]

\* The two sums of ErrorRate, over a window that was advanced before.
\* Mutant: the bucket that is being filled is left out.
TotalErrorsNoHead(w, size) ==
  SumOver([i \in 0 .. size - 1 |-> IF i = w.head THEN 0 ELSE w.buckets[i].errors], size)

TotalErrors(w, size)   == SumOver([i \in 0 .. size - 1 |-> w.buckets[i].errors], size)
TotalRequests(w, size) == SumOver([i \in 0 .. size - 1 |-> w.buckets[i].total], size)
=============================================================================
