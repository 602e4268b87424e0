------------------------ MODULE CircuitBreakerProofs ------------------------
(***************************************************************************)
(* Proofs about the sliding window, for every ring size, set of weights,   *)
(* lag and length of behaviour, and about CircuitBreaker, for every set of *)
(* requests and errors and every configuration of the breaker.             *)
(***************************************************************************)
EXTENDS CircuitBreaker, WindowRing, NaturalsInduction, WellFoundedInduction, TLAPS

\* A set of natural numbers has a least one.
LEMMA LeastNat ==
  ASSUME NEW S \in SUBSET Nat, S # {}
  PROVE  \E m \in S : \A n \in S : m <= n
  <1> DEFINE R == {p \in Nat \X Nat : p[1] < p[2]}
  <1>1. IsWellFoundedOn(R, Nat)
    BY NatLessThanWellFounded DEF OpToRel
  <1>2. PICK m \in S : \A n \in S : <<n, m>> \notin R
    <2> HIDE DEF R
    <2>1. QED
      BY <1>1, WFMin, Zenon
  <1>3. ASSUME NEW n \in S PROVE m <= n
    <2>1. n \in Nat /\ m \in Nat
      OBVIOUS
    <2>2. <<n, m>> \in Nat \X Nat /\ <<n, m>>[1] = n /\ <<n, m>>[2] = m
      BY <2>1
    <2>3. ~ (n < m)
      BY <1>2, <2>2, Zenon
    <2>4. QED
      BY <2>1, <2>3
  <1>4. QED
    BY <1>3

\* What holds of 0 and, when it holds of a number, of the next one up to n
\* holds of all numbers up to n.
LEMMA Climb ==
  ASSUME NEW n \in Nat, NEW Q, 0 \in Q,
         \A k \in 0 .. n : k # n /\ k \in Q => k + 1 \in Q
  PROVE  \A k \in 0 .. n : k \in Q
  <1> DEFINE Fails == {k \in 0 .. n : k \notin Q}
  <1> SUFFICES ASSUME Fails # {} PROVE FALSE
    OBVIOUS
  <1>1. Fails \in SUBSET Nat
    OBVIOUS
  <1>2. PICK m \in Fails : \A k \in Fails : m <= k
    BY <1>1, LeastNat, Zenon
  <1>3. m \in 0 .. n /\ m \notin Q /\ m # 0
    BY <1>2
  <1>4. m - 1 \in 0 .. n /\ m - 1 # n /\ ~ (m <= m - 1)
    BY <1>3
  <1>5. m - 1 \in Q
    BY <1>2, <1>4
  <1>6. m - 1 + 1 = m
    BY <1>3
  <1>7. QED
    BY <1>3, <1>4, <1>5, <1>6

\* The partial sums of f.
Sums(f, n, s) ==
  /\ s \in [0 .. n -> Nat]
  /\ s[0] = 0
  /\ \A k \in 0 .. n : k # n => s[k + 1] = s[k] + f[k]

\* A function of natural numbers has partial sums.
LEMMA SumsExist ==
  ASSUME NEW n \in Nat, NEW f \in [0 .. n - 1 -> Nat]
  PROVE  \E s : Sums(f, n, s)
  <1> DEFINE Q == {k \in 0 .. n : \E s : Sums(f, k, s)}
  <1>1. 0 \in Q
    <2>1. Sums(f, 0, [k \in 0 .. 0 |-> 0])
      BY DEF Sums
    <2>2. QED
      BY <2>1
  <1>2. ASSUME NEW m \in 0 .. n, m # n, m \in Q
        PROVE  m + 1 \in Q
    <2>1. PICK s : Sums(f, m, s)
      BY <1>2
    <2>2. s \in [0 .. m -> Nat] /\ f[m] \in Nat /\ s[m] \in Nat
      BY <2>1, <1>2 DEF Sums
    <2>3. PICK t : t = [k \in 0 .. m + 1 |-> IF k = m + 1 THEN s[m] + f[m] ELSE s[k]]
      BY Zenon
    <2>4. t \in [0 .. m + 1 -> Nat] /\ t[0] = 0
      BY <2>1, <2>2, <2>3, <1>2 DEF Sums
    <2>5. ASSUME NEW k \in 0 .. m + 1, k # m + 1 PROVE t[k + 1] = t[k] + f[k]
      BY <2>1, <2>2, <2>3, <2>5, <1>2 DEF Sums
    <2>6. Sums(f, m + 1, t)
      BY <2>4, <2>5 DEF Sums
    <2>7. m + 1 \in 0 .. n
      BY <1>2
    <2>8. QED
      BY <2>6, <2>7
  <1> HIDE DEF Q
  <1>3. \A k \in 0 .. n : k # n /\ k \in Q => k + 1 \in Q
    BY <1>2
  <1>4. \A k \in 0 .. n : k \in Q
    BY <1>1, <1>3, Climb, Zenon
  <1>5. n \in 0 .. n
    OBVIOUS
  <1>6. QED
    BY <1>4, <1>5 DEF Q

\* SumOver(f, n) is the last of the partial sums that the loop goes through.
LEMMA SumOverUnfold ==
  ASSUME NEW n \in Nat, NEW f \in [0 .. n - 1 -> Nat]
  PROVE  \E s : Sums(f, n, s) /\ SumOver(f, n) = s[n]
  <1> DEFINE b == CHOOSE sum :
                    sum = [k \in 0 .. n |-> IF k = 0 THEN 0 ELSE sum[k - 1] + f[k - 1]]
  <1>1. PICK g : Sums(f, n, g)
    BY SumsExist, Zenon
  <1>2. g = [k \in 0 .. n |-> IF k = 0 THEN 0 ELSE g[k - 1] + f[k - 1]]
    <2>1. g = [k \in 0 .. n |-> g[k]]
      BY <1>1 DEF Sums
    <2>2. ASSUME NEW k \in 0 .. n
          PROVE  g[k] = IF k = 0 THEN 0 ELSE g[k - 1] + f[k - 1]
      BY <1>1 DEF Sums
    <2>3. QED
      BY <2>1, <2>2, Zenon
  <1>3. b = [k \in 0 .. n |-> IF k = 0 THEN 0 ELSE b[k - 1] + f[k - 1]]
    BY <1>2, Zenon
  <1>4. SumOver(f, n) = b[n]
    BY Zenon DEF SumOver
  <1> HIDE DEF b
  <1>5. \A k \in 0 .. n : k # n => k + 1 \in 0 .. n /\ k + 1 # 0 /\ k + 1 - 1 = k
    OBVIOUS
  <1>6. b[0] = 0 /\ \A k \in 0 .. n : k # n => b[k + 1] = b[k] + f[k]
    BY <1>3, <1>5
  <1>7. b \in [0 .. n -> Nat]
    <2> DEFINE Q == {k \in 0 .. n : b[k] \in Nat}
    <2>1. 0 \in Q
      BY <1>6
    <2>2. \A k \in 0 .. n : k # n /\ k \in Q => k + 1 \in Q
      BY <1>5, <1>6
    <2> HIDE DEF Q
    <2>3. \A k \in 0 .. n : k \in Q
      BY <2>1, <2>2, Climb, Zenon
    <2>4. QED
      BY <1>3, <2>3 DEF Q
  <1>8. QED
    BY <1>4, <1>6, <1>7, Zenon DEF Sums

\* A sum grows by one at most when one of its terms does and no other grows.
LEMMA SumOverGrows ==
  ASSUME NEW n \in Nat, NEW f \in [0 .. n - 1 -> Nat], NEW g \in [0 .. n - 1 -> Nat],
         NEW h \in 0 .. n - 1,
         \A k \in 0 .. n - 1 : g[k] <= f[k] + (IF k = h THEN 1 ELSE 0)
  PROVE  SumOver(g, n) <= SumOver(f, n) + 1
  <1>1. PICK s : Sums(f, n, s) /\ SumOver(f, n) = s[n]
    BY SumOverUnfold, Zenon
  <1>2. PICK t : Sums(g, n, t) /\ SumOver(g, n) = t[n]
    BY SumOverUnfold, Zenon
  <1> DEFINE Q == {k \in 0 .. n : t[k] <= s[k] + (IF k > h THEN 1 ELSE 0)}
  <1>3. 0 \in Q
    BY <1>1, <1>2 DEF Sums
  <1>4. ASSUME NEW k \in 0 .. n, k # n, k \in Q PROVE k + 1 \in Q
    <2>1. /\ k \in 0 .. n - 1 /\ k + 1 \in 0 .. n
          /\ s[k + 1] = s[k] + f[k] /\ t[k + 1] = t[k] + g[k]
          /\ s[k] \in Nat /\ t[k] \in Nat /\ f[k] \in Nat /\ g[k] \in Nat
      BY <1>1, <1>2, <1>4 DEF Sums
    <2>2. g[k] <= f[k] + (IF k = h THEN 1 ELSE 0)
      BY <2>1
    <2>3. t[k] <= s[k] + (IF k > h THEN 1 ELSE 0)
      BY <1>4
    <2>4. t[k + 1] <= s[k + 1] + (IF k + 1 > h THEN 1 ELSE 0)
      <3> HIDE DEF Q
      <3>1. h \in Nat /\ k \in Nat
        OBVIOUS
      <3>2. CASE k > h
        BY <2>1, <2>2, <2>3, <3>1, <3>2
      <3>3. CASE k = h
        BY <2>1, <2>2, <2>3, <3>1, <3>3
      <3>4. CASE k < h
        BY <2>1, <2>2, <2>3, <3>1, <3>4
      <3>5. QED
        BY <3>1, <3>2, <3>3, <3>4
    <2>5. QED
      BY <2>1, <2>4
  <1> HIDE DEF Q
  <1>5. \A k \in 0 .. n : k # n /\ k \in Q => k + 1 \in Q
    BY <1>4
  <1>6. \A k \in 0 .. n : k \in Q
    BY <1>3, <1>5, Climb, Zenon
  <1>7. n \in 0 .. n /\ n > h
    OBVIOUS
  <1>8. QED
    BY <1>1, <1>2, <1>6, <1>7 DEF Q

\* A sum of zeros.
LEMMA SumOverZero ==
  ASSUME NEW n \in Nat
  PROVE  SumOver([k \in 0 .. n - 1 |-> 0], n) = 0
  <1>1. PICK f : f = [k \in 0 .. n - 1 |-> 0]
    BY Zenon
  <1>2. PICK s : Sums(f, n, s) /\ SumOver(f, n) = s[n]
    BY <1>1, SumOverUnfold
  <1> DEFINE Q == {k \in 0 .. n : s[k] = 0}
  <1>3. 0 \in Q
    BY <1>2 DEF Sums
  <1>4. ASSUME NEW k \in 0 .. n, k # n, k \in Q PROVE k + 1 \in Q
    BY <1>1, <1>2, <1>4 DEF Sums
  <1> HIDE DEF Q
  <1>5. \A k \in 0 .. n : k # n /\ k \in Q => k + 1 \in Q
    BY <1>4
  <1>6. \A k \in 0 .. n : k \in Q
    BY <1>3, <1>5, Climb
  <1>7. QED
    BY <1>1, <1>2, <1>6 DEF Q

\* A sum does not depend on where in the ring it starts: g is f, turned so
\* that the term after the h-th comes first.
LEMMA SumOverTurns ==
  ASSUME NEW n \in Nat, NEW f \in [0 .. n - 1 -> Nat], NEW g \in [0 .. n - 1 -> Nat],
         NEW h \in 0 .. n - 1,
         \A k \in 0 .. n - 1 :
           g[k] = IF k + h + 1 < n THEN f[k + h + 1] ELSE f[k + h + 1 - n]
  PROVE  SumOver(g, n) = SumOver(f, n)
  <1>1. PICK s : Sums(f, n, s) /\ SumOver(f, n) = s[n]
    BY SumOverUnfold, Zenon
  <1>2. PICK t : Sums(g, n, t) /\ SumOver(g, n) = t[n]
    BY SumOverUnfold, Zenon
  <1>3. /\ n \in Nat /\ h \in Nat /\ h + 1 \in 0 .. n /\ s[h + 1] \in Nat /\ s[n] \in Nat
        /\ s[0] = 0 /\ t[0] = 0
    BY <1>1, <1>2 DEF Sums
  <1>4. PICK x \in Nat, y \in Nat : x = s[h + 1] /\ y = s[n]
    BY <1>3
  <1> DEFINE at(k) == IF k + h + 1 < n THEN s[k + h + 1] - x ELSE y - x + s[k + h + 1 - n]
             Q     == {k \in 0 .. n : t[k] = at(k)}
  <1>5. 0 \in Q
    <2>1. 0 + h + 1 = h + 1 /\ (~ h + 1 < n => h + 1 = n)
      BY <1>3
    <2>2. CASE h + 1 < n
      <3>1. at(0) = s[h + 1] - x
        BY <2>1, <2>2
      <3>2. s[h + 1] - x = 0
        BY <1>4
      <3>3. 0 \in 0 .. n
        BY <1>3
      <3>4. QED
        BY <1>3, <3>1, <3>2, <3>3, Zenon
    <2>3. CASE h + 1 = n
      <3>1. at(0) = y - x + s[0] /\ x = y
        BY <1>3, <1>4, <2>1, <2>3
      <3> HIDE DEF at
      <3>2. at(0) = 0
        BY <1>3, <3>1
      <3>3. QED
        BY <1>3, <3>2
    <2>4. QED
      BY <2>1, <2>2, <2>3
  <1>6. ASSUME NEW k \in 0 .. n, k # n, t[k] = at(k) PROVE t[k + 1] = at(k + 1)
    <2> HIDE DEF Q
    <2>0. k \in 0 .. n - 1 /\ k + 1 \in 0 .. n
      BY <1>6
    <2>1. k \in 0 .. n - 1 /\ t[k + 1] = t[k] + g[k] /\ t[k] \in Nat
      <3> HIDE DEF at
      <3>1. QED
        BY <1>2, <1>6, <2>0 DEF Sums
    <2>2. g[k] = IF k + h + 1 < n THEN f[k + h + 1] ELSE f[k + h + 1 - n]
      BY <2>1
    <2>3. CASE k + h + 1 < n
      <3>1. PICK j \in 0 .. n - 1 : j = k + h + 1
        BY <1>3, <2>1, <2>3
      <3>2. j \in 0 .. n /\ j # n /\ j + 1 \in 0 .. n
        BY <3>1
      <3>3. s[j + 1] = s[j] + f[j] /\ s[j] \in Nat /\ f[j] \in Nat
        BY <1>1, <3>1, <3>2, Zenon DEF Sums
      <3>4. t[k] = s[j] - x /\ g[k] = f[j]
        BY <1>6, <2>2, <2>3, <3>1
      <3>5. k + 1 + h + 1 = j + 1 /\ (~ j + 1 < n => j + 1 = n /\ j + 1 - n = 0)
        BY <3>1, <2>1, <1>3
      <3>6. t[k + 1] = s[j + 1] - x
        BY <2>1, <3>3, <3>4
      <3>7. CASE j + 1 < n
        BY <3>5, <3>6, <3>7, Zenon
      <3>8. CASE j + 1 = n
        <4>1. at(k + 1) = y - x + s[0]
          BY <3>5, <3>8
        <4> HIDE DEF at
        <4>2. t[k + 1] = y - x
          BY <3>6, <3>8, <1>4, Zenon
        <4>3. at(k + 1) = y - x
          BY <4>1, <1>3
        <4>4. QED
          BY <4>2, <4>3
      <3>9. QED
        BY <3>5, <3>7, <3>8
    <2>4. CASE ~ k + h + 1 < n
      <3>1. PICK j \in 0 .. n - 1 : j = k + h + 1 - n
        BY <1>3, <2>1, <2>4
      <3>2. j \in 0 .. n /\ j # n /\ j + 1 \in 0 .. n
        BY <3>1
      <3>3. s[j + 1] = s[j] + f[j] /\ s[j] \in Nat /\ f[j] \in Nat
        BY <1>1, <3>1, <3>2, Zenon DEF Sums
      <3>4. t[k] = y - x + s[j] /\ g[k] = f[j]
        BY <1>6, <2>2, <2>4, <3>1
      <3>5. k + 1 + h + 1 - n = j + 1 /\ ~ k + 1 + h + 1 < n
        BY <3>1, <2>1, <2>4, <1>3
      <3>6. t[k + 1] = y - x + s[j + 1]
        BY <2>1, <3>3, <3>4
      <3>7. QED
        BY <3>5, <3>6, Zenon
    <2>5. QED
      BY <2>3, <2>4
  <1>7. \A k \in 0 .. n : k # n /\ k \in Q => k + 1 \in Q
    <2> HIDE DEF at
    <2>1. QED
      BY <1>6
  <1>8. n \in Q
    <2> HIDE DEF Q
    <2>1. \A k \in 0 .. n : k \in Q
      BY <1>5, <1>7, Climb, Zenon
    <2>2. QED
      BY <2>1
  <1>9. t[n] = y - x + s[h + 1]
    <2>1. ~ n + h + 1 < n /\ n + h + 1 - n = h + 1
      BY <1>3
    <2>2. QED
      BY <1>8, <2>1
  <1>10. QED
    BY <1>1, <1>2, <1>3, <1>4, <1>9

\* A remainder lies below the modulus.
LEMMA ModRange ==
  ASSUME NEW n \in Nat \ {0}, NEW a \in Nat
  PROVE  a % n \in 0 .. n - 1
  OBVIOUS

\* Below twice the modulus, taking the remainder is one conditional subtraction.
LEMMA ModWraps ==
  ASSUME NEW n \in Nat \ {0}, NEW a \in Nat, a < 2 * n
  PROVE  a % n = IF a < n THEN a ELSE a - n
  OBVIOUS

\* Where the bucket Expired names with i is, without the modulo.
LEMMA ExpiredIndex ==
  ASSUME NEW size \in Nat \ {0}, NEW w \in Window(size), NEW gap \in Nat \ {0},
         NEW j \in 0 .. size - 1
  PROVE  j \in Expired(w, gap, size) <=>
           \/ gap >= size
           \/ j > w.head /\ j <= w.head + gap
           \/ j + size <= w.head + gap
  <1> DEFINE cleared == IF gap < size THEN gap ELSE size
  <1>1. w.head \in 0 .. size - 1 /\ size \in Nat \ {0}
    BY DEF Window
  <1>2. ASSUME NEW i \in 0 .. cleared - 1
        PROVE  (w.head + 1 + i) % size =
                 IF w.head + 1 + i < size THEN w.head + 1 + i
                                          ELSE w.head + 1 + i - size
    <2> DEFINE a == w.head + 1 + i
    <2>1. a \in Nat /\ a < 2 * size
      BY <1>1
    <2> HIDE DEF a
    <2>2. a % size = IF a < size THEN a ELSE a - size
      BY <1>1, <2>1, ModWraps, Zenon
    <2>3. QED
      BY <1>1, <2>1, <2>2 DEF a
  <1>3. ASSUME j \in Expired(w, gap, size)
        PROVE  gap >= size \/ (j > w.head /\ j <= w.head + gap) \/ j + size <= w.head + gap
    <2>1. PICK i \in 0 .. cleared - 1 : j = (w.head + 1 + i) % size
      BY <1>3 DEF Expired
    <2>2. QED
      BY <1>1, <1>2, <2>1
  <1>4. ASSUME gap >= size \/ (j > w.head /\ j <= w.head + gap) \/ j + size <= w.head + gap
        PROVE  j \in Expired(w, gap, size)
    <2> DEFINE i == IF j > w.head THEN j - w.head - 1 ELSE j + size - w.head - 1
    <2>1. i \in 0 .. cleared - 1
      BY <1>1, <1>4
    <2> HIDE DEF i, cleared
    <2>2. (w.head + 1 + i) % size =
            IF w.head + 1 + i < size THEN w.head + 1 + i ELSE w.head + 1 + i - size
      BY <1>2, <2>1
    <2>3. j = (w.head + 1 + i) % size
      BY <1>1, <2>2 DEF i
    <2>4. QED
      BY <2>1, <2>3 DEF Expired, cleared
  <1>5. QED
    BY <1>3, <1>4

\* advance keeps the type of a window and moves its head to the later time.
LEMMA AdvanceType ==
  ASSUME NEW size \in Nat \ {0}, NEW w \in Window(size), NEW nowSec \in Nat
  PROVE  /\ advance(w, nowSec, size) \in Window(size)
         /\ nowSec > 0 => advance(w, nowSec, size).headTime =
              IF nowSec > w.headTime THEN nowSec ELSE w.headTime
  <1>1. size \in Nat \ {0} /\ w.head \in 0 .. size - 1 /\ w.headTime \in Nat
    BY DEF Window
  <1>2. CASE w.headTime = 0
    BY <1>1, <1>2 DEF advance, Window
  <1>3. CASE w.headTime # 0 /\ nowSec - w.headTime <= 0
    BY <1>1, <1>3 DEF advance
  <1>4. CASE w.headTime # 0 /\ nowSec - w.headTime > 0
    <2> DEFINE h == w.head + (nowSec - w.headTime)
    <2>1. h \in Nat
      BY <1>1, <1>4
    <2>2. h % size \in 0 .. size - 1
      BY <1>1, <2>1, ModRange, Zenon
    <2>3. EmptyBucket \in Bucket
      BY DEF EmptyBucket, Bucket
    <2>4. w.buckets \in [0 .. size - 1 -> Bucket]
      BY DEF Window
    <2> HIDE DEF h
    <2>5. advance(w, nowSec, size) =
            [buckets  |-> [i \in 0 .. size - 1 |->
                             IF i \in Expired(w, nowSec - w.headTime, size)
                             THEN EmptyBucket ELSE w.buckets[i]],
             head     |-> h % size,
             headTime |-> nowSec]
      BY <1>1, <1>4 DEF advance, h
    <2>6. QED
      BY <1>1, <1>4, <2>2, <2>3, <2>4, <2>5 DEF Window
  <1>5. QED
    BY <1>1, <1>2, <1>3, <1>4

\* A new window is a window, and so is one that a sample was added to.
LEMMA NewWindowType ==
  ASSUME NEW size \in Nat \ {0}
  PROVE  newSlidingWindow(size) \in Window(size)
  BY DEF newSlidingWindow, Window, Bucket, EmptyBucket

\* record keeps the type of a window.
LEMMA RecordType ==
  ASSUME NEW size \in Nat \ {0}, NEW w \in Window(size), NEW nowSec \in Nat,
         NEW wt \in Nat
  PROVE  Record(w, wt, nowSec, size) \in Window(size)
  <1>1. PICK a : a = advance(w, nowSec, size)
    OBVIOUS
  <1>2. a \in Window(size)
    BY <1>1, AdvanceType
  <1>3. a.head \in 0 .. size - 1 /\ a.buckets \in [0 .. size - 1 -> Bucket] /\ a.headTime \in Nat
    BY <1>2 DEF Window
  <1>4. \A b \in Bucket : AddSample(b, wt) \in Bucket
    BY DEF AddSample, Bucket
  <1>5. a.buckets[a.head] \in Bucket
    BY <1>3
  <1>6. PICK c : c = [a.buckets EXCEPT ![a.head] = AddSample(@, wt)]
    BY Zenon
  <1>7. c \in [0 .. size - 1 -> Bucket]
    BY <1>3, <1>4, <1>5, <1>6
  <1>8. Record(w, wt, nowSec, size) = [buckets |-> c, head |-> a.head, headTime |-> a.headTime]
    <2>1. Record(w, wt, nowSec, size) = [a EXCEPT !.buckets[a.head] = AddSample(@, wt)]
      BY <1>1 DEF Record
    <2>2. QED
      BY <1>2, <1>6, <2>1, Zenon DEF Window
  <1>9. QED
    BY <1>3, <1>7, <1>8 DEF Window
-----------------------------------------------------------------------------
\* The ring still holds its window after advance.
LEMMA AdvanceHolds ==
  ASSUME RingTypeOK, RingHoldsWindow, NEW nowSec \in Secs
  PROVE  HoldsWindow(advance(window, nowSec, RingSize))
  <1> DEFINE gap == nowSec - window.headTime
             a   == advance(window, nowSec, RingSize)
  <1>1. /\ RingSize \in Nat \ {0} /\ window.head \in 0 .. RingSize - 1 /\ window.headTime \in Nat
        /\ window \in Window(RingSize) /\ nowSec \in Nat \ {0}
    BY SizeAssumption DEF Window, MaxBuckets, RingTypeOK, Secs
  <1>2. \A s \in Int : s > window.headTime => Filed(s) = EmptyBucket
    BY DEF RingHoldsWindow, Filed, Secs
  <1>3. CASE window.headTime = 0
    <2>1. a.head = window.head /\ a.buckets = window.buckets /\ a.headTime = nowSec
      BY <1>1, <1>3 DEF advance, Window
    <2>2. \A s \in Int : Filed(s) = EmptyBucket
      BY <1>2, <1>3 DEF Filed, Secs
    <2>3. \A i \in 0 .. RingSize - 1 : Age(window, i) \in Int /\ Age(a, i) \in Int
      BY <1>1, <2>1 DEF Age
    <2>4. QED
      BY <1>1, <2>1, <2>2, <2>3 DEF RingHoldsWindow, HoldsWindow
  <1>4. CASE window.headTime # 0 /\ gap <= 0
    BY <1>4 DEF advance, RingHoldsWindow
  <1>5. CASE window.headTime # 0 /\ gap > 0
    <2>1. gap \in Nat \ {0} /\ a.headTime = window.headTime + gap
      BY <1>1, <1>5 DEF advance
    <2>2. a.head = (window.head + gap) % RingSize /\ a.head \in 0 .. RingSize - 1
      BY <1>1, <1>5, ModRange DEF advance
    <2>3. ASSUME NEW i \in 0 .. RingSize - 1
          PROVE  a.buckets[i] = IF i \in Expired(window, gap, RingSize)
                                THEN EmptyBucket ELSE window.buckets[i]
      BY <1>1, <1>5 DEF advance
    <2>4. ASSUME NEW i \in 0 .. RingSize - 1
          PROVE  a.buckets[i] = Filed(a.headTime - Age(a, i))
      <3> HIDE DEF a, gap
      <3>1. CASE gap >= RingSize
        <4>1. a.buckets[i] = EmptyBucket
          BY <1>1, <2>1, <2>3, <3>1, ExpiredIndex
        <4>2. Age(a, i) \in 0 .. RingSize - 1
          BY <1>1, <2>2 DEF Age
        <4>3. QED
          BY <1>1, <1>2, <2>1, <3>1, <4>1, <4>2
      <3>2. CASE gap < RingSize
        <4>1. a.head = IF window.head + gap < RingSize THEN window.head + gap
                                                   ELSE window.head + gap - RingSize
          <5> DEFINE h == window.head + gap
          <5>1. h \in Nat /\ h < 2 * RingSize
            BY <1>1, <2>1, <3>2
          <5>2. a.head = h % RingSize
            BY <2>2
          <5> HIDE DEF h
          <5>3. a.head = IF h < RingSize THEN h ELSE h - RingSize
            BY <1>1, <5>1, <5>2, ModWraps, Zenon
          <5>4. QED
            BY <1>1, <2>1, <5>1, <5>3 DEF h
        <4>2. CASE i \in Expired(window, gap, RingSize)
          <5>1. (i > window.head /\ i <= window.head + gap) \/ i + RingSize <= window.head + gap
            BY <1>1, <2>1, <3>2, <4>2, ExpiredIndex
          <5>2. Age(a, i) \in 0 .. gap - 1
            BY <1>1, <2>1, <3>2, <4>1, <5>1 DEF Age
          <5>3. QED
            BY <1>1, <1>2, <2>1, <2>3, <4>2, <5>2
        <4>3. CASE i \notin Expired(window, gap, RingSize)
          <5>1. ~ (i > window.head /\ i <= window.head + gap) /\ ~ (i + RingSize <= window.head + gap)
            BY <1>1, <2>1, <4>3, ExpiredIndex
          <5>2. Age(a, i) = Age(window, i) + gap /\ Age(window, i) \in Int
            BY <1>1, <2>1, <3>2, <4>1, <5>1 DEF Age
          <5>3. a.headTime - Age(a, i) = window.headTime - Age(window, i)
            BY <1>1, <2>1, <5>2
          <5>4. QED
            BY <2>3, <4>3, <5>3 DEF RingHoldsWindow, HoldsWindow
        <4>4. QED
          BY <4>2, <4>3
      <3>3. QED
        BY <1>1, <2>1, <3>1, <3>2
    <2>5. QED
      BY <2>4 DEF HoldsWindow
  <1>6. QED
    BY <1>1, <1>3, <1>4, <1>5

-----------------------------------------------------------------------------
RingIInv == RingTypeOK /\ window.headTime <= MaxSec /\ RingHoldsWindow

\* An empty log and a fresh ring agree.
LEMMA FreshRing ==
  ASSUME window = newSlidingWindow(RingSize), log = [s \in Secs |-> EmptyBucket]
  PROVE  /\ log \in [Secs -> Bucket]
         /\ RingHoldsWindow
         /\ window.headTime = 0
  BY DEF newSlidingWindow, RingHoldsWindow, HoldsWindow, Filed, Bucket, EmptyBucket

\* A function stays one when an argument gets another value.
LEMMA UpdateType ==
  ASSUME NEW S, NEW T, NEW f \in [S -> T], NEW x \in S, NEW v \in T
  PROVE  [f EXCEPT ![x] = v] \in [S -> T]
  OBVIOUS

\* Adding a sample to the ring and to the log keeps them in agreement.
LEMMA RecordStep ==
  ASSUME RingIInv, NEW wt \in Weights, NEW nowSec \in RingStamps,
         RecordSample(wt, nowSec)
  PROVE  RingIInv'
  <1>0. PICK a, u : a = advance(window, nowSec, RingSize) /\ u = FiledUnder(nowSec)
    OBVIOUS
  <1>1. /\ RingSize \in Nat \ {0} /\ window \in Window(RingSize) /\ wt \in Nat
        /\ nowSec \in Secs /\ nowSec \in Nat \ {0} /\ window.headTime \in Nat
        /\ log \in [Secs -> Bucket] /\ sec \in Secs
    BY SizeAssumption, WeightsAssumption
    DEF RingIInv, RingTypeOK, RingStamps, Secs, Window, MaxBuckets
  <1>2. a \in Window(RingSize) /\ a.headTime = u /\ u \in Secs
    <2>1. a \in Window(RingSize) /\ a.headTime = u
      <3>1. nowSec \in Nat /\ nowSec > 0 /\ window \in Window(RingSize)
        BY <1>1
      <3>2. QED
        BY <1>0, <1>1, <3>1, AdvanceType, Zenon DEF FiledUnder
    <2>2. u \in Secs
      BY <1>0, <1>1 DEF FiledUnder, RingIInv, Secs
    <2>3. QED
      BY <2>1, <2>2
  <1>3. HoldsWindow(a)
    BY <1>0, <1>1, AdvanceHolds DEF RingIInv
  <1>4. /\ a.head \in 0 .. RingSize - 1
        /\ a.buckets \in [0 .. RingSize - 1 -> Bucket]
        /\ a = [buckets |-> a.buckets, head |-> a.head, headTime |-> a.headTime]
    BY <1>2 DEF Window
  <1>5. window' = [a EXCEPT !.buckets[a.head] = AddSample(@, wt)]
    BY <1>0 DEF RecordSample, Record
  <1>6. /\ window'.buckets = [a.buckets EXCEPT ![a.head] = AddSample(@, wt)]
        /\ window'.head = a.head /\ window'.headTime = u
        /\ window' = [buckets |-> window'.buckets, head |-> a.head, headTime |-> u]
    BY <1>2, <1>4, <1>5
  <1>7. log' = [log EXCEPT ![u] = AddSample(@, wt)] /\ sec' = sec
    BY <1>0 DEF RecordSample
  <1>8. \A b \in Bucket : AddSample(b, wt) \in Bucket
    BY <1>1 DEF AddSample, Bucket
  <1>9. RingTypeOK'
    <2>1. window'.buckets \in [0 .. RingSize - 1 -> Bucket]
      <3>1. AddSample(a.buckets[a.head], wt) \in Bucket
        BY <1>4, <1>8, Zenon
      <3>2. QED
        BY <1>4, <1>6, <3>1, UpdateType
    <2>2. window' \in Window(RingSize)
      BY <1>2, <1>4, <1>6, <2>1, Zenon DEF Window, Secs
    <2>3. log' \in [Secs -> Bucket]
      <3>1. AddSample(log[u], wt) \in Bucket
        BY <1>1, <1>2, <1>8
      <3>2. QED
        BY <1>1, <1>2, <1>7, <3>1, UpdateType
    <2>4. QED
      BY <1>1, <1>7, <2>2, <2>3 DEF RingTypeOK
  <1>10. ASSUME NEW i \in 0 .. RingSize - 1
         PROVE  window'.buckets[i] = Filed(window.headTime - Age(window, i))'
    <2>1. Age(window, i)' = Age(a, i) /\ Age(a, i) \in 0 .. RingSize - 1
      BY <1>1, <1>4, <1>6 DEF Age
    <2>2. CASE i = a.head
      <3>1. Age(a, i) = 0
        BY <1>4, <2>2 DEF Age
      <3>2. window'.buckets[i] = AddSample(a.buckets[i], wt)
        BY <1>4, <1>6, <2>2, Zenon
      <3>3. a.buckets[i] = log[u]
        BY <1>2, <1>3, <3>1 DEF HoldsWindow, Filed, Secs
      <3>4. log'[u] = AddSample(log[u], wt)
        BY <1>1, <1>2, <1>7
      <3>5. (window.headTime - Age(window, i))' = u
        BY <1>2, <1>6, <2>1, <3>1 DEF Secs
      <3>6. QED
        BY <1>2, <3>2, <3>3, <3>4, <3>5 DEF Filed, Secs
    <2>3. CASE i # a.head
      <3>1. Age(a, i) # 0
        BY <1>1, <1>4, <2>3 DEF Age
      <3>2. window'.buckets[i] = Filed(u - Age(a, i))
        BY <1>2, <1>3, <1>4, <1>6, <2>3 DEF HoldsWindow
      <3>3. u - Age(a, i) # u
        BY <1>2, <2>1, <3>1 DEF Secs
      <3>4. Filed(u - Age(a, i))' = Filed(u - Age(a, i))
        BY <1>1, <1>2, <1>4, <1>6, <1>7, <2>1, <3>3 DEF Filed, Secs
      <3>5. QED
        BY <1>6, <1>7, <2>1, <3>2, <3>4 DEF Filed, Secs
    <2>4. QED
      BY <2>2, <2>3
  <1>11. ASSUME NEW s \in Secs, s > u
         PROVE  log'[s] = EmptyBucket
    BY <1>0, <1>1, <1>2, <1>7, <1>11 DEF RingIInv, RingHoldsWindow, FiledUnder, Secs
  <1>12. QED
    BY <1>2, <1>6, <1>9, <1>10, <1>11, BoundsAssumption
    DEF RingIInv, RingHoldsWindow, HoldsWindow, Secs

(* Every bucket of the ring always holds exactly the samples of the second *)
(* it stands for, for every window size, every lag of the callers and      *)
(* every order of Record, ErrorRate and Reset.                             *)
THEOREM RingCorrect == RingSpec => [](RingTypeOK /\ RingHoldsWindow)
  <1>1. RingInit => RingIInv
    BY NewWindowType, FreshRing, SizeAssumption, BoundsAssumption
    DEF RingInit, RingIInv, RingTypeOK, MaxBuckets
  <1>2. RingIInv /\ [RingNext]_ringVars => RingIInv'
    <2> SUFFICES ASSUME RingIInv, [RingNext]_ringVars PROVE RingIInv'
      OBVIOUS
    <2>1. CASE RingTick
      BY <2>1, BoundsAssumption DEF RingTick, RingIInv, RingTypeOK, RingHoldsWindow, HoldsWindow, Age, Filed, Secs
    <2>2. ASSUME NEW wt \in Weights, NEW nowSec \in RingStamps, RecordSample(wt, nowSec)
          PROVE  RingIInv'
      BY <2>2, RecordStep
    <2>3. ASSUME NEW nowSec \in RingStamps, ErrorRate(nowSec)
          PROVE  RingIInv'
      <3>1. PICK a : a = advance(window, nowSec, RingSize)
        OBVIOUS
      <3>2. /\ nowSec \in Secs /\ nowSec \in Nat \ {0} /\ window \in Window(RingSize)
            /\ window.headTime \in Nat /\ window' = a /\ log' = log /\ sec' = sec
        BY <2>3, <3>1 DEF ErrorRate, RingIInv, RingTypeOK, RingStamps, Secs, Window
      <3>3. a \in Window(RingSize) /\ a.headTime = FiledUnder(nowSec)
        <4>1. RingSize \in Nat \ {0} /\ nowSec \in Nat /\ nowSec > 0
          BY <3>2, SizeAssumption DEF MaxBuckets
        <4>2. /\ a \in Window(RingSize)
              /\ a.headTime = IF nowSec > window.headTime THEN nowSec ELSE window.headTime
          BY <3>1, <3>2, <4>1, AdvanceType, Zenon
        <4>3. QED
          BY <4>2 DEF FiledUnder
      <3>4. HoldsWindow(a)
        BY <3>1, <3>2, AdvanceHolds DEF RingIInv
      <3>5. HoldsWindow(window)'
        BY <3>2, <3>4 DEF HoldsWindow, Filed, Age, Secs
      <3>6. a.headTime <= MaxSec /\ a.headTime >= window.headTime
        BY <3>2, <3>3, BoundsAssumption DEF FiledUnder, RingIInv, Secs
      <3>7. a.headTime \in Nat
        BY <3>3 DEF Window
      <3>8. \A s \in Secs : s > a.headTime => log[s] = EmptyBucket
        BY <3>2, <3>6, <3>7 DEF RingIInv, RingHoldsWindow, Secs
      <3>9. QED
        BY <3>2, <3>3, <3>5, <3>6, <3>8 DEF RingIInv, RingTypeOK, RingHoldsWindow
    <2>4. CASE Reset
      <3>1. window' = newSlidingWindow(RingSize) /\ sec' = sec /\ log' = [s \in Secs |-> EmptyBucket]
        BY <2>4 DEF Reset
      <3>2. log' \in [Secs -> Bucket] /\ RingHoldsWindow' /\ window'.headTime = 0
        BY <3>1 DEF newSlidingWindow, RingHoldsWindow, HoldsWindow, Filed, Age, Bucket, EmptyBucket, Secs
      <3>3. QED
        BY <3>1, <3>2, NewWindowType, SizeAssumption, BoundsAssumption
        DEF RingIInv, RingTypeOK, MaxBuckets
    <2>5. CASE UNCHANGED ringVars
      BY <2>5 DEF ringVars, RingIInv, RingTypeOK, RingHoldsWindow, HoldsWindow, Age, Filed, Secs
    <2>6. QED
      BY <2>1, <2>2, <2>3, <2>4, <2>5 DEF RingNext
  <1>3. RingIInv => RingTypeOK /\ RingHoldsWindow
    BY DEF RingIInv
  <1>4. QED
    BY <1>1, <1>2, <1>3, PTL DEF RingSpec
-----------------------------------------------------------------------------
\* The samples filed under a second, in the modelled time or not, are a bucket.
LEMMA FiledType ==
  ASSUME RingTypeOK, NEW s
  PROVE  Filed(s) \in Bucket
  BY DEF RingTypeOK, Filed, Bucket, EmptyBucket

\* From the bucket after the head on, the ring holds the seconds in order.
LEMMA RingInOrder ==
  ASSUME RingTypeOK, RingHoldsWindow, NEW k \in 0 .. RingSize - 1
  PROVE  Filed(window.headTime - RingSize + 1 + k) =
           IF k + window.head + 1 < RingSize THEN window.buckets[k + window.head + 1]
           ELSE window.buckets[k + window.head + 1 - RingSize]
  <1>1. RingSize \in Nat /\ window.head \in 0 .. RingSize - 1 /\ window.headTime \in Nat
    BY SizeAssumption DEF RingTypeOK, Window, MaxBuckets
  <1>2. CASE k + window.head + 1 < RingSize
    <2>1. PICK i \in 0 .. RingSize - 1 : i = k + window.head + 1
      BY <1>1, <1>2
    <2>2. Age(window, i) = RingSize - k - 1
      BY <1>1, <2>1 DEF Age
    <2>3. window.headTime - Age(window, i) = window.headTime - RingSize + 1 + k
      BY <1>1, <2>2
    <2>4. window.buckets[i] = Filed(window.headTime - Age(window, i))
      BY DEF RingHoldsWindow, HoldsWindow
    <2>5. QED
      BY <1>2, <2>1, <2>3, <2>4
  <1>3. CASE ~ k + window.head + 1 < RingSize
    <2>1. PICK i \in 0 .. RingSize - 1 : i = k + window.head + 1 - RingSize
      BY <1>1, <1>3
    <2>2. Age(window, i) = RingSize - k - 1
      BY <1>1, <2>1 DEF Age
    <2>3. window.headTime - Age(window, i) = window.headTime - RingSize + 1 + k
      BY <1>1, <2>2
    <2>4. window.buckets[i] = Filed(window.headTime - Age(window, i))
      BY DEF RingHoldsWindow, HoldsWindow
    <2>5. QED
      BY <1>3, <2>1, <2>3, <2>4
  <1>4. QED
    BY <1>2, <1>3

(* The sums of ErrorRate are those of the samples of the last RingSize     *)
(* seconds, for every window size, lag of the callers and order of calls.  *)
THEOREM RateIsRecent == RingSpec => []RateCountsRecent
  <1>1. ASSUME RingTypeOK, RingHoldsWindow PROVE RateCountsRecent
    <2> DEFINE at(k) == window.headTime - RingSize + 1 + k
    <2>1. /\ RingSize \in Nat /\ window.head \in 0 .. RingSize - 1
          /\ \A i \in 0 .. RingSize - 1 : window.buckets[i] \in Bucket
      BY <1>1, SizeAssumption DEF RingTypeOK, Window, MaxBuckets
    <2>2. PICK recent : recent = [k \in 0 .. RingSize - 1 |-> Filed(at(k))]
      BY Zenon
    <2>3. \A k \in 0 .. RingSize - 1 :
            /\ recent[k] \in Bucket
            /\ recent[k] = IF k + window.head + 1 < RingSize
                           THEN window.buckets[k + window.head + 1]
                           ELSE window.buckets[k + window.head + 1 - RingSize]
      BY <1>1, <2>2, FiledType, RingInOrder
    <2>4. \A b \in Bucket : b.total \in Nat /\ b.errors \in Nat
      BY DEF Bucket
    <2>5. \A k \in 0 .. RingSize - 1 :
            IF k + window.head + 1 < RingSize THEN k + window.head + 1 \in 0 .. RingSize - 1
            ELSE k + window.head + 1 - RingSize \in 0 .. RingSize - 1
      BY <2>1
    <2>6. TotalRequests(window, RingSize) =
            SumOver([k \in 0 .. RingSize - 1 |-> recent[k].total], RingSize)
      <3>1. PICK f, g : /\ f = [i \in 0 .. RingSize - 1 |-> window.buckets[i].total]
                        /\ g = [k \in 0 .. RingSize - 1 |-> recent[k].total]
        BY Zenon
      <3>2. f \in [0 .. RingSize - 1 -> Nat] /\ g \in [0 .. RingSize - 1 -> Nat]
        BY <2>1, <2>3, <2>4, <3>1
      <3>3. \A k \in 0 .. RingSize - 1 :
              g[k] = IF k + window.head + 1 < RingSize THEN f[k + window.head + 1]
                     ELSE f[k + window.head + 1 - RingSize]
        BY <2>3, <2>5, <3>1
      <3>4. SumOver(g, RingSize) = SumOver(f, RingSize)
        BY <2>1, <3>2, <3>3, SumOverTurns, Zenon
      <3>5. QED
        BY <3>1, <3>4 DEF TotalRequests
    <2>7. TotalErrors(window, RingSize) =
            SumOver([k \in 0 .. RingSize - 1 |-> recent[k].errors], RingSize)
      <3>1. PICK f, g : /\ f = [i \in 0 .. RingSize - 1 |-> window.buckets[i].errors]
                        /\ g = [k \in 0 .. RingSize - 1 |-> recent[k].errors]
        BY Zenon
      <3>2. f \in [0 .. RingSize - 1 -> Nat] /\ g \in [0 .. RingSize - 1 -> Nat]
        BY <2>1, <2>3, <2>4, <3>1
      <3>3. \A k \in 0 .. RingSize - 1 :
              g[k] = IF k + window.head + 1 < RingSize THEN f[k + window.head + 1]
                     ELSE f[k + window.head + 1 - RingSize]
        BY <2>3, <2>5, <3>1
      <3>4. SumOver(g, RingSize) = SumOver(f, RingSize)
        BY <2>1, <3>2, <3>3, SumOverTurns, Zenon
      <3>5. QED
        BY <3>1, <3>4 DEF TotalErrors
    <2>8. QED
      BY <2>2, <2>6, <2>7, Zenon DEF RateCountsRecent
  <1>2. QED
    BY <1>1, RingCorrect, PTL
-----------------------------------------------------------------------------
\* A request that waits for a mutex holds a breaker, fetched at most MaxLag ago.
Fetched(r) ==
  Waiting(r) => /\ ptr[r] \in Ids
                /\ since[r] <= clock
                /\ clock - since[r] <= MaxLag

\* What one breaker and its history have in common.  lastUsed may run behind
\* openedAt, but only by the lag of the call that wrote it.
Consistent(i) ==
  LET b == heap[i]
  IN  /\ b.openedAt <= clock
      /\ b.lastUsed <= clock
      /\ b.openedAt - b.lastUsed <= MaxLag
      /\ b.probing <=> b.state = "half_open"
      /\ b.state = "half_open" => hist.admits[i] = 1
      /\ b.state = "open" => hist.tripped[i] - b.openedAt <= MaxLag

RegistryInv ==
  /\ registered # Null => registered \in 1 .. created /\ registered \notin hist.evicted
  /\ NoOrphanBreaker
  /\ hist.evicted \subseteq 1 .. created

IInv ==
  /\ TypeOK
  /\ \A r \in Requests : Fetched(r)
  /\ \A i \in Ids : Consistent(i)
  /\ RegistryInv
  /\ evictor.phase = "delete" => evictor.cutoff <= clock - IdleTimeout
-----------------------------------------------------------------------------
\* The methods of a breaker map breakers to breakers; what they do to the
\* fields the invariant speaks of, without the window.
LEMMA UnixType ==
  ASSUME NEW now \in Nat
  PROVE  Unix(now) \in Nat
  BY ConfigAssumption DEF Unix

\* NewBreaker makes a closed breaker with an empty window.
LEMMA NewBreakerType ==
  ASSUME NEW now \in Nat
  PROVE  NewBreaker(now) \in BreakerRecord
  <1>1. newSlidingWindow(Size) \in Window(Size)
    BY ConfigAssumption, NewWindowType DEF MaxBuckets
  <1>2. QED
    BY <1>1 DEF NewBreaker, BreakerRecord, State

\* What Allow changes: it opens the half-open period, and claims its probe.
LEMMA AllowEffect ==
  ASSUME NEW b \in BreakerRecord, NEW now \in Nat, NEW a, a = Allow(b, now)
  PROVE  /\ a \in BreakerRecord
         /\ a.lastUsed = now
         /\ a.openedAt = b.openedAt
         /\ b.state = "closed" => a.state = "closed" /\ a.probing = b.probing
         /\ b.state # "closed" /\ Admits(b, now) => a.state = "half_open" /\ a.probing
         /\ ~ Admits(b, now) => a.state = b.state /\ a.probing = b.probing
  BY Zenon DEF Allow, BreakerRecord, State, Admits

\* What recording a result at now makes of breaker b.
AfterResult(b, a, now) ==
  /\ a \in BreakerRecord
  /\ a.lastUsed = now
  /\ a.state # "half_open"
  /\ a.state = "open" /\ b.state # "open" => a.openedAt = now
  /\ a.state # "open" \/ b.state = "open" => a.openedAt = b.openedAt
  /\ b.state = "half_open" => a.probing = FALSE
  /\ b.state # "half_open" => a.probing = b.probing

\* What RecordSuccess and RecordError change, from each of the three states.
LEMMA RecordEffect ==
  ASSUME NEW b \in BreakerRecord, NEW now \in Nat, NEW w \in Nat,
         NEW a, a = Recorded(b, w, now)
  PROVE  AfterResult(b, a, now)
  <1> USE DEF AfterResult
  <1>1. Unix(now) \in Nat /\ Size \in Nat \ {0}
    BY UnixType, ConfigAssumption DEF MaxBuckets
  <1>2. PICK rec : rec = Record(b.window, w, Unix(now), Size)
    OBVIOUS
  <1>3. b.window \in Window(Size)
    BY DEF BreakerRecord
  <1>4. rec \in Window(Size)
    BY <1>1, <1>2, <1>3, RecordType
  <1>5. newSlidingWindow(Size) \in Window(Size)
    BY <1>1, NewWindowType
  <1>6. CASE w = Success
    BY <1>2, <1>4, <1>5, <1>6, Zenon DEF Recorded, RecordSuccess, BreakerRecord, State, Success
  <1>7. CASE w # Success
    <2>1. Recorded(b, w, now) = RecordError(b, w, now)
      BY <1>7 DEF Recorded
    <2>2. a = RecordError(b, w, now)
      BY <2>1
    <2>3. b \in [state : State, probing : BOOLEAN, openedAt : Nat, lastUsed : Nat,
                 window : Window(Size)]
      BY DEF BreakerRecord
    <2>4. CASE b.state = "half_open"
      <3>1. a = [b EXCEPT !.lastUsed = now, !.window = rec, !.state = "open",
                          !.openedAt = now, !.probing = FALSE]
        BY <1>2, <2>2, <2>4 DEF RecordError
      <3>2. a \in BreakerRecord
        BY <1>4, <2>3, <3>1, Zenon DEF BreakerRecord, State
      <3>3. QED
        BY <2>3, <2>4, <3>1, <3>2
    <2>5. CASE b.state = "closed" /\ OverThreshold(rec)
      <3>1. a = [b EXCEPT !.lastUsed = now, !.window = rec, !.state = "open",
                          !.openedAt = now]
        BY <1>2, <2>2, <2>3, <2>5, Zenon DEF RecordError
      <3>2. a \in BreakerRecord
        BY <1>4, <2>3, <3>1, Zenon DEF BreakerRecord, State
      <3>3. QED
        BY <2>3, <2>5, <3>1, <3>2
    <2>6. CASE b.state # "half_open" /\ ~ (b.state = "closed" /\ OverThreshold(rec))
      <3>1. a = [b EXCEPT !.lastUsed = now, !.window = rec]
        BY <1>2, <2>2, <2>3, <2>6, Zenon DEF RecordError
      <3>2. a \in BreakerRecord
        BY <1>4, <2>3, <3>1, Zenon DEF BreakerRecord, State
      <3>3. QED
        BY <2>3, <2>6, <3>1, <3>2
    <2>7. QED
      BY <2>4, <2>5, <2>6, Zenon
  <1>8. QED
    BY <1>6, <1>7, Zenon
-----------------------------------------------------------------------------
\* An empty registry without callers satisfies the invariant.
LEMMA InitInv == Init => IInv
  <1> SUFFICES ASSUME Init PROVE IInv
    OBVIOUS
  <1>1. NewBreaker(0) \in BreakerRecord
    BY NewBreakerType
  <1>2. TypeOK
    BY <1>1, ConfigAssumption, CallersAssumption
    DEF Init, TypeOK, History, PcValues, Ids, Null
  <1>3. \A i \in Ids : Consistent(i)
    BY ConfigAssumption, CallersAssumption DEF Init, Consistent, NewBreaker
  <1>4. QED
    BY <1>2, <1>3 DEF Init, IInv, Fetched, Waiting, RegistryInv, NoOrphanBreaker, Null

\* Steps that leave the breakers and their history alone.
LEMMA ConsistentUnchanged ==
  ASSUME IInv, heap' = heap, clock' \in Nat, clock' >= clock,
         hist'.admits = hist.admits, hist'.tripped = hist.tripped
  PROVE  \A i \in Ids : Consistent(i)'
  <1>1. ASSUME NEW i \in Ids
        PROVE  heap[i].openedAt \in Nat /\ heap[i].lastUsed \in Nat
    BY DEF IInv, TypeOK, BreakerRecord
  <1>2. QED
    BY <1>1 DEF IInv, TypeOK, Consistent

\* Time passes: only the clock changes.
LEMMA TickInv == IInv /\ Tick => IInv'
  <1> SUFFICES ASSUME IInv, Tick PROVE IInv'
    OBVIOUS
  <1>1. clock \in Nat /\ clock' = clock + 1
    BY DEF Tick, IInv, TypeOK
  <1>2. TypeOK'
    BY <1>1 DEF Tick, IInv, TypeOK
  <1>3. \A i \in Ids : Consistent(i)'
    BY <1>1, ConsistentUnchanged DEF Tick
  <1>4. \A r \in Requests : Fetched(r)'
    BY <1>1, CallersAssumption DEF Tick, IInv, TypeOK, Fetched, Waiting
  <1>5. (evictor.phase = "delete" => evictor.cutoff <= clock - IdleTimeout)'
    BY <1>1, CallersAssumption DEF Tick, IInv, TypeOK
  <1>6. QED
    BY <1>2, <1>3, <1>4, <1>5, Zenon DEF Tick, IInv, RegistryInv, NoOrphanBreaker

\* Registry.Get and the lookup of GetOrCreate only read the registry.
LEMMA GetInv ==
  ASSUME IInv, NEW r \in Requests, Get(r) \/ GetOrCreate(r)
  PROVE  IInv'
  <1>1. /\ heap' = heap /\ hist' = hist /\ clock' = clock /\ evictor' = evictor
        /\ created' = created /\ registered' = registered /\ weight' = weight
        /\ ptr' = [ptr EXCEPT ![r] = registered]
        /\ since' = [since EXCEPT ![r] = IF registered = Null THEN 0 ELSE clock]
        /\ \E p \in PcValues :
             /\ pc' = [pc EXCEPT ![r] = p]
             /\ p \in {"allow", "record"} => registered # Null
    BY DEF Get, GetOrCreate, PcValues
  <1>2. TypeOK'
    BY <1>1 DEF IInv, TypeOK, PcValues
  <1>3. \A i \in Ids : Consistent(i)'
    BY <1>1, ConsistentUnchanged DEF IInv, TypeOK
  <1>4. \A q \in Requests : Fetched(q)'
    BY <1>1, CallersAssumption DEF IInv, TypeOK, Fetched, Waiting, Null, Ids
  <1>5. QED
    BY <1>1, <1>2, <1>3, <1>4 DEF IInv, RegistryInv, NoOrphanBreaker

\* The call of the provider ends, with a result to record or without.
LEMMA CallInv ==
  ASSUME IInv, NEW r \in Requests, CallSucceeds(r) \/ \E err \in Errors : CallFails(r, err)
  PROVE  IInv'
  <1>1. \A err \in Errors : ClassifyError(err) \in Nat
    BY CallersAssumption DEF ClassifyError, classifyStatus, ErrorKind
  <1>2. /\ heap' = heap /\ clock' = clock /\ evictor' = evictor
        /\ created' = created /\ registered' = registered
        /\ ptr' = ptr /\ since' = since
        /\ pc' = [pc EXCEPT ![r] = "get"] \/ pc' = [pc EXCEPT ![r] = "idle"]
    BY DEF CallSucceeds, CallFails
  <1>3. weight' \in [Requests -> Nat]
    BY <1>1 DEF CallSucceeds, CallFails, IInv, TypeOK, Success
  <1>4. /\ hist' \in History
        /\ hist'.admits = hist.admits /\ hist'.tripped = hist.tripped
        /\ hist'.evicted = hist.evicted
    BY DEF CallSucceeds, CallFails, IInv, TypeOK, History
  <1>5. TypeOK'
    BY <1>2, <1>3, <1>4 DEF IInv, TypeOK, PcValues
  <1>6. \A i \in Ids : Consistent(i)'
    BY <1>2, <1>4, ConsistentUnchanged DEF IInv, TypeOK
  <1>7. \A q \in Requests : Fetched(q)'
    BY <1>2 DEF IInv, TypeOK, Fetched, Waiting
  <1>8. QED
    BY <1>2, <1>4, <1>5, <1>6, <1>7, Zenon DEF IInv, RegistryInv, NoOrphanBreaker

\* GetOrCreate under the write lock: one caller installs a breaker, the
\* others find it.
LEMMA CreateInv ==
  ASSUME IInv, NEW r \in Requests, CreateBreaker(r)
  PROVE  IInv'
  <1>1. /\ hist' = hist /\ clock' = clock /\ evictor' = evictor /\ weight' = weight
        /\ ptr' = [ptr EXCEPT ![r] = registered'] /\ since' = [since EXCEPT ![r] = clock]
        /\ pc' = [pc EXCEPT ![r] = "record"]
    BY DEF CreateBreaker
  <1>2. CASE registered = Null
    <2>1. /\ created \in Nat /\ created + 1 \in Ids
          /\ created' = created + 1 /\ registered' = created + 1
          /\ heap' = [heap EXCEPT ![created + 1] = NewBreaker(clock)]
      BY <1>2, CallersAssumption DEF CreateBreaker, IInv, TypeOK, Ids
    <2>2. NewBreaker(clock) \in BreakerRecord /\ clock \in Nat
      BY NewBreakerType DEF IInv, TypeOK
    <2>3. TypeOK'
      BY <1>1, <2>1, <2>2, CallersAssumption DEF IInv, TypeOK, PcValues, Ids
    <2>4. ASSUME NEW i \in Ids
          PROVE  Consistent(i)'
      <3>1. CASE i = created + 1
        <4>1. heap'[i] = NewBreaker(clock)
          BY <2>1, <3>1 DEF IInv, TypeOK
        <4>2. QED
          <5>1. /\ NewBreaker(clock).state = "closed" /\ ~ NewBreaker(clock).probing
                /\ NewBreaker(clock).openedAt = 0 /\ NewBreaker(clock).lastUsed = clock
            BY DEF NewBreaker
          <5>2. 0 <= clock /\ clock <= clock /\ 0 - clock <= MaxLag
            BY <2>2, CallersAssumption
          <5>3. QED
            BY <1>1, <4>1, <5>1, <5>2, Zenon DEF Consistent
      <3>2. CASE i # created + 1
        <4>1. heap'[i] = heap[i]
          BY <2>1, <3>2 DEF IInv, TypeOK
        <4>2. QED
          BY <1>1, <4>1 DEF Consistent, IInv
      <3>3. QED
        BY <3>1, <3>2
    <2>5. \A q \in Requests : Fetched(q)'
      BY <1>1, <2>1, <2>2, CallersAssumption DEF IInv, TypeOK, Fetched, Waiting, Ids
    <2>6. RegistryInv'
      BY <1>1, <1>2, <2>1, CallersAssumption
      DEF IInv, TypeOK, RegistryInv, NoOrphanBreaker, Ids, Null
    <2>7. QED
      BY <1>1, <2>3, <2>4, <2>5, <2>6 DEF IInv
  <1>3. CASE registered # Null
    <2>1. created' = created /\ registered' = registered /\ heap' = heap
      BY <1>3 DEF CreateBreaker
    <2>2. TypeOK'
      BY <1>1, <2>1 DEF IInv, TypeOK, PcValues
    <2>3. \A i \in Ids : Consistent(i)'
      BY <1>1, <2>1, ConsistentUnchanged DEF IInv, TypeOK
    <2>4. \A q \in Requests : Fetched(q)'
      BY <1>1, <1>3, <2>1, CallersAssumption DEF IInv, TypeOK, Fetched, Waiting, Ids
    <2>5. QED
      BY <1>1, <2>1, <2>2, <2>3, <2>4, Zenon DEF IInv, RegistryInv, NoOrphanBreaker
  <1>4. QED
    BY <1>2, <1>3

\* EvictStale, scan and delete: the breaker that goes is remembered as evicted.
LEMMA EvictInv ==
  ASSUME IInv, EvictScan \/ EvictDelete
  PROVE  IInv'
  <1>1. /\ clock' = clock /\ heap' = heap /\ created' = created /\ pc' = pc
        /\ ptr' = ptr /\ since' = since /\ weight' = weight
    BY DEF EvictScan, EvictDelete
  <1>2. /\ hist' \in History
        /\ hist'.admits = hist.admits /\ hist'.tripped = hist.tripped
        /\ registered' \in Ids \cup {Null}
    BY DEF EvictScan, EvictDelete, IInv, TypeOK, History, Null
  <1>3. evictor' \in [phase : {"idle", "delete"}, cutoff : Int]
    BY CallersAssumption DEF EvictScan, EvictDelete, IInv, TypeOK
  <1>4. TypeOK'
    BY <1>1, <1>2, <1>3 DEF IInv, TypeOK
  <1>5. \A i \in Ids : Consistent(i)'
    BY <1>1, <1>2, ConsistentUnchanged DEF IInv, TypeOK
  <1>6. \A q \in Requests : Fetched(q)'
    BY <1>1 DEF IInv, TypeOK, Fetched, Waiting
  <1>7. RegistryInv'
    <2>1. CASE registered' = registered /\ hist' = hist
      BY <1>1, <2>1 DEF IInv, RegistryInv, NoOrphanBreaker
    <2>2. CASE /\ registered # Null /\ registered' = Null
               /\ hist' = [hist EXCEPT !.evicted = @ \cup {registered}]
      <3>1. hist'.evicted = hist.evicted \cup {registered}
        BY <2>2 DEF IInv, TypeOK, History
      <3>2. QED
        BY <1>1, <2>2, <3>1 DEF IInv, RegistryInv, NoOrphanBreaker
    <2>3. QED
      BY <2>1, <2>2 DEF EvictScan, EvictDelete
  <1>8. (evictor.phase = "delete" => evictor.cutoff <= clock - IdleTimeout)'
    BY <1>1, CallersAssumption DEF EvictScan, EvictDelete, IInv, TypeOK
  <1>9. QED
    BY <1>4, <1>5, <1>6, <1>7, <1>8 DEF IInv

\* Allow under the mutex of the breaker.
LEMMA AllowInv ==
  ASSUME IInv, NEW r \in Requests, NEW now \in Stamps(r), AllowRequest(r, now)
  PROVE  IInv'
  <1>1. PICK i, b, a : i = ptr[r] /\ b = heap[i] /\ a = Allow(b, now)
    OBVIOUS
  <1>2. /\ i \in Ids /\ b \in BreakerRecord /\ clock \in Nat /\ MaxLag \in Nat
        /\ now \in Nat /\ now <= clock /\ clock - now <= MaxLag
    BY <1>1, CallersAssumption
    DEF AllowRequest, IInv, TypeOK, Fetched, Waiting, Stamps
  <1>3. /\ heap' = [heap EXCEPT ![i] = a] /\ clock' = clock /\ evictor' = evictor
        /\ created' = created /\ registered' = registered /\ weight' = weight
        /\ ptr' = [ptr EXCEPT ![r] = Null] /\ since' = [since EXCEPT ![r] = 0]
        /\ \E p \in {"call", "idle"} : pc' = [pc EXCEPT ![r] = p]
    BY <1>1, Zenon DEF AllowRequest
  <1>4. /\ hist' \in History
        /\ hist'.tripped = hist.tripped /\ hist'.evicted = hist.evicted
        /\ hist'.admits = [hist.admits EXCEPT ![i] =
                             IF TimedOut(b, now) THEN 1
                             ELSE IF Admits(b, now) /\ b.state = "half_open" THEN @ + 1 ELSE @]
    <2>1. PICK n : n = IF TimedOut(b, now) THEN 1
                       ELSE IF Admits(b, now) /\ b.state = "half_open"
                       THEN hist.admits[i] + 1 ELSE hist.admits[i]
      OBVIOUS
    <2>2. hist \in History
      BY DEF IInv, TypeOK
    <2>3. n \in Nat
      BY <1>2, <2>1, <2>2 DEF History
    <2>4. hist' = [hist EXCEPT !.admits[i] = n]
      BY <1>1, <1>2, <2>1, <2>2 DEF AllowRequest, History
    <2>5. QED
      BY <1>2, <2>1, <2>2, <2>3, <2>4 DEF History
  <1>5. /\ a \in BreakerRecord /\ a.lastUsed = now /\ a.openedAt = b.openedAt
        /\ b.state = "closed" => a.state = "closed" /\ a.probing = b.probing
        /\ b.state # "closed" /\ Admits(b, now) => a.state = "half_open" /\ a.probing
        /\ ~ Admits(b, now) => a.state = b.state /\ a.probing = b.probing
    <2>1. b \in BreakerRecord /\ now \in Nat /\ a = Allow(b, now)
      BY <1>1, <1>2
    <2>2. QED
      BY <2>1, AllowEffect
  <1>6. TypeOK'
    BY <1>2, <1>3, <1>4, <1>5, Zenon DEF IInv, TypeOK, PcValues, Null
  <1>7. ASSUME NEW j \in Ids
        PROVE  Consistent(j)'
    <2>1. CASE j # i
      <3>1. heap'[j] = heap[j] /\ hist'.admits[j] = hist.admits[j]
        BY <1>3, <1>4, <2>1 DEF IInv, TypeOK, History
      <3>2. clock' = clock /\ hist'.tripped[j] = hist.tripped[j]
        BY <1>3, <1>4, Zenon
      <3>3. Consistent(j)
        BY DEF IInv
      <3>4. QED
        BY <3>1, <3>2, <3>3, Zenon DEF Consistent
    <2>2. CASE j = i
      <3>1. /\ heap'[i] = a /\ hist.admits \in [Ids -> Nat]
            /\ hist'.admits[i] = IF TimedOut(b, now) THEN 1
                                 ELSE IF Admits(b, now) /\ b.state = "half_open"
                                 THEN hist.admits[i] + 1 ELSE hist.admits[i]
        BY <1>2, <1>3, <1>4 DEF IInv, TypeOK, History
      <3>2. /\ b.openedAt <= clock /\ (b.probing <=> b.state = "half_open")
            /\ b.state = "half_open" => hist.admits[i] = 1
            /\ b.state = "open" => hist.tripped[i] - b.openedAt <= MaxLag
            /\ b.state \in State /\ b.openedAt \in Nat
        BY <1>1, <1>2, Zenon DEF Consistent, IInv, BreakerRecord
      <3>3. Admits(b, now) => b.state = "closed" \/ TimedOut(b, now)
        BY <3>2, Zenon DEF Admits
      <3>4. a.openedAt <= clock /\ a.lastUsed <= clock /\ a.openedAt - a.lastUsed <= MaxLag
        <4>1. PICK x \in Nat : x = a.openedAt /\ x <= clock
          BY <1>5, <3>2, Zenon
        <4>2. a.lastUsed = now
          BY <1>5, Zenon
        <4>3. x - now <= MaxLag /\ now <= clock
          BY <1>2, <4>1
        <4>4. QED
          BY <4>1, <4>2, <4>3, Zenon
      <3>5. a.probing <=> a.state = "half_open"
        BY <1>5, <3>2, Zenon
      <3>6. a.state = "half_open" => hist'.admits[i] = 1
        BY <1>5, <3>1, <3>2, <3>3, Zenon DEF TimedOut
      <3>7. a.state = "open" => hist.tripped[i] - a.openedAt <= MaxLag
        BY <1>5, <3>2, Zenon
      <3>8. QED
        BY <1>3, <1>4, <2>2, <3>1, <3>4, <3>5, <3>6, <3>7, Zenon DEF Consistent
    <2>3. QED
      BY <2>1, <2>2
  <1>8. \A q \in Requests : Fetched(q)'
    BY <1>3 DEF IInv, TypeOK, Fetched, Waiting
  <1>9. QED
    BY <1>3, <1>4, <1>6, <1>7, <1>8, Zenon DEF IInv, RegistryInv, NoOrphanBreaker

\* RecordSuccess and RecordError under the mutex of the breaker.
LEMMA RecordInv ==
  ASSUME IInv, NEW r \in Requests, NEW now \in Stamps(r), RecordResult(r, now)
  PROVE  IInv'
  <1>1. PICK i, b, w, a : i = ptr[r] /\ b = heap[i] /\ w = weight[r] /\ a = Recorded(b, w, now)
    OBVIOUS
  <1>2. /\ i \in Ids /\ b \in BreakerRecord /\ clock \in Nat /\ MaxLag \in Nat
        /\ now \in Nat /\ now <= clock /\ clock - now <= MaxLag /\ w \in Nat
    BY <1>1, CallersAssumption
    DEF RecordResult, IInv, TypeOK, Fetched, Waiting, Stamps
  <1>3. /\ heap' = [heap EXCEPT ![i] = a] /\ clock' = clock /\ evictor' = evictor
        /\ created' = created /\ registered' = registered
        /\ weight' = [weight EXCEPT ![r] = 0]
        /\ ptr' = [ptr EXCEPT ![r] = Null] /\ since' = [since EXCEPT ![r] = 0]
        /\ pc' = [pc EXCEPT ![r] = "idle"]
    BY <1>1 DEF RecordResult
  <1>4. /\ hist' \in History
        /\ hist'.admits = hist.admits /\ hist'.evicted = hist.evicted
        /\ hist'.tripped = [hist.tripped EXCEPT ![i] =
                              IF b.state # "open" /\ a.state = "open" THEN clock ELSE @]
    <2>1. PICK t, n : /\ t = IF b.state # "open" /\ a.state = "open" THEN clock
                                                                   ELSE hist.tripped[i]
                      /\ n = IF b.state # "closed" /\ a.state = "closed"
                             THEN 0 ELSE hist.samples[i] + 1
      OBVIOUS
    <2>2. hist \in History
      BY DEF IInv, TypeOK
    <2>3. t \in Nat /\ n \in Nat
      BY <1>2, <2>1, <2>2 DEF History
    <2>4. hist' = [hist EXCEPT !.tripped[i] = t, !.samples[i] = n]
      BY <1>1, <1>2, <2>1, <2>2 DEF RecordResult, History
    <2>5. QED
      BY <1>2, <2>1, <2>2, <2>3, <2>4, Zenon DEF History
  <1>5. AfterResult(b, a, now)
    BY <1>1, <1>2, RecordEffect
  <1>6. TypeOK'
    BY <1>2, <1>3, <1>4, <1>5, Zenon DEF AfterResult, IInv, TypeOK, PcValues, Null
  <1>7. ASSUME NEW j \in Ids
        PROVE  Consistent(j)'
    <2>1. CASE j # i
      <3>1. heap'[j] = heap[j] /\ hist'.tripped[j] = hist.tripped[j]
        BY <1>3, <1>4, <2>1 DEF IInv, TypeOK, History
      <3>2. clock' = clock /\ hist'.admits[j] = hist.admits[j]
        BY <1>3, <1>4, Zenon
      <3>3. Consistent(j)
        BY DEF IInv
      <3>4. QED
        BY <3>1, <3>2, <3>3, Zenon DEF Consistent
    <2>2. CASE j = i
      <3>1. /\ heap'[i] = a
            /\ hist'.tripped[i] = IF b.state # "open" /\ a.state = "open"
                                  THEN clock ELSE hist.tripped[i]
        BY <1>2, <1>3, <1>4 DEF IInv, TypeOK, History
      <3>2. /\ b.openedAt <= clock /\ (b.probing <=> b.state = "half_open")
            /\ b.state = "open" => hist.tripped[i] - b.openedAt <= MaxLag
            /\ b.openedAt \in Nat
        BY <1>1, <1>2, Zenon DEF Consistent, IInv, BreakerRecord
      <3>3. a.openedAt <= clock /\ a.lastUsed <= clock /\ a.openedAt - a.lastUsed <= MaxLag
        BY <1>2, <1>5, <3>2 DEF AfterResult
      <3>4. a.probing <=> a.state = "half_open"
        BY <1>5, <3>2 DEF AfterResult
      <3>5. a.state = "open" => hist'.tripped[i] - a.openedAt <= MaxLag
        BY <1>2, <1>5, <3>1, <3>2 DEF AfterResult
      <3>6. QED
        BY <1>3, <1>4, <1>5, <2>2, <3>1, <3>3, <3>4, <3>5, Zenon DEF AfterResult, Consistent
    <2>3. QED
      BY <2>1, <2>2
  <1>8. \A q \in Requests : Fetched(q)'
    BY <1>3 DEF IInv, TypeOK, Fetched, Waiting
  <1>9. QED
    BY <1>3, <1>4, <1>6, <1>7, <1>8, Zenon DEF IInv, RegistryInv, NoOrphanBreaker
-----------------------------------------------------------------------------
\* Every step of the specification keeps the inductive invariant.
LEMMA StepInv == IInv /\ [Next]_vars => IInv'
  <1> SUFFICES ASSUME IInv, [Next]_vars PROVE IInv'
    OBVIOUS
  <1>1. CASE Tick
    BY <1>1, TickInv
  <1>2. ASSUME NEW r \in Requests, Get(r) PROVE IInv'
    BY <1>2, GetInv
  <1>3. ASSUME NEW r \in Requests, RequestStep(r) PROVE IInv'
    <2>1. CASE \E now \in Stamps(r) : AllowRequest(r, now)
      BY <2>1, AllowInv
    <2>2. CASE CallSucceeds(r) \/ \E err \in Errors : CallFails(r, err)
      BY <2>2, CallInv
    <2>3. CASE GetOrCreate(r)
      BY <2>3, GetInv
    <2>4. CASE CreateBreaker(r)
      BY <2>4, CreateInv
    <2>5. CASE \E now \in Stamps(r) : RecordResult(r, now)
      BY <2>5, RecordInv
    <2>6. QED
      BY <1>3, <2>1, <2>2, <2>3, <2>4, <2>5 DEF RequestStep
  <1>4. CASE EvictScan \/ EvictDelete
    BY <1>4, EvictInv
  <1>5. CASE UNCHANGED vars
    <2>1. \A i \in Ids : Consistent(i)'
      BY <1>5, ConsistentUnchanged DEF vars, IInv, TypeOK
    <2>2. QED
      BY <1>5, <2>1, Zenon DEF vars, IInv, TypeOK, Fetched, Waiting, RegistryInv, NoOrphanBreaker
  <1>6. QED
    BY <1>1, <1>2, <1>3, <1>4, <1>5 DEF Next

\* The inductive invariant holds in every reachable state.
THEOREM Invariance == Spec => []IInv
  BY InitInv, StepInv, PTL DEF Spec

\* The state of the breaker, its registry and its callers is well typed.
THEOREM TypeCorrect == Spec => []TypeOK
  <1>1. IInv => TypeOK
    BY DEF IInv
  <1>2. QED
    BY <1>1, Invariance, PTL

\* Breaker.Allow admits exactly one request per half-open period, whatever
\* the number of callers and however their calls interleave.
THEOREM OneProbe == Spec => []OneProbePerHalfOpen
  <1>1. IInv => OneProbePerHalfOpen
    BY DEF IInv, Consistent, OneProbePerHalfOpen
  <1>2. QED
    BY <1>1, Invariance, PTL

\* Registry.GetOrCreate and EvictStale never leave a live breaker unregistered.
THEOREM NoOrphan == Spec => []NoOrphanBreaker
  <1>1. IInv => NoOrphanBreaker
    BY DEF IInv, RegistryInv
  <1>2. QED
    BY <1>1, Invariance, PTL

\* A breaker that Allow moves from open to half-open had been open for
\* OpenTimeout, up to the time its last recorder waited for the mutex.
THEOREM Refuses == Spec => RefusesUntilTimeout
  <1> DEFINE A == \A i \in Ids :
                    heap[i].state = "open" /\ heap'[i].state = "half_open"
                      => clock >= hist.tripped[i] + OpenTimeout - MaxLag
  <1>1. IInv /\ [Next]_vars => [A]_vars
    <2> SUFFICES ASSUME IInv, Next, NEW i \in Ids,
                        heap[i].state = "open", heap'[i].state = "half_open"
                 PROVE  clock >= hist.tripped[i] + OpenTimeout - MaxLag
      OBVIOUS
    <2>1. heap' # heap
      OBVIOUS
    <2>2. PICK r \in Requests :
            \/ \E now \in Stamps(r) : AllowRequest(r, now) \/ RecordResult(r, now)
            \/ CreateBreaker(r)
      BY <2>1 DEF Next, RequestStep, Tick, Get, CallFails, CallSucceeds, GetOrCreate,
                  EvictScan, EvictDelete
    <2>3. CASE CreateBreaker(r)
      <3>1. heap' = [heap EXCEPT ![created + 1] = NewBreaker(clock)]
        BY <2>1, <2>3 DEF CreateBreaker
      <3>2. heap'[i] = heap[i] \/ heap'[i] = NewBreaker(clock)
        BY <3>1 DEF IInv, TypeOK
      <3>3. QED
        BY <3>2 DEF NewBreaker
    <2>4. ASSUME NEW now \in Stamps(r), RecordResult(r, now) PROVE FALSE
      <3>1. PICK j, b, w, a :
              j = ptr[r] /\ b = heap[j] /\ w = weight[r] /\ a = Recorded(b, w, now)
        OBVIOUS
      <3>2. j \in Ids /\ b \in BreakerRecord /\ now \in Nat /\ w \in Nat
        BY <2>4, <3>1 DEF RecordResult, IInv, TypeOK, Fetched, Waiting, Stamps
      <3>3. AfterResult(b, a, now)
        BY <3>1, <3>2, RecordEffect, Zenon
      <3>4. heap' = [heap EXCEPT ![j] = a]
        BY <2>4, <3>1 DEF RecordResult
      <3>5. heap'[i] = heap[i] \/ heap'[i] = a
        BY <3>4 DEF IInv, TypeOK
      <3>6. QED
        BY <3>3, <3>5 DEF AfterResult
    <2>5. ASSUME NEW now \in Stamps(r), AllowRequest(r, now)
          PROVE  clock >= hist.tripped[i] + OpenTimeout - MaxLag
      <3>1. PICK j, b, a : j = ptr[r] /\ b = heap[j] /\ a = Allow(b, now)
        OBVIOUS
      <3>2. /\ j \in Ids /\ b \in BreakerRecord /\ clock \in Nat
            /\ now \in Nat /\ now <= clock
        BY <2>5, <3>1 DEF AllowRequest, IInv, TypeOK, Fetched, Waiting, Stamps
      <3>3. heap' = [heap EXCEPT ![j] = a]
        BY <2>5, <3>1 DEF AllowRequest
      <3>4. i = j
        BY <3>3 DEF IInv, TypeOK
      <3>5. heap'[i] = a /\ b = heap[i]
        BY <3>1, <3>2, <3>3, <3>4 DEF IInv, TypeOK
      <3>6. Admits(b, now)
        <4>1. ~ Admits(b, now) => a.state = b.state
          BY <3>1, <3>2, AllowEffect
        <4>2. QED
          BY <3>5, <4>1, Zenon
      <3>7. now - b.openedAt >= OpenTimeout
        BY <3>5, <3>6 DEF Admits, TimedOut
      <3>8. /\ hist.tripped[i] - b.openedAt <= MaxLag
            /\ b.openedAt \in Nat /\ hist.tripped[i] \in Nat
        BY <3>2, <3>5, Zenon DEF IInv, Consistent, TypeOK, History, BreakerRecord
      <3>9. QED
        BY <3>2, <3>7, <3>8, ConfigAssumption, CallersAssumption
    <2>6. QED
      BY <2>2, <2>3, <2>4, <2>5
  <1>2. QED
    BY <1>1, Invariance, PTL DEF Spec, RefusesUntilTimeout

\* EvictStale deletes only what was idle for the cutoff, the re-check under
\* the write lock included; with a cutoff longer than the open timeout it
\* never forgets a breaker that still refuses requests.
THEOREM Evicts ==
  ASSUME IdleTimeout >= OpenTimeout + MaxLag
  PROVE  Spec => EvictsOnlyIdle
  <1> DEFINE A == \A i \in Ids :
                    i \in hist'.evicted \ hist.evicted
                      => /\ clock - heap[i].lastUsed > IdleTimeout
                         /\ heap[i].state = "open" => TimedOut(heap[i], clock)
  <1>1. IInv /\ [Next]_vars => [A]_vars
    <2> SUFFICES ASSUME IInv, Next, NEW i \in Ids, i \in hist'.evicted \ hist.evicted
                 PROVE  /\ clock - heap[i].lastUsed > IdleTimeout
                        /\ heap[i].state = "open" => TimedOut(heap[i], clock)
      BY Zenon
    <2>1. hist \in History
      BY Zenon DEF IInv, TypeOK
    <2>2. EvictDelete
      <3>1. CASE Tick \/ EvictScan
        BY <3>1, Zenon DEF Tick, EvictScan
      <3>2. ASSUME NEW r \in Requests, Get(r) \/ GetOrCreate(r) \/ CreateBreaker(r)
            PROVE  FALSE
        BY <3>2 DEF Get, GetOrCreate, CreateBreaker
      <3>3. ASSUME NEW r \in Requests, CallSucceeds(r) \/ \E err \in Errors : CallFails(r, err)
            PROVE  FALSE
        BY <2>1, <3>3 DEF CallSucceeds, CallFails, History
      <3>4. ASSUME NEW r \in Requests, NEW now \in Stamps(r), AllowRequest(r, now)
            PROVE  FALSE
        BY <2>1, <3>4 DEF AllowRequest, History
      <3>5. ASSUME NEW r \in Requests, NEW now \in Stamps(r), RecordResult(r, now)
            PROVE  FALSE
        BY <2>1, <3>5 DEF RecordResult, History
      <3>6. QED
        BY <3>1, <3>2, <3>3, <3>4, <3>5, Zenon DEF Next, RequestStep
    <2>3. i = registered /\ Stale(registered, evictor.cutoff)
      BY <2>1, <2>2 DEF EvictDelete, History
    <2>4. /\ heap[i].lastUsed < evictor.cutoff /\ evictor.cutoff <= clock - IdleTimeout
          /\ evictor.cutoff \in Int /\ clock \in Nat
          /\ heap[i].lastUsed \in Nat /\ heap[i].openedAt \in Nat
          /\ heap[i].openedAt - heap[i].lastUsed <= MaxLag
      <3>1. Consistent(i) /\ heap[i] \in BreakerRecord /\ clock \in Nat
        BY <2>1, Zenon DEF IInv, TypeOK
      <3>2. heap[i].lastUsed < evictor.cutoff
        BY <2>3, Zenon DEF Stale
      <3>3. evictor.cutoff \in Int /\ evictor.cutoff <= clock - IdleTimeout
        BY <2>2 DEF EvictDelete, IInv, TypeOK
      <3>4. heap[i].openedAt - heap[i].lastUsed <= MaxLag
        BY <3>1 DEF Consistent
      <3>5. QED
        BY <3>1, <3>2, <3>3, <3>4, Zenon DEF BreakerRecord
    <2>5. /\ IdleTimeout \in Nat /\ OpenTimeout \in Nat /\ MaxLag \in Nat
          /\ IdleTimeout >= OpenTimeout + MaxLag
      BY ConfigAssumption, CallersAssumption
    <2>6. /\ clock - heap[i].lastUsed > IdleTimeout
          /\ clock - heap[i].openedAt >= OpenTimeout
      <3>1. PICK u, o, k : u = heap[i].lastUsed /\ o = heap[i].openedAt /\ k = evictor.cutoff
        OBVIOUS
      <3>2. /\ u < k /\ k <= clock - IdleTimeout /\ o - u <= MaxLag
            /\ k \in Int /\ clock \in Nat /\ u \in Nat /\ o \in Nat
        BY <2>4, <3>1, Zenon
      <3>3. clock - u > IdleTimeout /\ clock - o >= OpenTimeout
        BY <2>5, <3>2
      <3>4. QED
        BY <3>1, <3>3, Zenon
    <2>7. QED
      BY <2>6 DEF TimedOut
  <1>2. QED
    BY <1>1, Invariance, PTL DEF Spec, EvictsOnlyIdle
-----------------------------------------------------------------------------
\* advance leaves no bucket with more samples than it had.
LEMMA AdvanceTotals ==
  ASSUME NEW size \in Nat \ {0}, NEW w \in Window(size), NEW nowSec \in Nat,
         NEW i \in 0 .. size - 1
  PROVE  advance(w, nowSec, size).buckets[i].total <= w.buckets[i].total
  <1>1. w.buckets[i] \in Bucket
    BY DEF Window
  <1>2. w.buckets[i].total \in Nat
    BY <1>1 DEF Bucket
  <1>3. \/ advance(w, nowSec, size).buckets[i] = w.buckets[i]
        \/ advance(w, nowSec, size).buckets[i] = EmptyBucket
    <2>1. CASE w.headTime = 0
      BY <2>1 DEF advance, Window
    <2>2. CASE w.headTime # 0 /\ nowSec - w.headTime <= 0
      BY <2>2 DEF advance
    <2>3. CASE w.headTime # 0 /\ ~ (nowSec - w.headTime <= 0)
      BY <2>3 DEF advance
    <2>4. QED
      BY <2>1, <2>2, <2>3
  <1>4. EmptyBucket.total = 0
    BY DEF EmptyBucket
  <1>5. QED
    BY <1>2, <1>3, <1>4

\* Recording a result adds one sample to a window at most: it may drop others.
LEMMA RecordGrows ==
  ASSUME NEW size \in Nat \ {0}, NEW w \in Window(size), NEW nowSec \in Nat,
         NEW wt \in Nat
  PROVE  TotalRequests(Record(w, wt, nowSec, size), size) <= TotalRequests(w, size) + 1
  <1>1. PICK a, rec : a = advance(w, nowSec, size) /\ rec = Record(w, wt, nowSec, size)
    BY Zenon
  <1>2. a \in Window(size) /\ rec \in Window(size)
    BY <1>1, AdvanceType, RecordType
  <1>3. /\ a.head \in 0 .. size - 1
        /\ \A i \in 0 .. size - 1 : /\ w.buckets[i].total \in Nat /\ a.buckets[i].total \in Nat
                                    /\ rec.buckets[i].total \in Nat
    BY <1>2, Zenon DEF Window, Bucket
  <1>4. rec.buckets = [a.buckets EXCEPT ![a.head] = AddSample(@, wt)]
    BY <1>1, <1>2 DEF Record, Window
  <1>5. \A i \in 0 .. size - 1 :
          rec.buckets[i].total = IF i = a.head THEN a.buckets[i].total + 1 ELSE a.buckets[i].total
    BY <1>2, <1>3, <1>4 DEF Window, AddSample
  <1>6. \A i \in 0 .. size - 1 : a.buckets[i].total <= w.buckets[i].total
    BY <1>1, AdvanceTotals
  <1>7. PICK f, g : /\ f = [i \in 0 .. size - 1 |-> w.buckets[i].total]
                    /\ g = [i \in 0 .. size - 1 |-> rec.buckets[i].total]
    BY Zenon
  <1>8. f \in [0 .. size - 1 -> Nat] /\ g \in [0 .. size - 1 -> Nat]
    BY <1>3, <1>7
  <1>9. \A k \in 0 .. size - 1 : g[k] <= f[k] + (IF k = a.head THEN 1 ELSE 0)
    <2> SUFFICES ASSUME NEW k \in 0 .. size - 1
                 PROVE  g[k] <= f[k] + (IF k = a.head THEN 1 ELSE 0)
      OBVIOUS
    <2>1. g[k] = rec.buckets[k].total /\ f[k] = w.buckets[k].total
      BY <1>7
    <2>2. PICK x, y \in Nat : x = w.buckets[k].total /\ y = a.buckets[k].total
      BY <1>3
    <2>3. y <= x /\ g[k] = IF k = a.head THEN y + 1 ELSE y
      BY <1>5, <1>6, <2>1, <2>2
    <2>4. QED
      BY <2>1, <2>2, <2>3
  <1>10. SumOver(g, size) <= SumOver(f, size) + 1
    BY <1>3, <1>8, <1>9, SumOverGrows, Zenon
  <1>11. QED
    BY <1>1, <1>7, <1>10, Zenon DEF TotalRequests

\* A new window counts no sample; any window counts some number of them.
LEMMA WindowTotal ==
  ASSUME NEW size \in Nat \ {0}
  PROVE  /\ TotalRequests(newSlidingWindow(size), size) = 0
         /\ \A w \in Window(size) : TotalRequests(w, size) \in Nat
  <1>1. TotalRequests(newSlidingWindow(size), size) = 0
    <2>1. [i \in 0 .. size - 1 |-> newSlidingWindow(size).buckets[i].total]
            = [i \in 0 .. size - 1 |-> 0]
      BY DEF newSlidingWindow, EmptyBucket
    <2>2. QED
      BY <2>1, SumOverZero DEF TotalRequests
  <1>2. ASSUME NEW w \in Window(size) PROVE TotalRequests(w, size) \in Nat
    <2>1. PICK f : f = [i \in 0 .. size - 1 |-> w.buckets[i].total]
      BY Zenon
    <2>2. f \in [0 .. size - 1 -> Nat]
      BY <2>1 DEF Window, Bucket
    <2>3. PICK s : Sums(f, size, s) /\ SumOver(f, size) = s[size]
      BY <2>2, SumOverUnfold
    <2>4. SumOver(f, size) \in Nat
      BY <2>3 DEF Sums
    <2>5. QED
      BY <2>1, <2>4, Zenon DEF TotalRequests
  <1>3. QED
    BY <1>1, <1>2

\* Recording a result made breaker a of b: either a closed again, with a new
\* window, or the window is rec and a tripped only with enough samples in it.
WindowAfter(b, a, rec) ==
  \/ a.window = newSlidingWindow(Size) /\ b.state # "closed" /\ a.state = "closed"
  \/ /\ a.window = rec
     /\ b.state # "closed" => a.state # "closed"
     /\ b.state = "closed" /\ a.state = "open" => TotalRequests(rec, Size) >= MinSamples

\* What recording a result does to the window, and when it trips the breaker.
LEMMA RecordedWindow ==
  ASSUME NEW b \in BreakerRecord, NEW now \in Nat, NEW w \in Nat,
         NEW a, a = Recorded(b, w, now),
         NEW rec, rec = Record(b.window, w, Unix(now), Size)
  PROVE  WindowAfter(b, a, rec)
  <1> USE DEF WindowAfter
  <1>2. b.state \in State
    BY DEF BreakerRecord
  <1>3. CASE w = Success /\ b.state = "half_open"
    BY <1>3 DEF Recorded, RecordSuccess, BreakerRecord
  <1>4. CASE w = Success /\ b.state # "half_open"
    <2>1. a = [b EXCEPT !.lastUsed = now, !.window = rec]
      BY <1>4 DEF Recorded, RecordSuccess, Success, BreakerRecord
    <2>2. a.window = rec /\ a.state = b.state
      BY <2>1 DEF BreakerRecord
    <2>3. QED
      BY <2>2
  <1>5. CASE w # Success
    <2> DEFINE trips == (b.state = "closed" /\ OverThreshold(rec)) \/ b.state = "half_open"
    <2>1. a.window = rec /\ a.state = IF trips THEN "open" ELSE b.state
      <3>1. a = RecordError(b, w, now)
        BY <1>5 DEF Recorded
      <3>2. QED
        BY <3>1 DEF RecordError, BreakerRecord
    <2>2. OverThreshold(rec) => TotalRequests(rec, Size) >= MinSamples
      BY DEF OverThreshold
    <2>3. QED
      BY <1>2, <2>1, <2>2
  <1>6. QED
    BY <1>3, <1>4, <1>5

\* The samples in the window of a breaker were recorded since it closed.
FreshInv == \A i \in Ids : TotalRequests(heap[i].window, Size) <= hist.samples[i]

\* The three steps that change a breaker: what becomes of its window and of
\* the number of its samples.
LEMMA FreshAfter ==
  ASSUME IInv, FreshInv, [Next]_vars, NEW i \in Ids
  PROVE  /\ TotalRequests(heap'[i].window, Size) <= hist'.samples[i]
         /\ heap[i].state = "closed" /\ heap'[i].state = "open"
              => hist'.samples[i] >= MinSamples
  <1>1. /\ Size \in Nat \ {0} /\ MinSamples \in Nat /\ TypeOK /\ heap[i] \in BreakerRecord
        /\ heap[i].window \in Window(Size) /\ hist.samples[i] \in Nat
        /\ TotalRequests(heap[i].window, Size) <= hist.samples[i]
    BY ConfigAssumption DEF IInv, TypeOK, History, BreakerRecord, FreshInv, MaxBuckets
  <1>2. ASSUME heap'[i].window = heap[i].window, heap'[i].state # "open" \/ heap[i].state = "open",
               hist'.samples[i] = hist.samples[i]
        PROVE  /\ TotalRequests(heap'[i].window, Size) <= hist'.samples[i]
               /\ heap[i].state = "closed" /\ heap'[i].state = "open"
                    => hist'.samples[i] >= MinSamples
    BY <1>1, <1>2, Zenon
  <1>3. CASE heap' = heap /\ hist'.samples = hist.samples
    BY <1>2, <1>3, Zenon
  <1>4. ASSUME NEW r \in Requests, NEW now \in Stamps(r), AllowRequest(r, now)
        PROVE  /\ TotalRequests(heap'[i].window, Size) <= hist'.samples[i]
               /\ heap[i].state = "closed" /\ heap'[i].state = "open"
                    => hist'.samples[i] >= MinSamples
    <2>1. hist'.samples = hist.samples
      BY <1>1, <1>4 DEF AllowRequest, TypeOK, History
    <2>2. heap' = [heap EXCEPT ![ptr[r]] = Allow(heap[ptr[r]], now)]
      BY <1>4 DEF AllowRequest
    <2>3. CASE i # ptr[r]
      <3>1. heap'[i] = heap[i]
        BY <1>1, <2>2, <2>3, Zenon DEF TypeOK
      <3>2. QED
        BY <1>2, <2>1, <3>1
    <2>4. CASE i = ptr[r]
      <3>1. heap'[i] = Allow(heap[i], now)
        BY <1>1, <2>2, <2>4 DEF TypeOK
      <3>2. heap'[i].window = heap[i].window
        BY <1>1, <3>1 DEF Allow, BreakerRecord
      <3>3. heap'[i].state = heap[i].state \/ heap'[i].state = "half_open"
        BY <1>1, <3>1 DEF Allow, BreakerRecord
      <3>4. QED
        BY <1>2, <2>1, <3>2, <3>3, Zenon
    <2>5. QED
      BY <2>3, <2>4, Zenon
  <1>5. ASSUME NEW r \in Requests, CreateBreaker(r)
        PROVE  /\ TotalRequests(heap'[i].window, Size) <= hist'.samples[i]
               /\ heap[i].state = "closed" /\ heap'[i].state = "open"
                    => hist'.samples[i] >= MinSamples
    <2>1. hist' = hist /\ (heap' = heap \/ heap' = [heap EXCEPT ![created + 1] = NewBreaker(clock)])
      BY <1>5 DEF CreateBreaker
    <2>2. heap'[i] = heap[i] \/ heap'[i] = NewBreaker(clock)
      BY <1>1, <2>1, Zenon DEF TypeOK
    <2>3. CASE heap'[i] = heap[i]
      BY <1>2, <2>1, <2>3, Zenon
    <2>4. CASE heap'[i] = NewBreaker(clock)
      <3>1. heap'[i].window = newSlidingWindow(Size) /\ heap'[i].state = "closed"
        <4>1. NewBreaker(clock).window = newSlidingWindow(Size) /\ NewBreaker(clock).state = "closed"
          BY DEF NewBreaker
        <4>2. QED
          BY <2>4, <4>1
      <3>2. TotalRequests(heap'[i].window, Size) = 0
        BY <1>1, <3>1, WindowTotal
      <3>3. QED
        BY <1>1, <2>1, <3>1, <3>2
    <2>5. QED
      BY <2>2, <2>3, <2>4
  <1>6. ASSUME NEW r \in Requests, NEW now \in Stamps(r), RecordResult(r, now)
        PROVE  /\ TotalRequests(heap'[i].window, Size) <= hist'.samples[i]
               /\ heap[i].state = "closed" /\ heap'[i].state = "open"
                    => hist'.samples[i] >= MinSamples
    <2>1. PICK a : a = Recorded(heap[ptr[r]], weight[r], now)
      BY Zenon
    <2>2. /\ heap' = [heap EXCEPT ![ptr[r]] = a]
          /\ hist'.samples = [hist.samples EXCEPT ![ptr[r]] =
                                IF heap[ptr[r]].state # "closed" /\ a.state = "closed"
                                THEN 0 ELSE @ + 1]
      BY <1>1, <1>6, <2>1 DEF RecordResult, TypeOK, History
    <2>3. CASE i # ptr[r]
      <3>1. heap'[i] = heap[i] /\ hist'.samples[i] = hist.samples[i]
        BY <1>1, <2>2, <2>3, Zenon DEF TypeOK, History
      <3>2. QED
        BY <1>2, <3>1, Zenon
    <2>4. CASE i = ptr[r]
      <3>1. /\ heap'[i] = a /\ a = Recorded(heap[i], weight[r], now)
            /\ hist'.samples[i] = IF heap[i].state # "closed" /\ a.state = "closed"
                                  THEN 0 ELSE hist.samples[i] + 1
        <4>1. hist.samples \in [Ids -> Nat] /\ heap \in [Ids -> BreakerRecord]
          BY <1>1 DEF TypeOK, History
        <4>2. QED
          BY <2>1, <2>2, <2>4, <4>1, Zenon
      <3>2. weight[r] \in Nat /\ now \in Nat
        <4>1. weight[r] \in Nat /\ since[r] \in Nat /\ clock \in Nat /\ now \in since[r] .. clock
          BY <1>1, <1>6, Zenon DEF TypeOK, Stamps
        <4>2. QED
          BY <4>1
      <3>3. PICK rec : rec = Record(heap[i].window, weight[r], Unix(now), Size)
        BY Zenon
      <3>4. rec \in Window(Size) /\ TotalRequests(rec, Size) <= TotalRequests(heap[i].window, Size) + 1
        BY <1>1, <3>2, <3>3, UnixType, RecordType, RecordGrows, Zenon
      <3>5. TotalRequests(rec, Size) \in Nat /\ TotalRequests(heap[i].window, Size) \in Nat
        BY <1>1, <3>4, WindowTotal
      <3>6. \/ a.window = newSlidingWindow(Size) /\ heap[i].state # "closed" /\ a.state = "closed"
            \/ /\ a.window = rec
               /\ heap[i].state # "closed" => a.state # "closed"
               /\ heap[i].state = "closed" /\ a.state = "open"
                    => TotalRequests(rec, Size) >= MinSamples
        <4>1. PICK b : b = heap[i] /\ b \in BreakerRecord
          BY <1>1
        <4>2. /\ a = Recorded(b, weight[r], now)
              /\ rec = Record(b.window, weight[r], Unix(now), Size)
          BY <3>1, <3>3, <4>1, Zenon
        <4>3. WindowAfter(b, a, rec)
          BY <3>2, <4>1, <4>2, RecordedWindow
        <4>4. QED
          BY <4>1, <4>3, Zenon DEF WindowAfter
      <3>7. TotalRequests(newSlidingWindow(Size), Size) = 0
        BY <1>1, WindowTotal
      <3>8. PICK x, y \in Nat : /\ x = TotalRequests(rec, Size)
                               /\ y = TotalRequests(heap[i].window, Size)
        BY <3>5, Zenon
      <3>9. x <= y + 1 /\ y <= hist.samples[i] /\ hist.samples[i] \in Nat /\ MinSamples \in Nat
        BY <1>1, <3>4, <3>8
      <3>10. CASE a.window = newSlidingWindow(Size) /\ heap[i].state # "closed" /\ a.state = "closed"
        <4>1. /\ TotalRequests(heap'[i].window, Size) = 0 /\ hist'.samples[i] = 0
              /\ heap'[i].state = "closed"
          BY <3>1, <3>7, <3>10, Zenon
        <4>2. QED
          BY <4>1
      <3>11. CASE /\ a.window = rec
                  /\ heap[i].state # "closed" => a.state # "closed"
                  /\ heap[i].state = "closed" /\ a.state = "open" => x >= MinSamples
        <4>1. hist'.samples[i] = hist.samples[i] + 1
          BY <3>1, <3>11, Zenon
        <4>2. TotalRequests(heap'[i].window, Size) = x
          BY <3>1, <3>8, <3>11
        <4>3. PICK z : z = hist.samples[i]
          BY Zenon
        <4>4. x <= z + 1 /\ (x >= MinSamples => z + 1 >= MinSamples)
          BY <3>9, <4>3
        <4>5. heap'[i].state = a.state
          BY <3>1, Zenon
        <4>6. QED
          BY <3>11, <4>1, <4>2, <4>3, <4>4, <4>5, Zenon
      <3>12. QED
        BY <3>6, <3>8, <3>10, <3>11, Zenon
    <2>5. QED
      BY <2>3, <2>4, Zenon
  <1>7. CASE /\ ~ \E r \in Requests : \/ \E now \in Stamps(r) : AllowRequest(r, now) \/ RecordResult(r, now)
                                      \/ CreateBreaker(r)
    <2>1. heap' = heap /\ hist'.samples = hist.samples
      BY <1>1, <1>7 DEF Next, vars, Tick, Get, RequestStep, CallFails, CallSucceeds, GetOrCreate,
                        EvictScan, EvictDelete, TypeOK, History
    <2>2. QED
      BY <1>3, <2>1, Zenon
  <1>8. QED
    BY <1>4, <1>5, <1>6, <1>7, Zenon

\* A closed breaker trips only on MinSamples results recorded since it was
\* created or last closed, for every window size, threshold and set of callers.
THEOREM Trips == Spec => TripsOnFreshSamples
  <1> DEFINE A == \A i \in Ids :
                    heap[i].state = "closed" /\ heap'[i].state = "open"
                      => hist'.samples[i] >= MinSamples
  <1>1. Init => FreshInv
    <2>1. Size \in Nat \ {0} /\ NewBreaker(0).window = newSlidingWindow(Size)
      BY ConfigAssumption DEF NewBreaker, MaxBuckets
    <2>2. TotalRequests(newSlidingWindow(Size), Size) = 0
      BY <2>1, WindowTotal
    <2>3. QED
      BY <2>1, <2>2 DEF Init, FreshInv
  <1>2. IInv /\ FreshInv /\ [Next]_vars => FreshInv' /\ [A]_vars
    BY FreshAfter, Zenon DEF FreshInv
  <1>3. QED
    BY <1>1, <1>2, Invariance, PTL DEF Spec, TripsOnFreshSamples
=============================================================================
