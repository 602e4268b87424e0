------------------------- MODULE RateLimiterProofs -------------------------
(***************************************************************************)
(* Proofs about RateLimiter, for any number of requests and limiters, all  *)
(* limits, estimates and usages, and every length of a minute that is not  *)
(* longer than the time after which idle limiters are evicted.             *)
(***************************************************************************)
EXTENDS RateLimiter, TLAPS

\* A bucket holds what it can hold, and was filled when its limiter was used.
Sound(b, lastUsed) == b.tokens <= Capacity(b) /\ b.lastFill <= lastUsed

\* What was spent since mark, and what is left, had its time to come in.
Paid(b, n) ==
  n > 0 => mark <= b.lastFill /\ n * Minute + b.tokens <= b.limit * (Minute + b.lastFill - mark)

\* What was promised will have come in by then.
Kept(b, p) ==
  p # Never =>
    /\ b.limit > 0 /\ b.lastFill <= p.at
    /\ p.n <= b.limit => p.n * Minute <= b.tokens + (p.at - b.lastFill) * b.limit

Good(i) ==
  /\ heap[i].lastUsed <= clock
  /\ Sound(heap[i].rpm, heap[i].lastUsed) /\ Sound(heap[i].tpm, heap[i].lastUsed)
  /\ Paid(heap[i].rpm, spent[i])
  /\ Kept(heap[i].rpm, promise["rpm"][i]) /\ Kept(heap[i].tpm, promise["tpm"][i])
  /\ promise["rpm"][i] # Never => promise["rpm"][i].n = 1

LimiterInv == \A i \in Ids : Good(i)

\* Limiters that are not created yet have no history, and nobody has them.
FreshInv ==
  /\ \A i \in Ids : i > created => spent[i] = 0 /\ \A k \in Kinds : promise[k][i] = Never
  /\ registered <= created
  /\ \A r \in Requests : pc[r] = "use" => ptr[r] \in 1 .. created

EvictorInv == evictor.phase = "delete" => evictor.cutoff <= clock - IdleTimeout

IInv == TypeOK /\ LimiterInv /\ FreshInv /\ EvictorInv
-----------------------------------------------------------------------------
(* Arithmetic. *)

\* Products of natural numbers grow with their factors.
LEMMA ProductGrows ==
  ASSUME NEW a \in Nat, NEW b \in Nat, NEW c \in Nat, a <= b
  PROVE  a * c <= b * c /\ a * c \in Nat /\ b * c \in Nat
  <1>1. PICK d \in Nat : b = a + d
    <2>1. b - a \in Nat /\ b = a + (b - a)
      OBVIOUS
    <2>2. QED
      BY <2>1
  <1>2. b * c = a * c + d * c
    BY <1>1
  <1>3. d * c \in Nat /\ a * c \in Nat /\ b * c \in Nat
    OBVIOUS
  <1>4. QED
    BY <1>2, <1>3

\* Rounded up, a quotient suffices.
LEMMA QuotientSuffices ==
  ASSUME NEW a \in Nat, NEW c \in Nat \ {0}
  PROVE  a \div c \in Nat /\ a <= (a \div c + 1) * c
  <1>1. a \div c \in Nat /\ a = c * (a \div c) + (a % c) /\ (a % c) \in 0 .. c - 1
    OBVIOUS
  <1>2. (a \div c + 1) * c = c * (a \div c) + c
    BY <1>1
  <1>3. QED
    BY <1>1, <1>2
-----------------------------------------------------------------------------
(* Buckets. *)

\* What a bucket consists of.
LEMMA BucketType ==
  ASSUME NEW b \in BucketRecord
  PROVE  /\ b.tokens \in Nat /\ b.limit \in Nat /\ b.lastFill \in Nat
         /\ Capacity(b) \in Nat
  BY MinuteAssumption DEF BucketRecord, Capacity

\* A refill adds what came in since the last one, as far as there is room.
LEMMA RefillAdds ==
  ASSUME NEW b \in BucketRecord, NEW now \in Nat, b.tokens <= Capacity(b), b.lastFill <= now,
         NEW f, f = refill(b, now)
  PROVE  /\ f \in BucketRecord /\ f.limit = b.limit /\ f.lastFill = now
         /\ f.tokens <= Capacity(b) /\ b.tokens <= f.tokens
         /\ f.tokens <= b.tokens + (now - b.lastFill) * b.limit
         /\ f.tokens = Capacity(b) \/ f.tokens = b.tokens + (now - b.lastFill) * b.limit
  <1> DEFINE gain == (now - b.lastFill) * b.limit
  <1>0. /\ b.tokens \in Nat /\ b.limit \in Nat /\ b.lastFill \in Nat /\ Capacity(b) \in Nat
        /\ now - b.lastFill \in Nat
    BY BucketType
  <1>1. gain \in Nat
    BY <1>0
  <1> HIDE DEF gain
  <1>2. CASE now <= b.lastFill
    <2>1. f = b /\ b.lastFill = now
      BY <1>0, <1>2 DEF refill
    <2>2. gain = 0
      BY <1>0, <2>1 DEF gain
    <2>3. QED
      BY <1>0, <2>1, <2>2 DEF gain
  <1>3. CASE ~ (now <= b.lastFill)
    <2>1. f = [b EXCEPT !.tokens = Least(Capacity(b), @ + gain), !.lastFill = now]
      BY <1>3 DEF refill, gain
    <2>2. f.limit = b.limit /\ f.lastFill = now /\ f.tokens = Least(Capacity(b), b.tokens + gain)
      BY <2>1 DEF BucketRecord
    <2>3. Least(Capacity(b), b.tokens + gain) \in Nat
      BY <1>0, <1>1 DEF Least
    <2>4. f \in BucketRecord
      BY <2>1, <2>3, Zenon DEF BucketRecord
    <2>5. /\ f.tokens <= Capacity(b) /\ b.tokens <= f.tokens /\ f.tokens <= b.tokens + gain
          /\ f.tokens = Capacity(b) \/ f.tokens = b.tokens + gain
      BY <1>0, <1>1, <2>2 DEF Least
    <2>6. QED
      BY <2>2, <2>4, <2>5 DEF gain
  <1>4. QED
    BY <1>2, <1>3

\* tryConsume takes the tokens when there are as many, and refills in any case.
LEMMA ConsumeTakes ==
  ASSUME NEW b \in BucketRecord, NEW now \in Nat, b.tokens <= Capacity(b), b.lastFill <= now,
         NEW n \in Nat, NEW c, c = tryConsume(b, n, now), NEW f, f = refill(b, now)
  PROVE  /\ c \in BucketRecord /\ c.limit = b.limit /\ c.lastFill = now
         /\ c.tokens <= Capacity(b)
         /\ Affords(b, n, now) => c.tokens = f.tokens - n * Minute
         /\ ~ Affords(b, n, now) => c = f /\ f.tokens < n * Minute
  <1>0. n * Minute \in Nat
    BY MinuteAssumption
  <1>1. /\ f \in BucketRecord /\ f.limit = b.limit /\ f.lastFill = now /\ f.tokens <= Capacity(b)
        /\ f.tokens \in Nat /\ Capacity(b) \in Nat
    BY RefillAdds, BucketType
  <1>2. CASE f.tokens >= n * Minute
    <2>1. c = [f EXCEPT !.tokens = @ - n * Minute] /\ Affords(b, n, now)
      BY <1>2 DEF tryConsume, Affords
    <2>2. f.tokens - n * Minute \in Nat
      BY <1>0, <1>1, <1>2
    <2>3. /\ c \in BucketRecord /\ c.limit = b.limit /\ c.lastFill = now
          /\ c.tokens = f.tokens - n * Minute
      BY <1>1, <2>1, <2>2 DEF BucketRecord
    <2>4. c.tokens <= Capacity(b)
      BY <1>0, <1>1, <2>3
    <2>5. QED
      BY <2>1, <2>3, <2>4
  <1>3. CASE ~ (f.tokens >= n * Minute)
    <2>1. c = f /\ ~ Affords(b, n, now)
      BY <1>3 DEF tryConsume, Affords
    <2>2. QED
      BY <1>0, <1>1, <1>3, <2>1
  <1>4. QED
    BY <1>2, <1>3

\* adjust gives back or takes, within what the bucket can hold.
LEMMA AdjustBounds ==
  ASSUME NEW b \in BucketRecord, b.tokens <= Capacity(b), NEW delta \in Int,
         NEW c, c = adjust(b, delta)
  PROVE  /\ c \in BucketRecord /\ c.limit = b.limit /\ c.lastFill = b.lastFill
         /\ c.tokens <= Capacity(b)
         /\ delta >= 0 => b.tokens <= c.tokens
  <1> DEFINE d == delta * Minute
  <1>0. b.tokens \in Nat /\ Capacity(b) \in Nat /\ d \in Int /\ (delta >= 0 => d >= 0)
    BY BucketType, MinuteAssumption
  <1> HIDE DEF d
  <1>1. c = [b EXCEPT !.tokens = Least(Capacity(b), Greatest(0, @ + d))]
    BY DEF adjust, d
  <1>2. Least(Capacity(b), Greatest(0, b.tokens + d)) \in Nat
    BY <1>0 DEF Least, Greatest
  <1>3. /\ c \in BucketRecord /\ c.limit = b.limit /\ c.lastFill = b.lastFill
        /\ c.tokens = Least(Capacity(b), Greatest(0, b.tokens + d))
    BY <1>1, <1>2 DEF BucketRecord
  <1>4. c.tokens <= Capacity(b) /\ (delta >= 0 => b.tokens <= c.tokens)
    BY <1>0, <1>3 DEF Least, Greatest
  <1>5. QED
    BY <1>3, <1>4
-----------------------------------------------------------------------------
(* What the history says of a bucket. *)

\* A refill pays for itself, an admission since mark with the token it takes.
LEMMA PaidAfterRPM ==
  ASSUME NEW b \in BucketRecord, clock \in Nat, mark \in Nat, b.tokens <= Capacity(b),
         b.lastFill <= clock, NEW n \in Nat, Paid(b, n), NEW c, c = tryConsume(b, 1, clock),
         NEW m, m = IF Affords(b, 1, clock) /\ clock >= mark THEN n + 1 ELSE n
  PROVE  Paid(c, m) /\ m \in Nat
  <1> DEFINE f    == refill(b, clock)
             gain == (clock - b.lastFill) * b.limit
  <1>1. /\ f.limit = b.limit /\ f.lastFill = clock /\ f.tokens \in Nat
        /\ f.tokens <= Capacity(b) /\ f.tokens <= b.tokens + gain
    BY RefillAdds, BucketType
  <1>2. /\ c.limit = b.limit /\ c.lastFill = clock
        /\ Affords(b, 1, clock) => c.tokens = f.tokens - Minute
        /\ ~ Affords(b, 1, clock) => c.tokens = f.tokens
    <2>1. 1 \in Nat /\ 1 * Minute = Minute
      BY MinuteAssumption
    <2>2. QED
      BY <1>1, <2>1, ConsumeTakes
  <1>3. b.tokens \in Nat /\ b.limit \in Nat /\ b.lastFill \in Nat /\ gain \in Int
    BY BucketType
  <1>4. \A x \in Int : b.limit * (Minute + clock - x) = b.limit * (Minute + b.lastFill - x) + gain
    BY <1>3, MinuteAssumption
  <1> HIDE DEF f, gain
  <1>5. m \in Nat
    OBVIOUS
  <1>6. CASE n > 0
    <2>1. /\ mark <= b.lastFill /\ mark <= clock
          /\ n * Minute + b.tokens <= b.limit * (Minute + b.lastFill - mark)
      BY <1>3, <1>6 DEF Paid
    <2>2. n * Minute + f.tokens <= b.limit * (Minute + clock - mark)
      <3>1. n * Minute \in Int /\ b.limit * (Minute + b.lastFill - mark) \in Int
        BY <1>3, MinuteAssumption
      <3>2. b.limit * (Minute + clock - mark) = b.limit * (Minute + b.lastFill - mark) + gain
        BY <1>4
      <3>3. QED
        BY <1>1, <1>3, <2>1, <3>1, <3>2
    <2>3. CASE Affords(b, 1, clock)
      <3>1. m = n + 1 /\ (n + 1) * Minute = n * Minute + Minute
        BY <2>1, <2>3, MinuteAssumption
      <3>2. m * Minute + c.tokens = n * Minute + f.tokens
        <4>1. n * Minute \in Int /\ Minute \in Int
          BY MinuteAssumption
        <4>2. QED
          BY <1>1, <1>2, <2>3, <3>1, <4>1
      <3>3. QED
        BY <1>2, <2>1, <2>2, <3>2 DEF Paid
    <2>4. CASE ~ Affords(b, 1, clock)
      BY <1>2, <2>1, <2>2, <2>4 DEF Paid
    <2>5. QED
      BY <1>5, <2>3, <2>4
  <1>7. CASE n = 0
    <2>1. CASE m = 0
      BY <2>1 DEF Paid
    <2>2. CASE m = 1 /\ Affords(b, 1, clock) /\ clock >= mark
      <3>1. m * Minute + c.tokens = f.tokens
        BY <1>1, <1>2, <2>2, MinuteAssumption
      <3>2. Minute <= Minute + clock - mark /\ Minute + clock - mark \in Nat
        BY <2>2, MinuteAssumption
      <3>3. Minute * b.limit <= (Minute + clock - mark) * b.limit
        BY <1>3, <3>2, ProductGrows, MinuteAssumption
      <3>4. Minute * b.limit = Capacity(b) /\ (Minute + clock - mark) * b.limit = b.limit * (Minute + clock - mark)
        BY <1>3, <3>2, MinuteAssumption DEF Capacity
      <3>5. Capacity(b) \in Nat /\ b.limit * (Minute + clock - mark) \in Int
        BY <1>3, <3>2, BucketType
      <3>6. m * Minute + c.tokens <= b.limit * (Minute + clock - mark)
        BY <1>1, <3>1, <3>3, <3>4, <3>5
      <3>7. QED
        BY <1>2, <1>5, <2>2, <3>6 DEF Paid
    <2>3. QED
      BY <1>5, <1>7, <2>1, <2>2
  <1>8. QED
    BY <1>5, <1>6, <1>7

\* A refusal promises no more than what will come in.
LEMMA KeptAfterRefusal ==
  ASSUME NEW b \in BucketRecord, clock \in Nat, b.tokens <= Capacity(b), b.lastFill <= clock,
         b.limit # 0, NEW n \in Nat, ~ Affords(b, n, clock), NEW c, c = tryConsume(b, n, clock),
         NEW p, p = Refusal(b, n)
  PROVE  Kept(c, p) /\ p \in [n : Nat, at : Nat] /\ p.n = n
  <1> DEFINE f    == refill(b, clock)
             need == n * Minute - f.tokens
             wait == need \div b.limit + 1
  <1>1. c = f /\ f.tokens < n * Minute /\ c.limit = b.limit /\ c.lastFill = clock
    BY ConsumeTakes
  <1>2. f.limit = b.limit /\ f.tokens \in Nat
    BY RefillAdds, BucketType
  <1>3. n * Minute \in Nat /\ b.limit \in Nat \ {0}
    BY BucketType, MinuteAssumption
  <1>4. need \in Nat
    BY <1>1, <1>2, <1>3
  <1>5. p = [n |-> n, at |-> clock + wait]
    BY <1>2 DEF Refusal, retryAfter
  <1> HIDE DEF f
  <1>6. wait \in Nat /\ need <= wait * b.limit
    <2> HIDE DEF need
    <2>1. need \div b.limit \in Nat /\ need <= (need \div b.limit + 1) * b.limit
      BY <1>3, <1>4, QuotientSuffices, Zenon
    <2>2. QED
      BY <2>1
  <1> HIDE DEF wait
  <1>7. p \in [n : Nat, at : Nat] /\ p.n = n /\ p.at = clock + wait
    BY <1>5, <1>6
  <1>8. n * Minute <= c.tokens + (p.at - c.lastFill) * c.limit
    <2>1. p.at - c.lastFill = wait /\ c.tokens = f.tokens /\ c.limit = b.limit
      BY <1>1, <1>6, <1>7
    <2>2. wait * b.limit \in Int
      BY <1>3, <1>6
    <2>3. n * Minute <= f.tokens + wait * b.limit
      BY <1>2, <1>3, <1>6, <2>2
    <2>4. QED
      BY <2>1, <2>3
  <1>9. c.limit > 0 /\ c.lastFill <= p.at
    BY <1>1, <1>3, <1>6, <1>7
  <1>10. QED
    BY <1>7, <1>8, <1>9 DEF Kept

\* What is given back breaks no promise.
LEMMA KeptAfterRefund ==
  ASSUME NEW b \in BucketRecord, b.tokens <= Capacity(b), NEW delta \in Nat,
         NEW p \in [n : Nat, at : Nat], Kept(b, p), NEW c, c = adjust(b, delta)
  PROVE  Kept(c, p)
  <1>1. c.limit = b.limit /\ c.lastFill = b.lastFill /\ b.tokens <= c.tokens /\ c \in BucketRecord
    BY AdjustBounds
  <1>2. b.tokens \in Nat /\ c.tokens \in Nat /\ (p.at - b.lastFill) * b.limit \in Int /\ p.n * Minute \in Nat
    BY <1>1, BucketType, MinuteAssumption
  <1>3. QED
    BY <1>1, <1>2 DEF Kept

\* A promise that is kept is honest.
LEMMA KeptAffords ==
  ASSUME NEW b \in BucketRecord, clock \in Nat, b.tokens <= Capacity(b), b.lastFill <= clock,
         NEW p \in [n : Nat, at : Nat], Kept(b, p), p # Never, p.at <= clock, p.n <= b.limit
  PROVE  Affords(b, p.n, clock)
  <1> DEFINE f == refill(b, clock)
  <1>1. /\ b.tokens \in Nat /\ b.limit \in Nat /\ b.lastFill \in Nat /\ p.n \in Nat /\ p.at \in Nat
        /\ f.tokens = Capacity(b) \/ f.tokens = b.tokens + (clock - b.lastFill) * b.limit
    BY RefillAdds, BucketType
  <1>2. p.n * Minute <= Capacity(b)
    BY <1>1, ProductGrows, MinuteAssumption DEF Capacity
  <1>3. p.n * Minute <= b.tokens + (clock - b.lastFill) * b.limit
    <2>1. b.lastFill <= p.at /\ p.n * Minute <= b.tokens + (p.at - b.lastFill) * b.limit
      BY DEF Kept
    <2>2. p.at - b.lastFill \in Nat /\ clock - b.lastFill \in Nat /\ p.at - b.lastFill <= clock - b.lastFill
      BY <1>1, <2>1
    <2>3. /\ (p.at - b.lastFill) * b.limit <= (clock - b.lastFill) * b.limit
          /\ (p.at - b.lastFill) * b.limit \in Nat /\ (clock - b.lastFill) * b.limit \in Nat
      BY <1>1, <2>2, ProductGrows
    <2>4. p.n * Minute \in Nat
      BY <1>1, MinuteAssumption
    <2>5. QED
      BY <1>1, <2>1, <2>3, <2>4
  <1>4. f.tokens >= p.n * Minute
    BY <1>1, <1>2, <1>3
  <1>5. QED
    BY <1>4 DEF Affords

\* A refusal that is due.
LEMMA DueAffords ==
  ASSUME NEW b \in BucketRecord, NEW u \in Nat, Sound(b, u), u <= clock, clock \in Nat,
         NEW p \in [n : Nat, at : Nat], Kept(b, p), Due(p), p.n <= b.limit
  PROVE  Affords(b, p.n, clock)
  <1>1. b.lastFill \in Nat
    BY BucketType
  <1>2. p # Never /\ p.at <= clock /\ b.tokens <= Capacity(b) /\ b.lastFill <= clock
    BY <1>1 DEF Due, Sound
  <1>3. QED
    BY <1>2, KeptAffords

\* A bucket is full a minute after it was last used.
LEMMA FullWhenIdle ==
  ASSUME NEW b \in BucketRecord, clock \in Nat, NEW u \in Nat, Sound(b, u), u + Minute <= clock
  PROVE  FullAt(b, clock)
  <1> DEFINE f == refill(b, clock)
  <1>0. b.tokens \in Nat /\ b.limit \in Nat /\ b.lastFill \in Nat /\ Minute \in Nat /\ Capacity(b) \in Nat
    BY BucketType, MinuteAssumption
  <1>1. b.lastFill <= clock /\ b.tokens <= Capacity(b) /\ Minute <= clock - b.lastFill /\ clock - b.lastFill \in Nat
    BY <1>0 DEF Sound
  <1>2. /\ f.tokens = Capacity(b) \/ f.tokens = b.tokens + (clock - b.lastFill) * b.limit
        /\ f.tokens <= Capacity(b) /\ f.tokens \in Nat
    BY <1>1, RefillAdds, BucketType
  <1>3. Minute * b.limit <= (clock - b.lastFill) * b.limit /\ Minute * b.limit = Capacity(b)
        /\ (clock - b.lastFill) * b.limit \in Nat
    BY <1>0, <1>1, ProductGrows DEF Capacity
  <1>4. f.tokens = Capacity(b)
    BY <1>0, <1>2, <1>3
  <1>5. QED
    BY <1>4 DEF FullAt
-----------------------------------------------------------------------------
(* Steps. *)

ReqTypeOK ==
  /\ pc \in [Requests -> {"idle", "get", "create", "use", "call"}]
  /\ stage \in [Requests -> {"rpm", "tpm", "adjust"}]
  /\ want \in [Requests -> LimitsRecord]
  /\ ptr \in [Requests -> Ids \cup {Null}]
  /\ est \in [Requests -> Nat]
  /\ used \in [Requests -> Nat]

HistTypeOK ==
  /\ heap \in [Ids -> LimiterRecord]
  /\ spent \in [Ids -> Nat]
  /\ promise \in [Kinds -> [Ids -> [n : Nat, at : Nat]]]

\* What a limiter consists of.
LEMMA LimiterType ==
  ASSUME NEW h \in LimiterRecord
  PROVE  h.limits \in LimitsRecord /\ h.rpm \in BucketRecord /\ h.tpm \in BucketRecord /\ h.lastUsed \in Nat
  BY DEF LimiterRecord

\* The types of what most steps read.
LEMMA Typing ==
  ASSUME IInv
  PROVE  /\ clock \in Nat /\ mark \in Nat /\ created \in Nat /\ created + 1 \in Nat
         /\ registered \in Ids \cup {Null}
         /\ registered <= created
         /\ \A r \in Requests : want[r] \in LimitsRecord /\ est[r] \in Nat /\ used[r] \in Nat
  <1>1. MaxLimiters \in Nat
    BY LimiterAssumption
  <1>2. /\ clock \in Nat /\ mark \in Nat /\ created \in 0 .. MaxLimiters
        /\ registered \in Ids \cup {Null} /\ registered <= created
    BY DEF IInv, TypeOK, FreshInv
  <1>3. want \in [Requests -> LimitsRecord] /\ est \in [Requests -> Nat] /\ used \in [Requests -> Nat]
    BY DEF IInv, TypeOK
  <1>4. QED
    BY <1>1, <1>2, <1>3

\* The same of one limiter, with what holds of it.
LEMMA LimiterTyping ==
  ASSUME IInv, NEW i \in Ids
  PROVE  /\ heap[i] \in LimiterRecord /\ heap[i].lastUsed \in Nat
         /\ heap[i].rpm \in BucketRecord /\ heap[i].tpm \in BucketRecord
         /\ spent[i] \in Nat
         /\ promise["rpm"][i] \in [n : Nat, at : Nat] /\ promise["tpm"][i] \in [n : Nat, at : Nat]
         /\ Good(i)
         /\ heap[i].rpm.tokens <= Capacity(heap[i].rpm) /\ heap[i].rpm.lastFill <= clock
         /\ heap[i].tpm.tokens <= Capacity(heap[i].tpm) /\ heap[i].tpm.lastFill <= clock
  <1>1. Good(i)
    BY DEF IInv, LimiterInv
  <1>2. heap \in [Ids -> LimiterRecord] /\ spent \in [Ids -> Nat]
    BY DEF IInv, TypeOK
  <1>3. promise \in [Kinds -> [Ids -> [n : Nat, at : Nat]]]
    BY DEF IInv, TypeOK
  <1>4. promise["rpm"][i] \in [n : Nat, at : Nat] /\ promise["tpm"][i] \in [n : Nat, at : Nat]
    BY <1>3 DEF Kinds
  <1>5. /\ heap[i] \in LimiterRecord /\ heap[i].lastUsed \in Nat
        /\ heap[i].rpm \in BucketRecord /\ heap[i].tpm \in BucketRecord
    BY <1>2, LimiterType
  <1>6. /\ heap[i].rpm.tokens <= Capacity(heap[i].rpm) /\ heap[i].rpm.lastFill <= heap[i].lastUsed
        /\ heap[i].tpm.tokens <= Capacity(heap[i].tpm) /\ heap[i].tpm.lastFill <= heap[i].lastUsed
        /\ heap[i].lastUsed <= clock
    BY <1>1 DEF Good, Sound
  <1>7. heap[i].rpm.lastFill \in Nat /\ heap[i].tpm.lastFill \in Nat /\ clock \in Nat
    BY <1>5, BucketType, Typing
  <1>8. heap[i].rpm.lastFill <= clock /\ heap[i].tpm.lastFill <= clock
    BY <1>5, <1>6, <1>7
  <1>9. QED
    BY <1>1, <1>2, <1>4, <1>5, <1>6, <1>8

\* A step of a request that uses no limiter.
LEMMA RequestMoves ==
  ASSUME IInv, ReqTypeOK', \A r \in Requests : pc'[r] = "use" => ptr'[r] \in 1 .. created,
         UNCHANGED <<clock, heap, created, registered, evictor, mark, spent, promise>>
  PROVE  IInv'
  <1>1. TypeOK'
    BY DEF IInv, TypeOK, ReqTypeOK, Capacity
  <1>2. LimiterInv'
    BY DEF IInv, LimiterInv, Good, Sound, Paid, Kept, Capacity
  <1>3. FreshInv' /\ EvictorInv'
    BY DEF IInv, FreshInv, EvictorInv
  <1>4. QED
    BY <1>1, <1>2, <1>3 DEF IInv

\* A request uses the limiter that it holds.
LEMMA UseInv ==
  ASSUME IInv, NEW i \in Ids, i <= created, ReqTypeOK', HistTypeOK',
         \A r \in Requests : pc'[r] = "use" => ptr'[r] \in 1 .. created,
         UNCHANGED <<clock, created, registered, evictor, mark>>,
         \A j \in Ids \ {i} : /\ heap'[j] = heap[j] /\ spent'[j] = spent[j]
                              /\ \A k \in Kinds : promise'[k][j] = promise[k][j],
         Good(i)'
  PROVE  IInv'
  <1>1. LimiterInv'
    <2>1. ASSUME NEW j \in Ids \ {i} PROVE Good(j)'
      <3>1. /\ heap'[j] = heap[j] /\ spent'[j] = spent[j]
            /\ promise'["rpm"][j] = promise["rpm"][j] /\ promise'["tpm"][j] = promise["tpm"][j]
        BY <2>1 DEF Kinds
      <3>2. Good(j)
        BY DEF IInv, LimiterInv
      <3>3. QED
        BY <3>1, <3>2, Zenon DEF Good, Sound, Paid, Kept, Capacity
    <2>2. QED
      BY <2>1 DEF LimiterInv
  <1>2. TypeOK'
    BY <1>1, Zenon DEF IInv, TypeOK, ReqTypeOK, HistTypeOK, LimiterInv, Good, Sound
  <1>3. FreshInv' /\ EvictorInv'
    <2>1. i \in Int /\ created \in Int
      BY DEF IInv, TypeOK, Ids
    <2>2. QED
      BY <2>1 DEF IInv, FreshInv, EvictorInv
  <1>4. QED
    BY <1>1, <1>2, <1>3 DEF IInv

\* Time passes.
LEMMA TickInv == ASSUME IInv, Tick PROVE IInv'
  <1>1. /\ clock' = clock + 1 /\ clock \in Nat
        /\ UNCHANGED <<heap, created, registered, pc, stage, want, ptr, est, used, evictor, mark, spent, promise>>
    BY Typing DEF Tick, reqVars
  <1>2. TypeOK'
    BY <1>1 DEF IInv, TypeOK, Capacity
  <1>3. LimiterInv'
    <2>1. ASSUME NEW i \in Ids PROVE Good(i)'
      <3>1. Good(i) /\ heap[i].lastUsed \in Nat
        BY LimiterTyping
      <3>2. heap[i].lastUsed <= clock'
        <4>1. heap[i].lastUsed <= clock /\ clock' = clock + 1 /\ clock \in Nat
          BY <1>1, <3>1, Zenon DEF Good
        <4>2. QED
          BY <3>1, <4>1
      <3>3. /\ Sound(heap[i].rpm, heap[i].lastUsed)' = Sound(heap[i].rpm, heap[i].lastUsed)
            /\ Sound(heap[i].tpm, heap[i].lastUsed)' = Sound(heap[i].tpm, heap[i].lastUsed)
        BY <1>1 DEF Sound, Capacity
      <3>4. /\ Paid(heap[i].rpm, spent[i])' = Paid(heap[i].rpm, spent[i])
            /\ Kept(heap[i].rpm, promise["rpm"][i])' = Kept(heap[i].rpm, promise["rpm"][i])
            /\ Kept(heap[i].tpm, promise["tpm"][i])' = Kept(heap[i].tpm, promise["tpm"][i])
        BY <1>1 DEF Paid, Kept
      <3>5. QED
        BY <1>1, <3>1, <3>2, <3>3, <3>4 DEF Good
    <2>2. QED
      BY <2>1 DEF LimiterInv
  <1>4. FreshInv'
    BY <1>1 DEF IInv, FreshInv
  <1>5. EvictorInv'
    BY <1>1, LimiterAssumption DEF IInv, TypeOK, EvictorInv
  <1>6. QED
    BY <1>2, <1>3, <1>4, <1>5 DEF IInv

\* The end of a request, whatever it did last.
LEMMA FinishTypes ==
  ASSUME IInv, NEW r \in Requests, Finish(r), ptr' = ptr \/ ptr' = [ptr EXCEPT ![r] = Null]
  PROVE  ReqTypeOK' /\ \A q \in Requests : pc'[q] = "use" => ptr'[q] \in 1 .. created
  <1>1. NoLimits \in LimitsRecord
    BY DEF NoLimits, LimitsRecord
  <1>2. ReqTypeOK'
    BY <1>1 DEF IInv, TypeOK, ReqTypeOK, Finish, Null
  <1>3. \A q \in Requests : pc'[q] = "use" => q # r /\ pc[q] = "use" /\ ptr'[q] = ptr[q]
    BY DEF IInv, TypeOK, Finish
  <1>4. QED
    BY <1>2, <1>3 DEF IInv, FreshInv

\* A request arrives, looks its limiter up, or gets its response.
LEMMA MovesInv ==
  ASSUME IInv, NEW r \in Requests,
         \/ \E l \in KeyLimits, n \in Estimates : Arrive(r, l, n)
         \/ GetOrCreate(r)
         \/ \E tokens \in Usages : Respond(r, tokens)
         \/ RespondWithoutUsage(r)
  PROVE  IInv'
  <1> DEFINE Hold == \A q \in Requests : pc'[q] = "use" => ptr'[q] \in 1 .. created
  <1>0. \A q \in Requests : pc[q] = "use" => ptr[q] \in 1 .. created
    BY DEF IInv, FreshInv
  <1>1. ASSUME NEW l \in KeyLimits, NEW n \in Estimates, Arrive(r, l, n) PROVE IInv'
    <2>1. EffectiveLimits(l) \in LimitsRecord /\ n \in Nat
      <3>1. l \in LimitsRecord /\ Defaults \in LimitsRecord /\ n \in Nat
        BY LimiterAssumption
      <3>2. QED
        BY <3>1 DEF EffectiveLimits, LimitsRecord
    <2>2. ReqTypeOK'
      BY <1>1, <2>1, Zenon DEF Arrive, IInv, TypeOK, ReqTypeOK
    <2>3. Hold
      BY <1>0, <1>1 DEF Arrive, IInv, TypeOK
    <2>4. QED
      BY <1>1, <2>2, <2>3, RequestMoves DEF Arrive
  <1>2. CASE GetOrCreate(r)
    <2>1. registered \in Ids \cup {Null} /\ registered <= created /\ created \in Nat
      BY Typing
    <2>2. ReqTypeOK'
      BY <1>2, <2>1, Zenon DEF GetOrCreate, IInv, TypeOK, ReqTypeOK, Null
    <2>3. Matches(registered, want[r]) => registered \in 1 .. created
      BY <2>1 DEF Matches, Ids, Null
    <2>4. /\ pc'[r] = "use" => Matches(registered, want[r]) /\ ptr'[r] = registered
          /\ \A q \in Requests \ {r} : pc'[q] = pc[q] /\ ptr'[q] = ptr[q]
      BY <1>2, Zenon DEF GetOrCreate, IInv, TypeOK
    <2>5. Hold
      BY <1>0, <2>3, <2>4
    <2>6. QED
      BY <1>2, <2>2, <2>5, RequestMoves DEF GetOrCreate
  <1>3. ASSUME NEW tokens \in Usages, Respond(r, tokens) PROVE IInv'
    <2>1. tokens \in Nat
      BY LimiterAssumption
    <2>2. ReqTypeOK'
      BY <1>3, <2>1, Zenon DEF Respond, IInv, TypeOK, ReqTypeOK
    <2>3. Hold
      BY <1>0, <1>3, Zenon DEF Respond, IInv, TypeOK
    <2>4. QED
      BY <1>3, <2>2, <2>3, RequestMoves DEF Respond
  <1>4. CASE RespondWithoutUsage(r)
    <2>1. ReqTypeOK' /\ Hold
      BY <1>4, FinishTypes DEF RespondWithoutUsage
    <2>2. QED
      BY <1>4, <2>1, RequestMoves DEF RespondWithoutUsage
  <1>5. QED
    BY <1>1, <1>2, <1>3, <1>4

\* The last step of a use: on to the next, or the end of the request.
LEMMA UsedTypes ==
  ASSUME IInv, NEW r \in Requests, ptr' = [ptr EXCEPT ![r] = Null],
         \/ Finish(r)
         \/ /\ \E v \in {"get", "call"} : pc' = [pc EXCEPT ![r] = v]
            /\ stage' = stage \/ stage' = [stage EXCEPT ![r] = "tpm"]
            /\ UNCHANGED <<want, est, used>>
  PROVE  ReqTypeOK' /\ \A q \in Requests : pc'[q] = "use" => ptr'[q] \in 1 .. created
  <1>1. CASE Finish(r)
    BY <1>1, FinishTypes, Zenon
  <1>2. ASSUME NEW v \in {"get", "call"}, pc' = [pc EXCEPT ![r] = v],
               stage' = stage \/ stage' = [stage EXCEPT ![r] = "tpm"],
               UNCHANGED <<want, est, used>>
        PROVE  ReqTypeOK' /\ \A q \in Requests : pc'[q] = "use" => ptr'[q] \in 1 .. created
    <2>1. ReqTypeOK'
      BY <1>2 DEF IInv, TypeOK, ReqTypeOK, Null
    <2>2. \A q \in Requests : pc'[q] = "use" => pc[q] = "use" /\ ptr'[q] = ptr[q]
      BY <1>2 DEF IInv, TypeOK
    <2>3. QED
      BY <2>1, <2>2 DEF IInv, FreshInv
  <1>3. QED
    BY <1>1, <1>2

\* A new limiter has full buckets and no history.
LEMMA NewLimiterGood ==
  ASSUME NEW l \in LimitsRecord, NEW now \in Nat, NEW h, h = newLimiter(l, now)
  PROVE  /\ h \in LimiterRecord /\ h.lastUsed = now /\ h.limits = l
         /\ Sound(h.rpm, now) /\ Sound(h.tpm, now)
  <1>1. l.RPM \in Nat /\ l.TPM \in Nat
    BY DEF LimitsRecord
  <1>2. ASSUME NEW n \in Nat, NEW b, b = newBucket(n, now) PROVE b \in BucketRecord /\ Sound(b, now)
    <2>1. n * Minute \in Nat
      BY MinuteAssumption
    <2>2. b = [tokens |-> n * Minute, limit |-> n, lastFill |-> now]
      BY <1>2 DEF newBucket
    <2>3. b \in BucketRecord
      BY <2>1, <2>2 DEF BucketRecord
    <2>4. b.tokens = Capacity(b) /\ b.lastFill = now
      BY <2>2 DEF Capacity
    <2>5. QED
      BY <2>1, <2>2, <2>3, <2>4 DEF Sound
  <1>3. h.rpm = newBucket(l.RPM, now) /\ h.tpm = newBucket(l.TPM, now) /\ h.lastUsed = now /\ h.limits = l
    BY DEF newLimiter
  <1>4. h.rpm \in BucketRecord /\ h.tpm \in BucketRecord /\ Sound(h.rpm, now) /\ Sound(h.tpm, now)
    BY <1>1, <1>2, <1>3
  <1>5. h \in LimiterRecord
    <2>1. h = [limits |-> l, rpm |-> h.rpm, tpm |-> h.tpm, lastUsed |-> now]
      BY <1>3 DEF newLimiter
    <2>2. QED
      BY <1>4, <2>1 DEF LimiterRecord
  <1>6. QED
    BY <1>3, <1>4, <1>5

\* The limiters of the initial state.
LEMMA UnusedLimiter ==
  ASSUME NEW h, h = newLimiter(NoLimits, 0)
  PROVE  h \in LimiterRecord /\ h.lastUsed = 0 /\ Sound(h.rpm, 0) /\ Sound(h.tpm, 0)
  <1>1. NoLimits \in LimitsRecord
    BY DEF NoLimits, LimitsRecord
  <1>2. QED
    BY <1>1, NewLimiterGood

\* GetOrCreate under the write lock.
LEMMA CreateInv == ASSUME IInv, NEW r \in Requests, CreateLimiter(r) PROVE IInv'
  <1>1. /\ pc[r] = "create" /\ pc' = [pc EXCEPT ![r] = "use"] /\ ptr' = [ptr EXCEPT ![r] = registered']
        /\ UNCHANGED <<clock, stage, want, est, used, evictor, mark, spent, promise>>
        /\ created \in Nat /\ registered \in Ids \cup {Null} /\ registered <= created /\ clock \in Nat
    BY Typing DEF CreateLimiter
  <1>2. \A q \in Requests \ {r} : pc'[q] = pc[q] /\ ptr'[q] = ptr[q]
    BY <1>1 DEF IInv, TypeOK
  <1>3. ptr'[r] = registered'
    BY <1>1 DEF IInv, TypeOK
  <1>4. CASE Matches(registered, want[r])
    <2>1. UNCHANGED <<heap, created, registered>> /\ registered \in 1 .. created
      BY <1>1, <1>4 DEF CreateLimiter, Matches, Ids, Null
    <2>2. ReqTypeOK'
      BY <1>1, <2>1 DEF IInv, TypeOK, ReqTypeOK
    <2>3. \A q \in Requests : pc'[q] = "use" => ptr'[q] \in 1 .. created
      BY <1>2, <1>3, <2>1 DEF IInv, FreshInv
    <2>4. QED
      BY <1>1, <2>1, <2>2, <2>3, RequestMoves
  <1>5. CASE ~ Matches(registered, want[r])
    <2>0. PICK n \in Nat : n = created + 1
      BY <1>1
    <2>1. /\ created < MaxLimiters /\ created' = n /\ registered' = n
          /\ heap' = [heap EXCEPT ![n] = newLimiter(want[r], clock)]
      BY <1>5, <2>0 DEF CreateLimiter
    <2>2. n \in Ids /\ n \in Nat /\ n \in 1 .. n
      BY <1>1, <2>0, <2>1, LimiterAssumption DEF Ids
    <2>3. want[r] \in LimitsRecord /\ heap'[n] = newLimiter(want[r], clock)
          /\ \A j \in Ids \ {n} : heap'[j] = heap[j]
      BY <2>1, <2>2 DEF IInv, TypeOK
    <2>4. /\ heap'[n] \in LimiterRecord /\ heap'[n].lastUsed = clock
          /\ Sound(heap'[n].rpm, clock) /\ Sound(heap'[n].tpm, clock)
      BY <1>1, <2>3, NewLimiterGood
    <2>5. heap' \in [Ids -> LimiterRecord]
      BY <2>1, <2>2, <2>3, <2>4 DEF IInv, TypeOK
    <2>6. LimiterInv'
      <3>1. Good(n)'
        <4>1. spent[n] = 0 /\ promise["rpm"][n] = Never /\ promise["tpm"][n] = Never
          <5>1. n > created
            BY <1>1, <2>0
          <5>2. QED
            BY <2>2, <5>1 DEF IInv, FreshInv, Kinds
        <4>2. QED
          BY <1>1, <2>4, <4>1 DEF Good, Sound, Paid, Kept, Capacity
      <3>2. ASSUME NEW j \in Ids \ {n} PROVE Good(j)'
        <4>1. heap'[j] = heap[j] /\ Good(j)
          BY <2>3 DEF IInv, LimiterInv
        <4>2. QED
          BY <1>1, <4>1, Zenon DEF Good, Sound, Paid, Kept, Capacity
      <3>3. QED
        BY <3>1, <3>2 DEF LimiterInv
    <2>7. ReqTypeOK'
      BY <1>1, <2>1, <2>2, Zenon DEF IInv, TypeOK, ReqTypeOK
    <2>8. TypeOK'
      <3>1. created' \in 0 .. MaxLimiters
        BY <1>1, <2>0, <2>1, LimiterAssumption
      <3>2. QED
        BY <1>1, <2>1, <2>2, <2>5, <2>6, <2>7, <3>1, Zenon
           DEF IInv, TypeOK, ReqTypeOK, LimiterInv, Good, Sound
    <2>9. FreshInv'
      <3>1. \A q \in Requests : pc'[q] = "use" => ptr'[q] \in 1 .. n
        BY <1>1, <1>2, <1>3, <2>0, <2>1, <2>2 DEF IInv, FreshInv
      <3>2. \A j \in Ids : j > n => j > created
        BY <1>1, <2>0 DEF Ids
      <3>3. \A j \in Ids : j > n => spent'[j] = 0 /\ \A k \in Kinds : promise'[k][j] = Never
        BY <1>1, <3>2 DEF IInv, FreshInv
      <3>4. registered' <= created'
        BY <2>1, <2>2
      <3>5. QED
        BY <2>1, <3>1, <3>3, <3>4, Zenon DEF FreshInv
    <2>10. EvictorInv'
      BY <1>1 DEF IInv, EvictorInv
    <2>11. QED
      BY <2>6, <2>8, <2>9, <2>10 DEF IInv
  <1>6. QED
    BY <1>4, <1>5

\* AllowRPM.
LEMMA AllowRPMInv ==
  ASSUME IInv, NEW r \in Requests, NEW native \in BOOLEAN, AllowRPM(r, native)
  PROVE  IInv'
  <1>0. PICK i \in Ids : i = ptr[r] /\ i <= created
    BY DEF AllowRPM, IInv, FreshInv, TypeOK, Ids, Null
  <1> DEFINE h  == heap[i]
             b  == h.rpm
             ok == b.limit = 0 \/ Affords(b, 1, clock)
  <1>1. /\ heap' = [heap EXCEPT ![i].lastUsed = clock,
                                ![i].rpm = IF b.limit = 0 THEN @ ELSE tryConsume(@, 1, clock)]
        /\ spent' = [spent EXCEPT ![i] = IF ok /\ b.limit # 0 /\ clock >= mark THEN @ + 1 ELSE @]
        /\ promise' = [promise EXCEPT !["rpm"][i] = IF ok THEN Never ELSE Refusal(b, 1)]
        /\ UNCHANGED <<clock, created, registered, evictor, mark>>
    BY <1>0 DEF AllowRPM
  <1>2. ReqTypeOK' /\ \A q \in Requests : pc'[q] = "use" => ptr'[q] \in 1 .. created
    BY UsedTypes, Zenon DEF AllowRPM
  <1>3. /\ h \in LimiterRecord /\ b \in BucketRecord /\ h.tpm \in BucketRecord /\ h.lastUsed \in Nat
        /\ clock \in Nat /\ mark \in Nat /\ spent[i] \in Nat /\ Good(i)
        /\ b.limit \in Nat /\ b.lastFill \in Nat /\ h.tpm.lastFill \in Nat
        /\ promise \in [Kinds -> [Ids -> [n : Nat, at : Nat]]]
    <2>1. promise \in [Kinds -> [Ids -> [n : Nat, at : Nat]]]
      BY DEF IInv, TypeOK
    <2>2. /\ h \in LimiterRecord /\ b \in BucketRecord /\ h.tpm \in BucketRecord /\ h.lastUsed \in Nat
          /\ spent[i] \in Nat /\ Good(i)
      BY LimiterTyping
    <2>3. b.limit \in Nat /\ b.lastFill \in Nat /\ h.tpm.lastFill \in Nat
      BY <2>2, BucketType
    <2>4. QED
      BY <2>1, <2>2, <2>3, Typing
  <1>4. /\ b.tokens <= Capacity(b) /\ b.lastFill <= clock
        /\ h.tpm.tokens <= Capacity(h.tpm) /\ h.tpm.lastFill <= clock
    BY LimiterTyping, Zenon
  <1>5. PICK c : c = IF b.limit = 0 THEN b ELSE tryConsume(b, 1, clock)
    OBVIOUS
  <1>6. c \in BucketRecord /\ Sound(c, clock)
    <2>1. CASE b.limit = 0
      BY <1>3, <1>4, <1>5, <2>1 DEF Sound
    <2>2. CASE b.limit # 0
      <3>1. c = tryConsume(b, 1, clock) /\ 1 \in Nat
        BY <1>5, <2>2
      <3> HIDE DEF b
      <3>2. c \in BucketRecord /\ c.limit = b.limit /\ c.lastFill = clock /\ c.tokens <= Capacity(b)
        BY <1>3, <1>4, <3>1, ConsumeTakes
      <3>3. QED
        BY <1>3, <3>2 DEF Sound, Capacity
    <2>3. QED
      BY <2>1, <2>2
  <1>7. /\ heap'[i] \in LimiterRecord /\ heap'[i].lastUsed = clock
        /\ heap'[i].rpm = c /\ heap'[i].tpm = h.tpm
        /\ \A j \in Ids \ {i} : heap'[j] = heap[j]
        /\ heap' \in [Ids -> LimiterRecord]
    <2>1. heap' = [heap EXCEPT ![i] = [h EXCEPT !.lastUsed = clock, !.rpm = c]]
      BY <1>1, <1>3, <1>5, Zenon DEF IInv, TypeOK, LimiterRecord
    <2>2. PICK g : g = [h EXCEPT !.lastUsed = clock, !.rpm = c]
      OBVIOUS
    <2>3. g \in LimiterRecord /\ g.lastUsed = clock /\ g.rpm = c /\ g.tpm = h.tpm
      BY <1>3, <1>6, <2>2, Zenon DEF LimiterRecord
    <2>4. heap' = [heap EXCEPT ![i] = g]
      BY <2>1, <2>2
    <2>5. QED
      BY <2>3, <2>4, Zenon DEF IInv, TypeOK
  <1>8. PICK m : m = IF ok /\ b.limit # 0 /\ clock >= mark THEN spent[i] + 1 ELSE spent[i]
    OBVIOUS
  <1>9. Paid(c, m) /\ m \in Nat
    <2>0. Paid(b, spent[i])
      BY <1>3 DEF Good
    <2>1. CASE b.limit = 0
      BY <1>3, <1>5, <1>8, <2>0, <2>1
    <2>2. CASE b.limit # 0
      <3>1. c = tryConsume(b, 1, clock)
        BY <1>5, <2>2
      <3>2. m = IF Affords(b, 1, clock) /\ clock >= mark THEN spent[i] + 1 ELSE spent[i]
        BY <1>8, <2>2
      <3> HIDE DEF b, ok
      <3>3. QED
        BY <1>3, <1>4, <2>0, <3>1, <3>2, PaidAfterRPM
    <2>3. QED
      BY <2>1, <2>2
  <1>10. PICK p : p = IF ok THEN Never ELSE Refusal(b, 1)
    OBVIOUS
  <1>11. Kept(c, p) /\ p \in [n : Nat, at : Nat] /\ (p # Never => p.n = 1)
    <2>1. CASE ok
      <3>1. p = Never
        BY <1>10, <2>1
      <3>2. QED
        BY <3>1 DEF Kept, Never
    <2>2. CASE ~ ok
      <3>1. b.limit # 0 /\ ~ Affords(b, 1, clock) /\ p = Refusal(b, 1) /\ c = tryConsume(b, 1, clock)
        BY <1>5, <1>10, <2>2
      <3> HIDE DEF b, ok
      <3>2. QED
        BY <1>3, <1>4, <3>1, KeptAfterRefusal, Zenon
    <2>3. QED
      BY <2>1, <2>2
  <1> HIDE DEF ok
  <1>12. /\ spent' \in [Ids -> Nat] /\ spent'[i] = m /\ \A j \in Ids \ {i} : spent'[j] = spent[j]
    BY <1>1, <1>8, <1>9 DEF IInv, TypeOK
  <1>13. /\ promise' \in [Kinds -> [Ids -> [n : Nat, at : Nat]]]
         /\ promise'["rpm"][i] = p /\ promise'["tpm"][i] = promise["tpm"][i]
         /\ \A j \in Ids \ {i} : \A k \in Kinds : promise'[k][j] = promise[k][j]
    <2>1. promise' = [promise EXCEPT !["rpm"][i] = p]
      BY <1>1, <1>10
    <2>2. QED
      BY <1>3, <1>11, <2>1 DEF Kinds
  <1>14. Good(i)'
    <2>1. heap'[i].lastUsed <= clock' /\ Sound(heap[i].rpm, heap[i].lastUsed)'
      BY <1>1, <1>3, <1>6, <1>7 DEF Sound, Capacity
    <2>2. Sound(heap[i].tpm, heap[i].lastUsed)'
      BY <1>4, <1>7 DEF Sound, Capacity
    <2>3. Paid(heap[i].rpm, spent[i])'
      BY <1>1, <1>7, <1>9, <1>12 DEF Paid
    <2>4. Kept(heap[i].rpm, promise["rpm"][i])' /\ Kept(heap[i].tpm, promise["tpm"][i])'
      BY <1>3, <1>7, <1>11, <1>13, Zenon DEF Kept, Good
    <2>5. QED
      BY <1>11, <1>13, <2>1, <2>2, <2>3, <2>4, Zenon DEF Good
  <1>15. QED
    BY <1>0, <1>1, <1>2, <1>7, <1>12, <1>13, <1>14, UseInv, Zenon DEF HistTypeOK

\* A use that changes the bucket of tokens only.
LEMMA TokensInv ==
  ASSUME IInv, NEW r \in Requests, NEW i \in Ids, i = ptr[r], i <= created,
         ReqTypeOK', \A q \in Requests : pc'[q] = "use" => ptr'[q] \in 1 .. created,
         UNCHANGED <<clock, created, registered, evictor, mark, spent>>,
         NEW u \in {heap[i].lastUsed, clock},
         NEW c \in BucketRecord, Sound(c, u), heap' = [heap EXCEPT ![i].lastUsed = u, ![i].tpm = c],
         NEW p \in [n : Nat, at : Nat], Kept(c, p), promise' = [promise EXCEPT !["tpm"][i] = p]
  PROVE  IInv'
  <1> DEFINE h == heap[i]
  <1>0. u \in Nat /\ h.lastUsed <= u /\ u <= clock
    <2>1. h.lastUsed \in Nat /\ h.lastUsed <= clock /\ clock \in Nat
      BY LimiterTyping, Typing, Zenon DEF Good
    <2> HIDE DEF h
    <2>2. u = h.lastUsed \/ u = clock
      BY Zenon DEF h
    <2>3. QED
      BY <2>1, <2>2
  <1>1. /\ h \in LimiterRecord /\ h.rpm \in BucketRecord /\ h.lastUsed \in Nat /\ h.rpm.lastFill \in Nat
        /\ clock \in Nat /\ Good(i) /\ promise \in [Kinds -> [Ids -> [n : Nat, at : Nat]]]
    <2>1. promise \in [Kinds -> [Ids -> [n : Nat, at : Nat]]]
      BY DEF IInv, TypeOK
    <2>2. h \in LimiterRecord /\ h.rpm \in BucketRecord /\ h.lastUsed \in Nat /\ Good(i)
      BY LimiterTyping
    <2>3. QED
      BY <2>1, <2>2, Typing, BucketType
  <1>2. /\ heap'[i].lastUsed = u /\ heap'[i].tpm = c /\ heap'[i].rpm = h.rpm
        /\ \A j \in Ids \ {i} : heap'[j] = heap[j]
        /\ heap' \in [Ids -> LimiterRecord]
    <2>1. heap' = [heap EXCEPT ![i] = [h EXCEPT !.lastUsed = u, !.tpm = c]]
      BY <1>1, Zenon DEF IInv, TypeOK, LimiterRecord
    <2>2. PICK g : g = [h EXCEPT !.lastUsed = u, !.tpm = c]
      OBVIOUS
    <2>3. g \in LimiterRecord /\ g.lastUsed = u /\ g.tpm = c /\ g.rpm = h.rpm
      BY <1>1, <2>2, Zenon DEF LimiterRecord
    <2>4. heap' = [heap EXCEPT ![i] = g]
      BY <2>1, <2>2, Zenon
    <2>5. QED
      BY <2>3, <2>4 DEF IInv, TypeOK
  <1>3. /\ promise' \in [Kinds -> [Ids -> [n : Nat, at : Nat]]]
        /\ promise'["tpm"][i] = p /\ promise'["rpm"][i] = promise["rpm"][i]
        /\ \A j \in Ids \ {i} : \A k \in Kinds : promise'[k][j] = promise[k][j]
    BY <1>1 DEF Kinds
  <1>4. Good(i)'
    <2>1. heap'[i].lastUsed <= clock' /\ Sound(heap[i].tpm, heap[i].lastUsed)'
      BY <1>0, <1>2, Zenon DEF Sound, Capacity
    <2>2. Sound(heap[i].rpm, heap[i].lastUsed)'
      <3>1. h.rpm.tokens <= Capacity(h.rpm) /\ h.rpm.lastFill <= h.lastUsed
        BY <1>1 DEF Good, Sound
      <3>2. h.rpm.lastFill \in Nat /\ h.lastUsed \in Nat
        BY <1>1, Zenon
      <3>3. h.rpm.lastFill <= u
        <4> HIDE DEF h
        <4>1. QED
          BY <1>0, <3>1, <3>2
      <3>4. QED
        BY <1>2, <3>1, <3>3, Zenon DEF Sound, Capacity
    <2>3. Paid(heap[i].rpm, spent[i])'
      BY <1>1, <1>2, Zenon DEF Paid, Good
    <2>4. Kept(heap[i].rpm, promise["rpm"][i])' /\ Kept(heap[i].tpm, promise["tpm"][i])'
      BY <1>1, <1>2, <1>3, Zenon DEF Kept, Good
    <2>5. QED
      BY <1>1, <1>3, <2>1, <2>2, <2>3, <2>4, Zenon DEF Good
  <1>5. HistTypeOK' /\ \A j \in Ids \ {i} : spent'[j] = spent[j]
    BY <1>2, <1>3 DEF HistTypeOK, IInv, TypeOK
  <1>6. QED
    BY <1>2, <1>3, <1>4, <1>5, UseInv

\* consumeTPM.
LEMMA ConsumeTPMInv == ASSUME IInv, NEW r \in Requests, ConsumeTPM(r) PROVE IInv'
  <1>0. PICK i \in Ids : i = ptr[r] /\ i <= created
    BY DEF ConsumeTPM, IInv, FreshInv, TypeOK, Ids, Null
  <1> DEFINE h  == heap[i]
             b  == h.tpm
             n  == est[r]
             ok == b.limit = 0 \/ Affords(b, n, clock)
  <1>1. /\ heap' = [heap EXCEPT ![i].lastUsed = clock,
                                ![i].tpm = IF b.limit = 0 THEN @ ELSE tryConsume(@, n, clock)]
        /\ promise' = [promise EXCEPT !["tpm"][i] = IF ok THEN Never ELSE Refusal(b, n)]
        /\ UNCHANGED <<clock, created, registered, evictor, mark, spent>>
    BY <1>0 DEF ConsumeTPM
  <1>2. ReqTypeOK' /\ \A q \in Requests : pc'[q] = "use" => ptr'[q] \in 1 .. created
    BY UsedTypes, Zenon DEF ConsumeTPM
  <1>3. /\ h \in LimiterRecord /\ b \in BucketRecord /\ h.lastUsed \in Nat /\ clock \in Nat
        /\ n \in Nat /\ b.lastFill \in Nat /\ Good(i)
    BY LimiterTyping, Typing, BucketType, Zenon
  <1>4. b.tokens <= Capacity(b) /\ b.lastFill <= clock /\ h.lastUsed <= clock
    BY LimiterTyping, Zenon DEF Good
  <1>5. PICK c : c = IF b.limit = 0 THEN b ELSE tryConsume(b, n, clock)
    OBVIOUS
  <1>6. c \in BucketRecord /\ Sound(c, clock)
    <2>1. CASE b.limit = 0
      BY <1>3, <1>4, <1>5, <2>1 DEF Sound
    <2>2. CASE b.limit # 0
      <3>1. c = tryConsume(b, n, clock)
        BY <1>5, <2>2
      <3>0. b \in BucketRecord /\ n \in Nat /\ clock \in Nat
        BY <1>3
      <3> HIDE DEF b, n
      <3>2. c \in BucketRecord /\ c.limit = b.limit /\ c.lastFill = clock /\ c.tokens <= Capacity(b)
        BY <1>4, <3>0, <3>1, ConsumeTakes
      <3>3. QED
        BY <1>3, <3>2 DEF Sound, Capacity
    <2>3. QED
      BY <2>1, <2>2
  <1>7. PICK p : p = IF ok THEN Never ELSE Refusal(b, n)
    OBVIOUS
  <1>8. Kept(c, p) /\ p \in [n : Nat, at : Nat]
    <2>1. CASE ok
      <3>1. p = Never
        BY <1>7, <2>1, Zenon
      <3>2. QED
        BY <3>1 DEF Kept, Never
    <2>2. CASE ~ ok
      <3>1. b.limit # 0 /\ ~ Affords(b, n, clock) /\ p = Refusal(b, n) /\ c = tryConsume(b, n, clock)
        BY <1>5, <1>7, <2>2, Zenon
      <3> HIDE DEF b, n, ok
      <3>2. QED
        BY <1>3, <1>4, <3>1, KeptAfterRefusal, Zenon
    <2>3. QED
      BY <2>1, <2>2
  <1>9. heap' = [heap EXCEPT ![i].lastUsed = clock, ![i].tpm = c]
    BY <1>1, <1>3, <1>5 DEF IInv, TypeOK, LimiterRecord
  <1>10. promise' = [promise EXCEPT !["tpm"][i] = p]
    BY <1>1, <1>7
  <1> HIDE DEF h, b, n, ok
  <1>11. QED
    BY <1>0, <1>1, <1>2, <1>6, <1>8, <1>9, <1>10, TokensInv, Zenon

\* adjustTPM.
LEMMA AdjustTPMInv == ASSUME IInv, NEW r \in Requests, AdjustTPM(r) PROVE IInv'
  <1>0. PICK i \in Ids : i = ptr[r] /\ i <= created
    BY DEF AdjustTPM, IInv, FreshInv, TypeOK, Ids, Null
  <1> DEFINE h     == heap[i]
             b     == h.tpm
             delta == est[r] - used[r]
             q     == promise["tpm"][i]
  <1>1. /\ heap' = [heap EXCEPT ![i].tpm = IF @.limit = 0 THEN @ ELSE adjust(@, delta)]
        /\ promise' = [promise EXCEPT !["tpm"][i] = IF delta < 0 THEN Never ELSE @]
        /\ UNCHANGED <<clock, created, registered, evictor, mark, spent>>
    BY <1>0 DEF AdjustTPM
  <1>2. ReqTypeOK' /\ \A x \in Requests : pc'[x] = "use" => ptr'[x] \in 1 .. created
    BY UsedTypes, Zenon DEF AdjustTPM
  <1>3. /\ h \in LimiterRecord /\ b \in BucketRecord /\ h.lastUsed \in Nat /\ clock \in Nat
        /\ delta \in Int /\ q \in [n : Nat, at : Nat] /\ Good(i)
    <2>1. /\ h \in LimiterRecord /\ b \in BucketRecord /\ h.lastUsed \in Nat
          /\ q \in [n : Nat, at : Nat] /\ Good(i)
      BY LimiterTyping
    <2>2. clock \in Nat /\ est[r] \in Nat /\ used[r] \in Nat
      BY Typing
    <2>3. delta \in Int
      BY <2>2
    <2> HIDE DEF h, b, q, delta
    <2>4. QED
      BY <2>1, <2>2, <2>3, Zenon
  <1>4. b.tokens <= Capacity(b) /\ b.lastFill <= h.lastUsed /\ h.lastUsed <= clock /\ Kept(b, q)
    BY <1>3, Zenon DEF Good, Sound
  <1>5. PICK c : c = IF b.limit = 0 THEN b ELSE adjust(b, delta)
    OBVIOUS
  <1>6. c \in BucketRecord /\ Sound(c, h.lastUsed)
    <2>1. CASE b.limit = 0
      BY <1>3, <1>4, <1>5, <2>1 DEF Sound
    <2>2. CASE b.limit # 0
      <3>1. c = adjust(b, delta)
        BY <1>5, <2>2
      <3> HIDE DEF b, delta
      <3>2. c \in BucketRecord /\ c.limit = b.limit /\ c.lastFill = b.lastFill /\ c.tokens <= Capacity(b)
        BY <1>3, <1>4, <3>1, AdjustBounds
      <3>3. QED
        BY <1>4, <3>2 DEF Sound, Capacity
    <2>3. QED
      BY <2>1, <2>2
  <1>7. PICK p : p = IF delta < 0 THEN Never ELSE q
    OBVIOUS
  <1>8. Kept(c, p) /\ p \in [n : Nat, at : Nat]
    <2>1. CASE delta < 0
      <3>1. p = Never
        BY <1>7, <2>1
      <3>2. QED
        BY <3>1 DEF Kept, Never
    <2>2. CASE ~ (delta < 0)
      <3>1. p = q /\ delta \in Nat
        BY <1>3, <1>7, <2>2
      <3>2. CASE b.limit = 0
        BY <1>3, <1>4, <1>5, <3>1, <3>2, Zenon
      <3>3. CASE b.limit # 0
        <4>1. c = adjust(b, delta)
          BY <1>5, <3>3
        <4> HIDE DEF b, delta, q
        <4>2. QED
          BY <1>3, <1>4, <3>1, <4>1, KeptAfterRefund
      <3>4. QED
        BY <3>2, <3>3
    <2>3. QED
      BY <2>1, <2>2
  <1>9. heap' = [heap EXCEPT ![i].lastUsed = h.lastUsed, ![i].tpm = c]
    BY <1>1, <1>3, <1>5, Zenon DEF IInv, TypeOK, LimiterRecord
  <1>10. promise' = [promise EXCEPT !["tpm"][i] = p]
    BY <1>1, <1>3, <1>7 DEF IInv, TypeOK, Kinds
  <1>11. /\ Sound(c, heap[i].lastUsed) /\ c \in BucketRecord
         /\ heap' = [heap EXCEPT ![i].lastUsed = heap[i].lastUsed, ![i].tpm = c]
         /\ UNCHANGED <<clock, created, registered, evictor, mark, spent>>
    BY <1>1, <1>6, <1>9, Zenon
  <1> HIDE DEF h, b, delta, q
  <1>12. QED
    BY <1>0, <1>2, <1>8, <1>10, <1>11, TokensInv, Zenon

\* The two phases of EvictStale.
LEMMA EvictInv == ASSUME IInv, EvictScan \/ EvictDelete PROVE IInv'
  <1>1. /\ UNCHANGED <<clock, heap, created, pc, stage, want, ptr, est, used, mark, spent, promise>>
        /\ registered' \in {registered, Null} /\ clock \in Nat /\ created \in Nat
    BY Typing DEF EvictScan, EvictDelete, reqVars
  <1>2. evictor' \in [phase : {"idle", "delete"}, cutoff : Int] /\ EvictorInv'
    <2>1. CASE EvictScan
      <3>1. clock - IdleTimeout \in Int /\ evictor' = [phase |-> "delete", cutoff |-> clock - IdleTimeout]
        BY <1>1, <2>1, LimiterAssumption DEF EvictScan
      <3>2. evictor'.cutoff = clock - IdleTimeout /\ evictor' \in [phase : {"idle", "delete"}, cutoff : Int]
        BY <3>1
      <3>3. evictor'.cutoff <= clock' - IdleTimeout
        BY <1>1, <3>1, <3>2
      <3>4. QED
        BY <3>2, <3>3 DEF EvictorInv
    <2>2. CASE EvictDelete
      BY <2>2 DEF EvictDelete, EvictorInv
    <2>3. QED
      BY <2>1, <2>2
  <1>3. TypeOK'
    BY <1>1, <1>2, Zenon DEF IInv, TypeOK, Capacity
  <1>4. LimiterInv'
    BY <1>1, Zenon DEF IInv, LimiterInv, Good, Sound, Paid, Kept, Capacity
  <1>5. FreshInv'
    <2>1. registered' <= created
      <3>1. registered <= created /\ created \in Nat
        BY Typing
      <3>2. QED
        BY <1>1, <3>1 DEF Null
    <2>2. QED
      BY <1>1, <2>1, Zenon DEF IInv, FreshInv
  <1>6. QED
    BY <1>2, <1>3, <1>4, <1>5 DEF IInv

\* The invariant holds at first.
LEMMA InitInv == Init => IInv
  <1> SUFFICES ASSUME Init PROVE IInv
    OBVIOUS
  <1>1. NoLimits \in LimitsRecord /\ Never \in [n : Nat, at : Nat] /\ 0 \in Nat
    BY DEF NoLimits, LimitsRecord, Never
  <1>2. ASSUME NEW i \in Ids
        PROVE  /\ heap[i] \in LimiterRecord /\ heap[i].lastUsed = 0
               /\ Sound(heap[i].rpm, 0) /\ Sound(heap[i].tpm, 0)
    <2>1. heap[i] = newLimiter(NoLimits, 0)
      BY DEF Init
    <2>2. QED
      BY <2>1, UnusedLimiter, Zenon
  <1>3. /\ clock = 1 /\ \A i \in Ids : spent[i] = 0
        /\ \A k \in Kinds : \A i \in Ids : promise[k][i] = Never
    BY DEF Init
  <1>4. LimiterInv
    <2>1. ASSUME NEW i \in Ids PROVE Good(i)
      <3>1. heap[i].lastUsed = 0 /\ Sound(heap[i].rpm, 0) /\ Sound(heap[i].tpm, 0)
        BY <1>2
      <3>2. spent[i] = 0 /\ promise["rpm"][i] = Never /\ promise["tpm"][i] = Never
        BY <1>3 DEF Kinds
      <3>3. Paid(heap[i].rpm, spent[i]) /\ heap[i].lastUsed <= clock
        BY <1>3, <3>1, <3>2 DEF Paid
      <3>4. Kept(heap[i].rpm, promise["rpm"][i]) /\ Kept(heap[i].tpm, promise["tpm"][i])
        BY <3>2 DEF Kept
      <3>5. QED
        BY <3>1, <3>2, <3>3, <3>4, Zenon DEF Good
    <2>2. QED
      BY <2>1 DEF LimiterInv
  <1>5. heap \in [Ids -> LimiterRecord]
    <2>1. heap = [i \in Ids |-> heap[i]]
      BY DEF Init
    <2>2. QED
      BY <1>2, <2>1
  <1>6. TypeOK
    <2>1. /\ mark \in Nat /\ created \in 0 .. MaxLimiters
          /\ evictor \in [phase : {"idle", "delete"}, cutoff : Int]
      BY LimiterAssumption DEF Init
    <2>2. promise \in [Kinds -> [Ids -> [n : Nat, at : Nat]]]
      BY <1>1 DEF Init
    <2>3. QED
      BY <1>1, <1>2, <1>5, <2>1, <2>2, Zenon DEF Init, TypeOK, Sound, Null
  <1>7. FreshInv /\ EvictorInv
    BY <1>3 DEF Init, FreshInv, EvictorInv, Null
  <1>8. QED
    BY <1>4, <1>6, <1>7 DEF IInv

\* Every step keeps it.
LEMMA StepInv == IInv /\ [Next]_vars => IInv'
  <1> SUFFICES ASSUME IInv, [Next]_vars PROVE IInv'
    OBVIOUS
  <1>1. CASE Tick
    BY <1>1, TickInv
  <1>2. ASSUME NEW r \in Requests, RequestStep(r) PROVE IInv'
    <2>1. CASE CreateLimiter(r)
      BY <2>1, CreateInv
    <2>2. CASE \E native \in BOOLEAN : AllowRPM(r, native)
      BY <2>2, AllowRPMInv
    <2>3. CASE ConsumeTPM(r)
      BY <2>3, ConsumeTPMInv
    <2>4. CASE AdjustTPM(r)
      BY <2>4, AdjustTPMInv
    <2>5. QED
      BY <1>2, <2>1, <2>2, <2>3, <2>4, MovesInv DEF RequestStep
  <1>3. CASE EvictScan \/ EvictDelete
    BY <1>3, EvictInv
  <1>4. CASE UNCHANGED vars
    <2>1. ReqTypeOK' /\ \A r \in Requests : pc'[r] = "use" => ptr'[r] \in 1 .. created
      BY <1>4, Zenon DEF vars, reqVars, IInv, TypeOK, ReqTypeOK, FreshInv
    <2>2. QED
      BY <1>4, <2>1, RequestMoves DEF vars
  <1>5. QED
    BY <1>1, <1>2, <1>3, <1>4 DEF Next
-----------------------------------------------------------------------------
(* The theorems. *)

\* IInv is an invariant.
THEOREM Invariance == Spec => []IInv
  BY InitInv, StepInv, PTL DEF Spec

\* A limiter admits no more than a full bucket and what comes in, from any
\* instant on.
THEOREM AdmissionBound == Spec => []RateBound
  <1>1. IInv => RateBound
    <2> SUFFICES ASSUME IInv, NEW i \in Ids, spent[i] > 0
                 PROVE  spent[i] * Minute <= heap[i].rpm.limit * (Minute + clock - mark)
      BY DEF RateBound
    <2> DEFINE b == heap[i].rpm
    <2>1. /\ b \in BucketRecord /\ clock \in Nat /\ mark \in Nat /\ spent[i] \in Nat /\ Good(i)
          /\ heap[i].lastUsed \in Nat
      BY LimiterTyping, Typing
    <2>2. b.tokens \in Nat /\ b.limit \in Nat /\ b.lastFill \in Nat /\ Minute \in Nat
      BY <2>1, BucketType, MinuteAssumption
    <2>3. /\ mark <= b.lastFill /\ b.lastFill <= clock
          /\ spent[i] * Minute + b.tokens <= b.limit * (Minute + b.lastFill - mark)
      <3>1. /\ heap[i].lastUsed <= clock /\ Sound(b, heap[i].lastUsed) /\ Paid(b, spent[i])
        BY <2>1, Zenon DEF Good
      <3> HIDE DEF b
      <3>2. b.lastFill <= clock
        BY <2>1, <2>2, <3>1 DEF Sound
      <3>3. QED
        BY <3>1, <3>2 DEF Paid
    <2> HIDE DEF b
    <2>4. /\ Minute + b.lastFill - mark \in Nat /\ Minute + clock - mark \in Nat
          /\ Minute + b.lastFill - mark <= Minute + clock - mark
      BY <2>1, <2>2, <2>3
    <2>5. (Minute + b.lastFill - mark) * b.limit <= (Minute + clock - mark) * b.limit
      BY <2>2, <2>4, ProductGrows
    <2>6. spent[i] * Minute \in Nat /\ b.limit * (Minute + b.lastFill - mark) \in Nat
          /\ b.limit * (Minute + clock - mark) \in Nat
          /\ b.limit * (Minute + b.lastFill - mark) = (Minute + b.lastFill - mark) * b.limit
          /\ b.limit * (Minute + clock - mark) = (Minute + clock - mark) * b.limit
      BY <2>1, <2>2, <2>4
    <2>7. spent[i] * Minute <= b.limit * (Minute + clock - mark)
      BY <2>2, <2>3, <2>5, <2>6
    <2>8. QED
      BY <2>7 DEF b
  <1>2. QED
    BY <1>1, Invariance, PTL

\* Who comes back when Retry-After says finds the tokens there.
THEOREM RetryAfterSuffices == Spec => []RetryAfterHonest
  <1>1. IInv => RetryAfterHonest
    <2> SUFFICES ASSUME IInv, NEW i \in Ids
                 PROVE  /\ Due(promise["rpm"][i]) => Affords(heap[i].rpm, promise["rpm"][i].n, clock)
                        /\ Due(promise["tpm"][i]) /\ promise["tpm"][i].n <= heap[i].tpm.limit
                             => Affords(heap[i].tpm, promise["tpm"][i].n, clock)
      BY Zenon DEF RetryAfterHonest
    <2>1. /\ heap[i].rpm \in BucketRecord /\ heap[i].tpm \in BucketRecord /\ heap[i].lastUsed \in Nat
          /\ clock \in Nat /\ Good(i)
          /\ promise["rpm"][i] \in [n : Nat, at : Nat] /\ promise["tpm"][i] \in [n : Nat, at : Nat]
      BY LimiterTyping, Typing
    <2>2. ASSUME NEW b \in BucketRecord, Sound(b, heap[i].lastUsed), NEW p \in [n : Nat, at : Nat],
                 Kept(b, p), Due(p), p.n <= b.limit
          PROVE  Affords(b, p.n, clock)
      BY <2>1, <2>2, DueAffords, Zenon DEF Good
    <2>3. Due(promise["rpm"][i]) => promise["rpm"][i].n <= heap[i].rpm.limit
      <3>1. /\ promise["rpm"][i] # Never => promise["rpm"][i].n = 1 /\ heap[i].rpm.limit > 0
            /\ heap[i].rpm.limit \in Nat
        BY <2>1, BucketType, Zenon DEF Good, Kept
      <3>2. QED
        BY <3>1 DEF Due
    <2>4. QED
      BY <2>1, <2>2, <2>3, Zenon DEF Good
  <1>2. QED
    BY <1>1, Invariance, PTL

\* Only a limiter with full buckets is evicted.
THEOREM EvictionGivesNothing == Spec => EvictsOnlyFull
  <1>1. ASSUME IInv, [Next]_vars, registered # Null, registered' = Null
        PROVE  FullAt(heap[registered].rpm, clock) /\ FullAt(heap[registered].tpm, clock)
    <2>1. EvictDelete
      <3>1. \A r \in Requests : ~ CreateLimiter(r)
        <4>1. created \in Nat
          BY <1>1, Typing
        <4>2. ASSUME NEW r \in Requests, CreateLimiter(r) PROVE FALSE
          <5>1. registered' \in {registered, created + 1}
            BY <4>2 DEF CreateLimiter
          <5>2. created + 1 # 0
            BY <4>1
          <5>3. QED
            BY <1>1, <5>1, <5>2 DEF Null
        <4>3. QED
          BY <4>2
      <3>2. ASSUME NEW r \in Requests, RequestStep(r) PROVE registered' = registered
        BY <3>1, <3>2, Zenon DEF RequestStep, Arrive, GetOrCreate, AllowRPM, ConsumeTPM, Respond,
                          RespondWithoutUsage, AdjustTPM
      <3>3. QED
        BY <1>1, <3>2 DEF Next, Tick, EvictScan, vars
    <2>2. PICK i \in Ids : i = registered
      BY <1>1, Typing
    <2>3. /\ heap[i].rpm \in BucketRecord /\ heap[i].tpm \in BucketRecord /\ heap[i].lastUsed \in Nat
          /\ clock \in Nat /\ Good(i)
      BY <1>1, LimiterTyping, Typing, Zenon
    <2>4. heap[i].lastUsed < evictor.cutoff /\ evictor.cutoff <= clock - IdleTimeout /\ evictor.cutoff \in Int
      BY <1>1, <2>1, <2>2, Zenon DEF EvictDelete, Stale, IInv, EvictorInv, TypeOK
    <2>5. heap[i].lastUsed + Minute <= clock
      BY <2>3, <2>4, LimiterAssumption, MinuteAssumption
    <2>6. QED
      BY <2>2, <2>3, <2>5, FullWhenIdle, Zenon DEF Good
  <1>2. IInv /\ [Next]_vars => [registered # Null /\ registered' = Null
          => FullAt(heap[registered].rpm, clock) /\ FullAt(heap[registered].tpm, clock)]_vars
    BY <1>1
  <1>3. QED
    BY <1>2, Invariance, PTL DEF Spec, EvictsOnlyFull

\* A limiter makes way only for one of other limits.
THEOREM ReplacementChanges == Spec => ReplacesOnlyChanged
  <1>1. ASSUME IInv, [Next]_vars, registered # Null, registered' # Null, registered' # registered
        PROVE  heap[registered].limits # heap'[registered'].limits
    <2>1. \E r \in Requests : CreateLimiter(r)
      <3>1. ASSUME NEW r \in Requests, RequestStep(r), ~ CreateLimiter(r) PROVE registered' = registered
        BY <3>1, Zenon DEF RequestStep, Arrive, GetOrCreate, AllowRPM, ConsumeTPM, Respond,
                    RespondWithoutUsage, AdjustTPM
      <3>2. QED
        BY <1>1, <3>1 DEF Next, Tick, EvictScan, EvictDelete, vars
    <2>2. PICK r \in Requests : CreateLimiter(r)
      BY <2>1
    <2>3. ~ Matches(registered, want[r])
      BY <1>1, <2>2 DEF CreateLimiter
    <2>4. PICK n \in Nat : n = created + 1
      BY <1>1, Typing, Zenon
    <2>5. /\ registered' = n /\ created < MaxLimiters
          /\ heap' = [heap EXCEPT ![n] = newLimiter(want[r], clock)]
      BY <2>2, <2>3, <2>4 DEF CreateLimiter
    <2>6. n \in Ids /\ want[r] \in LimitsRecord /\ clock \in Nat
      BY <1>1, <2>4, <2>5, Typing, LimiterAssumption DEF Ids
    <2>7. heap'[n] = newLimiter(want[r], clock)
      BY <1>1, <2>5, <2>6 DEF IInv, TypeOK
    <2>8. heap'[n].limits = want[r]
      BY <2>6, <2>7, NewLimiterGood
    <2>9. QED
      BY <1>1, <2>3, <2>5, <2>8 DEF Matches
  <1>2. IInv /\ [Next]_vars => [registered # Null /\ registered' # Null /\ registered' # registered
          => heap[registered].limits # heap'[registered'].limits]_vars
    BY <1>1
  <1>3. QED
    BY <1>2, Invariance, PTL DEF Spec, ReplacesOnlyChanged
=============================================================================
