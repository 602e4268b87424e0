---------------------------- MODULE ServerProofs ----------------------------
(***************************************************************************)
(* Proofs about Server, for every set of connections and writers, every    *)
(* chain of layers, every configuration file and any number of starts.     *)
(***************************************************************************)
EXTENDS Server, FiniteSetTheorems, NaturalsInduction, WellFoundedInduction, TLAPS

\* The requests inside the metrics layer.
Metered == {r \in Requests : \E i \in 1 .. Len(held[r]) : Layers[i] = "metrics"}

ChainTypeOK ==
  /\ pool \subseteq Writers
  /\ held \in [Requests -> Seq(Writers)]
  /\ pc \in [Requests -> {"idle", "enter", "serve", "body", "leave", "over"}]
  /\ gauge \in Int /\ panics \in Int

\* A request enters no more layers than there are, and leaves all of them.
DepthInv ==
  \A r \in Requests :
    /\ Len(held[r]) <= Len(Layers)
    /\ pc[r] = "enter" => Len(held[r]) < Len(Layers)
    /\ pc[r] \in {"idle", "over"} => Len(held[r]) = 0

ChainInv == ChainTypeOK /\ DepthInv /\ WriterExclusive /\ GaugeOffByPanics

BootTypeOK ==
  /\ phase \in {"down", "boot", "serving", "draining"}
  /\ step \in Nat \ {0}
  /\ table \in [Rows -> {"none", "file", "admin"}]
  /\ removed \subseteq Rows

\* While the process is not up, or boots, there are no requests: what Bootstrap
\* has seeded cannot be deleted before the server listens.
SeedInv ==
  /\ phase = "down" => step = 1
  /\ phase \in {"down", "boot"} => \A r \in Requests : pc[r] = "idle"
  /\ phase = "boot"
       => \A i \in 1 .. Len(Seeds) : i < step => Seeds[i].empty \/ table[Seeds[i].row] # "none"

IInv == ChainInv /\ BootTypeOK /\ SeedInv /\ ServesSeeded
-----------------------------------------------------------------------------
(* The chain of middleware. *)

\* The number of requests in the metrics layer is a number.
LEMMA MeteredFinite == IsFiniteSet(Metered) /\ Cardinality(Metered) \in Nat
  <1>1. Metered \in SUBSET Requests
    BY DEF Metered
  <1>2. IsFiniteSet(Metered)
    BY <1>1, MiddlewareAssumption, FS_Subset
  <1>3. QED
    BY <1>2, FS_CardinalityType

\* A step that moves a request but no writer.
LEMMA MovesInv ==
  ASSUME ChainInv, NEW r \in Requests, NEW v \in {"idle", "serve", "body", "leave", "over", "enter"},
         pc' = [pc EXCEPT ![r] = v], v = "enter" => Len(held[r]) < Len(Layers),
         v \in {"idle", "over"} => Len(held[r]) = 0,
         UNCHANGED <<pool, held, gauge, panics>>
  PROVE  ChainInv'
  <1>1. ChainTypeOK' /\ DepthInv'
    BY DEF ChainInv, ChainTypeOK, DepthInv
  <1>2. WriterExclusive' /\ GaugeOffByPanics'
    BY DEF ChainInv, WriterExclusive, IsHeld, GaugeOffByPanics
  <1>3. QED
    BY <1>1, <1>2 DEF ChainInv

\* Writers of the chain, as Get of the pool hands them out: held by nobody.
LEMMA GettableFree ==
  ASSUME ChainInv, NEW w \in Writers, Gettable(w)
  PROVE  ~ IsHeld(w)
  BY DEF ChainInv, WriterExclusive, Gettable

\* A layer takes a writer that nobody holds.
LEMMA EnterInv ==
  ASSUME ChainInv, NEW r \in Requests, NEW w \in Writers, Enter(r, w)
  PROVE  ChainInv'
  <1> DEFINE n == Len(held[r]) + 1
  <1> USE DEF ChainInv
  <1>1. /\ pc[r] = "enter" /\ Gettable(w) /\ pool' = pool \ {w}
        /\ held' = [held EXCEPT ![r] = Append(@, w)]
        /\ gauge' = IF Layers[n] = "metrics" THEN gauge + 1 ELSE gauge
        /\ pc' = [pc EXCEPT ![r] = IF n = Len(Layers) THEN "serve" ELSE "enter"]
        /\ panics' = panics
    BY DEF Enter
  <1>2. held[r] \in Seq(Writers) /\ Len(held[r]) \in Nat /\ Len(Layers) \in Nat
    BY MiddlewareAssumption DEF ChainTypeOK
  <1>3. /\ held'[r] = Append(held[r], w) /\ Len(held'[r]) = n
        /\ held'[r][n] = w /\ \A i \in 1 .. Len(held[r]) : held'[r][i] = held[r][i]
        /\ \A q \in Requests \ {r} : held'[q] = held[q]
        /\ held' \in [Requests -> Seq(Writers)]
    BY <1>1, <1>2 DEF ChainTypeOK
  <1>4. n <= Len(Layers)
    BY <1>1, <1>2 DEF DepthInv
  <1>5. ChainTypeOK' /\ DepthInv'
    <2>1. pc' \in [Requests -> {"idle", "enter", "serve", "body", "leave", "over"}]
      BY <1>1 DEF ChainTypeOK
    <2>2. ASSUME NEW q \in Requests
          PROVE  /\ Len(held'[q]) <= Len(Layers)
                 /\ pc'[q] = "enter" => Len(held'[q]) < Len(Layers)
                 /\ pc'[q] \in {"idle", "over"} => Len(held'[q]) = 0
      <3>1. CASE q = r
        BY <1>1, <1>2, <1>3, <1>4, <3>1 DEF ChainTypeOK
      <3>2. CASE q # r
        BY <1>1, <1>3, <3>2 DEF ChainTypeOK, DepthInv
      <3>3. QED
        BY <3>1, <3>2
    <2>3. QED
      BY <1>1, <1>3, <2>1, <2>2 DEF ChainTypeOK, DepthInv
  <1>6. WriterExclusive'
    <2>1. \A q \in Requests : \A i \in 1 .. Len(held[q]) : held[q][i] # w
      BY <1>1, GettableFree DEF IsHeld
    <2>2. ASSUME NEW q \in Requests, NEW i \in 1 .. Len(held'[q])
          PROVE  \/ q = r /\ i = n /\ held'[q][i] = w
                 \/ i \in 1 .. Len(held[q]) /\ held'[q][i] = held[q][i]
      <3>1. CASE q = r
        <4>1. i \in 1 .. n
          BY <1>3, <3>1
        <4>2. CASE i = n
          BY <1>3, <3>1, <4>2
        <4>3. CASE i # n
          <5>1. i \in 1 .. Len(held[r])
            BY <1>2, <4>1, <4>3
          <5>2. QED
            BY <1>3, <3>1, <5>1
        <4>4. QED
          BY <4>2, <4>3
      <3>2. CASE q # r
        BY <1>3, <3>2
      <3>3. QED
        BY <3>1, <3>2
    <2>3. ASSUME NEW q \in Requests, NEW p \in Requests,
                 NEW i \in 1 .. Len(held'[q]), NEW j \in 1 .. Len(held'[p]),
                 held'[q][i] = held'[p][j]
          PROVE  q = p /\ i = j
      <3>1. \/ q = r /\ i = n /\ held'[q][i] = w
            \/ i \in 1 .. Len(held[q]) /\ held'[q][i] = held[q][i] /\ held[q][i] # w
        BY <2>1, <2>2
      <3>2. \/ p = r /\ j = n /\ held'[p][j] = w
            \/ j \in 1 .. Len(held[p]) /\ held'[p][j] = held[p][j] /\ held[p][j] # w
        BY <2>1, <2>2
      <3>3. QED
        BY <2>3, <3>1, <3>2 DEF WriterExclusive
    <2>4. ASSUME NEW x \in pool', IsHeld(x)' PROVE FALSE
      BY <1>1, <2>2, <2>4 DEF WriterExclusive, IsHeld
    <2>5. QED
      BY <2>3, <2>4 DEF WriterExclusive
  <1>7. GaugeOffByPanics'
    <2>1. Metered' = IF Layers[n] = "metrics" THEN Metered \cup {r} ELSE Metered
      <3>1. 1 .. Len(held'[r]) = 1 .. Len(held[r]) \cup {n}
        BY <1>2, <1>3
      <3>2. r \in Metered' <=> r \in Metered \/ Layers[n] = "metrics"
        BY <3>1, Zenon DEF Metered
      <3>3. ASSUME NEW q \in Requests \ {r} PROVE q \in Metered' <=> q \in Metered
        BY <1>3, Zenon DEF Metered
      <3>4. Metered \subseteq Requests /\ Metered' \subseteq Requests
        BY Zenon DEF Metered
      <3>5. QED
        BY <3>2, <3>3, <3>4
    <2>2. Layers[n] = "metrics" => r \notin Metered
      BY <1>2, <1>4, MiddlewareAssumption DEF Metered
    <2>3. gauge = panics + Cardinality(Metered)
      BY DEF GaugeOffByPanics, Metered
    <2>4. Cardinality(Metered') = IF Layers[n] = "metrics" THEN Cardinality(Metered) + 1
                                                            ELSE Cardinality(Metered)
      BY <2>1, <2>2, MeteredFinite, FS_AddElement, Zenon
    <2>5. gauge' = panics' + Cardinality(Metered')
      BY <1>1, <2>3, <2>4, MeteredFinite DEF ChainTypeOK
    <2>6. QED
      BY <2>5 DEF GaugeOffByPanics, Metered
  <1>8. QED
    BY <1>5, <1>6, <1>7

\* A layer puts its own writer back, which nobody else holds.
LEMMA LeaveInv ==
  ASSUME ChainInv, NEW r \in Requests, Leave(r)
  PROVE  ChainInv'
  <1> DEFINE n == Len(held[r])
             w == held[r][n]
  <1> USE DEF ChainInv
  <1>1. /\ pc[r] = "leave" /\ n > 0 /\ pool' = pool \cup {w}
        /\ held' = [held EXCEPT ![r] = SubSeq(@, 1, n - 1)]
        /\ gauge' = IF Layers[n] = "metrics" THEN gauge - 1 ELSE gauge
        /\ pc' = pc /\ panics' = panics
    BY DEF Leave
  <1>2. held[r] \in Seq(Writers) /\ n \in Nat \ {0} /\ Len(Layers) \in Nat
    BY <1>1, MiddlewareAssumption DEF ChainTypeOK
  <1>3. /\ Len(held'[r]) = n - 1 /\ \A i \in 1 .. n - 1 : held'[r][i] = held[r][i]
        /\ held'[r] \in Seq(Writers)
        /\ \A q \in Requests \ {r} : held'[q] = held[q]
    <2>1. held'[r] = SubSeq(held[r], 1, n - 1) /\ \A q \in Requests \ {r} : held'[q] = held[q]
      BY <1>1 DEF ChainTypeOK
    <2>2. QED
      BY <1>2, <2>1
  <1>4. w \in Writers /\ n <= Len(Layers)
    BY <1>2 DEF DepthInv
  <1>5. ChainTypeOK' /\ DepthInv'
    <2>1. held' \in [Requests -> Seq(Writers)]
      BY <1>1, <1>3 DEF ChainTypeOK
    <2>2. ASSUME NEW q \in Requests
          PROVE  /\ Len(held'[q]) <= Len(Layers)
                 /\ pc'[q] = "enter" => Len(held'[q]) < Len(Layers)
                 /\ pc'[q] \in {"idle", "over"} => Len(held'[q]) = 0
      <3>1. CASE q = r
        BY <1>1, <1>2, <1>3, <1>4, <3>1
      <3>2. CASE q # r
        BY <1>1, <1>3, <3>2 DEF DepthInv
      <3>3. QED
        BY <3>1, <3>2
    <2>3. QED
      BY <1>1, <1>4, <2>1, <2>2 DEF ChainTypeOK, DepthInv
  <1>6. WriterExclusive'
    <2>1. ASSUME NEW q \in Requests, NEW i \in 1 .. Len(held'[q])
          PROVE  i \in 1 .. Len(held[q]) /\ held'[q][i] = held[q][i] /\ held[q][i] # w
      <3>1. CASE q = r
        <4>1. i \in 1 .. n - 1 /\ i \in 1 .. n /\ i # n
          BY <1>2, <1>3, <3>1
        <4>2. held'[r][i] = held[r][i]
          BY <1>3, <4>1
        <4>3. n \in 1 .. Len(held[r])
          BY <1>2
        <4>4. held[r][i] # held[r][n]
          BY <4>1, <4>3 DEF WriterExclusive
        <4>5. QED
          BY <3>1, <4>1, <4>2, <4>4
      <3>2. CASE q # r
        <4>1. held'[q] = held[q]
          BY <1>3, <3>2
        <4>2. n \in 1 .. Len(held[r])
          BY <1>2
        <4>3. QED
          BY <3>2, <4>1, <4>2 DEF WriterExclusive
      <3>3. QED
        BY <3>1, <3>2
    <2>2. ASSUME NEW x \in pool', IsHeld(x)' PROVE FALSE
      <3>0. PICK q \in Requests : \E i \in 1 .. Len(held'[q]) : held'[q][i] = x
        BY <2>2 DEF IsHeld
      <3>1. PICK i \in 1 .. Len(held'[q]) : held'[q][i] = x
        BY <3>0
      <3>2. i \in 1 .. Len(held[q]) /\ held[q][i] = x /\ x # w
        BY <2>1, <3>1
      <3>3. QED
        BY <1>1, <3>2 DEF WriterExclusive, IsHeld
    <2>3. QED
      BY <2>1, <2>2 DEF WriterExclusive
  <1>7. GaugeOffByPanics'
    <2>1. Metered' = IF Layers[n] = "metrics" THEN Metered \ {r} ELSE Metered
      <3>1. \A q \in Requests \ {r} : q \in Metered' <=> q \in Metered
        BY <1>3 DEF Metered
      <3>2. r \in Metered' <=> \E i \in 1 .. n - 1 : Layers[i] = "metrics"
        BY <1>3 DEF Metered
      <3>3. CASE Layers[n] = "metrics"
        <4>1. \A i \in 1 .. n - 1 : Layers[i] # "metrics"
          BY <1>2, <1>4, <3>3, MiddlewareAssumption
        <4>2. QED
          BY <3>1, <3>2, <3>3, <4>1 DEF Metered
      <3>4. CASE Layers[n] # "metrics"
        <4>1. r \in Metered <=> \E i \in 1 .. n - 1 : Layers[i] = "metrics"
          BY <1>2, <3>4 DEF Metered
        <4>2. QED
          BY <3>1, <3>2, <3>4, <4>1 DEF Metered
      <3>5. QED
        BY <3>3, <3>4
    <2>2. Layers[n] = "metrics" => r \in Metered
      BY <1>2 DEF Metered
    <2>3. gauge = panics + Cardinality(Metered)
      BY DEF GaugeOffByPanics, Metered
    <2>4. Cardinality(Metered') = IF Layers[n] = "metrics" THEN Cardinality(Metered) - 1
                                                            ELSE Cardinality(Metered)
      BY <2>1, <2>2, MeteredFinite, FS_RemoveElement, Zenon
    <2>5. gauge' = panics' + Cardinality(Metered')
      BY <1>1, <2>3, <2>4, MeteredFinite DEF ChainTypeOK
    <2>6. QED
      BY <2>5 DEF GaugeOffByPanics, Metered
  <1>8. QED
    BY <1>5, <1>6, <1>7

\* A panic drops the writers of its request, and leaves the gauge as it was.
LEMMA PanicInv ==
  ASSUME ChainInv, NEW r \in Requests, Panic(r)
  PROVE  ChainInv'
  <1> USE DEF ChainInv
  <1>1. /\ panics' = IF r \in Metered THEN panics + 1 ELSE panics
        /\ held' = [held EXCEPT ![r] = <<>>] /\ pc' = [pc EXCEPT ![r] = "over"]
        /\ UNCHANGED <<pool, gauge>>
    BY DEF Panic, Metered
  <1>2. held'[r] = <<>> /\ Len(held'[r]) = 0 /\ \A q \in Requests \ {r} : held'[q] = held[q]
    BY <1>1 DEF ChainTypeOK
  <1>3. ChainTypeOK'
    BY <1>1 DEF ChainTypeOK
  <1>4. DepthInv'
    <2>1. Len(Layers) \in Nat
      BY MiddlewareAssumption
    <2>2. QED
      BY <1>1, <1>2, <2>1 DEF DepthInv, ChainTypeOK
  <1>5. WriterExclusive'
    <2>1. \A q \in Requests : \A i \in 1 .. Len(held'[q]) : q # r /\ held'[q] = held[q]
      BY <1>2
    <2>2. QED
      BY <1>1, <2>1 DEF WriterExclusive, IsHeld
  <1>6. GaugeOffByPanics'
    <2>1. Metered' = Metered \ {r}
      BY <1>2 DEF Metered
    <2>2. gauge = panics + Cardinality(Metered)
      BY DEF GaugeOffByPanics, Metered
    <2>3. Cardinality(Metered') = IF r \in Metered THEN Cardinality(Metered) - 1
                                                   ELSE Cardinality(Metered)
      BY <2>1, MeteredFinite, FS_RemoveElement, Zenon
    <2>4. gauge' = panics' + Cardinality(Metered')
      BY <1>1, <2>2, <2>3, MeteredFinite DEF ChainTypeOK
    <2>5. QED
      BY <2>4 DEF GaugeOffByPanics, Metered
  <1>7. QED
    BY <1>3, <1>4, <1>5, <1>6

\* No writer and no request survives the process.
LEMMA EndsInv ==
  ASSUME MiddlewareInit \/ MiddlewareEnds
  PROVE  /\ MiddlewareInit => ChainInv /\ \A r \in Requests : pc[r] = "idle"
         /\ MiddlewareEnds => ChainInv' /\ \A r \in Requests : pc'[r] = "idle"
  <1>1. Len(Layers) \in Nat
    BY MiddlewareAssumption
  <1>2. ASSUME MiddlewareInit PROVE ChainInv /\ \A r \in Requests : pc[r] = "idle"
    <2>1. /\ pool = {} /\ gauge = 0 /\ panics = 0
          /\ pc = [r \in Requests |-> "idle"] /\ held = [r \in Requests |-> <<>>]
      BY <1>2 DEF MiddlewareInit, AllRequests
    <2>2. \A r \in Requests : held[r] = <<>> /\ Len(held[r]) = 0
      BY <2>1
    <2>3. ChainTypeOK /\ DepthInv
      BY <1>1, <2>1, <2>2 DEF ChainTypeOK, DepthInv
    <2>4. WriterExclusive
      BY <2>1, <2>2 DEF WriterExclusive
    <2>5. Metered = {}
      BY <2>2 DEF Metered
    <2>6. GaugeOffByPanics
      BY <2>1, <2>5, FS_EmptySet DEF GaugeOffByPanics, Metered
    <2>7. QED
      BY <2>1, <2>3, <2>4, <2>6 DEF ChainInv
  <1>3. ASSUME MiddlewareEnds PROVE ChainInv' /\ \A r \in Requests : pc'[r] = "idle"
    <2>1. /\ pool' = {} /\ gauge' = 0 /\ panics' = 0
          /\ pc' = [r \in Requests |-> "idle"] /\ held' = [r \in Requests |-> <<>>]
      BY <1>3 DEF MiddlewareEnds, AllRequests
    <2>2. \A r \in Requests : held'[r] = <<>> /\ Len(held'[r]) = 0
      BY <2>1
    <2>3. ChainTypeOK' /\ DepthInv'
      BY <1>1, <2>1, <2>2 DEF ChainTypeOK, DepthInv
    <2>4. WriterExclusive'
      BY <2>1, <2>2 DEF WriterExclusive
    <2>5. Metered' = {}
      BY <2>2 DEF Metered
    <2>6. GaugeOffByPanics'
      BY <2>1, <2>5, FS_EmptySet DEF GaugeOffByPanics, Metered
    <2>7. QED
      BY <2>1, <2>3, <2>4, <2>6 DEF ChainInv
  <1>4. QED
    BY <1>2, <1>3

\* A step that changes nothing of the chain but the writers' contents.
LEMMA ChainUnchanged ==
  ASSUME ChainInv, UNCHANGED <<pool, held, pc, gauge, panics>>
  PROVE  ChainInv'
  BY DEF ChainInv, ChainTypeOK, DepthInv, WriterExclusive, IsHeld, GaugeOffByPanics

\* The steps of a request keep the invariant of the chain.
LEMMA ServeInv ==
  ASSUME ChainInv, NEW r \in Requests, ChainStep(r) \/ HandlerStep(r)
  PROVE  ChainInv'
  <1>1. ASSUME NEW w \in Writers, Enter(r, w) PROVE ChainInv'
    BY <1>1, EnterInv
  <1>2. CASE Leave(r)
    BY <1>2, LeaveInv
  <1>3. CASE Complete(r)
    <2>1. Len(held[r]) = 0
      BY <1>3 DEF Complete
    <2>2. QED
      BY <1>3, <2>1, MovesInv, Zenon DEF Complete
  <1>4. CASE Finish(r)
    <2>1. Len(held[r]) = 0
      BY <1>4 DEF Finish, ChainInv, DepthInv
    <2>2. QED
      BY <1>4, <2>1, MovesInv, Zenon DEF Finish
  <1>5. CASE Panic(r)
    BY <1>5, PanicInv
  <1>6. ASSUME NEW code \in Codes, Answer(r, code) \/ StartBody(r, code) PROVE ChainInv'
    BY <1>6, MovesInv DEF Answer, StartBody, Returns
  <1>7. CASE AnswerNothing(r) \/ EndBody(r)
    BY <1>7, MovesInv DEF AnswerNothing, EndBody, Returns
  <1>8. CASE SendPiece(r)
    BY <1>8, ChainUnchanged DEF SendPiece, reqVars
  <1>9. QED
    BY <1>1, <1>2, <1>3, <1>4, <1>5, <1>6, <1>7, <1>8 DEF ChainStep, HandlerStep

\* A new request is in no layer yet.
LEMMA ArriveInv ==
  ASSUME ChainInv, NEW r \in Requests, NEW p \in BOOLEAN, Arrive(r, p)
  PROVE  ChainInv'
  <1>1. Len(held[r]) = 0
    BY DEF Arrive, ChainInv, DepthInv
  <1>2. Layers # <<>> => 0 < Len(Layers)
    BY MiddlewareAssumption
  <1>3. CASE p \/ Layers = <<>>
    BY <1>3, MovesInv, Zenon DEF Arrive
  <1>4. CASE ~ (p \/ Layers = <<>>)
    BY <1>1, <1>2, <1>4, MovesInv, Zenon DEF Arrive
  <1>5. QED
    BY <1>3, <1>4
-----------------------------------------------------------------------------
(* The start. *)

BootInv == BootTypeOK /\ SeedInv /\ ServesSeeded

\* Every entry of the file names a row.
LEMMA SeedsType == Len(Seeds) \in Nat /\ \A i \in 1 .. Len(Seeds) : Seeds[i].row \in Rows
  <1>1. ASSUME NEW S, NEW t \in Seq(S) PROVE Len(t) \in Nat /\ \A i \in 1 .. Len(t) : t[i] \in S
    OBVIOUS
  <1>2. Seeds \in Seq([row : Rows, empty : BOOLEAN])
    BY StartupAssumption
  <1>3. Len(Seeds) \in Nat /\ \A i \in 1 .. Len(Seeds) : Seeds[i] \in [row : Rows, empty : BOOLEAN]
    BY <1>1, <1>2, Zenon
  <1>4. \A e \in [row : Rows, empty : BOOLEAN] : e.row \in Rows
    OBVIOUS
  <1>5. QED
    BY <1>3, <1>4, Zenon

\* The end of the process, with no request left.
LEMMA DownInv ==
  ASSUME BootInv, Down, UNCHANGED <<table, removed>>, \A r \in Requests : pc'[r] = "idle"
  PROVE  BootInv'
  BY DEF BootInv, Down, BootTypeOK, SeedInv, ServesSeeded

\* One entry of Bootstrap.
LEMMA SeedStepInv ==
  ASSUME BootInv, NEW seen \in BOOLEAN, NEW up \in BOOLEAN, Seed(seen, up), UNCHANGED pc
  PROVE  BootInv'
  <1> DEFINE s == Seeds[step]
  <1> USE DEF BootInv
  <1>1. phase = "boot" /\ step \in 1 .. Len(Seeds) /\ \A r \in Requests : pc'[r] = "idle"
    BY SeedsType DEF Seed, Seeding, BootTypeOK, SeedInv
  <1>2. s.row \in Rows /\ Len(Seeds) \in Nat /\ \A i \in 1 .. Len(Seeds) : Seeds[i].row \in Rows
    BY <1>1, SeedsType
  <1>3. CASE NextSeed /\ table' = table /\ (s.empty \/ table[s.row] # "none")
    <2>1. phase' = "boot" /\ step' = step + 1 /\ removed' = removed
      BY <1>1, <1>3 DEF Seed, NextSeed
    <2>2. \A i \in 1 .. Len(Seeds) : i < step + 1 => i < step \/ i = step
      BY DEF BootTypeOK
    <2>3. QED
      BY <1>1, <1>3, <2>1, <2>2 DEF BootTypeOK, SeedInv, ServesSeeded
  <1>4. CASE NextSeed /\ table' = [table EXCEPT ![s.row] = "file"]
    <2>1. phase' = "boot" /\ step' = step + 1 /\ removed' = removed
      BY <1>1, <1>4 DEF Seed, NextSeed
    <2>2. \A i \in 1 .. Len(Seeds) : i < step + 1 => i < step \/ i = step
      BY DEF BootTypeOK
    <2>3. /\ table' \in [Rows -> {"none", "file", "admin"}] /\ table'[s.row] # "none"
          /\ \A x \in Rows : table[x] # "none" => table'[x] # "none"
      BY <1>2, <1>4 DEF BootTypeOK
    <2>4. QED
      BY <1>1, <1>2, <2>1, <2>2, <2>3 DEF BootTypeOK, SeedInv, ServesSeeded
  <1>5. CASE Down /\ table' = table
    BY <1>1, <1>5, DownInv DEF Seed
  <1>6. QED
    BY <1>3, <1>4, <1>5 DEF Seed

\* The other steps of the start.
LEMMA StartupInv ==
  ASSUME BootInv, StartupStep, UNCHANGED pc
  PROVE  BootInv'
  <1> USE DEF BootInv
  <1>1. CASE Start
    <2>1. phase = "down" /\ phase' = "boot" /\ step' = 1 /\ table' = table /\ removed' = {}
      BY <1>1 DEF Start, SeedInv
    <2>2. \A i \in 1 .. Len(Seeds) : ~ (i < 1)
      OBVIOUS
    <2>3. QED
      BY <2>1, <2>2 DEF BootTypeOK, SeedInv, ServesSeeded
  <1>2. ASSUME NEW seen \in BOOLEAN, NEW up \in BOOLEAN, Seed(seen, up) PROVE BootInv'
    BY <1>2, SeedStepInv
  <1>3. ASSUME NEW found \in BOOLEAN, Register(found) PROVE BootInv'
    <2>1. /\ phase = "boot" /\ table' = table /\ removed' = removed
          /\ \A r \in Requests : pc'[r] = "idle" /\ step > Len(Seeds)
      BY <1>3 DEF Register, SeedInv
    <2>2. CASE Down
      BY <2>1, <2>2, DownInv
    <2>3. CASE phase' = "serving" /\ step' = step
      <3>1. Len(Seeds) \in Nat /\ step > Len(Seeds)
        BY <1>3, SeedsType DEF Register
      <3>2. \A i \in 1 .. Len(Seeds) : i < step
        BY <3>1 DEF BootTypeOK
      <3>3. QED
        BY <2>1, <2>3, <3>2 DEF BootTypeOK, SeedInv, ServesSeeded
    <2>4. QED
      BY <1>3, <2>2, <2>3 DEF Register
  <1>4. CASE Signal
    BY <1>4 DEF Signal, BootTypeOK, SeedInv, ServesSeeded
  <1>5. QED
    BY <1>1, <1>2, <1>3, <1>4 DEF StartupStep

\* An admin handler: only a serving process has requests, and the rows that it
\* deletes are noted as removed.
LEMMA AdminBootInv ==
  ASSUME BootInv, NEW r \in Requests, NEW x \in Rows, NEW up \in BOOLEAN,
         handleCreate(r, x, up) \/ handleUpdate(r, x, up) \/ handleDelete(r, x, up)
  PROVE  /\ BootInv'
         /\ \E code : Answer(r, code)
         /\ phase \notin {"down", "boot"}
  <1> USE DEF BootInv
  <1>1. PICK res \in {CreateRow(x, up), UpdateRow(x, up), DeleteRow(x, up)} : Admin(r, res)
    BY DEF handleCreate, handleUpdate, handleDelete
  <1>2. /\ table' = res.table
        /\ removed' = removed \cup {y \in Rows : table[y] # "none" /\ res.table[y] = "none"}
        /\ pc[r] = "serve" /\ UNCHANGED <<phase, step>>
    BY <1>1 DEF Admin, Answer
  <1>3. \E code : Answer(r, code)
    BY <1>1 DEF Admin
  <1>4. phase \notin {"down", "boot"}
    BY <1>2 DEF SeedInv
  <1>5. table' \in [Rows -> {"none", "file", "admin"}]
    <2>1. res.table \in {table, [table EXCEPT ![x] = "admin"], [table EXCEPT ![x] = "none"]}
      <3>1. CASE res = CreateRow(x, up)
        BY <3>1, Zenon DEF CreateRow
      <3>2. CASE res = UpdateRow(x, up)
        BY <3>2, Zenon DEF UpdateRow
      <3>3. CASE res = DeleteRow(x, up)
        BY <3>3, Zenon DEF DeleteRow
      <3>4. QED
        BY <1>1, <3>1, <3>2, <3>3
    <2>2. QED
      BY <1>2, <2>1 DEF BootTypeOK
  <1>6. ServesSeeded'
    <2>3. \A y \in Rows : table[y] # "none" => table'[y] # "none" \/ y \in removed'
      BY <1>2
    <2>4. removed \subseteq removed'
      BY <1>2
    <2>5. QED
      BY <1>2, <2>3, <2>4, SeedsType DEF ServesSeeded
  <1>7. BootTypeOK' /\ SeedInv'
    BY <1>2, <1>4, <1>5, Zenon DEF BootTypeOK, SeedInv
  <1>8. QED
    BY <1>3, <1>4, <1>6, <1>7
-----------------------------------------------------------------------------
(* Both. *)

\* The invariant holds at first.
LEMMA InitInv == Init => IInv
  <1> SUFFICES ASSUME Init PROVE IInv
    OBVIOUS
  <1>1. ChainInv /\ \A r \in Requests : pc[r] = "idle"
    BY EndsInv DEF Init
  <1>2. BootTypeOK /\ SeedInv /\ ServesSeeded
    BY <1>1 DEF Init, StartupInit, BootTypeOK, SeedInv, ServesSeeded
  <1>3. QED
    BY <1>1, <1>2 DEF IInv

\* A step of a request leaves the start alone, and happens in a process that is up.
LEMMA ServeBootInv ==
  ASSUME BootInv, NEW r \in Requests, pc[r] # "idle" \/ phase = "serving",
         UNCHANGED startVars
  PROVE  BootInv'
  BY DEF BootInv, startVars, BootTypeOK, SeedInv, ServesSeeded

\* Every step keeps the invariant.
LEMMA StepInv == IInv /\ [Next]_vars => IInv'
  <1> SUFFICES ASSUME IInv, [Next]_vars PROVE IInv'
    OBVIOUS
  <1>0. ChainInv /\ BootInv
    BY DEF IInv, BootInv
  <1>1. SUFFICES ChainInv' /\ BootInv'
    BY DEF IInv, BootInv
  <1>2. CASE StartupStep /\ UNCHANGED mwVars
    <2>1. UNCHANGED <<pool, held, pc, gauge, panics>>
      BY <1>2 DEF mwVars, reqVars
    <2>2. QED
      BY <1>0, <1>2, <2>1, ChainUnchanged, StartupInv
  <1>3. CASE Die
    <2>1. ChainInv' /\ \A r \in Requests : pc'[r] = "idle"
      BY <1>3, EndsInv DEF Die
    <2>2. Down /\ UNCHANGED <<table, removed>>
      BY <1>3 DEF Die, Crash, Exit
    <2>3. QED
      BY <1>0, <2>1, <2>2, DownInv
  <1>4. ASSUME NEW r \in Requests, Accept(r) PROVE ChainInv' /\ BootInv'
    <2>1. PICK p \in BOOLEAN : Arrive(r, p)
      BY <1>4 DEF Accept
    <2>2. phase = "serving" /\ UNCHANGED startVars
      BY <1>4 DEF Accept
    <2>3. QED
      BY <1>0, <2>1, <2>2, ArriveInv, ServeBootInv
  <1>5. ASSUME NEW r \in Requests, Serve(r) PROVE ChainInv' /\ BootInv'
    <2>1. pc[r] # "idle" /\ UNCHANGED startVars
      BY <1>5 DEF Serve, ChainStep, HandlerStep, Enter, Leave, Complete, Finish, Panic,
                  Answer, StartBody, AnswerNothing, SendPiece, EndBody
    <2>2. ChainInv'
      BY <1>0, <1>5, ServeInv DEF Serve
    <2>3. BootInv'
      <3>1. CASE phase \in {"down", "boot"}
        BY <1>0, <2>1, <3>1 DEF BootInv, SeedInv
      <3>2. CASE phase \notin {"down", "boot"}
        BY <1>0, <2>1, <3>2 DEF BootInv, startVars, BootTypeOK, SeedInv, ServesSeeded
      <3>3. QED
        BY <3>1, <3>2
    <2>4. QED
      BY <2>2, <2>3
  <1>6. ASSUME NEW r \in Requests, AdminStep(r) PROVE ChainInv' /\ BootInv'
    <2>1. PICK x \in Rows, up \in BOOLEAN :
            handleCreate(r, x, up) \/ handleUpdate(r, x, up) \/ handleDelete(r, x, up)
      BY <1>6 DEF AdminStep
    <2>2. BootInv' /\ \E code : Answer(r, code)
      BY <1>0, <2>1, AdminBootInv
    <2>3. ChainInv'
      BY <1>0, <2>2, MovesInv, Zenon DEF Answer, Returns
    <2>4. QED
      BY <2>2, <2>3
  <1>7. CASE UNCHANGED vars
    <2>1. UNCHANGED <<pool, held, pc, gauge, panics>> /\ UNCHANGED startVars
      BY <1>7 DEF vars, mwVars, reqVars
    <2>2. BootInv'
      BY <1>0, <2>1 DEF BootInv, startVars, BootTypeOK, SeedInv, ServesSeeded
    <2>3. QED
      BY <1>0, <2>1, <2>2, ChainUnchanged
  <1>8. QED
    BY <1>2, <1>3, <1>4, <1>5, <1>6, <1>7 DEF Next

\* IInv is an invariant.
THEOREM Invariance == Spec => []IInv
  BY InitInv, StepInv, PTL DEF Spec

\* No statusWriter is ever in use for two requests, for two layers of one
\* request, or in use and in statusWriterPool.
THEOREM WritersExclusive == Spec => []WriterExclusive
  BY Invariance, PTL DEF IInv, ChainInv

\* ActiveRequests is off by exactly the panics inside the metrics layer.
THEOREM GaugeDrift == Spec => []GaugeOffByPanics
  BY Invariance, PTL DEF IInv, ChainInv

\* A process that serves has seeded its whole file.
THEOREM SeededBeforeServing == Spec => []ServesSeeded
  BY Invariance, PTL DEF IInv

\* Bootstrap overwrites and removes no row, however often the process starts.
THEOREM BootOnlyAdds == Spec => BootKeepsRows
  <1>1. ASSUME IInv, [Next]_vars
        PROVE  [phase = "boot" => \A x \in Rows : table[x] = "none" \/ table'[x] = table[x]]_startVars
    <2> SUFFICES ASSUME phase = "boot", NEW x \in Rows, table[x] # "none" PROVE table'[x] = table[x]
      BY DEF startVars
    <2>0. BootInv
      BY <1>1 DEF IInv, BootInv
    <2>1. CASE StartupStep
      <3>1. ASSUME NEW seen \in BOOLEAN, NEW up \in BOOLEAN, Seed(seen, up)
            PROVE  table'[x] = table[x]
        BY <2>0, <3>1 DEF Seed, BootInv, BootTypeOK
      <3>2. QED
        BY <2>1, <3>1 DEF StartupStep, Start, Register, Signal
    <2>2. CASE Die
      BY <2>2 DEF Die, Crash, Exit
    <2>3. CASE \E r \in Requests : Accept(r) \/ Serve(r)
      BY <2>3 DEF Accept, Serve, startVars
    <2>4. ASSUME NEW r \in Requests, AdminStep(r) PROVE FALSE
      BY <2>0, <2>4, AdminBootInv DEF AdminStep
    <2>5. CASE UNCHANGED vars
      BY <2>5 DEF vars, startVars
    <2>6. QED
      BY <1>1, <2>1, <2>2, <2>3, <2>4, <2>5 DEF Next
  <1>2. QED
    BY <1>1, Invariance, PTL DEF Spec, BootKeepsRows
-----------------------------------------------------------------------------
(* What the layers of a request will note, and what they noted. *)

\* The status that the client of r gets, as things are.
Status(r) == IF sent[r] = 0 THEN 200 ELSE sent[r]

\* The layers around the handler of r.
Depth(r) == IF probe[r] THEN 0 ELSE Len(Layers)

WriterRecord == [under : Writers \cup Requests \cup {Nil}, status : Nat, wrote : BOOLEAN]

NoteTypeOK ==
  /\ writer \in [Writers -> WriterRecord]
  /\ sent \in [Requests -> Nat]
  /\ noted \in [Requests -> Seq(Nat)]
  /\ probe \in [Requests -> BOOLEAN] /\ panicked \in [Requests -> BOOLEAN]

\* The writer w stands on u and has captured the status code, if one was sent.
Captured(w, u, code) ==
  /\ w.under = u
  /\ w.wrote <=> code # 0
  /\ w.status = IF code = 0 THEN 200 ELSE code

\* What the i-th of the writers h of r stands on.
Below(r, h, i) == IF i = 1 THEN r ELSE h[i - 1]

(* The writers of r are a chain down to its connection, and each of them   *)
(* has captured what the connection has sent.                              *)
Linked(r) ==
  \A i \in 1 .. Len(held[r]) : Captured(writer[held[r][i]], Below(r, held[r], i), sent[r])

\* What the layers that r has left noted.
Noting(r) ==
  /\ pc[r] \in {"idle", "enter", "serve"} => sent[r] = 0
  /\ pc[r] \in {"body", "over"} => sent[r] # 0
  /\ pc[r] # "over" => ~ panicked[r]
  /\ pc[r] = "enter" => ~ probe[r]
  /\ pc[r] \in {"serve", "body"} => Len(held[r]) = Depth(r)
  /\ pc[r] \in {"idle", "enter", "serve", "body"} => noted[r] = <<>>
  /\ pc[r] = "leave" => /\ Len(held[r]) <= Depth(r)
                        /\ noted[r] = [i \in 1 .. Depth(r) - Len(held[r]) |-> Status(r)]
  /\ pc[r] = "over" => noted[r] = [i \in 1 .. (IF panicked[r] THEN 0 ELSE Depth(r)) |-> sent[r]]

NoteInv == NoteTypeOK /\ \A r \in Requests : Linked(r) /\ Noting(r)

\* A set of natural numbers has a least one.
LEMMA LeastNat ==
  ASSUME NEW S \in SUBSET Nat, S # {}
  PROVE  \E m \in S : \A n \in S : m <= n
  <1> DEFINE R == {p \in Nat \X Nat : p[1] < p[2]}
  <1>1. IsWellFoundedOn(R, Nat)
    BY NatLessThanWellFounded DEF OpToRel
  <1>2. PICK m \in S : \A n \in S : <<n, m>> \notin R
    <2> HIDE DEF R
    <2>1. QED
      BY <1>1, WFMin, Zenon
  <1>3. ASSUME NEW n \in S PROVE m <= n
    <2>1. n \in Nat /\ m \in Nat
      OBVIOUS
    <2>2. <<n, m>> \in Nat \X Nat /\ <<n, m>>[1] = n /\ <<n, m>>[2] = m
      BY <2>1
    <2>3. ~ (n < m)
      BY <1>2, <2>2, Zenon
    <2>4. QED
      BY <2>1, <2>3
  <1>4. QED
    BY <1>3

\* What a call on the response of r gets to: the function of Reached is the one
\* that its equation says.
LEMMA ReachedUnfold ==
  ASSUME NEW r \in Requests, NEW g,
         g = [n \in 0 .. Len(Layers) |->
                IF n = 0 THEN Top(r)
                ELSE IF g[n - 1] \in Writers THEN writer[g[n - 1]].under ELSE g[n - 1]]
  PROVE  \E b : /\ b = [n \in 0 .. Len(Layers) |->
                          IF n = 0 THEN Top(r)
                          ELSE IF b[n - 1] \in Writers THEN writer[b[n - 1]].under ELSE b[n - 1]]
                /\ Reached(r) = {b[n] : n \in 0 .. Len(Layers)}
  <1> DEFINE b == CHOOSE below :
                    below = [n \in 0 .. Len(Layers) |->
                               IF n = 0 THEN Top(r)
                               ELSE IF below[n - 1] \in Writers THEN writer[below[n - 1]].under
                                    ELSE below[n - 1]]
  <1>1. b = [n \in 0 .. Len(Layers) |->
               IF n = 0 THEN Top(r)
               ELSE IF b[n - 1] \in Writers THEN writer[b[n - 1]].under ELSE b[n - 1]]
    BY Zenon
  <1>2. Reached(r) = {b[n] : n \in 0 .. Len(Layers)}
    BY Zenon DEF Reached
  <1>3. QED
    BY <1>1, <1>2, Zenon

\* A call on the response of r gets to its writers and its connection.
LEMMA ReachedIsChain ==
  ASSUME ChainInv, NEW r \in Requests, Linked(r)
  PROVE  Reached(r) = {held[r][i] : i \in 1 .. Len(held[r])} \cup {r}
  <1> DEFINE N == Len(Layers)
             L == Len(held[r])
             g == [n \in 0 .. N |-> IF n < L THEN held[r][L - n] ELSE r]
             down(f, n) == IF n = 0 THEN Top(r)
                           ELSE IF f[n - 1] \in Writers THEN writer[f[n - 1]].under ELSE f[n - 1]
  <1>1. /\ N \in Nat /\ L \in Nat /\ L <= N /\ r \notin Writers
        /\ \A i \in 1 .. L : held[r][i] \in Writers
        /\ Top(r) = IF L = 0 THEN r ELSE held[r][L]
    <2>1. held[r] \in Seq(Writers) /\ L <= N
      BY DEF ChainInv, ChainTypeOK, DepthInv
    <2>2. N \in Nat /\ r \notin Writers
      BY MiddlewareAssumption
    <2>3. held[r] = <<>> <=> L = 0
      BY <2>1
    <2>4. QED
      BY <2>1, <2>2, <2>3 DEF Top
  <1>2. ASSUME NEW n \in 0 .. N PROVE g[n] = down(g, n)
    <2>1. CASE n = 0
      BY <1>1, <2>1
    <2>2. CASE n # 0 /\ n - 1 < L
      <3>1. /\ n - 1 \in 0 .. N /\ L - (n - 1) \in 1 .. L /\ g[n - 1] = held[r][L - (n - 1)]
        BY <1>1, <2>2
      <3>2. g[n - 1] \in Writers
        BY <1>1, <3>1
      <3>3. writer[g[n - 1]].under = IF L - (n - 1) = 1 THEN r ELSE held[r][L - (n - 1) - 1]
        <4>1. \A i \in 1 .. L : writer[held[r][i]].under = IF i = 1 THEN r ELSE held[r][i - 1]
          BY Zenon DEF Linked, Captured, Below
        <4> HIDE DEF g
        <4>2. QED
          BY <3>1, <4>1, Zenon
      <3>4. g[n] = IF n < L THEN held[r][L - n] ELSE r
        OBVIOUS
      <3>5. QED
        <4> HIDE DEF g
        <4>1. CASE n < L
          <5>1. L - (n - 1) # 1 /\ L - (n - 1) - 1 = L - n
            BY <1>1, <4>1
          <5>2. QED
            BY <2>2, <3>2, <3>3, <3>4, <4>1, <5>1
        <4>2. CASE ~ (n < L)
          <5>1. L - (n - 1) = 1
            BY <1>1, <2>2, <4>2
          <5>2. QED
            BY <2>2, <3>2, <3>3, <3>4, <4>2, <5>1
        <4>3. QED
          BY <4>1, <4>2
    <2>3. CASE n # 0 /\ ~ (n - 1 < L)
      <3>1. n - 1 \in 0 .. N /\ g[n - 1] = r /\ g[n] = r
        BY <1>1, <2>3
      <3>2. QED
        BY <1>1, <2>3, <3>1
    <2>4. QED
      BY <2>1, <2>2, <2>3, Zenon
  <1>3. g = [n \in 0 .. N |-> down(g, n)]
    BY <1>2, Zenon
  <1>4. PICK b : b = [n \in 0 .. N |-> down(b, n)] /\ Reached(r) = {b[n] : n \in 0 .. N}
    <2> HIDE DEF g
    <2>1. QED
      BY <1>3, ReachedUnfold
  <1>5. \A n \in 0 .. N : b[n] = g[n]
    <2> HIDE DEF g, down
    <2> DEFINE S == {n \in 0 .. N : b[n] # g[n]}
    <2>1. SUFFICES ASSUME S # {} PROVE FALSE
      OBVIOUS
    <2>2. S \in SUBSET Nat
      OBVIOUS
    <2>3. PICK m \in S : \A n \in S : m <= n
      BY <2>1, <2>2, LeastNat, Zenon
    <2>4. m \in 0 .. N /\ b[m] = down(b, m) /\ g[m] = down(g, m) /\ b[m] # g[m]
      BY <1>3, <1>4, <2>3
    <2>5. CASE m = 0
      BY <2>4, <2>5 DEF down
    <2>6. CASE m # 0
      <3>1. m - 1 \in 0 .. N /\ m - 1 \notin S
        BY <1>1, <2>3, <2>4, <2>6
      <3>2. b[m - 1] = g[m - 1]
        BY <3>1
      <3>3. QED
        BY <2>4, <3>2 DEF down
    <2>7. QED
      BY <2>5, <2>6
  <1>6. Reached(r) = {g[n] : n \in 0 .. N}
    <2> HIDE DEF g
    <2>1. QED
      BY <1>4, <1>5
  <1>7. ASSUME NEW n \in 0 .. N PROVE g[n] \in {held[r][i] : i \in 1 .. L} \cup {r}
    <2>1. n < L => L - n \in 1 .. L
      BY <1>1
    <2>2. QED
      BY <2>1
  <1>8. ASSUME NEW i \in 1 .. L PROVE held[r][i] \in {g[n] : n \in 0 .. N}
    <2>1. L - i \in 0 .. N /\ L - i < L /\ L - (L - i) = i
      BY <1>1
    <2>2. g[L - i] = held[r][i]
      BY <2>1
    <2>3. QED
      BY <2>1, <2>2
  <1>9. r \in {g[n] : n \in 0 .. N}
    <2>1. L \in 0 .. N /\ g[L] = r
      BY <1>1
    <2>2. QED
      BY <2>1
  <1>10. QED
    <2> HIDE DEF g
    <2>1. QED
      BY <1>6, <1>7, <1>8, <1>9

\* A request whose writers and state a step leaves alone.
LEMMA NoteFrame ==
  ASSUME NEW q \in Requests, Linked(q), Noting(q),
         held'[q] = held[q], sent'[q] = sent[q], pc'[q] = pc[q], noted'[q] = noted[q],
         probe'[q] = probe[q], panicked'[q] = panicked[q],
         \A i \in 1 .. Len(held[q]) : writer'[held[q][i]] = writer[held[q][i]]
  PROVE  Linked(q)' /\ Noting(q)'
  <1>0. Status(q)' = Status(q) /\ Depth(q)' = Depth(q)
    BY DEF Status, Depth
  <1>1. Linked(q)'
    <2>1. ASSUME NEW i \in 1 .. Len(held[q])
          PROVE  Captured(writer'[held[q][i]], Below(q, held[q], i), sent'[q])
      <3>1. writer'[held[q][i]] = writer[held[q][i]]
        OBVIOUS
      <3>2. Captured(writer[held[q][i]], Below(q, held[q], i), sent[q])
        BY Zenon DEF Linked
      <3>3. QED
        BY <3>1, <3>2, Zenon
    <2>2. QED
      BY <2>1 DEF Linked
  <1>2. Noting(q)'
    BY <1>0, Zenon DEF Noting
  <1>3. QED
    BY <1>1, <1>2

\* The numbers of a request.
LEMMA Depths ==
  ASSUME ChainInv, NoteTypeOK, NEW r \in Requests
  PROVE  /\ held[r] \in Seq(Writers) /\ Len(held[r]) \in Nat /\ Depth(r) \in Nat
         /\ sent[r] \in Nat /\ Status(r) \in Nat \ {0} /\ noted[r] \in Seq(Nat)
         /\ probe[r] \in BOOLEAN /\ panicked[r] \in BOOLEAN
         /\ pc[r] \in {"idle", "enter", "serve", "body", "leave", "over"}
  <1>1. held[r] \in Seq(Writers) /\ Len(Layers) \in Nat
    BY MiddlewareAssumption DEF ChainInv, ChainTypeOK
  <1>2. QED
    BY <1>1 DEF ChainInv, ChainTypeOK, NoteTypeOK, Depth, Status

\* A write of r, with that code if it is the first, gets to its own writers only.
WroteOwn(r, code) ==
  /\ NoteTypeOK' \/ ~ UNCHANGED <<noted, probe, panicked>>
  /\ sent'[r] = IF sent[r] = 0 THEN code ELSE sent[r]
  /\ \A q \in Requests \ {r} :
       sent'[q] = sent[q] /\ \A i \in 1 .. Len(held[q]) : writer'[held[q][i]] = writer[held[q][i]]
  /\ \A i \in 1 .. Len(held[r]) :
       /\ writer'[held[r][i]].under = writer[held[r][i]].under
       /\ writer'[held[r][i]].wrote
       /\ writer'[held[r][i]].status = sent'[r]

(* The first status goes to all writers of the request and to its          *)
(* connection, and to nothing of another request.                          *)
LEMMA WritesOwn ==
  ASSUME ChainInv, NoteInv, NEW r \in Requests, NEW code \in Nat \ {0},
         WriteHeader(r, code) \/ (Write(r) /\ code = 200)
  PROVE  WroteOwn(r, code)
  <1>1. /\ Linked(r) /\ NoteTypeOK
        /\ Reached(r) = {held[r][i] : i \in 1 .. Len(held[r])} \cup {r}
        /\ sent \in [Requests -> Nat] /\ r \notin Writers
    <2>1. Linked(r) /\ NoteTypeOK /\ sent \in [Requests -> Nat]
      BY DEF NoteInv, NoteTypeOK
    <2>2. Reached(r) = {held[r][i] : i \in 1 .. Len(held[r])} \cup {r}
      BY <2>1, ReachedIsChain
    <2>3. r \notin Writers
      BY MiddlewareAssumption
    <2>4. QED
      BY <2>1, <2>2, <2>3
  <1>2. PICK own : own = Reached(r)
    OBVIOUS
  <1>3. \A q \in Requests : q \in own <=> q = r
    <2>1. \A i \in 1 .. Len(held[r]) : held[r][i] \in Writers
      BY DEF ChainInv, ChainTypeOK
    <2>2. QED
      BY <1>1, <1>2, <2>1, MiddlewareAssumption
  <1>4. \A q \in Requests \ {r} : \A i \in 1 .. Len(held[q]) : held[q][i] \in Writers \ own
    <2> SUFFICES ASSUME NEW q \in Requests \ {r}, NEW i \in 1 .. Len(held[q])
                 PROVE  held[q][i] \in Writers \ own
      OBVIOUS
    <2>1. held[q][i] \in Writers
      BY DEF ChainInv, ChainTypeOK
    <2>2. \A j \in 1 .. Len(held[r]) : held[q][i] # held[r][j]
      BY DEF ChainInv, WriterExclusive
    <2>3. held[q][i] # r
      BY <1>1, <2>1
    <2>4. QED
      BY <1>1, <1>2, <2>1, <2>2, <2>3
  <1>5. \A i \in 1 .. Len(held[r]) : held[r][i] \in Writers \cap own
    BY <1>1, <1>2 DEF ChainInv, ChainTypeOK
  <1>6. /\ \A w \in Writers \ own : writer'[w] = writer[w]
        /\ \A w \in Writers \cap own :
             /\ writer'[w] \in WriterRecord
             /\ writer'[w].under = writer[w].under /\ writer'[w].wrote
             /\ writer[w].wrote => writer'[w].status = writer[w].status
             /\ ~ writer[w].wrote /\ writer[w].status = 200 => writer'[w].status = code
        /\ sent' = [q \in Requests |-> IF q \in own /\ sent[q] = 0 THEN code ELSE sent[q]]
        /\ writer' = [w \in Writers |-> writer'[w]]
    <2>1. CASE WriteHeader(r, code)
      <3>1. writer' = [w \in Writers |-> IF w \in own /\ ~ writer[w].wrote
                                         THEN [writer[w] EXCEPT !.status = code, !.wrote = TRUE]
                                         ELSE writer[w]]
        BY <1>2, <2>1, Zenon DEF WriteHeader
      <3>2. sent' = [q \in Requests |-> IF q \in own /\ sent[q] = 0 THEN code ELSE sent[q]]
        BY <1>2, <2>1, Zenon DEF WriteHeader
      <3>3. writer' = [w \in Writers |-> writer'[w]] /\ \A w \in Writers \ own : writer'[w] = writer[w]
        BY <3>1, Zenon
      <3>4. ASSUME NEW w \in Writers \cap own
            PROVE  /\ writer'[w] \in WriterRecord
                   /\ writer'[w].under = writer[w].under /\ writer'[w].wrote
                   /\ writer[w].wrote => writer'[w].status = writer[w].status
                   /\ ~ writer[w].wrote => writer'[w].status = code
        <4>1. writer'[w] = IF ~ writer[w].wrote THEN [writer[w] EXCEPT !.status = code, !.wrote = TRUE]
                           ELSE writer[w]
          BY <3>1, Zenon
        <4>2. writer[w] \in WriterRecord
          BY <1>1 DEF NoteTypeOK
        <4>3. PICK u \in WriterRecord : u = writer[w]
          BY <4>2
        <4>4. PICK v : v = writer'[w]
          OBVIOUS
        <4>5. v = IF ~ u.wrote THEN [u EXCEPT !.status = code, !.wrote = TRUE] ELSE u
          BY <4>1, <4>3, <4>4, Zenon
        <4>6. /\ v \in WriterRecord /\ v.under = u.under /\ v.wrote
              /\ u.wrote => v.status = u.status
              /\ ~ u.wrote => v.status = code
          BY <4>5, Zenon DEF WriterRecord
        <4>7. QED
          BY <4>3, <4>4, <4>6, Zenon
      <3>5. QED
        BY <3>2, <3>3, <3>4
    <2>2. CASE Write(r) /\ code = 200
      <3>1. writer' = [w \in Writers |-> IF w \in own THEN [writer[w] EXCEPT !.wrote = TRUE]
                                         ELSE writer[w]]
        BY <1>2, <2>2 DEF Write
      <3>2. sent' = [q \in Requests |-> IF q \in own /\ sent[q] = 0 THEN code ELSE sent[q]]
        BY <1>2, <2>2 DEF Write
      <3>3. writer' = [w \in Writers |-> writer'[w]] /\ \A w \in Writers \ own : writer'[w] = writer[w]
        BY <3>1, Zenon
      <3>4. ASSUME NEW w \in Writers \cap own
            PROVE  /\ writer'[w] \in WriterRecord
                   /\ writer'[w].under = writer[w].under /\ writer'[w].wrote
                   /\ writer'[w].status = writer[w].status
        <4>1. writer'[w] = [writer[w] EXCEPT !.wrote = TRUE]
          BY <3>1
        <4>2. writer[w] \in WriterRecord
          BY <1>1 DEF NoteTypeOK
        <4>3. PICK u \in WriterRecord : u = writer[w]
          BY <4>2
        <4>4. PICK v : v = writer'[w]
          OBVIOUS
        <4>5. v = [u EXCEPT !.wrote = TRUE]
          BY <4>1, <4>3, <4>4, Zenon
        <4>6. v \in WriterRecord /\ v.under = u.under /\ v.wrote /\ v.status = u.status
          BY <4>5, Zenon DEF WriterRecord
        <4>7. QED
          BY <4>3, <4>4, <4>6, Zenon
      <3>5. QED
        BY <2>2, <3>2, <3>3, <3>4
    <2>3. QED
      BY <2>1, <2>2
  <1>7. sent'[r] = IF sent[r] = 0 THEN code ELSE sent[r]
    BY <1>3, <1>6
  <1>8. ASSUME NEW i \in 1 .. Len(held[r])
        PROVE  writer'[held[r][i]].status = sent'[r]
    <2>1. Captured(writer[held[r][i]], Below(r, held[r], i), sent[r])
      BY <1>1, Zenon DEF Linked
    <2>2. /\ writer[held[r][i]].status = IF sent[r] = 0 THEN 200 ELSE sent[r]
          /\ writer[held[r][i]].wrote <=> sent[r] # 0
      BY <2>1, Zenon DEF Captured
    <2>3. QED
      BY <1>1, <1>5, <1>6, <1>7, <2>2
  <1>9. NoteTypeOK' \/ ~ UNCHANGED <<noted, probe, panicked>>
    <2>1. sent' \in [Requests -> Nat]
      BY <1>1, <1>6
    <2>2. ASSUME NEW w \in Writers
          PROVE  writer'[w] \in WriterRecord
      BY <1>1, <1>6 DEF NoteTypeOK
    <2>3. writer' \in [Writers -> WriterRecord]
      BY <1>6, <2>2, Zenon
    <2>4. QED
      BY <1>1, <2>1, <2>3, Zenon DEF NoteTypeOK
  <1>10. QED
    BY <1>3, <1>4, <1>5, <1>6, <1>7, <1>8, <1>9 DEF WroteOwn

\* A handler answers, or writes a piece.
LEMMA WriteNotes ==
  ASSUME ChainInv, NoteInv, NEW r \in Requests, NEW code \in Nat \ {0},
         WriteHeader(r, code) \/ (Write(r) /\ code = 200),
         pc[r] \in {"serve", "body"}, NEW v \in {"body", "leave"}, pc' = [pc EXCEPT ![r] = v],
         UNCHANGED <<held, noted, probe, panicked>>
  PROVE  NoteInv'
  <1>1. /\ NoteTypeOK' /\ sent'[r] = IF sent[r] = 0 THEN code ELSE sent[r]
        /\ \A q \in Requests \ {r} :
             sent'[q] = sent[q] /\ \A i \in 1 .. Len(held[q]) : writer'[held[q][i]] = writer[held[q][i]]
        /\ \A i \in 1 .. Len(held[r]) :
             /\ writer'[held[r][i]].under = writer[held[r][i]].under
             /\ writer'[held[r][i]].wrote
             /\ writer'[held[r][i]].status = sent'[r]
    <2>1. UNCHANGED <<noted, probe, panicked>>
      OBVIOUS
    <2>2. WroteOwn(r, code)
      BY WritesOwn
    <2>3. QED
      BY <2>1, <2>2 DEF WroteOwn
  <1>2. \A q \in Requests : Linked(q) /\ Noting(q)
    BY DEF NoteInv
  <1>3. pc \in [Requests -> {"idle", "enter", "serve", "body", "leave", "over"}]
    BY DEF ChainInv, ChainTypeOK
  <1>4. sent[r] \in Nat /\ sent'[r] \in Nat \ {0} /\ Depth(r) \in Nat
    BY <1>1, Depths DEF NoteInv
  <1>5. Linked(r)'
    <2>1. held' = held /\ sent'[r] # 0
      BY <1>4
    <2>2. ASSUME NEW i \in 1 .. Len(held[r])
          PROVE  Captured(writer'[held[r][i]], Below(r, held[r], i), sent'[r])
      <3>1. PICK x, y : x = writer[held[r][i]] /\ y = writer'[held[r][i]]
        OBVIOUS
      <3>2. y.under = x.under /\ y.wrote /\ y.status = sent'[r]
        BY <1>1, <3>1, Zenon
      <3>3. x.under = Below(r, held[r], i)
        BY <1>2, <3>1 DEF Linked, Captured
      <3>4. y.status = IF sent'[r] = 0 THEN 200 ELSE sent'[r]
        BY <2>1, <3>2, Zenon
      <3>5. Captured(y, Below(r, held[r], i), sent'[r])
        BY <2>1, <3>2, <3>3, <3>4, Zenon DEF Captured
      <3>6. QED
        BY <3>1, <3>5, Zenon
    <2>3. QED
      BY <2>1, <2>2 DEF Linked
  <1>6. Noting(r)'
    <2>1. pc'[r] = v /\ Len(held[r]) = Depth(r) /\ noted[r] = <<>> /\ ~ panicked[r]
      <3>1. pc'[r] = v /\ pc[r] # "over"
        BY <1>3
      <3>2. Noting(r)
        BY <1>2
      <3>3. QED
        BY <3>1, <3>2, Zenon DEF Noting
    <2>2. 1 .. Depth(r) - Len(held[r]) = {} /\ Depth(r)' = Depth(r) /\ Depth(r) <= Depth(r)
      BY <1>4, <2>1 DEF Depth
    <2>3. noted'[r] = [i \in 1 .. (Depth(r)' - Len(held'[r])) |-> Status(r)']
      BY <2>1, <2>2
    <2>4. QED
      BY <1>4, <2>1, <2>2, <2>3, Zenon DEF Noting
  <1>7. ASSUME NEW q \in Requests \ {r} PROVE Linked(q)' /\ Noting(q)'
    <2>1. pc'[q] = pc[q]
      BY <1>3
    <2>2. QED
      BY <1>1, <1>2, <2>1, NoteFrame, Zenon
  <1>8. QED
    BY <1>1, <1>5, <1>6, <1>7 DEF NoteInv

\* A request arrives, is completed or finished, or its handler returns: no
\* writer changes.
LEMMA MoveNotes ==
  ASSUME ChainInv, NoteInv, NEW r \in Requests, UNCHANGED <<writer, held>>, NoteTypeOK',
         \A q \in Requests \ {r} :
           /\ sent'[q] = sent[q] /\ pc'[q] = pc[q] /\ noted'[q] = noted[q]
           /\ probe'[q] = probe[q] /\ panicked'[q] = panicked[q],
         sent'[r] = sent[r] \/ held[r] = <<>>,
         Noting(r)'
  PROVE  NoteInv'
  <1>1. \A q \in Requests : Linked(q) /\ Noting(q)
    BY DEF NoteInv
  <1>2. ASSUME NEW q \in Requests \ {r} PROVE Linked(q)' /\ Noting(q)'
    BY <1>1, NoteFrame
  <1>3. Linked(r)'
    <2>1. CASE sent'[r] = sent[r]
      <3>1. writer' = writer /\ held' = held /\ Linked(r)
        BY <1>1
      <3>2. QED
        BY <2>1, <3>1 DEF Linked
    <2>2. CASE held[r] = <<>>
      <3>1. held' = held
        OBVIOUS
      <3>2. 1 .. Len(held[r]) = {}
        BY <2>2
      <3>3. QED
        BY <3>1, <3>2, Zenon DEF Linked
    <2>3. QED
      BY <2>1, <2>2
  <1>4. QED
    BY <1>2, <1>3 DEF NoteInv

\* A new request has sent and noted nothing.
LEMMA ArriveNotes ==
  ASSUME ChainInv, NoteInv, NEW r \in Requests, NEW p \in BOOLEAN, Arrive(r, p)
  PROVE  NoteInv'
  <1>1. /\ pc[r] = "idle" /\ probe' = [probe EXCEPT ![r] = p]
        /\ pc' = [pc EXCEPT ![r] = IF p \/ Layers = <<>> THEN "serve" ELSE "enter"]
        /\ UNCHANGED <<writer, held, sent, noted, panicked>>
    BY DEF Arrive
  <1>2. NoteTypeOK /\ NoteTypeOK' /\ probe'[r] = p /\ Noting(r)
    BY <1>1 DEF NoteInv, NoteTypeOK
  <1>3. /\ pc'[r] = IF p \/ Layers = <<>> THEN "serve" ELSE "enter"
        /\ \A q \in Requests \ {r} : pc'[q] = pc[q] /\ probe'[q] = probe[q]
    BY <1>1, <1>2 DEF ChainInv, ChainTypeOK, NoteTypeOK
  <1>4. Len(held[r]) = 0 /\ (Layers = <<>> => Len(Layers) = 0)
    BY <1>1 DEF ChainInv, DepthInv
  <1>5. Noting(r)'
    <2>1. sent'[r] = 0 /\ ~ panicked'[r] /\ noted'[r] = <<>>
      BY <1>1, <1>2 DEF Noting
    <2>2. Len(held'[r]) = 0 /\ (pc'[r] = "serve" => Depth(r)' = 0) /\ (pc'[r] = "enter" => ~ probe'[r])
      BY <1>1, <1>2, <1>3, <1>4 DEF Depth
    <2>3. pc'[r] \in {"serve", "enter"}
      BY <1>3
    <2>4. QED
      BY <2>1, <2>2, <2>3 DEF Noting
  <1>6. QED
    BY <1>1, <1>2, <1>3, <1>5, MoveNotes, Zenon

\* net/http completes a response without a status as the layers noted it.
LEMMA CompleteNotes ==
  ASSUME ChainInv, NoteInv, NEW r \in Requests, Complete(r)
  PROVE  NoteInv'
  <1>1. /\ pc[r] = "leave" /\ held[r] = <<>> /\ sent' = [sent EXCEPT ![r] = IF @ = 0 THEN 200 ELSE @]
        /\ pc' = [pc EXCEPT ![r] = "over"] /\ UNCHANGED <<writer, held, probe, noted, panicked>>
    BY DEF Complete
  <1>2. NoteTypeOK /\ NoteTypeOK' /\ sent'[r] = Status(r) /\ Noting(r)
    BY <1>1 DEF NoteInv, NoteTypeOK, Status
  <1>3. pc'[r] = "over" /\ \A q \in Requests \ {r} : pc'[q] = pc[q] /\ sent'[q] = sent[q]
    BY <1>1, <1>2 DEF ChainInv, ChainTypeOK, NoteTypeOK
  <1>4. Len(held[r]) = 0 /\ Depth(r) \in Nat /\ Status(r) # 0
    BY <1>1, <1>2, Depths
  <1>5. ~ panicked[r] /\ noted[r] = [i \in 1 .. Depth(r) |-> Status(r)]
    <2>1. ~ panicked[r] /\ noted[r] = [i \in 1 .. Depth(r) - Len(held[r]) |-> Status(r)]
      BY <1>1, <1>2, Zenon DEF Noting
    <2>2. Depth(r) - Len(held[r]) = Depth(r)
      BY <1>4
    <2>3. QED
      BY <2>1, <2>2
  <1>6. Noting(r)'
    <2>1. /\ ~ panicked'[r] /\ Depth(r)' = Depth(r) /\ noted'[r] = noted[r] /\ pc'[r] = "over"
          /\ sent'[r] = Status(r) /\ sent'[r] # 0
      BY <1>1, <1>2, <1>3, <1>4, <1>5 DEF Depth
    <2>2. noted'[r] = [i \in 1 .. (IF panicked'[r] THEN 0 ELSE Depth(r)') |-> sent'[r]]
      BY <1>5, <2>1
    <2>3. QED
      BY <2>1, <2>2 DEF Noting
  <1>7. QED
    BY <1>1, <1>2, <1>3, <1>6, MoveNotes

\* The connection is ready for the next request.
LEMMA FinishNotes ==
  ASSUME ChainInv, NoteInv, NEW r \in Requests, Finish(r)
  PROVE  NoteInv'
  <1>1. /\ pc[r] = "over" /\ sent' = [sent EXCEPT ![r] = 0] /\ pc' = [pc EXCEPT ![r] = "idle"]
        /\ probe' = [probe EXCEPT ![r] = FALSE] /\ noted' = [noted EXCEPT ![r] = <<>>]
        /\ panicked' = [panicked EXCEPT ![r] = FALSE] /\ UNCHANGED <<writer, held>>
    BY DEF Finish
  <1>2. NoteTypeOK
    BY DEF NoteInv
  <1>3. /\ pc'[r] = "idle" /\ sent'[r] = 0 /\ noted'[r] = <<>> /\ ~ panicked'[r]
        /\ \A q \in Requests \ {r} :
             /\ sent'[q] = sent[q] /\ pc'[q] = pc[q] /\ noted'[q] = noted[q]
             /\ probe'[q] = probe[q] /\ panicked'[q] = panicked[q]
    BY <1>1, <1>2 DEF ChainInv, ChainTypeOK, NoteTypeOK
  <1>4. NoteTypeOK'
    BY <1>1, <1>2 DEF NoteTypeOK
  <1>5. held[r] = <<>>
    BY <1>1 DEF ChainInv, DepthInv, ChainTypeOK
  <1>6. Noting(r)'
    BY <1>3 DEF Noting
  <1>7. QED
    BY <1>1, <1>3, <1>4, <1>5, <1>6, MoveNotes, Zenon

\* The handler returns without a write.
LEMMA ReturnNotes ==
  ASSUME ChainInv, NoteInv, NEW r \in Requests, AnswerNothing(r) \/ EndBody(r)
  PROVE  NoteInv'
  <1>1. /\ pc[r] \in {"serve", "body"} /\ pc' = [pc EXCEPT ![r] = "leave"]
        /\ UNCHANGED <<writer, held, sent, probe, noted, panicked>>
    BY Zenon DEF AnswerNothing, EndBody, Returns
  <1>2. NoteTypeOK /\ NoteTypeOK' /\ Noting(r)
    BY <1>1 DEF NoteInv, NoteTypeOK
  <1>3. pc'[r] = "leave" /\ \A q \in Requests \ {r} : pc'[q] = pc[q]
    BY <1>1 DEF ChainInv, ChainTypeOK
  <1>4. Len(held[r]) = Depth(r) /\ Depth(r) \in Nat /\ noted[r] = <<>> /\ ~ panicked[r]
    BY <1>1, <1>2, Depths, Zenon DEF Noting
  <1>5. noted[r] = [i \in 1 .. Depth(r) - Len(held[r]) |-> Status(r)] /\ Len(held[r]) <= Depth(r)
    BY <1>4
  <1>6. Noting(r)'
    <2>1. Status(r)' = Status(r) /\ Depth(r)' = Depth(r)
      BY <1>1, Zenon DEF Status, Depth
    <2>2. held' = held /\ noted' = noted /\ panicked' = panicked
      BY <1>1
    <2>3. QED
      BY <1>3, <1>4, <1>5, <2>1, <2>2, Zenon DEF Noting
  <1>7. QED
    BY <1>1, <1>2, <1>3, <1>6, MoveNotes, Zenon

\* A layer puts a fresh writer on top of the chain, before anything is sent.
LEMMA EnterNotes ==
  ASSUME ChainInv, NoteInv, NEW r \in Requests, NEW w \in Writers, Enter(r, w)
  PROVE  NoteInv'
  <1> DEFINE n == Len(held[r]) + 1
  <1>1. /\ pc[r] = "enter" /\ Gettable(w)
        /\ writer' = [writer EXCEPT ![w] = Reset(w, Top(r))]
        /\ held' = [held EXCEPT ![r] = Append(@, w)]
        /\ pc' = [pc EXCEPT ![r] = IF n = Len(Layers) THEN "serve" ELSE "enter"]
        /\ UNCHANGED <<sent, noted, probe, panicked>>
    BY DEF Enter
  <1>2. NoteTypeOK /\ Linked(r) /\ Noting(r) /\ \A q \in Requests : Linked(q) /\ Noting(q)
    BY DEF NoteInv
  <1>3. held[r] \in Seq(Writers) /\ Len(held[r]) \in Nat
    BY <1>2, Depths
  <1>4. /\ held'[r] = Append(held[r], w) /\ \A q \in Requests \ {r} : held'[q] = held[q] /\ pc'[q] = pc[q]
        /\ pc'[r] = IF n = Len(Layers) THEN "serve" ELSE "enter"
    BY <1>1 DEF ChainInv, ChainTypeOK
  <1>5. /\ Len(held'[r]) = n /\ held'[r][n] = w
        /\ \A i \in 1 .. Len(held[r]) : held'[r][i] = held[r][i]
    BY <1>3, <1>4
  <1>6. \A q \in Requests : \A i \in 1 .. Len(held[q]) : held[q][i] \in Writers /\ held[q][i] # w
    <2>1. ~ IsHeld(w)
      BY <1>1, GettableFree
    <2>2. QED
      BY <2>1 DEF IsHeld, ChainInv, ChainTypeOK
  <1>7. /\ writer'[w] = [under |-> Top(r), status |-> 200, wrote |-> FALSE]
        /\ \A x \in Writers : x # w => writer'[x] = writer[x]
    BY <1>1, <1>2 DEF NoteTypeOK, Reset
  <1>8. Top(r) = (IF n = 1 THEN r ELSE held[r][n - 1]) /\ Top(r) \in Writers \cup Requests \cup {Nil}
    <2>1. held[r] = <<>> <=> n = 1
      BY <1>3
    <2>2. Top(r) = IF n = 1 THEN r ELSE held[r][n - 1]
      BY <1>3, <2>1 DEF Top
    <2>3. n # 1 => n - 1 \in 1 .. Len(held[r])
      BY <1>3
    <2>4. QED
      BY <1>6, <2>2, <2>3
  <1>9. NoteTypeOK'
    <2>1. Reset(w, Top(r)) \in WriterRecord
      <3>1. \A t \in Writers \cup Requests \cup {Nil} :
              [under |-> t, status |-> 200, wrote |-> FALSE] \in WriterRecord
        BY DEF WriterRecord
      <3>2. QED
        BY <1>8, <3>1, Zenon DEF Reset
    <2>2. QED
      BY <1>1, <1>2, <2>1 DEF NoteTypeOK
  <1>10. sent[r] = 0 /\ noted[r] = <<>> /\ ~ panicked[r] /\ ~ probe[r]
    BY <1>1, <1>2, Zenon DEF Noting
  <1>11. Linked(r)'
    <2>1. ASSUME NEW i \in 1 .. n
          PROVE  Captured(writer'[held'[r][i]], Below(r, held'[r], i), 0)
      <3>1. CASE i = n
        <4>1. held'[r][i] = w /\ Below(r, held'[r], i) = Top(r)
          <5>1. n # 1 => n - 1 \in 1 .. Len(held[r])
            BY <1>3
          <5>2. n # 1 => held'[r][n - 1] = held[r][n - 1]
            BY <1>5, <5>1
          <5>3. QED
            BY <1>5, <1>8, <3>1, <5>2, Zenon DEF Below
        <4>2. Captured([under |-> Top(r), status |-> 200, wrote |-> FALSE], Top(r), 0)
          BY DEF Captured
        <4>3. QED
          BY <1>7, <4>1, <4>2, Zenon
      <3>2. CASE i # n
        <4>1. i \in 1 .. Len(held[r]) /\ (i # 1 => i - 1 \in 1 .. Len(held[r]))
          BY <1>3, <3>2
        <4>2. held'[r][i] = held[r][i] /\ (i # 1 => held'[r][i - 1] = held[r][i - 1])
          BY <1>5, <4>1
        <4>3. Below(r, held'[r], i) = Below(r, held[r], i)
          BY <4>2, Zenon DEF Below
        <4>4. Captured(writer[held[r][i]], Below(r, held[r], i), 0)
          BY <1>2, <1>10, <4>1, Zenon DEF Linked
        <4>5. writer'[held[r][i]] = writer[held[r][i]]
          BY <1>6, <1>7, <4>1
        <4>6. QED
          BY <4>2, <4>3, <4>4, <4>5, Zenon
      <3>3. QED
        BY <3>1, <3>2, Zenon
    <2>2. sent'[r] = 0 /\ Len(held'[r]) = n
      BY <1>1, <1>5, <1>10, Zenon
    <2>3. QED
      BY <2>1, <2>2, Zenon DEF Linked
  <1>12. Noting(r)'
    <2>1. /\ sent'[r] = 0 /\ noted'[r] = <<>> /\ ~ panicked'[r] /\ ~ probe'[r]
          /\ Depth(r)' = Len(Layers)
      BY <1>1, <1>10, Zenon DEF Depth
    <2>2. QED
      BY <1>4, <1>5, <2>1, Zenon DEF Noting
  <1>13. ASSUME NEW q \in Requests \ {r} PROVE Linked(q)' /\ Noting(q)'
    <2>1. \A i \in 1 .. Len(held[q]) : writer'[held[q][i]] = writer[held[q][i]]
      BY <1>6, <1>7, Zenon
    <2>2. QED
      BY <1>1, <1>2, <1>4, <2>1, NoteFrame, Zenon
  <1>14. QED
    BY <1>9, <1>11, <1>12, <1>13 DEF NoteInv

\* A layer notes what its writer captured, which is what was sent.
LEMMA LeaveNotes ==
  ASSUME ChainInv, NoteInv, NEW r \in Requests, Leave(r)
  PROVE  NoteInv'
  <1> DEFINE n == Len(held[r])
             w == held[r][n]
  <1>1. /\ pc[r] = "leave" /\ n > 0
        /\ noted' = [noted EXCEPT ![r] = Append(@, writer[w].status)]
        /\ writer' = [writer EXCEPT ![w].under = Nil]
        /\ held' = [held EXCEPT ![r] = SubSeq(@, 1, n - 1)]
        /\ UNCHANGED <<pc, probe, sent, panicked>>
    BY DEF Leave
  <1>2. NoteTypeOK /\ Linked(r) /\ Noting(r) /\ \A q \in Requests : Linked(q) /\ Noting(q)
    BY DEF NoteInv
  <1>3. /\ held[r] \in Seq(Writers) /\ n \in Nat \ {0} /\ n \in 1 .. n /\ Depth(r) \in Nat
        /\ Status(r) \in Nat
    BY <1>1, <1>2, Depths
  <1>4. /\ w \in Writers /\ writer[w].status = Status(r)
    <2>1. w \in Writers
      BY <1>3
    <2>2. Captured(writer[w], Below(r, held[r], n), sent[r])
      BY <1>2, <1>3, Zenon DEF Linked
    <2>3. QED
      BY <2>1, <2>2, Zenon DEF Captured, Status
  <1>5. /\ held'[r] = SubSeq(held[r], 1, n - 1) /\ \A q \in Requests \ {r} : held'[q] = held[q]
    BY <1>1 DEF ChainInv, ChainTypeOK
  <1>6. /\ Len(held'[r]) = n - 1 /\ \A i \in 1 .. n - 1 : held'[r][i] = held[r][i]
    BY <1>3, <1>5
  <1>7. \A q \in Requests : \A i \in 1 .. Len(held[q]) :
          held[q][i] \in Writers /\ (held[q][i] = w => q = r /\ i = n)
    BY <1>3 DEF ChainInv, ChainTypeOK, WriterExclusive
  <1>8. /\ \A x \in Writers : x # w => writer'[x] = writer[x]
        /\ NoteTypeOK'
    <2>1. writer[w] \in WriterRecord
      BY <1>2, <1>4 DEF NoteTypeOK
    <2>2. [writer[w] EXCEPT !.under = Nil] \in WriterRecord
      BY <2>1 DEF WriterRecord
    <2>3. writer' = [writer EXCEPT ![w] = [writer[w] EXCEPT !.under = Nil]]
      BY <1>1
    <2>4. writer' \in [Writers -> WriterRecord] /\ \A x \in Writers : x # w => writer'[x] = writer[x]
      BY <1>2, <2>2, <2>3, Zenon DEF NoteTypeOK
    <2>5. noted' \in [Requests -> Seq(Nat)]
      BY <1>1, <1>2, <1>3, <1>4 DEF NoteTypeOK
    <2>6. QED
      BY <1>1, <1>2, <2>4, <2>5 DEF NoteTypeOK
  <1>9. Linked(r)'
    <2>1. ASSUME NEW i \in 1 .. n - 1
          PROVE  Captured(writer'[held'[r][i]], Below(r, held'[r], i), sent[r])
      <3>1. i \in 1 .. n /\ i # n /\ (i # 1 => i - 1 \in 1 .. n - 1)
        BY <1>3
      <3>2. held'[r][i] = held[r][i] /\ (i # 1 => held'[r][i - 1] = held[r][i - 1])
        BY <1>6, <3>1
      <3>3. writer'[held[r][i]] = writer[held[r][i]]
        BY <1>7, <1>8, <3>1
      <3>4. Below(r, held'[r], i) = Below(r, held[r], i)
        BY <3>2, Zenon DEF Below
      <3>5. Captured(writer[held[r][i]], Below(r, held[r], i), sent[r])
        BY <1>2, <3>1, Zenon DEF Linked
      <3>6. QED
        BY <3>2, <3>3, <3>4, <3>5, Zenon
    <2>2. Len(held'[r]) = n - 1 /\ sent' = sent
      BY <1>1, <1>6
    <2>3. QED
      BY <2>1, <2>2 DEF Linked
  <1>10. Noting(r)'
    <2>1. /\ n <= Depth(r) /\ ~ panicked[r]
          /\ noted[r] = [i \in 1 .. Depth(r) - n |-> Status(r)]
      BY <1>1, <1>2 DEF Noting
    <2>2. noted'[r] = Append(noted[r], Status(r))
      BY <1>1, <1>2, <1>4 DEF NoteTypeOK
    <2>3. ASSUME NEW m \in Nat, NEW v
          PROVE  Append([i \in 1 .. m |-> v], v) = [i \in 1 .. m + 1 |-> v]
      OBVIOUS
    <2>4. Depth(r) - n \in Nat /\ Depth(r) - n + 1 = Depth(r) - (n - 1)
      BY <1>3, <2>1
    <2>5. noted'[r] = [i \in 1 .. Depth(r) - (n - 1) |-> Status(r)]
      BY <2>1, <2>2, <2>3, <2>4
    <2>6. /\ Depth(r)' = Depth(r) /\ Status(r)' = Status(r) /\ pc'[r] = "leave" /\ ~ panicked'[r]
          /\ Len(held'[r]) <= Depth(r)
      BY <1>1, <1>3, <1>6, <2>1 DEF Depth, Status
    <2>7. QED
      BY <1>6, <2>5, <2>6, Zenon DEF Noting
  <1>11. ASSUME NEW q \in Requests \ {r} PROVE Linked(q)' /\ Noting(q)'
    <2>1. \A i \in 1 .. Len(held[q]) : writer'[held[q][i]] = writer[held[q][i]]
      BY <1>7, <1>8
    <2>2. noted'[q] = noted[q]
      BY <1>1, <1>2 DEF NoteTypeOK
    <2>3. QED
      BY <1>1, <1>2, <1>5, <2>1, <2>2, NoteFrame
  <1>12. QED
    BY <1>8, <1>9, <1>10, <1>11 DEF NoteInv

\* recovery answers for a handler that panics, and nothing is noted.
LEMMA PanicNotes ==
  ASSUME ChainInv, NoteInv, NEW r \in Requests, Panic(r)
  PROVE  NoteInv'
  <1>1. /\ pc[r] \in {"serve", "body"} /\ panicked' = [panicked EXCEPT ![r] = TRUE]
        /\ sent' = [sent EXCEPT ![r] = IF @ = 0 THEN 500 ELSE @]
        /\ writer' = [w \in Writers |-> IF w \in Reached(r) THEN NewWriter ELSE writer[w]]
        /\ held' = [held EXCEPT ![r] = <<>>] /\ pc' = [pc EXCEPT ![r] = "over"]
        /\ UNCHANGED <<probe, noted>>
    BY DEF Panic
  <1>2. NoteTypeOK /\ Linked(r) /\ Noting(r) /\ \A q \in Requests : Linked(q) /\ Noting(q)
    BY DEF NoteInv
  <1>3. Reached(r) = {held[r][i] : i \in 1 .. Len(held[r])} \cup {r}
    BY <1>2, ReachedIsChain
  <1>4. /\ held'[r] = <<>> /\ pc'[r] = "over" /\ panicked'[r] /\ sent'[r] # 0
        /\ \A q \in Requests \ {r} : /\ held'[q] = held[q] /\ pc'[q] = pc[q] /\ sent'[q] = sent[q]
                                     /\ panicked'[q] = panicked[q]
    BY <1>1, <1>2 DEF ChainInv, ChainTypeOK, NoteTypeOK
  <1>5. ASSUME NEW q \in Requests \ {r}, NEW i \in 1 .. Len(held[q])
        PROVE  writer'[held[q][i]] = writer[held[q][i]]
    <2>1. held[q][i] \in Writers /\ r \notin Writers
      BY MiddlewareAssumption DEF ChainInv, ChainTypeOK
    <2>2. \A j \in 1 .. Len(held[r]) : held[q][i] # held[r][j]
      BY Zenon DEF ChainInv, WriterExclusive
    <2>3. held[q][i] \notin Reached(r)
      BY <1>3, <2>1, <2>2
    <2>4. QED
      BY <1>1, <2>1, <2>3
  <1>6. NoteTypeOK'
    <2>1. NewWriter \in WriterRecord
      BY DEF NewWriter, WriterRecord
    <2>2. writer' \in [Writers -> WriterRecord]
      BY <1>1, <1>2, <2>1 DEF NoteTypeOK
    <2>3. sent' \in [Requests -> Nat] /\ panicked' \in [Requests -> BOOLEAN]
      BY <1>1, <1>2 DEF NoteTypeOK
    <2>4. QED
      BY <1>1, <1>2, <2>2, <2>3 DEF NoteTypeOK
  <1>7. Linked(r)'
    BY <1>4 DEF Linked
  <1>8. Noting(r)'
    <2>1. noted'[r] = <<>>
      BY <1>1, <1>2, Zenon DEF Noting
    <2>2. QED
      <3>1. <<>> = [i \in 1 .. 0 |-> sent'[r]]
        OBVIOUS
      <3>2. QED
        BY <1>4, <2>1, <3>1, Zenon DEF Noting
  <1>9. ASSUME NEW q \in Requests \ {r} PROVE Linked(q)' /\ Noting(q)'
    BY <1>1, <1>2, <1>4, <1>5, NoteFrame, Zenon
  <1>10. QED
    BY <1>6, <1>7, <1>8, <1>9 DEF NoteInv

\* A process starts with nothing noted, and ends so.
LEMMA EndsNotes == (MiddlewareInit => NoteInv) /\ (MiddlewareEnds => NoteInv')
  <1>1. NewWriter \in WriterRecord
    BY DEF NewWriter, WriterRecord
  <1>2. ASSUME MiddlewareInit PROVE NoteInv
    <2>1. /\ writer = [w \in Writers |-> NewWriter] /\ pc = [r \in Requests |-> "idle"]
          /\ probe = [r \in Requests |-> FALSE] /\ held = [r \in Requests |-> <<>>]
          /\ sent = [r \in Requests |-> 0] /\ noted = [r \in Requests |-> <<>>]
          /\ panicked = [r \in Requests |-> FALSE]
      BY <1>2 DEF MiddlewareInit, AllRequests, NewWriters
    <2>2. NoteTypeOK
      BY <1>1, <2>1 DEF NoteTypeOK
    <2>3. \A r \in Requests : Linked(r) /\ Noting(r)
      BY <2>1 DEF Linked, Noting
    <2>4. QED
      BY <2>2, <2>3 DEF NoteInv
  <1>3. ASSUME MiddlewareEnds PROVE NoteInv'
    <2>1. /\ writer' = [w \in Writers |-> NewWriter] /\ pc' = [r \in Requests |-> "idle"]
          /\ probe' = [r \in Requests |-> FALSE] /\ held' = [r \in Requests |-> <<>>]
          /\ sent' = [r \in Requests |-> 0] /\ noted' = [r \in Requests |-> <<>>]
          /\ panicked' = [r \in Requests |-> FALSE]
      BY <1>3 DEF MiddlewareEnds, AllRequests, NewWriters
    <2>2. NoteTypeOK'
      BY <1>1, <2>1 DEF NoteTypeOK
    <2>3. \A r \in Requests : Linked(r)' /\ Noting(r)'
      BY <2>1 DEF Linked, Noting
    <2>4. QED
      BY <2>2, <2>3 DEF NoteInv
  <1>4. QED
    BY <1>2, <1>3

\* The steps of a request keep what its layers will note.
LEMMA ServeNotes ==
  ASSUME ChainInv, NoteInv, NEW r \in Requests, ChainStep(r) \/ HandlerStep(r)
  PROVE  NoteInv'
  <1>1. CASE ChainStep(r)
    BY <1>1, EnterNotes, LeaveNotes, CompleteNotes, FinishNotes, PanicNotes DEF ChainStep
  <1>2. ASSUME NEW code \in Codes, Answer(r, code) \/ StartBody(r, code) PROVE NoteInv'
    <2>1. code \in Nat \ {0}
      BY MiddlewareAssumption
    <2>2. QED
      BY <1>2, <2>1, WriteNotes DEF Answer, StartBody, Returns
  <1>3. CASE AnswerNothing(r) \/ EndBody(r)
    BY <1>3, ReturnNotes
  <1>4. CASE SendPiece(r)
    <2>1. /\ pc[r] = "body" /\ Write(r) /\ UNCHANGED <<pc, held, noted, probe, panicked>>
      BY <1>4 DEF SendPiece, reqVars
    <2>2. pc' = [pc EXCEPT ![r] = "body"]
      BY <2>1 DEF ChainInv, ChainTypeOK
    <2>3. PICK code \in Nat \ {0} : code = 200
      OBVIOUS
    <2>4. PICK v \in {"body", "leave"} : v = "body"
      OBVIOUS
    <2>5. Write(r) /\ code = 200 /\ pc' = [pc EXCEPT ![r] = v] /\ pc[r] \in {"serve", "body"}
      BY <2>1, <2>2, <2>3, <2>4, Zenon
    <2>6. QED
      BY <2>1, <2>5, WriteNotes, Zenon
  <1>5. QED
    BY <1>1, <1>2, <1>3, <1>4 DEF HandlerStep

\* Whatever the store answers an admin, the status is one.
LEMMA AdminNotes ==
  ASSUME ChainInv, NoteInv, NEW r \in Requests, AdminStep(r)
  PROVE  NoteInv'
  <1>1. PICK res : Admin(r, res)
    BY DEF AdminStep, handleCreate, handleUpdate, handleDelete
  <1>2. PICK code \in Nat \ {0} : Answer(r, code)
    <2>1. errorStatus(res.err) \in Nat \ {0}
      BY DEF errorStatus
    <2>2. QED
      BY <1>1, <2>1 DEF Admin
  <1>3. QED
    BY <1>2, WriteNotes, Zenon DEF Answer, Returns

\* A step that leaves the chain alone.
LEMMA NotesUnchanged ==
  ASSUME NoteInv, UNCHANGED mwVars
  PROVE  NoteInv'
  <1>1. UNCHANGED <<pool, writer, held, pc, sent, noted, probe, panicked>>
    BY DEF mwVars, reqVars
  <1>2. NoteTypeOK'
    BY <1>1 DEF NoteInv, NoteTypeOK
  <1>3. ASSUME NEW q \in Requests PROVE Linked(q)' /\ Noting(q)'
    BY <1>1, NoteFrame DEF NoteInv
  <1>4. QED
    BY <1>2, <1>3 DEF NoteInv

(* The log, the metrics and the trace of a request say the status that its *)
(* client got, for every chain of layers, and a request that panicked is   *)
(* in none of them.                                                        *)
THEOREM NotesTruth == Spec => []NotesWhatWasSent
  <1>1. Init => NoteInv
    BY EndsNotes DEF Init
  <1>2. ASSUME IInv, NoteInv, [Next]_vars PROVE NoteInv'
    <2>0. ChainInv
      BY <1>2 DEF IInv
    <2>1. CASE StartupStep /\ UNCHANGED mwVars
      BY <1>2, <2>1, NotesUnchanged
    <2>2. CASE Die
      BY <2>2, EndsNotes DEF Die
    <2>3. ASSUME NEW r \in Requests, Accept(r) \/ Serve(r) \/ AdminStep(r) PROVE NoteInv'
      BY <1>2, <2>0, <2>3, ArriveNotes, ServeNotes, AdminNotes DEF Accept, Serve
    <2>4. CASE UNCHANGED vars
      <3>1. UNCHANGED mwVars
        BY <2>4 DEF vars
      <3>2. QED
        BY <1>2, <3>1, NotesUnchanged
    <2>5. QED
      BY <1>2, <2>1, <2>2, <2>3, <2>4 DEF Next
  <1>3. NoteInv => NotesWhatWasSent
    BY Zenon DEF NoteInv, Noting, NotesWhatWasSent, Depth
  <1>4. QED
    BY <1>1, <1>2, <1>3, Invariance, PTL DEF Spec
=============================================================================
