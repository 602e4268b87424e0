---------------------------- MODULE StreamProofs ----------------------------
(***************************************************************************)
(* Proofs about Stream, for every set of adapters, capacity of the channel *)
(* and number of upstream events.                                          *)
(***************************************************************************)
EXTENDS Stream, FiniteSetTheorems, TLAPS

AllData(p) == \A i \in 1 .. Len(p) : p[i].kind = "data"
HasDone(p) == \E i \in 1 .. Len(p) : p[i].kind = "done"
NoErr(p)   == \A i \in 1 .. Len(p) : p[i].kind # "err"

(* Chunks p that follow the first n of the prod data chunks made so far:   *)
(* data in order and without gaps, then Done when all were sent, then Err. *)
Numbered(p, n, prod) ==
  /\ \A i \in 1 .. Len(p) : p[i].kind = "data" => p[i].n = n + i
  /\ \A i, j \in 1 .. Len(p) :
       i < j => p[i].kind = "data" \/ (p[i].kind = "done" /\ p[j].kind = "err")
  /\ \A i \in 1 .. Len(p) : p[i].kind = "done" => prod = n + i - 1
  /\ AllData(p) => prod = n + Len(p)

NoUsages(p) == \A i \in 1 .. Len(p) : p[i].usage = NoUsage

\* A handler that has usage h and takes the chunks p is left with usage u.
Drains(p, h, u) ==
  \/ NoUsages(p) /\ h = u
  \/ \E i \in 1 .. Len(p) :
       p[i].usage = u /\ u # NoUsage /\ \A j \in i + 1 .. Len(p) : p[j].usage = NoUsage
-----------------------------------------------------------------------------
\* The chunks on their way from the reader to the handler.
Pipe == ch \o reader.out

DataLines(n) == [k \in 1 .. n |-> [tag |-> "data", n |-> k]]

ReaderInv ==
  /\ reader.pc = "scan" => reader.out = <<>> /\ ~ reader.last
  /\ reader.pc = "send" /\ ~ reader.last => reader.select
  /\ reader.select => ~ reader.last
  /\ reader.pc = "ended" => reader.last /\ reader.out = <<>>
  /\ closed => reader.pc = "ended"
  /\ stopped => proto = "anthropic"
  /\ proto = "anthropic" => lastUsage # NoUsage

\* The adapter has sent on the last usage it will ever report.
Settled == proto = "openai" \/ stopped \/ (proto = "gemini" /\ reader.last)

LoopInv ==
  handler.pc = "loop" =>
    /\ finished = <<>>
    /\ wire = DataLines(Len(wire))
    /\ Numbered(Pipe, Len(wire), produced)
    /\ ~ reader.last => NoErr(Pipe)
    /\ HasDone(Pipe) => IF proto = "anthropic" THEN stopped ELSE reader.last
    /\ Settled /\ (HasDone(Pipe) \/ NoErr(Pipe)) => Drains(Pipe, handler.usage, lastUsage)
    /\ ~ Settled => NoUsages(Pipe) /\ handler.usage = NoUsage

\* How the handler returned: on ctx.Done(), with a success, or with an error.
ReturnedInv ==
  handler.pc = "returned" =>
    \/ finished = <<>> /\ wire = DataLines(Len(wire))
    \/ /\ Len(finished) = 1 /\ finished[1].status = 200
       /\ wire = Append(DataLines(produced), DoneLine)
       /\ reader.last \/ stopped
       /\ (proto = "anthropic" => stopped) => finished[1].usage = lastUsage
    \/ /\ Len(finished) = 1 /\ finished[1].status = 502
       /\ Len(wire) >= 2 /\ wire = DataLines(Len(wire) - 2) \o <<ErrorLine, DoneLine>>

IInv == TypeOK /\ ReaderInv /\ LoopInv /\ ReturnedInv
-----------------------------------------------------------------------------
\* The chunks of a sequence are chunks.
LEMMA ChunkAt ==
  ASSUME NEW p \in Seq(Chunk), NEW i \in 1 .. Len(p)
  PROVE  /\ p[i] \in Chunk /\ p[i].kind \in {"data", "done", "err"}
         /\ p[i].usage \in Usages /\ p[i].n \in Nat
         /\ p[i].kind # "data" => p[i].usage = NoUsage
  <1>1. p[i] \in Chunk
    OBVIOUS
  <1>2. NoUsage \in Usages
    BY StreamAssumption DEF Usages, NoUsage
  <1>3. QED
    BY <1>1, <1>2 DEF Chunk, Done, Err

\* Taking a data chunk from the front.
LEMMA NumberedTail ==
  ASSUME NEW p \in Seq(Chunk), p # <<>>, NEW n \in Nat, NEW prod \in Nat,
         Numbered(p, n, prod), Head(p).kind = "data"
  PROVE  Numbered(Tail(p), n + 1, prod) /\ Head(p).n = n + 1
  <1>1. /\ Len(p) \in Nat \ {0} /\ Len(Tail(p)) = Len(p) - 1 /\ Head(p) = p[1]
        /\ \A i \in 1 .. Len(p) - 1 : Tail(p)[i] = p[i + 1]
    OBVIOUS
  <1>2. Head(p).n = n + 1
    BY <1>1 DEF Numbered
  <1>3. \A i \in 1 .. Len(Tail(p)) : Tail(p)[i].kind = "data" => Tail(p)[i].n = n + 1 + i
    BY <1>1 DEF Numbered
  <1>4. \A i, j \in 1 .. Len(Tail(p)) : i < j =>
          Tail(p)[i].kind = "data" \/ (Tail(p)[i].kind = "done" /\ Tail(p)[j].kind = "err")
    BY <1>1 DEF Numbered
  <1>5. \A i \in 1 .. Len(Tail(p)) : Tail(p)[i].kind = "done" => prod = n + 1 + i - 1
    <2> SUFFICES ASSUME NEW i \in 1 .. Len(p) - 1, p[i + 1].kind = "done"
                 PROVE  prod = n + 1 + i - 1
      BY <1>1
    <2>1. i + 1 \in 1 .. Len(p)
      BY <1>1
    <2>2. prod = n + (i + 1) - 1
      BY <2>1 DEF Numbered
    <2>3. QED
      BY <2>2
  <1>6. AllData(Tail(p)) => prod = n + 1 + Len(Tail(p))
    <2> SUFFICES ASSUME AllData(Tail(p)) PROVE prod = n + 1 + Len(Tail(p))
      OBVIOUS
    <2>1. ASSUME NEW i \in 1 .. Len(p) PROVE p[i].kind = "data"
      <3>1. CASE i = 1
        BY <1>1, <3>1
      <3>2. CASE i # 1
        <4>1. i - 1 \in 1 .. Len(Tail(p)) /\ Tail(p)[i - 1] = p[i]
          BY <1>1, <3>2
        <4>2. QED
          BY <4>1 DEF AllData
      <3>3. QED
        BY <3>1, <3>2
    <2>2. AllData(p)
      BY <2>1 DEF AllData
    <2>3. QED
      BY <1>1, <2>2 DEF Numbered
  <1>7. QED
    BY <1>2, <1>3, <1>4, <1>5, <1>6 DEF Numbered

\* What may be put at the end.
LEMMA NumberedAppend ==
  ASSUME NEW p \in Seq(Chunk), NEW n \in Nat, NEW prod \in Nat, NEW u, Numbered(p, n, prod)
  PROVE  /\ AllData(p) => /\ Numbered(Append(p, Data(prod + 1, u)), n, prod + 1)
                          /\ AllData(Append(p, Data(prod + 1, u)))
         /\ AllData(p) => Numbered(Append(p, Done), n, prod)
         /\ NoErr(p) => Numbered(Append(p, Err), n, prod)
  <1>1. \A c : /\ Len(Append(p, c)) = Len(p) + 1 /\ Append(p, c)[Len(p) + 1] = c
               /\ \A i \in 1 .. Len(p) : Append(p, c)[i] = p[i]
    OBVIOUS
  <1>2. /\ Len(p) \in Nat
        /\ \A i \in 1 .. Len(p) : p[i].kind \in {"data", "done", "err"}
    BY ChunkAt
  <1>3. /\ Data(prod + 1, u).kind = "data" /\ Data(prod + 1, u).n = prod + 1
        /\ Done.kind = "done" /\ Err.kind = "err"
    BY DEF Data, Done, Err
  <1>4. ASSUME AllData(p)
        PROVE  /\ Numbered(Append(p, Data(prod + 1, u)), n, prod + 1)
               /\ AllData(Append(p, Data(prod + 1, u)))
    <2>1. prod = n + Len(p)
      BY <1>4 DEF Numbered
    <2>2. PICK q : q = Append(p, Data(prod + 1, u))
      BY Zenon
    <2>3. /\ Len(q) = Len(p) + 1 /\ q[Len(p) + 1].kind = "data" /\ q[Len(p) + 1].n = prod + 1
          /\ \A i \in 1 .. Len(p) : q[i] = p[i]
      BY <1>1, <1>3, <2>2
    <2>4. AllData(q)
      BY <1>2, <1>4, <2>3 DEF AllData
    <2>5. \A i \in 1 .. Len(q) : q[i].n = n + i
      <3>1. \A i \in 1 .. Len(p) : p[i].n = n + i
        BY <1>4 DEF Numbered, AllData
      <3>2. \A i \in 1 .. Len(q) : i \in 1 .. Len(p) \/ i = Len(p) + 1
        BY <1>2, <2>3
      <3>3. q[Len(p) + 1].n = n + (Len(p) + 1)
        BY <1>2, <2>1, <2>3
      <3>4. QED
        BY <2>3, <3>1, <3>2, <3>3, Zenon
    <2>6. Numbered(q, n, prod + 1)
      BY <1>2, <2>1, <2>3, <2>4, <2>5 DEF Numbered, AllData
    <2>7. QED
      BY <2>2, <2>4, <2>6
  <1>5. ASSUME AllData(p) PROVE Numbered(Append(p, Done), n, prod)
    <2>1. prod = n + Len(p)
      BY <1>5 DEF Numbered
    <2>2. PICK q : q = Append(p, Done)
      BY Zenon
    <2>3. /\ Len(q) = Len(p) + 1 /\ q[Len(p) + 1].kind = "done"
          /\ \A i \in 1 .. Len(p) : q[i] = p[i] /\ q[i].kind = "data" /\ q[i].n = n + i
      BY <1>1, <1>3, <1>5, <2>2 DEF AllData, Numbered
    <2>4. ~ AllData(q)
      BY <1>2, <2>3 DEF AllData
    <2>5. \A i \in 1 .. Len(q) : q[i].kind = "done" => i = Len(p) + 1
      BY <1>2, <2>3
    <2>6. \A i \in 1 .. Len(q) : i \in 1 .. Len(p) \/ i = Len(p) + 1
      BY <1>2, <2>3
    <2>7. \A i, j \in 1 .. Len(q) : i < j => q[i].kind = "data"
      BY <1>2, <2>3, <2>6
    <2>8. \A i \in 1 .. Len(q) : q[i].kind = "data" => q[i].n = n + i
      BY <2>3, <2>6
    <2>9. \A i \in 1 .. Len(q) : q[i].kind = "done" => prod = n + i - 1
      BY <1>2, <2>1, <2>5
    <2>10. Numbered(q, n, prod)
      BY <2>4, <2>7, <2>8, <2>9 DEF Numbered
    <2>11. QED
      BY <2>2, <2>10
  <1>6. ASSUME NoErr(p) PROVE Numbered(Append(p, Err), n, prod)
    <2>1. PICK q : q = Append(p, Err)
      BY Zenon
    <2>2. /\ Len(q) = Len(p) + 1 /\ q[Len(p) + 1].kind = "err"
          /\ \A i \in 1 .. Len(p) : q[i] = p[i] /\ p[i].kind \in {"data", "done"}
      BY <1>1, <1>2, <1>3, <1>6, <2>1 DEF NoErr
    <2>3. ~ AllData(q)
      BY <1>2, <2>2 DEF AllData
    <2>4. \A i \in 1 .. Len(q) : q[i].kind # "err" => i \in 1 .. Len(p)
      BY <1>2, <2>2
    <2>5. Numbered(q, n, prod)
      <3>1. \A i, j \in 1 .. Len(q) : i < j => i \in 1 .. Len(p)
        BY <1>2, <2>2
      <3>2. \A j \in 1 .. Len(q) : j \in 1 .. Len(p) \/ q[j].kind = "err"
        BY <1>2, <2>2
      <3>3. \A i, j \in 1 .. Len(q) : i < j =>
              q[i].kind = "data" \/ (q[i].kind = "done" /\ q[j].kind = "err")
        BY <2>2, <3>1, <3>2 DEF Numbered
      <3>4. \A i \in 1 .. Len(q) : q[i].kind = "data" => q[i].n = n + i
        BY <2>2, <3>2 DEF Numbered
      <3>5. \A i \in 1 .. Len(q) : q[i].kind = "done" => prod = n + i - 1
        BY <2>2, <3>2 DEF Numbered
      <3>6. QED
        BY <2>3, <3>3, <3>4, <3>5, Zenon DEF Numbered
    <2>6. QED
      BY <2>1, <2>5
  <1>7. QED
    BY <1>4, <1>5, <1>6

\* A reader that gives up: what it did not send is replaced by Err.
LEMMA NumberedCut ==
  ASSUME NEW p \in Seq(Chunk), NEW q \in Seq(Chunk), NEW n \in Nat, NEW prod \in Nat,
         Numbered(p \o q, n, prod), NoErr(p)
  PROVE  Numbered(Append(p, Err), n, prod)
  <1>1. PICK e, c : e = Append(p, Err) /\ c = p \o q
    BY Zenon
  <1>2. /\ Len(p) \in Nat /\ Len(e) = Len(p) + 1 /\ e[Len(p) + 1] = Err /\ Err.kind = "err"
        /\ Len(c) >= Len(p)
        /\ \A i \in 1 .. Len(p) : e[i] = p[i] /\ c[i] = p[i] /\ i \in 1 .. Len(c)
    BY <1>1 DEF Err
  <1>3. \A i \in 1 .. Len(p) : p[i].kind \in {"data", "done"}
    BY ChunkAt DEF NoErr
  <1>4. ~ AllData(e)
    BY <1>2 DEF AllData
  <1>5. \A i \in 1 .. Len(e) : e[i].kind # "err" => i \in 1 .. Len(p)
    BY <1>2
  <1>6. Numbered(c, n, prod)
    BY <1>1
  <1>7. \A i \in 1 .. Len(p) : /\ p[i].kind = "data" => p[i].n = n + i
                               /\ p[i].kind = "done" => prod = n + i - 1
    BY <1>2, <1>6 DEF Numbered
  <1>8. \A i, j \in 1 .. Len(p) : i < j => p[i].kind = "data"
    <2> SUFFICES ASSUME NEW i \in 1 .. Len(p), NEW j \in 1 .. Len(p), i < j PROVE p[i].kind = "data"
      OBVIOUS
    <2>1. c[i].kind = "data" \/ c[j].kind = "err"
      BY <1>2, <1>6 DEF Numbered
    <2>2. QED
      BY <1>2, <1>3, <2>1
  <1>9. \A i, j \in 1 .. Len(e) :
          i < j => e[i].kind = "data" \/ (e[i].kind = "done" /\ e[j].kind = "err")
    <2>1. \A i \in 1 .. Len(e) : i \in 1 .. Len(p) \/ (i = Len(p) + 1 /\ e[i].kind = "err")
      BY <1>2
    <2>2. \A i, j \in 1 .. Len(e) : i < j => i \in 1 .. Len(p)
      BY <1>2
    <2>3. QED
      BY <1>2, <1>3, <1>8, <2>1, <2>2
  <1>10. Numbered(e, n, prod)
    BY <1>2, <1>4, <1>5, <1>7, <1>9, Zenon DEF Numbered
  <1>11. QED
    BY <1>1, <1>10

\* What the handler knows after it took a chunk, and after one was added.
LEMMA DrainsTail ==
  ASSUME NEW p \in Seq(Chunk), p # <<>>, NEW h, NEW u, Drains(p, h, u)
  PROVE  Drains(Tail(p), IF Head(p).usage # NoUsage THEN Head(p).usage ELSE h, u)
  <1>1. /\ Len(p) \in Nat \ {0} /\ Len(Tail(p)) = Len(p) - 1 /\ Head(p) = p[1]
        /\ \A i \in 1 .. Len(p) - 1 : Tail(p)[i] = p[i + 1]
    OBVIOUS
  <1>2. CASE NoUsages(p) /\ h = u
    <2>1. NoUsages(Tail(p)) /\ Head(p).usage = NoUsage
      BY <1>1, <1>2 DEF NoUsages
    <2>2. QED
      BY <1>2, <2>1 DEF Drains
  <1>3. ASSUME NEW i \in 1 .. Len(p), p[i].usage = u, u # NoUsage,
               \A j \in i + 1 .. Len(p) : p[j].usage = NoUsage
        PROVE  Drains(Tail(p), IF Head(p).usage # NoUsage THEN Head(p).usage ELSE h, u)
    <2>1. CASE i = 1
      <3>1. \A j \in 1 .. Len(Tail(p)) : Tail(p)[j].usage = NoUsage
        BY <1>1, <1>3, <2>1
      <3>2. QED
        BY <1>1, <1>3, <2>1, <3>1 DEF Drains, NoUsages
    <2>2. CASE i # 1
      <3>1. i - 1 \in 1 .. Len(Tail(p)) /\ Tail(p)[i - 1].usage = u
        BY <1>1, <1>3, <2>2
      <3>2. \A j \in (i - 1) + 1 .. Len(Tail(p)) : Tail(p)[j].usage = NoUsage
        BY <1>1, <1>3, <2>2
      <3>3. QED
        BY <1>3, <3>1, <3>2 DEF Drains
    <2>3. QED
      BY <2>1, <2>2
  <1>4. QED
    BY <1>2, <1>3 DEF Drains

\* A usage at the end is the one that counts.
LEMMA DrainsAppend ==
  ASSUME NEW p \in Seq(Chunk), NEW h, NEW u, NEW c
  PROVE  /\ c.usage # NoUsage => Drains(Append(p, c), h, c.usage)
         /\ c.usage = NoUsage /\ Drains(p, h, u) => Drains(Append(p, c), h, u)
         /\ c.usage = NoUsage /\ NoUsages(p) => NoUsages(Append(p, c))
  <1>1. PICK q : q = Append(p, c)
    BY Zenon
  <1>2. /\ Len(p) \in Nat /\ Len(q) = Len(p) + 1 /\ q[Len(p) + 1] = c
        /\ \A i \in 1 .. Len(p) : q[i] = p[i]
        /\ \A i \in 1 .. Len(q) : i \in 1 .. Len(p) \/ i = Len(p) + 1
    BY <1>1
  <1>3. ASSUME c.usage # NoUsage PROVE Drains(q, h, c.usage)
    <2>1. Len(p) + 1 \in 1 .. Len(q) /\ (Len(p) + 1) + 1 .. Len(q) = {}
      BY <1>2
    <2>2. QED
      BY <1>2, <1>3, <2>1 DEF Drains
  <1>4. c.usage = NoUsage /\ NoUsages(p) => NoUsages(q)
    BY <1>2 DEF NoUsages
  <1>5. ASSUME c.usage = NoUsage, Drains(p, h, u) PROVE Drains(q, h, u)
    <2>1. CASE NoUsages(p) /\ h = u
      BY <1>4, <1>5, <2>1 DEF Drains
    <2>2. ASSUME NEW i \in 1 .. Len(p), p[i].usage = u, u # NoUsage,
                 \A j \in i + 1 .. Len(p) : p[j].usage = NoUsage
          PROVE  Drains(q, h, u)
      <3>1. i \in 1 .. Len(q) /\ q[i].usage = u
        BY <1>2, <2>2
      <3>2. \A j \in i + 1 .. Len(q) : j \in i + 1 .. Len(p) \/ j = Len(p) + 1
        BY <1>2
      <3>3. \A j \in i + 1 .. Len(p) : q[j] = p[j]
        BY <1>2
      <3>4. QED
        BY <1>2, <1>5, <2>2, <3>1, <3>2, <3>3 DEF Drains
    <2>3. QED
      BY <1>5, <2>1, <2>2 DEF Drains
  <1>6. QED
    BY <1>1, <1>3, <1>4, <1>5

\* What is on its way: sending moves a chunk from the reader to the channel.
LEMMA PipeFacts ==
  ASSUME NEW c \in Seq(Chunk)
  PROVE  /\ c \o <<>> = c
         /\ \A x \in Chunk : c \o <<x>> = Append(c, x)
         /\ \A x, y \in Chunk : c \o <<x, y>> = Append(Append(c, x), y)
         /\ \A x, y, z \in Chunk : c \o <<x, y, z>> = Append(Append(Append(c, x), y), z)
         /\ \A o \in Seq(Chunk) : o # <<>> => Append(c, Head(o)) \o Tail(o) = c \o o
         /\ \A o \in Seq(Chunk) : c # <<>> => Tail(c \o o) = Tail(c) \o o /\ Head(c \o o) = Head(c)
  <1>1. c \o <<>> = c
    OBVIOUS
  <1>2. \A x \in Chunk : c \o <<x>> = Append(c, x)
    OBVIOUS
  <1>3. \A x, y \in Chunk : c \o <<x, y>> = Append(Append(c, x), y)
    OBVIOUS
  <1>4. \A x, y, z \in Chunk : c \o <<x, y, z>> = Append(Append(Append(c, x), y), z)
    OBVIOUS
  <1>5. \A o \in Seq(Chunk) : o # <<>> => Append(c, Head(o)) \o Tail(o) = c \o o
    OBVIOUS
  <1>6. \A o \in Seq(Chunk) : c # <<>> => Tail(c \o o) = Tail(c) \o o /\ Head(c \o o) = Head(c)
    OBVIOUS
  <1>7. QED
    BY <1>1, <1>2, <1>3, <1>4, <1>5, <1>6, Zenon
-----------------------------------------------------------------------------
\* The chunks that the reader makes.
LEMMA NewChunks ==
  /\ Done \in Chunk /\ Done.kind = "done" /\ Done.usage = NoUsage
  /\ Err \in Chunk /\ Err.kind = "err" /\ Err.usage = NoUsage
  /\ \A n \in Nat, u \in Usages :
       /\ Data(n, u) \in Chunk /\ Data(n, u).kind = "data" /\ Data(n, u).usage = u
  /\ NoUsage \in Usages /\ \A u \in 0 .. MaxEvents : u \in Usages /\ u # NoUsage
  BY StreamAssumption DEF Chunk, Data, Done, Err, Usages, NoUsage

\* The inductive invariant holds at first.
LEMMA InitIInv == Init => IInv
  <1> SUFFICES ASSUME Init PROVE IInv
    OBVIOUS
  <1>1. TypeOK
    <2>1. 0 \in Usages /\ NoUsage \in Usages /\ 0 \in 0 .. MaxEvents
      BY StreamAssumption, NewChunks
    <2>2. /\ <<>> \in Seq(Chunk) /\ Len(<<>>) <= Cap
          /\ <<>> \in Seq([tag : {"data", "error", "[DONE]"}, n : Nat])
          /\ <<>> \in Seq([status : {200, 502}, usage : Usages])
      BY StreamAssumption
    <2>3. QED
      BY <2>1, <2>2, Zenon DEF Init, TypeOK
  <1>2. ReaderInv
    BY DEF Init, ReaderInv, NoUsage
  <1>3. LoopInv
    <2>1. Pipe = <<>> /\ Len(<<>>) = 0
      BY DEF Init, Pipe
    <2>2. wire = DataLines(Len(wire))
      BY DEF Init, DataLines
    <2>3. QED
      BY <2>1, <2>2 DEF Init, LoopInv, Numbered, AllData, NoErr, HasDone, Drains, NoUsages, Settled
  <1>4. QED
    BY <1>1, <1>2, <1>3 DEF Init, IInv, ReturnedInv

(* A stream that the handler has returned from stays as it is, because a   *)
(* reader that ended its stream makes no more chunks.                      *)
LEMMA ReturnedFrame ==
  ASSUME ReturnedInv, UNCHANGED <<proto, handler, wire, finished>>,
         reader.last \/ stopped => /\ UNCHANGED <<produced, lastUsage, stopped>>
                                   /\ reader'.last \/ stopped'
  PROVE  ReturnedInv'
  BY Zenon DEF ReturnedInv, DataLines

\* The reader between two lines: all it made is in the channel.
LEMMA AtScan ==
  ASSUME IInv, reader.pc = "scan"
  PROVE  /\ reader.out = <<>> /\ ~ reader.last /\ Pipe = ch /\ ch \in Seq(Chunk)
         /\ handler.pc = "loop" =>
              /\ NoErr(ch) /\ Numbered(ch, Len(wire), produced)
              /\ ~ stopped => AllData(ch)
              /\ Settled => Drains(ch, handler.usage, lastUsage)
              /\ ~ Settled => NoUsages(ch) /\ handler.usage = NoUsage
  <1>1. reader.out = <<>> /\ ~ reader.last /\ ch \in Seq(Chunk) /\ Pipe = ch
    BY PipeFacts DEF IInv, ReaderInv, TypeOK, Pipe
  <1>2. ASSUME handler.pc = "loop"
        PROVE  /\ NoErr(ch) /\ Numbered(ch, Len(wire), produced)
               /\ ~ stopped => AllData(ch)
               /\ Settled => Drains(ch, handler.usage, lastUsage)
               /\ ~ Settled => NoUsages(ch) /\ handler.usage = NoUsage
    <2>1. NoErr(ch) /\ Numbered(ch, Len(wire), produced)
      BY <1>1, <1>2 DEF IInv, LoopInv
    <2>2. ASSUME ~ stopped PROVE AllData(ch)
      <3>1. ~ HasDone(ch)
        BY <1>1, <1>2, <2>2 DEF IInv, LoopInv
      <3>2. QED
        BY <1>1, <2>1, <3>1, ChunkAt DEF NoErr, HasDone, AllData
    <2>3. QED
      BY <1>1, <1>2, <2>1, <2>2 DEF IInv, LoopInv
  <1>3. QED
    BY <1>1, <1>2

\* Data has neither error nor end.
LEMMA DataOnly ==
  ASSUME NEW p, AllData(p)
  PROVE  NoErr(p) /\ ~ HasDone(p)
  BY DEF AllData, NoErr, HasDone

\* A piece of the answer.
LEMMA ReadTextInv ==
  ASSUME IInv, NEW withUsage \in BOOLEAN, ReadText(withUsage)
  PROVE  IInv'
  <1> DEFINE u == IF withUsage THEN events + 1 ELSE NoUsage
             x == IF proto = "openai" THEN u ELSE NoUsage
             d == Data(produced + 1, x)
  <1>1. /\ reader.pc = "scan" /\ ~ stopped /\ events' = events + 1 /\ produced' = produced + 1
        /\ lastUsage' = IF withUsage THEN u ELSE lastUsage
        /\ reader' = [pc |-> "send", out |-> <<d>>, select |-> TRUE, last |-> FALSE]
        /\ events < MaxEvents
        /\ UNCHANGED <<proto, stopped, ch, closed, cancelled, handler, wire, finished>>
    BY DEF ReadText, CanRead, Emit
  <1>2. TypeOK /\ ReaderInv
    BY DEF IInv
  <1>3. /\ u \in Usages /\ x \in Usages /\ (withUsage => u # NoUsage)
        /\ events + 1 \in 0 .. MaxEvents /\ produced \in Nat /\ produced + 1 \in Nat
    <2>1. events + 1 \in 0 .. MaxEvents /\ produced \in Nat
      BY <1>1, <1>2, StreamAssumption DEF TypeOK
    <2>2. QED
      BY <2>1, NewChunks
  <1>4. d \in Chunk /\ d.kind = "data" /\ d.usage = x
    BY <1>3, NewChunks
  <1> HIDE DEF u, x, d
  <1>5. TypeOK'
    <2>1. <<d>> \in Seq(Chunk)
      BY <1>4
    <2>2. lastUsage' \in Usages
      BY <1>1, <1>2, <1>3 DEF TypeOK
    <2>3. QED
      BY <1>1, <1>2, <1>3, <2>1, <2>2 DEF TypeOK
  <1>6. ReaderInv'
    BY <1>1, <1>2, <1>3 DEF ReaderInv
  <1>7. ReturnedInv'
    BY <1>1, <1>2, ReturnedFrame DEF IInv, ReaderInv
  <1>8. LoopInv'
    <2> SUFFICES ASSUME handler.pc = "loop" PROVE LoopInv'
      BY <1>1 DEF LoopInv
    <2>1. /\ ch \in Seq(Chunk) /\ AllData(ch) /\ Numbered(ch, Len(wire), produced) /\ NoErr(ch)
          /\ Settled => Drains(ch, handler.usage, lastUsage)
          /\ ~ Settled => NoUsages(ch) /\ handler.usage = NoUsage
          /\ ~ reader.last /\ Len(wire) \in Nat
      BY <1>1, <1>2, AtScan DEF TypeOK
    <2>2. PICK p : p = Append(ch, d)
      BY Zenon
    <2>3. Pipe' = p
      BY <1>1, <1>4, <2>1, <2>2, PipeFacts DEF Pipe
    <2>4. Numbered(p, Len(wire), produced + 1) /\ AllData(p)
      BY <1>3, <2>1, <2>2, NumberedAppend DEF d
    <2>5. NoErr(p) /\ ~ HasDone(p)
      BY <2>4, DataOnly
    <2>6. Settled' = Settled /\ (Settled = (proto = "openai"))
      BY <1>1, <2>1 DEF Settled
    <2>7. Settled => Drains(p, handler.usage, lastUsage')
      BY <1>1, <1>3, <1>4, <2>1, <2>2, <2>6, DrainsAppend, Zenon DEF x, u
    <2>8. ~ Settled => NoUsages(p) /\ handler.usage = NoUsage
      BY <1>4, <2>1, <2>2, <2>6, DrainsAppend, Zenon DEF x
    <2>9. finished = <<>> /\ wire = DataLines(Len(wire))
      BY DEF IInv, LoopInv
    <2>10. QED
      BY <1>1, <2>3, <2>4, <2>5, <2>6, <2>7, <2>8, <2>9 DEF LoopInv, DataLines
  <1>9. QED
    BY <1>5, <1>6, <1>7, <1>8 DEF IInv

\* A line that yields no chunk.
LEMMA ReadSilentInv ==
  ASSUME IInv, NEW withUsage \in BOOLEAN, ReadSilent(withUsage)
  PROVE  IInv'
  <1>1. /\ reader.pc = "scan" /\ ~ stopped /\ events < MaxEvents /\ events' = events + 1
        /\ withUsage => proto # "openai"
        /\ lastUsage' = IF withUsage THEN events + 1 ELSE lastUsage
        /\ UNCHANGED <<proto, produced, stopped, reader, ch, closed, cancelled, handler, wire,
                       finished>>
    BY DEF ReadSilent, CanRead
  <1>2. TypeOK /\ ReaderInv
    BY DEF IInv
  <1>3. events + 1 \in 0 .. MaxEvents /\ events + 1 \in Usages /\ events + 1 # NoUsage
    <2>1. events + 1 \in 0 .. MaxEvents
      BY <1>1, <1>2, StreamAssumption DEF TypeOK
    <2>2. QED
      BY <2>1, NewChunks
  <1>4. TypeOK'
    BY <1>1, <1>2, <1>3 DEF TypeOK
  <1>5. ReaderInv'
    BY <1>1, <1>2, <1>3 DEF ReaderInv
  <1>6. ReturnedInv'
    BY <1>1, <1>2, ReturnedFrame DEF IInv, ReaderInv
  <1>7. LoopInv'
    <2>1. Pipe' = Pipe /\ Settled' = Settled
      BY <1>1 DEF Pipe, Settled
    <2>2. Settled => proto = "openai"
      BY <1>1, <1>2 DEF Settled, ReaderInv
    <2>3. QED
      BY <1>1, <2>1, <2>2 DEF IInv, LoopInv, DataLines
  <1>8. QED
    BY <1>4, <1>5, <1>6, <1>7 DEF IInv

\* The reader is about to return and sends the chunks of out first.
LEMMA LastChunks ==
  ASSUME IInv, NEW out \in Seq(Chunk), EmitAndReturn(out),
         reader.pc = "scan" \/ (reader.pc = "send" /\ reader.select),
         UNCHANGED <<proto, events, stopped, lastUsage, ch, closed, cancelled, handler, wire, finished>>,
         produced' \in Nat, reader.last \/ stopped => produced' = produced
  PROVE  /\ TypeOK' /\ ReaderInv' /\ ReturnedInv'
         /\ reader'.out = out /\ reader'.last /\ Pipe' = ch \o out
         /\ Settled' <=> (Settled \/ proto = "gemini")
  <1>1. reader' = [pc |-> "send", out |-> out, select |-> FALSE, last |-> TRUE]
    BY DEF EmitAndReturn
  <1>2. TypeOK /\ ReaderInv
    BY DEF IInv
  <1>3. TypeOK'
    BY <1>1, <1>2 DEF TypeOK
  <1>4. ReaderInv'
    BY <1>1, <1>2 DEF ReaderInv
  <1>5. ReturnedInv'
    BY <1>1, ReturnedFrame DEF IInv
  <1>6. Pipe' = ch \o out
    BY <1>1 DEF Pipe
  <1>7. Settled' <=> (Settled \/ proto = "gemini")
    BY <1>1 DEF Settled
  <1>8. QED
    BY <1>1, <1>3, <1>4, <1>5, <1>6, <1>7

\* "[DONE]" of openai.
LEMMA ReadDoneInv == IInv /\ ReadDone => IInv'
  <1> SUFFICES ASSUME IInv, ReadDone PROVE IInv'
    OBVIOUS
  <1>1. /\ reader.pc = "scan" /\ ~ stopped /\ proto = "openai" /\ events' = events + 1
        /\ events < MaxEvents /\ EmitAndReturn(<<Done>>)
        /\ UNCHANGED <<proto, produced, stopped, lastUsage, ch, closed, cancelled, handler, wire,
                       finished>>
    BY DEF ReadDone, CanRead
  <1>2. TypeOK /\ ReaderInv
    BY DEF IInv
  <1>3. reader' = [pc |-> "send", out |-> <<Done>>, select |-> FALSE, last |-> TRUE]
    BY <1>1 DEF EmitAndReturn
  <1>4. TypeOK'
    <2>1. <<Done>> \in Seq(Chunk)
      BY NewChunks
    <2>2. events + 1 \in 0 .. MaxEvents
      BY <1>1, <1>2, StreamAssumption DEF TypeOK
    <2>3. QED
      BY <1>1, <1>2, <1>3, <2>1, <2>2 DEF TypeOK
  <1>5. ReaderInv'
    BY <1>1, <1>2, <1>3 DEF ReaderInv
  <1>6. ReturnedInv'
    BY <1>1, <1>2, ReturnedFrame DEF IInv, ReaderInv
  <1>7. LoopInv'
    <2> SUFFICES ASSUME handler.pc = "loop" PROVE LoopInv'
      BY <1>1 DEF LoopInv
    <2>1. /\ ch \in Seq(Chunk) /\ AllData(ch) /\ Numbered(ch, Len(wire), produced)
          /\ Drains(ch, handler.usage, lastUsage) /\ Len(wire) \in Nat /\ produced \in Nat
      BY <1>1, <1>2, AtScan DEF TypeOK, Settled
    <2>2. PICK p : p = Append(ch, Done)
      BY Zenon
    <2>3. Pipe' = p
      BY <1>1, <1>3, <2>1, <2>2, NewChunks, PipeFacts DEF Pipe
    <2>4. Numbered(p, Len(wire), produced) /\ Drains(p, handler.usage, lastUsage)
      BY <2>1, <2>2, NumberedAppend, DrainsAppend, NewChunks, Zenon
    <2>5. finished = <<>> /\ wire = DataLines(Len(wire))
      BY DEF IInv, LoopInv
    <2>6. Settled' /\ reader'.last
      BY <1>1, <1>3 DEF Settled
    <2>7. QED
      BY <1>1, <2>3, <2>4, <2>5, <2>6 DEF LoopInv, DataLines
  <1>8. QED
    BY <1>4, <1>5, <1>6, <1>7 DEF IInv

\* message_stop of anthropic: the usage is settled.
LEMMA ReadStopInv == IInv /\ ReadStop => IInv'
  <1> SUFFICES ASSUME IInv, ReadStop PROVE IInv'
    OBVIOUS
  <1> DEFINE d1 == Data(produced + 1, NoUsage)
             d2 == Data(produced + 2, lastUsage)
  <1>1. /\ reader.pc = "scan" /\ ~ stopped /\ proto = "anthropic" /\ events' = events + 1
        /\ events < MaxEvents /\ stopped' = TRUE /\ produced' = produced + 2
        /\ reader' = [pc |-> "send", out |-> <<d1, d2, Done>>, select |-> TRUE, last |-> FALSE]
        /\ UNCHANGED <<proto, lastUsage, ch, closed, cancelled, handler, wire, finished>>
    BY DEF ReadStop, CanRead, Emit
  <1>2. TypeOK /\ ReaderInv
    BY DEF IInv
  <1>3. /\ produced \in Nat /\ produced + 1 \in Nat /\ produced + 2 \in Nat
        /\ lastUsage \in Usages /\ lastUsage # NoUsage /\ produced + 2 = (produced + 1) + 1
    BY <1>1, <1>2 DEF TypeOK, ReaderInv
  <1>4. /\ d1 \in Chunk /\ d1.kind = "data" /\ d1.usage = NoUsage
        /\ d2 \in Chunk /\ d2.kind = "data" /\ d2.usage = lastUsage
    BY <1>3, NewChunks
  <1>5. d2 = Data((produced + 1) + 1, lastUsage)
    BY <1>3
  <1> HIDE DEF d1, d2
  <1>6. TypeOK'
    <2>1. <<d1, d2, Done>> \in Seq(Chunk)
      BY <1>4, NewChunks
    <2>2. events + 1 \in 0 .. MaxEvents
      BY <1>1, <1>2, StreamAssumption DEF TypeOK
    <2>3. QED
      BY <1>1, <1>2, <1>3, <2>1, <2>2 DEF TypeOK
  <1>7. ReaderInv'
    BY <1>1, <1>2 DEF ReaderInv
  <1>8. ReturnedInv'
    BY <1>1, <1>2, ReturnedFrame, Zenon DEF IInv, ReaderInv
  <1>9. LoopInv'
    <2> SUFFICES ASSUME handler.pc = "loop" PROVE LoopInv'
      BY <1>1 DEF LoopInv
    <2>1. /\ ch \in Seq(Chunk) /\ AllData(ch) /\ Numbered(ch, Len(wire), produced)
          /\ Len(wire) \in Nat
      BY <1>1, <1>2, AtScan DEF TypeOK
    <2>2. PICK p, q, e : p = Append(ch, d1) /\ q = Append(p, d2) /\ e = Append(q, Done)
      BY Zenon
    <2>3. Pipe' = e
      BY <1>1, <1>4, <2>1, <2>2, NewChunks, PipeFacts DEF Pipe
    <2>4. p \in Seq(Chunk) /\ Numbered(p, Len(wire), produced + 1) /\ AllData(p)
      BY <1>3, <1>4, <2>1, <2>2, NumberedAppend DEF d1
    <2>5. q \in Seq(Chunk) /\ Numbered(q, Len(wire), produced + 2) /\ AllData(q)
      <3>1. q \in Seq(Chunk)
        BY <1>4, <2>2, <2>4
      <3>2. PICK m : m = produced + 1
        OBVIOUS
      <3>3. m \in Nat /\ Numbered(p, Len(wire), m) /\ q = Append(p, Data(m + 1, lastUsage))
        BY <1>3, <1>5, <2>2, <2>4, <3>2
      <3>4. Numbered(q, Len(wire), m + 1) /\ AllData(q)
        BY <2>1, <2>4, <3>3, NumberedAppend
      <3>5. QED
        BY <1>3, <3>1, <3>2, <3>4
    <2>6. Numbered(e, Len(wire), produced + 2)
      BY <1>3, <2>1, <2>2, <2>5, NumberedAppend, Zenon
    <2>7. Drains(e, handler.usage, lastUsage)
      BY <1>3, <1>4, <2>2, <2>4, <2>5, DrainsAppend, NewChunks, Zenon
    <2>8. NoErr(e)
      <3>1. NoErr(q)
        BY <2>5, DataOnly
      <3>2. QED
        BY <2>2, <2>5, <3>1, NewChunks DEF NoErr
    <2>9. finished = <<>> /\ wire = DataLines(Len(wire))
      BY DEF IInv, LoopInv
    <2>10. Settled'
      BY <1>1 DEF Settled
    <2>11. QED
      BY <1>1, <2>3, <2>6, <2>7, <2>8, <2>9, <2>10 DEF LoopInv, DataLines
  <1>10. QED
    BY <1>6, <1>7, <1>8, <1>9 DEF IInv

\* The body ends.
LEMMA ReadEOFInv == IInv /\ ReadEOF => IInv'
  <1> SUFFICES ASSUME IInv, ReadEOF PROVE IInv'
    OBVIOUS
  <1>1. /\ reader.pc = "scan"
        /\ UNCHANGED <<proto, events, stopped, lastUsage, ch, closed, cancelled, handler, wire, finished>>
    BY DEF ReadEOF
  <1>2. TypeOK /\ ReaderInv /\ produced \in Nat /\ lastUsage \in Usages /\ Len(wire) \in Nat
    BY DEF IInv, TypeOK
  <1>3. ~ reader.last /\ ch \in Seq(Chunk)
    BY <1>1, AtScan
  <1>4. handler.pc = "loop" => finished = <<>> /\ wire = DataLines(Len(wire))
    BY DEF IInv, LoopInv
  <1>5. CASE proto # "gemini"
    <2>1. EmitAndReturn(<<>>) /\ produced' = produced /\ <<>> \in Seq(Chunk)
      BY <1>5 DEF ReadEOF
    <2>2. /\ TypeOK' /\ ReaderInv' /\ ReturnedInv' /\ reader'.last /\ Pipe' = ch \o <<>>
          /\ Settled' <=> Settled
      BY <1>1, <1>2, <1>5, <2>1, LastChunks, Zenon
    <2>3. Pipe' = Pipe
      BY <1>1, <2>2, AtScan, PipeFacts
    <2>4. LoopInv'
      BY <1>1, <2>1, <2>2, <2>3 DEF IInv, LoopInv, DataLines
    <2>5. QED
      BY <2>2, <2>4 DEF IInv
  <1>6. CASE proto = "gemini" /\ lastUsage = NoUsage
    <2>1. EmitAndReturn(<<Done>>) /\ produced' = produced /\ <<Done>> \in Seq(Chunk)
      BY <1>6, NewChunks DEF ReadEOF
    <2>2. /\ TypeOK' /\ ReaderInv' /\ ReturnedInv' /\ reader'.last /\ Pipe' = ch \o <<Done>>
          /\ Settled'
      BY <1>1, <1>2, <1>6, <2>1, LastChunks, Zenon
    <2>3. ASSUME handler.pc = "loop"
          PROVE  Numbered(Pipe', Len(wire), produced) /\ Drains(Pipe', handler.usage, lastUsage)
      <3>1. ~ stopped /\ ~ Settled
        BY <1>2, <1>3, <1>6 DEF ReaderInv, Settled
      <3>2. /\ AllData(ch) /\ Numbered(ch, Len(wire), produced)
            /\ NoUsages(ch) /\ handler.usage = NoUsage
        BY <1>1, <2>3, <3>1, AtScan
      <3>3. Pipe' = Append(ch, Done)
        BY <1>3, <2>2, NewChunks, PipeFacts
      <3>4. Numbered(Append(ch, Done), Len(wire), produced)
        BY <1>2, <1>3, <3>2, NumberedAppend
      <3>5. NoUsages(Append(ch, Done))
        BY <1>3, <3>2, DrainsAppend, NewChunks, Zenon
      <3>6. QED
        BY <1>6, <3>2, <3>3, <3>4, <3>5 DEF Drains
    <2>4. LoopInv'
      BY <1>1, <1>4, <1>6, <2>1, <2>2, <2>3 DEF LoopInv, DataLines
    <2>5. QED
      BY <2>2, <2>4 DEF IInv
  <1>7. CASE proto = "gemini" /\ lastUsage # NoUsage
    <2> DEFINE d == Data(produced + 1, lastUsage)
    <2>1. EmitAndReturn(<<d, Done>>) /\ produced' = produced + 1
      BY <1>7 DEF ReadEOF
    <2>2. d \in Chunk /\ d.usage = lastUsage /\ <<d, Done>> \in Seq(Chunk)
      BY <1>2, NewChunks
    <2>3. ~ stopped /\ produced + 1 \in Nat
      BY <1>2, <1>7 DEF ReaderInv
    <2> HIDE DEF d
    <2>4. /\ TypeOK' /\ ReaderInv' /\ ReturnedInv' /\ reader'.last /\ Pipe' = ch \o <<d, Done>>
          /\ Settled'
      BY <1>1, <1>2, <1>3, <1>7, <2>1, <2>2, <2>3, LastChunks, Zenon
    <2>5. ASSUME handler.pc = "loop"
          PROVE  Numbered(Pipe', Len(wire), produced + 1) /\ Drains(Pipe', handler.usage, lastUsage)
      <3>1. PICK p : p = Append(ch, d)
        BY Zenon
      <3>2. AllData(ch) /\ Numbered(ch, Len(wire), produced)
        BY <1>1, <2>3, <2>5, AtScan
      <3>3. p \in Seq(Chunk) /\ Pipe' = Append(p, Done)
        BY <1>3, <2>2, <2>4, <3>1, NewChunks, PipeFacts
      <3>4. Numbered(p, Len(wire), produced + 1) /\ AllData(p)
        BY <1>2, <1>3, <3>1, <3>2, NumberedAppend DEF d
      <3>5. Numbered(Append(p, Done), Len(wire), produced + 1)
        BY <1>2, <2>3, <3>3, <3>4, NumberedAppend
      <3>6. Drains(Append(p, Done), handler.usage, lastUsage)
        BY <1>3, <1>7, <2>2, <3>1, <3>3, DrainsAppend, NewChunks, Zenon
      <3>7. QED
        BY <3>3, <3>5, <3>6
    <2>6. LoopInv'
      BY <1>1, <1>4, <1>7, <2>1, <2>4, <2>5 DEF LoopInv, DataLines
    <2>7. QED
      BY <2>4, <2>6 DEF IInv
  <1>8. QED
    BY <1>5, <1>6, <1>7

\* Reading fails.
LEMMA ReadErrorInv == IInv /\ ReadError => IInv'
  <1> SUFFICES ASSUME IInv, ReadError PROVE IInv'
    OBVIOUS
  <1>1. /\ reader.pc = "scan" /\ EmitAndReturn(<<Err>>)
        /\ UNCHANGED <<proto, events, produced, stopped, lastUsage, ch, closed, cancelled, handler,
                       wire, finished>>
    BY DEF ReadError, upstream
  <1>2. /\ TypeOK /\ ReaderInv /\ produced \in Nat /\ Len(wire) \in Nat /\ <<Err>> \in Seq(Chunk)
        /\ ~ reader.last /\ ch \in Seq(Chunk)
    <2>1. TypeOK /\ ReaderInv
      BY Zenon DEF IInv
    <2>2. produced \in Nat /\ Len(wire) \in Nat
      BY <2>1 DEF TypeOK
    <2>3. <<Err>> \in Seq(Chunk)
      BY NewChunks
    <2>4. QED
      BY <1>1, <2>1, <2>2, <2>3, AtScan, Zenon
  <1>3. PICK p : p = Append(ch, Err)
    BY Zenon
  <1>4. /\ TypeOK' /\ ReaderInv' /\ ReturnedInv' /\ reader'.last /\ Pipe' = p
        /\ Settled' <=> (Settled \/ proto = "gemini")
    <2>1. produced' \in Nat /\ produced' = produced
      BY <1>1, <1>2
    <2>2. /\ TypeOK' /\ ReaderInv' /\ ReturnedInv' /\ reader'.last /\ Pipe' = ch \o <<Err>>
          /\ Settled' <=> (Settled \/ proto = "gemini")
      BY <1>1, <1>2, <2>1, LastChunks, Zenon
    <2>3. QED
      BY <1>2, <1>3, <2>2, PipeFacts, NewChunks
  <1>5. ~ NoErr(p) /\ (HasDone(p) => HasDone(ch))
    <2>1. /\ Len(p) = Len(ch) + 1 /\ Len(ch) \in Nat /\ p[Len(ch) + 1].kind = "err"
          /\ \A i \in 1 .. Len(ch) : p[i] = ch[i]
      BY <1>2, <1>3, NewChunks
    <2>2. \A i \in 1 .. Len(p) : i \in 1 .. Len(ch) \/ i = Len(ch) + 1
      BY <2>1
    <2>3. QED
      BY <2>1, <2>2 DEF NoErr, HasDone
  <1>6. LoopInv'
    <2> SUFFICES ASSUME handler.pc = "loop" PROVE LoopInv'
      BY <1>1 DEF LoopInv
    <2>1. /\ NoErr(ch) /\ Numbered(ch, Len(wire), produced)
          /\ Settled => Drains(ch, handler.usage, lastUsage)
          /\ ~ Settled => NoUsages(ch) /\ handler.usage = NoUsage
      BY <1>1, AtScan
    <2>2. Numbered(p, Len(wire), produced)
      BY <1>2, <1>3, <2>1, NumberedAppend
    <2>3. HasDone(ch) => proto = "anthropic" /\ stopped
      BY <1>1, <1>2, AtScan, Zenon DEF IInv, LoopInv
    <2>4. HasDone(p) => Drains(p, handler.usage, lastUsage)
      BY <1>2, <1>3, <1>5, <2>1, <2>3, DrainsAppend, NewChunks DEF Settled
    <2>5. ~ Settled' => NoUsages(p) /\ handler.usage = NoUsage
      BY <1>2, <1>3, <1>4, <2>1, DrainsAppend, NewChunks, Zenon
    <2>6. finished = <<>> /\ wire = DataLines(Len(wire))
      BY DEF IInv, LoopInv
    <2>7. QED
      BY <1>1, <1>4, <1>5, <2>2, <2>3, <2>4, <2>5, <2>6 DEF LoopInv, DataLines
  <1>7. QED
    BY <1>4, <1>6 DEF IInv

\* The reader gives up its chunks because the context is done.
LEMMA AbortInv == IInv /\ Abort => IInv'
  <1> SUFFICES ASSUME IInv, Abort PROVE IInv'
    OBVIOUS
  <1>1. /\ reader.pc = "send" /\ reader.select /\ reader.out # <<>> /\ EmitAndReturn(<<Err>>)
        /\ UNCHANGED <<proto, events, produced, stopped, lastUsage, ch, closed, cancelled, handler,
                       wire, finished>>
    BY DEF Abort, upstream
  <1>2. /\ TypeOK /\ ReaderInv /\ produced \in Nat /\ Len(wire) \in Nat /\ <<Err>> \in Seq(Chunk)
        /\ ch \in Seq(Chunk) /\ reader.out \in Seq(Chunk)
    BY NewChunks DEF IInv, TypeOK
  <1>3. ~ reader.last /\ produced' \in Nat /\ produced' = produced
    BY <1>1, <1>2 DEF ReaderInv
  <1>4. PICK p : p = Append(ch, Err)
    BY Zenon
  <1>5. /\ TypeOK' /\ ReaderInv' /\ ReturnedInv' /\ reader'.last /\ Pipe' = p
        /\ Settled' <=> (Settled \/ proto = "gemini")
    <2>1. /\ TypeOK' /\ ReaderInv' /\ ReturnedInv' /\ reader'.last /\ Pipe' = ch \o <<Err>>
          /\ Settled' <=> (Settled \/ proto = "gemini")
      BY <1>1, <1>2, <1>3, LastChunks, Zenon
    <2>2. QED
      BY <1>2, <1>4, <2>1, PipeFacts, NewChunks
  <1>6. /\ Len(ch) \in Nat /\ Len(Pipe) > Len(ch)
        /\ \A i \in 1 .. Len(ch) : Pipe[i] = ch[i] /\ p[i] = ch[i] /\ i \in 1 .. Len(Pipe)
        /\ Len(p) = Len(ch) + 1 /\ p[Len(ch) + 1].kind = "err"
        /\ \A i \in 1 .. Len(p) : i \in 1 .. Len(ch) \/ i = Len(ch) + 1
    <2>1. Len(p) = Len(ch) + 1 /\ p[Len(ch) + 1].kind = "err" /\ \A i \in 1 .. Len(ch) : p[i] = ch[i]
      BY <1>2, <1>4, NewChunks
    <2>2. Len(reader.out) \in Nat \ {0}
      BY <1>1, <1>2
    <2>3. Len(Pipe) = Len(ch) + Len(reader.out) /\ \A i \in 1 .. Len(ch) : Pipe[i] = ch[i]
      BY <1>2 DEF Pipe
    <2>4. QED
      BY <1>2, <2>1, <2>2, <2>3
  <1>7. LoopInv'
    <2> SUFFICES ASSUME handler.pc = "loop" PROVE LoopInv'
      BY <1>1, Zenon DEF LoopInv
    <2>1. NoErr(Pipe) /\ Numbered(Pipe, Len(wire), produced)
      BY <1>3 DEF IInv, LoopInv
    <2>2. NoErr(ch)
      BY <1>6, <2>1 DEF NoErr
    <2>3. Numbered(p, Len(wire), produced)
      BY <1>2, <1>4, <2>1, <2>2, NumberedCut DEF Pipe
    <2>4. ~ HasDone(p)
      <3> SUFFICES ASSUME NEW i \in 1 .. Len(p), p[i].kind = "done" PROVE FALSE
        BY DEF HasDone
      <3>1. i \in 1 .. Len(ch) /\ Pipe[i].kind = "done"
        BY <1>6
      <3>2. Len(ch) + 1 \in 1 .. Len(Pipe) /\ i < Len(ch) + 1 /\ i \in 1 .. Len(Pipe)
        <4>1. Len(Pipe) \in Nat
          BY <1>2 DEF Pipe
        <4>2. QED
          BY <1>6, <3>1, <4>1
      <3>3. Pipe[Len(ch) + 1].kind = "err"
        BY <2>1, <3>1, <3>2 DEF Numbered
      <3>4. QED
        BY <2>1, <3>2, <3>3 DEF NoErr
    <2>5. ~ NoErr(p)
      BY <1>6 DEF NoErr
    <2>6. ~ Settled' => NoUsages(p) /\ handler.usage = NoUsage
      <3> SUFFICES ASSUME ~ Settled' PROVE NoUsages(p) /\ handler.usage = NoUsage
        OBVIOUS
      <3>1. NoUsages(Pipe) /\ handler.usage = NoUsage
        BY <1>5 DEF IInv, LoopInv
      <3>2. NoUsages(ch)
        BY <1>6, <3>1 DEF NoUsages
      <3>3. QED
        BY <1>2, <1>4, <3>1, <3>2, DrainsAppend, NewChunks, Zenon
    <2>7. finished = <<>> /\ wire = DataLines(Len(wire))
      BY DEF IInv, LoopInv
    <2>8. QED
      BY <1>1, <1>5, <2>3, <2>4, <2>5, <2>6, <2>7 DEF LoopInv, DataLines
  <1>8. QED
    BY <1>5, <1>7 DEF IInv

\* A send, and the close at the end, change nothing of what is on its way.
LEMMA SendInv ==
  ASSUME IInv, Send \/ CloseChannel
  PROVE  IInv'
  <1>1. TypeOK /\ ReaderInv /\ ch \in Seq(Chunk) /\ reader.out \in Seq(Chunk)
    BY DEF IInv, TypeOK
  <1>2. UNCHANGED <<proto, events, produced, stopped, lastUsage, cancelled, handler, wire, finished>>
    BY DEF Send, CloseChannel, upstream
  <1>3. TypeOK' /\ ReaderInv' /\ reader'.last = reader.last /\ Pipe' = Pipe
    <2>1. CASE Send
      <3>1. /\ reader.pc = "send" /\ reader.out # <<>> /\ Len(ch) < Cap /\ closed' = closed
            /\ ch' = Append(ch, Head(reader.out))
            /\ reader' = [reader EXCEPT
                            !.out = Tail(@),
                            !.pc  = IF Len(reader.out) = 1 /\ ~ reader.last THEN "scan" ELSE @]
        BY <2>1 DEF Send
      <3>2. /\ reader'.out = Tail(reader.out) /\ reader'.last = reader.last
            /\ reader'.select = reader.select
            /\ reader'.pc = IF Len(reader.out) = 1 /\ ~ reader.last THEN "scan" ELSE "send"
        BY <1>1, <3>1 DEF TypeOK
      <3>3. Tail(reader.out) \in Seq(Chunk) /\ (Len(reader.out) = 1 => Tail(reader.out) = <<>>)
            /\ Head(reader.out) \in Chunk
        <4>1. \A o \in Seq(Chunk) : o # <<>> =>
                Tail(o) \in Seq(Chunk) /\ Head(o) \in Chunk /\ (Len(o) = 1 => Tail(o) = <<>>)
          <5> SUFFICES ASSUME NEW o \in Seq(Chunk), o # <<>>
                       PROVE  Tail(o) \in Seq(Chunk) /\ Head(o) \in Chunk
                              /\ (Len(o) = 1 => Tail(o) = <<>>)
            OBVIOUS
          <5>1. Tail(o) \in Seq(Chunk) /\ Len(Tail(o)) = Len(o) - 1
            OBVIOUS
          <5>2. Head(o) \in Chunk
            OBVIOUS
          <5>3. QED
            BY <5>1, <5>2
        <4>2. QED
          BY <1>1, <3>1, <4>1
      <3>4. reader' \in [pc : {"scan", "send", "ended"}, out : Seq(Chunk), select : BOOLEAN,
                         last : BOOLEAN]
        BY <1>1, <3>1, <3>3, Zenon DEF TypeOK
      <3>5. ch' \in Seq(Chunk) /\ Len(ch') <= Cap
        BY <1>1, <3>1, <3>3, StreamAssumption
      <3>6. TypeOK'
        BY <1>1, <1>2, <3>1, <3>4, <3>5 DEF TypeOK
      <3>7. ReaderInv'
        BY <1>1, <1>2, <3>1, <3>2, <3>3 DEF ReaderInv
      <3>8. Pipe' = Pipe
        <4>1. Append(ch, Head(reader.out)) \o Tail(reader.out) = ch \o reader.out
          BY <1>1, <3>1, PipeFacts, Zenon
        <4>2. QED
          BY <3>1, <3>2, <4>1, Zenon DEF Pipe
      <3>9. QED
        BY <3>2, <3>6, <3>7, <3>8
    <2>2. CASE CloseChannel
      <3>1. /\ reader.pc = "send" /\ reader.out = <<>> /\ reader.last /\ closed' = TRUE /\ ch' = ch
            /\ reader' = [reader EXCEPT !.pc = "ended"]
        BY <2>2 DEF CloseChannel
      <3>2. /\ reader'.out = <<>> /\ reader'.last = reader.last /\ reader'.pc = "ended"
            /\ reader'.select = reader.select
        BY <1>1, <3>1, Zenon DEF TypeOK
      <3>3. TypeOK'
        BY <1>1, <1>2, <3>1, Zenon DEF TypeOK
      <3>4. ReaderInv'
        BY <1>1, <1>2, <3>1, <3>2 DEF ReaderInv
      <3>5. QED
        BY <3>1, <3>2, <3>3, <3>4, Zenon DEF Pipe
    <2>3. QED
      BY <2>1, <2>2
  <1>4. ReturnedInv'
    BY <1>2, <1>3, ReturnedFrame DEF IInv
  <1>5. LoopInv'
    BY <1>2, <1>3, Zenon DEF IInv, LoopInv, Settled, DataLines
  <1>6. QED
    BY <1>3, <1>4, <1>5 DEF IInv

\* One more line of data.
LEMMA DataLinesAppend ==
  ASSUME NEW n \in Nat
  PROVE  /\ Len(DataLines(n)) = n
         /\ Append(DataLines(n), [tag |-> "data", n |-> n + 1]) = DataLines(n + 1)
         /\ DataLines(n) \o <<DoneLine>> = Append(DataLines(n), DoneLine)
         /\ Len(DataLines(n) \o <<ErrorLine, DoneLine>>) = n + 2
  <1>1. DataLines(n) \in Seq([tag : {"data"}, n : Nat]) /\ Len(DataLines(n)) = n
    BY DEF DataLines
  <1>2. Append(DataLines(n), [tag |-> "data", n |-> n + 1]) = DataLines(n + 1)
    BY <1>1 DEF DataLines
  <1>3. QED
    BY <1>1, <1>2

\* The handler takes a chunk.
LEMMA ReceiveInv == IInv /\ Receive => IInv'
  <1> SUFFICES ASSUME IInv, Receive PROVE IInv'
    OBVIOUS
  <1> DEFINE c     == Head(ch)
             usage == IF c.usage # NoUsage THEN c.usage ELSE handler.usage
  <1>1. /\ handler.pc = "loop" /\ ch # <<>> /\ ch' = Tail(ch)
        /\ handler' = [pc |-> IF c.kind = "data" THEN "loop" ELSE "returned", usage |-> usage]
        /\ UNCHANGED <<proto, events, produced, stopped, lastUsage, reader, closed>>
    BY DEF Receive, processStreamChunk, upstream
  <1>2. /\ TypeOK /\ ReaderInv /\ ch \in Seq(Chunk) /\ reader.out \in Seq(Chunk)
        /\ Len(wire) \in Nat /\ produced \in Nat /\ handler.usage \in Usages
    BY DEF IInv, TypeOK
  <1>3. /\ finished = <<>> /\ wire = DataLines(Len(wire)) /\ Numbered(Pipe, Len(wire), produced)
        /\ ~ reader.last => NoErr(Pipe)
        /\ HasDone(Pipe) => IF proto = "anthropic" THEN stopped ELSE reader.last
        /\ Settled /\ (HasDone(Pipe) \/ NoErr(Pipe)) => Drains(Pipe, handler.usage, lastUsage)
        /\ ~ Settled => NoUsages(Pipe) /\ handler.usage = NoUsage
    BY <1>1, Zenon DEF IInv, LoopInv
  <1>4. PICK p : p = Pipe
    OBVIOUS
  <1>5. /\ p \in Seq(Chunk) /\ p # <<>> /\ Pipe' = Tail(p) /\ Head(p) = c
    <2>1. ch \o reader.out \in Seq(Chunk) /\ ch \o reader.out # <<>>
      BY <1>1, <1>2
    <2>2. Tail(ch \o reader.out) = Tail(ch) \o reader.out /\ Head(ch \o reader.out) = Head(ch)
      BY <1>1, <1>2, PipeFacts, Zenon
    <2>3. QED
      BY <1>1, <1>4, <2>1, <2>2, Zenon DEF Pipe
  <1>6. /\ Len(p) \in Nat \ {0} /\ Len(Tail(p)) = Len(p) - 1 /\ c = p[1] /\ 1 \in 1 .. Len(p)
        /\ \A i \in 1 .. Len(p) - 1 : Tail(p)[i] = p[i + 1] /\ i + 1 \in 1 .. Len(p)
        /\ Tail(p) \in Seq(Chunk)
    BY <1>5
  <1>7. /\ c \in Chunk /\ c.kind \in {"data", "done", "err"} /\ c.usage \in Usages /\ c.n \in Nat
        /\ usage \in Usages
    BY <1>2, <1>5, <1>6, ChunkAt
  <1> HIDE DEF c, usage
  <1>8. ch' \in Seq(Chunk) /\ Len(ch') <= Cap
    BY <1>1, <1>2, StreamAssumption DEF TypeOK
  <1>9. handler' \in [pc : {"loop", "returned"}, usage : Usages]
    BY <1>1, <1>7
  <1>10. ReaderInv'
    BY <1>1, <1>2 DEF ReaderInv
  <1>11. Settled' = Settled
    BY <1>1 DEF Settled
  <1>12. ASSUME Drains(p, handler.usage, lastUsage)
         PROVE  Drains(Tail(p), usage, lastUsage)
    BY <1>5, <1>12, DrainsTail DEF usage
  <1>13. CASE c.kind = "data"
    <2>1. /\ wire' = Append(wire, [tag |-> "data", n |-> c.n])
          /\ finished' = finished /\ cancelled' = cancelled
      BY <1>13, Zenon DEF Receive, processStreamChunk, Writes, c
    <2>2. Numbered(Tail(p), Len(wire) + 1, produced) /\ c.n = Len(wire) + 1
      BY <1>2, <1>3, <1>4, <1>5, <1>13, NumberedTail
    <2>3. wire' = DataLines(Len(wire) + 1) /\ Len(wire') = Len(wire) + 1
      <3>1. Append(DataLines(Len(wire)), [tag |-> "data", n |-> Len(wire) + 1]) = DataLines(Len(wire) + 1)
        BY <1>2, DataLinesAppend
      <3>2. Len(wire) + 1 \in Nat
        BY <1>2
      <3>3. Len(DataLines(Len(wire) + 1)) = Len(wire) + 1
        BY <3>2, DataLinesAppend, Zenon
      <3>4. QED
        BY <1>3, <2>1, <2>2, <3>1, <3>3
    <2>4. (~ reader.last => NoErr(Tail(p))) /\ (NoErr(Tail(p)) => NoErr(p))
      <3>1. NoErr(p) => NoErr(Tail(p))
        BY <1>6 DEF NoErr
      <3>2. NoErr(Tail(p)) => NoErr(p)
        <4> SUFFICES ASSUME NoErr(Tail(p)), NEW i \in 1 .. Len(p) PROVE p[i].kind # "err"
          BY DEF NoErr
        <4>1. CASE i = 1
          BY <1>6, <1>13, <4>1
        <4>2. CASE i # 1
          <5>1. i - 1 \in 1 .. Len(Tail(p)) /\ Tail(p)[i - 1] = p[i]
            BY <1>6, <4>2
          <5>2. QED
            BY <5>1 DEF NoErr
        <4>3. QED
          BY <4>1, <4>2
      <3>3. QED
        BY <1>3, <1>4, <3>1, <3>2
    <2>5. HasDone(Tail(p)) => HasDone(p)
      BY <1>6 DEF HasDone
    <2>6. ~ Settled => NoUsages(Tail(p)) /\ usage = NoUsage
      BY <1>3, <1>4, <1>6 DEF NoUsages, usage
    <2>7. TypeOK'
      <3>1. wire' \in Seq([tag : {"data", "error", "[DONE]"}, n : Nat])
        BY <1>2, <1>7, <2>1 DEF TypeOK
      <3>2. QED
        BY <1>1, <1>2, <1>8, <1>9, <2>1, <3>1 DEF TypeOK
    <2>8. handler'.pc = "loop" /\ handler'.usage = usage
      BY <1>1, <1>13
    <2>9. Settled' /\ (HasDone(Pipe') \/ NoErr(Pipe')) => Drains(Pipe', handler'.usage, lastUsage')
      BY <1>1, <1>3, <1>4, <1>5, <1>11, <1>12, <2>4, <2>5, <2>8
    <2>10. LoopInv'
      BY <1>1, <1>3, <1>4, <1>5, <1>11, <2>1, <2>2, <2>3, <2>4, <2>5, <2>6, <2>8, <2>9 DEF LoopInv
    <2>11. QED
      BY <1>10, <2>7, <2>8, <2>10 DEF IInv, ReturnedInv
  <1>14. CASE c.kind = "done"
    <2>1. /\ wire' = wire \o <<DoneLine>> /\ cancelled' = TRUE
          /\ finished' = Append(finished, [status |-> 200, usage |-> handler'.usage])
      BY <1>14, Zenon DEF Receive, processStreamChunk, EndStream, finishStream, c
    <2>2. handler'.pc = "returned" /\ handler'.usage = usage
      BY <1>1, <1>14
    <2>3. finished' = <<[status |-> 200, usage |-> usage]>>
      BY <1>3, <2>1, <2>2
    <2>4. produced = Len(wire)
      <3>1. p[1].kind = "done" => produced = Len(wire) + 1 - 1
        BY <1>3, <1>4, <1>6 DEF Numbered
      <3>2. QED
        BY <1>2, <1>6, <1>14, <3>1
    <2>5. wire' = Append(DataLines(produced), DoneLine)
      BY <1>2, <1>3, <2>1, <2>4, DataLinesAppend
    <2>6. HasDone(p)
      BY <1>6, <1>14 DEF HasDone
    <2>7. (reader.last \/ stopped) /\ Settled
      BY <1>2, <1>3, <1>4, <2>6, StreamAssumption DEF Settled, TypeOK
    <2>8. usage = lastUsage
      <3>1. Drains(Tail(p), usage, lastUsage)
        BY <1>3, <1>4, <1>12, <2>6, <2>7
      <3>2. \A i \in 1 .. Len(Tail(p)) : Tail(p)[i].kind = "err"
        <4> SUFFICES ASSUME NEW i \in 1 .. Len(p) - 1 PROVE p[i + 1].kind = "err"
          BY <1>6
        <4>1. 1 < i + 1
          OBVIOUS
        <4>2. QED
          BY <1>3, <1>4, <1>6, <1>14, <4>1 DEF Numbered
      <3>3. NoUsages(Tail(p))
        BY <1>6, <3>2, ChunkAt DEF NoUsages
      <3>4. QED
        BY <3>1, <3>3 DEF Drains, NoUsages
    <2>9. TypeOK'
      <3>1. wire' \in Seq([tag : {"data", "error", "[DONE]"}, n : Nat])
        BY <1>2, <2>1 DEF TypeOK, DoneLine
      <3>2. finished' \in Seq([status : {200, 502}, usage : Usages])
        BY <1>7, <2>3
      <3>3. QED
        BY <1>1, <1>2, <1>8, <1>9, <2>1, <3>1, <3>2, Zenon DEF TypeOK
    <2>10. ReturnedInv'
      BY <1>1, <2>3, <2>5, <2>7, <2>8, Zenon DEF ReturnedInv, DataLines, DoneLine
    <2>11. QED
      BY <1>10, <2>2, <2>9, <2>10, Zenon DEF IInv, LoopInv
  <1>15. CASE c.kind = "err"
    <2>1. /\ wire' = wire \o <<ErrorLine, DoneLine>> /\ cancelled' = TRUE
          /\ finished' = Append(finished, [status |-> 502, usage |-> handler'.usage])
      BY <1>15, Zenon DEF Receive, processStreamChunk, EndStream, finishStream, c
    <2>2. handler'.pc = "returned" /\ handler'.usage = usage
      BY <1>1, <1>15
    <2>3. finished' = <<[status |-> 502, usage |-> usage]>>
      BY <1>3, <2>1, <2>2
    <2>4. Len(wire') - 2 = Len(wire) /\ Len(wire') >= 2
      BY <1>2, <1>3, <2>1, DataLinesAppend
    <2>5. wire' = DataLines(Len(wire') - 2) \o <<ErrorLine, DoneLine>>
      BY <1>3, <2>1, <2>4
    <2>6. TypeOK'
      <3>1. wire' \in Seq([tag : {"data", "error", "[DONE]"}, n : Nat])
        BY <1>2, <2>1 DEF TypeOK, DoneLine, ErrorLine
      <3>2. finished' \in Seq([status : {200, 502}, usage : Usages])
        BY <1>7, <2>3
      <3>3. QED
        BY <1>1, <1>2, <1>8, <1>9, <2>1, <3>1, <3>2 DEF TypeOK
    <2>7. ReturnedInv'
      BY <2>3, <2>4, <2>5 DEF ReturnedInv, DataLines, DoneLine, ErrorLine
    <2>8. QED
      BY <1>10, <2>2, <2>6, <2>7, Zenon DEF IInv, LoopInv
  <1>16. QED
    BY <1>7, <1>13, <1>14, <1>15

\* The handler finds the channel closed and empty.
LEMMA ReceiveClosedInv == IInv /\ ReceiveClosed => IInv'
  <1> SUFFICES ASSUME IInv, ReceiveClosed PROVE IInv'
    OBVIOUS
  <1>1. /\ handler.pc = "loop" /\ ch = <<>> /\ closed
        /\ handler' = [handler EXCEPT !.pc = "returned"]
        /\ wire' = wire \o <<DoneLine>> /\ cancelled' = TRUE
        /\ finished' = Append(finished, [status |-> 200, usage |-> handler'.usage])
        /\ UNCHANGED <<proto, events, produced, stopped, lastUsage, reader, ch, closed>>
    BY DEF ReceiveClosed, EndStream, finishStream, upstream
  <1>2. /\ TypeOK /\ ReaderInv /\ Len(wire) \in Nat /\ produced \in Nat
        /\ handler'.pc = "returned" /\ handler'.usage = handler.usage /\ handler.usage \in Usages
    BY <1>1 DEF IInv, TypeOK
  <1>3. /\ finished = <<>> /\ wire = DataLines(Len(wire)) /\ Numbered(Pipe, Len(wire), produced)
        /\ Settled /\ (HasDone(Pipe) \/ NoErr(Pipe)) => Drains(Pipe, handler.usage, lastUsage)
    BY <1>1 DEF IInv, LoopInv
  <1>4. reader.last /\ Pipe = <<>> /\ Len(<<>>) = 0
    BY <1>1, <1>2 DEF ReaderInv, Pipe
  <1>5. produced = Len(wire) /\ NoErr(Pipe)
    BY <1>2, <1>3, <1>4 DEF Numbered, AllData, NoErr
  <1>6. (proto = "anthropic" => stopped) => handler.usage = lastUsage
    <2>1. (proto = "anthropic" => stopped) => Settled
      BY <1>2, <1>4, StreamAssumption DEF Settled, TypeOK
    <2>2. Drains(Pipe, handler.usage, lastUsage) => handler.usage = lastUsage
      BY <1>4 DEF Drains
    <2>3. QED
      BY <1>3, <1>5, <2>1, <2>2
  <1>7. finished' = <<[status |-> 200, usage |-> handler.usage]>>
    BY <1>1, <1>2, <1>3
  <1>8. wire' = Append(DataLines(produced), DoneLine)
    BY <1>1, <1>2, <1>3, <1>5, DataLinesAppend
  <1>9. TypeOK'
    <2>1. wire' \in Seq([tag : {"data", "error", "[DONE]"}, n : Nat])
      BY <1>1, <1>2 DEF TypeOK, DoneLine
    <2>2. finished' \in Seq([status : {200, 502}, usage : Usages])
      BY <1>2, <1>7
    <2>3. handler' \in [pc : {"loop", "returned"}, usage : Usages]
      BY <1>1, <1>2, Zenon DEF TypeOK
    <2>4. QED
      BY <1>1, <1>2, <2>1, <2>2, <2>3 DEF TypeOK
  <1>10. ReaderInv'
    BY <1>1, <1>2 DEF ReaderInv
  <1>11. ReturnedInv'
    <2>1. Len(finished') = 1 /\ finished'[1].status = 200 /\ finished'[1].usage = handler.usage
      BY <1>7
    <2>2. /\ wire' = Append(DataLines(produced)', DoneLine') /\ (reader.last \/ stopped)'
          /\ (proto' = "anthropic" => stopped') => finished'[1].usage = lastUsage'
      BY <1>1, <1>4, <1>6, <1>8, <2>1, Zenon DEF DataLines, DoneLine
    <2>3. QED
      BY <2>1, <2>2 DEF ReturnedInv
  <1>12. QED
    BY <1>2, <1>9, <1>10, <1>11 DEF IInv, LoopInv

\* The client leaves, and the handler notices.
LEMMA LeaveInv == IInv /\ (HandlerAborts \/ ClientLeaves) => IInv'
  <1>1. ASSUME IInv, HandlerAborts PROVE IInv'
    <2>1. /\ handler.pc = "loop" /\ handler' = [handler EXCEPT !.pc = "returned"]
          /\ UNCHANGED <<proto, events, produced, stopped, lastUsage, reader, ch, closed, cancelled,
                         wire, finished>>
      BY <1>1 DEF HandlerAborts, upstream
    <2>2. TypeOK' /\ ReaderInv' /\ handler'.pc = "returned"
      BY <1>1, <2>1, Zenon DEF IInv, TypeOK, ReaderInv
    <2>3. ReturnedInv'
      BY <1>1, <2>1 DEF IInv, LoopInv, ReturnedInv, DataLines
    <2>4. QED
      BY <2>2, <2>3 DEF IInv, LoopInv
  <1>2. ASSUME IInv, ClientLeaves PROVE IInv'
    <2>1. /\ cancelled' = TRUE
          /\ UNCHANGED <<proto, events, produced, stopped, lastUsage, reader, ch, closed, handler,
                         wire, finished>>
      BY <1>2 DEF ClientLeaves, upstream
    <2>2. TypeOK' /\ ReaderInv' /\ Pipe' = Pipe /\ Settled' = Settled
      BY <1>2, <2>1 DEF IInv, TypeOK, ReaderInv, Pipe, Settled
    <2>3. LoopInv'
      BY <1>2, <2>1, <2>2 DEF IInv, LoopInv, DataLines
    <2>4. ReturnedInv'
      BY <1>2, <2>1, ReturnedFrame DEF IInv
    <2>5. QED
      BY <2>2, <2>3, <2>4 DEF IInv
  <1>3. QED
    BY <1>1, <1>2

\* Every step keeps the inductive invariant.
LEMMA StepIInv == IInv /\ [Next]_vars => IInv'
  <1> SUFFICES ASSUME IInv, [Next]_vars PROVE IInv'
    OBVIOUS
  <1>1. CASE ReaderReads
    BY <1>1, ReadTextInv, ReadSilentInv, ReadDoneInv, ReadStopInv, ReadEOFInv, ReadErrorInv
    DEF ReaderReads
  <1>2. CASE ReaderSends
    BY <1>2, SendInv, AbortInv DEF ReaderSends
  <1>3. CASE HandlerStep
    BY <1>3, ReceiveInv, ReceiveClosedInv, LeaveInv DEF HandlerStep
  <1>4. CASE ClientLeaves
    BY <1>4, LeaveInv
  <1>5. CASE UNCHANGED vars
    <2>1. UNCHANGED <<proto, events, produced, stopped, lastUsage, reader, ch, closed, cancelled,
                      handler, wire, finished>>
      BY <1>5 DEF vars, upstream
    <2>2. TypeOK' /\ ReaderInv' /\ Pipe' = Pipe /\ Settled' = Settled
      BY <2>1 DEF IInv, TypeOK, ReaderInv, Pipe, Settled
    <2>3. LoopInv'
      BY <2>1, <2>2 DEF IInv, LoopInv, DataLines
    <2>4. ReturnedInv'
      BY <2>1, ReturnedFrame DEF IInv
    <2>5. QED
      BY <2>2, <2>3, <2>4 DEF IInv
  <1>6. QED
    BY <1>1, <1>2, <1>3, <1>4, <1>5 DEF Next, Over
-----------------------------------------------------------------------------
\* The inductive invariant holds in every reachable state.
THEOREM Invariance == Spec => []IInv
  BY InitIInv, StepIInv, PTL DEF Spec

(* The lines of a stream: data only while it runs and when it was left,    *)
(* and a "[DONE]" at its end otherwise, with which it is accounted for.    *)
LEMMA LinesOfStream ==
  ASSUME IInv
  PROVE  /\ Len(wire) \in Nat
         /\ \/ finished = <<>> /\ \A i \in 1 .. Len(wire) : wire[i].tag # "[DONE]"
            \/ /\ Len(finished) = 1
               /\ Len(wire) \in 1 .. Len(wire)
               /\ \A i \in 1 .. Len(wire) : wire[i].tag = "[DONE]" <=> i = Len(wire)
  <1>1. Len(wire) \in Nat /\ produced \in Nat
    BY DEF IInv, TypeOK
  <1>2. ASSUME finished = <<>>, wire = DataLines(Len(wire))
        PROVE  \A i \in 1 .. Len(wire) : wire[i].tag # "[DONE]"
    <2>1. \A n \in Nat : \A i \in 1 .. n : DataLines(n)[i].tag = "data"
      BY DEF DataLines
    <2>2. QED
      BY <1>1, <1>2, <2>1
  <1>3. ASSUME NEW n \in Nat, wire = Append(DataLines(n), DoneLine)
        PROVE  /\ Len(wire) \in 1 .. Len(wire)
               /\ \A i \in 1 .. Len(wire) : wire[i].tag = "[DONE]" <=> i = Len(wire)
    <2>1. /\ Len(wire) = n + 1 /\ wire[n + 1] = DoneLine
          /\ \A i \in 1 .. n : wire[i] = [tag |-> "data", n |-> i]
      BY <1>3 DEF DataLines
    <2>2. ASSUME NEW i \in 1 .. n PROVE wire[i].tag = "data"
      <3>1. wire[i] = [tag |-> "data", n |-> i]
        BY <2>1
      <3>2. QED
        BY <3>1
    <2>3. wire[n + 1].tag = "[DONE]"
      BY <2>1 DEF DoneLine
    <2>4. QED
      BY <2>1, <2>2, <2>3
  <1>4. ASSUME NEW n \in Nat, wire = DataLines(n) \o <<ErrorLine, DoneLine>>
        PROVE  /\ Len(wire) \in 1 .. Len(wire)
               /\ \A i \in 1 .. Len(wire) : wire[i].tag = "[DONE]" <=> i = Len(wire)
    <2>1. /\ Len(wire) = n + 2 /\ wire[n + 1] = ErrorLine /\ wire[n + 2] = DoneLine
          /\ \A i \in 1 .. n : wire[i] = [tag |-> "data", n |-> i]
      BY <1>4 DEF DataLines
    <2>2. ASSUME NEW i \in 1 .. n PROVE wire[i].tag = "data"
      <3>1. wire[i] = [tag |-> "data", n |-> i]
        BY <2>1
      <3>2. QED
        BY <3>1
    <2>3. wire[n + 1].tag = "error" /\ wire[n + 2].tag = "[DONE]"
      BY <2>1 DEF DoneLine, ErrorLine
    <2>4. \A i \in 1 .. n + 2 : i \in 1 .. n \/ i = n + 1 \/ i = n + 2
      OBVIOUS
    <2>5. QED
      BY <2>1, <2>2, <2>3, <2>4
  <1>5. \/ finished = <<>> /\ wire = DataLines(Len(wire))
        \/ Len(finished) = 1 /\ wire = Append(DataLines(produced), DoneLine)
        \/ /\ Len(finished) = 1 /\ Len(wire) >= 2
           /\ wire = DataLines(Len(wire) - 2) \o <<ErrorLine, DoneLine>>
    BY Zenon DEF IInv, LoopInv, ReturnedInv, TypeOK
  <1>6. Len(wire) >= 2 => Len(wire) - 2 \in Nat
    BY <1>1
  <1>7. QED
    BY <1>1, <1>2, <1>3, <1>4, <1>5, <1>6, Zenon

\* The client is told once that the stream is over, and nothing follows.
THEOREM EndsOnce == Spec => []OneDoneLast
  <1>1. IInv => OneDoneLast
    BY LinesOfStream DEF OneDoneLast
  <1>2. QED
    BY <1>1, Invariance, PTL

\* A stream is accounted for exactly when the client was told that it is over.
THEOREM Accounts == Spec => []AccountedOnce
  <1>1. ASSUME IInv PROVE AccountedOnce
    <2>1. CASE finished = <<>> /\ \A i \in 1 .. Len(wire) : wire[i].tag # "[DONE]"
      <3>1. {i \in 1 .. Len(wire) : wire[i].tag = "[DONE]"} = {}
        BY <2>1
      <3>2. Len(finished) = 0
        BY <2>1
      <3>3. QED
        BY <3>1, <3>2, FS_EmptySet DEF AccountedOnce, Count
    <2>2. CASE /\ Len(finished) = 1 /\ Len(wire) \in 1 .. Len(wire)
               /\ \A i \in 1 .. Len(wire) : wire[i].tag = "[DONE]" <=> i = Len(wire)
      <3>1. {i \in 1 .. Len(wire) : wire[i].tag = "[DONE]"} = {Len(wire)}
        BY <2>2
      <3>2. QED
        BY <2>2, <3>1, FS_Singleton, Zenon DEF AccountedOnce, Count
    <2>3. QED
      BY <1>1, <2>1, <2>2, LinesOfStream
  <1>2. QED
    BY <1>1, Invariance, PTL

\* What the handler wrote and noted when it has finished a stream.
LEMMA FinishedStream ==
  ASSUME IInv, NEW i \in 1 .. Len(finished), finished[i].status = 200
  PROVE  /\ wire = Append(DataLines(produced), DoneLine)
         /\ (proto = "anthropic" => stopped) => finished[i].usage = lastUsage
  <1>1. finished # <<>>
    OBVIOUS
  <1>2. handler.pc = "returned"
    <2>1. handler.pc \in {"loop", "returned"} /\ (handler.pc = "loop" => finished = <<>>)
      BY DEF IInv, TypeOK, LoopInv
    <2>2. QED
      BY <1>1, <2>1
  <1>3. Len(finished) = 1 => i = 1
    OBVIOUS
  <1>4. QED
    BY <1>1, <1>2, <1>3 DEF IInv, ReturnedInv

(* A stream that is accounted a success delivered every chunk that the     *)
(* reader made, in order, and then "[DONE]".                               *)
THEOREM Completes == Spec => []SuccessIsComplete
  <1>1. IInv => SuccessIsComplete
    BY FinishedStream, Zenon DEF SuccessIsComplete, DataLines
  <1>2. QED
    BY <1>1, Invariance, PTL

(* The usage a successful stream is charged for is the last one that the   *)
(* adapter read from the provider.                                         *)
THEOREM Charges == Spec => []ChargesLastUsage
  <1>1. IInv => ChargesLastUsage
    BY FinishedStream DEF ChargesLastUsage
  <1>2. QED
    BY <1>1, Invariance, PTL
=============================================================================
