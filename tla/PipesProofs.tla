----------------------------- MODULE PipesProofs -----------------------------
(* The descriptors, the pipe ends and the bytes of a stream, for every     *)
(* table size, ring capacity and number of pipes.                          *)
EXTENDS Pipes, SequenceTheorems, WellFoundedInduction, TLAPS

-----------------------------------------------------------------------------
(* The descriptor table.                                                   *)

LEMMA LeastNat ==
  ASSUME NEW T \in SUBSET Nat, T # {}
  PROVE  \E x \in T : \A y \in T : x <= y
<1> DEFINE R == OpToRel(<, Nat)
<1>1. IsWellFoundedOn(R, Nat)
  BY NatLessThanWellFounded
<1>2. \A x, y \in Nat : <<x, y>> \in R <=> x < y
  BY DEF OpToRel
<1> HIDE DEF R
<1>3. PICK x \in T : \A y \in T : ~ (<<y, x>> \in R)
  BY <1>1, WFMin
<1>4. \A y \in T : x \in Nat /\ y \in Nat /\ ~ (y < x)
  BY <1>2, <1>3
<1>5. \A y \in T : x <= y
  BY <1>4
<1> QED BY <1>5

LEMMA FreeFdFacts ==
  ASSUME NEW K, NEW t \in Tables(K), CanOpen(t)
  PROVE  /\ FreeFd(t) \in Fds
         /\ FreeFd(t) >= t.next
         /\ t.entries[FreeFd(t)] = NoFd
<1> DEFINE T == {f \in Fds : f >= t.next /\ t.entries[f] = NoFd}
<1>1. T # {} /\ T \in SUBSET Nat
  BY DEF CanOpen, Fds
<1>2. \E x \in T : \A y \in T : x <= y
  BY <1>1, LeastNat
<1>3. \E f \in Fds : /\ f >= t.next /\ t.entries[f] = NoFd
                     /\ \A g \in Fds : g >= t.next /\ t.entries[g] = NoFd => f <= g
  BY <1>2
<1> QED BY <1>3 DEF FreeFd

LEMMA OpenedFacts ==
  ASSUME NEW K, NEW t \in Tables(K), NEW k \in K, CanOpen(t)
  PROVE  /\ Opened(t, k) \in Tables(K)
         /\ Opened(t, k).entries = [t.entries EXCEPT ![FreeFd(t)] = k]
         /\ Opened(t, k).next >= t.next
<1> DEFINE f == FreeFd(t)
<1>1. f \in Fds /\ f >= t.next
  BY FreeFdFacts
<1>2. t.entries \in [Fds -> K \union {NoFd}] /\ t.next \in Fds
  BY DEF Tables
<1>3. Opened(t, k) = [entries |-> [t.entries EXCEPT ![f] = k],
                      next |-> IF f = LastFd THEN LastFd ELSE f + 1]
  BY DEF Opened
<1> HIDE DEF f
<1>4. (IF f = LastFd THEN LastFd ELSE f + 1) \in Fds
      /\ (IF f = LastFd THEN LastFd ELSE f + 1) >= t.next
  BY <1>1, <1>2, FdAssumption DEF Fds
<1>5. [t.entries EXCEPT ![f] = k] \in [Fds -> K \union {NoFd}]
  BY <1>1, <1>2
<1>6. Opened(t, k).entries = [t.entries EXCEPT ![f] = k] /\ Opened(t, k).next >= t.next
  BY <1>3, <1>4
<1>7. Opened(t, k) \in Tables(K)
  BY <1>3, <1>4, <1>5 DEF Tables
<1> QED BY <1>6, <1>7 DEF f

LEMMA ClosedFacts ==
  ASSUME NEW K, NEW t \in Tables(K), NEW f \in Fds
  PROVE  /\ Closed(t, f) \in Tables(K)
         /\ Closed(t, f).entries = [t.entries EXCEPT ![f] = NoFd]
         /\ Closed(t, f).next = t.next
BY DEF Closed, Tables

LEMMA Dup2Facts ==
  ASSUME NEW K, NEW t \in Tables(K), NEW old \in Fds, NEW new \in Fds
  PROVE  /\ Dup2(t, old, new) \in Tables(K)
         /\ Dup2(t, old, new).next = t.next
         /\ t.entries[old] = NoFd => Dup2(t, old, new) = t
         /\ t.entries[old] # NoFd =>
              Dup2(t, old, new).entries = [t.entries EXCEPT ![new] = t.entries[old]]
BY DEF Dup2, Tables

-----------------------------------------------------------------------------
(* Type correctness.                                                       *)

LEMMA InitType == Init => TypeOK
<1> SUFFICES ASSUME Init PROVE TypeOK
  OBVIOUS
<1>1. fds \in Tables(Kinds)
  BY FdAssumption DEF Init, NewWithStdio, Tables, Kinds, Fds
<1>2. /\ nextId \in 1 .. MaxPipes + 1
      /\ rings \in [Ids -> Rings \union {NoRing}]
      /\ sent \in [Ids -> 0 .. MaxBytes] /\ taken \in [Ids -> 0 .. MaxBytes]
      /\ given \in [Ids -> Seq(1 .. MaxBytes)] /\ lost \in [Ids -> SUBSET (1 .. MaxBytes)]
  BY PipeAssumption DEF Init
<1> QED BY <1>1, <1>2 DEF TypeOK

LEMMA EndsAreKinds ==
  ASSUME NEW p \in Ids, NEW e \in Ends
  PROVE  End(p, e) \in PipeEnds /\ End(p, e) \in Kinds /\ End(p, e) # NoFd
BY KindAssumption DEF End, PipeEnds, Kinds

(* What PipeCreate does: nothing but using up an id, or a ring and its two *)
(* ends at two free numbers.                                               *)
Created ==
  \E f, g \in Fds :
    /\ f # g /\ f >= fds.next /\ g >= fds.next
    /\ fds.entries[f] = NoFd /\ fds.entries[g] = NoFd
    /\ fds'.entries = [fds.entries EXCEPT ![f] = End(nextId, "read"),
                                          ![g] = End(nextId, "write")]
    /\ rings' = [rings EXCEPT ![nextId] = NewRing]

LEMMA CreateFacts ==
  ASSUME TypeOK, PipeCreate
  PROVE  /\ fds' \in Tables(Kinds)
         /\ nextId \in Ids /\ nextId' = nextId + 1 /\ sent' = sent /\ taken' = taken
         /\ given' = given /\ lost' = lost
         /\ (fds'.entries = fds.entries /\ rings' = rings) \/ Created
<1> DEFINE r == End(nextId, "read")
           w == End(nextId, "write")
           t == Opened(fds, r)
           f == FreeFd(fds)
           g == FreeFd(t)
<1>1. /\ nextId \in Ids /\ nextId' = nextId + 1 /\ sent' = sent /\ taken' = taken
      /\ given' = given /\ lost' = lost
  BY PipeAssumption DEF PipeCreate, TypeOK, Ids
<1>2. r \in Kinds /\ w \in Kinds /\ r # NoFd /\ fds \in Tables(Kinds)
  BY <1>1, EndsAreKinds DEF Ends, TypeOK
<1>3. CASE ~ CanOpen(fds)
  BY <1>1, <1>2, <1>3 DEF PipeCreate, PipeRolledBack
<1>4. ASSUME CanOpen(fds)
      PROVE  /\ t \in Tables(Kinds) /\ t.entries = [fds.entries EXCEPT ![f] = r]
             /\ t.next >= fds.next
             /\ f \in Fds /\ f >= fds.next /\ fds.entries[f] = NoFd
  BY <1>2, <1>4, FreeFdFacts, OpenedFacts
<1>5. CASE CanOpen(fds) /\ ~ CanOpen(t)
  <2>1. fds' = Closed(t, f) /\ rings' = rings
    BY <1>5 DEF PipeCreate, PipeRolledBack
  <2>2. fds' \in Tables(Kinds) /\ fds'.entries = [t.entries EXCEPT ![f] = NoFd]
    BY <1>4, <1>5, <2>1, ClosedFacts
  <2>3. fds.entries \in [Fds -> Kinds \union {NoFd}]
    BY <1>2 DEF Tables
  <2> HIDE DEF r, t, f
  <2>4. fds'.entries = fds.entries
    BY <1>4, <1>5, <2>2, <2>3
  <2> QED BY <1>1, <2>1, <2>2, <2>4
<1>6. CASE CanOpen(fds) /\ CanOpen(t)
  <2>1. fds' = Opened(t, w) /\ rings' = [rings EXCEPT ![nextId] = NewRing]
    BY <1>6 DEF PipeCreate
  <2>2. fds' \in Tables(Kinds) /\ fds'.entries = [t.entries EXCEPT ![g] = w]
        /\ g \in Fds /\ g >= t.next /\ t.entries[g] = NoFd
    BY <1>2, <1>4, <1>6, <2>1, FreeFdFacts, OpenedFacts
  <2>3. fds.entries \in [Fds -> Kinds \union {NoFd}] /\ fds.next \in Fds /\ t.next \in Fds
    BY <1>2, <1>4, <1>6 DEF Tables
  <2>4. fds'.entries = [fds.entries EXCEPT ![f] = r, ![g] = w]
    BY <1>4, <1>6, <2>2
  <2> HIDE DEF r, w, t, f, g
  <2>5. f # g /\ fds.entries[g] = NoFd
    BY <1>2, <1>4, <1>6, <2>2, <2>3
  <2>6. g >= fds.next
    BY <1>4, <1>6, <2>2, <2>3 DEF Fds
  <2>7. Created
    BY <1>4, <1>6, <2>1, <2>2, <2>4, <2>5, <2>6 DEF Created, r, w
  <2> QED BY <1>1, <2>2, <2>7
<1> QED BY <1>3, <1>5, <1>6

LEMMA CreateType == ASSUME TypeOK, PipeCreate PROVE TypeOK'
<1>1. NewRing \in Rings
  BY DEF NewRing, Rings
<1>2. rings' \in [Ids -> Rings \union {NoRing}]
  BY <1>1, CreateFacts DEF TypeOK, Created
<1>3. nextId' \in 1 .. MaxPipes + 1
  BY CreateFacts, PipeAssumption DEF Ids
<1> QED BY <1>2, <1>3, CreateFacts DEF TypeOK

LEMMA RingTyped ==
  ASSUME TypeOK, NEW p \in Ids, rings[p] # NoRing
  PROVE  /\ rings[p] \in Rings
         /\ rings[p].buffer \in Seq(1 .. MaxBytes)
         /\ Len(rings[p].buffer) \in Nat
         /\ rings[p].open \subseteq Ends
<1>1. rings[p] \in Rings
  BY DEF TypeOK
<1>2. rings[p].buffer \in Seq(1 .. MaxBytes) /\ rings[p].open \subseteq Ends
  BY <1>1 DEF Rings
<1> QED BY <1>1, <1>2, LenProperties

(* What FdWrite and FdRead do to the ring and the counters of one pipe.    *)
Wrote(p, k) ==
  /\ rings[p] # NoRing
  /\ Len(rings[p].buffer) <= Capacity => Len(rings[p].buffer) + k <= Capacity
  /\ sent[p] + k <= MaxBytes
  /\ sent' = [sent EXCEPT ![p] = sent[p] + k]
  /\ UNCHANGED <<taken, given, lost>>
  /\ rings' = [rings EXCEPT ![p] =
       [rings[p] EXCEPT !.buffer = rings[p].buffer \o NextBytes(p, k)]]

Took(p, k) ==
  /\ rings[p] # NoRing
  /\ k \in 1 .. Len(rings[p].buffer)
  /\ taken' = [taken EXCEPT ![p] = rings[p].buffer[k]]
  /\ CopiedOut(p, SubSeq(rings[p].buffer, 1, k))
  /\ sent' = sent
  /\ rings' = [rings EXCEPT ![p] =
       [rings[p] EXCEPT !.buffer = SubSeq(rings[p].buffer, k + 1, Len(rings[p].buffer))]]

LEMMA WriteFacts ==
  ASSUME TypeOK, NEW f \in Fds, NEW n \in 1 .. Capacity + 1, FdWrite(f, n),
         RingInOrder
  PROVE  \E p \in Ids, k \in Nat : Wrote(p, k)
<1> DEFINE p == fds.entries[f].pipe
           k == Accepted(rings[p], n)
<1>1. p \in Ids
  BY DEF FdWrite, IsPipe, PipeEnds
<1>2. rings[p] # NoRing
  BY DEF FdWrite
<1>3. Len(rings[p].buffer) \in Nat /\ Len(rings[p].buffer) <= Capacity
  BY <1>1, <1>2, RingTyped DEF RingInOrder
<1>4. k \in Nat /\ Len(rings[p].buffer) + k <= Capacity
  <2> DEFINE len == Len(rings[p].buffer)
  <2>1. k = IF Capacity - len < n THEN Capacity - len ELSE n
    BY DEF Accepted
  <2>2. len \in Nat /\ len <= Capacity /\ Capacity \in Nat /\ n \in Nat
    BY <1>3, PipeAssumption
  <2> HIDE DEF len, k
  <2>3. k \in Nat /\ len + k <= Capacity
    BY <2>1, <2>2
  <2> QED BY <2>3 DEF len
<1>5. Wrote(p, k)
  BY <1>2, <1>4 DEF FdWrite, Wrote
<1> QED BY <1>1, <1>4, <1>5

LEMMA ReadFacts ==
  ASSUME TypeOK, NEW f \in Fds, NEW n \in 1 .. Capacity + 1, FdRead(f, n)
  PROVE  \/ UNCHANGED <<rings, taken, given, lost, sent>>
         \/ \E p \in Ids : \E k \in Nat : Took(p, k)
<1> DEFINE p == fds.entries[f].pipe
           len == Len(rings[p].buffer)
           k == IF len < n THEN len ELSE n
<1>1. p \in Ids
  BY DEF FdRead, IsPipe, PipeEnds
<1>2. rings[p] # NoRing /\ sent' = sent
  BY DEF FdRead
<1>3. len \in Nat
  BY <1>1, <1>2, RingTyped
<1>4. CASE k = 0
  BY <1>2, <1>4 DEF FdRead
<1>5. CASE k # 0
  <2>1. k \in 1 .. len /\ k \in Nat
    BY <1>3, <1>5
  <2>2. Took(p, k)
    BY <1>2, <1>5, <2>1 DEF FdRead, Took
  <2> QED BY <1>1, <2>1, <2>2
<1> QED BY <1>4, <1>5

LEMMA RunOfBytes ==
  ASSUME NEW s \in Nat, NEW k \in Nat, NEW m \in Nat, s + k <= m, NEW c,
         c = [j \in 1 .. k |-> s + j]
  PROVE  c \in Seq(1 .. m) /\ Len(c) = k /\ \A j \in 1 .. k : c[j] = s + j
<1>1. \A j \in 1 .. k : s + j \in 1 .. m
  OBVIOUS
<1>2. c \in [1 .. k -> 1 .. m]
  BY <1>1
<1>3. c \in Seq(1 .. m)
  BY <1>2
<1>4. Len(c) = k
  BY <1>2, <1>3
<1> QED BY <1>3, <1>4

LEMMA NewBuffer ==
  ASSUME NEW r \in Rings, NEW b \in Seq(1 .. MaxBytes)
  PROVE  /\ [r EXCEPT !.buffer = b] \in Rings
         /\ [r EXCEPT !.buffer = b].buffer = b
         /\ [r EXCEPT !.buffer = b].open = r.open
BY DEF Rings

(* The stream of a ring that holds b is in order.                          *)
InOrder(b, s, t) ==
  Len(b) <= Capacity /\ Len(b) = s - t /\ \A j \in 1 .. Len(b) : b[j] = t + j

LEMMA StreamByPipe ==
  RingInOrder <=>
    \A p \in Ids : rings[p] # NoRing => InOrder(rings[p].buffer, sent[p], taken[p])
BY DEF RingInOrder, InOrder

(* The ring and the counters after a write keep the stream in order.       *)
LEMMA WroteOk ==
  ASSUME TypeOK, RingInOrder, NEW p \in Ids, NEW k \in Nat, Wrote(p, k)
  PROVE  /\ rings' \in [Ids -> Rings \union {NoRing}]
         /\ sent' \in [Ids -> 0 .. MaxBytes]
         /\ rings'[p] \in Rings /\ rings'[p].open = rings[p].open
         /\ RingInOrder'
<1> DEFINE b == rings[p].buffer
           c == NextBytes(p, k)
           s == sent[p]
           t == taken[p]
<1>1. s \in Nat /\ t \in Nat /\ s + k <= MaxBytes /\ MaxBytes \in Nat
  BY PipeAssumption DEF TypeOK, Wrote
<1>2. /\ b \in Seq(1 .. MaxBytes) /\ Len(b) \in Nat /\ Len(b) <= Capacity
      /\ Len(b) = s - t /\ \A j \in 1 .. Len(b) : b[j] = t + j
      /\ Len(b) + k <= Capacity
  BY RingTyped DEF Wrote, RingInOrder
<1>3. c \in Seq(1 .. MaxBytes) /\ Len(c) = k /\ \A j \in 1 .. k : c[j] = s + j
  <2>1. c = [j \in 1 .. k |-> s + j]
    BY DEF NextBytes
  <2> HIDE DEF s, c
  <2> QED BY <1>1, <2>1, RunOfBytes
<1>4. /\ b \o c \in Seq(1 .. MaxBytes)
      /\ Len(b \o c) = Len(b) + k
      /\ \A i \in 1 .. Len(b) + k : (b \o c)[i] = IF i <= Len(b) THEN b[i] ELSE c[i - Len(b)]
  <2> HIDE DEF b, c
  <2> QED BY <1>2, <1>3, ConcatProperties
<1>5. rings[p] \in Rings /\ rings[p] # NoRing
  BY RingTyped DEF Wrote
<1>6. /\ rings'[p] = [rings[p] EXCEPT !.buffer = b \o c]
      /\ \A q \in Ids \ {p} : rings'[q] = rings[q] /\ sent'[q] = sent[q]
      /\ sent'[p] = s + k /\ taken' = taken
      /\ sent' = [sent EXCEPT ![p] = s + k]
      /\ rings' = [rings EXCEPT ![p] = [rings[p] EXCEPT !.buffer = b \o c]]
  BY DEF Wrote, TypeOK
<1>7. rings'[p] \in Rings /\ rings'[p].buffer = b \o c /\ rings'[p].open = rings[p].open
  <2> DEFINE d == b \o c
  <2>1. d \in Seq(1 .. MaxBytes) /\ rings'[p] = [rings[p] EXCEPT !.buffer = d]
    BY <1>4, <1>6
  <2> HIDE DEF d
  <2>2. /\ rings'[p] \in Rings
        /\ rings'[p].buffer = d /\ rings'[p].open = rings[p].open
    BY <1>5, <2>1, NewBuffer
  <2> QED BY <2>2 DEF d
<1>8. rings' \in [Ids -> Rings \union {NoRing}]
  BY <1>6, <1>7 DEF TypeOK
<1>9. sent' \in [Ids -> 0 .. MaxBytes]
  BY <1>1, <1>6 DEF TypeOK
<1> DEFINE d == b \o c
<1> HIDE DEF b, c, s, t
<1>10. InOrder(d, s + k, t)
  <2>1. \A i \in 1 .. Len(b) + k : i > Len(b) => i - Len(b) \in 1 .. k
    BY <1>2
  <2>2. \A i \in 1 .. Len(b) + k : (b \o c)[i] = t + i
    BY <1>1, <1>2, <1>3, <1>4, <2>1
  <2>3. Len(d) = Len(b) + k /\ \A i \in 1 .. Len(b) + k : d[i] = t + i
    BY <1>4, <2>2
  <2> HIDE DEF d
  <2> QED BY <1>1, <1>2, <2>3 DEF InOrder
<1>11. RingInOrder'
  <2> HIDE DEF d
  <2>1. rings'[p].buffer = d /\ sent'[p] = s + k /\ taken'[p] = t
    BY <1>6, <1>7 DEF d, t
  <2>2. \A q \in Ids : rings'[q] # NoRing => InOrder(rings'[q].buffer, sent'[q], taken'[q])
    BY <1>6, <1>10, <2>1, StreamByPipe
  <2> QED BY <2>2 DEF RingInOrder, InOrder
<1> QED BY <1>7, <1>8, <1>9, <1>11

(* The bytes handed out so far, for one pipe: g given, L lost, t drained.  *)
Handed(g, L, t) ==
  /\ \A i, j \in 1 .. Len(g) : i < j => g[i] < g[j]
  /\ {g[i] : i \in 1 .. Len(g)} = (1 .. t) \ L
  /\ L \subseteq 1 .. t

LEMMA HandedByPipe == HandedOut <=> \A p \in Ids : Handed(given[p], lost[p], taken[p])
BY DEF HandedOut, Handed

LEMMA KeepsHanded ==
  ASSUME HandedOut, UNCHANGED <<taken, given, lost>>
  PROVE  HandedOut'
BY DEF HandedOut

LEMMA HandedOn ==
  ASSUME NEW S, S \subseteq Nat, NEW g \in Seq(S), NEW L, NEW t \in Nat, NEW k \in Nat,
         Handed(g, L, t), NEW run \in Seq(S), Len(run) = k,
         \A i \in 1 .. k : run[i] = t + i, NEW R, R = {run[i] : i \in DOMAIN run}
  PROVE  /\ Handed(g \o run, L, t + k)
         /\ Handed(g, L \union R, t + k)
<1> DEFINE n == Len(g)
           c == g \o run
<1>1. n \in Nat /\ \A i \in 1 .. n : g[i] \in 1 .. t /\ g[i] \notin L
  <2>1. n \in Nat
    BY LenProperties
  <2> QED BY <2>1 DEF Handed
<1>2. /\ Len(c) = n + k
      /\ \A i \in 1 .. n + k : c[i] = IF i <= n THEN g[i] ELSE run[i - n]
  BY ConcatProperties
<1>3. DOMAIN run = 1 .. k
  BY LenProperties
<1>4. R = (t + 1) .. (t + k)
  <2>1. \A b \in (t + 1) .. (t + k) : b - t \in 1 .. k /\ run[b - t] = b
    OBVIOUS
  <2>2. \A b \in R : b \in (t + 1) .. (t + k)
    BY <1>3
  <2>3. \A b \in (t + 1) .. (t + k) : b \in R
    BY <1>3, <2>1
  <2> QED BY <2>2, <2>3
<1>5. L \subseteq 1 .. t /\ {g[i] : i \in 1 .. n} = (1 .. t) \ L
      /\ \A i, j \in 1 .. n : i < j => g[i] < g[j]
  BY DEF Handed
<1> HIDE DEF c, n
<1>6. \A i \in 1 .. n + k : i > n => i - n \in 1 .. k /\ c[i] = t + (i - n)
  BY <1>1, <1>2
<1>7. \A i, j \in 1 .. Len(c) : i < j => c[i] < c[j]
  <2> SUFFICES ASSUME NEW i \in 1 .. n + k, NEW j \in 1 .. n + k, i < j
               PROVE  c[i] < c[j]
    BY <1>2
  <2>1. CASE j <= n
    <3>1. i \in 1 .. n /\ j \in 1 .. n /\ i <= n
      BY <1>1, <2>1
    <3>2. c[i] = g[i] /\ c[j] = g[j]
      BY <1>2, <2>1, <3>1
    <3>3. g[i] < g[j]
      BY <1>5, <3>1
    <3> QED BY <3>2, <3>3
  <2>2. CASE i <= n /\ j > n
    <3>1. c[i] = g[i] /\ i \in 1 .. n /\ c[j] = t + (j - n) /\ j - n \in 1 .. k
      BY <1>1, <1>2, <1>6, <2>2
    <3>2. g[i] \in 1 .. t
      BY <1>1, <3>1
    <3> QED BY <1>1, <3>1, <3>2
  <2>3. CASE i > n
    <3>1. c[i] = t + (i - n) /\ c[j] = t + (j - n)
      BY <1>1, <1>6, <2>3
    <3> QED BY <1>1, <3>1
  <2> QED BY <1>1, <2>1, <2>2, <2>3
<1>8. {c[i] : i \in 1 .. Len(c)} = (1 .. t + k) \ L
  <2>1. \A i \in 1 .. n + k : c[i] \in (1 .. t + k) \ L
    <3> SUFFICES ASSUME NEW i \in 1 .. n + k PROVE c[i] \in (1 .. t + k) \ L
      OBVIOUS
    <3>1. CASE i <= n
      <4>1. c[i] = g[i] /\ i \in 1 .. n
        BY <1>1, <1>2, <3>1
      <4> QED BY <1>1, <4>1
    <3>2. CASE i > n
      <4>1. c[i] = t + (i - n) /\ i - n \in 1 .. k
        BY <1>1, <1>6, <3>2
      <4>2. c[i] \in 1 .. t + k /\ c[i] > t /\ c[i] \in Nat
        BY <1>1, <4>1
      <4> QED BY <1>5, <4>2
    <3> QED BY <1>1, <3>1, <3>2
  <2>2. \A b \in (1 .. t + k) \ L : \E i \in 1 .. n + k : c[i] = b
    <3> SUFFICES ASSUME NEW b \in 1 .. t + k, b \notin L
                 PROVE  \E i \in 1 .. n + k : c[i] = b
      OBVIOUS
    <3>1. CASE b <= t
      <4>1. b \in (1 .. t) \ L
        BY <3>1
      <4>2. PICK i \in 1 .. n : g[i] = b
        BY <1>5, <4>1
      <4>3. i \in 1 .. n + k /\ c[i] = b
        BY <1>1, <1>2, <4>2
      <4> QED BY <4>3
    <3>2. CASE b > t
      <4>1. n + (b - t) \in 1 .. n + k /\ n + (b - t) > n /\ (n + (b - t)) - n = b - t
        BY <1>1, <3>2
      <4>2. c[n + (b - t)] = t + (b - t)
        BY <1>6, <4>1
      <4> QED BY <4>1, <4>2
    <3> QED BY <3>1, <3>2
  <2> QED BY <1>2, <2>1, <2>2
<1>9. Handed(c, L, t + k)
  <2>1. L \subseteq 1 .. t + k
    BY <1>5
  <2> QED BY <1>7, <1>8, <2>1 DEF Handed
<1>10. Handed(g, L \union R, t + k)
  <2>1. L \union R \subseteq 1 .. t + k
    <3>1. \A x \in L : x \in 1 .. t + k
      BY <1>5
    <3>2. \A x \in R : x \in 1 .. t + k
      BY <1>4
    <3> QED BY <3>1, <3>2
  <2>2. (1 .. t + k) \ (L \union R) = (1 .. t) \ L
    BY <1>4
  <2> QED BY <1>5, <2>1, <2>2 DEF Handed, n
<1> QED BY <1>9, <1>10 DEF c

LEMMA TookOk ==
  ASSUME TypeOK, RingInOrder, HandedOut, NEW p \in Ids, NEW k \in Nat, Took(p, k)
  PROVE  /\ rings' \in [Ids -> Rings \union {NoRing}]
         /\ taken' \in [Ids -> 0 .. MaxBytes]
         /\ given' \in [Ids -> Seq(1 .. MaxBytes)]
         /\ lost' \in [Ids -> SUBSET (1 .. MaxBytes)]
         /\ rings'[p] \in Rings /\ rings'[p].open = rings[p].open
         /\ \A q \in Ids \ {p} : given'[q] = given[q] /\ lost'[q] = lost[q]
         /\ RingInOrder' /\ HandedOut'
<1> DEFINE b == rings[p].buffer
           n == Len(b)
           c == SubSeq(b, k + 1, n)
           s == sent[p]
           t == taken[p]
<1>1. s \in Nat /\ t \in Nat /\ MaxBytes \in Nat /\ Capacity \in Nat
  BY PipeAssumption DEF TypeOK
<1>2. /\ b \in Seq(1 .. MaxBytes) /\ n \in Nat /\ n <= Capacity
      /\ n = s - t /\ \A j \in 1 .. n : b[j] = t + j
      /\ k \in 1 .. n
  BY RingTyped DEF Took, RingInOrder
<1>3. b[k] \in 1 .. MaxBytes /\ b[k] = t + k
  BY <1>2, ElementOfSeq
<1>4. rings[p] \in Rings /\ rings[p] # NoRing
  BY RingTyped DEF Took
<1>5. /\ rings'[p] = [rings[p] EXCEPT !.buffer = c]
      /\ \A q \in Ids \ {p} : rings'[q] = rings[q] /\ taken'[q] = taken[q]
      /\ taken'[p] = b[k] /\ sent' = sent
      /\ taken' = [taken EXCEPT ![p] = b[k]]
      /\ rings' = [rings EXCEPT ![p] = [rings[p] EXCEPT !.buffer = c]]
  BY DEF Took, TypeOK
<1> HIDE DEF n
<1>6. /\ c \in Seq(1 .. MaxBytes)
      /\ Len(c) = n - k
      /\ \A i \in 1 .. n - k : c[i] = b[k + i]
  <2>1. \A i \in k + 1 .. n : b[i] \in 1 .. MaxBytes
    <3> HIDE DEF b
    <3>1. \A i \in k + 1 .. n : i \in 1 .. Len(b)
      BY <1>2 DEF n
    <3> QED BY <1>2, <3>1, ElementOfSeq
  <2>2. k + 1 \in Int /\ n \in Int
    BY <1>2
  <2>3. /\ c \in Seq(1 .. MaxBytes)
        /\ Len(c) = IF k + 1 <= n THEN n - (k + 1) + 1 ELSE 0
        /\ \A i \in 1 .. n - (k + 1) + 1 : c[i] = b[(k + 1) + i - 1]
    BY <2>1, <2>2, SubSeqProperties
  <2> HIDE DEF b, c
  <2> QED BY <1>2, <2>3
<1>7. rings'[p] \in Rings /\ rings'[p].buffer = c /\ rings'[p].open = rings[p].open
  <2> HIDE DEF b, c
  <2> QED BY <1>4, <1>5, <1>6, NewBuffer
<1>8. rings' \in [Ids -> Rings \union {NoRing}]
  BY <1>5, <1>7 DEF TypeOK
<1>9. taken' \in [Ids -> 0 .. MaxBytes]
  BY <1>1, <1>3, <1>5 DEF TypeOK
<1> HIDE DEF b, c, s, t
<1>10. /\ Len(c) <= Capacity
       /\ Len(c) = s - (t + k)
       /\ \A i \in 1 .. Len(c) : c[i] = (t + k) + i
  BY <1>1, <1>2, <1>6
<1>11. /\ Len(rings'[p].buffer) <= Capacity
       /\ Len(rings'[p].buffer) = sent'[p] - taken'[p]
       /\ \A j \in 1 .. Len(rings'[p].buffer) : rings'[p].buffer[j] = taken'[p] + j
  BY <1>3, <1>5, <1>7, <1>10 DEF s
<1>12. RingInOrder'
  <2>1. InOrder(rings'[p].buffer, sent'[p], taken'[p])
    BY <1>11 DEF InOrder
  <2>2. \A q \in Ids : rings'[q] # NoRing => InOrder(rings'[q].buffer, sent'[q], taken'[q])
    BY <1>5, <2>1, StreamByPipe
  <2> QED BY <2>2 DEF RingInOrder, InOrder
<1> DEFINE run == SubSeq(b, 1, k)
           g == given[p]
           L == lost[p]
           R == {run[i] : i \in DOMAIN run}
<1>13. run \in Seq(1 .. MaxBytes) /\ Len(run) = k /\ \A i \in 1 .. k : run[i] = t + i
  <2>1. \A i \in 1 .. k : i \in 1 .. Len(b) /\ b[i] = t + i
    BY <1>2 DEF n
  <2>2. \A i \in 1 .. k : b[i] \in 1 .. MaxBytes
    BY <1>2, <2>1, ElementOfSeq
  <2>3. k \in Int /\ 1 \in Int /\ 1 <= k
    BY <1>2
  <2>4. /\ run \in Seq(1 .. MaxBytes)
        /\ Len(run) = IF 1 <= k THEN k - 1 + 1 ELSE 0
        /\ \A i \in 1 .. k - 1 + 1 : run[i] = b[1 + i - 1]
    BY <2>2, <2>3, SubSeqProperties
  <2> HIDE DEF run
  <2> QED BY <2>1, <2>3, <2>4
<1>14. /\ g \in Seq(1 .. MaxBytes) /\ L \subseteq 1 .. MaxBytes /\ Handed(g, L, t)
       /\ given \in [Ids -> Seq(1 .. MaxBytes)] /\ lost \in [Ids -> SUBSET (1 .. MaxBytes)]
  BY HandedByPipe DEF TypeOK, t
<1>15. \/ given' = [given EXCEPT ![p] = g \o run] /\ lost' = lost
       \/ given' = given /\ lost' = [lost EXCEPT ![p] = L \union R]
  BY DEF Took, CopiedOut, b
<1> HIDE DEF run, g, L
<1>16. Handed(g \o run, L, t + k) /\ Handed(g, L \union R, t + k)
  <2> DEFINE S == 1 .. MaxBytes
  <2>1. S \subseteq Nat /\ g \in Seq(S) /\ run \in Seq(S)
    BY <1>1, <1>13, <1>14
  <2> HIDE DEF S
  <2>2. t \in Nat /\ k \in Nat /\ Handed(g, L, t)
    BY <1>1, <1>14
  <2>3. Len(run) = k /\ \A i \in 1 .. k : run[i] = t + i
    BY <1>13
  <2>4. R = {run[i] : i \in DOMAIN run}
    OBVIOUS
  <2> HIDE DEF R
  <2> QED BY <2>1, <2>2, <2>3, <2>4, HandedOn
<1>17. g \o run \in Seq(1 .. MaxBytes)
  BY <1>13, <1>14, ConcatProperties
<1>18. R \subseteq 1 .. MaxBytes
  BY <1>13, ElementOfSeq, LenProperties
<1> HIDE DEF R
<1>19. /\ given' \in [Ids -> Seq(1 .. MaxBytes)]
       /\ lost' \in [Ids -> SUBSET (1 .. MaxBytes)]
       /\ \A q \in Ids \ {p} : given'[q] = given[q] /\ lost'[q] = lost[q]
       /\ \/ given'[p] = g \o run /\ lost'[p] = L
          \/ given'[p] = g /\ lost'[p] = L \union R
  BY <1>14, <1>15, <1>17, <1>18 DEF g, L
<1>20. HandedOut'
  <2>1. taken'[p] = t + k /\ \A q \in Ids \ {p} : taken'[q] = taken[q]
    BY <1>3, <1>5
  <2>2. Handed(given'[p], lost'[p], taken'[p])
    BY <1>16, <1>19, <2>1
  <2>3. \A q \in Ids \ {p} : Handed(given'[q], lost'[q], taken'[q])
    BY <1>19, <2>1, HandedByPipe
  <2>4. \A q \in Ids : Handed(given'[q], lost'[q], taken'[q])
    BY <2>2, <2>3
  <2> QED BY <2>4 DEF HandedOut, Handed
<1> QED BY <1>7, <1>8, <1>9, <1>12, <1>19, <1>20

-----------------------------------------------------------------------------
(* The inductive invariant: the properties, and what is true of the pipes  *)
(* that have no ring.                                                      *)
Unused ==
  \A p \in Ids :
    /\ p >= nextId => rings[p] = NoRing
    /\ rings[p] = NoRing =>
         sent[p] = 0 /\ taken[p] = 0 /\ given[p] = <<>> /\ lost[p] = {}

PipesInv == TypeOK /\ Unused /\ RingInOrder /\ HandedOut /\ EndsMatchDescriptors

LEMMA InitPipes == Init => PipesInv
<1> SUFFICES ASSUME Init PROVE PipesInv
  OBVIOUS
<1>1. Unused /\ RingInOrder /\ OpenEndsHaveDescriptors
  BY DEF Init, Unused, RingInOrder, OpenEndsHaveDescriptors
<1>4. HandedOut
  <2>1. \A p \in Ids : given[p] = <<>> /\ Len(given[p]) = 0 /\ lost[p] = {} /\ taken[p] = 0
    BY DEF Init
  <2>2. 1 .. 0 = {}
    OBVIOUS
  <2> QED BY <2>1, <2>2 DEF HandedOut
<1>2. \A f \in Fds : fds.entries[f] \in {Stdin, Stdout, NoFd}
  BY DEF Init, NewWithStdio
<1>3. DescriptorsResolve
  BY <1>2, KindAssumption DEF DescriptorsResolve, IsPipe, Kinds
<1> QED BY <1>1, <1>3, <1>4, InitType DEF PipesInv, EndsMatchDescriptors

LEMMA CreatePipes == ASSUME PipesInv, PipeCreate PROVE PipesInv'
<1>1. TypeOK /\ TypeOK'
  BY CreateType DEF PipesInv
<1>2. /\ nextId \in Ids /\ nextId' = nextId + 1 /\ sent' = sent /\ taken' = taken
      /\ given' = given /\ lost' = lost
  BY <1>1, CreateFacts
<1>3. CASE fds'.entries = fds.entries /\ rings' = rings
  <2>1. Unused'
    BY <1>2, <1>3 DEF PipesInv, Unused, Ids
  <2>2. RingInOrder'
    BY <1>2, <1>3 DEF PipesInv, RingInOrder
  <2>3. EndsMatchDescriptors'
    BY <1>3 DEF PipesInv, EndsMatchDescriptors, OpenEndsHaveDescriptors,
                DescriptorsResolve, IsPipe
  <2> QED BY <1>1, <1>2, <2>1, <2>2, <2>3, KeepsHanded DEF PipesInv
<1>4. CASE Created
  <2>1. PICK f \in Fds, g \in Fds :
          /\ f # g
          /\ fds.entries[f] = NoFd /\ fds.entries[g] = NoFd
          /\ fds'.entries = [fds.entries EXCEPT ![f] = End(nextId, "read"),
                                                ![g] = End(nextId, "write")]
          /\ rings' = [rings EXCEPT ![nextId] = NewRing]
    BY <1>4 DEF Created
  <2>2. fds.entries \in [Fds -> Kinds \union {NoFd}]
    BY <1>1 DEF TypeOK, Tables
  <2>3. /\ fds'.entries[f] = End(nextId, "read")
        /\ fds'.entries[g] = End(nextId, "write")
        /\ \A h \in Fds \ {f, g} : fds'.entries[h] = fds.entries[h]
    BY <2>1, <2>2
  <2>4. /\ rings'[nextId] = NewRing
        /\ \A p \in Ids \ {nextId} : rings'[p] = rings[p]
    BY <1>1, <1>2, <2>1 DEF TypeOK
  <2>5. NewRing \in Rings /\ NewRing # NoRing /\ NewRing.buffer = <<>> /\ NewRing.open = Ends
    <3>1. NewRing \in Rings
      BY DEF NewRing, Rings
    <3>2. NewRing.buffer = <<>> /\ NewRing.open = Ends
      BY DEF NewRing
    <3> QED BY <3>1, <3>2, KindAssumption
  <2>6. rings[nextId] = NoRing /\ sent[nextId] = 0 /\ taken[nextId] = 0
    BY <1>2 DEF PipesInv, Unused, Ids
  <2>7. Unused'
    <3>1. \A p \in Ids : p >= nextId' => p >= nextId /\ p # nextId
      BY <1>2 DEF Ids
    <3> QED BY <1>2, <2>4, <2>5, <3>1 DEF PipesInv, Unused
  <2>8. RingInOrder'
    <3>1. Len(NewRing.buffer) = 0 /\ Capacity \in Nat
      BY <2>5, PipeAssumption
    <3>2. InOrder(NewRing.buffer, sent'[nextId], taken'[nextId])
      BY <1>2, <2>6, <3>1 DEF InOrder
    <3>3. \A p \in Ids : rings'[p] # NoRing => InOrder(rings'[p].buffer, sent'[p], taken'[p])
      BY <1>2, <2>4, <3>2, StreamByPipe DEF PipesInv
    <3> QED BY <3>3 DEF RingInOrder, InOrder
  <2>9. OpenEndsHaveDescriptors'
    <3> SUFFICES ASSUME NEW p \in Ids, rings'[p] # NoRing, NEW e \in rings'[p].open
                 PROVE  \E h \in Fds : fds'.entries[h] = End(p, e)
      BY DEF OpenEndsHaveDescriptors
    <3>1. CASE p = nextId
      BY <2>3, <2>4, <2>5, <3>1 DEF Ends
    <3>2. CASE p # nextId
      <4>1. PICK h \in Fds : fds.entries[h] = End(p, e)
        BY <2>4, <3>2 DEF PipesInv, EndsMatchDescriptors, OpenEndsHaveDescriptors
      <4>2. e \in Ends
        BY <1>1, <2>4, <3>2, RingTyped
      <4>3. h \notin {f, g}
        BY <2>1, <4>1, <4>2, EndsAreKinds
      <4> QED BY <2>3, <4>1, <4>3
    <3> QED BY <3>1, <3>2
  <2>10. DescriptorsResolve'
    <3> SUFFICES ASSUME NEW h \in Fds, fds'.entries[h] \in PipeEnds
                 PROVE  rings'[fds'.entries[h].pipe] # NoRing
      BY DEF DescriptorsResolve, IsPipe
    <3>1. CASE h \in {f, g}
      BY <2>3, <2>4, <2>5, <3>1 DEF End
    <3>2. CASE h \notin {f, g}
      <4>1. fds.entries[h] \in PipeEnds /\ fds.entries[h].pipe \in Ids
            /\ rings[fds.entries[h].pipe] # NoRing
        BY <2>3, <3>2 DEF PipesInv, EndsMatchDescriptors, DescriptorsResolve, IsPipe, PipeEnds
      <4> QED BY <2>3, <2>4, <2>6, <3>2, <4>1
    <3> QED BY <3>1, <3>2
  <2> QED BY <1>1, <1>2, <2>7, <2>8, <2>9, <2>10, KeepsHanded DEF PipesInv, EndsMatchDescriptors
<1> QED BY <1>1, <1>3, <1>4, CreateFacts

(* A step that changes one ring and keeps its ends.                        *)
LEMMA SameEnds ==
  ASSUME PipesInv, NEW p \in Ids, rings[p] # NoRing,
         rings'[p] \in Rings, rings'[p].open = rings[p].open,
         \A q \in Ids \ {p} : rings'[q] = rings[q], fds' = fds
  PROVE  EndsMatchDescriptors' /\ \A q \in Ids : rings'[q] = NoRing <=> rings[q] = NoRing
<1>1. \A q \in Ids : rings'[q] = NoRing <=> rings[q] = NoRing
  BY KindAssumption
<1>2. OpenEndsHaveDescriptors'
  BY <1>1 DEF PipesInv, EndsMatchDescriptors, OpenEndsHaveDescriptors
<1>3. \A f \in Fds : IsPipe(f) => fds.entries[f].pipe \in Ids
  BY DEF IsPipe, PipeEnds
<1>4. DescriptorsResolve'
  BY <1>1, <1>3 DEF PipesInv, EndsMatchDescriptors, DescriptorsResolve, IsPipe
<1> QED BY <1>1, <1>2, <1>4 DEF EndsMatchDescriptors

LEMMA WritePipes ==
  ASSUME PipesInv, NEW f \in Fds, NEW n \in 1 .. Capacity + 1, FdWrite(f, n)
  PROVE  PipesInv'
<1>1. /\ TypeOK /\ RingInOrder /\ fds' = fds /\ nextId' = nextId
      /\ UNCHANGED <<taken, given, lost>>
  BY DEF PipesInv, FdWrite
<1>2. PICK p \in Ids, k \in Nat : Wrote(p, k)
  BY <1>1, WriteFacts
<1>3. /\ rings' \in [Ids -> Rings \union {NoRing}] /\ sent' \in [Ids -> 0 .. MaxBytes]
      /\ rings'[p] \in Rings /\ rings'[p].open = rings[p].open
      /\ RingInOrder'
  BY <1>1, <1>2, WroteOk
<1>4. /\ rings[p] # NoRing
      /\ \A q \in Ids \ {p} : rings'[q] = rings[q] /\ sent'[q] = sent[q]
  BY <1>1, <1>2 DEF Wrote, TypeOK
<1>5. EndsMatchDescriptors' /\ \A q \in Ids : rings'[q] = NoRing <=> rings[q] = NoRing
  BY <1>1, <1>3, <1>4, SameEnds
<1>6. Unused'
  BY <1>1, <1>4, <1>5 DEF PipesInv, Unused
<1>7. TypeOK'
  BY <1>1, <1>3 DEF TypeOK
<1> QED BY <1>1, <1>3, <1>5, <1>6, <1>7, KeepsHanded DEF PipesInv

LEMMA ReadPipes ==
  ASSUME PipesInv, NEW f \in Fds, NEW n \in 1 .. Capacity + 1, FdRead(f, n)
  PROVE  PipesInv'
<1>1. TypeOK /\ RingInOrder /\ HandedOut /\ fds' = fds /\ nextId' = nextId /\ sent' = sent
  BY DEF PipesInv, FdRead
<1>2. CASE UNCHANGED <<rings, taken, given, lost, sent>>
  BY <1>1, <1>2 DEF PipesInv, TypeOK, Unused, RingInOrder, HandedOut, EndsMatchDescriptors,
                    OpenEndsHaveDescriptors, DescriptorsResolve, IsPipe
<1>3. CASE \E p \in Ids : \E k \in Nat : Took(p, k)
  <2>1. PICK p \in Ids : \E k \in Nat : Took(p, k)
    BY <1>3
  <2>2. PICK k \in Nat : Took(p, k)
    BY <2>1
  <2>3. /\ rings' \in [Ids -> Rings \union {NoRing}] /\ taken' \in [Ids -> 0 .. MaxBytes]
        /\ given' \in [Ids -> Seq(1 .. MaxBytes)]
        /\ lost' \in [Ids -> SUBSET (1 .. MaxBytes)]
        /\ rings'[p] \in Rings /\ rings'[p].open = rings[p].open
        /\ \A q \in Ids \ {p} : given'[q] = given[q] /\ lost'[q] = lost[q]
        /\ RingInOrder' /\ HandedOut'
    BY <1>1, <2>2, TookOk
  <2>4. /\ rings[p] # NoRing
        /\ \A q \in Ids \ {p} : rings'[q] = rings[q] /\ taken'[q] = taken[q]
    BY <1>1, <2>2 DEF Took, TypeOK
  <2>5. EndsMatchDescriptors' /\ \A q \in Ids : rings'[q] = NoRing <=> rings[q] = NoRing
    BY <1>1, <2>3, <2>4, SameEnds
  <2>6. Unused'
    BY <1>1, <2>3, <2>4, <2>5 DEF PipesInv, Unused
  <2>7. TypeOK'
    BY <1>1, <2>3 DEF TypeOK
  <2> QED BY <2>3, <2>5, <2>6, <2>7 DEF PipesInv
<1> QED BY <1>1, <1>2, <1>3, ReadFacts

(* close_read and close_write: the end of f goes, everything else stays.   *)
LEMMA EndClosedFacts ==
  ASSUME PipesInv, NEW f \in Fds
  PROVE  /\ EndClosed(f) \in [Ids -> Rings \union {NoRing}]
         /\ \A p \in Ids :
              /\ EndClosed(f)[p] = NoRing <=> rings[p] = NoRing
              /\ rings[p] # NoRing =>
                   /\ EndClosed(f)[p].buffer = rings[p].buffer
                   /\ EndClosed(f)[p].open =
                        {e \in rings[p].open : fds.entries[f] # End(p, e)}
<1>1. rings \in [Ids -> Rings \union {NoRing}]
  BY DEF PipesInv, TypeOK
<1>2. \A p \in Ids : rings[p] # NoRing => rings[p].open \subseteq Ends /\ rings[p] \in Rings
  BY RingTyped DEF PipesInv
<1>3. CASE ~ IsPipe(f)
  <2>1. EndClosed(f) = rings
    BY <1>3 DEF EndClosed
  <2>2. \A p \in Ids, e \in Ends : fds.entries[f] # End(p, e)
    BY <1>3, EndsAreKinds DEF IsPipe
  <2> QED BY <1>1, <1>2, <2>1, <2>2
<1>4. CASE IsPipe(f)
  <2> DEFINE q == fds.entries[f].pipe
             d == fds.entries[f].end
             r == [rings[q] EXCEPT !.open = rings[q].open \ {d}]
  <2>1. q \in Ids /\ d \in Ends /\ fds.entries[f] = End(q, d) /\ rings[q] # NoRing
    BY <1>4 DEF IsPipe, PipeEnds, End, PipesInv, EndsMatchDescriptors, DescriptorsResolve
  <2>2. EndClosed(f) = [rings EXCEPT ![q] = r]
    BY <1>4, <2>1 DEF EndClosed
  <2>3. r \in Rings /\ r.buffer = rings[q].buffer /\ r.open = rings[q].open \ {d}
    BY <1>2, <2>1 DEF Rings
  <2> HIDE DEF q, d, r
  <2>4. r # NoRing
    BY <2>3, KindAssumption
  <2>5. \A p \in Ids, e \in Ends : End(q, d) = End(p, e) <=> p = q /\ e = d
    BY DEF End
  <2>6. /\ EndClosed(f)[q] = r /\ \A p \in Ids \ {q} : EndClosed(f)[p] = rings[p]
        /\ EndClosed(f) \in [Ids -> Rings \union {NoRing}]
    BY <1>1, <2>1, <2>2, <2>3
  <2>7. r.open = {e \in rings[q].open : fds.entries[f] # End(q, e)}
    BY <1>2, <2>1, <2>3, <2>5
  <2>8. \A p \in Ids \ {q} : rings[p] # NoRing =>
          rings[p].open = {e \in rings[p].open : fds.entries[f] # End(p, e)}
    BY <1>2, <2>1, <2>5
  <2> QED BY <2>1, <2>3, <2>4, <2>6, <2>7, <2>8
<1> QED BY <1>3, <1>4

(* A step that closes the end of f and changes the table only at f.        *)
LEMMA CloseEnd ==
  ASSUME PipesInv, NEW f \in Fds, rings' = EndClosed(f), fds' \in Tables(Kinds),
         \A h \in Fds \ {f} : fds'.entries[h] = fds.entries[h],
         fds'.entries[f] \in {NoFd} \union {fds.entries[h] : h \in Fds},
         UNCHANGED <<nextId, sent, taken, given, lost>>
  PROVE  PipesInv'
<1>1. TypeOK'
  BY EndClosedFacts DEF PipesInv, TypeOK
<1>2. Unused'
  BY EndClosedFacts DEF PipesInv, Unused
<1>3. RingInOrder'
  BY EndClosedFacts DEF PipesInv, RingInOrder
<1>4. OpenEndsHaveDescriptors'
  <2> SUFFICES ASSUME NEW p \in Ids, rings'[p] # NoRing, NEW e \in rings'[p].open
               PROVE  \E h \in Fds : fds'.entries[h] = End(p, e)
    BY DEF OpenEndsHaveDescriptors
  <2>1. rings[p] # NoRing /\ e \in rings[p].open /\ fds.entries[f] # End(p, e)
    BY EndClosedFacts
  <2>2. PICK h \in Fds : fds.entries[h] = End(p, e)
    BY <2>1 DEF PipesInv, EndsMatchDescriptors, OpenEndsHaveDescriptors
  <2> QED BY <2>1, <2>2
<1>5. DescriptorsResolve'
  <2> SUFFICES ASSUME NEW h \in Fds, fds'.entries[h] \in PipeEnds
               PROVE  rings'[fds'.entries[h].pipe] # NoRing
    BY DEF DescriptorsResolve, IsPipe
  <2>1. NoFd \notin PipeEnds
    BY KindAssumption DEF Kinds
  <2>2. PICK i \in Fds : fds'.entries[h] = fds.entries[i]
    BY <2>1
  <2>3. fds.entries[i].pipe \in Ids /\ rings[fds.entries[i].pipe] # NoRing
    BY <2>2 DEF PipesInv, EndsMatchDescriptors, DescriptorsResolve, IsPipe, PipeEnds
  <2> QED BY <2>2, <2>3, EndClosedFacts
<1> QED BY <1>1, <1>2, <1>3, <1>4, <1>5, KeepsHanded DEF PipesInv, EndsMatchDescriptors

LEMMA ClosePipes == ASSUME PipesInv, NEW f \in Fds, FdClose(f) PROVE PipesInv'
<1>1. /\ fds' \in Tables(Kinds) /\ fds.entries \in [Fds -> Kinds \union {NoFd}]
      /\ fds'.entries = [fds.entries EXCEPT ![f] = NoFd]
  BY ClosedFacts DEF PipesInv, TypeOK, FdClose, Tables
<1> QED BY <1>1, CloseEnd DEF FdClose

LEMMA Dup2Pipes ==
  ASSUME PipesInv, NEW old \in Fds, NEW new \in Fds, FdDup2(old, new)
  PROVE  PipesInv'
<1>1. fds \in Tables(Kinds) /\ fds.entries \in [Fds -> Kinds \union {NoFd}]
  BY DEF PipesInv, TypeOK, Tables
<1>2. /\ fds' \in Tables(Kinds)
      /\ fds.entries[old] = NoFd => fds' = fds
      /\ fds.entries[old] # NoFd =>
           fds'.entries = [fds.entries EXCEPT ![new] = fds.entries[old]]
  BY <1>1, Dup2Facts DEF FdDup2
<1>3. /\ \A h \in Fds \ {new} : fds'.entries[h] = fds.entries[h]
      /\ fds'.entries[new] \in {NoFd} \union {fds.entries[h] : h \in Fds}
  BY <1>1, <1>2
<1> QED BY <1>2, <1>3, CloseEnd DEF FdDup2

LEMMA DupPipes == ASSUME PipesInv, NEW f \in Fds, FdDup(f) PROVE PipesInv'
<1> DEFINE g == FreeFd(fds)
<1>1. /\ fds \in Tables(Kinds) /\ fds.entries \in [Fds -> Kinds \union {NoFd}]
      /\ fds.entries[f] \in Kinds /\ CanOpen(fds)
  BY DEF PipesInv, TypeOK, Tables, FdDup
<1>2. /\ fds' \in Tables(Kinds) /\ g \in Fds /\ fds.entries[g] = NoFd
      /\ fds'.entries = [fds.entries EXCEPT ![g] = fds.entries[f]]
  BY <1>1, OpenedFacts, FreeFdFacts DEF FdDup
<1> HIDE DEF g
<1>3. /\ fds'.entries[g] = fds.entries[f]
      /\ \A h \in Fds \ {g} : fds'.entries[h] = fds.entries[h]
  BY <1>1, <1>2
<1>4. UNCHANGED <<rings, nextId, sent, taken, given, lost>>
  BY DEF FdDup
<1>5. OpenEndsHaveDescriptors'
  <2> SUFFICES ASSUME NEW p \in Ids, rings[p] # NoRing, NEW e \in rings[p].open
               PROVE  \E h \in Fds : fds'.entries[h] = End(p, e)
    BY <1>4 DEF OpenEndsHaveDescriptors
  <2>1. PICK h \in Fds : fds.entries[h] = End(p, e)
    BY DEF PipesInv, EndsMatchDescriptors, OpenEndsHaveDescriptors
  <2>2. End(p, e) # NoFd
    BY RingTyped, EndsAreKinds DEF PipesInv
  <2> QED BY <1>2, <1>3, <2>1, <2>2
<1>6. DescriptorsResolve'
  BY <1>2, <1>3, <1>4 DEF PipesInv, EndsMatchDescriptors, DescriptorsResolve, IsPipe
<1>7. TypeOK' /\ Unused' /\ RingInOrder'
  BY <1>2, <1>4 DEF PipesInv, TypeOK, Unused, RingInOrder
<1> QED BY <1>4, <1>5, <1>6, <1>7, KeepsHanded DEF PipesInv, EndsMatchDescriptors

LEMMA NextPipes == PipesInv /\ [Next]_vars => PipesInv'
<1> SUFFICES ASSUME PipesInv, [Next]_vars PROVE PipesInv'
  OBVIOUS
<1>1. CASE UNCHANGED vars
  BY <1>1 DEF vars, PipesInv, TypeOK, Unused, RingInOrder, HandedOut, EndsMatchDescriptors,
              OpenEndsHaveDescriptors, DescriptorsResolve, IsPipe
<1> QED BY <1>1, CreatePipes, WritePipes, ReadPipes, ClosePipes, DupPipes, Dup2Pipes DEF Next

(* The table, the rings and the counters keep their types.                 *)
THEOREM TypeCorrect == Spec => []TypeOK
<1>1. PipesInv => TypeOK
  BY DEF PipesInv
<1> QED BY <1>1, InitPipes, NextPipes, PTL DEF Spec

(* After any order of PipeCreate (failed ones included), FdClose, FdDup    *)
(* and FdDup2, every open end has a descriptor that can close it and every *)
(* pipe descriptor finds its ring.                                         *)
THEOREM EndsAccounted == Spec => []EndsMatchDescriptors
<1>1. PipesInv => EndsMatchDescriptors
  BY DEF PipesInv
<1> QED BY <1>1, InitPipes, NextPipes, PTL DEF Spec

(* PipeRing holds exactly the bytes accepted and not yet drained, in the   *)
(* order they were written and within its capacity, and a drained byte was *)
(* given to a reader once and in order or went with a read that answered   *)
(* EFAULT.                                                                 *)
THEOREM StreamOrdered == Spec => []StreamInOrder
<1>1. PipesInv => StreamInOrder
  BY DEF PipesInv, StreamInOrder
<1> QED BY <1>1, InitPipes, NextPipes, PTL DEF Spec
=============================================================================
