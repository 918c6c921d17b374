-------------------------- MODULE SupervisorProofs --------------------------
(* The service manager, for every number of services, every dependency     *)
(* graph, every restart policy and every backoff: the order is topological,*)
(* no process is lost, dependents stop first, shutdown is final, and the   *)
(* backoff is the exponential its documentation promises.                  *)
EXTENDS Supervisor, FiniteSetTheorems, FunctionTheorems, WellFoundedInduction, TLAPS

-----------------------------------------------------------------------------
(* Induction over an interval, from the well-foundedness of < on Nat: the  *)
(* statement that is proved by induction is given as a set.                *)
LEMMA LeastElement ==
  ASSUME NEW T \in SUBSET Nat, T # {}
  PROVE  \E x \in T : \A y \in T : x <= y
<1> DEFINE R == OpToRel(<, Nat)
<1>1. IsWellFoundedOn(R, Nat)
  BY NatLessThanWellFounded
<1>2. \A x, y \in Nat : x < y => <<x, y>> \in R
  BY DEF OpToRel
<1> HIDE DEF R
<1>3. PICK x \in T : \A y \in T : ~ (<<y, x>> \in R)
  BY <1>1, WFMin
<1>4. ASSUME NEW y \in T PROVE x <= y
  <2>1. ~ (<<y, x>> \in R)
    BY <1>3
  <2>2. x \in Nat /\ y \in Nat
    OBVIOUS
  <2>3. y < x => <<y, x>> \in R
    BY <1>2, <2>2
  <2> QED BY <2>1, <2>2, <2>3
<1> QED BY <1>4

LEMMA IntervalInduction ==
  ASSUME NEW n \in Nat, NEW S, 0 \in S,
         \A i \in 0 .. n - 1 : i \in S => i + 1 \in S
  PROVE  \A i \in 0 .. n : i \in S
<1> SUFFICES ASSUME NEW j \in 0 .. n, j \notin S PROVE FALSE
  OBVIOUS
<1> DEFINE T == (0 .. n) \ S
<1>1. T \in SUBSET Nat /\ T # {}
  OBVIOUS
<1>2. PICK x \in T : \A y \in T : x <= y
  BY <1>1, LeastElement
<1>3. x # 0 /\ x \in 0 .. n
  OBVIOUS
<1>4. x - 1 \in 0 .. n - 1 /\ x - 1 \notin T
  BY <1>2, <1>3
<1>5. x - 1 + 1 \in S
  BY <1>4
<1> QED BY <1>3, <1>5

-----------------------------------------------------------------------------
(* Backoff::delay_ms.                                                      *)
DelayLaw(g, base, max, factor, n) ==
  g = [step \in 1 .. n |->
         IF step = 1 THEN base
         ELSE AtMost(AtMost(g[step - 1] * factor, TimeMax), max)]

LEMMA DelayExists ==
  ASSUME NEW base \in Nat, NEW max \in Nat, NEW factor \in Nat, NEW n \in Nat
  PROVE  \E g : DelayLaw(g, base, max, factor, n)
<1> DEFINE S == {k \in Nat : \E g : DelayLaw(g, base, max, factor, k)}
<1>1. 0 \in S
  <2> DEFINE g == [step \in 1 .. 0 |-> base]
  <2>1. DelayLaw(g, base, max, factor, 0)
    BY DEF DelayLaw
  <2> HIDE DEF g
  <2> QED BY <2>1
<1>2. ASSUME NEW k \in 0 .. n - 1, k \in S PROVE k + 1 \in S
  <2>1. PICK f : DelayLaw(f, base, max, factor, k)
    BY <1>2
  <2> DEFINE last == IF k = 0 THEN base ELSE AtMost(AtMost(f[k] * factor, TimeMax), max)
             g == [step \in 1 .. k + 1 |-> IF step = k + 1 THEN last ELSE f[step]]
  <2>2. \A step \in 1 .. k : f[step] = IF step = 1 THEN base
                             ELSE AtMost(AtMost(f[step - 1] * factor, TimeMax), max)
    BY <2>1 DEF DelayLaw
  <2>3. ASSUME NEW step \in 1 .. k + 1
        PROVE  g[step] = IF step = 1 THEN base
                         ELSE AtMost(AtMost(g[step - 1] * factor, TimeMax), max)
    <3>1. CASE step = k + 1
      BY <3>1
    <3>2. CASE step \in 1 .. k
      BY <3>2, <2>2
    <3> QED BY <3>1, <3>2
  <2>4. DelayLaw(g, base, max, factor, k + 1)
    BY <2>3 DEF DelayLaw
  <2> HIDE DEF g
  <2>5. \E h : DelayLaw(h, base, max, factor, k + 1)
    BY <2>4
  <2> QED BY <2>5
<1> HIDE DEF S
<1>3. n \in S
  BY <1>1, <1>2, IntervalInduction
<1> QED BY <1>3 DEF S

LEMMA DelayDefined ==
  ASSUME NEW base \in Nat, NEW max \in Nat, NEW factor \in Nat, NEW n \in Nat
  PROVE  \E g : /\ DelayLaw(g, base, max, factor, n)
                /\ DelayMs(base, max, factor, n) = IF n = 0 THEN 0 ELSE AtMost(g[n], max)
<1> DEFINE delay[step \in 1 .. n] ==
             IF step = 1 THEN base
             ELSE AtMost(AtMost(delay[step - 1] * factor, TimeMax), max)
<1>0. \E g : DelayLaw(g, base, max, factor, n)
  BY DelayExists
<1>1. DelayLaw(delay, base, max, factor, n)
  BY <1>0, Zenon DEF DelayLaw
<1>2. DelayMs(base, max, factor, n) = IF n = 0 THEN 0 ELSE AtMost(delay[n], max)
  BY Zenon DEF DelayMs
<1> HIDE DEF delay
<1> QED BY <1>1, <1>2

LEMMA DelayType ==
  ASSUME NEW base \in Nat, NEW max \in Nat, NEW factor \in Nat, NEW n \in Nat
  PROVE  DelayMs(base, max, factor, n) \in 0 .. max
<1>1. PICK g : /\ DelayLaw(g, base, max, factor, n)
               /\ DelayMs(base, max, factor, n) = IF n = 0 THEN 0 ELSE AtMost(g[n], max)
  BY DelayDefined
<1> DEFINE S == {i \in Nat : i = 0 \/ g[i] \in Nat}
<1>2. 0 \in S
  OBVIOUS
<1>3. ASSUME NEW i \in 0 .. n - 1, i \in S PROVE i + 1 \in S
  <2>1. g[i + 1] = IF i + 1 = 1 THEN base
                   ELSE AtMost(AtMost(g[i] * factor, TimeMax), max)
    BY <1>1, i + 1 \in 1 .. n, i + 1 - 1 = i DEF DelayLaw
  <2>2. CASE i = 0
    BY <2>1, <2>2
  <2>3. CASE i # 0
    <3>1. g[i] * factor \in Nat
      BY <1>3, <2>3
    <3>2. AtMost(g[i] * factor, TimeMax) \in Nat
      BY <3>1, SupervisorAssumption DEF AtMost
    <3> QED BY <2>1, <2>3, <3>2 DEF AtMost
  <2> QED BY <2>2, <2>3
<1> HIDE DEF S
<1>4. n \in S
  BY <1>2, <1>3, IntervalInduction
<1> QED BY <1>1, <1>4 DEF S, AtMost

(* The reference: Power(x, k) is x multiplied k times.                     *)
PowerLaw(g, x, k) == g = [i \in 0 .. k |-> IF i = 0 THEN 1 ELSE g[i - 1] * x]

LEMMA PowerDefined ==
  ASSUME NEW x \in Nat, NEW k \in Nat
  PROVE  \E g : PowerLaw(g, x, k) /\ Power(x, k) = g[k]
<1> DEFINE S == {m \in Nat : \E g : PowerLaw(g, x, m)}
<1>1. 0 \in S
  <2> DEFINE g == [i \in 0 .. 0 |-> 1]
  <2>1. PowerLaw(g, x, 0)
    BY DEF PowerLaw
  <2> HIDE DEF g
  <2> QED BY <2>1
<1>2. ASSUME NEW m \in 0 .. k - 1, m \in S PROVE m + 1 \in S
  <2>1. PICK f : PowerLaw(f, x, m)
    BY <1>2
  <2> DEFINE g == [i \in 0 .. m + 1 |-> IF i = m + 1 THEN f[m] * x ELSE f[i]]
  <2>2. \A i \in 0 .. m : f[i] = IF i = 0 THEN 1 ELSE f[i - 1] * x
    BY <2>1 DEF PowerLaw
  <2>3. ASSUME NEW i \in 0 .. m + 1
        PROVE  g[i] = IF i = 0 THEN 1 ELSE g[i - 1] * x
    <3>1. CASE i = m + 1
      BY <3>1
    <3>2. CASE i \in 0 .. m
      BY <3>2, <2>2
    <3> QED BY <3>1, <3>2
  <2>4. PowerLaw(g, x, m + 1)
    BY <2>3 DEF PowerLaw
  <2> HIDE DEF g
  <2>5. \E h : PowerLaw(h, x, m + 1)
    BY <2>4
  <2> QED BY <2>5
<1> HIDE DEF S
<1>3. k \in S
  BY <1>1, <1>2, IntervalInduction
<1>4. \E g : PowerLaw(g, x, k)
  BY <1>3 DEF S
<1> DEFINE power[i \in 0 .. k] == IF i = 0 THEN 1 ELSE power[i - 1] * x
<1>5. PowerLaw(power, x, k)
  BY <1>4, Zenon DEF PowerLaw
<1>6. Power(x, k) = power[k]
  BY Zenon DEF Power
<1> HIDE DEF power
<1> QED BY <1>5, <1>6

(* One turn of the loop multiplies, whatever saturated before.             *)
LEMMA CappedProduct ==
  ASSUME NEW a \in Nat, NEW max \in Nat, NEW factor \in Nat \ {0}, max <= TimeMax
  PROVE  AtMost(AtMost(AtMost(a, max) * factor, TimeMax), max) = AtMost(a * factor, max)
<1>1. \A y \in Nat : y * factor \in Nat /\ y * factor >= y
  OBVIOUS
<1>2. CASE a < max
  <2>1. AtMost(a, max) = a
    BY <1>2 DEF AtMost
  <2> DEFINE y == a * factor
  <2>2. y \in Nat
    BY <1>1
  <2> HIDE DEF y
  <2>3. AtMost(AtMost(y, TimeMax), max) = AtMost(y, max)
    BY <2>2, SupervisorAssumption DEF AtMost
  <2> QED BY <2>1, <2>3 DEF y
<1>3. CASE a >= max
  <2> DEFINE y == a * factor
             z == max * factor
  <2>1. y \in Nat /\ z \in Nat /\ y >= max /\ z >= max
    BY <1>1, <1>3
  <2>2. AtMost(a, max) = max
    BY <1>3 DEF AtMost
  <2> HIDE DEF y, z
  <2>3. AtMost(AtMost(z, TimeMax), max) = AtMost(y, max)
    BY <2>1, SupervisorAssumption DEF AtMost
  <2> QED BY <2>2, <2>3 DEF y, z
<1> QED BY <1>2, <1>3

LEMMA DelayIsExponential ==
  ASSUME NEW base \in Nat, NEW max \in Nat, NEW factor \in Nat \ {0},
         NEW n \in Nat \ {0}, base <= max, max <= TimeMax
  PROVE  DelayMs(base, max, factor, n) = AtMost(base * Power(factor, n - 1), max)
<1>1. PICK g : /\ DelayLaw(g, base, max, factor, n)
               /\ DelayMs(base, max, factor, n) = IF n = 0 THEN 0 ELSE AtMost(g[n], max)
  BY DelayDefined
<1>2. PICK p : PowerLaw(p, factor, n - 1) /\ Power(factor, n - 1) = p[n - 1]
  BY PowerDefined
<1> DEFINE S == {i \in Nat : p[i] \in Nat /\ g[i + 1] = AtMost(base * p[i], max)}
<1>3. 0 \in S
  <2>1. p[0] = 1
    BY <1>2 DEF PowerLaw
  <2>2. g[1] = base
    BY <1>1 DEF DelayLaw
  <2> QED BY <2>1, <2>2 DEF AtMost
<1>4. ASSUME NEW i \in 0 .. (n - 1) - 1, i \in S PROVE i + 1 \in S
  <2>1. p[i + 1] = p[i] * factor
    BY <1>2, i + 1 \in 0 .. n - 1, i + 1 # 0, i + 1 - 1 = i DEF PowerLaw
  <2>2. g[i + 2] = AtMost(AtMost(g[i + 1] * factor, TimeMax), max)
    BY <1>1, i + 2 \in 1 .. n, i + 2 # 1, i + 2 - 1 = i + 1 DEF DelayLaw
  <2>3. p[i] \in Nat /\ g[i + 1] = AtMost(base * p[i], max)
    BY <1>4
  <2>4. p[i + 1] \in Nat /\ base * p[i] \in Nat
    BY <2>1, <2>3
  <2>5. g[i + 2] = AtMost((base * p[i]) * factor, max)
    <3> DEFINE a == base * p[i]
    <3>1. a \in Nat /\ g[i + 1] = AtMost(a, max)
      BY <2>3, <2>4
    <3> HIDE DEF a
    <3>2. AtMost(AtMost(AtMost(a, max) * factor, TimeMax), max) = AtMost(a * factor, max)
      BY <3>1, CappedProduct
    <3>3. g[i + 2] = AtMost(a * factor, max)
      BY <2>2, <3>1, <3>2
    <3> QED BY <3>3 DEF a
  <2>6. (base * p[i]) * factor = base * p[i + 1]
    BY <2>1, <2>3
  <2>7. g[i + 1 + 1] = AtMost(base * p[i + 1], max)
    BY <2>5, <2>6
  <2> QED BY <2>4, <2>7
<1> HIDE DEF S
<1>5. n - 1 \in S
  BY <1>3, <1>4, IntervalInduction
<1>6. g[n] = AtMost(base * p[n - 1], max) /\ p[n - 1] \in Nat
  BY <1>5, n - 1 + 1 = n DEF S
<1>7. AtMost(g[n], max) = g[n]
  BY <1>6 DEF AtMost
<1> QED BY <1>1, <1>2, <1>6, <1>7

(* The delay before a restart is base * factor^(n-1), capped at the        *)
(* maximum, although delay_ms multiplies in saturating steps.              *)
THEOREM BackoffExponential == Spec => []BackoffIsExponential
<1>1. BackoffIsExponential
  BY DelayIsExponential, SupervisorAssumption DEF BackoffIsExponential
<1> QED BY <1>1, PTL

-----------------------------------------------------------------------------
(* DependencyGraph::topological_order.                                     *)
LEMMA LeastIsElement == ASSUME NEW S \in SUBSET Nat, S # {} PROVE Least(S) \in S
<1>1. \E x \in S : \A y \in S : x <= y
  BY LeastElement
<1> QED BY <1>1 DEF Least

Graphs == [Services -> SUBSET Services]

Placed(k) == {k.order[j] : j \in 1 .. Len(k.order)}

KahnStart(req) ==
  [order |-> <<>>,
   degree |-> [s \in Services |-> Cardinality(req[s])],
   ready |-> {s \in Services : req[s] = {}}]

(* The state of the loop: the degree counts the prerequisites that are not *)
(* placed, ready are those with none, and what is placed comes once and    *)
(* after its prerequisites.                                                *)
KahnInv(k, req, i) ==
  /\ k.order \in Seq(Services)
  /\ \A s \in Services : k.degree[s] = Cardinality(req[s] \ Placed(k))
  /\ k.ready = {s \in Services \ Placed(k) : req[s] \subseteq Placed(k)}
  /\ \A j, m \in 1 .. Len(k.order) : k.order[j] = k.order[m] => j = m
  /\ \A j \in 1 .. Len(k.order) :
       \A s \in req[k.order[j]] : \E m \in 1 .. j - 1 : k.order[m] = s
  /\ Len(k.order) = i \/ (Len(k.order) < i /\ k.ready = {})

LEMMA ServicesFinite == IsFiniteSet(Services) /\ Cardinality(Services) = N
BY FS_Interval, SupervisorAssumption DEF Services

LEMMA KahnStartInv ==
  ASSUME NEW req \in Graphs PROVE KahnInv(KahnStart(req), req, 0)
<1> DEFINE k == KahnStart(req)
<1>1. k.order = <<>> /\ Placed(k) = {}
  BY DEF KahnStart, Placed
<1>2. k.order \in Seq(Services) /\ Len(k.order) = 0
  BY <1>1
<1>3. \A s \in Services : k.degree[s] = Cardinality(req[s] \ Placed(k))
  <2>1. \A s \in Services : req[s] \ {} = req[s]
    OBVIOUS
  <2>2. \A s \in Services : k.degree[s] = Cardinality(req[s])
    BY DEF KahnStart
  <2> QED BY <1>1, <2>1, <2>2
<1>4. k.ready = {s \in Services \ Placed(k) : req[s] \subseteq Placed(k)}
  BY <1>1 DEF KahnStart
<1> HIDE DEF k
<1>5. KahnInv(k, req, 0)
  BY <1>1, <1>2, <1>3, <1>4 DEF KahnInv
<1> QED BY <1>5 DEF k

LEMMA KahnStepInv ==
  ASSUME NEW req \in Graphs, NEW k, NEW i \in Nat, KahnInv(k, req, i)
  PROVE  KahnInv(KahnStep(k, req), req, i + 1)
<1>1. CASE k.ready = {}
  <2>1. KahnStep(k, req) = k
    BY <1>1 DEF KahnStep
  <2>2. Len(k.order) \in Nat
    BY DEF KahnInv
  <2> QED BY <1>1, <2>1, <2>2 DEF KahnInv
<1>2. CASE k.ready # {}
  <2> DEFINE next == Least(k.ready)
             n == KahnStep(k, req)
             len == Len(k.order)
  <2>1. next \in k.ready
    <3>1. k.ready \in SUBSET Nat
      BY DEF KahnInv, Services
    <3> QED BY <1>2, <3>1, LeastIsElement
  <2>2. /\ next \in Services /\ next \notin Placed(k) /\ req[next] \subseteq Placed(k)
    BY <2>1 DEF KahnInv
  <2>3. /\ n.order = Append(k.order, next)
        /\ n.degree = [s \in Services |-> IF next \in req[s] /\ k.degree[s] > 0
                                            THEN k.degree[s] - 1 ELSE k.degree[s]]
        /\ n.ready = (k.ready \ {next}) \union Relaxed(k, req, next)
    BY <1>2 DEF KahnStep
  <2> HIDE DEF next, n
  <2>4. /\ k.order \in Seq(Services) /\ len \in Nat /\ len = i
    BY <1>2 DEF KahnInv
  <2>5. /\ n.order \in Seq(Services) /\ Len(n.order) = len + 1
        /\ n.order[len + 1] = next
        /\ \A j \in 1 .. len : n.order[j] = k.order[j]
    BY <2>2, <2>3, <2>4
  <2>6. Placed(n) = Placed(k) \union {next}
    BY <2>4, <2>5 DEF Placed
  <2>7. \A s \in Services : req[s] \subseteq Services /\ IsFiniteSet(req[s] \ Placed(k))
                            /\ IsFiniteSet(req[s] \ Placed(n))
    <3> SUFFICES ASSUME NEW s \in Services
                 PROVE  /\ req[s] \subseteq Services /\ IsFiniteSet(req[s] \ Placed(k))
                        /\ IsFiniteSet(req[s] \ Placed(n))
      OBVIOUS
    <3>1. req[s] \subseteq Services
      BY DEF Graphs
    <3>2. req[s] \ Placed(k) \in SUBSET Services /\ req[s] \ Placed(n) \in SUBSET Services
      BY <3>1
    <3> QED BY <3>1, <3>2, FS_Subset, ServicesFinite
  <2>8. ASSUME NEW s \in Services
        PROVE  /\ n.degree[s] = Cardinality(req[s] \ Placed(n))
               /\ k.degree[s] = 1 /\ next \in req[s] => req[s] \ Placed(k) = {next}
    <3> DEFINE D == req[s] \ Placed(k)
    <3>1. IsFiniteSet(D) /\ Cardinality(D) \in Nat /\ k.degree[s] = Cardinality(D)
      BY <2>7, FS_CardinalityType DEF KahnInv
    <3>2. req[s] \ Placed(n) = D \ {next}
      BY <2>6
    <3>3. n.degree[s] = IF next \in req[s] /\ k.degree[s] > 0
                          THEN k.degree[s] - 1 ELSE k.degree[s]
      BY <2>3
    <3>4. next \in req[s] <=> next \in D
      BY <2>2
    <3> HIDE DEF D
    <3>5. Cardinality(D \ {next}) = IF next \in D THEN Cardinality(D) - 1 ELSE Cardinality(D)
      BY <3>1, FS_RemoveElement
    <3>6. next \in D => Cardinality(D) > 0
      BY <3>1, FS_EmptySet
    <3>7. n.degree[s] = Cardinality(D \ {next})
      BY <3>1, <3>3, <3>4, <3>5, <3>6
    <3>8. ASSUME k.degree[s] = 1, next \in req[s] PROVE D = {next}
      <4>1. PICK x : D = {x}
        BY <3>1, <3>8, FS_Singleton
      <4> QED BY <4>1, <3>4, <3>8
    <3> QED BY <3>2, <3>7, <3>8 DEF D
  <2>9. n.ready = {s \in Services \ Placed(n) : req[s] \subseteq Placed(n)}
    <3>1. ASSUME NEW s \in n.ready
          PROVE  s \in Services /\ s \notin Placed(n) /\ req[s] \subseteq Placed(n)
      <4>1. CASE s \in k.ready \ {next}
        BY <4>1, <2>6 DEF KahnInv
      <4>2. CASE s \in Relaxed(k, req, next)
        <5>1. s \in Services /\ req[s] \ Placed(k) = {next} /\ next \in req[s]
          BY <4>2, <2>8 DEF Relaxed
        <5>2. s # next
          BY <2>2, <5>1
        <5>3. s \notin Placed(k)
          <6>1. ASSUME s \in Placed(k) PROVE FALSE
            <7>1. PICK j \in 1 .. len : k.order[j] = s
              BY <6>1 DEF Placed
            <7>2. PICK m \in 1 .. j - 1 : k.order[m] = next
              BY <5>1, <7>1 DEF KahnInv
            <7>3. m \in 1 .. len
              BY <2>4
            <7> QED BY <2>2, <7>2, <7>3 DEF Placed
          <6> QED BY <6>1
        <5> QED BY <2>6, <5>1, <5>2, <5>3
      <4> QED BY <2>3, <3>1, <4>1, <4>2
    <3>2. ASSUME NEW s \in Services, s \notin Placed(n), req[s] \subseteq Placed(n)
          PROVE  s \in n.ready
      <4>1. CASE next \notin req[s]
        <5>1. s # next /\ s \notin Placed(k) /\ req[s] \subseteq Placed(k)
          BY <2>6, <3>2, <4>1
        <5>2. s \in k.ready
          BY <5>1 DEF KahnInv
        <5> QED BY <2>3, <5>1, <5>2
      <4>2. CASE next \in req[s]
        <5>1. req[s] \ Placed(k) = {next}
          BY <2>2, <2>6, <3>2, <4>2
        <5>2. k.degree[s] = 1
          <6>1. Cardinality({next}) = 1
            BY FS_Singleton
          <6>2. k.degree[s] = Cardinality(req[s] \ Placed(k))
            BY DEF KahnInv
          <6> QED BY <5>1, <6>1, <6>2
        <5>3. s \in Relaxed(k, req, next)
          BY <4>2, <5>2 DEF Relaxed
        <5> QED BY <2>3, <5>3
      <4> QED BY <4>1, <4>2
    <3> QED BY <3>1, <3>2
  <2>10. \A j \in 1 .. len : k.order[j] \in Placed(k)
    BY DEF Placed
  <2>11. ASSUME NEW j \in 1 .. Len(n.order), NEW m \in 1 .. Len(n.order),
                n.order[j] = n.order[m]
         PROVE  j = m
    <3>1. CASE j \in 1 .. len /\ m \in 1 .. len
      BY <2>5, <2>11, <3>1 DEF KahnInv
    <3>2. CASE j = len + 1 /\ m \in 1 .. len
      BY <2>2, <2>5, <2>10, <2>11, <3>2
    <3>3. CASE j \in 1 .. len /\ m = len + 1
      BY <2>2, <2>5, <2>10, <2>11, <3>3
    <3> QED BY <2>4, <2>5, <3>1, <3>2, <3>3
  <2>12. ASSUME NEW j \in 1 .. Len(n.order), NEW s \in req[n.order[j]]
         PROVE  \E m \in 1 .. j - 1 : n.order[m] = s
    <3>1. CASE j \in 1 .. len
      <4>1. PICK m \in 1 .. j - 1 : k.order[m] = s
        BY <2>5, <3>1 DEF KahnInv
      <4>2. m \in 1 .. len
        BY <2>4, <3>1
      <4> QED BY <2>5, <4>1, <4>2
    <3>2. CASE j = len + 1
      <4>1. s \in Placed(k)
        BY <2>2, <2>5, <3>2
      <4>2. PICK m \in 1 .. len : k.order[m] = s
        BY <4>1 DEF Placed
      <4>3. n.order[m] = s
        BY <2>5, <4>2
      <4>4. m \in 1 .. j - 1
        BY <2>4, <3>2
      <4> QED BY <4>3, <4>4
    <3> QED BY <2>4, <2>5, <3>1, <3>2
  <2>13. Len(n.order) = i + 1
    BY <2>4, <2>5
  <2>14. KahnInv(n, req, i + 1)
    BY <2>5, <2>8, <2>9, <2>11, <2>12, <2>13 DEF KahnInv
  <2> QED BY <2>14 DEF n
<1> QED BY <1>1, <1>2

KahnLaw(g, req) ==
  g = [i \in 0 .. N |-> IF i = 0 THEN [order |-> <<>>,
                                       degree |-> [s \in Services |-> Cardinality(req[s])],
                                       ready |-> {s \in Services : req[s] = {}}]
                        ELSE KahnStep(g[i - 1], req)]

KahnPrefix(g, req, n) ==
  g = [i \in 0 .. n |-> IF i = 0 THEN KahnStart(req) ELSE KahnStep(g[i - 1], req)]

LEMMA KahnExists == ASSUME NEW req PROVE \E g : KahnLaw(g, req)
<1> DEFINE S == {m \in Nat : \E g : KahnPrefix(g, req, m)}
<1>1. 0 \in S
  <2> DEFINE g == [i \in 0 .. 0 |-> KahnStart(req)]
  <2>1. KahnPrefix(g, req, 0)
    BY DEF KahnPrefix
  <2> HIDE DEF g
  <2> QED BY <2>1
<1>2. ASSUME NEW m \in 0 .. N - 1, m \in S PROVE m + 1 \in S
  <2>0. m \in Nat
    OBVIOUS
  <2>1. PICK f : KahnPrefix(f, req, m)
    BY <1>2
  <2> DEFINE g == [i \in 0 .. m + 1 |-> IF i = m + 1 THEN KahnStep(f[m], req) ELSE f[i]]
  <2>2. \A i \in 0 .. m : f[i] = IF i = 0 THEN KahnStart(req) ELSE KahnStep(f[i - 1], req)
    BY <2>1 DEF KahnPrefix
  <2>3. ASSUME NEW i \in 0 .. m + 1
        PROVE  g[i] = IF i = 0 THEN KahnStart(req) ELSE KahnStep(g[i - 1], req)
    <3>1. CASE i = m + 1
      <4>1. g[i] = KahnStep(f[m], req) /\ i # 0
        BY <2>0, <3>1
      <4>2. i - 1 = m /\ g[i - 1] = f[m]
        BY <2>0, <3>1
      <4> QED BY <4>1, <4>2
    <3>2. CASE i \in 0 .. m
      <4>1. g[i] = f[i]
        BY <2>0, <3>2
      <4>2. i # 0 => g[i - 1] = f[i - 1]
        BY <2>0, <3>2
      <4> QED BY <2>2, <3>2, <4>1, <4>2
    <3> QED BY <2>0, <3>1, <3>2
  <2>4. KahnPrefix(g, req, m + 1)
    BY <2>3 DEF KahnPrefix
  <2> HIDE DEF g
  <2>5. \E h : KahnPrefix(h, req, m + 1)
    BY <2>4
  <2> QED BY <2>5
<1> HIDE DEF S
<1>3. N \in S
  BY <1>1, <1>2, IntervalInduction, SupervisorAssumption
<1>4. \E g : KahnPrefix(g, req, N)
  BY <1>3 DEF S
<1> QED BY <1>4, Zenon DEF KahnPrefix, KahnLaw, KahnStart

LEMMA TopologicalDefined ==
  ASSUME NEW req PROVE \E g : KahnLaw(g, req) /\ TopologicalOrder(req) = g[N].order
<1> DEFINE kahn[i \in 0 .. N] ==
             IF i = 0
               THEN [order |-> <<>>,
                     degree |-> [s \in Services |-> Cardinality(req[s])],
                     ready |-> {s \in Services : req[s] = {}}]
               ELSE KahnStep(kahn[i - 1], req)
<1>0. \E g : KahnLaw(g, req)
  BY KahnExists
<1>1. KahnLaw(kahn, req)
  BY <1>0, Zenon DEF KahnLaw
<1>2. TopologicalOrder(req) = kahn[N].order
  BY Zenon DEF TopologicalOrder
<1> HIDE DEF kahn
<1> QED BY <1>1, <1>2

LEMMA KahnEnd ==
  ASSUME NEW req \in Graphs
  PROVE  \E k : KahnInv(k, req, N) /\ TopologicalOrder(req) = k.order
<1>1. PICK g : KahnLaw(g, req) /\ TopologicalOrder(req) = g[N].order
  BY TopologicalDefined
<1> DEFINE S == {i \in Nat : KahnInv(g[i], req, i)}
<1>2. 0 \in S
  <2>1. g[0] = KahnStart(req)
    BY <1>1, SupervisorAssumption DEF KahnLaw, KahnStart
  <2> QED BY <2>1, KahnStartInv
<1>3. ASSUME NEW i \in 0 .. N - 1, i \in S PROVE i + 1 \in S
  <2>0. i \in Nat /\ i + 1 \in 0 .. N /\ i + 1 # 0 /\ i + 1 - 1 = i
    BY SupervisorAssumption
  <2>1. g[i + 1] = KahnStep(g[i], req)
    <3>1. \A j \in 0 .. N : g[j] = IF j = 0 THEN KahnStart(req) ELSE KahnStep(g[j - 1], req)
      BY <1>1, Zenon DEF KahnLaw, KahnStart
    <3>2. g[i + 1] = KahnStep(g[i + 1 - 1], req)
      BY <2>0, <3>1
    <3> QED BY <2>0, <3>2
  <2>2. KahnInv(g[i], req, i)
    BY <1>3
  <2> QED BY <2>0, <2>1, <2>2, KahnStepInv
<1> HIDE DEF S
<1>4. N \in S
  BY <1>2, <1>3, IntervalInduction, SupervisorAssumption
<1> QED BY <1>1, <1>4 DEF S

(* What Supervisor::new relies on: an order of full length places every    *)
(* service once and after its prerequisites; a shorter one is a cycle.     *)
LEMMA OrderFacts ==
  ASSUME NEW req \in Graphs
  PROVE  /\ TopologicalOrder(req) \in Seq(Services)
         /\ Len(TopologicalOrder(req)) = N =>
              /\ \A s \in Services : \E i \in 1 .. N : TopologicalOrder(req)[i] = s
              /\ \A i, j \in 1 .. N :
                   TopologicalOrder(req)[i] = TopologicalOrder(req)[j] => i = j
              /\ \A i, j \in 1 .. N :
                   TopologicalOrder(req)[i] \in req[TopologicalOrder(req)[j]] => i < j
         /\ Len(TopologicalOrder(req)) # N => Cyclic(req)
<1>1. PICK k : KahnInv(k, req, N) /\ TopologicalOrder(req) = k.order
  BY KahnEnd
<1> DEFINE top == k.order
<1>2. top \in Seq(Services)
  BY <1>1 DEF KahnInv
<1>3. ASSUME Len(top) = N
      PROVE  /\ \A s \in Services : \E i \in 1 .. N : top[i] = s
             /\ \A i, j \in 1 .. N : top[i] = top[j] => i = j
             /\ \A i, j \in 1 .. N : top[i] \in req[top[j]] => i < j
  <2>1. \A i, j \in 1 .. N : top[i] = top[j] => i = j
    BY <1>1, <1>3 DEF KahnInv
  <2>2. \A s \in Services : \E i \in 1 .. N : top[i] = s
    <3>1. top \in [1 .. N -> Services]
      BY <1>2, <1>3
    <3>2. top \in Injection(1 .. N, Services)
      BY <2>1, <3>1, Fun_IsInj
    <3>3. top \in Surjection(1 .. N, Services)
      BY <3>2, FS_Injection, ServicesFinite DEF Services
    <3> QED BY <3>3, Fun_SurjectionProperties DEF Surjection
  <2>3. ASSUME NEW i \in 1 .. N, NEW j \in 1 .. N, top[i] \in req[top[j]] PROVE i < j
    <3>1. PICK m \in 1 .. j - 1 : top[m] = top[i]
      BY <1>1, <1>3, <2>3 DEF KahnInv
    <3>2. m \in 1 .. N
      BY SupervisorAssumption
    <3>3. m = i
      BY <2>1, <3>1, <3>2
    <3> QED BY <3>3, SupervisorAssumption
  <2> QED BY <2>1, <2>2, <2>3
<1>4. ASSUME Len(top) # N PROVE Cyclic(req)
  <2> DEFINE S == Services \ Placed(k)
  <2>1. k.ready = {} /\ Len(top) < N /\ Len(top) \in Nat
    BY <1>1, <1>2, <1>4 DEF KahnInv
  <2>2. S # {}
    <3>1. SUFFICES ASSUME Services \subseteq Placed(k) PROVE FALSE
      OBVIOUS
    <3>2. Placed(k) \subseteq Services
      BY <1>2 DEF Placed
    <3>3. top \in Surjection(1 .. Len(top), Services)
      BY <1>2, <3>1, <3>2 DEF Placed, Surjection
    <3>4. IsFiniteSet(1 .. Len(top)) /\ Cardinality(1 .. Len(top)) = Len(top)
      BY <2>1, FS_Interval
    <3>5. Cardinality(Services) <= Cardinality(1 .. Len(top))
      BY <3>3, <3>4, FS_Surjection
    <3> QED BY <2>1, <3>4, <3>5, ServicesFinite, SupervisorAssumption
  <2>3. ASSUME NEW s \in S PROVE req[s] \cap S # {}
    <3>1. ~ (req[s] \subseteq Placed(k))
      BY <1>1, <2>1 DEF KahnInv
    <3>2. req[s] \subseteq Services
      BY DEF Graphs
    <3> QED BY <3>1, <3>2
  <2> QED BY <2>2, <2>3 DEF Cyclic
<1> QED BY <1>1, <1>2, <1>3, <1>4

LEMMA SelfLoopIsCyclic ==
  ASSUME NEW req \in Graphs, ~ Valid(req) PROVE Cyclic(req)
<1>1. PICK s \in Services : s \in req[s]
  BY DEF Valid
<1>2. {s} \in SUBSET Services /\ {s} # {} /\ \A x \in {s} : req[x] \cap {s} # {}
  BY <1>1
<1> QED BY <1>2 DEF Cyclic

-----------------------------------------------------------------------------
(* What handle_termination, poll_one and a refused restart do to one       *)
(* runtime.                                                                *)
Runtimes == [status : Statuses, pid : BOOLEAN, count : 0 .. CountMax,
             wait : 0 .. MaxMs, since : Nat]

LEMMA LaterFacts ==
  ASSUME NEW r \in Runtimes
  PROVE  Later(r) \in Runtimes /\ Later(r).status = "Backoff" /\ Later(r).pid = r.pid
<1> DEFINE n == NextCount(r.count)
           w == DelayMs(BaseMs, MaxMs, Factor, n)
<1>1. n \in 0 .. CountMax /\ n \in Nat
  BY SupervisorAssumption DEF NextCount, AtMost, Runtimes
<1>2. w \in 0 .. MaxMs
  BY <1>1, DelayType, SupervisorAssumption
<1>3. Later(r) = [r EXCEPT !.status = "Backoff", !.count = n, !.wait = w]
  BY DEF Later
<1> HIDE DEF n, w
<1> QED BY <1>1, <1>2, <1>3 DEF Runtimes, Statuses

LEMMA SpawnedFacts ==
  ASSUME NEW r \in Runtimes
  PROVE  Spawned(r) \in Runtimes /\ Spawned(r).status = "Running" /\ Spawned(r).pid = TRUE
BY DEF Spawned, Runtimes, Statuses

LEMMA TerminatedFacts ==
  ASSUME NEW s \in Services, NEW r \in Runtimes, NEW success \in BOOLEAN
  PROVE  /\ Terminated(s, r, success) \in Runtimes
         /\ Terminated(s, r, success).status \in {"Backoff", "Failed"}
         /\ Terminated(s, r, success).pid = FALSE
<1> DEFINE x == [r EXCEPT !.pid = FALSE]
           y == [r EXCEPT !.pid = FALSE, !.status = "Failed"]
<1>1. x \in Runtimes /\ x.pid = FALSE
  BY DEF Runtimes
<1>2. y \in Runtimes /\ y.pid = FALSE /\ y.status = "Failed"
  BY DEF Runtimes, Statuses
<1>3. Later(x) \in Runtimes /\ Later(x).status = "Backoff" /\ Later(x).pid = FALSE
  BY <1>1, LaterFacts
<1>4. Terminated(s, r, success) = Later(x) \/ Terminated(s, r, success) = y
  BY DEF Terminated
<1> HIDE DEF x, y
<1> QED BY <1>2, <1>3, <1>4

LEMMA AfterPollFacts ==
  ASSUME TypeOK, NoProcessLost, NEW s \in Services
  PROVE  /\ AfterPoll(s) \in Runtimes
         /\ AfterPoll(s).pid <=> AfterPoll(s).status = "Running"
         /\ AfterPoll(s).pid => rt[s].pid
         /\ ~ AfterPoll(s).pid => owned[s] \notin Running \/ Unhealthy(s)
         /\ rt[s].status # "Running" => AfterPoll(s) = rt[s]
         /\ rt[s].status = "Running" => AfterPoll(s).status \in {"Running", "Backoff", "Failed"}
<1> DEFINE r == rt[s]
           z == [r EXCEPT !.since = 0]
<1>1. r \in Runtimes /\ (r.pid <=> r.status = "Running") /\ (owned[s] # "None" <=> r.pid)
  BY DEF TypeOK, NoProcessLost, Runtimes
<1>2. z \in Runtimes /\ z.pid = r.pid /\ z.status = r.status
  BY <1>1 DEF Runtimes
<1>3. CASE ~ Polled(s)
  <2>1. AfterPoll(s) = r
    BY <1>3 DEF AfterPoll
  <2>2. r.status # "Running" /\ ~ r.pid
    BY <1>1, <1>3 DEF Polled
  <2>3. owned[s] \notin Running
    BY <1>1, <2>2 DEF Running
  <2> HIDE DEF r
  <2>4. rt[s] = r
    BY DEF r
  <2> QED BY <1>1, <2>1, <2>2, <2>3, <2>4
<1>4. CASE Polled(s) /\ owned[s] \in Exited
  <2>1. AfterPoll(s) = Terminated(s, r, TRUE) \/ AfterPoll(s) = Terminated(s, r, FALSE)
    <3>1. CASE owned[s] = "Succeeded"
      BY <1>4, <3>1 DEF AfterPoll
    <3>2. CASE owned[s] # "Succeeded"
      BY <1>4, <3>2 DEF AfterPoll
    <3> QED BY <3>1, <3>2
  <2>2. owned[s] \notin Running
    BY <1>4 DEF Running, Exited
  <2>3. r.status = "Running" /\ r.pid
    BY <1>4 DEF Polled
  <2>4. /\ AfterPoll(s) \in Runtimes /\ AfterPoll(s).status \in {"Backoff", "Failed"}
        /\ AfterPoll(s).pid = FALSE
    <3> HIDE DEF r
    <3>1. ASSUME NEW success \in BOOLEAN
          PROVE  /\ Terminated(s, r, success) \in Runtimes
                 /\ Terminated(s, r, success).status \in {"Backoff", "Failed"}
                 /\ Terminated(s, r, success).pid = FALSE
      BY <1>1, TerminatedFacts
    <3>2. TRUE \in BOOLEAN /\ FALSE \in BOOLEAN
      OBVIOUS
    <3> QED BY <2>1, <3>1, <3>2
  <2> QED BY <2>2, <2>3, <2>4
<1>5. CASE Polled(s) /\ owned[s] \notin Exited /\ Unhealthy(s)
  <2>1. AfterPoll(s) = Terminated(s, z, FALSE)
    BY <1>5 DEF AfterPoll
  <2>2. r.status = "Running" /\ r.pid
    BY <1>5 DEF Polled
  <2> HIDE DEF z
  <2> QED BY <1>2, <1>5, <2>1, <2>2, TerminatedFacts
<1>6. CASE Polled(s) /\ owned[s] \notin Exited /\ ~ Unhealthy(s)
  <2>1. AfterPoll(s) = z \/ AfterPoll(s) = r
    BY <1>6 DEF AfterPoll
  <2>2. r.status = "Running" /\ r.pid
    BY <1>6 DEF Polled
  <2> HIDE DEF z
  <2> QED BY <1>1, <1>2, <2>1, <2>2
<1> QED BY <1>3, <1>4, <1>5, <1>6

-----------------------------------------------------------------------------
(* The inductive invariant: where the loops of start_all and shutdown are, *)
(* and what they have done so far.                                         *)
OrderOnce ==
  phase \notin {"new", "rejected"} =>
    \A i, j \in 1 .. N : order[i] = order[j] => i = j

Progress ==
  /\ phase \in {"new", "rejected"} => \A s \in Services : rt[s].status = "Pending"
  /\ phase = "starting" => pos >= 1 /\ \A i \in pos .. N : rt[order[i]].status = "Pending"
  /\ phase = "stopping" => pos <= N
  /\ phase = "down" => pos = 0
  /\ phase \in {"stopping", "down"} =>
       \A i \in pos + 1 .. N : rt[order[i]].status \in {"Stopped", "Failed"}
  /\ \A s \in Services : rt[s].status = "Stopped" =>
       /\ phase \in {"stopping", "down"}
       /\ \E i \in pos + 1 .. N : order[i] = s

SupInv == TypeOK /\ OrderIsTopological /\ NoProcessLost /\ OrderOnce /\ Progress

LEMMA SupInitially == Init => SupInv
<1> SUFFICES ASSUME Init PROVE SupInv
  OBVIOUS
<1>1. TypeOK
  <2>1. order \in Seq(Services)
    BY DEF Init
  <2>2. rt \in [Services -> Runtimes]
    BY SupervisorAssumption DEF Init, Runtimes, Statuses
  <2>3. /\ requires \in [Services -> SUBSET Services] /\ phase = "new"
        /\ pos \in 0 .. N + 1 /\ refusals \in 0 .. MaxRefusals
        /\ lost \in [Services -> Nat]
    BY SupervisorAssumption DEF Init
  <2>4. owned \in [Services -> Running \union Exited \union {"None"}]
    BY DEF Init
  <2> QED BY <2>1, <2>2, <2>3, <2>4 DEF TypeOK, Runtimes
<1>2. OrderIsTopological /\ OrderOnce
  BY DEF Init, OrderIsTopological, OrderOnce
<1>3. NoProcessLost
  BY DEF Init, NoProcessLost
<1>4. Progress
  BY DEF Init, Progress
<1> QED BY <1>1, <1>2, <1>3, <1>4 DEF SupInv

(* What an order that was accepted looks like.                             *)
LEMMA OrderEntries ==
  ASSUME TypeOK, OrderIsTopological, phase \notin {"new", "rejected"}
  PROVE  Len(order) = N /\ \A i \in 1 .. N : order[i] \in Services
BY DEF TypeOK, OrderIsTopological

LEMMA NewKeeps == ASSUME SupInv, New PROVE SupInv'
<1>1. /\ phase = "new" /\ requires \in Graphs
      /\ UNCHANGED <<requires, rt, owned, lost, refusals>>
      /\ TypeOK /\ \A s \in Services : rt[s].status = "Pending"
  BY DEF SupInv, New, TypeOK, Progress, Graphs
<1>2. NoProcessLost'
  BY <1>1 DEF SupInv, NoProcessLost
<1> DEFINE top == TopologicalOrder(requires)
<1>3. CASE Valid(requires) /\ Len(top) = N
  <2>1. phase' = "starting" /\ order' = top /\ pos' = 1
    BY <1>1, <1>3 DEF New
  <2>2. /\ top \in Seq(Services)
        /\ \A s \in Services : \E i \in 1 .. N : top[i] = s
        /\ \A i, j \in 1 .. N : top[i] = top[j] => i = j
        /\ \A i, j \in 1 .. N : top[i] \in requires[top[j]] => i < j
    BY <1>1, <1>3, OrderFacts
  <2> HIDE DEF top
  <2>3. TypeOK'
    BY <1>1, <2>1, <2>2, SupervisorAssumption DEF TypeOK
  <2>4. OrderIsTopological' /\ OrderOnce'
    BY <1>1, <1>3, <2>1, <2>2 DEF OrderIsTopological, OrderOnce
  <2>5. Progress'
    <3>1. \A i \in 1 .. N : top[i] \in Services
      BY <1>3, <2>2
    <3> QED BY <1>1, <2>1, <3>1 DEF Progress
  <2> QED BY <1>2, <2>3, <2>4, <2>5 DEF SupInv
<1>4. CASE ~ (Valid(requires) /\ Len(top) = N)
  <2>1. phase' = "rejected" /\ UNCHANGED <<order, pos>>
    BY <1>1, <1>4 DEF New
  <2>2. Cyclic(requires)
    BY <1>1, <1>4, OrderFacts, SelfLoopIsCyclic
  <2> HIDE DEF top
  <2>3. TypeOK'
    BY <1>1, <2>1 DEF TypeOK
  <2>4. OrderIsTopological' /\ OrderOnce'
    BY <1>1, <2>1, <2>2 DEF OrderIsTopological, OrderOnce, Cyclic
  <2>5. Progress'
    BY <1>1, <2>1 DEF Progress
  <2> QED BY <1>2, <2>3, <2>4, <2>5 DEF SupInv
<1> QED BY <1>3, <1>4

LEMMA OrderKept ==
  ASSUME OrderIsTopological, OrderOnce, UNCHANGED <<requires, order>>,
         phase \notin {"new", "rejected"}, phase' \notin {"new", "rejected"}
  PROVE  OrderIsTopological' /\ OrderOnce'
BY DEF OrderIsTopological, OrderOnce

LEMMA PhaseKept ==
  ASSUME OrderIsTopological, OrderOnce, UNCHANGED <<requires, order, phase>>
  PROVE  OrderIsTopological' /\ OrderOnce'
BY DEF OrderIsTopological, OrderOnce, Cyclic

(* spawn_service for a service without a process.                          *)
LEMMA SpawnFacts ==
  ASSUME TypeOK, NoProcessLost, NEW s \in Services, Spawn(s), rt[s].status # "Running"
  PROVE  /\ rt' \in [Services -> Runtimes]
         /\ owned' \in [Services -> Running \union Exited \union {"None"}]
         /\ lost' \in [Services -> Nat]
         /\ NoProcessLost'
         /\ rt'[s].status = "Running"
         /\ \A x \in Services : x # s => rt'[x] = rt[x]
<1>1. /\ rt \in [Services -> Runtimes] /\ lost \in [Services -> Nat]
      /\ owned \in [Services -> Running \union Exited \union {"None"}]
  BY DEF TypeOK, Runtimes
<1>2. ~ rt[s].pid /\ owned[s] = "None"
  BY DEF NoProcessLost
<1>3. LeftBehind(s) = 0
  BY <1>2 DEF LeftBehind, Running
<1> DEFINE r == Spawned(rt[s])
<1>4. r \in Runtimes /\ r.status = "Running" /\ r.pid = TRUE
  BY <1>1, SpawnedFacts
<1> HIDE DEF r
<1>5. rt' = [rt EXCEPT ![s] = r] /\ owned' = [owned EXCEPT ![s] = "Well"]
  BY DEF Spawn, r
<1>6. lost' = lost
  BY <1>1, <1>3 DEF Spawn
<1>7. rt' \in [Services -> Runtimes] /\ rt'[s] = r
      /\ \A x \in Services : x # s => rt'[x] = rt[x]
  BY <1>1, <1>4, <1>5
<1>8. owned' \in [Services -> Running \union Exited \union {"None"}]
      /\ owned'[s] = "Well" /\ \A x \in Services : x # s => owned'[x] = owned[x]
  BY <1>1, <1>5 DEF Running
<1>9. NoProcessLost'
  <2> SUFFICES ASSUME NEW x \in Services
               PROVE  /\ lost'[x] = 0
                      /\ owned'[x] # "None" <=> rt'[x].pid
                      /\ rt'[x].pid <=> rt'[x].status = "Running"
    BY DEF NoProcessLost
  <2>1. /\ lost[x] = 0
        /\ owned[x] # "None" <=> rt[x].pid
        /\ rt[x].pid <=> rt[x].status = "Running"
    BY DEF NoProcessLost
  <2>2. CASE x = s
    BY <1>4, <1>6, <1>7, <1>8, <2>1, <2>2
  <2>3. CASE x # s
    BY <1>6, <1>7, <1>8, <2>1, <2>3
  <2> QED BY <2>2, <2>3
<1> QED BY <1>1, <1>4, <1>6, <1>7, <1>8, <1>9

LEMMA StartNextKeeps == ASSUME SupInv, StartNext PROVE SupInv'
<1>1. /\ TypeOK /\ OrderIsTopological /\ NoProcessLost /\ OrderOnce /\ Progress
      /\ phase = "starting" /\ pos <= N /\ pos' = pos + 1
      /\ UNCHANGED <<requires, phase, order, refusals>>
  BY DEF SupInv, StartNext
<1>2. pos \in 1 .. N /\ pos' \in 0 .. N + 1
  BY <1>1, SupervisorAssumption DEF Progress, TypeOK
<1> DEFINE s == order[pos]
<1>3. \A i \in 1 .. N : order[i] \in Services
  BY <1>1, OrderEntries
<1>4. s \in Services /\ rt[s].status = "Pending" /\ \A i \in pos .. N : rt[order[i]].status = "Pending"
  BY <1>1, <1>2, <1>3 DEF Progress
<1>5. OrderIsTopological' /\ OrderOnce'
  BY <1>1, PhaseKept
<1> HIDE DEF s
<1>6. /\ rt' \in [Services -> Runtimes]
      /\ owned' \in [Services -> Running \union Exited \union {"None"}]
      /\ lost' \in [Services -> Nat]
      /\ NoProcessLost'
      /\ rt'[s].status # "Stopped"
      /\ \A x \in Services : x # s => rt'[x] = rt[x]
  <2>1. CASE s \in Sockets
    <3>1. rt' = [rt EXCEPT ![s].status = "SocketArmed"] /\ UNCHANGED <<owned, lost>>
      BY <2>1 DEF StartNext, s
    <3>2. rt \in [Services -> Runtimes]
      BY <1>1 DEF TypeOK, Runtimes
    <3>3. /\ rt' \in [Services -> Runtimes] /\ rt'[s].status = "SocketArmed"
          /\ rt'[s].pid = rt[s].pid /\ \A x \in Services : x # s => rt'[x] = rt[x]
      BY <1>4, <3>1, <3>2 DEF Runtimes, Statuses
    <3>4. NoProcessLost'
      BY <1>1, <1>4, <3>1, <3>3 DEF NoProcessLost
    <3> QED BY <1>1, <3>1, <3>3, <3>4 DEF TypeOK
  <2>2. CASE s \notin Sockets
    <3>1. Spawn(s)
      BY <2>2 DEF StartNext, s
    <3> QED BY <1>1, <1>4, <3>1, SpawnFacts
  <2> QED BY <2>1, <2>2
<1>7. TypeOK'
  BY <1>1, <1>2, <1>6 DEF TypeOK, Runtimes
<1>8. Progress'
  <2>1. ASSUME NEW i \in pos + 1 .. N PROVE rt'[order[i]].status = "Pending"
    <3>1. i \in 1 .. N /\ i \in pos .. N /\ i # pos
      BY <1>2, SupervisorAssumption
    <3>2. order[i] # s
      BY <1>1, <1>2, <3>1 DEF OrderOnce, s
    <3> QED BY <1>3, <1>4, <1>6, <3>1, <3>2
  <2>2. ASSUME NEW x \in Services PROVE rt'[x].status # "Stopped"
    BY <1>1, <1>4, <1>6 DEF Progress
  <2> QED BY <1>1, <1>2, <2>1, <2>2 DEF Progress
<1> QED BY <1>5, <1>6, <1>7, <1>8 DEF SupInv

LEMMA StartEndKeeps == ASSUME SupInv, StartRefused \/ Started PROVE SupInv'
<1>1. /\ TypeOK /\ OrderIsTopological /\ NoProcessLost /\ OrderOnce /\ Progress
      /\ phase = "starting" /\ phase' = "up"
      /\ UNCHANGED <<requires, order, pos, rt, owned, lost>>
  BY DEF SupInv, StartRefused, Started
<1>2. refusals' \in 0 .. MaxRefusals
  BY SupervisorAssumption DEF SupInv, StartRefused, Started, Refuse, TypeOK
<1>3. TypeOK'
  BY <1>1, <1>2 DEF TypeOK
<1>4. OrderIsTopological' /\ OrderOnce'
  BY <1>1, OrderKept
<1>5. NoProcessLost' /\ Progress'
  BY <1>1 DEF NoProcessLost, Progress
<1> QED BY <1>3, <1>4, <1>5 DEF SupInv

LEMMA ConnectionKeeps ==
  ASSUME SupInv, NEW s \in Services, Connection(s) PROVE SupInv'
<1>1. /\ TypeOK /\ OrderIsTopological /\ NoProcessLost /\ OrderOnce /\ Progress
      /\ phase \in {"up", "down"} /\ rt[s].status = "SocketArmed"
      /\ UNCHANGED <<requires, phase, order, pos>>
  BY DEF SupInv, Connection
<1>2. OrderIsTopological' /\ OrderOnce'
  BY <1>1, PhaseKept
<1>3. phase = "up"
  <2> SUFFICES ASSUME phase = "down" PROVE FALSE
    BY <1>1
  <2>1. PICK i \in 1 .. N : order[i] = s
    BY <1>1 DEF OrderIsTopological
  <2>2. pos = 0 /\ i \in pos + 1 .. N
    BY <1>1 DEF Progress
  <2> QED BY <1>1, <2>1, <2>2 DEF Progress
<1>4. CASE Spawn(s) /\ UNCHANGED refusals
  <2>1. /\ rt' \in [Services -> Runtimes]
        /\ owned' \in [Services -> Running \union Exited \union {"None"}]
        /\ lost' \in [Services -> Nat]
        /\ NoProcessLost'
        /\ rt'[s].status = "Running"
        /\ \A x \in Services : x # s => rt'[x] = rt[x]
    BY <1>1, <1>4, SpawnFacts
  <2>2. TypeOK'
    BY <1>1, <1>4, <2>1 DEF TypeOK, Runtimes
  <2>3. Progress'
    BY <1>1, <1>3, <2>1 DEF Progress
  <2> QED BY <1>2, <2>1, <2>2, <2>3 DEF SupInv
<1>5. CASE Refuse(1) /\ UNCHANGED <<rt, owned, lost>>
  <2>1. refusals' \in 0 .. MaxRefusals
    BY <1>1, <1>5, SupervisorAssumption DEF Refuse, TypeOK
  <2>2. TypeOK' /\ NoProcessLost' /\ Progress'
    BY <1>1, <1>5, <2>1 DEF TypeOK, NoProcessLost, Progress
  <2> QED BY <1>2, <2>2 DEF SupInv
<1> QED BY <1>4, <1>5 DEF Connection

LEMMA TickKeeps ==
  ASSUME SupInv, NEW no \in SUBSET Services, Tick(no) PROVE SupInv'
<1>1. /\ TypeOK /\ OrderIsTopological /\ NoProcessLost /\ OrderOnce /\ Progress
      /\ phase \in {"up", "down"}
      /\ UNCHANGED <<requires, phase, order, pos>>
  BY DEF SupInv, Tick
<1>2. OrderIsTopological' /\ OrderOnce'
  BY <1>1, PhaseKept
<1>3. refusals' \in 0 .. MaxRefusals
  <2>1. Cardinality(no) \in Nat
    BY FS_Subset, FS_CardinalityType, ServicesFinite
  <2>2. refusals + Cardinality(no) <= MaxRefusals /\ refusals' = refusals + Cardinality(no)
    BY DEF Tick, Refuse
  <2> QED BY <1>1, <2>1, <2>2, SupervisorAssumption DEF TypeOK
<1>4. ASSUME NEW s \in Services
      PROVE  /\ rt'[s] \in Runtimes
             /\ owned'[s] \in Running \union Exited \union {"None"}
             /\ lost'[s] = 0
             /\ owned'[s] # "None" <=> rt'[s].pid
             /\ rt'[s].pid <=> rt'[s].status = "Running"
             /\ rt'[s].status = "Stopped" => rt[s].status = "Stopped"
             /\ rt[s].status \in {"Stopped", "Failed"} => rt'[s] = rt[s]
  <2> DEFINE a == AfterPoll(s)
  <2>1. /\ a \in Runtimes
        /\ a.pid <=> a.status = "Running"
        /\ a.pid => rt[s].pid
        /\ ~ a.pid => owned[s] \notin Running \/ Unhealthy(s)
        /\ rt[s].status # "Running" => a = rt[s]
        /\ rt[s].status = "Running" => a.status \in {"Running", "Backoff", "Failed"}
    BY <1>1, AfterPollFacts
  <2>2. /\ lost[s] = 0
        /\ owned[s] # "None" <=> rt[s].pid
        /\ owned[s] \in Running \union Exited \union {"None"}
    BY <1>1 DEF NoProcessLost, TypeOK
  <2>3. RestartDue(s) => a.status = "Backoff"
    BY DEF RestartDue
  <2>4. /\ rt'[s] = IF ~ RestartDue(s) THEN a
                    ELSE IF s \in no THEN RestartRefused(a) ELSE Spawned(a)
        /\ owned'[s] = IF RestartDue(s) /\ s \notin no THEN "Well"
                       ELSE IF rt'[s].pid THEN owned[s] ELSE "None"
        /\ lost'[s] = IF /\ ~ Killed(s) /\ owned[s] \in Running
                         /\ (~ rt'[s].pid \/ (RestartDue(s) /\ s \notin no))
                        THEN lost[s] + 1 ELSE lost[s]
    BY DEF Tick
  <2> HIDE DEF a
  <2>5. CASE ~ RestartDue(s)
    <3>1. rt'[s] = a /\ owned'[s] = IF a.pid THEN owned[s] ELSE "None"
      BY <2>4, <2>5
    <3>2. ~ (~ Killed(s) /\ owned[s] \in Running /\ ~ rt'[s].pid)
      BY <2>1, <3>1 DEF Killed
    <3>3. lost'[s] = lost[s]
      BY <2>4, <2>5, <3>2
    <3> QED BY <2>1, <2>2, <3>1, <3>3
  <2>6. CASE RestartDue(s) /\ s \in no
    <3>1. rt'[s] = Later(a)
      BY <2>4, <2>6 DEF RestartRefused
    <3>2. a.status = "Backoff" /\ ~ a.pid
      BY <2>1, <2>3, <2>6
    <3>3. rt'[s] \in Runtimes /\ rt'[s].status = "Backoff" /\ ~ rt'[s].pid
      BY <2>1, <3>1, <3>2, LaterFacts
    <3>4. owned'[s] = "None" /\ lost'[s] = lost[s]
      BY <2>1, <2>4, <2>6, <3>2, <3>3 DEF Killed
    <3>5. rt[s].status \notin {"Stopped", "Failed"}
      BY <2>1, <3>2
    <3> QED BY <2>2, <3>3, <3>4, <3>5
  <2>7. CASE RestartDue(s) /\ s \notin no
    <3>1. rt'[s] = Spawned(a)
      BY <2>4, <2>7
    <3>2. a.status = "Backoff" /\ ~ a.pid
      BY <2>1, <2>3, <2>7
    <3>3. rt'[s] \in Runtimes /\ rt'[s].status = "Running" /\ rt'[s].pid = TRUE
      BY <2>1, <3>1, SpawnedFacts
    <3>4. owned'[s] = "Well" /\ lost'[s] = lost[s]
      BY <2>1, <2>4, <2>7, <3>2 DEF Killed
    <3>5. rt[s].status \notin {"Stopped", "Failed"}
      BY <2>1, <3>2
    <3> QED BY <2>2, <3>3, <3>4, <3>5 DEF Running
  <2> QED BY <2>5, <2>6, <2>7
<1>5. /\ rt' \in [Services -> Runtimes]
      /\ owned' \in [Services -> Running \union Exited \union {"None"}]
      /\ lost' \in [Services -> Nat]
  <2>1. /\ rt' = [s \in Services |-> rt'[s]]
        /\ owned' = [s \in Services |-> owned'[s]]
        /\ lost' = [s \in Services |-> lost'[s]]
    BY Zenon DEF Tick
  <2>2. \A s \in Services : lost'[s] \in Nat
    BY <1>4
  <2> QED BY <1>4, <2>1, <2>2
<1>6. TypeOK'
  BY <1>1, <1>3, <1>5 DEF TypeOK, Runtimes
<1>7. NoProcessLost'
  BY <1>4 DEF NoProcessLost
<1>8. Progress'
  <2>1. ASSUME phase = "down", NEW i \in pos + 1 .. N
        PROVE  rt'[order[i]].status \in {"Stopped", "Failed"}
    <3>1. pos = 0 /\ rt[order[i]].status \in {"Stopped", "Failed"}
      BY <1>1, <2>1 DEF Progress
    <3>2. order[i] \in Services
      BY <1>1, <3>1, OrderEntries
    <3> QED BY <1>4, <3>1, <3>2
  <2>2. ASSUME NEW s \in Services, rt'[s].status = "Stopped"
        PROVE  phase \in {"stopping", "down"} /\ \E i \in pos + 1 .. N : order[i] = s
    BY <1>1, <1>4, <2>2 DEF Progress
  <2> QED BY <1>1, <2>1, <2>2 DEF Progress
<1> QED BY <1>2, <1>6, <1>7, <1>8 DEF SupInv

LEMMA SignalKeeps == ASSUME SupInv, Signal PROVE SupInv'
<1>1. /\ TypeOK /\ OrderIsTopological /\ NoProcessLost /\ OrderOnce /\ Progress
      /\ phase = "up" /\ phase' = "stopping" /\ pos' = N
      /\ UNCHANGED <<requires, order, rt, owned, lost, refusals>>
  BY DEF SupInv, Signal
<1>2. TypeOK'
  BY <1>1, SupervisorAssumption DEF TypeOK
<1>3. OrderIsTopological' /\ OrderOnce'
  BY <1>1, OrderKept
<1>4. NoProcessLost'
  BY <1>1 DEF NoProcessLost
<1>5. Progress'
  BY <1>1, SupervisorAssumption DEF Progress
<1> QED BY <1>2, <1>3, <1>4, <1>5 DEF SupInv

LEMMA StopNextKeeps == ASSUME SupInv, StopNext PROVE SupInv'
<1>1. /\ TypeOK /\ OrderIsTopological /\ NoProcessLost /\ OrderOnce /\ Progress
      /\ phase = "stopping" /\ pos >= 1 /\ pos' = pos - 1
      /\ UNCHANGED <<requires, phase, order, lost, refusals>>
  BY DEF SupInv, StopNext
<1>2. pos \in 1 .. N /\ pos' \in 0 .. N
  BY <1>1, SupervisorAssumption DEF TypeOK, Progress
<1>3. OrderIsTopological' /\ OrderOnce'
  BY <1>1, PhaseKept
<1> DEFINE s == order[pos]
           r == Stopped(rt[s])
<1>4. s \in Services /\ \A i \in 1 .. N : order[i] \in Services
  BY <1>1, <1>2, OrderEntries
<1>5. /\ rt \in [Services -> Runtimes]
      /\ owned \in [Services -> Running \union Exited \union {"None"}]
  BY <1>1 DEF TypeOK, Runtimes
<1>6. /\ lost[s] = 0
      /\ owned[s] # "None" <=> rt[s].pid
      /\ rt[s].pid <=> rt[s].status = "Running"
  BY <1>1, <1>4 DEF NoProcessLost
<1>7. r \in Runtimes /\ r.status \in {"Stopped", "Failed"} /\ ~ r.pid
  <2>1. rt[s] \in Runtimes
    BY <1>4, <1>5
  <2>2. CASE rt[s].status \in {"Running", "SocketArmed", "Backoff", "Pending"}
    BY <2>1, <2>2 DEF Stopped, Runtimes, Statuses
  <2>3. CASE rt[s].status \notin {"Running", "SocketArmed", "Backoff", "Pending"}
    BY <1>6, <2>1, <2>3 DEF Stopped, Runtimes, Statuses
  <2> QED BY <2>2, <2>3
<1>8. /\ rt' = [rt EXCEPT ![s] = r]
      /\ owned' = [owned EXCEPT ![s] = IF rt[s].status = "Running" THEN "None" ELSE @]
  BY DEF StopNext, ToStop
<1> HIDE DEF s, r
<1>9. /\ rt' \in [Services -> Runtimes] /\ rt'[s] = r
      /\ \A x \in Services : x # s => rt'[x] = rt[x]
  BY <1>4, <1>5, <1>7, <1>8
<1>10. /\ owned' \in [Services -> Running \union Exited \union {"None"}]
       /\ owned'[s] = "None"
       /\ \A x \in Services : x # s => owned'[x] = owned[x]
  BY <1>4, <1>5, <1>6, <1>8
<1>11. TypeOK'
  <2>1. pos' \in 0 .. N + 1
    BY <1>2, SupervisorAssumption
  <2> QED BY <1>1, <2>1, <1>9, <1>10 DEF TypeOK, Runtimes
<1>12. NoProcessLost'
  BY <1>1, <1>6, <1>7, <1>9, <1>10 DEF NoProcessLost
<1>13. Progress'
  <2>1. ASSUME NEW i \in pos .. N PROVE rt'[order[i]].status \in {"Stopped", "Failed"}
    <3>1. CASE order[i] = s
      BY <1>7, <1>9, <3>1
    <3>2. CASE order[i] # s
      <4>1. i \in pos + 1 .. N /\ i \in 1 .. N
        BY <1>2, <3>2, SupervisorAssumption DEF s
      <4> QED BY <1>1, <1>4, <1>9, <3>2, <4>1 DEF Progress
    <3> QED BY <3>1, <3>2
  <2>2. ASSUME NEW x \in Services, rt'[x].status = "Stopped"
        PROVE  \E i \in pos .. N : order[i] = x
    <3>1. CASE x = s
      BY <1>2, <3>1, SupervisorAssumption DEF s
    <3>2. CASE x # s
      <4>1. PICK i \in pos + 1 .. N : order[i] = x
        BY <1>1, <1>9, <2>2, <3>2 DEF Progress
      <4>2. i \in pos .. N
        BY <1>2, SupervisorAssumption
      <4> QED BY <4>1, <4>2
    <3> QED BY <3>1, <3>2
  <2>3. pos' + 1 = pos /\ pos' <= N
    BY <1>1, <1>2, SupervisorAssumption
  <2> QED BY <1>1, <2>1, <2>2, <2>3 DEF Progress
<1> QED BY <1>3, <1>11, <1>12, <1>13 DEF SupInv

LEMMA DownKeeps == ASSUME SupInv, Down PROVE SupInv'
<1>1. /\ TypeOK /\ OrderIsTopological /\ NoProcessLost /\ OrderOnce /\ Progress
      /\ phase = "stopping" /\ phase' = "down" /\ pos = 0
      /\ UNCHANGED <<requires, order, pos, rt, owned, lost, refusals>>
  BY DEF SupInv, Down
<1>2. TypeOK' /\ NoProcessLost' /\ Progress'
  BY <1>1 DEF TypeOK, NoProcessLost, Progress
<1>3. OrderIsTopological' /\ OrderOnce'
  BY <1>1, OrderKept
<1> QED BY <1>2, <1>3 DEF SupInv

(* A process that exits or falls ill stays the one on record.              *)
LEMMA ProcessKeeps ==
  ASSUME SupInv, NEW s \in Services, FallIll(s) \/ \E how \in Exited : Exit(s, how)
  PROVE  SupInv'
<1>1. /\ TypeOK /\ OrderIsTopological /\ NoProcessLost /\ OrderOnce /\ Progress
      /\ UNCHANGED <<requires, phase, order, pos, rt, lost, refusals>>
  BY DEF SupInv, FallIll, Exit
<1>2. PICK how \in Exited \union {"Ill"} :
        owned' = [owned EXCEPT ![s] = how] /\ owned[s] \in Running
  BY DEF FallIll, Exit, Running
<1>3. owned \in [Services -> Running \union Exited \union {"None"}]
  BY <1>1 DEF TypeOK
<1>4. /\ owned' \in [Services -> Running \union Exited \union {"None"}]
      /\ \A x \in Services : owned'[x] # "None" <=> owned[x] # "None"
  BY <1>2, <1>3 DEF Running, Exited
<1>5. TypeOK'
  BY <1>1, <1>4 DEF TypeOK
<1>6. NoProcessLost'
  BY <1>1, <1>4 DEF NoProcessLost
<1>7. Progress'
  BY <1>1 DEF Progress
<1>8. OrderIsTopological' /\ OrderOnce'
  BY <1>1, PhaseKept
<1> QED BY <1>5, <1>6, <1>7, <1>8 DEF SupInv

LEMMA AdvanceKeeps == ASSUME SupInv, Advance PROVE SupInv'
<1>1. /\ TypeOK /\ OrderIsTopological /\ NoProcessLost /\ OrderOnce /\ Progress
      /\ UNCHANGED <<requires, phase, order, pos, owned, lost, refusals>>
      /\ phase \in {"up", "down"}
  BY DEF SupInv, Advance
<1>2. ASSUME NEW s \in Services
      PROVE  rt'[s] \in Runtimes /\ rt'[s].status = rt[s].status /\ rt'[s].pid = rt[s].pid
  <2>1. rt[s] \in Runtimes
    BY <1>1 DEF TypeOK, Runtimes
  <2> DEFINE w == Less(rt[s].wait)
             t == AtMost(rt[s].since + 1, HealthEvery[s])
  <2>2. w \in 0 .. MaxMs /\ t \in Nat
    BY <2>1, SupervisorAssumption DEF Less, AtMost, Runtimes
  <2>3. rt'[s] = [rt[s] EXCEPT !.wait = w, !.since = t]
    BY DEF Advance
  <2> HIDE DEF w, t
  <2> QED BY <2>1, <2>2, <2>3 DEF Runtimes
<1>3. rt' \in [Services -> Runtimes]
  <2>1. rt' = [s \in Services |-> rt'[s]]
    BY Zenon DEF Advance
  <2> QED BY <1>2, <2>1
<1>4. TypeOK'
  BY <1>1, <1>3 DEF TypeOK, Runtimes
<1>5. NoProcessLost'
  BY <1>1, <1>2 DEF NoProcessLost
<1>6. Progress'
  <2>1. ASSUME phase = "down", NEW i \in pos + 1 .. N
        PROVE  rt'[order[i]].status \in {"Stopped", "Failed"}
    <3>1. pos = 0 /\ rt[order[i]].status \in {"Stopped", "Failed"}
      BY <1>1, <2>1 DEF Progress
    <3>2. order[i] \in Services
      BY <1>1, <3>1, OrderEntries
    <3> QED BY <1>2, <3>1, <3>2
  <2> QED BY <1>1, <1>2, <2>1 DEF Progress
<1>7. OrderIsTopological' /\ OrderOnce'
  BY <1>1, PhaseKept
<1> QED BY <1>4, <1>5, <1>6, <1>7 DEF SupInv

LEMMA SupStep == SupInv /\ [Next]_vars => SupInv'
<1> SUFFICES ASSUME SupInv, [Next]_vars PROVE SupInv'
  OBVIOUS
<1>1. CASE New
  BY <1>1, NewKeeps
<1>2. CASE StartNext
  BY <1>2, StartNextKeeps
<1>3. CASE StartRefused \/ Started
  BY <1>3, StartEndKeeps
<1>4. CASE Signal
  BY <1>4, SignalKeeps
<1>5. CASE StopNext
  BY <1>5, StopNextKeeps
<1>6. CASE Down
  BY <1>6, DownKeeps
<1>7. CASE Advance
  BY <1>7, AdvanceKeeps
<1>8. CASE \E no \in SUBSET Services : Tick(no)
  BY <1>8, TickKeeps
<1>9. CASE \E s \in Services : Connection(s)
  BY <1>9, ConnectionKeeps
<1>10. CASE \E s \in Services : FallIll(s) \/ \E how \in Exited : Exit(s, how)
  BY <1>10, ProcessKeeps
<1>11. CASE UNCHANGED vars
  <2>1. UNCHANGED <<requires, phase, order, pos, rt, owned, lost, refusals>>
    BY <1>11 DEF vars
  <2>2. OrderIsTopological' /\ OrderOnce'
    BY <2>1, PhaseKept DEF SupInv
  <2>3. TypeOK' /\ NoProcessLost' /\ Progress'
    BY <2>1 DEF SupInv, TypeOK, NoProcessLost, Progress
  <2> QED BY <2>2, <2>3 DEF SupInv
<1> QED BY <1>1, <1>2, <1>3, <1>4, <1>5, <1>6, <1>7, <1>8, <1>9, <1>10, <1>11 DEF Next

LEMMA SupInvariant == Spec => []SupInv
BY SupInitially, SupStep, PTL DEF Spec

-----------------------------------------------------------------------------
(* The supervisor's state is well typed: restart_count saturates, every    *)
(* backoff stays within its maximum.                                      *)
THEOREM TypeCorrect == Spec => []TypeOK
<1>1. SupInv => TypeOK
  BY DEF SupInv
<1> QED BY <1>1, SupInvariant, PTL

(* Supervisor::new rejects a set of manifests only if services wait for    *)
(* each other; otherwise topological_order gives every service once, after *)
(* all it requires.                                                        *)
THEOREM OrderTopological == Spec => []OrderIsTopological
<1>1. SupInv => OrderIsTopological
  BY DEF SupInv
<1> QED BY <1>1, SupInvariant, PTL

(* No process outlives the pid on record for it, whatever poll_one,        *)
(* maybe_restart, shutdown and the host do in any order.                   *)
THEOREM ProcessesKnown == Spec => []NoProcessLost
<1>1. SupInv => NoProcessLost
  BY DEF SupInv
<1> QED BY <1>1, SupInvariant, PTL

(* While shutdown has a service stopped, nothing that requires it is       *)
(* alive.                                                                  *)
THEOREM DependentsFirst == Spec => []DependentsStopFirst
<1>1. ASSUME SupInv PROVE DependentsStopFirst
  <2> SUFFICES ASSUME phase \in {"stopping", "down"}, NEW s \in Services, NEW d \in Services,
                      rt[s].status = "Stopped", s \in requires[d]
               PROVE  owned[d] \notin Running
    BY DEF DependentsStopFirst
  <2>1. TypeOK /\ OrderIsTopological /\ NoProcessLost /\ Progress
    BY <1>1 DEF SupInv
  <2>2. PICK i \in pos + 1 .. N : order[i] = s
    BY <2>1 DEF Progress
  <2>3. PICK j \in 1 .. N : order[j] = d
    BY <2>1 DEF OrderIsTopological
  <2>4. pos \in Nat /\ i \in 1 .. N
    BY <2>1, SupervisorAssumption DEF TypeOK
  <2>5. i < j
    BY <2>1, <2>2, <2>3, <2>4 DEF OrderIsTopological
  <2>6. j \in pos + 1 .. N
    BY <2>4, <2>5, SupervisorAssumption
  <2>7. rt[d].status \in {"Stopped", "Failed"}
    BY <2>1, <2>3, <2>6 DEF Progress
  <2>8. owned[d] = "None"
    BY <2>1, <2>7 DEF NoProcessLost
  <2> QED BY <2>8 DEF Running
<1> QED BY <1>1, SupInvariant, PTL

(* After shutdown no process is left, and a tick, an expired backoff or a  *)
(* late connection starts none.                                            *)
THEOREM ShutdownFinal == Spec => []ShutdownIsFinal
<1>1. ASSUME SupInv PROVE ShutdownIsFinal
  <2> SUFFICES ASSUME phase = "down", NEW s \in Services
               PROVE  owned[s] = "None" /\ lost[s] = 0
    BY DEF ShutdownIsFinal
  <2>1. TypeOK /\ OrderIsTopological /\ NoProcessLost /\ Progress
    BY <1>1 DEF SupInv
  <2>2. PICK j \in 1 .. N : order[j] = s
    BY <2>1 DEF OrderIsTopological
  <2>3. rt[s].status \in {"Stopped", "Failed"}
    BY <2>1, <2>2 DEF Progress
  <2> QED BY <2>1, <2>3 DEF NoProcessLost
<1> QED BY <1>1, SupInvariant, PTL
=============================================================================
