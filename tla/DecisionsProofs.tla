-------------------------- MODULE DecisionsProofs --------------------------
(***************************************************************************)
(* Theorems about the decisions of the analysis, for every input.          *)
(***************************************************************************)
EXTENDS Decisions, FiniteSetTheorems, WellFoundedInduction, TLAPS

\* A decision is the one that the program makes for the input's kind.
Answered ==
  /\ input \in Inputs
  /\ DecidedOf("plan") =>
       output = [order |-> planned(input), run |-> executed(input), harness |-> starts_harness(input)]
  /\ DecidedOf("assess") =>
       LET p == prior_results(input)
           a == aggregate(p)
       IN  output = [assessment |-> a, missing |-> missing_evidence(p), paths |-> attack_paths(p),
                     rule |-> correlate(input.passive, a.active)]
  /\ DecidedOf("criterion") => output = _evaluate_match(input.software, input.match, input.evidence)
  /\ DecidedOf("configurations") =>
       output = evaluate_applicability_result(input.identified, input.configurations)
  /\ DecidedOf("cna") => output = evaluate_cna_applicability(input.software, input.items, input.os)
  /\ DecidedOf("cpe") => output = resolve_with_trace(input.software, input.os, input.rows)
  /\ DecidedOf("triage") =>
       output = [level |-> calculate_priority(input.a), trust |-> _resolve_applicability_trust(input.a)]
  /\ DecidedOf("support") => output = assess(input.version, input.entries, input.today, input.nearing)
  /\ DecidedOf("compliance") => output = assess_compliance(input.frameworks, input.profiles, input.evidence)
  /\ DecidedOf("framework") =>
       LET pack == apply_review(input.pack, input.decisions)
       IN  output = [pack |-> pack,
                     evaluation |-> _run_framework_evaluation(pack, input.findings, input.known,
                                                              input.allow_unreviewed)]
  /\ DecidedOf("malware") => output = evaluate_malware_protection(input)
  /\ DecidedOf("bitlocker") => output = resolve_bitlocker(input)
  /\ DecidedOf("membership") => output = administrative_privilege_posture(input)
  /\ DecidedOf("software") => output = _software_results(input)
  /\ DecidedOf("bundle") => output = [accepted |-> RunTrustedVerified(input)]

LEMMA InitAnswered == Init => Answered
  BY DEF Init, Answered, DecidedOf

LEMMA NextAnswered == Answered /\ [Next]_vars => Answered'
<1> SUFFICES ASSUME Answered, [Next]_vars PROVE Answered'
  OBVIOUS
<1> QED
  BY DEF Answered, DecidedOf, Next, vars, Decided, Decide, PlanRequest, Assess, EvaluateCriterion, EvaluateConfigurations, EvaluateCna, Resolve, Prioritize,
     AssessLifecycle, AssessCompliance, EvaluateFramework, StartTrusted, AssessMalware, AssessBitLocker, AssessMembership, ReportSoftware

-----------------------------------------------------------------------------
(* Recursive functions over the numbers *)

\* A set of numbers that is not empty has a least one.
LEMMA Smallest ==
  ASSUME NEW K \in SUBSET Nat, K # {}
  PROVE  \E k \in K : \A j \in K : ~(j < k)
<1>1. \E k \in K : \A j \in K : <<j, k>> \notin OpToRel(<, Nat)
  BY NatLessThanWellFounded, WFMin, Zenon
<1>2. PICK k \in K : \A j \in K : <<j, k>> \notin OpToRel(<, Nat)
  BY <1>1
<1> QED BY <1>2 DEF OpToRel

\* The first of some places is one of them.
LEMMA EarliestIn ==
  ASSUME NEW S \in SUBSET Nat, S # {}
  PROVE  earliest(S) \in S /\ \A n \in S : earliest(S) <= n
<1>1. PICK k \in S : \A j \in S : ~(j < k)
  BY Smallest
<1>2. \A j \in S : k <= j
  BY <1>1
<1> QED BY <1>1, <1>2, Zenon DEF earliest

\* What holds at the start of an interval and passes on holds on the interval.
LEMMA Climb ==
  ASSUME NEW a \in Nat, NEW m \in Nat, NEW K, a \in K,
         \A n \in a..m : n \in K /\ n < m => n + 1 \in K
  PROVE  \A n \in a..m : n \in K
<1> SUFFICES ASSUME NEW n \in a..m, n \notin K PROVE FALSE
  OBVIOUS
<1> DEFINE Missed == {k \in a..m : k \notin K}
<1>1. PICK k \in Missed : \A j \in Missed : ~(j < k)
  <2>1. Missed \in SUBSET Nat /\ Missed # {}
    OBVIOUS
  <2> HIDE DEF Missed
  <2> QED BY <2>1, Smallest
<1>2. k # a
  OBVIOUS
<1>3. k - 1 \in a..m /\ k - 1 < k /\ k - 1 < m
  BY <1>2
<1>4. k - 1 \in K
  BY <1>1, <1>3
<1>5. (k - 1) + 1 \in K
  BY <1>3, <1>4
<1>6. (k - 1) + 1 = k
  OBVIOUS
<1> QED BY <1>5, <1>6

\* A function on an interval may be defined by what it is before each point.
Recurs(f, m, G) == \A n \in 1..m : f[n] = G[[j \in 1..(n - 1) |-> f[j]]]

LEMMA Recursion ==
  ASSUME NEW m \in Nat, NEW V, NEW G \in [Seq(V) -> V]
  PROVE  \E f \in [1..m -> V] : Recurs(f, m, G)
<1> DEFINE Solves(f, k) == \A n \in 1..k : f[n] = G[[j \in 1..(n - 1) |-> f[j]]]
           K == {k \in Nat : \E f \in [1..k -> V] : Solves(f, k)}
<1>1. 0 \in K
  <2>1. [n \in 1..0 |-> n] \in [1..0 -> V] /\ Solves([n \in 1..0 |-> n], 0)
    OBVIOUS
  <2> QED BY <2>1
<1>2. ASSUME NEW k \in Nat, k \in K PROVE k + 1 \in K
  <2>1. PICK f \in [1..k -> V] : Solves(f, k)
    BY <1>2
  <2> DEFINE g == [n \in 1..(k + 1) |-> IF n = k + 1 THEN G[f] ELSE f[n]]
  <2>2. f \in Seq(V)
    OBVIOUS
  <2>3. g \in [1..(k + 1) -> V]
    BY <2>2
  <2>4. \A n \in 1..k : g[n] = f[n]
    OBVIOUS
  <2>5. ASSUME NEW n \in 1..(k + 1) PROVE g[n] = G[[j \in 1..(n - 1) |-> g[j]]]
    <3>1. \A j \in 1..(n - 1) : j \in 1..k
      OBVIOUS
    <3>2. [j \in 1..(n - 1) |-> g[j]] = [j \in 1..(n - 1) |-> f[j]]
      <4> HIDE DEF g
      <4> QED BY <2>4, <3>1
    <3>3. CASE n = k + 1
      <4>1. [j \in 1..(n - 1) |-> f[j]] = f
        BY <3>3
      <4>2. g[n] = G[f]
        BY <3>3
      <4> HIDE DEF g
      <4> QED BY <3>2, <4>1, <4>2
    <3>4. CASE n # k + 1
      <4>1. n \in 1..k
        BY <3>4
      <4>2. f[n] = G[[j \in 1..(n - 1) |-> f[j]]]
        BY <2>1, <4>1
      <4> HIDE DEF g
      <4> QED BY <2>4, <3>2, <4>1, <4>2
    <3> QED BY <3>3, <3>4
  <2>6. Solves(g, k + 1)
    <3> HIDE DEF g
    <3> QED BY <2>5
  <2> HIDE DEF g, Solves
  <2> QED BY <2>3, <2>6
<1>3. \A n \in 0..m : n \in K
  <2> HIDE DEF K
  <2> QED BY <1>1, <1>2, Climb
<1>4. m \in K
  <2> HIDE DEF K
  <2> QED BY <1>3
<1> QED BY <1>4 DEF Recurs

\* The same when each value is made of the one before.
RecursOnStep(f, m, a, g) == f = [n \in 1..m |-> IF n = 1 THEN a ELSE g[f[n - 1]]]

LEMMA StepRecursion ==
  ASSUME NEW m \in Nat, NEW V, NEW a \in V, NEW g \in [V -> V]
  PROVE  \E f \in [1..m -> V] : RecursOnStep(f, m, a, g)
<1> DEFINE G == [s \in Seq(V) |-> IF Len(s) = 0 THEN a ELSE g[s[Len(s)]]]
<1>1. G \in [Seq(V) -> V]
  OBVIOUS
<1>2. PICK f \in [1..m -> V] : Recurs(f, m, G)
  <2> HIDE DEF G
  <2> QED BY <1>1, Recursion, Zenon
<1>3. ASSUME NEW n \in 1..m PROVE f[n] = IF n = 1 THEN a ELSE g[f[n - 1]]
  <2> DEFINE s == [j \in 1..(n - 1) |-> f[j]]
  <2>1. s \in Seq(V) /\ Len(s) = n - 1 /\ (n # 1 => s[Len(s)] = f[n - 1])
    OBVIOUS
  <2>2. f[n] = G[s]
    BY <1>2 DEF Recurs
  <2> HIDE DEF s
  <2>3. f[n] = IF Len(s) = 0 THEN a ELSE g[s[Len(s)]]
    BY <2>1, <2>2
  <2> QED BY <2>1, <2>3
<1> QED BY <1>3 DEF RecursOnStep

\* The same when each value is made of the set of those before.
RecursOnSet(f, m, g) == \A n \in 1..m : f[n] = g[{f[j] : j \in 1..(n - 1)}]

LEMMA SetRecursion ==
  ASSUME NEW m \in Nat, NEW V, NEW g \in [SUBSET V -> V]
  PROVE  \E f \in [1..m -> V] : RecursOnSet(f, m, g)
<1> DEFINE G == [s \in Seq(V) |-> g[{s[j] : j \in 1..Len(s)}]]
<1>1. G \in [Seq(V) -> V]
  <2>1. \A s \in Seq(V) : {s[j] : j \in 1..Len(s)} \in SUBSET V
    OBVIOUS
  <2> QED BY <2>1
<1>2. PICK f \in [1..m -> V] : Recurs(f, m, G)
  <2> HIDE DEF G
  <2> QED BY <1>1, Recursion, Zenon
<1>3. ASSUME NEW n \in 1..m PROVE f[n] = g[{f[j] : j \in 1..(n - 1)}]
  <2> DEFINE s == [j \in 1..(n - 1) |-> f[j]]
  <2>1. s \in Seq(V) /\ Len(s) = n - 1
    OBVIOUS
  <2>2. {s[j] : j \in 1..Len(s)} = {f[j] : j \in 1..(n - 1)}
    BY <2>1
  <2>3. f[n] = G[s]
    BY <1>2 DEF Recurs
  <2> HIDE DEF s
  <2> QED BY <2>1, <2>2, <2>3
<1> QED BY <1>3 DEF RecursOnSet

\* As many values as there are points do not fill a larger set.
LEMMA FewValues ==
  ASSUME NEW k \in Nat, NEW f
  PROVE  LET T == {f[j] : j \in 1..k}
         IN  IsFiniteSet(T) /\ Cardinality(T) \in Nat /\ Cardinality(T) <= k
<1> DEFINE T == {f[j] : j \in 1..k}
           h == [j \in 1..k |-> f[j]]
<1>1. IsFiniteSet(1..k) /\ Cardinality(1..k) = k
  <2>1. IsFiniteSet(1..k) /\ Cardinality(1..k) = IF 1 > k THEN 0 ELSE k - 1 + 1
    BY FS_Interval, 1 \in Int, k \in Int
  <2>2. (IF 1 > k THEN 0 ELSE k - 1 + 1) = k
    OBVIOUS
  <2> QED BY <2>1, <2>2
<1>2. h \in Surjection(1..k, T)
  BY DEF Surjection
<1>3. IsFiniteSet(T) /\ Cardinality(T) <= Cardinality(1..k)
  <2> HIDE DEF h, T
  <2> QED BY <1>1, <1>2, FS_Surjection
<1>4. Cardinality(T) \in Nat
  BY <1>3, FS_CardinalityType
<1> QED BY <1>1, <1>3, <1>4

-----------------------------------------------------------------------------
(* The validation engine *)

\* A key is a pair of numbers.
LEMMA KeyIsNumbers ==
  ASSUME NEW registry, _validate_definition(registry), NEW v
  PROVE  _execution_key(registry, v)[1] \in Nat /\ _execution_key(registry, v)[2] \in Nat
<1>1. (IF v \in DOMAIN registry THEN registry[v].order ELSE LastOrder) \in Nat
  <2>1. LastOrder \in Nat
    BY SMT DEF LastOrder
  <2>2. CASE v \in DOMAIN registry
    BY <2>1, <2>2 DEF _validate_definition
  <2>3. CASE v \notin DOMAIN registry
    BY <2>1, <2>3
  <2> QED BY <2>2, <2>3
<1>2. (IF v \in ToSet(Identifiers) THEN CHOOSE i \in DOMAIN Identifiers : Identifiers[i] = v ELSE 0) \in Nat
  <2>1. DOMAIN Identifiers \subseteq Nat
    BY DEF Identifiers
  <2>2. v \in ToSet(Identifiers) => \E i \in DOMAIN Identifiers : Identifiers[i] = v
    BY DEF ToSet
  <2> HIDE DEF Identifiers
  <2> QED BY <2>1, <2>2
<1> QED BY <1>1, <1>2 DEF _execution_key

\* The first of a set is one of it.
LEMMA FirstOfSet ==
  ASSUME NEW registry, _validate_definition(registry), NEW S, S # {}
  PROVE  first(registry, S) \in S
<1> DEFINE k1(v) == _execution_key(registry, v)[1]
           k2(v) == _execution_key(registry, v)[2]
           Orders == {k1(v) : v \in S}
<1>1. \A v : k1(v) \in Nat /\ k2(v) \in Nat
  BY KeyIsNumbers
<1> HIDE DEF k1, k2
<1>2. Orders \in SUBSET Nat /\ Orders # {}
  BY <1>1
<1>3. PICK k \in Orders : \A j \in Orders : ~(j < k)
  <2> HIDE DEF Orders
  <2> QED BY <1>2, Smallest
<1> DEFINE Ties == {k2(v) : v \in {w \in S : k1(w) = k}}
<1>4. Ties \in SUBSET Nat /\ Ties # {}
  BY <1>1, <1>3
<1>5. PICK l \in Ties : \A j \in Ties : ~(j < l)
  <2> HIDE DEF Ties
  <2> QED BY <1>4, Smallest
<1>6. PICK v \in S : k1(v) = k /\ k2(v) = l
  BY <1>5
<1>7. \A w \in S : ~before(_execution_key(registry, w), _execution_key(registry, v))
  <2> SUFFICES ASSUME NEW w \in S, before(_execution_key(registry, w), _execution_key(registry, v)) PROVE FALSE
    OBVIOUS
  <2>1. k1(w) < k1(v) \/ (k1(w) = k1(v) /\ k2(w) < k2(v))
    BY DEF before, k1, k2
  <2>2. k1(w) \in Orders /\ (k1(w) = k => k2(w) \in Ties)
    OBVIOUS
  <2> QED BY <1>3, <1>5, <1>6, <2>1, <2>2
<1> QED BY <1>7, Zenon DEF first

\* A descent goes from one selected validator to another.
LEMMA VisitSelected ==
  ASSUME NEW registry, _validate_definition(registry), NEW wanted, IsFiniteSet(wanted),
         NEW done, wanted \ done # {}
  PROVE  visit(registry, wanted, done) \in wanted
<1> DEFINE m == Cardinality(wanted)
           a == first(registry, wanted \ done)
           g == [v \in wanted |-> step_down(registry, wanted, done, v)]
           P(f) == f = [n \in 1..m |->
                         IF n = 1 THEN first(registry, wanted \ done)
                         ELSE step_down(registry, wanted, done, f[n - 1])]
           d == descent(registry, wanted, done)
<1>1. m \in Nat /\ m # 0
  BY FS_CardinalityType, FS_EmptySet
<1>2. a \in wanted
  BY FirstOfSet
<1>3. ASSUME NEW v \in wanted PROVE step_down(registry, wanted, done, v) \in wanted
  <2>1. CASE waits_for(registry, wanted, done, v) = {}
    BY <2>1 DEF step_down
  <2>2. CASE waits_for(registry, wanted, done, v) # {}
    <3>1. first(registry, waits_for(registry, wanted, done, v)) \in waits_for(registry, wanted, done, v)
      BY <2>2, FirstOfSet
    <3> QED BY <2>2, <3>1 DEF step_down, waits_for
  <2> QED BY <2>1, <2>2
<1>4. g \in [wanted -> wanted]
  BY <1>3
<1>5. PICK f \in [1..m -> wanted] : RecursOnStep(f, m, a, g)
  <2> HIDE DEF m, a, g
  <2> QED BY <1>1, <1>2, <1>4, StepRecursion, Zenon
<1>6. P(f)
  <2>1. \A n \in 1..m : f[n] = IF n = 1 THEN a ELSE g[f[n - 1]]
    BY <1>5, Zenon DEF RecursOnStep
  <2>2. \A n \in 1..m : n # 1 => f[n - 1] \in wanted
    BY <1>1
  <2>3. \A n \in 1..m : f[n] = IF n = 1 THEN a ELSE step_down(registry, wanted, done, f[n - 1])
    <3> HIDE DEF m, a
    <3> QED BY <2>1, <2>2
  <2> HIDE DEF m
  <2> QED BY <2>3
<1>7. P(d)
  <2>1. P(CHOOSE h : P(h))
    <3> HIDE DEF P
    <3> QED BY <1>6, Zenon
  <2> QED BY <2>1 DEF descent
<1> HIDE DEF d
<1>8. \A n \in 1..m : d[n] = IF n = 1 THEN a ELSE step_down(registry, wanted, done, d[n - 1])
  <2>1. d = [n \in 1..m |-> IF n = 1 THEN a ELSE step_down(registry, wanted, done, d[n - 1])]
    BY <1>7
  <2> HIDE DEF m, a
  <2> QED BY <2>1
<1> DEFINE K == {n \in Nat : d[n] \in wanted}
<1>9. \A n \in 1..m : n \in K
  <2> HIDE DEF m, a, g
  <2>1. 1 \in K
    BY <1>1, <1>2, <1>8
  <2>2. ASSUME NEW n \in 1..m, n \in K, n < m PROVE n + 1 \in K
    <3>1. n + 1 \in 1..m /\ n + 1 # 1 /\ (n + 1) - 1 = n
      BY <1>1, <2>2
    <3>2. d[n + 1] = step_down(registry, wanted, done, d[n])
      BY <1>8, <3>1
    <3>3. d[n + 1] \in wanted
      BY <1>3, <2>2, <3>2
    <3> QED BY <3>3
  <2>3. \A n \in 1..m : n \in K /\ n < m => n + 1 \in K
    BY <2>2
  <2> HIDE DEF K
  <2>4. 1 \in Nat
    OBVIOUS
  <2> QED BY <1>1, <2>1, <2>3, <2>4, Climb
<1>10. d[m] \in wanted
  <2>1. m \in 1..m
    BY <1>1
  <2> HIDE DEF m
  <2> QED BY <1>9, <2>1
<1> QED BY <1>10 DEF visit, d

\* The order visits selected validators only, and each after what was visited.
LEMMA VisitedSelected ==
  ASSUME NEW registry, _validate_definition(registry), NEW wanted, IsFiniteSet(wanted)
  PROVE  visited(registry, wanted) \in [1..Cardinality(wanted) -> wanted]
<1> DEFINE m == Cardinality(wanted)
           o == visited(registry, wanted)
           P(f) == f = [n \in 1..m |-> visit(registry, wanted, appended(f, n))]
<1>1. m \in Nat
  BY FS_CardinalityType
<1>2. CASE wanted = {}
  <2>1. m = 0
    BY <1>2, FS_EmptySet
  <2>2. P([n \in 1..m |-> n])
    <3> HIDE DEF m
    <3> QED BY <2>1
  <2>3. P(CHOOSE h : P(h))
    <3> HIDE DEF P
    <3> QED BY <2>2, Zenon
  <2>4. P(o)
    BY <2>3 DEF visited
  <2> HIDE DEF o
  <2>5. o = [n \in 1..m |-> visit(registry, wanted, appended(o, n))]
    BY <2>4
  <2>6. o \in [1..m -> wanted]
    <3> HIDE DEF m
    <3> QED BY <2>1, <2>5
  <2> QED BY <2>6 DEF o
<1>3. CASE wanted # {}
  <2>1. PICK x : x \in wanted
    BY <1>3
  <2> DEFINE g == [D \in SUBSET wanted |-> IF D = wanted THEN x ELSE visit(registry, wanted, D)]
  <2>2. g \in [SUBSET wanted -> wanted]
    <3>1. ASSUME NEW D \in SUBSET wanted, D # wanted PROVE visit(registry, wanted, D) \in wanted
      <4>1. wanted \ D # {}
        BY <3>1
      <4> QED BY <4>1, VisitSelected
    <3> QED BY <2>1, <3>1
  <2>3. PICK f \in [1..m -> wanted] : RecursOnSet(f, m, g)
    <3> HIDE DEF m, g
    <3> QED BY <1>1, <2>2, SetRecursion, Zenon
  <2>4. ASSUME NEW n \in 1..m PROVE f[n] = visit(registry, wanted, appended(f, n))
    <3>1. appended(f, n) \in SUBSET wanted
      <4>1. \A j \in 1..(n - 1) : j \in 1..m
        BY <1>1
      <4> HIDE DEF m
      <4> QED BY <4>1 DEF appended
    <3>2. appended(f, n) # wanted
      <4>2. Cardinality(appended(f, n)) \in Nat /\ Cardinality(appended(f, n)) <= n - 1
        <5>1. n - 1 \in Nat
          BY <1>1
        <5> QED BY <5>1, FewValues DEF appended
      <4>3. n - 1 < m /\ n - 1 \in Nat
        BY <1>1
      <4> QED BY <1>1, <4>2, <4>3
    <3>3. f[n] = g[appended(f, n)]
      BY <2>3 DEF appended, RecursOnSet
    <3> QED BY <3>1, <3>2, <3>3
  <2>5. P(f)
    <3> HIDE DEF m
    <3> QED BY <2>3, <2>4
  <2>6. P(CHOOSE h : P(h))
    <3> HIDE DEF P
    <3> QED BY <2>5, Zenon
  <2>7. P(o)
    BY <2>6 DEF visited
  <2> HIDE DEF o
  <2>8. o = [n \in 1..m |-> visit(registry, wanted, appended(o, n))]
    BY <2>7
  <2> DEFINE K == {n \in Nat : \A j \in 1..n : o[j] \in wanted}
  <2>9. \A n \in 0..m : n \in K
    <3>1. 0 \in K
      OBVIOUS
    <3>2. ASSUME NEW n \in 0..m, n \in K, n < m PROVE n + 1 \in K
      <4>1. n + 1 \in 1..m /\ n \in Nat /\ (n + 1) - 1 = n
        BY <1>1, <3>2
      <4>2. o[n + 1] = visit(registry, wanted, appended(o, n + 1))
        <5> HIDE DEF m
        <5> QED BY <2>8, <4>1
      <4>3. appended(o, n + 1) = {o[j] : j \in 1..n}
        BY <4>1 DEF appended
      <4>4. appended(o, n + 1) \in SUBSET wanted
        BY <3>2, <4>3
      <4>5. appended(o, n + 1) # wanted
        <5>2. Cardinality({o[j] : j \in 1..n}) \in Nat /\ Cardinality({o[j] : j \in 1..n}) <= n
          BY <4>1, FewValues
        <5>3. n < m
          BY <3>2
        <5>4. ~(m <= n)
          BY <1>1, <4>1, <5>3
        <5> QED BY <4>3, <5>2, <5>4
      <4>6. wanted \ appended(o, n + 1) # {}
        BY <4>4, <4>5
      <4>7. o[n + 1] \in wanted
        BY <4>2, <4>6, VisitSelected
      <4>8. \A j \in 1..(n + 1) : j \in 1..n \/ j = n + 1
        BY <4>1
      <4> QED BY <3>2, <4>1, <4>7, <4>8
    <3> HIDE DEF K, m
    <3> QED BY <1>1, <3>1, <3>2, Climb
  <2>10. \A n \in 1..m : o[n] \in wanted
    <3>1. m \in 0..m
      BY <1>1
    <3>2. m \in K
      <4> HIDE DEF K, m
      <4> QED BY <2>9, <3>1
    <3> HIDE DEF m
    <3> QED BY <3>2
  <2>11. o \in [1..m -> wanted]
    <3> HIDE DEF m
    <3> QED BY <2>8, <2>10
  <2> QED BY <2>11 DEF o
<1> QED BY <1>2, <1>3

\* Each round adds the dependencies of what was there.
LEMMA ResolvedRounds ==
  ASSUME NEW registry, IsFiniteSet(DOMAIN registry), NEW S, NEW n \in 1..Rounds(registry)
  PROVE  resolved(registry, S)[n] =
           IF n = 1 THEN S ELSE one_more_round(registry, resolved(registry, S)[n - 1])
<1> DEFINE m == Rounds(registry)
           U == S \cup UNION {registry[v].depends : v \in DOMAIN registry}
           V == SUBSET U
           g == [R \in V |-> one_more_round(registry, R)]
           P(f) == f = [i \in 1..Rounds(registry) |->
                          IF i = 1 THEN S ELSE one_more_round(registry, f[i - 1])]
           r == resolved(registry, S)
<1>1. m \in Nat
  BY FS_CardinalityType DEF Rounds
<1>2. S \in V
  OBVIOUS
<1>3. g \in [V -> V]
  BY DEF one_more_round
<1>4. PICK f \in [1..m -> V] : RecursOnStep(f, m, S, g)
  <2> HIDE DEF m, V, g
  <2> QED BY <1>1, <1>2, <1>3, StepRecursion, Zenon
<1>5. P(f)
  <2>1. \A i \in 1..m : i # 1 => i - 1 \in 1..m
    BY <1>1
  <2> HIDE DEF m, V
  <2> QED BY <1>4, <2>1 DEF m, RecursOnStep
<1>6. P(CHOOSE h : P(h))
  <2> HIDE DEF P
  <2> QED BY <1>5, Zenon
<1>7. P(r)
  BY <1>6 DEF resolved
<1> HIDE DEF r
<1>8. r = [i \in 1..Rounds(registry) |-> IF i = 1 THEN S ELSE one_more_round(registry, r[i - 1])]
  BY <1>7
<1>9. r[n] = IF n = 1 THEN S ELSE one_more_round(registry, r[n - 1])
  BY <1>8
<1> QED BY <1>9 DEF r

\* What a validator that was resolved depends on was resolved.
LEMMA DependenciesClosed ==
  ASSUME NEW registry, IsFiniteSet(DOMAIN registry), NEW S,
         NEW u \in with_dependencies(registry, S) \cap DOMAIN registry
  PROVE  registry[u].depends \subseteq with_dependencies(registry, S)
<1> DEFINE D == DOMAIN registry
           m == Rounds(registry)
           R(n) == resolved(registry, S)[n]
           Closed(n) == \A v \in R(n) \cap D : registry[v].depends \subseteq R(n)
<1>1. Cardinality(D) \in Nat /\ m \in Nat /\ m = Cardinality(D) + 2
  BY FS_CardinalityType DEF Rounds
<1>2. ASSUME NEW n \in 1..m, n < m
      PROVE  R(n + 1) = R(n) \cup UNION {registry[v].depends : v \in R(n) \cap D}
  <2>1. n + 1 \in 1..m /\ n + 1 # 1 /\ (n + 1) - 1 = n
    BY <1>1, <1>2
  <2>2. R(n + 1) = one_more_round(registry, R(n))
    BY <2>1, ResolvedRounds
  <2> QED BY <2>2 DEF one_more_round
<1> HIDE DEF R, D, m
<1>3. ASSUME NEW n \in 1..m, n < m, Closed(n) PROVE R(n + 1) = R(n) /\ Closed(n + 1)
  <2>1. R(n + 1) = R(n)
    BY <1>2, <1>3
  <2> QED BY <1>3, <2>1
<1>4. ASSUME NEW n \in 1..m, Closed(n) PROVE Closed(m)
  <2> DEFINE K == {k \in Nat : Closed(k)}
  <2>1. n \in K /\ n \in Nat
    BY <1>1, <1>4
  <2>2. \A k \in n..m : k \in K /\ k < m => k + 1 \in K
    <3>1. \A k \in n..m : k \in 1..m /\ k + 1 \in Nat
      BY <1>1
    <3> HIDE DEF Closed
    <3> QED BY <1>3, <3>1
  <2>3. \A k \in n..m : k \in K
    <3> HIDE DEF K
    <3> QED BY <1>1, <2>1, <2>2, Climb
  <2>4. m \in n..m
    BY <1>1
  <2> HIDE DEF Closed
  <2> QED BY <2>3, <2>4
<1>5. ASSUME NEW n \in 1..m, n < m, R(n) \cap D = R(n + 1) \cap D PROVE Closed(n + 1)
  <2>1. R(n + 1) = R(n) \cup UNION {registry[v].depends : v \in R(n) \cap D}
    BY <1>2, <1>5
  <2>2. ASSUME NEW v \in R(n + 1) \cap D PROVE registry[v].depends \subseteq R(n + 1)
    <3>1. v \in R(n) \cap D
      BY <1>5
    <3> QED BY <2>1, <3>1
  <2> QED BY <2>2
<1>6. Closed(m)
  <2> SUFFICES ASSUME ~Closed(m) PROVE FALSE
    OBVIOUS
  <2> DEFINE K == {n \in Nat : Cardinality(R(n) \cap D) >= n - 1}
  <2>1. \A n \in 1..m : IsFiniteSet(R(n) \cap D) /\ Cardinality(R(n) \cap D) \in Nat
    <3>1. \A n : R(n) \cap D \subseteq D
      OBVIOUS
    <3>2. IsFiniteSet(D)
      BY DEF D
    <3> QED BY <3>1, <3>2, FS_Subset, FS_CardinalityType
  <2>2. 1 \in K
    <3>1. 1 \in 1..m
      BY <1>1
    <3>2. Cardinality(R(1) \cap D) \in Nat
      BY <2>1, <3>1
    <3> QED BY <3>2
  <2>3. ASSUME NEW n \in 1..m, n \in K, n < m PROVE n + 1 \in K
    <3>1. n + 1 \in 1..m
      BY <1>1, <2>3
    <3>2. R(n) \cap D # R(n + 1) \cap D
      <4> HIDE DEF Closed
      <4> QED BY <1>4, <1>5, <2>3, <3>1
    <3>3. R(n) \cap D \subseteq R(n + 1) \cap D
      BY <1>2, <2>3
    <3> DEFINE A == R(n) \cap D
               B == R(n + 1) \cap D
    <3>4. IsFiniteSet(B) /\ Cardinality(B) \in Nat /\ Cardinality(A) \in Nat
      BY <2>1, <3>1
    <3>5. Cardinality(A) <= Cardinality(B) /\ Cardinality(A) # Cardinality(B)
      <4>1. A \in SUBSET B /\ A # B
        BY <3>2, <3>3
      <4> HIDE DEF A, B
      <4> QED BY <3>4, <4>1, FS_Subset
    <3>6. Cardinality(A) >= n - 1
      BY <2>3
    <3> HIDE DEF A, B
    <3>7. Cardinality(B) >= (n + 1) - 1
      BY <1>1, <3>4, <3>5, <3>6
    <3>8. n + 1 \in Nat
      BY <1>1
    <3> QED BY <3>7, <3>8 DEF B
  <2>4. \A n \in 1..m : n \in K
    <3> HIDE DEF K
    <3> QED BY <1>1, <2>2, <2>3, Climb
  <2>5. m \in 1..m
    BY <1>1
  <2>6. Cardinality(R(m) \cap D) >= m - 1 /\ Cardinality(R(m) \cap D) \in Nat
    BY <2>1, <2>4, <2>5
  <2>7. Cardinality(R(m) \cap D) <= Cardinality(D)
    <3>1. R(m) \cap D \in SUBSET D /\ IsFiniteSet(D)
      BY DEF D
    <3> QED BY <3>1, FS_Subset
  <2> QED BY <1>1, <2>6, <2>7
<1> QED BY <1>6 DEF with_dependencies, R, D, m

\* What was resolved was asked for, or something that was resolved depends on it.
LEMMA DependenciesWanted ==
  ASSUME NEW registry, IsFiniteSet(DOMAIN registry), NEW S, NEW v \in with_dependencies(registry, S)
  PROVE  \/ v \in S
         \/ \E u \in with_dependencies(registry, S) \cap DOMAIN registry : v \in registry[u].depends
<1> DEFINE m == Rounds(registry)
           R(n) == resolved(registry, S)[n]
           K == {n \in Nat : \A w \in R(n) : w \in S \/ \E u \in R(n) \cap DOMAIN registry : w \in registry[u].depends}
<1>1. m \in Nat /\ m >= 1
  BY FS_CardinalityType DEF Rounds
<1>2. 1 \in K
  <2>1. 1 \in 1..m
    BY <1>1
  <2>2. R(1) = S
    BY <2>1, ResolvedRounds
  <2> HIDE DEF R
  <2> QED BY <2>2
<1>3. ASSUME NEW n \in 1..m, n \in K, n < m PROVE n + 1 \in K
  <2>1. n + 1 \in 1..m /\ n + 1 # 1 /\ (n + 1) - 1 = n
    BY <1>1, <1>3
  <2>2. R(n + 1) = one_more_round(registry, R(n))
    BY <2>1, ResolvedRounds
  <2>3. n + 1 \in Nat
    BY <1>1
  <2> HIDE DEF R
  <2> QED BY <1>3, <2>2, <2>3 DEF one_more_round
<1>4. \A n \in 1..m : n \in K
  <2> HIDE DEF K, m
  <2> QED BY <1>1, <1>2, <1>3, Climb
<1>5. m \in K
  <2>1. m \in 1..m
    BY <1>1
  <2> HIDE DEF K, m
  <2> QED BY <1>4, <2>1
<1> QED BY <1>5 DEF with_dependencies

\* A request that may be made.
Wellformed(q) ==
  /\ IsFiniteSet(DOMAIN q.registry) /\ _validate_definition(q.registry)
  /\ \A v \in DOMAIN q.registry : q.registry[v].risk \in Risks
  /\ "DEEP" \in DOMAIN q.registry =>
       /\ q.registry["DEEP"].risk = ResponderDeepValidator.risk
       /\ q.registry["DEEP"].impact = ResponderDeepValidator.impact
       /\ q.registry["DEEP"].privilege = ResponderDeepValidator.privilege

\* What is planned: every validator of the resolved selection was looked at, and none
\* comes before what it depends on.
LEMMA PlanLooked ==
  ASSUME NEW q, Wellformed(q), NEW i \in DOMAIN planned(q), planned(q) # <<>>
  PROVE  LET chosen == _resolve_dependencies(q)
             v == planned(q)[i]
         IN  /\ v \in chosen /\ chosen \subseteq DOMAIN q.registry
             /\ \A d \in chosen : validator_allowed(q, d)
             /\ require_scope(q.authorization, q.device, chosen)
             /\ selection_allowed(q) /\ dependencies_allowed(q)
             /\ validate_live_transport_config(q)
             /\ \A d \in q.registry[v].depends \cap chosen : \E j \in 1..(i - 1) : planned(q)[j] = d
             /\ i \in Nat /\ DOMAIN planned(q) = 1..Cardinality(chosen) /\ Cardinality(chosen) \in Nat
<1> DEFINE chosen == _resolve_dependencies(q)
           found == _topological_order(q.registry, chosen)
           o == visited(q.registry, chosen)
<1>1. planned(q) = plan(q) /\ validate_live_transport_config(q)
  BY DEF planned
<1>2. /\ selection_allowed(q) /\ dependencies_allowed(q)
      /\ require_scope(q.authorization, q.device, chosen)
      /\ chosen \subseteq DOMAIN q.registry
      /\ ~found.cycle
      /\ \A v \in chosen : validator_allowed(q, v)
      /\ plan(q) = found.order
  <2>1. plan(q) # <<>>
    BY <1>1
  <2> QED BY <2>1, Zenon DEF plan
<1>3. IsFiniteSet(chosen)
  BY <1>2, FS_Subset DEF Wellformed
<1>4. o \in [1..Cardinality(chosen) -> chosen]
  <2> HIDE DEF chosen
  <2> QED BY <1>3, VisitedSelected DEF Wellformed
<1>5. /\ planned(q) = o
      /\ \A n \in DOMAIN o : waits_for(q.registry, chosen, appended(o, n), o[n]) = {}
  <2>1. /\ found.order = o
        /\ found.cycle = (\E n \in DOMAIN o : waits_for(q.registry, chosen, appended(o, n), o[n]) # {})
    <3> HIDE DEF o, chosen
    <3> QED BY DEF _topological_order, o
  <2> HIDE DEF o, chosen, found
  <2> QED BY <1>1, <1>2, <2>1
<1> HIDE DEF o, found
<1>6. \A d \in q.registry[o[i]].depends \cap chosen : \E j \in 1..(i - 1) : o[j] = d
  <2>1. waits_for(q.registry, chosen, appended(o, i), o[i]) = {}
    BY <1>5
  <2> HIDE DEF chosen
  <2> QED BY <2>1 DEF waits_for, appended
<1>7. o[i] \in chosen /\ i \in Nat /\ DOMAIN o = 1..Cardinality(chosen) /\ Cardinality(chosen) \in Nat
  <2>1. DOMAIN o = 1..Cardinality(chosen) /\ i \in DOMAIN o
    BY <1>4, <1>5
  <2>2. Cardinality(chosen) \in Nat
    BY <1>3, FS_CardinalityType
  <2> HIDE DEF chosen
  <2> QED BY <1>4, <2>1, <2>2
<1> QED BY <1>1, <1>2, <1>5, <1>6, <1>7

\* A validator that runs is planned.
LEMMA RunPlanned ==
  ASSUME NEW q, NEW v \in executed(q)
  PROVE  /\ planned(q) # <<>> /\ check_applicability(q, v)
         /\ \E i \in DOMAIN planned(q) : planned(q)[i] = v
<1>1. v \in ToSet(planned(q)) /\ check_applicability(q, v)
  BY DEF executed
<1>2. PICK i \in DOMAIN planned(q) : planned(q)[i] = v
  BY <1>1 DEF ToSet
<1>3. DOMAIN planned(q) # {}
  BY <1>2
<1>4. DOMAIN <<>> = {}
  OBVIOUS
<1>5. planned(q) # <<>>
  BY <1>3, <1>4
<1> QED BY <1>1, <1>2, <1>5

\* What the profile asks of a risk holds of all that runs.
LEMMA RiskFits ==
  ASSUME NEW q, Wellformed(q), selection_allowed(q), dependencies_allowed(q),
         NEW v \in _resolve_dependencies(q), v \in DOMAIN q.registry, validator_allowed(q, v),
         _resolve_dependencies(q) \subseteq DOMAIN q.registry
  PROVE  risk_fits(q, v)
<1> DEFINE chosen == _resolve_dependencies(q)
           wanted == _resolve_selection(q)
           S == wanted \cup IF "DEEP" \in wanted THEN {"EXPOSURE"} ELSE {}
<1>1. chosen = with_dependencies(q.registry, S)
  BY DEF _resolve_dependencies
<1>2. v \in S \/ \E u \in chosen \cap DOMAIN q.registry : v \in q.registry[u].depends
  <2> HIDE DEF S
  <2> QED BY <1>1, DependenciesWanted DEF Wellformed
<1>3. CASE v \in wanted
  BY <1>3 DEF selection_allowed
<1>4. CASE v \in S \ wanted
  <2>1. "DEEP" \in wanted
    BY <1>4
  <2>2. q.profile = "deep"
    BY <2>1 DEF selection_allowed
  <2>3. q.registry[v].risk \in Risks \ {"RESTRICTED", "PROHIBITED"}
    BY DEF validator_allowed, validate_validator_safety, Wellformed
  <2>4. PROFILE_RISKS["deep"] = Risks \ {"RESTRICTED", "PROHIBITED"}
    BY DEF PROFILE_RISKS, Risks
  <2> QED BY <2>2, <2>3, <2>4 DEF risk_fits
<1>5. CASE \E u \in chosen \cap DOMAIN q.registry : v \in q.registry[u].depends
  BY <1>5 DEF dependencies_allowed
<1> QED BY <1>2, <1>3, <1>4, <1>5

\* Whatever runs is permitted.
LEMMA ExecutedIsPermitted ==
  ASSUME NEW q, Wellformed(q), NEW v \in executed(q)
  PROVE  /\ q.registry[v].status = "ACTIVE" /\ q.registry[v].risk \in q.policy.risks
         /\ "enabled" \in q.policy.allows
         /\ v \in q.authorization.validators /\ q.device \in q.authorization.devices
         /\ q.profile # None => q.registry[v].risk \in PROFILE_RISKS[q.profile]
<1>1. PICK i \in DOMAIN planned(q) : planned(q)[i] = v
  BY RunPlanned
<1>2. planned(q) # <<>>
  BY RunPlanned
<1> DEFINE chosen == _resolve_dependencies(q)
<1>3. /\ v \in chosen /\ chosen \subseteq DOMAIN q.registry
      /\ validator_allowed(q, v)
      /\ require_scope(q.authorization, q.device, chosen)
      /\ selection_allowed(q) /\ dependencies_allowed(q)
  BY <1>1, <1>2, PlanLooked
<1>4. risk_fits(q, v)
  BY <1>3, RiskFits
<1> QED BY <1>3, <1>4 DEF validator_allowed, validate_validator_safety, get_active, require_scope, risk_fits

\* The harness starts only with everyone's consent.
LEMMA HarnessNeedsConsent ==
  ASSUME NEW q, Wellformed(q), starts_harness(q)
  PROVE  /\ q.profile = "deep"
         /\ {"allowNetworkListeners", "allowTemporarySystemChanges", "allowTemporaryFirewallChanges",
             "allowDeepResponderValidation"} \subseteq q.policy.allows
         /\ {"temporaryListener", "temporaryFirewallChange", "authenticationChallenge",
             "nameResolutionSpoofing"} \subseteq q.authorization.permissions
         /\ q.live.listener \in q.authorization.sources
         /\ q.live.target \in q.authorization.targets \ {q.live.listener}
         /\ q.authorization.identity # None /\ "LOCAL_ADMIN" \in q.privileges
<1>1. "DEEP" \in executed(q) /\ q.live # None
  BY DEF starts_harness
<1>2. PICK i \in DOMAIN planned(q) : planned(q)[i] = "DEEP"
  BY <1>1, RunPlanned
<1>3. planned(q) # <<>> /\ check_applicability(q, "DEEP")
  BY <1>1, RunPlanned
<1>4. /\ "DEEP" \in DOMAIN q.registry /\ validator_allowed(q, "DEEP")
      /\ validate_live_transport_config(q)
  BY <1>2, <1>3, PlanLooked
<1>5. q.registry["DEEP"].risk = "CONTROLLED_TEMPORARY_CHANGE" /\ q.registry["DEEP"].impact = "SCOPED_LISTENER"
      /\ q.registry["DEEP"].privilege = "LOCAL_ADMIN"
  BY <1>4 DEF Wellformed, ResponderDeepValidator, ValidatorDefinition
<1>6. {"allowNetworkListeners", "allowTemporarySystemChanges"} \subseteq q.policy.allows
      /\ "LOCAL_ADMIN" \in q.privileges
  BY <1>4, <1>5 DEF validator_allowed, validate_validator_safety
<1>7. /\ q.profile = "deep" /\ DeepPermits \subseteq q.policy.allows
      /\ {"temporaryListener", "temporaryFirewallChange", "authenticationChallenge",
          "nameResolutionSpoofing"} \subseteq q.authorization.permissions
      /\ q.authorization.identity # None
  BY <1>3 DEF check_applicability
<1>8. {"allowTemporaryFirewallChanges", "allowDeepResponderValidation"} \subseteq q.policy.allows
  BY <1>7 DEF DeepPermits
<1>9. /\ q.live.listener \in q.authorization.sources
      /\ q.live.target \in q.authorization.targets \ {q.live.listener}
  BY <1>1, <1>4 DEF validate_live_transport_config
<1> QED BY <1>6, <1>7, <1>8, <1>9

\* Dependencies are planned before what needs them and run.
LEMMA PlanFollowsDependencies ==
  ASSUME NEW q, Wellformed(q), NEW i \in DOMAIN planned(q),
         NEW d \in q.registry[planned(q)[i]].depends
  PROVE  /\ \E j \in 1..(i - 1) : planned(q)[j] = d
         /\ d # "DEEP" => d \in executed(q)
<1> DEFINE chosen == _resolve_dependencies(q)
           v == planned(q)[i]
<1>1. planned(q) # <<>>
  <2>1. DOMAIN planned(q) # {} /\ DOMAIN <<>> = {}
    OBVIOUS
  <2> QED BY <2>1
<1>2. /\ v \in chosen /\ chosen \subseteq DOMAIN q.registry
      /\ \A u \in chosen : validator_allowed(q, u)
      /\ \A u \in q.registry[v].depends \cap chosen : \E j \in 1..(i - 1) : planned(q)[j] = u
      /\ i \in Nat /\ DOMAIN planned(q) = 1..Cardinality(chosen) /\ Cardinality(chosen) \in Nat
  BY <1>1, PlanLooked
<1>3. q.registry[v].depends \subseteq chosen
  BY <1>2, DependenciesClosed DEF _resolve_dependencies, Wellformed
<1>4. d \in chosen
  BY <1>3
<1>5. PICK j \in 1..(i - 1) : planned(q)[j] = d
  BY <1>2, <1>4
<1>6. j \in DOMAIN planned(q)
  BY <1>2, <1>5
<1>7. d \in ToSet(planned(q))
  BY <1>5, <1>6 DEF ToSet
<1>8. d # "DEEP" => check_applicability(q, d)
  BY <1>2, <1>4 DEF check_applicability, validator_allowed
<1> QED BY <1>5, <1>7, <1>8 DEF executed

\* What the aggregate concludes from the deep validator's report.
LEMMA DeepIsGrounded ==
  ASSUME NEW p, p.deep \in {"EXPOSURE_CONFIRMED", "EXPOSURE_LIKELY", "EXPOSURE_PARTIALLY_MITIGATED",
                            "EXPOSURE_NOT_OBSERVED"}
  PROVE  /\ from_deep(p).status = "EXPOSURE_CONFIRMED" => p.deep = "EXPOSURE_CONFIRMED" /\ p.confirmation
         /\ from_deep(p).active = "PASSED" =>
              p.deep = "EXPOSURE_NOT_OBSERVED" /\ from_deep(p).status = "EXPOSURE_NOT_OBSERVED"
<1>1. CASE p.deep = "EXPOSURE_CONFIRMED" /\ p.confirmation
  BY <1>1 DEF from_deep, Assessment
<1>2. CASE p.deep = "EXPOSURE_CONFIRMED" /\ ~p.confirmation
  BY <1>2 DEF from_deep, Assessment
<1>3. CASE p.deep = "EXPOSURE_LIKELY"
  BY <1>3 DEF from_deep, Assessment
<1>4. CASE p.deep = "EXPOSURE_PARTIALLY_MITIGATED"
  BY <1>4 DEF from_deep, Assessment
<1>5. CASE p.deep = "EXPOSURE_NOT_OBSERVED"
  BY <1>5 DEF from_deep, Assessment
<1> QED BY <1>1, <1>2, <1>3, <1>4, <1>5

\* What it concludes without one.
LEMMA PoliciesAreGrounded ==
  ASSUME NEW p
  PROVE  /\ from_policies(p).status = "EXPOSURE_CONFIRMED" => legacy_observed(p) /\ auth_permitted(p)
         /\ from_policies(p).active = "PASSED" =>
              /\ auth_denied(p) /\ outbound_relay_mitigated(p)
              /\ from_policies(p).status = "EXPOSURE_NOT_OBSERVED"
<1> DEFINE observed == legacy_observed(p)
           unmitigated == signing_known(p) /\ ~outbound_relay_mitigated(p)
           guarded == auth_denied(p) /\ outbound_relay_mitigated(p)
           c1 == observed /\ auth_permitted(p) /\ p.path = TRUE /\ unmitigated
           c2 == observed /\ auth_permitted(p) /\ ~(p.path = TRUE /\ unmitigated)
           c3 == ~observed /\ p.config /\ auth_permitted(p) /\ unmitigated
           c4 == observed /\ guarded
           c5 == legacy_not_observed(p) /\ guarded
<1>1. from_policies(p) \in
        {a \in {Assessment("EXPOSURE_CONFIRMED", "HIGH", "FAILED", 95),
                Assessment("EXPOSURE_CONFIRMED", "MEDIUM", "FAILED", 85)} : c1 \/ c2}
        \cup {Assessment("EXPOSURE_LIKELY", "MEDIUM", "FAILED", 70),
              Assessment("EXPOSURE_PARTIALLY_MITIGATED", "LOW", "INCONCLUSIVE", 80),
              Assessment("INCONCLUSIVE", "UNKNOWN", "INCONCLUSIVE", 35)}
        \cup {a \in {Assessment("EXPOSURE_NOT_OBSERVED", "LOW", "PASSED", 90)} : c5}
  <2>1. from_policies(p) =
          CASE c1 -> Assessment("EXPOSURE_CONFIRMED", "HIGH", "FAILED", 95)
            [] c2 -> Assessment("EXPOSURE_CONFIRMED", "MEDIUM", "FAILED", 85)
            [] c3 -> Assessment("EXPOSURE_LIKELY", "MEDIUM", "FAILED", 70)
            [] c4 -> Assessment("EXPOSURE_PARTIALLY_MITIGATED", "LOW", "INCONCLUSIVE", 80)
            [] c5 -> Assessment("EXPOSURE_NOT_OBSERVED", "LOW", "PASSED", 90)
            [] OTHER -> Assessment("INCONCLUSIVE", "UNKNOWN", "INCONCLUSIVE", 35)
    BY Zenon DEF from_policies
  <2> HIDE DEF c1, c2, c3, c4, c5
  <2> QED BY <2>1
<1>2. c1 \/ c2 => legacy_observed(p) /\ auth_permitted(p)
  OBVIOUS
<1>3. c5 => auth_denied(p) /\ outbound_relay_mitigated(p)
  OBVIOUS
<1> HIDE DEF c1, c2, c3, c4, c5
<1> QED BY <1>1, <1>2, <1>3, SMT DEF Assessment

\* What the reader of the authentication policy says, the sources say.
LEMMA PolicyIsRead ==
  ASSUME NEW sources \in [1..5 -> {"absent", None, "allow", "deny", "audit", "exceptions"}],
         Ntlm_interpret(sources).confirmed
  PROVE  /\ Ntlm_interpret(sources).state = "PERMITTED" => PolicySays(sources, {"allow", None})
         /\ Ntlm_interpret(sources).state = "DENIED" => PolicySays(sources, {"deny"})
<1> DEFINE valued == {i \in {g \in 1..5 : sources[g] # "absent"} : sources[i] # None}
           effective == IF valued = {} THEN None
                        ELSE sources[earliest(valued)]
<1>1. \E i \in 1..4 : sources[i] # "absent"
  BY DEF Ntlm_interpret
<1>2. /\ Ntlm_interpret(sources).state = "DENIED" => effective = "deny"
      /\ Ntlm_interpret(sources).state = "PERMITTED" => effective \notin {"deny", "audit", "exceptions"}
  <2>1. DOMAIN sources = 1..5
    OBVIOUS
  <2>2. Ntlm_interpret(sources).state =
          (CASE ~Ntlm_interpret(sources).confirmed -> "UNKNOWN"
             [] Ntlm_interpret(sources).confirmed /\ effective = "deny" -> "DENIED"
             [] Ntlm_interpret(sources).confirmed /\ effective = "audit" -> "AUDIT_ONLY"
             [] Ntlm_interpret(sources).confirmed /\ effective = "exceptions" -> "RESTRICTED_WITH_EXCEPTIONS"
             [] OTHER -> "PERMITTED")
    BY <2>1 DEF Ntlm_interpret
  <2> HIDE DEF effective
  <2> QED BY <2>2
<1>3. CASE valued = {}
  <2>1. \A i \in DOMAIN sources : sources[i] \in {"absent", None}
    BY <1>3
  <2>2. effective = None
    BY <1>3
  <2> QED BY <1>1, <1>2, <2>1, <2>2 DEF PolicySays
<1>4. CASE valued # {}
  <2> DEFINE lead == earliest(valued)
  <2>1. lead \in valued /\ \A j \in valued : lead <= j
    <3>1. valued \in SUBSET Nat
      OBVIOUS
    <3> QED BY <3>1, <1>4, EarliestIn
  <2>2. effective = sources[lead]
    BY <1>4
  <2> HIDE DEF lead, effective
  <2>3. /\ lead \in DOMAIN sources /\ sources[lead] \notin {"absent", None}
        /\ \A j \in 1..(lead - 1) : sources[j] \in {"absent", None}
    BY <2>1
  <2>4. sources[lead] \in {"allow", "deny", "audit", "exceptions"}
    BY <2>3
  <2>5. /\ Ntlm_interpret(sources).state = "PERMITTED" => sources[lead] \in {"allow", None} \ {None}
        /\ Ntlm_interpret(sources).state = "DENIED" => sources[lead] \in {"deny"} \ {None}
    BY <1>2, <2>2, <2>3, <2>4
  <2> QED BY <1>1, <2>3, <2>5 DEF PolicySays
<1> QED BY <1>3, <1>4

\* A conclusion rests on what was observed.
LEMMA AssessedIsGrounded ==
  ASSUME NEW o, DOMAIN o.legacy = {1, 2},
         o.deep \in {None, "INCONCLUSIVE", "EXPOSURE_CONFIRMED", "EXPOSURE_LIKELY",
                     "EXPOSURE_PARTIALLY_MITIGATED", "EXPOSURE_NOT_OBSERVED"},
         o.ntlm \in [1..5 -> {"absent", None, "allow", "deny", "audit", "exceptions"}]
  PROVE  LET p == prior_results(o)
             a == aggregate(p)
         IN  /\ a.status = "EXPOSURE_CONFIRMED" =>
                  \/ o.deep = "EXPOSURE_CONFIRMED" /\ o.confirmation
                  \/ "FAILED" \in {o.legacy[1], o.legacy[2]} /\ PolicySays(o.ntlm, {"allow", None})
             /\ a.active = "PASSED" =>
                  /\ \/ o.deep = "EXPOSURE_NOT_OBSERVED"
                     \/ PolicySays(o.ntlm, {"deny"}) /\ o.smb.client = 1
                  /\ a.status = "EXPOSURE_NOT_OBSERVED"
<1> DEFINE p == prior_results(o)
           a == aggregate(p)
<1>1. p.deep = o.deep /\ p.confirmation = o.confirmation /\ p.legacy = o.legacy
      /\ p.smb = (IF o.smb = None THEN None ELSE Smb_interpret(o.smb))
      /\ p.ntlm = (IF o.ntlm = None THEN None ELSE Ntlm_interpret(o.ntlm))
  BY DEF prior_results
<1> HIDE DEF p
<1>2. /\ auth_permitted(p) => PolicySays(o.ntlm, {"allow", None})
      /\ auth_denied(p) => PolicySays(o.ntlm, {"deny"})
  BY <1>1, PolicyIsRead DEF auth_permitted, auth_denied
<1>3. CASE p.deep \in {None, "INCONCLUSIVE"}
  <2>1. a = from_policies(p)
    BY <1>3 DEF aggregate
  <2> HIDE DEF a
  <2>2. a.status = "EXPOSURE_CONFIRMED" => legacy_observed(p) /\ auth_permitted(p)
    BY <2>1, PoliciesAreGrounded
  <2>3. legacy_observed(p) => "FAILED" \in {o.legacy[1], o.legacy[2]}
    BY <1>1 DEF legacy_observed
  <2>4. a.active = "PASSED" =>
          auth_denied(p) /\ outbound_relay_mitigated(p) /\ a.status = "EXPOSURE_NOT_OBSERVED"
    BY <2>1, PoliciesAreGrounded
  <2>5. outbound_relay_mitigated(p) => o.smb.client = 1
    <3>1. outbound_relay_mitigated(p) => p.smb = Smb_interpret(o.smb) /\ p.smb.client
      BY <1>1 DEF outbound_relay_mitigated
    <3>2. Smb_interpret(o.smb).client <=> o.smb.client = 1
      BY DEF Smb_interpret
    <3> QED BY <3>1, <3>2
  <2> QED BY <1>2, <2>2, <2>3, <2>4, <2>5, Zenon DEF p, a
<1>4. CASE p.deep \notin {None, "INCONCLUSIVE"}
  <2>1. a = from_deep(p)
    BY <1>4 DEF aggregate
  <2>2. p.deep \in {"EXPOSURE_CONFIRMED", "EXPOSURE_LIKELY", "EXPOSURE_PARTIALLY_MITIGATED",
                    "EXPOSURE_NOT_OBSERVED"}
    BY <1>1, <1>4
  <2> HIDE DEF a
  <2>3. /\ a.status = "EXPOSURE_CONFIRMED" => p.deep = "EXPOSURE_CONFIRMED" /\ p.confirmation
        /\ a.active = "PASSED" => p.deep = "EXPOSURE_NOT_OBSERVED" /\ a.status = "EXPOSURE_NOT_OBSERVED"
    BY <2>1, <2>2, DeepIsGrounded
  <2> QED BY <1>1, <2>3, Zenon DEF p, a
<1> QED BY <1>3, <1>4

\* The rule passes by the agreement of both looks at it.
LEMMA ConfirmedByBoth ==
  ASSUME NEW passive, NEW active, correlate(passive, active) = "CONFIRMED_PASS"
  PROVE  passive = "PASS" /\ active = "PASSED"
BY DEF correlate

\* The decisions about a validation run, whatever was asked and observed.
LEMMA DecidedIsPermitted ==
  ASSUME Answered PROVE ValidationIsPermitted
<1>1. ASSUME DecidedOf("plan")
      PROVE  /\ Wellformed(input)
             /\ output = [order |-> planned(input), run |-> executed(input), harness |-> starts_harness(input)]
  BY <1>1, RequestsAssumption DEF Answered, DecidedOf, Wellformed
<1>2. RunIsPermitted
  <2> SUFFICES ASSUME DecidedOf("plan") PROVE RunIsPermitted
    BY DEF RunIsPermitted
  <2>1. Wellformed(input) /\ output.run = executed(input)
    BY <1>1
  <2> QED BY <2>1, ExecutedIsPermitted DEF RunIsPermitted
<1>3. HarnessIsPermitted
  <2> SUFFICES ASSUME DecidedOf("plan"), output.harness PROVE HarnessIsPermitted
    BY DEF HarnessIsPermitted
  <2>1. Wellformed(input)
    BY <1>1
  <2>2. starts_harness(input)
    BY DEF Answered
  <2> QED BY <2>1, <2>2, HarnessNeedsConsent DEF HarnessIsPermitted
<1>4. DependenciesFirst
  <2> SUFFICES ASSUME DecidedOf("plan") PROVE DependenciesFirst
    BY DEF DependenciesFirst
  <2>1. Wellformed(input) /\ output.order = planned(input) /\ output.run = executed(input)
    BY <1>1
  <2> QED BY <2>1, PlanFollowsDependencies DEF DependenciesFirst
<1>5. ConclusionIsGrounded
  <2> SUFFICES ASSUME DecidedOf("assess") PROVE ConclusionIsGrounded
    BY DEF ConclusionIsGrounded
  <2> DEFINE p == prior_results(input)
             a == aggregate(p)
  <2>1. /\ output.assessment = a /\ output.missing = missing_evidence(p)
        /\ output.rule = correlate(input.passive, a.active)
    BY DEF Answered
  <2>2. /\ DOMAIN input.legacy = {1, 2}
        /\ input.deep \in {None, "INCONCLUSIVE", "EXPOSURE_CONFIRMED", "EXPOSURE_LIKELY",
                           "EXPOSURE_PARTIALLY_MITIGATED", "EXPOSURE_NOT_OBSERVED"}
        /\ input.ntlm \in [1..5 -> {"absent", None, "allow", "deny", "audit", "exceptions"}]
    BY ObservationsAssumption DEF Answered, DecidedOf
  <2>3. /\ a.status = "EXPOSURE_CONFIRMED" =>
             \/ input.deep = "EXPOSURE_CONFIRMED" /\ input.confirmation
             \/ "FAILED" \in {input.legacy[1], input.legacy[2]} /\ PolicySays(input.ntlm, {"allow", None})
        /\ a.active = "PASSED" =>
             /\ \/ input.deep = "EXPOSURE_NOT_OBSERVED"
                \/ PolicySays(input.ntlm, {"deny"}) /\ input.smb.client = 1
             /\ a.status = "EXPOSURE_NOT_OBSERVED"
    BY <2>2, AssessedIsGrounded
  <2>4. output.rule = "CONFIRMED_PASS" => input.passive = "PASS" /\ a.active = "PASSED"
    BY <2>1, ConfirmedByBoth
  <2> HIDE DEF p, a
  <2> QED BY <2>1, <2>3, <2>4 DEF ConclusionIsGrounded
<1> QED BY <1>2, <1>3, <1>4, <1>5 DEF ValidationIsPermitted

\* A validation run does what everyone concerned allowed, in the order that its
\* evidence needs, and concludes no more than it saw: for every request, registry
\* and observation.
THEOREM ValidationIsPermittedAlways == Spec => []ValidationIsPermitted
<1>1. Spec => []Answered
  BY InitAnswered, NextAnswered, PTL DEF Spec
<1> QED BY <1>1, DecidedIsPermitted, PTL

-----------------------------------------------------------------------------
(* The triage of a CVE and the support of a product *)

\* What may be known of a CVE.
Findings ==
  [kev_answered : BOOLEAN, kev : BOOLEAN, adp_kev : BOOLEAN, ransomware : BOOLEAN,
   advisory : BOOLEAN, cvss : 0..100, ssvc : STRING, nvd : STRING, cna : STRING]

Exploited(a) == _exploitation_status(a) = "KNOWN_EXPLOITED"

\* The score does not fall when no evidence is taken away.
LEMMA ScoreGrows ==
  ASSUME NEW a, NEW b, a.cvss \in Int, b.cvss \in Int,
         b.nvd = a.nvd, b.cna = a.cna,
         Exploited(a) => Exploited(b),
         a.ransomware => b.ransomware,
         a.ssvc = "ACTIVE" => b.ssvc = "ACTIVE",
         a.cvss <= b.cvss \/ b.cvss >= 90,
         _detect_conflicts(b) # {} => _detect_conflicts(a) # {}
  PROVE  score(a) \in Nat /\ score(b) \in Nat /\ score(a) <= score(b)
<1> DEFINE kev(x) == IF Exploited(x) THEN 50 ELSE 0
           ransom(x) == IF x.ransomware THEN 15 ELSE 0
           nvd(x) == IF x.nvd = AFFECTED THEN 20 ELSE 0
           possible(x) == IF x.nvd = "POSSIBLY_AFFECTED" THEN 10 ELSE 0
           cvss(x) == CASE x.cvss >= 90 -> 15 [] x.cvss >= 70 -> 10 [] x.cvss >= 40 -> 5 [] OTHER -> 0
           cna(x) == IF x.cna = AFFECTED THEN 10 ELSE 0
           ssvc(x) == IF x.ssvc = "ACTIVE" THEN 5 ELSE 0
           penalty(x) == IF _detect_conflicts(x) # {} THEN 20 ELSE 0
           sum(x) == kev(x) + ransom(x) + nvd(x) + possible(x) + cvss(x) + cna(x) + ssvc(x) - penalty(x)
<1>1. kev(a) \in Int /\ kev(b) \in Int /\ kev(a) <= kev(b)
  OBVIOUS
<1>2. ransom(a) \in Int /\ ransom(b) \in Int /\ ransom(a) <= ransom(b)
  OBVIOUS
<1>3. nvd(a) \in Int /\ nvd(b) = nvd(a)
  OBVIOUS
<1>4. possible(a) \in Int /\ possible(b) = possible(a)
  OBVIOUS
<1>5. cvss(a) \in Int /\ cvss(b) \in Int /\ cvss(a) <= cvss(b)
  <2> DEFINE c(n) == CASE n >= 90 -> 15 [] n >= 70 -> 10 [] n >= 40 -> 5 [] OTHER -> 0
  <2>1. ASSUME NEW n \in Int, NEW m \in Int, n <= m \/ m >= 90
        PROVE  c(n) \in Int /\ c(m) \in Int /\ c(n) <= c(m)
    BY <2>1
  <2> HIDE DEF c
  <2>2. c(a.cvss) \in Int /\ c(b.cvss) \in Int /\ c(a.cvss) <= c(b.cvss)
    BY <2>1
  <2> QED BY <2>2 DEF c
<1>6. cna(a) \in Int /\ cna(b) = cna(a)
  OBVIOUS
<1>7. ssvc(a) \in Int /\ ssvc(b) \in Int /\ ssvc(a) <= ssvc(b)
  OBVIOUS
<1>8. penalty(a) \in Int /\ penalty(b) \in Int /\ penalty(b) <= penalty(a)
  OBVIOUS
<1>9. \A x : score(x) = IF sum(x) < 0 THEN 0 ELSE sum(x)
  BY Zenon DEF score, Weight, Exploited
<1> HIDE DEF kev, ransom, nvd, possible, cvss, cna, ssvc, penalty
<1>10. sum(a) \in Int /\ sum(b) \in Int /\ sum(a) <= sum(b)
  BY <1>1, <1>2, <1>3, <1>4, <1>5, <1>6, <1>7, <1>8
<1> HIDE DEF sum
<1> QED BY <1>9, <1>10

\* A level follows the score.
LEMMA LevelFollowsScore ==
  ASSUME NEW a, NEW b, score(a) \in Nat, score(b) \in Nat, score(a) <= score(b),
         ~_requires_manual_review(a), ~_requires_manual_review(b)
  PROVE  Urgency(calculate_priority(b)) <= Urgency(calculate_priority(a))
<1> DEFINE u(n) == IF n >= 70 THEN 1 ELSE IF n >= 50 THEN 2 ELSE IF n >= 25 THEN 3 ELSE 4
<1>1. ASSUME NEW x, score(x) \in Nat, ~_requires_manual_review(x)
      PROVE  Urgency(calculate_priority(x)) = u(score(x))
  BY <1>1 DEF calculate_priority, Urgency
<1>2. \A m, n \in Nat : m <= n => u(n) <= u(m)
  OBVIOUS
<1> HIDE DEF u
<1> QED BY <1>1, <1>2

\* Only a disagreement about the versions asks for a manual review, whatever else is known.
LEMMA ReviewByDisagreement ==
  ASSUME NEW a, NEW b, b.nvd = a.nvd, b.cna = a.cna
  PROVE  _requires_manual_review(b) <=> _requires_manual_review(a)
<1>1. \A x : "AFFECTED_VERSION_DISAGREEMENT" \in _detect_conflicts(x) <=>
        <<x.nvd, x.cna>> \in {<<AFFECTED, NOT_AFFECTED>>, <<NOT_AFFECTED, AFFECTED>>}
  BY DEF _detect_conflicts
<1> QED BY <1>1 DEF _requires_manual_review

\* An exploitation that is known settles the conflict with the program's own flag.
LEMMA ConflictsSettle ==
  ASSUME NEW a, NEW b, b.nvd = a.nvd, b.cna = a.cna, b.adp_kev = a.adp_kev,
         Exploited(a) => Exploited(b), _detect_conflicts(b) # {}
  PROVE  _detect_conflicts(a) # {}
BY DEF _detect_conflicts, Exploited

\* The priority, whatever is known of a CVE.
LEMMA PriorityGrows ==
  ASSUME NEW a \in Findings,
         NEW b \in {[a EXCEPT !.kev_answered = TRUE, !.kev = TRUE], [a EXCEPT !.ransomware = TRUE],
                    [a EXCEPT !.cvss = 98], [a EXCEPT !.ssvc = "ACTIVE"]}
  PROVE  IF calculate_priority(a) = "MANUAL_REVIEW" THEN calculate_priority(b) = calculate_priority(a)
         ELSE Urgency(calculate_priority(b)) <= Urgency(calculate_priority(a))
<1>1. /\ b.nvd = a.nvd /\ b.cna = a.cna /\ b.adp_kev = a.adp_kev
      /\ a.ssvc = "ACTIVE" => b.ssvc = "ACTIVE"
      /\ b.cvss = 98 \/ b.cvss = a.cvss
  BY DEF Findings
<1>7. a.cvss \in Int /\ b.cvss \in Int /\ (a.cvss <= b.cvss \/ b.cvss >= 90)
  <2>1. a.cvss \in 0..100
    BY DEF Findings
  <2> QED BY <1>1, <2>1
<1>2. Exploited(a) => Exploited(b)
  <2>1. b = [a EXCEPT !.kev_answered = TRUE, !.kev = TRUE] => b.kev_answered = TRUE /\ b.kev = TRUE
    BY DEF Findings
  <2>2. b # [a EXCEPT !.kev_answered = TRUE, !.kev = TRUE] => b.kev_answered = a.kev_answered /\ b.kev = a.kev
    BY DEF Findings
  <2> QED BY <2>1, <2>2 DEF Exploited, _exploitation_status
<1>3. a.ransomware => b.ransomware
  <2>1. b = [a EXCEPT !.ransomware = TRUE] => b.ransomware = TRUE
    BY Zenon DEF Findings
  <2>2. b # [a EXCEPT !.ransomware = TRUE] => b.ransomware = a.ransomware
    BY DEF Findings
  <2> QED BY <2>1, <2>2, Zenon
<1>4. score(a) \in Nat /\ score(b) \in Nat /\ score(a) <= score(b)
  BY <1>1, <1>2, <1>3, <1>7, ConflictsSettle, ScoreGrows
<1>5. _requires_manual_review(b) <=> _requires_manual_review(a)
  BY <1>1, ReviewByDisagreement
<1>6. \A x : (calculate_priority(x) = "MANUAL_REVIEW") <=> _requires_manual_review(x)
  <2>1. ASSUME NEW x, _requires_manual_review(x) PROVE calculate_priority(x) = "MANUAL_REVIEW"
    BY <2>1, Zenon DEF calculate_priority
  <2>2. ASSUME NEW x, ~_requires_manual_review(x)
        PROVE  calculate_priority(x) \in {"P1_IMMEDIATE", "P2_URGENT", "P3_PLANNED", "P4_MONITOR"}
    BY <2>2, Zenon DEF calculate_priority
  <2> QED BY <2>1, <2>2
<1> QED BY <1>4, <1>5, <1>6, LevelFollowsScore

\* What the policy of a product has ended it does not take back.
LEMMA PolicyEnds ==
  ASSUME NEW version, NEW entry, NEW today \in Nat, NEW day \in Nat, today <= day,
         \A k \in DOMAIN entry.lts : k \in Nat /\ entry.lts[k].until \in Nat,
         _assess_policy(version, entry, today) \in {"OUT_OF_SUPPORT", "NEARING_END_OF_SUPPORT"}
  PROVE  _assess_policy(version, entry, day) \in {"OUT_OF_SUPPORT", NOT_EVALUATED}
<1> DEFINE branches == {k \in DOMAIN entry.lts : entry.lts[k].minimum[1] = version[1]}
           branch == entry.lts[earliest(branches)]
           stale(t) == entry.refresh_after # None /\ t > entry.refresh_after
           kept(t) == \/ version[1] \in entry.majors
                      \/ branches # {} /\ ~Before(version, branch.minimum) /\ t <= branch.until
<1>1. \A t : _assess_policy(version, entry, t) =
               IF stale(t) THEN NOT_EVALUATED ELSE IF kept(t) THEN "SUPPORTED" ELSE "OUT_OF_SUPPORT"
  BY Zenon DEF _assess_policy
<1>2. branches # {} => branch.until \in Nat
  <2>1. branches \in SUBSET Nat /\ branches \subseteq DOMAIN entry.lts
    OBVIOUS
  <2> HIDE DEF branches
  <2>2. branches # {} => earliest(branches) \in DOMAIN entry.lts
    BY <2>1, EarliestIn
  <2> QED BY <2>2
<1> HIDE DEF branches, branch
<1>3. kept(day) => kept(today)
  BY <1>2
<1> HIDE DEF stale, kept
<1>4. ~kept(today)
  BY <1>1 DEF NOT_EVALUATED
<1> QED BY <1>1, <1>3, <1>4

\* What a date has ended stays ended.
LEMMA DateEnds ==
  ASSUME NEW entry, NEW today \in Nat, NEW nearing \in Nat, NEW day \in Nat, today <= day,
         entry.ends \in {None} \cup Nat,
         _assess_date(entry, today, nearing) \in {"OUT_OF_SUPPORT", "NEARING_END_OF_SUPPORT"}
  PROVE  _assess_date(entry, day, nearing) \in {_assess_date(entry, today, nearing), "OUT_OF_SUPPORT"}
<1>1. entry.evaluated /\ entry.ends # None
  BY DEF _assess_date, NOT_EVALUATED
<1>2. entry.ends \in Nat
  BY <1>1
<1>3. \A t : _assess_date(entry, t, nearing) = IF t > entry.ends THEN "OUT_OF_SUPPORT"
                ELSE IF t + nearing >= entry.ends THEN "NEARING_END_OF_SUPPORT" ELSE "SUPPORTED"
  BY <1>1, Zenon DEF _assess_date
<1>4. today > entry.ends => day > entry.ends
  BY <1>2
<1>5. today + nearing >= entry.ends => day + nearing >= entry.ends
  BY <1>2
<1> QED BY <1>3, <1>4, <1>5

\* The support on a later day.
LEMMA SupportEnds ==
  ASSUME NEW version, NEW entries, NEW today \in Nat, NEW nearing \in Nat, NEW day \in Nat, today <= day,
         \A n \in DOMAIN entries :
           /\ n \in Nat /\ entries[n].ends \in {None} \cup Nat
           /\ \A k \in DOMAIN entries[n].lts : k \in Nat /\ entries[n].lts[k].until \in Nat,
         assess(version, entries, today, nearing) \in {"OUT_OF_SUPPORT", "NEARING_END_OF_SUPPORT"}
  PROVE  assess(version, entries, day, nearing) \in
           {assess(version, entries, today, nearing), "OUT_OF_SUPPORT", NOT_EVALUATED}
<1> DEFINE versioned == {n \in DOMAIN entries :
                           entries[n].major = None \/ (version # <<>> /\ entries[n].major = version[1])}
           entry == entries[earliest(versioned)]
<1>1. \A t : assess(version, entries, t, nearing) =
               IF entries = <<>> THEN NOT_EVALUATED
               ELSE IF version = <<>> THEN "UNKNOWN_VERSION"
               ELSE IF versioned = {} THEN NOT_EVALUATED
               ELSE IF entry.policy THEN _assess_policy(version, entry, t)
               ELSE _assess_date(entry, t, nearing)
  BY Zenon DEF assess
<1>2. earliest(versioned) \in DOMAIN entries \/ versioned = {}
  <2>1. versioned \in SUBSET Nat
    OBVIOUS
  <2>2. versioned \subseteq DOMAIN entries
    OBVIOUS
  <2> HIDE DEF versioned
  <2> QED BY <2>1, <2>2, EarliestIn
<1> HIDE DEF versioned
<1>4. versioned # {} /\ entries # <<>> /\ version # <<>>
  BY <1>1 DEF NOT_EVALUATED
<1>5. entry.ends \in {None} \cup Nat /\ \A k \in DOMAIN entry.lts : k \in Nat /\ entry.lts[k].until \in Nat
  BY <1>2, <1>4
<1> HIDE DEF entry
<1>6. CASE entry.policy
  <2>1. \A t : assess(version, entries, t, nearing) = _assess_policy(version, entry, t)
    BY <1>1, <1>4, <1>6, Zenon
  <2> QED BY <1>5, <2>1, PolicyEnds
<1>7. CASE ~entry.policy
  <2>1. \A t : assess(version, entries, t, nearing) = _assess_date(entry, t, nearing)
    BY <1>1, <1>4, <1>7, Zenon
  <2> QED BY <1>5, <2>1, DateEnds
<1> DEFINE Continues == assess(version, entries, day, nearing) \in
                          {assess(version, entries, today, nearing), "OUT_OF_SUPPORT", NOT_EVALUATED}
<1>8. Continues
  <2>1. entry.policy => Continues
    BY <1>6
  <2>2. ~entry.policy => Continues
    BY <1>7
  <2> HIDE DEF Continues
  <2> QED BY <2>1, <2>2, Zenon
<1> QED BY <1>8

\* The decisions about a CVE's urgency and a product's support.
LEMMA TriageFollows ==
  ASSUME Answered PROVE TriageFollowsEvidence
<1>1. PriorityFollowsEvidence
  <2> SUFFICES ASSUME DecidedOf("triage") PROVE PriorityFollowsEvidence
    BY DEF PriorityFollowsEvidence
  <2>1. input.a \in Findings /\ output.level = calculate_priority(input.a)
    BY SourcesAssumption DEF Answered, DecidedOf, Findings
  <2>2. \A b \in {[input.a EXCEPT !.kev_answered = TRUE, !.kev = TRUE], [input.a EXCEPT !.ransomware = TRUE],
                  [input.a EXCEPT !.cvss = 98], [input.a EXCEPT !.ssvc = "ACTIVE"]} :
          IF output.level = "MANUAL_REVIEW" THEN calculate_priority(b) = output.level
          ELSE Urgency(calculate_priority(b)) <= Urgency(output.level)
    <3> DEFINE worse == {[input.a EXCEPT !.kev_answered = TRUE, !.kev = TRUE], [input.a EXCEPT !.ransomware = TRUE],
                         [input.a EXCEPT !.cvss = 98], [input.a EXCEPT !.ssvc = "ACTIVE"]}
    <3>1. \A b \in worse :
            IF calculate_priority(input.a) = "MANUAL_REVIEW"
            THEN calculate_priority(b) = calculate_priority(input.a)
            ELSE Urgency(calculate_priority(b)) <= Urgency(calculate_priority(input.a))
      BY <2>1, PriorityGrows
    <3> HIDE DEF worse
    <3>2. \A b \in worse :
            IF output.level = "MANUAL_REVIEW" THEN calculate_priority(b) = output.level
            ELSE Urgency(calculate_priority(b)) <= Urgency(output.level)
      BY <2>1, <3>1
    <3> QED BY <3>2 DEF worse
  <2> QED BY <2>2, Zenon DEF PriorityFollowsEvidence
<1>2. SupportNeverReturns
  <2> SUFFICES ASSUME DecidedOf("support"), output \in {"OUT_OF_SUPPORT", "NEARING_END_OF_SUPPORT"},
                      NEW day \in input.today..LastDay
               PROVE  assess(input.version, input.entries, day, input.nearing) \in
                        {output, "OUT_OF_SUPPORT", NOT_EVALUATED}
    BY DEF SupportNeverReturns
  <2>1. /\ input.today \in Nat /\ input.nearing \in Nat
        /\ \A n \in DOMAIN input.entries :
             /\ n \in Nat /\ input.entries[n].ends \in {None} \cup Nat
             /\ \A k \in DOMAIN input.entries[n].lts : k \in Nat /\ input.entries[n].lts[k].until \in Nat
        /\ output = assess(input.version, input.entries, input.today, input.nearing)
    BY SourcesAssumption DEF Answered, DecidedOf
  <2>2. day \in Nat /\ input.today <= day
    BY <2>1
  <2> QED BY <2>1, <2>2, SupportEnds
<1> QED BY <1>1, <1>2 DEF TriageFollowsEvidence

-----------------------------------------------------------------------------
(* The posture of the endpoint *)

\* What the evaluation of a product tells of the CVEs found for it.
LEMMA EvaluationTells ==
  ASSUME NEW s
  PROVE  /\ "AFFECTED" \in s.related <=> evaluation_status(s) = "CONFIRMED"
         /\ evaluation_status(s) = "NO_KNOWN_VULNERABILITIES" =>
              s.related \subseteq {"NOT_AFFECTED"} /\ s.pipeline # None /\ s.pipeline.terminal = "COMPLETED"
BY DEF evaluation_status

LEMMA SoundEvaluated ==
  ASSUME Answered PROVE SoundIsEvaluated
<1> SUFFICES ASSUME DecidedOf("software") PROVE SoundIsEvaluated
  BY DEF SoundIsEvaluated
<1>1. output = _software_results(input)
  BY DEF Answered
<1> DEFINE e == evaluation_status(input)
<1>2. output.security =
         IF input.support = "OUT_OF_SUPPORT"
         THEN IF e = "CONFIRMED" THEN "Both vulnerable and out of support" ELSE "Out of support"
         ELSE IF e = "CONFIRMED" THEN "Known vulnerabilities"
         ELSE IF e = "POSSIBLE" THEN "Possible vulnerabilities"
         ELSE IF ~product_recognized(input) THEN "Product not recognized"
         ELSE IF e # "NO_KNOWN_VULNERABILITIES" THEN "CVE not evaluated"
         ELSE IF input.support \notin {"SUPPORTED", "NEARING_END_OF_SUPPORT"} THEN "Lifecycle not evaluated"
         ELSE "None identified"
  BY <1>1 DEF _software_results
<1>3. /\ "AFFECTED" \in input.related <=> e = "CONFIRMED"
      /\ e = "NO_KNOWN_VULNERABILITIES" =>
           /\ input.related \subseteq {"NOT_AFFECTED"}
           /\ input.pipeline # None /\ input.pipeline.terminal = "COMPLETED"
  BY EvaluationTells
<1> HIDE DEF e
<1> QED BY <1>2, <1>3 DEF SoundIsEvaluated, product_recognized

\* What is recorded of a volume does not depend on the Shell.
LEMMA RecordedApart ==
  ASSUME NEW b, NEW c,
         c.setting = b.setting, c.collection = b.collection, c.value = b.value, c.provider = b.provider,
         c.authority = b.authority, c.os_volume = b.os_volume, c.encryption = b.encryption, c.lock = b.lock,
         c.percentage = b.percentage, c.protection = b.protection
  PROVE  recorded_state(c) = recorded_state(b)
<1>1. authoritative(c) <=> authoritative(b)
  BY DEF authoritative
<1>2. volume_conversion(c) = volume_conversion(b)
  BY <1>1 DEF volume_conversion
<1>3. volume_conflict(c) <=> volume_conflict(b)
  BY <1>2 DEF volume_conflict
<1>4. volume_state(c) = volume_state(b)
  BY <1>2, <1>3 DEF volume_state
<1> QED BY <1>1, <1>2, <1>4 DEF recorded_state

\* Without a value the Shell says nothing.
LEMMA SilentShell ==
  ASSUME NEW b, b.shell.value = None PROVE resolved_state(b) = recorded_state(b)
<1>1. _shell_observation(b) = "UNKNOWN"
  <2>1. None # 0 /\ None \notin DOMAIN SHELL_LABELS
    BY NoneAssumption DEF SHELL_LABELS
  <2> QED BY <2>1 DEF _shell_observation
<1>2. ~shell_disagrees(b)
  BY <1>1 DEF shell_disagrees
<1> QED BY <1>1, <1>2 DEF resolved_state

\* What a status rests on.
LEMMA StatusOfState ==
  ASSUME NEW b
  PROVE  /\ resolve_bitlocker(b).status = "PASS" <=> resolved_state(b) = "ENABLED"
         /\ resolve_bitlocker(b).status = "FAIL" <=>
              resolved_state(b) \in {"DISABLED_FULLY_DECRYPTED", "PROTECTION_OFF_ENCRYPTED"}
         /\ resolved_state(b) \in {"SOURCE_CONFLICT", "INDICATED"} => resolve_bitlocker(b).status = "PARTIAL"
         /\ \A c : resolved_state(c) = resolved_state(b) =>
              resolve_bitlocker(c).status = resolve_bitlocker(b).status
<1> DEFINE status(state) ==
      CASE state = "ENABLED" -> "PASS"
        [] state \in {"DISABLED_FULLY_DECRYPTED", "PROTECTION_OFF_ENCRYPTED"} -> "FAIL"
        [] state \in {"ERROR", "NOT_EVALUATED"} -> state
        [] OTHER -> "PARTIAL"
<1>1. \A c : resolve_bitlocker(c).status = status(resolved_state(c))
  BY DEF resolve_bitlocker
<1>2. \A s : /\ status(s) = "PASS" <=> s = "ENABLED"
             /\ status(s) = "FAIL" <=> s \in {"DISABLED_FULLY_DECRYPTED", "PROTECTION_OFF_ENCRYPTED"}
             /\ s \in {"SOURCE_CONFLICT", "INDICATED"} => status(s) = "PARTIAL"
  OBVIOUS
<1> HIDE DEF status
<1> QED BY <1>1, <1>2

\* A volume that passes or fails is one that the operating system describes.
LEMMA VolumeDescribed ==
  ASSUME NEW b, b.value \in Answer,
         resolved_state(b) \in {"ENABLED", "DISABLED_FULLY_DECRYPTED", "PROTECTION_OFF_ENCRYPTED"}
  PROVE  /\ ~shell_disagrees(b) /\ authoritative(b) /\ b.collection = "SUCCESS"
         /\ b.value = (resolved_state(b) = "ENABLED") /\ b.protection = (IF b.value THEN "ON" ELSE "OFF")
         /\ b.value => volume_conversion(b) = "FULLY_ENCRYPTED"
<1> DEFINE Settled == {"ENABLED", "DISABLED_FULLY_DECRYPTED", "PROTECTION_OFF_ENCRYPTED"}
<1>1. ~shell_disagrees(b) /\ recorded_state(b) = resolved_state(b)
  BY DEF resolved_state
<1>2. recorded_state(b) = volume_state(b) /\ b.collection = "SUCCESS" /\ authoritative(b) /\ b.value # None
  <2>1. "SOURCE_CONFLICT" \notin Settled /\ "ERROR" \notin Settled /\ "NOT_EVALUATED" \notin Settled
          /\ Unsettled \cap Settled = {}
    BY DEF Unsettled
  <2> HIDE DEF Settled
  <2>2. recorded_state(b) \in Settled
    BY <1>1 DEF Settled
  <2> QED BY <2>1, <2>2 DEF recorded_state
<1>3. b.value \in BOOLEAN
  BY <1>2 DEF Answer
<1>4. volume_state(b) \in Settled
  BY <1>1, <1>2
<1>5. ~volume_conflict(b) /\ b.value = (volume_state(b) = "ENABLED")
        /\ (b.value => volume_conversion(b) = "FULLY_ENCRYPTED")
  <2>1. CASE b.value
    BY <1>4, <2>1 DEF volume_state
  <2>2. CASE ~b.value
    BY <1>3, <1>4, <2>2 DEF volume_state
  <2> QED BY <2>1, <2>2
<1>6. b.protection = (IF b.value THEN "ON" ELSE "OFF")
  BY <1>5 DEF volume_conflict
<1> QED BY <1>1, <1>2, <1>5, <1>6

\* What the Shell says of the volume of the operating system.
LEMMA ShellSays ==
  ASSUME NEW b, shell_read(b) = "SUCCESS", b.os_volume
  PROVE  /\ b.shell.value \in {0, 2} => _shell_observation(b) = "OFF"
         /\ b.shell.value = 1 => _shell_observation(b) = "ON"
         /\ b.shell.value \in {3, 4} => _shell_observation(b) = "TRANSITIONING"
         /\ b.shell.value = 5 => _shell_observation(b) = "SUSPENDED"
<1>1. DOMAIN SHELL_LABELS = 1..6 /\ SHELL_LABELS[1] = "ON" /\ SHELL_LABELS[2] = "OFF"
        /\ SHELL_LABELS[3] = "TRANSITIONING" /\ SHELL_LABELS[4] = "TRANSITIONING" /\ SHELL_LABELS[5] = "SUSPENDED"
  BY DEF SHELL_LABELS
<1> QED BY <1>1 DEF _shell_observation

LEMMA ShellOnlyDoubts ==
  ASSUME Answered PROVE ShellNeverDecides
<1> SUFFICES ASSUME DecidedOf("bitlocker") PROVE ShellNeverDecides
  BY DEF ShellNeverDecides
<1>1. output = resolve_bitlocker(input) /\ input.value \in Answer /\ input.kind = "bitlocker"
  BY EvidenceAssumption DEF Answered, DecidedOf
<1>2. output.status = "PASS" <=> resolved_state(input) = "ENABLED"
  BY <1>1, StatusOfState
<1>3. output.status = "FAIL" <=>
        resolved_state(input) \in {"DISABLED_FULLY_DECRYPTED", "PROTECTION_OFF_ENCRYPTED"}
  BY <1>1, StatusOfState
<1>4. ASSUME output.status \in {"PASS", "FAIL"}
      PROVE  /\ ~shell_disagrees(input) /\ authoritative(input) /\ input.collection = "SUCCESS"
             /\ input.value = (output.status = "PASS") /\ input.protection = (IF input.value THEN "ON" ELSE "OFF")
             /\ input.value => volume_conversion(input) = "FULLY_ENCRYPTED"
  BY <1>1, <1>2, <1>3, <1>4, VolumeDescribed
<1>5. output.status \in {"PASS", "FAIL"} =>
        /\ input.authority /\ input.os_volume /\ input.collection = "SUCCESS"
        /\ input.value = (output.status = "PASS") /\ input.protection = (IF input.value THEN "ON" ELSE "OFF")
  BY <1>4 DEF authoritative
<1>6. ASSUME shell_read(input) = "SUCCESS", output.status = "PASS" PROVE input.shell.value \notin {0, 2, 3, 4, 5}
  <2>1. /\ ~shell_disagrees(input) /\ authoritative(input) /\ input.collection \in Collected
        /\ input.protection = "ON" /\ volume_conversion(input) = "FULLY_ENCRYPTED"
    BY <1>4, <1>6 DEF Collected
  <2>2. _shell_observation(input) \notin {"OFF", "SUSPENDED", "TRANSITIONING"}
    BY <2>1 DEF shell_disagrees
  <2> QED BY <1>6, <2>1, <2>2, ShellSays DEF authoritative
<1>7. ASSUME shell_read(input) = "SUCCESS", output.status = "FAIL" PROVE input.shell.value # 1
  <2>1. /\ ~shell_disagrees(input) /\ authoritative(input) /\ input.collection \in Collected
        /\ input.protection = "OFF"
    BY <1>4, <1>7 DEF Collected
  <2>2. _shell_observation(input) # "ON"
    BY <2>1 DEF shell_disagrees
  <2> QED BY <1>7, <2>1, <2>2, ShellSays DEF authoritative
<1>8. ASSUME NEW value \in {None} \cup 0..6
      PROVE  resolve_bitlocker([input EXCEPT !.shell.value = value]).status \in
               {resolve_bitlocker([input EXCEPT !.shell.value = None]).status, "PARTIAL"}
  <2> DEFINE b == [input EXCEPT !.shell.value = value]
             c == [input EXCEPT !.shell.value = None]
  <2>1. /\ c.setting = b.setting /\ c.collection = b.collection /\ c.value = b.value /\ c.provider = b.provider
        /\ c.authority = b.authority /\ c.os_volume = b.os_volume /\ c.encryption = b.encryption
        /\ c.lock = b.lock /\ c.percentage = b.percentage /\ c.protection = b.protection
        /\ c.shell.value = None
    BY <1>1, EvidenceAssumption DEF Answered
  <2> HIDE DEF b, c
  <2>2. resolved_state(c) = recorded_state(b)
    BY <2>1, RecordedApart, SilentShell
  <2>3. resolved_state(b) \in {"SOURCE_CONFLICT", "INDICATED", recorded_state(b)}
    BY DEF resolved_state
  <2>4. resolve_bitlocker(b).status \in {resolve_bitlocker(c).status, "PARTIAL"}
    BY <2>2, <2>3, StatusOfState
  <2> QED BY <2>4 DEF b, c
<1> QED BY <1>1, <1>5, <1>6, <1>7, <1>8 DEF ShellNeverDecides

\* What the token says of the membership.
LEMMA TokenSays ==
  ASSUME NEW o
  PROVE  /\ token_member(o) = "ABSENT" => token_valid(o) /\ ~o.token.present
         /\ ~token_valid(o) => token_member(o) = "UNKNOWN"
         /\ token_member(o) = "MEMBER" => token_valid(o)
         /\ \A p : p.token = o.token => token_member(p) = token_member(o) /\ (token_valid(p) <=> token_valid(o))
<1>1. /\ token_member(o) = "ABSENT" => token_valid(o) /\ ~o.token.present
      /\ ~token_valid(o) => token_member(o) = "UNKNOWN"
      /\ token_member(o) = "MEMBER" => token_valid(o)
  BY DEF token_member
<1>2. ASSUME NEW p, p.token = o.token
      PROVE  token_member(p) = token_member(o) /\ (token_valid(p) <=> token_valid(o))
  <2>1. token_valid(p) <=> token_valid(o)
    BY <1>2 DEF token_valid
  <2> QED BY <1>2, <2>1 DEF token_member
<1> QED BY <1>1, <1>2

\* What a membership that is said rests on.
LEMMA MemberMeans ==
  ASSUME NEW o
  PROVE  /\ member_state(o) \in {"MEMBER", "NOT_MEMBER"} => o.scoped
         /\ member_state(o) = "MEMBER" =>
              /\ token_member(o) = "MEMBER" \/ (o.direct = TRUE /\ token_member(o) # "ABSENT")
              /\ o.direct # FALSE \/ o.groups # {}
         /\ member_state(o) = "NOT_MEMBER" => o.direct # TRUE /\ token_member(o) = "ABSENT"
<1>1. member_state(o) \in {"MEMBER", "NOT_MEMBER"} => o.scoped
  BY DEF member_state
<1>2. member_state(o) = "MEMBER" =>
        /\ token_member(o) = "MEMBER" \/ (o.direct = TRUE /\ token_member(o) # "ABSENT")
        /\ o.direct # FALSE \/ inherited(o) # {}
  BY DEF member_state
<1>3. member_state(o) = "NOT_MEMBER" => o.direct # TRUE /\ token_member(o) = "ABSENT"
  BY DEF member_state
<1>4. inherited(o) # {} => o.groups # {}
  BY DEF inherited
<1> QED BY <1>1, <1>2, <1>3, <1>4

\* The status of a membership.
LEMMA MembershipStatus ==
  ASSUME NEW o
  PROVE  /\ resolve_administrator_membership(o).state = member_state(o)
         /\ member_state(o) = "MEMBER" => resolve_administrator_membership(o).status = "FAIL"
         /\ member_state(o) = "NOT_MEMBER" => resolve_administrator_membership(o).status = "PASS"
BY DEF resolve_administrator_membership

LEMMA MembershipProved ==
  ASSUME Answered PROVE MembershipIsProved
<1> SUFFICES ASSUME DecidedOf("membership"), output.state \in {"MEMBER", "NOT_MEMBER"} PROVE MembershipIsProved
  BY DEF MembershipIsProved
<1> DEFINE o == input.observation
           unscoped == [o EXCEPT !.token = None, !.groups = {}, !.class =
                        IF o.direct = TRUE THEN o.principal.class ELSE "UNKNOWN"]
           Fields == {"scoped", "class", "direct", "principal", "token", "groups"}
<1>1. output = administrative_privilege_posture(input) /\ Fields = DOMAIN o /\ o.direct \in Answer
  BY EvidenceAssumption DEF Answered, DecidedOf
<1>2. \/ input.modern /\ input.control = resolve_administrator_membership(o).status
            /\ output = resolve_administrator_membership(o)
      \/ ~input.modern /\ legacy_agrees(input) /\ input.control \in {"PASS", "FAIL"}
            /\ output = resolve_administrator_membership(unscoped)
  <2> DEFINE r == resolve_administrator_membership(o)
             old == resolve_administrator_membership(unscoped)
             Left(state) == [state |-> state, status |-> IF state = "SOURCE_CONFLICT" THEN "PARTIAL" ELSE "NOT_EVALUATED"]
  <2>1. output =
          IF input.controls # 1 \/ input.observed = None THEN Left("NOT_EVALUATED")
          ELSE IF input.duplicated \/ (input.modern /\ (~input.raw \/ input.control # r.status))
          THEN Left("SOURCE_CONFLICT")
          ELSE IF input.modern THEN r
          ELSE IF input.control \notin {"PASS", "FAIL"}
          THEN Left(IF input.observed = "conflict" THEN "SOURCE_CONFLICT" ELSE "NOT_EVALUATED")
          ELSE IF legacy_agrees(input) THEN old ELSE Left("NOT_EVALUATED")
    BY <1>1, Zenon DEF administrative_privilege_posture
  <2>2. \A s : Left(s).state = s
    OBVIOUS
  <2> HIDE DEF r, old, Left
  <2>3. output # Left("NOT_EVALUATED") /\ output # Left("SOURCE_CONFLICT")
    BY <2>2
  <2>4. \/ input.modern /\ input.control = r.status /\ output = r
        \/ ~input.modern /\ legacy_agrees(input) /\ input.control \in {"PASS", "FAIL"} /\ output = old
    BY <2>1, <2>3
  <2> QED BY <2>4 DEF r, old
<1>3. unscoped.token = None /\ unscoped.direct = o.direct /\ unscoped.scoped = o.scoped
  BY <1>1
<1> HIDE DEF unscoped, o
<1>4. CASE input.modern
  <2>1. output.state = member_state(o) /\ input.control = output.status
    BY <1>2, <1>4, MembershipStatus
  <2>2. /\ o.scoped
        /\ output.state = "NOT_MEMBER" => token_valid(o) /\ ~o.token.present
        /\ output.state = "MEMBER" => o.direct # FALSE \/ o.groups # {}
    BY <2>1, MemberMeans, TokenSays
  <2>3. ASSUME NEW later, later.token = o.token, o.direct = None
        PROVE  resolve_administrator_membership(later).state \notin {"MEMBER", "NOT_MEMBER"} \ {output.state}
    <3>1. o.direct # TRUE
      BY <2>3, NoneAssumption
    <3>2. token_member(later) = token_member(o)
      BY <2>3, TokenSays
    <3>3. output.state = "MEMBER" => token_member(o) = "MEMBER"
      BY <2>1, <3>1, MemberMeans
    <3>4. output.state = "NOT_MEMBER" => token_member(o) = "ABSENT"
      BY <2>1, MemberMeans
    <3>5. member_state(later) = "MEMBER" => token_member(o) # "ABSENT"
      BY <3>2, MemberMeans
    <3>6. member_state(later) = "NOT_MEMBER" => token_member(o) = "ABSENT"
      BY <3>2, MemberMeans
    <3> QED BY <3>3, <3>4, <3>5, <3>6, MembershipStatus
  <2>4. \A d, p, g : [o EXCEPT !.direct = d, !.principal = p, !.groups = g].token = o.token
    BY <1>1 DEF o
  <2>5. ASSUME o.direct = None, NEW d, NEW p, NEW g
        PROVE  resolve_administrator_membership([o EXCEPT !.direct = d, !.principal = p, !.groups = g]).state
                 \notin {"MEMBER", "NOT_MEMBER"} \ {output.state}
    <3> DEFINE later == [o EXCEPT !.direct = d, !.principal = p, !.groups = g]
    <3>1. later.token = o.token
      BY <2>4
    <3> HIDE DEF later
    <3>2. resolve_administrator_membership(later).state \notin {"MEMBER", "NOT_MEMBER"} \ {output.state}
      BY <2>3, <2>5, <3>1
    <3> QED BY <3>2 DEF later
  <2> QED BY <1>4, <2>1, <2>2, <2>5, Zenon DEF MembershipIsProved, o
<1>5. CASE ~input.modern
  <2>1. output = resolve_administrator_membership(unscoped) /\ output.state = member_state(unscoped)
          /\ legacy_agrees(input) /\ input.control \in {"PASS", "FAIL"}
    BY <1>2, <1>5, MembershipStatus
  <2>2. token_member(unscoped) = "UNKNOWN"
    BY <1>3, TokenSays DEF token_valid
  <2>3. output.state = "MEMBER" /\ unscoped.direct = TRUE /\ unscoped.scoped
    BY <2>1, <2>2, MemberMeans
  <2>4. output.status = "FAIL" /\ o.direct = TRUE /\ o.scoped
    BY <1>3, <2>1, <2>3, MembershipStatus
  <2>5. input.control = "FAIL"
    BY <2>1, <2>4 DEF legacy_agrees, o
  <2> QED BY <1>5, <2>3, <2>4, <2>5 DEF MembershipIsProved, o
<1> QED BY <1>4, <1>5

-----------------------------------------------------------------------------
(* The malware protection of the endpoint *)

\* What a collector may report of the malware protection.
Reported(i) ==
  /\ i.products # None =>
       /\ DOMAIN i.products \subseteq Nat \ {0}
       /\ \A n \in DOMAIN i.products : 1..n \subseteq DOMAIN i.products
       /\ \A n \in DOMAIN i.products : DOMAIN i.products[n] = {"name", "state", "signature"}
  /\ i.age \in {None} \cup Int
  /\ {i.enabled, i.realtime} \subseteq Answer

\* The registrations of one name.
LEMMA NamedPlaces ==
  ASSUME NEW i, Reported(i)
  PROVE  /\ named(i) \subseteq Nat
         /\ \A n \in named(i) : name_of(i, n) # None
         /\ \A p \in named_products(i) : \E n \in named(i) :
              p.name = name_of(i, n) /\ p.state = i.products[n].state /\ p.signature = i.products[n].signature
         /\ \A n \in named(i) : \E p \in named_products(i) :
              p.name = name_of(i, n) /\ p.state = i.products[n].state /\ p.signature = i.products[n].signature
<1>1. named(i) \subseteq Nat /\ \A n \in named(i) : i.products # None /\ n \in DOMAIN i.products
                                                    /\ i.products[n].name # None
  BY DEF named, Reported
<1>2. \A n \in named(i) : name_of(i, n) # None
  BY <1>1, PostureAssumption DEF name_of, _canonical_product_name
<1>3. \A n \in named(i) : DOMAIN i.products[n] = {"name", "state", "signature"}
  BY <1>1 DEF Reported
<1> DEFINE known(n) == [i.products[n] EXCEPT !.name = name_of(i, n)]
<1>4. \A n \in named(i) : /\ known(n).name = name_of(i, n)
                          /\ known(n).state = i.products[n].state
                          /\ known(n).signature = i.products[n].signature
  BY <1>3
<1>5. named_products(i) = {known(n) : n \in named(i)}
  BY DEF named_products
<1> HIDE DEF known
<1> QED BY <1>1, <1>2, <1>4, <1>5

\* A merged product is on when a registration of it is, and what it says of the
\* signatures one of them says.
LEMMA Merging ==
  ASSUME NEW i, Reported(i), NEW m \in named(i)
  PROVE  LET p == merged(i, name_of(i, m)) IN
         /\ p.name = name_of(i, m)
         /\ p \in registered_products(i)
         /\ p.state = "ON" <=> \E n \in named(i) : name_of(i, n) = p.name /\ i.products[n].state = "ON"
         /\ p.signature = "UP_TO_DATE" =>
              \E n \in named(i) : name_of(i, n) = p.name /\ i.products[n].signature = "UP_TO_DATE"
<1> DEFINE name == name_of(i, m)
           own == registrations(i, name)
           on == {n \in own : i.products[n].state = "ON"}
           said == {n \in own : i.products[n].signature # "UNKNOWN"}
           p == merged(i, name)
<1>1. own \subseteq named(i) /\ m \in own /\ own \in SUBSET Nat /\ said \in SUBSET Nat
  BY NamedPlaces DEF registrations
<1>2. earliest(own) \in own
  BY <1>1, EarliestIn
<1>3. said # {} => earliest(said) \in said
  BY <1>1, EarliestIn
<1>4. p = [name |-> name, state |-> IF on # {} THEN "ON" ELSE i.products[earliest(own)].state,
           signature |-> IF said = {} THEN "UNKNOWN" ELSE i.products[earliest(said)].signature]
  BY Zenon DEF merged
<1>5. p.name = name /\ p.state = (IF on # {} THEN "ON" ELSE i.products[earliest(own)].state)
        /\ p.signature = (IF said = {} THEN "UNKNOWN" ELSE i.products[earliest(said)].signature)
  BY <1>4
<1>6. p \in registered_products(i)
  BY DEF registered_products
<1>7. \A n : n \in own <=> n \in named(i) /\ name_of(i, n) = name
  BY DEF registrations
<1> HIDE DEF p, name, own
<1>8. p.state = "ON" <=> \E n \in named(i) : name_of(i, n) = name /\ i.products[n].state = "ON"
  BY <1>2, <1>5, <1>7
<1>9. p.signature = "UP_TO_DATE" =>
        \E n \in named(i) : name_of(i, n) = name /\ i.products[n].signature = "UP_TO_DATE"
  BY <1>3, <1>5, <1>7
<1> QED BY <1>5, <1>6, <1>8, <1>9 DEF p, name

\* A listed product is the merge of its name.
LEMMA RegisteredByName ==
  ASSUME NEW i, Reported(i), NEW p \in registered_products(i)
  PROVE  \E m \in named(i) : p = merged(i, name_of(i, m)) /\ p.name = name_of(i, m)
<1>1. PICK m \in named(i) : p = merged(i, name_of(i, m))
  BY DEF registered_products
<1> QED BY <1>1, Merging

\* What a merged product says of its signatures is what the first registration
\* says that knows them.
LEMMA MergedSays ==
  ASSUME Reported(input), NEW m \in named(input), NEW signature, signature # "UNKNOWN"
  PROVE  merged(input, name_of(input, m)).signature = signature <=> FirstSaid(name_of(input, m), signature)
<1> DEFINE name == name_of(input, m)
           said == {n \in registrations(input, name) : input.products[n].signature # "UNKNOWN"}
<1>0. input.products # None
  BY DEF named
<1>1. \A n \in DOMAIN input.products :
        product(n) = name /\ input.products[n].signature # "UNKNOWN" <=> n \in said
  <2>1. name # None
    BY NamedPlaces
  <2>2. \A n \in DOMAIN input.products : product(n) # None => n \in named(input) /\ name_of(input, n) = product(n)
    BY <1>0, PostureAssumption DEF product, named, name_of, _canonical_product_name
  <2>3. \A n \in named(input) : product(n) = name_of(input, n)
    BY DEF product, name_of
  <2> HIDE DEF name
  <2> QED BY <2>1, <2>2, <2>3 DEF registrations
<1>2. said \subseteq DOMAIN input.products /\ said \in SUBSET Nat
  BY NamedPlaces DEF registrations, named, Reported
<1>3. merged(input, name).signature = IF said = {} THEN "UNKNOWN" ELSE input.products[earliest(said)].signature
  <2>1. \A a, b, c : [name |-> a, state |-> b, signature |-> c].signature = c
    OBVIOUS
  <2> QED BY <2>1, Zenon DEF merged
<1>4. \A n \in DOMAIN input.products : n \in Nat \ {0} /\ 1..(n - 1) \subseteq DOMAIN input.products
  <2>1. /\ DOMAIN input.products \subseteq Nat \ {0}
        /\ \A n \in DOMAIN input.products : 1..n \subseteq DOMAIN input.products
    BY <1>0 DEF Reported
  <2>2. \A n \in Nat : 1..(n - 1) \subseteq 1..n
    OBVIOUS
  <2> QED BY <2>1, <2>2
<1> HIDE DEF name, said
<1>5. ASSUME merged(input, name).signature = signature PROVE FirstSaid(name, signature)
  <2>1. said # {}
    BY <1>3, <1>5
  <2> DEFINE n == earliest(said)
  <2>2. n \in said /\ \A k \in said : n <= k
    BY <1>2, <2>1, EarliestIn
  <2>3. input.products[n].signature = signature
    BY <1>3, <1>5, <2>1
  <2> HIDE DEF n
  <2>4. \A k \in 1..(n - 1) : k \notin said
    BY <1>2, <2>2
  <2>5. n \in DOMAIN input.products /\ product(n) = name
    BY <1>1, <1>2, <2>2
  <2>6. \A k \in 1..(n - 1) : product(k) = name => input.products[k].signature = "UNKNOWN"
    BY <1>1, <1>4, <2>4, <2>5
  <2> QED BY <2>3, <2>5, <2>6 DEF FirstSaid
<1>6. ASSUME FirstSaid(name, signature) PROVE merged(input, name).signature = signature
  <2>1. PICK n \in DOMAIN input.products :
          /\ product(n) = name /\ input.products[n].signature = signature
          /\ \A k \in 1..(n - 1) : product(k) = name => input.products[k].signature = "UNKNOWN"
    BY <1>6 DEF FirstSaid
  <2>2. n \in said
    BY <1>1, <2>1
  <2>3. earliest(said) \in said /\ earliest(said) <= n
    BY <1>2, <2>2, EarliestIn
  <2> DEFINE lead == earliest(said)
  <2> HIDE DEF lead
  <2>4. lead \notin 1..(n - 1)
    BY <1>1, <1>2, <2>1, <2>3 DEF lead
  <2>5. lead = n
    BY <1>2, <1>4, <2>1, <2>3, <2>4 DEF lead
  <2> QED BY <1>3, <2>1, <2>2, <2>5 DEF lead
<1> QED BY <1>5, <1>6 DEF name

\* Another product is on just when one is registered as on.
LEMMA OthersOn ==
  ASSUME NEW i, Reported(i)
  PROVE  LET on == {p \in named_products(i) : p.state = "ON"} IN
         /\ on # {} <=> active_products(i) # {}
         /\ {p \in on : p.name # "Defender"} # {} <=> third_party(i) # {}
<1> DEFINE on == {p \in named_products(i) : p.state = "ON"}
<1>1. ASSUME NEW p \in on PROVE \E q \in active_products(i) : q.name = p.name
  <2>1. PICK n \in named(i) : p.name = name_of(i, n) /\ i.products[n].state = "ON"
    BY NamedPlaces
  <2>2. merged(i, name_of(i, n)) \in active_products(i) /\ merged(i, name_of(i, n)).name = p.name
    BY <2>1, Merging DEF active_products
  <2> QED BY <2>2
<1>2. ASSUME NEW q \in active_products(i) PROVE \E p \in on : p.name = q.name
  <2>1. PICK m \in named(i) : q = merged(i, name_of(i, m)) /\ q.name = name_of(i, m)
    BY RegisteredByName DEF active_products
  <2>2. PICK n \in named(i) : name_of(i, n) = q.name /\ i.products[n].state = "ON"
    BY <2>1, Merging DEF active_products
  <2> QED BY <2>2, NamedPlaces
<1>3. third_party(i) = {q \in active_products(i) : q.name # "Defender"}
  BY DEF third_party
<1> HIDE DEF on
<1>4. on # {} <=> active_products(i) # {}
  BY <1>1, <1>2
<1>5. {p \in on : p.name # "Defender"} # {} <=> third_party(i) # {}
  BY <1>1, <1>2, <1>3
<1> QED BY <1>4, <1>5 DEF on

\* The first of the other products is one of them.
LEMMA FirstOther ==
  ASSUME NEW i, Reported(i), third_party(i) # {}
  PROVE  /\ first_third_party(i) \in third_party(i)
         /\ first_third_party(i).name # "Defender" /\ first_third_party(i).name # None
         /\ \E m \in named(i) :
              /\ first_third_party(i) = merged(i, name_of(i, m)) /\ first_third_party(i).name = name_of(i, m)
              /\ \A n \in named(i) : n < m => merged(i, name_of(i, n)) \notin third_party(i)
<1> DEFINE S == {n \in named(i) : merged(i, name_of(i, n)) \in third_party(i)}
<1>1. S # {}
  <2>1. PICK p : p \in third_party(i)
    OBVIOUS
  <2>2. p \in registered_products(i)
    BY <2>1 DEF third_party, active_products
  <2> QED BY <2>1, <2>2, RegisteredByName
<1>2. S \in SUBSET Nat /\ named(i) \subseteq Nat
  BY NamedPlaces
<1>3. earliest(S) \in S /\ \A n \in S : earliest(S) <= n
  BY <1>1, <1>2, EarliestIn
<1> DEFINE m == earliest(S)
<1>4. first_third_party(i) = merged(i, name_of(i, m))
  BY DEF first_third_party
<1>5. m \in named(i) /\ merged(i, name_of(i, m)) \in third_party(i)
  BY <1>3
<1>6. \A n \in named(i) : n < m => merged(i, name_of(i, n)) \notin third_party(i)
  BY <1>2, <1>3
<1> HIDE DEF m, S
<1>7. first_third_party(i).name = name_of(i, m)
  BY <1>4, <1>5, Merging
<1>8. first_third_party(i).name # "Defender"
  BY <1>4, <1>5 DEF third_party
<1> QED BY <1>4, <1>5, <1>6, <1>7, <1>8, NamedPlaces

\* No product that is on and not Defender was registered before it.
LEMMA NoneBefore ==
  ASSUME Reported(input), third_party(input) # {}
  PROVE  RegisteredFirst(first_third_party(input).name)
<1>1. PICK m \in named(input) :
        /\ first_third_party(input).name = name_of(input, m)
        /\ \A n \in named(input) : n < m => merged(input, name_of(input, n)) \notin third_party(input)
  BY FirstOther
<1>2. m \in DOMAIN input.products /\ input.products # None /\ product(m) = name_of(input, m)
  BY <1>1 DEF named, product, name_of
<1>3. ASSUME NEW n \in 1..(m - 1), product(n) \notin {None, "Defender"},
             NEW k \in DOMAIN input.products, product(k) = product(n), input.products[k].state = "ON"
      PROVE  FALSE
  <2>1. n \in DOMAIN input.products /\ n < m
    <3>1. DOMAIN input.products \subseteq Nat \ {0} /\ 1..m \subseteq DOMAIN input.products
      BY <1>2 DEF Reported
    <3> QED BY <1>2, <3>1
  <2>2. /\ n \in named(input) /\ name_of(input, n) = product(n)
        /\ k \in named(input) /\ name_of(input, k) = product(n)
    BY <1>2, <1>3, <2>1, PostureAssumption DEF product, named, name_of, _canonical_product_name
  <2> DEFINE p == merged(input, name_of(input, n))
  <2>3. p \in third_party(input)
    <3>1. /\ p.name = name_of(input, n) /\ p \in registered_products(input)
          /\ p.state = "ON" <=> \E l \in named(input) : name_of(input, l) = p.name /\ input.products[l].state = "ON"
      BY <2>2, Merging
    <3> HIDE DEF p
    <3>2. p.state = "ON" /\ p.name # "Defender"
      BY <1>3, <2>2, <3>1
    <3> QED BY <3>1, <3>2 DEF third_party, active_products
  <2> QED BY <1>1, <2>1, <2>2, <2>3
<1> QED BY <1>1, <1>2, <1>3 DEF RegisteredFirst

\* What a status of the protection rests on.
LEMMA StatusRests ==
  ASSUME NEW i
  PROVE  /\ malware_status(i) = "PASS" =>
              \/ third_party(i) # {} /\ freshness_status(i) = "UP_TO_DATE"
              \/ third_party(i) = {} /\ ~i.passive /\ active_defender(i) /\ defender_status(i) = "PASS"
         /\ malware_status(i) = "FAIL" =>
              /\ i.products # None
              /\ \/ active_products(i) = {} /\ ~active_defender(i)
                 \/ third_party(i) = {} /\ i.realtime = FALSE
<1>1. defender_status(i) \in {"PASS", "PARTIAL"}
  BY DEF defender_status
<1> QED BY <1>1 DEF malware_status

\* Another product that counts is one whose own signatures are current.
LEMMA FreshOther ==
  ASSUME NEW i, third_party(i) # {}, freshness_status(i) = "UP_TO_DATE"
  PROVE  first_third_party(i).signature = "UP_TO_DATE"
<1>1. ~active_defender(i)
  BY DEF active_defender
<1>2. ~freshness_conflict(i)
  BY <1>1 DEF freshness_conflict
<1>3. freshness_status(i) = security_center_signature(i)
  BY <1>1, <1>2 DEF freshness_status
<1> QED BY <1>3 DEF security_center_signature

\* A Defender that passes is on for every source that knows of it, and current.
LEMMA DefenderCurrent ==
  ASSUME NEW i, i.age \in {None} \cup Int, active_defender(i), defender_status(i) = "PASS"
  PROVE  /\ FALSE \notin {i.enabled, i.realtime, i.cloud, i.pua} /\ ~registration_conflict(i)
         /\ direct_freshness(i) # "OUT_OF_DATE"
         /\ direct_freshness(i) = "UNKNOWN" => security_center_signature(i) = "UP_TO_DATE"
         /\ direct_freshness(i) = "UP_TO_DATE" => security_center_signature(i) # "OUT_OF_DATE"
<1>1. FALSE \notin {i.enabled, i.realtime, i.cloud, i.pua} /\ ~registration_conflict(i)
        /\ ~freshness_conflict(i) /\ freshness_status(i) = "UP_TO_DATE"
  BY DEF defender_status
<1>2. direct_freshness(i) \in {"UNKNOWN", "OUT_OF_DATE", "UP_TO_DATE"}
  BY DEF direct_freshness
<1>3. direct_freshness(i) # "UNKNOWN" => direct_freshness(i) = "UP_TO_DATE"
  BY <1>1 DEF freshness_status
<1>4. direct_freshness(i) = "UNKNOWN" => security_center_signature(i) = "UP_TO_DATE"
  BY <1>1 DEF freshness_status
<1>5. direct_freshness(i) = "UP_TO_DATE" => security_center_signature(i) # "OUT_OF_DATE"
  BY <1>1 DEF freshness_conflict
<1> QED BY <1>1, <1>2, <1>3, <1>4, <1>5

\* Each listed product has a name of its own.
LEMMA ListedByName ==
  ASSUME NEW i, Reported(i)
  PROVE  /\ \A p, q \in listed_products(i) : p.name = q.name => p = q
         /\ \A p \in listed_products(i) : p.name # None
         /\ third_party(i) # {} => first_third_party(i) \in listed_products(i)
         /\ active_defender(i) => \E p \in listed_products(i) : p.name = "Defender"
<1> DEFINE self == [name |-> "Defender", state |-> "DIRECT_EVIDENCE", signature |-> "UNKNOWN"]
<1>1. listed_products(i) =
        registered_products(i) \cup (IF active_defender(i) /\ registered_defender(i) = {} THEN {self} ELSE {})
  BY DEF listed_products
<1>2. \A p \in registered_products(i) : p.name # None /\ p = merged(i, p.name)
  BY RegisteredByName, NamedPlaces
<1>3. self.name = "Defender" /\ "Defender" # None
  BY PostureAssumption
<1>4. registered_defender(i) = {p \in registered_products(i) : p.name = "Defender"}
  BY DEF registered_defender
<1> HIDE DEF self
<1>5. \A p, q \in listed_products(i) : p.name = q.name => p = q
  BY <1>1, <1>2, <1>3, <1>4
<1>6. \A p \in listed_products(i) : p.name # None
  BY <1>1, <1>2, <1>3
<1>7. third_party(i) # {} => first_third_party(i) \in listed_products(i)
  BY <1>1, FirstOther DEF third_party, active_products
<1>8. active_defender(i) => \E p \in listed_products(i) : p.name = "Defender"
  BY <1>1, <1>3, <1>4
<1> QED BY <1>5, <1>6, <1>7, <1>8

\* A set whose members are all the same has one at most.
LEMMA AllTheSame ==
  ASSUME NEW S, \A x, y \in S : x = y
  PROVE  Cardinality(S) <= 1
<1>1. CASE S = {}
  BY <1>1, FS_EmptySet
<1>2. CASE S # {}
  <2>1. PICK x : S = {x}
    BY <1>2
  <2> QED BY <2>1, FS_Singleton
<1> QED BY <1>1, <1>2

\* What the list says of the products.
LEMMA InventorySays ==
  ASSUME NEW i, Reported(i)
  PROVE  LET inventory == _enrich_product_inventory(i)
             primary == {p \in inventory : p.role = "PRIMARY"}
             enabled == {p \in inventory : p.protection = "ENABLED"}
         IN  /\ Cardinality(primary) <= 1 /\ Cardinality(enabled) <= 1
             /\ third_party(i) # {} \/ (active_defender(i) /\ ~i.passive) => primary # {} /\ enabled \subseteq primary
             /\ third_party(i) = {} /\ (~active_defender(i) \/ i.realtime = FALSE) => enabled = {}
<1> DEFINE inventory == _enrich_product_inventory(i)
           primary == {p \in inventory : p.role = "PRIMARY"}
           enabled == {p \in inventory : p.protection = "ENABLED"}
           entry(p) == [name |-> p.name, role |-> product_role(i, p), protection |-> product_protection(i, p)]
<1>1. inventory = {entry(p) : p \in listed_products(i)}
  BY DEF _enrich_product_inventory
<1>2. \A p : entry(p).role = product_role(i, p) /\ entry(p).protection = product_protection(i, p)
  OBVIOUS
<1>3. \A p : product_role(i, p) = "PRIMARY" => p.name = selected(i)
  BY DEF product_role
<1>4. \A p : product_protection(i, p) = "ENABLED" => p.name = selected(i)
  BY DEF product_protection
<1> HIDE DEF inventory, entry
<1>5. \A x, y \in primary : x = y
  BY <1>1, <1>2, <1>3, ListedByName
<1>6. \A x, y \in enabled : x = y
  BY <1>1, <1>2, <1>4, ListedByName
<1>7. ASSUME third_party(i) # {} \/ (active_defender(i) /\ ~i.passive)
      PROVE  primary # {} /\ enabled \subseteq primary
  <2>1. selected(i) = IF third_party(i) # {} THEN first_third_party(i).name ELSE "Defender"
    BY <1>7 DEF selected
  <2>2. \A p : p.name = selected(i) => product_role(i, p) = "PRIMARY"
    BY <1>7, <2>1, FirstOther DEF product_role
  <2>3. \E p \in listed_products(i) : p.name = selected(i)
    BY <1>7, <2>1, ListedByName
  <2> QED BY <1>1, <1>2, <1>4, <2>2, <2>3
<1>8. ASSUME third_party(i) = {}, ~active_defender(i) \/ i.realtime = FALSE PROVE enabled = {}
  <2>1. CASE ~active_defender(i)
    <3>1. selected(i) = None
      BY <1>8, <2>1 DEF selected
    <3> QED BY <1>1, <1>2, <1>4, <3>1, ListedByName
  <2>2. CASE active_defender(i) /\ i.realtime = FALSE
    <3>1. \A p : product_protection(i, p) # "ENABLED"
      BY <2>2 DEF product_protection
    <3> QED BY <1>1, <1>2, <3>1
  <2> QED BY <1>8, <2>1, <2>2
<1>9. Cardinality(primary) <= 1 /\ Cardinality(enabled) <= 1
  BY <1>5, <1>6, AllTheSame
<1> QED BY <1>7, <1>8, <1>9 DEF inventory

LEMMA ProtectionSeen ==
  ASSUME Answered PROVE ProtectionIsSeen
<1> SUFFICES ASSUME DecidedOf("malware") PROVE ProtectionIsSeen
  BY DEF ProtectionIsSeen
<1> DEFINE i == input
           on == {p \in named_products(i) : p.state = "ON"}
           others == {p \in on : p.name # "Defender"}
           aged == i.age # None /\ i.age >= 0
           old == aged /\ i.age > MaximumSignatureAge
           primary == {p \in output.inventory : p.role = "PRIMARY"}
           enabled == {p \in output.inventory : p.protection = "ENABLED"}
<1>1. Reported(i)
  BY EvidenceAssumption DEF Answered, DecidedOf, Reported
<1>2. /\ output.status = malware_status(i) /\ output.inventory = _enrich_product_inventory(i)
      /\ output.confirmed <=> \/ third_party(i) # {}
                              \/ active_defender(i) /\ FALSE \notin {i.enabled, i.realtime}
  <2> DEFINE confirmed == \/ third_party(i) # {}
                          \/ active_defender(i) /\ FALSE \notin {i.enabled, i.realtime}
  <2>1. output = [status |-> malware_status(i), inventory |-> _enrich_product_inventory(i), confirmed |-> confirmed]
    BY DEF Answered, evaluate_malware_protection
  <2> HIDE DEF confirmed
  <2>2. /\ output.status = malware_status(i) /\ output.inventory = _enrich_product_inventory(i)
        /\ output.confirmed = confirmed
    BY <2>1
  <2>3. confirmed \in BOOLEAN
    BY Zenon DEF confirmed
  <2>4. output.confirmed <=> confirmed
    BY <2>2, <2>3, Zenon
  <2> QED BY <2>2, <2>4 DEF confirmed
<1>3. (on # {} <=> active_products(i) # {}) /\ (others # {} <=> third_party(i) # {})
  BY <1>1, OthersOn
<1>4. ASSUME output.status = "PASS"
      PROVE  \/ third_party(i) # {} /\ freshness_status(i) = "UP_TO_DATE"
             \/ third_party(i) = {} /\ ~i.passive /\ active_defender(i) /\ defender_status(i) = "PASS"
  BY <1>2, <1>4, StatusRests
<1>5. ASSUME output.status = "FAIL"
      PROVE  /\ i.products # None
             /\ \/ active_products(i) = {} /\ ~active_defender(i)
                \/ third_party(i) = {} /\ i.realtime = FALSE
  BY <1>2, <1>5, StatusRests
<1>6. active_products(i) = {} => third_party(i) = {}
  BY DEF third_party
<1>7. ASSUME output.status = "PASS"
      PROVE  /\ output.confirmed
             /\ others # {} => \E p \in others : RegisteredFirst(p.name) /\ FirstSaid(p.name, "UP_TO_DATE")
             /\ others = {} =>
                  /\ FALSE \notin {i.enabled, i.realtime, i.cloud, i.pua}
                  /\ ~old /\ (i.products # None => ~FirstSaid("Defender", "OUT_OF_DATE"))
                  /\ aged \/ (i.products # None /\ FirstSaid("Defender", "UP_TO_DATE"))
                  /\ \A p \in named_products(i) : p.name = "Defender" => \E q \in on : q.name = "Defender"
  <2>1. CASE third_party(i) # {} /\ freshness_status(i) = "UP_TO_DATE"
    <3> DEFINE q == first_third_party(i)
    <3>1. q.signature = "UP_TO_DATE" /\ RegisteredFirst(q.name) /\ q \in third_party(i)
      BY <1>1, <2>1, FreshOther, NoneBefore, FirstOther
    <3>2. PICK m \in named(i) : q = merged(i, name_of(i, m)) /\ q.name = name_of(i, m)
      BY <1>1, <2>1, FirstOther
    <3> HIDE DEF q
    <3>3. FirstSaid(q.name, "UP_TO_DATE")
      BY <1>1, <3>1, <3>2, MergedSays
    <3>4. q.state = "ON" /\ q.name # "Defender"
      BY <3>1 DEF third_party, active_products
    <3>5. PICK n \in named(i) : name_of(i, n) = q.name /\ i.products[n].state = "ON"
      BY <1>1, <3>2, <3>4, Merging
    <3>6. \E p \in others : p.name = q.name
      BY <1>1, <3>4, <3>5, NamedPlaces
    <3> HIDE DEF on, others, aged, old
    <3> QED BY <1>2, <1>3, <2>1, <3>1, <3>3, <3>6
  <2>2. CASE third_party(i) = {} /\ active_defender(i) /\ defender_status(i) = "PASS"
    <3>1. /\ FALSE \notin {i.enabled, i.realtime, i.cloud, i.pua} /\ ~registration_conflict(i)
          /\ direct_freshness(i) # "OUT_OF_DATE"
          /\ direct_freshness(i) = "UNKNOWN" => security_center_signature(i) = "UP_TO_DATE"
          /\ direct_freshness(i) = "UP_TO_DATE" => security_center_signature(i) # "OUT_OF_DATE"
      BY <1>1, <2>2, DefenderCurrent DEF Reported
    <3>2. ASSUME NEW p \in named_products(i), p.name = "Defender" PROVE \E q \in on : q.name = "Defender"
      <4>1. PICK n \in named(i) : name_of(i, n) = "Defender"
        BY <1>1, <3>2, NamedPlaces
      <4>2. merged(i, "Defender") \in registered_defender(i) /\ merged(i, "Defender").name = "Defender"
        BY <1>1, <4>1, Merging DEF registered_defender
      <4>3. merged(i, "Defender").state = "ON"
        BY <2>2, <3>1, <4>2 DEF registration_conflict
      <4>4. PICK m \in named(i) : name_of(i, m) = "Defender" /\ i.products[m].state = "ON"
        BY <1>1, <4>1, <4>2, <4>3, Merging
      <4> QED BY <1>1, <4>4, NamedPlaces
    <3>3. /\ direct_freshness(i) = "UP_TO_DATE" <=> aged /\ ~old
          /\ direct_freshness(i) = "UNKNOWN" <=> ~aged
      <4>1. CASE i.age = None
        <5>1. direct_freshness(i) = "UNKNOWN"
          BY <4>1, Zenon DEF direct_freshness
        <5> QED BY <4>1, <5>1
      <4>2. CASE i.age # None /\ i.age < 0
        <5>1. i.age \in Int
          BY <1>1, <4>2 DEF Reported
        <5>2. ~(i.age >= 0)
          BY <4>2, <5>1
        <5>3. direct_freshness(i) = "UNKNOWN"
          BY <4>2, <5>1, <5>2, PostureAssumption DEF direct_freshness
        <5> QED BY <5>2, <5>3
      <4>3. CASE i.age # None /\ ~(i.age < 0)
        <5>1. i.age \in Int
          BY <1>1, <4>3 DEF Reported
        <5>2. i.age >= 0
          BY <4>3, <5>1
        <5> QED BY <4>3, <5>2 DEF direct_freshness
      <4> QED BY <4>1, <4>2, <4>3
    <3>4. ASSUME NEW signature \in {"UP_TO_DATE", "OUT_OF_DATE"}
          PROVE  security_center_signature(i) = signature
                   <=> i.products # None /\ FirstSaid("Defender", signature)
      <4>1. i.products # None /\ FirstSaid("Defender", signature)
              => \E n \in named(i) : name_of(i, n) = "Defender"
        BY PostureAssumption DEF FirstSaid, product, named, name_of, _canonical_product_name
      <4>2. CASE \E n \in named(i) : name_of(i, n) = "Defender"
        <5>1. PICK n \in named(i) : name_of(i, n) = "Defender"
          BY <4>2
        <5>2. merged(i, "Defender") \in registered_defender(i)
          BY <1>1, <5>1, Merging DEF registered_defender
        <5>3. merged(i, "Defender").signature = signature <=> FirstSaid("Defender", signature)
          BY <1>1, <5>1, MergedSays
        <5>4. i.products # None
          BY <5>1 DEF named
        <5> QED BY <2>2, <5>2, <5>3, <5>4 DEF security_center_signature
      <4>3. CASE ~\E n \in named(i) : name_of(i, n) = "Defender"
        <5>1. registered_defender(i) = {}
          BY <1>1, <4>3, RegisteredByName DEF registered_defender
        <5>2. security_center_signature(i) = "UNKNOWN"
          BY <2>2, <5>1 DEF security_center_signature
        <5> QED BY <4>1, <4>3, <5>2
      <4> QED BY <4>2, <4>3
    <3> HIDE DEF on, others, aged, old
    <3>5. direct_freshness(i) \in {"UNKNOWN", "OUT_OF_DATE", "UP_TO_DATE"}
      BY DEF direct_freshness
    <3>6. /\ ~old /\ (i.products # None => ~FirstSaid("Defender", "OUT_OF_DATE"))
          /\ aged \/ (i.products # None /\ FirstSaid("Defender", "UP_TO_DATE"))
      BY <3>1, <3>3, <3>4, <3>5 DEF old
    <3> QED BY <1>2, <1>3, <2>2, <3>1, <3>2, <3>6
  <2> HIDE DEF on, others, aged, old
  <2> QED BY <1>4, <1>7, <2>1, <2>2
<1>8. ASSUME output.status = "FAIL"
      PROVE  /\ ~output.confirmed /\ others = {} /\ i.products # None
             /\ on = {} \/ i.realtime = FALSE
  <2> HIDE DEF on, others
  <2> QED BY <1>2, <1>3, <1>5, <1>6, <1>8
<1>9. /\ Cardinality(primary) <= 1 /\ Cardinality(enabled) <= 1
      /\ output.status = "PASS" => primary # {} /\ enabled \subseteq primary
      /\ output.status = "FAIL" => enabled = {}
  <2>1. /\ Cardinality(primary) <= 1 /\ Cardinality(enabled) <= 1
        /\ third_party(i) # {} \/ (active_defender(i) /\ ~i.passive) => primary # {} /\ enabled \subseteq primary
        /\ third_party(i) = {} /\ (~active_defender(i) \/ i.realtime = FALSE) => enabled = {}
    BY <1>1, <1>2, InventorySays
  <2> HIDE DEF primary, enabled
  <2> QED BY <1>4, <1>5, <1>6, <2>1
<1> HIDE DEF on, others, primary, enabled, aged, old
<1>10. /\ output.status = "PASS" =>
             /\ output.confirmed
             /\ others # {} => \E p \in others : RegisteredFirst(p.name) /\ FirstSaid(p.name, "UP_TO_DATE")
             /\ others = {} =>
                  /\ FALSE \notin {i.enabled, i.realtime, i.cloud, i.pua}
                  /\ ~old /\ (i.products # None => ~FirstSaid("Defender", "OUT_OF_DATE"))
                  /\ aged \/ (i.products # None /\ FirstSaid("Defender", "UP_TO_DATE"))
                  /\ \A p \in named_products(i) : p.name = "Defender" => \E q \in on : q.name = "Defender"
       /\ output.status = "FAIL" =>
             /\ ~output.confirmed /\ others = {} /\ i.products # None
             /\ on = {} \/ i.realtime = FALSE
  BY <1>7, <1>8
<1> QED BY <1>9, <1>10, Zenon DEF ProtectionIsSeen, on, others, primary, enabled, aged, old

\* What the report says of the endpoint, and of a CVE, rests on evidence.
LEMMA DecidedFollows ==
  ASSUME Answered PROVE ReportFollowsEvidence
BY TriageFollows, ProtectionSeen, ShellOnlyDoubts, MembershipProved, SoundEvaluated DEF ReportFollowsEvidence, PostureIsEarned

\* Evidence of danger never calms the triage, support that has ended does not come
\* back, and a posture is said only of what every source that knows it bears out.
THEOREM ReportFollowsEvidenceAlways == Spec => []ReportFollowsEvidence
<1>1. Spec => []Answered
  BY InitAnswered, NextAnswered, PTL DEF Spec
<1> QED BY <1>1, DecidedFollows, PTL

-----------------------------------------------------------------------------
(* The claims about a framework *)

Statuses == {Gravity[n] : n \in DOMAIN Gravity} \cup {"PARTIAL"}
MappingFields ==
  {"rule", "strength", "status", "rationale", "reference", "release", "reviewer", "method", "pending"}

\* A pack as it is read.
Packed(pack) ==
  /\ DOMAIN pack = {"status", "mode", "release", "deprecated", "eits", "controls"}
  /\ \A c \in DOMAIN pack.controls :
       /\ DOMAIN pack.controls[c] = {"level", "mappings"}
       /\ \A m \in ToSet(pack.controls[c].mappings) : DOMAIN m = MappingFields

LEMMA Gravities ==
  /\ DOMAIN Gravity = 1..7 /\ Gravity[7] = "PASS"
  /\ \A n \in 1..6 : Gravity[n] # "PASS"
  /\ "PARTIAL" # "PASS"
BY DEF Gravity

\* A list of findings and one more.
LEMMA OneMore ==
  ASSUME NEW S, NEW F \in Seq(S), NEW x \in S, NEW rule
  PROVE  statuses(Append(F, x), rule) = statuses(F, rule) \cup (IF x.rule = rule THEN {x.status} ELSE {})
<1> DEFINE more == Append(F, x)
<1>1. /\ DOMAIN F = 1..Len(F) /\ Len(F) \in Nat /\ DOMAIN more = 1..(Len(F) + 1)
      /\ \A n \in 1..Len(F) : more[n] = F[n]
      /\ more[Len(F) + 1] = x
  OBVIOUS
<1>2. DOMAIN more = DOMAIN F \cup {Len(F) + 1}
  BY <1>1
<1> HIDE DEF more
<1>3. statuses(more, rule) = {more[n].status : n \in {j \in DOMAIN more : more[j].rule = rule}}
  BY DEF statuses
<1>4. statuses(F, rule) = {F[n].status : n \in {j \in DOMAIN F : F[j].rule = rule}}
  BY DEF statuses
<1> QED BY <1>1, <1>2, <1>3, <1>4 DEF more

\* A rule passes when it was found and nothing graver was.
LEMMA RulePasses ==
  ASSUME NEW F, NEW rule, None # "PASS", _findings_by_rule(F, rule) = "PASS"
  PROVE  /\ "PASS" \in statuses(F, rule)
         /\ \A n \in 1..6 : Gravity[n] \notin statuses(F, rule)
<1> DEFINE found == statuses(F, rule)
           grave == {i \in DOMAIN Gravity : Gravity[i] \in found}
<1>1. _findings_by_rule(F, rule) =
        IF found = {} THEN None ELSE IF grave = {} THEN "PARTIAL" ELSE Gravity[earliest(grave)]
  BY Zenon DEF _findings_by_rule
<1>2. grave # {} /\ Gravity[earliest(grave)] = "PASS"
  <2> HIDE DEF grave, found
  <2> QED BY <1>1, Gravities
<1>3. earliest(grave) \in grave /\ \A n \in grave : earliest(grave) <= n
  <2>1. grave \in SUBSET Nat
    BY Gravities
  <2> HIDE DEF grave
  <2> QED BY <1>2, <2>1, EarliestIn
<1>4. earliest(grave) = 7
  <2>1. earliest(grave) \in 1..7
    BY <1>3, Gravities
  <2> HIDE DEF grave
  <2> QED BY <1>2, <2>1, Gravities
<1>5. 7 \in grave /\ \A n \in 1..6 : n \notin grave
  <2> HIDE DEF grave
  <2> QED BY <1>3, <1>4
<1> QED BY <1>5, Gravities

\* What is made of a rule depends on what was found of it.
LEMMA RuleByStatuses ==
  ASSUME NEW F, NEW G, NEW rule, statuses(F, rule) = statuses(G, rule)
  PROVE  _findings_by_rule(F, rule) = _findings_by_rule(G, rule)
BY Zenon DEF _findings_by_rule

\* A finding that did not pass makes no rule pass.
LEMMA NoRulePasses ==
  ASSUME NEW F \in Seq([rule : STRING, status : Statuses]), NEW r \in STRING, NEW k \in 1..6,
         NEW rule, None # "PASS",
         _findings_by_rule(Append(F, [rule |-> r, status |-> Gravity[k]]), rule) = "PASS"
  PROVE  _findings_by_rule(F, rule) = "PASS"
<1> DEFINE x == [rule |-> r, status |-> Gravity[k]]
           S == [rule : STRING, status : Statuses]
<1>1. x \in S /\ x.rule = r /\ x.status = Gravity[k] /\ F \in Seq(S)
  BY Gravities DEF Statuses
<1> HIDE DEF x, S
<1>2. statuses(Append(F, x), rule) = statuses(F, rule) \cup (IF x.rule = rule THEN {x.status} ELSE {})
  BY <1>1, OneMore
<1>3. \A n \in 1..6 : Gravity[n] \notin statuses(Append(F, x), rule)
  BY RulePasses DEF x
<1>4. x.rule # rule
  BY <1>1, <1>2, <1>3
<1>5. statuses(Append(F, x), rule) = statuses(F, rule)
  BY <1>2, <1>4
<1> QED BY <1>5, RuleByStatuses DEF x

Formal(control) == {m \in ToSet(control.mappings) : m.status = "VALIDATED" /\ m.strength # "CONTEXTUAL"}
Direct(control) == {m \in Formal(control) : m.strength = "DIRECT"}
Passes(F, m) == _findings_by_rule(F, m.rule) = "PASS"
Fails(F, m) == _findings_by_rule(F, m.rule) \in {"FAIL", "WARNING"}

\* What a control comes to.
LEMMA ControlComesTo ==
  ASSUME NEW control, NEW id, NEW F
  PROVE  evaluate_mappings(control, id, F, {}) =
           IF Formal(control) = {} THEN "NOT_EVALUATED"
           ELSE IF \E m \in Direct(control) : Fails(F, m) THEN "NOT_SATISFIED"
           ELSE IF Direct(control) = {}
           THEN IF \E m \in Formal(control) : Passes(F, m) THEN "PARTIALLY_SATISFIED" ELSE "NOT_ASSESSABLE"
           ELSE IF \E m \in Direct(control) : ~Passes(F, m) THEN "NOT_ASSESSABLE"
           ELSE IF control.level = "TECHNICAL" THEN "SATISFIED" ELSE "PARTIALLY_SATISFIED"
<1>1. id \notin {}
  OBVIOUS
<1> QED BY <1>1, Zenon DEF evaluate_mappings, Formal, Direct, Passes, Fails

Good == {"SATISFIED", "PARTIALLY_SATISFIED"}

\* A control that is good stays good without a finding that did not pass.
LEMMA ControlGood ==
  ASSUME NEW control, NEW id, NEW F, NEW G,
         \A m : Passes(G, m) => Passes(F, m),
         evaluate_mappings(control, id, G, {}) \in Good
  PROVE  evaluate_mappings(control, id, F, {}) \in Good
<1>1. \A m : Passes(F, m) => ~Fails(F, m)
  BY DEF Passes, Fails
<1>2. Formal(control) # {}
  BY ControlComesTo DEF Good
<1>3. CASE Direct(control) = {}
  <2>1. \E m \in Formal(control) : Passes(G, m)
    BY <1>2, <1>3, ControlComesTo DEF Good
  <2>2. evaluate_mappings(control, id, F, {}) = "PARTIALLY_SATISFIED"
    BY <1>2, <1>3, <2>1, ControlComesTo
  <2> QED BY <2>2 DEF Good
<1>4. CASE Direct(control) # {}
  <2>1. \A m \in Direct(control) : Passes(G, m)
    BY <1>2, <1>4, ControlComesTo DEF Good
  <2>2. \A m \in Direct(control) : Passes(F, m) /\ ~Fails(F, m)
    BY <1>1, <2>1
  <2>3. evaluate_mappings(control, id, F, {}) \in {"SATISFIED", "PARTIALLY_SATISFIED"}
    BY <1>2, <1>4, <2>2, ControlComesTo
  <2> QED BY <2>3 DEF Good
<1> QED BY <1>3, <1>4

\* A control is satisfied by direct mappings that all passed.
LEMMA ControlSatisfied ==
  ASSUME NEW control, NEW id, NEW F, evaluate_mappings(control, id, F, {}) = "SATISFIED"
  PROVE  /\ control.level = "TECHNICAL" /\ Direct(control) # {}
         /\ \A m \in Direct(control) : Passes(F, m)
BY ControlComesTo

\* The evaluation of a pack that could be evaluated.
LEMMA PackEvaluated ==
  ASSUME NEW pack, NEW F, NEW known, NEW allow,
         _run_framework_evaluation(pack, F, known, allow) # None
  PROVE  /\ validate(pack, known) /\ ~unordered(F)
         /\ _run_framework_evaluation(pack, F, known, allow).formal =>
              \A m \in mappings_of(pack) : m.status # "PROVISIONAL"
         /\ \A c \in DOMAIN pack.controls :
              _run_framework_evaluation(pack, F, known, allow).controls[c].status =
                evaluate_mappings(pack.controls[c], c, F, {})
<1> DEFINE status(c) == evaluate_mappings(pack.controls[c], c, F, {})
           entry(c) == [status |-> status(c), shown |-> _presentation_status(pack.controls[c], status(c))]
           run == _run_framework_evaluation(pack, F, known, allow)
           formal == pack.status = "ACTIVE" /\ pack.mode = "FORMAL_ASSESSMENT"
           provisional == {m \in mappings_of(pack) : m.status = "PROVISIONAL"}
           refused == \/ pack.status = "ACTIVE" /\ provisional # {}
                      \/ pack.status = "REVIEW_REQUIRED" /\ ~allow
                      \/ pack.status \notin {"ACTIVE", "REVIEW_REQUIRED"}
                      \/ unordered(F)
<1>1. run = IF validate(pack, known)
            THEN IF refused THEN None
                 ELSE [formal |-> formal, controls |-> [c \in DOMAIN pack.controls |-> entry(c)]]
            ELSE None
  BY Zenon DEF _run_framework_evaluation, evaluate_pack
<1>2. validate(pack, known) /\ ~refused
  <2> HIDE DEF run, refused, formal, entry
  <2> QED BY <1>1 DEF run
<1>3. run.formal = formal /\ run.controls = [c \in DOMAIN pack.controls |-> entry(c)]
  <2> HIDE DEF run, refused, formal, entry
  <2> QED BY <1>1, <1>2
<1>4. \A c \in DOMAIN pack.controls : run.controls[c].status = status(c)
  <2>1. \A c : entry(c).status = status(c)
    OBVIOUS
  <2> HIDE DEF run, entry
  <2> QED BY <1>3, <2>1
<1>5. run.formal => pack.status = "ACTIVE"
  <2> HIDE DEF run
  <2> QED BY <1>3, Zenon
<1> HIDE DEF run
<1> QED BY <1>2, <1>4, <1>5 DEF run

\* A control comes to a status of its own, and is shown with one.
LEMMA ControlTyped ==
  ASSUME NEW control, NEW id, NEW F
  PROVE  /\ evaluate_mappings(control, id, F, {}) \in ControlStatuses
         /\ _presentation_status(control, evaluate_mappings(control, id, F, {})) \in ShownStatuses
<1>1. evaluate_mappings(control, id, F, {}) \in ControlStatuses
  BY ControlComesTo DEF ControlStatuses
<1>2. \A s \in ControlStatuses : _presentation_status(control, s) \in ShownStatuses
  BY DEF _presentation_status, ShownStatuses
<1> QED BY <1>1, <1>2

\* A valid pack that is active is evaluated.
LEMMA ValidIsEvaluated ==
  ASSUME NEW pack, NEW F, NEW known, NEW allow,
         None \notin [formal : BOOLEAN,
                     controls : [DOMAIN pack.controls -> [status : ControlStatuses, shown : ShownStatuses]]],
         validate(pack, known), pack.status = "ACTIVE", ~unordered(F)
  PROVE  _run_framework_evaluation(pack, F, known, allow) # None
<1> DEFINE status(c) == evaluate_mappings(pack.controls[c], c, F, {})
           entry(c) == [status |-> status(c), shown |-> _presentation_status(pack.controls[c], status(c))]
           formal == pack.status = "ACTIVE" /\ pack.mode = "FORMAL_ASSESSMENT"
           provisional == {m \in mappings_of(pack) : m.status = "PROVISIONAL"}
           refused == \/ pack.status = "ACTIVE" /\ provisional # {}
                      \/ pack.status = "REVIEW_REQUIRED" /\ ~allow
                      \/ pack.status \notin {"ACTIVE", "REVIEW_REQUIRED"}
                      \/ unordered(F)
           result == [formal |-> formal, controls |-> [c \in DOMAIN pack.controls |-> entry(c)]]
<1>1. _run_framework_evaluation(pack, F, known, allow) =
         IF validate(pack, known) THEN IF refused THEN None ELSE result ELSE None
  BY Zenon DEF _run_framework_evaluation, evaluate_pack
<1>2. provisional = {}
  BY DEF validate
<1>3. ~refused
  BY <1>2
<1>4. \A c \in DOMAIN pack.controls : entry(c) \in [status : ControlStatuses, shown : ShownStatuses]
  BY ControlTyped
<1>5. formal \in BOOLEAN
  BY Zenon
<1> HIDE DEF entry, formal, refused
<1>6. result # None
  BY <1>4, <1>5
<1> HIDE DEF result
<1> QED BY <1>1, <1>3, <1>6

\* A review keeps the rules that a pack names.
LEMMA ReviewKeepsRules ==
  ASSUME NEW pack, NEW ds, Packed(pack)
  PROVE  /\ DOMAIN reviewed(pack, ds).controls = DOMAIN pack.controls
         /\ \A m \in mappings_of(reviewed(pack, ds)) : \E n \in mappings_of(pack) : m.rule = n.rule
<1> DEFINE listed(c) == pack.controls[c].mappings
           kept(c) == {i \in DOMAIN listed(c) : ~\E d \in About(ds, c, listed(c)[i]) : d.decision = "REJECT"}
           decided(c, m) == IF About(ds, c, m) = {} THEN m
                            ELSE _apply_decision(m, CHOOSE d \in About(ds, c, m) : TRUE)
           places(c) == [i \in kept(c) |-> decided(c, listed(c)[i])]
           control(c) == [pack.controls[c] EXCEPT !.mappings = places(c)]
           q == reviewed(pack, ds)
<1>1. q = [pack EXCEPT !.controls = [c \in DOMAIN pack.controls |-> control(c)]]
  BY Zenon DEF reviewed
<1>2. q.controls = [c \in DOMAIN pack.controls |-> control(c)]
  BY <1>1 DEF Packed
<1>3. \A c \in DOMAIN pack.controls : control(c).mappings = places(c)
  <2> HIDE DEF places
  <2> QED BY DEF Packed
<1>4. \A c, m : DOMAIN m = MappingFields => decided(c, m).rule = m.rule
  <2>1. \A d, m : DOMAIN m = MappingFields => _apply_decision(m, d).rule = m.rule
    BY DEF _apply_decision, MappingFields
  <2> QED BY <2>1
<1>5. ASSUME NEW m \in mappings_of(q) PROVE \E n \in mappings_of(pack) : m.rule = n.rule
  <2>1. PICK c \in DOMAIN q.controls : m \in ToSet(q.controls[c].mappings)
    BY DEF mappings_of
  <2>2. c \in DOMAIN pack.controls /\ q.controls[c].mappings = places(c)
    <3> HIDE DEF control, places, q
    <3> QED BY <1>2, <1>3, <2>1
  <2>3. PICK i \in kept(c) : m = decided(c, listed(c)[i])
    <3>1. DOMAIN places(c) = kept(c)
      <4> HIDE DEF kept, decided
      <4> QED OBVIOUS
    <3>2. \A i \in kept(c) : places(c)[i] = decided(c, listed(c)[i])
      <4> HIDE DEF kept, decided, listed
      <4> QED OBVIOUS
    <3>3. PICK i \in DOMAIN places(c) : m = places(c)[i]
      <4> HIDE DEF places, q
      <4> QED BY <2>1, <2>2 DEF ToSet
    <3> HIDE DEF places, kept, decided, listed
    <3> QED BY <3>1, <3>2, <3>3
  <2>4. listed(c)[i] \in ToSet(listed(c))
    <3>1. i \in DOMAIN listed(c)
      BY <2>3
    <3> QED BY <3>1, Zenon DEF ToSet
  <2>5. listed(c)[i] \in mappings_of(pack) /\ DOMAIN listed(c)[i] = MappingFields
    BY <2>2, <2>4 DEF mappings_of, Packed
  <2> HIDE DEF decided
  <2> QED BY <1>4, <2>3, <2>5
<1>6. DOMAIN q.controls = DOMAIN pack.controls
  <2> HIDE DEF control, q
  <2> QED BY <1>2
<1> QED BY <1>5, <1>6 DEF q

\* A review that is valid leaves a pack that is valid for the analyzer as well.
LEMMA ReviewStaysValid ==
  ASSUME NEW pack, NEW ds, NEW known, Packed(pack), validate(pack, known)
  PROVE  /\ validate(apply_review(pack, ds), known)
         /\ DOMAIN apply_review(pack, ds).controls = DOMAIN pack.controls
<1> DEFINE q == reviewed(pack, ds)
<1>1. apply_review(pack, ds) = pack \/ (apply_review(pack, ds) = q /\ validate(q, None))
  BY Zenon DEF apply_review
<1>2. ASSUME validate(q, None) PROVE validate(q, known)
  <2>1. \A n \in mappings_of(pack) : known # None => n.rule \in known
    BY DEF validate, _validate_mapping
  <2>2. \A m \in mappings_of(q) : known # None => m.rule \in known
    BY <2>1, ReviewKeepsRules
  <2>3. \A m \in mappings_of(q) : _validate_mapping(m, None) /\ (q.eits => m.release)
    BY <1>2 DEF validate
  <2>4. \A m \in mappings_of(q) : _validate_mapping(m, known) /\ (q.eits => m.release)
    BY <2>2, <2>3 DEF _validate_mapping
  <2> QED BY <1>2, <2>4 DEF validate
<1> QED BY <1>1, <1>2, ReviewKeepsRules

LEMMA DecidedReviewed ==
  ASSUME Answered PROVE ClaimsAreReviewed
<1> SUFFICES ASSUME DecidedOf("framework") PROVE ClaimsAreReviewed
  BY DEF ClaimsAreReviewed
<1> DEFINE pack == output.pack
           known == input.known
           F == input.findings
           allow == input.allow_unreviewed
           StatusOf(evaluation, c) == evaluation.controls[c].status
           direct(c) == {m \in ToSet(pack.controls[c].mappings) : m.strength = "DIRECT" /\ m.status = "VALIDATED"}
           Worse == {Gravity[n] : n \in DOMAIN Gravity} \ {"PASS"}
<1>1. /\ output = [pack |-> apply_review(input.pack, input.decisions),
                   evaluation |-> _run_framework_evaluation(apply_review(input.pack, input.decisions), F, known, allow)]
      /\ input \in Inputs /\ input.kind = "framework"
  BY Zenon DEF Answered, DecidedOf
<1>2. pack = apply_review(input.pack, input.decisions)
        /\ output.evaluation = _run_framework_evaluation(pack, F, known, allow)
  BY <1>1
<1>3. /\ Packed(input.pack) /\ known \subseteq STRING /\ None # "PASS"
      /\ F \in Seq([rule : STRING, status : Statuses])
      /\ None \notin [formal : BOOLEAN,
                     controls : [DOMAIN input.pack.controls -> [status : ControlStatuses, shown : ShownStatuses]]]
  BY <1>1, PacksAssumption, Zenon DEF Packed, MappingFields, Statuses
<1> HIDE DEF pack, known, F, allow
<1>4. ASSUME output.evaluation # None, NEW c \in DOMAIN pack.controls, StatusOf(output.evaluation, c) = "SATISFIED"
      PROVE  /\ pack.controls[c].level = "TECHNICAL" /\ direct(c) # {}
             /\ \A m \in direct(c) :
                  /\ statuses(F, m.rule) = {"PASS"}
                  /\ m.reviewer \notin {None, REVIEW_PENDING} /\ m.method \in HUMAN_REVIEW_METHODS
  <2>1. validate(pack, known) /\ ~unordered(F) /\ evaluate_mappings(pack.controls[c], c, F, {}) = "SATISFIED"
    BY <1>2, <1>4, PackEvaluated
  <2>2. direct(c) = Direct(pack.controls[c])
    BY DEF Direct, Formal
  <2>3. /\ pack.controls[c].level = "TECHNICAL" /\ direct(c) # {}
        /\ \A m \in direct(c) : Passes(F, m)
    BY <2>1, <2>2, ControlSatisfied
  <2>4. ASSUME NEW m \in direct(c) PROVE statuses(F, m.rule) = {"PASS"}
    <3>1. "PASS" \in statuses(F, m.rule) /\ \A n \in 1..6 : Gravity[n] \notin statuses(F, m.rule)
      BY <1>3, <2>3, RulePasses DEF Passes
    <3>2. \A j \in DOMAIN F : F[j].status \in Statuses
      <4> DEFINE S == [rule : STRING, status : Statuses]
      <4>1. F \in Seq(S) /\ \A x \in S : x.status \in Statuses
        BY <1>3
      <4> HIDE DEF S
      <4> QED BY <4>1
    <3>3. ASSUME NEW s \in statuses(F, m.rule), s # "PASS" PROVE FALSE
      <4>1. PICK j \in DOMAIN F : F[j].rule = m.rule /\ F[j].status = s
        BY DEF statuses
      <4>2. PICK k \in DOMAIN F : F[k].rule = m.rule /\ F[k].status = "PASS"
        BY <3>1 DEF statuses
      <4>3. s = "PARTIAL"
        BY <3>1, <3>2, <3>3, <4>1, Gravities DEF Statuses
      <4> QED BY <2>1, <3>3, <4>1, <4>2, <4>3 DEF unordered
    <3> QED BY <3>1, <3>3
  <2>5. ASSUME NEW m \in direct(c)
        PROVE  m.reviewer \notin {None, REVIEW_PENDING} /\ m.method \in HUMAN_REVIEW_METHODS
    <3>1. m \in mappings_of(pack) /\ m.status = "VALIDATED"
      BY <1>4 DEF mappings_of
    <3> QED BY <2>1, <3>1 DEF validate, _validate_mapping
  <2> QED BY <2>3, <2>4, <2>5
<1>5. ASSUME output.evaluation # None, NEW c \in DOMAIN pack.controls, StatusOf(output.evaluation, c) \notin Good,
             NEW r \in known, NEW s \in Worse
      PROVE  LET more == _run_framework_evaluation(pack, Append(F, [rule |-> r, status |-> s]), known, allow)
             IN  more = None \/ StatusOf(more, c) \notin Good
  <2> DEFINE G == Append(F, [rule |-> r, status |-> s])
             more == _run_framework_evaluation(pack, G, known, allow)
  <2>1. PICK k \in 1..6 : s = Gravity[k]
    <3>1. PICK k \in DOMAIN Gravity : s = Gravity[k] /\ s # "PASS"
      OBVIOUS
    <3>2. k \in 1..6
      BY <3>1, Gravities
    <3> QED BY <3>1, <3>2
  <2>2. \A m : Passes(G, m) => Passes(F, m)
    BY <1>3, <2>1, NoRulePasses DEF Passes
  <2> HIDE DEF G
  <2>3. evaluate_mappings(pack.controls[c], c, F, {}) \notin Good
    BY <1>2, <1>5, PackEvaluated
  <2>4. evaluate_mappings(pack.controls[c], c, G, {}) \notin Good
    BY <2>2, <2>3, ControlGood
  <2>5. more = None \/ StatusOf(more, c) \notin Good
    BY <2>4, PackEvaluated
  <2> QED BY <2>5 DEF G
<1>6. output.evaluation # None /\ output.evaluation.formal => \A m \in mappings_of(pack) : m.status # "PROVISIONAL"
  BY <1>2, PackEvaluated
<1>7. pack.status = "ACTIVE" /\ validate(input.pack, known) /\ ~unordered(F) => output.evaluation # None
  <2> SUFFICES ASSUME pack.status = "ACTIVE", validate(input.pack, known), ~unordered(F)
               PROVE  output.evaluation # None
    OBVIOUS
  <2>1. validate(pack, known) /\ DOMAIN pack.controls = DOMAIN input.pack.controls
    BY <1>2, <1>3, ReviewStaysValid
  <2> QED BY <1>2, <1>3, <2>1, ValidIsEvaluated
<1> QED BY <1>4, <1>5, <1>6, <1>7, Zenon DEF ClaimsAreReviewed, Good, pack, known, F, allow

\* A control is called satisfied only on direct mappings that a person validated
\* and findings that all passed; one more that did not pass never makes it
\* satisfied or partially satisfied; and a review never leaves an active pack
\* that the analysis rejects.
THEOREM ClaimsAreReviewedAlways == Spec => []ClaimsAreReviewed
<1>1. Spec => []Answered
  BY InitAnswered, NextAnswered, PTL DEF Spec
<1> QED BY <1>1, DecidedReviewed, PTL

-----------------------------------------------------------------------------
(* The answers about a product *)

Outcome == {AFFECTED, NOT_AFFECTED, NOT_EVALUATED}

\* An answer that is given is not turned into its opposite.
Firm(x, y) == x.status = NOT_EVALUATED \/ y.status \in {x.status, NOT_EVALUATED}

\* What two results come to when both are needed.
LEMMA BothSay ==
  ASSUME NEW a, NEW b, a.status \in Outcome, b.status \in Outcome
  PROVE  _combine("AND", <<a, b>>).status =
           IF NOT_AFFECTED \in {a.status, b.status} THEN NOT_AFFECTED
           ELSE IF NOT_EVALUATED \in {a.status, b.status} THEN NOT_EVALUATED ELSE AFFECTED
<1> DEFINE rs == <<a, b>>
<1>1. DOMAIN rs = {1, 2} /\ rs[1] = a /\ rs[2] = b
  OBVIOUS
<1> HIDE DEF rs
<1>2. \A s : Having(rs, s) # {} <=> s \in {a.status, b.status}
  BY <1>1 DEF Having
<1>3. _combine("AND", rs).status =
        IF Having(rs, NOT_AFFECTED) # {} THEN NOT_AFFECTED
        ELSE IF Having(rs, NOT_EVALUATED) # {} THEN NOT_EVALUATED ELSE AFFECTED
  BY <1>1 DEF _combine, _unknown, _excluded, Result
<1> QED BY <1>2, <1>3 DEF rs

LEMMA BothFirm ==
  ASSUME NEW a, NEW b, NEW c, NEW d, a.status \in Outcome, b.status \in Outcome,
         c.status \in Outcome, d.status \in Outcome, Firm(a, c), Firm(b, d)
  PROVE  Firm(_combine("AND", <<a, b>>), _combine("AND", <<c, d>>))
BY BothSay DEF Firm, Outcome, AFFECTED, NOT_AFFECTED, NOT_EVALUATED

LEMMA VersionSays ==
  ASSUME NEW installed, NEW scheme, NEW match
  PROVE  _evaluate_version(installed, scheme, match).status \in Outcome
BY DEF _evaluate_version, Outcome, _unknown, _excluded, Result

LEMMA EnvironmentSays ==
  ASSUME NEW match, NEW architecture, NEW evidence
  PROVE  _evaluate_environment(match, architecture, evidence).status \in Outcome
BY DEF _evaluate_environment, Outcome, _unknown, _excluded, Result

\* A version that is not known is compared with nothing.
LEMMA VersionOpen ==
  ASSUME NEW scheme, NEW match, Tests(match) # {}
  PROVE  _evaluate_version(None, scheme, match) = _unknown
<1>1. PICK t \in Tests(match) : TRUE
  OBVIOUS
<1> DEFINE orders == {<<compare_applicability_versions(None, u[1], scheme), u[2]>> : u \in Tests(match)}
           o == <<compare_applicability_versions(None, t[1], scheme), t[2]>>
<1>2. compare_applicability_versions(None, t[1], scheme) = None
  BY DEF compare_applicability_versions
<1>3. o \in orders /\ o[1] = None
  BY <1>2
<1>4. \E p \in orders : p[1] = None
  <2> HIDE DEF o, orders
  <2> QED BY <1>3
<1> QED BY <1>4, Zenon DEF _evaluate_version

LEMMA VersionFirm ==
  ASSUME NEW installed, NEW later, NEW scheme, NEW match, installed = None \/ later = installed
  PROVE  Firm(_evaluate_version(installed, scheme, match), _evaluate_version(later, scheme, match))
<1>1. CASE later = installed
  BY <1>1 DEF Firm
<1>2. CASE installed = None /\ Tests(match) # {}
  BY <1>2, VersionOpen DEF Firm, _unknown, Result
<1>3. CASE Tests(match) = {}
  <2>1. \A i : {<<compare_applicability_versions(i, t[1], scheme), t[2]>> : t \in Tests(match)} = {}
    BY <1>3
  <2>2. \A i : _evaluate_version(i, scheme, match) =
               IF unreadable(match, scheme) THEN _unknown ELSE Result(AFFECTED, match.vulnerable)
    BY <2>1 DEF _evaluate_version
  <2> QED BY <2>2 DEF Firm
<1> QED BY <1>1, <1>2, <1>3

\* What a test said of an environment it says of a completed one.
LEMMA EnvironmentFirm ==
  ASSUME NEW match, NEW a, NEW b, NEW e, NEW f, a = None \/ b = a,
         e.os = None \/ f.os = e.os, e.edition = None \/ f.edition = e.edition
  PROVE  Firm(_evaluate_environment(match, a, e), _evaluate_environment(match, b, f))
<1> DEFINE Platform(x) == IF match.target_sw = AnyPlatform THEN TRUE ELSE platform_matches(match.target_sw, x)
           p == Platform(e.os)
           q == Platform(f.os)
           h == component(match.target_hw, a)
           i == component(match.target_hw, b)
           d == component(match.edition, e.edition)
           c == component(match.edition, f.edition)
           Says(tests) == IF FALSE \in tests THEN _excluded
                          ELSE IF None \in tests \/ match.other # "*" THEN _unknown
                          ELSE Result(AFFECTED, FALSE)
<1>1. p = None \/ q = p
  <2>1. CASE e.os = None /\ match.target_sw # AnyPlatform
    <3>1. platform_matches(match.target_sw, e.os) = None
      BY <2>1 DEF platform_matches
    <3> QED BY <2>1, <3>1
  <2>2. CASE f.os = e.os
    BY <2>2, Zenon
  <2>3. CASE match.target_sw = AnyPlatform
    BY <2>3
  <2> QED BY <2>1, <2>2, <2>3
<1>2. h = None \/ i = h
  BY DEF component
<1>3. d = None \/ c = d
  BY DEF component
<1>4. _evaluate_environment(match, a, e) = Says({p, h, d}) /\ _evaluate_environment(match, b, f) = Says({q, i, c})
  BY Zenon DEF _evaluate_environment
<1> HIDE DEF p, q, h, i, d, c
<1>5. None # FALSE
  BY NoneAssumption
<1>6. Firm(Says({p, h, d}), Says({q, i, c}))
  <2>1. CASE FALSE \in {p, h, d}
    <3>1. FALSE \in {q, i, c}
      <4>1. p = FALSE \/ h = FALSE \/ d = FALSE
        BY <2>1, Zenon
      <4>2. q = FALSE \/ i = FALSE \/ c = FALSE
        BY <1>1, <1>2, <1>3, <1>5, <4>1, Zenon
      <4> QED BY <4>2, Zenon
    <3>2. Says({p, h, d}) = Says({q, i, c})
      BY <2>1, <3>1, Zenon
    <3> QED BY <3>2 DEF Firm
  <2>2. CASE FALSE \notin {p, h, d} /\ None \in {p, h, d}
    <3>1. Says({p, h, d}) = _unknown
      BY <2>2, Zenon
    <3>2. _unknown.status = NOT_EVALUATED
      BY DEF _unknown, Result
    <3> HIDE DEF Says
    <3> QED BY <3>1, <3>2 DEF Firm
  <2>3. CASE FALSE \notin {p, h, d} /\ None \notin {p, h, d}
    <3>1. p = q /\ h = i /\ d = c
      BY <1>1, <1>2, <1>3, <2>3
    <3>2. Says({p, h, d}) = Says({q, i, c})
      BY <3>1, Zenon
    <3> QED BY <3>2 DEF Firm
  <2> QED BY <2>1, <2>2, <2>3
<1> QED BY <1>4, <1>6

\* What a criterion says of a product's version and its environment.
InRange(installed, scheme, match, architecture, evidence) ==
  _combine("AND", <<_evaluate_version(installed, scheme, match),
                    _evaluate_environment(match, architecture, evidence)>>)

LEMMA RangeFirm ==
  ASSUME NEW i, NEW j, NEW scheme, NEW match, NEW a, NEW b, NEW e, NEW f, i = None \/ j = i, a = None \/ b = a,
         e.os = None \/ f.os = e.os, e.edition = None \/ f.edition = e.edition
  PROVE  Firm(InRange(i, scheme, match, a, e), InRange(j, scheme, match, b, f))
BY VersionFirm, EnvironmentFirm, VersionSays, EnvironmentSays, BothFirm DEF InRange

\* The bound that the desktop client gets on Windows can only exclude more.
LEMMA DesktopFirm ==
  ASSUME NEW i, NEW j, NEW scheme, NEW match, NEW a, NEW b, NEW e, NEW f, i = None \/ j = i, a = None \/ b = a,
         e.os = None \/ f.os = e.os, e.edition = None \/ f.edition = e.edition,
         DOMAIN match = {"vulnerable", "about", "os", "exact", "starts", "ends", "target_sw",
                         "target_hw", "edition", "other", "desktop"}
  PROVE  Firm(InRange(i, scheme, _teams_windows_desktop_start(match, e), a, e),
              InRange(j, scheme, _teams_windows_desktop_start(match, f), b, f))
<1> DEFINE m == _teams_windows_desktop_start(match, e)
           n == _teams_windows_desktop_start(match, f)
<1>1. CASE m = n
  <2>1. Firm(InRange(i, scheme, m, a, e), InRange(j, scheme, m, b, f))
    <3> HIDE DEF m
    <3> QED BY RangeFirm
  <2>2. Firm(InRange(i, scheme, m, a, e), InRange(j, scheme, n, b, f))
    <3> HIDE DEF m, n
    <3> QED BY <1>1, <2>1
  <2> QED BY <2>2
<1>2. CASE m # n
  <2>1. e.os # f.os
    BY <1>2, Zenon DEF _teams_windows_desktop_start
  <2>2. e.os = None
    BY <2>1
  <2>3. platform_matches(Windows, e.os) # TRUE
    BY <2>2, NoneAssumption DEF platform_matches
  <2>4. m = match
    BY <2>3 DEF _teams_windows_desktop_start
  <2>5. /\ match.target_sw = None /\ match.starts = {} /\ match.ends # {}
        /\ n = [match EXCEPT !.starts = {[at |-> match.desktop, including |-> TRUE]}, !.target_sw = Windows]
    BY <1>2, <2>4 DEF _teams_windows_desktop_start
  <2>6. /\ n.ends = match.ends /\ n.exact = match.exact /\ n.target_hw = match.target_hw
        /\ n.edition = match.edition
    BY <2>5
  <2> HIDE DEF m, n
  <2>7. Tests(match) \subseteq Tests(n) /\ Tests(match) # {}
    <3>1. PICK bound \in match.ends : TRUE
      BY <2>5
    <3>2. <<bound.at, IF bound.including THEN {-1, 0} ELSE {-1}>> \in Tests(match)
      BY <3>1 DEF Tests
    <3>3. Tests(match) \subseteq Tests(n)
      BY <2>5, <2>6 DEF Tests
    <3> QED BY <3>2, <3>3
  <2>8. CASE _evaluate_version(i, scheme, match).status = NOT_AFFECTED
    <3>1. i # None
      BY <2>7, <2>8, VersionOpen DEF _unknown, Result, NOT_EVALUATED, NOT_AFFECTED
    <3>2. j = i
      BY <3>1
    <3>3. PICK t \in Tests(match) : compare_applicability_versions(i, t[1], scheme) \notin t[2]
      <4> DEFINE orders == {<<compare_applicability_versions(i, t[1], scheme), t[2]>> : t \in Tests(match)}
      <4>1. \E o \in orders : o[1] \notin o[2]
        <5> HIDE DEF orders
        <5>1. _evaluate_version(i, scheme, match) =
                IF unreadable(match, scheme) \/ \E o \in orders : o[1] = None THEN _unknown
                ELSE IF \E o \in orders : o[1] \notin o[2] THEN _excluded
                ELSE Result(AFFECTED, match.vulnerable)
          BY Zenon DEF _evaluate_version, orders
        <5> QED BY <2>8, <5>1 DEF _unknown, Result, NOT_EVALUATED, NOT_AFFECTED, AFFECTED
      <4> QED BY <4>1
    <3>4. _evaluate_version(i, scheme, n).status # AFFECTED
      <4> DEFINE orders == {<<compare_applicability_versions(i, u[1], scheme), u[2]>> : u \in Tests(n)}
                 o == <<compare_applicability_versions(i, t[1], scheme), t[2]>>
      <4>1. o \in orders /\ o[1] \notin o[2]
        BY <2>7, <3>3
      <4>2. \E p \in orders : p[1] \notin p[2]
        <5> HIDE DEF o, orders
        <5> QED BY <4>1
      <4> HIDE DEF o, orders
      <4>3. _evaluate_version(i, scheme, n) =
              IF unreadable(n, scheme) \/ \E p \in orders : p[1] = None THEN _unknown
              ELSE IF \E p \in orders : p[1] \notin p[2] THEN _excluded
              ELSE Result(AFFECTED, n.vulnerable)
        BY Zenon DEF _evaluate_version, orders
      <4> QED BY <4>2, <4>3 DEF _unknown, _excluded, Result, NOT_EVALUATED, NOT_AFFECTED, AFFECTED
    <3>5. InRange(j, scheme, n, b, f).status \in {NOT_AFFECTED, NOT_EVALUATED}
      BY <3>2, <3>4, VersionSays, EnvironmentSays, BothSay DEF InRange, Outcome
    <3>6. InRange(i, scheme, match, a, e).status = NOT_AFFECTED
      BY <2>8, VersionSays, EnvironmentSays, BothSay DEF InRange
    <3> QED BY <2>4, <3>5, <3>6 DEF Firm, m, n
  <2>9. CASE _evaluate_environment(match, a, e).status = NOT_AFFECTED
    <3> DEFINE h == component(match.target_hw, a)
               i2 == component(match.target_hw, b)
               d == component(match.edition, e.edition)
               c == component(match.edition, f.edition)
               q == IF n.target_sw = AnyPlatform THEN TRUE ELSE platform_matches(n.target_sw, f.os)
    <3>1. match.target_sw # AnyPlatform => platform_matches(match.target_sw, e.os) = None
      BY <2>2 DEF platform_matches
    <3>2. match.target_sw = AnyPlatform \/ platform_matches(match.target_sw, e.os) = None
      BY <3>1
    <3>3. FALSE \in {h, d}
      <4> DEFINE tests == {IF match.target_sw = AnyPlatform THEN TRUE ELSE platform_matches(match.target_sw, e.os), h, d}
      <4>1. FALSE \in tests
        <5>1. _evaluate_environment(match, a, e) =
                IF FALSE \in tests THEN _excluded
                ELSE IF None \in tests \/ match.other # "*" THEN _unknown
                ELSE Result(AFFECTED, FALSE)
          BY Zenon DEF _evaluate_environment
        <5> HIDE DEF tests
        <5>2. FALSE \notin tests => _evaluate_environment(match, a, e) \in {_unknown, Result(AFFECTED, FALSE)}
          BY <5>1, Zenon
        <5>3. _evaluate_environment(match, a, e) \notin {_unknown, Result(AFFECTED, FALSE)}
          BY <2>9 DEF _unknown, Result, NOT_EVALUATED, NOT_AFFECTED, AFFECTED
        <5> QED BY <5>2, <5>3, Zenon
      <4> HIDE DEF h, d
      <4> QED BY <3>2, <4>1, NoneAssumption
    <3>4. h = None \/ i2 = h
      BY DEF component
    <3>5. d = None \/ c = d
      BY DEF component
    <3>6. _evaluate_environment(n, b, f) =
            IF FALSE \in {q, i2, c} THEN _excluded
            ELSE IF None \in {q, i2, c} \/ n.other # "*" THEN _unknown
            ELSE Result(AFFECTED, FALSE)
      BY <2>6, Zenon DEF _evaluate_environment
    <3> HIDE DEF h, i2, d, c, q
    <3>7. FALSE \in {q, i2, c}
      BY <3>3, <3>4, <3>5, NoneAssumption
    <3>8. _evaluate_environment(n, b, f).status = NOT_AFFECTED
      BY <3>6, <3>7 DEF _excluded, Result
    <3>9. InRange(j, scheme, n, b, f).status = NOT_AFFECTED /\ InRange(i, scheme, match, a, e).status = NOT_AFFECTED
      BY <2>9, <3>8, VersionSays, EnvironmentSays, BothSay DEF InRange
    <3> QED BY <2>4, <3>9 DEF Firm, m, n
  <2>10. CASE /\ _evaluate_version(i, scheme, match).status # NOT_AFFECTED
              /\ _evaluate_environment(match, a, e).status # NOT_AFFECTED
    <3>1. match.target_sw # AnyPlatform
      BY <2>5, ProductsAssumption
    <3>2. platform_matches(match.target_sw, e.os) = None
      BY <2>2 DEF platform_matches
    <3>3. _evaluate_environment(match, a, e).status = NOT_EVALUATED
      BY <2>10, <3>1, <3>2 DEF _evaluate_environment, _unknown, _excluded, Result, NOT_EVALUATED
    <3>4. InRange(i, scheme, match, a, e).status = NOT_EVALUATED
      BY <2>10, <3>3, VersionSays, EnvironmentSays, BothSay DEF InRange
    <3> QED BY <2>4, <3>4 DEF Firm, m, n
  <2> QED BY <2>8, <2>9, <2>10
<1> QED BY <1>1, <1>2

\* Evidence that arrives later does not turn the answer of a criterion around.
LEMMA CriterionFirm ==
  ASSUME NEW software, NEW match, NEW evidence, NEW e \in Completions(evidence),
         NEW a \in Known(software.architecture, Architectures), NEW v \in Known(software.version, Versions),
         DOMAIN software = {"python", "minor", "number", "titled", "version", "architecture"},
         software.python \in BOOLEAN,
         DOMAIN match = {"vulnerable", "about", "os", "exact", "starts", "ends", "target_sw",
                         "target_hw", "edition", "other", "desktop"}
  PROVE  Firm(_evaluate_match(software, match, evidence),
              _evaluate_match([software EXCEPT !.architecture = a, !.version = v], match, e))
<1> DEFINE s == [software EXCEPT !.architecture = a, !.version = v]
           family == IF match.exact = NaVersion /\ match.starts \cup match.ends = {}
                     THEN [match EXCEPT !.exact = AnyVersion] ELSE match
           Answer1(sw, ev) ==
             CASE match.about = "platform" ->
                    IF platform_matches(match.os, ev.os) = None THEN _unknown
                    ELSE IF platform_matches(match.os, ev.os) = FALSE THEN _excluded
                    ELSE InRange(ev.os_version, "numeric", family, ev.architecture, ev)
               [] match.about = "unnamed" -> _unknown
               [] match.about = "other" -> IF match.vulnerable THEN _excluded ELSE _unknown
               [] OTHER -> InRange(version_evidence(sw).interpreted, version_evidence(sw).scheme,
                                   _teams_windows_desktop_start(match, ev), sw.architecture, ev)
<1>1. _evaluate_match(software, match, evidence) = Answer1(software, evidence) /\ _evaluate_match(s, match, e) = Answer1(s, e)
  BY Zenon DEF _evaluate_match, InRange
<1>2. /\ s.python = software.python /\ s.minor = software.minor /\ s.number = software.number
      /\ s.titled = software.titled /\ s.version = v /\ s.architecture = a
  OBVIOUS
<1>3. /\ software.architecture = None \/ a = software.architecture
      /\ software.version = None \/ v = software.version
  BY DEF Known
<1>4. /\ evidence.os = None \/ e.os = evidence.os
      /\ evidence.os_version = None \/ e.os_version = evidence.os_version
      /\ evidence.architecture = None \/ e.architecture = evidence.architecture
      /\ evidence.edition = None \/ e.edition = evidence.edition
  BY DEF Completions, Known
<1> HIDE DEF s
<1>5. CASE match.about = "platform"
  <2>1. \A sw, ev : Answer1(sw, ev) =
          IF platform_matches(match.os, ev.os) = None THEN _unknown
          ELSE IF platform_matches(match.os, ev.os) = FALSE THEN _excluded
          ELSE InRange(ev.os_version, "numeric", family, ev.architecture, ev)
    BY <1>5
  <2> HIDE DEF Answer1, family
  <2>2. CASE evidence.os = None
    <3>1. platform_matches(match.os, evidence.os) = None
      BY <2>2 DEF platform_matches
    <3> QED BY <1>1, <2>1, <3>1 DEF Firm, _unknown, Result, s
  <2>3. CASE e.os = evidence.os
    <3>1. Firm(InRange(evidence.os_version, "numeric", family, evidence.architecture, evidence),
               InRange(e.os_version, "numeric", family, e.architecture, e))
      BY <1>4, RangeFirm
    <3>2. Firm(_unknown, _unknown) /\ Firm(_excluded, _excluded)
      BY DEF Firm
    <3>3. Firm(Answer1(software, evidence), Answer1(s, e))
      BY <2>1, <2>3, <3>1, <3>2
    <3> QED BY <1>1, <3>3 DEF s
  <2> QED BY <1>4, <2>2, <2>3
<1>6. CASE match.about \in {"unnamed", "other"}
  <2>1. Answer1(software, evidence) = Answer1(s, e)
    BY <1>6
  <2> HIDE DEF Answer1
  <2> QED BY <1>1, <2>1 DEF Firm, s
<1>7. CASE match.about \notin {"platform", "unnamed", "other"}
  <2>1. \A sw, ev : Answer1(sw, ev) =
          InRange(version_evidence(sw).interpreted, version_evidence(sw).scheme,
                  _teams_windows_desktop_start(match, ev), sw.architecture, ev)
    BY <1>7
  <2> HIDE DEF Answer1
  <2>2. /\ version_evidence(software).interpreted = None \/ version_evidence(s).interpreted = version_evidence(software).interpreted
        /\ version_evidence(s).scheme = version_evidence(software).scheme
    <3>1. CASE software.python
      <4>1. version_evidence(s) = version_evidence(software)
        BY <1>2, <3>1, Zenon DEF version_evidence
      <4> QED BY <4>1
    <3>2. CASE ~software.python
      <4>1. version_evidence(software) = [interpreted |-> software.version, scheme |-> "numeric"]
        BY <3>2 DEF version_evidence
      <4>2. version_evidence(s) = [interpreted |-> v, scheme |-> "numeric"]
        BY <1>2, <3>2 DEF version_evidence
      <4> QED BY <1>3, <4>1, <4>2
    <3> QED BY <3>1, <3>2
  <2>3. Firm(Answer1(software, evidence), Answer1(s, e))
    BY <1>2, <1>3, <1>4, <2>1, <2>2, DesktopFirm
  <2> QED BY <1>1, <2>3 DEF s
<1> QED BY <1>5, <1>6, <1>7

\* What an answer about a criterion was not forced to say it does not say.
LEMMA CriterionForced ==
  ASSUME Answered, DecidedOf("criterion"), output.status # NOT_EVALUATED,
         NEW a \in Known(input.software.architecture, Architectures),
         NEW v \in Known(input.software.version, Versions), NEW e \in Completions(input.evidence)
  PROVE  _evaluate_match([input.software EXCEPT !.architecture = a, !.version = v], input.match, e).status
           \in {output.status, NOT_EVALUATED}
<1>1. /\ output = _evaluate_match(input.software, input.match, input.evidence)
      /\ input \in Inputs /\ input.kind = "criterion"
  BY DEF Answered, DecidedOf
<1>2. /\ DOMAIN input.software = {"python", "minor", "number", "titled", "version", "architecture"}
      /\ input.software.python \in BOOLEAN
      /\ DOMAIN input.match = {"vulnerable", "about", "os", "exact", "starts", "ends", "target_sw",
                               "target_hw", "edition", "other", "desktop"}
  BY <1>1, ProductsAssumption
<1>3. Firm(_evaluate_match(input.software, input.match, input.evidence),
           _evaluate_match([input.software EXCEPT !.architecture = a, !.version = v], input.match, e))
  BY <1>2, CriterionFirm
<1> QED BY <1>1, <1>3 DEF Firm

\* The results of criteria and of nodes.
Verdict == [status : Outcome, vulnerable : BOOLEAN]

\* A configuration as the analysis builds it.
Tree(tree) ==
  /\ tree \in Seq(TreeNode) /\ Len(tree) > 0
  /\ \A n \in DOMAIN tree :
       /\ \A k \in DOMAIN tree[n].parts : tree[n].parts[k] \in 1..(n - 1)
       /\ tree[n].operator = "LEAF" => tree[n].result # None

LEMMA CombineTyped ==
  ASSUME NEW op, NEW rs PROVE _combine(op, rs) \in Verdict
BY DEF _combine, Verdict, Outcome, _unknown, _excluded, Result

LEMMA NodeTyped ==
  ASSUME NEW tree, Tree(tree), NEW n \in DOMAIN tree, NEW value
  PROVE  node_result(tree[n], value) \in Verdict
<1>1. tree[n] \in TreeNode
  BY DEF Tree
<1>2. tree[n].operator = "LEAF" => tree[n].result \in Verdict
  BY <1>1 DEF TreeNode, Tree, Verdict, Outcome
<1>3. _unknown \in Verdict
  BY DEF _unknown, Result, Verdict, Outcome
<1> QED BY <1>2, <1>3, CombineTyped, Zenon DEF node_result

\* The results of the nodes are what each of them makes of those before it.
LEMMA NodesResult ==
  ASSUME NEW tree, Tree(tree)
  PROVE  /\ node_results(tree) \in [1..Len(tree) -> Verdict]
         /\ \A n \in 1..Len(tree) : node_results(tree)[n] = node_result(tree[n], node_results(tree))
<1> DEFINE m == Len(tree)
           G == [s \in Seq(Verdict) |-> IF Len(s) + 1 \in 1..m THEN node_result(tree[Len(s) + 1], s) ELSE _unknown]
           P(f) == f = [i \in DOMAIN tree |-> node_result(tree[i], f)]
<1>1. m \in Nat /\ DOMAIN tree = 1..m
  BY DEF Tree
<1>2. G \in [Seq(Verdict) -> Verdict]
  <2>1. _unknown \in Verdict
    BY DEF _unknown, Result, Verdict, Outcome
  <2>2. ASSUME NEW s \in Seq(Verdict), Len(s) + 1 \in 1..m PROVE node_result(tree[Len(s) + 1], s) \in Verdict
    BY <1>1, <2>2, NodeTyped
  <2> HIDE DEF m
  <2> QED BY <2>1, <2>2
<1>3. PICK f \in [1..m -> Verdict] : Recurs(f, m, G)
  <2> HIDE DEF G, m
  <2> QED BY <1>1, <1>2, Recursion, Zenon
<1>4. ASSUME NEW n \in 1..m PROVE f[n] = node_result(tree[n], f)
  <2> DEFINE s == [j \in 1..(n - 1) |-> f[j]]
  <2>1. s \in Seq(Verdict) /\ Len(s) = n - 1
    <3>1. n - 1 \in Nat /\ \A j \in 1..(n - 1) : f[j] \in Verdict
      BY <1>1, <1>3
    <3> HIDE DEF m
    <3> QED BY <3>1
  <2>2. f[n] = G[s]
    BY <1>3 DEF Recurs
  <2>3. Len(s) + 1 = n
    BY <1>1, <2>1
  <2>4. f[n] = node_result(tree[n], s)
    <3> HIDE DEF s, m
    <3> QED BY <2>1, <2>2, <2>3
  <2>5. \A k \in DOMAIN tree[n].parts : s[tree[n].parts[k]] = f[tree[n].parts[k]]
    BY <1>1 DEF Tree
  <2>6. [k \in DOMAIN tree[n].parts |-> s[tree[n].parts[k]]] = [k \in DOMAIN tree[n].parts |-> f[tree[n].parts[k]]]
    BY <2>5
  <2> HIDE DEF s, m
  <2> QED BY <2>4, <2>6 DEF node_result
<1>5. P(f)
  <2> HIDE DEF m
  <2> QED BY <1>1, <1>3, <1>4
<1>6. node_results(tree) = CHOOSE h : P(h)
  BY Zenon DEF node_results
<1>7. P(node_results(tree))
  <2>1. P(CHOOSE h : P(h))
    <3> HIDE DEF P
    <3> QED BY <1>5, Zenon
  <2> HIDE DEF P
  <2> QED BY <1>6, <2>1, Zenon
<1>8. /\ DOMAIN node_results(tree) = 1..m
      /\ \A n \in 1..m : node_results(tree)[n] = node_result(tree[n], node_results(tree))
  <2> HIDE DEF m
  <2> QED BY <1>1, <1>7
<1>9. node_results(tree) = [n \in 1..m |-> node_results(tree)[n]]
  BY <1>1, <1>7, <1>8
<1>10. \A n \in 1..m : node_results(tree)[n] \in Verdict
  BY <1>1, <1>8, NodeTyped
<1> QED BY <1>8, <1>9, <1>10

\* The truths of the nodes likewise.
LEMMA NodesTruth ==
  ASSUME NEW tree, Tree(tree), NEW open \in BOOLEAN
  PROVE  \A n \in 1..Len(tree) : truths(tree, open)[n] = node_truth(tree[n], truths(tree, open), open)
<1> DEFINE m == Len(tree)
           G == [s \in Seq(BOOLEAN) |-> IF Len(s) + 1 \in 1..m THEN node_truth(tree[Len(s) + 1], s, open) ELSE FALSE]
           P(f) == f = [i \in DOMAIN tree |-> node_truth(tree[i], f, open)]
<1>1. m \in Nat /\ DOMAIN tree = 1..m
  BY DEF Tree
<1>2. G \in [Seq(BOOLEAN) -> BOOLEAN]
  <2>2. \A node, f : node_truth(node, f, open) \in BOOLEAN
    BY Zenon DEF node_truth
  <2> HIDE DEF m
  <2>3. \A s \in Seq(BOOLEAN) : (IF Len(s) + 1 \in 1..m THEN node_truth(tree[Len(s) + 1], s, open) ELSE FALSE) \in BOOLEAN
    BY <2>2, Zenon
  <2> QED BY <2>3, Zenon
<1>3. PICK f \in [1..m -> BOOLEAN] : Recurs(f, m, G)
  <2> HIDE DEF G, m
  <2> QED BY <1>1, <1>2, Recursion, Zenon
<1>4. ASSUME NEW n \in 1..m PROVE f[n] = node_truth(tree[n], f, open)
  <2> DEFINE s == [j \in 1..(n - 1) |-> f[j]]
  <2>1. s \in Seq(BOOLEAN) /\ Len(s) = n - 1
    <3>1. n - 1 \in Nat /\ \A j \in 1..(n - 1) : f[j] \in BOOLEAN
      BY <1>1, <1>3
    <3> HIDE DEF m
    <3> QED BY <3>1
  <2>2. f[n] = G[s]
    BY <1>3 DEF Recurs
  <2>3. Len(s) + 1 = n /\ Len(s) + 1 \in 1..m
    BY <1>1, <2>1
  <2>4. f[n] = node_truth(tree[n], s, open)
    <3> HIDE DEF s, m
    <3> QED BY <2>1, <2>2, <2>3, Zenon
  <2>5. \A k \in DOMAIN tree[n].parts : s[tree[n].parts[k]] = f[tree[n].parts[k]]
    BY <1>1 DEF Tree
  <2> HIDE DEF s, m
  <2>6. node_truth(tree[n], s, open) = node_truth(tree[n], f, open)
    BY <2>5, Zenon DEF node_truth
  <2> QED BY <2>4, <2>6, Zenon
<1>5. P(f)
  <2>1. f = [n \in 1..m |-> f[n]]
    <3> HIDE DEF m
    <3> QED BY <1>3, Zenon
  <2> HIDE DEF m
  <2> QED BY <1>1, <1>4, <2>1, Zenon
<1>6. truths(tree, open) = CHOOSE h : P(h)
  BY Zenon DEF truths
<1>7. P(truths(tree, open))
  <2>1. P(CHOOSE h : P(h))
    <3> HIDE DEF P
    <3> QED BY <1>5, Zenon
  <2> HIDE DEF P
  <2> QED BY <1>6, <2>1, Zenon
<1> HIDE DEF m
<1> QED BY <1>1, <1>7, Zenon DEF m

\* A combination answers only what its parts force.
LEMMA CombineSays ==
  ASSUME NEW rs, \A i \in DOMAIN rs : rs[i].status \in Outcome
  PROVE  /\ _combine("OR", rs).status = AFFECTED => \E i \in DOMAIN rs : rs[i].status = AFFECTED
         /\ _combine("OR", rs).status = NOT_AFFECTED => \A i \in DOMAIN rs : rs[i].status = NOT_AFFECTED
         /\ _combine("AND", rs).status = AFFECTED => \A i \in DOMAIN rs : rs[i].status = AFFECTED
         /\ _combine("AND", rs).status = NOT_AFFECTED => \E i \in DOMAIN rs : rs[i].status = NOT_AFFECTED
<1>1. \A s : (Having(rs, s) # {}) <=> \E i \in DOMAIN rs : rs[i].status = s
  BY DEF Having
<1>2. {i \in Having(rs, AFFECTED) : rs[i].vulnerable} # {} => Having(rs, AFFECTED) # {}
  OBVIOUS
<1> DEFINE confirmed == {i \in Having(rs, AFFECTED) : rs[i].vulnerable}
<1>3. _combine("OR", rs).status =
        IF DOMAIN rs = {} THEN NOT_EVALUATED
        ELSE IF confirmed # {} THEN AFFECTED
        ELSE IF Having(rs, NOT_EVALUATED) # {} THEN NOT_EVALUATED
        ELSE IF Having(rs, AFFECTED) = {} THEN NOT_AFFECTED ELSE AFFECTED
  <2> HIDE DEF confirmed
  <2>1. _combine("OR", rs) =
        IF DOMAIN rs = {} THEN _unknown
        ELSE IF confirmed # {} THEN Result(AFFECTED, TRUE)
        ELSE IF Having(rs, NOT_EVALUATED) # {} THEN _unknown
        ELSE IF Having(rs, AFFECTED) = {} THEN _excluded ELSE Result(AFFECTED, FALSE)
    BY DEF _combine, confirmed
  <2> QED BY <2>1 DEF _unknown, _excluded, Result
<1>4. _combine("AND", rs).status =
        IF DOMAIN rs = {} THEN NOT_EVALUATED
        ELSE IF Having(rs, NOT_AFFECTED) # {} THEN NOT_AFFECTED
        ELSE IF Having(rs, NOT_EVALUATED) # {} THEN NOT_EVALUATED ELSE AFFECTED
  <2> HIDE DEF confirmed
  <2>1. _combine("AND", rs) =
        IF DOMAIN rs = {} THEN _unknown
        ELSE IF Having(rs, NOT_AFFECTED) # {} THEN _excluded
        ELSE IF Having(rs, NOT_EVALUATED) # {} THEN _unknown ELSE Result(AFFECTED, confirmed # {})
    BY DEF _combine, confirmed
  <2> QED BY <2>1 DEF _unknown, _excluded, Result
<1> HIDE DEF confirmed
<1>5. confirmed # {} => Having(rs, AFFECTED) # {}
  BY <1>2 DEF confirmed
<1> QED BY <1>1, <1>3, <1>4, <1>5 DEF Outcome, AFFECTED, NOT_AFFECTED, NOT_EVALUATED


LEMMA NodeSpeaks ==
  ASSUME NEW node \in TreeNode, node.operator = "LEAF" => node.result # None, NEW value, NEW truth, NEW open \in BOOLEAN,
         \A k \in DOMAIN node.parts :
           /\ value[node.parts[k]].status \in Outcome
           /\ value[node.parts[k]].status = AFFECTED => truth[node.parts[k]]
           /\ value[node.parts[k]].status = NOT_AFFECTED => ~truth[node.parts[k]]
  PROVE  /\ node_result(node, value).status = AFFECTED => node_truth(node, truth, open)
         /\ node_result(node, value).status = NOT_AFFECTED => ~node_truth(node, truth, open)
<1> DEFINE rs == [k \in DOMAIN node.parts |-> value[node.parts[k]]]
<1>1. CASE node.operator = "LEAF"
  BY <1>1 DEF node_result, node_truth, AFFECTED, NOT_AFFECTED, NOT_EVALUATED
<1>2. CASE node.operator \notin {"LEAF", "AND", "OR"}
  BY <1>2 DEF node_result, _unknown, Result, AFFECTED, NOT_AFFECTED, NOT_EVALUATED
<1>3. DOMAIN rs = DOMAIN node.parts /\ \A k \in DOMAIN node.parts : rs[k] = value[node.parts[k]]
  OBVIOUS
<1>4. CASE node.operator = "AND"
  <2>1. node_result(node, value) = _combine("AND", rs)
    BY <1>4 DEF node_result
  <2>2. node_truth(node, truth, open) <=> \A k \in DOMAIN node.parts : truth[node.parts[k]]
    BY <1>4 DEF node_truth
  <2> HIDE DEF rs
  <2>3. /\ _combine("AND", rs).status = AFFECTED => \A i \in DOMAIN rs : rs[i].status = AFFECTED
        /\ _combine("AND", rs).status = NOT_AFFECTED => \E i \in DOMAIN rs : rs[i].status = NOT_AFFECTED
    BY <1>3, CombineSays
  <2> QED BY <1>3, <2>1, <2>2, <2>3
<1>5. CASE node.operator = "OR"
  <2>1. node_result(node, value) = _combine("OR", rs)
    BY <1>5 DEF node_result
  <2>2. node_truth(node, truth, open) <=> \E k \in DOMAIN node.parts : truth[node.parts[k]]
    BY <1>5 DEF node_truth
  <2> HIDE DEF rs
  <2>3. /\ _combine("OR", rs).status = AFFECTED => \E i \in DOMAIN rs : rs[i].status = AFFECTED
        /\ _combine("OR", rs).status = NOT_AFFECTED => \A i \in DOMAIN rs : rs[i].status = NOT_AFFECTED
    BY <1>3, CombineSays
  <2> QED BY <1>3, <2>1, <2>2, <2>3
<1> QED BY <1>1, <1>2, <1>4, <1>5

\* The root of a configuration speaks for the formula, however the open criteria
\* come out.
LEMMA TreeSpeaks ==
  ASSUME NEW tree, Tree(tree), NEW open \in BOOLEAN
  PROVE  /\ _evaluate_node(tree).status \in Outcome
         /\ _evaluate_node(tree).status = AFFECTED => Holds(tree, open)
         /\ _evaluate_node(tree).status = NOT_AFFECTED => ~Holds(tree, open)
<1> DEFINE m == Len(tree)
           value == node_results(tree)
           truth == truths(tree, open)
           K == {n \in 1..m : ~( /\ value[n].status = AFFECTED => truth[n]
                                 /\ value[n].status = NOT_AFFECTED => ~truth[n])}
<1>1. m \in Nat /\ m > 0 /\ DOMAIN tree = 1..m
  BY DEF Tree
<1>2. \A n \in 1..m : value[n] = node_result(tree[n], value) /\ value[n].status \in Outcome
  BY NodesResult DEF Verdict
<1>3. \A n \in 1..m : truth[n] = node_truth(tree[n], truth, open)
  BY NodesTruth
<1> HIDE DEF value, truth, m
<1>4. K = {}
  <2> SUFFICES ASSUME K # {} PROVE FALSE
    OBVIOUS
  <2>1. K \in SUBSET Nat
    BY <1>1
  <2>2. PICK k \in K : \A j \in K : ~(j < k)
    <3> HIDE DEF K
    <3> QED BY <2>1, Smallest
  <2>3. k \in 1..m
    OBVIOUS
  <2>4. /\ tree[k] \in TreeNode /\ (tree[k].operator = "LEAF" => tree[k].result # None)
        /\ \A i \in DOMAIN tree[k].parts : tree[k].parts[i] \in 1..(k - 1)
    BY <1>1, <2>3 DEF Tree
  <2>5. ASSUME NEW i \in 1..(k - 1)
        PROVE  /\ value[i].status \in Outcome
               /\ value[i].status = AFFECTED => truth[i]
               /\ value[i].status = NOT_AFFECTED => ~truth[i]
    <3>1. i \in 1..m /\ i < k
      BY <1>1, <2>3
    <3>2. i \notin K
      <4> HIDE DEF K
      <4> QED BY <2>2, <3>1
    <3> QED BY <1>2, <3>1, <3>2
  <2>6. \A i \in DOMAIN tree[k].parts :
          /\ value[tree[k].parts[i]].status \in Outcome
          /\ value[tree[k].parts[i]].status = AFFECTED => truth[tree[k].parts[i]]
          /\ value[tree[k].parts[i]].status = NOT_AFFECTED => ~truth[tree[k].parts[i]]
    BY <2>4, <2>5
  <2>7. /\ node_result(tree[k], value).status = AFFECTED => node_truth(tree[k], truth, open)
        /\ node_result(tree[k], value).status = NOT_AFFECTED => ~node_truth(tree[k], truth, open)
    BY <2>4, <2>6, NodeSpeaks
  <2>8. value[k] = node_result(tree[k], value) /\ truth[k] = node_truth(tree[k], truth, open)
    BY <1>2, <1>3, <2>3
  <2>9. /\ value[k].status = AFFECTED => truth[k]
        /\ value[k].status = NOT_AFFECTED => ~truth[k]
    BY <2>7, <2>8, Zenon
  <2> QED BY <2>3, <2>9
<1>5. m \in 1..m
  BY <1>1
<1>6. _evaluate_node(tree) = value[m] /\ Holds(tree, open) = truth[m]
  BY DEF _evaluate_node, Holds, value, truth, m
<1>7. /\ value[m].status = AFFECTED => truth[m]
      /\ value[m].status = NOT_AFFECTED => ~truth[m]
  BY <1>4, <1>5, Zenon
<1> QED BY <1>2, <1>5, <1>6, <1>7, Zenon

\* The configurations of a CVE hold, or fail, whatever comes of what is open.
LEMMA ConfigurationsForced ==
  ASSUME Answered, DecidedOf("configurations"), output.status # NOT_EVALUATED, NEW open \in BOOLEAN
  PROVE  (\E i \in DOMAIN input.configurations : Holds(input.configurations[i], open)) <=> output.status = AFFECTED
<1> DEFINE cs == input.configurations
           rs == [i \in DOMAIN cs |-> _evaluate_node(cs[i])]
<1>1. input \in Inputs /\ input.kind = "configurations" /\ output = evaluate_applicability_result(input.identified, cs)
  BY DEF Answered, DecidedOf
<1>2. \A i \in DOMAIN cs : Tree(cs[i])
  BY <1>1, ProductsAssumption DEF Tree
<1>3. output = _combine("OR", rs)
  <2>1. output \in {_unknown, _combine("OR", rs)}
    BY <1>1, Zenon DEF evaluate_applicability_result
  <2>2. _unknown.status = NOT_EVALUATED
    BY DEF _unknown, Result
  <2> HIDE DEF rs
  <2> QED BY <2>1, <2>2
<1>4. DOMAIN rs = DOMAIN cs /\ \A i \in DOMAIN cs : rs[i] = _evaluate_node(cs[i])
  OBVIOUS
<1> HIDE DEF rs, cs
<1>5. \A i \in DOMAIN cs : /\ rs[i].status \in Outcome
                           /\ rs[i].status = AFFECTED => Holds(cs[i], open)
                           /\ rs[i].status = NOT_AFFECTED => ~Holds(cs[i], open)
  BY <1>2, <1>4, TreeSpeaks
<1>6. output.status \in Outcome
  BY <1>3, CombineTyped DEF Verdict
<1>7. /\ output.status = AFFECTED => \E i \in DOMAIN rs : rs[i].status = AFFECTED
      /\ output.status = NOT_AFFECTED => \A i \in DOMAIN rs : rs[i].status = NOT_AFFECTED
  BY <1>3, <1>4, <1>5, CombineSays
<1>8. output.status = AFFECTED \/ output.status = NOT_AFFECTED
  BY <1>6 DEF Outcome
<1>9. CASE output.status = AFFECTED
  <2>1. \E i \in DOMAIN cs : Holds(cs[i], open)
    BY <1>4, <1>5, <1>7, <1>9
  <2> QED BY <1>9, <2>1 DEF cs
<1>10. CASE output.status = NOT_AFFECTED
  <2>1. ~\E i \in DOMAIN cs : Holds(cs[i], open)
    BY <1>4, <1>5, <1>7, <1>10
  <2>2. output.status # AFFECTED
    BY <1>10 DEF AFFECTED, NOT_AFFECTED
  <2> QED BY <2>1, <2>2 DEF cs
<1> QED BY <1>8, <1>9, <1>10

\* No answer about a CVE goes beyond the evidence.
LEMMA AnswersForced ==
  ASSUME Answered PROVE AnswerIsForced
BY CriterionForced, ConfigurationsForced DEF AnswerIsForced

\* Release numbers are padded to four components.
Padded == [1..4 -> Nat]

LEMMA PadIsFour ==
  ASSUME NEW v \in ReleaseNumber PROVE Pad(v.numeric) \in Padded /\ Len(Pad(v.numeric)) = 4
<1>1. v.numeric \in Seq(Nat)
  BY DEF ReleaseNumber
<1>2. Pad(v.numeric) = [i \in 1..4 |-> IF i \in DOMAIN v.numeric THEN v.numeric[i] ELSE 0]
  BY DEF Pad
<1>3. \A i \in 1..4 : (IF i \in DOMAIN v.numeric THEN v.numeric[i] ELSE 0) \in Nat
  BY <1>1
<1>4. Pad(v.numeric) \in Padded
  BY <1>2, <1>3 DEF Padded
<1> QED BY <1>4 DEF Padded

\* The order of four components.
LEMMA BeforeFour ==
  ASSUME NEW a \in Padded, NEW b \in Padded
  PROVE  Before(a, b) <=>
           \/ a[1] < b[1]
           \/ a[1] = b[1] /\ a[2] < b[2]
           \/ a[1] = b[1] /\ a[2] = b[2] /\ a[3] < b[3]
           \/ a[1] = b[1] /\ a[2] = b[2] /\ a[3] = b[3] /\ a[4] < b[4]
<1>1. Len(a) = 4 /\ Len(b) = 4 /\ DOMAIN a = 1..4 /\ DOMAIN b = 1..4
  BY DEF Padded
<1>2. Before(a, b) <=> \E i \in 1..4 : a[i] < b[i] /\ \A j \in 1..(i - 1) : a[j] = b[j]
  BY <1>1 DEF Before
<1>3. 1..0 = {} /\ 1..1 = {1} /\ 1..2 = {1, 2} /\ 1..3 = {1, 2, 3} /\ 1..4 = {1, 2, 3, 4}
  OBVIOUS
<1>4. \A i \in 1..4 : i = 1 \/ i = 2 \/ i = 3 \/ i = 4
  OBVIOUS
<1>5. ASSUME NEW i \in 1..4, a[i] < b[i], \A j \in 1..(i - 1) : a[j] = b[j]
      PROVE  \/ a[1] < b[1]
             \/ a[1] = b[1] /\ a[2] < b[2]
             \/ a[1] = b[1] /\ a[2] = b[2] /\ a[3] < b[3]
             \/ a[1] = b[1] /\ a[2] = b[2] /\ a[3] = b[3] /\ a[4] < b[4]
  <2>1. CASE i = 1
    BY <1>5, <2>1
  <2>2. CASE i = 2
    BY <1>5, <2>2
  <2>3. CASE i = 3
    BY <1>5, <2>3
  <2>4. CASE i = 4
    BY <1>5, <2>4
  <2> QED BY <1>4, <2>1, <2>2, <2>3, <2>4
<1>6. a[1] < b[1] => Before(a, b)
  BY <1>2, 1 \in 1..4
<1>7. a[1] = b[1] /\ a[2] < b[2] => Before(a, b)
  BY <1>2, 2 \in 1..4
<1>8. a[1] = b[1] /\ a[2] = b[2] /\ a[3] < b[3] => Before(a, b)
  BY <1>2, 3 \in 1..4, 1..(3 - 1) = {1, 2}
<1>9. a[1] = b[1] /\ a[2] = b[2] /\ a[3] = b[3] /\ a[4] < b[4] => Before(a, b)
  BY <1>2, 4 \in 1..4, 1..(4 - 1) = {1, 2, 3}
<1> QED BY <1>2, <1>5, <1>6, <1>7, <1>8, <1>9

\* It is a total order.
LEMMA OrderOfFour ==
  ASSUME NEW a \in Padded, NEW b \in Padded, NEW c \in Padded
  PROVE  /\ ~Before(a, a)
         /\ ~(Before(a, b) /\ Before(b, a))
         /\ Before(a, b) /\ Before(b, c) => Before(a, c)
         /\ a = b \/ Before(a, b) \/ Before(b, a)
<1>1. \A i \in 1..4 : a[i] \in Nat /\ b[i] \in Nat /\ c[i] \in Nat
  BY DEF Padded
<1>2. a = b <=> a[1] = b[1] /\ a[2] = b[2] /\ a[3] = b[3] /\ a[4] = b[4]
  BY DEF Padded
<1>3. a[1] \in Nat /\ a[2] \in Nat /\ a[3] \in Nat /\ a[4] \in Nat
  BY <1>1
<1>4. b[1] \in Nat /\ b[2] \in Nat /\ b[3] \in Nat /\ b[4] \in Nat
  BY <1>1
<1>5. c[1] \in Nat /\ c[2] \in Nat /\ c[3] \in Nat /\ c[4] \in Nat
  BY <1>1
<1>6. ~Before(a, a)
  BY <1>3, BeforeFour
<1>7. ~(Before(a, b) /\ Before(b, a))
  BY <1>3, <1>4, BeforeFour
<1>8. Before(a, b) /\ Before(b, c) => Before(a, c)
  BY <1>3, <1>4, <1>5, BeforeFour
<1>9. a = b \/ Before(a, b) \/ Before(b, a)
  BY <1>2, <1>3, <1>4, BeforeFour
<1> QED BY <1>6, <1>7, <1>8, <1>9

LEMMA OlderOrders ==
  ASSUME NEW u \in ReleaseNumber, NEW v \in ReleaseNumber, NEW w \in ReleaseNumber
  PROVE  /\ ~Older(u, u)
         /\ ~(Older(u, v) /\ Older(v, u))
         /\ Older(u, v) /\ Older(v, w) => Older(u, w)
         /\ ~Older(u, v) /\ ~Older(v, u) => (Older(u, w) <=> Older(v, w)) /\ (Older(w, u) <=> Older(w, v))
<1> DEFINE a == Pad(u.numeric)
           b == Pad(v.numeric)
           c == Pad(w.numeric)
<1>1. a \in Padded /\ b \in Padded /\ c \in Padded
  BY PadIsFour
<1>2. \A x \in ReleaseNumber, y \in ReleaseNumber : Older(x, y) <=> Before(Pad(x.numeric), Pad(y.numeric))
  BY DEF Older
<1> HIDE DEF a, b, c
<1>3. /\ Older(u, u) <=> Before(a, a)
      /\ Older(u, v) <=> Before(a, b)
      /\ Older(v, u) <=> Before(b, a)
      /\ Older(v, w) <=> Before(b, c)
      /\ Older(w, v) <=> Before(c, b)
      /\ Older(u, w) <=> Before(a, c)
      /\ Older(w, u) <=> Before(c, a)
  BY <1>2 DEF a, b, c
<1>4. /\ ~Before(a, a) /\ ~(Before(a, b) /\ Before(b, a))
      /\ Before(a, b) /\ Before(b, c) => Before(a, c)
      /\ a = b \/ Before(a, b) \/ Before(b, a)
  BY <1>1, OrderOfFour
<1>5. CASE a = b
  <2>1. (Before(a, c) <=> Before(b, c)) /\ (Before(c, a) <=> Before(c, b))
    BY <1>5
  <2> QED BY <1>3, <1>4, <2>1
<1>6. CASE a # b
  BY <1>3, <1>4, <1>6
<1> QED BY <1>5, <1>6

\* What a comparison of two release numbers says, unless it says nothing.
LEMMA ComparedNumbers ==
  ASSUME NEW u \in ReleaseNumber, NEW v \in ReleaseNumber
  PROVE  LET order == compare_applicability_versions(u, v, "numeric")
         IN  /\ order \in {None, -1, 0, 1}
             /\ order = -1 => Older(u, v)
             /\ order = 0 => ~Older(u, v) /\ ~Older(v, u)
             /\ order = 1 => Older(v, u)
<1> DEFINE a == Pad(u.numeric)
           b == Pad(v.numeric)
           order == compare_applicability_versions(u, v, "numeric")
<1>1. a \in Padded /\ b \in Padded
  BY PadIsFour
<1>2. u # None /\ v # None /\ "numeric" \in DOMAIN u \cap DOMAIN v
  BY ProductsAssumption DEF ReleaseNumber
<1>3. order \in {None, Order(a, b)}
  <2>1. None \notin {u, v}
    BY <1>2
  <2>2. u["numeric"] = u.numeric /\ v["numeric"] = v.numeric
    OBVIOUS
  <2> QED BY <1>2, <2>1, <2>2, Zenon DEF compare_applicability_versions
<1>4. Order(a, b) = IF a = b THEN 0 ELSE IF Before(a, b) THEN -1 ELSE 1
  BY DEF Order
<1>5. Older(u, v) = Before(a, b) /\ Older(v, u) = Before(b, a)
  BY DEF Older
<1>6. ~Before(a, a) /\ ~(Before(a, b) /\ Before(b, a)) /\ (a = b \/ Before(a, b) \/ Before(b, a))
  BY <1>1, OrderOfFour
<1>7. None \notin {-1, 0, 1}
  BY NoneAssumption
<1> HIDE DEF a, b, order
<1>8. CASE order = None
  BY <1>7, <1>8 DEF order
<1>9. CASE order = Order(a, b) /\ a = b
  <2>1. order = 0 /\ ~Before(a, b) /\ ~Before(b, a)
    BY <1>4, <1>6, <1>9
  <2> QED BY <1>5, <2>1 DEF order
<1>10. CASE order = Order(a, b) /\ a # b /\ Before(a, b)
  <2>1. order = -1
    BY <1>4, <1>10
  <2> QED BY <1>5, <1>10, <2>1 DEF order
<1>11. CASE order = Order(a, b) /\ a # b /\ ~Before(a, b)
  <2>1. order = 1 /\ Before(b, a)
    BY <1>4, <1>6, <1>11
  <2> QED BY <1>5, <2>1 DEF order
<1> QED BY <1>3, <1>8, <1>9, <1>10, <1>11

\* What is known after the changes before place n: none was reached, or the state
\* is that of a reached change which no reached one is newer than.
Reached(installed, item, j) == ~Older(installed, item.changes[j].at)
Latest(installed, item, state, n) ==
  \/ state.status = None
  \/ /\ state.latest = None /\ state.status = (IF item.status = None THEN "unknown" ELSE item.status)
     /\ \A j \in 1..(n - 1) : ~Reached(installed, item, j)
  \/ \E k \in 1..(n - 1) :
       /\ state.latest = item.changes[k].at /\ state.status = item.changes[k].status
       /\ Reached(installed, item, k)
       /\ \A j \in 1..(n - 1) : Reached(installed, item, j) => ~Older(item.changes[k].at, item.changes[j].at)

LEMMA ChangedLatest ==
  ASSUME NEW installed \in ReleaseNumber, NEW item \in AffectedRange, NEW n \in 1..Len(item.changes),
         NEW state, DOMAIN state = {"latest", "status"}, Latest(installed, item, state, n)
  PROVE  Latest(installed, item, changed(installed, "numeric", state, item.changes[n]), n + 1)
<1> DEFINE change == item.changes[n]
           order == compare_applicability_versions(installed, change.at, "numeric")
           ordering == IF state.latest = None THEN 1
                       ELSE compare_applicability_versions(change.at, state.latest, "numeric")
           later == changed(installed, "numeric", state, change)
<1>1. item.changes \in Seq([at : ReleaseNumber, status : STRING])
  BY DEF AffectedRange
<1>2. \A j \in 1..n : item.changes[j].at \in ReleaseNumber
  <2>1. \A j \in 1..n : j \in 1..Len(item.changes)
    BY <1>1
  <2> DEFINE c == item.changes
             R == [at : ReleaseNumber, status : STRING]
  <2>2. \A j \in 1..Len(c) : c[j] \in R
    <3>1. c \in Seq(R)
      BY <1>1
    <3> HIDE DEF c, R
    <3> QED BY <3>1
  <2> QED BY <2>1, <2>2
<1>3. n \in Nat /\ n \in 1..n /\ 1..((n + 1) - 1) = 1..n /\ 1..n = 1..(n - 1) \cup {n}
  BY <1>1
<1>4. change.at \in ReleaseNumber
  BY <1>2, <1>3
<1>5. /\ order \in {None, -1, 0, 1}
      /\ order = -1 => ~Reached(installed, item, n)
      /\ order \in {0, 1} => Reached(installed, item, n)
  <2>1. /\ order \in {None, -1, 0, 1}
        /\ order = -1 => Older(installed, change.at)
        /\ order = 0 => ~Older(installed, change.at) /\ ~Older(change.at, installed)
        /\ order = 1 => Older(change.at, installed)
    BY <1>4, ComparedNumbers
  <2>2. ~(Older(installed, change.at) /\ Older(change.at, installed))
    BY <1>4, OlderOrders
  <2>3. Reached(installed, item, n) = ~Older(installed, change.at)
    BY DEF Reached
  <2> HIDE DEF order
  <2> QED BY <2>1, <2>2, <2>3
<1>6. later = IF state.status = None \/ order = -1 THEN state
              ELSE IF None \in {order, ordering} \/ (ordering = 0 /\ state.status # change.status)
              THEN [state EXCEPT !.status = None]
              ELSE IF ordering < 0 THEN state ELSE [latest |-> change.at, status |-> change.status]
  BY Zenon DEF changed
<1>7. [state EXCEPT !.status = None].status = None
  OBVIOUS
<1> HIDE DEF order, ordering, later
<1>8. CASE state.status = None
  BY <1>6, <1>8 DEF Latest, later
<1>9. CASE state.status # None /\ order = -1
  <2>1. later = state /\ ~Reached(installed, item, n)
    BY <1>5, <1>6, <1>9
  <2>2. CASE /\ state.latest = None /\ state.status = (IF item.status = None THEN "unknown" ELSE item.status)
             /\ \A j \in 1..(n - 1) : ~Reached(installed, item, j)
    BY <1>3, <2>1, <2>2 DEF Latest, later
  <2>3. ASSUME NEW k \in 1..(n - 1), state.latest = item.changes[k].at, state.status = item.changes[k].status,
               Reached(installed, item, k),
               \A j \in 1..(n - 1) : Reached(installed, item, j) => ~Older(item.changes[k].at, item.changes[j].at)
        PROVE  Latest(installed, item, state, n + 1)
    <3>1. k \in 1..((n + 1) - 1)
      BY <1>3
    <3>2. \A j \in 1..((n + 1) - 1) : Reached(installed, item, j) => ~Older(item.changes[k].at, item.changes[j].at)
      BY <1>3, <2>1, <2>3
    <3> QED BY <2>3, <3>1, <3>2 DEF Latest
  <2> QED BY <1>9, <2>1, <2>2, <2>3 DEF Latest, later
<1>10. CASE None \in {order, ordering} \/ (ordering = 0 /\ state.status # change.status)
  <2>1. later.status = None \/ order = -1 \/ state.status = None
    BY <1>6, <1>7, <1>10
  <2> QED BY <1>8, <1>9, <2>1 DEF Latest, later
<1>11. CASE /\ state.status # None /\ order \in {0, 1} /\ ordering # None
            /\ ~(ordering = 0 /\ state.status # change.status)
  <2>1. Reached(installed, item, n)
    BY <1>5, <1>11
  <2>2. -1 # None /\ 0 # None /\ 1 # None
    BY NoneAssumption
  <2>3. later = IF ordering < 0 THEN state ELSE [latest |-> change.at, status |-> change.status]
    BY <1>6, <1>11, <2>2
  <2>4. CASE /\ state.latest = None /\ \A j \in 1..(n - 1) : ~Reached(installed, item, j)
    <3>1. ordering = 1
      BY <2>4 DEF ordering
    <3>2. later.latest = change.at /\ later.status = change.status
      BY <2>3, <3>1
    <3>3. n \in 1..((n + 1) - 1)
      BY <1>3
    <3>4. ASSUME NEW j \in 1..((n + 1) - 1), Reached(installed, item, j) PROVE ~Older(change.at, item.changes[j].at)
      <4>1. j = n
        BY <1>3, <2>4, <3>4
      <4> QED BY <1>4, <4>1, OlderOrders
    <3> QED BY <2>1, <3>2, <3>3, <3>4 DEF Latest, later
  <2>5. ASSUME NEW k \in 1..(n - 1), state.latest = item.changes[k].at, state.status = item.changes[k].status,
               Reached(installed, item, k),
               \A j \in 1..(n - 1) : Reached(installed, item, j) => ~Older(item.changes[k].at, item.changes[j].at)
        PROVE  Latest(installed, item, later, n + 1)
    <3> DEFINE old == item.changes[k].at
    <3>1. k \in 1..n /\ old \in ReleaseNumber /\ old # None
      BY <1>2, <1>3, ProductsAssumption
    <3>2. ordering = compare_applicability_versions(change.at, old, "numeric")
      BY <2>5, <3>1 DEF ordering
    <3>3. /\ ordering \in {None, -1, 0, 1}
          /\ ordering = -1 => Older(change.at, old)
          /\ ordering = 0 => ~Older(change.at, old) /\ ~Older(old, change.at)
          /\ ordering = 1 => Older(old, change.at)
      BY <1>4, <3>1, <3>2, ComparedNumbers
    <3> HIDE DEF old
    <3>4. CASE ordering = -1
      <4>1. later = state
        BY <2>3, <3>4
      <4>2. ~Older(old, change.at)
        BY <1>4, <3>1, <3>3, <3>4, OlderOrders
      <4>3. \A j \in 1..((n + 1) - 1) : Reached(installed, item, j) => ~Older(old, item.changes[j].at)
        BY <1>3, <2>5, <4>2 DEF old
      <4>4. k \in 1..((n + 1) - 1)
        BY <1>3, <3>1
      <4> QED BY <2>5, <4>1, <4>3, <4>4 DEF Latest, old
    <3>5. CASE ordering \in {0, 1}
      <4>1. later.latest = change.at /\ later.status = change.status
        BY <2>3, <3>5
      <4>2. ASSUME NEW j \in 1..((n + 1) - 1), Reached(installed, item, j) PROVE ~Older(change.at, item.changes[j].at)
        <5> DEFINE w == item.changes[j].at
        <5>1. w \in ReleaseNumber
          BY <1>2, <1>3
        <5>2. CASE j = n
          BY <1>4, <5>2, OlderOrders
        <5>3. CASE j # n
          <6>1. ~Older(old, w)
            BY <1>3, <2>5, <4>2, <5>3 DEF old
          <6> HIDE DEF w
          <6>2. /\ Older(old, change.at) /\ Older(change.at, w) => Older(old, w)
                /\ ~Older(old, change.at) /\ ~Older(change.at, old) => (Older(old, w) <=> Older(change.at, w))
            BY <1>4, <3>1, <5>1, OlderOrders
          <6>3. ~Older(change.at, w)
            BY <3>3, <3>5, <6>1, <6>2
          <6> QED BY <6>3 DEF w
        <5> QED BY <5>2, <5>3
      <4>3. n \in 1..((n + 1) - 1)
        BY <1>3
      <4> QED BY <2>1, <4>1, <4>2, <4>3 DEF Latest
    <3> QED BY <1>11, <3>3, <3>4, <3>5
  <2> QED BY <1>11, <2>4, <2>5 DEF Latest, later
<1> QED BY <1>5, <1>8, <1>9, <1>10, <1>11

\* The states are what each change makes of the state before it.
LEMMA StatesChange ==
  ASSUME NEW installed, NEW item \in AffectedRange
  PROVE  LET S == change_states(installed, item, "numeric")
         IN  /\ S[1] = [latest |-> None, status |-> IF item.status = None THEN "unknown" ELSE item.status]
             /\ \A n \in 1..Len(item.changes) : S[n + 1] = changed(installed, "numeric", S[n], item.changes[n])
<1> DEFINE c == item.changes
           m == Len(c) + 1
           start == [latest |-> None, status |-> IF item.status = None THEN "unknown" ELSE item.status]
           V == [latest : {None} \cup {c[k].at : k \in DOMAIN c},
                 status : {None, start.status} \cup {c[k].status : k \in DOMAIN c}]
           G == [s \in Seq(V) |-> IF Len(s) \in 1..Len(c) THEN changed(installed, "numeric", s[Len(s)], c[Len(s)]) ELSE start]
           P(f) == f = [n \in 1..m |-> IF n = 1 THEN start ELSE changed(installed, "numeric", f[n - 1], c[n - 1])]
           S == change_states(installed, item, "numeric")
<1>1. Len(c) \in Nat /\ DOMAIN c = 1..Len(c) /\ m \in Nat
  BY DEF AffectedRange
<1>2. start \in V
  OBVIOUS
<1>3. ASSUME NEW v \in V, NEW k \in DOMAIN c PROVE changed(installed, "numeric", v, c[k]) \in V
  <2>1. [v EXCEPT !.status = None] \in V
    OBVIOUS
  <2>2. [latest |-> c[k].at, status |-> c[k].status] \in V
    OBVIOUS
  <2> HIDE DEF V, c
  <2> QED BY <1>3, <2>1, <2>2, Zenon DEF changed
<1> HIDE DEF V, start
<1>4. G \in [Seq(V) -> V]
  <2>1. ASSUME NEW s \in Seq(V), Len(s) \in 1..Len(c) PROVE changed(installed, "numeric", s[Len(s)], c[Len(s)]) \in V
    <3>1. s[Len(s)] \in V
      BY <1>1, <2>1
    <3> HIDE DEF c
    <3> QED BY <1>1, <1>3, <2>1, <3>1
  <2> HIDE DEF c
  <2> QED BY <1>2, <2>1
<1>5. PICK f \in [1..m -> V] : Recurs(f, m, G)
  <2> HIDE DEF G, m
  <2> QED BY <1>1, <1>4, Recursion, Zenon
<1> HIDE DEF c
<1>6. ASSUME NEW n \in 1..m PROVE f[n] = IF n = 1 THEN start ELSE changed(installed, "numeric", f[n - 1], c[n - 1])
  <2> DEFINE s == [j \in 1..(n - 1) |-> f[j]]
  <2>1. s \in Seq(V) /\ Len(s) = n - 1 /\ (n # 1 => s[Len(s)] = f[n - 1])
    <3>1. n - 1 \in Nat /\ \A j \in 1..(n - 1) : f[j] \in V
      BY <1>1, <1>5
    <3> HIDE DEF m
    <3> QED BY <3>1
  <2>2. f[n] = G[s]
    BY <1>5 DEF Recurs
  <2>3. n - 1 \in 1..Len(c) <=> n # 1
    BY <1>1
  <2> HIDE DEF s, m
  <2>4. f[n] = IF Len(s) \in 1..Len(c) THEN changed(installed, "numeric", s[Len(s)], c[Len(s)]) ELSE start
    BY <2>1, <2>2
  <2> QED BY <2>1, <2>3, <2>4
<1>7. P(f)
  <2> HIDE DEF m
  <2> QED BY <1>5, <1>6
<1>8. S = CHOOSE h : P(h)
  BY Zenon DEF change_states, c, start
<1>9. P(S)
  <2>1. P(CHOOSE h : P(h))
    <3> HIDE DEF P
    <3> QED BY <1>7, Zenon
  <2> HIDE DEF P, S
  <2> QED BY <1>8, <2>1, Zenon
<1> HIDE DEF S
<1>10. S[1] = start
  BY <1>1, <1>9
<1>11. ASSUME NEW n \in 1..Len(c) PROVE S[n + 1] = changed(installed, "numeric", S[n], c[n])
  <2>1. n + 1 \in 1..m /\ n + 1 # 1 /\ (n + 1) - 1 = n
    BY <1>1
  <2> HIDE DEF m
  <2> QED BY <1>9, <2>1
<1> QED BY <1>10, <1>11 DEF S, c, start

\* A status that is not None is that of a newest change, or of the item.
LEMMA EffectiveIsNewest ==
  ASSUME NEW installed \in ReleaseNumber, NEW item \in AffectedRange, NEW says \in {"affected", "unaffected"},
         _effective_status(installed, item, "numeric") = says
  PROVE  says \in IF Newest(item, installed) = {} THEN {item.status} ELSE Newest(item, installed)
<1> DEFINE S == change_states(installed, item, "numeric")
           m == Len(item.changes) + 1
           K == {n \in Nat : DOMAIN S[n] = {"latest", "status"} /\ Latest(installed, item, S[n], n)}
<1>1. Len(item.changes) \in Nat /\ DOMAIN item.changes = 1..Len(item.changes)
  BY DEF AffectedRange
<1>2. /\ S[1] = [latest |-> None, status |-> IF item.status = None THEN "unknown" ELSE item.status]
      /\ \A n \in 1..Len(item.changes) : S[n + 1] = changed(installed, "numeric", S[n], item.changes[n])
  BY StatesChange
<1> HIDE DEF S
<1>3. 1 \in K
  <2>1. 1..(1 - 1) = {}
    OBVIOUS
  <2> QED BY <1>2, <2>1 DEF Latest
<1>4. ASSUME NEW n \in 1..m, n \in K, n < m PROVE n + 1 \in K
  <2>1. n \in 1..Len(item.changes) /\ n + 1 \in Nat
    BY <1>1, <1>4
  <2>2. S[n + 1] = changed(installed, "numeric", S[n], item.changes[n])
    BY <1>2, <2>1
  <2>3. DOMAIN S[n] = {"latest", "status"} /\ Latest(installed, item, S[n], n)
    BY <1>4
  <2>4. Latest(installed, item, S[n + 1], n + 1)
    BY <2>1, <2>2, <2>3, ChangedLatest
  <2>5. DOMAIN changed(installed, "numeric", S[n], item.changes[n]) = {"latest", "status"}
    <3> DEFINE x == [S[n] EXCEPT !.status = None]
               y == [latest |-> item.changes[n].at, status |-> item.changes[n].status]
    <3>1. changed(installed, "numeric", S[n], item.changes[n]) \in {S[n], x, y}
      BY Zenon DEF changed
    <3>2. DOMAIN x = {"latest", "status"} /\ DOMAIN y = {"latest", "status"}
      BY <2>3
    <3> HIDE DEF x, y
    <3> QED BY <2>3, <3>1, <3>2
  <2> QED BY <2>1, <2>2, <2>4, <2>5
<1>5. m \in K
  <2>1. m \in Nat /\ m \in 1..m
    BY <1>1
  <2>2. \A n \in 1..m : n \in K
    <3> HIDE DEF K, m
    <3> QED BY <1>3, <1>4, <2>1, Climb
  <2> HIDE DEF K, m
  <2> QED BY <2>1, <2>2
<1>6. S[m].status = says /\ says # None
  BY ProductsAssumption DEF _effective_status, S
<1>7. 1..(m - 1) = DOMAIN item.changes
  BY <1>1
<1> DEFINE C == {item.changes[i] : i \in DOMAIN item.changes}
           R == {c \in C : ~Older(installed, c.at)}
           T == {d \in R : \A e \in R : ~Older(d.at, e.at)}
<1>8. Newest(item, installed) = {c.status : c \in T}
  BY DEF Newest
<1>9. Latest(installed, item, S[m], m)
  BY <1>5
<1> HIDE DEF m, K
<1>10. CASE /\ S[m].status = (IF item.status = None THEN "unknown" ELSE item.status)
            /\ \A j \in 1..(m - 1) : ~Reached(installed, item, j)
  <2>1. R = {}
    BY <1>7, <1>10 DEF Reached
  <2>2. Newest(item, installed) = {}
    BY <1>8, <2>1
  <2>3. says = item.status
    BY <1>6, <1>10
  <2> QED BY <2>2, <2>3
<1>11. ASSUME NEW k \in 1..(m - 1), S[m].status = item.changes[k].status, Reached(installed, item, k),
              \A j \in 1..(m - 1) : Reached(installed, item, j) => ~Older(item.changes[k].at, item.changes[j].at)
       PROVE  says \in Newest(item, installed)
  <2> DEFINE x == item.changes[k]
  <2>1. x \in R
    BY <1>7, <1>11 DEF Reached
  <2>2. \A e \in R : ~Older(x.at, e.at)
    <3> SUFFICES ASSUME NEW e \in R PROVE ~Older(x.at, e.at)
      OBVIOUS
    <3>1. PICK j \in DOMAIN item.changes : e = item.changes[j]
      OBVIOUS
    <3>2. Reached(installed, item, j)
      BY <3>1 DEF Reached
    <3> QED BY <1>7, <1>11, <3>1, <3>2
  <2>3. x \in T
    <3> HIDE DEF R, x
    <3> QED BY <2>1, <2>2
  <2>4. says = x.status
    BY <1>6, <1>11
  <2> HIDE DEF T, x
  <2> QED BY <1>8, <2>3, <2>4
<1> QED BY <1>6, <1>9, <1>10, <1>11 DEF Latest

\* Where a range begins and ends, for an installed release number.
Begun(installed, item) == item.version = AnyVersion \/ ~Older(installed, item.version)
Lasts(installed, item) ==
  IF item.less_than # None
  THEN item.less_than = AnyVersion \/ Older(installed, item.less_than)
  ELSE IF item.less_than_or_equal # None
  THEN item.less_than_or_equal = AnyVersion \/ ~Older(item.less_than_or_equal, installed)
  ELSE item.version # AnyVersion /\ ~Older(installed, item.version) /\ ~Older(item.version, installed)

\* A range that has begun and lasts holds the version, if it can be told.
LEMMA RangeHolds ==
  ASSUME NEW installed \in ReleaseNumber, NEW item \in AffectedRange, item.version # None,
         Begun(installed, item), Lasts(installed, item), _version_matches(installed, item, "numeric") # None
  PROVE  _version_matches(installed, item, "numeric") = TRUE
<1> DEFINE matches == _version_matches(installed, item, "numeric")
           bound == IF item.less_than # None THEN item.less_than ELSE item.less_than_or_equal
           start == IF item.version = AnyVersion THEN 1
                    ELSE compare_applicability_versions(installed, item.version, "numeric")
           end   == compare_applicability_versions(installed, bound, "numeric")
           width == IF item.version = AnyVersion THEN -1
                    ELSE compare_applicability_versions(item.version, bound, "numeric")
           open  == \/ None \notin {item.less_than, item.less_than_or_equal}
                    \/ item.version = None \/ (item.version = AnyVersion /\ bound = None) \/ start = None
           empty == None \in {end, width} \/ width > 0 \/ (width = 0 /\ item.less_than # None)
<1>1. /\ item.version \in {AnyVersion} \cup ReleaseNumber
      /\ item.less_than \in {None, AnyVersion} \cup ReleaseNumber
      /\ item.less_than_or_equal \in {None, AnyVersion} \cup ReleaseNumber
  BY DEF AffectedRange
<1>2. matches = IF open THEN None
                ELSE IF bound = None THEN start = 0
                ELSE IF bound = AnyVersion THEN start >= 0
                ELSE IF empty THEN None
                ELSE start >= 0 /\ (end < 0 \/ (end = 0 /\ item.less_than = None))
  BY Zenon DEF _version_matches
<1>3. start = None \/ start \in {0, 1}
  <2>1. CASE item.version = AnyVersion
    BY <2>1
  <2>2. CASE item.version # AnyVersion
    <3>1. item.version \in ReleaseNumber /\ ~Older(installed, item.version)
      BY <1>1, <2>2 DEF Begun
    <3>2. compare_applicability_versions(installed, item.version, "numeric") \in {None, 0, 1}
      BY <3>1, ComparedNumbers
    <3> QED BY <2>2, <3>2
  <2> QED BY <2>1, <2>2
<1>4. ~open
  BY <1>2, Zenon
<1>5. start \in {0, 1} /\ start >= 0
  BY <1>3, <1>4
<1>6. CASE bound = None
  <2>1. item.less_than = None /\ item.less_than_or_equal = None
    BY <1>6
  <2>2. item.version # AnyVersion /\ ~Older(installed, item.version) /\ ~Older(item.version, installed)
    BY <2>1 DEF Lasts
  <2>3. start = 0
    <3>1. item.version \in ReleaseNumber
      BY <1>1, <2>2
    <3>2. start = compare_applicability_versions(installed, item.version, "numeric")
      BY <2>2
    <3> QED BY <1>5, <2>2, <3>1, <3>2, ComparedNumbers
  <2> HIDE DEF matches, bound, start, end, width, open, empty
  <2> QED BY <1>2, <1>4, <1>6, <2>3, Zenon DEF matches
<1>7. CASE bound # None /\ bound = AnyVersion
  <2> HIDE DEF matches, bound, start, end, width, open, empty
  <2>1. (start >= 0) = TRUE
    BY <1>5
  <2> QED BY <1>2, <1>4, <1>7, <2>1, Zenon DEF matches
<1>8. CASE bound # None /\ bound # AnyVersion
  <2>1. bound \in ReleaseNumber
    BY <1>1, <1>8
  <2>2. ~empty
    <3> HIDE DEF bound, start, end, width, open, empty
    <3> QED BY <1>2, <1>4, <1>8, Zenon
  <2>3. end # None
    BY <2>2, Zenon
  <2>4. /\ end \in {None, -1, 0, 1}
        /\ end = -1 => Older(installed, bound)
        /\ end = 0 => ~Older(installed, bound) /\ ~Older(bound, installed)
        /\ end = 1 => Older(bound, installed)
    <3> HIDE DEF bound
    <3> QED BY <2>1, ComparedNumbers
  <2>5. ~(Older(installed, bound) /\ Older(bound, installed))
    <3> HIDE DEF bound
    <3> QED BY <2>1, OlderOrders
  <2>6. IF item.less_than # None THEN Older(installed, bound) ELSE ~Older(bound, installed)
    <3>1. CASE item.less_than # None
      BY <1>8, <3>1 DEF Lasts
    <3>2. CASE item.less_than = None
      BY <1>8, <3>2 DEF Lasts
    <3> QED BY <3>1, <3>2
  <2> HIDE DEF bound, start, end, width, open, empty
  <2>7. end = -1 \/ (end = 0 /\ item.less_than = None)
    BY <2>3, <2>4, <2>5, <2>6
  <2>8. start >= 0 /\ (end < 0 \/ (end = 0 /\ item.less_than = None))
    BY <1>5, <2>7
  <2>9. matches = (start >= 0 /\ (end < 0 \/ (end = 0 /\ item.less_than = None)))
    BY <1>2, <1>4, <1>8, <2>2, Zenon
  <2> HIDE DEF matches
  <2> QED BY <2>8, <2>9, Zenon DEF matches
<1> QED BY <1>6, <1>7, <1>8

\* A product that goes by a release number: the answer of the CNA is the status of
\* every range that holds the version.
LEMMA CnaFollows ==
  ASSUME Answered PROVE CnaFollowsRanges
<1> SUFFICES ASSUME DecidedOf("cna"), ~input.software.python, output # NOT_EVALUATED,
                    NEW i \in {input.items[j] : j \in DOMAIN input.items},
                    i.product, i.platforms = {}, i.version # None,
                    Begun(input.software.version, i), Lasts(input.software.version, i)
             PROVE  (IF output = AFFECTED THEN "affected" ELSE "unaffected") \in
                      IF Newest(i, input.software.version) = {} THEN {i.status}
                      ELSE Newest(i, input.software.version)
  BY Zenon DEF CnaFollowsRanges, Begun, Lasts
<1> DEFINE items == input.items
           software == input.software
           installed == version_evidence(software)
           matching == {k \in DOMAIN items : items[k].product}
           Applies(k) == _platform_matches(items[k].platforms, software.architecture, input.os)
           scoped == {k \in matching : Applies(k) = TRUE}
           Scheme(k) == IF items[k].type = None THEN installed.scheme
                        ELSE IF items[k].type = "pep440" /\ installed.scheme = "cpython" THEN "cpython"
                        ELSE items[k].type
           ranges == {k \in scoped : items[k].version # None \/ items[k].status # None \/ items[k].default = None}
           HoldsAt(k) == _version_matches(installed.interpreted, items[k], Scheme(k))
           holding == {k \in ranges : HoldsAt(k) = TRUE}
           Status(k) == _effective_status(installed.interpreted, items[k], Scheme(k))
           said == IF holding # {} THEN {Status(k) : k \in holding} ELSE {items[k].default : k \in scoped}
           silent == matching = {} \/ installed.interpreted = None \/ \E k \in matching : Applies(k) = None
           unclear == \/ \E k \in scoped : items[k].modules \/ Scheme(k) \notin DOMAIN installed.interpreted
                      \/ \E k \in ranges : HoldsAt(k) = None
<1>1. /\ input \in Inputs /\ input.kind = "cna"
      /\ output = evaluate_cna_applicability(software, items, input.os)
  BY DEF Answered, DecidedOf
<1>2. items \in Seq(AffectedRange) /\ software.version \in {None} \cup ReleaseNumber
  BY <1>1, ProductsAssumption
<1>3. installed = [interpreted |-> software.version, scheme |-> "numeric"]
  BY DEF version_evidence
<1>4. PICK j \in DOMAIN items : i = items[j]
  OBVIOUS
<1>5. i \in AffectedRange
  <2> HIDE DEF items
  <2>1. j \in 1..Len(items)
    BY <1>2, <1>4
  <2> QED BY <1>2, <1>4, <2>1
<1> HIDE DEF installed, items, software
<1>6. output = IF silent THEN NOT_EVALUATED
               ELSE IF scoped = {} THEN NOT_AFFECTED
               ELSE IF unclear THEN NOT_EVALUATED
               ELSE IF said = {"affected"} THEN AFFECTED
               ELSE IF said = {"unaffected"} THEN NOT_AFFECTED ELSE NOT_EVALUATED
  BY <1>1, Zenon DEF evaluate_cna_applicability, installed
<1>7. j \in scoped
  <2>1. _platform_matches({}, software.architecture, input.os) = TRUE
    BY DEF _platform_matches
  <2>2. items[j].product /\ items[j].platforms = {}
    BY <1>4
  <2> QED BY <1>4, <2>1, <2>2
<1>8. j \in ranges
  BY <1>4, <1>7
<1>9. ~silent /\ ~unclear
  <2>1. scoped # {}
    BY <1>7
  <2> HIDE DEF silent, unclear, scoped, said
  <2> QED BY <1>6, <2>1
<1>10. software.version \in ReleaseNumber /\ installed.interpreted = software.version
  <2>1. installed.interpreted # None
    BY <1>9
  <2> QED BY <1>2, <1>3, <2>1
<1>11. Scheme(j) = "numeric"
  <2>1. Scheme(j) \in DOMAIN installed.interpreted
    BY <1>7, <1>9
  <2>2. DOMAIN installed.interpreted = {"numeric"}
    BY <1>10 DEF ReleaseNumber
  <2> HIDE DEF Scheme
  <2> QED BY <2>1, <2>2
<1>12. HoldsAt(j) = TRUE
  <2>1. HoldsAt(j) = _version_matches(software.version, i, "numeric")
    BY <1>4, <1>10, <1>11, Zenon
  <2>2. HoldsAt(j) # None
    BY <1>8, <1>9
  <2>3. Begun(software.version, i) /\ Lasts(software.version, i)
    BY DEF software
  <2> HIDE DEF HoldsAt
  <2> QED BY <1>5, <1>10, <2>1, <2>2, <2>3, RangeHolds
<1>13. j \in holding
  BY <1>8, <1>12
<1>14. said = {Status(k) : k \in holding} /\ Status(j) \in said
  <2>1. holding # {}
    BY <1>13
  <2>2. said = {Status(k) : k \in holding}
    <3> HIDE DEF holding, Status, scoped
    <3> QED BY <2>1
  <2> HIDE DEF holding, Status, said
  <2> QED BY <1>13, <2>2
<1>15. Status(j) = _effective_status(software.version, i, "numeric")
  BY <1>4, <1>10, <1>11, Zenon
<1> DEFINE says == IF output = AFFECTED THEN "affected" ELSE "unaffected"
<1>16. said = {says}
  <2>1. scoped # {}
    BY <1>7
  <2> HIDE DEF silent, unclear, scoped, said
  <2>2. output = IF said = {"affected"} THEN AFFECTED
                 ELSE IF said = {"unaffected"} THEN NOT_AFFECTED ELSE NOT_EVALUATED
    BY <1>6, <1>9, <2>1
  <2> QED BY <2>2 DEF AFFECTED, NOT_AFFECTED, NOT_EVALUATED
<1> HIDE DEF said, Status
<1>17. _effective_status(software.version, i, "numeric") = says
  BY <1>14, <1>15, <1>16
<1>18. says \in {"affected", "unaffected"}
  OBVIOUS
<1> HIDE DEF says
<1>19. says \in IF Newest(i, software.version) = {} THEN {i.status} ELSE Newest(i, software.version)
  BY <1>5, <1>10, <1>17, <1>18, EffectiveIsNewest
<1> QED BY <1>19 DEF says, software

\* What is said of one row of the catalogue.
Accepted(software, row) ==
  /\ row.application /\ row.same_product /\ row.vendor >= 45
  /\ row.edition \in Wildcards \cup software.words
  /\ IF software.edition_alias = None THEN row.sw_edition \in Wildcards \cup software.words
     ELSE row.sw_edition = software.edition_alias

CatalogueRow(row) ==
  /\ row.vendor \in 0..50
  /\ {row.application, row.same_product, row.same_title, row.deprecated} \subseteq BOOLEAN

\* A row is as sure as its vendor and its title, and never surer than 95.
LEMMA RowConfidence ==
  ASSUME NEW software, NEW row, CatalogueRow(row)
  PROVE  /\ _identity_confidence(software, row) # None <=> Accepted(software, row)
         /\ Accepted(software, row) => _identity_confidence(software, row) \in 85..95
         /\ Accepted(software, row) /\ row.vendor = 50 /\ row.same_title => _identity_confidence(software, row) = 95
<1> DEFINE bonus == IF row.same_title THEN 10 ELSE 5
           sum == row.vendor + 35 + bonus
<1>1. _identity_confidence(software, row) = IF Accepted(software, row) THEN sum ELSE None
  <2>1. CASE software.edition_alias = None
    BY <2>1, Zenon DEF _identity_confidence, Accepted
  <2>2. CASE software.edition_alias # None
    BY <2>2, Zenon DEF _identity_confidence, Accepted
  <2> QED BY <2>1, <2>2
<1>2. bonus \in {5, 10} /\ (row.same_title => bonus = 10)
  OBVIOUS
<1>3. row.vendor \in 0..50
  BY DEF CatalogueRow
<1>4. Accepted(software, row) => row.vendor >= 45
  BY DEF Accepted
<1> HIDE DEF bonus
<1>5. sum \in Int /\ sum # None
  BY <1>2, <1>3, NoneAssumption
<1>6. Accepted(software, row) => sum \in 85..95
  BY <1>2, <1>3, <1>4
<1>7. row.vendor = 50 /\ row.same_title => sum = 95
  BY <1>2
<1> HIDE DEF sum
<1> QED BY <1>1, <1>5, <1>6, <1>7

\* The order of tuples of three numbers.
LEMMA BeforeThree ==
  ASSUME NEW a \in Int, NEW b \in Int, NEW c \in Int, NEW d \in Int, NEW e \in Int, NEW f \in Int,
         Before(<<a, b, c>>, <<d, e, f>>)
  PROVE  a < d \/ (a = d /\ b < e) \/ (a = d /\ b = e /\ c < f)
<1> DEFINE s == <<a, b, c>>
           t == <<d, e, f>>
<1>1. /\ Len(s) = 3 /\ Len(t) = 3 /\ DOMAIN s = 1..3 /\ DOMAIN t = 1..3
      /\ s[1] = a /\ s[2] = b /\ s[3] = c /\ t[1] = d /\ t[2] = e /\ t[3] = f
  OBVIOUS
<1> HIDE DEF s, t
<1>2. PICK i \in 1..3 : s[i] < t[i] /\ \A j \in 1..(i - 1) : s[j] = t[j]
  <2>1. Before(s, t)
    BY DEF s, t
  <2> QED BY <1>1, <2>1 DEF Before
<1>3. i = 1 \/ i = 2 \/ i = 3
  OBVIOUS
<1>4. CASE i = 1
  BY <1>1, <1>2, <1>4
<1>5. CASE i = 2
  BY <1>1, <1>2, <1>5
<1>6. CASE i = 3
  BY <1>1, <1>2, <1>6
<1> QED BY <1>3, <1>4, <1>5, <1>6

\* A family has a row that no other of it is preferred to.
LEMMA BestRow ==
  ASSUME NEW software, NEW choice, choice # {}, \A r \in choice : CatalogueRow(r) /\ Accepted(software, r)
  PROVE  \E r \in choice : \A s \in choice :
           ~Before(_family_candidate_sort_key(software, s), _family_candidate_sort_key(software, r))
<1> DEFINE dep(r) == IF r.deprecated THEN 1 ELSE 0
           upd(r) == IF r.update = "*" THEN 0 ELSE 1
           conf(r) == _identity_confidence(software, r)
           Place(r) == 10000 * dep(r) + 1000 * upd(r) + (100 - conf(r))
           K == {Place(r) : r \in choice}
<1>1. \A r \in choice : dep(r) \in {0, 1} /\ upd(r) \in {0, 1} /\ conf(r) \in 85..95
  BY RowConfidence
<1>2. \A r \in choice : _family_candidate_sort_key(software, r) = <<dep(r), upd(r), -conf(r)>>
  BY Zenon DEF _family_candidate_sort_key
<1> HIDE DEF dep, upd, conf
<1>3. K \in SUBSET Nat /\ K # {}
  <2>1. \A r \in choice : Place(r) \in Nat
    BY <1>1
  <2> HIDE DEF Place
  <2> QED BY <2>1
<1>4. PICK k \in K : \A j \in K : ~(j < k)
  <2> HIDE DEF K
  <2> QED BY <1>3, Smallest
<1>5. PICK r \in choice : Place(r) = k
  OBVIOUS
<1>6. ASSUME NEW s \in choice, Before(_family_candidate_sort_key(software, s), _family_candidate_sort_key(software, r))
      PROVE  FALSE
  <2>1. ~(Place(s) < Place(r))
    BY <1>4, <1>5, <1>6
  <2>2. /\ dep(s) \in {0, 1} /\ upd(s) \in {0, 1} /\ conf(s) \in 85..95
        /\ dep(r) \in {0, 1} /\ upd(r) \in {0, 1} /\ conf(r) \in 85..95
    BY <1>1
  <2>3. Before(<<dep(s), upd(s), -conf(s)>>, <<dep(r), upd(r), -conf(r)>>)
    BY <1>2, <1>6
  <2>4. \/ dep(s) < dep(r) \/ (dep(s) = dep(r) /\ upd(s) < upd(r))
        \/ (dep(s) = dep(r) /\ upd(s) = upd(r) /\ -conf(s) < -conf(r))
    <3>1. -conf(s) \in Int /\ -conf(r) \in Int
      BY <2>2
    <3> QED BY <2>2, <2>3, <3>1, BeforeThree
  <2> QED BY <2>1, <2>2, <2>4
<1> QED BY <1>6

\* The candidate of a family stands on one of its rows, an active one if there is any.
LEMMA FamilyStands ==
  ASSUME NEW software, NEW rows, \A r \in rows : CatalogueRow(r) /\ Accepted(software, r)
  PROVE  LET candidates == _collapse_equivalent_candidates(software, rows)
         IN  /\ \A r \in rows : \E c \in candidates : c.family = _canonical_family_key(r)
             /\ \A c \in candidates : \E b \in rows :
                  /\ _canonical_family_key(b) = c.family /\ c.deprecated = b.deprecated
                  /\ c.confidence = _identity_confidence(software, b)
                  /\ (\E r \in rows : _canonical_family_key(r) = c.family /\ ~r.deprecated) => ~b.deprecated
<1> DEFINE installed == version_evidence(software)
           candidates == _collapse_equivalent_candidates(software, rows)
           values(family) == {r \in rows : _canonical_family_key(r) = family}
           active(family) == {r \in values(family) : ~r.deprecated}
           available(family) == IF active(family) # {} THEN active(family) ELSE values(family)
           exact(family) == {r \in available(family) : _catalog_version_matches(installed, r)}
           choice(family) == IF exact(family) # {} THEN exact(family) ELSE available(family)
           Best(family, r) == \A s \in choice(family) :
             ~Before(_family_candidate_sort_key(software, s), _family_candidate_sort_key(software, r))
           best(family) == CHOOSE r \in choice(family) : Best(family, r)
           Candidate(family) ==
             [family |-> family, deprecated |-> best(family).deprecated, exact |-> exact(family) # {},
              confidence |-> _identity_confidence(software, best(family))]
<1>1. candidates = {Candidate(_canonical_family_key(r)) : r \in rows}
  BY Zenon DEF _collapse_equivalent_candidates
<1>2. \A f : Candidate(f).family = f /\ Candidate(f).deprecated = best(f).deprecated
             /\ Candidate(f).confidence = _identity_confidence(software, best(f))
  OBVIOUS
<1>3. ASSUME NEW r \in rows
      PROVE  LET f == _canonical_family_key(r) IN best(f) \in choice(f)
  <2> DEFINE f == _canonical_family_key(r)
  <2>1. available(f) # {} /\ available(f) \subseteq rows
    OBVIOUS
  <2> HIDE DEF available
  <2>2. choice(f) # {} /\ choice(f) \subseteq rows
    BY <2>1
  <2>3. \E b \in choice(f) : Best(f, b)
    <3> HIDE DEF choice, f
    <3> QED BY <2>2, BestRow
  <2> HIDE DEF choice, Best, f
  <2>4. best(f) \in choice(f)
    BY <2>3, Zenon
  <2> QED BY <2>4 DEF f
<1>4. ASSUME NEW r \in rows
      PROVE  LET f == _canonical_family_key(r)
                 b == best(f)
             IN  /\ b \in rows /\ _canonical_family_key(b) = f
                 /\ (\E q \in rows : _canonical_family_key(q) = f /\ ~q.deprecated) => ~b.deprecated
  <2> DEFINE f == _canonical_family_key(r)
             b == best(f)
  <2>1. b \in choice(f)
    BY <1>3, Zenon
  <2> HIDE DEF b
  <2>2. b \in available(f)
    <3> HIDE DEF available
    <3> QED BY <2>1
  <2>3. b \in values(f) /\ (active(f) # {} => b \in active(f))
    <3> HIDE DEF values, active
    <3>1. available(f) = IF active(f) # {} THEN active(f) ELSE values(f)
      OBVIOUS
    <3>2. active(f) \subseteq values(f)
      BY DEF active
    <3> QED BY <2>2, <3>1, <3>2
  <2> HIDE DEF f
  <2>4. b \in rows /\ _canonical_family_key(b) = f
    BY <2>3
  <2>5. ASSUME NEW q \in rows, _canonical_family_key(q) = f, ~q.deprecated PROVE ~b.deprecated
    <3>1. q \in active(f)
      BY <2>5
    <3> QED BY <2>3, <3>1
  <2> QED BY <2>4, <2>5 DEF f, b
<1> HIDE DEF candidates, Candidate, best, choice, exact, available, active, values
<1>5. \A r \in rows : \E c \in candidates : c.family = _canonical_family_key(r)
  <2> TAKE r \in rows
  <2>1. Candidate(_canonical_family_key(r)) \in candidates
    BY <1>1
  <2> QED BY <1>2, <2>1
<1>6. ASSUME NEW c \in candidates
      PROVE  \E b \in rows :
               /\ _canonical_family_key(b) = c.family /\ c.deprecated = b.deprecated
               /\ c.confidence = _identity_confidence(software, b)
               /\ (\E r \in rows : _canonical_family_key(r) = c.family /\ ~r.deprecated) => ~b.deprecated
  <2>1. PICK r \in rows : c = Candidate(_canonical_family_key(r))
    BY <1>1
  <2> DEFINE f == _canonical_family_key(r)
             b == best(f)
  <2>2. c.family = f /\ c.deprecated = b.deprecated /\ c.confidence = _identity_confidence(software, b)
    BY <1>2, <2>1
  <2>3. /\ b \in rows /\ _canonical_family_key(b) = f
        /\ (\E q \in rows : _canonical_family_key(q) = f /\ ~q.deprecated) => ~b.deprecated
    BY <1>4
  <2> HIDE DEF f, b
  <2> QED BY <2>2, <2>3
<1> QED BY <1>5, <1>6 DEF candidates

\* The candidate that is mapped to is ranked, and no other one comes close to it.
LEMMA MappedIsBest ==
  ASSUME NEW software, NEW os, NEW rows, NEW candidate, candidate # None, AmbiguousScoreDifference \in Nat \ {0},
         \A r \in rows : CatalogueRow(r),
         resolve_with_trace(software, os, rows).status = "SUCCESS",
         resolve_with_trace(software, os, rows).candidate = candidate
  PROVE  LET accepted == {r \in rows : Accepted(software, r)}
             candidates == ranked(software, os, _collapse_equivalent_candidates(software, accepted))
         IN  /\ candidate \in candidates
             /\ \A d \in candidates \ {candidate} : ~(candidate.confidence - d.confidence < AmbiguousScoreDifference)
<1> DEFINE accepted == {r \in rows : Accepted(software, r)}
           all == _collapse_equivalent_candidates(software, accepted)
           candidates == ranked(software, os, all)
           Highest(c) == \A d \in candidates : d.confidence <= c.confidence
           best == CHOOSE c \in candidates : Highest(c)
           Unmapped(status) == [status |-> status, candidate |-> None, catalogued |-> FALSE]
           close == \E d \in candidates \ {best} : best.confidence - d.confidence < AmbiguousScoreDifference
           local == _resolve_local(software.mapping) # None
           poor == candidates = {} \/ best.confidence < MinimumConfidence
           known == \E r \in accepted : /\ ~r.deprecated /\ _canonical_family_key(r) = best.family
                                        /\ _catalog_version_matches(version_evidence(software), r)
           traced == resolve_with_trace(software, os, rows)
<1>1. accepted = {r \in rows : _identity_confidence(software, r) # None}
  BY RowConfidence
<1> HIDE DEF accepted
<1>2. traced = IF local THEN Unmapped("SUCCESS")
                 ELSE IF poor THEN Unmapped("NO_RELIABLE_MAPPING")
                 ELSE IF close THEN [status |-> "AMBIGUOUS", candidate |-> best, catalogued |-> FALSE]
                 ELSE [status |-> "SUCCESS", candidate |-> best, catalogued |-> known]
  BY <1>1, Zenon DEF resolve_with_trace
<1>3. candidates # {} /\ ~close /\ candidate = best
  <2> HIDE DEF local, close, known, traced, best, candidates
  <2>1. traced.candidate = candidate /\ traced.status = "SUCCESS"
    BY DEF traced
  <2> HIDE DEF poor
  <2>2. ~local /\ ~poor /\ ~close /\ candidate = best
    BY <1>2, <2>1
  <2> QED BY <2>2 DEF poor
<1>4. candidates \subseteq all
  <2> HIDE DEF all
  <2> QED BY DEF ranked
<1>5. \A c \in candidates : c.confidence \in 85..95
  <2>1. \A r \in accepted : CatalogueRow(r) /\ Accepted(software, r)
    BY DEF accepted
  <2>2. \A c \in all : \E b \in accepted : c.confidence = _identity_confidence(software, b)
    BY <2>1, FamilyStands
  <2> HIDE DEF candidates, all
  <2> QED BY <1>4, <2>1, <2>2, RowConfidence
<1> HIDE DEF candidates
<1>6. \E c \in candidates : Highest(c)
  <2> DEFINE K == {95 - c.confidence : c \in candidates}
  <2>1. K \in SUBSET Nat /\ K # {}
    <3>1. \A c \in candidates : 95 - c.confidence \in Nat
      BY <1>5
    <3> QED BY <1>3, <3>1
  <2>2. PICK k \in K : \A j \in K : ~(j < k)
    <3> HIDE DEF K
    <3> QED BY <2>1, Smallest
  <2>3. PICK c \in candidates : k = 95 - c.confidence
    OBVIOUS
  <2>4. \A d \in candidates : 95 - d.confidence \in K
    OBVIOUS
  <2> HIDE DEF K
  <2>5. Highest(c)
    BY <1>5, <2>2, <2>3, <2>4
  <2> QED BY <2>5
<1>7. best \in candidates
  <2> HIDE DEF Highest
  <2> QED BY <1>6, Zenon
<1> HIDE DEF best
<1> QED BY <1>3, <1>7 DEF candidates, all, accepted

\* Which families are ranked: those of the platform, if there are any.
LEMMA RankedFits ==
  ASSUME NEW software, NEW os, NEW candidates, NEW best \in ranked(software, os, candidates)
  PROVE  /\ best \in candidates /\ ~best.deprecated
         /\ best.family.target_hw \in {"*", software.architecture}
         /\ best.family.target_sw = AnyPlatform \/ platform_matches(best.family.target_sw, os) = TRUE
         /\ \A d \in candidates :
              (/\ ~d.deprecated /\ d.family.target_hw = "*" /\ d.family.target_sw = best.family.target_sw
               /\ d.family.target_sw = AnyPlatform => _is_neutral_family(d))
              => d \in ranked(software, os, candidates)
<1> DEFINE active == {c \in candidates : ~c.deprecated}
           scoped == {c \in active : c.family.target_hw \in {"*"} \cup ({software.architecture} \ {None})}
           platform_match == {c \in scoped : c.family.target_sw # AnyPlatform
                                             /\ platform_matches(c.family.target_sw, os) = TRUE}
           generic == {c \in scoped : c.family.target_sw = AnyPlatform}
           neutral == {c \in generic : _is_neutral_family(c)}
           R == ranked(software, os, candidates)
<1>1. R = IF platform_match # {} THEN platform_match ELSE IF neutral # {} THEN neutral ELSE generic
  BY Zenon DEF ranked
<1>2. best \in R
  OBVIOUS
<1>3. platform_match \subseteq scoped /\ generic \subseteq scoped /\ neutral \subseteq generic
  OBVIOUS
<1> HIDE DEF R
<1>4. best \in scoped /\ (best \in platform_match \/ (platform_match = {} /\ best \in generic))
  <2> HIDE DEF platform_match, generic, neutral, scoped
  <2> QED BY <1>1, <1>2, <1>3
<1>5. best \in candidates /\ ~best.deprecated /\ best.family.target_hw \in {"*", software.architecture}
  BY <1>4
<1>6. best.family.target_sw = AnyPlatform \/ platform_matches(best.family.target_sw, os) = TRUE
  BY <1>4
<1>7. ASSUME NEW d \in candidates, ~d.deprecated, d.family.target_hw = "*",
             d.family.target_sw = best.family.target_sw, d.family.target_sw = AnyPlatform => _is_neutral_family(d)
      PROVE  d \in R
  <2>1. d \in scoped
    BY <1>7
  <2>2. CASE best \in platform_match
    <3>1. d \in platform_match
      BY <1>7, <2>1, <2>2
    <3> HIDE DEF platform_match, neutral, generic
    <3> QED BY <1>1, <3>1
  <2>3. CASE platform_match = {} /\ best \in generic
    <3>1. d \in neutral
      BY <1>7, <2>1, <2>3
    <3> HIDE DEF platform_match, neutral, generic
    <3> QED BY <1>1, <2>3, <3>1
  <2> QED BY <1>4, <2>2, <2>3
<1> QED BY <1>5, <1>6, <1>7 DEF R

\* The family that a product is mapped to is chosen on evidence.
LEMMA MappingFollows ==
  ASSUME Answered PROVE MappingIsEvidenced
<1> SUFFICES ASSUME DecidedOf("cpe"), output.status = "SUCCESS", output.candidate # None
             PROVE  MappingIsEvidenced
  BY Zenon DEF MappingIsEvidenced
<1> DEFINE software == input.software
           os == input.os
           rows == input.rows
           best == output.candidate
           family == best.family
           accepted == {r \in rows : Accepted(software, r)}
           all == _collapse_equivalent_candidates(software, accepted)
           candidates == ranked(software, os, all)
           Fits(r) == /\ ~r.deprecated /\ r.application /\ r.same_product /\ r.vendor >= 45
                      /\ r.edition \in Wildcards \cup software.words
                      /\ IF software.edition_alias = None
                         THEN r.sw_edition \in Wildcards \cup software.words
                         ELSE r.sw_edition = software.edition_alias
                      /\ r.target_hw \in {"*", software.architecture}
                      /\ r.target_sw = AnyPlatform \/ platform_matches(r.target_sw, os) = TRUE
           Sure(r) == /\ Fits(r) /\ r.target_sw = family.target_sw /\ {r.sw_edition, r.edition, r.target_hw} = {"*"}
                      /\ \A s \in rows : _canonical_family_key(s) = _canonical_family_key(r) /\ Fits(s) =>
                           s.vendor = 50 /\ s.same_title
<1>1. /\ input \in Inputs /\ input.kind = "cpe" /\ output = resolve_with_trace(software, os, rows)
  BY DEF Answered, DecidedOf
<1>2. \A r \in rows : CatalogueRow(r)
  BY <1>1, ProductsAssumption DEF CatalogueRow
<1>3. AmbiguousScoreDifference \in Nat \ {0}
  BY ProductsAssumption
<1>4. /\ best \in candidates
      /\ \A d \in candidates \ {best} : ~(best.confidence - d.confidence < AmbiguousScoreDifference)
  <2> DEFINE c == output.candidate
  <2>1. c # None /\ resolve_with_trace(software, os, rows).status = "SUCCESS"
        /\ resolve_with_trace(software, os, rows).candidate = c
    BY <1>1
  <2> HIDE DEF c, software, os, rows
  <2>2. LET accepted2 == {r \in rows : Accepted(software, r)}
            candidates2 == ranked(software, os, _collapse_equivalent_candidates(software, accepted2))
        IN  /\ c \in candidates2
            /\ \A d \in candidates2 \ {c} : ~(c.confidence - d.confidence < AmbiguousScoreDifference)
    BY <1>2, <1>3, <2>1, MappedIsBest
  <2> QED BY <2>2, Zenon DEF c
<1>5. \A r : Fits(r) <=> /\ ~r.deprecated /\ Accepted(software, r) /\ r.target_hw \in {"*", software.architecture}
                         /\ r.target_sw = AnyPlatform \/ platform_matches(r.target_sw, os) = TRUE
  BY Zenon DEF Accepted
<1>6. \A r, s : _canonical_family_key(r) = _canonical_family_key(s) =>
                  r.target_hw = s.target_hw /\ r.target_sw = s.target_sw
  <2> TAKE r, s
  <2>1. _canonical_family_key(r).target_hw = r.target_hw /\ _canonical_family_key(r).target_sw = r.target_sw
    BY DEF _canonical_family_key
  <2>2. _canonical_family_key(s).target_hw = s.target_hw /\ _canonical_family_key(s).target_sw = s.target_sw
    BY DEF _canonical_family_key
  <2> QED BY <2>1, <2>2
<1>7. \A r \in accepted : r \in rows /\ CatalogueRow(r) /\ Accepted(software, r)
  BY <1>2
<1>8. /\ \A r \in accepted : \E c \in all : c.family = _canonical_family_key(r)
      /\ \A c \in all : \E b \in accepted :
           /\ _canonical_family_key(b) = c.family /\ c.deprecated = b.deprecated
           /\ c.confidence = _identity_confidence(software, b)
           /\ (\E r \in accepted : _canonical_family_key(r) = c.family /\ ~r.deprecated) => ~b.deprecated
  <2> HIDE DEF accepted, software
  <2> QED BY <1>7, FamilyStands
<1>9. /\ best \in all /\ ~best.deprecated
      /\ best.family.target_hw \in {"*", software.architecture}
      /\ best.family.target_sw = AnyPlatform \/ platform_matches(best.family.target_sw, os) = TRUE
      /\ \A d \in all :
           (/\ ~d.deprecated /\ d.family.target_hw = "*" /\ d.family.target_sw = best.family.target_sw
            /\ d.family.target_sw = AnyPlatform => _is_neutral_family(d))
           => d \in candidates
  <2> HIDE DEF all, software, os, best
  <2> QED BY <1>4, RankedFits
<1>10. \A r : /\ _canonical_family_key(r).target_hw = r.target_hw /\ _canonical_family_key(r).target_sw = r.target_sw
              /\ _canonical_family_key(r).edition = r.edition /\ _canonical_family_key(r).sw_edition = r.sw_edition
  BY DEF _canonical_family_key
<1>11. \E r \in rows : _canonical_family_key(r) = family /\ Fits(r)
  <2> HIDE DEF all, best, Fits, rows, software, os
  <2>1. PICK b \in accepted : _canonical_family_key(b) = best.family /\ best.deprecated = b.deprecated
    BY <1>8, <1>9
  <2>2. b.target_hw = best.family.target_hw /\ b.target_sw = best.family.target_sw
    BY <1>10, <2>1
  <2>3. b \in rows /\ Accepted(software, b) /\ ~b.deprecated
    BY <1>7, <1>9, <2>1
  <2>4. Fits(b)
    BY <1>5, <1>9, <2>2, <2>3
  <2> QED BY <2>1, <2>3, <2>4
<1>12. ASSUME NEW r \in rows, Sure(r), _canonical_family_key(r) # family PROVE FALSE
  <2> DEFINE f == _canonical_family_key(r)
  <2>1. /\ Fits(r) /\ r.target_sw = best.family.target_sw
        /\ r.sw_edition = "*" /\ r.edition = "*" /\ r.target_hw = "*"
        /\ \A s \in rows : _canonical_family_key(s) = f /\ Fits(s) => s.vendor = 50 /\ s.same_title
    <3>1. \A x, y, z : {x, y, z} = {"*"} => x = "*" /\ y = "*" /\ z = "*"
      OBVIOUS
    <3> HIDE DEF Fits, best, software, os, rows
    <3> QED BY <1>12, <3>1
  <2> HIDE DEF all, candidates, best, Fits, rows, software, os, Sure
  <2>2. ~r.deprecated /\ Accepted(software, r) /\ r \in accepted
    BY <1>5, <2>1
  <2>3. PICK d \in all : d.family = f
    BY <1>8, <2>2
  <2>4. PICK b \in accepted : /\ _canonical_family_key(b) = f /\ d.deprecated = b.deprecated /\ ~b.deprecated
                              /\ d.confidence = _identity_confidence(software, b)
    BY <1>8, <2>2, <2>3
  <2>5. b.target_hw = r.target_hw /\ b.target_sw = r.target_sw
    BY <1>6, <2>4
  <2>6. b \in rows /\ CatalogueRow(b) /\ Accepted(software, b)
    BY <1>7
  <2>7. Fits(b)
    BY <1>5, <1>9, <2>1, <2>4, <2>5, <2>6
  <2>8. b.vendor = 50 /\ b.same_title
    BY <2>1, <2>4, <2>6, <2>7
  <2>9. d.confidence = 95
    BY <2>4, <2>6, <2>8, RowConfidence
  <2>10. f.target_hw = "*" /\ f.target_sw = best.family.target_sw /\ f.edition = "*" /\ f.sw_edition = "*"
    BY <1>10, <2>1
  <2>11. d \in candidates
    <3>1. d.family.target_sw = AnyPlatform => _is_neutral_family(d)
      BY <2>3, <2>10 DEF _is_neutral_family
    <3> HIDE DEF f
    <3> QED BY <1>9, <2>3, <2>4, <2>10, <3>1
  <2>12. d # best
    BY <1>12, <2>3
  <2>13. best.confidence \in 85..95
    <3>1. PICK q \in accepted : best.confidence = _identity_confidence(software, q)
      BY <1>8, <1>9
    <3> QED BY <1>7, <3>1, RowConfidence
  <2>14. ~(best.confidence - d.confidence < AmbiguousScoreDifference)
    BY <1>4, <2>11, <2>12
  <2> QED BY <1>3, <2>9, <2>13, <2>14
<1>13. \A r \in rows : Sure(r) => _canonical_family_key(r) = family
  <2> HIDE DEF Sure, family
  <2> QED BY <1>12
<1> QED BY <1>11, <1>13, Zenon DEF MappingIsEvidenced

\* What is said of a product and a vulnerability is what the evidence says: evidence
\* that arrives later does not turn an answer around, the ranges of the CNA are read
\* in whatever order they are listed, and a family is mapped on evidence.
THEOREM AnswersFollowEvidenceAlways == Spec => []AnswersFollowEvidence
<1>1. Answered => AnswersFollowEvidence
  BY AnswersForced, CnaFollows, MappingFollows DEF AnswersFollowEvidence
<1>2. Spec => []Answered
  BY InitAnswered, NextAnswered, PTL DEF Spec
<1> QED BY <1>1, <1>2, PTL

-----------------------------------------------------------------------------
(* The compliance of a profile *)

\* A function from zero upwards may be defined by the value before each point.
RecursUpwards(f, m, a, g) == f = [n \in 0..m |-> IF n = 0 THEN a ELSE g[n][f[n - 1]]]

LEMMA UpwardRecursion ==
  ASSUME NEW m \in Nat, NEW V, NEW a \in V, NEW g, \A n \in 1..m, v \in V : g[n][v] \in V
  PROVE  \E f \in [0..m -> V] : RecursUpwards(f, m, a, g)
<1> DEFINE Solves(f, k) == f[0] = a /\ \A n \in 1..k : f[n] = g[n][f[n - 1]]
           K == {k \in Nat : \E f \in [0..k -> V] : Solves(f, k)}
<1>1. 0 \in K
  <2>1. [n \in 0..0 |-> a] \in [0..0 -> V] /\ Solves([n \in 0..0 |-> a], 0)
    OBVIOUS
  <2> QED BY <2>1
<1>2. ASSUME NEW k \in 0..m, k \in K, k < m PROVE k + 1 \in K
  <2>1. PICK f \in [0..k -> V] : Solves(f, k)
    BY <1>2
  <2> DEFINE h == [n \in 0..(k + 1) |-> IF n = k + 1 THEN g[k + 1][f[k]] ELSE f[n]]
  <2>2. g[k + 1][f[k]] \in V
    BY <1>2, <2>1
  <2>3. h \in [0..(k + 1) -> V] /\ h[k + 1] = g[k + 1][f[k]] /\ \A n \in 0..k : h[n] = f[n]
    BY <1>2, <2>1, <2>2
  <2>4. ASSUME NEW n \in 1..(k + 1) PROVE h[n] = g[n][h[n - 1]]
    <3>1. CASE n = k + 1
      <4>1. n - 1 = k /\ k \in 0..k
        BY <3>1
      <4> HIDE DEF h
      <4> QED BY <2>3, <3>1, <4>1
    <3>2. CASE n # k + 1
      <4>1. n \in 1..k /\ n \in 0..k /\ n - 1 \in 0..k
        BY <3>2
      <4> HIDE DEF h
      <4> QED BY <2>1, <2>3, <4>1
    <3> QED BY <3>1, <3>2
  <2>5. Solves(h, k + 1)
    <3>1. 0 \in 0..k
      BY <1>2
    <3> HIDE DEF h
    <3> QED BY <2>1, <2>3, <2>4, <3>1
  <2> HIDE DEF h, Solves
  <2> QED BY <2>3, <2>5
<1>3. \A n \in 0..m : n \in K
  <2> HIDE DEF K
  <2> QED BY <1>1, <1>2, Climb
<1>4. PICK f \in [0..m -> V] : Solves(f, m)
  BY <1>3
<1>5. ASSUME NEW n \in 0..m PROVE f[n] = IF n = 0 THEN a ELSE g[n][f[n - 1]]
  <2>1. n = 0 \/ n \in 1..m
    OBVIOUS
  <2> QED BY <1>4, <2>1
<1> QED BY <1>4, <1>5 DEF RecursUpwards

\* A total is the sum of its numbers, one after the other.
LEMMA TotalAdds ==
  ASSUME NEW s \in Seq(Nat)
  PROVE  \E f \in [0..Len(s) -> Nat] :
           f[0] = 0 /\ (\A n \in 1..Len(s) : f[n] = f[n - 1] + s[n]) /\ Total(s) = f[Len(s)]
<1> DEFINE m == Len(s)
           g == [n \in 1..m |-> [v \in Nat |-> v + s[n]]]
           P(f) == f = [n \in 0..m |-> IF n = 0 THEN 0 ELSE f[n - 1] + s[n]]
           S == CHOOSE f : P(f)
<1>1. m \in Nat /\ \A n \in 1..m, v \in Nat : g[n][v] \in Nat /\ g[n][v] = v + s[n]
  OBVIOUS
<1>2. PICK f \in [0..m -> Nat] : RecursUpwards(f, m, 0, g)
  <2> HIDE DEF g, m
  <2> QED BY <1>1, UpwardRecursion
<1>3. ASSUME NEW n \in 0..m PROVE f[n] = IF n = 0 THEN 0 ELSE f[n - 1] + s[n]
  <2>1. n # 0 => n \in 1..m /\ f[n - 1] \in Nat
    <3>1. n # 0 => n \in 1..m /\ n - 1 \in 0..m
      OBVIOUS
    <3> HIDE DEF m
    <3> QED BY <1>2, <3>1
  <2>2. f[n] = IF n = 0 THEN 0 ELSE g[n][f[n - 1]]
    BY <1>2 DEF RecursUpwards
  <2> HIDE DEF g, m
  <2> QED BY <1>1, <2>1, <2>2
<1>4. P(f)
  <2> HIDE DEF m
  <2> QED BY <1>2, <1>3
<1>5. P(S)
  <2> HIDE DEF P
  <2> QED BY <1>4, Zenon
<1>6. Total(s) = S[m]
  BY Zenon DEF Total
<1> HIDE DEF S, m
<1>7. \A n \in 0..m : S[n] = f[n]
  <2> DEFINE K == {n \in 0..m : S[n] = f[n]}
  <2>1. 0 \in K
    BY <1>1, <1>3, <1>5
  <2>2. ASSUME NEW n \in 0..m, n \in K, n < m PROVE n + 1 \in K
    <3>1. n + 1 \in 0..m /\ n + 1 # 0 /\ (n + 1) - 1 = n
      BY <1>1, <2>2
    <3>2. S[n + 1] = S[n] + s[n + 1]
      BY <1>5, <3>1
    <3>3. f[n + 1] = f[n] + s[n + 1]
      BY <1>3, <3>1
    <3> QED BY <2>2, <3>1, <3>2, <3>3
  <2>3. \A n \in 0..m : n \in K
    <3> HIDE DEF K
    <3> QED BY <1>1, <2>1, <2>2, Climb
  <2> QED BY <2>3
<1>8. f[0] = 0 /\ \A n \in 1..m : f[n] = f[n - 1] + s[n]
  BY <1>1, <1>3
<1>9. S[m] = f[m]
  BY <1>1, <1>7
<1> QED BY <1>2, <1>6, <1>8, <1>9 DEF m

\* Larger numbers make a larger total.
LEMMA TotalGrows ==
  ASSUME NEW s \in Seq(Nat), NEW t \in Seq(Nat), Len(s) = Len(t), \A n \in 1..Len(s) : s[n] <= t[n]
  PROVE  Total(s) \in Nat /\ Total(t) \in Nat /\ Total(s) <= Total(t)
<1>1. PICK f \in [0..Len(s) -> Nat] :
        f[0] = 0 /\ (\A n \in 1..Len(s) : f[n] = f[n - 1] + s[n]) /\ Total(s) = f[Len(s)]
  BY TotalAdds
<1>2. PICK h \in [0..Len(t) -> Nat] :
        h[0] = 0 /\ (\A n \in 1..Len(t) : h[n] = h[n - 1] + t[n]) /\ Total(t) = h[Len(t)]
  BY TotalAdds
<1> DEFINE K == {n \in 0..Len(s) : f[n] <= h[n]}
<1>3. 0 \in K
  BY <1>1, <1>2
<1>4. ASSUME NEW n \in 0..Len(s), n \in K, n < Len(s) PROVE n + 1 \in K
  <2>1. n + 1 \in 1..Len(s) /\ n + 1 \in 0..Len(s) /\ (n + 1) - 1 = n
    BY <1>4
  <2>2. f[n + 1] = f[n] + s[n + 1] /\ h[n + 1] = h[n] + t[n + 1]
    BY <1>1, <1>2, <2>1
  <2>3. s[n + 1] \in Nat /\ t[n + 1] \in Nat /\ s[n + 1] <= t[n + 1]
    BY <2>1
  <2>4. f[n] \in Nat /\ h[n] \in Nat /\ f[n] <= h[n]
    BY <1>1, <1>2, <1>4
  <2>5. f[n] + s[n + 1] <= h[n] + t[n + 1]
    <3>1. \A a, b, c, d \in Nat : a <= c /\ b <= d => a + b <= c + d
      OBVIOUS
    <3> QED BY <2>3, <2>4, <3>1, Zenon
  <2> QED BY <2>1, <2>2, <2>5, Zenon
<1>5. \A n \in 0..Len(s) : n \in K
  <2>1. Len(s) \in Nat
    OBVIOUS
  <2> HIDE DEF K
  <2> QED BY <1>3, <1>4, <2>1, Climb
<1> QED BY <1>1, <1>2, <1>5

\* What is rounded keeps its order.
LEMMA RoundedGrows ==
  ASSUME NEW a \in Nat, NEW b \in Nat, NEW d \in Nat, d > 0, a <= b
  PROVE  Rounded(a, d) \in Nat /\ Rounded(a, d) <= Rounded(b, d)
<1> DEFINE p == a \div d
           q == b \div d
           r == a % d
           t == b % d
<1>1. p \in Nat /\ r \in 0..(d - 1) /\ a = d * p + r
  OBVIOUS
<1>2. q \in Nat /\ t \in 0..(d - 1) /\ b = d * q + t
  OBVIOUS
<1>3. /\ Rounded(a, d) = IF 2 * r > d \/ (2 * r = d /\ p % 2 = 1) THEN p + 1 ELSE p
      /\ Rounded(b, d) = IF 2 * t > d \/ (2 * t = d /\ q % 2 = 1) THEN q + 1 ELSE q
  BY DEF Rounded
<1> HIDE DEF p, q, r, t
<1>4. p <= q
  <2> SUFFICES ASSUME q + 1 <= p PROVE FALSE
    BY <1>1, <1>2
  <2>1. d * (q + 1) <= d * p
    BY <1>1, <1>2
  <2>2. d * (q + 1) = d * q + d
    BY <1>2
  <2> QED BY <1>1, <1>2, <2>1, <2>2
<1>5. CASE p < q
  BY <1>1, <1>2, <1>3, <1>5
<1>6. CASE p = q
  <2>1. r <= t
    BY <1>1, <1>2, <1>6
  <2> QED BY <1>1, <1>2, <1>3, <1>6, <2>1
<1> QED BY <1>1, <1>2, <1>4, <1>5, <1>6

\* The profiles that name a framework.
Naming(profiles, id) == {n \in DOMAIN profiles : profiles[n].framework = id}

\* What the profiles up to place n have merged to: nothing, if none of them names the
\* framework; otherwise each part of it is that of a profile that names it, and of the
\* last of them if that one says anything.
MergeOf(p, n, profiles, id, P) ==
  LET naming == {k \in Naming(profiles, id) : k <= n}
      last == {k \in naming : \A j \in naming : j <= k}
  IN  /\ p = None <=> naming = {}
      /\ p # None =>
           /\ p \in P
           /\ p.enabled = {} \/ \E k \in naming : p.enabled = profiles[k].enabled
           /\ p.excluded = {} \/ \E k \in naming : p.excluded = profiles[k].excluded
           /\ p.group = None \/ \E k \in naming : p.group = profiles[k].group
           /\ \A k \in last :
                /\ profiles[k].enabled # {} => p.enabled = profiles[k].enabled
                /\ profiles[k].excluded # {} => p.excluded = profiles[k].excluded
                /\ profiles[k].group # None => p.group = profiles[k].group

ProfileRecords == [framework : STRING, enabled : SUBSET STRING, excluded : SUBSET STRING, group : STRING \cup {None}]

LEMMA MergedProfile ==
  ASSUME NEW profiles \in Seq(ProfileRecords), None \notin ProfileRecords, NEW id
  PROVE  MergeOf(_effective_profile(profiles, id), Len(profiles), profiles, id, ProfileRecords)
<1> DEFINE m == Len(profiles)
           P == ProfileRecords
           V == P \cup {None}
           g == [n \in 1..m |-> [v \in V |-> IF profiles[n].framework # id THEN v
                                             ELSE IF v = None THEN profiles[n] ELSE _merge_profiles(v, profiles[n])]]
           C(f) == f = [n \in 0..m |-> IF n = 0 THEN None
                                       ELSE IF profiles[n].framework # id THEN f[n - 1]
                                       ELSE IF f[n - 1] = None THEN profiles[n]
                                       ELSE _merge_profiles(f[n - 1], profiles[n])]
           S == CHOOSE f : C(f)
<1>1. m \in Nat /\ DOMAIN profiles = 1..m /\ \A n \in 1..m : profiles[n] \in P
  OBVIOUS
<1>2. ASSUME NEW v \in P, NEW w \in P
      PROVE  LET p == _merge_profiles(v, w)
             IN  /\ p \in P
                 /\ p.enabled = IF w.enabled # {} THEN w.enabled ELSE v.enabled
                 /\ p.excluded = IF w.excluded # {} THEN w.excluded ELSE v.excluded
                 /\ p.group = IF w.group # None THEN w.group ELSE v.group
  BY DEF _merge_profiles, ProfileRecords
<1> HIDE DEF P, m
<1>3. \A n \in 1..m, v \in V : g[n][v] \in V
  BY <1>1, <1>2
<1>4. PICK f \in [0..m -> V] : RecursUpwards(f, m, None, g)
  <2> HIDE DEF g
  <2> QED BY <1>1, <1>3, UpwardRecursion
<1>5. ASSUME NEW n \in 1..m
      PROVE  f[n - 1] \in V /\ f[n] = g[n][f[n - 1]]
  <2>1. n \in 0..m /\ n - 1 \in 0..m /\ n # 0
    BY <1>1
  <2> HIDE DEF g, V
  <2> QED BY <1>4, <2>1 DEF RecursUpwards
<1>6. f[0] = None
  <2>1. 0 \in 0..m
    BY <1>1
  <2> HIDE DEF g, V
  <2> QED BY <1>4, <2>1 DEF RecursUpwards
<1>7. ASSUME NEW n \in 1..m
      PROVE  f[n] = IF profiles[n].framework # id THEN f[n - 1]
                    ELSE IF f[n - 1] = None THEN profiles[n] ELSE _merge_profiles(f[n - 1], profiles[n])
  <2> HIDE DEF V
  <2> QED BY <1>5
<1>8. C(f)
  <2>1. \A n \in 0..m : n = 0 \/ n \in 1..m
    BY <1>1
  <2> HIDE DEF V, g
  <2> QED BY <1>4, <1>6, <1>7, <2>1
<1>9. C(S)
  <2> HIDE DEF C
  <2> QED BY <1>8, Zenon
<1>10. _effective_profile(profiles, id) = S[m]
  BY Zenon DEF _effective_profile, m
<1> HIDE DEF S, g
<1>11. S[0] = None /\ \A n \in 1..m : S[n] = IF profiles[n].framework # id THEN S[n - 1]
                    ELSE IF S[n - 1] = None THEN profiles[n] ELSE _merge_profiles(S[n - 1], profiles[n])
  <2>1. \A n \in 1..m : n \in 0..m /\ n # 0
    BY <1>1
  <2>2. 0 \in 0..m
    BY <1>1
  <2> QED BY <1>9, <2>1, <2>2
<1> DEFINE K == {n \in 0..m : MergeOf(S[n], n, profiles, id, P)}
<1>12. 0 \in K
  <2>1. {k \in Naming(profiles, id) : k <= 0} = {}
    BY <1>1 DEF Naming
  <2> QED BY <1>1, <1>11, <2>1 DEF MergeOf
<1>13. ASSUME NEW n \in 0..m, n \in K, n < m PROVE n + 1 \in K
  <2> DEFINE w == profiles[n + 1]
             v == S[n]
             p == S[n + 1]
             prior == {k \in Naming(profiles, id) : k <= n}
             naming == {k \in Naming(profiles, id) : k <= n + 1}
  <2>1. n + 1 \in 1..m /\ n + 1 \in 0..m /\ (n + 1) - 1 = n /\ w \in P
    BY <1>1, <1>13
  <2>2. p = IF w.framework # id THEN v ELSE IF v = None THEN w ELSE _merge_profiles(v, w)
    BY <1>11, <2>1
  <2>3. MergeOf(v, n, profiles, id, P)
    BY <1>13
  <2>4. \A k \in Naming(profiles, id) : k \in 1..m /\ k \in Nat
    BY <1>1 DEF Naming
  <2>5. MergeOf(p, n + 1, profiles, id, P)
    <3>1. CASE w.framework # id
      <4>1. n + 1 \notin Naming(profiles, id)
        BY <3>1 DEF Naming
      <4>2. naming = prior
        BY <1>13, <2>4, <4>1
      <4>3. p = v
        BY <2>2, <3>1
      <4> HIDE DEF w, v, p
      <4> QED BY <2>3, <4>2, <4>3, Zenon DEF MergeOf
    <3>2. CASE w.framework = id
      <4>1. n + 1 \in Naming(profiles, id)
        BY <1>1, <2>1, <3>2 DEF Naming
      <4>2. naming = prior \cup {n + 1}
        BY <1>13, <2>4, <4>1
      <4>3. ASSUME NEW k \in naming, \A j \in naming : j <= k PROVE k = n + 1
        <5>1. n + 1 <= k /\ k <= n + 1 /\ k \in Nat
          BY <2>4, <4>2, <4>3
        <5> QED BY <1>13, <5>1
      <4>4. CASE v = None
        <5>1. p = w /\ prior = {}
          BY <2>2, <2>3, <3>2, <4>4 DEF MergeOf
        <5>2. w # None
          BY <2>1 DEF P
        <5> HIDE DEF p, v
        <5> QED BY <2>1, <4>2, <4>3, <5>1, <5>2 DEF MergeOf
      <4>5. CASE v # None
        <5>1. p = _merge_profiles(v, w) /\ v \in P
          BY <2>2, <2>3, <3>2, <4>5 DEF MergeOf
        <5>2. /\ p \in P
              /\ p.enabled = IF w.enabled # {} THEN w.enabled ELSE v.enabled
              /\ p.excluded = IF w.excluded # {} THEN w.excluded ELSE v.excluded
              /\ p.group = IF w.group # None THEN w.group ELSE v.group
          BY <1>2, <2>1, <5>1
        <5>3. p # None
          BY <5>2 DEF P
        <5>4. /\ v.enabled = {} \/ \E k \in prior : v.enabled = profiles[k].enabled
              /\ v.excluded = {} \/ \E k \in prior : v.excluded = profiles[k].excluded
              /\ v.group = None \/ \E k \in prior : v.group = profiles[k].group
          BY <2>3, <4>5 DEF MergeOf
        <5> HIDE DEF p, v
        <5>5. /\ p.enabled = {} \/ \E k \in naming : p.enabled = profiles[k].enabled
              /\ p.excluded = {} \/ \E k \in naming : p.excluded = profiles[k].excluded
              /\ p.group = None \/ \E k \in naming : p.group = profiles[k].group
          BY <4>2, <5>2, <5>4
        <5>6. \A k \in {k \in naming : \A j \in naming : j <= k} :
                /\ profiles[k].enabled # {} => p.enabled = profiles[k].enabled
                /\ profiles[k].excluded # {} => p.excluded = profiles[k].excluded
                /\ profiles[k].group # None => p.group = profiles[k].group
          BY <4>3, <5>2
        <5>7. naming # {}
          BY <4>2
        <5> HIDE DEF w
        <5> QED BY <5>2, <5>3, <5>5, <5>6, <5>7, Zenon DEF MergeOf
      <4> QED BY <4>4, <4>5
    <3> QED BY <3>1, <3>2
  <2> QED BY <2>1, <2>5
<1>14. \A n \in 0..m : n \in K
  <2> HIDE DEF K
  <2> QED BY <1>1, <1>12, <1>13, Climb
<1>15. MergeOf(S[m], m, profiles, id, P)
  BY <1>1, <1>14
<1> QED BY <1>10, <1>15 DEF m, P

\* Which frameworks are selected, and who is in scope under a merged profile.
LEMMA ScopeMerges ==
  ASSUME NEW profiles \in Seq(ProfileRecords), None \notin ProfileRecords, NEW id
  PROVE  LET p == _effective_profile(profiles, id)
             naming == Naming(profiles, id)
         IN  /\ p # None <=> naming # {}
             /\ naming # {} => \A c :
                  /\ (\A n \in naming : _is_applicable(c, profiles[n])) => _is_applicable(c, p)
                  /\ _is_applicable(c, p) =>
                       \A n \in naming : (\A k \in naming : k <= n) => _is_applicable(c, profiles[n])
<1> DEFINE p == _effective_profile(profiles, id)
           naming == Naming(profiles, id)
<1>1. MergeOf(p, Len(profiles), profiles, id, ProfileRecords)
  BY MergedProfile
<1> HIDE DEF p
<1>2. {k \in naming : k <= Len(profiles)} = naming
  BY DEF Naming
<1>3. p # None <=> naming # {}
  BY <1>1, <1>2 DEF MergeOf
<1>4. ASSUME naming # {}
      PROVE  /\ p.enabled = {} \/ \E k \in naming : p.enabled = profiles[k].enabled
             /\ p.excluded = {} \/ \E k \in naming : p.excluded = profiles[k].excluded
             /\ p.group = None \/ \E k \in naming : p.group = profiles[k].group
             /\ \A k \in naming : (\A j \in naming : j <= k) =>
                  /\ profiles[k].enabled # {} => p.enabled = profiles[k].enabled
                  /\ profiles[k].excluded # {} => p.excluded = profiles[k].excluded
                  /\ profiles[k].group # None => p.group = profiles[k].group
  <2> DEFINE upto == {k \in naming : k <= Len(profiles)}
             last == {k \in upto : \A j \in upto : j <= k}
  <2>1. upto = naming
    BY <1>2
  <2>2. /\ p.enabled = {} \/ \E k \in upto : p.enabled = profiles[k].enabled
        /\ p.excluded = {} \/ \E k \in upto : p.excluded = profiles[k].excluded
        /\ p.group = None \/ \E k \in upto : p.group = profiles[k].group
        /\ \A k \in last :
             /\ profiles[k].enabled # {} => p.enabled = profiles[k].enabled
             /\ profiles[k].excluded # {} => p.excluded = profiles[k].excluded
             /\ profiles[k].group # None => p.group = profiles[k].group
    BY <1>1, <1>3, <1>4, Zenon DEF MergeOf
  <2>3. last = {k \in naming : \A j \in naming : j <= k}
    BY <2>1
  <2> HIDE DEF upto, last, naming
  <2> QED BY <2>1, <2>2, <2>3
<1> HIDE DEF naming
<1>5. ASSUME naming # {}, NEW c, \A n \in naming : _is_applicable(c, profiles[n])
      PROVE  _is_applicable(c, p)
  BY <1>4, <1>5 DEF _is_applicable
<1>6. ASSUME naming # {}, NEW c, _is_applicable(c, p), NEW n \in naming, \A k \in naming : k <= n
      PROVE  _is_applicable(c, profiles[n])
  BY <1>4, <1>6 DEF _is_applicable
<1> QED BY <1>3, <1>5, <1>6 DEF p, naming

-----------------------------------------------------------------------------
(* The evidence of a control *)

Results == {"SUPPORTS", "CONTRADICTS", "MISSING", "INCONCLUSIVE"}

\* What a mapping of a rule to a control is, and which are loaded.
Maps(m, control, rule) == m.framework = control.framework /\ m.rule = rule /\ control.id \in m.controls
Relationships == {"SUPPORTS", "PARTIAL", "CONTEXT_ONLY", "CONTRADICTS"}
Loaded(mappings) ==
  /\ mappings \in Seq(ToSet(mappings)) /\ None \notin ToSet(mappings)
  /\ \A m \in ToSet(mappings) : m.validated \in BOOLEAN /\ m.confidence \in 0..100 /\ m.relationship \in Relationships

\* The members of a list are its places' values.
LEMMA Listed ==
  ASSUME NEW list, NEW x
  PROVE  x \in ToSet(list) <=> \E n \in DOMAIN list : x = list[n]
BY DEF ToSet

\* A cost that orders mappings as their selection does: a validated one costs less than any
\* other, and among equals the more confident one does.
Validated(level) == 100 - level
Unvalidated(level) == 201 - level
Cost(m) == IF m.validated THEN Validated(m.confidence) ELSE Unvalidated(m.confidence)

\* What the two costs are and how they compare, for any two levels of confidence.
LEMMA Costs ==
  ASSUME NEW x \in 0..100, NEW y \in 0..100
  PROVE  /\ Validated(x) \in Nat /\ Unvalidated(x) \in Nat /\ Validated(x) < Unvalidated(y)
         /\ x > y => Validated(x) < Validated(y) /\ Unvalidated(x) < Unvalidated(y)
BY DEF Validated, Unvalidated

\* Every mapping's cost is a natural number.
LEMMA CostIsNatural ==
  ASSUME NEW m, m.confidence \in 0..100
  PROVE  Cost(m) \in Nat
<1>1. Cost(m) = Validated(m.confidence) \/ Cost(m) = Unvalidated(m.confidence)
  BY Zenon DEF Cost
<1> QED BY <1>1, Costs, Zenon

\* The mapping that is preferred costs less.
LEMMA BetterIsCheaper ==
  ASSUME NEW a, a.confidence \in 0..100, NEW b, b.confidence \in 0..100
  PROVE  (\/ a.validated /\ ~b.validated
          \/ a.validated = b.validated /\ a.confidence > b.confidence) => Cost(a) < Cost(b)
<1> DEFINE x == a.confidence
           y == b.confidence
<1>1. Validated(x) < Unvalidated(y)
  BY Costs, Zenon
<1>2. x > y => Validated(x) < Validated(y) /\ Unvalidated(x) < Unvalidated(y)
  BY Costs, Zenon
<1>3. ASSUME a.validated /\ ~b.validated PROVE Cost(a) < Cost(b)
  <2>1. Cost(a) = Validated(x) /\ Cost(b) = Unvalidated(y)
    BY <1>3, Zenon DEF Cost
  <2> QED BY <1>1, <2>1, Zenon
<1>4. ASSUME (a.validated = b.validated /\ a.confidence > b.confidence) /\ a.validated PROVE Cost(a) < Cost(b)
  <2>1. b.validated
    BY <1>4, Zenon
  <2>2. Cost(a) = Validated(x) /\ Cost(b) = Validated(y)
    BY <1>4, <2>1, Zenon DEF Cost
  <2> QED BY <1>2, <1>4, <2>2, Zenon
<1>5. ASSUME (a.validated = b.validated /\ a.confidence > b.confidence) /\ ~a.validated PROVE Cost(a) < Cost(b)
  <2>1. ~b.validated
    BY <1>5, Zenon
  <2>2. Cost(a) = Unvalidated(x) /\ Cost(b) = Unvalidated(y)
    BY <1>5, <2>1, Zenon DEF Cost
  <2> QED BY <1>2, <1>5, <2>2, Zenon
<1> QED BY <1>3, <1>4, <1>5, Zenon

\* The mapping that is selected is one of the rule to the control, and no other one that
\* was validated is more confident.
LEMMA MappingSelected ==
  ASSUME NEW mappings, Loaded(mappings), NEW control, NEW rule
  PROVE  LET m == _select_mapping(mappings, control, rule)
         IN  /\ m # None => m \in ToSet(mappings) /\ Maps(m, control, rule)
             /\ \A v \in ToSet(mappings) : Maps(v, control, rule) /\ v.validated =>
                  m # None /\ m.validated /\ v.confidence <= m.confidence
<1> DEFINE m == _select_mapping(mappings, control, rule)
           matches == {i \in DOMAIN mappings : /\ mappings[i].framework = control.framework
                                               /\ mappings[i].rule = rule /\ control.id \in mappings[i].controls}
           Better(a, b) == \/ a.validated /\ ~b.validated
                           \/ a.validated = b.validated /\ a.confidence > b.confidence
           best == {i \in matches : \A j \in matches : ~Better(mappings[j], mappings[i])}
           cost(i) == Cost(mappings[i])
           costs == {cost(i) : i \in matches}
<1>1. DOMAIN mappings \subseteq Nat
  BY DEF Loaded
<1>2. \A i \in DOMAIN mappings : mappings[i] \in ToSet(mappings)
  BY Listed
<1>3. \A i \in DOMAIN mappings : /\ mappings[i].validated \in BOOLEAN /\ mappings[i].confidence \in 0..100
                                 /\ mappings[i] # None
  BY <1>2 DEF Loaded
<1>4. m = IF matches = {} THEN None ELSE mappings[earliest(best)]
  BY Zenon DEF _select_mapping
<1>5. \A i \in matches : cost(i) \in Nat
  <2> SUFFICES ASSUME NEW i \in matches PROVE Cost(mappings[i]) \in Nat
    OBVIOUS
  <2>1. mappings[i].validated \in BOOLEAN /\ mappings[i].confidence \in 0..100
    BY <1>3
  <2> HIDE DEF matches, best, costs, cost, m, Better
  <2> QED BY <2>1, CostIsNatural
<1>6. \A i, j \in matches : Better(mappings[j], mappings[i]) => cost(j) < cost(i)
  <2> SUFFICES ASSUME NEW i \in matches, NEW j \in matches, Better(mappings[j], mappings[i])
               PROVE  Cost(mappings[j]) < Cost(mappings[i])
    OBVIOUS
  <2>1. /\ mappings[i].validated \in BOOLEAN /\ mappings[i].confidence \in 0..100
        /\ mappings[j].validated \in BOOLEAN /\ mappings[j].confidence \in 0..100
    BY <1>3
  <2>2. \/ mappings[j].validated /\ ~mappings[i].validated
        \/ mappings[j].validated = mappings[i].validated /\ mappings[j].confidence > mappings[i].confidence
    OBVIOUS
  <2> HIDE DEF matches, best, costs, cost, m, Better
  <2> QED BY <2>1, <2>2, BetterIsCheaper
<1> HIDE DEF m, cost
<1>7. matches # {} => best # {}
  <2> SUFFICES ASSUME matches # {} PROVE best # {}
    OBVIOUS
  <2>1. costs \in SUBSET Nat /\ costs # {}
    BY <1>5
  <2>2. PICK c \in costs : \A d \in costs : ~(d < c)
    <3> HIDE DEF costs
    <3> QED BY <2>1, Smallest
  <2>3. PICK i \in matches : c = cost(i)
    OBVIOUS
  <2>4. \A j \in matches : cost(j) \in costs
    OBVIOUS
  <2>5. \A j \in matches : ~Better(mappings[j], mappings[i])
    <3> HIDE DEF matches, Better, costs
    <3> QED BY <1>6, <2>2, <2>3, <2>4
  <2> QED BY <2>5
<1>8. matches # {} => earliest(best) \in best
  <2>1. best \in SUBSET Nat
    BY <1>1
  <2> HIDE DEF best, matches
  <2> QED BY <1>7, <2>1, EarliestIn
<1>9. ASSUME m # None PROVE m \in ToSet(mappings) /\ Maps(m, control, rule)
  <2>1. matches # {} /\ m = mappings[earliest(best)]
    BY <1>4, <1>9
  <2>2. earliest(best) \in matches
    BY <1>8, <2>1
  <2> HIDE DEF best
  <2> QED BY <1>2, <2>1, <2>2 DEF Maps
<1>10. ASSUME NEW v \in ToSet(mappings), Maps(v, control, rule), v.validated
       PROVE  m # None /\ m.validated /\ v.confidence <= m.confidence
  <2>1. PICK j \in matches : v = mappings[j]
    BY <1>10, Listed DEF Maps
  <2>2. earliest(best) \in matches /\ ~Better(mappings[j], mappings[earliest(best)])
    <3>1. earliest(best) \in best
      <4> HIDE DEF best, matches
      <4> QED BY <1>8, <2>1
    <3> QED BY <2>1, <3>1, Zenon
  <2>3. m = mappings[earliest(best)]
    <3> HIDE DEF best, matches
    <3> QED BY <1>4, <2>1
  <2>4. /\ m.validated \in BOOLEAN /\ m.confidence \in 0..100 /\ m # None
        /\ v.validated \in BOOLEAN /\ v.confidence \in 0..100
    <3>1. j \in DOMAIN mappings /\ earliest(best) \in DOMAIN mappings
      BY <2>1, <2>2
    <3> HIDE DEF best, matches, Better
    <3> QED BY <1>3, <2>1, <2>3, <3>1
  <2>5. ~Better(v, m)
    <3> HIDE DEF best, matches, Better
    <3> QED BY <2>1, <2>2, <2>3
  <2> HIDE DEF best, matches
  <2>6. m.validated
    BY <1>10, <2>4, <2>5, Zenon
  <2>7. ~(v.confidence > m.confidence)
    BY <1>10, <2>5, <2>6, Zenon
  <2>8. v.confidence <= m.confidence
    <3>1. v.confidence \in 0..100 /\ m.confidence \in 0..100
      BY <2>4, Zenon
    <3>2. \A x, y \in 0..100 : ~(x > y) => x <= y
      OBVIOUS
    <3> QED BY <2>7, <3>1, <3>2, Zenon
  <2> QED BY <2>4, <2>6, <2>8, Zenon
<1> QED BY <1>9, <1>10 DEF m

\* What an extractor finds of a requirement.
LEMMA ExtractedTyped ==
  ASSUME NEW q, NEW e
  PROVE  \E result \in Results \cup {"RAISES"}, n \in 0..100 : extracted(q, e) = evidence_record(q, result, n)
<1>1. \E result \in Results, n \in 0..100 : finding_evidence(q, e.findings) = evidence_record(q, result, n)
  <2> DEFINE found == finding_evidence(q, e.findings)
             of_rule == {i \in DOMAIN e.findings : e.findings[i].rule = q.reference}
             f == e.findings[earliest(of_rule)]
             nothing == 0
             little == 40
             some == 75
             much == 90
             most == 95
  <2>1. found =
          IF of_rule = {} THEN evidence_record(q, "MISSING", nothing)
          ELSE IF f.status \in {"NOT_EVALUATED", "NOT_APPLICABLE"} THEN evidence_record(q, "MISSING", nothing)
          ELSE IF f.status \in {"ERROR", "PARTIAL", "INFO", "WARNING"} THEN evidence_record(q, "INCONCLUSIVE", nothing)
          ELSE IF q.operator = "STATUS_IS"
          THEN evidence_record(q, IF f.status = q.expected THEN "SUPPORTS" ELSE "CONTRADICTS", most)
          ELSE IF q.operator = "SEVERITY_AT_LEAST"
          THEN IF Rank(f.severity) >= Rank(q.expected)
               THEN evidence_record(q, "CONTRADICTS", much) ELSE evidence_record(q, "SUPPORTS", some)
          ELSE evidence_record(q, "INCONCLUSIVE", little)
    BY Zenon DEF finding_evidence
  <2>2. nothing \in 0..100 /\ little \in 0..100 /\ some \in 0..100 /\ much \in 0..100 /\ most \in 0..100
    OBVIOUS
  <2> DEFINE levels == 0..100
  <2>3. \E result \in Results, n \in levels : found = evidence_record(q, result, n)
    <3>1. nothing \in levels /\ little \in levels /\ some \in levels /\ much \in levels /\ most \in levels
      BY <2>2
    <3>2. f.status = q.expected \/ f.status # q.expected
      OBVIOUS
    <3> HIDE DEF found, of_rule, f, nothing, little, some, much, most, levels
    <3> QED BY <2>1, <3>1, <3>2, Zenon DEF Results
  <2> QED BY <2>3
<1>2. \A op, actual, expected : _evaluate(op, actual, expected) \in Results \cup {"RAISES"}
  BY DEF _evaluate, Results
<1>3. \E result \in Results \cup {"RAISES"}, n \in 0..100 : field_evidence(q, e.fields) = evidence_record(q, result, n)
  <2> DEFINE F == e.fields
             value == CHOOSE v \in F[q.reference] : TRUE
  <2>1. field_evidence(q, F) =
          IF q.reference \notin DOMAIN F THEN evidence_record(q, "INCONCLUSIVE", 0)
          ELSE IF F[q.reference] = {}
          THEN evidence_record(q, IF q.operator = "NOT_EXISTS" THEN "SUPPORTS" ELSE "MISSING", 0)
          ELSE evidence_record(q, _evaluate(q.operator, value, q.expected), 85)
    BY Zenon DEF field_evidence
  <2>2. 0 \in 0..100 /\ 85 \in 0..100
    OBVIOUS
  <2> HIDE DEF F, value
  <2> QED BY <1>2, <2>1, <2>2 DEF Results, F
<1> QED BY <1>1, <1>3 DEF extracted

\* A control is compliant when there is mandatory evidence, all of the evidence supports it,
\* the mandatory evidence firmly, and nothing about it is partial.
Mandatory(E) == {r \in ToSet(E) : \E q \in ToSet(E) : q.id = r.id /\ q.mandatory}
Supported(control, E) ==
  /\ Mandatory(E) # {}
  /\ \A r \in ToSet(E) :
       r.result = "SUPPORTS" /\ r.validated # FALSE /\ r.relationship \notin {"PARTIAL", "CONTEXT_ONLY"}
  /\ \A r \in Mandatory(E) : r.confidence >= minimum_confidence
  /\ ~("ORGANISATION" \in control.scope /\ Cardinality(control.scope) > 1)

ControlVerdicts == {"NON_COMPLIANT", "MANUAL_REVIEW", "PARTIALLY_COMPLIANT", "COMPLIANT", "NOT_ASSESSED"}

LEMMA VerdictOf ==
  ASSUME NEW control, NEW E, \A r \in ToSet(E) : r.result \in Results
  PROVE  /\ verdict_of(control, E) \in ControlVerdicts
         /\ verdict_of(control, E) = "COMPLIANT" <=> Supported(control, E)
         /\ (\E r \in Mandatory(E) : r.result = "CONTRADICTS" /\ r.confidence >= minimum_confidence) =>
              verdict_of(control, E) = "NON_COMPLIANT"
<1> DEFINE records == ToSet(E)
           needed == {r \in records : \E q \in records : q.id = r.id /\ q.mandatory}
           Some(result) == \E r \in records : r.result = result
           Enough(r) == r.confidence >= minimum_confidence
           partial == \/ "ORGANISATION" \in control.scope /\ Cardinality(control.scope) > 1
                      \/ \E r \in records : r.relationship \in {"PARTIAL", "CONTEXT_ONLY"}
<1>1. verdict_of(control, E) =
        IF \E r \in needed : r.result = "CONTRADICTS" /\ Enough(r) THEN "NON_COMPLIANT"
        ELSE IF Some("CONTRADICTS") /\ Some("SUPPORTS") THEN "MANUAL_REVIEW"
        ELSE IF needed # {} /\ \E r \in records : r.validated = FALSE THEN "MANUAL_REVIEW"
        ELSE IF needed # {} /\ \A r \in needed : r.result = "SUPPORTS" /\ Enough(r)
        THEN IF partial \/ \E r \in records \ needed : r.result \in {"MISSING", "INCONCLUSIVE"}
             THEN "PARTIALLY_COMPLIANT" ELSE "COMPLIANT"
        ELSE IF Some("SUPPORTS") THEN "PARTIALLY_COMPLIANT"
        ELSE IF Some("INCONCLUSIVE") THEN "MANUAL_REVIEW" ELSE "NOT_ASSESSED"
  BY Zenon DEF verdict_of
<1>2. needed = Mandatory(E) /\ needed \subseteq records
  BY DEF Mandatory
<1>3. \A r \in records : r.result \in {"SUPPORTS", "CONTRADICTS", "MISSING", "INCONCLUSIVE"}
  BY DEF Results
<1>4. Supported(control, E) <=>
        /\ needed # {}
        /\ \A r \in records :
             r.result = "SUPPORTS" /\ r.validated # FALSE /\ r.relationship \notin {"PARTIAL", "CONTEXT_ONLY"}
        /\ \A r \in needed : Enough(r)
        /\ ~("ORGANISATION" \in control.scope /\ Cardinality(control.scope) > 1)
  BY <1>2, Zenon DEF Supported
<1> DEFINE whole == "ORGANISATION" \in control.scope /\ Cardinality(control.scope) > 1
<1> HIDE DEF records, needed, Enough, whole
<1>5. verdict_of(control, E) \in ControlVerdicts
  <2> HIDE DEF Some, partial
  <2> QED BY <1>1, Zenon DEF ControlVerdicts
<1>6. ASSUME verdict_of(control, E) = "COMPLIANT" PROVE Supported(control, E)
  <2>1. /\ ~(\E r \in needed : r.result = "CONTRADICTS" /\ Enough(r))
        /\ ~(Some("CONTRADICTS") /\ Some("SUPPORTS"))
        /\ ~(needed # {} /\ \E r \in records : r.validated = FALSE)
        /\ needed # {} /\ \A r \in needed : r.result = "SUPPORTS" /\ Enough(r)
        /\ ~(partial \/ \E r \in records \ needed : r.result \in {"MISSING", "INCONCLUSIVE"})
    <3> HIDE DEF Some, partial
    <3> QED BY <1>1, <1>6
  <2>2. \A r \in records : r.result = "SUPPORTS"
    BY <1>2, <1>3, <2>1
  <2>3. \A r \in records : r.validated # FALSE /\ r.relationship \notin {"PARTIAL", "CONTEXT_ONLY"}
    BY <2>1, Zenon
  <2> QED BY <1>4, <2>1, <2>2, <2>3 DEF whole
<1>7. ASSUME Supported(control, E) PROVE verdict_of(control, E) = "COMPLIANT"
  <2>1. /\ \A r \in records : r.result = "SUPPORTS"
        /\ needed # {} /\ \A r \in needed : Enough(r)
    BY <1>4, <1>7
  <2>2. /\ ~(\E r \in needed : r.result = "CONTRADICTS" /\ Enough(r))
        /\ ~Some("CONTRADICTS")
        /\ \A r \in needed : r.result = "SUPPORTS" /\ Enough(r)
        /\ ~(\E r \in records \ needed : r.result \in {"MISSING", "INCONCLUSIVE"})
    BY <1>2, <2>1
  <2>3. ~partial /\ ~\E r \in records : r.validated = FALSE
    BY <1>4, <1>7, Zenon DEF whole
  <2> HIDE DEF Some, partial
  <2> QED BY <1>1, <2>1, <2>2, <2>3
<1>8. (\E r \in needed : r.result = "CONTRADICTS" /\ Enough(r)) => verdict_of(control, E) = "NON_COMPLIANT"
  <2> HIDE DEF Some, partial
  <2> QED BY <1>1
<1> QED BY <1>2, <1>5, <1>6, <1>7, <1>8, Zenon DEF Enough

\* What a mapping makes of a record.
LEMMA MappingApplied ==
  ASSUME NEW q, NEW result, NEW n, NEW m
  PROVE  LET r == evidence_record(q, result, n)
             x == _apply_mapping(r, m)
         IN  /\ x.id = q.id /\ x.mandatory = q.mandatory
             /\ m = None => x.result = "INCONCLUSIVE"
             /\ m # None => /\ x.validated = m.validated /\ x.relationship = m.relationship
                            /\ x.confidence = IF m.confidence < n THEN m.confidence ELSE n
             /\ m # None /\ (~m.validated \/ m.relationship = "CONTEXT_ONLY") => x.result = "INCONCLUSIVE"
             /\ m # None /\ m.validated /\ m.relationship # "CONTEXT_ONLY" =>
                  x.result = IF m.relationship = "CONTRADICTS" /\ result = "SUPPORTS" THEN "CONTRADICTS"
                             ELSE IF m.relationship = "CONTRADICTS" /\ result = "CONTRADICTS" THEN "SUPPORTS"
                             ELSE result
<1> DEFINE r == evidence_record(q, result, n)
           x == _apply_mapping(r, m)
           said == IF ~m.validated \/ m.relationship = "CONTEXT_ONLY" THEN "INCONCLUSIVE"
                   ELSE IF m.relationship = "CONTRADICTS" /\ result = "SUPPORTS" THEN "CONTRADICTS"
                   ELSE IF m.relationship = "CONTRADICTS" /\ result = "CONTRADICTS" THEN "SUPPORTS"
                   ELSE result
           least == IF m.confidence < n THEN m.confidence ELSE n
<1>1. /\ r.result = result /\ r.confidence = n /\ r.id = q.id /\ r.mandatory = q.mandatory
      /\ DOMAIN r = {"id", "result", "confidence", "weight", "mandatory", "relationship", "validated"}
  BY DEF evidence_record
<1> HIDE DEF r
<1>2. x = IF m = None THEN [r EXCEPT !.result = "INCONCLUSIVE", !.confidence = 0]
          ELSE [r EXCEPT !.result = said, !.confidence = least,
                         !.relationship = m.relationship, !.validated = m.validated]
  BY <1>1 DEF _apply_mapping
<1> HIDE DEF x, said, least
<1>3. x.id = q.id /\ x.mandatory = q.mandatory /\ (m = None => x.result = "INCONCLUSIVE")
  BY <1>1, <1>2
<1>4. m # None => /\ x.validated = m.validated /\ x.relationship = m.relationship /\ x.confidence = least
                  /\ x.result = said
  BY <1>1, <1>2
<1> QED BY <1>3, <1>4, Zenon DEF r, x, said, least

\* The children of a requirement are a list, and weigh nothing less than zero; and the
\* evidence of a control is that of each of its requirements.
Childlike(req) == req.children \in Seq(ToSet(req.children)) /\ \A q \in ToSet(req.children) : q.weight \in Nat

Evidence(control, e) == [i \in DOMAIN control.requirements |-> _extract(control.requirements[i], control, e)]

LEMMA RequirementTyped ==
  ASSUME NEW req, NEW control, NEW e
  PROVE  LET x == _extract(req, control, e)
         IN  x.id = req.id /\ x.mandatory = req.mandatory /\ x.result \in Results \cup {"RAISES"}
<1> DEFINE x == _extract(req, control, e)
           Fits(r) == r.id = req.id /\ r.mandatory = req.mandatory /\ r.result \in Results \cup {"RAISES"}
<1>1. \A n : \A result \in Results \cup {"RAISES"} : Fits(evidence_record(req, result, n))
  BY DEF evidence_record
<1>2. Fits(extracted(req, e))
  BY <1>1, ExtractedTyped
<1>3. Fits(composite_evidence(req, e))
  <2>1. \A mode, said : combined(mode, said) \in Results
    BY Zenon DEF combined, Results
  <2>2. \E n : \E result \in Results \cup {"RAISES"} : composite_evidence(req, e) = evidence_record(req, result, n)
    <3> DEFINE unknown == {i \in DOMAIN req.children : req.children[i].source \notin {"FINDING", "RAW_FIELD"}}
               records == [i \in DOMAIN req.children |-> extracted(req.children[i], e)]
    <3>1. composite_evidence(req, e) =
            IF \E i \in DOMAIN records : records[i].result = "RAISES" /\ \A j \in unknown : i < j
            THEN evidence_record(req, "RAISES", 0)
            ELSE IF unknown # {} THEN evidence_record(req, "INCONCLUSIVE", 0)
            ELSE IF req.children = <<>> THEN evidence_record(req, "MISSING", 0)
            ELSE combined_record(req, records)
      BY Zenon DEF composite_evidence
    <3> HIDE DEF unknown, records
    <3>2. \E n : \E result \in Results : combined_record(req, records) = evidence_record(req, result, n)
      BY <2>1, Zenon DEF combined_record
    <3> QED BY <3>1, <3>2, Zenon DEF Results
  <2> QED BY <1>1, <2>2
<1>4. ASSUME NEW m PROVE Fits(_apply_mapping(extracted(req, e), m))
  <2>1. PICK result \in Results \cup {"RAISES"}, n \in 0..100 : extracted(req, e) = evidence_record(req, result, n)
    BY ExtractedTyped
  <2> DEFINE y == _apply_mapping(extracted(req, e), m)
  <2>2. /\ y.id = req.id /\ y.mandatory = req.mandatory
        /\ y.result \in {"INCONCLUSIVE", "CONTRADICTS", "SUPPORTS", result}
    <3> DEFINE z == _apply_mapping(evidence_record(req, result, n), m)
    <3>1. /\ z.id = req.id /\ z.mandatory = req.mandatory
          /\ m = None => z.result = "INCONCLUSIVE"
          /\ m # None /\ (~m.validated \/ m.relationship = "CONTEXT_ONLY") => z.result = "INCONCLUSIVE"
          /\ m # None /\ m.validated /\ m.relationship # "CONTEXT_ONLY" =>
               z.result = IF m.relationship = "CONTRADICTS" /\ result = "SUPPORTS" THEN "CONTRADICTS"
                          ELSE IF m.relationship = "CONTRADICTS" /\ result = "CONTRADICTS" THEN "SUPPORTS"
                          ELSE result
      BY MappingApplied
    <3>2. y = z
      BY <2>1
    <3> HIDE DEF y, z
    <3> QED BY <3>1, <3>2
  <2> QED BY <2>2 DEF Results
<1>5. x = IF req.composite THEN composite_evidence(req, e)
          ELSE IF req.source \notin {"FINDING", "RAW_FIELD", "RULE_METADATA"} THEN evidence_record(req, "INCONCLUSIVE", 0)
          ELSE IF req.source = "FINDING"
          THEN _apply_mapping(extracted(req, e), _select_mapping(e.mappings, control, req.reference))
          ELSE extracted(req, e)
  BY Zenon DEF _extract
<1>6. Fits(evidence_record(req, "INCONCLUSIVE", 0))
  BY <1>1 DEF Results
<1>7. Fits(x)
  <2> HIDE DEF Fits, x
  <2> QED BY <1>2, <1>3, <1>4, <1>5, <1>6, Zenon
<1> QED BY <1>7

\* What is concluded about a control.
Raises(E) == \E r \in ToSet(E) : r.result = "RAISES"

LEMMA ControlAssessed ==
  ASSUME NEW control, NEW profile, NEW e
  PROVE  LET k == evaluate_control(control, profile, e)
             E == Evidence(control, e)
             inside == _is_applicable(control, profile)
             asked == control.scope # {"ORGANISATION"} /\ ~(control.alternative /\ control.requirements = <<>>)
         IN  /\ k.id = control.id /\ (k.applicable <=> k.status # "NOT_APPLICABLE")
             /\ k.status \in ControlVerdicts \cup {"RAISES", "NOT_APPLICABLE"}
             /\ k.status = "NOT_APPLICABLE" <=> ~inside
             /\ inside /\ asked => (k.status = "RAISES" <=> Raises(E))
             /\ inside /\ asked /\ ~Raises(E) => k.status = verdict_of(control, E)
             /\ k.status = "COMPLIANT" <=> inside /\ asked /\ ~Raises(E) /\ Supported(control, E)
<1> DEFINE k == evaluate_control(control, profile, e)
           E == Evidence(control, e)
           inside == _is_applicable(control, profile)
           asked == control.scope # {"ORGANISATION"} /\ ~(control.alternative /\ control.requirements = <<>>)
           status == IF ~inside THEN "NOT_APPLICABLE"
                     ELSE IF control.scope = {"ORGANISATION"} THEN "NOT_ASSESSED"
                     ELSE IF control.alternative /\ control.requirements = <<>> THEN "MANUAL_REVIEW"
                     ELSE IF Raises(E) THEN "RAISES" ELSE verdict_of(control, E)
<1>1. \A s, list : /\ _assessment(control, s, list).id = control.id /\ _assessment(control, s, list).status = s
                   /\ _assessment(control, s, list).applicable <=> s # "NOT_APPLICABLE"
  BY DEF _assessment
<1>2. \E list : k = _assessment(control, status, list)
  <2>1. k = IF ~inside THEN _assessment(control, "NOT_APPLICABLE", <<>>)
            ELSE IF control.scope = {"ORGANISATION"} THEN _assessment(control, "NOT_ASSESSED", <<>>)
            ELSE IF control.alternative /\ control.requirements = <<>> THEN _assessment(control, "MANUAL_REVIEW", <<>>)
            ELSE assessed(control, E)
    BY Zenon DEF evaluate_control, Evidence
  <2>2. assessed(control, E) = IF Raises(E) THEN _assessment(control, "RAISES", <<>>)
                               ELSE _assessment(control, verdict_of(control, E), E)
    BY Zenon DEF assessed, Raises
  <2> HIDE DEF k, E, inside
  <2> QED BY <2>1, <2>2, Zenon
<1>3. k.id = control.id /\ k.status = status /\ (k.applicable <=> k.status # "NOT_APPLICABLE")
  <2> HIDE DEF k, status
  <2> QED BY <1>1, <1>2
<1>4. ASSUME ~Raises(E)
      PROVE  /\ verdict_of(control, E) \in ControlVerdicts
             /\ verdict_of(control, E) = "COMPLIANT" <=> Supported(control, E)
  <2>1. ASSUME NEW r \in ToSet(E) PROVE r.result \in Results
    <3>1. PICK i \in DOMAIN control.requirements : r = _extract(control.requirements[i], control, e)
      BY <2>1 DEF ToSet, Evidence
    <3>2. r.result \in Results \cup {"RAISES"}
      BY <3>1, RequirementTyped, Zenon
    <3> QED BY <1>4, <2>1, <3>2 DEF Raises
  <2> HIDE DEF E
  <2> QED BY <2>1, VerdictOf, Zenon
<1> HIDE DEF k, E, inside
<1>5. status \in ControlVerdicts \cup {"RAISES", "NOT_APPLICABLE"} /\ (status = "NOT_APPLICABLE" <=> ~inside)
  BY <1>4 DEF ControlVerdicts
<1>6. asked /\ inside => (status = "RAISES" <=> Raises(E)) /\ (~Raises(E) => status = verdict_of(control, E))
  BY <1>4 DEF ControlVerdicts
<1>7. status = "COMPLIANT" <=> inside /\ asked /\ ~Raises(E) /\ Supported(control, E)
  <2>1. CASE inside /\ asked /\ ~Raises(E)
    BY <1>4, <1>6, <2>1, Zenon
  <2>2. CASE ~(inside /\ asked /\ ~Raises(E))
    BY <2>2
  <2> QED BY <2>1, <2>2
<1> HIDE DEF status
<1> QED BY <1>3, <1>5, <1>6, <1>7, Zenon DEF k, E, inside

\* What is concluded about a framework, and about all of them.
LEMMA FrameworkAssessed ==
  ASSUME NEW f, NEW p, NEW e
  PROVE  LET a == _framework_assessment(f, p, e)
         IN  /\ a.id = f.id
             /\ \A k : k \in ToSet(a.controls) <=> \E c \in ToSet(f.controls) : k = evaluate_control(c, p, e)
             /\ a.raised <=> \E k \in ToSet(a.controls) : k.status = "RAISES"
<1> DEFINE a == _framework_assessment(f, p, e)
           controls == [i \in DOMAIN f.controls |-> evaluate_control(f.controls[i], p, e)]
<1>1. a = framework_result(f.id, controls)
  BY Zenon DEF _framework_assessment
<1>2. a.id = f.id /\ a.controls = controls /\ (a.raised <=> \E k \in ToSet(controls) : k.status = "RAISES")
  <2> HIDE DEF a, controls
  <2> QED BY <1>1 DEF framework_result
<1>3. \A k : k \in ToSet(controls) <=> \E c \in ToSet(f.controls) : k = evaluate_control(c, p, e)
  BY DEF ToSet
<1> HIDE DEF a, controls
<1> QED BY <1>2, <1>3 DEF a

LEMMA OverallCompliant ==
  ASSUME NEW all, NEW warned
  PROVE  LET out == concluded(all, warned)
             controls == UNION {ToSet(a.controls) : a \in all}
         IN  /\ out.assessments = {a \in all : ~a.raised}
             /\ out.overall = "COMPLIANT" <=>
                  /\ \A a \in all : ~a.raised
                  /\ ~warned
                  /\ \E c \in controls : c.applicable
                  /\ \A c \in controls : c.status \notin {"NON_COMPLIANT", "MANUAL_REVIEW", "NOT_ASSESSED", "PARTIALLY_COMPLIANT"}
<1> DEFINE out == concluded(all, warned)
           done == {a \in all : ~a.raised}
           controls == UNION {ToSet(a.controls) : a \in done}
           Of(status) == \E c \in controls : c.status = status
<1>1. out.assessments = done /\ out.overall = _overall_status(done, done # all \/ warned)
  BY DEF concluded
<1>2. _overall_status(done, done # all \/ warned) =
        IF done # all \/ warned THEN "MANUAL_REVIEW"
        ELSE IF ~\E c \in controls : c.applicable THEN "NOT_ASSESSED"
        ELSE IF Of("NON_COMPLIANT") THEN "NON_COMPLIANT"
        ELSE IF Of("MANUAL_REVIEW") THEN "MANUAL_REVIEW"
        ELSE IF Of("NOT_ASSESSED") \/ Of("PARTIALLY_COMPLIANT") THEN "PARTIALLY_COMPLIANT" ELSE "COMPLIANT"
  BY Zenon DEF _overall_status
<1>3. done = all <=> \A a \in all : ~a.raised
  BY Zenon
<1> HIDE DEF done, out
<1>4. out.overall = "COMPLIANT" <=>
        /\ done = all /\ ~warned
        /\ \E c \in controls : c.applicable
        /\ \A c \in controls : c.status \notin {"NON_COMPLIANT", "MANUAL_REVIEW", "NOT_ASSESSED", "PARTIALLY_COMPLIANT"}
  BY <1>1, <1>2
<1> QED BY <1>1, <1>3, <1>4, Zenon DEF out, done

-----------------------------------------------------------------------------
(* Evidence that is lost *)

IsList(list) == list \in Seq(ToSet(list))

\* A list without one of its places.
LEMMA WithoutOne ==
  ASSUME NEW F, IsList(F), NEW i \in DOMAIN F
  PROVE  LET G == Without(F, i)
         IN  /\ Len(F) \in Nat /\ DOMAIN F = 1..Len(F) /\ DOMAIN G = 1..(Len(F) - 1)
             /\ \A k \in DOMAIN G : G[k] = IF k < i THEN F[k] ELSE F[k + 1]
<1> DEFINE S == ToSet(F)
           A == SubSeq(F, 1, i - 1)
           B == SubSeq(F, i + 1, Len(F))
<1>1. F \in Seq(S) /\ Len(F) \in Nat /\ DOMAIN F = 1..Len(F) /\ i \in 1..Len(F)
  BY DEF IsList
<1> HIDE DEF S
<1>2. A \in Seq(S) /\ Len(A) = i - 1 /\ \A k \in 1..(i - 1) : A[k] = F[k]
  BY <1>1
<1>3. B \in Seq(S) /\ Len(B) = Len(F) - i /\ \A k \in 1..(Len(F) - i) : B[k] = F[i + k]
  BY <1>1
<1> HIDE DEF A, B
<1> DEFINE C == A \o B
<1>4. /\ C \in Seq(S) /\ Len(C) = Len(A) + Len(B)
      /\ \A k \in 1..Len(C) : C[k] = IF k <= Len(A) THEN A[k] ELSE B[k - Len(A)]
  <2>1. A \in Seq(S) /\ B \in Seq(S)
    BY <1>2, <1>3
  <2>2. C \in Seq(S)
    BY <2>1
  <2>3. Len(C) = Len(A) + Len(B)
    BY <2>1
  <2>4. ASSUME NEW k \in 1..Len(C) PROVE C[k] = IF k <= Len(A) THEN A[k] ELSE B[k - Len(A)]
    <3>1. Len(A) \in Nat /\ Len(B) \in Nat /\ k \in 1..(Len(A) + Len(B))
      BY <2>1, <2>3
    <3> QED BY <2>1, <3>1
  <2> QED BY <2>2, <2>3, <2>4
<1> HIDE DEF C
<1>5. Len(C) = Len(F) - 1 /\ DOMAIN C = 1..(Len(F) - 1)
  BY <1>1, <1>2, <1>3, <1>4
<1>6. ASSUME NEW k \in 1..(Len(F) - 1) PROVE C[k] = IF k < i THEN F[k] ELSE F[k + 1]
  <2>1. CASE k < i
    <3>1. k \in 1..(i - 1) /\ k <= Len(A) /\ k \in 1..Len(C)
      BY <1>1, <1>2, <1>5, <2>1
    <3> QED BY <1>2, <1>4, <2>1, <3>1
  <2>2. CASE ~(k < i)
    <3>1. /\ ~(k <= Len(A)) /\ k \in 1..Len(C) /\ k - Len(A) = k - (i - 1)
          /\ k - (i - 1) \in 1..(Len(F) - i) /\ i + (k - (i - 1)) = k + 1
      BY <1>1, <1>2, <1>5, <2>2
    <3>2. C[k] = B[k - (i - 1)]
      BY <1>4, <3>1
    <3> QED BY <1>3, <2>2, <3>1, <3>2
  <2> QED BY <2>1, <2>2
<1> QED BY <1>1, <1>5, <1>6 DEF Without, A, B, C

\* Without the only finding of its rule a requirement finds the same, or nothing.
LEMMA FindingLost ==
  ASSUME NEW F, IsList(F), NEW i \in DOMAIN F, \A k \in DOMAIN F : F[k].rule = F[i].rule => k = i, NEW q
  PROVE  \/ finding_evidence(q, Without(F, i)) = finding_evidence(q, F)
         \/ finding_evidence(q, Without(F, i)) = evidence_record(q, "MISSING", 0)
<1> DEFINE G == Without(F, i)
           of(list) == {n \in DOMAIN list : list[n].rule = q.reference}
           from(f) ==
             IF f.status \in {"NOT_EVALUATED", "NOT_APPLICABLE"} THEN evidence_record(q, "MISSING", 0)
             ELSE IF f.status \in {"ERROR", "PARTIAL", "INFO", "WARNING"} THEN evidence_record(q, "INCONCLUSIVE", 0)
             ELSE IF q.operator = "STATUS_IS"
             THEN evidence_record(q, IF f.status = q.expected THEN "SUPPORTS" ELSE "CONTRADICTS", 95)
             ELSE IF q.operator = "SEVERITY_AT_LEAST"
             THEN IF Rank(f.severity) >= Rank(q.expected)
                  THEN evidence_record(q, "CONTRADICTS", 90) ELSE evidence_record(q, "SUPPORTS", 75)
             ELSE evidence_record(q, "INCONCLUSIVE", 40)
<1>1. \A list : finding_evidence(q, list) =
                  IF of(list) = {} THEN evidence_record(q, "MISSING", 0) ELSE from(list[earliest(of(list))])
  BY Zenon DEF finding_evidence
<1>2. /\ Len(F) \in Nat /\ DOMAIN F = 1..Len(F) /\ DOMAIN G = 1..(Len(F) - 1) /\ i \in 1..Len(F)
      /\ \A k \in 1..(Len(F) - 1) : G[k] = IF k < i THEN F[k] ELSE F[k + 1]
  BY WithoutOne
<1> HIDE DEF G, from
<1>3. CASE of(G) = {}
  BY <1>1, <1>3 DEF G
<1>4. CASE of(G) # {}
  <2>1. \A k \in of(G) : k \in 1..(Len(F) - 1) /\ (IF k < i THEN k ELSE k + 1) \in of(F)
    BY <1>2
  <2>2. of(F) # {} /\ of(F) \in SUBSET Nat /\ of(G) \in SUBSET Nat
    BY <1>2, <1>4, <2>1
  <2> DEFINE a == earliest(of(F))
             b == earliest(of(G))
             at == IF a < i THEN a ELSE a - 1
  <2> HIDE DEF of
  <2>3. a \in of(F) /\ (\A n \in of(F) : a <= n) /\ b \in of(G) /\ \A n \in of(G) : b <= n
    BY <1>4, <2>2, EarliestIn
  <2> HIDE DEF a, b
  <2>4. b \in 1..(Len(F) - 1) /\ (IF b < i THEN b ELSE b + 1) \in of(F) /\ G[b] = IF b < i THEN F[b] ELSE F[b + 1]
    BY <1>2, <2>1, <2>3
  <2>5. a # i
    <3> SUFFICES ASSUME a = i PROVE FALSE
      OBVIOUS
    <3>1. F[i].rule = q.reference
      BY <2>3 DEF of
    <3> DEFINE c == IF b < i THEN b ELSE b + 1
    <3>2. c \in DOMAIN F /\ F[c].rule = q.reference /\ c # i
      BY <1>2, <2>4 DEF of
    <3> QED BY <3>1, <3>2
  <2>6. a \in 1..Len(F) /\ F[a].rule = q.reference
    BY <1>2, <2>3 DEF of
  <2>7. at \in 1..(Len(F) - 1) /\ G[at] = F[a]
    BY <1>2, <2>5, <2>6
  <2>8. at \in of(G)
    BY <1>2, <2>6, <2>7 DEF of
  <2> HIDE DEF G
  <2>9. b = at
    <3>1. b <= at
      BY <2>3, <2>8
    <3>2. a <= (IF b < i THEN b ELSE b + 1)
      BY <2>3, <2>4
    <3> QED BY <1>2, <2>4, <2>5, <2>6, <3>1, <3>2
  <2>10. G[b] = F[a]
    BY <2>7, <2>9
  <2>11. finding_evidence(q, G) = from(G[b]) /\ finding_evidence(q, F) = from(F[a])
    BY <1>1, <1>4, <2>2 DEF a, b
  <2> QED BY <2>10, <2>11 DEF G
<1> QED BY <1>3, <1>4

\* Evidence as it is collected: without some of it an extractor finds the same, or nothing.
Evident(e) == DOMAIN e = {"findings", "fields", "mappings"} /\ IsList(e.findings)

LEMMA EvidenceLost ==
  ASSUME NEW e, Evident(e), NEW d \in Poorer(e)
  PROVE  /\ d.mappings = e.mappings
         /\ \A q : q.operator # "NOT_EXISTS" =>
              extracted(q, d) = extracted(q, e) \/ extracted(q, d) = evidence_record(q, "MISSING", 0)
<1>1. ASSUME NEW i \in DOMAIN e.findings,
             \A k \in DOMAIN e.findings : e.findings[k].rule = e.findings[i].rule => k = i,
             d = [e EXCEPT !.findings = Without(@, i)]
      PROVE  /\ d.mappings = e.mappings
             /\ \A q : extracted(q, d) = extracted(q, e) \/ extracted(q, d) = evidence_record(q, "MISSING", 0)
  <2>1. d.mappings = e.mappings /\ d.fields = e.fields /\ d.findings = Without(e.findings, i)
    BY <1>1 DEF Evident
  <2>2. \A q : \/ finding_evidence(q, d.findings) = finding_evidence(q, e.findings)
               \/ finding_evidence(q, d.findings) = evidence_record(q, "MISSING", 0)
    BY <1>1, <2>1, FindingLost DEF Evident
  <2> QED BY <2>1, <2>2, Zenon DEF extracted
<1>2. ASSUME NEW f \in DOMAIN e.fields, d = [e EXCEPT !.fields[f] = {}]
      PROVE  /\ d.mappings = e.mappings
             /\ \A q : q.operator # "NOT_EXISTS" =>
                  extracted(q, d) = extracted(q, e) \/ extracted(q, d) = evidence_record(q, "MISSING", 0)
  <2>1. /\ d.mappings = e.mappings /\ d.findings = e.findings
        /\ DOMAIN d.fields = DOMAIN e.fields /\ d.fields[f] = {}
        /\ \A g \in DOMAIN e.fields : g # f => d.fields[g] = e.fields[g]
    BY <1>2 DEF Evident
  <2>2. ASSUME NEW q, q.operator # "NOT_EXISTS"
        PROVE  \/ field_evidence(q, d.fields) = field_evidence(q, e.fields)
               \/ field_evidence(q, d.fields) = evidence_record(q, "MISSING", 0)
    <3> DEFINE from(values) ==
                 IF values = {} THEN evidence_record(q, IF q.operator = "NOT_EXISTS" THEN "SUPPORTS" ELSE "MISSING", 0)
                 ELSE evidence_record(q, _evaluate(q.operator, CHOOSE v \in values : TRUE, q.expected), 85)
    <3>1. \A F : field_evidence(q, F) = IF q.reference \notin DOMAIN F THEN evidence_record(q, "INCONCLUSIVE", 0)
                                       ELSE from(F[q.reference])
      BY Zenon DEF field_evidence
    <3>2. from({}) = evidence_record(q, "MISSING", 0)
      BY <2>2, Zenon
    <3> HIDE DEF from
    <3>3. CASE q.reference = f
      BY <2>1, <3>1, <3>2, <3>3
    <3>4. CASE q.reference # f /\ q.reference \in DOMAIN e.fields
      BY <2>1, <3>1, <3>4
    <3>5. CASE q.reference \notin DOMAIN e.fields
      BY <2>1, <3>1, <3>5
    <3> QED BY <3>3, <3>4, <3>5
  <2> QED BY <2>1, <2>2, Zenon DEF extracted
<1> QED BY <1>1, <1>2 DEF Poorer

\* A requirement finds the same without some evidence, or nothing.
Losing(q, d, e) == extracted(q, d) = extracted(q, e) \/ extracted(q, d) = evidence_record(q, "MISSING", 0)

\* A product with a number that may be lost.
LEMMA ScaledGrows ==
  ASSUME NEW w \in Nat, NEW x \in 0..100, NEW y, y = x \/ y = 0
  PROVE  w * y \in Nat /\ w * x \in Nat /\ w * y <= w * x
<1>1. x \in Nat
  OBVIOUS
<1>2. w * x \in Nat /\ w * 0 = 0
  BY <1>1
<1>3. CASE y = x
  BY <1>2, <1>3
<1>4. CASE y = 0
  BY <1>2, <1>4
<1> QED BY <1>3, <1>4

\* The weighted confidence does not rise when some of the records are lost.
LEMMA WeightedGrows ==
  ASSUME NEW D, NEW E, NEW n \in Nat, DOMAIN D = 1..n, DOMAIN E = 1..n,
         \A i \in 1..n : /\ D[i].weight = E[i].weight /\ E[i].weight \in Nat /\ E[i].confidence \in 0..100
                         /\ D[i].confidence = E[i].confidence \/ D[i].confidence = 0
  PROVE  /\ _weighted_confidence(D) \in Nat /\ _weighted_confidence(E) \in Nat
         /\ _weighted_confidence(D) <= _weighted_confidence(E)
<1> DEFINE weights == [i \in DOMAIN E |-> E[i].weight]
           s == [i \in DOMAIN D |-> D[i].weight * D[i].confidence]
           t == [i \in DOMAIN E |-> E[i].weight * E[i].confidence]
           total == Total(weights)
<1> HIDE DEF total
<1>1. [i \in DOMAIN D |-> D[i].weight] = weights
  OBVIOUS
<1>2. ASSUME NEW i \in 1..n PROVE s[i] \in Nat /\ t[i] \in Nat /\ s[i] <= t[i] /\ weights[i] \in Nat
  <2>1. i \in DOMAIN D /\ i \in DOMAIN E /\ D[i].weight = E[i].weight
    BY <1>2, Zenon
  <2>2. s[i] = D[i].weight * D[i].confidence /\ t[i] = E[i].weight * E[i].confidence /\ weights[i] = E[i].weight
    BY <2>1, Zenon
  <2> HIDE DEF s, t, weights
  <2>3. /\ E[i].weight \in Nat /\ E[i].confidence \in 0..100
        /\ D[i].confidence = E[i].confidence \/ D[i].confidence = 0
    BY <1>2, Zenon
  <2>4. /\ E[i].weight * D[i].confidence \in Nat /\ E[i].weight * E[i].confidence \in Nat
        /\ E[i].weight * D[i].confidence <= E[i].weight * E[i].confidence
    BY <2>3, ScaledGrows, Zenon
  <2> QED BY <2>1, <2>2, <2>3, <2>4, Zenon
<1>3. DOMAIN s = 1..n /\ DOMAIN t = 1..n /\ DOMAIN weights = 1..n
  OBVIOUS
<1>4. /\ s = [i \in 1..n |-> s[i]] /\ t = [i \in 1..n |-> t[i]] /\ weights = [i \in 1..n |-> weights[i]]
  OBVIOUS
<1> HIDE DEF s, t, weights
<1>5. s \in Seq(Nat) /\ t \in Seq(Nat) /\ weights \in Seq(Nat)
  <2>1. s \in [1..n -> Nat] /\ t \in [1..n -> Nat] /\ weights \in [1..n -> Nat]
    BY <1>2, <1>4
  <2> QED BY <2>1
<1>6. Len(s) = n /\ Len(t) = n
  BY <1>3, <1>5
<1>7. Total(s) \in Nat /\ Total(t) \in Nat /\ Total(s) <= Total(t)
  BY <1>2, <1>5, <1>6, TotalGrows
<1>8. total \in Nat
  <2>1. \A i \in 1..Len(weights) : weights[i] <= weights[i]
    BY <1>2, <1>3, <1>5
  <2> QED BY <1>5, <2>1, TotalGrows DEF total
<1>9. /\ _weighted_confidence(D) = IF total <= 0 THEN 0 ELSE Rounded(Total(s), total)
      /\ _weighted_confidence(E) = IF total <= 0 THEN 0 ELSE Rounded(Total(t), total)
  BY <1>1, Zenon DEF _weighted_confidence, s, t, weights, total
<1>10. CASE total > 0
  <2>1. Rounded(Total(s), total) \in Nat /\ Rounded(Total(s), total) <= Rounded(Total(t), total)
    BY <1>7, <1>8, <1>10, RoundedGrows
  <2>2. Rounded(Total(t), total) \in Nat
    BY <1>7, <1>8, <1>10, RoundedGrows
  <2> QED BY <1>8, <1>9, <1>10, <2>1, <2>2
<1>11. CASE ~(total > 0)
  BY <1>8, <1>9, <1>11
<1> QED BY <1>10, <1>11

\* A composite that is supported without some evidence is supported with it, no less
\* firmly, if all of its children can be compared.
LEMMA CompositeLost ==
  ASSUME NEW req, Childlike(req), NEW d, NEW e, \A q \in ToSet(req.children) : Losing(q, d, e),
         composite_evidence(req, d).result = "SUPPORTS", composite_evidence(req, e).result # "RAISES"
  PROVE  \E n, m \in Nat : /\ composite_evidence(req, d) = evidence_record(req, "SUPPORTS", n)
                           /\ composite_evidence(req, e) = evidence_record(req, "SUPPORTS", m)
                           /\ n <= m
<1> DEFINE children == req.children
           unknown == {i \in DOMAIN children : children[i].source \notin {"FINDING", "RAW_FIELD"}}
           R(x) == [i \in DOMAIN children |-> extracted(children[i], x)]
           C(x) == composite_evidence(req, x)
           D == R(d)
           E == R(e)
<1>1. \A x : C(x) =
        IF \E i \in DOMAIN R(x) : R(x)[i].result = "RAISES" /\ \A j \in unknown : i < j
        THEN evidence_record(req, "RAISES", 0)
        ELSE IF unknown # {} THEN evidence_record(req, "INCONCLUSIVE", 0)
        ELSE IF children = <<>> THEN evidence_record(req, "MISSING", 0)
        ELSE combined_record(req, R(x))
  BY Zenon DEF composite_evidence
<1>2. \A result, n : evidence_record(req, result, n).result = result
  BY DEF evidence_record
<1>3. DOMAIN D = DOMAIN children /\ DOMAIN E = DOMAIN children
  OBVIOUS
<1>4. \A i \in DOMAIN children : D[i] = extracted(children[i], d) /\ E[i] = extracted(children[i], e)
  OBVIOUS
<1> HIDE DEF R, C, unknown
<1>5. unknown = {} /\ children # <<>> /\ C(d) = combined_record(req, D)
  BY <1>1, <1>2 DEF C
<1>6. C(e) = combined_record(req, E)
  BY <1>1, <1>2, <1>5 DEF C
<1> HIDE DEF D, E
<1>7. /\ C(d) = evidence_record(req, combined(req.mode, {r.result : r \in ToSet(D)}), _weighted_confidence(D))
      /\ C(e) = evidence_record(req, combined(req.mode, {r.result : r \in ToSet(E)}), _weighted_confidence(E))
  BY <1>5, <1>6, Zenon DEF combined_record
<1>8. PICK n \in Nat : DOMAIN children = 1..n
  BY DEF Childlike
<1>9. ASSUME NEW i \in 1..n
      PROVE  /\ D[i].weight = E[i].weight /\ E[i].weight \in Nat /\ E[i].confidence \in 0..100
             /\ D[i].confidence = E[i].confidence \/ D[i].confidence = 0
             /\ D[i] = E[i] \/ D[i].result = "MISSING"
  <2> DEFINE q == children[i]
  <2>1. q \in ToSet(children) /\ q.weight \in Nat /\ D[i] = extracted(q, d) /\ E[i] = extracted(q, e) /\ Losing(q, d, e)
    BY <1>4, <1>8, <1>9, Listed DEF Childlike
  <2>2. PICK result \in Results \cup {"RAISES"}, c \in 0..100 : E[i] = evidence_record(q, result, c)
    BY <2>1, ExtractedTyped
  <2>3. E[i].weight = q.weight /\ E[i].confidence = c
    BY <2>2 DEF evidence_record
  <2>4. D[i] = E[i] \/ (D[i].weight = q.weight /\ D[i].confidence = 0 /\ D[i].result = "MISSING")
    BY <2>1 DEF Losing, evidence_record
  <2> QED BY <2>1, <2>3, <2>4
<1> DEFINE said(list) == {r.result : r \in ToSet(list)}
<1>10. /\ \A s : s \in said(D) <=> \E i \in 1..n : s = D[i].result
       /\ \A s : s \in said(E) <=> \E i \in 1..n : s = E[i].result
  BY <1>3, <1>8 DEF ToSet
<1> HIDE DEF said
<1>11. combined(req.mode, said(D)) = "SUPPORTS"
  BY <1>2, <1>7 DEF C, said
<1>12. \A results : combined(req.mode, results) = "SUPPORTS" =>
         (req.mode = "OR" /\ "SUPPORTS" \in results) \/ (req.mode # "OR" /\ results = {"SUPPORTS"})
  BY DEF combined
<1>13. combined(req.mode, said(E)) = "SUPPORTS"
  <2>1. CASE req.mode = "OR"
    <3>1. PICK i \in 1..n : D[i].result = "SUPPORTS"
      BY <1>10, <1>11, <1>12, <2>1
    <3>2. E[i].result = "SUPPORTS"
      BY <1>9, <3>1
    <3>3. "SUPPORTS" \in said(E)
      BY <1>10, <3>2
    <3> QED BY <2>1, <3>3 DEF combined
  <2>2. CASE req.mode # "OR"
    <3>1. said(D) = {"SUPPORTS"}
      BY <1>11, <1>12, <2>2
    <3>2. \A i \in 1..n : D[i].result = "SUPPORTS"
      BY <1>10, <3>1
    <3>3. \A i \in 1..n : E[i].result = D[i].result
      BY <1>9, <3>2
    <3>4. said(E) = said(D)
      <4>1. \A x : x \in said(E) <=> x \in said(D)
        BY <1>10, <3>3
      <4> QED BY <4>1
    <3> QED BY <1>11, <3>4
  <2> QED BY <2>1, <2>2
<1>14. /\ _weighted_confidence(D) \in Nat /\ _weighted_confidence(E) \in Nat
       /\ _weighted_confidence(D) <= _weighted_confidence(E)
  BY <1>3, <1>8, <1>9, WeightedGrows
<1> QED BY <1>7, <1>11, <1>13, <1>14 DEF C, said

\* A requirement that is met without some evidence is met with it.
Asking(req) == req.operator # "NOT_EXISTS" /\ \A q \in ToSet(req.children) : q.operator # "NOT_EXISTS"

LEMMA RequirementLost ==
  ASSUME NEW req, Childlike(req), Asking(req), NEW control, NEW d, NEW e, d.mappings = e.mappings,
         \A q : q.operator # "NOT_EXISTS" => Losing(q, d, e),
         _extract(req, control, d).result = "SUPPORTS", _extract(req, control, e).result # "RAISES"
  PROVE  LET D == _extract(req, control, d)
             E == _extract(req, control, e)
         IN  /\ E.result = "SUPPORTS" /\ E.validated = D.validated /\ E.relationship = D.relationship
             /\ D.confidence >= minimum_confidence => E.confidence >= minimum_confidence
<1> DEFINE X(x) == _extract(req, control, x)
           m == _select_mapping(e.mappings, control, req.reference)
<1>1. \A x : X(x) =
        IF req.composite THEN composite_evidence(req, x)
        ELSE IF req.source \notin {"FINDING", "RAW_FIELD", "RULE_METADATA"} THEN evidence_record(req, "INCONCLUSIVE", 0)
        ELSE IF req.source = "FINDING"
        THEN _apply_mapping(extracted(req, x), _select_mapping(x.mappings, control, req.reference))
        ELSE extracted(req, x)
  BY Zenon DEF _extract
<1>2. \A result, n : /\ evidence_record(req, result, n).result = result /\ evidence_record(req, result, n).confidence = n
                     /\ evidence_record(req, result, n).validated = None
                     /\ evidence_record(req, result, n).relationship = None
  BY DEF evidence_record
<1>3. X(d).result = "SUPPORTS" /\ X(e).result # "RAISES"
  OBVIOUS
<1> HIDE DEF X, m
<1>4. CASE req.composite
  <2>1. X(d) = composite_evidence(req, d) /\ X(e) = composite_evidence(req, e)
    BY <1>1, <1>4
  <2>2. \A q \in ToSet(req.children) : Losing(q, d, e)
    BY DEF Asking
  <2>3. PICK n, k \in Nat : X(d) = evidence_record(req, "SUPPORTS", n) /\ X(e) = evidence_record(req, "SUPPORTS", k) /\ n <= k
    BY <1>3, <2>1, <2>2, CompositeLost
  <2>4. /\ X(d).confidence = n /\ X(e).confidence = k /\ X(e).result = "SUPPORTS"
        /\ X(e).validated = X(d).validated /\ X(e).relationship = X(d).relationship
    BY <1>2, <2>3
  <2> QED BY <2>3, <2>4 DEF X, minimum_confidence
<1>5. CASE ~req.composite
  <2>1. req.source \in {"FINDING", "RAW_FIELD", "RULE_METADATA"}
    BY <1>1, <1>2, <1>3, <1>5
  <2>2. extracted(req, d) = extracted(req, e) \/ extracted(req, d) = evidence_record(req, "MISSING", 0)
    BY DEF Losing, Asking
  <2>3. CASE req.source = "FINDING"
    <3>1. X(d) = _apply_mapping(extracted(req, d), m) /\ X(e) = _apply_mapping(extracted(req, e), m)
      BY <1>1, <1>5, <2>3 DEF m
    <3>2. _apply_mapping(evidence_record(req, "MISSING", 0), m).result # "SUPPORTS"
      <4> DEFINE z == _apply_mapping(evidence_record(req, "MISSING", 0), m)
      <4>1. /\ m = None => z.result = "INCONCLUSIVE"
            /\ m # None /\ (~m.validated \/ m.relationship = "CONTEXT_ONLY") => z.result = "INCONCLUSIVE"
            /\ m # None /\ m.validated /\ m.relationship # "CONTEXT_ONLY" =>
                 z.result = IF m.relationship = "CONTRADICTS" /\ "MISSING" = "SUPPORTS" THEN "CONTRADICTS"
                            ELSE IF m.relationship = "CONTRADICTS" /\ "MISSING" = "CONTRADICTS" THEN "SUPPORTS"
                            ELSE "MISSING"
        BY MappingApplied
      <4> HIDE DEF z
      <4>2. z.result # "SUPPORTS"
        BY <4>1
      <4> QED BY <4>2 DEF z
    <3>3. X(e) = X(d)
      BY <1>3, <2>2, <3>1, <3>2
    <3> QED BY <1>3, <3>3 DEF X
  <2>4. CASE req.source # "FINDING"
    <3>1. X(d) = extracted(req, d) /\ X(e) = extracted(req, e)
      BY <1>1, <1>5, <2>1, <2>4
    <3>2. X(e) = X(d)
      BY <1>2, <1>3, <2>2, <3>1
    <3> QED BY <1>3, <3>2 DEF X
  <2> QED BY <2>3, <2>4
<1> QED BY <1>4, <1>5

\* A control that is compliant without some evidence is compliant with it.
LEMMA ControlLost ==
  ASSUME NEW control, NEW profile, NEW d, NEW e, d.mappings = e.mappings,
         \A r \in ToSet(control.requirements) : Childlike(r) /\ Asking(r),
         \A q : q.operator # "NOT_EXISTS" => Losing(q, d, e),
         evaluate_control(control, profile, d).status = "COMPLIANT",
         evaluate_control(control, profile, e).status # "RAISES"
  PROVE  evaluate_control(control, profile, e).status = "COMPLIANT"
<1> DEFINE D == Evidence(control, d)
           E == Evidence(control, e)
           reqs == control.requirements
           asked == control.scope # {"ORGANISATION"} /\ ~(control.alternative /\ control.requirements = <<>>)
<1>1. _is_applicable(control, profile) /\ asked /\ ~Raises(D) /\ Supported(control, D)
  BY ControlAssessed
<1>2. ~Raises(E)
  BY <1>1, ControlAssessed
<1>3. /\ DOMAIN D = DOMAIN reqs /\ DOMAIN E = DOMAIN reqs
      /\ \A i \in DOMAIN reqs : D[i] = _extract(reqs[i], control, d) /\ E[i] = _extract(reqs[i], control, e)
  BY DEF Evidence
<1> HIDE DEF D, E
<1>4. /\ \A x : x \in ToSet(D) <=> \E i \in DOMAIN reqs : x = D[i]
      /\ \A x : x \in ToSet(E) <=> \E i \in DOMAIN reqs : x = E[i]
  BY <1>3, Listed
<1>5. ASSUME NEW i \in DOMAIN reqs
      PROVE  /\ E[i].id = D[i].id /\ E[i].mandatory = D[i].mandatory
             /\ E[i].result = "SUPPORTS" /\ E[i].validated = D[i].validated /\ E[i].relationship = D[i].relationship
             /\ D[i].confidence >= minimum_confidence => E[i].confidence >= minimum_confidence
  <2>1. reqs[i] \in ToSet(reqs)
    BY Listed
  <2>2. E[i].id = D[i].id /\ E[i].mandatory = D[i].mandatory
    BY <1>3, RequirementTyped
  <2>3. D[i].result = "SUPPORTS"
    BY <1>1, <1>4 DEF Supported
  <2>4. E[i].result # "RAISES"
    BY <1>2, <1>4 DEF Raises
  <2>5. /\ E[i].result = "SUPPORTS" /\ E[i].validated = D[i].validated /\ E[i].relationship = D[i].relationship
        /\ D[i].confidence >= minimum_confidence => E[i].confidence >= minimum_confidence
    BY <1>3, <2>1, <2>3, <2>4, RequirementLost
  <2> QED BY <2>2, <2>5
<1>6. /\ \A i \in DOMAIN reqs : D[i] \in Mandatory(D) <=> \E j \in DOMAIN reqs : D[j].id = D[i].id /\ D[j].mandatory
      /\ \A i \in DOMAIN reqs : E[i] \in Mandatory(E) <=> \E j \in DOMAIN reqs : E[j].id = E[i].id /\ E[j].mandatory
  <2>1. \A x : x \in Mandatory(D) <=> x \in ToSet(D) /\ \E q \in ToSet(D) : q.id = x.id /\ q.mandatory
    BY Zenon DEF Mandatory
  <2>2. \A x : x \in Mandatory(E) <=> x \in ToSet(E) /\ \E q \in ToSet(E) : q.id = x.id /\ q.mandatory
    BY Zenon DEF Mandatory
  <2>3. \A i \in DOMAIN reqs : D[i] \in ToSet(D) /\ E[i] \in ToSet(E)
    BY <1>4
  <2>4. ASSUME NEW i \in DOMAIN reqs
        PROVE  D[i] \in Mandatory(D) <=> \E j \in DOMAIN reqs : D[j].id = D[i].id /\ D[j].mandatory
    BY <1>4, <2>1, <2>3
  <2>5. ASSUME NEW i \in DOMAIN reqs
        PROVE  E[i] \in Mandatory(E) <=> \E j \in DOMAIN reqs : E[j].id = E[i].id /\ E[j].mandatory
    BY <1>4, <2>2, <2>3
  <2> QED BY <2>4, <2>5
<1>7. \A i \in DOMAIN reqs : E[i] \in Mandatory(E) <=> D[i] \in Mandatory(D)
  BY <1>5, <1>6
<1>8. Mandatory(D) \subseteq ToSet(D) /\ Mandatory(E) \subseteq ToSet(E)
  BY DEF Mandatory
<1>9. Supported(control, E)
  <2>1. PICK i \in DOMAIN reqs : D[i] \in Mandatory(D)
    BY <1>1, <1>4, <1>8 DEF Supported
  <2>2. Mandatory(E) # {}
    BY <1>7, <2>1
  <2>3. ASSUME NEW r \in ToSet(E)
        PROVE  r.result = "SUPPORTS" /\ r.validated # FALSE /\ r.relationship \notin {"PARTIAL", "CONTEXT_ONLY"}
    <3>1. PICK k \in DOMAIN reqs : r = E[k]
      BY <1>4
    <3>2. D[k].validated # FALSE /\ D[k].relationship \notin {"PARTIAL", "CONTEXT_ONLY"}
      BY <1>1, <1>4 DEF Supported
    <3> QED BY <1>5, <3>1, <3>2
  <2>4. ASSUME NEW r \in Mandatory(E) PROVE r.confidence >= minimum_confidence
    <3>1. PICK k \in DOMAIN reqs : r = E[k]
      BY <1>4, <1>8
    <3>2. D[k] \in Mandatory(D)
      BY <1>7, <3>1
    <3>3. D[k].confidence >= minimum_confidence
      BY <1>1, <3>2 DEF Supported
    <3> QED BY <1>5, <3>1, <3>3
  <2> QED BY <1>1, <2>2, <2>3, <2>4 DEF Supported
<1> QED BY <1>1, <1>2, <1>9, ControlAssessed DEF E

-----------------------------------------------------------------------------
(* Compliance is earned *)

\* The frameworks that the profiles select, and what is concluded about each control.
Wanted(F, P) == {f \in F : _effective_profile(P, f.id) # None}
StatusIn(f, c, P, e) == evaluate_control(c, _effective_profile(P, f.id), e).status
Apart(F) == \A f, g \in F : f.id = g.id => f = g

\* What the assessments and the overall status come to.
LEMMA ProfileAssessed ==
  ASSUME NEW F, Apart(F), NEW P, NEW e
  PROVE  LET out == assess_compliance(F, P, e)
         IN  /\ \A a \in out.assessments : \E f \in Wanted(F, P) :
                  /\ a = _framework_assessment(f, _effective_profile(P, f.id), e)
                  /\ \A c \in ToSet(f.controls) : StatusIn(f, c, P, e) # "RAISES"
             /\ {f.id : f \in Wanted(F, P)} = {a.id : a \in out.assessments} <=>
                  \A f \in Wanted(F, P) : \A c \in ToSet(f.controls) : StatusIn(f, c, P, e) # "RAISES"
             /\ out.overall = "COMPLIANT" <=>
                  /\ ~mapping_warning(e.mappings)
                  /\ \A f \in Wanted(F, P) : \A c \in ToSet(f.controls) :
                       StatusIn(f, c, P, e) \in {"COMPLIANT", "NOT_APPLICABLE"}
                  /\ \E f \in Wanted(F, P) : \E c \in ToSet(f.controls) : StatusIn(f, c, P, e) # "NOT_APPLICABLE"
<1> DEFINE out == assess_compliance(F, P, e)
           W == Wanted(F, P)
           A(f) == _framework_assessment(f, _effective_profile(P, f.id), e)
           all == {A(f) : f \in W}
           K(f, c) == evaluate_control(c, _effective_profile(P, f.id), e)
           S(f, c) == StatusIn(f, c, P, e)
           controls == UNION {ToSet(a.controls) : a \in all}
           Bad == {"NON_COMPLIANT", "MANUAL_REVIEW", "NOT_ASSESSED", "PARTIALLY_COMPLIANT"}
<1>1. out = concluded(all, mapping_warning(e.mappings))
  BY Zenon DEF assess_compliance, Wanted
<1>2. /\ out.assessments = {a \in all : ~a.raised}
      /\ out.overall = "COMPLIANT" <=>
           /\ \A a \in all : ~a.raised
           /\ ~mapping_warning(e.mappings)
           /\ \E c \in controls : c.applicable
           /\ \A c \in controls : c.status \notin Bad
  BY <1>1, OverallCompliant
<1>3. ASSUME NEW f \in W
      PROVE  /\ A(f).id = f.id
             /\ \A k : k \in ToSet(A(f).controls) <=> \E c \in ToSet(f.controls) : k = K(f, c)
             /\ A(f).raised <=> \E c \in ToSet(f.controls) : S(f, c) = "RAISES"
  BY FrameworkAssessed DEF StatusIn
<1>4. ASSUME NEW f, NEW c
      PROVE  /\ K(f, c).status = S(f, c) /\ (K(f, c).applicable <=> S(f, c) # "NOT_APPLICABLE")
             /\ S(f, c) \in ControlVerdicts \cup {"RAISES", "NOT_APPLICABLE"}
  BY ControlAssessed DEF StatusIn
<1>5. \A a : a \in all <=> \E f \in W : a = A(f)
  OBVIOUS
<1>6. \A k : k \in controls <=> \E f \in W : \E c \in ToSet(f.controls) : k = K(f, c)
  <2>1. \A k : k \in controls <=> \E f \in W : k \in ToSet(A(f).controls)
    OBVIOUS
  <2>2. \A f \in W : \A k : k \in ToSet(A(f).controls) <=> \E c \in ToSet(f.controls) : k = K(f, c)
    BY <1>3, Zenon
  <2> HIDE DEF controls, all, A, K, W
  <2>3. ASSUME NEW k PROVE k \in controls <=> \E f \in W : \E c \in ToSet(f.controls) : k = K(f, c)
    <3>1. ASSUME k \in controls PROVE \E f \in W : \E c \in ToSet(f.controls) : k = K(f, c)
      <4>1. PICK f \in W : k \in ToSet(A(f).controls)
        BY <2>1, <3>1
      <4> QED BY <2>2, <4>1
    <3>2. ASSUME NEW f \in W, NEW c \in ToSet(f.controls), k = K(f, c) PROVE k \in controls
      <4>1. k \in ToSet(A(f).controls)
        BY <2>2, <3>2
      <4> QED BY <2>1, <4>1
    <3> QED BY <3>1, <3>2
  <2> QED BY <2>3
<1> HIDE DEF out, all, A, K, S, controls, W
<1>7. (\A a \in all : ~a.raised) <=> \A f \in W : \A c \in ToSet(f.controls) : S(f, c) # "RAISES"
  BY <1>3, <1>5
<1>8. (\E k \in controls : k.applicable) <=> \E f \in W : \E c \in ToSet(f.controls) : S(f, c) # "NOT_APPLICABLE"
  BY <1>4, <1>6
<1>9. (\A k \in controls : k.status \notin Bad) <=> \A f \in W : \A c \in ToSet(f.controls) : S(f, c) \notin Bad
  BY <1>4, <1>6
<1>10. \A f, c : S(f, c) \in {"COMPLIANT", "NOT_APPLICABLE"} <=> S(f, c) # "RAISES" /\ S(f, c) \notin Bad
  <2> TAKE f, c
  <2>1. S(f, c) \in ControlVerdicts \cup {"RAISES", "NOT_APPLICABLE"}
    BY <1>4
  <2> QED BY <2>1 DEF ControlVerdicts
<1>11. out.overall = "COMPLIANT" <=>
         /\ ~mapping_warning(e.mappings)
         /\ \A f \in W : \A c \in ToSet(f.controls) : S(f, c) \in {"COMPLIANT", "NOT_APPLICABLE"}
         /\ \E f \in W : \E c \in ToSet(f.controls) : S(f, c) # "NOT_APPLICABLE"
  <2> HIDE DEF Bad
  <2> QED BY <1>2, <1>7, <1>8, <1>9, <1>10, Zenon
<1>12. ASSUME NEW a \in out.assessments
       PROVE  \E f \in W : a = A(f) /\ \A c \in ToSet(f.controls) : S(f, c) # "RAISES"
  <2>1. a \in all /\ ~a.raised
    BY <1>2, <1>12
  <2>2. PICK f \in W : a = A(f)
    BY <1>5, <2>1
  <2> QED BY <1>3, <2>1, <2>2
<1>13. {f.id : f \in W} = {a.id : a \in out.assessments} <=>
         \A f \in W : \A c \in ToSet(f.controls) : S(f, c) # "RAISES"
  <2>1. ASSUME \A f \in W : \A c \in ToSet(f.controls) : S(f, c) # "RAISES"
        PROVE  {f.id : f \in W} = {a.id : a \in out.assessments}
    <3>1. out.assessments = all
      BY <1>2, <1>7, <2>1
    <3>2. \A x : x \in {a.id : a \in all} <=> \E f \in W : x = A(f).id
      BY <1>5
    <3> QED BY <1>3, <3>1, <3>2
  <2>2. ASSUME {f.id : f \in W} = {a.id : a \in out.assessments}, NEW f \in W, NEW c \in ToSet(f.controls)
        PROVE  S(f, c) # "RAISES"
    <3>1. PICK a \in out.assessments : f.id = a.id
      BY <2>2
    <3>2. PICK g \in W : a = A(g) /\ \A k \in ToSet(g.controls) : S(g, k) # "RAISES"
      BY <1>12
    <3>3. g = f
      BY <1>3, <3>1, <3>2 DEF Apart, W, Wanted
    <3> QED BY <2>2, <3>2, <3>3
  <2> QED BY <2>1, <2>2
<1> QED BY <1>11, <1>12, <1>13, Zenon DEF out, W, A, S

\* What a requirement that demands a finding comes to.
LEMMA DemandMet ==
  ASSUME NEW r, Demands(r), NEW control, NEW e, Loaded(e.mappings)
  PROVE  LET x == _extract(r, control, e)
             m == _select_mapping(e.mappings, control, r.reference)
             of_rule == {n \in DOMAIN e.findings : e.findings[n].rule = r.reference}
             f == e.findings[earliest(of_rule)]
         IN  /\ x.result = "SUPPORTS" =>
                  /\ m # None /\ m.validated /\ m.relationship = x.relationship /\ m.relationship # "CONTEXT_ONLY"
                  /\ x.confidence >= minimum_confidence => m.confidence >= minimum_confidence
                  /\ of_rule # {}
             /\ (/\ m # None /\ m.validated /\ m.relationship \notin {"CONTEXT_ONLY", "CONTRADICTS"}
                 /\ m.confidence >= minimum_confidence
                 /\ of_rule # {} /\ f.status = "FAIL" /\ r.expected = "PASS") =>
                  x.result = "CONTRADICTS" /\ x.confidence >= minimum_confidence
<1> DEFINE x == _extract(r, control, e)
           m == _select_mapping(e.mappings, control, r.reference)
           of_rule == {n \in DOMAIN e.findings : e.findings[n].rule = r.reference}
           f == e.findings[earliest(of_rule)]
           y == finding_evidence(r, e.findings)
<1>1. x = _apply_mapping(y, m)
  BY DEF _extract, extracted, Demands
<1>2. PICK result \in Results \cup {"RAISES"}, n \in 0..100 : y = evidence_record(r, result, n)
  <2>1. extracted(r, e) = y
    BY DEF extracted, Demands
  <2> QED BY <2>1, ExtractedTyped
<1>3. y = IF of_rule = {} THEN evidence_record(r, "MISSING", 0)
          ELSE IF f.status \in {"NOT_EVALUATED", "NOT_APPLICABLE"} THEN evidence_record(r, "MISSING", 0)
          ELSE IF f.status \in {"ERROR", "PARTIAL", "INFO", "WARNING"} THEN evidence_record(r, "INCONCLUSIVE", 0)
          ELSE evidence_record(r, IF f.status = r.expected THEN "SUPPORTS" ELSE "CONTRADICTS", 95)
  BY Zenon DEF finding_evidence, Demands
<1>4. evidence_record(r, result, n).result = result /\ evidence_record(r, result, n).confidence = n
  BY DEF evidence_record
<1>5. \A s, k : evidence_record(r, s, k).result = s /\ evidence_record(r, s, k).confidence = k
  BY DEF evidence_record
<1> DEFINE z == _apply_mapping(evidence_record(r, result, n), m)
<1>6. /\ m = None => z.result = "INCONCLUSIVE"
      /\ m # None => /\ z.validated = m.validated /\ z.relationship = m.relationship
                     /\ z.confidence = IF m.confidence < n THEN m.confidence ELSE n
      /\ m # None /\ (~m.validated \/ m.relationship = "CONTEXT_ONLY") => z.result = "INCONCLUSIVE"
      /\ m # None /\ m.validated /\ m.relationship # "CONTEXT_ONLY" =>
           z.result = IF m.relationship = "CONTRADICTS" /\ result = "SUPPORTS" THEN "CONTRADICTS"
                      ELSE IF m.relationship = "CONTRADICTS" /\ result = "CONTRADICTS" THEN "SUPPORTS"
                      ELSE result
  BY MappingApplied
<1>7. x = z
  BY <1>1, <1>2
<1>8. m # None => m.confidence \in 0..100 /\ m.validated \in BOOLEAN
  BY MappingSelected DEF Loaded
<1> HIDE DEF x, m, of_rule, f, y, z
<1>9. ASSUME x.result = "SUPPORTS"
      PROVE  /\ m # None /\ m.validated /\ m.relationship = x.relationship /\ m.relationship # "CONTEXT_ONLY"
             /\ x.confidence >= minimum_confidence => m.confidence >= minimum_confidence
             /\ of_rule # {}
  <2>1. m # None /\ m.validated /\ m.relationship # "CONTEXT_ONLY" /\ m.relationship = x.relationship
    BY <1>6, <1>7, <1>9
  <2>2. x.confidence >= minimum_confidence => m.confidence >= minimum_confidence
    BY <1>6, <1>7, <1>8, <2>1 DEF minimum_confidence
  <2>3. result \in {"SUPPORTS", "CONTRADICTS"}
    BY <1>6, <1>7, <1>9, <2>1
  <2>4. of_rule # {}
    BY <1>2, <1>3, <1>4, <1>5, <2>3
  <2> QED BY <2>1, <2>2, <2>4
<1>10. ASSUME m # None, m.validated, m.relationship \notin {"CONTEXT_ONLY", "CONTRADICTS"},
              m.confidence >= minimum_confidence, of_rule # {}, f.status = "FAIL", r.expected = "PASS"
       PROVE  x.result = "CONTRADICTS" /\ x.confidence >= minimum_confidence
  <2>1. y = evidence_record(r, "CONTRADICTS", 95)
    BY <1>3, <1>10
  <2>2. result = "CONTRADICTS" /\ n = 95
    BY <1>2, <1>4, <1>5, <2>1
  <2>3. x.result = "CONTRADICTS"
    BY <1>6, <1>7, <1>10, <2>2
  <2>4. x.confidence >= minimum_confidence
    BY <1>6, <1>7, <1>8, <1>10, <2>2 DEF minimum_confidence
  <2> QED BY <2>3, <2>4
<1> QED BY <1>9, <1>10 DEF x, m, of_rule, f

\* Frameworks, profiles and evidence as they are loaded.
Profiled(F, P, e) ==
  /\ P \in Seq(ProfileRecords) /\ None \notin ProfileRecords
  /\ Apart(F)
  /\ \A f \in F : /\ \A c, d \in ToSet(f.controls) : c.id = d.id => c = d
                  /\ \A c \in ToSet(f.controls) : \A r \in ToSet(c.requirements) : Childlike(r)
  /\ Evident(e) /\ Loaded(e.mappings)

LEMMA ProfileLoaded ==
  ASSUME input \in Inputs, input.kind = "compliance"
  PROVE  Profiled(input.frameworks, input.profiles, input.evidence)
BY ProfilesAssumption, Zenon DEF Profiled, ProfileRecords, Apart, Childlike, Evident, IsList, Loaded, Relationships

\* The scope of a framework that is selected is that of the profiles that name it.
LEMMA ScopeFollows ==
  ASSUME Profiled(input.frameworks, input.profiles, input.evidence)
  PROVE  /\ Selected = Wanted(input.frameworks, input.profiles)
         /\ ScopeFollowsProfiles
<1>1. ASSUME NEW f \in input.frameworks
      PROVE  /\ _effective_profile(input.profiles, f.id) # None <=> Named(f) # {}
             /\ Named(f) # {} => \A c :
                  /\ (\A n \in Named(f) : _is_applicable(c, input.profiles[n])) => InScope(c, f)
                  /\ InScope(c, f) =>
                       \A n \in Named(f) : (\A k \in Named(f) : k <= n) => _is_applicable(c, input.profiles[n])
  <2>1. Named(f) = Naming(input.profiles, f.id)
    BY Zenon DEF Named, Naming
  <2>2. input.profiles \in Seq(ProfileRecords) /\ None \notin ProfileRecords
    BY DEF Profiled
  <2> QED BY <2>1, <2>2, ScopeMerges, Zenon DEF InScope
<1>2. Selected = Wanted(input.frameworks, input.profiles)
  BY <1>1 DEF Selected, Wanted
<1>3. ScopeFollowsProfiles
  <2>1. \A f \in Selected : f \in input.frameworks /\ Named(f) # {}
    BY DEF Selected
  <2> QED BY <1>1, <2>1, Zenon DEF ScopeFollowsProfiles
<1> QED BY <1>2, <1>3

\* A profile is compliant only on evidence that counts.
LEMMA CompliantBacked ==
  ASSUME Profiled(input.frameworks, input.profiles, input.evidence),
         output = assess_compliance(input.frameworks, input.profiles, input.evidence)
  PROVE  CompliantIsBacked
<1> DEFINE F == input.frameworks
           P == input.profiles
           e == input.evidence
<1> SUFFICES ASSUME output.overall = "COMPLIANT" PROVE CompliantIsBacked
  BY DEF CompliantIsBacked
<1>1. Apart(F) /\ Selected = Wanted(F, P) /\ Loaded(e.mappings)
  BY ScopeFollows DEF Profiled
<1>2. \A f \in Wanted(F, P) : \A c \in ToSet(f.controls) : StatusIn(f, c, P, e) \in {"COMPLIANT", "NOT_APPLICABLE"}
  BY <1>1, ProfileAssessed
<1>3. {f.id : f \in Wanted(F, P)} = {a.id : a \in output.assessments}
  <2>1. \A f \in Wanted(F, P) : \A c \in ToSet(f.controls) : StatusIn(f, c, P, e) # "RAISES"
    BY <1>2
  <2> QED BY <1>1, <2>1, ProfileAssessed
<1>4. ASSUME NEW f \in Selected, NEW c \in ToSet(f.controls), InScope(c, f)
      PROVE  /\ c.scope # {"ORGANISATION"}
             /\ \A r \in ToSet(c.requirements) : Demands(r) =>
                  /\ Counts(c, r, {"SUPPORTS", "CONTRADICTS"}, minimum_confidence)
                  /\ \E x \in ToSet(e.findings) : x.rule = r.reference
  <2> DEFINE E == Evidence(c, e)
  <2>1. StatusIn(f, c, P, e) \in {"COMPLIANT", "NOT_APPLICABLE"}
    BY <1>1, <1>2, <1>4
  <2>2. c.scope # {"ORGANISATION"} /\ Supported(c, E)
    BY <1>4, <2>1, ControlAssessed DEF StatusIn, InScope
  <2>3. ASSUME NEW r \in ToSet(c.requirements), Demands(r)
        PROVE  /\ Counts(c, r, {"SUPPORTS", "CONTRADICTS"}, minimum_confidence)
               /\ \E x \in ToSet(e.findings) : x.rule = r.reference
    <3> DEFINE x == _extract(r, c, e)
               m == _select_mapping(e.mappings, c, r.reference)
               of_rule == {n \in DOMAIN e.findings : e.findings[n].rule = r.reference}
    <3>1. x \in ToSet(E)
      BY <2>3, Listed DEF Evidence
    <3>2. x.mandatory
      BY <2>3, RequirementTyped DEF Demands
    <3> HIDE DEF E
    <3>3. x \in Mandatory(E)
      <4> HIDE DEF x
      <4> QED BY <3>1, <3>2 DEF Mandatory
    <3>4. x.result = "SUPPORTS" /\ x.relationship \notin {"PARTIAL", "CONTEXT_ONLY"} /\ x.confidence >= minimum_confidence
      BY <2>2, <3>1, <3>3 DEF Supported
    <3>5. /\ m # None /\ m.validated /\ m.relationship = x.relationship /\ m.relationship # "CONTEXT_ONLY"
          /\ m.confidence >= minimum_confidence
          /\ of_rule # {}
      BY <1>1, <2>3, <3>4, DemandMet
    <3>6. m \in ToSet(e.mappings) /\ Maps(m, c, r.reference)
      BY <1>1, <3>5, MappingSelected
    <3> HIDE DEF m, x
    <3>7. m.relationship \in {"SUPPORTS", "CONTRADICTS"}
      BY <1>1, <3>4, <3>5, <3>6 DEF Loaded, Relationships
    <3>8. Counts(c, r, {"SUPPORTS", "CONTRADICTS"}, minimum_confidence)
      BY <3>5, <3>6, <3>7, Zenon DEF Counts, Maps
    <3>9. \E y \in ToSet(e.findings) : y.rule = r.reference
      BY <3>5, Listed
    <3> QED BY <3>8, <3>9
  <2> QED BY <2>2, <2>3
<1> QED BY <1>1, <1>3, <1>4, Zenon DEF CompliantIsBacked

\* A failure that counts is never explained away.
LEMMA FailureCounts ==
  ASSUME Profiled(input.frameworks, input.profiles, input.evidence),
         output = assess_compliance(input.frameworks, input.profiles, input.evidence)
  PROVE  FailureStands
<1> DEFINE F == input.frameworks
           P == input.profiles
           e == input.evidence
<1>1. Apart(F) /\ Selected = Wanted(F, P) /\ Loaded(e.mappings)
  BY ScopeFollows DEF Profiled
<1> DEFINE of_rule(r) == {i \in DOMAIN e.findings : e.findings[i].rule = r.reference}
           failed(f, c, r) ==
             /\ Demands(r) /\ InScope(c, f) /\ c.scope # {"ORGANISATION"} /\ r.expected = "PASS"
             /\ of_rule(r) # {} /\ e.findings[earliest(of_rule(r))].status = "FAIL"
             /\ Counts(c, r, {"SUPPORTS", "PARTIAL"}, minimum_confidence)
             /\ ~Counts(c, r, {"CONTRADICTS", "CONTEXT_ONLY"}, 0)
<1>2. ASSUME NEW a \in output.assessments, NEW f \in Selected, a.id = f.id, NEW c \in ToSet(f.controls),
             NEW r \in ToSet(c.requirements), failed(f, c, r), NEW k \in ToSet(a.controls), k.id = c.id
      PROVE  k.status = "NON_COMPLIANT"
  <2> DEFINE p == _effective_profile(P, f.id)
             E == Evidence(c, e)
             x == _extract(r, c, e)
             m == _select_mapping(e.mappings, c, r.reference)
  <2>1. /\ a = _framework_assessment(f, p, e)
        /\ \A d \in ToSet(f.controls) : StatusIn(f, d, P, e) # "RAISES"
    <3>1. \A b \in output.assessments : \E g \in Wanted(F, P) :
            /\ b = _framework_assessment(g, _effective_profile(P, g.id), e)
            /\ \A d \in ToSet(g.controls) : StatusIn(g, d, P, e) # "RAISES"
      BY <1>1, ProfileAssessed
    <3>2. PICK g \in Wanted(F, P) : /\ a = _framework_assessment(g, _effective_profile(P, g.id), e)
                                    /\ \A d \in ToSet(g.controls) : StatusIn(g, d, P, e) # "RAISES"
      BY <1>2, <3>1, Zenon
    <3>3. _framework_assessment(g, _effective_profile(P, g.id), e).id = g.id
      <4> DEFINE q == _effective_profile(P, g.id)
      <4> HIDE DEF q, e
      <4>1. _framework_assessment(g, q, e).id = g.id
        BY FrameworkAssessed
      <4> QED BY <4>1 DEF q
    <3>4. g.id = f.id
      BY <1>2, <3>2, <3>3, Zenon
    <3>5. g = f
      <4>1. f \in Wanted(F, P)
        BY <1>1, <1>2, Zenon
      <4>2. f \in F /\ g \in F
        BY <4>1, Zenon DEF Wanted
      <4> QED BY <1>1, <3>4, <4>2, Zenon DEF Apart
    <3> QED BY <3>2, <3>5, Zenon
  <2>2. k = evaluate_control(c, p, e)
    <3>1. PICK d \in ToSet(f.controls) : k = evaluate_control(d, p, e)
      <4>1. \A h : h \in ToSet(a.controls) <=> \E d \in ToSet(f.controls) : h = evaluate_control(d, p, e)
        BY <2>1, FrameworkAssessed
      <4> QED BY <1>2, <4>1
    <3>2. d.id = c.id
      BY <1>2, <3>1, ControlAssessed
    <3>3. f \in F
      BY <1>1, <1>2 DEF Wanted
    <3>4. d = c
      BY <1>2, <3>2, <3>3 DEF Profiled
    <3> QED BY <3>1, <3>4
  <2>3. _is_applicable(c, p) /\ c.requirements # <<>>
    <3>1. c.requirements # <<>>
      BY <1>2 DEF ToSet
    <3> QED BY <1>2, <3>1 DEF InScope
  <2>4. k.status # "RAISES"
    BY <1>2, <2>1, <2>2 DEF StatusIn
  <2>5. ~Raises(E) /\ k.status = verdict_of(c, E)
    BY <1>2, <2>2, <2>3, <2>4, ControlAssessed
  <2>6. PICK v \in ToSet(e.mappings) : Maps(v, c, r.reference) /\ v.validated /\ v.confidence >= minimum_confidence
    BY <1>2, Zenon DEF Counts, Maps
  <2>7. m # None /\ m.validated /\ v.confidence <= m.confidence /\ m \in ToSet(e.mappings) /\ Maps(m, c, r.reference)
    BY <1>1, <2>6, MappingSelected
  <2> HIDE DEF m
  <2>8. m.confidence >= minimum_confidence /\ m.confidence >= 0
    <3>1. v.confidence \in 0..100 /\ m.confidence \in 0..100
      BY <1>1, <2>6, <2>7 DEF Loaded
    <3> QED BY <2>6, <2>7, <3>1 DEF minimum_confidence
  <2>9. m.relationship \notin {"CONTEXT_ONLY", "CONTRADICTS"}
    BY <1>2, <2>7, <2>8, Zenon DEF Counts, Maps
  <2>10. x.result = "CONTRADICTS" /\ x.confidence >= minimum_confidence
    BY <1>1, <1>2, <2>7, <2>8, <2>9, DemandMet DEF m
  <2>11. x \in ToSet(E)
    BY <1>2, Listed DEF Evidence
  <2>12. x.mandatory
    BY <1>2, RequirementTyped DEF Demands
  <2>13. \A y \in ToSet(E) : y.result \in Results
    <3>1. ASSUME NEW y \in ToSet(E) PROVE y.result \in Results \cup {"RAISES"}
      <4>1. PICK n \in DOMAIN c.requirements : y = _extract(c.requirements[n], c, e)
        BY <3>1, Listed DEF Evidence
      <4> QED BY <4>1, RequirementTyped
    <3> QED BY <2>5, <3>1 DEF Raises
  <2> HIDE DEF E, x
  <2>14. x \in Mandatory(E)
    BY <2>11, <2>12 DEF Mandatory
  <2>15. (\E y \in Mandatory(E) : y.result = "CONTRADICTS" /\ y.confidence >= minimum_confidence) =>
           verdict_of(c, E) = "NON_COMPLIANT"
    BY <2>13, VerdictOf
  <2> QED BY <2>5, <2>10, <2>14, <2>15, Zenon
<1> HIDE DEF failed
<1>3. ASSUME NEW a \in output.assessments, NEW f \in Selected, a.id = f.id
      PROVE  \A c \in ToSet(f.controls) : \A r \in ToSet(c.requirements) :
               failed(f, c, r) => \A k \in ToSet(a.controls) : k.id = c.id => k.status = "NON_COMPLIANT"
  BY <1>2, <1>3, Zenon
<1>4. \A a \in output.assessments, f \in Selected : a.id = f.id =>
        \A c \in ToSet(f.controls) : \A r \in ToSet(c.requirements) :
          failed(f, c, r) => \A k \in ToSet(a.controls) : k.id = c.id => k.status = "NON_COMPLIANT"
  BY <1>3, Zenon
<1> QED BY <1>4, Zenon DEF failed, FailureStands

\* Losing evidence earns nothing.
LEMMA LossEarns ==
  ASSUME Profiled(input.frameworks, input.profiles, input.evidence),
         output = assess_compliance(input.frameworks, input.profiles, input.evidence)
  PROVE  LossEarnsNothing
<1> DEFINE F == input.frameworks
           P == input.profiles
           e == input.evidence
<1>1. Apart(F) /\ Selected = Wanted(F, P) /\ Evident(e)
  BY ScopeFollows DEF Profiled
<1> SUFFICES ASSUME ~\E f \in Selected : AsksAbsence(f), {f.id : f \in Selected} = {a.id : a \in output.assessments},
                    NEW d \in Poorer(e), assess_compliance(F, P, d).overall = "COMPLIANT"
             PROVE  output.overall = "COMPLIANT"
  BY Zenon DEF LossEarnsNothing
<1>2. d.mappings = e.mappings /\ \A q : q.operator # "NOT_EXISTS" => Losing(q, d, e)
  BY <1>1, EvidenceLost DEF Losing
<1>3. /\ ~mapping_warning(d.mappings)
      /\ \A f \in Wanted(F, P) : \A c \in ToSet(f.controls) : StatusIn(f, c, P, d) \in {"COMPLIANT", "NOT_APPLICABLE"}
      /\ \E f \in Wanted(F, P) : \E c \in ToSet(f.controls) : StatusIn(f, c, P, d) # "NOT_APPLICABLE"
  BY <1>1, ProfileAssessed
<1>4. \A f \in Wanted(F, P) : \A c \in ToSet(f.controls) : StatusIn(f, c, P, e) # "RAISES"
  BY <1>1, ProfileAssessed
<1>5. ASSUME NEW f \in Wanted(F, P), NEW c \in ToSet(f.controls)
      PROVE  StatusIn(f, c, P, e) = StatusIn(f, c, P, d)
  <2> DEFINE p == _effective_profile(P, f.id)
  <2>1. CASE StatusIn(f, c, P, d) = "NOT_APPLICABLE"
    BY <2>1, ControlAssessed DEF StatusIn
  <2>2. CASE StatusIn(f, c, P, d) = "COMPLIANT"
    <3>1. f \in F /\ ~AsksAbsence(f)
      BY <1>1, <1>5 DEF Wanted
    <3>2. \A r \in ToSet(c.requirements) : Childlike(r) /\ Asking(r)
      BY <1>5, <3>1 DEF Profiled, AsksAbsence, Asking
    <3>3. evaluate_control(c, p, d).status = "COMPLIANT" /\ evaluate_control(c, p, e).status # "RAISES"
      BY <1>4, <1>5, <2>2 DEF StatusIn
    <3>4. evaluate_control(c, p, e).status = "COMPLIANT"
      BY <1>2, <3>2, <3>3, ControlLost
    <3> QED BY <2>2, <3>4 DEF StatusIn
  <2> QED BY <1>3, <1>5, <2>1, <2>2
<1>6. /\ ~mapping_warning(e.mappings)
      /\ \A f \in Wanted(F, P) : \A c \in ToSet(f.controls) : StatusIn(f, c, P, e) \in {"COMPLIANT", "NOT_APPLICABLE"}
      /\ \E f \in Wanted(F, P) : \E c \in ToSet(f.controls) : StatusIn(f, c, P, e) # "NOT_APPLICABLE"
  BY <1>2, <1>3, <1>5
<1> QED BY <1>1, <1>6, ProfileAssessed

LEMMA DecidedEarned ==
  ASSUME Answered PROVE ComplianceIsEarned
<1> SUFFICES ASSUME DecidedOf("compliance") PROVE ComplianceIsEarned
  BY DEF ComplianceIsEarned
<1>1. /\ output = assess_compliance(input.frameworks, input.profiles, input.evidence)
      /\ Profiled(input.frameworks, input.profiles, input.evidence)
  BY ProfileLoaded, Zenon DEF Answered, DecidedOf
<1> QED BY <1>1, ScopeFollows, CompliantBacked, FailureCounts, LossEarns, Zenon DEF ComplianceIsEarned

\* Compliance rests on findings that are there and mappings that a person validated, a
\* failure that counts stands, losing evidence earns nothing, and a control is in scope
\* as the profiles say: for every profile, framework and evidence.
THEOREM ComplianceIsEarnedAlways == Spec => []ComplianceIsEarned
<1>1. Spec => []Answered
  BY InitAnswered, NextAnswered, PTL DEF Spec
<1> QED BY <1>1, DecidedEarned, PTL

-----------------------------------------------------------------------------
(* The trusted collector *)

\* A key that signs is one that the policy enrols for the role: not revoked,
\* in its time, and with the signature's public key.
LEMMA SignedByEnrolled ==
  ASSUME NEW v, NEW signature, NEW p, NEW role, NEW now, VerifySigned(v, signature, p, role, now)
  PROVE  \E k \in {key \in ToSet(p[role]) : key.id = v.key} :
           /\ ~k.revoked /\ now < k.until
           /\ k.spki = signature.spki /\ signature.of = v
           /\ role = "labs" => v.origin = k.origin /\ v.tls = k.tls
  BY DEF VerifySigned, Key, Window

\* Publishers and Labs never share a public key.
LEMMA RolesApart ==
  ASSUME NEW b, NEW now, Policy(b.policy, now),
         NEW p \in ToSet(b.policy.publishers), NEW l \in ToSet(b.policy.labs)
  PROVE  p.spki # l.spki
  BY DEF Policy, ToSet

\* The approved profile of a session is one of the release.
LEMMA ProfileApproved ==
  ASSUME NEW release, NEW session, VerifyProfile(release, session)
  PROVE  \E p \in ToSet(release.profiles) :
           p.id = session.profile /\ p.digest = session.profile_digest /\ p.privacy = session.privacy
<1> DEFINE matches == {i \in DOMAIN release.profiles : release.profiles[i].id = session.profile}
<1>1. Cardinality(matches) = 1
  BY Zenon DEF VerifyProfile
<1>2. matches # {}
  <2> HIDE DEF matches
  <2> QED BY <1>1, FS_EmptySet
<1> QED BY <1>2 DEF VerifyProfile, ToSet

\* What an archive that was verified and staged contains under a name is what is
\* staged under it.
LEMMA StagedAsArchived ==
  ASSUME NEW archive, NEW staged, LeaseVerifiedFiles(archive, staged), NEW name \in Names(ToSet(archive))
  PROVE  \E e \in ToSet(archive) :
           e.path.name = name /\ \A path : path.name = name => ContentAt(staged, path) = {e.content}
<1>1. PICK e \in ToSet(archive) : e.path.name = name
  BY DEF Names
<1>2. \A path : path.name = name => ContentAt(staged, path) = ContentAt(staged, e.path)
  BY <1>1 DEF ContentAt
<1> QED BY <1>1, <1>2 DEF LeaseVerifiedFiles

\* Each file of the publisher's inventory is staged as it was released.
LEMMA InventoryStaged ==
  ASSUME NEW b, EngineInventory(b.release), VerifyArchive(b.archive, b.release, b.session),
         LeaseVerifiedFiles(b.archive, b.staged),
         NEW f \in ToSet(b.release.files), f.path.name # Manifest.name
  PROVE  ContentAt(b.staged, f.path) = {f.content}
<1>1. f.path.name \in Names(ToSet(b.archive))
  BY DEF VerifyArchive, Names
<1>2. PICK e \in ToSet(b.archive) : e.path.name = f.path.name /\ ContentAt(b.staged, f.path) = {e.content}
  BY <1>1, StagedAsArchived
<1>3. e.path # Manifest
  BY <1>2
<1>4. e \in ToSet(b.release.files)
  BY <1>2, <1>3 DEF VerifyArchive, Names
<1>5. e = f
  BY <1>2, <1>4 DEF EngineInventory, distinct, ToSet
<1> QED BY <1>2, <1>5

\* The manifest, the configuration and the certificate have one content each.
LEMMA DataStaged ==
  ASSUME NEW b, VerifyArchive(b.archive, b.release, b.session), LeaseVerifiedFiles(b.archive, b.staged),
         NEW path \in {Manifest, Configuration, Certificate}
  PROVE  \E e \in ToSet(b.archive) : e.path.name = path.name /\ ContentAt(b.staged, path) = {e.content}
<1>1. path.name \in {d.name : d \in DataPaths \cup {Manifest}}
  BY DEF DataPaths
<1>2. path.name \in Names(ToSet(b.archive))
  BY <1>1 DEF VerifyArchive
<1> QED BY <1>2, StagedAsArchived

\* The keys that vouch for a run: enrolled, different, unrevoked and in time, and
\* the configuration leads to the address and certificate enrolled for the Lab.
LEMMA RunVouchedFor ==
  ASSUME NEW b, RunTrustedVerified(b)
  PROVE  \E p \in {k \in ToSet(b.policy["publishers"]) : k.id = b.release.key},
            l \in {k \in ToSet(b.policy["labs"]) : k.id = b.session.key} :
           /\ ~p.revoked /\ ~l.revoked /\ p.spki # l.spki
           /\ b.started < p.until /\ b.started < l.until
           /\ p.spki = b.release_signature.spki /\ b.release_signature.of = b.release
           /\ l.spki = b.session_signature.spki /\ b.session_signature.of = b.session
           /\ \A c \in ContentAt(b.staged, Configuration) :
                b.configs[c].origin = l.origin /\ b.configs[c].tls = l.tls
           /\ ContentAt(b.staged, Certificate) = {l.tls}
<1>1. /\ VerifySigned(b.release, b.release_signature, b.policy, "publishers", b.started)
      /\ VerifySigned(b.session, b.session_signature, b.policy, "labs", b.started)
      /\ Policy(b.policy, b.started)
      /\ VerifyArchive(b.archive, b.release, b.session)
      /\ LeaseVerifiedFiles(b.archive, b.staged)
      /\ VerifyTrustedConfiguration(b)
  BY DEF RunTrustedVerified, BundleVerified
<1>2. PICK p \in {k \in ToSet(b.policy["publishers"]) : k.id = b.release.key} :
        /\ ~p.revoked /\ b.started < p.until
        /\ p.spki = b.release_signature.spki /\ b.release_signature.of = b.release
  BY <1>1, SignedByEnrolled
<1>3. PICK l \in {k \in ToSet(b.policy["labs"]) : k.id = b.session.key} :
        /\ ~l.revoked /\ b.started < l.until
        /\ l.spki = b.session_signature.spki /\ b.session_signature.of = b.session
        /\ b.session.origin = l.origin /\ b.session.tls = l.tls
  BY <1>1, SignedByEnrolled
<1>4. p.spki # l.spki
  BY <1>1, RolesApart
<1>5. PICK e \in ToSet(b.archive) : ContentAt(b.staged, Configuration) = {e.content}
  BY <1>1, DataStaged
<1>6. /\ \A c \in ContentAt(b.staged, Configuration) :
           b.configs[c].origin = b.session.origin /\ b.configs[c].tls = b.session.tls
      /\ ContentAt(b.staged, Certificate) = {b.session.tls}
  BY <1>1, <1>5 DEF VerifyTrustedConfiguration
<1> QED BY <1>2, <1>3, <1>4, <1>6

\* A manifest of the archive is the one that is staged, and it lists what is staged
\* besides the files that bear the manifest's name.
LEMMA StagedAreListed ==
  ASSUME NEW b, RunTrustedVerified(b)
  PROVE  Names(b.staged) \subseteq Names(ToSet(b.archive)) \cup CalledManifest
<1>1. /\ VerifyArchive(b.archive, b.release, b.session)
      /\ LeaseVerifiedFiles(b.archive, b.staged)
      /\ ExtractVerifiedArchive(b.archive, b.lists)
      /\ TestTrustedPackage(b)
  BY DEF RunTrustedVerified
<1>2. PICK e \in ToSet(b.archive) :
        e.path.name = Manifest.name /\ ContentAt(b.staged, Manifest) = {e.content}
  BY <1>1, DataStaged
<1>3. Names(ToSet(b.lists[e.content].files)) \subseteq Names(ToSet(b.archive))
  <2> DEFINE entries == ToSet(b.archive)
             manifest == {m \in entries : m.path.name = Manifest.name}
  <2>1. e \in manifest
    BY <1>2
  <2>2. Names(entries \ manifest) = Names(ToSet(b.lists[e.content].files))
    BY <1>1, <2>1, Zenon DEF ExtractVerifiedArchive
  <2>3. Names(entries \ manifest) \subseteq Names(entries)
    BY DEF Names
  <2> QED BY <2>2, <2>3
<1>4. Names({f \in b.staged : f.path.name \notin CalledManifest}) = Names(ToSet(b.lists[e.content].files))
  BY <1>1, <1>2 DEF TestTrustedPackage
<1>5. ASSUME NEW f \in b.staged
      PROVE  f.path.name \in Names(ToSet(b.archive)) \cup CalledManifest
  <2>1. CASE f.path.name \in CalledManifest
    BY <2>1
  <2>2. CASE f.path.name \notin CalledManifest
    BY <1>3, <1>4, <2>2 DEF Names
  <2> QED BY <2>1, <2>2
<1> QED BY <1>5 DEF Names

\* Every entry of the archive is of the inventory, of the session, or the manifest.
LEMMA ArchiveNames ==
  ASSUME NEW b, VerifyArchive(b.archive, b.release, b.session)
  PROVE  Names(ToSet(b.archive)) \subseteq
           Names(ToSet(b.release.files)) \cup {d.name : d \in DataPaths} \cup CalledManifest
<1>1. ASSUME NEW e \in ToSet(b.archive)
      PROVE  e.path.name \in Names(ToSet(b.release.files)) \cup {d.name : d \in DataPaths} \cup CalledManifest
  <2>1. CASE e.path = Manifest
    BY <2>1 DEF CalledManifest
  <2>2. CASE e.path # Manifest
    BY <2>2 DEF VerifyArchive
  <2> QED BY <2>1, <2>2
<1> QED BY <1>1 DEF Names

\* A machine policy against scripts is in force whatever the user's says.
LEMMA MachineObeyed ==
  ASSUME NEW machine, NEW user, VerifyEnforcedScriptPolicy(machine, user)
  PROVE  0 # machine.enabled /\ machine.execution # "Restricted"
  BY NoneAssumption, PolicyAssumption DEF VerifyEnforcedScriptPolicy

\* The decision about a bundle, whatever the bundle is.
LEMMA AcceptedIsSigned ==
  ASSUME Answered PROVE OnlySignedRuns
<1> SUFFICES ASSUME DecidedOf("bundle"), output.accepted PROVE OnlySignedRuns
  BY DEF OnlySignedRuns
<1>1. RunTrustedVerified(input)
  BY DEF Answered
<1>2. /\ VerifyArchive(input.archive, input.release, input.session)
      /\ LeaseVerifiedFiles(input.archive, input.staged)
      /\ EngineInventory(input.release) /\ VerifyProfile(input.release, input.session)
      /\ VerifyTrustedConfiguration(input)
  BY <1>1 DEF RunTrustedVerified, BundleVerified
<1>3. \A f \in ToSet(input.release.files) :
        f.path.name # Manifest.name => ContentAt(input.staged, f.path) = {f.content}
  BY <1>2, InventoryStaged
<1>4. Names(input.staged) \subseteq
        Names(ToSet(input.release.files)) \cup {d.name : d \in DataPaths} \cup CalledManifest
  BY <1>1, <1>2, StagedAreListed, ArchiveNames
<1>5. input.session.recipient = input.policy.endpoint /\ input.launched < input.session.until
  BY <1>1 DEF RunTrustedVerified, BundleVerified, VerifySigned, Window
<1>6. PICK p \in ToSet(input.release.profiles) :
        /\ p.id = input.session.profile /\ p.digest = input.session.profile_digest
        /\ p.privacy = input.session.privacy
  BY <1>2, ProfileApproved
<1>7. \E e \in input.staged : e.content = input.session.privacy
  BY <1>2 DEF VerifyTrustedConfiguration, ContentAt
<1>8. 0 # input.machine.enabled /\ input.machine.execution # "Restricted"
  BY <1>1, MachineObeyed DEF RunTrustedVerified
<1>9. \E q \in ToSet(input.release.profiles) :
        /\ q.id = input.session.profile /\ q.digest = input.session.profile_digest
        /\ \E e \in input.staged : e.content = q.privacy
  <2>1. \E e \in input.staged : e.content = p.privacy
    BY <1>6, <1>7, Zenon
  <2> QED BY <1>6, <2>1, Zenon
<1>10. \E q \in {k \in ToSet(input.policy["publishers"]) : k.id = input.release.key},
          l \in {k \in ToSet(input.policy["labs"]) : k.id = input.session.key} :
         /\ ~q.revoked /\ ~l.revoked /\ q.spki # l.spki
         /\ input.started < q.until /\ input.started < l.until
         /\ q.spki = input.release_signature.spki /\ input.release_signature.of = input.release
         /\ l.spki = input.session_signature.spki /\ input.session_signature.of = input.session
         /\ \A c \in ContentAt(input.staged, Configuration) :
              input.configs[c].origin = l.origin /\ input.configs[c].tls = l.tls
         /\ ContentAt(input.staged, Certificate) = {l.tls}
  BY <1>1, RunVouchedFor
<1> QED BY <1>3, <1>4, <1>5, <1>8, <1>9, <1>10, Zenon DEF OnlySignedRuns

\* Only what an enrolled publisher and an enrolled Lab signed for this endpoint runs:
\* for every bundle, policy and staged directory.
THEOREM OnlySignedRunsAlways == Spec => []OnlySignedRuns
<1>1. Spec => []Answered
  BY InitAnswered, NextAnswered, PTL DEF Spec
<1> QED BY <1>1, AcceptedIsSigned, PTL

=============================================================================
