---------------------------- MODULE Triage_proofs ----------------------------
(***************************************************************************)
(* Proofs about Triage and the scores of Evaluation, for any weights and   *)
(* any budget, any identifiers, any ground truths, any answers, and logs   *)
(* of any length.                                                          *)
(* Scores: a dimension that cannot rise for a reason of its own (Quotient, *)
(* Harmonic, Within), then all of them together (AggregateGrows).          *)
(* The run: the log grows at its end, where Picked keeps what it has of    *)
(* the places before (PickedAppend).                                       *)
(***************************************************************************)
EXTENDS Triage, Enumerations_proofs

(* The greater and the smaller of two numbers. *)
LEMMA MaxOfTwo ==
  ASSUME NEW a \in Int, NEW b \in Int
  PROVE  Max({a, b}) = IF a >= b THEN a ELSE b
  <1> DEFINE m == IF a >= b THEN a ELSE b
  <1>1. \A x \in {a, b} : (\A y \in {a, b} : x >= y) <=> x = m
    OBVIOUS
  <1>2. m \in {a, b}
    OBVIOUS
  <1> QED
    BY <1>1, <1>2 DEF Max

(* The smaller of two numbers. *)
LEMMA MinOfTwo ==
  ASSUME NEW a \in Int, NEW b \in Int
  PROVE  Min({a, b}) = IF a <= b THEN a ELSE b
  <1> DEFINE m == IF a <= b THEN a ELSE b
  <1>1. \A x \in {a, b} : (\A y \in {a, b} : x <= y) <=> x = m
    OBVIOUS
  <1>2. m \in {a, b}
    OBVIOUS
  <1> QED
    BY <1>1, <1>2 DEF Min

(* A quotient is the greatest number of times the divisor fits. *)
LEMMA Quotient ==
  ASSUME NEW a \in Nat, NEW n \in Nat, n > 0
  PROVE  /\ a \div n \in Nat /\ n * (a \div n) <= a /\ a < n * (a \div n) + n
  OBVIOUS

(* A number is at most a quotient when its multiple is at most the         *)
(* dividend.                                                               *)
LEMMA QuotientBound ==
  ASSUME NEW a \in Nat, NEW n \in Nat, n > 0, NEW q \in Nat
  PROVE  q <= a \div n <=> n * q <= a
  <1> DEFINE d == a \div n
  <1>1. d \in Nat /\ n * d <= a /\ a < n * d + n
    BY Quotient
  <1> HIDE DEF d
  <1>2. CASE q <= d
    <2>1. PICK k \in Nat : d = q + k
      <3>1. d - q \in Nat /\ d = q + (d - q)
        BY <1>1, <1>2
      <3> QED
        BY <3>1
    <2>2. n * d = n * q + n * k /\ n * k \in Nat /\ n * q \in Nat /\ n * d \in Nat
      BY <2>1
    <2> QED
      BY <1>1, <1>2, <2>2 DEF d
  <1>3. CASE ~(q <= d)
    <2>1. PICK k \in Nat : q = d + 1 + k
      <3>1. q - d - 1 \in Nat /\ q = d + 1 + (q - d - 1)
        BY <1>1, <1>3
      <3> QED
        BY <3>1
    <2>2. n * q = n * d + n + n * k /\ n * k \in Nat /\ n * q \in Nat /\ n * d \in Nat
      BY <1>1, <2>1
    <2> QED
      BY <1>1, <1>3, <2>2 DEF d
  <1> QED
    BY <1>2, <1>3

(* A quotient grows with the dividend and falls with the divisor. *)
LEMMA QuotientGrows ==
  ASSUME NEW a \in Nat, NEW b \in Nat, a <= b, NEW n \in Nat, n > 0
  PROVE  a \div n <= b \div n
  <1>1. a \div n \in Nat /\ n * (a \div n) <= a
    BY Quotient
  <1>2. n * (a \div n) <= b
    <2>1. n * (a \div n) \in Nat
      BY <1>1
    <2> QED
      BY <1>1, <2>1
  <1> QED
    BY <1>1, <1>2, QuotientBound

(* A quotient falls as its divisor grows. *)
LEMMA QuotientFalls ==
  ASSUME NEW a \in Nat, NEW m \in Nat, NEW n \in Nat, 0 < m, m <= n
  PROVE  a \div n <= a \div m
  <1> DEFINE q == a \div n
  <1>1. q \in Nat /\ n * q <= a
    BY Quotient
  <1> HIDE DEF q
  <1>2. m * q <= n * q /\ m * q \in Nat /\ n * q \in Nat
    <2>1. PICK k \in Nat : n = m + k
      <3>1. n - m \in Nat /\ n = m + (n - m)
        OBVIOUS
      <3> QED
        BY <3>1
    <2>2. n * q = m * q + k * q /\ k * q \in Nat /\ m * q \in Nat
      BY <1>1, <2>1
    <2> QED
      BY <2>2
  <1>3. q <= a \div m
    BY <1>1, <1>2, QuotientBound
  <1> QED
    BY <1>3 DEF q

(* The harmonic mean, in whole parts, grows with both its arguments. *)
Harmonic(p, r) == IF p + r = 0 THEN 0 ELSE (2 * p * r) \div (p + r)

(* The harmonic mean is a symmetric natural number. *)
LEMMA HarmonicType ==
  ASSUME NEW p \in Nat, NEW r \in Nat
  PROVE  Harmonic(p, r) \in Nat /\ Harmonic(p, r) = Harmonic(r, p)
  <1>1. CASE p + r = 0
    BY <1>1 DEF Harmonic
  <1>2. CASE p + r # 0
    <2>1. 2 * p * r \in Nat /\ p + r \in Nat /\ p + r > 0 /\ p + r = r + p /\ 2 * p * r = 2 * r * p
      BY <1>2
    <2> QED
      BY <1>2, <2>1, Quotient DEF Harmonic
  <1> QED
    BY <1>1, <1>2

(* The harmonic mean grows with its first argument. *)
LEMMA HarmonicGrows ==
  ASSUME NEW p \in Nat, NEW r \in Nat, NEW k \in Nat
  PROVE  Harmonic(p, r) <= Harmonic(p + k, r)
  <1> DEFINE h == Harmonic(p, r)
  <1>1. h \in Nat /\ Harmonic(p + k, r) \in Nat
    <2>1. p + k \in Nat
      OBVIOUS
    <2> QED
      BY <2>1, HarmonicType
  <1>2. CASE p + r = 0
    BY <1>1, <1>2 DEF Harmonic
  <1>3. CASE p + r # 0
    <2>1. 2 * p * r \in Nat /\ 2 * (p + k) * r \in Nat /\ p + r > 0 /\ p + k + r > 0
      BY <1>3
    <2>2. h = (2 * p * r) \div (p + r)
      BY <1>3 DEF Harmonic
    <2> HIDE DEF h
    <2>3. (p + r) * h <= 2 * p * r
      BY <1>1, <2>1, <2>2, Quotient
    <2>4. h <= 2 * r
      <3> SUFFICES ASSUME h >= 2 * r + 1 PROVE FALSE
        BY <1>1
      <3>1. PICK j \in Nat : h = 2 * r + 1 + j
        <4>1. h - 2 * r - 1 \in Nat /\ h = 2 * r + 1 + (h - 2 * r - 1)
          BY <1>1
        <4> QED
          BY <4>1
      <3>2. (p + r) * h = 2 * p * r + 2 * r * r + (p + r) + (p + r) * j
        BY <3>1
      <3>3. 2 * r * r \in Nat /\ (p + r) * j \in Nat
        BY <3>1
      <3> QED
        BY <2>1, <2>3, <3>2, <3>3
    <2>5. k * h <= k * (2 * r)
      <3>1. PICK j \in Nat : 2 * r = h + j
        <4>1. 2 * r - h \in Nat /\ 2 * r = h + (2 * r - h)
          BY <1>1, <2>4
        <4> QED
          BY <4>1
      <3>2. k * (2 * r) = k * h + k * j /\ k * j \in Nat /\ k * h \in Nat
        BY <1>1, <3>1
      <3> QED
        BY <3>2
    <2>6. (p + k + r) * h <= 2 * (p + k) * r
      <3>1. (p + k + r) * h = (p + r) * h + k * h
        BY <1>1
      <3>2. 2 * (p + k) * r = 2 * p * r + k * (2 * r)
        OBVIOUS
      <3>3. (p + r) * h \in Nat /\ k * h \in Nat /\ k * (2 * r) \in Nat
        BY <1>1
      <3> QED
        BY <2>1, <2>3, <2>5, <3>1, <3>2, <3>3
    <2>7. h <= (2 * (p + k) * r) \div (p + k + r)
      BY <1>1, <2>1, <2>6, QuotientBound
    <2> QED
      BY <2>1, <2>7 DEF h, Harmonic
  <1> QED
    BY <1>2, <1>3

(* The harmonic mean grows with both arguments. *)
LEMMA HarmonicMonotone ==
  ASSUME NEW p \in Nat, NEW q \in Nat, NEW r \in Nat, NEW s \in Nat, p <= q, r <= s
  PROVE  Harmonic(p, r) <= Harmonic(q, s)
  <1>1. PICK j \in Nat, k \in Nat : q = p + j /\ s = r + k
    <2>1. q - p \in Nat /\ q = p + (q - p) /\ s - r \in Nat /\ s = r + (s - r)
      OBVIOUS
    <2> QED
      BY <2>1
  <1>2. Harmonic(p, r) <= Harmonic(p + j, r) /\ Harmonic(r, p + j) <= Harmonic(r + k, p + j)
    BY <1>1, HarmonicGrows
  <1>3. /\ Harmonic(p, r) \in Nat /\ Harmonic(q, r) \in Nat /\ Harmonic(q, s) \in Nat
        /\ Harmonic(q, r) = Harmonic(r, q) /\ Harmonic(s, q) = Harmonic(q, s)
    BY HarmonicType
  <1> QED
    BY <1>1, <1>2, <1>3

-----------------------------------------------------------------------------
(* The evidence score in terms of its hits. *)
Precise(cited, required, hits) ==
  IF cited = {} THEN (IF required = {} THEN One ELSE 0) ELSE (hits * One) \div Cardinality(cited)
Recalled(required, hits) == IF required = {} THEN One ELSE (hits * One) \div Cardinality(required)

(* A set that is not empty has a positive number of elements. *)
LEMMA PositiveCardinality ==
  ASSUME NEW S, IsFiniteSet(S)
  PROVE  Cardinality(S) \in Nat /\ (S # {} => Cardinality(S) > 0)
  <1>1. Cardinality(S) \in Nat /\ (Cardinality(S) = 0 <=> S = {})
    BY FS_CardinalityType, FS_EmptySet
  <1> QED
    BY <1>1

(* The evidence score is the harmonic mean of precision and recall, also   *)
(* where the code has a case for an empty side.                            *)
LEMMA EvidenceUnfolds ==
  ASSUME NEW cited, NEW required, NEW observed, IsFiniteSet(cited), IsFiniteSet(required)
  PROVE  LET hits == Cardinality(cited \cap observed \cap required)
         IN /\ Evidence(cited, required, observed)
                 = Harmonic(Precise(cited, required, hits), Recalled(required, hits))
            /\ Precise(cited, required, hits) \in Nat /\ Recalled(required, hits) \in Nat
            /\ hits \in Nat /\ hits * One \in Nat /\ Evidence(cited, required, observed) \in Nat
            /\ IsFiniteSet(cited \cap observed \cap required)
  <1> DEFINE hits == Cardinality(cited \cap observed \cap required)
  <1>1. IsFiniteSet(cited \cap observed \cap required) /\ hits \in Nat
    <2>1. cited \cap observed \cap required \subseteq cited
      OBVIOUS
    <2> QED
      BY <2>1, FS_Subset, FS_CardinalityType
  <1>2. Evidence(cited, required, observed)
          = Harmonic(Precise(cited, required, hits), Recalled(required, hits))
    BY DEF Evidence, Harmonic, Precise, Recalled
  <1> HIDE DEF hits
  <1>3. hits * One \in Nat
    BY <1>1 DEF One
  <1>4. Precise(cited, required, hits) \in Nat
    BY <1>3, PositiveCardinality, Quotient DEF Precise, One
  <1>5. Recalled(required, hits) \in Nat
    BY <1>3, PositiveCardinality, Quotient DEF Recalled, One
  <1> QED
    BY <1>1, <1>2, <1>3, <1>4, <1>5, HarmonicType DEF hits

(* Observing more never lowers the evidence score of a set of citations. *)
LEMMA EvidenceGrows ==
  ASSUME NEW cited, NEW required, IsFiniteSet(cited), IsFiniteSet(required),
         NEW less, NEW more, less \subseteq more
  PROVE  Evidence(cited, required, less) <= Evidence(cited, required, more)
  <1> DEFINE A == cited \cap less \cap required
             B == cited \cap more \cap required
             a == Cardinality(A)
             b == Cardinality(B)
  <1>1. IsFiniteSet(B) /\ A \subseteq B
    BY EvidenceUnfolds
  <1>2. a \in Nat /\ b \in Nat /\ a * One \in Nat /\ b * One \in Nat
    BY EvidenceUnfolds
  <1>3. a <= b
    <2> HIDE DEF A, B
    <2> QED
      BY <1>1, FS_Subset
  <1>4. /\ Evidence(cited, required, less) = Harmonic(Precise(cited, required, a), Recalled(required, a))
        /\ Evidence(cited, required, more) = Harmonic(Precise(cited, required, b), Recalled(required, b))
        /\ Precise(cited, required, a) \in Nat /\ Recalled(required, a) \in Nat
        /\ Precise(cited, required, b) \in Nat /\ Recalled(required, b) \in Nat
    BY EvidenceUnfolds
  <1> HIDE DEF a, b
  <1>5. a * One <= b * One
    BY <1>2, <1>3 DEF One
  <1>6. Precise(cited, required, a) <= Precise(cited, required, b)
    BY <1>2, <1>4, <1>5, PositiveCardinality, QuotientGrows DEF Precise
  <1>7. Recalled(required, a) <= Recalled(required, b)
    BY <1>2, <1>4, <1>5, PositiveCardinality, QuotientGrows DEF Recalled
  <1> QED
    BY <1>4, <1>6, <1>7, HarmonicMonotone

(* Citing what was not observed never raises it. *)
LEMMA EvidenceFalls ==
  ASSUME NEW cited, NEW required, IsFiniteSet(cited), IsFiniteSet(required),
         NEW observed, NEW i, i \notin observed
  PROVE  Evidence(cited \cup {i}, required, observed) <= Evidence(cited, required, observed)
  <1> DEFINE more == cited \cup {i}
             h == Cardinality(cited \cap observed \cap required)
  <1>1. more \cap observed \cap required = cited \cap observed \cap required
    OBVIOUS
  <1>2. IsFiniteSet(more) /\ Cardinality(cited) <= Cardinality(more) /\ more # {}
    BY FS_AddElement, FS_Subset
  <1>3. /\ Evidence(more, required, observed) = Harmonic(Precise(more, required, h), Recalled(required, h))
        /\ Evidence(cited, required, observed) = Harmonic(Precise(cited, required, h), Recalled(required, h))
        /\ Precise(more, required, h) \in Nat /\ Precise(cited, required, h) \in Nat
        /\ Recalled(required, h) \in Nat /\ h * One \in Nat /\ h \in Nat
    <2> DEFINE g == Cardinality(more \cap observed \cap required)
    <2>1. /\ Evidence(cited, required, observed) = Harmonic(Precise(cited, required, h), Recalled(required, h))
          /\ Precise(cited, required, h) \in Nat /\ Recalled(required, h) \in Nat
          /\ h * One \in Nat /\ h \in Nat
      BY EvidenceUnfolds
    <2>2. g = h
      BY <1>1
    <2>3. /\ Evidence(more, required, observed) = Harmonic(Precise(more, required, g), Recalled(required, g))
          /\ Precise(more, required, g) \in Nat
      <3> HIDE DEF more
      <3> QED
        BY <1>2, EvidenceUnfolds
    <2> HIDE DEF g, h, more
    <2> QED
      BY <2>1, <2>2, <2>3
  <1>4. Precise(more, required, h) <= Precise(cited, required, h)
    <2>1. CASE cited = {}
      <3>1. h = 0
        BY <2>1, FS_EmptySet
      <3> HIDE DEF h, more
      <3>2. Cardinality(more) \in Nat /\ Cardinality(more) > 0
        BY <1>2, PositiveCardinality
      <3>3. (0 * One) \div Cardinality(more) = 0
        BY <3>2, Quotient DEF One
      <3> QED
        BY <1>2, <1>3, <3>1, <3>3 DEF Precise, One
    <2>2. CASE cited # {}
      <3>1. Cardinality(cited) \in Nat /\ Cardinality(cited) > 0 /\ Cardinality(more) \in Nat
        BY <1>2, <2>2, PositiveCardinality
      <3> HIDE DEF h, more
      <3> QED
        BY <1>2, <1>3, <2>2, <3>1, QuotientFalls DEF Precise
    <2> QED
      BY <2>1, <2>2
  <1>5. Recalled(required, h) <= Recalled(required, h)
    BY <1>3
  <1> HIDE DEF h, more
  <1> QED
    BY <1>3, <1>4, <1>5, HarmonicMonotone DEF more

-----------------------------------------------------------------------------
(* Every score of a task is a whole number of parts. *)

Parts == {0, Percent(25), Percent(40), Percent(50), Percent(55), Percent(80), One}

(* The shares of One that the scores use are exact. *)
LEMMA PartsAreNatural ==
  /\ Percent(25) = 630 /\ Percent(40) = 1008 /\ Percent(50) = 1260 /\ Percent(55) = 1386
  /\ Percent(80) = 2016 /\ One = 2520
  BY DEF Percent, One

(* Task success is a part of One. *)
LEMMA TaskSuccessType ==
  ASSUME NEW answer \in Answer, NEW t \in Truth, NEW credited
  PROVE  TaskSuccess(answer, t, credited) \in 0..One
  <1> DEFINE d == answer.decision  e == t.expected
             tool == IF t.tool = "none" THEN ActionOf[e] ELSE t.tool
             aimed == NoId \in {t.target, credited.arg} \/ credited.arg = t.target
             right == IF credited.tool # tool THEN Percent(55) ELSE IF aimed THEN One ELSE Percent(80)
             other == IF ~Similar(d, e) THEN 0
                      ELSE IF d \in Blocking THEN Percent(40) ELSE Percent(50)
  <1>1. right \in Parts /\ other \in Parts
    BY DEF Parts
  <1>2. TaskSuccess(answer, t, credited) \in {0, Percent(50), right, other}
    <2> HIDE DEF right, other
    <2>1. TaskSuccess(answer, t, credited) =
            CASE d \notin Decision -> 0
              [] d \in Decision /\ e \notin Decision -> Percent(50)
              [] d = "allow" /\ e \in Blocking -> 0
              [] d \in Decision /\ d = e -> right
              [] OTHER -> other
      BY DEF TaskSuccess, right, other
    <2> HIDE DEF d, e
    <2> QED
      BY <2>1
  <1> HIDE DEF right, other
  <1> QED
    BY <1>1, <1>2, PartsAreNatural DEF Parts

(* The alignment is in tenths. *)
LEMMA AlignmentType ==
  ASSUME NEW d, NEW e
  PROVE  Alignment(d, e) \in 0..10
  BY DEF Alignment

(* A clamped value by cases. *)
LEMMA ClampType ==
  ASSUME NEW v \in Int
  PROVE  Clamp(v) = IF v <= 0 THEN 0 ELSE IF v <= One THEN v ELSE One
  <1>1. Min({One, v}) = IF One <= v THEN One ELSE v
    BY MinOfTwo DEF One
  <1>2. Max({0, Min({One, v})}) = IF 0 >= Min({One, v}) THEN 0 ELSE Min({One, v})
    BY <1>1, MaxOfTwo DEF One
  <1> QED
    BY <1>1, <1>2 DEF Clamp, One

(* A product grows with its factor. *)
LEMMA TimesGrows ==
  ASSUME NEW w \in Nat, NEW x \in Int, NEW y \in Int, x <= y
  PROVE  w * x \in Int /\ w * y \in Int /\ w * x <= w * y
  <1>1. PICK k \in Nat : y = x + k
    <2>1. y - x \in Nat /\ y = x + (y - x)
      OBVIOUS
    <2> QED
      BY <2>1
  <1>2. w * y = w * x + w * k /\ w * k \in Nat /\ w * x \in Int
    BY <1>1
  <1> QED
    BY <1>2

(* The aggregate grows with every one of the scores. *)
Below(s, u) == \A d \in Dimension : s[d] \in Int /\ u[d] \in Int /\ s[d] <= u[d]

(* The cap of the aggregate by cases. *)
LEMMA CapType ==
  ASSUME NEW top \in Nat, NEW v \in Int
  PROVE  Max({0, Min({top, v})}) = IF v <= 0 THEN 0 ELSE IF v <= top THEN v ELSE top
  <1>1. Min({top, v}) = IF top <= v THEN top ELSE v
    BY MinOfTwo
  <1>2. Min({top, v}) \in Int
    BY <1>1
  <1> DEFINE m == Min({top, v})
  <1> HIDE DEF m
  <1>3. Max({0, m}) = IF 0 >= m THEN 0 ELSE m
    BY <1>2, MaxOfTwo DEF m
  <1> QED
    BY <1>1, <1>3 DEF m

(* The aggregate is the weighted sum, capped. *)
LEMMA CappedGrows ==
  ASSUME NEW a, NEW b, NEW t, NEW ls, NEW ms,
         Weighted(Scores(a, t, ls)) \in Int, Weighted(Scores(b, t, ms)) \in Int,
         Weighted(Scores(a, t, ls)) <= Weighted(Scores(b, t, ms))
  PROVE  Aggregate(a, t, ls) <= Aggregate(b, t, ms)
  <1> DEFINE top == 100 * One
             x == Weighted(Scores(a, t, ls))
             y == Weighted(Scores(b, t, ms))
  <1>1. top \in Nat
    BY DEF One
  <1>2. Aggregate(a, t, ls) = Max({0, Min({top, x})}) /\ Aggregate(b, t, ms) = Max({0, Min({top, y})})
    BY DEF Aggregate
  <1>3. x \in Int /\ y \in Int /\ x <= y
    OBVIOUS
  <1> HIDE DEF top, x, y
  <1>4. /\ Max({0, Min({top, x})}) = IF x <= 0 THEN 0 ELSE IF x <= top THEN x ELSE top
        /\ Max({0, Min({top, y})}) = IF y <= 0 THEN 0 ELSE IF y <= top THEN y ELSE top
    BY <1>1, <1>3, CapType
  <1> QED
    BY <1>1, <1>2, <1>3, <1>4

(* An answer that is not better in any dimension has no higher aggregate,  *)
(* whatever the weights.                                                   *)
LEMMA AggregateGrows ==
  ASSUME NEW a, NEW b, NEW t, NEW ls, NEW ms, Below(Scores(a, t, ls), Scores(b, t, ms))
  PROVE  Aggregate(a, t, ls) <= Aggregate(b, t, ms)
  <1> DEFINE s == Scores(a, t, ls)
             u == Scores(b, t, ms)
  <1>1. \A d \in Dimension : /\ Weights[d] * s[d] \in Int /\ Weights[d] * u[d] \in Int
                             /\ Weights[d] * s[d] <= Weights[d] * u[d]
    BY SettingsAssumption, TimesGrows DEF Below
  <1> HIDE DEF s, u
  <1>2. Weighted(s) \in Int /\ Weighted(u) \in Int /\ Weighted(s) <= Weighted(u)
    BY <1>1 DEF Weighted, Dimension
  <1> QED
    BY <1>2, CappedGrows DEF s, u

-----------------------------------------------------------------------------
(* The other scores are whole numbers, whatever was observed. *)

(* Rejections are counted. *)
LEMMA RejectionsType ==
  ASSUME NEW ls \in Seq(Log)
  PROVE  Rejections(ls) \in Nat
  <1>1. {i \in DOMAIN ls : ls[i].rejected} \subseteq 1..Len(ls) /\ Len(ls) \in Nat
    OBVIOUS
  <1>2. IsFiniteSet(1..Len(ls))
    BY <1>1, FS_Interval
  <1> QED
    BY <1>1, <1>2, FS_Subset, FS_CardinalityType DEF Rejections

(* The policy score is a number. *)
LEMMA PolicyType ==
  ASSUME NEW answer \in Answer, NEW t \in Truth, NEW ls \in Seq(Log)
  PROVE  Policy(answer, t, ls) \in Int
  <1>1. Rejections(ls) \in Nat
    BY RejectionsType
  <1> DEFINE enforcement == Max({0, 4 - Rejections(ls)})
             coherence == IF answer.decision \in Decision /\ Credited(ls).tool = ActionOf[answer.decision]
                          THEN 2 ELSE 1
             alignment == Alignment(answer.decision, t.expected)
  <1>2. enforcement \in Nat
    BY <1>1, MaxOfTwo
  <1>3. coherence \in Nat /\ alignment \in Nat
    BY AlignmentType
  <1> HIDE DEF enforcement, coherence, alignment
  <1>4. One * enforcement * coherence * alignment \in Nat
    BY <1>2, <1>3 DEF One
  <1>5. (One * enforcement * coherence * alignment) \div 80 \in Nat
    BY <1>4, Quotient
  <1> QED
    BY <1>5 DEF Policy, enforcement, coherence, alignment

(* The calibration is a number. *)
LEMMA CalibrationType ==
  ASSUME NEW answer \in Answer, NEW t \in Truth, NEW success \in 0..One
  PROVE  Calibration(answer, t, success) \in Int
  <1> DEFINE flag == IF t.mustEscalate THEN (IF answer.escalation THEN 2 ELSE 0)
                     ELSE (IF answer.escalation THEN 1 ELSE 2)
             fit == IF success = One THEN answer.confidence ELSE One - answer.confidence
  <1>1. flag \in {0, 1, 2}
    OBVIOUS
  <1>2. CASE ConfidenceValid(answer.confidence)
    <2>1. fit \in Nat
      <3>1. answer.confidence \in 0..One
        BY <1>2 DEF ConfidenceValid
      <3>2. \A c \in 0..One : c \in Nat /\ One - c \in Nat
        BY DEF One
      <3>3. answer.confidence \in Nat /\ One - answer.confidence \in Nat
        BY <3>1, <3>2
      <3> QED
        BY <3>3
    <2> HIDE DEF flag, fit
    <2>2. flag * fit \in Nat
      BY <1>1, <2>1
    <2>3. (flag * fit) \div 2 \in Nat
      BY <2>2, Quotient
    <2> QED
      BY <1>2, <2>3 DEF Calibration, flag, fit
  <1>3. CASE ~ConfidenceValid(answer.confidence)
    BY <1>3 DEF Calibration
  <1> QED
    BY <1>2, <1>3

(* The numbers up to n are n many. *)
LEMMA UpTo ==
  ASSUME NEW n \in Nat
  PROVE  IsFiniteSet(1..n) /\ Cardinality(1..n) = n
  <1>1. 1 \in Int /\ n \in Int /\ (1 > n => n = 0) /\ n - 1 + 1 = n
    OBVIOUS
  <1> QED
    BY <1>1, FS_Interval

(* The communication score is a number. *)
LEMMA CommunicationType ==
  ASSUME NEW answer
  PROVE  Communication(answer) \in Int
  <1> DEFINE s == answer.summary
             met == {r \in 1..4 : CASE r = 1 -> s.sized
                                    [] r = 2 -> s.grounded
                                    [] r = 3 -> s.claims \subseteq {answer.decision}
                                    [] r = 4 -> answer.decision \in s.words}
  <1>1. met \subseteq 1..4
    OBVIOUS
  <1> HIDE DEF met
  <1>2. Cardinality(met) \in Nat
    <2>1. IsFiniteSet(1..4)
      BY UpTo
    <2> QED
      BY <1>1, <2>1, FS_Subset, FS_CardinalityType
  <1>3. Cardinality(met) * Percent(25) \in Int
    BY <1>2, PartsAreNatural
  <1> QED
    BY <1>3 DEF Communication, met

(* Repeated calls, and how the efficiency counts them.                     *)
LEMMA DuplicatesType ==
  ASSUME NEW ls, Len(ls) \in Nat, DOMAIN ls = 1..Len(ls)
  PROVE  Duplicates(ls) \in Nat /\ Duplicates(ls) <= Len(ls)
  <1> DEFINE D == {i \in DOMAIN ls : \E j \in 1..(i - 1) : SameCall(ls[i], ls[j])}
  <1>1. D \subseteq 1..Len(ls)
    OBVIOUS
  <1>2. IsFiniteSet(1..Len(ls)) /\ Cardinality(1..Len(ls)) = Len(ls)
    BY UpTo
  <1> HIDE DEF D
  <1>3. IsFiniteSet(D) /\ Cardinality(D) <= Cardinality(1..Len(ls))
    BY <1>1, <1>2, FS_Subset
  <1>4. Cardinality(D) \in Nat
    BY <1>3, FS_CardinalityType
  <1> QED
    BY <1>2, <1>3, <1>4 DEF D, Duplicates

Within(n, success) ==
  IF n = 0 THEN (IF success = One THEN Percent(50) ELSE 0)
  ELSE IF n > Max({1, Budget}) THEN 0
  ELSE IF n <= 6 THEN One
  ELSE One - ((n - 6) * One) \div Max({1, Max({1, Budget}) - 6})

(* One more call never raises the share within the budget. *)
LEMMA WithinFalls ==
  ASSUME NEW n \in Nat, n > 0, NEW success
  PROVE  /\ Within(n, success) \in Nat /\ Within(n + 1, success) \in Nat
         /\ Within(n + 1, success) <= Within(n, success)
  <1> DEFINE budget == Max({1, Budget})
             free == Max({1, budget - 6})
             lost(m) == ((m - 6) * One) \div free
  <1>1. budget \in Nat /\ budget >= 1
    BY SettingsAssumption, MaxOfTwo
  <1> HIDE DEF budget
  <1>2. free \in Nat /\ free >= 1 /\ (budget > 6 => free = budget - 6)
    BY <1>1, MaxOfTwo
  <1> HIDE DEF free
  <1>3. ASSUME NEW m \in Nat, m > 6, m <= budget PROVE lost(m) \in Nat /\ lost(m) <= One
    <2>1. (m - 6) * One \in Nat /\ m - 6 <= free
      BY <1>1, <1>2, <1>3 DEF One
    <2>2. (m - 6) * One <= free * One /\ free * One \in Nat
      BY <1>2, <1>3, <2>1 DEF One
    <2>3. lost(m) \in Nat /\ free * lost(m) <= (m - 6) * One
      BY <1>2, <2>1, Quotient
    <2> HIDE DEF lost
    <2>4. lost(m) <= One
      <3> SUFFICES ASSUME lost(m) > One PROVE FALSE
        BY <2>3 DEF One
      <3>1. PICK k \in Nat : lost(m) = One + 1 + k
        <4>1. lost(m) - One - 1 \in Nat /\ lost(m) = One + 1 + (lost(m) - One - 1)
          BY <2>3 DEF One
        <4> QED
          BY <4>1
      <3>2. free * lost(m) = free * One + free + free * k /\ free * k \in Nat
        BY <1>2, <3>1 DEF One
      <3> QED
        BY <1>2, <2>1, <2>2, <2>3, <3>2
    <2> QED
      BY <2>3, <2>4
  <1>4. n > 6 => lost(n) <= lost(n + 1)
    <2>1. n > 6 => (n - 6) * One \in Nat /\ (n + 1 - 6) * One \in Nat /\ (n - 6) * One <= (n + 1 - 6) * One
      BY DEF One
    <2> QED
      BY <1>2, <2>1, QuotientGrows
  <1>5. \A m \in Nat : m > 0 => Within(m, success) =
           IF m > budget THEN 0 ELSE IF m <= 6 THEN One ELSE One - lost(m)
    BY DEF Within, budget, free
  <1> HIDE DEF lost
  <1>6. \A m \in Nat : m > 0 => Within(m, success) \in Nat /\ Within(m, success) <= One
    BY <1>1, <1>3, <1>5 DEF One
  <1> QED
    BY <1>1, <1>3, <1>4, <1>5, <1>6 DEF One

(* The efficiency is the share within the budget, less that of the         *)
(* repeated calls.                                                         *)
LEMMA EfficiencyUnfolds ==
  ASSUME NEW n \in Nat, NEW d \in Nat, d <= n, NEW success
  PROVE  /\ Efficiency(n, d, success) =
              IF n = 0 THEN Within(n, success) ELSE (Within(n, success) * (n - d)) \div n
         /\ Efficiency(n, d, success) \in Nat
  <1>1. Efficiency(n, d, success) =
          IF n = 0 THEN Within(n, success) ELSE (Within(n, success) * (n - d)) \div n
    BY DEF Efficiency, Within
  <1>2. CASE n = 0
    BY <1>1, <1>2, PartsAreNatural DEF Within
  <1>3. CASE n # 0
    <2>1. Within(n, success) \in Nat
      BY <1>3, WithinFalls
    <2>2. Within(n, success) * (n - d) \in Nat
      <3>1. n - d \in Nat
        OBVIOUS
      <3> QED
        BY <2>1, <3>1
    <2> QED
      BY <1>1, <1>3, <2>2, Quotient
  <1> QED
    BY <1>1, <1>2, <1>3

(* One more call, a repeated one, never makes a run more efficient. *)
LEMMA EfficiencyFalls ==
  ASSUME NEW n \in Nat, n > 0, NEW d \in Nat, d <= n, NEW success
  PROVE  Efficiency(n + 1, d + 1, success) <= Efficiency(n, d, success)
  <1> DEFINE v == Within(n, success)
             w == Within(n + 1, success)
  <1>1. v \in Nat /\ w \in Nat /\ w <= v
    BY WithinFalls
  <1> HIDE DEF v, w
  <1>2. PICK k \in Nat : k = n - d
    <2>1. n - d \in Nat
      OBVIOUS
    <2> QED
      BY <2>1
  <1>3. k * w \in Nat /\ k * v \in Nat /\ k * w <= k * v
    BY <1>1, TimesGrows
  <1>4. /\ Efficiency(n, d, success) = (k * v) \div n
        /\ Efficiency(n + 1, d + 1, success) = (k * w) \div (n + 1)
    <2>1. n + 1 \in Nat /\ d + 1 \in Nat /\ d + 1 <= n + 1 /\ n + 1 # 0 /\ (n + 1) - (d + 1) = k
      BY <1>2
    <2>2. k * v = v * k /\ k * w = w * k
      BY <1>1
    <2> QED
      BY <1>2, <2>1, <2>2, EfficiencyUnfolds DEF v, w
  <1>7. n + 1 \in Nat /\ n + 1 > 0 /\ n <= n + 1
    OBVIOUS
  <1>8. (k * w) \div (n + 1) <= (k * v) \div (n + 1)
    BY <1>3, <1>7, QuotientGrows
  <1>9. (k * v) \div (n + 1) <= (k * v) \div n
    BY <1>3, <1>7, QuotientFalls
  <1>6. (k * w) \div (n + 1) \in Nat /\ (k * v) \div (n + 1) \in Nat /\ (k * v) \div n \in Nat
    BY <1>3, Quotient
  <1> QED
    BY <1>4, <1>6, <1>8, <1>9

(* One more citation never lowers the number of those not observed. *)
LEMMA FabricatedType ==
  ASSUME NEW answer \in Answer, NEW observed, NEW i
  PROVE  LET more == [answer EXCEPT !.evidence = Append(@, i)]
         IN /\ Fabricated(answer, observed) \in Nat /\ Fabricated(more, observed) \in Nat
            /\ Fabricated(answer, observed) <= Fabricated(more, observed)
  <1> DEFINE more == [answer EXCEPT !.evidence = Append(@, i)]
             q == answer.evidence
             r == Append(q, i)
             A == {k \in DOMAIN q : q[k] \notin observed}
             B == {k \in DOMAIN r : r[k] \notin observed}
  <1>1. q \in Seq(Id \cup Strangers)
    BY DEF Answer
  <1>2. more.evidence = r
    BY DEF Answer
  <1>3. /\ Len(q) \in Nat /\ DOMAIN q = 1..Len(q) /\ DOMAIN r = 1..(Len(q) + 1)
        /\ \A k \in DOMAIN q : r[k] = q[k]
    BY <1>1
  <1> HIDE DEF more, q, r
  <1>4. A \subseteq B /\ B \subseteq 1..(Len(q) + 1) /\ Len(q) + 1 \in Nat
    BY <1>3
  <1>5. Fabricated(answer, observed) = Cardinality(A) /\ Fabricated(more, observed) = Cardinality(B)
    BY <1>2 DEF Fabricated, q
  <1> HIDE DEF A, B
  <1>6. IsFiniteSet(1..(Len(q) + 1))
    BY <1>4, UpTo
  <1>7. IsFiniteSet(B)
    BY <1>4, <1>6, FS_Subset
  <1>8. IsFiniteSet(A) /\ Cardinality(A) <= Cardinality(B)
    BY <1>4, <1>7, FS_Subset
  <1> QED
    BY <1>5, <1>7, <1>8, FS_CardinalityType DEF more

(* The actions that count against the robustness. *)
LEMMA ActedType ==
  ASSUME NEW actions \in Nat
  PROVE  Min({Max({actions - 1, 0}), 2}) \in Nat
  <1> DEFINE m == Max({actions - 1, 0})
  <1>1. m \in Nat
    BY MaxOfTwo
  <1> HIDE DEF m
  <1>2. Min({m, 2}) \in Nat
    BY <1>1, MinOfTwo
  <1> QED
    BY <1>2 DEF m

(* More citations of what was not observed never make an answer more robust. *)
LEMMA RobustnessFalls ==
  ASSUME NEW a, NEW b, a.decision = b.decision, a.confidence = b.confidence,
         NEW observed, Fabricated(a, observed) \in Nat, Fabricated(b, observed) \in Nat,
         Fabricated(a, observed) <= Fabricated(b, observed),
         NEW success \in 0..One, NEW actions \in Nat
  PROVE  /\ Robustness(a, success, observed, actions) \in Int
         /\ Robustness(b, success, observed, actions) \in Int
         /\ Robustness(b, success, observed, actions) <= Robustness(a, success, observed, actions)
  <1> DEFINE invalid(x) == IF ConfidenceValid(x.confidence) THEN 0 ELSE 30
             cited(x) == Min({Fabricated(x, observed), 2})
             acted == Min({Max({actions - 1, 0}), 2})
             penalties(x) == invalid(x) + 20 * cited(x) + 20 * acted
  <1>1. /\ invalid(a) \in Nat /\ invalid(a) = invalid(b)
    OBVIOUS
  <1>2. cited(a) \in Nat /\ cited(b) \in Nat /\ cited(a) <= cited(b)
    BY MinOfTwo
  <1>3. acted \in Nat
    BY ActedType
  <1> HIDE DEF invalid, cited, acted
  <1>4. penalties(a) \in Nat /\ penalties(b) \in Nat /\ penalties(a) <= penalties(b)
    BY <1>1, <1>2, <1>3
  <1>5. /\ \A x : Robustness(x, success, observed, actions) =
                  IF x.decision \notin Decision THEN 0 ELSE Clamp(success - Percent(penalties(x)))
    BY DEF Robustness, invalid, cited, acted
  <1> HIDE DEF penalties
  <1>6. /\ Percent(penalties(a)) \in Nat /\ Percent(penalties(b)) \in Nat
        /\ Percent(penalties(a)) <= Percent(penalties(b))
    <2>1. /\ penalties(a) * One \in Nat /\ penalties(b) * One \in Nat
          /\ penalties(a) * One <= penalties(b) * One
      BY <1>4 DEF One
    <2> QED
      BY <2>1, Quotient, QuotientGrows DEF Percent
  <1>7. success \in Int
    BY DEF One
  <1>8. /\ Clamp(success - Percent(penalties(a))) \in Int /\ Clamp(success - Percent(penalties(b))) \in Int
        /\ Clamp(success - Percent(penalties(b))) <= Clamp(success - Percent(penalties(a)))
    BY <1>6, <1>7, ClampType DEF One
  <1> QED
    BY <1>5, <1>8

-----------------------------------------------------------------------------
(* The scores of an answer to a task, given its log. *)

(* Citations and required identifiers are finitely many. *)
LEMMA CitationsFinite ==
  ASSUME NEW a \in Answer, NEW t \in Truth, IsFiniteSet(Id)
  PROVE  IsFiniteSet(ToSet(a.evidence)) /\ IsFiniteSet(t.required)
  <1> DEFINE q == a.evidence
  <1>1. q \in Seq(Id \cup Strangers) /\ t.required \subseteq Id
    BY DEF Answer, Truth
  <1> HIDE DEF q
  <1>2. Len(q) \in Nat /\ DOMAIN q = 1..Len(q)
    BY <1>1
  <1>3. IsFiniteSet(1..Len(q))
    BY <1>2, UpTo
  <1>4. IsFiniteSet({q[i] : i \in 1..Len(q)})
    <2> DEFINE T == {q[i] : i \in 1..Len(q)}
    <2>1. q \in Surjection(1..Len(q), T)
      BY <1>1, <1>2 DEF Surjection
    <2> HIDE DEF T
    <2>2. IsFiniteSet(T)
      BY <1>3, <2>1, FS_Surjection
    <2> QED
      BY <2>2 DEF T
  <1> QED
    BY <1>1, <1>2, <1>4, FS_Subset DEF ToSet, q

(* The score of every dimension is a number. *)
LEMMA ScoresType ==
  ASSUME NEW a \in Answer, NEW t \in Truth, NEW ls \in Seq(Log), IsFiniteSet(Id)
  PROVE  \A d \in Dimension : Scores(a, t, ls)[d] \in Int
  <1> DEFINE o == Observed(ls, t)
             success == TaskSuccess(a, t, Credited(ls))
  <1>1. success \in 0..One /\ success \in Int
    <2>1. success \in 0..One
      BY TaskSuccessType
    <2>2. \A c \in 0..One : c \in Int
      BY DEF One
    <2> QED
      BY <2>1, <2>2
  <1>2. Len(ls) \in Nat /\ DOMAIN ls = 1..Len(ls)
    OBVIOUS
  <1>3. IsFiniteSet(ToSet(a.evidence)) /\ IsFiniteSet(t.required)
    BY CitationsFinite
  <1> HIDE DEF o, success
  <1>4. Policy(a, t, ls) \in Int /\ Calibration(a, t, success) \in Int /\ Communication(a) \in Int
    BY <1>1, PolicyType, CalibrationType, CommunicationType
  <1>5. Evidence(ToSet(a.evidence), t.required, o) \in Int
    <2>1. Evidence(ToSet(a.evidence), t.required, o) \in Nat
      BY <1>3, EvidenceUnfolds
    <2> QED
      BY <2>1
  <1>6. Efficiency(Len(ls), Duplicates(ls), success) \in Int
    BY <1>2, DuplicatesType, EfficiencyUnfolds
  <1>7. Len(ActionLogs(ls)) \in Nat
    <2>1. {i \in DOMAIN ls : ls[i].tool \in Action} \in SUBSET (DOMAIN ls)
      OBVIOUS
    <2>2. ActionLogs(ls) \in Seq(Log)
      BY <2>1, PickedType DEF ActionLogs
    <2> QED
      BY <2>2
  <1>8. Fabricated(a, o) \in Nat
    BY FabricatedType
  <1>9. Robustness(a, success, o, Len(ActionLogs(ls))) \in Int
    BY <1>1, <1>7, <1>8, RobustnessFalls
  <1> QED
    BY <1>1, <1>4, <1>5, <1>6, <1>9 DEF Scores, Dimension, o, success

(* Citing one more identifier that was not observed. *)
LEMMA FabricationFalls ==
  ASSUME NEW a \in Answer, NEW t \in Truth, NEW ls \in Seq(Log), IsFiniteSet(Id),
         NEW i, i \notin Observed(ls, t)
  PROVE  Aggregate([a EXCEPT !.evidence = Append(@, i)], t, ls) <= Aggregate(a, t, ls)
  <1> DEFINE more == [a EXCEPT !.evidence = Append(@, i)]
             o == Observed(ls, t)
             s == Scores(a, t, ls)
             u == Scores(more, t, ls)
             success == TaskSuccess(a, t, Credited(ls))
  <1>1. /\ more.decision = a.decision /\ more.escalation = a.escalation
        /\ more.confidence = a.confidence /\ more.summary = a.summary
        /\ more.evidence = Append(a.evidence, i) /\ a.evidence \in Seq(Id \cup Strangers)
    BY DEF Answer
  <1>2. Fabricated(a, o) \in Nat /\ Fabricated(more, o) \in Nat /\ Fabricated(a, o) <= Fabricated(more, o)
    BY FabricatedType
  <1>3. ToSet(more.evidence) = ToSet(a.evidence) \cup {i}
    <2>1. \A q \in Seq(Id \cup Strangers) : /\ DOMAIN q = 1..Len(q) /\ Len(q) \in Nat
                                           /\ DOMAIN Append(q, i) = 1..(Len(q) + 1)
                                           /\ Append(q, i)[Len(q) + 1] = i
                                           /\ \A k \in 1..Len(q) : Append(q, i)[k] = q[k]
      OBVIOUS
    <2>2. \A q \in Seq(Id \cup Strangers) : ToSet(Append(q, i)) = ToSet(q) \cup {i}
      <3> SUFFICES ASSUME NEW q \in Seq(Id \cup Strangers), NEW x
                   PROVE  x \in ToSet(Append(q, i)) <=> x \in ToSet(q) \cup {i}
        OBVIOUS
      <3>1. x \in ToSet(Append(q, i)) <=> \E k \in 1..(Len(q) + 1) : x = Append(q, i)[k]
        BY <2>1 DEF ToSet
      <3>2. x \in ToSet(q) <=> \E k \in 1..Len(q) : x = q[k]
        BY <2>1 DEF ToSet
      <3>3. Len(q) \in Nat /\ \A k : k \in 1..(Len(q) + 1) <=> k \in 1..Len(q) \/ k = Len(q) + 1
        BY <2>1
      <3> QED
        BY <2>1, <3>1, <3>2, <3>3
    <2> QED
      BY <1>1, <2>2
  <1> HIDE DEF more
  <1>4. TaskSuccess(more, t, Credited(ls)) = success
    BY <1>1 DEF TaskSuccess
  <1>5. /\ Policy(more, t, ls) = Policy(a, t, ls)
        /\ Calibration(more, t, success) = Calibration(a, t, success)
        /\ Communication(more) = Communication(a)
    BY <1>1 DEF Policy, Calibration, Communication
  <1>6. \A d \in Dimension : s[d] \in Int
    BY ScoresType
  <1>7. /\ IsFiniteSet(ToSet(a.evidence)) /\ IsFiniteSet(t.required)
        /\ IsFiniteSet(ToSet(a.evidence) \cup {i})
    BY CitationsFinite, FS_AddElement
  <1>8. /\ Evidence(ToSet(more.evidence), t.required, o) <= Evidence(ToSet(a.evidence), t.required, o)
        /\ Evidence(ToSet(more.evidence), t.required, o) \in Nat
    BY <1>3, <1>7, EvidenceFalls, EvidenceUnfolds
  <1>9. success \in 0..One
    BY TaskSuccessType
  <1>10. Len(ActionLogs(ls)) \in Nat
    <2>1. {k \in DOMAIN ls : ls[k].tool \in Action} \in SUBSET (DOMAIN ls)
      OBVIOUS
    <2>2. ActionLogs(ls) \in Seq(Log)
      BY <2>1, PickedType DEF ActionLogs
    <2> QED
      BY <2>2
  <1> HIDE DEF success, o
  <1>11. /\ Robustness(more, success, o, Len(ActionLogs(ls))) \in Int
         /\ Robustness(more, success, o, Len(ActionLogs(ls))) <= Robustness(a, success, o, Len(ActionLogs(ls)))
    BY <1>1, <1>2, <1>9, <1>10, RobustnessFalls
  <1>12. /\ s.task_success = success /\ u.task_success = success
         /\ u.policy = s.policy /\ u.calibration = s.calibration /\ u.communication = s.communication
         /\ u.efficiency = s.efficiency
         /\ s.evidence = Evidence(ToSet(a.evidence), t.required, o)
         /\ u.evidence = Evidence(ToSet(more.evidence), t.required, o)
         /\ s.robustness = Robustness(a, success, o, Len(ActionLogs(ls)))
         /\ u.robustness = Robustness(more, success, o, Len(ActionLogs(ls)))
    BY <1>4, <1>5 DEF Scores, success, o
  <1> HIDE DEF s, u
  <1>13. /\ s["task_success"] \in Int /\ s["policy"] \in Int /\ s["evidence"] \in Int
         /\ s["calibration"] \in Int /\ s["efficiency"] \in Int /\ s["communication"] \in Int
         /\ s["robustness"] \in Int
    BY <1>6 DEF Dimension
  <1>14. Below(u, s)
    BY <1>8, <1>11, <1>12, <1>13 DEF Below, Dimension
  <1> QED
    BY <1>14, AggregateGrows DEF s, u, more

(* A read repeated in a log shows nothing new and costs efficiency. *)
LEMMA RepeatFalls ==
  ASSUME NEW a \in Answer, NEW t \in Truth, NEW ls \in Seq(Log), IsFiniteSet(Id),
         NEW l \in Log, l.tool \notin Action, ~l.rejected, NEW k \in DOMAIN ls, SameCall(l, ls[k]),
         l.shows = ls[k].shows, l.byId = ls[k].byId
  PROVE  Aggregate(a, t, Append(ls, l)) <= Aggregate(a, t, ls)
  <1> DEFINE ms == Append(ls, l)
             n == Len(ls)
             s == Scores(a, t, ls)
             u == Scores(a, t, ms)
             success == TaskSuccess(a, t, Credited(ls))
             o == Observed(ls, t)
  <1>1. /\ ms \in Seq(Log) /\ n \in Nat /\ DOMAIN ls = 1..n /\ Len(ms) = n + 1
        /\ DOMAIN ms = 1..(n + 1) /\ ms[n + 1] = l /\ \A i \in 1..n : ms[i] = ls[i]
    OBVIOUS
  <1>2. ActionLogs(ms) = ActionLogs(ls)
    <2> DEFINE I == {i \in DOMAIN ls : ls[i].tool \in Action}
    <2>1. I \in SUBSET (DOMAIN ls)
      OBVIOUS
    <2>2. {i \in DOMAIN ms : ms[i].tool \in Action} = I
      <3> HIDE DEF ms, n
      <3> QED
        BY <1>1
    <2>3. Picked(ms, I) = Picked(ls, I)
      <3> HIDE DEF I
      <3> QED
        BY <2>1, PickedAppend
    <2> QED
      BY <2>2, <2>3 DEF ActionLogs
  <1>3. Observed(ms, t) = o
    <2> DEFINE part(m) == m.shows \cup (IF m.byId THEN {m.arg} ELSE {})
    <2>1. part(l) = part(ls[k])
      BY DEF SameCall
    <2> HIDE DEF part
    <2>2. \A q : ToSet(q) = {q[i] : i \in DOMAIN q}
      BY DEF ToSet
    <2>3. ToSet(ms) = ToSet(ls) \cup {l} /\ ls[k] \in ToSet(ls)
      <3> HIDE DEF ms, n
      <3>1. \A i : i \in 1..(n + 1) <=> i \in 1..n \/ i = n + 1
        BY <1>1
      <3> QED
        BY <1>1, <2>2, <3>1
    <2>4. UNION {part(m) : m \in ToSet(ms)} = UNION {part(m) : m \in ToSet(ls)}
      <3> HIDE DEF ms
      <3> QED
        BY <2>1, <2>3
    <2>5. \A q : Observed(q, t) = {t.message} \cup UNION {part(m) : m \in ToSet(q)}
      BY DEF Observed, part
    <2> QED
      BY <2>4, <2>5
  <1>4. Rejections(ms) = Rejections(ls)
    <2>1. {i \in DOMAIN ms : ms[i].rejected} = {i \in DOMAIN ls : ls[i].rejected}
      <3> HIDE DEF ms, n
      <3> QED
        BY <1>1
    <2> QED
      BY <2>1 DEF Rejections
  <1>5. Duplicates(ms) = Duplicates(ls) + 1
    <2> DEFINE D == {i \in DOMAIN ls : \E j \in 1..(i - 1) : SameCall(ls[i], ls[j])}
               E == {i \in DOMAIN ms : \E j \in 1..(i - 1) : SameCall(ms[i], ms[j])}
    <2>1. E = D \cup {n + 1} /\ n + 1 \notin D
      <3> HIDE DEF ms, n
      <3>1. \A i \in 1..n : i \in 1..(n + 1) /\ i # n + 1 /\ \A j \in 1..(i - 1) : j \in 1..n
        BY <1>1
      <3>2. \A i \in 1..n : i \in E <=> i \in D
        BY <1>1, <3>1
      <3>3. n + 1 \in E
        <4>1. k \in 1..((n + 1) - 1) /\ SameCall(ms[n + 1], ms[k]) /\ n + 1 \in DOMAIN ms
          BY <1>1
        <4> QED
          BY <4>1
      <3>4. D \subseteq 1..n /\ E \subseteq 1..(n + 1) /\ n + 1 \notin 1..n
        BY <1>1
      <3>5. \A i : i \in 1..(n + 1) <=> i \in 1..n \/ i = n + 1
        BY <1>1
      <3> HIDE DEF D, E
      <3> QED
        BY <3>2, <3>3, <3>4, <3>5
    <2>2. IsFiniteSet(D)
      <3>1. D \subseteq 1..n /\ IsFiniteSet(1..n)
        BY <1>1, UpTo
      <3> HIDE DEF D
      <3> QED
        BY <3>1, FS_Subset
    <2>3. Duplicates(ls) = Cardinality(D) /\ Duplicates(ms) = Cardinality(E)
      BY DEF Duplicates
    <2> HIDE DEF D, E
    <2> QED
      BY <2>1, <2>2, <2>3, FS_AddElement
  <1>6. \A d \in Dimension : s[d] \in Int /\ u[d] \in Int
    BY <1>1, ScoresType
  <1>7. Duplicates(ls) \in Nat /\ Duplicates(ls) <= n /\ n > 0
    BY <1>1, DuplicatesType
  <1>8. Efficiency(n + 1, Duplicates(ls) + 1, success) <= Efficiency(n, Duplicates(ls), success)
    <2> HIDE DEF n, success
    <2> QED
      BY <1>1, <1>7, EfficiencyFalls
  <1> HIDE DEF o, success, ms
  <1>9. Credited(ms) = Credited(ls)
    BY <1>2 DEF Credited
  <1>10. Policy(a, t, ms) = Policy(a, t, ls) /\ TaskSuccess(a, t, Credited(ms)) = success
    BY <1>4, <1>9 DEF Policy, success
  <1>11. /\ u.task_success = s.task_success /\ u.policy = s.policy /\ u.evidence = s.evidence
         /\ u.calibration = s.calibration /\ u.communication = s.communication
         /\ u.robustness = s.robustness
         /\ s.efficiency = Efficiency(n, Duplicates(ls), success)
         /\ u.efficiency = Efficiency(n + 1, Duplicates(ls) + 1, success)
    BY <1>1, <1>2, <1>3, <1>5, <1>10 DEF Scores, success, o
  <1> HIDE DEF s, u
  <1>12. /\ s["task_success"] \in Int /\ s["policy"] \in Int /\ s["evidence"] \in Int
         /\ s["calibration"] \in Int /\ s["efficiency"] \in Int /\ s["communication"] \in Int
         /\ s["robustness"] \in Int /\ u["efficiency"] \in Int
    BY <1>6 DEF Dimension
  <1>13. Below(u, s)
    BY <1>8, <1>11, <1>12 DEF Below, Dimension
  <1> QED
    BY <1>13, AggregateGrows DEF s, u, ms

-----------------------------------------------------------------------------
(* The inductive invariant. *)

(* No tool is both a read and an action. *)
LEMMA ToolsAreApart == ReadOnly \cap Action = {}
  BY DEF ReadOnly, Action, ActionOf, Decision

(* What a call logs, and what it does to the world. *)
LEMMA LogOfType ==
  ASSUME IInv, NEW c \in Calls
  PROVE  /\ LogOf(c) \in Log /\ LogOf(c).run = run /\ LogOf(c).tool = c.tool /\ LogOf(c).arg = c.arg
         /\ LogOf(c).rejected = Rejected(c) /\ Rejected(c) \in BOOLEAN
         /\ LogOf(c).byId = (c.tool \notin {"lookup_directory", "get_approved_domains",
                                           "inspect_domain_reputation"})
         /\ c.tool \in ReadOnly => ~Rejected(c) /\ LogOf(c).shows = Shown(LogOf(c))
  <1>1. c \in Call /\ run \in Nat
    BY TriageAssumption DEF IInv, TypeOK
  <1>2. Shown(c) \in SUBSET Id
    <2>1. \A th \in Threads : ThreadOf[th] \subseteq Messages
      BY TriageAssumption
    <2>2. Messages \subseteq Id /\ {c.arg} \ {NoId} \subseteq Id
      BY <1>1 DEF Call, Id
    <2>3. UNION {ThreadOf[th] : th \in Threads \cap {c.arg}} \subseteq Id
      BY <2>1, <2>2
    <2> HIDE DEF Id
    <2> QED
      BY <2>2, <2>3 DEF Shown
  <1>3. Rejected(c) \in BOOLEAN /\ (c.tool \in ReadOnly => ~Rejected(c))
    BY DEF Rejected, ReadOnly
  <1> DEFINE shows == IF Rejected(c) THEN {} ELSE Shown(c)
             byId == c.tool \notin {"lookup_directory", "get_approved_domains", "inspect_domain_reputation"}
  <1>4. LogOf(c) = [run |-> run, tool |-> c.tool, arg |-> c.arg, cites |-> c.cites, byId |-> byId,
                    shows |-> shows, rejected |-> Rejected(c)]
    BY DEF LogOf
  <1>5. shows \in SUBSET Id /\ byId \in BOOLEAN
    BY <1>2
  <1>6. c.tool \in ReadOnly => shows = Shown(c)
    BY <1>3
  <1> HIDE DEF shows
  <1>7. c.tool \in ReadOnly \cup Action /\ c.arg \in Id \cup Strangers \cup {NoId} /\ c.cites \in SUBSET Id
    BY <1>1 DEF Call
  <1>8. LogOf(c) \in Log
    <2> HIDE DEF byId
    <2> QED
      BY <1>1, <1>3, <1>4, <1>5, <1>7 DEF Log
  <1>9. Shown(LogOf(c)) = Shown(c)
    BY <1>4 DEF Shown
  <1> QED
    BY <1>3, <1>4, <1>6, <1>8, <1>9

(* The actions of the run that were not rejected. *)
Accepted(ls, r) == {i \in DOMAIN ls : ls[i].run = r /\ ~ls[i].rejected /\ ls[i].tool \in Action}
Done(ls, r) == Picked(ls, Accepted(ls, r))
Follows(w, done) == /\ w.actions = [i \in DOMAIN done |-> done[i].tool]
                    /\ w.delivery = IF done = <<>> THEN "none" ELSE Effect[Last(done).tool]

(* WorldFollowsLog, by operators of the log and the world. *)
LEMMA WorldUnfolds ==
  /\ WorldFollowsLog <=> Follows(world, Done(logs, run))
  /\ WorldFollowsLog' <=> Follows(world', Done(logs', run'))
  BY DEF WorldFollowsLog, Done, Accepted, Follows

(* Of no places nothing is picked. *)
LEMMA PickedNone ==
  ASSUME NEW q
  PROVE  Picked(q, {}) = <<>>
  <1>1. Cardinality({}) = 0
    BY FS_EmptySet
  <1>2. \A f : 1..Cardinality({}) = {}
    BY <1>1
  <1> QED
    BY <1>2 DEF Picked

(* The invariant holds at the start. *)
LEMMA InitHolds == Init => IInv
  <1> SUFFICES ASSUME Init PROVE IInv
    OBVIOUS
  <1>1. PICK p \in Padding :
          logs = [i \in DOMAIN p |-> [run |-> 1, tool |-> "lookup_directory", arg |-> p[i], cites |-> {},
                                      byId |-> FALSE, shows |-> {}, rejected |-> FALSE]]
    BY DEF Init
  <1>2. p \in Seq(Strangers) /\ Len(p) \in Nat /\ DOMAIN p = 1..Len(p)
    BY TriageAssumption
  <1>3. "lookup_directory" \in ReadOnly /\ "lookup_directory" \notin Action
    BY DEF ReadOnly, Action, ActionOf, Decision
  <1>4. \A i \in DOMAIN p : p[i] \in Strangers
    BY <1>2
  <1>5. DOMAIN logs = 1..Len(p) /\ \A i \in 1..Len(p) : logs[i] \in Log
    <2>1. \A x \in Strangers : [run |-> 1, tool |-> "lookup_directory", arg |-> x, cites |-> {},
                                byId |-> FALSE, shows |-> {}, rejected |-> FALSE] \in Log
      BY <1>3 DEF Log
    <2> QED
      BY <1>1, <1>2, <1>4, <2>1
  <1>6. logs \in Seq(Log)
    <2>1. logs = [i \in 1..Len(p) |-> logs[i]]
      BY <1>1, <1>2
    <2> QED
      BY <1>2, <1>5, <2>1
  <1>7. world = Seed /\ Seed \in [delivery : {"none"} \cup {Effect[t] : t \in Action}, actions : Seq(Action)]
    BY DEF Init, Seed
  <1>8. TypeOK
    BY <1>6, <1>7 DEF Init, TypeOK
  <1>9. LogsInv
    <2>1. \A i \in DOMAIN logs : /\ logs[i].run = 1 /\ logs[i].byId = FALSE /\ logs[i].tool = "lookup_directory"
                                /\ logs[i].rejected = FALSE /\ logs[i].arg \in Strangers
      BY <1>1, <1>4
    <2>2. run = 1 /\ "lookup_directory" \in {"lookup_directory", "get_approved_domains",
                                              "inspect_domain_reputation"}
      BY DEF Init
    <2>3. \A i \in DOMAIN logs : logs[i].byId = (logs[i].tool \notin {"lookup_directory",
                                              "get_approved_domains", "inspect_domain_reputation"})
      BY <2>1, <2>2
    <2> QED
      BY <2>1, <2>2, <2>3 DEF LogsInv
  <1>10. Accepted(logs, run) = {}
    BY <1>1, <1>3 DEF Accepted
  <1>11. Done(logs, run) = <<>>
    BY <1>10, PickedNone DEF Done
  <1>12. WorldFollowsLog
    BY <1>7, <1>11, WorldUnfolds DEF Seed, Follows
  <1> QED
    BY <1>8, <1>9, <1>12 DEF IInv

(* A tool call keeps the invariant: the world and the accepted actions of  *)
(* the log grow alike.                                                     *)
LEMMA CallToolStep ==
  ASSUME IInv, NEW c \in Calls, CallTool(c)
  PROVE  IInv'
  <1> DEFINE l == LogOf(c)
             n == Len(logs)
             done == Done(logs, run)
             I == Accepted(logs, run)
  <1>1. /\ truth \in Truths /\ run \in Nat \ {0} /\ logs \in Seq(Log) /\ LogsInv
        /\ world \in [delivery : {"none"} \cup {Effect[t] : t \in Action}, actions : Seq(Action)]
        /\ Follows(world, done)
    BY WorldUnfolds DEF IInv, TypeOK
  <1>2. logs' = Append(logs, l) /\ world' = WorldAfter(c) /\ truth' = truth /\ run' = run
    BY DEF CallTool
  <1>3. /\ l \in Log /\ l.run = run /\ l.tool = c.tool /\ l.arg = c.arg
        /\ l.rejected = Rejected(c) /\ Rejected(c) \in BOOLEAN
        /\ l.byId = (c.tool \notin {"lookup_directory", "get_approved_domains", "inspect_domain_reputation"})
        /\ c.tool \in ReadOnly => ~Rejected(c) /\ l.shows = Shown(l)
    BY LogOfType
  <1> HIDE DEF l
  <1>4. /\ n \in Nat /\ DOMAIN logs = 1..n /\ logs' \in Seq(Log) /\ DOMAIN logs' = 1..(n + 1)
        /\ logs'[n + 1] = l /\ \A i \in 1..n : logs'[i] = logs[i]
    BY <1>1, <1>2, <1>3
  <1>5. \A i : i \in 1..(n + 1) <=> i \in 1..n \/ i = n + 1
    BY <1>4
  <1>6. LogsInv'
    <2> SUFFICES ASSUME NEW i \in DOMAIN logs'
                 PROVE  /\ logs'[i].run <= run'
                        /\ logs'[i].byId = (logs'[i].tool \notin {"lookup_directory", "get_approved_domains",
                                                                "inspect_domain_reputation"})
                        /\ logs'[i].tool \in ReadOnly => ~logs'[i].rejected
                        /\ logs'[i].tool \in ReadOnly /\ logs'[i].arg \notin Strangers =>
                             logs'[i].shows = Shown(logs'[i])
      BY DEF LogsInv, Shown
    <2>1. CASE i \in 1..n
      BY <1>1, <1>2, <1>4, <2>1 DEF LogsInv
    <2>2. CASE i = n + 1
      BY <1>1, <1>2, <1>3, <1>4, <2>2
    <2> QED
      BY <1>4, <1>5, <2>1, <2>2
  <1>7. I \in SUBSET (DOMAIN logs) /\ done = Picked(logs, I)
    BY DEF Accepted, Done
  <1> HIDE DEF I, done
  <1>8. Picked(logs', I) = done /\ Picked(logs', I \cup {n + 1}) = Append(done, l) /\ done \in Seq(Log)
    <2>1. /\ Picked(Append(logs, l), I) = Picked(logs, I)
          /\ Picked(Append(logs, l), I \cup {Len(logs) + 1}) = Append(Picked(logs, I), l)
      <3>1. logs \in Seq(Log) /\ l \in Log /\ I \in SUBSET (DOMAIN logs)
        BY <1>1, <1>3, <1>7
      <3>2. Picked(Append(logs, l), I) = Picked(logs, I)
        BY <3>1, PickedAppend
      <3>3. Picked(Append(logs, l), I \cup {Len(logs) + 1}) = Append(Picked(logs, I), l)
        BY <3>1, PickedAppend
      <3> QED
        BY <3>2, <3>3
    <2>2. Picked(logs, I) \in Seq(Log)
      BY <1>1, <1>7, PickedType
    <2> QED
      BY <1>2, <1>7, <2>1, <2>2
  <1>9. CASE c.tool \in Action /\ ~Rejected(c)
    <2>1. Accepted(logs', run') = I \cup {n + 1}
      BY <1>2, <1>3, <1>4, <1>5, <1>9 DEF Accepted, I
    <2>2. Done(logs', run') = Append(done, l)
      BY <1>8, <2>1 DEF Done
    <2>3. world' = [delivery |-> Effect[c.tool], actions |-> Append(world.actions, c.tool)]
      BY <1>2, <1>9 DEF WorldAfter
    <2>4. Append(done, l) # <<>> /\ Last(Append(done, l)) = l
      BY <1>3, <1>8 DEF Last
    <2>5. Append(world.actions, c.tool) = [i \in DOMAIN Append(done, l) |-> Append(done, l)[i].tool]
      <3>1. Append(world.actions, c.tool) =
              [i \in 1..(Len(world.actions) + 1) |-> IF i = Len(world.actions) + 1 THEN c.tool ELSE world.actions[i]]
        BY <1>1, <1>9
      <3>2. PICK m \in Nat : m = Len(done) /\ DOMAIN done = 1..m
        BY <1>8
      <3>3. Len(world.actions) = m /\ \A i \in 1..m : world.actions[i] = done[i].tool
        BY <1>1, <3>2 DEF Follows
      <3>4. /\ DOMAIN Append(done, l) = 1..(m + 1) /\ Append(done, l)[m + 1] = l
            /\ \A i \in 1..m : Append(done, l)[i] = done[i]
        BY <1>3, <1>8, <3>2
      <3>5. \A i \in 1..(m + 1) : (IF i = m + 1 THEN c.tool ELSE world.actions[i]) = Append(done, l)[i].tool
        BY <1>3, <3>3, <3>4
      <3> QED
        BY <3>1, <3>3, <3>4, <3>5
    <2>6. Follows(world', Append(done, l))
      BY <1>3, <2>3, <2>4, <2>5 DEF Follows
    <2>7. WorldFollowsLog'
      BY <2>2, <2>6, WorldUnfolds
    <2>8. TypeOK'
      <3>1. Append(world.actions, c.tool) \in Seq(Action) /\ Effect[c.tool] \in {Effect[t] : t \in Action}
        BY <1>1, <1>9
      <3> QED
        BY <1>1, <1>2, <1>4, <2>3, <3>1 DEF TypeOK
    <2> QED
      BY <1>6, <2>7, <2>8 DEF IInv
  <1>10. CASE ~(c.tool \in Action /\ ~Rejected(c))
    <2>1. Accepted(logs', run') = I
      BY <1>2, <1>3, <1>4, <1>5, <1>10 DEF Accepted, I
    <2>2. Done(logs', run') = done
      BY <1>8, <2>1 DEF Done
    <2>3. world' = world
      BY <1>2, <1>10 DEF WorldAfter
    <2>4. WorldFollowsLog'
      BY <1>1, <2>2, <2>3, WorldUnfolds
    <2>5. TypeOK'
      BY <1>1, <1>2, <1>4, <2>3 DEF TypeOK
    <2> QED
      BY <1>6, <2>4, <2>5 DEF IInv
  <1> QED
    BY <1>9, <1>10

(* A new assignment keeps the invariant: its run has no log yet. *)
LEMMA AssignTaskStep ==
  ASSUME IInv, AssignTask
  PROVE  IInv'
  <1>1. /\ truth \in Truths /\ run \in Nat \ {0} /\ logs \in Seq(Log) /\ LogsInv
        /\ run' = run + 1 /\ world' = Seed /\ logs' = logs /\ truth' = truth
    BY DEF IInv, TypeOK, AssignTask
  <1>2. \A i \in DOMAIN logs : logs[i].run \in Nat
    <2>1. \A i \in DOMAIN logs : logs[i] \in Log
      BY <1>1
    <2> QED
      BY <2>1 DEF Log
  <1>3. LogsInv'
    <2> SUFFICES ASSUME NEW i \in DOMAIN logs
                 PROVE  /\ logs[i].run <= run + 1
                        /\ logs[i].byId = (logs[i].tool \notin {"lookup_directory", "get_approved_domains",
                                                               "inspect_domain_reputation"})
                        /\ logs[i].tool \in ReadOnly => ~logs[i].rejected
                        /\ logs[i].tool \in ReadOnly /\ logs[i].arg \notin Strangers =>
                             logs[i].shows = Shown(logs[i])
      BY <1>1 DEF LogsInv, Shown
    <2>1. logs[i].run <= run + 1
      BY <1>1, <1>2 DEF LogsInv
    <2> QED
      BY <1>1, <2>1 DEF LogsInv
  <1>4. Accepted(logs', run') = {}
    BY <1>1, <1>2 DEF Accepted, LogsInv
  <1>5. Done(logs', run') = <<>>
    BY <1>4, PickedNone DEF Done
  <1>6. WorldFollowsLog'
    BY <1>1, <1>5, WorldUnfolds DEF Follows, Seed
  <1>7. TypeOK'
    <2>1. run + 1 \in Nat \ {0} /\ <<>> \in Seq(Action)
      BY <1>1
    <2> QED
      BY <1>1, <2>1 DEF TypeOK, Seed
  <1> QED
    BY <1>3, <1>6, <1>7 DEF IInv

(* Every step keeps the invariant. *)
LEMMA StepHolds ==
  ASSUME IInv, [Next]_vars
  PROVE  IInv'
  <1>1. CASE UNCHANGED vars
    <2>1. WorldFollowsLog'
      BY <1>1, WorldUnfolds DEF vars, IInv
    <2> QED
      BY <1>1, <2>1 DEF vars, IInv, TypeOK, LogsInv, Shown
  <1> QED
    BY <1>1, CallToolStep, AssignTaskStep DEF Next

(* The inductive invariant holds of every behaviour of a task. *)
THEOREM InvariantHolds == Spec => []IInv
  <1>1. Init => IInv
    BY InitHolds
  <1>2. IInv /\ [Next]_vars => IInv'
    BY StepHolds
  <1> QED
    BY <1>1, <1>2, PTL DEF Spec

(* The world of a run holds the actions its log has as accepted, in their  *)
(* order, and the effect of the last (tool_service.py: run_tool).          *)
THEOREM WorldFollowsLogHolds == Spec => []WorldFollowsLog
  <1>1. IInv => WorldFollowsLog
    BY DEF IInv
  <1> QED
    BY <1>1, InvariantHolds, PTL

(* The log of a run is a log. *)
LEMMA OfRunType ==
  ASSUME NEW ls \in Seq(Log), NEW r
  PROVE  OfRun(ls, r) \in Seq(Log)
  <1>1. {i \in DOMAIN ls : ls[i].run = r} \in SUBSET (DOMAIN ls)
    OBVIOUS
  <1> QED
    BY <1>1, PickedType DEF OfRun

(* An identifier the run has not observed never raises the score of an     *)
(* answer that cites it (sz_score_evidence, sz_score_robustness).          *)
THEOREM FabricationNeverPaysHolds == Spec => []FabricationNeverPays
  <1>1. IInv => FabricationNeverPays
    <2> SUFFICES ASSUME IInv, NEW a \in Answers, NEW i \in Id \ Observed(Now, truth)
                 PROVE  Score([a EXCEPT !.evidence = Append(@, i)]) <= Score(a)
      BY DEF FabricationNeverPays
    <2>1. a \in Answer /\ truth \in Truth /\ IsFiniteSet(Id)
      BY TriageAssumption DEF IInv, TypeOK
    <2>2. Now \in Seq(Log)
      BY OfRunType DEF IInv, TypeOK, Now
    <2> QED
      BY <2>1, <2>2, FabricationFalls DEF Score
  <1> QED
    BY <1>1, InvariantHolds, PTL

(* A call adds its log to those of the run. *)
LEMMA NowGrows ==
  ASSUME IInv, NEW c \in Calls, CallTool(c)
  PROVE  /\ OfRun(logs', run) = Append(Now, LogOf(c)) /\ Now \in Seq(Log) /\ LogOf(c) \in Log
         /\ Last(logs') = LogOf(c)
         /\ \A k \in DOMAIN Now : \E i \in DOMAIN logs : Now[k] = logs[i]
  <1> DEFINE I == {i \in DOMAIN logs : logs[i].run = run}
             l == LogOf(c)
             n == Len(logs)
  <1>1. logs \in Seq(Log) /\ l \in Log /\ l.run = run /\ logs' = Append(logs, l)
    BY LogOfType DEF IInv, TypeOK, CallTool
  <1> HIDE DEF l
  <1>2. /\ n \in Nat /\ DOMAIN logs = 1..n /\ DOMAIN logs' = 1..(n + 1)
        /\ logs'[n + 1] = l /\ \A i \in 1..n : logs'[i] = logs[i]
        /\ Last(logs') = l
    BY <1>1 DEF Last
  <1>3. \A i : i \in 1..(n + 1) <=> i \in 1..n \/ i = n + 1
    BY <1>2
  <1>4. {i \in DOMAIN logs' : logs'[i].run = run} = I \cup {n + 1}
    BY <1>1, <1>2, <1>3
  <1>5. I \in SUBSET (DOMAIN logs) /\ Now = Picked(logs, I)
    BY DEF Now, OfRun
  <1>6. OfRun(logs', run) = Picked(logs', I \cup {n + 1})
    BY <1>4 DEF OfRun
  <1> HIDE DEF I
  <1>7. Picked(Append(logs, l), I \cup {n + 1}) = Append(Picked(logs, I), l)
    BY <1>1, <1>5, PickedAppend
  <1>8. /\ Picked(logs, I) \in Seq(Log)
        /\ {Picked(logs, I)[k] : k \in DOMAIN Picked(logs, I)} = {logs[i] : i \in I}
    BY <1>1, <1>5, PickedType
  <1>9. \A k \in DOMAIN Now : \E i \in DOMAIN logs : Now[k] = logs[i]
    BY <1>5, <1>8
  <1> QED
    BY <1>1, <1>2, <1>5, <1>6, <1>7, <1>8, <1>9 DEF l

(* What the run has observed it has observed to its end                    *)
(* (sz_extract_observed_evidence).                                         *)
THEOREM EvidenceNeverLostHolds == Spec => EvidenceNeverLost
  <1> DEFINE evidence(a, ls) == Evidence(ToSet(a.evidence), truth.required, Observed(ls, truth))
  <1>1. ASSUME IInv, [Next]_vars, run' = run, NEW a \in Answers
        PROVE  evidence(a, OfRun(logs', run)) >= evidence(a, Now)
    <2>1. a \in Answer /\ truth \in Truth /\ IsFiniteSet(Id) /\ run \in Nat /\ Now \in Seq(Log)
      BY <1>1, TriageAssumption, OfRunType DEF IInv, TypeOK, Now
    <2>2. IsFiniteSet(ToSet(a.evidence)) /\ IsFiniteSet(truth.required)
      BY <2>1, CitationsFinite
    <2>3. evidence(a, Now) \in Nat
      BY <2>2, EvidenceUnfolds
    <2>4. CASE UNCHANGED logs
      BY <2>3, <2>4 DEF Now
    <2>5. ASSUME NEW c \in Calls, CallTool(c) PROVE evidence(a, OfRun(logs', run)) >= evidence(a, Now)
      <3> DEFINE ms == Append(Now, LogOf(c))
      <3>1. OfRun(logs', run) = ms /\ LogOf(c) \in Log
        BY <1>1, <2>5, NowGrows
      <3>2. Observed(Now, truth) \subseteq Observed(ms, truth)
        <4>1. \A k \in DOMAIN Now : k \in DOMAIN ms /\ ms[k] = Now[k]
          BY <2>1, <3>1
        <4>2. ToSet(Now) \subseteq ToSet(ms)
          <5> HIDE DEF ms
          <5> QED
            BY <4>1 DEF ToSet
        <4> HIDE DEF ms
        <4> QED
          BY <4>2 DEF Observed
      <3> HIDE DEF ms
      <3>3. evidence(a, Now) <= evidence(a, ms) /\ evidence(a, ms) \in Nat
        BY <2>2, <3>2, EvidenceGrows, EvidenceUnfolds
      <3> QED
        BY <2>3, <3>1, <3>3
    <2>6. CASE AssignTask
      BY <1>1, <2>1, <2>6 DEF AssignTask
    <2> QED
      BY <1>1, <2>4, <2>5, <2>6 DEF Next, vars
  <1>2. IInv /\ [Next]_vars =>
          [run' = run => \A a \in Answers :
             LET evidence_1(ls) == Evidence(ToSet(a.evidence), truth.required, Observed(ls, truth))
             IN evidence_1(OfRun(logs', run)) >= evidence_1(Now)]_vars
    BY <1>1
  <1> QED
    BY <1>2, InvariantHolds, PTL DEF Spec, EvidenceNeverLost

(* Repeating a read of the run never raises the score of an answer         *)
(* (sz_score_efficiency).                                                  *)
THEOREM RepeatedReadNeverPaysHolds == Spec => RepeatedReadNeverPays
  <1>1. ASSUME IInv, [Next]_vars, logs' # logs, Repeats(Last(logs')), NEW a \in Answers
        PROVE  Aggregate(a, truth, OfRun(logs', run)) <= Score(a)
    <2>1. PICK c \in Calls : CallTool(c)
      BY <1>1 DEF Next, AssignTask, vars
    <2> DEFINE l == LogOf(c)
    <2>2. /\ OfRun(logs', run) = Append(Now, l) /\ Now \in Seq(Log) /\ l \in Log /\ Last(logs') = l
          /\ \A k \in DOMAIN Now : \E i \in DOMAIN logs : Now[k] = logs[i]
      BY <1>1, <2>1, NowGrows
    <2>3. /\ l.tool = c.tool /\ l.arg = c.arg /\ l.rejected = Rejected(c)
          /\ l.byId = (c.tool \notin {"lookup_directory", "get_approved_domains",
                                     "inspect_domain_reputation"})
          /\ c.tool \in ReadOnly => ~Rejected(c) /\ l.shows = Shown(l)
      BY <1>1, LogOfType
    <2> HIDE DEF l
    <2>4. l.tool \in ReadOnly /\ \E m \in ToSet(Now) : SameCall(l, m)
      BY <1>1, <2>2 DEF Repeats
    <2>5. PICK k \in DOMAIN Now : SameCall(l, Now[k])
      BY <2>4 DEF ToSet
    <2>6. PICK i \in DOMAIN logs : Now[k] = logs[i]
      BY <2>2
    <2>7. logs[i].tool = l.tool /\ logs[i].arg = l.arg
      BY <2>5, <2>6 DEF SameCall
    <2>8. l.arg \notin Strangers
      BY <2>3, TriageAssumption DEF Call
    <2>9. /\ logs[i].byId = (logs[i].tool \notin {"lookup_directory", "get_approved_domains",
                                                 "inspect_domain_reputation"})
          /\ logs[i].shows = Shown(logs[i])
      BY <1>1, <2>4, <2>7, <2>8 DEF IInv, LogsInv
    <2>10. Shown(logs[i]) = Shown(l)
      BY <2>7 DEF Shown
    <2>11. l.shows = Now[k].shows /\ l.byId = Now[k].byId
      BY <2>3, <2>4, <2>6, <2>7, <2>9, <2>10
    <2>12. l.tool \notin Action /\ ~l.rejected
      BY <2>3, <2>4, ToolsAreApart
    <2>13. a \in Answer /\ truth \in Truth /\ IsFiniteSet(Id)
      BY <1>1, TriageAssumption DEF IInv, TypeOK
    <2>14. Aggregate(a, truth, Append(Now, l)) <= Aggregate(a, truth, Now)
      BY <2>2, <2>5, <2>11, <2>12, <2>13, RepeatFalls
    <2> QED
      BY <2>2, <2>14 DEF Score
  <1>2. IInv /\ [Next]_vars =>
          [logs' # logs /\ Repeats(Last(logs')) => \A a \in Answers :
             Aggregate(a, truth, OfRun(logs', run)) <= Score(a)]_vars
    BY <1>1
  <1> QED
    BY <1>2, InvariantHolds, PTL DEF Spec, RepeatedReadNeverPays

-----------------------------------------------------------------------------
(* A factor on both sides cancels. *)
LEMMA Cancel ==
  ASSUME NEW n \in Nat, n > 0, NEW x \in Int, NEW y \in Int
  PROVE  x <= y <=> n * x <= n * y
  <1>1. CASE x <= y
    BY <1>1, TimesGrows
  <1>2. CASE ~(x <= y)
    <2>1. PICK k \in Nat : x = y + 1 + k
      <3>1. x - y - 1 \in Nat /\ x = y + 1 + (x - y - 1)
        BY <1>2
      <3> QED
        BY <3>1
    <2>2. n * x = n * y + n + n * k /\ n * k \in Nat /\ n * y \in Int
      BY <2>1
    <2> QED
      BY <1>2, <2>2
  <1> QED
    BY <1>1, <1>2

(* n falls into c shares of size p. *)
Shares(n, c, p) == n \in Nat /\ c \in Nat /\ c > 0 /\ p \in Nat /\ c * p = n

(* The harmonic mean of two shares of n is a share of 2n. *)
LEMMA HarmonicOfShares ==
  ASSUME NEW n, NEW c, NEW r, NEW p, NEW q, Shares(n, c, p), Shares(n, r, q)
  PROVE  Harmonic(p, q) = (2 * n) \div (c + r)
  <1> USE DEF Shares
  <1>1. c + r \in Nat /\ c + r > 0 /\ 2 * n \in Nat
    OBVIOUS
  <1>2. CASE n = 0
    <2>1. p = 0 /\ q = 0
      BY <1>2
    <2>2. (2 * n) \div (c + r) = 0
      BY <1>1, <1>2, Quotient
    <2> QED
      BY <2>1, <2>2 DEF Harmonic
  <1>3. CASE n > 0
    <2>1. p > 0 /\ q > 0
      BY <1>3
    <2>2. p + q \in Nat /\ p + q > 0 /\ 2 * p * q \in Nat /\ c * r \in Nat /\ c * r > 0
      BY <2>1
    <2>3. (c * r) * (p + q) = n * (c + r)
      <3>1. (c * r) * (p + q) = r * (c * p) + c * (r * q)
        OBVIOUS
      <3> QED
        BY <3>1
    <2>4. (c * r) * (2 * p * q) = n * (2 * n)
      <3>1. (c * r) * (2 * p * q) = 2 * ((c * p) * (r * q))
        OBVIOUS
      <3>2. 2 * (n * n) = n * (2 * n)
        OBVIOUS
      <3> QED
        BY <3>1, <3>2
    <2>5. ASSUME NEW k \in Nat PROVE (p + q) * k <= 2 * p * q <=> (c + r) * k <= 2 * n
      <3>1. (c * r) * ((p + q) * k) = n * ((c + r) * k)
        <4>1. (c * r) * ((p + q) * k) = ((c * r) * (p + q)) * k /\ n * ((c + r) * k) = (n * (c + r)) * k
          BY <2>2
        <4> QED
          BY <2>3, <4>1
      <3>2. (p + q) * k \in Int /\ (c + r) * k \in Int
        OBVIOUS
      <3>3. (p + q) * k <= 2 * p * q <=> (c * r) * ((p + q) * k) <= (c * r) * (2 * p * q)
        BY <2>2, <3>2, Cancel
      <3>4. (c + r) * k <= 2 * n <=> n * ((c + r) * k) <= n * (2 * n)
        BY <1>1, <1>3, <3>2, Cancel
      <3> QED
        BY <2>4, <3>1, <3>3, <3>4
    <2> DEFINE x == (2 * p * q) \div (p + q)
               y == (2 * n) \div (c + r)
    <2>6. x \in Nat /\ y \in Nat /\ (p + q) * x <= 2 * p * q /\ (c + r) * y <= 2 * n
      BY <1>1, <2>2, Quotient
    <2>7. x <= y
      <3> HIDE DEF x
      <3> QED
        BY <1>1, <2>5, <2>6, QuotientBound
    <2>8. y <= x
      <3> HIDE DEF y
      <3> QED
        BY <2>2, <2>5, <2>6, QuotientBound
    <2> QED
      BY <2>2, <2>6, <2>7, <2>8 DEF Harmonic
  <1> QED
    BY <1>2, <1>3

(* The sizes up to ten divide the unit. *)
LEMMA ExactQuotient ==
  ASSUME NEW h \in Nat, NEW c \in 1..10
  PROVE  c * ((h * One) \div c) = h * One
  <1>1. PICK m \in Nat : c * m = One
    <2>1. \/ c * 2520 = One \/ c * 1260 = One \/ c * 840 = One \/ c * 630 = One \/ c * 504 = One
          \/ c * 420 = One \/ c * 360 = One \/ c * 315 = One \/ c * 280 = One \/ c * 252 = One
      BY DEF One
    <2> QED
      BY <2>1
  <1> DEFINE d == (h * One) \div c
  <1>2. h * One \in Nat /\ c \in Nat /\ c > 0
    BY DEF One
  <1>3. c * (h * m) = h * One /\ h * m \in Nat
    BY <1>1
  <1>4. d \in Nat /\ c * d <= h * One
    BY <1>2, Quotient
  <1>5. h * m <= d
    BY <1>2, <1>3, QuotientBound
  <1> HIDE DEF d
  <1>6. c * (h * m) <= c * d /\ c * d \in Int
    BY <1>2, <1>3, <1>4, <1>5, TimesGrows
  <1>7. c * d = h * One
    BY <1>2, <1>3, <1>4, <1>6
  <1> QED
    BY <1>7 DEF d

(* The evidence score of finite sets of up to ten identifiers is the Dice  *)
(* coefficient.                                                            *)
LEMMA EvidenceOfShares ==
  ASSUME NEW cited, NEW required, NEW observed, IsFiniteSet(cited), IsFiniteSet(required),
         Cardinality(cited) <= 10, Cardinality(required) <= 10
  PROVE  LET right == Cardinality(cited \cap observed \cap required)
             total == Cardinality(cited) + Cardinality(required)
         IN Evidence(cited, required, observed) =
              IF total = 0 THEN One ELSE (2 * right * One) \div total
  <1> DEFINE h == Cardinality(cited \cap observed \cap required)
             c == Cardinality(cited)
             r == Cardinality(required)
  <1>1. /\ Evidence(cited, required, observed) = Harmonic(Precise(cited, required, h), Recalled(required, h))
        /\ Precise(cited, required, h) \in Nat /\ Recalled(required, h) \in Nat /\ h \in Nat
    BY EvidenceUnfolds
  <1>2. /\ c \in Nat /\ r \in Nat /\ c <= 10 /\ r <= 10
        /\ (c = 0 <=> cited = {}) /\ (r = 0 <=> required = {})
    BY PositiveCardinality, FS_EmptySet
  <1>3. cited = {} \/ required = {} => h = 0
    BY FS_EmptySet
  <1>4. Evidence(cited, required, observed) = IF c + r = 0 THEN One ELSE (2 * h * One) \div (c + r)
    <2> HIDE DEF h, c, r
    <2>1. CASE cited = {} /\ required = {}
      <3>1. Harmonic(One, One) = One
        BY DEF Harmonic, One
      <3> QED
        BY <1>1, <1>2, <2>1, <3>1 DEF Precise, Recalled
    <2>2. CASE (cited = {}) # (required = {})
      <3>1. h * One = 0 /\ 2 * h * One = 0 /\ c + r \in Nat /\ c + r > 0
        BY <1>2, <1>3, <2>2 DEF One
      <3>2. (2 * h * One) \div (c + r) = 0
        BY <3>1, Quotient
      <3>3. Precise(cited, required, h) = 0
        <4>1. cited # {} => (h * One) \div c = 0
          BY <1>2, <3>1, Quotient
        <4> QED
          BY <2>2, <4>1 DEF Precise, c
      <3>4. \A p \in Nat : Harmonic(p, 0) = 0 /\ Harmonic(0, p) = 0
        <4> SUFFICES ASSUME NEW p \in Nat PROVE Harmonic(p, 0) = 0
          BY HarmonicType
        <4>1. CASE p = 0
          BY <4>1 DEF Harmonic
        <4>2. CASE p > 0
          <5>1. 2 * p * 0 = 0 /\ p + 0 = p /\ 0 \div p = 0
            BY <4>2, Quotient
          <5> QED
            BY <4>2, <5>1 DEF Harmonic
        <4> QED
          BY <4>1, <4>2
      <3> QED
        BY <1>1, <3>1, <3>2, <3>3, <3>4
    <2>3. CASE cited # {} /\ required # {}
      <3>1. c \in 1..10 /\ r \in 1..10 /\ c + r # 0
        BY <1>2, <2>3
      <3> DEFINE n == h * One
      <3>2. n \in Nat /\ 2 * n = 2 * h * One
        BY <1>1 DEF One
      <3>3. c * Precise(cited, required, h) = n /\ r * Recalled(required, h) = n
        <4>1. c * ((h * One) \div c) = h * One /\ r * ((h * One) \div r) = h * One
          BY <1>1, <3>1, ExactQuotient
        <4> QED
          BY <2>3, <4>1 DEF Precise, Recalled, c, r
      <3> DEFINE p == Precise(cited, required, h)
                 q == Recalled(required, h)
      <3>4. Harmonic(p, q) = (2 * n) \div (c + r)
        <4>1. Shares(n, c, p) /\ Shares(n, r, q)
          BY <1>1, <3>1, <3>2, <3>3 DEF Shares
        <4> HIDE DEF n, p, q
        <4> QED
          BY <4>1, HarmonicOfShares
      <3> QED
        BY <1>1, <3>1, <3>2, <3>4
    <2> QED
      BY <2>1, <2>2, <2>3
  <1> QED
    BY <1>4

(* The evidence score is the Dice coefficient of citations and required    *)
(* identifiers, as long as the model's unit is divisible by their numbers  *)
(* (sz_score_evidence).                                                    *)
THEOREM EvidenceIsDiceHolds ==
  ASSUME ExactShares
  PROVE  Spec => []EvidenceIsDice
  <1>1. IInv => EvidenceIsDice
    <2> SUFFICES ASSUME IInv, NEW cited \in SUBSET (truth.required \cup Messages)
                 PROVE  LET observed == Observed(Now, truth)
                            right == Cardinality(cited \cap observed \cap truth.required)
                            total == Cardinality(cited) + Cardinality(truth.required)
                        IN Evidence(cited, truth.required, observed) =
                             IF total = 0 THEN One ELSE (2 * right * One) \div total
      BY DEF EvidenceIsDice
    <2> DEFINE all == truth.required \cup Messages
    <2>1. truth \in Truths /\ truth.required \subseteq Id
      BY TriageAssumption DEF IInv, TypeOK, Truth
    <2>2. IsFiniteSet(all)
      BY <2>1, TriageAssumption, FS_Subset DEF Id
    <2>3. cited \subseteq all /\ truth.required \subseteq all
      OBVIOUS
    <2>4. Cardinality(all) <= 10 /\ Cardinality(all) \in Nat
      BY <2>1, <2>2, FS_CardinalityType DEF ExactShares
    <2> HIDE DEF all
    <2>5. /\ IsFiniteSet(cited) /\ Cardinality(cited) <= Cardinality(all)
          /\ IsFiniteSet(truth.required) /\ Cardinality(truth.required) <= Cardinality(all)
      BY <2>2, <2>3, FS_Subset
    <2>6. Cardinality(cited) <= 10 /\ Cardinality(truth.required) <= 10
      BY <2>4, <2>5, FS_CardinalityType
    <2> QED
      BY <2>5, <2>6, EvidenceOfShares
  <1> QED
    BY <1>1, InvariantHolds, PTL

-----------------------------------------------------------------------------
(* The answer that decides d, all else equal, with a summary that words no *)
(* decision.                                                               *)
Deciding(a, d) == [a EXCEPT !.decision = d, !.summary.words = {}, !.summary.claims = {}]

(* Such answers differ in their decision only. *)
LEMMA DecidingType ==
  ASSUME NEW a \in Answer, NEW d \in Decision
  PROVE  LET x == Deciding(a, d)
         IN /\ x \in Answer /\ x.decision = d
            /\ x.escalation = a.escalation /\ x.evidence = a.evidence /\ x.confidence = a.confidence
            /\ x.summary = [a.summary EXCEPT !.words = {}, !.claims = {}]
  BY DEF Deciding, Answer, Summary

(* The task success and the alignment of the expected, ...                 *)
LEMMA RightDecision ==
  ASSUME NEW x, NEW t, NEW credited, x.decision = t.expected, t.expected \in Decision
  PROVE  /\ TaskSuccess(x, t, credited) \in {1386, 2016, 2520}
         /\ Alignment(x.decision, t.expected) = 10
  <1>1. TaskSuccess(x, t, credited) \in {Percent(55), Percent(80), One}
    BY DEF TaskSuccess, Decision, Blocking
  <1>2. Alignment(x.decision, t.expected) = 10
    BY DEF Alignment, Decision, Blocking
  <1> QED
    BY <1>1, <1>2, PartsAreNatural

(* ... the similar ...                                                     *)
LEMMA NearDecision ==
  ASSUME NEW x, NEW t, NEW credited, x.decision \in Decision, t.expected \in Decision,
         x.decision # t.expected, Similar(x.decision, t.expected)
  PROVE  /\ Alignment(x.decision, t.expected) \in {4, 6}
         /\ \/ TaskSuccess(x, t, credited) = 1008 /\ Alignment(x.decision, t.expected) = 6
            \/ TaskSuccess(x, t, credited) = 1260
  <1> DEFINE d == x.decision  e == t.expected
  <1>1. \/ d \in Blocking /\ e \in Blocking
        \/ d \in {"allow", "warn"} /\ e \in {"allow", "warn"}
    BY DEF Similar
  <1>2. Alignment(d, e) = IF d = "allow" /\ e = "warn" THEN 4 ELSE 6
    BY <1>1 DEF Alignment, Blocking
  <1>3. TaskSuccess(x, t, credited) = IF d \in Blocking THEN Percent(40) ELSE Percent(50)
    BY <1>1 DEF TaskSuccess, Blocking
  <1> QED
    BY <1>1, <1>2, <1>3, PartsAreNatural DEF Blocking

(* ... and any other decision.                                             *)
LEMMA FarDecision ==
  ASSUME NEW x, NEW t, NEW credited, x.decision \in Decision, t.expected \in Decision,
         x.decision # t.expected, ~Similar(x.decision, t.expected)
  PROVE  /\ TaskSuccess(x, t, credited) = 0
         /\ Alignment(x.decision, t.expected) \in {0, 10}
  <1>1. TaskSuccess(x, t, credited) = 0
    BY DEF TaskSuccess
  <1>2. ~(x.decision = "allow" /\ t.expected = "warn")
    BY DEF Similar
  <1>3. Alignment(x.decision, t.expected) \in {0, 10}
    BY <1>2 DEF Alignment
  <1> QED
    BY <1>1, <1>3

(* What a decision is worth to the policy score: coherence and alignment.  *)
Worth(x, t, ls) ==
  (IF x.decision \in Decision /\ Credited(ls).tool = ActionOf[x.decision] THEN 2 ELSE 1)
  * Alignment(x.decision, t.expected)

(* A decision worth 2n more earns at most 252n more. *)
LEMMA PolicyGap ==
  ASSUME NEW x, NEW y, NEW t, NEW ls \in Seq(Log), NEW n \in 0..10,
         Alignment(x.decision, t.expected) \in {0, 4, 6, 10},
         Alignment(y.decision, t.expected) \in {0, 4, 6, 10},
         Worth(x, t, ls) <= Worth(y, t, ls) + 2 * n
  PROVE  Policy(x, t, ls) <= Policy(y, t, ls) + 252 * n
  <1> DEFINE k == Max({0, 4 - Rejections(ls)})
             coherence(z) == IF z.decision \in Decision /\ Credited(ls).tool = ActionOf[z.decision]
                             THEN 2 ELSE 1
  <1>1. k \in 0..4
    <2>1. Rejections(ls) \in Nat
      BY RejectionsType
    <2> QED
      BY <2>1, MaxOfTwo
  <1>2. \A z : /\ Policy(z, t, ls) = (One * k * coherence(z) * Alignment(z.decision, t.expected)) \div 80
               /\ Worth(z, t, ls) = coherence(z) * Alignment(z.decision, t.expected)
               /\ coherence(z) \in {1, 2}
    BY DEF Policy, Worth
  <1> HIDE DEF k, coherence
  <1>3. ASSUME NEW c \in {1, 2}, NEW al \in {0, 4, 6, 10}
        PROVE  2 * ((One * k * c * al) \div 80) = 63 * k * (c * al) /\ (One * k * c * al) \div 80 \in Int
    <2>1. One * k * c * al = 2520 * k * (c * al) /\ c * al \in {0, 4, 6, 8, 10, 12, 20}
      BY <1>1, <1>3 DEF One
    <2> DEFINE b == c * al
    <2>2. One * k * c * al = 2520 * k * b /\ b \in {0, 4, 6, 8, 10, 12, 20}
      BY <2>1
    <2> HIDE DEF b
    <2>3. 2 * ((2520 * k * b) \div 80) = 63 * k * b /\ (2520 * k * b) \div 80 \in Int
      BY <1>1, <2>2
    <2>4. 2 * ((One * k * c * al) \div 80) = 63 * k * b /\ (One * k * c * al) \div 80 \in Int
      BY <2>2, <2>3
    <2> QED
      BY <2>4 DEF b
  <1>4. ASSUME NEW z, Alignment(z.decision, t.expected) \in {0, 4, 6, 10}
        PROVE  /\ 2 * Policy(z, t, ls) = 63 * k * Worth(z, t, ls)
               /\ Policy(z, t, ls) \in Int /\ Worth(z, t, ls) \in Nat
    <2> DEFINE c == coherence(z)  al == Alignment(z.decision, t.expected)
    <2>1. c \in {1, 2} /\ al \in {0, 4, 6, 10} /\ Worth(z, t, ls) = c * al
      BY <1>2, <1>4
    <2>2. Policy(z, t, ls) = (One * k * c * al) \div 80
      BY <1>2
    <2> HIDE DEF c, al
    <2>3. 2 * ((One * k * c * al) \div 80) = 63 * k * (c * al) /\ (One * k * c * al) \div 80 \in Int
      BY <1>3, <2>1, ZenonT(60)
    <2>4. c * al \in Nat
      BY <2>1
    <2> QED
      BY <2>1, <2>2, <2>3, <2>4
  <1>5. 63 * k * Worth(x, t, ls) <= 63 * k * Worth(y, t, ls) + 504 * n
    <2> DEFINE u == Worth(x, t, ls)  v == Worth(y, t, ls)
    <2>1. u \in Nat /\ v \in Nat /\ u <= v + 2 * n
      BY <1>4
    <2> HIDE DEF u, v
    <2>2. k = 0 => 63 * k * u <= 63 * k * v + 504 * n
      BY <2>1
    <2>3. k = 1 => 63 * k * u <= 63 * k * v + 504 * n
      BY <2>1
    <2>4. k = 2 => 63 * k * u <= 63 * k * v + 504 * n
      BY <2>1
    <2>5. k = 3 => 63 * k * u <= 63 * k * v + 504 * n
      BY <2>1
    <2>6. k = 4 => 63 * k * u <= 63 * k * v + 504 * n
      BY <2>1
    <2>7. 63 * k * u <= 63 * k * v + 504 * n
      BY <1>1, <2>2, <2>3, <2>4, <2>5, <2>6
    <2> QED
      BY <2>7 DEF u, v
  <1> QED
    BY <1>4, <1>5

(* A share of One, its rest, and its part. *)
LEMMA RestOfOne ==
  ASSUME NEW c \in 0..One
  PROVE  One - c \in 0..One
  BY DEF One

(* None of a share, half of it or all of it. *)
LEMMA PartOfOne ==
  ASSUME NEW f \in {0, 1, 2}, NEW c \in 0..One
  PROVE  (f * c) \div 2 \in 0..One
  <1>1. f = 0 => (f * c) \div 2 \in 0..One
    BY DEF One
  <1>2. f = 1 => (f * c) \div 2 \in 0..One
    BY DEF One
  <1>3. f = 2 => (f * c) \div 2 \in 0..One
    BY DEF One
  <1> QED
    BY <1>1, <1>2, <1>3

(* Two answers with the same confidence and flag differ in their           *)
(* calibration only when the success of one of them is full.               *)
LEMMA CalibrationGap ==
  ASSUME NEW x, NEW y, NEW t, x.confidence = y.confidence, x.escalation = y.escalation,
         NEW s, NEW u, s # One
  PROVE  /\ Calibration(x, t, s) \in 0..One /\ Calibration(y, t, u) \in 0..One
         /\ u # One => Calibration(x, t, s) = Calibration(y, t, u)
  <1> DEFINE flag(z) == IF t.mustEscalate THEN (IF z.escalation THEN 2 ELSE 0)
                        ELSE (IF z.escalation THEN 1 ELSE 2)
             fit(z, v) == IF v = One THEN z.confidence ELSE One - z.confidence
             share(z, v) == (flag(z) * fit(z, v)) \div 2
  <1>1. flag(x) \in {0, 1, 2} /\ flag(y) = flag(x)
    OBVIOUS
  <1>2. 0 \in 0..One
    BY DEF One
  <1>3. CASE ~ConfidenceValid(x.confidence)
    BY <1>2, <1>3 DEF Calibration
  <1>4. CASE ConfidenceValid(x.confidence)
    <2>1. PICK c \in 0..One : c = x.confidence
      BY <1>4 DEF ConfidenceValid
    <2>2. One - c \in 0..One /\ y.confidence = c
      BY <2>1, RestOfOne
    <2>3. fit(x, s) = One - c /\ fit(y, u) = IF u = One THEN c ELSE One - c
      BY <2>1, <2>2
    <2>4. Calibration(x, t, s) = share(x, s) /\ Calibration(y, t, u) = share(y, u)
      BY <1>4 DEF Calibration
    <2> HIDE DEF flag, fit
    <2>5. fit(x, s) \in 0..One /\ fit(y, u) \in 0..One
      BY <2>1, <2>2, <2>3
    <2>6. share(x, s) \in 0..One /\ share(y, u) \in 0..One
      BY <1>1, <2>5, PartOfOne
    <2>7. u # One => share(x, s) = share(y, u)
      BY <1>1, <2>3
    <2> HIDE DEF share
    <2> QED
      BY <2>4, <2>6, <2>7
  <1> QED
    BY <1>3, <1>4

(* The robustness grows with the success. *)
LEMMA RobustnessGrows ==
  ASSUME NEW x, NEW y, x.decision \in Decision, y.decision \in Decision,
         x.confidence = y.confidence, x.evidence = y.evidence,
         NEW observed, Fabricated(x, observed) \in Nat,
         NEW s \in 0..One, NEW u \in 0..One, s <= u, NEW actions \in Nat
  PROVE  /\ Robustness(x, s, observed, actions) \in Int
         /\ Robustness(y, u, observed, actions) \in Int
         /\ Robustness(x, s, observed, actions) <= Robustness(y, u, observed, actions)
  <1> DEFINE invalid(z) == IF ConfidenceValid(z.confidence) THEN 0 ELSE 30
             cited(z) == Min({Fabricated(z, observed), 2})
             acted == Min({Max({actions - 1, 0}), 2})
             penalties(z) == invalid(z) + 20 * cited(z) + 20 * acted
  <1>1. invalid(x) \in Nat /\ invalid(x) = invalid(y)
    OBVIOUS
  <1>2. cited(x) \in Nat /\ cited(x) = cited(y)
    BY MinOfTwo DEF Fabricated
  <1>3. acted \in Nat
    BY ActedType
  <1> HIDE DEF invalid, cited, acted
  <1>4. penalties(x) \in Nat /\ penalties(x) = penalties(y)
    BY <1>1, <1>2, <1>3
  <1>5. /\ Robustness(x, s, observed, actions) = Clamp(s - Percent(penalties(x)))
        /\ Robustness(y, u, observed, actions) = Clamp(u - Percent(penalties(y)))
    BY DEF Robustness, invalid, cited, acted
  <1> HIDE DEF penalties
  <1>6. Percent(penalties(x)) \in Nat
    <2>1. penalties(x) * One \in Nat
      BY <1>4 DEF One
    <2> QED
      BY <2>1, Quotient DEF Percent
  <1>7. /\ s \in Int /\ u \in Int
        /\ s - Percent(penalties(x)) \in Int /\ u - Percent(penalties(x)) \in Int
        /\ s - Percent(penalties(x)) <= u - Percent(penalties(x))
    BY <1>6 DEF One
  <1>8. \A v, w \in Int : v <= w => Clamp(v) \in Int /\ Clamp(w) \in Int /\ Clamp(v) <= Clamp(w)
    BY ClampType DEF One
  <1> QED
    BY <1>4, <1>5, <1>7, <1>8

(* Only a run with calls can earn the full success. *)
LEMMA FullSuccessActs ==
  ASSUME NEW x, NEW t \in Truth, NEW ls \in Seq(Log), t.expected \in Decision,
         TaskSuccess(x, t, Credited(ls)) = One
  PROVE  Len(ls) # 0
  <1> SUFFICES ASSUME Len(ls) = 0 PROVE FALSE
    OBVIOUS
  <1>1. ls = <<>>
    OBVIOUS
  <1>2. ActionLogs(ls) = <<>>
    <2>1. {i \in DOMAIN ls : ls[i].tool \in Action} = {}
      BY <1>1
    <2> QED
      BY <2>1, PickedNone DEF ActionLogs
  <1>3. Credited(ls).tool = "none"
    BY <1>2 DEF Credited
  <1>4. "none" \notin Action
    BY DEF Action, ActionOf, Decision
  <1>5. t.tool \in Action \cup {"none"} /\ ActionOf[t.expected] \in Action
    BY DEF Truth, Action
  <1> DEFINE tool == IF t.tool = "none" THEN ActionOf[t.expected] ELSE t.tool
  <1>6. Credited(ls).tool # tool
    BY <1>3, <1>4, <1>5
  <1>7. CASE x.decision = t.expected
    <2>1. TaskSuccess(x, t, Credited(ls)) = Percent(55)
      BY <1>6, <1>7 DEF TaskSuccess, Decision, Blocking
    <2>2. Percent(55) # One
      BY PartsAreNatural
    <2> QED
      BY <2>1, <2>2
  <1>8. CASE x.decision # t.expected /\ x.decision \in Decision
    BY <1>8, NearDecision, FarDecision DEF One
  <1>9. CASE x.decision \notin Decision
    BY <1>9 DEF TaskSuccess, One
  <1> QED
    BY <1>7, <1>8, <1>9

(* The efficiency knows the success of a run without calls only. *)
LEMMA EfficiencySame ==
  ASSUME NEW n \in Nat, NEW d \in Nat, d <= n, NEW s, NEW u, n = 0 => s # One /\ u # One
  PROVE  Efficiency(n, d, s) = Efficiency(n, d, u) /\ Efficiency(n, d, s) \in Nat
  <1>1. Within(n, s) = Within(n, u)
    BY DEF Within
  <1> QED
    BY <1>1, EfficiencyUnfolds

(* What success gains outweighs what policy and calibration may lose. *)
Enough(f, g, h) ==
  g * Weights["policy"] + h * Weights["calibration"] <= f * Weights["task_success"]

(* Of two weighted sums the one with enough success is the greater. *)
LEMMA Outweighs ==
  ASSUME NEW f \in Nat, NEW g \in Nat, NEW h \in Nat, Enough(f, g, h),
         NEW s \in Int, NEW u \in Int, s + f <= u, NEW p \in Int, NEW q \in Int, p <= q + g,
         NEW c \in Int, NEW e \in Int, c <= e + h
  PROVE  LET w == Weights
         IN w["task_success"] * s + w["policy"] * p + w["calibration"] * c
            <= w["task_success"] * u + w["policy"] * q + w["calibration"] * e
  <1>1. PICK i \in Nat, j \in Nat, k \in Nat :
          i = Weights["task_success"] /\ j = Weights["policy"] /\ k = Weights["calibration"]
    BY SettingsAssumption DEF Dimension
  <1>2. i * (s + f) <= i * u /\ i * (s + f) = i * s + f * i /\ i * s \in Int /\ i * u \in Int /\ f * i \in Int
    BY TimesGrows
  <1>3. j * p <= j * (q + g) /\ j * (q + g) = j * q + g * j /\ j * p \in Int /\ j * q \in Int /\ g * j \in Int
    BY TimesGrows
  <1>4. k * c <= k * (e + h) /\ k * (e + h) = k * e + h * k /\ k * c \in Int /\ k * e \in Int /\ h * k \in Int
    BY TimesGrows
  <1>5. g * j + h * k <= f * i
    BY <1>1 DEF Enough
  <1>6. i * s + j * p + k * c <= i * u + j * q + k * e
    BY <1>2, <1>3, <1>4, <1>5
  <1> QED
    BY <1>1, <1>6

(* All else equal, a decision whose success gains enough scores at least   *)
(* as much: the other dimensions do not know the decision, or grow with    *)
(* the success.                                                            *)
LEMMA DecisionOutweighs ==
  ASSUME NEW a \in Answer, NEW t \in Truth, NEW ls \in Seq(Log), IsFiniteSet(Id),
         t.expected \in Decision, NEW p \in Decision, NEW q \in Decision, q # t.expected,
         NEW f \in Nat, NEW n \in 0..10, NEW h \in {0, One}, Enough(f, 252 * n, h),
         LET x == Deciding(a, p)  y == Deciding(a, q)
             c == Credited(ls)
         IN /\ TaskSuccess(y, t, c) + f <= TaskSuccess(x, t, c)
            /\ TaskSuccess(x, t, c) = One => h = One
            /\ Alignment(q, t.expected) \in {0, 4, 6, 10} /\ Alignment(p, t.expected) \in {0, 4, 6, 10}
            /\ Worth(y, t, ls) <= Worth(x, t, ls) + 2 * n
  PROVE  Aggregate(Deciding(a, q), t, ls) <= Aggregate(Deciding(a, p), t, ls)
  <1> DEFINE x == Deciding(a, p)
             y == Deciding(a, q)
             sx == TaskSuccess(x, t, Credited(ls))
             sy == TaskSuccess(y, t, Credited(ls))
             seen == Observed(ls, t)
             acts == Len(ActionLogs(ls))
             X == Scores(x, t, ls)
             Y == Scores(y, t, ls)
  <1>1. /\ x \in Answer /\ x.decision = p /\ x.escalation = a.escalation
        /\ x.evidence = a.evidence /\ x.confidence = a.confidence
        /\ x.summary = [a.summary EXCEPT !.words = {}, !.claims = {}]
        /\ y \in Answer /\ y.decision = q /\ y.escalation = a.escalation
        /\ y.evidence = a.evidence /\ y.confidence = a.confidence
        /\ y.summary = [a.summary EXCEPT !.words = {}, !.claims = {}]
    BY DecidingType
  <1> HIDE DEF x, y
  <1>2. sx \in 0..One /\ sy \in 0..One
    BY <1>1, TaskSuccessType
  <1>3. sy # One
    BY <1>1, NearDecision, FarDecision DEF One
  <1>4. sy + f <= sx /\ (sx = One => h = One) /\ sx \in Int /\ sy \in Int /\ sy <= sx
    <2>1. sy + f <= sx /\ (sx = One => h = One)
      BY DEF x, y
    <2> HIDE DEF sx, sy
    <2> QED
      BY <1>2, <2>1 DEF One
  <1>5. Y.policy <= X.policy + 252 * n /\ X.policy \in Int /\ Y.policy \in Int
    <2>1. Worth(y, t, ls) <= Worth(x, t, ls) + 2 * n
      BY DEF x, y
    <2>2. Policy(y, t, ls) <= Policy(x, t, ls) + 252 * n
      BY <1>1, <2>1, PolicyGap
    <2> QED
      BY <1>1, <2>2, PolicyType DEF Scores
  <1>6. Y.calibration <= X.calibration + h /\ X.calibration \in Int /\ Y.calibration \in Int
    <2>1. /\ Calibration(y, t, sy) \in 0..One /\ Calibration(x, t, sx) \in 0..One
          /\ sx # One => Calibration(y, t, sy) = Calibration(x, t, sx)
      BY <1>1, <1>3, CalibrationGap
    <2> DEFINE cy == Calibration(y, t, sy)  cx == Calibration(x, t, sx)
    <2>2. \A u, v \in 0..One : u \in Int /\ u <= v + One /\ u <= u + 0
      BY DEF One
    <2>3. cx = X.calibration /\ cy = Y.calibration
      BY DEF Scores
    <2>4. cy \in 0..One /\ cx \in 0..One /\ (sx # One => cy = cx)
      BY <2>1
    <2> HIDE DEF cx, cy, X, Y, sx, sy
    <2>5. CASE h = One
      BY <2>2, <2>3, <2>4, <2>5
    <2>6. CASE h = 0 /\ h # One
      BY <1>4, <2>2, <2>3, <2>4, <2>6
    <2> QED
      BY <2>5, <2>6
  <1>7. Y.evidence = X.evidence /\ X.evidence \in Int
    <2>1. Y.evidence = X.evidence
      BY <1>1 DEF Scores
    <2>2. X.evidence \in Int
      BY <1>1, ScoresType DEF Dimension
    <2> QED
      BY <2>1, <2>2
  <1>8. Y.efficiency = X.efficiency /\ X.efficiency \in Int
    <2>1. Len(ls) \in Nat /\ DOMAIN ls = 1..Len(ls)
      OBVIOUS
    <2>2. Duplicates(ls) \in Nat /\ Duplicates(ls) <= Len(ls)
      BY <2>1, DuplicatesType
    <2>3. Len(ls) = 0 => sx # One
      BY FullSuccessActs
    <2> QED
      BY <1>3, <2>1, <2>2, <2>3, EfficiencySame DEF Scores
  <1>9. Y.communication = X.communication /\ X.communication \in Int
    <2>1. Communication(x) = Communication(y)
      BY <1>1 DEF Communication, Answer, Summary
    <2> QED
      BY <2>1, CommunicationType DEF Scores
  <1>10. Y.robustness <= X.robustness /\ Y.robustness \in Int /\ X.robustness \in Int
    <2>1. acts \in Nat
      BY PickedType DEF ActionLogs
    <2>2. Fabricated(y, seen) \in Nat
      BY <1>1, FabricatedType
    <2> HIDE DEF sx, sy, seen, acts
    <2>3. /\ Robustness(y, sy, seen, acts) \in Int /\ Robustness(x, sx, seen, acts) \in Int
          /\ Robustness(y, sy, seen, acts) <= Robustness(x, sx, seen, acts)
      BY <1>1, <1>2, <1>4, <2>1, <2>2, RobustnessGrows
    <2> QED
      BY <2>3 DEF Scores, sx, sy, seen, acts
  <1>11. X.task_success = sx /\ Y.task_success = sy
    BY DEF Scores
  <1> HIDE DEF X, Y, sx, sy
  <1>12. Weighted(Y) \in Int /\ Weighted(X) \in Int /\ Weighted(Y) <= Weighted(X)
    <2> DEFINE w == Weights
    <2>1. \A d \in Dimension : w[d] \in Nat
      BY SettingsAssumption
    <2>2. /\ w["robustness"] * Y.robustness \in Int /\ w["robustness"] * X.robustness \in Int
          /\ w["robustness"] * Y.robustness <= w["robustness"] * X.robustness
      BY <1>10, <2>1, TimesGrows DEF Dimension
    <2>3. w["task_success"] * sy + w["policy"] * Y.policy + w["calibration"] * Y.calibration
          <= w["task_success"] * sx + w["policy"] * X.policy + w["calibration"] * X.calibration
      <3>1. h \in Nat /\ 252 * n \in Nat
        BY DEF One
      <3> QED
        BY <1>4, <1>5, <1>6, <3>1, Outweighs
    <2>4. \A d \in Dimension, v \in Int : w[d] * v \in Int
      BY <2>1
    <2> DEFINE ts == w["task_success"] * sx  tsy == w["task_success"] * sy
               po == w["policy"] * X.policy  poy == w["policy"] * Y.policy
               ca == w["calibration"] * X.calibration  cay == w["calibration"] * Y.calibration
               ev == w["evidence"] * X.evidence  ef == w["efficiency"] * X.efficiency
               co == w["communication"] * X.communication
               ro == w["robustness"] * X.robustness  roy == w["robustness"] * Y.robustness
    <2>5. /\ ts \in Int /\ tsy \in Int /\ po \in Int /\ poy \in Int /\ ca \in Int /\ cay \in Int
          /\ ev \in Int /\ ef \in Int /\ co \in Int
      BY <1>4, <1>5, <1>6, <1>7, <1>8, <1>9, <2>4 DEF Dimension
    <2>6. /\ Weighted(X) = ts + po + ev + ca + ef + co + ro
          /\ Weighted(Y) = tsy + poy + ev + cay + ef + co + roy
      BY <1>7, <1>8, <1>9, <1>11 DEF Weighted
    <2>7. tsy + poy + cay <= ts + po + ca /\ ro \in Int /\ roy \in Int /\ roy <= ro
      BY <2>2, <2>3
    <2> HIDE DEF ts, tsy, po, poy, ca, cay, ev, ef, co, ro, roy
    <2> QED
      BY <2>5, <2>6, <2>7
  <1> QED
    BY <1>12, CappedGrows DEF X, Y, x, y

(* The exchanges that the ranking needs. *)
LEMMA Exchanges ==
  ASSUME SuccessOutweighs
  PROVE  /\ Enough(1260, 252 * 1, One) /\ Enough(2520, 252 * 5, One)
         /\ Enough(126, 252 * 1, 0) /\ Enough(1386, 252 * 5, 0)
         /\ Enough(1008, 252 * 7, 0) /\ Enough(1260, 252 * 8, 0)
  <1>1. PICK i \in Nat, j \in Nat, k \in Nat :
          i = Weights["task_success"] /\ j = Weights["policy"] /\ k = Weights["calibration"]
    BY SettingsAssumption DEF Dimension
  <1>2. i >= 2 * j /\ 5 * i >= 10 * k + j
    BY <1>1 DEF SuccessOutweighs
  <1>3. /\ 252 * 1 * j + 2520 * k <= 1260 * i /\ 252 * 5 * j + 2520 * k <= 2520 * i
        /\ 252 * 1 * j + 0 * k <= 126 * i /\ 252 * 5 * j + 0 * k <= 1386 * i
        /\ 252 * 7 * j + 0 * k <= 1008 * i /\ 252 * 8 * j + 0 * k <= 1260 * i
    BY <1>2
  <1> QED
    BY <1>1, <1>3 DEF Enough, One

(* The worth of a decision by its alignment. *)
LEMMA WorthType ==
  ASSUME NEW x, NEW t, NEW ls
  PROVE  \/ Worth(x, t, ls) = Alignment(x.decision, t.expected)
         \/ Worth(x, t, ls) = 2 * Alignment(x.decision, t.expected)
  <1>1. Alignment(x.decision, t.expected) \in Int
    BY AlignmentType
  <1> QED
    BY <1>1 DEF Worth

(* The expected decision scores at least as much as any other. *)
LEMMA RightRanksFirst ==
  ASSUME SuccessOutweighs, NEW a \in Answer, NEW t \in Truth, NEW ls \in Seq(Log), IsFiniteSet(Id),
         t.expected \in Decision, NEW q \in Decision, q # t.expected
  PROVE  Aggregate(Deciding(a, q), t, ls) <= Aggregate(Deciding(a, t.expected), t, ls)
  <1> DEFINE p == t.expected
             x == Deciding(a, p)
             y == Deciding(a, q)
             S == TaskSuccess(x, t, Credited(ls))
             s == TaskSuccess(y, t, Credited(ls))
  <1>1. x.decision = p /\ y.decision = q
    BY DecidingType
  <1>2. S \in {1386, 2016, 2520} /\ Alignment(p, p) = 10
    BY <1>1, RightDecision
  <1>3. Worth(x, t, ls) \in {10, 20}
    BY <1>1, <1>2, WorthType
  <1>4. CASE Similar(q, p)
    <2>1. s \in {1008, 1260} /\ Alignment(q, p) \in {4, 6}
      <3> HIDE DEF y
      <3> QED
        BY <1>1, <1>4, NearDecision
    <2>2. Worth(y, t, ls) \in {4, 6, 8, 12}
      BY <1>1, <2>1, WorthType
    <2>3. CASE S = 2520
      <3>1. s + 1260 <= S /\ Worth(y, t, ls) <= Worth(x, t, ls) + 2 * 1
        BY <1>3, <2>1, <2>2, <2>3
      <3>2. 1260 \in Nat /\ 1 \in 0..10 /\ Enough(1260, 252 * 1, One)
        BY Exchanges
      <3> QED
        BY <1>2, <2>1, <3>1, <3>2, DecisionOutweighs
    <2>4. CASE S # 2520
      <3>1. s + 126 <= S /\ Worth(y, t, ls) <= Worth(x, t, ls) + 2 * 1 /\ S # One
        BY <1>2, <1>3, <2>1, <2>2, <2>4 DEF One
      <3>2. 126 \in Nat /\ 1 \in 0..10 /\ Enough(126, 252 * 1, 0)
        BY Exchanges
      <3> QED
        BY <1>2, <2>1, <3>1, <3>2, DecisionOutweighs
    <2> QED
      BY <2>3, <2>4
  <1>5. CASE ~Similar(q, p)
    <2>1. s = 0 /\ Alignment(q, p) \in {0, 10}
      BY <1>1, <1>5, FarDecision
    <2>2. Worth(y, t, ls) \in {0, 10, 20}
      BY <1>1, <2>1, WorthType
    <2>3. CASE S = 2520
      <3>1. s + 2520 <= S /\ Worth(y, t, ls) <= Worth(x, t, ls) + 2 * 5
        BY <1>3, <2>1, <2>2, <2>3
      <3>2. 2520 \in Nat /\ 5 \in 0..10 /\ Enough(2520, 252 * 5, One)
        BY Exchanges
      <3> QED
        BY <1>2, <2>1, <3>1, <3>2, DecisionOutweighs
    <2>4. CASE S # 2520
      <3>1. s + 1386 <= S /\ Worth(y, t, ls) <= Worth(x, t, ls) + 2 * 5 /\ S # One
        BY <1>2, <1>3, <2>1, <2>2, <2>4 DEF One
      <3>2. 1386 \in Nat /\ 5 \in 0..10 /\ Enough(1386, 252 * 5, 0)
        BY Exchanges
      <3> QED
        BY <1>2, <2>1, <3>1, <3>2, DecisionOutweighs
    <2> QED
      BY <2>3, <2>4
  <1> QED
    BY <1>4, <1>5

(* The similar decision scores at least as much as the two others. *)
LEMMA NearRanksSecond ==
  ASSUME SuccessOutweighs, NEW a \in Answer, NEW t \in Truth, NEW ls \in Seq(Log), IsFiniteSet(Id),
         t.expected \in Decision, NEW p \in Decision, p # t.expected, Similar(p, t.expected),
         NEW q \in Decision, q # t.expected, q # p
  PROVE  Aggregate(Deciding(a, q), t, ls) <= Aggregate(Deciding(a, p), t, ls)
  <1> DEFINE e == t.expected
             x == Deciding(a, p)
             y == Deciding(a, q)
             S == TaskSuccess(x, t, Credited(ls))
             s == TaskSuccess(y, t, Credited(ls))
  <1>1. x.decision = p /\ y.decision = q
    BY DecidingType
  <1>2. /\ Alignment(p, e) \in {4, 6}
        /\ (S = 1008 /\ Alignment(p, e) = 6) \/ S = 1260
    <2> HIDE DEF x
    <2>1. /\ Alignment(x.decision, t.expected) \in {4, 6}
          /\ \/ S = 1008 /\ Alignment(x.decision, t.expected) = 6
             \/ S = 1260
      <3>1. /\ x.decision \in Decision /\ t.expected \in Decision /\ x.decision # t.expected
            /\ Similar(x.decision, t.expected)
        BY <1>1
      <3> QED
        BY <3>1, NearDecision
    <2> QED
      BY <1>1, <2>1
  <1>3. ~Similar(q, e)
    BY DEF Similar, Blocking, Decision
  <1>4. s = 0 /\ Alignment(q, e) \in {0, 10}
    BY <1>1, <1>3, FarDecision
  <1>5. Worth(y, t, ls) \in {0, 10, 20}
    BY <1>1, <1>4, WorthType
  <1>6. CASE S = 1008 /\ Alignment(p, e) = 6
    <2>1. Worth(x, t, ls) \in {6, 12}
      BY <1>1, <1>6, WorthType
    <2>2. s + 1008 <= S /\ Worth(y, t, ls) <= Worth(x, t, ls) + 2 * 7 /\ S # One
      BY <1>4, <1>5, <1>6, <2>1 DEF One
    <2>3. 1008 \in Nat /\ 7 \in 0..10 /\ Enough(1008, 252 * 7, 0)
      BY Exchanges
    <2> QED
      BY <1>2, <1>4, <2>2, <2>3, DecisionOutweighs
  <1>7. CASE S = 1260
    <2>1. Worth(x, t, ls) \in {4, 6, 8, 12}
      BY <1>1, <1>2, WorthType
    <2>2. s + 1260 <= S /\ Worth(y, t, ls) <= Worth(x, t, ls) + 2 * 8 /\ S # One
      BY <1>4, <1>5, <1>7, <2>1 DEF One
    <2>3. 1260 \in Nat /\ 8 \in 0..10 /\ Enough(1260, 252 * 8, 0)
      BY Exchanges
    <2> QED
      BY <1>2, <1>4, <2>2, <2>3, DecisionOutweighs
  <1> QED
    BY <1>2, <1>6, <1>7

(* Under these settings, all else equal, no answer gains by a decision     *)
(* further from the expected one, whatever the run has called: the full    *)
(* policy alignment of a dissimilar wrong decision is never worth more     *)
(* than its lost task success (sz_score_task_success, sz_score_policy).    *)
THEOREM DecisionsRankHolds ==
  ASSUME SuccessOutweighs, TruthsDecided
  PROVE  Spec => []DecisionsRank
  <1>1. IInv => DecisionsRank
    <2> SUFFICES ASSUME IInv, NEW a \in Answers, NEW d \in Decision \ {truth.expected}
                 PROVE  /\ Score(Deciding(a, d)) <= Score(Deciding(a, truth.expected))
                        /\ \A s \in Decision \ {d, truth.expected} : Similar(s, truth.expected) =>
                             Score(Deciding(a, d)) <= Score(Deciding(a, s))
      BY DEF DecisionsRank, Deciding
    <2>1. /\ a \in Answer /\ truth \in Truth /\ truth.expected \in Decision /\ IsFiniteSet(Id)
      BY TriageAssumption DEF IInv, TypeOK, TruthsDecided
    <2>2. Now \in Seq(Log)
      BY OfRunType DEF IInv, TypeOK, Now
    <2>3. Score(Deciding(a, d)) <= Score(Deciding(a, truth.expected))
      BY <2>1, <2>2, RightRanksFirst DEF Score
    <2>4. ASSUME NEW s \in Decision \ {d, truth.expected}, Similar(s, truth.expected)
          PROVE  Score(Deciding(a, d)) <= Score(Deciding(a, s))
      BY <2>1, <2>2, <2>4, NearRanksSecond DEF Score
    <2> QED
      BY <2>3, <2>4
  <1> QED
    BY <1>1, InvariantHolds, PTL
=============================================================================
