------------------------ MODULE Enumerations_proofs ------------------------
(***************************************************************************)
(* Facts about numbers, finite sets and Enumerations that the proofs about *)
(* the components share.                                                   *)
(***************************************************************************)
EXTENDS Enumerations, FiniteSetTheorems, SequenceTheorems, WellFoundedInduction, TLAPS

(* A set of natural numbers has a least member: the intervals below its    *)
(* members are well-founded under inclusion.                               *)
LEMMA LeastNatural ==
  ASSUME NEW T \in SUBSET Nat, T # {}
  PROVE  \E x \in T : \A y \in T : x <= y
  <1> DEFINE below == {0..y : y \in T}
  <1>1. below \subseteq FiniteSubsetsOf(Nat) /\ below # {}
    <2>1. \A y \in T : IsFiniteSet(0..y) /\ 0..y \subseteq Nat
      BY FS_Interval
    <2> QED
      BY <2>1 DEF FiniteSubsetsOf
  <1>2. PICK b \in below : \A c \in below : <<c, b>> \notin StrictSubsetOrdering(Nat)
    <2> HIDE DEF below
    <2> QED
      BY <1>1, WFMin, FS_StrictSubsetOrderingWellFounded
  <1>3. PICK x \in T : b = 0..x
    BY <1>2
  <1>4. ASSUME NEW y \in T, y < x PROVE FALSE
    <2>1. 0..y \subseteq 0..x /\ x \in 0..x /\ x \notin 0..y
      BY <1>4
    <2>2. <<0..y, b>> \in StrictSubsetOrdering(Nat)
      BY <2>1, <1>3 DEF StrictSubsetOrdering
    <2> QED
      BY <1>2, <2>2
  <1> QED
    BY <1>4

(* A set of numbers with an upper bound has a greatest member. *)
LEMMA GreatestBelow ==
  ASSUME NEW n \in Nat, NEW T \in SUBSET (1..n), T # {}
  PROVE  \E x \in T : \A y \in T : y <= x
  <1> DEFINE U == {n - y : y \in T}
  <1>1. U \in SUBSET Nat /\ U # {}
    <2>1. \A y \in T : y \in Nat /\ y <= n /\ n - y \in Nat
      OBVIOUS
    <2> QED
      BY <2>1
  <1>2. PICK u \in U : \A v \in U : u <= v
    <2> HIDE DEF U
    <2> QED
      BY <1>1, LeastNatural
  <1>3. PICK x \in T : u = n - x
    BY <1>2
  <1>4. \A y \in T : n - x <= n - y
    BY <1>2, <1>3
  <1>5. \A y \in T : y <= x
    <2>1. \A y \in T : y \in Nat
      OBVIOUS
    <2> QED
      BY <1>4, <2>1
  <1> QED
    BY <1>5

(* An enumeration reaches every member of its set. *)
LEMMA InjectiveOnto ==
  ASSUME NEW S, IsFiniteSet(S), NEW q \in [1..Cardinality(S) -> S],
         \A i, j \in 1..Cardinality(S) : i # j => q[i] # q[j]
  PROVE  \A x \in S : \E i \in 1..Cardinality(S) : q[i] = x
  <1> SUFFICES ASSUME NEW x \in S, \A i \in 1..Cardinality(S) : q[i] # x PROVE FALSE
    OBVIOUS
  <1>1. Cardinality(S) \in Nat
    BY FS_CardinalityType
  <1>2. q \in [1..Cardinality(S) -> S \ {x}]
    OBVIOUS
  <1>3. IsFiniteSet(1..Cardinality(S)) /\ Cardinality(1..Cardinality(S)) = Cardinality(S)
    BY <1>1, FS_Interval
  <1>4. IsFiniteSet(S \ {x}) /\ Cardinality(S \ {x}) = Cardinality(S) - 1
    BY FS_RemoveElement
  <1>5. Cardinality(S \ {x}) < Cardinality(1..Cardinality(S))
    BY <1>1, <1>3, <1>4
  <1>6. \E i, j \in 1..Cardinality(S) : i # j /\ q[i] = q[j]
    <2> DEFINE D == 1..Cardinality(S)  T == S \ {x}
    <2>1. IsFiniteSet(D) /\ IsFiniteSet(T) /\ Cardinality(T) < Cardinality(D) /\ q \in [D -> T]
      BY <1>2, <1>3, <1>4, <1>5
    <2> HIDE DEF D, T
    <2>2. \E i, j \in D : i # j /\ q[i] = q[j]
      BY ONLY <2>1, FS_PigeonHole
    <2> QED
      BY <2>2 DEF D
  <1> QED
    BY <1>6

(* An enumeration lists members of its set, each once. *)
LEMMA OrderedEnumerates ==
  ASSUME NEW S, IsFiniteSet(S), NEW q \in Ordered(S)
  PROVE  /\ DOMAIN q = 1..Cardinality(S) /\ Cardinality(S) \in Nat
         /\ q \in [1..Cardinality(S) -> S]
         /\ \A i, j \in DOMAIN q : i < j => q[i] < q[j]
  BY FS_CardinalityType DEF Ordered

(* An ordered enumeration reaches every member of its set. *)
LEMMA OrderedOnto ==
  ASSUME NEW S \in SUBSET Nat, IsFiniteSet(S), NEW q \in Ordered(S), NEW x \in S
  PROVE  \E i \in DOMAIN q : q[i] = x
  <1>1. /\ DOMAIN q = 1..Cardinality(S) /\ Cardinality(S) \in Nat
        /\ q \in [1..Cardinality(S) -> S]
        /\ \A i, j \in DOMAIN q : i < j => q[i] < q[j]
    BY OrderedEnumerates
  <1>2. \A i \in 1..Cardinality(S) : q[i] \in Nat
    BY <1>1
  <1>3. \A i, j \in 1..Cardinality(S) : i # j => i < j \/ j < i
    OBVIOUS
  <1>4. \A i, j \in 1..Cardinality(S) : i # j => q[i] # q[j]
    BY <1>1, <1>2, <1>3
  <1> QED
    BY <1>1, <1>4, InjectiveOnto

(* A set whose members are equal has at most one. *)
LEMMA AtMostOne ==
  ASSUME NEW S, \A x, y \in S : x = y
  PROVE  Cardinality(S) <= 1
  <1>1. CASE S = {}
    BY <1>1, FS_EmptySet
  <1>2. ASSUME NEW x \in S PROVE Cardinality(S) <= 1
    <2>1. S = {x}
      BY <1>2
    <2> QED
      BY <2>1, FS_Singleton
  <1> QED
    BY <1>1, <1>2

-----------------------------------------------------------------------------
(* What a filter keeps of a list. *)

(* The ranks of the places are the numbers up to the number of places.     *)
LEMMA RankType ==
  ASSUME NEW I \in SUBSET Nat, IsFiniteSet(I), NEW i \in I, 0 \notin I
  PROVE  Rank(I, i) \in 1..Cardinality(I) /\ Cardinality(I) \in Nat
  <1>1. i \in I \cap (1..i) /\ I \cap (1..i) \subseteq I
    OBVIOUS
  <1>2. IsFiniteSet(I \cap (1..i)) /\ Cardinality(I \cap (1..i)) <= Cardinality(I)
    BY <1>1, FS_Subset
  <1>3. Cardinality(I \cap (1..i)) # 0
    BY <1>1, <1>2, FS_EmptySet
  <1> QED
    BY <1>2, <1>3, FS_CardinalityType DEF Rank

(* The rank of a place grows with the place. *)
LEMMA RankIncreases ==
  ASSUME NEW I \in SUBSET Nat, IsFiniteSet(I), NEW i \in I, NEW j \in I, i < j
  PROVE  Rank(I, i) < Rank(I, j)
  <1>1. I \cap (1..i) \subseteq I \cap (1..j) /\ j \in I \cap (1..j) /\ j \notin I \cap (1..i)
    BY DEF Rank
  <1>2. IsFiniteSet(I \cap (1..j))
    BY FS_Subset
  <1>3. Cardinality(I \cap (1..i)) < Cardinality(I \cap (1..j))
    <2> DEFINE A == I \cap (1..i)  B == I \cap (1..j)
    <2>1. A \subseteq B /\ A # B /\ IsFiniteSet(B)
      BY <1>1, <1>2
    <2> HIDE DEF A, B
    <2>2. /\ Cardinality(A) <= Cardinality(B) /\ Cardinality(A) # Cardinality(B)
          /\ Cardinality(A) \in Nat /\ Cardinality(B) \in Nat
      BY <2>1, FS_Subset, FS_CardinalityType
    <2> QED
      BY <2>2 DEF A, B
  <1> QED
    BY <1>3 DEF Rank

(* Two places have two ranks. *)
LEMMA RankInjective ==
  ASSUME NEW I \in SUBSET Nat, IsFiniteSet(I), 0 \notin I, NEW i \in I, NEW j \in I,
         Rank(I, i) = Rank(I, j)
  PROVE  i = j
  <1>1. Rank(I, i) \in Nat /\ i \in Nat /\ j \in Nat
    BY RankType
  <1> QED
    BY <1>1, RankIncreases

(* Every number up to the number of places is the rank of one. *)
LEMMA RankOnto ==
  ASSUME NEW I \in SUBSET Nat, IsFiniteSet(I), 0 \notin I, NEW k \in 1..Cardinality(I)
  PROVE  \E i \in I : Rank(I, i) = k
  <1> DEFINE T == (1..Cardinality(I)) \ {k}
             f == [i \in I |-> Rank(I, i)]
  <1> SUFFICES ASSUME \A i \in I : Rank(I, i) # k PROVE FALSE
    OBVIOUS
  <1>1. Cardinality(I) \in Nat
    BY FS_CardinalityType
  <1>2. IsFiniteSet(1..Cardinality(I)) /\ Cardinality(1..Cardinality(I)) = Cardinality(I)
    BY <1>1, FS_Interval
  <1>3. IsFiniteSet(T) /\ Cardinality(T) = Cardinality(I) - 1
    BY <1>2, FS_RemoveElement
  <1>4. f \in [I -> T]
    BY RankType
  <1>5. Cardinality(T) < Cardinality(I)
    BY <1>1, <1>3
  <1>6. \E i, j \in I : i # j /\ f[i] = f[j]
    <2> HIDE DEF T, f
    <2> QED
      BY ONLY IsFiniteSet(I), <1>3, <1>4, <1>5, FS_PigeonHole
  <1> QED
    BY <1>6, RankInjective

(* A filter keeps the elements at its places, and no others. *)
LEMMA PickedElements ==
  ASSUME NEW q, NEW I \in SUBSET Nat, IsFiniteSet(I), 0 \notin I
  PROVE  /\ DOMAIN Picked(q, I) = 1..Cardinality(I) /\ Cardinality(I) \in Nat
         /\ \A k \in DOMAIN Picked(q, I) : \E i \in I : Rank(I, i) = k /\ Picked(q, I)[k] = q[i]
         /\ \A i \in I : Rank(I, i) \in DOMAIN Picked(q, I) /\ Picked(q, I)[Rank(I, i)] = q[i]
  <1>1. DOMAIN Picked(q, I) = 1..Cardinality(I) /\ Cardinality(I) \in Nat
    BY FS_CardinalityType DEF Picked
  <1>2. ASSUME NEW k \in 1..Cardinality(I), NEW i \in I, Rank(I, i) = k
        PROVE  Picked(q, I)[k] = q[i]
    <2> DEFINE j == CHOOSE j \in I : Rank(I, j) = k
    <2>1. j \in I /\ Rank(I, j) = k
      BY <1>2
    <2>2. i = j
      BY <1>2, <2>1, RankInjective
    <2> QED
      BY <2>2 DEF Picked
  <1>3. \A k \in 1..Cardinality(I) : \E i \in I : Rank(I, i) = k
    BY RankOnto
  <1>4. \A i \in I : Rank(I, i) \in 1..Cardinality(I)
    BY RankType
  <1> QED
    BY <1>1, <1>2, <1>3, <1>4

(* What is picked of a list is a list of its elements, one for each place. *)
LEMMA PickedType ==
  ASSUME NEW S, NEW q \in Seq(S), NEW I \in SUBSET (DOMAIN q)
  PROVE  /\ Picked(q, I) \in Seq(S) /\ Len(Picked(q, I)) = Cardinality(I)
         /\ IsFiniteSet(I) /\ I \in SUBSET Nat /\ 0 \notin I
         /\ {Picked(q, I)[k] : k \in DOMAIN Picked(q, I)} = {q[i] : i \in I}
  <1>1. IsFiniteSet(I) /\ I \in SUBSET Nat /\ 0 \notin I
    <2>1. DOMAIN q = 1..Len(q) /\ Len(q) \in Nat
      OBVIOUS
    <2>2. IsFiniteSet(1..Len(q))
      BY <2>1, FS_Interval
    <2> QED
      BY <2>1, <2>2, FS_Subset
  <1>2. /\ DOMAIN Picked(q, I) = 1..Cardinality(I) /\ Cardinality(I) \in Nat
        /\ \A k \in DOMAIN Picked(q, I) : \E i \in I : Picked(q, I)[k] = q[i]
        /\ \A i \in I : \E k \in DOMAIN Picked(q, I) : Picked(q, I)[k] = q[i]
    BY <1>1, PickedElements
  <1>3. \A i \in I : q[i] \in S
    OBVIOUS
  <1>4. Picked(q, I) = [k \in 1..Cardinality(I) |-> Picked(q, I)[k]]
    BY DEF Picked
  <1>5. Picked(q, I) \in [1..Cardinality(I) -> S]
    BY <1>2, <1>3, <1>4
  <1>6. Picked(q, I) \in Seq(S) /\ Len(Picked(q, I)) = Cardinality(I)
    BY <1>2, <1>5
  <1> QED
    BY <1>1, <1>2, <1>6

(* A filter that keeps every place keeps the list. *)
LEMMA PickedAll ==
  ASSUME NEW S, NEW q \in Seq(S)
  PROVE  Picked(q, DOMAIN q) = q
  <1> DEFINE I == 1..Len(q)
  <1>1. Len(q) \in Nat /\ DOMAIN q = I
    OBVIOUS
  <1>2. IsFiniteSet(I) /\ Cardinality(I) = Len(q) /\ I \in SUBSET Nat /\ 0 \notin I
    BY <1>1, FS_Interval
  <1>3. \A k \in I : Rank(I, k) = k
    <2> SUFFICES ASSUME NEW k \in I PROVE Rank(I, k) = k
      OBVIOUS
    <2>1. I \cap (1..k) = 1..k /\ k \in Nat
      BY <1>1
    <2>2. Cardinality(1..k) = k
      BY <2>1, FS_Interval
    <2> QED
      BY <2>1, <2>2 DEF Rank
  <1> HIDE DEF I
  <1>4. DOMAIN Picked(q, I) = 1..Cardinality(I) /\ \A k \in I : Picked(q, I)[k] = q[k]
    BY <1>2, <1>3, PickedElements
  <1>5. Picked(q, I) = [k \in 1..Cardinality(I) |-> Picked(q, I)[k]]
    BY DEF Picked
  <1>6. Picked(q, I) = [k \in 1..Len(q) |-> q[k]]
    BY <1>2, <1>4, <1>5 DEF I
  <1> QED
    BY <1>1, <1>6 DEF I

(* A list that grows: the places kept stay, and the new one is kept last.  *)
LEMMA PickedAppend ==
  ASSUME NEW S, NEW q \in Seq(S), NEW x \in S, NEW I \in SUBSET (DOMAIN q)
  PROVE  /\ Picked(Append(q, x), I) = Picked(q, I)
         /\ Picked(Append(q, x), I \cup {Len(q) + 1}) = Append(Picked(q, I), x)
  <1> DEFINE n == Len(q) + 1  J == I \cup {n}  r == Append(q, x)
  <1>1. /\ n \in Nat /\ DOMAIN q = 1..(n - 1) /\ r \in Seq(S) /\ DOMAIN r = 1..n
        /\ r[n] = x /\ \A i \in 1..(n - 1) : r[i] = q[i]
    OBVIOUS
  <1>2. /\ IsFiniteSet(I) /\ I \in SUBSET Nat /\ 0 \notin I /\ n \notin I /\ I \subseteq 1..n
        /\ Picked(q, I) \in Seq(S) /\ Len(Picked(q, I)) = Cardinality(I)
    BY <1>1, PickedType
  <1> HIDE DEF n, r
  <1>3. /\ IsFiniteSet(J) /\ Cardinality(J) = Cardinality(I) + 1 /\ Cardinality(I) \in Nat
        /\ J \in SUBSET Nat /\ 0 \notin J
    <2>1. IsFiniteSet(J) /\ Cardinality(J) = Cardinality(I) + 1
      BY <1>2, FS_AddElement
    <2>2. Cardinality(I) \in Nat
      BY <1>2, FS_CardinalityType
    <2>3. J \in SUBSET Nat /\ 0 \notin J
      <3>1. n # 0
        BY DEF n
      <3> QED
        BY <1>1, <1>2, <3>1
    <2> QED
      BY <2>1, <2>2, <2>3
  <1>4. \A i \in I : Rank(J, i) = Rank(I, i)
    <2> SUFFICES ASSUME NEW i \in I PROVE J \cap (1..i) = I \cap (1..i)
      BY DEF Rank
    <2> QED
      BY <1>1, <1>2
  <1>5. Rank(J, n) = Cardinality(I) + 1
    <2>1. J \cap (1..n) = J
      <3>1. n \in 1..n
        BY <1>1 DEF n
      <3> QED
        BY <1>2, <3>1
    <2> QED
      BY <1>3, <2>1 DEF Rank
  <1> HIDE DEF J
  <1>6. n \in J /\ I \subseteq J /\ \A i \in J : i \in I \/ i = n
    BY DEF J
  <1>7. Picked(r, I) = Picked(q, I)
    <2>1. \A i \in I : r[i] = q[i]
      BY <1>1
    <2>2. \A k \in 1..Cardinality(I) : Picked(r, I)[k] = Picked(q, I)[k]
      BY <1>2, <2>1, PickedElements
    <2>3. /\ Picked(r, I) = [k \in 1..Cardinality(I) |-> Picked(r, I)[k]]
          /\ Picked(q, I) = [k \in 1..Cardinality(I) |-> Picked(q, I)[k]]
      BY DEF Picked
    <2> QED
      BY <2>2, <2>3
  <1>8. \A k \in 1..Cardinality(J) : Picked(r, J)[k] = Append(Picked(q, I), x)[k]
    <2> SUFFICES ASSUME NEW k \in 1..Cardinality(J)
                 PROVE  Picked(r, J)[k] = Append(Picked(q, I), x)[k]
      OBVIOUS
    <2>1. PICK i \in J : Rank(J, i) = k /\ Picked(r, J)[k] = r[i]
      BY <1>3, PickedElements
    <2>2. CASE i = n
      BY <1>1, <1>2, <1>3, <1>5, <2>1, <2>2
    <2>3. CASE i \in I
      <3>1. Rank(I, i) = k /\ k \in 1..Cardinality(I)
        BY <1>2, <1>4, <2>1, <2>3, RankType
      <3>2. Picked(q, I)[k] = q[i]
        BY <1>2, <2>3, <3>1, PickedElements
      <3> QED
        BY <1>1, <1>2, <2>1, <2>3, <3>1, <3>2
    <2> QED
      BY <1>6, <2>2, <2>3
  <1>9. Picked(r, J) = Append(Picked(q, I), x)
    <2>1. Picked(r, J) = [k \in 1..Cardinality(J) |-> Picked(r, J)[k]]
      BY DEF Picked
    <2>2. /\ Append(Picked(q, I), x) \in Seq(S)
          /\ Len(Append(Picked(q, I), x)) = Cardinality(J)
      BY <1>2, <1>3
    <2> DEFINE a == Append(Picked(q, I), x)
    <2>3. a = [k \in 1..Cardinality(J) |-> a[k]]
      <3> HIDE DEF a
      <3>1. a \in Seq(S) /\ Len(a) = Cardinality(J)
        BY <2>2 DEF a
      <3>2. a = [k \in 1..Len(a) |-> a[k]]
        BY <3>1
      <3> QED
        BY <3>1, <3>2
    <2> QED
      BY <1>8, <2>1, <2>3
  <1> QED
    BY <1>7, <1>9 DEF n, r, J
=============================================================================
