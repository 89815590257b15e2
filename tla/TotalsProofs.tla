---------------------------- MODULE TotalsProofs ----------------------------
(* Facts about Totals, and about the least and the greatest element of a set. *)
EXTENDS Totals, FiniteSetsExt, FiniteSetTheorems, WellFoundedInduction, TLAPS

\* A set of natural numbers has a least element.
LEMMA MinIsLeast ==
  ASSUME NEW S \in SUBSET Nat, S # {}
  PROVE  Min(S) \in S /\ \A x \in S : Min(S) <= x
<1>1. PICK m \in S : \A y \in S : ~ (<<y, m>> \in OpToRel(<, Nat))
  BY NatLessThanWellFounded, WFMin
<1>2. \A y \in S : ~ (y < m)
  BY <1>1 DEF OpToRel
<1>3. \A y \in S : m <= y
  BY <1>2
<1> QED
  BY <1>3 DEF Min

\* A bounded set of natural numbers has a greatest element.
LEMMA MaxIsGreatest ==
  ASSUME NEW N \in Nat, NEW S \in SUBSET (0..N), S # {}
  PROVE  Max(S) \in S /\ \A x \in S : x <= Max(S)
<1> DEFINE T == {N - s : s \in S}
<1>1. T \in SUBSET Nat /\ T # {}
  <2>1. \A s \in S : s \in Nat /\ s <= N
    OBVIOUS
  <2>2. \A s \in S : N - s \in Nat
    BY <2>1
  <2> QED
    BY <2>2
<1>2. Min(T) \in T /\ \A y \in T : Min(T) <= y
  <2> HIDE DEF T
  <2> QED
    BY <1>1, MinIsLeast
<1>3. PICK m \in S : Min(T) = N - m
  BY <1>2
<1>4. ASSUME NEW s \in S PROVE m >= s
  <2>1. N - s \in T
    OBVIOUS
  <2>2. N - m <= N - s
    BY <1>2, <1>3, <2>1
  <2> QED
    BY <2>2
<1>5. Max(S) \in S /\ \A x \in S : Max(S) >= x
  BY <1>4 DEF Max
<1> QED
  BY <1>5

\* The union of finitely many finite sets, one for each element of S, is finite.
LEMMA FiniteFamily ==
  ASSUME NEW S, IsFiniteSet(S), NEW f, \A x \in S : IsFiniteSet(f[x])
  PROVE  IsFiniteSet(UNION {f[x] : x \in S})
<1> DEFINE T == {f[x] : x \in S}
           g == [x \in S |-> f[x]]
<1>1. g \in Surjection(S, T)
  BY DEF Surjection
<1>2. \A U \in T : IsFiniteSet(U)
  OBVIOUS
<1> HIDE DEF T, g
<1>3. IsFiniteSet(T)
  BY <1>1, FS_Surjection
<1>4. IsFiniteSet(UNION T)
  BY <1>2, <1>3, FS_UNION
<1> QED
  BY <1>4 DEF T

\* A total is a natural number.
LEMMA TotalType ==
  ASSUME NEW S, IsFiniteSet(S), NEW n, \A x \in S : n[x] \in Int
  PROVE  Total(n, S) \in Nat
<1> DEFINE f == [x \in S |-> {x} \X (1..n[x])]
           U == UNION {f[x] : x \in S}
<1>1. ASSUME NEW x \in S PROVE IsFiniteSet(f[x])
  <2>1. IsFiniteSet({x}) /\ IsFiniteSet(1..n[x])
    <3>1. n[x] \in Int /\ 1 \in Int
      OBVIOUS
    <3> QED
      BY <3>1, FS_Singleton, FS_Interval
  <2>2. IsFiniteSet({x} \X (1..n[x]))
    BY <2>1, FS_Product
  <2> QED
    BY <2>2
<1>2. U = UNION {{x} \X (1..n[x]) : x \in S}
  OBVIOUS
<1>3. IsFiniteSet(U)
  <2> HIDE DEF f
  <2> QED
    BY <1>1, FiniteFamily
<1> HIDE DEF U
<1> QED
  BY <1>2, <1>3, FS_CardinalityType DEF Total

-----------------------------------------------------------------------------
\* Every rank up to the size of a set of positions is the rank of one of them.
LEMMA NthInSet ==
  ASSUME NEW P \in SUBSET Nat, IsFiniteSet(P), NEW k \in 1..Cardinality(P)
  PROVE  Nth(P, k) \in P
<1> DEFINE below(i) == {j \in P : j <= i}
           rank == [i \in P |-> Cardinality(below(i))]
           C == Cardinality(P)
<1>1. C \in Nat
  BY FS_CardinalityType
<1>2. ASSUME NEW i \in P PROVE IsFiniteSet(below(i)) /\ Cardinality(below(i)) \in 1..C
  <2>1. below(i) \in SUBSET P /\ below(i) # {}
    OBVIOUS
  <2>2. IsFiniteSet(below(i)) /\ Cardinality(below(i)) <= C
    <3> HIDE DEF below
    <3> QED
      BY <2>1, FS_Subset
  <2>3. Cardinality(below(i)) \in Nat /\ Cardinality(below(i)) # 0
    <3> HIDE DEF below
    <3> QED
      BY <2>1, <2>2, FS_CardinalityType, FS_EmptySet
  <2> QED
    BY <1>1, <2>2, <2>3
<1>3. ASSUME NEW i \in P, NEW j \in P, i < j PROVE rank[i] # rank[j]
  <2>1. below(i) \in SUBSET below(j) /\ below(i) # below(j)
    <3>1. j \in below(j) /\ j \notin below(i)
      BY <1>3
    <3>2. \A x \in P : x <= i => x <= j
      BY <1>3
    <3> QED
      BY <3>1, <3>2
  <2>2. Cardinality(below(j)) # Cardinality(below(i))
    <3> HIDE DEF below
    <3> QED
      BY <1>2, <2>1, FS_Subset
  <2> QED
    BY <2>2
<1>4. rank \in Injection(P, 1..C)
  <2>1. rank \in [P -> 1..C]
    BY <1>2
  <2>2. ASSUME NEW i \in P, NEW j \in P, i # j PROVE rank[i] # rank[j]
    <3>1. i < j \/ j < i
      BY <2>2
    <3> HIDE DEF rank
    <3> QED
      BY <3>1, <1>3
  <2> HIDE DEF rank
  <2> QED
    BY <2>1, <2>2 DEF Injection, IsInjective
<1>5. IsFiniteSet(1..C) /\ Cardinality(1..C) = C
  BY <1>1, FS_Interval
<1>6. rank \in Surjection(P, 1..C)
  <2> HIDE DEF rank
  <2> QED
    BY <1>4, <1>5, FS_Injection
<1>7. \E i \in P : rank[i] = k
  <2> HIDE DEF rank
  <2> QED
    BY <1>6 DEF Surjection
<1>8. \E i \in P : Cardinality(below(i)) = k
  BY <1>7
<1> QED
  BY <1>8 DEF Nth

\* What is kept of a sequence is a sequence of its elements that is not longer.
LEMMA KeepType ==
  ASSUME NEW S, NEW s \in Seq(S), NEW P \in SUBSET DOMAIN s
  PROVE  /\ Keep(s, P) \in Seq(S)
         /\ Len(Keep(s, P)) <= Len(s)
<1>1. Len(s) \in Nat /\ DOMAIN s = 1..Len(s)
  OBVIOUS
<1>2. IsFiniteSet(P) /\ Cardinality(P) <= Len(s) /\ Cardinality(P) \in Nat
  <2>1. IsFiniteSet(1..Len(s)) /\ Cardinality(1..Len(s)) = Len(s)
    <3>1. 1 \in Int /\ Len(s) \in Int /\ (1 > Len(s) => Len(s) = 0)
      BY <1>1
    <3> QED
      BY <3>1, FS_Interval
  <2> QED
    BY <1>1, <2>1, FS_Subset, FS_CardinalityType
<1>3. ASSUME NEW k \in 1..Cardinality(P) PROVE s[Nth(P, k)] \in S
  <2>1. Nth(P, k) \in P
    BY <1>1, <1>2, NthInSet
  <2> QED
    BY <1>1, <2>1
<1>4. Keep(s, P) \in [1..Cardinality(P) -> S]
  BY <1>3 DEF Keep
<1>5. Keep(s, P) \in Seq(S) /\ Len(Keep(s, P)) = Cardinality(P)
  BY <1>2, <1>4
<1> QED
  BY <1>2, <1>5
=============================================================================
