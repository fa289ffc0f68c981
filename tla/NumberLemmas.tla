---------------------------- MODULE NumberLemmas ----------------------------
(***************************************************************************)
(* Facts about sets of numbers, which the proofs about the modules rest    *)
(* on: the least and the greatest element, and the rank of an element.     *)
(***************************************************************************)
EXTENDS Integers, FiniteSetsExt, FiniteSetTheorems, WellFoundedInduction, TLAPS

\* A set of natural numbers that is not empty has a least element.
LEMMA LeastElement ==
    ASSUME NEW S \in SUBSET Nat, S # {}
    PROVE  Min(S) \in S /\ \A y \in S : Min(S) <= y
<1>1. PICK x \in S : \A y \in S : ~(<<y, x>> \in OpToRel(<, Nat))
    BY NatLessThanWellFounded, WFMin
<1>2. \A y \in S : x <= y
    <2> SUFFICES ASSUME NEW y \in S PROVE x <= y OBVIOUS
    <2>1. <<y, x>> \notin OpToRel(<, Nat)
        BY <1>1
    <2>2. <<y, x>> \in Nat \X Nat
        OBVIOUS
    <2>3. ~(y < x)
        BY <2>1, <2>2 DEF OpToRel
    <2> QED BY <2>3
<1> QED BY <1>1, <1>2 DEF Min

LEMMA LesserOfTwo ==
    ASSUME NEW a \in Nat, NEW b \in Nat
    PROVE  /\ Min({a, b}) \in {a, b}
           /\ Min({a, b}) <= a
           /\ Min({a, b}) <= b
<1>1. {a, b} \in SUBSET Nat /\ {a, b} # {}
    OBVIOUS
<1> QED BY <1>1, LeastElement

\* A finite set of natural numbers has a bound: by counting up to its size.
LEMMA BoundedAbove ==
    ASSUME NEW S \in SUBSET Nat, IsFiniteSet(S)
    PROVE  \E b \in Nat : \A x \in S : x <= b
<1> DEFINE n == Cardinality(S)
<1>1. n \in Nat /\ ExistsBijection(1..n, S)
    BY FS_CardinalityType
<1>2. PICK f : /\ f \in [1..n -> S]
               /\ \A x \in S : \E i \in 1..n : f[i] = x
    BY <1>1 DEF ExistsBijection, Bijection, Surjection
<1> HIDE DEF n
<1> DEFINE Bound(j) == \E b \in Nat : \A i \in 1..j : f[i] <= b
           unbounded == {j \in Nat : j <= n /\ ~Bound(j)}
<1>3. unbounded = {}
    <2> SUFFICES ASSUME unbounded # {} PROVE FALSE
        OBVIOUS
    <2> DEFINE j == Min(unbounded)
    <2>1. unbounded \in SUBSET Nat
        OBVIOUS
    <2>2. j \in unbounded /\ \A y \in unbounded : j <= y
        BY <2>1, LeastElement
    <2> HIDE DEF j
    <2>3. j \in Nat /\ j <= n /\ ~Bound(j)
        BY <2>2
    <2>4. j # 0
        <3>1. Bound(0)
            OBVIOUS
        <3> QED BY <2>3, <3>1
    <2>5. j - 1 \in Nat /\ j - 1 <= n /\ j \in 1..n
        BY <1>1, <2>3, <2>4
    <2>6. Bound(j - 1)
        <3>1. CASE j - 1 \in unbounded
            <4>1. j <= j - 1
                BY <2>2, <3>1
            <4> HIDE DEF unbounded, Bound
            <4> QED BY <2>3, <4>1
        <3>2. CASE j - 1 \notin unbounded
            BY <2>5, <3>2
        <3> QED BY <3>1, <3>2
    <2> HIDE DEF unbounded
    <2>7. PICK b \in Nat : \A i \in 1..(j - 1) : f[i] <= b
        BY <2>6
    <2>8. f[j] \in Nat
        BY <1>2, <2>5
    <2>9. PICK c \in Nat : b <= c /\ f[j] <= c
        BY <2>8
    <2>10. \A i \in 1..j : f[i] <= c
        <3> SUFFICES ASSUME NEW i \in 1..j PROVE f[i] <= c
            OBVIOUS
        <3> HIDE DEF Bound
        <3>1. i \in 1..n
            BY <1>1, <2>3
        <3>2. f[i] \in Nat
            BY <1>2, <3>1
        <3>3. CASE i = j
            BY <2>9, <3>3
        <3>4. CASE i # j
            <4>1. i \in 1..(j - 1)
                BY <2>3, <3>4
            <4>2. f[i] <= b
                BY <2>7, <4>1
            <4> QED BY <2>9, <3>2, <4>2
        <3> QED BY <3>3, <3>4
    <2> QED BY <2>3, <2>10
<1>4. Bound(n)
    <2>1. n \notin unbounded
        BY <1>3
    <2> QED BY <1>1, <2>1
<1> QED BY <1>2, <1>4

\* A finite set of natural numbers that is not empty has a greatest element: the
\* least of its bounds.
LEMMA GreatestElement ==
    ASSUME NEW S \in SUBSET Nat, IsFiniteSet(S), S # {}
    PROVE  Max(S) \in S /\ \A y \in S : y <= Max(S)
<1> DEFINE bounds == {b \in Nat : \A x \in S : x <= b}
           least  == Min(bounds)
<1>1. bounds \in SUBSET Nat /\ bounds # {}
    BY BoundedAbove
<1>2. least \in bounds /\ \A b \in bounds : least <= b
    BY <1>1, LeastElement
<1> HIDE DEF least
<1>3. least \in S
    <2> SUFFICES ASSUME least \notin S PROVE FALSE
        OBVIOUS
    <2>1. least \in Nat /\ \A x \in S : x <= least
        BY <1>2
    <2>2. \A x \in S : x <= least - 1
        BY <2>1
    <2>3. least - 1 \in bounds
        <3>1. PICK x \in S : TRUE
            OBVIOUS
        <3>2. x \in Nat /\ x <= least - 1
            BY <2>2, <3>1
        <3>3. least - 1 \in Nat
            BY <2>1, <3>2
        <3> QED BY <2>2, <3>3
    <2>4. least <= least - 1
        BY <1>2, <2>3
    <2> HIDE DEF bounds
    <2> QED BY <2>1, <2>4
<1>4. \A y \in S : y <= least
    BY <1>2
<1> QED BY <1>3, <1>4 DEF Max

LEMMA GreaterOfTwo ==
    ASSUME NEW a \in Int, NEW b \in Int
    PROVE  /\ Max({a, b}) \in {a, b}
           /\ a <= Max({a, b})
           /\ b <= Max({a, b})
<1>1. \E x \in {a, b} : \A y \in {a, b} : x >= y
    <2>1. CASE a >= b
        BY <2>1
    <2>2. CASE ~(a >= b)
        BY <2>2
    <2> QED BY <2>1, <2>2
<1>2. Max({a, b}) \in {a, b} /\ \A y \in {a, b} : Max({a, b}) >= y
    BY <1>1 DEF Max
<1> QED BY <1>2

LEMMA GreatestOfThree ==
    ASSUME NEW a \in Int, NEW b \in Int, NEW c \in Int
    PROVE  /\ Max({a, b, c}) \in {a, b, c}
           /\ a <= Max({a, b, c})
           /\ b <= Max({a, b, c})
           /\ c <= Max({a, b, c})
<1>1. \E x \in {a, b, c} : \A y \in {a, b, c} : x >= y
    <2>1. CASE a >= b /\ a >= c
        BY <2>1
    <2>2. CASE b >= a /\ b >= c
        BY <2>2
    <2>3. CASE c >= a /\ c >= b
        BY <2>3
    <2> QED BY <2>1, <2>2, <2>3
<1>2. Max({a, b, c}) \in {a, b, c} /\ \A y \in {a, b, c} : Max({a, b, c}) >= y
    BY <1>1 DEF Max
<1> QED BY <1>2

\* How many elements of a set of numbers go up to one of them: ranks go from 1 to
\* the size of the set, in the order of the elements, and each occurs.
Rank(S, i) == Cardinality({j \in S : j <= i})

LEMMA RankFacts ==
    ASSUME NEW S \in SUBSET Nat, IsFiniteSet(S)
    PROVE  /\ Cardinality(S) \in Nat
           /\ \A i \in S : Rank(S, i) \in 1..Cardinality(S)
           /\ \A i, j \in S : i < j => Rank(S, i) < Rank(S, j)
           /\ \A n \in 1..Cardinality(S) : \E i \in S : Rank(S, i) = n
<1> DEFINE upTo(i) == {j \in S : j <= i}
           n == Cardinality(S)
           f == [i \in S |-> Rank(S, i)]
<1>1. \A i \in S : IsFiniteSet(upTo(i)) /\ Rank(S, i) = Cardinality(upTo(i)) /\ Rank(S, i) \in Nat
    BY FS_Subset, FS_CardinalityType DEF Rank
<1>2. n \in Nat
    BY FS_CardinalityType
<1>3. ASSUME NEW i \in S
      PROVE  Rank(S, i) \in 1..n
    <2>1. Rank(S, i) # 0
        <3>1. upTo(i) # {}
            OBVIOUS
        <3> HIDE DEF upTo
        <3> QED BY <1>1, <3>1, FS_EmptySet
    <2>2. Rank(S, i) <= n
        BY <1>1, FS_Subset
    <2>3. Rank(S, i) \in Nat
        BY <1>1
    <2> HIDE DEF n
    <2> QED BY <1>2, <2>1, <2>2, <2>3
<1>4. ASSUME NEW i \in S, NEW j \in S, i < j
      PROVE  Rank(S, i) < Rank(S, j)
    <2>1. upTo(i) \in SUBSET upTo(j) /\ upTo(i) # upTo(j)
        <3>1. j \in upTo(j) /\ j \notin upTo(i)
            BY <1>4
        <3>2. \A k \in S : k <= i => k <= j
            <4> SUFFICES ASSUME NEW k \in S, k <= i PROVE k <= j
                OBVIOUS
            <4>1. i \in Nat /\ j \in Nat /\ k \in Nat
                OBVIOUS
            <4> QED BY <1>4, <4>1
        <3> QED BY <3>1, <3>2
    <2> HIDE DEF upTo
    <2>2. Cardinality(upTo(i)) <= Cardinality(upTo(j))
          /\ Cardinality(upTo(i)) # Cardinality(upTo(j))
        BY <1>1, <2>1, FS_Subset
    <2> QED BY <1>1, <2>2
<1>5. f \in Injection(S, 1..n)
    <2>1. f \in [S -> 1..n]
        BY <1>3
    <2>2. ASSUME NEW i \in S, NEW j \in S, f[i] = f[j]
          PROVE  i = j
        <3>1. Rank(S, i) = Rank(S, j) /\ Rank(S, i) \in Nat
            BY <1>1, <2>2
        <3>2. ~(i < j) /\ ~(j < i)
            BY <1>4, <3>1
        <3> QED BY <3>2
    <2> QED BY <2>1, <2>2 DEF Injection, IsInjective
<1>6. IsFiniteSet(1..n) /\ Cardinality(1..n) = n
    BY <1>2, FS_Interval
<1>7. f \in Surjection(S, 1..n)
    <2> HIDE DEF f
    <2> QED BY <1>5, <1>6, FS_Injection
<1>8. \A k \in 1..n : \E i \in S : f[i] = k
    BY <1>7 DEF Surjection
<1> QED BY <1>2, <1>3, <1>4, <1>8
=============================================================================
