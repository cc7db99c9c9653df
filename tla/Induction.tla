----------------------------- MODULE Induction ------------------------------
(***************************************************************************)
(* Induction over natural numbers and recursive functions, stated with     *)
(* sets and functions instead of operators; and what the proofs need of    *)
(* counting and of short lists.                                            *)
(***************************************************************************)
EXTENDS Integers, Sequences, FiniteSets, TLAPS, WellFoundedInduction, SequenceTheorems,
        FiniteSetTheorems

\* A non-empty set of natural numbers has a least element.
LEMMA Least ==
  ASSUME NEW T, T \subseteq Nat, T # {}
  PROVE  \E m \in T : \A k \in T : m <= k
<1> DEFINE R == OpToRel(<, Nat)
<1>1. IsWellFoundedOn(R, Nat)
  BY NatLessThanWellFounded
<1> HIDE DEF R
<1>2. PICK x \in T : \A y \in T : ~(<<y, x>> \in R)
  BY <1>1, WFMin
<1>3. \A a, b \in Nat : a < b => <<a, b>> \in R
  BY DEF R, OpToRel
<1>4. ASSUME NEW y \in T PROVE x <= y
  <2>1. x \in Nat /\ y \in Nat
    OBVIOUS
  <2>2. ~(y < x)
    BY <2>1, <1>2, <1>3
  <2> QED
    BY <2>1, <2>2
<1> QED
  BY <1>4

\* A set that holds 0 and the successor of each of its numbers holds them all.
LEMMA SetInduction ==
  ASSUME NEW S, 0 \in S, \A n \in Nat : n \in S => n + 1 \in S
  PROVE  Nat \subseteq S
<1> SUFFICES ASSUME NEW z \in Nat, z \notin S PROVE FALSE
  OBVIOUS
<1> DEFINE T == {n \in Nat : n \notin S}
<1>1. T # {} /\ T \subseteq Nat
  OBVIOUS
<1> HIDE DEF T
<1>2. PICK m \in T : \A k \in T : m <= k
  BY <1>1, Least
<1>3. m \in Nat /\ m \notin S /\ m # 0
  BY <1>2 DEF T
<1>4. m - 1 \in Nat /\ m - 1 \notin T
  BY <1>3, <1>2, <1>1
<1>5. m - 1 \in S
  BY <1>4 DEF T
<1> QED
  BY <1>3, <1>4, <1>5

\* Induction on a measure: a set that holds k whenever it holds all arguments
\* of smaller measure holds every argument.
LEMMA MeasureInduction ==
  ASSUME NEW I, NEW mu \in [I -> Nat], NEW S,
         \A k \in I : (\A j \in I : mu[j] < mu[k] => j \in S) => k \in S
  PROVE  \A k \in I : k \in S
<1> SUFFICES ASSUME NEW z \in I, z \notin S PROVE FALSE
  OBVIOUS
<1> DEFINE T == {mu[k] : k \in {j \in I : j \notin S}}
<1>1. T # {} /\ T \subseteq Nat
  OBVIOUS
<1>2. PICK m \in T : \A n \in T : m <= n
  <2> HIDE DEF T
  <2> QED
    BY <1>1, Least
<1>3. PICK k \in I : k \notin S /\ m = mu[k]
  BY <1>2
<1>4. ASSUME NEW j \in I, mu[j] < mu[k] PROVE j \in S
  <2>1. mu[j] \in Nat /\ mu[k] \in Nat
    OBVIOUS
  <2>2. m \in Nat /\ ~(m <= mu[j])
    BY <1>3, <1>4, <2>1
  <2>3. mu[j] \notin T
    <3> HIDE DEF T
    <3> QED
      BY <1>2, <2>2
  <2> QED
    BY <2>3
<1> QED
  BY <1>3, <1>4

(***************************************************************************)
(* step says what a function makes of the argument k, given its values at  *)
(* arguments of smaller measure.                                           *)
(***************************************************************************)
IsRecursion(I, D, mu, B, step) ==
  /\ D # {} /\ B \in Nat
  /\ mu \in [I -> Nat] /\ \A k \in I : mu[k] < B
  /\ step \in [I \X [I -> D] -> D]
  /\ \A k \in I : \A f, g \in [I -> D] :
       (\A j \in I : mu[j] < mu[k] => f[j] = g[j]) => step[<<k, f>>] = step[<<k, g>>]

\* There is a function that satisfies its recursion.
LEMMA RecursiveFunction ==
  ASSUME NEW I, NEW D, NEW mu, NEW B, NEW step, IsRecursion(I, D, mu, B, step)
  PROVE  \E f \in [I -> D] : \A k \in I : f[k] = step[<<k, f>>]
<1> USE DEF IsRecursion
<1>0. PICK d \in D : TRUE
  OBVIOUS
<1> DEFINE S == {n \in Nat : \E f \in [I -> D] : \A k \in I : mu[k] < n => f[k] = step[<<k, f>>]}
<1>1. 0 \in S
  <2> DEFINE f == [k \in I |-> d]
  <2>1. f \in [I -> D] /\ \A k \in I : ~(mu[k] < 0)
    OBVIOUS
  <2> QED
    BY <2>1
<1>2. ASSUME NEW n \in Nat, n \in S PROVE n + 1 \in S
  <2>1. PICK f \in [I -> D] : \A k \in I : mu[k] < n => f[k] = step[<<k, f>>]
    BY <1>2
  <2> DEFINE g == [k \in I |-> IF mu[k] = n THEN step[<<k, f>>] ELSE f[k]]
  <2>2. g \in [I -> D]
    OBVIOUS
  <2>3. ASSUME NEW k \in I, mu[k] < n + 1 PROVE g[k] = step[<<k, g>>]
    <3>1. g[k] = step[<<k, f>>]
      <4>1. CASE mu[k] = n
        BY <4>1
      <4>2. CASE mu[k] # n
        <5>1. mu[k] \in Nat
          OBVIOUS
        <5>2. mu[k] < n
          BY <4>2, <2>3, <5>1
        <5> QED
          BY <5>2, <4>2, <2>1
      <4> QED
        BY <4>1, <4>2
    <3>2. \A j \in I : mu[j] < mu[k] => f[j] = g[j]
      BY <2>3
    <3> HIDE DEF g
    <3> QED
      BY <3>1, <3>2, <2>2
  <2> HIDE DEF g
  <2> QED
    BY <2>2, <2>3
<1> HIDE DEF S
<1>3. B \in S
  BY <1>1, <1>2, SetInduction
<1> QED
  BY <1>3 DEF S

-----------------------------------------------------------------------------
\* A non-empty set of numbers up to n has a greatest element.
LEMMA GreatestOf ==
  ASSUME NEW n \in Nat, NEW S, S \subseteq 0 .. n, S # {}
  PROVE  \E m \in S : \A y \in S : y <= m
<1> DEFINE T == {n - y : y \in S}
<1>1. T \subseteq Nat /\ T # {}
  <2>1. \A y \in S : n - y \in Nat
    OBVIOUS
  <2> QED
    BY <2>1
<1> HIDE DEF T
<1>2. PICK g \in T : \A h \in T : g <= h
  BY <1>1, Least
<1>3. PICK m \in S : g = n - m
  BY <1>2 DEF T
<1>4. \A y \in S : n - y \in T
  BY DEF T
<1>5. \A y \in S : n - m <= n - y
  BY <1>2, <1>3, <1>4
<1>6. \A y \in S : y <= m
  BY <1>5
<1> QED
  BY <1>6

\* The halves of an odd number.
LEMMA Halves ==
  ASSUME NEW L \in Nat, L % 2 = 1
  PROVE  /\ (L + 1) \div 2 \in Nat /\ 1 <= (L + 1) \div 2 /\ L \div 2 = (L + 1) \div 2 - 1
         /\ \A j \in 1 .. (L + 1) \div 2 : 2 * j - 1 \in 1 .. L /\ (2 * j - 1) % 2 = 1
         /\ \A j \in 1 .. (L + 1) \div 2 - 1 : 2 * j \in 1 .. L /\ (2 * j) % 2 # 1 /\ j \in 1 .. L \div 2
<1> DEFINE m == (L + 1) \div 2
<1>1. m \in Nat /\ 2 * m = L + 1 /\ 2 * (L \div 2) = L - 1 /\ L \div 2 \in Nat
  OBVIOUS
<1> HIDE DEF m
<1>2. 1 <= m /\ L \div 2 = m - 1
  BY <1>1
<1>3. ASSUME NEW j \in 1 .. m PROVE 2 * j - 1 \in 1 .. L /\ (2 * j - 1) % 2 = 1
  BY <1>1
<1>4. ASSUME NEW j \in 1 .. m - 1 PROVE 2 * j \in 1 .. L /\ (2 * j) % 2 # 1 /\ j \in 1 .. L \div 2
  BY <1>1, <1>2
<1> QED
  BY <1>1, <1>2, <1>3, <1>4 DEF m

\* The elements up to p.
Up(S, p) == {q \in S : q <= p}

\* Its size is the rank of p.
LEMMA UpFacts ==
  ASSUME NEW S, S \subseteq Nat, IsFiniteSet(S), NEW p \in Nat
  PROVE  /\ IsFiniteSet(Up(S, p)) /\ Cardinality(Up(S, p)) \in 0 .. Cardinality(S)
         /\ Cardinality(S) \in Nat
         /\ p \in S => Cardinality(Up(S, p)) \in 1 .. Cardinality(S)
         /\ \A q \in S : p < q => Cardinality(Up(S, p)) < Cardinality(Up(S, q))
<1>1. Up(S, p) \in SUBSET S
  BY DEF Up
<1>2. IsFiniteSet(Up(S, p)) /\ Cardinality(Up(S, p)) <= Cardinality(S)
  BY <1>1, FS_Subset
<1>3. Cardinality(Up(S, p)) \in Nat /\ Cardinality(S) \in Nat
  BY <1>2, FS_CardinalityType
<1>4. ASSUME p \in S PROVE Cardinality(Up(S, p)) # 0
  <2>1. p \in Up(S, p)
    BY <1>4 DEF Up
  <2> QED
    BY <2>1, <1>2, FS_EmptySet
<1>5. ASSUME NEW q \in S, p < q PROVE Cardinality(Up(S, p)) < Cardinality(Up(S, q))
  <2>1. q \in Nat /\ Up(S, q) \in SUBSET S
    BY DEF Up
  <2>2. IsFiniteSet(Up(S, q))
    BY <2>1, FS_Subset
  <2>3. Up(S, p) \in SUBSET Up(S, q) /\ q \in Up(S, q) /\ q \notin Up(S, p)
    <3>1. \A x \in S : x \in Nat /\ (x <= p => x <= q)
      BY <2>1, <1>5
    <3>2. q <= q /\ ~(q <= p)
      BY <2>1, <1>5
    <3> QED
      BY <3>1, <3>2 DEF Up
  <2>4. Cardinality(Up(S, p)) <= Cardinality(Up(S, q)) /\ Cardinality(Up(S, p)) # Cardinality(Up(S, q))
    <3>1. Up(S, p) # Up(S, q)
      BY <2>3
    <3> QED
      BY <2>2, <2>3, <3>1, FS_Subset
  <2>5. Cardinality(Up(S, q)) \in Nat
    BY <2>2, FS_CardinalityType
  <2> QED
    BY <2>4, <2>5, <1>3
<1> QED
  BY <1>2, <1>3, <1>4, <1>5

\* The elements of a finite set of numbers have the ranks 1, 2, ...
LEMMA Ranks ==
  ASSUME NEW S, S \subseteq Nat, IsFiniteSet(S)
  PROVE  /\ \A p \in S : Cardinality(Up(S, p)) \in 1 .. Cardinality(S)
         /\ \A p, q \in S : Cardinality(Up(S, p)) = Cardinality(Up(S, q)) => p = q
         /\ \A r \in 1 .. Cardinality(S) : \E p \in S : Cardinality(Up(S, p)) = r
<1> DEFINE n == Cardinality(S)
           rank == [p \in S |-> Cardinality(Up(S, p))]
<1>1. n \in Nat
  BY FS_CardinalityType
<1>2. \A p \in S : Cardinality(Up(S, p)) \in 1 .. n
  BY UpFacts
<1>3. \A p, q \in S : Cardinality(Up(S, p)) = Cardinality(Up(S, q)) => p = q
  <2> SUFFICES ASSUME NEW p \in S, NEW q \in S, Cardinality(Up(S, p)) = Cardinality(Up(S, q)), p # q
               PROVE  FALSE
    OBVIOUS
  <2>1. p \in Nat /\ q \in Nat
    OBVIOUS
  <2>2. p < q \/ q < p
    BY <2>1
  <2>3. Cardinality(Up(S, p)) < Cardinality(Up(S, q)) \/ Cardinality(Up(S, q)) < Cardinality(Up(S, p))
    BY <2>1, <2>2, UpFacts
  <2>4. Cardinality(Up(S, p)) \in Nat /\ Cardinality(Up(S, q)) \in Nat
    BY <1>2, <1>1
  <2> QED
    BY <2>3, <2>4
<1>4. rank \in Injection(S, 1 .. n)
  BY <1>2, <1>3 DEF Injection, IsInjective
<1>5. IsFiniteSet(1 .. n) /\ Cardinality(1 .. n) = n
  BY <1>1, FS_Interval
<1> HIDE DEF rank
<1>6. rank \in Surjection(S, 1 .. n)
  BY <1>4, <1>5, FS_Injection
<1>7. \A r \in 1 .. n : \E p \in S : Cardinality(Up(S, p)) = r
  BY <1>6 DEF Surjection, rank
<1> QED
  BY <1>2, <1>3, <1>7

\* No number of a list of names is 0.
LEMMA NoneUpToZero ==
  ASSUME NEW S, S \subseteq Nat \ {0} PROVE Cardinality(Up(S, 0)) = 0
<1>1. Up(S, 0) = {}
  <2>1. \A q \in S : ~(q <= 0)
    OBVIOUS
  <2> QED
    BY <2>1 DEF Up
<1> QED
  BY <1>1, FS_EmptySet

\* And none is beyond its length.
LEMMA AllUpToLen ==
  ASSUME NEW n \in Nat, NEW S, S \subseteq 1 .. n
  PROVE  Up(S, n) = S /\ IsFiniteSet(S) /\ S \subseteq Nat
<1>1. IsFiniteSet(1 .. n)
  BY FS_Interval
<1>2. IsFiniteSet(S)
  BY <1>1, FS_Subset
<1>3. \A q \in S : q \in Nat /\ q <= n
  OBVIOUS
<1> QED
  BY <1>2, <1>3 DEF Up

\* Parts put together.
LEMMA Lists ==
  ASSUME NEW T, NEW x \in T, NEW y \in T, NEW z \in T
  PROVE  /\ <<x>> \o <<>> = <<x>> /\ <<x>> \o <<y>> = <<x, y>>
         /\ <<x>> \o (<<y>> \o <<>>) = <<x, y>>
         /\ <<x>> \o (<<y>> \o <<z>>) = <<x, y, z>>
<1>1. <<x>> \o <<>> = <<x>> /\ <<y>> \o <<>> = <<y>>
  OBVIOUS
<1>2. ASSUME NEW a \in T, NEW b \in T PROVE <<a>> \o <<b>> = <<a, b>>
  <2> DEFINE L == <<a>> \o <<b>>
             R == <<a, b>>
  <2>1. L \in Seq(T) /\ Len(L) = 2 /\ L[1] = a /\ L[2] = b
    OBVIOUS
  <2>2. R \in Seq(T) /\ Len(R) = 2 /\ R[1] = a /\ R[2] = b
    OBVIOUS
  <2> HIDE DEF L, R
  <2>3. L = R
    BY <2>1, <2>2, SeqEqual
  <2> QED
    BY <2>3 DEF L, R
<1>3. <<x>> \o <<y, z>> = <<x, y, z>>
  <2> DEFINE L == <<x>> \o <<y, z>>
             R == <<x, y, z>>
  <2>1. L \in Seq(T) /\ Len(L) = 3 /\ L[1] = x /\ L[2] = y /\ L[3] = z
    OBVIOUS
  <2>2. R \in Seq(T) /\ Len(R) = 3 /\ R[1] = x /\ R[2] = y /\ R[3] = z
    OBVIOUS
  <2> HIDE DEF L, R
  <2>3. L = R
    BY <2>1, <2>2, SeqEqual
  <2> QED
    BY <2>3 DEF L, R
<1>4. <<x>> \o <<y>> = <<x, y>> /\ <<y>> \o <<z>> = <<y, z>>
  BY <1>2
<1> QED
  BY <1>1, <1>3, <1>4, Zenon

\* Lists of one, two and three parts.
LEMMA Tuples ==
  ASSUME NEW x, NEW y, NEW z
  PROVE  /\ Len(<<x>>) = 1 /\ Len(<<x, y>>) = 2 /\ Len(<<x, y, z>>) = 3
         /\ <<x, y>>[1] = x /\ <<x, y>>[2] = y
         /\ <<x, y, z>>[1] = x /\ <<x, y, z>>[2] = y /\ <<x, y, z>>[3] = z
OBVIOUS
=============================================================================
