--------------------------- MODULE DatabaseProofs ---------------------------
(***************************************************************************)
(* Proofs about the shared table, for any number of generators, any        *)
(* schemas, rows and conditions, and any number of ALTER TABLEs.           *)
(***************************************************************************)
EXTENDS Database, ResultSetProofs, Induction, SequenceTheorems, FiniteSetTheorems, TLAPS

(***************************************************************************)
(* WHERE                                                                   *)
(***************************************************************************)

\* The function SelectedFrom builds, as a function of its own.
UpToFn(t) ==
  CHOOSE f : f = [n \in 0 .. Len(t) |->
    IF n = 0 THEN <<>> ELSE IF Satisfies(t[n]) THEN Append(f[n - 1], t[n]) ELSE f[n - 1]]

\* SelectedFrom is its last value.
LEMMA SelectedIsLast ==
  ASSUME NEW t PROVE SelectedFrom(t) = UpToFn(t)[Len(t)]
BY DEF SelectedFrom, UpToFn

\* It is defined for every row, and by its recursion.
LEMMA UpToFnExists ==
  ASSUME NEW t \in Seq(Rows)
  PROVE  /\ UpToFn(t) \in [0 .. Len(t) -> Seq(Rows)]
         /\ \A n \in 0 .. Len(t) :
              UpToFn(t)[n] = IF n = 0 THEN <<>>
                             ELSE IF Satisfies(t[n]) THEN Append(UpToFn(t)[n - 1], t[n])
                             ELSE UpToFn(t)[n - 1]
<1> DEFINE I == 0 .. Len(t)
           D == Seq(Rows)
           B == Len(t) + 1
           mu == [n \in I |-> n]
           body(n, f) == IF n = 0 THEN <<>>
                         ELSE IF Satisfies(t[n]) THEN Append(f[n - 1], t[n]) ELSE f[n - 1]
           step == [p \in I \X [I -> D] |-> body(p[1], p[2])]
<1>0. Len(t) \in Nat /\ \A n \in I : n # 0 => t[n] \in Rows
  OBVIOUS
<1>1. D # {}
  <2>1. <<>> \in D
    OBVIOUS
  <2> HIDE DEF D
  <2> QED
    BY <2>1
<1>2. B \in Nat /\ mu \in [I -> Nat] /\ \A n \in I : mu[n] < B
  BY <1>0
<1>3. ASSUME NEW n \in I, n # 0 PROVE n - 1 \in I /\ mu[n - 1] < mu[n]
  BY <1>0, <1>3
<1>4. ASSUME NEW n \in I, NEW f, \A j \in I : mu[j] < mu[n] => f[j] \in D
      PROVE  body(n, f) \in D
  <2>1. CASE n = 0
    BY <2>1
  <2>2. CASE n # 0
    <3>1. f[n - 1] \in D /\ t[n] \in Rows
      BY <2>2, <1>0, <1>3, <1>4
    <3>2. Append(f[n - 1], t[n]) \in D
      BY <3>1, AppendProperties
    <3> QED
      BY <2>2, <3>1, <3>2
  <2> QED
    BY <2>1, <2>2
<1>5. ASSUME NEW n \in I, NEW f, NEW g, \A j \in I : mu[j] < mu[n] => f[j] = g[j]
      PROVE  body(n, f) = body(n, g)
  <2>1. CASE n = 0
    BY <2>1
  <2>2. CASE n # 0
    <3>1. f[n - 1] = g[n - 1]
      BY <2>2, <1>3, <1>5
    <3> QED
      BY <3>1
  <2> QED
    BY <2>1, <2>2
<1> HIDE DEF D, B, mu, I, body
<1>6. \A n \in I, f \in [I -> D] : step[<<n, f>>] = body(n, f)
  OBVIOUS
<1>7. step \in [I \X [I -> D] -> D]
  <2>1. \A p \in I \X [I -> D] : p[1] \in I /\ p[2] \in [I -> D]
    OBVIOUS
  <2>2. \A p \in I \X [I -> D] : body(p[1], p[2]) \in D
    BY <2>1, <1>4
  <2> QED
    BY <2>2
<1> HIDE DEF step
<1>8. \A n \in I : \A f, g \in [I -> D] :
        (\A j \in I : mu[j] < mu[n] => f[j] = g[j]) => step[<<n, f>>] = step[<<n, g>>]
  BY <1>5, <1>6
<1>9. IsRecursion(I, D, mu, B, step)
  BY <1>1, <1>2, <1>7, <1>8, Zenon DEF IsRecursion
<1>10. PICK f \in [I -> D] : \A n \in I : f[n] = step[<<n, f>>]
  BY <1>9, RecursiveFunction
<1>11. f = [n \in I |-> body(n, f)]
  BY <1>10, <1>6
<1> DEFINE F == UpToFn(t)
<1>12. F = [n \in I |-> body(n, F)]
  BY <1>11 DEF UpToFn, body, I
<1> HIDE DEF F
<1> DEFINE S == {n \in I : F[n] \in D}
<1>13. \A n \in I : (\A j \in I : mu[j] < mu[n] => j \in S) => n \in S
  BY <1>12, <1>4
<1>14. \A n \in I : n \in S
  <2> HIDE DEF S
  <2> QED
    BY <1>13, <1>2, MeasureInduction, Zenon
<1>15. F \in [I -> D]
  BY <1>12, <1>14
<1>16. \A n \in I : F[n] = body(n, F)
  BY <1>12
<1> QED
  BY <1>15, <1>16 DEF F, I, D, body

\* What WHERE keeps of rows are rows.
LEMMA SelectedType ==
  ASSUME NEW t \in Seq(Rows) PROVE SelectedFrom(t) \in Seq(Rows)
<1>1. Len(t) \in 0 .. Len(t)
  OBVIOUS
<1> QED
  BY <1>1, SelectedIsLast, UpToFnExists

\* A row more is selected last, or not at all.
LEMMA SelectedAppend ==
  ASSUME NEW t \in Seq(Rows), NEW r \in Rows
  PROVE  SelectedFrom(Append(t, r)) =
           IF Satisfies(r) THEN Append(SelectedFrom(t), r) ELSE SelectedFrom(t)
<1> DEFINE u == Append(t, r)
           J == UpToFn(t)
           K == UpToFn(u)
           n == Len(t)
           I == 0 .. n
           mu == [k \in I |-> k]
           S == {k \in I : J[k] = K[k]}
<1>1. /\ n \in Nat /\ u \in Seq(Rows) /\ Len(u) = n + 1
      /\ u[n + 1] = r /\ \A k \in 1 .. n : u[k] = t[k]
  BY AppendProperties, LenProperties
<1> HIDE DEF u
<1>2. \A k \in I : J[k] = IF k = 0 THEN <<>>
                          ELSE IF Satisfies(t[k]) THEN Append(J[k - 1], t[k]) ELSE J[k - 1]
  BY UpToFnExists
<1>3. \A k \in 0 .. n + 1 : K[k] = IF k = 0 THEN <<>>
                                   ELSE IF Satisfies(u[k]) THEN Append(K[k - 1], u[k]) ELSE K[k - 1]
  <2>1. \A k \in 0 .. Len(u) : K[k] = IF k = 0 THEN <<>>
                                   ELSE IF Satisfies(u[k]) THEN Append(K[k - 1], u[k]) ELSE K[k - 1]
    BY <1>1, UpToFnExists
  <2> QED
    BY <1>1, <2>1
<1> HIDE DEF J, K, n
<1>4. \A k \in I : (\A j \in I : mu[j] < mu[k] => j \in S) => k \in S
  <2> SUFFICES ASSUME NEW k \in I, \A j \in I : mu[j] < mu[k] => j \in S
               PROVE  J[k] = K[k]
    OBVIOUS
  <2>1. k \in 0 .. n + 1
    BY <1>1
  <2>2. CASE k = 0
    BY <2>1, <2>2, <1>2, <1>3
  <2>3. CASE k # 0
    <3>1. k - 1 \in I /\ mu[k - 1] < mu[k] /\ k \in 1 .. n
      BY <1>1, <2>3
    <3>2. J[k - 1] = K[k - 1] /\ u[k] = t[k]
      BY <3>1, <1>1
    <3> HIDE DEF mu, S
    <3> QED
      BY <2>1, <2>3, <3>2, <1>2, <1>3
  <2> QED
    BY <2>2, <2>3
<1>5. mu \in [I -> Nat]
  BY <1>1
<1>6. \A k \in I : k \in S
  <2> HIDE DEF S, mu, I
  <2> QED
    BY <1>4, <1>5, MeasureInduction, Zenon
<1>7. SelectedFrom(u) = K[n + 1] /\ SelectedFrom(t) = J[n]
  BY <1>1, SelectedIsLast DEF J, K, n
<1>8. n + 1 \in 0 .. n + 1 /\ n + 1 # 0 /\ (n + 1) - 1 = n /\ n \in I
  BY <1>1
<1>9. K[n + 1] = IF Satisfies(r) THEN Append(K[n], r) ELSE K[n]
  <2>1. K[n + 1] = IF Satisfies(u[n + 1]) THEN Append(K[(n + 1) - 1], u[n + 1]) ELSE K[(n + 1) - 1]
    BY <1>8, <1>3
  <2> QED
    BY <2>1, <1>1, <1>8
<1>10. K[n] = J[n]
  BY <1>6, <1>8
<1> QED
  BY <1>7, <1>9, <1>10 DEF u

\* A prefix stays one when a row is added.
LEMMA PrefixAppend ==
  ASSUME NEW s \in Seq(Rows), NEW t \in Seq(Rows), NEW r \in Rows, IsPrefix(s, t)
  PROVE  IsPrefix(s, Append(t, r))
<1>1. /\ Len(s) \in Nat /\ Len(t) \in Nat /\ Len(s) <= Len(t)
      /\ SubSeq(s, 1, Len(s)) = SubSeq(t, 1, Len(s))
  BY DEF IsPrefix
<1>2. /\ Append(t, r) \in Seq(Rows) /\ Len(Append(t, r)) = Len(t) + 1
      /\ \A k \in 1 .. Len(t) : Append(t, r)[k] = t[k]
  BY AppendProperties
<1>3. SubSeq(Append(t, r), 1, Len(s)) = SubSeq(t, 1, Len(s))
  <2> DEFINE u == Append(t, r)
             n == Len(s)
  <2> HIDE DEF u, n
  <2>1. n \in Nat /\ n <= Len(t) /\ Len(u) = Len(t) + 1 /\ u \in Seq(Rows) /\ \A k \in 1 .. n : u[k] = t[k]
    BY <1>1, <1>2 DEF u, n
  <2>2. SubSeq(u, 1, n) \in Seq(Rows) /\ Len(SubSeq(u, 1, n)) = n /\ \A k \in 1 .. n : SubSeq(u, 1, n)[k] = u[k]
    BY <2>1
  <2>3. SubSeq(t, 1, n) \in Seq(Rows) /\ Len(SubSeq(t, 1, n)) = n /\ \A k \in 1 .. n : SubSeq(t, 1, n)[k] = t[k]
    BY <2>1
  <2>4. SubSeq(u, 1, n) = SubSeq(t, 1, n)
    <3> DEFINE L == SubSeq(u, 1, n)
               R == SubSeq(t, 1, n)
    <3>1. L \in Seq(Rows) /\ R \in Seq(Rows) /\ Len(L) = Len(R) /\ \A k \in 1 .. Len(L) : L[k] = R[k]
      BY <2>1, <2>2, <2>3
    <3> HIDE DEF L, R
    <3> QED
      BY <3>1, SeqEqual DEF L, R
  <2> QED
    BY <2>4 DEF u, n
<1> QED
  BY <1>1, <1>2, <1>3 DEF IsPrefix

\* A sequence is a prefix of itself.
LEMMA PrefixSelf ==
  ASSUME NEW s \in Seq(Rows) PROVE IsPrefix(s, s)
<1>1. Len(s) <= Len(s)
  OBVIOUS
<1> QED
  BY <1>1 DEF IsPrefix

(***************************************************************************)
(* Adding up over the generators                                           *)
(***************************************************************************)

\* The fold of EntriesAccountedFor, for any counts.
Total(f) == FoldSet(LAMBDA g, n : f[g] + n, 0, Generators)

\* An element of a set: the one the fold takes.
One(s) == CHOOSE x \in s : TRUE

\* The function the fold builds, as a function of its own.
SumFn(f) ==
  CHOOSE h : h = [s \in SUBSET Generators |-> IF s = {} THEN 0 ELSE f[One(s)] + h[s \ {One(s)}]]

\* The total is its value for all generators.
LEMMA TotalIsSum ==
  ASSUME NEW f PROVE Total(f) = SumFn(f)[Generators]
BY DEF Total, FoldSet, MapThenFoldSet, SumFn, One

\* The rest of a set is smaller.
LEMMA Smaller ==
  ASSUME NEW s \in SUBSET Generators, s # {}
  PROVE  /\ One(s) \in s /\ s \ {One(s)} \in SUBSET Generators
         /\ Cardinality(s) \in Nat /\ Cardinality(s \ {One(s)}) \in Nat
         /\ Cardinality(s \ {One(s)}) < Cardinality(s)
<1>1. One(s) \in s
  BY DEF One
<1>2. IsFiniteSet(s)
  BY GeneratorAssumption, FS_Subset
<1>3. IsFiniteSet(s \ {One(s)}) /\ Cardinality(s \ {One(s)}) = Cardinality(s) - 1
  BY <1>1, <1>2, FS_RemoveElement
<1>4. Cardinality(s) \in Nat /\ Cardinality(s \ {One(s)}) \in Nat
  BY <1>2, <1>3, FS_CardinalityType
<1>5. Cardinality(s) - 1 < Cardinality(s)
  BY <1>4
<1> QED
  BY <1>1, <1>3, <1>4, <1>5

\* The size of a set of generators.
Size == [s \in SUBSET Generators |-> Cardinality(s)]

\* It is a natural number, at most the number of generators.
LEMMA SizeFacts ==
  /\ Size \in [SUBSET Generators -> Nat]
  /\ Cardinality(Generators) + 1 \in Nat
  /\ \A s \in SUBSET Generators : Size[s] < Cardinality(Generators) + 1
<1>1. Cardinality(Generators) \in Nat
  BY GeneratorAssumption, FS_CardinalityType
<1>2. \A s \in SUBSET Generators : Cardinality(s) \in Nat /\ Cardinality(s) <= Cardinality(Generators)
  <2> SUFFICES ASSUME NEW s \in SUBSET Generators
               PROVE Cardinality(s) \in Nat /\ Cardinality(s) <= Cardinality(Generators)
    OBVIOUS
  <2>1. IsFiniteSet(s) /\ Cardinality(s) <= Cardinality(Generators)
    BY GeneratorAssumption, FS_Subset
  <2> QED
    BY <2>1, FS_CardinalityType
<1>3. ASSUME NEW s \in SUBSET Generators PROVE Size[s] = Cardinality(s)
  BY DEF Size
<1>4. Size \in [SUBSET Generators -> Nat]
  BY <1>2 DEF Size
<1> QED
  BY <1>1, <1>2, <1>3, <1>4

\* It is defined for every set, and by its recursion.
LEMMA SumFnExists ==
  ASSUME NEW f \in [Generators -> Nat]
  PROVE  /\ SumFn(f) \in [SUBSET Generators -> Nat]
         /\ \A s \in SUBSET Generators :
              SumFn(f)[s] = IF s = {} THEN 0 ELSE f[One(s)] + SumFn(f)[s \ {One(s)}]
<1> DEFINE I == SUBSET Generators
           D == Nat
           B == Cardinality(Generators) + 1
           mu == Size
           body(s, h) == IF s = {} THEN 0 ELSE f[One(s)] + h[s \ {One(s)}]
           step == [p \in I \X [I -> D] |-> body(p[1], p[2])]
<1>1. D # {} /\ B \in Nat /\ mu \in [I -> Nat] /\ \A s \in I : mu[s] < B
  BY SizeFacts
<1>3. ASSUME NEW s \in I, s # {}
      PROVE  s \ {One(s)} \in I /\ mu[s \ {One(s)}] < mu[s] /\ f[One(s)] \in Nat
  <2>1. One(s) \in s /\ s \ {One(s)} \in SUBSET Generators /\ Cardinality(s \ {One(s)}) < Cardinality(s)
    BY <1>3, Smaller
  <2>2. Size[s] = Cardinality(s) /\ Size[s \ {One(s)}] = Cardinality(s \ {One(s)})
    BY <2>1 DEF Size
  <2> QED
    BY <2>1, <2>2
<1>4. ASSUME NEW s \in I, NEW h, \A j \in I : mu[j] < mu[s] => h[j] \in D
      PROVE  body(s, h) \in D
  <2>1. CASE s = {}
    BY <2>1
  <2>2. CASE s # {}
    <3>1. f[One(s)] \in Nat /\ h[s \ {One(s)}] \in Nat
      BY <2>2, <1>3, <1>4
    <3> QED
      BY <2>2, <3>1
  <2> QED
    BY <2>1, <2>2
<1>5. ASSUME NEW s \in I, NEW h, NEW k, \A j \in I : mu[j] < mu[s] => h[j] = k[j]
      PROVE  body(s, h) = body(s, k)
  <2>1. CASE s = {}
    BY <2>1
  <2>2. CASE s # {}
    <3>1. h[s \ {One(s)}] = k[s \ {One(s)}]
      BY <2>2, <1>3, <1>5
    <3> QED
      BY <3>1
  <2> QED
    BY <2>1, <2>2
<1> HIDE DEF D, B, mu, I, body
<1>6. \A s \in I, h \in [I -> D] : step[<<s, h>>] = body(s, h)
  OBVIOUS
<1>7. step \in [I \X [I -> D] -> D]
  <2>1. \A p \in I \X [I -> D] : p[1] \in I /\ p[2] \in [I -> D]
    OBVIOUS
  <2>2. \A p \in I \X [I -> D] : body(p[1], p[2]) \in D
    BY <2>1, <1>4
  <2> QED
    BY <2>2
<1> HIDE DEF step
<1>8. \A s \in I : \A h, k \in [I -> D] :
        (\A j \in I : mu[j] < mu[s] => h[j] = k[j]) => step[<<s, h>>] = step[<<s, k>>]
  BY <1>5, <1>6
<1>9. IsRecursion(I, D, mu, B, step)
  BY <1>1, <1>7, <1>8, Zenon DEF IsRecursion
<1>10. PICK h \in [I -> D] : \A s \in I : h[s] = step[<<s, h>>]
  BY <1>9, RecursiveFunction
<1>11. h = [s \in I |-> body(s, h)]
  BY <1>10, <1>6
<1> DEFINE F == SumFn(f)
<1>12. F = [s \in I |-> body(s, F)]
  BY <1>11 DEF SumFn, body, I
<1> HIDE DEF F
<1> DEFINE S == {s \in I : F[s] \in D}
<1>13. \A s \in I : (\A j \in I : mu[j] < mu[s] => j \in S) => s \in S
  BY <1>12, <1>4
<1>14. \A s \in I : s \in S
  <2> HIDE DEF S
  <2> QED
    BY <1>13, <1>1, MeasureInduction, Zenon
<1>15. F \in [I -> D]
  BY <1>12, <1>14
<1>16. \A s \in I : F[s] = body(s, F)
  BY <1>12
<1> QED
  BY <1>15, <1>16 DEF F, I, D, body

\* Nothing adds up to nothing.
LEMMA TotalZero ==
  ASSUME NEW f \in [Generators -> Nat], \A g \in Generators : f[g] = 0
  PROVE  Total(f) = 0
<1> DEFINE I == SUBSET Generators
           F == SumFn(f)
           S == {s \in I : F[s] = 0}
<1>1. \A s \in I : (\A j \in I : Size[j] < Size[s] => j \in S) => s \in S
  <2> SUFFICES ASSUME NEW s \in I, \A j \in I : Size[j] < Size[s] => j \in S PROVE F[s] = 0
    OBVIOUS
  <2>1. F[s] = IF s = {} THEN 0 ELSE f[One(s)] + F[s \ {One(s)}]
    BY SumFnExists
  <2>2. CASE s = {}
    BY <2>1, <2>2
  <2>3. CASE s # {}
    <3>1. One(s) \in s /\ s \ {One(s)} \in I /\ Cardinality(s \ {One(s)}) < Cardinality(s)
      BY <2>3, Smaller
    <3>2. Size[s \ {One(s)}] < Size[s]
      BY <3>1 DEF Size
    <3>3. F[s \ {One(s)}] = 0 /\ f[One(s)] = 0
      BY <3>1, <3>2
    <3> QED
      BY <2>1, <2>3, <3>3
  <2> QED
    BY <2>2, <2>3
<1>2. \A s \in I : s \in S
  <2> HIDE DEF S, I
  <2>1. Size \in [I -> Nat]
    BY SizeFacts DEF I
  <2> QED
    BY <1>1, <2>1, MeasureInduction, Zenon
<1>3. Generators \in I
  OBVIOUS
<1> QED
  BY <1>2, <1>3, TotalIsSum

\* One more at one place is one more in all.
LEMMA TotalPlusOne ==
  ASSUME NEW f \in [Generators -> Nat], NEW g \in Generators
  PROVE  Total([f EXCEPT ![g] = @ + 1]) = Total(f) + 1
<1> DEFINE I == SUBSET Generators
           e == [f EXCEPT ![g] = @ + 1]
           F == SumFn(f)
           E == SumFn(e)
           S == {s \in I : E[s] = F[s] + (IF g \in s THEN 1 ELSE 0)}
<1>0. e \in [Generators -> Nat] /\ e[g] = f[g] + 1 /\ \A x \in Generators : x # g => e[x] = f[x]
  OBVIOUS
<1> HIDE DEF e
<1>1. \A s \in I : (\A j \in I : Size[j] < Size[s] => j \in S) => s \in S
  <2> SUFFICES ASSUME NEW s \in I, \A j \in I : Size[j] < Size[s] => j \in S
               PROVE  E[s] = F[s] + (IF g \in s THEN 1 ELSE 0)
    OBVIOUS
  <2>1. F[s] = (IF s = {} THEN 0 ELSE f[One(s)] + F[s \ {One(s)}]) /\ F \in [I -> Nat]
    BY SumFnExists
  <2>2. E[s] = (IF s = {} THEN 0 ELSE e[One(s)] + E[s \ {One(s)}]) /\ E \in [I -> Nat]
    BY <1>0, SumFnExists
  <2>3. CASE s = {}
    BY <2>1, <2>2, <2>3
  <2>4. CASE s # {}
    <3> DEFINE x == One(s)
               r == s \ {x}
    <3>1. x \in s /\ r \in I /\ Cardinality(r) < Cardinality(s)
      BY <2>4, Smaller
    <3>2. Size[r] < Size[s]
      BY <3>1 DEF Size
    <3>3. E[r] = F[r] + (IF g \in r THEN 1 ELSE 0)
      BY <3>1, <3>2
    <3>4. F[s] = f[x] + F[r] /\ E[s] = e[x] + E[r]
      BY <2>1, <2>2, <2>4
    <3>5. F[r] \in Nat /\ f[x] \in Nat /\ e[x] \in Nat
      BY <2>1, <3>1, <1>0
    <3>6. (g \in r <=> g \in s /\ g # x) /\ (g = x => g \in s)
      BY <3>1
    <3> HIDE DEF E, F, S, x, r
    <3>7. CASE g = x
      <4>1. e[x] = f[x] + 1
        BY <3>7, <1>0
      <4>2. E[r] = F[r]
        BY <3>3, <3>5, <3>6, <3>7
      <4> QED
        BY <4>1, <4>2, <3>4, <3>5, <3>6, <3>7
    <3>8. CASE g # x
      <4>1. e[x] = f[x]
        BY <3>8, <1>0, <3>1
      <4> QED
        BY <4>1, <3>3, <3>4, <3>5, <3>6, <3>8
    <3> QED
      BY <3>7, <3>8
  <2> QED
    BY <2>3, <2>4
<1>2. \A s \in I : s \in S
  <2> HIDE DEF S, I
  <2>1. Size \in [I -> Nat]
    BY SizeFacts DEF I
  <2> QED
    BY <1>1, <2>1, MeasureInduction, Zenon
<1>3. Generators \in I /\ g \in Generators
  OBVIOUS
<1>4. E[Generators] = F[Generators] + 1
  BY <1>2, <1>3
<1> QED
  BY <1>4, TotalIsSum DEF e

(***************************************************************************)
(* The invariant of the query                                              *)
(***************************************************************************)

\* The columns each row is read with.
Reading == IF phase = "columns" THEN MetaColumns ELSE columns

\* What a program holds of a cell.
CellOf(v, c) ==
  IF v = Null THEN IF c \in IntColumns THEN 0 ELSE EmptyText
  ELSE IF c \in IntColumns THEN Narrowed(v) ELSE v

\* What information_schema.COLUMNS says of the schema s.
ColumnRowsOf(s) ==
  [j \in DOMAIN s |-> [COLUMN_NAME |-> s[j].name, DATA_TYPE |-> s[j].type]]

\* A sequence, of whatever it holds.
IsSequence(s) == s \in Seq({s[j] : j \in DOMAIN s})

\* The server's part, and that of the variables' types which DatabaseTypeOK
\* leaves open.
Types ==
  /\ DatabaseTypeOK
  /\ table \in Seq(Rows) /\ schema \in Schemas /\ alters \in Nat
  /\ IsSequence(data)

\* While rows are read, the object's position and the C API's agree.
InStep ==
  /\ rpc \in {"next", "cells"} => row_position = data_cursor /\ row_position <= num_rows
  /\ rpc = "cells" => row = row_position /\ row_position > 0

\* The columns come from one schema: the rows they are read from do, and then
\* they do themselves.
SchemaRead ==
  /\ phase = "columns" /\ rpc \in {"next", "cells", "read"} =>
       \E s \in Schemas : stored = ColumnRowsOf(s) /\ (alters = 0 => s = schema)
  /\ phase = "rows" => columns \in Schemas /\ (alters = 0 => columns = schema)

\* The row under construction holds the cells of the columns already read.
EntryRead ==
  rpc = "cells" =>
    /\ \A k \in DOMAIN todo : \E j \in DOMAIN Reading : todo[k] = Reading[j]
    /\ DOMAIN entry \cup Names(todo) = Names(Reading)
    /\ \A c \in DOMAIN entry : entry[c] = CellOf(stored[row_position][c], c)

\* The rows kept are the first rows of the result, in both phases.
RowsKept ==
  rpc \in {"next", "cells", "read", "done"} =>
    /\ Len(data) = IF rpc = "cells" THEN row_position - 1
                   ELSE IF rpc = "next" THEN row_position ELSE num_rows
    /\ \A j \in DOMAIN data :
         /\ DOMAIN data[j] = Names(Reading)
         /\ \A c \in Names(Reading) : data[j][c] = CellOf(stored[j][c], c)

\* What every step of the programs keeps.
QueryInv == Types /\ InStep /\ SchemaRead /\ EntryRead /\ RowsKept

-----------------------------------------------------------------------------
\* One element more.
LEMMA OneMore ==
  ASSUME NEW s, IsSequence(s), NEW e
  PROVE  /\ IsSequence(Append(s, e)) /\ Len(s) \in Nat /\ Len(Append(s, e)) = Len(s) + 1
         /\ DOMAIN s = 1 .. Len(s) /\ DOMAIN Append(s, e) = 1 .. Len(s) + 1
         /\ Append(s, e)[Len(s) + 1] = e
         /\ \A j \in 1 .. Len(s) : Append(s, e)[j] = s[j]
<1> DEFINE S == {s[j] : j \in DOMAIN s}
           T == S \cup {e}
           t == Append(s, e)
<1>1. s \in Seq(S)
  BY DEF IsSequence
<1> HIDE DEF S
<1>2. s \in Seq(T) /\ e \in T
  BY <1>1
<1>3. /\ t \in Seq(T) /\ Len(s) \in Nat /\ Len(t) = Len(s) + 1 /\ DOMAIN s = 1 .. Len(s)
      /\ t[Len(s) + 1] = e /\ \A j \in 1 .. Len(s) : t[j] = s[j]
  BY <1>2, AppendProperties, LenProperties
<1>4. DOMAIN t = 1 .. Len(s) + 1
  BY <1>3
<1> HIDE DEF T, t
<1>5. t \in Seq({t[j] : j \in DOMAIN t})
  BY <1>3
<1> QED
  BY <1>3, <1>4, <1>5 DEF IsSequence, t

\* The columns of a schema are columns.
LEMMA SchemaColumns ==
  ASSUME NEW s \in Schemas
  PROVE  /\ s \in Seq(Column) /\ Len(s) \in Nat /\ DOMAIN s = 1 .. Len(s)
         /\ \A j \in DOMAIN s :
              /\ s[j] \in Column /\ s[j].name \in IntColumns \cup TextColumns
              /\ s[j].type \in {"int", "text"}
              /\ s[j].type = "int" <=> s[j].name \in IntColumns
              /\ s[j].type # "int" => s[j].name \in TextColumns
<1>1. s \in Seq(Column)
  BY SchemaAssumption
<1>2. Len(s) \in Nat /\ DOMAIN s = 1 .. Len(s) /\ \A j \in DOMAIN s : s[j] \in Column
  BY <1>1
<1> QED
  BY <1>1, <1>2, SchemaAssumption DEF Column

\* So are those of COLUMNS.
LEMMA MetaFacts ==
  /\ MetaColumns \in Seq(Column) /\ Len(MetaColumns) = 2 /\ DOMAIN MetaColumns = 1 .. 2
  /\ Names(MetaColumns) = {"COLUMN_NAME", "DATA_TYPE"}
  /\ \A j \in DOMAIN MetaColumns :
       /\ MetaColumns[j] \in Column
       /\ MetaColumns[j].type = "text" /\ MetaColumns[j].name \in TextColumns
       /\ MetaColumns[j].name \notin IntColumns
<1>1. /\ MetaColumns[1] = [name |-> "COLUMN_NAME", type |-> "text"]
      /\ MetaColumns[2] = [name |-> "DATA_TYPE", type |-> "text"]
      /\ Len(MetaColumns) = 2 /\ DOMAIN MetaColumns = 1 .. 2
  BY DEF MetaColumns
<1>4. MetaColumns \in Seq(Column)
  <2>1. ASSUME NEW x \in Column, NEW y \in Column PROVE <<x, y>> \in Seq(Column)
    OBVIOUS
  <2>2. [name |-> "COLUMN_NAME", type |-> "text"] \in Column /\ [name |-> "DATA_TYPE", type |-> "text"] \in Column
    BY SchemaAssumption DEF Column
  <2> QED
    BY <2>1, <2>2 DEF MetaColumns
<1>2. \A j \in 1 .. 2 : j = 1 \/ j = 2
  OBVIOUS
<1>3. Names(MetaColumns) = {"COLUMN_NAME", "DATA_TYPE"}
  BY <1>1, <1>2 DEF Names
<1> QED
  BY <1>1, <1>4, <1>2, <1>3, SchemaAssumption

\* How a column of either phase is read.
LEMMA ReadingFacts ==
  ASSUME Types, SchemaRead
  PROVE  /\ Reading \in Seq(Column)
         /\ \A j \in DOMAIN Reading :
              /\ Reading[j].name \in IntColumns \cup TextColumns
              /\ Reading[j].type = "int" <=> Reading[j].name \in IntColumns
              /\ Reading[j].type # "int" => Reading[j].name \in TextColumns
<1>1. CASE phase = "columns"
  <2>1. Reading = MetaColumns
    BY <1>1 DEF Reading
  <2>2. \A j \in DOMAIN MetaColumns :
              /\ MetaColumns[j].name \in IntColumns \cup TextColumns
              /\ MetaColumns[j].type = "int" <=> MetaColumns[j].name \in IntColumns
              /\ MetaColumns[j].type # "int" => MetaColumns[j].name \in TextColumns
    BY MetaFacts
  <2> QED
    BY <2>1, <2>2, MetaFacts
<1>2. CASE phase = "rows"
  <2>1. Reading = columns /\ columns \in Schemas
    BY <1>2 DEF Reading, SchemaRead
  <2> QED
    BY <2>1, SchemaColumns
<1> QED
  BY <1>1, <1>2 DEF Types, DatabaseTypeOK

-----------------------------------------------------------------------------
(***************************************************************************)
(* Initially, and every step of the generators and of the server.          *)
(***************************************************************************)

\* Initially.
LEMMA QueryInit == Init => QueryInv
<1> SUFFICES ASSUME Init PROVE QueryInv
  OBVIOUS
<1>1. TypeOK
  <2>1. is_open \in BOOLEAN /\ connected \in BOOLEAN /\ was_null \in BOOLEAN
    BY Zenon DEF Init
  <2>2. stored \in Seq(Rows) /\ num_rows = 0
    BY DEF Init, num_rows
  <2>3. row_position \in 0 .. num_rows + 1 /\ data_cursor \in 0 .. num_rows /\ row \in 0 .. num_rows
    BY <2>2 DEF Init
  <2>4. last_queried_column = NoColumn /\ call = "none" /\ ret = "void"
    BY DEF Init
  <2> QED
    BY <2>1, <2>2, <2>3, <2>4 DEF TypeOK
<1>2. table \in Seq(Rows) /\ DOMAIN table = {} /\ todo \in Seq(Column) /\ IsSequence(data)
  BY DEF Init, IsSequence
<1>3. schema \in Schemas /\ alters \in Nat /\ phase = "columns" /\ rpc = "connect"
      /\ gpc \in [Generators -> {"idle", "inserting", "done", "aborted"}]
  BY DEF Init
<1> QED
  BY <1>1, <1>2, <1>3 DEF QueryInv, Types, DatabaseTypeOK, InStep, SchemaRead, EntryRead, RowsKept

\* What the others do to the table leaves the query where it is.
LEMMA OthersStep ==
  ASSUME QueryInv, UNCHANGED <<readvars, rsvars>>,
         table' \in Seq(Rows), \A j \in DOMAIN table' : DOMAIN table'[j] = Names(schema'),
         schema' \in Schemas, alters' \in Nat,
         gpc' \in [Generators -> {"idle", "inserting", "done", "aborted"}],
         alters' = 0 => alters = 0 /\ schema' = schema
  PROVE  QueryInv'
<1>1. UNCHANGED <<phase, rpc, columns, todo, entry, data>>
  BY DEF readvars
<1>2. UNCHANGED <<stored, row_position, data_cursor, row>> /\ num_rows' = num_rows
  BY DEF rsvars, num_rows
<1>3. TypeOK'
  BY TypeStep DEF QueryInv, Types, DatabaseTypeOK
<1>4. \A j \in DOMAIN table' : table'[j] \in Rows
  OBVIOUS
<1>5. Types'
  BY <1>1, <1>3, <1>4 DEF QueryInv, Types, DatabaseTypeOK
<1>6. InStep'
  BY <1>1, <1>2 DEF QueryInv, InStep
<1>7. SchemaRead'
  BY <1>1, <1>2 DEF QueryInv, SchemaRead
<1>8. Reading' = Reading
  BY <1>1 DEF Reading
<1>9. EntryRead' /\ RowsKept'
  BY <1>1, <1>2, <1>8 DEF QueryInv, EntryRead, RowsKept
<1> QED
  BY <1>5, <1>6, <1>7, <1>9 DEF QueryInv

\* A row fitted to a schema has its columns.
LEMMA FittedFacts ==
  ASSUME NEW r \in Rows \cup GeneratedRows, NEW s \in Schemas
  PROVE  Fitted(r, s) \in Rows /\ DOMAIN Fitted(r, s) = Names(s)
<1>1. Fitted(r, s) \in Rows
  BY TableAssumption
<1>2. DOMAIN Fitted(r, s) = Names(s)
  BY DEF Fitted
<1> QED
  BY <1>1, <1>2

\* The server adds a row.
LEMMA InsertsFacts ==
  ASSUME Types, NEW g \in Generators, ServerInserts(g)
  PROVE  \E r \in Rows : table' = Append(table, r) /\ DOMAIN r = Names(schema)
BY FittedFacts DEF ServerInserts, Types

\* It stays a table.
LEMMA TableGrows ==
  ASSUME Types, NEW r \in Rows, DOMAIN r = Names(schema)
  PROVE  /\ Append(table, r) \in Seq(Rows)
         /\ \A j \in DOMAIN Append(table, r) : DOMAIN Append(table, r)[j] = Names(schema)
<1> DEFINE t == Append(table, r)
           n == Len(table)
<1>1. /\ t \in Seq(Rows) /\ n \in Nat /\ Len(t) = n + 1 /\ t[n + 1] = r
      /\ \A j \in 1 .. n : t[j] = table[j]
  BY AppendProperties DEF Types
<1>2. \A j \in 1 .. n : DOMAIN table[j] = Names(schema)
  BY DEF Types, DatabaseTypeOK
<1> HIDE DEF t, n
<1>3. ASSUME NEW j \in DOMAIN t PROVE DOMAIN t[j] = Names(schema)
  <2>1. j \in 1 .. n + 1
    BY <1>1
  <2>2. CASE j = n + 1
    BY <2>2, <1>1
  <2>3. CASE j # n + 1
    <3>1. j \in 1 .. n
      BY <2>1, <2>3, <1>1
    <3> QED
      BY <3>1, <1>1, <1>2
  <2> QED
    BY <2>2, <2>3
<1> QED
  BY <1>1, <1>3 DEF t

\* Every step of a generator.
LEMMA GenerateKeepsQuery ==
  ASSUME QueryInv, NEW g \in Generators, Generate(g) PROVE QueryInv'
<1>1. /\ table \in Seq(Rows) /\ \A j \in DOMAIN table : DOMAIN table[j] = Names(schema)
      /\ schema \in Schemas /\ alters \in Nat
      /\ gpc \in [Generators -> {"idle", "inserting", "done", "aborted"}]
  BY DEF QueryInv, Types, DatabaseTypeOK
<1>2. CASE GenerateStart(g)
  <2>1. gpc' \in [Generators -> {"idle", "inserting", "done", "aborted"}]
    BY <1>1, <1>2 DEF GenerateStart
  <2>2. UNCHANGED servervars /\ UNCHANGED readvars /\ UNCHANGED rsvars
    BY <1>2 DEF GenerateStart
  <2> QED
    BY <1>1, <2>1, <2>2, OthersStep DEF servervars
<1>3. CASE GenerateThrows(g) \/ GenerateEnd(g)
  <2>1. gpc' \in [Generators -> {"idle", "inserting", "done", "aborted"}]
    BY <1>1, <1>3 DEF GenerateThrows, GenerateEnd
  <2>2. UNCHANGED servervars /\ UNCHANGED readvars /\ UNCHANGED rsvars
    BY <1>3 DEF GenerateThrows, GenerateEnd
  <2> QED
    BY <1>1, <2>1, <2>2, OthersStep DEF servervars
<1>4. CASE Insert(g) \/ InsertLost(g)
  <2>1. gpc' \in [Generators -> {"idle", "inserting", "done", "aborted"}]
    BY <1>1, <1>4 DEF Insert, InsertLost
  <2>2. /\ ServerInserts(g) /\ schema' = schema /\ alters' = alters
        /\ UNCHANGED readvars /\ UNCHANGED rsvars
    BY <1>4 DEF Insert, InsertLost
  <2>3. PICK r \in Rows : table' = Append(table, r) /\ DOMAIN r = Names(schema)
    BY <2>2, InsertsFacts DEF QueryInv
  <2>4. table' \in Seq(Rows) /\ \A j \in DOMAIN table' : DOMAIN table'[j] = Names(schema')
    BY <2>2, <2>3, TableGrows DEF QueryInv
  <2> QED
    BY <1>1, <2>1, <2>2, <2>4, OthersStep
<1> QED
  BY <1>2, <1>3, <1>4 DEF Generate

\* ALTER TABLE.
LEMMA AlterKeepsQuery ==
  ASSUME QueryInv, AlterTable PROVE QueryInv'
<1>1. /\ table \in Seq(Rows) /\ alters \in Nat
      /\ gpc \in [Generators -> {"idle", "inserting", "done", "aborted"}]
  BY DEF QueryInv, Types, DatabaseTypeOK
<1>2. /\ alters' = alters + 1 /\ schema' \in Schemas
      /\ table' = [j \in DOMAIN table |-> Fitted(table[j], schema')]
      /\ gpc' = gpc /\ UNCHANGED readvars /\ UNCHANGED rsvars
  BY DEF AlterTable, genvars
<1>3. \A j \in DOMAIN table : Fitted(table[j], schema') \in Rows /\ DOMAIN Fitted(table[j], schema') = Names(schema')
  BY <1>1, <1>2, FittedFacts
<1>4. DOMAIN table = 1 .. Len(table) /\ Len(table) \in Nat
  BY <1>1
<1>5. table' \in Seq(Rows)
  BY <1>2, <1>3, <1>4
<1>6. \A j \in DOMAIN table' : DOMAIN table'[j] = Names(schema')
  BY <1>2, <1>3
<1>7. alters' \in Nat /\ alters' # 0
  BY <1>1, <1>2
<1> QED
  BY <1>1, <1>2, <1>5, <1>6, <1>7, OthersStep

(***************************************************************************)
(* Every step of the query.                                                *)
(***************************************************************************)

\* The server and the generators wait.
LEMMA ServerSame ==
  ASSUME Types, Idle
  PROVE  /\ UNCHANGED <<table, schema, alters, gpc>>
         /\ \A j \in DOMAIN table' : table'[j] \in Rows /\ DOMAIN table'[j] = Names(schema')
         /\ gpc' \in [Generators -> {"idle", "inserting", "done", "aborted"}]
         /\ table' \in Seq(Rows) /\ schema' \in Schemas /\ alters' \in Nat
BY DEF Types, DatabaseTypeOK, Idle, genvars, servervars

\* Connecting.
LEMMA ConnectKeepsQuery ==
  ASSUME QueryInv, Connect PROVE QueryInv'
<1>1. /\ rpc = "connect" /\ rpc' = "fetch" /\ UNCHANGED <<phase, columns, todo, entry, data>>
      /\ UNCHANGED <<stored, is_open, row_position, data_cursor, row, last_queried_column, was_null, call, ret>>
      /\ Idle
  BY DEF Connect
<1>2. connected' \in BOOLEAN
  BY Zenon DEF Connect
<1>3. TypeOK'
  BY <1>1, <1>2 DEF QueryInv, Types, DatabaseTypeOK, TypeOK, num_rows
<1>4. Types'
  BY <1>1, <1>3, ServerSame DEF QueryInv, Types, DatabaseTypeOK
<1>5. SchemaRead'
  BY <1>1, ServerSame DEF QueryInv, SchemaRead
<1> QED
  BY <1>1, <1>4, <1>5 DEF QueryInv, InStep, EntryRead, RowsKept

\* An exception.
LEMMA ThrowKeepsQuery ==
  ASSUME QueryInv, ReaderThrows PROVE QueryInv'
<1>1. rpc' = "aborted" /\ UNCHANGED <<phase, columns, todo, entry, data>> /\ UNCHANGED rsvars /\ Idle
  BY DEF ReaderThrows
<1>2. TypeOK'
  BY <1>1, TypeStep DEF QueryInv, Types, DatabaseTypeOK
<1>3. Types'
  BY <1>1, <1>2, ServerSame DEF QueryInv, Types, DatabaseTypeOK
<1>4. SchemaRead'
  BY <1>1, ServerSame DEF QueryInv, SchemaRead
<1> QED
  BY <1>1, <1>3, <1>4 DEF QueryInv, InStep, EntryRead, RowsKept

\* What a query returns are rows.
LEMMA ResultFacts ==
  ASSUME Types
  PROVE  ColumnRows = ColumnRowsOf(schema) /\ ColumnRows \in Seq(Rows) /\ Selected \in Seq(Rows)
<1>1. ColumnRows = ColumnRowsOf(schema)
  BY DEF ColumnRows, ColumnRowsOf
<1>2. DOMAIN schema = 1 .. Len(schema) /\ Len(schema) \in Nat
  BY SchemaColumns DEF Types
<1>3. \A j \in DOMAIN schema : [COLUMN_NAME |-> schema[j].name, DATA_TYPE |-> schema[j].type] \in Rows
  BY TableAssumption DEF Types
<1>4. ColumnRows \in Seq(Rows)
  BY <1>2, <1>3 DEF ColumnRows
<1>5. Selected \in Seq(Rows)
  BY SelectedType DEF Selected, Types
<1> QED
  BY <1>1, <1>4, <1>5

\* executeQuery.
LEMMA FetchKeepsQuery ==
  ASSUME QueryInv, Fetch PROVE QueryInv'
<1>1. /\ rpc' = "next" /\ Constructed(IF phase = "columns" THEN ColumnRows ELSE Selected)
      /\ data' = <<>> /\ UNCHANGED <<connected, phase, columns, todo, entry>> /\ Idle
  BY DEF Fetch
<1>2. /\ stored' = IF phase = "columns" THEN ColumnRows ELSE Selected
      /\ row_position' = 0 /\ data_cursor' = 0 /\ row' = 0
      /\ last_queried_column' = NoColumn /\ call' = "none" /\ ret' = "void"
  BY <1>1 DEF Constructed, Called
<1>3. is_open' \in BOOLEAN /\ was_null' \in BOOLEAN
  BY <1>1, Zenon DEF Constructed
<1>4. stored' \in Seq(Rows) /\ num_rows' \in Nat
  BY <1>2, ResultFacts DEF QueryInv, num_rows
<1>5. TypeOK'
  <2>1. connected' \in BOOLEAN
    BY <1>1 DEF QueryInv, Types, DatabaseTypeOK, TypeOK
  <2>2. row_position' \in 0 .. (num_rows' + 1) /\ data_cursor' \in 0 .. num_rows' /\ row' \in 0 .. num_rows'
    <3>1. \A n \in Nat : 0 \in 0 .. n + 1 /\ 0 \in 0 .. n
      OBVIOUS
    <3>2. 0 \in 0 .. num_rows' + 1 /\ 0 \in 0 .. num_rows'
      BY <3>1, <1>4
    <3> QED
      BY <3>2, <1>2
  <2> QED
    BY <1>2, <1>3, <1>4, <2>1, <2>2 DEF TypeOK
<1>6. IsSequence(data') /\ Len(data') = 0 /\ DOMAIN data' = {}
  BY <1>1 DEF IsSequence
<1>7. Types'
  BY <1>1, <1>5, <1>6, ServerSame DEF QueryInv, Types, DatabaseTypeOK
<1>8. SchemaRead'
  <2>1. phase = "columns" => stored' = ColumnRowsOf(schema)
    BY <1>2, ResultFacts DEF QueryInv
  <2> QED
    BY <1>1, <2>1, ServerSame DEF QueryInv, SchemaRead, Types
<1>9. InStep'
  BY <1>1, <1>2, <1>4 DEF InStep
<1> QED
  BY <1>1, <1>2, <1>6, <1>7, <1>8, <1>9 DEF QueryInv, EntryRead, RowsKept

\* The while condition.
LEMMA NextKeepsQuery ==
  ASSUME QueryInv, NextRow PROVE QueryInv'
<1>1. /\ rpc = "next" /\ next /\ entry' = <<>>
      /\ todo' = Reading
      /\ rpc' = CASE ret' = "true" -> "cells" [] ret' = "false" -> "read" [] OTHER -> "aborted"
      /\ UNCHANGED <<phase, columns, data>> /\ Idle
  BY DEF NextRow, Reading
<1>2. TypeOK /\ TypeOK' /\ stored' = stored /\ num_rows' = num_rows
  <2>1. RSNext /\ TypeOK
    BY <1>1 DEF RSNext, QueryInv, Types, DatabaseTypeOK
  <2> QED
    BY <2>1, TypeStep, SameRows DEF num_rows
<1>3. /\ num_rows \in Nat /\ row_position \in 0 .. num_rows /\ data_cursor = row_position
  BY <1>1, <1>2 DEF QueryInv, InStep, TypeOK, num_rows
<1>4. ASSUME NextNull PROVE FALSE
  BY <1>3, <1>4 DEF NextNull
<1>5. \/ /\ ret' = "true" /\ rpc' = "cells"
         /\ row_position' = row_position + 1 /\ data_cursor' = row_position + 1 /\ row' = row_position + 1
         /\ row_position < num_rows
      \/ ret' = "false" /\ rpc' = "read" /\ row_position = num_rows
  <2>1. CASE NextFetch
    BY <1>1, <1>3, <2>1 DEF NextFetch, Answer
  <2>2. CASE NextEnd
    BY <1>1, <1>3, <2>2 DEF NextEnd, Answer
  <2> QED
    BY <1>1, <1>4, <2>1, <2>2 DEF next
<1>6. Reading \in Seq(Column) /\ Reading' = Reading
  BY <1>1, ReadingFacts DEF QueryInv, Reading
<1>7. Types'
  BY <1>1, <1>2, <1>5, <1>6, ServerSame DEF QueryInv, Types, DatabaseTypeOK
<1>8. InStep'
  BY <1>2, <1>3, <1>5 DEF InStep
<1>9. SchemaRead'
  BY <1>1, <1>2, <1>5, ServerSame DEF QueryInv, SchemaRead
<1>10. EntryRead'
  <2>1. DOMAIN entry' = {}
    BY <1>1
  <2> QED
    BY <1>1, <1>6, <2>1 DEF EntryRead
<1>11. RowsKept'
  <2>1. /\ Len(data) = row_position
        /\ \A j \in DOMAIN data :
             /\ DOMAIN data[j] = Names(Reading)
             /\ \A c \in Names(Reading) : data[j][c] = CellOf(stored[j][c], c)
    BY <1>1 DEF QueryInv, RowsKept
  <2>2. Len(data') = IF rpc' = "cells" THEN row_position' - 1
                     ELSE IF rpc' = "next" THEN row_position' ELSE num_rows'
    BY <1>1, <1>2, <1>3, <1>5, <2>1
  <2> QED
    BY <1>1, <1>2, <1>6, <2>1, <2>2 DEF RowsKept
<1> QED
  BY <1>7, <1>8, <1>9, <1>10, <1>11 DEF QueryInv

\* The column read next.
LEMMA HeadColumn ==
  ASSUME QueryInv, rpc = "cells", todo # <<>>
  PROVE  LET c == Head(todo)
         IN  /\ todo \in Seq(Column) /\ Tail(todo) \in Seq(Column)
             /\ c.name \in IntColumns \cup TextColumns
             /\ c.type = "int" <=> c.name \in IntColumns
             /\ c.type # "int" => c.name \in TextColumns
             /\ Names(todo) = {c.name} \cup Names(Tail(todo))
             /\ \A k \in DOMAIN Tail(todo) : \E j \in DOMAIN Reading : Tail(todo)[k] = Reading[j]
<1>1. /\ todo \in Seq(Column) /\ Tail(todo) \in Seq(Column) /\ Head(todo) = todo[1]
      /\ Len(todo) \in Nat /\ Len(todo) > 0 /\ DOMAIN todo = 1 .. Len(todo)
      /\ DOMAIN Tail(todo) = 1 .. Len(todo) - 1
      /\ \A k \in 1 .. Len(todo) - 1 : Tail(todo)[k] = todo[k + 1]
  <2>1. todo \in Seq(Column)
    BY DEF QueryInv, Types, DatabaseTypeOK
  <2> QED
    BY <2>1
<1>2. \A k \in DOMAIN todo : \E j \in DOMAIN Reading : todo[k] = Reading[j]
  BY DEF QueryInv, EntryRead
<1>3. PICK j \in DOMAIN Reading : Head(todo) = Reading[j]
  BY <1>1, <1>2
<1>4. Names(todo) = {Head(todo).name} \cup Names(Tail(todo))
  <2>1. ASSUME NEW n \in Names(todo) PROVE n = todo[1].name \/ n \in Names(Tail(todo))
    <3>1. PICK k \in 1 .. Len(todo) : n = todo[k].name
      BY <1>1 DEF Names
    <3>2. CASE k = 1
      BY <3>1, <3>2
    <3>3. CASE k # 1
      <4>1. k - 1 \in 1 .. Len(todo) - 1 /\ (k - 1) + 1 = k
        BY <3>1, <3>3, <1>1
      <4>2. Tail(todo)[k - 1] = todo[k]
        BY <4>1, <1>1
      <4> QED
        BY <4>1, <4>2, <3>1, <1>1 DEF Names
    <3> QED
      BY <3>2, <3>3
  <2>2. ASSUME NEW n \in Names(Tail(todo)) PROVE n \in Names(todo)
    <3>1. PICK k \in 1 .. Len(todo) - 1 : n = Tail(todo)[k].name
      BY <1>1 DEF Names
    <3>2. k + 1 \in DOMAIN todo /\ n = todo[k + 1].name
      BY <3>1, <1>1
    <3> QED
      BY <3>2 DEF Names
  <2>3. todo[1].name \in Names(todo)
    BY <1>1 DEF Names
  <2> QED
    BY <2>1, <2>2, <2>3, <1>1
<1>5. \A k \in DOMAIN Tail(todo) : \E m \in DOMAIN Reading : Tail(todo)[k] = Reading[m]
  BY <1>1, <1>2
<1> QED
  BY <1>1, <1>3, <1>4, <1>5, ReadingFacts DEF QueryInv

\* A getter in step returns what the program holds of the cell, or throws.
LEMMA CellFacts ==
  ASSUME QueryInv, Cell
  PROVE  LET c == Head(todo)
         IN  /\ RSNext
             /\ UNCHANGED <<stored, row_position, data_cursor, row>>
             /\ ret' = "value" => got'.value = CellOf(stored[row_position][c.name], c.name)
<1> DEFINE c == Head(todo)
<1>1. rpc = "cells" /\ todo # <<>> /\ IF c.type = "int" THEN getInt(c.name) ELSE getString(c.name)
  BY DEF Cell
<1>2. /\ c.type = "int" <=> c.name \in IntColumns
      /\ c.type # "int" => c.name \in TextColumns
  BY <1>1, HeadColumn
<1>3. row = row_position /\ row # 0
  BY <1>1 DEF QueryInv, InStep, Types, DatabaseTypeOK, TypeOK
<1> HIDE DEF c
<1>4. CASE c.type = "int"
  <2>1. getInt(c.name) /\ c.name \in IntColumns
    BY <1>1, <1>2, <1>4
  <2>2. UNCHANGED <<stored, row_position, data_cursor, row>>
    BY <2>1 DEF getInt, GetterThrows, NullRow, Got
  <2>3. ASSUME ret' = "value" PROVE got'.value = CellOf(stored[row_position][c.name], c.name)
    <3>1. /\ was_null' = (stored[row][c.name] = Null)
          /\ Got(c.name, "int", IF was_null' THEN 0 ELSE Narrowed(stored[row][c.name]))
      BY <2>1, <2>3 DEF getInt, GetterThrows, NullRow
    <3>2. got'.value = IF stored[row][c.name] = Null THEN 0 ELSE Narrowed(stored[row][c.name])
      BY <3>1 DEF Got
    <3> QED
      BY <3>2, <2>1, <1>3 DEF CellOf
  <2>4. RSNext
    BY <2>1 DEF RSNext
  <2> QED
    BY <2>2, <2>3, <2>4 DEF c
<1>5. CASE c.type # "int"
  <2>1. getString(c.name) /\ c.name \in TextColumns /\ c.name \notin IntColumns
    BY <1>1, <1>2, <1>5
  <2>2. UNCHANGED <<stored, row_position, data_cursor, row>>
    BY <2>1 DEF getString, GetterThrows, Got
  <2>3. ASSUME ret' = "value" PROVE got'.value = CellOf(stored[row_position][c.name], c.name)
    <3>1. /\ was_null' = (row = 0 \/ stored[row][c.name] = Null)
          /\ Got(c.name, "text", IF was_null' THEN EmptyText ELSE stored[row][c.name])
      BY <2>1, <2>3 DEF getString, GetterThrows
    <3>2. got'.value = IF stored[row][c.name] = Null THEN EmptyText ELSE stored[row][c.name]
      BY <3>1, <1>3 DEF Got
    <3> QED
      BY <3>2, <2>1, <1>3 DEF CellOf
  <2>4. RSNext
    BY <2>1 DEF RSNext
  <2> QED
    BY <2>2, <2>3, <2>4 DEF c
<1> QED
  BY <1>4, <1>5

\* A getter.
LEMMA CellKeepsQuery ==
  ASSUME QueryInv, Cell PROVE QueryInv'
<1> DEFINE c == Head(todo)
<1>1. /\ rpc = "cells" /\ todo # <<>> /\ todo' = Tail(todo)
      /\ rpc' = (IF ret' = "value" THEN "cells" ELSE "aborted")
      /\ entry' = (IF ret' = "value" THEN WithCell(entry, c.name, got'.value) ELSE entry)
      /\ UNCHANGED <<phase, columns, data>> /\ Idle
  BY DEF Cell
<1>2. /\ RSNext /\ UNCHANGED <<stored, row_position, data_cursor, row>>
      /\ ret' = "value" => got'.value = CellOf(stored[row_position][c.name], c.name)
  BY CellFacts
<1>3. /\ Tail(todo) \in Seq(Column) /\ Names(todo) = {c.name} \cup Names(Tail(todo))
      /\ \A k \in DOMAIN Tail(todo) : \E j \in DOMAIN Reading : Tail(todo)[k] = Reading[j]
  BY <1>1, HeadColumn
<1> HIDE DEF c
<1>4. TypeOK' /\ num_rows' = num_rows
  BY <1>2, TypeStep DEF QueryInv, Types, DatabaseTypeOK, num_rows
<1>5. Reading' = Reading
  BY <1>1 DEF Reading
<1>6. Types'
  BY <1>1, <1>3, <1>4, ServerSame DEF QueryInv, Types, DatabaseTypeOK
<1>7. InStep'
  BY <1>1, <1>2, <1>4 DEF QueryInv, InStep
<1>8. SchemaRead'
  BY <1>1, <1>2, ServerSame DEF QueryInv, SchemaRead
<1>9. EntryRead'
  <2>1. SUFFICES ASSUME rpc' = "cells" PROVE EntryRead'
    BY DEF EntryRead
  <2>2. ret' = "value"
    BY <1>1, <2>1
  <2>3. entry' = WithCell(entry, c.name, got'.value) /\ got'.value = CellOf(stored[row_position][c.name], c.name)
    BY <1>1, <1>2, <2>2
  <2>4. /\ DOMAIN entry \cup Names(todo) = Names(Reading)
        /\ \A x \in DOMAIN entry : entry[x] = CellOf(stored[row_position][x], x)
    BY <1>1 DEF QueryInv, EntryRead
  <2>5. /\ DOMAIN entry' = DOMAIN entry \cup {c.name}
        /\ entry'[c.name] = got'.value
        /\ \A x \in DOMAIN entry : x # c.name => entry'[x] = entry[x]
    BY <2>3 DEF WithCell
  <2>6. DOMAIN entry' \cup Names(todo') = Names(Reading)
    BY <1>1, <1>3, <2>4, <2>5
  <2>7. \A x \in DOMAIN entry' : entry'[x] = CellOf(stored[row_position][x], x)
    BY <2>3, <2>4, <2>5
  <2>8. \A k \in DOMAIN todo' : \E j \in DOMAIN Reading : todo'[k] = Reading[j]
    BY <1>1, <1>3
  <2> QED
    BY <1>2, <1>5, <2>6, <2>7, <2>8 DEF EntryRead
<1>10. RowsKept'
  BY <1>1, <1>2, <1>4, <1>5 DEF QueryInv, RowsKept
<1> QED
  BY <1>6, <1>7, <1>8, <1>9, <1>10 DEF QueryInv

\* push_back
LEMMA PushKeepsQuery ==
  ASSUME QueryInv, PushBack PROVE QueryInv'
<1>1. /\ rpc = "cells" /\ todo = <<>> /\ data' = Append(data, entry) /\ rpc' = "next"
      /\ UNCHANGED <<phase, columns, todo, entry>> /\ UNCHANGED rsvars /\ Idle
  BY DEF PushBack
<1>2. UNCHANGED <<stored, row_position, data_cursor, row>> /\ num_rows' = num_rows
  BY <1>1 DEF rsvars, num_rows
<1>3. TypeOK'
  BY <1>1, TypeStep DEF QueryInv, Types, DatabaseTypeOK
<1>4. Reading' = Reading
  BY <1>1 DEF Reading
<1>5. /\ IsSequence(data') /\ Len(data) \in Nat /\ Len(data') = Len(data) + 1
      /\ DOMAIN data = 1 .. Len(data) /\ DOMAIN data' = 1 .. Len(data) + 1
      /\ data'[Len(data) + 1] = entry
      /\ \A j \in 1 .. Len(data) : data'[j] = data[j]
  BY <1>1, OneMore DEF QueryInv, Types
<1>6. Types'
  BY <1>1, <1>3, <1>5, ServerSame DEF QueryInv, Types, DatabaseTypeOK
<1>7. InStep'
  BY <1>1, <1>2 DEF QueryInv, InStep
<1>8. SchemaRead'
  BY <1>1, <1>2, ServerSame DEF QueryInv, SchemaRead
<1>9. RowsKept'
  <2>1. /\ Len(data) = row_position - 1
        /\ \A j \in DOMAIN data :
             /\ DOMAIN data[j] = Names(Reading)
             /\ \A c \in Names(Reading) : data[j][c] = CellOf(stored[j][c], c)
    BY <1>1 DEF QueryInv, RowsKept
  <2>2. row_position \in Nat
    BY DEF QueryInv, Types, DatabaseTypeOK, TypeOK
  <2>3. Len(data') = row_position
    BY <1>5, <2>1, <2>2
  <2>4. DOMAIN entry = Names(Reading) /\ \A c \in DOMAIN entry : entry[c] = CellOf(stored[row_position][c], c)
    <3>1. Names(todo) = {}
      BY <1>1 DEF Names
    <3> QED
      BY <1>1, <3>1 DEF QueryInv, EntryRead
  <2>5. Len(data) + 1 = row_position
    BY <2>1, <2>2
  <2>6. ASSUME NEW j \in DOMAIN data'
        PROVE  /\ DOMAIN data'[j] = Names(Reading)
               /\ \A c \in Names(Reading) : data'[j][c] = CellOf(stored[j][c], c)
    <3>1. CASE j = Len(data) + 1
      BY <3>1, <1>5, <2>4, <2>5
    <3>2. CASE j # Len(data) + 1
      <4>1. j \in 1 .. Len(data)
        BY <3>2, <1>5
      <4> QED
        BY <4>1, <1>5, <2>1
    <3> QED
      BY <3>1, <3>2
  <2> QED
    BY <1>1, <1>2, <1>4, <2>3, <2>6 DEF RowsKept
<1> QED
  BY <1>1, <1>6, <1>7, <1>8, <1>9 DEF QueryInv, EntryRead

\* The columns made from the rows of COLUMNS are the schema those rows describe.
LEMMA ColumnsBack ==
  ASSUME QueryInv, phase = "columns", rpc = "read",
         NEW s \in Schemas, stored = ColumnRowsOf(s)
  PROVE  [j \in DOMAIN data |-> [name |-> data[j].COLUMN_NAME, type |-> data[j].DATA_TYPE]] = s
<1>1. /\ Len(data) = num_rows
      /\ \A j \in DOMAIN data :
           /\ DOMAIN data[j] = Names(Reading)
           /\ \A c \in Names(Reading) : data[j][c] = CellOf(stored[j][c], c)
  BY DEF QueryInv, RowsKept
<1>2. Names(Reading) = {"COLUMN_NAME", "DATA_TYPE"}
  BY MetaFacts DEF Reading
<1>3. s \in Seq(Column) /\ Len(s) \in Nat /\ DOMAIN s = 1 .. Len(s) /\ \A j \in DOMAIN s : s[j] \in Column
  BY SchemaColumns
<1>4. DOMAIN stored = DOMAIN s /\ \A j \in DOMAIN s : stored[j] = [COLUMN_NAME |-> s[j].name, DATA_TYPE |-> s[j].type]
  BY DEF ColumnRowsOf
<1>5. num_rows = Len(s)
  <2>1. stored \in Seq(Rows)
    BY DEF QueryInv, Types, DatabaseTypeOK, TypeOK
  <2>2. DOMAIN stored = 1 .. Len(stored) /\ Len(stored) \in Nat
    BY <2>1
  <2>3. Len(stored) = Len(s)
    <3> DEFINE m == Len(stored)
               n == Len(s)
    <3>1. m \in Nat /\ n \in Nat /\ 1 .. m = 1 .. n
      BY <2>2, <1>3, <1>4
    <3> HIDE DEF m, n
    <3>2. ~(m < n)
      <4>1. n > 0 => n \in 1 .. n
        BY <3>1
      <4> QED
        BY <3>1, <4>1
    <3>3. ~(n < m)
      <4>1. m > 0 => m \in 1 .. m
        BY <3>1
      <4> QED
        BY <3>1, <4>1
    <3> QED
      BY <3>1, <3>2, <3>3 DEF m, n
  <2> QED
    BY <2>3 DEF num_rows
<1>6. DOMAIN data = DOMAIN s
  <2>1. DOMAIN data = 1 .. Len(data)
    BY OneMore DEF QueryInv, Types
  <2> QED
    BY <2>1, <1>1, <1>3, <1>5
<1>7. ASSUME NEW j \in DOMAIN s
      PROVE  [name |-> data[j].COLUMN_NAME, type |-> data[j].DATA_TYPE] = s[j]
  <2>1. data[j].COLUMN_NAME = CellOf(stored[j].COLUMN_NAME, "COLUMN_NAME")
        /\ data[j].DATA_TYPE = CellOf(stored[j].DATA_TYPE, "DATA_TYPE")
    BY <1>1, <1>2, <1>6
  <2>2. stored[j].COLUMN_NAME = s[j].name /\ stored[j].DATA_TYPE = s[j].type
    BY <1>4
  <2>3. s[j].name # Null /\ s[j].type # Null /\ "COLUMN_NAME" \notin IntColumns /\ "DATA_TYPE" \notin IntColumns
    BY SchemaAssumption
  <2>4. data[j].COLUMN_NAME = s[j].name /\ data[j].DATA_TYPE = s[j].type
    BY <2>1, <2>2, <2>3 DEF CellOf
  <2>5. s[j] = [name |-> s[j].name, type |-> s[j].type]
    BY <1>3 DEF Column
  <2> QED
    BY <2>4, <2>5
<1> QED
  BY <1>3, <1>6, <1>7

\* getColumns returns.
LEMMA ColumnsReadKeepsQuery ==
  ASSUME QueryInv, ColumnsRead PROVE QueryInv'
<1>1. /\ phase = "columns" /\ rpc = "read" /\ phase' = "rows" /\ rpc' = "connect"
      /\ columns' = [j \in DOMAIN data |-> [name |-> data[j].COLUMN_NAME, type |-> data[j].DATA_TYPE]]
      /\ UNCHANGED <<todo, entry, data, stored, row_position, data_cursor, row>>
      /\ UNCHANGED <<last_queried_column, was_null, call, ret>> /\ Idle
  BY DEF ColumnsRead
<1>2. connected' \in BOOLEAN /\ is_open' \in BOOLEAN
  BY Zenon DEF ColumnsRead
<1>3. TypeOK'
  BY <1>1, <1>2 DEF QueryInv, Types, DatabaseTypeOK, TypeOK, num_rows
<1>4. Types'
  BY <1>1, <1>3, ServerSame DEF QueryInv, Types, DatabaseTypeOK
<1>5. PICK s \in Schemas : stored = ColumnRowsOf(s) /\ (alters = 0 => s = schema)
  BY <1>1 DEF QueryInv, SchemaRead
<1>6. columns' = s
  BY <1>1, <1>5, ColumnsBack
<1>7. SchemaRead'
  BY <1>1, <1>5, <1>6, ServerSame DEF QueryInv, SchemaRead
<1> QED
  BY <1>1, <1>4, <1>7 DEF QueryInv, InStep, EntryRead, RowsKept

\* All rows are read.
LEMMA RowsReadKeepsQuery ==
  ASSUME QueryInv, RowsRead PROVE QueryInv'
<1>1. /\ phase = "rows" /\ rpc = "read" /\ rpc' = "done"
      /\ UNCHANGED <<phase, columns, todo, entry, data, stored, row_position, data_cursor, row>>
      /\ UNCHANGED <<connected, last_queried_column, was_null, call, ret>> /\ Idle
  BY DEF RowsRead
<1>2. is_open' \in BOOLEAN
  BY Zenon DEF RowsRead
<1>3. TypeOK' /\ num_rows' = num_rows
  BY <1>1, <1>2 DEF QueryInv, Types, DatabaseTypeOK, TypeOK, num_rows
<1>4. Types'
  BY <1>1, <1>3, ServerSame DEF QueryInv, Types, DatabaseTypeOK
<1>5. SchemaRead'
  BY <1>1, ServerSame DEF QueryInv, SchemaRead
<1>6. Reading' = Reading
  BY <1>1 DEF Reading
<1>7. RowsKept'
  BY <1>1, <1>3, <1>6 DEF QueryInv, RowsKept
<1> QED
  BY <1>1, <1>4, <1>5, <1>7 DEF QueryInv, InStep, EntryRead

\* Every step keeps the invariant.
LEMMA QueryStep == QueryInv /\ [Next]_vars => QueryInv'
<1> SUFFICES ASSUME QueryInv, [Next]_vars PROVE QueryInv'
  OBVIOUS
<1>1. CASE Read
  BY <1>1, ConnectKeepsQuery, ThrowKeepsQuery, FetchKeepsQuery, NextKeepsQuery, CellKeepsQuery,
     PushKeepsQuery, ColumnsReadKeepsQuery, RowsReadKeepsQuery DEF Read
<1>2. CASE \E g \in Generators : Generate(g)
  BY <1>2, GenerateKeepsQuery
<1>3. CASE AlterTable
  BY <1>3, AlterKeepsQuery
<1>4. CASE UNCHANGED vars
  <2>1. UNCHANGED readvars /\ UNCHANGED rsvars /\ UNCHANGED servervars /\ UNCHANGED genvars
    BY <1>4 DEF vars
  <2>2. UNCHANGED <<table, schema, alters, gpc>>
    BY <2>1 DEF servervars, genvars
  <2>3. /\ table \in Seq(Rows) /\ \A j \in DOMAIN table : DOMAIN table[j] = Names(schema)
        /\ schema \in Schemas /\ alters \in Nat
        /\ gpc \in [Generators -> {"idle", "inserting", "done", "aborted"}]
    BY DEF QueryInv, Types, DatabaseTypeOK
  <2> QED
    BY <2>1, <2>2, <2>3, OthersStep
<1> QED
  BY <1>1, <1>2, <1>3, <1>4 DEF Next

\* The types of the table, of the query and of the result set behind it, however
\* inserts and ALTER TABLE interleave with the reads.
THEOREM DatabaseTypeCorrect == Spec => []DatabaseTypeOK
<1>1. QueryInv => DatabaseTypeOK
  BY DEF QueryInv, Types
<1> QED
  BY <1>1, QueryInit, QueryStep, PTL DEF Spec

\* The program is generated for the columns of one schema, in its order, also
\* when the table is altered while getColumns reads them.
THEOREM OneSchema == Spec => []ColumnsOfOneSchema
<1>1. QueryInv => ColumnsOfOneSchema
  BY DEF QueryInv, SchemaRead, ColumnsOfOneSchema
<1> QED
  BY <1>1, QueryInit, QueryStep, PTL DEF Spec

\* The rows the generated program keeps are the rows of the result, each once,
\* with every column it declares and the value each getter makes of the cell.
THEOREM RowsOnce == Spec => []EachRowOnce
<1>1. QueryInv => EachRowOnce
  <2> SUFFICES ASSUME QueryInv, phase = "rows", rpc \in {"next", "cells", "read", "done"}
               PROVE  EachRowOnce
    BY DEF EachRowOnce
  <2>1. Reading = columns
    BY DEF Reading
  <2> QED
    BY <2>1 DEF QueryInv, RowsKept, EachRowOnce, CellOf
<1> QED
  BY <1>1, QueryInit, QueryStep, PTL DEF Spec

(***************************************************************************)
(* Concurrent inserts                                                      *)
(***************************************************************************)

\* Every step keeps what is stored a prefix of what WHERE selects.
LEMMA MomentStep == QueryInv /\ OneMomentOfTheTable /\ [Next]_vars => OneMomentOfTheTable'
<1> SUFFICES ASSUME QueryInv, OneMomentOfTheTable, [Next]_vars,
                    (phase = "rows")', is_open', (alters = 0)'
             PROVE  IsPrefix(stored, Selected)'
  BY DEF OneMomentOfTheTable
<1>0. /\ table \in Seq(Rows) /\ alters \in Nat /\ stored \in Seq(Rows) /\ Selected \in Seq(Rows)
  BY ResultFacts DEF QueryInv, Types, DatabaseTypeOK, TypeOK
<1>1. ASSUME UNCHANGED <<table, alters, stored, is_open, phase>> PROVE IsPrefix(stored, Selected)'
  <2>1. Selected' = Selected
    BY <1>1 DEF Selected
  <2> QED
    BY <1>1, <2>1 DEF OneMomentOfTheTable
<1>2. CASE Fetch
  <2>1. phase = "rows" /\ stored' = Selected /\ table' = table
    BY <1>2 DEF Fetch, Constructed, Idle, servervars
  <2>2. Selected' = Selected
    BY <2>1 DEF Selected
  <2> QED
    BY <2>1, <2>2, <1>0, PrefixSelf
<1>3. CASE ColumnsRead \/ RowsRead
  <2>1. is_open' = FALSE
    BY <1>3, Zenon DEF ColumnsRead, RowsRead
  <2> QED
    BY <2>1
<1>4. CASE Connect \/ ReaderThrows \/ NextRow \/ PushBack
  <2>1. UNCHANGED <<table, alters, stored, is_open, phase>>
    BY <1>4 DEF Connect, ReaderThrows, NextRow, PushBack, next, NextFetch, NextNull, NextEnd,
      Unread, Idle, servervars, rsvars
  <2> QED
    BY <2>1, <1>1
<1>5. CASE Cell
  <2>1. UNCHANGED <<table, alters, phase>>
    BY <1>5 DEF Cell, Idle, servervars
  <2>2. UNCHANGED <<stored, is_open>>
    BY <1>5 DEF Cell, getInt, getString, GetterThrows, NullRow, Got
  <2> QED
    BY <2>1, <2>2, <1>1
<1>6. ASSUME NEW g \in Generators, Insert(g) \/ InsertLost(g) PROVE IsPrefix(stored, Selected)'
  <2>1. UNCHANGED <<alters, stored, is_open, phase>> /\ ServerInserts(g)
    BY <1>6 DEF Insert, InsertLost, readvars, rsvars
  <2>2. IsPrefix(stored, Selected)
    BY <2>1 DEF OneMomentOfTheTable
  <2>3. PICK r \in Rows : table' = Append(table, r)
    BY <2>1, InsertsFacts DEF QueryInv
  <2>4. Selected' = Selected \/ Selected' = Append(Selected, r)
    BY <2>3, <1>0, SelectedAppend DEF Selected
  <2>5. IsPrefix(stored, Selected')
    BY <2>2, <2>4, <1>0, PrefixAppend
  <2> QED
    BY <2>1, <2>5
<1>7. ASSUME NEW g \in Generators, GenerateStart(g) \/ GenerateThrows(g) \/ GenerateEnd(g)
      PROVE  IsPrefix(stored, Selected)'
  <2>1. UNCHANGED <<table, alters, stored, is_open, phase>>
    BY <1>7 DEF GenerateStart, GenerateThrows, GenerateEnd, servervars, readvars, rsvars
  <2> QED
    BY <2>1, <1>1
<1>8. CASE AlterTable
  <2>1. alters' = alters + 1
    BY <1>8 DEF AlterTable
  <2> QED
    BY <2>1, <1>0
<1>9. CASE UNCHANGED vars
  <2>1. UNCHANGED <<table, alters, stored, is_open, phase>>
    BY <1>9 DEF vars, servervars, readvars, rsvars
  <2> QED
    BY <2>1, <1>1
<1> QED
  BY <1>2, <1>3, <1>4, <1>5, <1>6, <1>7, <1>8, <1>9 DEF Next, Read, Generate

\* What a query reads is the table as it was at one moment: rows that any number
\* of generators insert meanwhile appear behind it and nowhere else.
THEOREM OneMoment == Spec => []OneMomentOfTheTable
<1>1. Init => OneMomentOfTheTable
  <2>1. Init => phase # "rows"
    BY DEF Init
  <2> QED
    BY <2>1 DEF OneMomentOfTheTable
<1>2. QueryInv /\ OneMomentOfTheTable /\ [Next]_vars => (QueryInv /\ OneMomentOfTheTable)'
  BY QueryStep, MomentStep
<1> QED
  BY <1>1, <1>2, QueryInit, PTL DEF Spec

(***************************************************************************)
(* Counting the rows                                                       *)
(***************************************************************************)

\* The larger of 0 and n.
LEMMA MaxZero ==
  ASSUME NEW n \in Int PROVE Max({0, n}) = IF n < 0 THEN 0 ELSE n
<1> DEFINE m == IF n < 0 THEN 0 ELSE n
<1>1. m \in {0, n} /\ \A y \in {0, n} : m >= y
  OBVIOUS
<1>2. \A x \in {0, n} : (\A y \in {0, n} : x >= y) => x = m
  OBVIOUS
<1> QED
  BY <1>1, <1>2 DEF Max

\* Where a generator is in its loop and how many rows it has added.
Counted(g) ==
  /\ gpc[g] = "idle" => i[g] = 0
  /\ gpc[g] # "aborted" => inserted[g] = i[g]
  /\ i[g] <= inserted[g] /\ inserted[g] <= i[g] + 1
  /\ gpc[g] = "inserting" => i[g] = 0 \/ i[g] <= entries[g]
  /\ gpc[g] = "done" => inserted[g] = Max({0, entries[g]})

\* All generators, and the table.
Counts ==
  /\ i \in [Generators -> Nat] /\ inserted \in [Generators -> Nat]
  /\ entries \in [Generators -> Int]
  /\ \A g \in Generators : Counted(g)
  /\ Len(table) = Total(inserted)

\* Initially.
LEMMA CountsInit == Init => Counts
<1> SUFFICES ASSUME Init PROVE Counts
  OBVIOUS
<1>1. /\ i \in [Generators -> Nat] /\ inserted \in [Generators -> Nat] /\ entries \in [Generators -> Int]
      /\ \A g \in Generators : i[g] = 0 /\ inserted[g] = 0 /\ gpc[g] = "idle"
  BY DEF Init
<1>2. Total(inserted) = 0
  BY <1>1, TotalZero
<1>3. Len(table) = 0
  BY DEF Init
<1>4. \A g \in Generators : Counted(g)
  BY <1>1 DEF Counted
<1> QED
  BY <1>1, <1>2, <1>3, <1>4 DEF Counts

\* A step of one generator that leaves the others alone.
LEMMA OneCounts ==
  ASSUME Counts, NEW g \in Generators, NEW p \in {"inserting", "done", "aborted"},
         NEW n \in Int, NEW a \in Nat, NEW b \in Nat,
         gpc \in [Generators -> {"idle", "inserting", "done", "aborted"}],
         gpc' = [gpc EXCEPT ![g] = p], entries' = [entries EXCEPT ![g] = n],
         i' = [i EXCEPT ![g] = a], inserted' = [inserted EXCEPT ![g] = b],
         p # "aborted" => b = a, a <= b, b <= a + 1,
         p = "inserting" => a = 0 \/ a <= n,
         p = "done" => b = Max({0, n}),
         Len(table') = Total(inserted')
  PROVE  Counts'
<1>1. /\ i' \in [Generators -> Nat] /\ inserted' \in [Generators -> Nat] /\ entries' \in [Generators -> Int]
  BY DEF Counts
<1>2. ASSUME NEW h \in Generators PROVE Counted(h)'
  <2>1. CASE h = g
    <3>1. gpc'[h] = p /\ entries'[h] = n /\ i'[h] = a /\ inserted'[h] = b
      BY <2>1 DEF Counts
    <3> QED
      BY <3>1 DEF Counted
  <2>2. CASE h # g
    <3>1. gpc'[h] = gpc[h] /\ entries'[h] = entries[h] /\ i'[h] = i[h] /\ inserted'[h] = inserted[h]
      BY <2>2 DEF Counts
    <3>2. Counted(h)
      BY DEF Counts
    <3> QED
      BY <3>1, <3>2 DEF Counted
  <2> QED
    BY <2>1, <2>2
<1> QED
  BY <1>1, <1>2 DEF Counts

\* A row more in the table.
LEMMA OneRowMore ==
  ASSUME Types, Counts, NEW g \in Generators, ServerInserts(g)
  PROVE  /\ inserted' = [inserted EXCEPT ![g] = inserted[g] + 1]
         /\ Len(table') = Total(inserted')
<1>1. inserted' = [inserted EXCEPT ![g] = @ + 1]
  BY DEF ServerInserts
<1>2. PICK r \in Rows : table' = Append(table, r)
  BY InsertsFacts
<1>3. Len(table') = Len(table) + 1
  BY <1>2, AppendProperties DEF Types
<1>4. Total([inserted EXCEPT ![g] = @ + 1]) = Total(inserted) + 1
  BY TotalPlusOne DEF Counts
<1> QED
  BY <1>1, <1>3, <1>4 DEF Counts

\* Every step of a generator.
LEMMA GenerateCounts ==
  ASSUME Types, Counts, NEW g \in Generators, Generate(g) PROVE Counts'
<1>1. /\ gpc \in [Generators -> {"idle", "inserting", "done", "aborted"}]
      /\ i \in [Generators -> Nat] /\ inserted \in [Generators -> Nat] /\ entries \in [Generators -> Int]
      /\ i[g] \in Nat /\ inserted[g] \in Nat /\ entries[g] \in Int
      /\ i = [i EXCEPT ![g] = i[g]] /\ inserted = [inserted EXCEPT ![g] = inserted[g]]
      /\ entries = [entries EXCEPT ![g] = entries[g]] /\ gpc = [gpc EXCEPT ![g] = gpc[g]]
      /\ Len(table) = Total(inserted)
  BY DEF Types, DatabaseTypeOK, Counts
<1>2. /\ gpc[g] = "idle" => i[g] = 0
      /\ gpc[g] # "aborted" => inserted[g] = i[g]
      /\ i[g] <= inserted[g] /\ inserted[g] <= i[g] + 1
      /\ gpc[g] = "inserting" => i[g] = 0 \/ i[g] <= entries[g]
  BY DEF Counts, Counted
<1>3. CASE GenerateStart(g)
  <2>1. PICK n \in EntryCounts : entries' = [entries EXCEPT ![g] = n]
    BY <1>3 DEF GenerateStart
  <2>2. /\ n \in Int /\ gpc[g] = "idle" /\ gpc' = [gpc EXCEPT ![g] = "inserting"]
        /\ UNCHANGED <<i, inserted, table>>
    BY <1>3, GeneratorAssumption DEF GenerateStart, servervars
  <2>3. i[g] = 0 /\ inserted[g] = 0
    BY <1>2, <2>2
  <2>4. i' = [i EXCEPT ![g] = 0] /\ inserted' = [inserted EXCEPT ![g] = 0] /\ Len(table') = Total(inserted')
    BY <1>1, <2>2, <2>3
  <2>5. 0 \in Nat /\ 0 <= 0 /\ 0 <= 0 + 1 /\ "inserting" \in {"inserting", "done", "aborted"}
    OBVIOUS
  <2> QED
    BY <1>1, <2>1, <2>2, <2>4, <2>5, OneCounts
<1>4. CASE Insert(g)
  <2>1. /\ gpc[g] = "inserting" /\ i[g] < entries[g] /\ ServerInserts(g)
        /\ i' = [i EXCEPT ![g] = i[g] + 1] /\ gpc' = gpc /\ entries' = entries
    BY <1>4 DEF Insert
  <2>2. inserted' = [inserted EXCEPT ![g] = inserted[g] + 1] /\ Len(table') = Total(inserted')
    BY <2>1, OneRowMore
  <2>3. inserted[g] + 1 = i[g] + 1 /\ i[g] + 1 <= entries[g] /\ i[g] + 1 \in Nat
    BY <1>1, <1>2, <2>1
  <2>4. gpc' = [gpc EXCEPT ![g] = "inserting"] /\ entries' = [entries EXCEPT ![g] = entries[g]]
    BY <1>1, <2>1
  <2> DEFINE a == i[g] + 1
  <2>5. a \in Nat /\ a <= a /\ a <= a + 1 /\ a <= entries[g]
    BY <1>1, <2>3
  <2>7. i' = [i EXCEPT ![g] = a] /\ inserted' = [inserted EXCEPT ![g] = a]
    <3>1. inserted[g] + 1 = a
      BY <2>3
    <3> QED
      BY <2>1, <2>2, <3>1, Zenon
  <2>6. "inserting" \in {"inserting", "done", "aborted"}
    OBVIOUS
  <2> HIDE DEF a
  <2> QED
    BY <1>1, <2>2, <2>4, <2>5, <2>6, <2>7, OneCounts
<1>5. CASE InsertLost(g)
  <2>1. /\ gpc[g] = "inserting" /\ ServerInserts(g)
        /\ gpc' = [gpc EXCEPT ![g] = "aborted"] /\ i' = i /\ entries' = entries
    BY <1>5 DEF InsertLost
  <2>2. inserted' = [inserted EXCEPT ![g] = inserted[g] + 1] /\ Len(table') = Total(inserted')
    BY <2>1, OneRowMore
  <2>3. inserted[g] + 1 = i[g] + 1 /\ i[g] <= inserted[g] + 1 /\ inserted[g] + 1 <= i[g] + 1 /\ inserted[g] + 1 \in Nat
    BY <1>1, <1>2, <2>1
  <2>4. i' = [i EXCEPT ![g] = i[g]] /\ entries' = [entries EXCEPT ![g] = entries[g]]
    BY <1>1, <2>1
  <2> DEFINE a == i[g]
             b == inserted[g] + 1
  <2>5. /\ a \in Nat /\ b \in Nat /\ a <= b /\ b <= a + 1
        /\ i' = [i EXCEPT ![g] = a] /\ inserted' = [inserted EXCEPT ![g] = b]
    BY <1>1, <2>2, <2>3, <2>4
  <2>6. "aborted" \in {"inserting", "done", "aborted"}
    OBVIOUS
  <2> HIDE DEF a, b
  <2> QED
    BY <1>1, <2>1, <2>2, <2>4, <2>5, <2>6, OneCounts
<1>6. CASE GenerateThrows(g)
  <2>1. gpc' = [gpc EXCEPT ![g] = "aborted"] /\ UNCHANGED <<i, inserted, entries, table>>
    BY <1>6 DEF GenerateThrows, servervars
  <2> QED
    BY <1>1, <1>2, <2>1, OneCounts
<1>7. CASE GenerateEnd(g)
  <2>1. /\ gpc[g] = "inserting" /\ i[g] >= entries[g]
        /\ gpc' = [gpc EXCEPT ![g] = "done"] /\ UNCHANGED <<i, inserted, entries, table>>
    BY <1>7 DEF GenerateEnd, servervars
  <2>2. inserted[g] = i[g] /\ (i[g] = 0 \/ i[g] = entries[g])
    BY <1>1, <1>2, <2>1
  <2>3. i[g] = IF entries[g] < 0 THEN 0 ELSE entries[g]
    BY <1>1, <2>1, <2>2
  <2>4. inserted[g] = Max({0, entries[g]})
    BY <1>1, <2>2, <2>3, MaxZero
  <2> QED
    BY <1>1, <1>2, <2>1, <2>2, <2>4, OneCounts
<1> QED
  BY <1>3, <1>4, <1>5, <1>6, <1>7 DEF Generate

\* Every step.
LEMMA CountsStep == QueryInv /\ Counts /\ [Next]_vars => Counts'
<1> SUFFICES ASSUME QueryInv, Counts, [Next]_vars PROVE Counts'
  OBVIOUS
<1>1. ASSUME UNCHANGED <<i, inserted, entries, gpc>>, Len(table') = Len(table) PROVE Counts'
  <2>1. \A g \in Generators : Counted(g)'
    BY <1>1 DEF Counts, Counted
  <2> QED
    BY <1>1, <2>1 DEF Counts
<1>2. CASE Read
  <2>1. Idle
    BY <1>2 DEF Read, Connect, ReaderThrows, Fetch, NextRow, Cell, PushBack, ColumnsRead, RowsRead
  <2> QED
    BY <2>1, <1>1 DEF Idle, genvars, servervars
<1>3. CASE \E g \in Generators : Generate(g)
  BY <1>3, GenerateCounts DEF QueryInv
<1>4. CASE AlterTable
  <2>1. UNCHANGED <<i, inserted, entries, gpc>> /\ table' = [j \in DOMAIN table |-> Fitted(table[j], schema')]
    BY <1>4 DEF AlterTable, genvars
  <2>2. table \in Seq(Rows)
    BY DEF QueryInv, Types
  <2>3. Len(table') = Len(table)
    <3>1. DOMAIN table = 1 .. Len(table) /\ Len(table) \in Nat
      BY <2>2
    <3> QED
      BY <2>1, <3>1
  <2> QED
    BY <2>1, <2>3, <1>1
<1>5. CASE UNCHANGED vars
  BY <1>5, <1>1 DEF vars, genvars, servervars
<1> QED
  BY <1>2, <1>3, <1>4, <1>5 DEF Next

\* Every row of the table was added by one generator's INSERT: without failures
\* as many as asked for, after a failure at most one more than it counted.
THEOREM AccountedFor == Spec => []EntriesAccountedFor
<1>1. QueryInv /\ Counts => EntriesAccountedFor
  <2> SUFFICES ASSUME QueryInv, Counts PROVE EntriesAccountedFor
    OBVIOUS
  <2>1. Len(table) = FoldSet(LAMBDA g, n : inserted[g] + n, 0, Generators)
    BY DEF Counts, Total
  <2>2. ASSUME NEW g \in Generators
        PROVE  /\ inserted[g] \in i[g] .. i[g] + (IF gpc[g] = "aborted" THEN 1 ELSE 0)
               /\ gpc[g] = "done" => inserted[g] = Max({0, entries[g]})
    <3>1. i[g] \in Nat /\ inserted[g] \in Nat /\ Counted(g)
      BY DEF Counts
    <3> QED
      BY <3>1 DEF Counted
  <2> QED
    BY <2>1, <2>2 DEF EntriesAccountedFor
<1>2. QueryInv /\ Counts /\ [Next]_vars => (QueryInv /\ Counts)'
  BY QueryStep, CountsStep
<1> QED
  BY <1>1, <1>2, QueryInit, CountsInit, PTL DEF Spec
=============================================================================
