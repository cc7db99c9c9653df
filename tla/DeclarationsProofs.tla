------------------------- MODULE DeclarationsProofs -------------------------
(***************************************************************************)
(* Proofs about the declarations of the generated program, for every       *)
(* table, every query and every way names may contain each other.          *)
(***************************************************************************)
EXTENDS Declarations, Induction, SequenceTheorems, TLAPS

-----------------------------------------------------------------------------
(***************************************************************************)
(* What Chosen keeps.                                                      *)
(***************************************************************************)
\* The recursive function inside Chosen.
UpTo(s, these) ==
  CHOOSE f : f = [n \in 0 .. Len(s) |->
    IF n = 0 THEN <<>>
    ELSE IF s[n] \in these THEN Append(f[n - 1], s[n]) ELSE f[n - 1]]

\* Chosen is its last value.
LEMMA ChosenIsLast ==
  ASSUME NEW s, NEW these
  PROVE  Chosen(s, these) = UpTo(s, these)[Len(s)]
BY DEF Chosen, UpTo

\* It is defined for every sequence, and by its recursion.
LEMMA UpToExists ==
  ASSUME NEW T, NEW s \in Seq(T), NEW these
  PROVE  /\ UpTo(s, these) \in [0 .. Len(s) -> Seq(T)]
         /\ \A n \in 0 .. Len(s) :
              UpTo(s, these)[n] =
                IF n = 0 THEN <<>>
                ELSE IF s[n] \in these THEN Append(UpTo(s, these)[n - 1], s[n])
                ELSE UpTo(s, these)[n - 1]
<1> DEFINE I == 0 .. Len(s)
           D == Seq(T)
           B == Len(s) + 1
           mu == [n \in I |-> n]
           body(n, f) == IF n = 0 THEN <<>>
                         ELSE IF s[n] \in these THEN Append(f[n - 1], s[n]) ELSE f[n - 1]
           step == [p \in I \X [I -> D] |-> body(p[1], p[2])]
<1>0. Len(s) \in Nat /\ \A n \in I : n # 0 => s[n] \in T
  OBVIOUS
<1>1. D # {}
  <2>1. <<>> \in D
    OBVIOUS
  <2> HIDE DEF D
  <2> QED
    BY <2>1
<1>2. B \in Nat /\ mu \in [I -> Nat] /\ \A n \in I : mu[n] < B
  BY <1>0
<1>3. ASSUME NEW n \in I, n # 0 PROVE n - 1 \in I /\ mu[n - 1] < mu[n]
  BY <1>0, <1>3
<1>4. ASSUME NEW n \in I, NEW f, \A j \in I : mu[j] < mu[n] => f[j] \in D
      PROVE  body(n, f) \in D
  <2>1. CASE n = 0
    BY <2>1
  <2>2. CASE n # 0
    <3>1. f[n - 1] \in D /\ s[n] \in T
      BY <2>2, <1>0, <1>3, <1>4
    <3>2. Append(f[n - 1], s[n]) \in D
      BY <3>1, AppendProperties
    <3> QED
      BY <2>2, <3>1, <3>2
  <2> QED
    BY <2>1, <2>2
<1>5. ASSUME NEW n \in I, NEW f, NEW g, \A j \in I : mu[j] < mu[n] => f[j] = g[j]
      PROVE  body(n, f) = body(n, g)
  <2>1. CASE n = 0
    BY <2>1
  <2>2. CASE n # 0
    <3>1. f[n - 1] = g[n - 1]
      BY <2>2, <1>3, <1>5
    <3> QED
      BY <3>1
  <2> QED
    BY <2>1, <2>2
<1> HIDE DEF D, B, mu, I, body
<1>6. \A n \in I, f \in [I -> D] : step[<<n, f>>] = body(n, f)
  OBVIOUS
<1>7. step \in [I \X [I -> D] -> D]
  <2>1. \A p \in I \X [I -> D] : p[1] \in I /\ p[2] \in [I -> D]
    OBVIOUS
  <2>2. \A p \in I \X [I -> D] : body(p[1], p[2]) \in D
    BY <2>1, <1>4
  <2> QED
    BY <2>2
<1> HIDE DEF step
<1>8. \A n \in I : \A f, g \in [I -> D] :
        (\A j \in I : mu[j] < mu[n] => f[j] = g[j]) => step[<<n, f>>] = step[<<n, g>>]
  BY <1>5, <1>6
<1>9. IsRecursion(I, D, mu, B, step)
  BY <1>1, <1>2, <1>7, <1>8, Zenon DEF IsRecursion
<1>10. PICK f \in [I -> D] : \A n \in I : f[n] = step[<<n, f>>]
  BY <1>9, RecursiveFunction
<1>11. f = [n \in I |-> body(n, f)]
  BY <1>10, <1>6
<1> DEFINE F == UpTo(s, these)
<1>12. F = [n \in I |-> body(n, F)]
  BY <1>11 DEF UpTo, body, I
<1> HIDE DEF F
<1> DEFINE S == {n \in I : F[n] \in D}
<1>13. \A n \in I : (\A j \in I : mu[j] < mu[n] => j \in S) => n \in S
  BY <1>12, <1>4
<1>14. \A n \in I : n \in S
  <2> HIDE DEF S
  <2> QED
    BY <1>13, <1>2, MeasureInduction, Zenon
<1>15. F \in [I -> D]
  BY <1>12, <1>14
<1>16. \A n \in I : F[n] = body(n, F)
  BY <1>12
<1> QED
  BY <1>15, <1>16 DEF F, I, D, body

\* c has the elements of the first n of s that are in the set, each as often as
\* s has it.
KeptOf(s, these, n, c) ==
  /\ \A j \in 1 .. Len(c) : c[j] \in these /\ \E k \in 1 .. n : c[j] = s[k]
  /\ \A k \in 1 .. n : s[k] \in these => \E j \in 1 .. Len(c) : c[j] = s[k]
  /\ (\A j, k \in 1 .. Len(s) : s[j] = s[k] => j = k) =>
       \A j, k \in 1 .. Len(c) : c[j] = c[k] => j = k

\* Chosen keeps exactly the elements in the set, and repeats none that s does
\* not repeat.
LEMMA ChosenKeeps ==
  ASSUME NEW T, NEW s \in Seq(T), NEW these
  PROVE  Chosen(s, these) \in Seq(T) /\ KeptOf(s, these, Len(s), Chosen(s, these))
<1> DEFINE U == UpTo(s, these)
           N == Len(s)
           I == 0 .. N
           mu == [n \in I |-> n]
           S == {n \in I : U[n] \in Seq(T) /\ KeptOf(s, these, n, U[n])}
<1>1. N \in Nat /\ s \in Seq(T)
  OBVIOUS
<1>2. \A n \in I : U[n] = IF n = 0 THEN <<>>
                          ELSE IF s[n] \in these THEN Append(U[n - 1], s[n]) ELSE U[n - 1]
  BY UpToExists
<1> HIDE DEF U
<1>3. ASSUME NEW n \in I, \A j \in I : mu[j] < mu[n] => j \in S
      PROVE  n \in S
  <2>1. CASE n = 0
    <3>1. U[n] = <<>>
      BY <1>2, <2>1
    <3>2. U[n] \in Seq(T) /\ Len(U[n]) = 0
      BY <3>1
    <3>3. \A j \in 1 .. 0 : FALSE
      OBVIOUS
    <3>4. KeptOf(s, these, 0, U[n])
      BY <3>2, <3>3 DEF KeptOf
    <3> QED
      BY <2>1, <3>2, <3>4
  <2>2. CASE n # 0
    <3>1. n \in 1 .. N /\ n \in Nat /\ n - 1 \in I /\ mu[n - 1] < mu[n]
      BY <1>1, <2>2
    <3> DEFINE c == U[n - 1]
               e == s[n]
    <3>2. c \in Seq(T) /\ KeptOf(s, these, n - 1, c)
      BY <1>3, <3>1
    <3>3. U[n] = IF e \in these THEN Append(c, e) ELSE c
      BY <1>2, <2>2
    <3>4. e \in T /\ e = s[n]
      BY <1>1, <3>1
    <3> HIDE DEF c, e
    <3>5. CASE e \in these
      <4> DEFINE d == Append(c, e)
      <4>1. /\ d \in Seq(T) /\ Len(c) \in Nat /\ Len(d) = Len(c) + 1
            /\ \A j \in 1 .. Len(c) : d[j] = c[j]
            /\ d[Len(c) + 1] = e
        BY <3>2, <3>4
      <4> HIDE DEF d
      <4>2. \A j \in 1 .. Len(d) : j \in 1 .. Len(c) \/ j = Len(c) + 1
        BY <4>1
      <4>3. \A k \in 1 .. n : k \in 1 .. n - 1 \/ k = n
        BY <3>1
      <4>4. \A j \in 1 .. Len(d) : d[j] \in these /\ \E k \in 1 .. n : d[j] = s[k]
        <5>1. \A j \in 1 .. Len(c) : c[j] \in these /\ \E k \in 1 .. n - 1 : c[j] = s[k]
          BY <3>2 DEF KeptOf
        <5>2. \A k \in 1 .. n - 1 : k \in 1 .. n
          BY <3>1
        <5>3. n \in 1 .. n
          BY <3>1
        <5> QED
          BY <3>4, <3>5, <4>1, <4>2, <5>1, <5>2, <5>3
      <4>5. \A k \in 1 .. n : s[k] \in these => \E j \in 1 .. Len(d) : d[j] = s[k]
        BY <3>1, <3>2, <3>4, <4>1, <4>3 DEF KeptOf
      <4>6. ASSUME \A j, k \in 1 .. N : s[j] = s[k] => j = k,
                   NEW j \in 1 .. Len(d), NEW k \in 1 .. Len(d), d[j] = d[k]
            PROVE  j = k
        <5>1. \A a, b \in 1 .. Len(c) : c[a] = c[b] => a = b
          BY <3>2, <4>6 DEF KeptOf
        <5>2. \A a \in 1 .. Len(c) : c[a] # e
          <6>1. ASSUME NEW a \in 1 .. Len(c), c[a] = e PROVE FALSE
            <7>1. PICK b \in 1 .. n - 1 : c[a] = s[b]
              BY <3>2 DEF KeptOf
            <7>2. b \in 1 .. N /\ b # n
              BY <1>1, <3>1
            <7> QED
              BY <3>1, <3>4, <4>6, <6>1, <7>1, <7>2
          <6> QED
            BY <6>1
        <5> QED
          BY <4>1, <4>2, <4>6, <5>1, <5>2
      <4>7. KeptOf(s, these, n, d)
        BY <4>4, <4>5, <4>6 DEF KeptOf
      <4> QED
        BY <3>3, <3>5, <4>1, <4>7 DEF d
    <3>6. CASE e \notin these
      <4>1. \A k \in 1 .. n : k \in 1 .. n - 1 \/ k = n
        BY <3>1
      <4>2. \A j \in 1 .. Len(c) : c[j] \in these /\ \E k \in 1 .. n : c[j] = s[k]
        <5>1. \A j \in 1 .. Len(c) : c[j] \in these /\ \E k \in 1 .. n - 1 : c[j] = s[k]
          BY <3>2 DEF KeptOf
        <5>2. \A k \in 1 .. n - 1 : k \in 1 .. n
          BY <3>1
        <5> QED
          BY <5>1, <5>2
      <4>3. \A k \in 1 .. n : s[k] \in these => \E j \in 1 .. Len(c) : c[j] = s[k]
        <5>1. \A k \in 1 .. n - 1 : s[k] \in these => \E j \in 1 .. Len(c) : c[j] = s[k]
          BY <3>2 DEF KeptOf
        <5> QED
          BY <3>4, <3>6, <4>1, <5>1
      <4>4. KeptOf(s, these, n, c)
        BY <3>2, <4>2, <4>3 DEF KeptOf
      <4> QED
        BY <3>2, <3>3, <3>6, <4>4
    <3> QED
      BY <3>5, <3>6
  <2> QED
    BY <2>1, <2>2
<1>4. mu \in [I -> Nat]
  BY <1>1
<1>5. \A n \in I : n \in S
  <2> HIDE DEF S, mu, I
  <2> QED
    BY <1>3, <1>4, MeasureInduction, Zenon
<1>6. N \in I
  BY <1>1
<1> QED
  BY <1>5, <1>6, ChosenIsLast DEF U

-----------------------------------------------------------------------------
(***************************************************************************)
(* What the loops have built.                                              *)
(***************************************************************************)
\* s is a sequence of n elements.
Length(s, n) == s = [k \in 1 .. n |-> s[k]]

\* A sequence is one of its length.
LEMMA LengthOfSeq ==
  ASSUME NEW T, NEW s \in Seq(T)
  PROVE  Length(s, Len(s)) /\ Len(s) \in Nat /\ DOMAIN s = 1 .. Len(s)
BY DEF Length

\* t is s with one element more, its n-th.
OneMore(t, s, e, n) ==
  /\ Length(t, n) /\ Len(s) = n - 1
  /\ DOMAIN s = 1 .. n - 1 /\ DOMAIN t = 1 .. n
  /\ t[n] = e /\ \A k \in 1 .. n - 1 : t[k] = s[k]

\* Append adds one element.
LEMMA Longer ==
  ASSUME NEW n \in Nat, NEW s, NEW e, Length(s, n)
  PROVE  OneMore(Append(s, e), s, e, n + 1)
<1> DEFINE T == {s[k] : k \in 1 .. n} \cup {e}
           t == Append(s, e)
<1>1. s \in Seq(T) /\ Len(s) = n /\ DOMAIN s = 1 .. n
  <2> DEFINE u == [k \in 1 .. n |-> s[k]]
  <2>1. u \in Seq(T) /\ Len(u) = n /\ DOMAIN u = 1 .. n
    OBVIOUS
  <2>2. s = u
    BY DEF Length
  <2> HIDE DEF u, T
  <2> QED
    BY <2>1, <2>2
<1>2. e \in T
  OBVIOUS
<1> HIDE DEF T
<1>3. /\ t \in Seq(T) /\ Len(t) = n + 1 /\ t[n + 1] = e
      /\ \A k \in 1 .. n : t[k] = s[k]
  BY <1>1, <1>2
<1> HIDE DEF t
<1>4. DOMAIN t = 1 .. n + 1 /\ t = [k \in 1 .. n + 1 |-> t[k]]
  BY <1>3
<1> QED
  BY <1>1, <1>3, <1>4 DEF Length, OneMore, t

\* How long it is.
LEMMA LengthIs ==
  ASSUME NEW n \in Nat, NEW s, Length(s, n)
  PROVE  Len(s) = n /\ DOMAIN s = 1 .. n
<1> DEFINE u == [k \in 1 .. n |-> s[k]]
<1>1. Len(u) = n /\ DOMAIN u = 1 .. n
  OBVIOUS
<1>2. s = u
  BY DEF Length
<1> HIDE DEF u
<1> QED
  BY <1>1, <1>2

\* The empty sequence.
LEMMA Emptiness == Length(<<>>, 0) /\ \A s : Length(s, 0) => DOMAIN s = {}
BY DEF Length

\* The control points after each loop.
AfterCt      == {"helpers", "generated", "thrown", "compiled", "refused"}
AfterGroups  == {"ct"} \cup AfterCt
AfterSales   == {"groups"} \cup AfterGroups
AfterMf      == {"sales"} \cup AfterSales
AfterColumns == {"mf_structure"} \cup AfterMf

\* A loop fills s one element an iteration; it is empty before the loop and has
\* all its elements after it.
Filled(s, loop, after, bound) ==
  /\ pc = loop => i \in 1 .. bound + 1 /\ Length(s, i - 1)
  /\ pc \in after => Length(s, bound)
  /\ pc \notin {loop} \cup after => Length(s, 0)

\* The inductive invariant: where each loop is, and what each element is made
\* of.
Lengths ==
  /\ Filled(columns, "columns", AfterColumns, Len(schema))
  /\ Filled(mf_structure, "mf_structure", AfterMf, Len(query.s))
  /\ Filled(sales, "sales", AfterSales, Len(schema))
  /\ Filled(groups, "groups", AfterGroups, query.n + 1)
  /\ Filled(ct, "ct", AfterCt, Len(query.v))

Inputs ==
  /\ schema \in Schemas /\ query \in Queries
  /\ pc \in {"columns"} \cup AfterColumns /\ i \in Nat \ {0}

Elements ==
  /\ \A k \in DOMAIN columns : columns[k] = Column(schema[k].name, schema[k].data_type)
  /\ \A k \in DOMAIN mf_structure : mf_structure[k] = Selected(query.s[k])
  /\ \A k \in DOMAIN sales :
       sales[k] = [name |-> MemberName(columns[k].name), type |-> getOutCppType(columns[k].type)]
  /\ \A g \in DOMAIN groups : groups[g] = GroupFields(g - 1)
  /\ \A k \in DOMAIN ct : ct[k].name = query.v[k] /\ ct[k].type \in CtTypes(query.v[k])

Verdicts ==
  /\ pc = "thrown" => Throws
  /\ pc \in {"generated", "compiled", "refused"} => ~Throws
  /\ pc = "compiled" => WellTyped
  /\ pc = "refused" => ~WellTyped

Built == Inputs /\ Lengths /\ Elements /\ Verdicts

\* The loops' bounds are numbers.
LEMMA Bounds ==
  ASSUME Inputs
  PROVE  Len(schema) \in Nat /\ Len(query.s) \in Nat /\ query.n + 1 \in Nat /\ Len(query.v) \in Nat
BY InputsAssumption DEF Inputs

\* Types looked up in the same columns are the same.
LEMMA SameLookups ==
  ASSUME columns' = columns, query' = query
  PROVE  /\ \A a : Selected(a)' = Selected(a)
         /\ \A a : CtTypes(a)' = CtTypes(a)
         /\ \A g : GroupFields(g)' = GroupFields(g)
<1>1. \A a : Selected(a)' = Selected(a)
  BY DEF Selected, FirstType
<1>2. \A a : CtTypes(a)' = CtTypes(a)
  BY DEF CtTypes
<1>3. \A g : GroupFields(g)' = GroupFields(g)
  BY DEF GroupFields, MapSeq, GroupColumn, GroupAggregate, FirstType, select_columns
<1> QED
  BY <1>1, <1>2, <1>3

\* Nor does g++ change its mind.
LEMMA SameVerdicts ==
  ASSUME UNCHANGED <<query, columns, mf_structure, sales, groups, ct>>
  PROVE  Throws' = Throws /\ WellTyped' = WellTyped
<1>1. Throws' = Throws
  BY DEF Throws
<1>2. WellTyped' = WellTyped
  BY DEF WellTyped, RowsLoad, ColumnsCopied, GroupsFound, Updates, AggregateFilled,
         select_columns, select_aggregates
<1> QED
  BY <1>1, <1>2

\* final starts with nothing built.
LEMMA InitBuilt == Init => Built
<1> SUFFICES ASSUME Init PROVE Built
  OBVIOUS
<1> USE DEF AfterColumns, AfterMf, AfterSales, AfterGroups, AfterCt
<1>1. Inputs
  BY DEF Init, Inputs
<1>2. 1 \in 1 .. Len(schema) + 1
  BY <1>1, Bounds
<1>3. Lengths
  BY <1>2, Emptiness DEF Init, Lengths, Filled
<1>4. Elements
  BY DEF Init, Elements
<1>5. Verdicts
  BY DEF Init, Verdicts
<1> QED
  BY <1>1, <1>3, <1>4, <1>5 DEF Built

\* The j-th iteration of a loop appends the j-th element.
LEMMA Iterates ==
  ASSUME NEW s, NEW e, NEW j \in Nat \ {0}, Length(s, j - 1)
  PROVE  OneMore(Append(s, e), s, e, j)
<1> DEFINE n == j - 1
<1>1. n \in Nat /\ n + 1 = j /\ Length(s, n)
  OBVIOUS
<1> HIDE DEF n
<1>2. OneMore(Append(s, e), s, e, n + 1)
  BY <1>1, Longer
<1> QED
  BY <1>1, <1>2

\* Every iteration, every end of a loop and the verdicts keep the invariant.
LEMMA NextBuilt == Built /\ [Next]_vars => Built'
<1> SUFFICES ASSUME Built, [Next]_vars PROVE Built'
  OBVIOUS
<1> USE DEF AfterColumns, AfterMf, AfterSales, AfterGroups, AfterCt
<1>0. /\ Inputs /\ Lengths /\ Elements /\ Verdicts
      /\ Len(schema) \in Nat /\ Len(query.s) \in Nat /\ query.n + 1 \in Nat /\ Len(query.v) \in Nat
  BY Bounds DEF Built
<1>1. CASE GetColumn
  <2> DEFINE e == Column(schema[i].name, schema[i].data_type)
  <2>1. /\ pc = "columns" /\ pc' = "columns" /\ i <= Len(schema) /\ i' = i + 1
        /\ columns' = Append(columns, e) /\ UNCHANGED <<schema, query, mf_structure, sales, groups, ct>>
    BY <1>1 DEF GetColumn
  <2> HIDE DEF e
  <2>2. i \in 1 .. Len(schema) + 1 /\ Length(columns, i - 1)
    BY <1>0, <2>1 DEF Lengths, Filled
  <2>3. /\ i' \in 1 .. Len(schema) + 1 /\ Length(columns', i' - 1) /\ i' \in Nat \ {0}
        /\ DOMAIN columns = 1 .. i - 1 /\ DOMAIN columns' = 1 .. i
        /\ columns'[i] = e /\ \A m \in 1 .. i - 1 : columns'[m] = columns[m]
    <3>1. Len(schema) \in Nat /\ i <= Len(schema) /\ i' = i + 1 /\ columns' = Append(columns, e)
      BY <1>0, <2>1
    <3>2. i \in Nat \ {0} /\ i' - 1 = i /\ i' \in 1 .. Len(schema) + 1 /\ i' \in Nat \ {0}
      BY <2>2, <3>1
    <3>3. OneMore(Append(columns, e), columns, e, i)
      BY ONLY <2>2, <3>2, Iterates
    <3> QED
      BY ONLY <3>1, <3>2, <3>3 DEF OneMore
  <2>4. Inputs'
    BY <1>0, <2>1, <2>3 DEF Inputs
  <2>5. Lengths'
    BY <1>0, <2>1, <2>3 DEF Lengths, Filled
  <2>6. \A m \in 1 .. i : m \in 1 .. i - 1 \/ m = i
    BY <2>2
  <2>7. DOMAIN mf_structure' = {} /\ DOMAIN sales' = {} /\ DOMAIN groups' = {} /\ DOMAIN ct' = {}
    BY <1>0, <2>1, Emptiness DEF Lengths, Filled
  <2>8. \A m \in 1 .. i : columns'[m] = Column(schema[m].name, schema[m].data_type)
    BY <1>0, <2>3, <2>6 DEF Elements, e
  <2>9. Elements'
    BY <2>1, <2>3, <2>7, <2>8 DEF Elements
  <2>10. Verdicts'
    BY <2>1 DEF Verdicts
  <2> QED
    BY <2>4, <2>5, <2>9, <2>10 DEF Built
<1>2. CASE MfField
  <2> DEFINE e == Selected(query.s[i])
  <2>1. /\ pc = "mf_structure" /\ pc' = "mf_structure" /\ i <= Len(query.s) /\ i' = i + 1
        /\ mf_structure' = Append(mf_structure, e) /\ UNCHANGED <<schema, query, columns, sales, groups, ct>>
    BY <1>2 DEF MfField
  <2> HIDE DEF e
  <2>2. i \in 1 .. Len(query.s) + 1 /\ Length(mf_structure, i - 1)
    BY <1>0, <2>1 DEF Lengths, Filled
  <2>3. /\ i' \in 1 .. Len(query.s) + 1 /\ Length(mf_structure', i' - 1) /\ i' \in Nat \ {0}
        /\ DOMAIN mf_structure = 1 .. i - 1 /\ DOMAIN mf_structure' = 1 .. i
        /\ mf_structure'[i] = e /\ \A m \in 1 .. i - 1 : mf_structure'[m] = mf_structure[m]
    <3>1. Len(query.s) \in Nat /\ i <= Len(query.s) /\ i' = i + 1 /\ mf_structure' = Append(mf_structure, e)
      BY <1>0, <2>1
    <3>2. i \in Nat \ {0} /\ i' - 1 = i /\ i' \in 1 .. Len(query.s) + 1 /\ i' \in Nat \ {0}
      BY <2>2, <3>1
    <3>3. OneMore(Append(mf_structure, e), mf_structure, e, i)
      BY ONLY <2>2, <3>2, Iterates
    <3> QED
      BY ONLY <3>1, <3>2, <3>3 DEF OneMore
  <2>4. Inputs'
    BY <1>0, <2>1, <2>3 DEF Inputs
  <2>5. Lengths'
    BY <1>0, <2>1, <2>3 DEF Lengths, Filled
  <2>6. \A m \in 1 .. i : m \in 1 .. i - 1 \/ m = i
    BY <2>2
  <2>8. \A m \in 1 .. i : mf_structure'[m] = Selected(query.s[m])
    BY <1>0, <2>3, <2>6 DEF Elements, e
  <2>7. /\ \A a : Selected(a)' = Selected(a)
        /\ \A a : CtTypes(a)' = CtTypes(a)
        /\ \A g : GroupFields(g)' = GroupFields(g)
    BY <2>1, SameLookups
  <2>9. Elements'
    BY <1>0, <2>1, <2>3, <2>7, <2>8 DEF Elements
  <2>10. Verdicts'
    BY <2>1 DEF Verdicts
  <2> QED
    BY <2>4, <2>5, <2>9, <2>10 DEF Built
<1>3. CASE SalesField
  <2> DEFINE e == [name |-> MemberName(columns[i].name), type |-> getOutCppType(columns[i].type)]
  <2>0. Len(columns) = Len(schema)
    BY <1>0, <1>3, LengthIs DEF SalesField, Lengths, Filled
  <2>1. /\ pc = "sales" /\ pc' = "sales" /\ i <= Len(schema) /\ i' = i + 1
        /\ sales' = Append(sales, e) /\ UNCHANGED <<schema, query, columns, mf_structure, groups, ct>>
    BY <1>3, <2>0 DEF SalesField
  <2> HIDE DEF e
  <2>2. i \in 1 .. Len(schema) + 1 /\ Length(sales, i - 1)
    BY <1>0, <2>1 DEF Lengths, Filled
  <2>3. /\ i' \in 1 .. Len(schema) + 1 /\ Length(sales', i' - 1) /\ i' \in Nat \ {0}
        /\ DOMAIN sales = 1 .. i - 1 /\ DOMAIN sales' = 1 .. i
        /\ sales'[i] = e /\ \A m \in 1 .. i - 1 : sales'[m] = sales[m]
    <3>1. Len(schema) \in Nat /\ i <= Len(schema) /\ i' = i + 1 /\ sales' = Append(sales, e)
      BY <1>0, <2>1
    <3>2. i \in Nat \ {0} /\ i' - 1 = i /\ i' \in 1 .. Len(schema) + 1 /\ i' \in Nat \ {0}
      BY <2>2, <3>1
    <3>3. OneMore(Append(sales, e), sales, e, i)
      BY ONLY <2>2, <3>2, Iterates
    <3> QED
      BY ONLY <3>1, <3>2, <3>3 DEF OneMore
  <2>4. Inputs'
    BY <1>0, <2>1, <2>3 DEF Inputs
  <2>5. Lengths'
    BY <1>0, <2>1, <2>3 DEF Lengths, Filled
  <2>6. \A m \in 1 .. i : m \in 1 .. i - 1 \/ m = i
    BY <2>2
  <2>8. \A m \in 1 .. i : sales'[m] = [name |-> MemberName(columns[m].name), type |-> getOutCppType(columns[m].type)]
    BY <1>0, <2>3, <2>6 DEF Elements, e
  <2>7. /\ \A a : Selected(a)' = Selected(a)
        /\ \A a : CtTypes(a)' = CtTypes(a)
        /\ \A g : GroupFields(g)' = GroupFields(g)
    BY <2>1, SameLookups
  <2>9. Elements'
    BY <1>0, <2>1, <2>3, <2>7, <2>8 DEF Elements
  <2>10. Verdicts'
    BY <2>1 DEF Verdicts
  <2> QED
    BY <2>4, <2>5, <2>9, <2>10 DEF Built
<1>4. CASE GroupStruct
  <2> DEFINE e == GroupFields(i - 1)
  <2>1. /\ pc = "groups" /\ pc' = "groups" /\ i <= query.n + 1 /\ i' = i + 1
        /\ groups' = Append(groups, e) /\ UNCHANGED <<schema, query, columns, mf_structure, sales, ct>>
    BY <1>4 DEF GroupStruct
  <2> HIDE DEF e
  <2>2. i \in 1 .. (query.n + 1) + 1 /\ Length(groups, i - 1)
    BY <1>0, <2>1 DEF Lengths, Filled
  <2>3. /\ i' \in 1 .. (query.n + 1) + 1 /\ Length(groups', i' - 1) /\ i' \in Nat \ {0}
        /\ DOMAIN groups = 1 .. i - 1 /\ DOMAIN groups' = 1 .. i
        /\ groups'[i] = e /\ \A m \in 1 .. i - 1 : groups'[m] = groups[m]
    <3>1. query.n + 1 \in Nat /\ i <= query.n + 1 /\ i' = i + 1 /\ groups' = Append(groups, e)
      BY <1>0, <2>1
    <3>2. i \in Nat \ {0} /\ i' - 1 = i /\ i' \in 1 .. (query.n + 1) + 1 /\ i' \in Nat \ {0}
      BY <2>2, <3>1
    <3>3. OneMore(Append(groups, e), groups, e, i)
      BY ONLY <2>2, <3>2, Iterates
    <3> QED
      BY ONLY <3>1, <3>2, <3>3 DEF OneMore
  <2>4. Inputs'
    BY <1>0, <2>1, <2>3 DEF Inputs
  <2>5. Lengths'
    BY <1>0, <2>1, <2>3 DEF Lengths, Filled
  <2>6. \A m \in 1 .. i : m \in 1 .. i - 1 \/ m = i
    BY <2>2
  <2>8. \A m \in 1 .. i : groups'[m] = GroupFields(m - 1)
    BY <1>0, <2>3, <2>6 DEF Elements, e
  <2>7. /\ \A a : Selected(a)' = Selected(a)
        /\ \A a : CtTypes(a)' = CtTypes(a)
        /\ \A g : GroupFields(g)' = GroupFields(g)
    BY <2>1, SameLookups
  <2>9. Elements'
    BY <1>0, <2>1, <2>3, <2>7, <2>8 DEF Elements
  <2>10. Verdicts'
    BY <2>1 DEF Verdicts
  <2> QED
    BY <2>4, <2>5, <2>9, <2>10 DEF Built
<1>5. CASE CtEntry
  <2>1. /\ pc = "ct" /\ pc' = "ct" /\ i <= Len(query.v) /\ i' = i + 1
        /\ UNCHANGED <<schema, query, columns, mf_structure, sales, groups>>
    BY <1>5 DEF CtEntry
  <2>2. PICK type \in CtTypes(query.v[i]) : ct' = Append(ct, [name |-> query.v[i], type |-> type])
    BY <1>5 DEF CtEntry
  <2> DEFINE e == [name |-> query.v[i], type |-> type]
  <2>3. e.name = query.v[i] /\ e.type \in CtTypes(query.v[i]) /\ ct' = Append(ct, e)
    BY <2>2
  <2> HIDE DEF e
  <2>4. i \in 1 .. Len(query.v) + 1 /\ Length(ct, i - 1)
    BY <1>0, <2>1 DEF Lengths, Filled
  <2>5. /\ i' \in 1 .. Len(query.v) + 1 /\ Length(ct', i' - 1) /\ i' \in Nat \ {0}
        /\ DOMAIN ct = 1 .. i - 1 /\ DOMAIN ct' = 1 .. i
        /\ ct'[i] = e /\ \A m \in 1 .. i - 1 : ct'[m] = ct[m]
    <3>1. Len(query.v) \in Nat /\ i <= Len(query.v) /\ i' = i + 1 /\ ct' = Append(ct, e)
      BY <1>0, <2>1, <2>3
    <3>2. i \in Nat \ {0} /\ i' - 1 = i /\ i' \in 1 .. Len(query.v) + 1 /\ i' \in Nat \ {0}
      BY <2>4, <3>1
    <3>3. OneMore(Append(ct, e), ct, e, i)
      BY ONLY <2>4, <3>2, Iterates
    <3> QED
      BY ONLY <3>1, <3>2, <3>3 DEF OneMore
  <2>6. Inputs'
    BY <1>0, <2>1, <2>5 DEF Inputs
  <2>7. Lengths'
    BY <1>0, <2>1, <2>5 DEF Lengths, Filled
  <2>8. \A m \in 1 .. i : m \in 1 .. i - 1 \/ m = i
    BY <2>4
  <2>9. \A m \in 1 .. i : ct'[m].name = query.v[m] /\ ct'[m].type \in CtTypes(query.v[m])
    BY <1>0, <2>3, <2>5, <2>8 DEF Elements
  <2>10. Elements'
    BY <1>0, <2>1, <2>5, <2>9, SameLookups DEF Elements
  <2>11. Verdicts'
    BY <2>1 DEF Verdicts
  <2> QED
    BY <2>6, <2>7, <2>10, <2>11 DEF Built
<1>6. CASE ColumnsEnd
  <2>1. /\ pc = "columns" /\ pc' = "mf_structure" /\ i > Len(schema) /\ i' = 1
        /\ UNCHANGED <<schema, query, columns, mf_structure, sales, groups, ct>>
    BY <1>6 DEF ColumnsEnd, Goto
  <2>2. i \in 1 .. Len(schema) + 1
    BY <1>0, <2>1 DEF Lengths, Filled
  <2>3. i - 1 = Len(schema) /\ i' - 1 = 0 /\ \A b \in Nat : i' \in 1 .. b + 1
    BY <1>0, <2>1, <2>2
  <2>4. Lengths'
    BY <1>0, <2>1, <2>3 DEF Lengths, Filled
  <2>5. Inputs'
    BY <1>0, <2>1 DEF Inputs
  <2>6. Elements'
    BY <1>0, <2>1, SameLookups DEF Elements
  <2>7. Verdicts'
    BY <2>1 DEF Verdicts
  <2> QED
    BY <2>4, <2>5, <2>6, <2>7 DEF Built
<1>7. CASE MfEnd
  <2>1. /\ pc = "mf_structure" /\ pc' = "sales" /\ i > Len(query.s) /\ i' = 1
        /\ UNCHANGED <<schema, query, columns, mf_structure, sales, groups, ct>>
    BY <1>7 DEF MfEnd, Goto
  <2>2. i \in 1 .. Len(query.s) + 1
    BY <1>0, <2>1 DEF Lengths, Filled
  <2>3. i - 1 = Len(query.s) /\ i' - 1 = 0 /\ \A b \in Nat : i' \in 1 .. b + 1
    BY <1>0, <2>1, <2>2
  <2>4. Lengths'
    BY <1>0, <2>1, <2>3 DEF Lengths, Filled
  <2>5. Inputs'
    BY <1>0, <2>1 DEF Inputs
  <2>6. Elements'
    BY <1>0, <2>1, SameLookups DEF Elements
  <2>7. Verdicts'
    BY <2>1 DEF Verdicts
  <2> QED
    BY <2>4, <2>5, <2>6, <2>7 DEF Built
<1>8. CASE SalesEnd
  <2>0. Len(columns) = Len(schema)
    BY <1>0, <1>8, LengthIs DEF SalesEnd, Goto, Lengths, Filled
  <2>1. /\ pc = "sales" /\ pc' = "groups" /\ i > Len(schema) /\ i' = 1
        /\ UNCHANGED <<schema, query, columns, mf_structure, sales, groups, ct>>
    BY <1>8, <2>0 DEF SalesEnd, Goto
  <2>2. i \in 1 .. Len(schema) + 1
    BY <1>0, <2>1 DEF Lengths, Filled
  <2>3. i - 1 = Len(schema) /\ i' - 1 = 0 /\ \A b \in Nat : i' \in 1 .. b + 1
    BY <1>0, <2>1, <2>2
  <2>4. Lengths'
    BY <1>0, <2>1, <2>3 DEF Lengths, Filled
  <2>5. Inputs'
    BY <1>0, <2>1 DEF Inputs
  <2>6. Elements'
    BY <1>0, <2>1, SameLookups DEF Elements
  <2>7. Verdicts'
    BY <2>1 DEF Verdicts
  <2> QED
    BY <2>4, <2>5, <2>6, <2>7 DEF Built
<1>9. CASE GroupsEnd
  <2>1. /\ pc = "groups" /\ pc' = "ct" /\ i > query.n + 1 /\ i' = 1
        /\ UNCHANGED <<schema, query, columns, mf_structure, sales, groups, ct>>
    BY <1>9 DEF GroupsEnd, Goto
  <2>2. i \in 1 .. (query.n + 1) + 1
    BY <1>0, <2>1 DEF Lengths, Filled
  <2>3. i - 1 = query.n + 1 /\ i' - 1 = 0 /\ \A b \in Nat : i' \in 1 .. b + 1
    BY <1>0, <2>1, <2>2
  <2>4. Lengths'
    BY <1>0, <2>1, <2>3 DEF Lengths, Filled
  <2>5. Inputs'
    BY <1>0, <2>1 DEF Inputs
  <2>6. Elements'
    BY <1>0, <2>1, SameLookups DEF Elements
  <2>7. Verdicts'
    BY <2>1 DEF Verdicts
  <2> QED
    BY <2>4, <2>5, <2>6, <2>7 DEF Built
<1>10. CASE CtEnd
  <2>1. /\ pc = "ct" /\ pc' = "helpers" /\ i > Len(query.v) /\ i' = 1
        /\ UNCHANGED <<schema, query, columns, mf_structure, sales, groups, ct>>
    BY <1>10 DEF CtEnd, Goto
  <2>2. i \in 1 .. Len(query.v) + 1
    BY <1>0, <2>1 DEF Lengths, Filled
  <2>3. i - 1 = Len(query.v) /\ i' - 1 = 0 /\ \A b \in Nat : i' \in 1 .. b + 1
    BY <1>0, <2>1, <2>2
  <2>4. Lengths'
    BY <1>0, <2>1, <2>3 DEF Lengths, Filled
  <2>5. Inputs'
    BY <1>0, <2>1 DEF Inputs
  <2>6. Elements'
    BY <1>0, <2>1, SameLookups DEF Elements
  <2>7. Verdicts'
    BY <2>1 DEF Verdicts
  <2> QED
    BY <2>4, <2>5, <2>6, <2>7 DEF Built
<1>11. CASE Helpers \/ Compile
  <2>1. /\ pc \in {"helpers", "generated"} /\ pc' \in AfterCt \ {"helpers"}
        /\ UNCHANGED <<i, schema, query, columns, mf_structure, sales, groups, ct>>
    BY <1>11 DEF Helpers, Compile
  <2>2. Inputs'
    BY <1>0, <2>1 DEF Inputs
  <2>3. Lengths'
    BY <1>0, <2>1 DEF Lengths, Filled
  <2>4. Elements'
    BY <1>0, <2>1, SameLookups DEF Elements
  <2>5. Verdicts'
    <3>1. CASE Helpers
      BY <3>1, SameVerdicts DEF Helpers, Verdicts
    <3>2. CASE Compile
      BY <1>0, <3>2, SameVerdicts DEF Compile, Verdicts
    <3> QED
      BY <1>11, <3>1, <3>2
  <2> QED
    BY <2>2, <2>3, <2>4, <2>5 DEF Built
<1>12. CASE UNCHANGED vars
  <2>1. UNCHANGED <<pc, i, schema, query, columns, mf_structure, sales, groups, ct>>
    BY <1>12 DEF vars
  <2>2. Inputs' /\ Lengths'
    BY <1>0, <2>1 DEF Inputs, Lengths, Filled
  <2>3. Elements'
    BY <1>0, <2>1, SameLookups DEF Elements
  <2>4. Verdicts'
    BY <1>0, <2>1, SameVerdicts DEF Verdicts
  <2> QED
    BY <2>2, <2>3, <2>4 DEF Built
<1> QED
  BY <1>1, <1>2, <1>3, <1>4, <1>5, <1>6, <1>7, <1>8, <1>9, <1>10, <1>11, <1>12 DEF Next

\* The loops build what they should, whatever the table and the query.
LEMMA AlwaysBuilt == Spec => []Built
BY InitBuilt, NextBuilt, PTL DEF Spec

-----------------------------------------------------------------------------
(***************************************************************************)
(* What the lookups find.                                                  *)
(***************************************************************************)
\* The least of some positions is one of them.
LEMMA MinIs ==
  ASSUME NEW H, H \subseteq Nat, H # {}
  PROVE  Min(H) \in H /\ \A k \in H : Min(H) <= k
BY Least DEF Min

\* getType knows all its types.
LEMMA KnownType ==
  ASSUME NEW d
  PROVE  getType(d) \in SQLTypes
<1> DEFINE hits == {k \in DOMAIN Keywords : Keywords[k][1] \in Words[d]}
<1>1. DOMAIN Keywords \subseteq Nat
  BY DEF Keywords
<1>2. hits # {} => Min(hits) \in DOMAIN Keywords
  <2>1. hits \subseteq Nat /\ hits \subseteq DOMAIN Keywords
    BY <1>1
  <2> HIDE DEF hits
  <2> QED
    BY <2>1, MinIs
<1>3. getType(d) = IF hits = {} THEN "SQL_BOOL" ELSE Keywords[Min(hits)][2]
  BY DEF getType
<1> HIDE DEF hits
<1> QED
  BY <1>2, <1>3 DEF SQLTypes

\* So do the two translations to C++.
LEMMA KnownCppType ==
  ASSUME NEW type
  PROVE  getCppType(type) \in CppTypes /\ getOutCppType(type) \in OutTypes
BY DEF getCppType, CppTypes, getOutCppType, OutTypes, Numbers

\* The type of a lookup is one of these.
LEMMA KnownFirstType ==
  ASSUME NEW hits
  PROVE  FirstType(hits) \in OutTypes
BY KnownCppType DEF FirstType, OutTypes

\* The plain columns and the aggregates of S, and the aggregates of a variable.
LEMMA ChosenOfQuery ==
  ASSUME Inputs
  PROVE  /\ select_columns \in Seq(Range(query.s))
         /\ KeptOf(query.s, {attr \in Range(query.s) : ~IsAggregate(attr)}, Len(query.s),
                   select_columns)
         /\ select_aggregates \in Seq(Range(query.s))
         /\ KeptOf(query.s, {attr \in Range(query.s) : IsAggregate(attr)}, Len(query.s),
                   select_aggregates)
         /\ \A var : /\ OfGroup(query.f, var) \in Seq(Range(query.f))
                     /\ KeptOf(query.f, {agg \in Range(query.f) : agg.group = var}, Len(query.f),
                               OfGroup(query.f, var))
<1>1. query.s \in Seq(Range(query.s)) /\ query.f \in Seq(Range(query.f))
  BY InputsAssumption DEF Inputs
<1> QED
  BY <1>1, ChosenKeeps DEF select_columns, select_aggregates, PlainOf, AggregatesOf, OfGroup

\* The fields of a group: the plain columns of S, then the variable's
\* aggregates.
LEMMA FieldsOfGroup ==
  ASSUME Inputs, NEW var
  PROVE  LET p == select_columns
             a == OfGroup(query.f, var)
             f == GroupFields(var)
         IN  /\ Len(p) \in Nat /\ Len(a) \in Nat
             /\ DOMAIN p = 1 .. Len(p) /\ DOMAIN a = 1 .. Len(a)
             /\ DOMAIN f = 1 .. Len(p) + Len(a)
             /\ \A k \in 1 .. Len(p) : f[k] = GroupColumn(p[k])
             /\ \A k \in 1 .. Len(a) : f[Len(p) + k] = GroupAggregate(a[k])
<1> DEFINE p == select_columns
           a == OfGroup(query.f, var)
           x == [k \in DOMAIN p |-> GroupColumn(p[k])]
           y == [k \in DOMAIN a |-> GroupAggregate(a[k])]
           T == {x[k] : k \in DOMAIN p} \cup {y[k] : k \in DOMAIN a}
<1>1. /\ Len(p) \in Nat /\ Len(a) \in Nat
      /\ DOMAIN p = 1 .. Len(p) /\ DOMAIN a = 1 .. Len(a)
  BY ChosenOfQuery
<1>2. GroupFields(var) = x \o y
  BY DEF GroupFields, MapSeq
<1> HIDE DEF p, a
<1>3. /\ x \in Seq(T) /\ Len(x) = Len(p) /\ \A k \in 1 .. Len(p) : x[k] = GroupColumn(p[k])
      /\ y \in Seq(T) /\ Len(y) = Len(a) /\ \A k \in 1 .. Len(a) : y[k] = GroupAggregate(a[k])
  BY <1>1
<1> HIDE DEF x, y, T
<1>4. /\ Len(x \o y) = Len(x) + Len(y) /\ x \o y \in Seq(T)
      /\ \A k \in 1 .. Len(x) + Len(y) :
           (x \o y)[k] = IF k <= Len(x) THEN x[k] ELSE y[k - Len(x)]
  <2>1. x \in Seq(T) /\ y \in Seq(T)
    BY <1>3
  <2> QED
    BY ONLY <2>1, ConcatProperties
<1> DEFINE f == x \o y
<1>5. /\ DOMAIN f = 1 .. Len(p) + Len(a)
      /\ \A k \in 1 .. Len(p) + Len(a) : f[k] = IF k <= Len(p) THEN x[k] ELSE y[k - Len(p)]
  BY <1>3, <1>4
<1> HIDE DEF f
<1>6. ASSUME NEW k \in 1 .. Len(p) PROVE f[k] = GroupColumn(p[k])
  BY <1>1, <1>3, <1>5
<1>7. ASSUME NEW k \in 1 .. Len(a) PROVE f[Len(p) + k] = GroupAggregate(a[k])
  <2>1. Len(p) + k \in 1 .. Len(p) + Len(a) /\ ~(Len(p) + k <= Len(p)) /\ (Len(p) + k) - Len(p) = k
    BY <1>1
  <2> QED
    BY <1>3, <1>5, <2>1
<1> QED
  BY <1>1, <1>2, <1>5, <1>6, <1>7 DEF p, a, f

\* A field of a group is one of the two.
LEMMA FieldOfGroup ==
  ASSUME Inputs, NEW var, NEW k \in DOMAIN GroupFields(var)
  PROVE  \/ \E j \in DOMAIN select_columns : GroupFields(var)[k] = GroupColumn(select_columns[j])
         \/ \E j \in DOMAIN OfGroup(query.f, var) :
              GroupFields(var)[k] = GroupAggregate(OfGroup(query.f, var)[j])
<1> DEFINE p == select_columns
           a == OfGroup(query.f, var)
           f == GroupFields(var)
<1>1. /\ Len(p) \in Nat /\ Len(a) \in Nat
      /\ DOMAIN p = 1 .. Len(p) /\ DOMAIN a = 1 .. Len(a)
      /\ DOMAIN f = 1 .. Len(p) + Len(a)
      /\ \A j \in 1 .. Len(p) : f[j] = GroupColumn(p[j])
      /\ \A j \in 1 .. Len(a) : f[Len(p) + j] = GroupAggregate(a[j])
  BY FieldsOfGroup
<1>2. k \in DOMAIN f
  OBVIOUS
<1> HIDE DEF p, a, f
<1>3. CASE k <= Len(p)
  BY <1>1, <1>2, <1>3 DEF p, f
<1>4. CASE ~(k <= Len(p))
  <2>1. k - Len(p) \in 1 .. Len(a) /\ Len(p) + (k - Len(p)) = k
    BY <1>1, <1>2, <1>4
  <2>2. f[k] = GroupAggregate(a[k - Len(p)])
    BY <1>1, <2>1
  <2> QED
    BY <1>1, <2>1, <2>2 DEF a, f
<1> QED
  BY <1>3, <1>4

\* The invariant gives the types.
LEMMA BuiltTypes == Built => TypeOK
<1> SUFFICES ASSUME Built PROVE TypeOK
  OBVIOUS
<1> USE DEF AfterColumns, AfterMf, AfterSales, AfterGroups, AfterCt
<1>0. /\ Inputs /\ Lengths /\ Elements
      /\ Len(schema) \in Nat /\ Len(query.s) \in Nat /\ query.n + 1 \in Nat /\ Len(query.v) \in Nat
  BY Bounds DEF Built
<1>1. pc \in {"columns"} \cup AfterColumns /\ i \in Nat \ {0}
  BY <1>0 DEF Inputs
<1>2. ASSUME NEW s, NEW loop, NEW after, NEW bound \in Nat, Filled(s, loop, after, bound)
      PROVE  Len(s) <= bound
  <2>1. CASE pc = loop
    <3>1. i - 1 \in Nat /\ i - 1 <= bound /\ Length(s, i - 1)
      BY <1>2, <2>1 DEF Filled
    <3> QED
      BY <3>1, LengthIs
  <2>2. CASE pc \in after
    BY <1>2, <2>2, LengthIs DEF Filled
  <2>3. CASE pc \notin {loop} \cup after
    <3>1. 0 \in Nat /\ Length(s, 0)
      BY <1>2, <2>3 DEF Filled
    <3>2. Len(s) = 0
      BY <3>1, LengthIs
    <3> QED
      BY <3>2
  <2> QED
    BY <2>1, <2>2, <2>3
<1>3. Len(columns) <= Len(schema)
  BY <1>0, <1>2 DEF Lengths
<1>4. Len(groups) <= query.n + 1
  BY <1>0, <1>2 DEF Lengths
<1>5. Len(ct) <= Len(query.v)
  BY <1>0, <1>2 DEF Lengths
<1>6. \A k \in DOMAIN columns : columns[k].type \in SQLTypes /\ columns[k].ctype \in CppTypes
  BY <1>0, KnownType, KnownCppType DEF Elements, Column
<1>7. \A a : Selected(a).type \in OutTypes
  <2>1. "int64_t" \in OutTypes
    BY DEF OutTypes, Numbers
  <2> QED
    BY <2>1, KnownFirstType DEF Selected
<1>8. \A k \in DOMAIN mf_structure : mf_structure[k].type \in OutTypes
  BY <1>0, <1>7 DEF Elements
<1>9. \A k \in DOMAIN sales : sales[k].type \in OutTypes
  BY <1>0, KnownCppType DEF Elements
<1>10. ASSUME NEW g \in DOMAIN groups, NEW k \in DOMAIN groups[g]
       PROVE  groups[g][k].type \in OutTypes
  <2>1. "int64_t" \in OutTypes
    BY DEF OutTypes, Numbers
  <2>2. /\ \A a : GroupColumn(a).type \in OutTypes
        /\ \A a : GroupAggregate(a).type \in OutTypes
    BY <2>1, KnownFirstType DEF GroupColumn, GroupAggregate
  <2>3. groups[g] = GroupFields(g - 1)
    BY <1>0 DEF Elements
  <2> QED
    BY <1>0, <2>2, <2>3, FieldOfGroup
<1>11. ASSUME NEW k \in DOMAIN ct
       PROVE  ct[k].type \in CppTypes \cup {"garbage"}
  <2> DEFINE hits == {m \in DOMAIN columns : Finds(query.v[k], columns[m].name)}
  <2>1. DOMAIN columns \subseteq Nat
    <3>1. \A m : 1 .. m \subseteq Nat
      OBVIOUS
    <3> QED
      BY <1>0, <3>1 DEF Lengths, Filled, Length
  <2>2. hits # {} => Min(hits) \in DOMAIN columns
    <3>1. hits \subseteq Nat /\ hits \subseteq DOMAIN columns
      BY <2>1
    <3> HIDE DEF hits
    <3> QED
      BY <3>1, MinIs
  <2>3. ct[k].type \in IF hits = {} THEN CppTypes \cup {"garbage"} ELSE {columns[Min(hits)].ctype}
    BY <1>0 DEF Elements, CtTypes
  <2> HIDE DEF hits
  <2> QED
    BY <1>6, <2>2, <2>3
<1> QED
  BY <1>1, <1>3, <1>4, <1>5, <1>6, <1>8, <1>9, <1>10, <1>11 DEF TypeOK

\* Whatever the table and the query, the generator keeps to its types and its
\* loops to their bounds.
THEOREM DeclarationsTypeCorrect == Spec => []TypeOK
BY AlwaysBuilt, BuiltTypes, PTL

-----------------------------------------------------------------------------
(***************************************************************************)
(* Members by name.                                                        *)
(***************************************************************************)
\* The names of plain members, of aggregates of variable 0 and within a group,
\* and of aggregates of other variables differ.
LEMMA Names ==
  /\ \A a, b : <<a>> = <<b>> => a = b
  /\ \A a, b, c, d : <<a, b>> = <<c, d>> => a = c /\ b = d
  /\ \A a, b, c, d, e, f : <<a, b, c>> = <<d, e, f>> => a = d /\ b = e /\ c = f
  /\ \A a, b, c : <<a>> # <<b, c>>
  /\ \A a, b, c, d : <<a>> # <<b, c, d>>
  /\ \A a, b, c, d, e : <<a, b>> # <<c, d, e>>
<1>1. /\ \A a : Len(<<a>>) = 1
      /\ \A a, b : Len(<<a, b>>) = 2
      /\ \A a, b, c : Len(<<a, b, c>>) = 3
  OBVIOUS
<1>2. 1 # 2 /\ 1 # 3 /\ 2 # 3
  OBVIOUS
<1>3. \A a, b : <<a>> = <<b>> => a = b
  OBVIOUS
<1>4. \A a, b, c, d : <<a, b>> = <<c, d>> => a = c /\ b = d
  OBVIOUS
<1>5. \A a, b, c, d, e, f : <<a, b, c>> = <<d, e, f>> => a = d /\ b = e /\ c = f
  OBVIOUS
<1>6. ASSUME NEW a, NEW b, NEW c, <<a>> = <<b, c>> PROVE FALSE
  BY <1>1, <1>2, <1>6
<1>7. ASSUME NEW a, NEW b, NEW c, NEW d, <<a>> = <<b, c, d>> PROVE FALSE
  BY <1>1, <1>2, <1>7
<1>8. ASSUME NEW a, NEW b, NEW c, NEW d, NEW e, <<a, b>> = <<c, d, e>> PROVE FALSE
  BY <1>1, <1>2, <1>8
<1> QED
  BY <1>3, <1>4, <1>5, <1>6, <1>7, <1>8

\* An aggregate is known by its name in mf_structure.
LEMMA AggregateNames ==
  ASSUME NEW a, NEW b, Aggregate(a), Aggregate(b), toABSVar(a) = toABSVar(b)
  PROVE  a = b
<1>1. a.group = b.group /\ a.func = b.func /\ a.column = b.column
  BY Names DEF toABSVar, toVar
<1> QED
  BY <1>1 DEF Aggregate

\* The member that g++ finds is one with this name.
LEMMA MemberIs ==
  ASSUME NEW struct, DOMAIN struct \subseteq Nat, NEW name
  PROVE  \/ Member(struct, name) = "none" /\ \A k \in DOMAIN struct : struct[k].name # name
         \/ \E k \in DOMAIN struct : struct[k].name = name /\ Member(struct, name) = struct[k].type
<1> DEFINE hits == {k \in DOMAIN struct : struct[k].name = name}
<1>1. Member(struct, name) = IF hits = {} THEN "none" ELSE struct[Min(hits)].type
  BY DEF Member
<1>2. hits \subseteq Nat
  OBVIOUS
<1>3. CASE hits = {}
  BY <1>1, <1>3
<1>4. CASE hits # {}
  <2>1. Min(hits) \in hits
    <3> HIDE DEF hits
    <3> QED
      BY <1>2, <1>4, MinIs
  <2> QED
    BY <1>1, <1>4, <2>1
<1> QED
  BY <1>3, <1>4

\* After the loops every struct has all its members.
LEMMA Complete ==
  ASSUME Built, pc \in AfterCt
  PROVE  /\ Inputs /\ Elements
         /\ schema \in Seq(Range(schema)) /\ DOMAIN schema \subseteq Nat
         /\ query.s \in Seq(Range(query.s)) /\ DOMAIN query.s \subseteq Nat
         /\ query.v \in Seq(Range(query.v))
         /\ DOMAIN columns = DOMAIN schema /\ DOMAIN sales = DOMAIN schema
         /\ DOMAIN mf_structure = DOMAIN query.s
         /\ DOMAIN groups = 1 .. query.n + 1 /\ Len(groups) = query.n + 1
         /\ DOMAIN ct = DOMAIN query.v
<1> USE DEF AfterColumns, AfterMf, AfterSales, AfterGroups, AfterCt
<1>1. Inputs /\ Elements /\ Lengths
  BY DEF Built
<1>2. Len(schema) \in Nat /\ Len(query.s) \in Nat /\ query.n + 1 \in Nat /\ Len(query.v) \in Nat
  BY <1>1, Bounds
<1>3. /\ schema \in Seq(Range(schema)) /\ query.s \in Seq(Range(query.s))
      /\ query.v \in Seq(Range(query.v))
  BY <1>1, InputsAssumption DEF Inputs
<1>4. /\ DOMAIN schema = 1 .. Len(schema) /\ DOMAIN query.s = 1 .. Len(query.s)
      /\ DOMAIN query.v = 1 .. Len(query.v)
  BY <1>3
<1>5. /\ Length(columns, Len(schema)) /\ Length(mf_structure, Len(query.s))
      /\ Length(sales, Len(schema)) /\ Length(groups, query.n + 1) /\ Length(ct, Len(query.v))
  BY <1>1 DEF Lengths, Filled
<1>6. \A m : 1 .. m \subseteq Nat
  OBVIOUS
<1> QED
  BY <1>1, <1>2, <1>3, <1>4, <1>5, <1>6, LengthIs

\* The positions in a struct are numbers.
LEMMA Positions ==
  ASSUME Built, pc \in AfterCt
  PROVE  /\ DOMAIN sales \subseteq Nat /\ DOMAIN mf_structure \subseteq Nat
         /\ DOMAIN columns \subseteq Nat
         /\ \A g \in DOMAIN groups : DOMAIN groups[g] \subseteq Nat
<1>1. \A g \in DOMAIN groups : groups[g] = GroupFields(g - 1)
  BY Complete DEF Elements
<1>2. \A m : 1 .. m \subseteq Nat
  OBVIOUS
<1>3. ASSUME NEW var PROVE DOMAIN GroupFields(var) \subseteq Nat
  BY <1>2, Complete, FieldsOfGroup
<1> QED
  BY <1>1, <1>3, Complete

\* A member of struct sales is a column of the table.
LEMMA MemberOfSales ==
  ASSUME Built, pc \in AfterCt, NEW c
  PROVE  \/ Member(sales, MemberName(c)) = "none" /\ \A k \in DOMAIN columns : columns[k].name # c
         \/ \E k \in DOMAIN columns :
              /\ columns[k].name = c
              /\ Member(sales, MemberName(c)) = getOutCppType(columns[k].type)
<1>1. \A k \in DOMAIN sales : /\ sales[k].name = <<columns[k].name>>
                              /\ sales[k].type = getOutCppType(columns[k].type)
  BY Complete DEF Elements, MemberName
<1>2. DOMAIN sales = DOMAIN columns /\ DOMAIN sales \subseteq Nat
  BY Complete, Positions
<1> DEFINE name == MemberName(c)
<1>3. \A k \in DOMAIN sales : sales[k].name = name <=> columns[k].name = c
  BY <1>1, Names DEF MemberName
<1> HIDE DEF name
<1>4. \/ Member(sales, name) = "none" /\ \A k \in DOMAIN sales : sales[k].name # name
      \/ \E k \in DOMAIN sales : sales[k].name = name /\ Member(sales, name) = sales[k].type
  BY <1>2, MemberIs
<1> QED
  BY <1>1, <1>2, <1>3, <1>4 DEF name

\* A plain member of mf_structure is a plain column of S.
LEMMA PlainOfMf ==
  ASSUME Built, pc \in AfterCt, NEW c
  PROVE  \/ /\ Member(mf_structure, MemberName(c)) = "none"
            /\ \A k \in DOMAIN query.s : ~IsAggregate(query.s[k]) => query.s[k].name # c
         \/ \E k \in DOMAIN query.s :
              /\ ~IsAggregate(query.s[k]) /\ query.s[k].name = c
              /\ Member(mf_structure, MemberName(c)) = Selected(query.s[k]).type
<1> DEFINE name == MemberName(c)
<1>1. DOMAIN mf_structure = DOMAIN query.s /\ DOMAIN mf_structure \subseteq Nat
  BY Complete, Positions
<1>2. \A k \in DOMAIN query.s : mf_structure[k] = Selected(query.s[k])
  BY Complete DEF Elements
<1>3. \A a : Selected(a).name = IF IsAggregate(a) THEN toABSVar(a) ELSE <<a.name>>
  BY DEF Selected, MemberName
<1>4. \A k \in DOMAIN query.s :
        mf_structure[k].name = name <=> (~IsAggregate(query.s[k]) /\ query.s[k].name = c)
  <2>1. \A a : toABSVar(a) # <<c>>
    BY Names DEF toABSVar, toVar
  <2>2. \A x : <<x>> = <<c>> => x = c
    BY Names
  <2>3. name = <<c>>
    BY DEF MemberName
  <2> HIDE DEF name
  <2>4. ASSUME NEW a
        PROVE  Selected(a).name = name <=> (~IsAggregate(a) /\ a.name = c)
    <3>1. CASE IsAggregate(a)
      BY <1>3, <2>1, <2>3, <3>1
    <3>2. CASE ~IsAggregate(a)
      BY <1>3, <2>2, <2>3, <3>2
    <3> QED
      BY <3>1, <3>2
  <2> QED
    BY <1>2, <2>4
<1> HIDE DEF name
<1>5. \/ Member(mf_structure, name) = "none" /\ \A k \in DOMAIN mf_structure : mf_structure[k].name # name
      \/ \E k \in DOMAIN mf_structure :
           mf_structure[k].name = name /\ Member(mf_structure, name) = mf_structure[k].type
  BY <1>1, MemberIs
<1> QED
  BY <1>1, <1>2, <1>4, <1>5 DEF name

\* An aggregate of mf_structure is an aggregate of S.
LEMMA AggregateOfMf ==
  ASSUME Built, pc \in AfterCt, NEW agg, Aggregate(agg)
  PROVE  \/ /\ Member(mf_structure, toABSVar(agg)) = "none"
            /\ \A k \in DOMAIN query.s : ~(IsAggregate(query.s[k]) /\ query.s[k] = agg)
         \/ /\ Member(mf_structure, toABSVar(agg)) = Selected(agg).type
            /\ \E k \in DOMAIN query.s : IsAggregate(query.s[k]) /\ query.s[k] = agg
<1> DEFINE name == toABSVar(agg)
<1>1. DOMAIN mf_structure = DOMAIN query.s /\ DOMAIN mf_structure \subseteq Nat
  BY Complete, Positions
<1>2. \A k \in DOMAIN query.s : mf_structure[k] = Selected(query.s[k])
  BY Complete DEF Elements
<1>3. \A a : Selected(a).name = IF IsAggregate(a) THEN toABSVar(a) ELSE <<a.name>>
  BY DEF Selected, MemberName
<1>4. \A k \in DOMAIN query.s : IsAggregate(query.s[k]) => Aggregate(query.s[k])
  <2>1. \A k \in DOMAIN query.s : query.s[k] \in Range(query.s)
    BY DEF Range
  <2> QED
    BY <2>1, Complete, InputsAssumption DEF Inputs
<1>5. \A x : <<x>> # toABSVar(agg)
  BY Names DEF toABSVar, toVar
<1>6. \A k \in DOMAIN query.s :
        mf_structure[k].name = name <=> (IsAggregate(query.s[k]) /\ query.s[k] = agg)
  <2> HIDE DEF name
  <2>1. ASSUME NEW a, IsAggregate(a) => Aggregate(a)
        PROVE  Selected(a).name = name <=> (IsAggregate(a) /\ a = agg)
    <3>1. CASE IsAggregate(a)
      BY <1>3, <2>1, <3>1, AggregateNames DEF name
    <3>2. CASE ~IsAggregate(a)
      BY <1>3, <1>5, <3>2 DEF name
    <3> QED
      BY <3>1, <3>2
  <2> QED
    BY <1>2, <1>4, <2>1
<1> HIDE DEF name
<1>7. \/ Member(mf_structure, name) = "none" /\ \A k \in DOMAIN mf_structure : mf_structure[k].name # name
      \/ \E k \in DOMAIN mf_structure :
           mf_structure[k].name = name /\ Member(mf_structure, name) = mf_structure[k].type
  BY <1>1, MemberIs
<1> QED
  BY <1>1, <1>2, <1>6, <1>7 DEF name

\* An aggregate of a group is one of F, of this variable.
LEMMA AggregateOfGroup ==
  ASSUME Built, pc \in AfterCt, NEW g \in DOMAIN groups, NEW agg
  PROVE  \/ /\ Member(groups[g], toVar(agg)) = "none"
            /\ \A b \in Range(query.f) :
                 ~(b.group = g - 1 /\ b.func = agg.func /\ b.column = agg.column)
         \/ \E b \in Range(query.f) :
              /\ b.group = g - 1 /\ b.func = agg.func /\ b.column = agg.column
              /\ Member(groups[g], toVar(agg)) = GroupAggregate(b).type
<1> DEFINE name == toVar(agg)
           a == OfGroup(query.f, g - 1)
           p == select_columns
           f == GroupFields(g - 1)
<1>0. Inputs
  BY Complete
<1>1. groups[g] = f /\ DOMAIN f \subseteq Nat
  BY Complete, Positions DEF Elements
<1>2. /\ DOMAIN f = 1 .. Len(p) + Len(a) /\ DOMAIN a = 1 .. Len(a)
      /\ Len(p) \in Nat /\ Len(a) \in Nat
      /\ \A k \in 1 .. Len(a) : f[Len(p) + k] = GroupAggregate(a[k])
  BY <1>0, FieldsOfGroup
<1>3. \A k \in DOMAIN f :
        \/ \E j \in DOMAIN p : f[k] = GroupColumn(p[j])
        \/ \E j \in DOMAIN a : f[k] = GroupAggregate(a[j])
  BY <1>0, FieldOfGroup
<1>4. \A x : GroupColumn(x).name # name
  BY Names DEF GroupColumn, MemberName, toVar
<1>5. \A x : GroupAggregate(x).name = name <=> (x.func = agg.func /\ x.column = agg.column)
  BY Names DEF GroupAggregate, toVar
<1>6. /\ \A j \in DOMAIN a : a[j] \in Range(query.f) /\ a[j].group = g - 1
      /\ \A b \in Range(query.f) : b.group = g - 1 => \E j \in DOMAIN a : a[j] = b
  <2>1. /\ a \in Seq(Range(query.f))
        /\ KeptOf(query.f, {b \in Range(query.f) : b.group = g - 1}, Len(query.f), a)
    BY <1>0, ChosenOfQuery
  <2>2. query.f \in Seq(Range(query.f))
    BY <1>0, InputsAssumption DEF Inputs
  <2>3. \A b \in Range(query.f) : \E k \in 1 .. Len(query.f) : query.f[k] = b
    BY <2>2 DEF Range
  <2> HIDE DEF a
  <2>4. \A j \in DOMAIN a : a[j] \in {b \in Range(query.f) : b.group = g - 1}
    BY <1>2, <2>1 DEF KeptOf
  <2>5. ASSUME NEW b \in Range(query.f), b.group = g - 1
        PROVE  \E j \in DOMAIN a : a[j] = b
    <3>1. PICK k \in 1 .. Len(query.f) : query.f[k] = b
      BY <2>3
    <3>2. query.f[k] \in {x \in Range(query.f) : x.group = g - 1}
      BY <2>5, <3>1
    <3> QED
      BY <1>2, <2>1, <3>1, <3>2 DEF KeptOf
  <2> QED
    BY <2>4, <2>5
<1> HIDE DEF name, a, p, f
<1>7. \/ Member(f, name) = "none" /\ \A k \in DOMAIN f : f[k].name # name
      \/ \E k \in DOMAIN f : f[k].name = name /\ Member(f, name) = f[k].type
  BY <1>1, MemberIs
<1>8. CASE \E k \in DOMAIN f : f[k].name = name /\ Member(f, name) = f[k].type
  <2>1. PICK k \in DOMAIN f : f[k].name = name /\ Member(f, name) = f[k].type
    BY <1>8
  <2>2. PICK j \in DOMAIN a : f[k] = GroupAggregate(a[j])
    BY <1>3, <1>4, <2>1
  <2> QED
    BY <1>1, <1>5, <1>6, <2>1, <2>2 DEF name
<1>9. CASE Member(f, name) = "none" /\ \A k \in DOMAIN f : f[k].name # name
  <2>1. ASSUME NEW b \in Range(query.f), b.group = g - 1, b.func = agg.func, b.column = agg.column
        PROVE  FALSE
    <3>1. PICK j \in DOMAIN a : a[j] = b
      BY <1>6, <2>1
    <3>2. Len(p) + j \in DOMAIN f /\ f[Len(p) + j] = GroupAggregate(b)
      BY <1>2, <3>1
    <3> QED
      BY <1>5, <1>9, <2>1, <3>2
  <2> QED
    BY <1>1, <1>9, <2>1 DEF name
<1> QED
  BY <1>7, <1>8, <1>9

\* A plain member of a group is a plain column of S.
LEMMA PlainOfGroup ==
  ASSUME Built, pc \in AfterCt, NEW g \in DOMAIN groups, NEW c
  PROVE  \/ /\ Member(groups[g], MemberName(c)) = "none"
            /\ \A k \in DOMAIN select_columns : select_columns[k].name # c
         \/ \E k \in DOMAIN select_columns :
              /\ select_columns[k].name = c
              /\ Member(groups[g], MemberName(c)) = GroupColumn(select_columns[k]).type
<1> DEFINE name == MemberName(c)
           a == OfGroup(query.f, g - 1)
           p == select_columns
           f == GroupFields(g - 1)
<1>0. Inputs
  BY Complete
<1>1. groups[g] = f /\ DOMAIN f \subseteq Nat
  BY Complete, Positions DEF Elements
<1>2. /\ DOMAIN f = 1 .. Len(p) + Len(a) /\ DOMAIN p = 1 .. Len(p)
      /\ Len(p) \in Nat /\ Len(a) \in Nat
      /\ \A k \in 1 .. Len(p) : f[k] = GroupColumn(p[k])
  BY <1>0, FieldsOfGroup
<1>3. \A k \in DOMAIN f :
        \/ \E j \in DOMAIN p : f[k] = GroupColumn(p[j])
        \/ \E j \in DOMAIN a : f[k] = GroupAggregate(a[j])
  BY <1>0, FieldOfGroup
<1>4. \A x : GroupColumn(x).name = name <=> x.name = c
  BY Names DEF GroupColumn, MemberName
<1>5. \A x : GroupAggregate(x).name # name
  BY Names DEF GroupAggregate, MemberName, toVar
<1> HIDE DEF name, a, p, f
<1>6. \/ Member(f, name) = "none" /\ \A k \in DOMAIN f : f[k].name # name
      \/ \E k \in DOMAIN f : f[k].name = name /\ Member(f, name) = f[k].type
  BY <1>1, MemberIs
<1>7. CASE \E k \in DOMAIN f : f[k].name = name /\ Member(f, name) = f[k].type
  BY <1>1, <1>3, <1>4, <1>5, <1>7 DEF name, p
<1>8. CASE Member(f, name) = "none" /\ \A k \in DOMAIN f : f[k].name # name
  <2>1. \A k \in DOMAIN p : k \in DOMAIN f
    BY <1>2
  <2> QED
    BY <1>1, <1>2, <1>4, <1>8, <2>1 DEF name, p
<1> QED
  BY <1>6, <1>7, <1>8

-----------------------------------------------------------------------------
(***************************************************************************)
(* What a program that g++ accepts says about its query.                   *)
(***************************************************************************)
\* g++ accepts nothing that reads or writes a member that does not exist.
LEMMA MembersExist ==
  ASSUME NEW to, NEW from, Assignable(to, from) \/ Passable(to, from)
  PROVE  from \in Numbers \cup {"string", "vector<string>"} /\ from # "none" /\ to # "none"
BY DEF Assignable, Passable, Numbers

\* The plain columns of S, as a set.
LEMMA PlainIs ==
  ASSUME Built, pc \in AfterCt
  PROVE  /\ \A k \in DOMAIN query.s : ~IsAggregate(query.s[k]) => query.s[k].name \in Plain
         /\ \A k \in DOMAIN select_columns :
              ~IsAggregate(select_columns[k]) /\ select_columns[k] \in Range(query.s)
<1> DEFINE S == {attr \in Range(query.s) : ~IsAggregate(attr)}
           p == select_columns
<1>1. /\ p \in Seq(Range(query.s)) /\ KeptOf(query.s, S, Len(query.s), p)
      /\ query.s \in Seq(Range(query.s))
  BY Complete, ChosenOfQuery
<1>2. \A k \in DOMAIN query.s : ~IsAggregate(query.s[k]) => query.s[k] \in S
  BY DEF Range
<1>3. \A a \in S : ~IsAggregate(a) /\ a \in Range(query.s)
  OBVIOUS
<1> HIDE DEF S, p
<1>4. DOMAIN p = 1 .. Len(p) /\ DOMAIN query.s = 1 .. Len(query.s)
  BY <1>1
<1>5. \A k \in DOMAIN p : p[k] \in S
  BY <1>1, <1>4 DEF KeptOf
<1>6. ASSUME NEW k \in DOMAIN query.s, ~IsAggregate(query.s[k])
      PROVE  query.s[k].name \in Plain
  <2>1. PICK j \in DOMAIN p : p[j] = query.s[k]
    BY <1>1, <1>2, <1>4, <1>6 DEF KeptOf
  <2> QED
    BY <2>1 DEF Plain, p
<1> QED
  BY <1>3, <1>5, <1>6 DEF p

\* The aggregates of S, as a set.
LEMMA AggregatesAre ==
  ASSUME Built, pc \in AfterCt, NEW agg \in Range(select_aggregates)
  PROVE  /\ Aggregate(agg) /\ IsAggregate(agg) /\ agg \in Range(query.s)
         /\ \E k \in DOMAIN select_aggregates : agg = select_aggregates[k]
<1> DEFINE S == {attr \in Range(query.s) : IsAggregate(attr)}
           p == select_aggregates
<1>1. p \in Seq(Range(query.s)) /\ KeptOf(query.s, S, Len(query.s), p)
  BY Complete, ChosenOfQuery
<1>2. \A a \in S : IsAggregate(a) /\ a \in Range(query.s)
  OBVIOUS
<1> HIDE DEF S, p
<1>3. DOMAIN p = 1 .. Len(p)
  BY <1>1
<1>4. PICK k \in DOMAIN p : agg = p[k]
  BY DEF Range, p
<1>5. agg \in S
  BY <1>1, <1>3, <1>4 DEF KeptOf
<1>6. Aggregate(agg)
  BY <1>2, <1>5, Complete, InputsAssumption DEF Inputs
<1> QED
  BY <1>2, <1>4, <1>5, <1>6 DEF p

\* Every column of the table that is loaded is a text or a number.
LEMMA RowsAreLoaded ==
  ASSUME Built, pc \in AfterCt, RowsLoad, NEW c, Member(sales, MemberName(c)) # "none"
  PROVE  Member(sales, MemberName(c)) \in Numbers \cup {"string"}
<1>1. PICK k \in DOMAIN columns : columns[k].name = c
  BY MemberOfSales
<1>2. Assignable(Member(sales, MemberName(c)), Getter(columns[k].ctype))
  BY <1>1 DEF RowsLoad
<1>3. Getter(columns[k].ctype) \in Numbers \cup {"string", "none"}
  BY DEF Getter, Numbers
<1> QED
  BY <1>2, <1>3 DEF Assignable, Numbers

\* S, V and F fit together.
LEMMA AcceptedFits ==
  ASSUME Built, pc = "compiled",
         \A agg \in Range(query.f) : ~Unchecked(agg)
  PROVE  FitsPhiQuery
<1>0. pc \in AfterCt /\ WellTyped /\ ~Throws
  BY DEF Built, Verdicts, AfterCt
<1>1. Range(query.v) \subseteq Plain
  <2> SUFFICES ASSUME NEW k \in DOMAIN query.v PROVE query.v[k] \in Plain
    BY DEF Range
  <2>1. k \in DOMAIN ct /\ ct[k].name = query.v[k]
    BY <1>0, Complete DEF Elements
  <2>2. Passable(getOutCppType(ct[k].type), Member(mf_structure, MemberName(query.v[k])))
    BY <1>0, <2>1 DEF WellTyped, GroupsFound
  <2>3. Member(mf_structure, MemberName(query.v[k])) # "none"
    BY <2>2, MembersExist
  <2>4. PICK j \in DOMAIN query.s : ~IsAggregate(query.s[j]) /\ query.s[j].name = query.v[k]
    BY <1>0, <2>3, PlainOfMf
  <2> QED
    BY <1>0, <2>4, PlainIs
<1>2. Plain \subseteq ColumnNames
  <2> SUFFICES ASSUME NEW k \in DOMAIN select_columns PROVE select_columns[k].name \in ColumnNames
    BY DEF Plain
  <2> DEFINE c == select_columns[k].name
  <2>1. Assignable(Member(mf_structure, MemberName(c)), Member(sales, MemberName(c)))
    BY <1>0 DEF WellTyped, ColumnsCopied
  <2> HIDE DEF c
  <2>2. Member(sales, MemberName(c)) # "none"
    BY <2>1, MembersExist
  <2>3. PICK j \in DOMAIN columns : columns[j].name = c
    BY <1>0, <2>2, MemberOfSales
  <2>4. j \in DOMAIN schema /\ schema[j].name = c
    BY <1>0, <2>3, Complete DEF Elements, Column
  <2> QED
    BY <2>4 DEF ColumnNames, c
<1>3. \A agg \in Range(query.f) : agg.group <= query.n
  <2> SUFFICES ASSUME NEW k \in DOMAIN query.f PROVE query.f[k].group <= query.n
    BY DEF Range
  <2>1. ~(query.f[k].group > query.n)
    BY <1>0 DEF Throws
  <2>2. query.f[k].group \in Nat /\ query.n \in Nat
    <3>1. query.f[k] \in Range(query.f) /\ query \in Queries
      BY <1>0, Complete DEF Inputs, Range
    <3> QED
      BY <3>1, InputsAssumption DEF Aggregate
  <2> QED
    BY <2>1, <2>2
<1>4. ASSUME NEW agg \in Range(select_aggregates)
      PROVE  /\ agg \in Range(query.f)
             /\ agg.func \in PhiFuncs \ {"count"} => Numeric(agg)
  <2> DEFINE field == Member(groups[agg.group + 1], toVar(agg))
             row == Member(sales, MemberName(agg.column))
             mf == Member(mf_structure, toABSVar(agg))
  <2>1. Aggregate(agg) /\ IsAggregate(agg)
    BY <1>0, AggregatesAre
  <2>2. /\ agg.group + 1 \in DOMAIN groups
        /\ Assignable(mf, field)
        /\ agg.func \in Averages => field \in Numbers
    BY <1>0, AggregatesAre DEF WellTyped, AggregateFilled
  <2>3. field # "none" /\ mf # "none"
    BY <2>2, MembersExist
  <2>4. agg.group \in Nat /\ (agg.group + 1) - 1 = agg.group
    BY <2>1 DEF Aggregate
  <2>5. PICK b \in Range(query.f) :
          b.group = agg.group /\ b.func = agg.func /\ b.column = agg.column
    BY <1>0, <2>2, <2>3, <2>4, AggregateOfGroup
  <2>6. agg = b
    <3>1. Aggregate(b)
      BY <1>0, Complete, InputsAssumption DEF Inputs
    <3> QED
      BY <2>1, <2>5, <3>1 DEF Aggregate
  <2>7. ASSUME agg.func \in PhiFuncs \ {"count"}
        PROVE  row \in Numbers
    <3>1. Updates(agg)
      BY <1>0, <2>6 DEF WellTyped, Range
    <3>2. /\ agg.func \in Averages => Passable(field, row) /\ field # "vector<string>"
          /\ agg.func \in {"sum", "SUM"} => Assignable(field, row) /\ field # "vector<string>"
          /\ agg.func \in {"min", "MIN", "max", "MAX"} => Passable(field, row)
      BY <3>1 DEF Updates, Averages
    <3>3. agg.func \in Averages \cup {"sum", "SUM"} \cup {"min", "MIN", "max", "MAX"}
      BY <2>7 DEF PhiFuncs, Averages
    <3>4. Assignable(field, row) \/ Passable(field, row)
      BY <3>2, <3>3
    <3>5. row # "none"
      BY <3>4, MembersExist
    <3>6. row \in Numbers \cup {"string"}
      BY <1>0, <3>5, RowsAreLoaded DEF WellTyped
    <3>7. mf # "string"
      <4>1. mf = Selected(agg).type
        BY <1>0, <2>1, <2>3, AggregateOfMf
      <4> QED
        BY <2>1, <4>1 DEF Selected
    <3>8. field # "string"
      BY <2>2, <3>7 DEF Assignable, Numbers
    <3> HIDE DEF row, field
    <3> QED
      BY <3>4, <3>6, <3>8 DEF Assignable, Passable, Numbers
  <2> QED
    BY <2>5, <2>6, <2>7 DEF Numeric
<1>5. ASSUME NEW agg \in Range(query.f), Numeric(agg)
      PROVE  agg.column \in ColumnNames
  <2>1. Member(sales, MemberName(agg.column)) # "none"
    BY <1>5 DEF Numeric, Numbers
  <2>2. PICK j \in DOMAIN columns : columns[j].name = agg.column
    BY <1>0, <2>1, MemberOfSales
  <2>3. j \in DOMAIN schema /\ schema[j].name = agg.column
    BY <1>0, <2>2, Complete DEF Elements, Column
  <2> QED
    BY <2>3 DEF ColumnNames
<1>6. ASSUME NEW agg \in Range(query.f)
      PROVE  /\ agg.group \in 0 .. query.n /\ agg.func \in PhiFuncs
             /\ agg.column \in ColumnNames /\ (agg.func # "count" => Numeric(agg))
  <2>1. /\ agg.func \in PhiFuncs
        /\ agg.func = "count" => agg.column \in ColumnNames
        /\ agg.func # "count" => agg \in Range(select_aggregates) \/ Numeric(agg)
    BY DEF Unchecked
  <2>2. agg.func # "count" => Numeric(agg)
    BY <1>4, <2>1
  <2>3. query \in Queries
    BY <1>0, Complete DEF Inputs
  <2>4. agg.group \in Nat /\ query.n \in Nat /\ agg.group <= query.n
    BY <1>3, <2>3, InputsAssumption DEF Aggregate
  <2>5. agg.group \in 0 .. query.n
    BY <2>4
  <2> QED
    BY <1>5, <2>1, <2>2, <2>5
<1>7. Range(select_aggregates) \subseteq Range(query.f)
  BY <1>4
<1> QED
  BY <1>1, <1>2, <1>6, <1>7 DEF FitsPhiQuery

\* A program that g++ accepts meets what the model of the running program
\* assumes of its query, but for what g++ does not look at (Unchecked), for every
\* table and every query.
THEOREM AcceptedProgramsFit == Spec => []CompiledMeetsAssumptions
<1>1. Built => CompiledMeetsAssumptions
  <2>1. Built /\ pc = "compiled" /\ (\A agg \in Range(query.f) : ~Unchecked(agg))
          => FitsPhiQuery
    BY AcceptedFits
  <2> QED
    BY <2>1 DEF CompiledMeetsAssumptions
<1>2. QED
  BY <1>1, AlwaysBuilt, PTL

-----------------------------------------------------------------------------
(***************************************************************************)
(* Lookups when no name is part of another.                                *)
(***************************************************************************)
\* A column is known by its name, and by nothing else that contains it.
LEMMA ColumnsApart ==
  ASSUME Built, pc \in AfterCt, NEW k \in DOMAIN columns
  PROVE  /\ columns[k].name \in ColumnNames
         /\ \A m \in DOMAIN columns : columns[m].name = columns[k].name => m = k
         /\ columns[k].type = getType(schema[k].data_type)
         /\ columns[k].ctype = getCppType(columns[k].type)
         /\ NamesApart => \A name : Finds(name, columns[k].name) <=> name = columns[k].name
<1>1. /\ DOMAIN columns = DOMAIN schema /\ schema \in Schemas
      /\ \A m \in DOMAIN columns : columns[m] = Column(schema[m].name, schema[m].data_type)
  BY Complete DEF Inputs, Elements
<1>2. \A m \in DOMAIN columns : /\ columns[m].name = schema[m].name
                                /\ columns[m].type = getType(schema[m].data_type)
                                /\ columns[m].ctype = getCppType(columns[m].type)
  BY <1>1 DEF Column
<1>3. columns[k].name \in ColumnNames
  BY <1>1, <1>2 DEF ColumnNames
<1>4. \A m \in DOMAIN columns : columns[m].name = columns[k].name => m = k
  BY <1>1, <1>2, InputsAssumption
<1>5. ASSUME NamesApart, NEW name
      PROVE  Finds(name, columns[k].name) <=> name = columns[k].name
  <2>1. <<columns[k].name, name>> \notin Within
    BY <1>3, <1>5 DEF NamesApart
  <2> QED
    BY <2>1 DEF Finds
<1> QED
  BY <1>2, <1>3, <1>4, <1>5

\* The only hit is the first.
LEMMA OnlyHit ==
  ASSUME NEW k \in Nat, NEW H, k \in H, \A m \in H : m = k
  PROVE  H # {} /\ Min(H) = k
<1>1. H \subseteq Nat /\ H # {}
  OBVIOUS
<1> QED
  BY <1>1, MinIs

\* A plain column of S gets the type of its column, and so does the grouping
\* attribute with its name.
LEMMA ExactLookups ==
  ASSUME Built, pc \in AfterCt, NamesApart, NEW k \in DOMAIN columns, NEW c, columns[k].name = c
  PROVE  /\ CtTypes(c) = {columns[k].ctype}
         /\ \A attr : ~IsAggregate(attr) /\ attr.name = c =>
              Selected(attr).type = getOutCppType(columns[k].type)
         /\ \A attr : attr.name = c => GroupColumn(attr).type = getOutCppType(columns[k].type)
         /\ Member(sales, MemberName(c)) = getOutCppType(columns[k].type)
<1> DEFINE H == {m \in DOMAIN columns : Finds(c, columns[m].name)}
           E == {m \in DOMAIN columns : c = columns[m].name}
<1>1. k \in Nat
  BY Positions
<1>2. \A m \in DOMAIN columns : Finds(c, columns[m].name) <=> m = k
  BY ColumnsApart
<1>3. k \in H /\ (\A m \in H : m = k) /\ k \in E /\ (\A m \in E : m = k)
  BY <1>2, ColumnsApart
<1>4. H # {} /\ Min(H) = k /\ E # {} /\ Min(E) = k
  <2> HIDE DEF H, E
  <2> QED
    BY <1>1, <1>3, OnlyHit
<1>5. CtTypes(c) = IF H = {} THEN CppTypes \cup {"garbage"} ELSE {columns[Min(H)].ctype}
  BY DEF CtTypes
<1>6. FirstType(H) = getOutCppType(columns[k].type) /\ FirstType(E) = getOutCppType(columns[k].type)
  <2> HIDE DEF H, E
  <2> QED
    BY <1>4 DEF FirstType
<1>7. ASSUME NEW attr, ~IsAggregate(attr), attr.name = c
      PROVE  Selected(attr).type = getOutCppType(columns[k].type)
  <2>1. {m \in DOMAIN columns : InAttribute(attr, columns[m].name)} = H
    BY <1>7 DEF InAttribute
  <2>2. Selected(attr).type = FirstType(H)
    BY <1>7, <2>1 DEF Selected
  <2> QED
    BY <1>6, <2>2
<1>8. ASSUME NEW attr, attr.name = c
      PROVE  GroupColumn(attr).type = getOutCppType(columns[k].type)
  <2>1. GroupColumn(attr).type = FirstType(E)
    BY <1>8 DEF GroupColumn
  <2> QED
    BY <1>6, <2>1
<1>9. Member(sales, MemberName(c)) = getOutCppType(columns[k].type)
  <2>1. \A m \in DOMAIN columns : columns[m].name = c => m = k
    BY ColumnsApart
  <2> QED
    BY <2>1, MemberOfSales
<1> HIDE DEF H
<1> QED
  BY <1>4, <1>5, <1>7, <1>8, <1>9

\* The types getType can give.
LEMMA TypesListed ==
  SQLTypes \subseteq Texts \cup Whole \cup Times \cup
    {"SQL_FLOAT", "SQL_DOUBLE", "SQL_BLOB", "SQL_ENUM", "SQL_SET", "SQL_BOOL"}
<1>1. DOMAIN Keywords = 1 .. 19
  <2>1. Len(Keywords) = 19
    BY DEF Keywords
  <2> QED
    BY <2>1 DEF Keywords
<1>2. /\ Keywords[1][2] = "SQL_VARCHAR" /\ Keywords[2][2] = "SQL_CHAR" /\ Keywords[3][2] = "SQL_TEXT"
      /\ Keywords[4][2] = "SQL_ENUM" /\ Keywords[5][2] = "SQL_SET" /\ Keywords[6][2] = "SQL_UINT"
      /\ Keywords[7][2] = "SQL_INT" /\ Keywords[8][2] = "SQL_FLOAT" /\ Keywords[9][2] = "SQL_DOUBLE"
      /\ Keywords[10][2] = "SQL_DECIMAL" /\ Keywords[11][2] = "SQL_DATETIME"
      /\ Keywords[12][2] = "SQL_TIMESTAMP"
      /\ Keywords[13][2] = "SQL_TIME" /\ Keywords[14][2] = "SQL_DATE" /\ Keywords[15][2] = "SQL_YEAR"
      /\ Keywords[16][2] = "SQL_BLOB" /\ Keywords[17][2] = "SQL_NUMERIC" /\ Keywords[18][2] = "SQL_MONEY"
      /\ Keywords[19][2] = "SQL_REAL"
  BY DEF Keywords
<1>3. \A k \in 1 .. 19 : k \in 1 .. 10 \/ k \in 11 .. 19
  OBVIOUS
<1>4. \A k \in 1 .. 10 :
        \/ k = 1 \/ k = 2 \/ k = 3 \/ k = 4 \/ k = 5
        \/ k = 6 \/ k = 7 \/ k = 8 \/ k = 9 \/ k = 10
  OBVIOUS
<1>5. \A k \in 11 .. 19 :
        \/ k = 11 \/ k = 12 \/ k = 13 \/ k = 14 \/ k = 15
        \/ k = 16 \/ k = 17 \/ k = 18 \/ k = 19
  OBVIOUS
<1>6. \A k \in DOMAIN Keywords : Keywords[k][2] \in Texts \cup Whole \cup Times \cup
        {"SQL_FLOAT", "SQL_DOUBLE", "SQL_BLOB", "SQL_ENUM", "SQL_SET", "SQL_BOOL"}
  BY <1>1, <1>2, <1>3, <1>4, <1>5 DEF Texts, Whole, Times
<1> QED
  BY <1>6 DEF SQLTypes

\* get_ct's detour through ctype does not change a type that g++ accepts.
LEMMA DetourAgrees ==
  ASSUME NEW type \in SQLTypes, getOutCppType(getCppType(type)) # "", getOutCppType(type) # ""
  PROVE  getOutCppType(getCppType(type)) = getOutCppType(type)
<1>1. CASE type \in Texts
  <2>1. getCppType(type) = "CPP_STRING" /\ getOutCppType(type) = "string"
    BY <1>1 DEF getCppType, getOutCppType, Whole, Texts, Times
  <2>2. getOutCppType("CPP_STRING") = "string"
    BY DEF getOutCppType, Whole, Texts, Times
  <2> QED
    BY <2>1, <2>2
<1>2. CASE type \in Whole
  <2>1. getCppType(type) = "CPP_INT64" /\ getOutCppType(type) = "int64_t"
    BY <1>2 DEF getCppType, getOutCppType, Whole, Texts, Times
  <2>2. getOutCppType("CPP_INT64") = "int64_t"
    BY DEF getOutCppType, Whole, Texts, Times
  <2> QED
    BY <2>1, <2>2
<1>3. CASE type = "SQL_FLOAT"
  BY <1>3 DEF getCppType, getOutCppType, Whole, Texts, Times
<1>4. CASE type = "SQL_DOUBLE"
  BY <1>4 DEF getCppType, getOutCppType, Whole, Texts, Times
<1>5. CASE type \notin Texts \cup Whole \cup {"SQL_FLOAT", "SQL_DOUBLE"}
  <2>1. type \in Times \cup {"SQL_BLOB", "SQL_ENUM", "SQL_SET", "SQL_BOOL"}
    BY <1>5, TypesListed
  <2>2. CASE type = "SQL_BOOL"
    BY <2>2 DEF getOutCppType, Whole, Texts, Times
  <2>3. CASE type # "SQL_BOOL"
    <3>1. getCppType(type) \in {"CPP_DATE", "CPP_RAW", "CPP_VECTOR"}
      BY <2>1, <2>3 DEF getCppType, Whole, Texts, Times
    <3>2. \A t \in {"CPP_DATE", "CPP_RAW", "CPP_VECTOR"} : getOutCppType(t) = ""
      BY DEF getOutCppType, Whole, Texts, Times
    <3> QED
      BY <3>1, <3>2
  <2> QED
    BY <2>2, <2>3
<1> QED
  BY <1>1, <1>2, <1>3, <1>4, <1>5

\* In a program that g++ accepts the lookups agree.
LEMMA AcceptedAgrees ==
  ASSUME Built, pc = "compiled", NamesApart
  PROVE  SameTypes
<1>0. pc \in AfterCt /\ WellTyped
  BY DEF Built, Verdicts, AfterCt
<1>1. ASSUME NEW k \in DOMAIN ct
      PROVE  getOutCppType(ct[k].type) = Member(sales, MemberName(ct[k].name))
  <2> DEFINE c == ct[k].name
             param == getOutCppType(ct[k].type)
  <2>1. ct[k].name = query.v[k] /\ ct[k].type \in CtTypes(c)
    BY <1>0, Complete DEF Elements
  <2>2. param # "" /\ Passable(param, Member(sales, MemberName(c)))
    BY <1>0 DEF WellTyped, GroupsFound
  <2> HIDE DEF c
  <2>3. Member(sales, MemberName(c)) # "none"
    BY <2>2, MembersExist
  <2>4. PICK j \in DOMAIN columns : columns[j].name = c
    BY <1>0, <2>3, MemberOfSales
  <2>5. /\ ct[k].type = columns[j].ctype
        /\ Member(sales, MemberName(c)) = getOutCppType(columns[j].type)
    BY <1>0, <2>1, <2>4, ExactLookups
  <2>6. /\ columns[j].type \in SQLTypes
        /\ columns[j].ctype = getCppType(columns[j].type)
    BY <1>0, ColumnsApart, KnownType
  <2>7. getOutCppType(columns[j].type) # ""
    BY <2>2, <2>5, MembersExist DEF Numbers
  <2> QED
    BY <2>2, <2>5, <2>6, <2>7, DetourAgrees DEF c
<1>2. ASSUME NEW k \in DOMAIN select_columns
      PROVE  Member(mf_structure, MemberName(select_columns[k].name)) =
               Member(sales, MemberName(select_columns[k].name))
  <2> DEFINE c == select_columns[k].name
  <2>1. Assignable(Member(mf_structure, MemberName(c)), Member(sales, MemberName(c)))
    BY <1>0 DEF WellTyped, ColumnsCopied
  <2> HIDE DEF c
  <2>2. Member(sales, MemberName(c)) # "none" /\ Member(mf_structure, MemberName(c)) # "none"
    BY <2>1, MembersExist
  <2>3. PICK j \in DOMAIN columns : columns[j].name = c
    BY <1>0, <2>2, MemberOfSales
  <2>4. PICK m \in DOMAIN query.s :
          /\ ~IsAggregate(query.s[m]) /\ query.s[m].name = c
          /\ Member(mf_structure, MemberName(c)) = Selected(query.s[m]).type
    BY <1>0, <2>2, PlainOfMf
  <2> QED
    BY <1>0, <2>3, <2>4, ExactLookups DEF c
<1> QED
  BY <1>1, <1>2 DEF SameTypes

\* Where no name is part of another, the lookups by substring, by exact name and
\* through ctype find the same type, for every table and every query.
THEOREM LookupsFindTheSame == Spec => []LookupsAgree
<1>1. Built => LookupsAgree
  BY AcceptedAgrees DEF LookupsAgree
<1>2. QED
  BY <1>1, AlwaysBuilt, PTL

-----------------------------------------------------------------------------
(***************************************************************************)
(* Queries as the test files write them.                                   *)
(***************************************************************************)
Texted == Numbers \cup {"string"}

\* A text or a number has the same type in struct sales, as a parameter of vfind
\* and from the result set.
LEMMA SoundTypes ==
  ASSUME NEW type \in Texts \cup Whole \cup {"SQL_DOUBLE"}
  PROVE  /\ getOutCppType(type) \in Texted
         /\ type \notin Texts => getOutCppType(type) \in Numbers
         /\ getOutCppType(getCppType(type)) = getOutCppType(type)
         /\ Getter(getCppType(type)) = getOutCppType(type)
         /\ getCppType(type) \notin {"CPP_DATE", "CPP_RAW", "CPP_VECTOR"}
<1> USE DEF getCppType, getOutCppType, Getter, Texted, Numbers, Whole, Texts, Times
<1>1. CASE type \in Texts
  <2>1. getCppType(type) = "CPP_STRING" /\ getOutCppType(type) = "string"
    BY <1>1
  <2>2. getOutCppType("CPP_STRING") = "string" /\ Getter("CPP_STRING") = "string"
    OBVIOUS
  <2> QED
    BY <1>1, <2>1, <2>2
<1>2. CASE type \in Whole
  <2>1. getCppType(type) = "CPP_INT64" /\ getOutCppType(type) = "int64_t"
    BY <1>2
  <2>2. getOutCppType("CPP_INT64") = "int64_t" /\ Getter("CPP_INT64") = "int64_t"
    OBVIOUS
  <2> QED
    BY <2>1, <2>2
<1>3. CASE type = "SQL_DOUBLE"
  BY <1>3
<1> QED
  BY <1>1, <1>2, <1>3

\* The type of a column in the table, in every place that names the column.
LEMMA SaneColumn ==
  ASSUME Built, pc \in AfterCt, Sane, NEW c \in ColumnNames
  PROVE  \E k \in DOMAIN columns :
           /\ columns[k].name = c /\ k \in DOMAIN schema /\ schema[k].name = c
           /\ columns[k].type = getType(schema[k].data_type)
           /\ columns[k].type \in Texts \cup Whole \cup {"SQL_DOUBLE"}
           /\ Member(sales, MemberName(c)) = getOutCppType(columns[k].type)
           /\ Member(sales, MemberName(c)) \in Texted
           /\ CtTypes(c) = {getCppType(columns[k].type)}
           /\ \A attr : ~IsAggregate(attr) /\ attr.name = c =>
                Selected(attr).type = Member(sales, MemberName(c))
           /\ \A attr : attr.name = c => GroupColumn(attr).type = Member(sales, MemberName(c))
<1>1. PICK k \in DOMAIN schema : schema[k].name = c
  BY DEF ColumnNames
<1>2. k \in DOMAIN columns /\ columns[k].name = c
  BY <1>1, Complete DEF Elements, Column
<1>3. columns[k].type = getType(schema[k].data_type) /\ columns[k].ctype = getCppType(columns[k].type)
  BY <1>2, ColumnsApart
<1>4. columns[k].type \in Texts \cup Whole \cup {"SQL_DOUBLE"}
  BY <1>1, <1>3 DEF Sane
<1>5. NamesApart
  BY DEF Sane
<1>6. /\ CtTypes(c) = {columns[k].ctype}
      /\ \A attr : ~IsAggregate(attr) /\ attr.name = c =>
           Selected(attr).type = getOutCppType(columns[k].type)
      /\ \A attr : attr.name = c => GroupColumn(attr).type = getOutCppType(columns[k].type)
      /\ Member(sales, MemberName(c)) = getOutCppType(columns[k].type)
  BY <1>2, <1>5, ExactLookups
<1>7. getOutCppType(columns[k].type) \in Texted
  BY <1>4, SoundTypes
<1> QED
  BY <1>1, <1>2, <1>3, <1>4, <1>6, <1>7

\* get_helpers and group_aggregates throw for none of them.
LEMMA SaneNeverThrows ==
  ASSUME Built, pc \in AfterCt, Sane
  PROVE  ~Throws
<1>1. ASSUME NEW k \in DOMAIN ct
      PROVE  ct[k].type \notin {"CPP_DATE", "CPP_RAW", "CPP_VECTOR"}
  <2>1. k \in DOMAIN query.v /\ ct[k].type \in CtTypes(query.v[k])
    BY Complete DEF Elements
  <2>2. query.v[k] \in ColumnNames
    BY <2>1 DEF Sane, Range
  <2>3. PICK j \in DOMAIN columns :
          /\ columns[j].type \in Texts \cup Whole \cup {"SQL_DOUBLE"}
          /\ CtTypes(query.v[k]) = {getCppType(columns[j].type)}
    BY <2>2, SaneColumn
  <2> QED
    BY <2>1, <2>3, SoundTypes
<1>2. ASSUME NEW k \in DOMAIN query.f
      PROVE  ~(query.f[k].group > query.n)
  <2>1. query.f[k] \in Range(query.f) /\ query \in Queries
    BY Complete DEF Inputs, Range
  <2>2. query.f[k].group <= query.n
    BY <2>1 DEF Sane
  <2>3. query.f[k].group \in Nat /\ query.n \in Nat
    BY <2>1, InputsAssumption DEF Aggregate
  <2> QED
    BY <2>2, <2>3
<1> QED
  BY <1>1, <1>2 DEF Throws

\* An aggregate of F is a number wherever it is kept, and so is its column
\* unless it is counted.
LEMMA SaneAggregate ==
  ASSUME Built, pc \in AfterCt, Sane, NEW agg \in Range(query.f)
  PROVE  /\ Aggregate(agg) /\ agg.group + 1 \in DOMAIN groups
         /\ GroupAggregate(agg).type \in Numbers
         /\ IsAggregate(agg) => Selected(agg).type \in Numbers
         /\ Member(groups[agg.group + 1], toVar(agg)) \in Numbers
         /\ agg.func # "count" => Member(sales, MemberName(agg.column)) \in Numbers
<1>1. Aggregate(agg) /\ query.n \in Nat
  BY Complete, InputsAssumption DEF Inputs
<1>2. /\ agg.group <= query.n /\ agg.column \in ColumnNames
      /\ agg.func = "count" \/
           \E k \in DOMAIN schema :
             /\ schema[k].name = agg.column
             /\ getType(schema[k].data_type) \in Whole \cup {"SQL_DOUBLE"}
  BY DEF Sane
<1>3. agg.group \in Nat /\ agg.group + 1 \in 1 .. query.n + 1 /\ (agg.group + 1) - 1 = agg.group
  BY <1>1, <1>2 DEF Aggregate
<1>4. agg.group + 1 \in DOMAIN groups
  BY <1>3, Complete
<1>5. PICK c \in DOMAIN columns :
        /\ columns[c].name = agg.column /\ c \in DOMAIN schema /\ schema[c].name = agg.column
        /\ columns[c].type = getType(schema[c].data_type)
        /\ columns[c].type \in Texts \cup Whole \cup {"SQL_DOUBLE"}
        /\ Member(sales, MemberName(agg.column)) = getOutCppType(columns[c].type)
  BY <1>2, SaneColumn
<1>6. ASSUME agg.func # "count"
      PROVE  getOutCppType(columns[c].type) \in Numbers
  <2>1. PICK k \in DOMAIN schema :
          /\ schema[k].name = agg.column
          /\ getType(schema[k].data_type) \in Whole \cup {"SQL_DOUBLE"}
    BY <1>2, <1>6
  <2>2. k = c
    BY <1>5, <2>1, Complete, InputsAssumption DEF Inputs
  <2>3. columns[c].type \in Whole \cup {"SQL_DOUBLE"}
    BY <1>5, <2>1, <2>2
  <2>4. columns[c].type \notin Texts
    BY <2>3 DEF Texts, Whole
  <2> QED
    BY <2>3, <2>4, SoundTypes
<1> DEFINE H == {m \in DOMAIN columns : Finds(agg.column, columns[m].name)}
<1>7. FirstType(H) = getOutCppType(columns[c].type)
  <2>1. NamesApart
    BY DEF Sane
  <2>2. \A m \in DOMAIN columns : Finds(agg.column, columns[m].name) <=> m = c
    BY <1>5, <2>1, ColumnsApart
  <2>3. c \in H /\ \A m \in H : m = c
    BY <2>2
  <2>4. c \in Nat
    BY Positions
  <2> HIDE DEF H
  <2>5. H # {} /\ Min(H) = c
    BY <2>3, <2>4, OnlyHit
  <2> QED
    BY <2>5 DEF FirstType
<1>8. GroupAggregate(agg).type \in Numbers
  <2>1. GroupAggregate(agg).type = IF agg.func = "count" THEN "int64_t" ELSE FirstType(H)
    BY DEF GroupAggregate
  <2> HIDE DEF H
  <2> QED
    BY <1>6, <1>7, <2>1 DEF Numbers
<1>9. ASSUME IsAggregate(agg) PROVE Selected(agg).type \in Numbers
  <2> DEFINE A == {m \in DOMAIN columns : InAttribute(agg, columns[m].name)}
  <2>1. c \in A
    BY <1>5, <1>9 DEF InAttribute, Finds
  <2>2. A \subseteq Nat /\ A \subseteq DOMAIN columns
    BY Positions
  <2>3. Selected(agg).type = IF FirstType(A) = "string" THEN "int64_t" ELSE FirstType(A)
    BY <1>9 DEF Selected
  <2> HIDE DEF A
  <2>4. A # {} /\ Min(A) \in DOMAIN columns
    BY <2>1, <2>2, MinIs
  <2>5. columns[Min(A)].type \in Texts \cup Whole \cup {"SQL_DOUBLE"}
    BY <2>4, ColumnsApart, Complete DEF Sane
  <2>6. FirstType(A) \in Texted
    BY <2>4, <2>5, SoundTypes DEF FirstType
  <2> QED
    BY <2>3, <2>6 DEF Texted, Numbers
<1>10. Member(groups[agg.group + 1], toVar(agg)) = GroupAggregate(agg).type
  <2>1. PICK b \in Range(query.f) :
          /\ b.group = agg.group /\ b.func = agg.func /\ b.column = agg.column
          /\ Member(groups[agg.group + 1], toVar(agg)) = GroupAggregate(b).type
    BY <1>3, <1>4, AggregateOfGroup
  <2>2. Aggregate(b)
    BY Complete, InputsAssumption DEF Inputs
  <2>3. b = agg
    BY <1>1, <2>1, <2>2 DEF Aggregate
  <2> QED
    BY <2>1, <2>3
<1> QED
  BY <1>1, <1>4, <1>5, <1>6, <1>8, <1>9, <1>10

\* What a plain column of S is called, and where its type comes from.
LEMMA SanePlain ==
  ASSUME Built, pc \in AfterCt, Sane, NEW c \in Plain
  PROVE  /\ c \in ColumnNames
         /\ Member(sales, MemberName(c)) \in Texted
         /\ Member(mf_structure, MemberName(c)) = Member(sales, MemberName(c))
         /\ \A g \in DOMAIN groups :
              Member(groups[g], MemberName(c)) = Member(sales, MemberName(c))
<1>1. c \in ColumnNames
  BY DEF Sane
<1>2. /\ Member(sales, MemberName(c)) \in Texted
      /\ \A attr : ~IsAggregate(attr) /\ attr.name = c =>
           Selected(attr).type = Member(sales, MemberName(c))
      /\ \A attr : attr.name = c => GroupColumn(attr).type = Member(sales, MemberName(c))
  BY <1>1, SaneColumn
<1>3. PICK k \in DOMAIN select_columns : select_columns[k].name = c
  BY DEF Plain
<1>4. \E j \in DOMAIN query.s : ~IsAggregate(query.s[j]) /\ query.s[j].name = c
  BY <1>3, PlainIs DEF Range
<1>5. Member(mf_structure, MemberName(c)) = Member(sales, MemberName(c))
  BY <1>2, <1>4, PlainOfMf
<1>6. ASSUME NEW g \in DOMAIN groups
      PROVE  Member(groups[g], MemberName(c)) = Member(sales, MemberName(c))
  BY <1>2, <1>3, PlainOfGroup
<1> QED
  BY <1>1, <1>2, <1>5, <1>6

\* An aggregate of S is one of F.
LEMMA SaneSelected ==
  ASSUME Built, pc \in AfterCt, Sane, NEW k \in DOMAIN query.s, IsAggregate(query.s[k])
  PROVE  query.s[k] \in Range(query.f)
<1> DEFINE S == {attr \in Range(query.s) : IsAggregate(attr)}
           p == select_aggregates
<1>1. /\ p \in Seq(Range(query.s)) /\ KeptOf(query.s, S, Len(query.s), p)
      /\ query.s \in Seq(Range(query.s))
  BY Complete, ChosenOfQuery
<1>2. query.s[k] \in S
  BY DEF Range
<1> HIDE DEF S, p
<1>3. DOMAIN p = 1 .. Len(p) /\ DOMAIN query.s = 1 .. Len(query.s)
  BY <1>1
<1>4. PICK j \in DOMAIN p : p[j] = query.s[k]
  BY <1>1, <1>2, <1>3 DEF KeptOf
<1>5. query.s[k] \in Range(select_aggregates)
  BY <1>4 DEF Range, p
<1> QED
  BY <1>5 DEF Sane

\* struct sales is a struct.
LEMMA SaneSales ==
  ASSUME Built, pc \in AfterCt, Sane
  PROVE  ValidStruct(sales)
<1>1. /\ DOMAIN sales = DOMAIN columns /\ DOMAIN sales = DOMAIN schema
      /\ \A k \in DOMAIN sales : /\ sales[k].name = <<columns[k].name>>
                                 /\ sales[k].type = getOutCppType(columns[k].type)
  BY Complete DEF Elements, MemberName
<1>2. ASSUME NEW k \in DOMAIN sales PROVE sales[k].type \in Texted
  <2>1. columns[k].type \in Texts \cup Whole \cup {"SQL_DOUBLE"}
    BY <1>1, ColumnsApart DEF Sane
  <2> QED
    BY <1>1, <2>1, SoundTypes
<1>3. ASSUME NEW j \in DOMAIN sales, NEW k \in DOMAIN sales, sales[j].name = sales[k].name
      PROVE  j = k
  <2>1. columns[j].name = columns[k].name
    BY <1>1, <1>3, Names
  <2> QED
    BY <1>1, <2>1, ColumnsApart
<1> QED
  BY <1>2, <1>3 DEF ValidStruct, Texted

\* struct mf_structure is a struct.
LEMMA SaneMf ==
  ASSUME Built, pc \in AfterCt, Sane
  PROVE  ValidStruct(mf_structure)
<1>1. DOMAIN mf_structure = DOMAIN query.s
  BY Complete
<1>2. \A k \in DOMAIN query.s : mf_structure[k] = Selected(query.s[k])
  BY Complete DEF Elements
<1>3. \A a : Selected(a).name = IF IsAggregate(a) THEN toABSVar(a) ELSE <<a.name>>
  BY DEF Selected, MemberName
<1>4. \A k \in DOMAIN query.s : query.s[k] \in Range(query.s)
  BY DEF Range
<1>5. \A a \in Range(query.s) :
        IF IsAggregate(a) THEN Aggregate(a) ELSE a = [name |-> a.name]
  BY Complete, InputsAssumption DEF Inputs
<1>6. ASSUME NEW k \in DOMAIN query.s PROVE Selected(query.s[k]).type \in Texted
  <2>1. CASE IsAggregate(query.s[k])
    BY <2>1, SaneSelected, SaneAggregate DEF Texted
  <2>2. CASE ~IsAggregate(query.s[k])
    <3> DEFINE c == query.s[k].name
    <3>1. c \in ColumnNames
      BY <2>2, PlainIs DEF Sane
    <3> HIDE DEF c
    <3>2. /\ Member(sales, MemberName(c)) \in Texted
          /\ \A attr : ~IsAggregate(attr) /\ attr.name = c =>
               Selected(attr).type = Member(sales, MemberName(c))
      BY <3>1, SaneColumn
    <3> QED
      BY <2>2, <3>2 DEF c
  <2> QED
    BY <2>1, <2>2
<1>7. ASSUME NEW j \in DOMAIN query.s, NEW k \in DOMAIN query.s,
             Selected(query.s[j]).name = Selected(query.s[k]).name
      PROVE  j = k
  <2> DEFINE a == query.s[j]
             b == query.s[k]
  <2>0. /\ IF IsAggregate(a) THEN Aggregate(a) ELSE a = [name |-> a.name]
        /\ IF IsAggregate(b) THEN Aggregate(b) ELSE b = [name |-> b.name]
        /\ Selected(a).name = Selected(b).name
    BY <1>4, <1>5, <1>7
  <2>1. \A x, y : toABSVar(x) # <<y>>
    BY Names DEF toABSVar, toVar
  <2>2. a = b
    <3> HIDE DEF a, b
    <3>1. CASE IsAggregate(a) /\ IsAggregate(b)
      BY <1>3, <2>0, <3>1, AggregateNames
    <3>2. CASE ~IsAggregate(a) /\ ~IsAggregate(b)
      <4>1. <<a.name>> = <<b.name>>
        BY <1>3, <2>0, <3>2
      <4>2. a.name = b.name
        BY <4>1, Names
      <4> QED
        BY <2>0, <3>2, <4>2
    <3>3. CASE IsAggregate(a) /\ ~IsAggregate(b)
      BY <1>3, <2>0, <2>1, <3>3
    <3>4. CASE ~IsAggregate(a) /\ IsAggregate(b)
      BY <1>3, <2>0, <2>1, <3>4
    <3> QED
      BY <3>1, <3>2, <3>3, <3>4
  <2> QED
    BY <2>2 DEF Sane, IsInjective
<1> QED
  BY <1>1, <1>2, <1>6, <1>7 DEF ValidStruct, Texted

\* The structs of the grouping variables are structs.
LEMMA SaneGroups ==
  ASSUME Built, pc \in AfterCt, Sane, NEW g \in DOMAIN groups
  PROVE  ValidStruct(groups[g])
<1> DEFINE a == OfGroup(query.f, g - 1)
           p == select_columns
           f == GroupFields(g - 1)
<1>0. Inputs
  BY Complete
<1>1. groups[g] = f
  BY Complete DEF Elements
<1>2. /\ Len(p) \in Nat /\ Len(a) \in Nat
      /\ DOMAIN p = 1 .. Len(p) /\ DOMAIN a = 1 .. Len(a)
      /\ DOMAIN f = 1 .. Len(p) + Len(a)
      /\ \A k \in 1 .. Len(p) : f[k] = GroupColumn(p[k])
      /\ \A k \in 1 .. Len(a) : f[Len(p) + k] = GroupAggregate(a[k])
  BY <1>0, FieldsOfGroup
<1>3. query.s \in Seq(Range(query.s)) /\ query.f \in Seq(Range(query.f))
  BY <1>0, InputsAssumption DEF Inputs
<1>4. \A j, k \in DOMAIN p : p[j] = p[k] => j = k
  <2>1. \A j, k \in 1 .. Len(query.s) : query.s[j] = query.s[k] => j = k
    BY <1>3 DEF Sane, IsInjective
  <2>2. KeptOf(query.s, {attr \in Range(query.s) : ~IsAggregate(attr)}, Len(query.s), p)
    BY <1>0, ChosenOfQuery
  <2> HIDE DEF p
  <2> QED
    BY <1>2, <2>1, <2>2 DEF KeptOf
<1>5. /\ \A j, k \in DOMAIN a : a[j] = a[k] => j = k
      /\ \A j \in DOMAIN a : a[j] \in Range(query.f) /\ a[j].group = g - 1
  <2> DEFINE S == {agg \in Range(query.f) : agg.group = g - 1}
  <2>1. \A j, k \in 1 .. Len(query.f) : query.f[j] = query.f[k] => j = k
    BY <1>3 DEF Sane, IsInjective
  <2>2. KeptOf(query.f, S, Len(query.f), a)
    BY <1>0, ChosenOfQuery
  <2>3. \A x \in S : x \in Range(query.f) /\ x.group = g - 1
    OBVIOUS
  <2> HIDE DEF a, S
  <2> QED
    BY <1>2, <2>1, <2>2, <2>3 DEF KeptOf
<1>6. \A j \in DOMAIN p : p[j] = [name |-> p[j].name] /\ p[j].name \in Plain
  BY <1>0, PlainIs, InputsAssumption DEF Inputs, Plain
<1>7. \A j \in DOMAIN a : Aggregate(a[j])
  BY <1>0, <1>5, InputsAssumption DEF Inputs
<1>8. \A j \in DOMAIN p : GroupColumn(p[j]).type \in Texted
  <2> SUFFICES ASSUME NEW j \in DOMAIN p PROVE GroupColumn(p[j]).type \in Texted
    OBVIOUS
  <2> DEFINE c == p[j].name
  <2>1. c \in ColumnNames
    BY <1>6, SanePlain
  <2> HIDE DEF c
  <2>2. /\ Member(sales, MemberName(c)) \in Texted
        /\ \A attr : attr.name = c => GroupColumn(attr).type = Member(sales, MemberName(c))
    BY <2>1, SaneColumn
  <2> QED
    BY <2>2 DEF c
<1>9. \A j \in DOMAIN a : GroupAggregate(a[j]).type \in Texted
  BY <1>5, SaneAggregate DEF Texted
<1>10. /\ \A x, y : GroupColumn(x).name = GroupColumn(y).name => x.name = y.name
       /\ \A x, y : GroupAggregate(x).name = GroupAggregate(y).name =>
            x.func = y.func /\ x.column = y.column
       /\ \A x, y : GroupColumn(x).name # GroupAggregate(y).name
  BY Names DEF GroupColumn, GroupAggregate, MemberName, toVar
<1>11. \A j, k \in DOMAIN p : GroupColumn(p[j]).name = GroupColumn(p[k]).name => j = k
  <2> SUFFICES ASSUME NEW j \in DOMAIN p, NEW k \in DOMAIN p,
                      GroupColumn(p[j]).name = GroupColumn(p[k]).name
               PROVE  j = k
    OBVIOUS
  <2>1. p[j].name = p[k].name
    BY <1>10
  <2>2. p[j] = p[k]
    BY <1>6, <2>1
  <2> QED
    BY <1>4, <2>2
<1>12. \A j, k \in DOMAIN a : GroupAggregate(a[j]).name = GroupAggregate(a[k]).name => j = k
  <2> SUFFICES ASSUME NEW j \in DOMAIN a, NEW k \in DOMAIN a,
                      GroupAggregate(a[j]).name = GroupAggregate(a[k]).name
               PROVE  j = k
    OBVIOUS
  <2>1. a[j].func = a[k].func /\ a[j].column = a[k].column /\ a[j].group = a[k].group
    BY <1>5, <1>10
  <2>2. a[j] = a[k]
    BY <1>7, <2>1 DEF Aggregate
  <2> QED
    BY <1>5, <2>2
<1> HIDE DEF a, p, f
<1>13. ASSUME NEW k \in DOMAIN f
       PROVE  \/ k \in DOMAIN p /\ f[k] = GroupColumn(p[k])
              \/ k - Len(p) \in DOMAIN a /\ f[k] = GroupAggregate(a[k - Len(p)])
  <2>1. CASE k <= Len(p)
    BY <1>2, <2>1
  <2>2. CASE ~(k <= Len(p))
    <3>1. k - Len(p) \in 1 .. Len(a) /\ Len(p) + (k - Len(p)) = k
      BY <1>2, <2>2
    <3> QED
      BY <1>2, <3>1
  <2> QED
    BY <2>1, <2>2
<1>14. \A k \in DOMAIN f : f[k].type \in Texted
  BY <1>8, <1>9, <1>13
<1>15. ASSUME NEW j \in DOMAIN f, NEW k \in DOMAIN f, f[j].name = f[k].name
       PROVE  j = k
  <2>0. j \in Int /\ k \in Int /\ Len(p) \in Int
    BY <1>2
  <2>1. CASE j \in DOMAIN p /\ f[j] = GroupColumn(p[j])
    <3>1. k \in DOMAIN p /\ f[k] = GroupColumn(p[k])
      BY <1>10, <1>13, <1>15, <2>1
    <3> QED
      BY <1>11, <1>15, <2>1, <3>1
  <2>2. CASE j - Len(p) \in DOMAIN a /\ f[j] = GroupAggregate(a[j - Len(p)])
    <3>1. k - Len(p) \in DOMAIN a /\ f[k] = GroupAggregate(a[k - Len(p)])
      BY <1>10, <1>13, <1>15, <2>2
    <3>2. j - Len(p) = k - Len(p)
      BY <1>12, <1>15, <2>2, <3>1
    <3> QED
      BY <2>0, <3>2
  <2> QED
    BY <1>13, <2>1, <2>2
<1> QED
  BY <1>1, <1>14, <1>15 DEF ValidStruct, Texted

\* Every statement that reads a row, copies a column, looks for a group, updates
\* an aggregate or fills mf_structure has the types it needs.
LEMMA SaneStatements ==
  ASSUME Built, pc \in AfterCt, Sane
  PROVE  /\ RowsLoad /\ ColumnsCopied /\ GroupsFound
         /\ \A k \in DOMAIN query.f : Updates(query.f[k])
         /\ \A k \in DOMAIN select_aggregates : AggregateFilled(select_aggregates[k])
<1>0. \A t \in Texted : Assignable(t, t) /\ Passable(t, t) /\ t # ""
  BY DEF Texted, Assignable, Passable, Numbers
<1>1. RowsLoad
  <2> SUFFICES ASSUME NEW k \in DOMAIN columns
               PROVE  Assignable(Member(sales, MemberName(columns[k].name)), Getter(columns[k].ctype))
    BY DEF RowsLoad
  <2>1. NamesApart
    BY DEF Sane
  <2>2. Member(sales, MemberName(columns[k].name)) = getOutCppType(columns[k].type)
    BY <2>1, ExactLookups
  <2>3. /\ columns[k].type \in Texts \cup Whole \cup {"SQL_DOUBLE"}
        /\ columns[k].ctype = getCppType(columns[k].type)
    BY ColumnsApart, Complete DEF Sane
  <2>4. Getter(columns[k].ctype) = getOutCppType(columns[k].type) /\ getOutCppType(columns[k].type) \in Texted
    BY <2>3, SoundTypes
  <2> QED
    BY <1>0, <2>2, <2>4
<1>2. ColumnsCopied
  <2> SUFFICES ASSUME NEW k \in DOMAIN select_columns
               PROVE  LET name == MemberName(select_columns[k].name)
                      IN  /\ Assignable(Member(mf_structure, name), Member(sales, name))
                          /\ \A g \in DOMAIN groups :
                               Assignable(Member(groups[g], name), Member(sales, name))
    BY DEF ColumnsCopied
  <2>1. select_columns[k].name \in Plain
    BY DEF Plain
  <2> QED
    BY <1>0, <2>1, SanePlain
<1>3. GroupsFound
  <2>0. ct # <<>>
    <3>1. query.v \in Seq(Range(query.v)) /\ query.v # <<>> /\ DOMAIN ct = DOMAIN query.v
      BY Complete DEF Sane
    <3>2. 1 \in DOMAIN query.v
      BY <3>1
    <3> QED
      BY <3>1, <3>2
  <2> SUFFICES ASSUME NEW k \in DOMAIN ct
               PROVE  LET name  == MemberName(ct[k].name)
                          param == getOutCppType(ct[k].type)
                      IN  /\ param # "" /\ Passable(param, Member(sales, name))
                          /\ Passable(param, Member(mf_structure, name))
                          /\ \A g \in DOMAIN groups : Passable(param, Member(groups[g], name))
    BY <2>0 DEF GroupsFound
  <2> DEFINE c == ct[k].name
  <2>1. k \in DOMAIN query.v /\ c = query.v[k] /\ ct[k].type \in CtTypes(c)
    BY Complete DEF Elements
  <2>2. c \in Plain
    BY <2>1 DEF Sane, Range
  <2> HIDE DEF c
  <2>3. c \in ColumnNames
    BY <2>2, SanePlain
  <2>4. PICK j \in DOMAIN columns :
          /\ columns[j].type \in Texts \cup Whole \cup {"SQL_DOUBLE"}
          /\ Member(sales, MemberName(c)) = getOutCppType(columns[j].type)
          /\ CtTypes(c) = {getCppType(columns[j].type)}
    BY <2>3, SaneColumn
  <2>5. getOutCppType(ct[k].type) = Member(sales, MemberName(c))
    BY <2>1, <2>4, SoundTypes
  <2>6. /\ Member(sales, MemberName(c)) \in Texted
        /\ Member(mf_structure, MemberName(c)) = Member(sales, MemberName(c))
        /\ \A g \in DOMAIN groups : Member(groups[g], MemberName(c)) = Member(sales, MemberName(c))
    BY <2>2, SanePlain
  <2> QED
    BY <1>0, <2>5, <2>6 DEF c
<1>4. ASSUME NEW k \in DOMAIN query.f PROVE Updates(query.f[k])
  <2> DEFINE agg == query.f[k]
             field == Member(groups[agg.group + 1], toVar(agg))
             row == Member(sales, MemberName(agg.column))
  <2>1. agg \in Range(query.f)
    BY DEF Range
  <2>2. field \in Numbers /\ (agg.func # "count" => row \in Numbers)
    BY <2>1, SaneAggregate
  <2> SUFFICES Updates(agg)
    OBVIOUS
  <2> HIDE DEF agg, field, row
  <2>3. field # "vector<string>"
    BY <2>2 DEF Numbers
  <2>4. agg.func # "count" => Passable(field, row) /\ Assignable(field, row)
    BY <2>2 DEF Passable, Assignable
  <2>5. CASE agg.func \in Averages
    BY <2>3, <2>4, <2>5 DEF Updates, Averages, field, row
  <2>6. CASE agg.func \in {"sum", "SUM"}
    BY <2>3, <2>4, <2>6 DEF Updates, Averages, field, row
  <2>7. CASE agg.func \in {"count", "COUNT"}
    BY <2>3, <2>7 DEF Updates, Averages, field, row
  <2>8. CASE agg.func \in {"min", "MIN", "max", "MAX"}
    BY <2>4, <2>8 DEF Updates, Averages, field, row
  <2>9. CASE agg.func \notin Averages \cup {"sum", "SUM", "count", "COUNT", "min", "MIN", "max", "MAX"}
    BY <2>9 DEF Updates, Averages
  <2> QED
    BY <2>5, <2>6, <2>7, <2>8, <2>9
<1>5. ASSUME NEW k \in DOMAIN select_aggregates PROVE AggregateFilled(select_aggregates[k])
  <2> DEFINE agg == select_aggregates[k]
  <2>1. agg \in Range(select_aggregates)
    BY DEF Range
  <2>2. agg \in Range(query.f)
    BY <2>1 DEF Sane
  <2>3. Aggregate(agg) /\ IsAggregate(agg) /\ agg \in Range(query.s)
    BY <2>1, AggregatesAre
  <2> HIDE DEF agg
  <2>4. /\ agg.group + 1 \in DOMAIN groups
        /\ Selected(agg).type \in Numbers
        /\ Member(groups[agg.group + 1], toVar(agg)) \in Numbers
    BY <2>2, <2>3, SaneAggregate
  <2>5. PICK j \in DOMAIN query.s : query.s[j] = agg
    BY <2>3 DEF Range
  <2>6. Member(mf_structure, toABSVar(agg)) = Selected(agg).type
    BY <2>3, <2>5, AggregateOfMf
  <2>7. AggregateFilled(agg)
    BY <2>4, <2>6 DEF AggregateFilled, Assignable
  <2> QED
    BY <2>7 DEF agg
<1> QED
  BY <1>1, <1>2, <1>3, <1>4, <1>5

\* g++ refuses none of them.
LEMMA SaneIsWellTyped ==
  ASSUME Built, pc \in AfterCt, Sane
  PROVE  WellTyped
BY SaneSales, SaneMf, SaneGroups, SaneStatements, Complete DEF WellTyped

\* For every table of texts, integers and doubles and every query as the test files
\* write them, final writes a program and g++ accepts its declarations.
THEOREM SaneQueriesAreAccepted == Spec => []SaneQueriesCompile
<1>1. ASSUME Built PROVE SaneQueriesCompile
  <2>1. ASSUME pc \in {"thrown", "refused"}, Sane PROVE FALSE
    <3>1. pc \in AfterCt
      BY <2>1 DEF AfterCt
    <3>2. ~Throws /\ WellTyped
      BY <1>1, <2>1, <3>1, SaneNeverThrows, SaneIsWellTyped
    <3> QED
      BY <1>1, <2>1, <3>2 DEF Built, Verdicts
  <2> QED
    BY <2>1 DEF SaneQueriesCompile
<1>2. QED
  BY <1>1, AlwaysBuilt, PTL
=============================================================================
