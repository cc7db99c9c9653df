--------------------------- MODULE ExplodeProofs ----------------------------
(***************************************************************************)
(* Proofs about explode and c_explode, for strings of any length.          *)
(***************************************************************************)
EXTENDS Explode, Induction, SequenceTheorems, TLAPS

\* The rest only ever gets shorter, so its length is below SizeMod and the
\* loop bound wraps only when the rest is shorter than the delimiter.
IInv == TypeOK /\ Len(subj) <= Len(subject) /\ ThrowsOnlyOnShortRest

\* The subject and the delimiter are finite strings shorter than SizeMod.
LEMMA Sizes ==
  ASSUME IInv
  PROVE  /\ quan \in Seq(Char) /\ Len(quan) \in Nat /\ 0 < Len(quan)
         /\ Len(subj) \in Nat /\ Len(subj) < SizeMod /\ SizeMod \in Nat
         /\ i \in Nat
<1>1. quan \in Seq(Char) /\ 0 < Len(quan) /\ SizeMod \in Nat
  BY SizeAssumption DEF IInv, TypeOK
<1>2. subject \in Seq(Char) /\ Len(subject) < SizeMod
  BY SizeAssumption DEF IInv, TypeOK
<1>3. Len(subj) \in Nat /\ Len(subject) \in Nat /\ Len(subj) <= Len(subject)
  BY <1>2 DEF IInv, TypeOK
<1>4. QED
  BY <1>1, <1>2, <1>3 DEF IInv, TypeOK

\* What is left from some position on.
LEMMA RestShorter ==
  ASSUME NEW s \in Seq(Char), NEW k \in Nat
  PROVE  /\ SubSeq(s, k + 1, Len(s)) \in Seq(Char)
         /\ Len(SubSeq(s, k + 1, Len(s))) \in Nat
         /\ Len(SubSeq(s, k + 1, Len(s))) <= Len(s)
OBVIOUS

\* No wrap-around while the rest is as long as the delimiter.
LEMMA BoundExact ==
  ASSUME IInv, Len(quan) <= Len(subj)
  PROVE  LoopBound = Len(subj) - Len(quan)
<1>1. slength - Len(quan) = Len(subj) - Len(quan)
  BY DEF IInv, TypeOK
<1>2. ASSUME NEW n \in Nat, NEW m \in Nat, n < m PROVE n % m = n
  BY <1>2
<1>3. /\ Len(subj) - Len(quan) \in Nat
      /\ Len(subj) - Len(quan) < SizeMod
  BY Sizes
<1>4. QED
  BY <1>1, <1>2, <1>3, Sizes DEF LoopBound

\* A call starts in the invariant.
LEMMA InitIInv == Init => IInv
<1> SUFFICES ASSUME Init PROVE IInv
  OBVIOUS
<1>1. subject \in Seq(Char) /\ Len(subject) \in Nat
  BY SizeAssumption DEF Init
<1>2. TypeOK
  BY <1>1 DEF Init, TypeOK
<1>3. Len(subj) <= Len(subject) /\ ThrowsOnlyOnShortRest
  BY <1>1 DEF Init, ThrowsOnlyOnShortRest
<1>4. QED
  BY <1>2, <1>3 DEF IInv

\* Every loop iteration keeps the invariant.
LEMMA NextIInv == IInv /\ [Next]_vars => IInv'
<1> SUFFICES ASSUME IInv, [Next]_vars PROVE IInv'
  OBVIOUS
<1>1. CASE Throw
  <2>1. Len(subj) < Len(quan)
    <3>1. SUFFICES ASSUME Len(quan) <= Len(subj) PROVE FALSE
      BY Sizes
    <3>2. LoopBound = Len(subj) - Len(quan)
      BY <3>1, BoundExact
    <3>3. i < Len(subj)
      BY <1>1, <3>2, Sizes DEF Throw
    <3>4. QED
      BY <1>1, <3>3, Sizes DEF Throw, InRange
  <2>2. QED
    BY <1>1, <2>1 DEF Throw, IInv, TypeOK, ThrowsOnlyOnShortRest
<1>2. CASE Skip
  <2>1. i' \in 0 .. Len(subj) + 1
    BY <1>2, Sizes DEF Skip, InRange
  <2>2. UNCHANGED <<fn, quan, subject, subj, slength, out, pc>>
    BY <1>2 DEF Skip
  <2>3. QED
    BY <2>1, <2>2 DEF IInv, TypeOK, ThrowsOnlyOnShortRest
<1>3. CASE Cut
  <2>1. i + Len(quan) \in Nat /\ i + Len(quan) <= Len(subj) /\ subj \in Seq(Char)
    BY <1>3, Sizes DEF Cut, IInv, TypeOK
  <2>2. subj' \in Seq(Char) /\ Len(subj') \in Nat /\ Len(subj') <= Len(subj)
    <3>1. subj' = SubSeq(subj, i + Len(quan) + 1, Len(subj))
      BY <1>3 DEF Cut
    <3> QED
      BY <2>1, <3>1, RestShorter
  <2>3. SubSeq(subj, 1, i) \in Seq(Char)
    BY <2>1, Sizes
  <2>4. out' \in Seq(Seq(Char))
    BY <1>3, <2>3, AppendProperties DEF Cut, IInv, TypeOK
  <2>5. i' \in 0 .. Len(subj') + 1 /\ slength' = Len(subj')
    BY <1>3, <2>2 DEF Cut
  <2>6. Len(subj') <= Len(subject')
    <3>1. Len(subject) \in Nat /\ Len(subj) <= Len(subject)
      BY SizeAssumption DEF IInv, TypeOK
    <3>2. QED
      BY <1>3, <2>2, <3>1, Sizes DEF Cut
  <2>7. QED
    BY <1>3, <2>2, <2>4, <2>5, <2>6 DEF Cut, IInv, TypeOK, ThrowsOnlyOnShortRest
<1>4. CASE Return
  <2>1. out' \in Seq(Seq(Char))
    BY <1>4, AppendProperties DEF Return, IInv, TypeOK
  <2>2. QED
    BY <1>4, <2>1 DEF Return, IInv, TypeOK, ThrowsOnlyOnShortRest
<1>5. CASE UNCHANGED vars
  BY <1>5 DEF vars, IInv, TypeOK, ThrowsOnlyOnShortRest
<1>6. QED
  BY <1>1, <1>2, <1>3, <1>4, <1>5 DEF Next

\* explode and c_explode read outside the string in no other case than a rest
\* shorter than the delimiter, whatever the subject.
THEOREM ThrowsOnlyThen == Spec => []ThrowsOnlyOnShortRest
<1>1. IInv => ThrowsOnlyOnShortRest
  BY DEF IInv
<1>2. QED
  BY <1>1, InitIInv, NextIInv, PTL DEF Spec

\* The length the loop condition sees is the length of the rest, and the index
\* passes the end by at most one, in every call.
THEOREM TypeCorrect == Spec => []TypeOK
<1>1. IInv => TypeOK
  BY DEF IInv
<1>2. QED
  BY <1>1, InitIInv, NextIInv, PTL DEF Spec

(***************************************************************************)
(* Joining the parts again: no character is lost.                          *)
(***************************************************************************)

\* The function Join builds, as a function of its own.
JoinFn(q, parts) == CHOOSE f : f = [k \in DOMAIN parts |-> IF k = 1 THEN parts[1] ELSE f[k - 1] \o q \o parts[k]]

\* Join is the last value of that function.
LEMMA JoinIsLast ==
  ASSUME NEW q, NEW parts
  PROVE Join(q, parts) = IF parts = <<>> THEN <<>> ELSE JoinFn(q, parts)[Len(parts)]
BY DEF Join, JoinFn

\* It is defined for every part, and by its recursion.
LEMMA JoinFnExists ==
  ASSUME NEW q \in Seq(Char), NEW parts \in Seq(Seq(Char))
  PROVE  /\ JoinFn(q, parts) \in [DOMAIN parts -> Seq(Char)]
         /\ \A k \in DOMAIN parts :
              JoinFn(q, parts)[k] = IF k = 1 THEN parts[1] ELSE JoinFn(q, parts)[k - 1] \o q \o parts[k]
<1> DEFINE I == DOMAIN parts
           D == Seq(Char)
           mu == [k \in I |-> k]
           B == Len(parts) + 1
           step == [p \in I \X [I -> D] |->
                      IF p[1] = 1 THEN parts[1] ELSE p[2][p[1] - 1] \o q \o parts[p[1]]]
<1>1. I = 1 .. Len(parts) /\ Len(parts) \in Nat /\ \A k \in I : parts[k] \in D
  BY LenProperties
<1>2. mu \in [I -> Nat] /\ \A k \in I : mu[k] < B
  BY <1>1
<1>3. ASSUME NEW k \in I, NEW f \in [I -> D]
      PROVE  step[<<k, f>>] = IF k = 1 THEN parts[1] ELSE f[k - 1] \o q \o parts[k]
  OBVIOUS
<1>4. step \in [I \X [I -> D] -> D]
  <2>1. ASSUME NEW p \in I \X [I -> D]
        PROVE (IF p[1] = 1 THEN parts[1] ELSE p[2][p[1] - 1] \o q \o parts[p[1]]) \in D
    <3>1. p[1] \in I /\ p[2] \in [I -> D]
      OBVIOUS
    <3>2. CASE p[1] = 1
      BY <3>1, <3>2, <1>1
    <3>3. CASE p[1] # 1
      <4>1. p[1] - 1 \in I
        BY <3>1, <3>3, <1>1
      <4>2. p[2][p[1] - 1] \in D /\ parts[p[1]] \in D
        BY <3>1, <4>1, <1>1
      <4> HIDE DEF I
      <4>3. p[2][p[1] - 1] \o q \in D
        BY <4>2, ConcatProperties
      <4> QED
        BY <3>3, <4>2, <4>3, ConcatProperties
    <3> QED
      BY <3>2, <3>3
  <2> QED
    BY <2>1
<1>5. \A k \in I : \A f, g \in [I -> D] :
        (\A j \in I : mu[j] < mu[k] => f[j] = g[j]) => step[<<k, f>>] = step[<<k, g>>]
  <2>0. SUFFICES ASSUME NEW k \in I, NEW f \in [I -> D], NEW g \in [I -> D],
                        \A j \in I : mu[j] < mu[k] => f[j] = g[j]
                 PROVE  step[<<k, f>>] = step[<<k, g>>]
    OBVIOUS
  <2>1. k # 1 => k - 1 \in I /\ mu[k - 1] < mu[k]
    BY <1>1
  <2>2. k # 1 => f[k - 1] = g[k - 1]
    BY <2>1, <2>0
  <2> HIDE DEF step, D, mu, I
  <2>3. step[<<k, f>>] = IF k = 1 THEN parts[1] ELSE f[k - 1] \o q \o parts[k]
    BY <1>3
  <2>4. step[<<k, g>>] = IF k = 1 THEN parts[1] ELSE g[k - 1] \o q \o parts[k]
    BY <1>3
  <2> QED
    BY <2>2, <2>3, <2>4
<1>6. D # {} /\ B \in Nat
  BY <1>1
<1> HIDE DEF mu, step, D, I, B
<1>61. IsRecursion(I, D, mu, B, step)
  BY <1>2, <1>4, <1>5, <1>6, Zenon DEF IsRecursion
<1>7. PICK f \in [I -> D] : \A k \in I : f[k] = step[<<k, f>>]
  BY <1>61, RecursiveFunction
<1>8. f = [k \in I |-> IF k = 1 THEN parts[1] ELSE f[k - 1] \o q \o parts[k]]
  <2>1. \A k \in I : f[k] = IF k = 1 THEN parts[1] ELSE f[k - 1] \o q \o parts[k]
    BY <1>3, <1>7
  <2>2. f = [k \in I |-> f[k]]
    BY <1>7
  <2> QED
    BY <2>1, <2>2, Zenon
<1> DEFINE J == JoinFn(q, parts)
<1>9. J = [k \in I |-> IF k = 1 THEN parts[1] ELSE J[k - 1] \o q \o parts[k]]
  BY <1>8 DEF JoinFn, I
<1> DEFINE S == {k \in I : J[k] \in D}
<1>10. \A k \in I : (\A j \in I : mu[j] < mu[k] => j \in S) => k \in S
  <2> SUFFICES ASSUME NEW k \in I, \A j \in I : mu[j] < mu[k] => j \in S
               PROVE  J[k] \in D
    OBVIOUS
  <2>1. CASE k = 1
    BY <2>1, <1>1, <1>9
  <2>2. CASE k # 1
    <3>1. k - 1 \in I /\ mu[k - 1] < mu[k]
      BY <2>2, <1>1 DEF mu
    <3>2. J[k - 1] \in D /\ parts[k] \in D
      BY <3>1, <1>1
    <3>3. (J[k - 1] \o q) \o parts[k] \in D
      <4>1. J[k - 1] \o q \in D
        BY <3>2, ConcatProperties DEF D
      <4> QED
        BY <4>1, <3>2, ConcatProperties DEF D
    <3> QED
      BY <3>3, <1>9, <2>2
  <2> QED
    BY <2>1, <2>2
<1>11. \A k \in I : k \in S
  <2> HIDE DEF S, J
  <2> QED
    BY <1>10, <1>2, MeasureInduction, Zenon
<1> QED
  BY <1>9, <1>11 DEF I, D

\* A part joined to others comes after one more delimiter.
LEMMA JoinAppend ==
  ASSUME NEW q \in Seq(Char), NEW parts \in Seq(Seq(Char)), NEW p \in Seq(Char)
  PROVE  Join(q, Append(parts, p)) = IF parts = <<>> THEN p ELSE Join(q, parts) \o q \o p
<1> DEFINE more == Append(parts, p)
           J == JoinFn(q, parts)
           K == JoinFn(q, more)
           n == Len(parts)
           I == 1 .. n
           mu == [k \in I |-> k]
           S == {k \in I : J[k] = K[k]}
<1>1. /\ n \in Nat /\ DOMAIN parts = I
      /\ more \in Seq(Seq(Char)) /\ more # <<>> /\ Len(more) = n + 1 /\ DOMAIN more = 1 .. n + 1
      /\ more[n + 1] = p /\ \A k \in I : more[k] = parts[k]
  <2>1. n \in Nat /\ DOMAIN parts = I
    BY LenProperties
  <2>2. /\ more \in Seq(Seq(Char)) /\ more # <<>> /\ Len(more) = n + 1
        /\ more[n + 1] = p /\ \A k \in I : more[k] = parts[k]
    BY AppendProperties
  <2>3. DOMAIN more = 1 .. Len(more)
    <3> HIDE DEF more
    <3> QED
      BY <2>2, LenProperties
  <2> QED
    BY <2>1, <2>2, <2>3
<1> HIDE DEF more, I, n
<1>2. \A k \in I : J[k] = IF k = 1 THEN parts[1] ELSE J[k - 1] \o q \o parts[k]
  <2>1. \A k \in DOMAIN parts : J[k] = IF k = 1 THEN parts[1] ELSE J[k - 1] \o q \o parts[k]
    BY JoinFnExists
  <2> QED
    BY <1>1, <2>1
<1>3. \A k \in 1 .. n + 1 : K[k] = IF k = 1 THEN more[1] ELSE K[k - 1] \o q \o more[k]
  <2>1. \A k \in DOMAIN more : K[k] = IF k = 1 THEN more[1] ELSE K[k - 1] \o q \o more[k]
    BY <1>1, JoinFnExists
  <2> QED
    BY <1>1, <2>1
<1> HIDE DEF J, K
<1> USE DEF I
<1>4. \A k \in I : (\A j \in I : mu[j] < mu[k] => j \in S) => k \in S
  <2> SUFFICES ASSUME NEW k \in I, \A j \in I : mu[j] < mu[k] => j \in S
               PROVE  J[k] = K[k]
    OBVIOUS
  <2>1. k \in 1 .. n + 1
    BY <1>1
  <2>2. CASE k = 1
    BY <2>1, <2>2, <1>1, <1>2, <1>3
  <2>3. CASE k # 1
    <3>1. k - 1 \in I /\ mu[k - 1] < mu[k]
      BY <1>1, <2>3
    <3>2. J[k - 1] = K[k - 1]
      BY <3>1
    <3>3. J[k] = J[k - 1] \o q \o parts[k] /\ K[k] = K[k - 1] \o q \o more[k]
      BY <2>1, <2>3, <1>2, <1>3
    <3> QED
      BY <3>2, <3>3, <1>1
  <2> QED
    BY <2>2, <2>3
<1>5. mu \in [I -> Nat]
  BY <1>1
<1>6. \A k \in I : k \in S
  <2> HIDE DEF S, mu, I
  <2> QED
    BY <1>4, <1>5, MeasureInduction, Zenon
<1>7. Join(q, more) = K[n + 1]
  BY <1>1, JoinIsLast DEF K
<1>8. CASE parts = <<>>
  <2>1. n = 0
    BY <1>8 DEF n
  <2> QED
    BY <2>1, <1>1, <1>3, <1>7, <1>8 DEF more
<1>9. CASE parts # <<>>
  <2>1. n > 0
    BY <1>9, <1>1 DEF n
  <2>2. Join(q, parts) = J[n]
    BY <1>9, JoinIsLast DEF J, n
  <2>3. n + 1 \in 1 .. n + 1 /\ n + 1 # 1 /\ (n + 1) - 1 = n /\ n \in I
    BY <2>1, <1>1
  <2>4. K[n + 1] = K[n] \o q \o p
    BY <2>3, <1>1, <1>3
  <2>5. K[n] = J[n]
    BY <2>3, <1>6
  <2> QED
    BY <2>2, <2>4, <2>5, <1>7, <1>9 DEF more
<1> QED
  BY <1>8, <1>9

\* Parts joined are a string.
LEMMA JoinType ==
  ASSUME NEW q \in Seq(Char), NEW parts \in Seq(Seq(Char))
  PROVE  Join(q, parts) \in Seq(Char)
<1>1. parts = <<>> => <<>> \in Seq(Char)
  OBVIOUS
<1>2. parts # <<>> => Len(parts) \in DOMAIN parts
  OBVIOUS
<1> QED
  BY <1>1, <1>2, JoinIsLast, JoinFnExists

\* A string cut at a delimiter is the two halves with the delimiter between.
LEMMA CutInTwo ==
  ASSUME NEW s \in Seq(Char), NEW q \in Seq(Char), NEW k \in Nat,
         k + Len(q) <= Len(s), SubSeq(s, k + 1, k + Len(q)) = q
  PROVE  SubSeq(s, 1, k) \o q \o SubSeq(s, k + Len(q) + 1, Len(s)) = s
<1>1. Len(q) \in Nat /\ Len(s) \in Nat
  OBVIOUS
<1>2. SubSeq(s, 1, k) \o SubSeq(s, k + 1, k + Len(q)) = SubSeq(s, 1, k + Len(q))
  <2>1. 1 \in 1 .. Len(s) + 1 /\ k \in 1 - 1 .. Len(s) /\ k + Len(q) \in k .. Len(s)
    BY <1>1
  <2> QED
    BY <2>1, ConcatAdjacentSubSeq
<1>3. SubSeq(s, 1, k + Len(q)) \o SubSeq(s, k + Len(q) + 1, Len(s)) = SubSeq(s, 1, Len(s))
  <2>1. 1 \in 1 .. Len(s) + 1 /\ k + Len(q) \in 1 - 1 .. Len(s) /\ Len(s) \in k + Len(q) .. Len(s)
    BY <1>1
  <2> QED
    BY <2>1, ConcatAdjacentSubSeq
<1> QED
  BY <1>2, <1>3, SubSeqFull

\* Concatenation, with its associativity as the only thing known of it.
Cat(s, t) == s \o t

\* Concatenation is closed and associative.
LEMMA CatFacts ==
  ASSUME NEW s \in Seq(Char), NEW t \in Seq(Char), NEW u \in Seq(Char)
  PROVE  Cat(s, t) \in Seq(Char) /\ Cat(Cat(s, t), u) = Cat(s, Cat(t, u))
BY ConcatProperties, ConcatAssociative DEF Cat

\* Two parts joined at the end are the one part they were cut from.
LEMMA JoinCut ==
  ASSUME NEW q \in Seq(Char), NEW parts \in Seq(Seq(Char)),
         NEW a \in Seq(Char), NEW r \in Seq(Char)
  PROVE  Join(q, Append(Append(parts, a), r)) = Join(q, Append(parts, Cat(Cat(a, q), r)))
<1> DEFINE s == Cat(Cat(a, q), r)
           j == Join(q, parts)
<1>0. s \in Seq(Char) /\ j \in Seq(Char)
  BY CatFacts, JoinType
<1>1. Append(parts, a) \in Seq(Seq(Char)) /\ Append(parts, a) # <<>>
  BY AppendProperties
<1>2. Join(q, Append(Append(parts, a), r)) = Cat(Cat(Join(q, Append(parts, a)), q), r)
  BY <1>1, JoinAppend DEF Cat
<1>3. CASE parts = <<>>
  <2>1. Join(q, Append(parts, a)) = a /\ Join(q, Append(parts, s)) = s
    BY <1>0, <1>3, JoinAppend
  <2> QED
    BY <2>1, <1>2
<1>4. CASE parts # <<>>
  <2>1. Join(q, Append(parts, a)) = Cat(Cat(j, q), a)
    BY <1>4, JoinAppend DEF Cat
  <2>2. Join(q, Append(parts, s)) = Cat(Cat(j, q), s)
    <3> HIDE DEF s
    <3> QED
      BY <1>0, <1>4, JoinAppend DEF Cat
  <2> HIDE DEF j
  <2>3. Cat(Cat(Cat(Cat(j, q), a), q), r) = Cat(Cat(j, q), s)
    BY <1>0, CatFacts
  <2> QED
    BY <2>1, <2>2, <2>3, <1>2
<1> QED
  BY <1>3, <1>4

\* The rest and the parts make up the subject, in every call.
LEMMA NothingLostStep == IInv /\ NothingLost /\ [Next]_vars => NothingLost'
<1> SUFFICES ASSUME IInv, NothingLost, [Next]_vars PROVE NothingLost'
  OBVIOUS
<1>0. /\ quan \in Seq(Char) /\ subj \in Seq(Char) /\ out \in Seq(Seq(Char)) /\ i \in Nat
  BY Sizes DEF IInv, TypeOK
<1>1. CASE Throw
  BY <1>1 DEF Throw, NothingLost
<1>2. CASE Skip
  BY <1>2 DEF Skip, NothingLost
<1>3. CASE Cut
  <2> DEFINE a == SubSeq(subj, 1, i)
             r == SubSeq(subj, i + Len(quan) + 1, Len(subj))
  <2>1. a \in Seq(Char) /\ r \in Seq(Char) /\ Append(out, a) \in Seq(Seq(Char)) /\ Append(out, a) # <<>>
    <3>1. i + Len(quan) + 1 \in Nat /\ i + Len(quan) <= Len(subj)
      BY <1>0, <1>3 DEF Cut
    <3>2. a \in Seq(Char) /\ r \in Seq(Char)
      BY <1>0, <3>1
    <3> HIDE DEF a, r
    <3>3. Append(out, a) \in Seq(Seq(Char)) /\ Len(Append(out, a)) = Len(out) + 1
      BY <1>0, <3>2, AppendProperties
    <3>4. Append(out, a) # <<>>
      BY <1>0, <3>3
    <3> QED
      BY <3>2, <3>3, <3>4
  <2>2. Cat(Cat(a, quan), r) = subj
    BY <1>0, <1>3, CutInTwo DEF Cut, Matches, Cat
  <2>3. Join(quan, Append(out, subj)) = subject
    BY <1>3 DEF Cut, NothingLost
  <2> HIDE DEF a, r
  <2>5. Join(quan, Append(Append(out, a), r)) = subject
    BY <1>0, <2>1, <2>2, <2>3, JoinCut
  <2> QED
    BY <2>5, <1>3 DEF Cut, NothingLost, a, r
<1>4. CASE Return
  BY <1>4 DEF Return, NothingLost, Blank
<1>5. CASE UNCHANGED vars
  BY <1>5 DEF vars, NothingLost
<1> QED
  BY <1>1, <1>2, <1>3, <1>4, <1>5 DEF Next

\* Whatever the subject and the delimiter, no character is lost.
THEOREM NothingIsLost == Spec => []NothingLost
<1>1. Init => NothingLost
  <2> SUFFICES ASSUME Init PROVE NothingLost
    OBVIOUS
  <2>1. quan \in Seq(Char) /\ subject \in Seq(Char) /\ subj = subject /\ out = <<>>
    BY SizeAssumption DEF Init
  <2>2. <<>> \in Seq(Seq(Char))
    OBVIOUS
  <2>3. Join(quan, Append(out, subj)) = subject
    BY <2>1, <2>2, JoinAppend
  <2> QED
    BY <2>3 DEF Init, NothingLost
<1>2. IInv /\ NothingLost /\ [Next]_vars => (IInv /\ NothingLost)'
  BY NextIInv, NothingLostStep
<1> QED
  BY <1>1, <1>2, InitIInv, PTL DEF Spec

\* Min of a non-empty set of natural numbers is its least element.
LEMMA MinIsLeast ==
  ASSUME NEW S, S \subseteq Nat, S # {}
  PROVE  Min(S) \in S /\ \A y \in S : Min(S) <= y
<1>1. \E x \in S : \A y \in S : x <= y
  BY Least
<1> QED
  BY <1>1 DEF Min

(***************************************************************************)
(* The function Exploded, unfolded.                                        *)
(***************************************************************************)
\* Where a cut may be, searching from position k on: not at the start of a
\* rest that follows a cut, and not at the very end.
Hits(q, s, k) ==
  {h \in (IF k = 1 THEN 1 ELSE k + 1) .. Len(s) - Len(q) : SubSeq(s, h, h + Len(q) - 1) = q}

\* What becomes of the rest at k when there is no cut left.
Ending(q, s, k) ==
  IF Len(SubSeq(s, k, Len(s))) < Len(q) THEN [how |-> "thrown", parts |-> <<>>]
  ELSE [how |-> "returned",
        parts |-> IF Blank(SubSeq(s, k, Len(s))) THEN <<>> ELSE <<SubSeq(s, k, Len(s))>>]

\* What the splitting of the rest at each position gives.
FromFn(q, s) ==
  CHOOSE f : f = [k \in 1 .. Len(s) + 1 |->
    IF Hits(q, s, k) # {}
    THEN [f[Min(Hits(q, s, k)) + Len(q)] EXCEPT !.parts = <<SubSeq(s, k, Min(Hits(q, s, k)) - 1)>> \o @]
    ELSE Ending(q, s, k)]

\* Exploded is its value at the start of the string.
LEMMA ExplodedIsFrom ==
  ASSUME NEW q, NEW s PROVE Exploded(q, s) = FromFn(q, s)[1]
BY DEF Exploded, FromFn, Hits, Ending

\* The values of Exploded.
Outcomes == [how : {"thrown", "returned"}, parts : Seq(Seq(Char))]

\* Where the search goes on after the first hit.
NextStart(q, s, k) == Min(Hits(q, s, k)) + Len(q)
\* The part before that hit.
FirstPart(q, s, k) == SubSeq(s, k, Min(Hits(q, s, k)) - 1)

\* The first hit is in the string, and the search goes on behind it.
LEMMA HitsFacts ==
  ASSUME NEW q \in Seq(Char), 0 < Len(q), NEW s \in Seq(Char), NEW k \in 1 .. Len(s) + 1
  PROVE  /\ Ending(q, s, k) \in Outcomes
         /\ Hits(q, s, k) # {} =>
              /\ Min(Hits(q, s, k)) \in Hits(q, s, k)
              /\ \A h \in Hits(q, s, k) : Min(Hits(q, s, k)) <= h
              /\ NextStart(q, s, k) \in 1 .. Len(s) + 1 /\ k < NextStart(q, s, k)
              /\ FirstPart(q, s, k) \in Seq(Char)
<1>0. Len(s) \in Nat /\ Len(q) \in Nat
  OBVIOUS
<1>1. SubSeq(s, k, Len(s)) \in Seq(Char)
  BY <1>0
<1>2. Ending(q, s, k) \in Outcomes
  BY <1>1 DEF Ending, Outcomes
<1>3. ASSUME Hits(q, s, k) # {}
      PROVE /\ Min(Hits(q, s, k)) \in Hits(q, s, k)
            /\ \A h \in Hits(q, s, k) : Min(Hits(q, s, k)) <= h
            /\ NextStart(q, s, k) \in 1 .. Len(s) + 1 /\ k < NextStart(q, s, k)
            /\ FirstPart(q, s, k) \in Seq(Char)
  <2> DEFINE H == Hits(q, s, k)
             m == Min(H)
  <2>1. H \subseteq Nat
    BY <1>0 DEF Hits
  <2>2. m \in H /\ \A h \in H : m <= h
    <3> HIDE DEF H
    <3> QED
      BY <1>3, <2>1, MinIsLeast DEF H
  <2>3. m \in Nat /\ k <= m /\ m <= Len(s) - Len(q)
    <3> HIDE DEF m
    <3> QED
      BY <2>2, <1>0 DEF Hits
  <2> HIDE DEF m
  <2>4. m + Len(q) \in 1 .. Len(s) + 1 /\ k < m + Len(q)
    BY <2>3, <1>0
  <2>5. SubSeq(s, k, m - 1) \in Seq(Char)
    BY <2>3, <1>0
  <2> QED
    BY <2>2, <2>4, <2>5 DEF m, NextStart, FirstPart
<1> QED
  BY <1>2, <1>3

\* It is defined at every position, and by its recursion.
LEMMA FromFnExists ==
  ASSUME NEW q \in Seq(Char), 0 < Len(q), NEW s \in Seq(Char)
  PROVE  /\ FromFn(q, s) \in [1 .. Len(s) + 1 -> Outcomes]
         /\ \A k \in 1 .. Len(s) + 1 :
              FromFn(q, s)[k] =
                IF Hits(q, s, k) # {}
                THEN [how   |-> FromFn(q, s)[NextStart(q, s, k)].how,
                      parts |-> <<FirstPart(q, s, k)>> \o FromFn(q, s)[NextStart(q, s, k)].parts]
                ELSE Ending(q, s, k)
<1> DEFINE I == 1 .. Len(s) + 1
           D == Outcomes
           B == Len(s) + 2
           mu == [k \in I |-> Len(s) + 1 - k]
           body(k, f) == IF Hits(q, s, k) # {}
                         THEN [f[NextStart(q, s, k)] EXCEPT !.parts = <<FirstPart(q, s, k)>> \o @]
                         ELSE Ending(q, s, k)
           step == [p \in I \X [I -> D] |-> body(p[1], p[2])]
<1>0. Len(s) \in Nat
  OBVIOUS
<1>1. ASSUME NEW x \in D, NEW y \in Seq(Char)
      PROVE  /\ [x EXCEPT !.parts = <<y>> \o @] = [how |-> x.how, parts |-> <<y>> \o x.parts]
             /\ [x EXCEPT !.parts = <<y>> \o @] \in D
  <2>1. <<y>> \in Seq(Seq(Char)) /\ x.parts \in Seq(Seq(Char)) /\ x.how \in {"thrown", "returned"}
    BY DEF Outcomes
  <2>2. <<y>> \o x.parts \in Seq(Seq(Char))
    BY <2>1, ConcatProperties
  <2>3. ASSUME NEW v PROVE [x EXCEPT !.parts = v] = [how |-> x.how, parts |-> v]
    BY DEF Outcomes
  <2> QED
    BY <2>1, <2>2, <2>3 DEF Outcomes
<1>2. D # {} /\ B \in Nat /\ mu \in [I -> Nat] /\ \A k \in I : mu[k] < B
  <2>1. [how |-> "thrown", parts |-> <<>>] \in D
    BY DEF Outcomes
  <2> QED
    BY <2>1, <1>0
<1>3. ASSUME NEW k \in I, Hits(q, s, k) # {}
      PROVE  NextStart(q, s, k) \in I /\ mu[NextStart(q, s, k)] < mu[k] /\ FirstPart(q, s, k) \in Seq(Char)
  <2>1. NextStart(q, s, k) \in I /\ k < NextStart(q, s, k) /\ FirstPart(q, s, k) \in Seq(Char)
    BY <1>3, HitsFacts
  <2> QED
    BY <2>1, <1>0
<1>4. ASSUME NEW k \in I, NEW f, \A j \in I : mu[j] < mu[k] => f[j] \in D
      PROVE  body(k, f) \in D
  <2>1. CASE Hits(q, s, k) # {}
    BY <2>1, <1>1, <1>3, <1>4
  <2>2. CASE Hits(q, s, k) = {}
    BY <2>2, HitsFacts
  <2> QED
    BY <2>1, <2>2
<1>5. ASSUME NEW k \in I, NEW f, NEW g, \A j \in I : mu[j] < mu[k] => f[j] = g[j]
      PROVE  body(k, f) = body(k, g)
  <2>1. CASE Hits(q, s, k) # {}
    <3>1. f[NextStart(q, s, k)] = g[NextStart(q, s, k)]
      BY <2>1, <1>3, <1>5
    <3> QED
      BY <3>1
  <2>2. CASE Hits(q, s, k) = {}
    BY <2>2
  <2> QED
    BY <2>1, <2>2
<1> HIDE DEF D, B, mu, I, body
<1>6. \A k \in I, f \in [I -> D] : step[<<k, f>>] = body(k, f)
  OBVIOUS
<1>7. step \in [I \X [I -> D] -> D]
  <2>1. \A p \in I \X [I -> D] : p[1] \in I /\ p[2] \in [I -> D]
    OBVIOUS
  <2>2. \A p \in I \X [I -> D] : body(p[1], p[2]) \in D
    BY <2>1, <1>4
  <2> QED
    BY <2>2
<1> HIDE DEF step
<1>8. \A k \in I : \A f, g \in [I -> D] :
        (\A j \in I : mu[j] < mu[k] => f[j] = g[j]) => step[<<k, f>>] = step[<<k, g>>]
  BY <1>5, <1>6
<1>9. IsRecursion(I, D, mu, B, step)
  BY <1>2, <1>7, <1>8, Zenon DEF IsRecursion
<1>10. PICK f \in [I -> D] : \A k \in I : f[k] = step[<<k, f>>]
  BY <1>9, RecursiveFunction
<1>11. f = [k \in I |-> body(k, f)]
  BY <1>10, <1>6
<1> DEFINE F == FromFn(q, s)
<1>12. F = [k \in I |-> body(k, F)]
  BY <1>11 DEF FromFn, body, I, NextStart, FirstPart
<1> HIDE DEF F
<1> DEFINE S == {k \in I : F[k] \in D}
<1>13. \A k \in I : (\A j \in I : mu[j] < mu[k] => j \in S) => k \in S
  BY <1>12, <1>4
<1>14. \A k \in I : k \in S
  <2> HIDE DEF S
  <2> QED
    BY <1>13, <1>2, MeasureInduction, Zenon
<1>15. F \in [I -> D]
  BY <1>12, <1>14
<1>16. ASSUME NEW k \in I
       PROVE  F[k] = IF Hits(q, s, k) # {}
                     THEN [how   |-> F[NextStart(q, s, k)].how,
                           parts |-> <<FirstPart(q, s, k)>> \o F[NextStart(q, s, k)].parts]
                     ELSE Ending(q, s, k)
  <2>1. F[k] = body(k, F)
    BY <1>12
  <2>2. CASE Hits(q, s, k) # {}
    <3>1. F[NextStart(q, s, k)] \in D /\ FirstPart(q, s, k) \in Seq(Char)
      BY <2>2, <1>3, <1>15
    <3> QED
      BY <2>1, <2>2, <3>1, <1>1 DEF body
  <2>3. CASE Hits(q, s, k) = {}
    BY <2>1, <2>3 DEF body
  <2> QED
    BY <2>2, <2>3
<1> QED
  BY <1>15, <1>16 DEF F, I, D

\* A piece of a rest is a piece of the string.
LEMMA PieceOfRest ==
  ASSUME NEW s \in Seq(Char), NEW k \in 1 .. Len(s) + 1, NEW a \in Nat \ {0}, NEW b \in Nat,
         k + b - 1 <= Len(s)
  PROVE  SubSeq(SubSeq(s, k, Len(s)), a, b) = SubSeq(s, k + a - 1, k + b - 1)
<1> DEFINE r == SubSeq(s, k, Len(s))
           L == SubSeq(r, a, b)
           R == SubSeq(s, k + a - 1, k + b - 1)
<1>0. Len(s) \in Nat
  OBVIOUS
<1>1. r \in Seq(Char) /\ Len(r) = Len(s) - k + 1 /\ \A j \in 1 .. Len(r) : r[j] = s[k + j - 1]
  BY <1>0
<1> HIDE DEF r
<1>2. \A j \in a .. b : r[j] \in Char
  BY <1>0, <1>1
<1>3. L \in Seq(Char) /\ Len(L) = (IF a <= b THEN b - a + 1 ELSE 0) /\ \A j \in 1 .. b - a + 1 : L[j] = r[a + j - 1]
  BY <1>2, SubSeqProperties
<1>4. R \in Seq(Char) /\ Len(R) = (IF a <= b THEN b - a + 1 ELSE 0)
       /\ \A j \in 1 .. b - a + 1 : R[j] = s[k + a - 1 + j - 1]
  <2>1. k + a - 1 \in Int /\ k + b - 1 \in Int /\ \A j \in k + a - 1 .. k + b - 1 : s[j] \in Char
    BY <1>0
  <2>2. R \in Seq(Char)
    BY <2>1, SubSeqProperties
  <2>3. Len(R) = IF k + a - 1 <= k + b - 1 THEN (k + b - 1) - (k + a - 1) + 1 ELSE 0
    BY <2>1, SubSeqProperties
  <2>4. \A j \in 1 .. (k + b - 1) - (k + a - 1) + 1 : R[j] = s[k + a - 1 + j - 1]
    BY <2>1, SubSeqProperties
  <2> HIDE DEF R
  <2> QED
    BY <2>2, <2>3, <2>4, <1>0
<1> HIDE DEF L, R
<1>5. Len(L) = Len(R) /\ \A j \in 1 .. Len(L) : L[j] = R[j]
  <2>1. Len(L) = Len(R)
    BY <1>3, <1>4
  <2>2. \A j \in 1 .. Len(L) : L[j] = R[j]
    BY <1>0, <1>1, <1>3, <1>4
  <2> QED
    BY <2>1, <2>2
<1> QED
  BY <1>3, <1>4, <1>5, SeqEqual DEF L, R, r

\* So is a piece at its front.
LEMMA HeadOfRest ==
  ASSUME NEW s \in Seq(Char), NEW k \in 1 .. Len(s) + 1, NEW b \in Nat, k + b - 1 <= Len(s)
  PROVE  SubSeq(SubSeq(s, k, Len(s)), 1, b) = SubSeq(s, k, (k + b) - 1)
<1>1. 1 \in Nat \ {0} /\ k + 1 - 1 = k
  OBVIOUS
<1>2. SubSeq(SubSeq(s, k, Len(s)), 1, b) = SubSeq(s, k + 1 - 1, k + b - 1)
  BY <1>1, PieceOfRest
<1> QED
  BY <1>1, <1>2

\* A part moved from the front of the rest to the end of the parts.
LEMMA MovePart ==
  ASSUME NEW parts \in Seq(Seq(Char)), NEW a \in Seq(Char), NEW rest \in Seq(Seq(Char))
  PROVE  Append(parts, a) \o rest = parts \o (<<a>> \o rest)
<1>1. <<a>> \in Seq(Seq(Char)) /\ Append(parts, a) = parts \o <<a>>
  BY AppendIsConcat
<1> QED
  BY <1>1, ConcatAssociative

(***************************************************************************)
(* The loop and the function.                                              *)
(***************************************************************************)

\* The position of the rest in the subject, counted from 1.
Start == Len(subject) - Len(subj) + 1

\* What is still to come is what the function returns at that position.
Computed ==
  LET F == FromFn(quan, subject)
  IN  /\ pc = "null" <=> fn = "explode" /\ subject = <<>>
      /\ subj = SubSeq(subject, Start, Len(subject))
      /\ pc \in {"loop", "thrown"} =>
           /\ F[1].how = F[Start].how
           /\ F[1].parts = out \o F[Start].parts
      /\ pc = "loop" =>
           /\ Start = 1 \/ 1 <= i
           /\ \A h \in Hits(quan, subject, Start) : Start + i <= h
      /\ pc = "thrown" => F[1].how = "thrown"
      /\ pc = "returned" => F[1].how = "returned" /\ F[1].parts = out

\* Facts the steps share.
LEMMA Positions ==
  ASSUME IInv
  PROVE  /\ subject \in Seq(Char) /\ Len(subject) \in Nat /\ Start \in 1 .. Len(subject) + 1
         /\ quan \in Seq(Char) /\ Len(quan) \in Nat /\ 0 < Len(quan) /\ Len(quan) + 1 < SizeMod
         /\ subj \in Seq(Char) /\ Len(subj) \in Nat /\ Len(subj) = Len(subject) - Start + 1
         /\ i \in Nat /\ out \in Seq(Seq(Char)) /\ SizeMod \in Nat
<1>1. subject \in Seq(Char) /\ quan \in Seq(Char) /\ 0 < Len(quan) /\ Len(quan) + 1 < SizeMod /\ SizeMod \in Nat
  BY SizeAssumption DEF IInv, TypeOK
<1>2. subj \in Seq(Char) /\ i \in Nat /\ out \in Seq(Seq(Char)) /\ Len(subj) <= Len(subject)
  BY Sizes DEF IInv, TypeOK
<1>3. Len(subject) \in Nat /\ Len(quan) \in Nat /\ Len(subj) \in Nat
  BY <1>1, <1>2
<1> QED
  BY <1>1, <1>2, <1>3 DEF Start

\* The same, numbers only.
LEMMA ScanPlaces ==
  ASSUME IInv
  PROVE  /\ Len(subject) \in Nat /\ Len(quan) \in Nat /\ Len(subj) \in Nat /\ 0 < Len(quan)
         /\ Start \in Nat /\ 1 <= Start /\ Start <= Len(subject) + 1 /\ i \in Nat
         /\ Len(subj) = Len(subject) - Start + 1
BY Positions

\* A piece of the rest is a piece of the whole string.
LEMMA PieceOfSubject ==
  ASSUME IInv, subj = SubSeq(subject, Start, Len(subject)),
         NEW a \in Nat \ {0}, NEW b \in Nat, Start + b - 1 <= Len(subject)
  PROVE  SubSeq(subj, a, b) = SubSeq(subject, Start + a - 1, Start + b - 1)
<1>1. subject \in Seq(Char) /\ Start \in 1 .. Len(subject) + 1
  BY Positions
<1>2. SubSeq(SubSeq(subject, Start, Len(subject)), a, b) =
        SubSeq(subject, Start + a - 1, Start + b - 1)
  BY <1>1, PieceOfRest
<1> QED
  BY <1>2

\* It holds when the function is called.
LEMMA ComputedInit == Init => Computed
<1> SUFFICES ASSUME Init PROVE Computed
  OBVIOUS
<1>1. IInv
  BY InitIInv
<1>2. Start = 1 /\ subj = subject /\ out = <<>> /\ i = 0
  BY <1>1, Positions DEF Init, Start
<1>3. subj = SubSeq(subject, 1, Len(subject))
  BY <1>1, <1>2, Positions, SubSeqFull
<1>4. FromFn(quan, subject)[1] \in Outcomes
  <2>1. 1 \in 1 .. Len(subject) + 1
    BY <1>1, Positions
  <2> QED
    BY <1>1, <2>1, Positions, FromFnExists
<1>5. FromFn(quan, subject)[1].parts = <<>> \o FromFn(quan, subject)[1].parts
  BY <1>4, ConcatEmptySeq DEF Outcomes
<1>6. \A h \in Hits(quan, subject, 1) : 1 <= h
  BY <1>1, Positions DEF Hits
<1>7. pc = "null" <=> fn = "explode" /\ subject = <<>>
  BY DEF Init
<1>8. pc # "thrown" /\ pc # "returned"
  BY DEF Init
<1> QED
  BY <1>2, <1>3, <1>5, <1>6, <1>7, <1>8 DEF Computed

\* Where a rest shorter than the delimiter begins there is no hit.
LEMMA ShortRest ==
  ASSUME IInv, Len(subj) < Len(quan)
  PROVE  Hits(quan, subject, Start) = {} /\ LoopBound = SizeMod + Len(subj) - Len(quan)
<1>1. Hits(quan, subject, Start) = {}
  BY Positions DEF Hits
<1>2. slength = Len(subj)
  BY DEF IInv, TypeOK
<1>3. ASSUME NEW n \in Int, NEW m \in Nat, n < 0, 0 <= n + m PROVE n % m = n + m
  BY <1>3
<1>4. Len(subj) - Len(quan) \in Int /\ Len(subj) - Len(quan) < 0 /\ 0 <= (Len(subj) - Len(quan)) + SizeMod
  BY Positions
<1>5. (Len(subj) - Len(quan)) % SizeMod = (Len(subj) - Len(quan)) + SizeMod
  BY <1>3, <1>4, Positions
<1> QED
  BY <1>1, <1>2, <1>5, Positions DEF LoopBound

\* A cut is at the first hit, and the rest begins after it.
LEMMA CutFacts ==
  ASSUME IInv, Computed, Cut
  PROVE  /\ Start + i \in Hits(quan, subject, Start)
         /\ Min(Hits(quan, subject, Start)) = Start + i
         /\ Start + i + Len(quan) \in 1 .. Len(subject) + 1 /\ Start < Start + i + Len(quan)
         /\ FirstPart(quan, subject, Start) = SubSeq(subj, 1, i) /\ SubSeq(subj, 1, i) \in Seq(Char)
         /\ Start' = Start + i + Len(quan)
         /\ subj' = SubSeq(subject, Start + i + Len(quan), Len(subject))
<1> DEFINE h == Start + i
           H == Hits(quan, subject, Start)
           a == SubSeq(subj, 1, i)
           n == h + Len(quan)
<1>1. i + Len(quan) < Len(subj) /\ subj = SubSeq(subject, Start, Len(subject))
  <2>1. i + Len(quan) <= Len(subj)
    BY DEF Cut
  <2>2. LoopBound = Len(subj) - Len(quan)
    BY <2>1, Positions, BoundExact
  <2>3. i < LoopBound
    BY <2>1, <2>2, ScanPlaces DEF Cut
  <2>4. subj = SubSeq(subject, Start, Len(subject))
    BY DEF Computed
  <2> QED
    BY <2>2, <2>3, <2>4, ScanPlaces
<1>2. h \in H
  <2>1. SubSeq(subj, i + 1, i + Len(quan)) = SubSeq(subject, Start + (i + 1) - 1, Start + (i + Len(quan)) - 1)
    <3>1. i + 1 \in Nat \ {0} /\ i + Len(quan) \in Nat /\ Start + (i + Len(quan)) - 1 <= Len(subject)
      <4>1. i + Len(quan) < Len(subj)
        BY <1>1
      <4> QED
        BY <4>1, ScanPlaces
    <3> QED
      BY <1>1, <3>1, ScanPlaces, PieceOfSubject
  <2>2. Start + (i + 1) - 1 = h /\ Start + (i + Len(quan)) - 1 = h + Len(quan) - 1
    BY Positions
  <2>3. SubSeq(subject, h, h + Len(quan) - 1) = quan
    BY <2>1, <2>2 DEF Cut, Matches
  <2>4. h \in (IF Start = 1 THEN 1 ELSE Start + 1) .. Len(subject) - Len(quan)
    <3>1. Start = 1 \/ 1 <= i
      BY DEF Cut, Computed
    <3> QED
      BY <3>1, <1>1, ScanPlaces
  <2> QED
    BY <2>3, <2>4 DEF Hits
<1>3. Min(H) = h
  <2>1. Min(H) \in H /\ \A x \in H : Min(H) <= x
    BY <1>2, Positions, HitsFacts
  <2>2. \A x \in H : h <= x
    BY DEF Cut, Computed
  <2>3. Min(H) \in Int /\ h \in Int
    BY <2>1, Positions DEF Hits
  <2> QED
    BY <2>1, <2>2, <2>3, <1>2
<1>4. NextStart(quan, subject, Start) = n /\ n \in 1 .. Len(subject) + 1 /\ Start < n
  BY <1>2, <1>3, Positions, HitsFacts DEF NextStart
<1>5. FirstPart(quan, subject, Start) = a /\ a \in Seq(Char)
  <2>1. a = SubSeq(subject, Start, h - 1)
    <3>1. Start + i - 1 <= Len(subject)
      BY <1>1, Positions
    <3> QED
      BY <1>1, <3>1, Positions, HeadOfRest
  <2>2. FirstPart(quan, subject, Start) = SubSeq(subject, Start, h - 1)
    BY <1>3 DEF FirstPart
  <2>3. FirstPart(quan, subject, Start) \in Seq(Char)
    BY <1>2, Positions, HitsFacts
  <2> QED
    BY <2>1, <2>2, <2>3
<1>6. Start' = n /\ subj' = SubSeq(subject, n, Len(subject))
  <2>1. subj' = SubSeq(subj, i + Len(quan) + 1, Len(subj))
    BY DEF Cut
  <2>2. SubSeq(subj, i + Len(quan) + 1, Len(subj)) = SubSeq(subject, Start + (i + Len(quan) + 1) - 1, Start + Len(subj) - 1)
    <3>1. i + Len(quan) + 1 \in Nat \ {0} /\ Start + Len(subj) - 1 <= Len(subject)
      BY ScanPlaces
    <3> QED
      BY <1>1, <3>1, ScanPlaces, PieceOfSubject
  <2>3. Start + (i + Len(quan) + 1) - 1 = n /\ Start + Len(subj) - 1 = Len(subject)
    BY ScanPlaces
  <2>4. Len(SubSeq(subject, n, Len(subject))) = Len(subject) - n + 1
    <3> HIDE DEF n
    <3>1. n \in Nat /\ 1 <= n /\ n <= Len(subject) + 1 /\ subject \in Seq(Char) /\ Len(subject) \in Nat
      BY <1>4, Positions
    <3> QED
      BY <3>1, SubSeqProperties
  <2>5. Start' = Len(subject) - Len(subj') + 1
    BY DEF Cut, Start
  <2>6. subj' = SubSeq(subject, n, Len(subject))
    BY <2>1, <2>2, <2>3
  <2>7. Len(subj') = Len(subject) - n + 1
    BY <2>4, <2>6
  <2> HIDE DEF n
  <2>8. n \in Int
    BY <1>4
  <2> QED
    BY <2>5, <2>6, <2>7, <2>8, Positions
<1> QED
  BY <1>2, <1>3, <1>4, <1>5, <1>6

\* When the loop is left without an exception, the rest is as long as the
\* delimiter and has no hit.
LEMMA ReturnFacts ==
  ASSUME IInv, Computed, Return
  PROVE  Len(quan) <= Len(subj) /\ Hits(quan, subject, Start) = {}
<1>1. Len(quan) <= Len(subj)
  <2>1. SUFFICES ASSUME Len(subj) < Len(quan) PROVE FALSE
    BY Positions
  <2>2. LoopBound = SizeMod + Len(subj) - Len(quan)
    BY <2>1, ShortRest
  <2>3. i <= Len(subj) + 1
    BY Positions DEF IInv, TypeOK
  <2>4. LoopBound <= i
    BY ScanPlaces DEF Return
  <2>5. Len(quan) + 1 < SizeMod /\ SizeMod \in Nat
    BY Positions
  <2> QED
    BY <2>2, <2>3, <2>4, <2>5, ScanPlaces
<1>2. LoopBound = Len(subj) - Len(quan)
  BY <1>1, BoundExact
<1>3. Hits(quan, subject, Start) = {}
  <2>1. SUFFICES ASSUME NEW h \in Hits(quan, subject, Start) PROVE FALSE
    OBVIOUS
  <2>2. Start + i <= h
    BY DEF Return, Computed
  <2>3. h \in Int /\ h <= Len(subject) - Len(quan)
    BY Positions DEF Hits
  <2> QED
    BY <2>2, <2>3, <1>2, Positions DEF Return
<1> QED
  BY <1>1, <1>3

\* Every iteration keeps it.
LEMMA ComputedStep == IInv /\ Computed /\ [Next]_vars => Computed'
<1> SUFFICES ASSUME IInv, Computed, [Next]_vars PROVE Computed'
  OBVIOUS
<1> DEFINE F == FromFn(quan, subject)
<1>0. \A k \in 1 .. Len(subject) + 1 : F[k] \in Outcomes
  BY Positions, FromFnExists
<1>1. CASE Throw
  <2>1. Len(subj) < Len(quan)
    BY <1>1, NextIInv DEF Throw, IInv, ThrowsOnlyOnShortRest, Next
  <2>2. Hits(quan, subject, Start) = {}
    BY <2>1, ShortRest
  <2>3. F[Start] = Ending(quan, subject, Start)
    BY <2>2, Positions, FromFnExists
  <2>4. F[Start].how = "thrown"
    BY <2>1, <2>3 DEF Ending, Computed
  <2>5. Start' = Start
    BY <1>1 DEF Throw, Start
  <2> QED
    BY <1>1, <2>4, <2>5 DEF Throw, Computed
<1>2. CASE Skip
  <2>1. Start' = Start
    BY <1>2 DEF Skip, Start
  <2>2. ASSUME NEW h \in Hits(quan, subject, Start) PROVE Start + (i + 1) <= h
    <3>0. SubSeq(subject, h, h + Len(quan) - 1) = quan
      BY DEF Hits
    <3>1. h \in Int /\ h <= Len(subject) - Len(quan)
      BY Positions DEF Hits
    <3>2. Start + i <= h
      BY <1>2 DEF Skip, Computed
    <3>3. ASSUME h = Start + i PROVE FALSE
      <4>1. i + Len(quan) <= Len(subj)
        BY <3>1, <3>3, ScanPlaces
      <4>2. SubSeq(subj, i + 1, i + Len(quan)) = SubSeq(subject, Start + (i + 1) - 1, Start + (i + Len(quan)) - 1)
        <5>1. subj = SubSeq(subject, Start, Len(subject))
          BY DEF Computed
        <5>2. i + 1 \in Nat \ {0} /\ i + Len(quan) \in Nat /\ Start + (i + Len(quan)) - 1 <= Len(subject)
          BY <4>1, ScanPlaces
        <5> QED
          BY <5>1, <5>2, PieceOfSubject
      <4>3. Start + (i + 1) - 1 = h /\ Start + (i + Len(quan)) - 1 = h + Len(quan) - 1
        BY <3>3, ScanPlaces
      <4>4. ~Matches
        BY <4>1, <1>2 DEF Skip
      <4> QED
        BY <4>2, <4>3, <4>4, <3>0 DEF Matches
    <3>4. h # Start + i
      BY <3>3
    <3>5. Start \in Int /\ i \in Int
      BY Positions
    <3> QED
      BY <3>1, <3>2, <3>4, <3>5
  <2>3. 1 <= i + 1
    BY Positions
  <2>4. /\ pc = "loop" /\ pc' = pc /\ i' = i + 1
        /\ UNCHANGED <<fn, quan, subject, subj, out>>
    BY <1>2 DEF Skip
  <2> QED
    BY <2>1, <2>2, <2>3, <2>4 DEF Computed
<1>3. CASE Cut
  <2> DEFINE a == SubSeq(subj, 1, i)
             n == Start + i + Len(quan)
  <2>2. Hits(quan, subject, Start) # {}
    BY <1>3, CutFacts
  <2>4. NextStart(quan, subject, Start) = n /\ n \in 1 .. Len(subject) + 1 /\ Start < n
    BY <1>3, CutFacts DEF NextStart
  <2>5. FirstPart(quan, subject, Start) = a /\ a \in Seq(Char)
    BY <1>3, CutFacts
  <2>6. Start' = n /\ subj' = SubSeq(subject, n, Len(subject))
    BY <1>3, CutFacts
  <2>7. F[Start].how = F[n].how /\ F[Start].parts = <<a>> \o F[n].parts
    <3>1. F[Start] = [how |-> F[n].how, parts |-> <<a>> \o F[n].parts]
      BY <2>2, <2>4, <2>5, Positions, FromFnExists
    <3> QED
      BY <3>1
  <2>8. out \o (<<a>> \o F[n].parts) = Append(out, a) \o F[n].parts
    <3>1. F[n].parts \in Seq(Seq(Char))
      BY <2>4, <1>0 DEF Outcomes
    <3> QED
      BY <3>1, <2>5, Positions, MovePart
  <2>9. \A x \in Hits(quan, subject, n) : n + 1 <= x
    BY <2>4, Positions DEF Hits
  <2>10. /\ pc = "loop" /\ pc' = pc /\ i' = 1 /\ out' = Append(out, a)
         /\ UNCHANGED <<fn, quan, subject>>
    BY <1>3 DEF Cut
  <2>11. F[1].how = F[Start].how /\ F[1].parts = out \o F[Start].parts
         /\ (pc = "null" <=> fn = "explode" /\ subject = <<>>)
    BY <2>10 DEF Computed
  <2> HIDE DEF a, n, F
  <2>12. F' = F
    BY <2>10 DEF F
  <2>13. F[1].how = F[n].how /\ F[1].parts = out' \o F[n].parts
    BY <2>7, <2>8, <2>10, <2>11
  <2> QED
    BY <2>6, <2>9, <2>10, <2>11, <2>12, <2>13 DEF Computed, F
<1>4. CASE Return
  <2>1. Len(quan) <= Len(subj)
    BY <1>4, ReturnFacts
  <2>3. Hits(quan, subject, Start) = {}
    BY <1>4, ReturnFacts
  <2>4. F[Start] = Ending(quan, subject, Start)
    BY <2>3, Positions, FromFnExists
  <2>5. subj = SubSeq(subject, Start, Len(subject))
    BY DEF Computed
  <2>6. F[Start] = [how |-> "returned", parts |-> IF Blank(subj) THEN <<>> ELSE <<subj>>]
    BY <2>1, <2>4, <2>5, Positions DEF Ending
  <2>7. F[1].how = "returned" /\ F[1].parts = out \o (IF Blank(subj) THEN <<>> ELSE <<subj>>)
    <3>1. F[1].how = F[Start].how /\ F[1].parts = out \o F[Start].parts
      BY <1>4 DEF Return, Computed
    <3>2. F[Start].how = "returned" /\ F[Start].parts = IF Blank(subj) THEN <<>> ELSE <<subj>>
      BY <2>6
    <3> HIDE DEF F
    <3> QED
      BY <3>1, <3>2
  <2>8. out \o <<>> = out /\ out \o <<subj>> = Append(out, subj)
    BY Positions, ConcatEmptySeq, AppendIsConcat
  <2>9. F[1].parts = out'
    <3>1. CASE Blank(subj)
      BY <3>1, <2>7, <2>8, <1>4 DEF Return
    <3>2. CASE ~Blank(subj)
      BY <3>2, <2>7, <2>8, <1>4 DEF Return
    <3> QED
      BY <3>1, <3>2
  <2>10. Start' = Start /\ F' = F
    BY <1>4 DEF Return, Start
  <2>11. pc = "loop" /\ pc' = "returned" /\ UNCHANGED <<fn, quan, subject, subj>>
    BY <1>4 DEF Return
  <2> HIDE DEF F
  <2> QED
    BY <2>5, <2>7, <2>9, <2>10, <2>11 DEF Computed, F
<1>5. CASE UNCHANGED vars
  <2>1. Start' = Start
    BY <1>5 DEF vars, Start
  <2> QED
    BY <1>5, <2>1 DEF vars, Computed
<1> QED
  BY <1>1, <1>2, <1>3, <1>4, <1>5 DEF Next

\* Whatever the subject and the delimiter, explode returns or throws as the
\* function Exploded says: the loop has no other outcome.
THEOREM ComputesTheFunction == Spec => []ComputesExploded
<1>1. IInv /\ Computed => ComputesExploded
  <2> SUFFICES ASSUME IInv, Computed, pc # "loop" PROVE ComputesExploded
    BY DEF ComputesExploded
  <2>1. pc \in {"returned", "null", "thrown"}
    BY DEF IInv, TypeOK
  <2>2. Exploded(quan, subject) = FromFn(quan, subject)[1]
    BY ExplodedIsFrom
  <2> QED
    BY <2>1, <2>2 DEF Computed, ComputesExploded
<1>2. IInv /\ Computed /\ [Next]_vars => (IInv /\ Computed)'
  BY NextIInv, ComputedStep
<1> QED
  BY <1>1, <1>2, InitIInv, ComputedInit, PTL DEF Spec

(***************************************************************************)
(* The reference Split, unfolded.                                          *)
(***************************************************************************)
\* Where the delimiter stands, from position k on.
Places(q, s, k) == {h \in k .. Len(s) - Len(q) + 1 : SubSeq(s, h, h + Len(q) - 1) = q}

\* The parts of the rest at each position.
PartsFn(q, s) ==
  CHOOSE f : f = [k \in 1 .. Len(s) + 1 |->
    IF Places(q, s, k) = {} THEN <<SubSeq(s, k, Len(s))>>
    ELSE <<SubSeq(s, k, Min(Places(q, s, k)) - 1)>> \o f[Min(Places(q, s, k)) + Len(q)]]

\* Split is that function at position 1.
LEMMA SplitIsParts ==
  ASSUME NEW q, NEW s PROVE Split(q, s) = PartsFn(q, s)[1]
BY DEF Split, PartsFn, Places

\* The first place is one, and the text after it is shorter.
LEMMA PlacesFacts ==
  ASSUME NEW q \in Seq(Char), 0 < Len(q), NEW s \in Seq(Char), NEW k \in 1 .. Len(s) + 1,
         Places(q, s, k) # {}
  PROVE  /\ Min(Places(q, s, k)) \in Places(q, s, k)
         /\ \A h \in Places(q, s, k) : Min(Places(q, s, k)) <= h
         /\ Min(Places(q, s, k)) \in k .. Len(s) - Len(q) + 1
         /\ Min(Places(q, s, k)) + Len(q) \in 1 .. Len(s) + 1 /\ k < Min(Places(q, s, k)) + Len(q)
         /\ SubSeq(s, k, Min(Places(q, s, k)) - 1) \in Seq(Char)
<1> DEFINE P == Places(q, s, k)
           m == Min(P)
<1>0. Len(s) \in Nat /\ Len(q) \in Nat
  OBVIOUS
<1>1. P \subseteq Nat
  BY <1>0 DEF Places
<1>2. m \in P /\ \A h \in P : m <= h
  <2> HIDE DEF P
  <2> QED
    BY <1>1, MinIsLeast DEF P
<1>3. m \in k .. Len(s) - Len(q) + 1
  <2> HIDE DEF m
  <2> QED
    BY <1>2 DEF Places
<1> HIDE DEF m
<1>4. m + Len(q) \in 1 .. Len(s) + 1 /\ k < m + Len(q)
  BY <1>0, <1>3
<1>5. SubSeq(s, k, m - 1) \in Seq(Char)
  BY <1>0, <1>3
<1> QED
  BY <1>2, <1>3, <1>4, <1>5 DEF m

\* It is defined at every position, and by its recursion.
LEMMA PartsFnExists ==
  ASSUME NEW q \in Seq(Char), 0 < Len(q), NEW s \in Seq(Char)
  PROVE  /\ PartsFn(q, s) \in [1 .. Len(s) + 1 -> Seq(Seq(Char))]
         /\ \A k \in 1 .. Len(s) + 1 :
              PartsFn(q, s)[k] =
                IF Places(q, s, k) = {} THEN <<SubSeq(s, k, Len(s))>>
                ELSE <<SubSeq(s, k, Min(Places(q, s, k)) - 1)>>
                       \o PartsFn(q, s)[Min(Places(q, s, k)) + Len(q)]
<1> DEFINE I == 1 .. Len(s) + 1
           D == Seq(Seq(Char))
           B == Len(s) + 2
           mu == [k \in I |-> Len(s) + 1 - k]
           body(k, f) == IF Places(q, s, k) = {} THEN <<SubSeq(s, k, Len(s))>>
                         ELSE <<SubSeq(s, k, Min(Places(q, s, k)) - 1)>>
                                \o f[Min(Places(q, s, k)) + Len(q)]
           step == [p \in I \X [I -> D] |-> body(p[1], p[2])]
<1>0. Len(s) \in Nat
  OBVIOUS
<1>2. D # {} /\ B \in Nat /\ mu \in [I -> Nat] /\ \A k \in I : mu[k] < B
  <2>1. D # {}
    <3>1. <<>> \in D
      OBVIOUS
    <3> HIDE DEF D
    <3> QED
      BY <3>1
  <2>2. B \in Nat /\ mu \in [I -> Nat] /\ \A k \in I : mu[k] < B
    BY <1>0
  <2> QED
    BY <2>1, <2>2
<1>3. ASSUME NEW k \in I, Places(q, s, k) # {}
      PROVE  /\ Min(Places(q, s, k)) + Len(q) \in I /\ mu[Min(Places(q, s, k)) + Len(q)] < mu[k]
             /\ SubSeq(s, k, Min(Places(q, s, k)) - 1) \in Seq(Char)
  <2> DEFINE n == Min(Places(q, s, k)) + Len(q)
  <2>1. n \in I /\ k < n /\ SubSeq(s, k, Min(Places(q, s, k)) - 1) \in Seq(Char)
    BY <1>3, PlacesFacts
  <2> HIDE DEF n
  <2>2. mu[n] < mu[k]
    BY <2>1, <1>0
  <2> QED
    BY <2>1, <2>2 DEF n
<1>4. ASSUME NEW k \in I, NEW f, \A j \in I : mu[j] < mu[k] => f[j] \in D
      PROVE  body(k, f) \in D
  <2>1. CASE Places(q, s, k) # {}
    <3> DEFINE x == SubSeq(s, k, Min(Places(q, s, k)) - 1)
               y == f[Min(Places(q, s, k)) + Len(q)]
    <3>1. x \in Seq(Char) /\ y \in D
      BY <2>1, <1>3, <1>4
    <3> HIDE DEF x, y
    <3>2. <<x>> \o y \in D
      BY <3>1, ConcatProperties
    <3> QED
      BY <3>2, <2>1 DEF x, y
  <2>2. CASE Places(q, s, k) = {}
    <3>1. SubSeq(s, k, Len(s)) \in Seq(Char)
      BY <1>0
    <3> QED
      BY <2>2, <3>1
  <2> QED
    BY <2>1, <2>2
<1>5. ASSUME NEW k \in I, NEW f, NEW g, \A j \in I : mu[j] < mu[k] => f[j] = g[j]
      PROVE  body(k, f) = body(k, g)
  <2>1. CASE Places(q, s, k) # {}
    <3>1. f[Min(Places(q, s, k)) + Len(q)] = g[Min(Places(q, s, k)) + Len(q)]
      BY <2>1, <1>3, <1>5
    <3> QED
      BY <3>1
  <2>2. CASE Places(q, s, k) = {}
    BY <2>2
  <2> QED
    BY <2>1, <2>2
<1> HIDE DEF D, B, mu, I, body
<1>6. \A k \in I, f \in [I -> D] : step[<<k, f>>] = body(k, f)
  OBVIOUS
<1>7. step \in [I \X [I -> D] -> D]
  <2>1. \A p \in I \X [I -> D] : p[1] \in I /\ p[2] \in [I -> D]
    OBVIOUS
  <2>2. \A p \in I \X [I -> D] : body(p[1], p[2]) \in D
    BY <2>1, <1>4
  <2> QED
    BY <2>2
<1> HIDE DEF step
<1>8. \A k \in I : \A f, g \in [I -> D] :
        (\A j \in I : mu[j] < mu[k] => f[j] = g[j]) => step[<<k, f>>] = step[<<k, g>>]
  BY <1>5, <1>6
<1>9. IsRecursion(I, D, mu, B, step)
  BY <1>2, <1>7, <1>8, Zenon DEF IsRecursion
<1>10. PICK f \in [I -> D] : \A k \in I : f[k] = step[<<k, f>>]
  BY <1>9, RecursiveFunction
<1>11. f = [k \in I |-> body(k, f)]
  BY <1>10, <1>6
<1> DEFINE F == PartsFn(q, s)
<1>12. F = [k \in I |-> body(k, F)]
  BY <1>11 DEF PartsFn, body, I
<1> HIDE DEF F
<1> DEFINE S == {k \in I : F[k] \in D}
<1>13. \A k \in I : (\A j \in I : mu[j] < mu[k] => j \in S) => k \in S
  BY <1>12, <1>4
<1>14. \A k \in I : k \in S
  <2> HIDE DEF S
  <2> QED
    BY <1>13, <1>2, MeasureInduction, Zenon
<1>15. F \in [I -> D]
  BY <1>12, <1>14
<1>16. \A k \in I : F[k] = body(k, F)
  BY <1>12
<1> QED
  BY <1>15, <1>16 DEF F, I, D, body

(***************************************************************************)
(* The loop and the reference.                                             *)
(***************************************************************************)

\* For a clean list, the parts so far and what Split finds from the rest on
\* are the parts of the list.
Agrees ==
  Clean(quan, Split(quan, subject)) =>
    /\ Start # 1 => out # <<>>
    /\ pc = "loop" => Split(quan, subject) = out \o PartsFn(quan, subject)[Start]
    /\ pc # "thrown"
    /\ pc = "returned" => out = Split(quan, subject)

\* The parts of a list in three pieces.
LEMMA ThreePieces ==
  ASSUME NEW front \in Seq(Seq(Char)), NEW a \in Seq(Char), NEW back \in Seq(Seq(Char))
  PROVE  LET all == front \o (<<a>> \o back)
         IN  /\ Len(all) = Len(front) + 1 + Len(back)
             /\ all[Len(front) + 1] = a
             /\ back # <<>> => all[Len(all)] = back[Len(back)]
<1> DEFINE tail == <<a>> \o back
           all == front \o tail
           n == Len(front)
           b == Len(back)
<1>1. n \in Nat /\ b \in Nat /\ <<a>> \in Seq(Seq(Char)) /\ Len(<<a>>) = 1 /\ (back # <<>> => b > 0)
  OBVIOUS
<1>2. tail \in Seq(Seq(Char)) /\ Len(tail) = 1 + b
      /\ \A j \in 1 .. 1 + b : tail[j] = IF j <= 1 THEN <<a>>[j] ELSE back[j - 1]
  BY <1>1, ConcatProperties
<1>3. tail[1] = a /\ (b > 0 => tail[1 + b] = back[b])
  BY <1>1, <1>2
<1> HIDE DEF tail
<1>4. Len(all) = n + Len(tail)
      /\ \A j \in 1 .. n + Len(tail) : all[j] = IF j <= n THEN front[j] ELSE tail[j - n]
  BY <1>2, ConcatProperties
<1> HIDE DEF all, n, b
<1>5. all[n + 1] = a /\ (b > 0 => all[n + (1 + b)] = back[b])
  BY <1>1, <1>2, <1>3, <1>4
<1>6. Len(all) = n + 1 + b /\ n + (1 + b) = n + 1 + b
  BY <1>1, <1>2, <1>4
<1> QED
  BY <1>1, <1>5, <1>6 DEF all, tail, n, b

\* What cleanness says of them.
LEMMA CleanPieces ==
  ASSUME NEW q \in Seq(Char), 0 < Len(q),
         NEW front \in Seq(Seq(Char)), NEW a \in Seq(Char), NEW back \in Seq(Seq(Char)),
         Clean(q, front \o (<<a>> \o back))
  PROVE  /\ front # <<>> => a # <<>>
         /\ back = <<>> => Len(q) <= Len(a) /\ ~Blank(a)
         /\ back # <<>> => back[Len(back)] # <<>>
<1> DEFINE all == front \o (<<a>> \o back)
<1>1. /\ Len(all) = Len(front) + 1 + Len(back)
      /\ all[Len(front) + 1] = a
      /\ back # <<>> => all[Len(all)] = back[Len(back)]
  BY ThreePieces, Zenon
<1>2. /\ \A k \in 2 .. Len(all) : all[k] # <<>>
      /\ Len(all[Len(all)]) >= Len(q)
      /\ ~Blank(all[Len(all)])
  BY Zenon DEF Clean
<1> HIDE DEF all
<1>3. /\ Len(front) \in Nat /\ Len(back) \in Nat /\ Len(q) \in Nat /\ Len(a) \in Nat
      /\ front # <<>> => Len(front) > 0
      /\ back # <<>> => Len(back) > 0
      /\ back = <<>> => Len(back) = 0
  OBVIOUS
<1>4. front # <<>> => Len(front) + 1 \in 2 .. Len(all)
  BY <1>1, <1>3
<1>5. back = <<>> => Len(all) = Len(front) + 1
  BY <1>1, <1>3
<1>6. back # <<>> => Len(all) \in 2 .. Len(all)
  BY <1>1, <1>3
<1> QED
  BY <1>1, <1>2, <1>3, <1>4, <1>5, <1>6

\* There is a part once one was added.
LEMMA NotEmpty ==
  ASSUME NEW parts \in Seq(Seq(Char)), NEW a \in Seq(Char)
  PROVE  Append(parts, a) # <<>>
BY AppendProperties

\* Nothing is there to be found where the loop does not look: at the start of
\* the rest after a cut, and at the very end of the subject.
LEMMA CleanPlaces ==
  ASSUME IInv, Start # 1 => out # <<>>, Clean(quan, Split(quan, subject)),
         Split(quan, subject) = out \o PartsFn(quan, subject)[Start],
         Places(quan, subject, Start) # {}
  PROVE  Min(Places(quan, subject, Start)) \in Hits(quan, subject, Start)
<1> DEFINE F == PartsFn(quan, subject)
           P == Places(quan, subject, Start)
           m == Min(P)
           n == m + Len(quan)
           a == SubSeq(subject, Start, m - 1)
<1>1. /\ m \in P /\ m \in Start .. Len(subject) - Len(quan) + 1
      /\ n \in 1 .. Len(subject) + 1 /\ a \in Seq(Char)
  BY Positions, PlacesFacts
<1>2. F[Start] = <<a>> \o F[n] /\ F[n] \in Seq(Seq(Char))
  BY <1>1, Positions, PartsFnExists
<1>3. Clean(quan, out \o (<<a>> \o F[n]))
  BY <1>2
<1> HIDE DEF F
<1>4. (out # <<>> => a # <<>>) /\ (F[n] # <<>> => F[n][Len(F[n])] # <<>>)
  <2> HIDE DEF a, n
  <2> QED
    BY <1>1, <1>2, <1>3, Positions, CleanPieces
<1>5. m = Start => a = <<>>
  <2>1. Start - 1 < Start /\ Start \in Int /\ Start - 1 \in Int
    BY Positions
  <2> QED
    BY <2>1, SubSeqEmpty
<1>6. Start = 1 \/ Start + 1 <= m
  <2>1. Start # 1 => m # Start
    BY <1>4, <1>5
  <2> HIDE DEF m
  <2> QED
    BY <2>1, <1>1, Positions
<1>7. m # Len(subject) - Len(quan) + 1
  <2>1. SUFFICES ASSUME m = Len(subject) - Len(quan) + 1 PROVE FALSE
    OBVIOUS
  <2>2. n = Len(subject) + 1
    BY <2>1, Positions
  <2>3. Places(quan, subject, n) = {}
    <3> SUFFICES ASSUME NEW x \in Places(quan, subject, n) PROVE FALSE
      OBVIOUS
    <3>1. x \in n .. Len(subject) - Len(quan) + 1
      BY DEF Places
    <3> QED
      BY <3>1, <2>2, Positions
  <2>4. F[n] = <<SubSeq(subject, n, Len(subject))>>
    BY <1>1, <2>3, Positions, PartsFnExists DEF F
  <2>5. SubSeq(subject, n, Len(subject)) = <<>>
    BY <2>2, Positions, SubSeqEmpty
  <2> HIDE DEF n
  <2>6. F[n] = <<<<>>>>
    BY <2>4, <2>5
  <2> QED
    BY <2>6, <1>4
<1>8. m \in (IF Start = 1 THEN 1 ELSE Start + 1) .. Len(subject) - Len(quan)
  <2>1. m \in Start .. Len(subject) - Len(quan) + 1
    BY <1>1
  <2>2. /\ Start \in Nat /\ 1 <= Start /\ Len(subject) \in Nat /\ Len(quan) \in Nat
    BY Positions
  <2> HIDE DEF m
  <2>3. m \in Int /\ Start <= m /\ m <= Len(subject) - Len(quan)
    BY <2>1, <2>2, <1>7
  <2>4. CASE Start = 1
    BY <2>2, <2>3, <2>4
  <2>5. CASE Start # 1
    BY <2>2, <2>3, <2>5, <1>6
  <2> QED
    BY <2>4, <2>5
<1>9. SubSeq(subject, m, m + Len(quan) - 1) = quan
  BY <1>1 DEF Places
<1> QED
  BY <1>8, <1>9 DEF Hits

\* At the end of the loop the rest is the last part.
LEMMA LastPart ==
  ASSUME IInv, Computed, Start # 1 => out # <<>>, Clean(quan, Split(quan, subject)),
         Split(quan, subject) = out \o PartsFn(quan, subject)[Start],
         Hits(quan, subject, Start) = {}
  PROVE  Split(quan, subject) = Append(out, subj) /\ Len(quan) <= Len(subj) /\ ~Blank(subj)
<1>1. Places(quan, subject, Start) = {}
  BY CleanPlaces
<1>2. PartsFn(quan, subject)[Start] = <<SubSeq(subject, Start, Len(subject))>>
  BY <1>1, Positions, PartsFnExists
<1>3. PartsFn(quan, subject)[Start] = <<subj>>
  BY <1>2 DEF Computed
<1>4. Split(quan, subject) = out \o <<subj>>
  BY <1>3
<1>5. out \o <<subj>> = Append(out, subj)
  BY Positions, AppendIsConcat
<1>6. <<subj>> \o <<>> = <<subj>> /\ <<>> \in Seq(Seq(Char))
  <2>1. <<subj>> \in Seq(Seq(Char))
    BY Positions
  <2> QED
    BY <2>1, ConcatEmptySeq
<1>7. Clean(quan, out \o (<<subj>> \o <<>>))
  BY <1>4, <1>6
<1>8. Len(quan) <= Len(subj) /\ ~Blank(subj)
  BY <1>6, <1>7, Positions, CleanPieces
<1> QED
  BY <1>4, <1>5, <1>8

\* It holds when the function is called.
LEMMA AgreesInit == Init => Agrees
<1> SUFFICES ASSUME Init, Clean(quan, Split(quan, subject)) PROVE Agrees
  BY DEF Agrees
<1>1. IInv
  BY InitIInv
<1>2. Start = 1 /\ out = <<>>
  BY <1>1, Positions DEF Init, Start
<1>3. PartsFn(quan, subject)[1] \in Seq(Seq(Char))
  <2>1. 1 \in 1 .. Len(subject) + 1
    BY <1>1, Positions
  <2> QED
    BY <1>1, <2>1, Positions, PartsFnExists
<1>4. Split(quan, subject) = <<>> \o PartsFn(quan, subject)[1]
  BY <1>3, SplitIsParts, ConcatEmptySeq
<1>5. pc # "thrown" /\ pc # "returned"
  BY DEF Init
<1> QED
  BY <1>2, <1>4, <1>5 DEF Agrees

\* Every iteration keeps it.
LEMMA AgreesStep == IInv /\ Computed /\ Agrees /\ [Next]_vars => Agrees'
<1> SUFFICES ASSUME IInv, Computed, Agrees, [Next]_vars, Clean(quan, Split(quan, subject))'
             PROVE  Agrees'
  BY DEF Agrees
<1> DEFINE F == PartsFn(quan, subject)
<1>0. UNCHANGED <<quan, subject>>
  BY DEF Next, Throw, Skip, Cut, Return, vars
<1>1. Clean(quan, Split(quan, subject)) /\ (Start # 1 => out # <<>>)
      /\ (pc = "loop" => Split(quan, subject) = out \o F[Start])
  BY <1>0 DEF Agrees
<1>2. CASE Throw
  <2>1. Len(subj) < Len(quan) /\ pc = "loop"
    BY <1>2, NextIInv DEF Throw, IInv, ThrowsOnlyOnShortRest, Next
  <2>2. Hits(quan, subject, Start) = {}
    BY <2>1, ShortRest
  <2>3. Len(quan) <= Len(subj)
    BY <2>1, <2>2, <1>1, LastPart
  <2> QED
    BY <2>1, <2>3, Positions
<1>3. CASE Skip
  <2>1. Start' = Start /\ out' = out /\ pc' = pc /\ pc = "loop"
    BY <1>3 DEF Skip, Start
  <2> QED
    BY <2>1, <1>0, <1>1 DEF Agrees
<1>4. CASE Cut
  <2> DEFINE a == SubSeq(subj, 1, i)
             h == Start + i
             n == Start + i + Len(quan)
             P == Places(quan, subject, Start)
  <2>1. pc = "loop" /\ pc' = "loop" /\ out' = Append(out, a)
    BY <1>4 DEF Cut
  <2>2. /\ h \in Hits(quan, subject, Start) /\ Min(Hits(quan, subject, Start)) = h
        /\ n \in 1 .. Len(subject) + 1 /\ a \in Seq(Char) /\ Start' = n
        /\ FirstPart(quan, subject, Start) = a
    BY <1>4, CutFacts
  <2>3. h \in P
    <3>1. SubSeq(subject, h, h + Len(quan) - 1) = quan
      BY <2>2 DEF Hits
    <3>2. h \in Start .. Len(subject) - Len(quan) + 1
      <4>1. h \in Int /\ h <= Len(subject) - Len(quan)
        BY <2>2, Positions DEF Hits
      <4> QED
        BY <4>1, Positions
    <3> QED
      BY <3>1, <3>2 DEF Places
  <2>4. Min(P) = h
    <3>1. Min(P) \in Hits(quan, subject, Start)
      BY <1>1, <2>1, <2>3, CleanPlaces
    <3>2. \A x \in Hits(quan, subject, Start) : h <= x
      <4>1. Hits(quan, subject, Start) # {}
        BY <2>2
      <4>2. \A x \in Hits(quan, subject, Start) : Min(Hits(quan, subject, Start)) <= x
        BY <4>1, Positions, HitsFacts
      <4> QED
        BY <4>2, <2>2
    <3>3. \A x \in P : Min(P) <= x
      BY <2>3, Positions, PlacesFacts
    <3>4. Min(P) \in Int /\ h \in Int
      BY <3>1, Positions DEF Hits
    <3> QED
      BY <3>1, <3>2, <3>3, <3>4, <2>3
  <2>5. SubSeq(subject, Start, Min(P) - 1) = a
    BY <2>2, <2>4 DEF FirstPart
  <2>6. F[Start] = <<a>> \o F[n] /\ F[n] \in Seq(Seq(Char))
    <3>1. F[Start] = <<SubSeq(subject, Start, Min(P) - 1)>> \o F[Min(P) + Len(quan)]
      BY <2>3, Positions, PartsFnExists
    <3>2. F[n] \in Seq(Seq(Char))
      BY <2>2, Positions, PartsFnExists
    <3> HIDE DEF F, a, P
    <3> QED
      BY <3>1, <3>2, <2>4, <2>5
  <2>7. out \o (<<a>> \o F[n]) = Append(out, a) \o F[n] /\ Append(out, a) # <<>>
    <3>1. a \in Seq(Char) /\ F[n] \in Seq(Seq(Char)) /\ out \in Seq(Seq(Char))
      BY <2>2, <2>6, Positions
    <3> HIDE DEF a, F, n
    <3> QED
      BY <3>1, MovePart, NotEmpty
  <2> HIDE DEF a, F, n, h
  <2>8. Split(quan, subject) = out' \o F[n]
    BY <1>1, <2>1, <2>6, <2>7
  <2>9. F' = F
    BY <1>0 DEF F
  <2>10. Split(quan, subject)' = Split(quan, subject)
    BY <1>0
  <2>11. out' # <<>>
    BY <2>1, <2>7
  <2> QED
    BY <2>1, <2>2, <2>8, <2>9, <2>10, <2>11 DEF Agrees, F
<1>5. CASE Return
  <2>1. pc = "loop" /\ pc' = "returned" /\ Start' = Start
    BY <1>5 DEF Return, Start
  <2>2. Hits(quan, subject, Start) = {}
    BY <1>5, ReturnFacts
  <2>3. Split(quan, subject) = Append(out, subj) /\ ~Blank(subj)
    BY <2>1, <2>2, <1>1, LastPart
  <2>4. out' = Append(out, subj)
    BY <2>3, <1>5 DEF Return
  <2>5. out' # <<>>
    BY <2>4, Positions, NotEmpty
  <2> QED
    BY <2>1, <2>3, <2>4, <2>5, <1>0 DEF Agrees
<1>6. CASE UNCHANGED vars
  <2>1. Start' = Start
    BY <1>6 DEF vars, Start
  <2> QED
    BY <1>6, <2>1 DEF vars, Agrees
<1> QED
  BY <1>2, <1>3, <1>4, <1>5, <1>6 DEF Next

\* A list without empty parts whose last part is neither blank nor shorter
\* than the delimiter is split at every delimiter, whatever its length.
THEOREM SplitsCleanLists == Spec => []CleanListsSplit
<1>1. Agrees => CleanListsSplit
  BY DEF Agrees, CleanListsSplit
<1>2. IInv /\ Computed /\ Agrees /\ [Next]_vars => (IInv /\ Computed /\ Agrees)'
  BY NextIInv, ComputedStep, AgreesStep
<1> QED
  BY <1>1, <1>2, InitIInv, ComputedInit, AgreesInit, PTL DEF Spec
=============================================================================
