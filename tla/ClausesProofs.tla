--------------------------- MODULE ClausesProofs ----------------------------
(***************************************************************************)
(* Proofs about the parsing of names and clauses, for every query, every   *)
(* set of columns and texts of every length: its types, that a program     *)
(* g++ accepts says what its query says, and that it accepts the queries   *)
(* of the grammar.                                                         *)
(***************************************************************************)
EXTENDS Clauses, Induction, SequenceTheorems, FiniteSetTheorems, TLAPS

\* Min of a non-empty set of natural numbers is its least element.
LEMMA MinIsLeast ==
  ASSUME NEW S, S \subseteq Nat, S # {}
  PROVE  Min(S) \in S /\ \A y \in S : Min(S) <= y
<1>1. \E x \in S : \A y \in S : x <= y
  BY Least
<1> QED
  BY <1>1 DEF Min

(***************************************************************************)
(* The function Exploded, unfolded.                                        *)
(***************************************************************************)
\* Where a cut may be, searching from position i on: not at the start of a
\* rest that follows a cut, and not at the very end.
Hits(q, s, i) ==
  {h \in (IF i = 1 THEN 1 ELSE i + 1) .. Len(s) - Len(q) : SubSeq(s, h, h + Len(q) - 1) = q}

\* What becomes of the rest at i when there is no cut left.
Ending(q, s, i) ==
  IF Len(SubSeq(s, i, Len(s))) < Len(q) THEN [how |-> "thrown", parts |-> <<>>]
  ELSE [how |-> "returned",
        parts |-> IF Blank(SubSeq(s, i, Len(s))) THEN <<>> ELSE <<SubSeq(s, i, Len(s))>>]

\* What the splitting of the rest at each position gives.
FromFn(q, s) ==
  CHOOSE f : f = [i \in 1 .. Len(s) + 1 |->
    IF Hits(q, s, i) # {}
    THEN [f[Min(Hits(q, s, i)) + Len(q)] EXCEPT !.parts = <<SubSeq(s, i, Min(Hits(q, s, i)) - 1)>> \o @]
    ELSE Ending(q, s, i)]

\* Exploded is its value at the start of the string.
LEMMA ExplodedIsFrom ==
  ASSUME NEW q, NEW s PROVE Exploded(q, s) = FromFn(q, s)[1]
BY DEF Exploded, FromFn, Hits, Ending

\* The values of Exploded.
Outcomes == [how : {"thrown", "returned"}, parts : Seq(Seq(Token))]

\* Where the search goes on after the first hit.
NextStart(q, s, i) == Min(Hits(q, s, i)) + Len(q)
\* The part before that hit.
FirstPart(q, s, i) == SubSeq(s, i, Min(Hits(q, s, i)) - 1)

\* The first hit is in the string, and the search goes on behind it.
LEMMA HitsFacts ==
  ASSUME NEW q \in Seq(Token), 0 < Len(q), NEW s \in Seq(Token), NEW i \in 1 .. Len(s) + 1
  PROVE  /\ Ending(q, s, i) \in Outcomes
         /\ Hits(q, s, i) # {} =>
              /\ Min(Hits(q, s, i)) \in Hits(q, s, i)
              /\ \A h \in Hits(q, s, i) : Min(Hits(q, s, i)) <= h
              /\ NextStart(q, s, i) \in 1 .. Len(s) + 1 /\ i < NextStart(q, s, i)
              /\ FirstPart(q, s, i) \in Seq(Token)
<1>0. Len(s) \in Nat /\ Len(q) \in Nat
  OBVIOUS
<1>1. SubSeq(s, i, Len(s)) \in Seq(Token)
  BY <1>0
<1>2. Ending(q, s, i) \in Outcomes
  BY <1>1 DEF Ending, Outcomes
<1>3. ASSUME Hits(q, s, i) # {}
      PROVE /\ Min(Hits(q, s, i)) \in Hits(q, s, i)
            /\ \A h \in Hits(q, s, i) : Min(Hits(q, s, i)) <= h
            /\ NextStart(q, s, i) \in 1 .. Len(s) + 1 /\ i < NextStart(q, s, i)
            /\ FirstPart(q, s, i) \in Seq(Token)
  <2> DEFINE H == Hits(q, s, i)
             m == Min(H)
  <2>1. H \subseteq Nat
    BY <1>0 DEF Hits
  <2>2. m \in H /\ \A h \in H : m <= h
    <3> HIDE DEF H
    <3> QED
      BY <1>3, <2>1, MinIsLeast DEF H
  <2>3. m \in Nat /\ i <= m /\ m <= Len(s) - Len(q)
    <3> HIDE DEF m
    <3> QED
      BY <2>2, <1>0 DEF Hits
  <2> HIDE DEF m
  <2>4. m + Len(q) \in 1 .. Len(s) + 1 /\ i < m + Len(q)
    BY <2>3, <1>0
  <2>5. SubSeq(s, i, m - 1) \in Seq(Token)
    BY <2>3, <1>0
  <2> QED
    BY <2>2, <2>4, <2>5 DEF m, NextStart, FirstPart
<1> QED
  BY <1>2, <1>3

\* It is defined at every position, and by its recursion.
LEMMA FromFnExists ==
  ASSUME NEW q \in Seq(Token), 0 < Len(q), NEW s \in Seq(Token)
  PROVE  /\ FromFn(q, s) \in [1 .. Len(s) + 1 -> Outcomes]
         /\ \A i \in 1 .. Len(s) + 1 :
              FromFn(q, s)[i] =
                IF Hits(q, s, i) # {}
                THEN [how   |-> FromFn(q, s)[NextStart(q, s, i)].how,
                      parts |-> <<FirstPart(q, s, i)>> \o FromFn(q, s)[NextStart(q, s, i)].parts]
                ELSE Ending(q, s, i)
<1> DEFINE I == 1 .. Len(s) + 1
           D == Outcomes
           B == Len(s) + 2
           mu == [i \in I |-> Len(s) + 1 - i]
           body(i, f) == IF Hits(q, s, i) # {}
                         THEN [f[NextStart(q, s, i)] EXCEPT !.parts = <<FirstPart(q, s, i)>> \o @]
                         ELSE Ending(q, s, i)
           step == [p \in I \X [I -> D] |-> body(p[1], p[2])]
<1>0. Len(s) \in Nat
  OBVIOUS
<1>1. ASSUME NEW x \in D, NEW y \in Seq(Token)
      PROVE  /\ [x EXCEPT !.parts = <<y>> \o @] = [how |-> x.how, parts |-> <<y>> \o x.parts]
             /\ [x EXCEPT !.parts = <<y>> \o @] \in D
  <2>1. <<y>> \in Seq(Seq(Token)) /\ x.parts \in Seq(Seq(Token)) /\ x.how \in {"thrown", "returned"}
    BY DEF Outcomes
  <2>2. <<y>> \o x.parts \in Seq(Seq(Token))
    BY <2>1, ConcatProperties
  <2>3. ASSUME NEW v PROVE [x EXCEPT !.parts = v] = [how |-> x.how, parts |-> v]
    BY DEF Outcomes
  <2> QED
    BY <2>1, <2>2, <2>3 DEF Outcomes
<1>2. D # {} /\ B \in Nat /\ mu \in [I -> Nat] /\ \A i \in I : mu[i] < B
  <2>1. [how |-> "thrown", parts |-> <<>>] \in D
    BY DEF Outcomes
  <2> QED
    BY <2>1, <1>0
<1>3. ASSUME NEW i \in I, Hits(q, s, i) # {}
      PROVE  NextStart(q, s, i) \in I /\ mu[NextStart(q, s, i)] < mu[i] /\ FirstPart(q, s, i) \in Seq(Token)
  <2>1. NextStart(q, s, i) \in I /\ i < NextStart(q, s, i) /\ FirstPart(q, s, i) \in Seq(Token)
    BY <1>3, HitsFacts
  <2> QED
    BY <2>1, <1>0
<1>4. ASSUME NEW i \in I, NEW f, \A j \in I : mu[j] < mu[i] => f[j] \in D
      PROVE  body(i, f) \in D
  <2>1. CASE Hits(q, s, i) # {}
    BY <2>1, <1>1, <1>3, <1>4
  <2>2. CASE Hits(q, s, i) = {}
    BY <2>2, HitsFacts
  <2> QED
    BY <2>1, <2>2
<1>5. ASSUME NEW i \in I, NEW f, NEW g, \A j \in I : mu[j] < mu[i] => f[j] = g[j]
      PROVE  body(i, f) = body(i, g)
  <2>1. CASE Hits(q, s, i) # {}
    <3>1. f[NextStart(q, s, i)] = g[NextStart(q, s, i)]
      BY <2>1, <1>3, <1>5
    <3> QED
      BY <3>1
  <2>2. CASE Hits(q, s, i) = {}
    BY <2>2
  <2> QED
    BY <2>1, <2>2
<1> HIDE DEF D, B, mu, I, body
<1>6. \A i \in I, f \in [I -> D] : step[<<i, f>>] = body(i, f)
  OBVIOUS
<1>7. step \in [I \X [I -> D] -> D]
  <2>1. \A p \in I \X [I -> D] : p[1] \in I /\ p[2] \in [I -> D]
    OBVIOUS
  <2>2. \A p \in I \X [I -> D] : body(p[1], p[2]) \in D
    BY <2>1, <1>4
  <2> QED
    BY <2>2
<1> HIDE DEF step
<1>8. \A i \in I : \A f, g \in [I -> D] :
        (\A j \in I : mu[j] < mu[i] => f[j] = g[j]) => step[<<i, f>>] = step[<<i, g>>]
  BY <1>5, <1>6
<1>9. IsRecursion(I, D, mu, B, step)
  BY <1>2, <1>7, <1>8, Zenon DEF IsRecursion
<1>10. PICK f \in [I -> D] : \A i \in I : f[i] = step[<<i, f>>]
  BY <1>9, RecursiveFunction
<1>11. f = [i \in I |-> body(i, f)]
  BY <1>10, <1>6
<1> DEFINE F == FromFn(q, s)
<1>12. F = [i \in I |-> body(i, F)]
  BY <1>11 DEF FromFn, body, I, NextStart, FirstPart
<1> HIDE DEF F
<1> DEFINE S == {i \in I : F[i] \in D}
<1>13. \A i \in I : (\A j \in I : mu[j] < mu[i] => j \in S) => i \in S
  BY <1>12, <1>4
<1>14. \A i \in I : i \in S
  <2> HIDE DEF S
  <2> QED
    BY <1>13, <1>2, MeasureInduction, Zenon
<1>15. F \in [I -> D]
  BY <1>12, <1>14
<1>16. ASSUME NEW i \in I
       PROVE  F[i] = IF Hits(q, s, i) # {}
                     THEN [how   |-> F[NextStart(q, s, i)].how,
                           parts |-> <<FirstPart(q, s, i)>> \o F[NextStart(q, s, i)].parts]
                     ELSE Ending(q, s, i)
  <2>1. F[i] = body(i, F)
    BY <1>12
  <2>2. CASE Hits(q, s, i) # {}
    <3>1. F[NextStart(q, s, i)] \in D /\ FirstPart(q, s, i) \in Seq(Token)
      BY <2>2, <1>3, <1>15
    <3> QED
      BY <2>1, <2>2, <3>1, <1>1 DEF body
  <2>3. CASE Hits(q, s, i) = {}
    BY <2>1, <2>3 DEF body
  <2> QED
    BY <2>2, <2>3
<1> QED
  BY <1>15, <1>16 DEF F, I, D

-----------------------------------------------------------------------------
(***************************************************************************)
(* Texts, their pieces and their blanks.                                   *)
(***************************************************************************)
\* Min and Max of a set with a least and a greatest element.
LEMMA MinMaxIs ==
  ASSUME NEW S, S \subseteq Nat, NEW m \in S
  PROVE  /\ (\A y \in S : m <= y) => Min(S) = m
         /\ (\A y \in S : y <= m) => Max(S) = m
<1>1. m \in Nat /\ \A x \in S : x \in Nat
  OBVIOUS
<1>2. ASSUME \A y \in S : m <= y PROVE Min(S) = m
  <2>1. \A x \in S : (\A y \in S : x <= y) => x = m
    BY <1>1, <1>2
  <2> QED
    BY <1>2, <2>1 DEF Min
<1>3. ASSUME \A y \in S : y <= m PROVE Max(S) = m
  <2>1. \A x \in S : (\A y \in S : x >= y) => x = m
    BY <1>1, <1>3
  <2>2. \A y \in S : m >= y
    BY <1>1, <1>3
  <2> QED
    BY <2>1, <2>2 DEF Max
<1> QED
  BY <1>2, <1>3

\* What SubSeq cuts out.
LEMMA Piece ==
  ASSUME NEW s \in Seq(Token), NEW a \in Nat \ {0}, NEW b \in Nat, b <= Len(s)
  PROVE  /\ SubSeq(s, a, b) \in Seq(Token)
         /\ Len(SubSeq(s, a, b)) = IF a <= b THEN b - a + 1 ELSE 0
         /\ \A j \in 1 .. b - a + 1 : SubSeq(s, a, b)[j] = s[a + j - 1]
         /\ DOMAIN SubSeq(s, a, b) = 1 .. (IF a <= b THEN b - a + 1 ELSE 0)
<1>1. \A i \in a .. b : s[i] \in Token
  OBVIOUS
<1>2. /\ SubSeq(s, a, b) \in Seq(Token)
      /\ Len(SubSeq(s, a, b)) = IF a <= b THEN b - a + 1 ELSE 0
      /\ \A j \in 1 .. b - a + 1 : SubSeq(s, a, b)[j] = s[a + j - 1]
  BY <1>1, SubSeqProperties
<1>3. DOMAIN SubSeq(s, a, b) = 1 .. Len(SubSeq(s, a, b))
  BY <1>2, LenProperties
<1> QED
  BY <1>2, <1>3

\* Texts with the same tokens are the same.
LEMMA SameText ==
  ASSUME NEW s \in Seq(Token), NEW t \in Seq(Token), Len(s) = Len(t),
         \A j \in 1 .. Len(s) : s[j] = t[j]
  PROVE  s = t
BY SeqEqual

\* A piece of a piece.
LEMMA PieceOfPiece ==
  ASSUME NEW s \in Seq(Token), NEW a \in Nat \ {0}, NEW b \in Nat, b <= Len(s),
         NEW c \in Nat \ {0}, NEW d \in Nat, a + d - 1 <= b
  PROVE  SubSeq(SubSeq(s, a, b), c, d) = SubSeq(s, a + c - 1, a + d - 1)
<1> DEFINE r == SubSeq(s, a, b)
           L == SubSeq(r, c, d)
           R == SubSeq(s, a + c - 1, a + d - 1)
<1>0. Len(s) \in Nat
  OBVIOUS
<1>1. r \in Seq(Token) /\ Len(r) = (IF a <= b THEN b - a + 1 ELSE 0)
       /\ \A j \in 1 .. b - a + 1 : r[j] = s[a + j - 1]
  BY Piece
<1> HIDE DEF r
<1>2. d <= Len(r)
  BY <1>0, <1>1
<1>3. L \in Seq(Token) /\ Len(L) = (IF c <= d THEN d - c + 1 ELSE 0)
       /\ \A j \in 1 .. d - c + 1 : L[j] = r[c + j - 1]
  <2>1. r \in Seq(Token)
    BY <1>1
  <2> QED
    BY <2>1, <1>2, Piece
<1>4. /\ R \in Seq(Token) /\ Len(R) = (IF c <= d THEN d - c + 1 ELSE 0)
      /\ \A j \in 1 .. d - c + 1 : R[j] = s[a + c - 1 + j - 1]
  <2> DEFINE x == a + c - 1
             y == a + d - 1
  <2>1. x \in Nat \ {0} /\ y \in Nat /\ y <= Len(s)
    BY <1>0
  <2>2. x <= y <=> c <= d
    OBVIOUS
  <2>3. y - x + 1 = d - c + 1
    OBVIOUS
  <2> HIDE DEF x, y
  <2>4. SubSeq(s, x, y) \in Seq(Token) /\ Len(SubSeq(s, x, y)) = (IF x <= y THEN y - x + 1 ELSE 0)
         /\ \A j \in 1 .. y - x + 1 : SubSeq(s, x, y)[j] = s[x + j - 1]
    BY <2>1, Piece
  <2>5. SubSeq(s, x, y) \in Seq(Token) /\ Len(SubSeq(s, x, y)) = (IF c <= d THEN d - c + 1 ELSE 0)
         /\ \A j \in 1 .. d - c + 1 : SubSeq(s, x, y)[j] = s[x + j - 1]
    BY <2>2, <2>3, <2>4
  <2> QED
    BY <2>5 DEF x, y
<1> HIDE DEF L, R
<1>5. ASSUME NEW j \in 1 .. Len(L) PROVE L[j] = R[j]
  <2>1. j \in 1 .. d - c + 1 /\ c + j - 1 \in 1 .. b - a + 1
    BY <1>0, <1>3
  <2>2. L[j] = r[c + j - 1] /\ R[j] = s[a + c - 1 + j - 1]
    BY <2>1, <1>3, <1>4
  <2>3. r[c + j - 1] = s[a + (c + j - 1) - 1]
    BY <2>1, <1>1
  <2>4. a + (c + j - 1) - 1 = a + c - 1 + j - 1
    BY <2>1
  <2> QED
    BY <2>2, <2>3, <2>4
<1>6. Len(L) = Len(R)
  BY <1>3, <1>4
<1>7. L = R
  BY <1>3, <1>4, <1>5, <1>6, SameText
<1> QED
  BY <1>7 DEF L, R, r

\* The text is its piece from a to b and blanks around it.
Padded(t, a, b) ==
  /\ t \in Seq(Token) /\ a \in Nat \ {0} /\ b \in Nat /\ a <= b /\ b <= Len(t)
  /\ \A p \in 1 .. Len(t) : t[p] \in BlankChars <=> ~(a <= p /\ p <= b)

\* A text of blanks is not seen.
LEMMA StrippedBlank ==
  ASSUME NEW t, Blank(t) PROVE Stripped(t) = <<>>
BY DEF Stripped

\* Stripping leaves the piece.
LEMMA StrippedPadded ==
  ASSUME NEW t, NEW a, NEW b, Padded(t, a, b)
  PROVE  Stripped(t) = SubSeq(t, a, b) /\ ~Blank(t) /\ Stripped(t) # <<>>
<1> DEFINE seen == {p \in DOMAIN t : t[p] \notin BlankChars}
<1>0. t \in Seq(Token) /\ a \in Nat \ {0} /\ b \in Nat /\ a <= b /\ b <= Len(t)
       /\ Len(t) \in Nat /\ DOMAIN t = 1 .. Len(t)
  BY DEF Padded
<1>1. seen = a .. b
  BY <1>0 DEF Padded
<1>2. ~Blank(t)
  BY <1>0, <1>1 DEF Blank
<1> HIDE DEF seen
<1>3. Min(seen) = a /\ Max(seen) = b
  <2>1. seen \subseteq Nat /\ a \in seen /\ b \in seen
    BY <1>0, <1>1
  <2>2. (\A y \in seen : a <= y) /\ (\A y \in seen : y <= b)
    BY <1>0, <1>1
  <2> QED
    BY <2>1, <2>2, MinMaxIs
<1>4. Stripped(t) = SubSeq(t, a, b)
  BY <1>2, <1>3 DEF Stripped, seen
<1>5. Len(SubSeq(t, a, b)) = b - a + 1
  BY <1>0, Piece
<1>6. SubSeq(t, a, b) # <<>>
  BY <1>5, <1>0
<1> QED
  BY <1>2, <1>4, <1>6

\* A text without blanks stays as it is.
LEMMA StrippedClean ==
  ASSUME NEW t \in Seq(Token), \A p \in 1 .. Len(t) : t[p] \notin BlankChars
  PROVE  Stripped(t) = t /\ (t # <<>> => ~Blank(t) /\ Padded(t, 1, Len(t)))
<1>1. CASE t = <<>>
  BY <1>1 DEF Stripped, Blank
<1>2. CASE t # <<>>
  <2>1. Len(t) \in Nat /\ 1 <= Len(t)
    BY <1>2
  <2>2. Padded(t, 1, Len(t))
    BY <2>1 DEF Padded
  <2>3. Stripped(t) = SubSeq(t, 1, Len(t)) /\ ~Blank(t)
    BY <2>2, StrippedPadded
  <2> QED
    BY <2>2, <2>3, SubSeqFull
<1> QED
  BY <1>1, <1>2

-----------------------------------------------------------------------------
(***************************************************************************)
(* Counting: the r-th element of a finite set of numbers.                  *)
(***************************************************************************)
\* Nth finds the element of each rank.
LEMMA NthFacts ==
  ASSUME NEW S, S \subseteq Nat, IsFiniteSet(S)
  PROVE  /\ \A r \in 1 .. Cardinality(S) : Nth(S, r) \in S /\ Cardinality(Up(S, Nth(S, r))) = r
         /\ \A p \in S : Nth(S, Cardinality(Up(S, p))) = p
<1> DEFINE n == Cardinality(S)
<1>1. /\ \A p \in S : Cardinality(Up(S, p)) \in 1 .. n
      /\ \A p, q \in S : Cardinality(Up(S, p)) = Cardinality(Up(S, q)) => p = q
      /\ \A r \in 1 .. n : \E p \in S : Cardinality(Up(S, p)) = r
  BY Ranks
<1>2. ASSUME NEW r \in 1 .. n PROVE Nth(S, r) \in S /\ Cardinality(Up(S, Nth(S, r))) = r
  BY <1>1 DEF Nth, Up
<1>3. ASSUME NEW p \in S PROVE Nth(S, Cardinality(Up(S, p))) = p
  <2>1. Cardinality(Up(S, p)) \in 1 .. n
    BY <1>1
  <2> DEFINE r == Cardinality(Up(S, p))
  <2>2. Nth(S, r) \in S /\ Cardinality(Up(S, Nth(S, r))) = r
    BY <2>1, <1>2
  <2> QED
    BY <2>2, <1>1
<1> QED
  BY <1>2, <1>3

\* An increasing function onto a set finds its elements in their order.
InOrder(f, S, T) ==
  /\ S \subseteq Nat /\ IsFiniteSet(S) /\ T \subseteq Nat /\ f \in [S -> T]
  /\ \A p, q \in S : p < q => f[p] < f[q]
  /\ \A t \in T : \E p \in S : f[p] = t

\* The ranks of the image are the ranks of the elements.
LEMMA NthImage ==
  ASSUME NEW f, NEW S, NEW T, InOrder(f, S, T)
  PROVE  /\ IsFiniteSet(T) /\ Cardinality(T) = Cardinality(S)
         /\ \A r \in 1 .. Cardinality(S) : \E p \in S : Nth(S, r) = p /\ Nth(T, r) = f[p]
<1> USE DEF InOrder
<1>0. \A p \in S : p \in Nat /\ f[p] \in T /\ f[p] \in Nat
  OBVIOUS
<1>1. \A p, q \in S : f[p] = f[q] => p = q
  <2> SUFFICES ASSUME NEW p \in S, NEW q \in S, f[p] = f[q], p # q PROVE FALSE
    OBVIOUS
  <2>1. p < q \/ q < p
    BY <1>0
  <2> QED
    BY <2>1, <1>0
<1>2. \A p, q \in S : q <= p <=> f[q] <= f[p]
  <2> SUFFICES ASSUME NEW p \in S, NEW q \in S PROVE q <= p <=> f[q] <= f[p]
    OBVIOUS
  <2>1. q < p \/ q = p \/ p < q
    BY <1>0
  <2> QED
    BY <2>1, <1>0
<1>3. f \in Bijection(S, T)
  BY <1>1 DEF Bijection, Injection, Surjection, IsInjective
<1>4. IsFiniteSet(T) /\ Cardinality(T) = Cardinality(S)
  BY <1>3, FS_Bijection DEF ExistsBijection
<1>5. ASSUME NEW p \in S PROVE Cardinality(Up(T, f[p])) = Cardinality(Up(S, p))
  <2> DEFINE g == [q \in Up(S, p) |-> f[q]]
  <2>1. g \in [Up(S, p) -> Up(T, f[p])]
    BY <1>0, <1>2 DEF Up
  <2>2. \A a, b \in Up(S, p) : g[a] = g[b] => a = b
    BY <1>1 DEF Up
  <2>3. \A t \in Up(T, f[p]) : \E a \in Up(S, p) : g[a] = t
    <3> SUFFICES ASSUME NEW t \in Up(T, f[p]) PROVE \E a \in Up(S, p) : g[a] = t
      OBVIOUS
    <3>1. PICK a \in S : f[a] = t
      BY DEF Up
    <3>2. a \in Up(S, p)
      BY <3>1, <1>2 DEF Up
    <3> QED
      BY <3>1, <3>2
  <2> HIDE DEF g
  <2>4. g \in Bijection(Up(S, p), Up(T, f[p]))
    BY <2>1, <2>2, <2>3 DEF Bijection, Injection, Surjection, IsInjective
  <2>5. IsFiniteSet(Up(S, p))
    BY <1>0, UpFacts
  <2> QED
    BY <2>4, <2>5, FS_Bijection DEF ExistsBijection
<1>6. ASSUME NEW r \in 1 .. Cardinality(S)
      PROVE  \E p \in S : Nth(S, r) = p /\ Nth(T, r) = f[p]
  <2>1. Nth(S, r) \in S /\ Cardinality(Up(S, Nth(S, r))) = r
    BY NthFacts
  <2>2. Cardinality(Up(T, f[Nth(S, r)])) = r
    BY <2>1, <1>5
  <2>3. f[Nth(S, r)] \in T
    BY <2>1
  <2>4. Nth(T, Cardinality(Up(T, f[Nth(S, r)]))) = f[Nth(S, r)]
    BY <2>3, <1>4, NthFacts
  <2> QED
    BY <2>1, <2>2, <2>4
<1> QED
  BY <1>4, <1>6

\* All numbers up to n are their own ranks.
LEMMA NthOfInterval ==
  ASSUME NEW n \in Nat
  PROVE  /\ IsFiniteSet(1 .. n) /\ Cardinality(1 .. n) = n
         /\ \A r \in 1 .. n : Nth(1 .. n, r) = r
<1>1. IsFiniteSet(1 .. n) /\ Cardinality(1 .. n) = n
  BY FS_Interval
<1>2. ASSUME NEW r \in 1 .. n PROVE Nth(1 .. n, r) = r
  <2>1. Up(1 .. n, r) = 1 .. r
    BY DEF Up
  <2>2. Cardinality(1 .. r) = r
    BY FS_Interval
  <2>3. Nth(1 .. n, Cardinality(Up(1 .. n, r))) = r
    BY <1>1, NthFacts
  <2> QED
    BY <2>1, <2>2, <2>3
<1> QED
  BY <1>1, <1>2

-----------------------------------------------------------------------------
(***************************************************************************)
(* explode and c_explode with a delimiter of one character.                *)
(***************************************************************************)
\* Where the search for the next delimiter starts.
SearchFrom(i) == IF i = 1 THEN 1 ELSE i + 1

\* The hits are the delimiters between there and the last character.
LEMMA HitsOne ==
  ASSUME NEW d \in Token, NEW s \in Seq(Token), NEW i \in 1 .. Len(s) + 1
  PROVE  Hits(<<d>>, s, i) = {h \in SearchFrom(i) .. Len(s) - 1 : s[h] = d}
<1>1. Len(<<d>>) = 1 /\ Len(s) \in Nat /\ <<d>> \in Seq(Token) /\ <<d>>[1] = d
  OBVIOUS
<1>2. ASSUME NEW h \in SearchFrom(i) .. Len(s) - 1
      PROVE  SubSeq(s, h, h + 1 - 1) = <<d>> <=> s[h] = d
  <2>1. h \in Nat \ {0} /\ h \in Nat /\ h <= Len(s) /\ h + 1 - 1 = h /\ h - h + 1 = 1
    BY <1>1 DEF SearchFrom
  <2> DEFINE x == SubSeq(s, h, h)
  <2>2. x \in Seq(Token) /\ Len(x) = 1 /\ x[1] = s[h]
    <3>1. x \in Seq(Token) /\ Len(x) = (IF h <= h THEN h - h + 1 ELSE 0) /\ \A j \in 1 .. h - h + 1 : x[j] = s[h + j - 1]
      BY <2>1, Piece
    <3>2. h + 1 - 1 = h /\ 1 \in 1 .. h - h + 1 /\ h <= h
      BY <2>1
    <3> HIDE DEF x
    <3> QED
      BY <3>1, <3>2, <2>1
  <2> HIDE DEF x
  <2>3. x = <<d>> <=> s[h] = d
    BY <2>2, <1>1, SameText
  <2> QED
    BY <2>1, <2>3 DEF x
<1> QED
  BY <1>1, <1>2 DEF Hits, SearchFrom

\* The first delimiter found from i on is at m.
NextCut(d, s, i, m) ==
  /\ i \in 1 .. Len(s) + 1 /\ m \in SearchFrom(i) .. Len(s) - 1 /\ s[m] = d
  /\ \A h \in SearchFrom(i) .. m - 1 : s[h] # d

\* The part before it, and what is found behind it.
CutGives(d, s, i, m) ==
  /\ m + 1 \in 1 .. Len(s) /\ i <= m
  /\ FromFn(<<d>>, s)[i].how = FromFn(<<d>>, s)[m + 1].how
  /\ FromFn(<<d>>, s)[i].parts = <<SubSeq(s, i, m - 1)>> \o FromFn(<<d>>, s)[m + 1].parts

\* None is found.
NoMore(d, s, i) == i \in 1 .. Len(s) /\ \A h \in SearchFrom(i) .. Len(s) - 1 : s[h] # d

\* What a cut gives.
LEMMA CutAt ==
  ASSUME NEW d \in Token, NEW s \in Seq(Token), NEW i, NEW m, NextCut(d, s, i, m)
  PROVE  CutGives(d, s, i, m)
<1> USE DEF NextCut
<1> DEFINE q == <<d>>
           H == Hits(q, s, i)
<1>1. Len(s) \in Nat /\ q \in Seq(Token) /\ Len(q) = 1 /\ 0 < Len(q)
  OBVIOUS
<1>2. m \in Nat /\ i <= m /\ m + 1 \in 1 .. Len(s) /\ m - 1 \in Nat
  BY <1>1 DEF SearchFrom
<1>3. H = {h \in SearchFrom(i) .. Len(s) - 1 : s[h] = d}
  BY HitsOne
<1>4. m \in H /\ H # {}
  BY <1>3
<1>5. \A h \in H : h \in Nat /\ m <= h
  <2>1. SearchFrom(i) \in Nat
    BY <1>1 DEF SearchFrom
  <2>2. \A h \in SearchFrom(i) .. m - 1 : s[h] # d
    OBVIOUS
  <2> SUFFICES ASSUME NEW h \in H PROVE h \in Nat /\ m <= h
    OBVIOUS
  <2>3. h \in SearchFrom(i) .. Len(s) - 1 /\ s[h] = d
    BY <1>3
  <2>4. h \in Nat /\ SearchFrom(i) <= h
    BY <2>1, <2>3, <1>1
  <2>5. ~(h \in SearchFrom(i) .. m - 1)
    BY <2>2, <2>3
  <2> HIDE DEF H, NextCut
  <2> QED
    BY <1>2, <2>1, <2>4, <2>5
<1> HIDE DEF H, q
<1>6. Min(H) = m
  BY <1>4, <1>5, MinMaxIs
<1>7. NextStart(q, s, i) = m + 1 /\ FirstPart(q, s, i) = SubSeq(s, i, m - 1)
  <2>1. Min(Hits(q, s, i)) = m
    BY <1>6 DEF H
  <2>2. NextStart(q, s, i) = m + 1
    BY <2>1, <1>1 DEF NextStart
  <2>3. FirstPart(q, s, i) = SubSeq(s, i, m - 1)
    BY <2>1, Zenon DEF FirstPart
  <2> QED
    BY <2>2, <2>3
<1>8. FromFn(q, s)[i] = [how   |-> FromFn(q, s)[NextStart(q, s, i)].how,
                         parts |-> <<FirstPart(q, s, i)>> \o FromFn(q, s)[NextStart(q, s, i)].parts]
  <2>1. Hits(q, s, i) # {}
    BY <1>4 DEF H
  <2> QED
    BY <1>1, <2>1, FromFnExists
<1>9. /\ FromFn(q, s)[i].how = FromFn(q, s)[m + 1].how
      /\ FromFn(q, s)[i].parts = <<SubSeq(s, i, m - 1)>> \o FromFn(q, s)[m + 1].parts
  BY <1>7, <1>8
<1> QED
  BY <1>2, <1>9, Zenon DEF q, CutGives

\* What there is without one.
LEMMA NoCut ==
  ASSUME NEW d \in Token, NEW s \in Seq(Token), NEW i, NoMore(d, s, i)
  PROVE  /\ FromFn(<<d>>, s)[i].how = "returned"
         /\ FromFn(<<d>>, s)[i].parts =
              IF Blank(SubSeq(s, i, Len(s))) THEN <<>> ELSE <<SubSeq(s, i, Len(s))>>
<1> USE DEF NoMore
<1> DEFINE q == <<d>>
<1>1. Len(s) \in Nat /\ q \in Seq(Token) /\ Len(q) = 1 /\ 0 < Len(q) /\ i \in 1 .. Len(s) + 1
  OBVIOUS
<1>2. Hits(q, s, i) = {h \in SearchFrom(i) .. Len(s) - 1 : s[h] = d}
  BY <1>1, HitsOne
<1>3. Hits(q, s, i) = {}
  BY <1>2
<1> HIDE DEF q
<1>4. FromFn(q, s)[i] = Ending(q, s, i)
  BY <1>1, <1>3, FromFnExists
<1>5. Len(SubSeq(s, i, Len(s))) = Len(s) - i + 1
  BY <1>1, Piece
<1>6. ~(Len(SubSeq(s, i, Len(s))) < Len(q))
  <2> DEFINE x == Len(SubSeq(s, i, Len(s)))
  <2> HIDE DEF x
  <2>1. x = Len(s) - i + 1
    BY <1>5 DEF x
  <2>2. ~(x < Len(q))
    BY <2>1, <1>1
  <2> QED
    BY <2>2 DEF x
<1>7. /\ FromFn(q, s)[i].how = "returned"
      /\ FromFn(q, s)[i].parts = IF Blank(SubSeq(s, i, Len(s))) THEN <<>> ELSE <<SubSeq(s, i, Len(s))>>
  BY <1>4, <1>6 DEF Ending
<1> QED
  BY <1>7, Zenon DEF q

\* The values of Exploded are texts.
LEMMA ExplodedTypes ==
  ASSUME NEW d \in Token, NEW s \in Seq(Token)
  PROVE  /\ Exploded(<<d>>, s).parts \in Seq(Seq(Token))
         /\ Exploded(<<d>>, s) = FromFn(<<d>>, s)[1]
<1>1. Len(s) \in Nat /\ <<d>> \in Seq(Token) /\ 0 < Len(<<d>>) /\ 1 \in 1 .. Len(s) + 1
  OBVIOUS
<1>2. FromFn(<<d>>, s)[1] \in Outcomes
  BY <1>1, FromFnExists
<1> QED
  BY <1>2, ExplodedIsFrom DEF Outcomes

\* A text of one part at most: no delimiter but the last character.
LEMMA NotCut ==
  ASSUME NEW d \in Token, NEW s \in Seq(Token), s # <<>>, \A h \in 1 .. Len(s) - 1 : s[h] # d
  PROVE  Len(Exploded(<<d>>, s).parts) < 2
<1>1. 1 \in 1 .. Len(s)
  OBVIOUS
<1>2. FromFn(<<d>>, s)[1].parts =
              IF Blank(SubSeq(s, 1, Len(s))) THEN <<>> ELSE <<SubSeq(s, 1, Len(s))>>
  BY <1>1, NoCut DEF SearchFrom, NoMore
<1>3. Len(<<>>) < 2 /\ \A x : Len(<<x>>) < 2
  OBVIOUS
<1>4. FromFn(<<d>>, s)[1].parts = <<>> \/ FromFn(<<d>>, s)[1].parts = <<SubSeq(s, 1, Len(s))>>
  BY <1>2
<1>5. Len(FromFn(<<d>>, s)[1].parts) < 2
  BY <1>3, <1>4
<1> QED
  BY <1>5, ExplodedTypes

\* One cut: the first part, and the rest if there is one.
OneCut(d, s, u) ==
  /\ u \in 1 .. Len(s) - 1 /\ s[u] = d
  /\ \A h \in 1 .. u - 1 : s[h] # d
  /\ \A h \in u + 2 .. Len(s) - 1 : s[h] # d

\* What explode returns for such a text.
LEMMA CutOnce ==
  ASSUME NEW d \in Token, NEW s \in Seq(Token), NEW u, OneCut(d, s, u)
  PROVE  LET rest == SubSeq(s, u + 1, Len(s))
         IN  /\ Exploded(<<d>>, s).how = "returned"
             /\ Exploded(<<d>>, s).parts =
                  IF Blank(rest) THEN <<SubSeq(s, 1, u - 1)>> ELSE <<SubSeq(s, 1, u - 1), rest>>
<1> DEFINE f == FromFn(<<d>>, s)
           rest == SubSeq(s, u + 1, Len(s))
           one == SubSeq(s, 1, u - 1)
<1> USE DEF OneCut
<1>0. Len(s) \in Nat /\ u \in Nat /\ 1 \in 1 .. Len(s) + 1
  OBVIOUS
<1>1. u + 1 \in 1 .. Len(s) /\ f[1].how = f[u + 1].how /\ f[1].parts = <<one>> \o f[u + 1].parts
  <2> DEFINE i == 1
  <2>1. NextCut(d, s, i, u)
    BY <1>0 DEF SearchFrom, NextCut
  <2> HIDE DEF i
  <2>2. CutGives(d, s, i, u)
    BY <2>1, CutAt, Zenon
  <2> QED
    BY <2>2, Zenon DEF i, CutGives
<1>2. f[u + 1].how = "returned" /\ f[u + 1].parts = IF Blank(rest) THEN <<>> ELSE <<rest>>
  <2>1. SearchFrom(u + 1) = u + 2
    BY <1>0 DEF SearchFrom
  <2> HIDE DEF f
  <2> DEFINE i == u + 1
  <2>2. NoMore(d, s, i)
    BY <1>1, <2>1 DEF NoMore
  <2> HIDE DEF i
  <2>3. /\ FromFn(<<d>>, s)[i].how = "returned"
        /\ FromFn(<<d>>, s)[i].parts =
              IF Blank(SubSeq(s, i, Len(s))) THEN <<>> ELSE <<SubSeq(s, i, Len(s))>>
    BY <2>2, NoCut
  <2> QED
    BY <2>3 DEF i, f
<1>3. Exploded(<<d>>, s) = f[1]
  BY ExplodedTypes
<1> HIDE DEF f, rest, one
<1>4. <<one>> \o <<>> = <<one>> /\ <<one>> \o <<rest>> = <<one, rest>>
  <2>1. one \in Seq(Token) /\ rest \in Seq(Token)
    BY <1>0, Piece DEF one, rest
  <2> QED
    BY <2>1, Lists
<1> QED
  BY <1>1, <1>2, <1>3, <1>4 DEF rest, one

\* Two cuts.
TwoCuts(d, s, u, v) ==
  /\ u \in 1 .. Len(s) - 1 /\ s[u] = d /\ v \in u + 2 .. Len(s) - 1 /\ s[v] = d
  /\ \A h \in 1 .. u - 1 : s[h] # d
  /\ \A h \in u + 2 .. v - 1 : s[h] # d
  /\ \A h \in v + 2 .. Len(s) - 1 : s[h] # d

\* What explode returns then.
LEMMA CutTwice ==
  ASSUME NEW d \in Token, NEW s \in Seq(Token), NEW u, NEW v, TwoCuts(d, s, u, v)
  PROVE  LET rest == SubSeq(s, v + 1, Len(s))
             one == SubSeq(s, 1, u - 1)
             two == SubSeq(s, u + 1, v - 1)
         IN  /\ Exploded(<<d>>, s).how = "returned"
             /\ Exploded(<<d>>, s).parts = IF Blank(rest) THEN <<one, two>> ELSE <<one, two, rest>>
<1> DEFINE f == FromFn(<<d>>, s)
           rest == SubSeq(s, v + 1, Len(s))
           one == SubSeq(s, 1, u - 1)
           two == SubSeq(s, u + 1, v - 1)
<1> USE DEF TwoCuts
<1>0. Len(s) \in Nat /\ u \in Nat /\ v \in Nat /\ 1 \in 1 .. Len(s) + 1
  OBVIOUS
<1>1. u + 1 \in 1 .. Len(s) /\ f[1].how = f[u + 1].how /\ f[1].parts = <<one>> \o f[u + 1].parts
  <2> DEFINE i == 1
  <2>1. NextCut(d, s, i, u)
    BY <1>0 DEF SearchFrom, NextCut
  <2> HIDE DEF i
  <2>2. CutGives(d, s, i, u)
    BY <2>1, CutAt, Zenon
  <2> QED
    BY <2>2, Zenon DEF i, CutGives
<1>2. v + 1 \in 1 .. Len(s) /\ f[u + 1].how = f[v + 1].how /\ f[u + 1].parts = <<two>> \o f[v + 1].parts
  <2>1. SearchFrom(u + 1) = u + 2
    BY <1>0 DEF SearchFrom
  <2> HIDE DEF f
  <2> DEFINE i == u + 1
  <2>2. NextCut(d, s, i, v)
    BY <1>0, <1>1, <2>1 DEF NextCut
  <2> HIDE DEF i
  <2>3. CutGives(d, s, i, v)
    BY <2>2, CutAt, Zenon
  <2> QED
    BY <2>3, Zenon DEF i, f, CutGives
<1>3. f[v + 1].how = "returned" /\ f[v + 1].parts = IF Blank(rest) THEN <<>> ELSE <<rest>>
  <2>1. SearchFrom(v + 1) = v + 2
    BY <1>0 DEF SearchFrom
  <2> HIDE DEF f
  <2> DEFINE i == v + 1
  <2>2. NoMore(d, s, i)
    BY <1>2, <2>1 DEF NoMore
  <2> HIDE DEF i
  <2>3. /\ FromFn(<<d>>, s)[i].how = "returned"
        /\ FromFn(<<d>>, s)[i].parts =
              IF Blank(SubSeq(s, i, Len(s))) THEN <<>> ELSE <<SubSeq(s, i, Len(s))>>
    BY <2>2, NoCut
  <2> QED
    BY <2>3 DEF i, f
<1>4. Exploded(<<d>>, s) = f[1]
  BY ExplodedTypes
<1> HIDE DEF f, rest, one, two
<1>5. <<one>> \o (<<two>> \o <<>>) = <<one, two>> /\ <<one>> \o (<<two>> \o <<rest>>) = <<one, two, rest>>
  <2>1. one \in Seq(Token) /\ two \in Seq(Token) /\ rest \in Seq(Token)
    BY <1>0, Piece DEF one, two, rest
  <2> QED
    BY <2>1, Lists
<1> QED
  BY <1>1, <1>2, <1>3, <1>4, <1>5 DEF rest, one, two

-----------------------------------------------------------------------------
(***************************************************************************)
(* Names.                                                                  *)
(***************************************************************************)
\* The characters the code looks for are tokens, and not blanks.
LEMMA Characters ==
  /\ "_" \in Token /\ " " \in Token /\ "." \in Token /\ "\"" \in Token /\ "!" \in Token
  /\ "=" \in Token /\ "<" \in Token /\ ">" \in Token
  /\ "_" \notin BlankChars /\ "." \notin BlankChars /\ " " \in BlankChars
  /\ "'" \notin BlankChars /\ "\"" \notin BlankChars
  /\ OperatorChars \cap BlankChars = {} /\ Funcs \cap BlankChars = {} /\ "_" \notin Funcs
  /\ BlankChars \subseteq Punctuation /\ OperatorChars \subseteq Punctuation
  /\ "_" \notin Punctuation /\ Funcs \cap Punctuation = {} /\ Funcs \subseteq Token
BY BlankAssumption, TokenAssumption DEF Punctuation, OperatorChars, Funcs

\* Number tokens are no characters, no functions and no underscore.
LEMMA Numbers ==
  ASSUME NEW d \in DOMAIN Number
  PROVE  /\ d \in Token /\ d \notin Punctuation /\ d \notin BlankChars /\ d \notin OperatorChars
         /\ d \notin Funcs /\ d # "_" /\ d # "." /\ d # "'" /\ d # "\"" /\ Number[d] \in Nat
<1>1. d \in Token /\ d \notin Punctuation /\ d \notin Funcs /\ d # "_"
  BY NumberAssumption
<1>2. Number[d] \in Nat
  BY NumberAssumption
<1>3. d \notin BlankChars /\ d \notin OperatorChars
  BY <1>1, Characters
<1>4. "." \in Punctuation /\ "'" \in Punctuation /\ "\"" \in Punctuation
  BY DEF Punctuation
<1> QED
  BY <1>1, <1>2, <1>3, <1>4

\* Columns are texts of words.
LEMMA ColumnFacts ==
  ASSUME NEW c \in Columns
  PROVE  /\ c \in Seq(Token) /\ Len(c) \in Nat /\ 1 <= Len(c) /\ c[1] \notin DOMAIN Number
         /\ \A j \in 1 .. Len(c) : c[j] \in Token /\ c[j] \notin Punctuation
         /\ \A j \in 1 .. Len(c) : c[j] \notin BlankChars /\ c[j] \notin OperatorChars
         /\ Stripped(c) = c
<1>1. c \in Seq(Token) /\ c # <<>> /\ c[1] \notin DOMAIN Number /\ Range(c) \cap Punctuation = {}
  BY ColumnAssumption DEF Texts
<1>2. Len(c) \in Nat /\ 1 <= Len(c) /\ DOMAIN c = 1 .. Len(c)
  BY <1>1
<1>3. \A j \in 1 .. Len(c) : c[j] \in Token /\ c[j] \notin Punctuation
  BY <1>1, <1>2 DEF Range
<1>4. \A j \in 1 .. Len(c) : c[j] \notin BlankChars /\ c[j] \notin OperatorChars
  BY <1>3, Characters
<1>5. Stripped(c) = c
  BY <1>1, <1>4, StrippedClean
<1> QED
  BY <1>1, <1>2, <1>3, <1>4, <1>5

\* Two texts, one after the other.
LEMMA Cat ==
  ASSUME NEW x \in Seq(Token), NEW y \in Seq(Token)
  PROVE  /\ x \o y \in Seq(Token) /\ Len(x \o y) = Len(x) + Len(y)
         /\ \A j \in 1 .. Len(x) : (x \o y)[j] = x[j]
         /\ \A j \in 1 .. Len(y) : (x \o y)[Len(x) + j] = y[j]
<1>1. x \o y \in Seq(Token) /\ Len(x \o y) = Len(x) + Len(y)
       /\ \A i \in 1 .. Len(x) + Len(y) : (x \o y)[i] = IF i <= Len(x) THEN x[i] ELSE y[i - Len(x)]
  BY ConcatProperties
<1>2. Len(x) \in Nat /\ Len(y) \in Nat
  OBVIOUS
<1> DEFINE z == x \o y
<1> HIDE DEF z
<1>3. \A i \in 1 .. Len(x) + Len(y) : z[i] = IF i <= Len(x) THEN x[i] ELSE y[i - Len(x)]
  BY <1>1 DEF z
<1>4. \A j \in 1 .. Len(x) : z[j] = x[j]
  BY <1>2, <1>3
<1>5. ASSUME NEW j \in 1 .. Len(y) PROVE z[Len(x) + j] = y[j]
  <2>1. Len(x) + j \in 1 .. Len(x) + Len(y) /\ ~(Len(x) + j <= Len(x)) /\ Len(x) + j - Len(x) = j
    BY <1>2
  <2> QED
    BY <2>1, <1>3
<1> QED
  BY <1>1, <1>4, <1>5 DEF z

\* The text z is x, y and then c.
TwoThen(x, y, c, z) ==
  /\ z \in Seq(Token) /\ Len(z) = Len(c) + 2 /\ z[1] = x /\ z[2] = y
  /\ \A j \in 1 .. Len(c) : z[j + 2] = c[j]

\* Two tokens in front of a text.
LEMMA CatTwo ==
  ASSUME NEW x \in Token, NEW y \in Token, NEW c \in Seq(Token)
  PROVE  TwoThen(x, y, c, <<x, y>> \o c)
<1> DEFINE b == <<x, y>>
<1>1. b \in Seq(Token) /\ Len(b) = 2 /\ b[1] = x /\ b[2] = y /\ Len(c) \in Nat
  OBVIOUS
<1> HIDE DEF b
<1>2. b \o c \in Seq(Token) /\ Len(b \o c) = Len(b) + Len(c)
       /\ (\A j \in 1 .. Len(b) : (b \o c)[j] = b[j])
       /\ (\A j \in 1 .. Len(c) : (b \o c)[Len(b) + j] = c[j])
  BY <1>1, Cat
<1> DEFINE z == b \o c
<1> HIDE DEF z
<1>3. z \in Seq(Token) /\ Len(z) = Len(b) + Len(c)
       /\ (\A j \in 1 .. Len(b) : z[j] = b[j])
       /\ (\A j \in 1 .. Len(c) : z[Len(b) + j] = c[j])
  BY <1>2 DEF z
<1>4. Len(z) = Len(c) + 2 /\ z[1] = x /\ z[2] = y /\ \A j \in 1 .. Len(c) : z[j + 2] = c[j]
  <2>1. \A j \in 1 .. Len(c) : Len(b) + j = j + 2
    BY <1>1
  <2>2. 1 \in 1 .. Len(b) /\ 2 \in 1 .. Len(b) /\ Len(b) + Len(c) = Len(c) + 2
    BY <1>1
  <2> QED
    BY <1>1, <1>3, <2>1, <2>2
<1>5. TwoThen(x, y, c, z)
  BY <1>3, <1>4 DEF TwoThen
<1> QED
  BY <1>5 DEF z, b

\* A piece of one token.
LEMMA OneToken ==
  ASSUME NEW t \in Seq(Token), NEW x \in 1 .. Len(t)
  PROVE  SubSeq(t, x, x) = <<t[x]>>
<1> DEFINE L == SubSeq(t, x, x)
           y == t[x]
           R == <<y>>
<1>1. x \in Nat \ {0} /\ x <= Len(t) /\ x - x + 1 = 1 /\ x + 1 - 1 = x /\ y \in Token /\ x <= x
  OBVIOUS
<1>2. L \in Seq(Token) /\ Len(L) = (IF x <= x THEN x - x + 1 ELSE 0) /\ \A j \in 1 .. x - x + 1 : L[j] = t[x + j - 1]
  BY <1>1, Piece
<1> HIDE DEF L, y
<1>3. Len(L) = 1 /\ L[1] = y
  <2>1. 1 \in 1 .. x - x + 1
    BY <1>1
  <2>2. L[1] = t[x + 1 - 1]
    BY <1>2, <2>1
  <2> QED
    BY <1>1, <1>2, <2>2 DEF y
<1>4. R \in Seq(Token) /\ Len(R) = 1 /\ R[1] = y
  BY <1>1
<1> HIDE DEF R
<1>5. L = R
  <2>1. \A j \in 1 .. 1 : j = 1
    OBVIOUS
  <2>2. \A j \in 1 .. Len(L) : L[j] = R[j]
    BY <2>1, <1>3, <1>4
  <2> QED
    BY <1>2, <1>3, <1>4, <2>2, SameText
<1> QED
  BY <1>5 DEF L, R, y

\* A text is what comes before a token, the token, and what comes behind it.
LEMMA CutText ==
  ASSUME NEW t \in Seq(Token), NEW a \in Nat \ {0}, NEW u \in Nat, NEW b \in Nat,
         a <= u, u <= b, b <= Len(t), NEW x, t[u] = x
  PROVE  SubSeq(t, a, u - 1) \o <<x>> \o SubSeq(t, u + 1, b) = SubSeq(t, a, b)
<1> DEFINE v == u - 1
<1>1. /\ a \in 1 .. Len(t) + 1 /\ v \in a - 1 .. Len(t) /\ u \in v .. Len(t) /\ v + 1 = u
      /\ u \in a - 1 .. Len(t) /\ b \in u .. Len(t) /\ u \in 1 .. Len(t)
  OBVIOUS
<1> HIDE DEF v
<1>2. SubSeq(t, u, u) = <<x>>
  BY <1>1, OneToken
<1>3. SubSeq(t, a, v) \o SubSeq(t, v + 1, u) = SubSeq(t, a, u)
  BY <1>1, ConcatAdjacentSubSeq
<1>4. SubSeq(t, a, u) \o SubSeq(t, u + 1, b) = SubSeq(t, a, b)
  BY <1>1, ConcatAdjacentSubSeq
<1>5. SubSeq(t, a, v) \o <<x>> = SubSeq(t, a, u)
  BY <1>1, <1>2, <1>3, Zenon
<1> QED
  BY <1>4, <1>5, Zenon DEF v

\* The objects of the grammar and what they are called.
LEMMA ObjectFacts ==
  ASSUME NEW a \in Objects
  PROVE  \E f \in Funcs :
         /\ a.func = <<f>> /\ f \in Token /\ f \notin BlankChars /\ f # "_" /\ f \notin DOMAIN Number
         /\ a.group \in Nat /\ a.column \in Columns /\ a.column \in Seq(Token)
         /\ \A j \in 1 .. Len(a.column) : a.column[j] # "_"
         /\ toVar(a) \in Seq(Token) /\ Len(toVar(a)) = Len(a.column) + 2
         /\ toVar(a)[1] = f /\ toVar(a)[2] = "_"
         /\ \A j \in 1 .. Len(a.column) : toVar(a)[j + 2] = a.column[j]
         /\ \A p \in 1 .. Len(toVar(a)) : toVar(a)[p] \notin BlankChars
         /\ Stripped(toVar(a)) = toVar(a)
         /\ a = [group |-> a.group, func |-> a.func, column |-> a.column]
<1>1. PICK f \in Funcs : a.func = <<f>>
  BY DEF Objects
<1>2. f \in Token /\ f \notin BlankChars /\ f # "_" /\ f \notin DOMAIN Number
  BY Characters, NumberAssumption
<1>3. a.group \in Nat
  <2>1. \A d \in DOMAIN Number : Number[d] \in Nat
    BY Numbers
  <2>2. a.group \in {0} \cup Range(Number)
    BY DEF Objects
  <2> QED
    BY <2>1, <2>2 DEF Range
<1> DEFINE c == a.column
<1>4. c \in Columns /\ ~isAggregate(c)
  BY DEF Objects
<1> HIDE DEF c
<1>5. c \in Seq(Token) /\ Len(c) \in Nat /\ \A j \in 1 .. Len(c) : c[j] \notin BlankChars
  BY <1>4, ColumnFacts
<1>6. \A j \in 1 .. Len(c) : c[j] # "_"
  <2>1. DOMAIN c = 1 .. Len(c)
    BY <1>5
  <2> QED
    BY <1>4, <2>1, Zenon DEF isAggregate, Holds
<1> DEFINE v == toVar(a)
<1>7. v = <<f, "_">> \o c
  <2>1. <<f>> \o <<"_">> = <<f, "_">>
    BY <1>2, Characters, Lists
  <2> QED
    BY <1>1, <2>1, Zenon DEF toVar, c
<1> HIDE DEF v
<1>8. v \in Seq(Token) /\ Len(v) = Len(c) + 2 /\ v[1] = f /\ v[2] = "_" /\ \A j \in 1 .. Len(c) : v[j + 2] = c[j]
  <2>1. f \in Token /\ "_" \in Token /\ c \in Seq(Token)
    BY <1>2, <1>5, Characters
  <2>2. TwoThen(f, "_", c, <<f, "_">> \o c)
    BY <2>1, CatTwo, Zenon
  <2>3. TwoThen(f, "_", c, v)
    BY <1>7, <2>2, Zenon
  <2> QED
    BY <2>3 DEF TwoThen
<1>9. \A p \in 1 .. Len(v) : v[p] \notin BlankChars
  <2>0. Len(v) = Len(c) + 2 /\ Len(c) \in Nat
    BY <1>5, <1>8
  <2> SUFFICES ASSUME NEW p \in 1 .. Len(v) PROVE v[p] \notin BlankChars
    OBVIOUS
  <2>1. CASE p = 1
    BY <2>1, <1>8, <1>2
  <2>2. CASE p = 2
    BY <2>2, <1>8, Characters
  <2>3. CASE p > 2
    <3>1. p - 2 \in 1 .. Len(c) /\ p - 2 + 2 = p
      BY <2>3, <2>0
    <3>2. v[p - 2 + 2] = c[p - 2]
      BY <3>1, <1>8
    <3> QED
      BY <3>1, <3>2, <1>5
  <2> QED
    BY <2>0, <2>1, <2>2, <2>3
<1>10. Stripped(v) = v
  BY <1>8, <1>9, StrippedClean
<1>11. a = [group |-> a.group, func |-> a.func, column |-> a.column]
  BY DEF Objects
<1> QED
  BY <1>1, <1>2, <1>3, <1>4, <1>5, <1>6, <1>8, <1>9, <1>10, <1>11 DEF v, c

\* The token x stands at u in the piece from a to b.
CutHere(t, a, u, b, x) ==
  /\ t \in Seq(Token) /\ a \in Nat \ {0} /\ u \in Nat /\ b \in Nat
  /\ a <= u /\ u <= b /\ b <= Len(t) /\ t[u] = x

\* The two sides and the token between them are the piece.
LEMMA CutJoined ==
  ASSUME NEW t, NEW a, NEW u, NEW b, NEW x, CutHere(t, a, u, b, x)
  PROVE  SubSeq(t, a, u - 1) \o <<x>> \o SubSeq(t, u + 1, b) = SubSeq(t, a, b)
BY CutText DEF CutHere

\* What Aggregate makes of the parts.
\* The fields of an object.
IsObject(a, x, y, z) ==
  a = [group |-> x, func |-> y, column |-> z] /\ a.group = x /\ a.func = y /\ a.column = z

\* What the constructor of Aggregate makes of one, two and three parts.
LEMMA PartsRead ==
  ASSUME NEW t, NEW one, NEW two, NEW rest
  PROVE  /\ NameParts(t).parts = <<one>> => AggregateThrows(t)
         /\ NameParts(t).how = "returned" /\ NameParts(t).parts = <<one, two>> => ~AggregateThrows(t)
         /\ NameParts(t).parts = <<one, two>> =>
              IsObject(Aggregate(t), 0, one, two)
         /\ NameParts(t).how = "returned" /\ NameParts(t).parts = <<one, two, rest>> => ~AggregateThrows(t)
         /\ NameParts(t).parts = <<one, two, rest>> =>
              IsObject(Aggregate(t), atoi(one), two, rest)
<1>0. ASSUME NEW a, NEW x, NEW y, NEW z, a = [group |-> x, func |-> y, column |-> z]
      PROVE  IsObject(a, x, y, z)
  BY <1>0 DEF IsObject
<1> DEFINE P == NameParts(t).parts
<1> HIDE DEF P
<1>1. ASSUME P = <<one>> PROVE AggregateThrows(t)
  <2>1. Len(P) = 1
    BY <1>1, Tuples, Zenon
  <2> QED
    BY <2>1 DEF AggregateThrows, P
<1>2. ASSUME P = <<one, two>> PROVE /\ NameParts(t).how = "returned" => ~AggregateThrows(t)
                                   /\ IsObject(Aggregate(t), 0, one, two)
  <2>1. Len(P) = 2 /\ P[1] = one /\ P[2] = two
    BY <1>2, Tuples, Zenon
  <2>2. NameParts(t).how = "returned" => ~AggregateThrows(t)
    BY <2>1 DEF AggregateThrows, P
  <2>3. Len(P) # 3
    BY <2>1
  <2>4. Aggregate(t) = IF Len(P) = 3 THEN [group |-> atoi(P[1]), func |-> P[2], column |-> P[3]]
                       ELSE [group |-> 0, func |-> P[1], column |-> P[2]]
    BY Zenon DEF Aggregate, P
  <2>5. Aggregate(t) = [group |-> 0, func |-> one, column |-> two]
    BY <2>1, <2>3, <2>4, Zenon
  <2> QED
    BY <1>0, <2>2, <2>5
<1>3. ASSUME P = <<one, two, rest>>
      PROVE /\ NameParts(t).how = "returned" => ~AggregateThrows(t)
            /\ IsObject(Aggregate(t), atoi(one), two, rest)
  <2>1. Len(P) = 3 /\ P[1] = one /\ P[2] = two /\ P[3] = rest
    BY <1>3, Tuples, Zenon
  <2>2. NameParts(t).how = "returned" => ~AggregateThrows(t)
    BY <2>1 DEF AggregateThrows, P
  <2>4. Aggregate(t) = IF Len(P) = 3 THEN [group |-> atoi(P[1]), func |-> P[2], column |-> P[3]]
                       ELSE [group |-> 0, func |-> P[1], column |-> P[2]]
    BY Zenon DEF Aggregate, P
  <2>5. Aggregate(t) = [group |-> atoi(one), func |-> two, column |-> rest]
    BY <2>1, <2>4, Zenon
  <2> QED
    BY <1>0, <2>2, <2>5
<1> QED
  BY <1>1, <1>2, <1>3, Zenon DEF P

\* The delimiters of the text are at u and at v.
Scores(d, t, u, v) ==
  /\ t \in Seq(Token) /\ u \in 1 .. Len(t) /\ v \in 1 .. Len(t)
  /\ \A h \in 1 .. Len(t) : t[h] = d <=> (h = u \/ h = v)

\* What the cuts give with one delimiter.
LEMMA OneScore ==
  ASSUME NEW d \in Token, NEW t, NEW u, Scores(d, t, u, u)
  PROVE  /\ u = Len(t) => Len(Exploded(<<d>>, t).parts) < 2
         /\ u # Len(t) =>
              /\ Exploded(<<d>>, t).how = "returned"
              /\ Exploded(<<d>>, t).parts =
                   IF Blank(SubSeq(t, u + 1, Len(t))) THEN <<SubSeq(t, 1, u - 1)>>
                   ELSE <<SubSeq(t, 1, u - 1), SubSeq(t, u + 1, Len(t))>>
         /\ SubSeq(t, 1, u - 1) \o <<d>> \o SubSeq(t, u + 1, Len(t)) = t
<1>0. t \in Seq(Token) /\ Len(t) \in Nat /\ u \in 1 .. Len(t) /\ t[u] = d
       /\ (\A h \in 1 .. Len(t) : h # u => t[h] # d) /\ t # <<>>
  BY DEF Scores
<1>1. ASSUME u = Len(t) PROVE Len(Exploded(<<d>>, t).parts) < 2
  <2>1. \A h \in 1 .. Len(t) - 1 : t[h] # d
    BY <1>0, <1>1
  <2> QED
    BY <2>1, <1>0, NotCut, Zenon
<1>2. ASSUME u # Len(t) PROVE OneCut(d, t, u)
  BY <1>0, <1>2 DEF OneCut
<1>3. SubSeq(t, 1, u - 1) \o <<d>> \o SubSeq(t, u + 1, Len(t)) = t
  <2> DEFINE a == 1
             b == Len(t)
  <2>1. a \in Nat \ {0} /\ u \in Nat /\ b \in Nat /\ a <= u /\ u <= b /\ b <= Len(t)
    BY <1>0
  <2> HIDE DEF a, b
  <2>2. SubSeq(t, a, u - 1) \o <<d>> \o SubSeq(t, u + 1, b) = SubSeq(t, a, b)
    <3>1. CutHere(t, a, u, b, d)
      BY <2>1, <1>0 DEF CutHere
    <3> QED
      BY <3>1, CutJoined, Zenon
  <2>3. SubSeq(t, 1, Len(t)) = t
    BY <1>0, SubSeqFull
  <2> QED
    BY <2>2, <2>3, Zenon DEF a, b
<1> QED
  BY <1>0, <1>1, <1>2, <1>3, CutOnce, Zenon

\* What they give with two.
ThreeParts(d, t, u, v) ==
  LET one == SubSeq(t, 1, u - 1)
      two == SubSeq(t, u + 1, v - 1)
      rest == SubSeq(t, v + 1, Len(t))
  IN  /\ Exploded(<<d>>, t).how = "returned"
      /\ Exploded(<<d>>, t).parts = IF Blank(rest) THEN <<one, two>> ELSE <<one, two, rest>>
      /\ two \o <<d>> \o rest = SubSeq(t, u + 1, Len(t))

\* Two delimiters: three parts, unless the delimiters are neighbours or the
\* last part is blank; then there are two at most.
LEMMA TwoScores ==
  ASSUME NEW d \in Token, NEW t, NEW u, NEW v, Scores(d, t, u, v), u < v
  PROVE  /\ u + 2 <= v /\ v # Len(t) => ThreeParts(d, t, u, v)
         /\ v = u + 1 \/ v = Len(t) \/ Blank(SubSeq(t, v + 1, Len(t))) =>
              \E x \in Seq(Token) :
                Exploded(<<d>>, t).parts \in {<<SubSeq(t, 1, u - 1)>>, <<SubSeq(t, 1, u - 1), x>>}
<1> DEFINE one == SubSeq(t, 1, u - 1)
           two == SubSeq(t, u + 1, v - 1)
           rest == SubSeq(t, v + 1, Len(t))
<1>0. t \in Seq(Token) /\ Len(t) \in Nat /\ u \in 1 .. Len(t) /\ v \in 1 .. Len(t)
       /\ t[u] = d /\ t[v] = d /\ (\A h \in 1 .. Len(t) : h # u /\ h # v => t[h] # d)
  BY DEF Scores
<1>1. ASSUME u + 2 <= v, v # Len(t)
      PROVE  /\ Exploded(<<d>>, t).how = "returned"
             /\ Exploded(<<d>>, t).parts = IF Blank(rest) THEN <<one, two>> ELSE <<one, two, rest>>
  <2>1. TwoCuts(d, t, u, v)
    BY <1>0, <1>1 DEF TwoCuts
  <2> QED
    BY <1>0, <2>1, CutTwice, Zenon
<1>2. two \o <<d>> \o rest = SubSeq(t, u + 1, Len(t))
  <2> DEFINE a == u + 1
             b == Len(t)
  <2>1. a \in Nat \ {0} /\ v \in Nat /\ b \in Nat /\ a <= v /\ v <= b /\ b <= Len(t)
    BY <1>0
  <2> HIDE DEF a, b
  <2>2. SubSeq(t, a, v - 1) \o <<d>> \o SubSeq(t, v + 1, b) = SubSeq(t, a, b)
    <3>1. CutHere(t, a, v, b, d)
      BY <2>1, <1>0 DEF CutHere
    <3> QED
      BY <3>1, CutJoined, Zenon
  <2> QED
    BY <2>2, Zenon DEF a, b
<1>3. ASSUME v = u + 1 \/ v = Len(t)
      PROVE  \E x \in Seq(Token) : Exploded(<<d>>, t).parts \in {<<one>>, <<one, x>>}
  <2> DEFINE x == SubSeq(t, u + 1, Len(t))
  <2>1. OneCut(d, t, u)
    BY <1>0, <1>3 DEF OneCut
  <2>2. Exploded(<<d>>, t).parts = IF Blank(x) THEN <<one>> ELSE <<one, x>>
    BY <2>1, <1>0, CutOnce, Zenon
  <2>3. x \in Seq(Token)
    <3>1. u + 1 \in Nat \ {0} /\ Len(t) <= Len(t)
      BY <1>0
    <3> QED
      BY <1>0, <3>1, Piece
  <2> HIDE DEF x, one
  <2> QED
    BY <2>2, <2>3, Zenon
<1>4. ASSUME ~(v = u + 1 \/ v = Len(t)), Blank(rest)
      PROVE  \E x \in Seq(Token) : Exploded(<<d>>, t).parts \in {<<one>>, <<one, x>>}
  <2>1. u + 2 <= v /\ v # Len(t)
    BY <1>0, <1>4
  <2>2. Exploded(<<d>>, t).parts = <<one, two>>
    BY <1>1, <1>4, <2>1, Zenon
  <2>3. two \in Seq(Token)
    <3>1. u + 1 \in Nat \ {0} /\ v - 1 \in Nat /\ v - 1 <= Len(t)
      BY <1>0
    <3> QED
      BY <1>0, <3>1, Piece
  <2> HIDE DEF two, one
  <2> QED
    BY <2>2, <2>3, Zenon
<1> HIDE DEF one, two, rest
<1> QED
  BY <1>1, <1>2, <1>3, <1>4, Zenon DEF one, two, rest, ThreeParts

\* A name of two parts.
LEMMA TwoPartName ==
  ASSUME NEW t, NEW u, Scores("_", t, u, u)
  PROVE  /\ u = Len(t) \/ Blank(SubSeq(t, u + 1, Len(t))) => AggregateThrows(t)
         /\ ~(u = Len(t) \/ Blank(SubSeq(t, u + 1, Len(t)))) =>
              /\ ~AggregateThrows(t) /\ toVar(Aggregate(t)) = t
              /\ IsObject(Aggregate(t), 0, SubSeq(t, 1, u - 1), SubSeq(t, u + 1, Len(t)))
<1> DEFINE one == SubSeq(t, 1, u - 1)
           rest == SubSeq(t, u + 1, Len(t))
           last == u = Len(t)
<1>0. "_" \in Token
  BY Characters
<1>1. /\ last => Len(NameParts(t).parts) < 2
      /\ ~last => /\ NameParts(t).how = "returned"
                  /\ NameParts(t).parts = IF Blank(rest) THEN <<one>> ELSE <<one, rest>>
      /\ one \o <<"_">> \o rest = t
  BY <1>0, OneScore, Zenon DEF NameParts
<1> HIDE DEF one, rest, last
<1>2. ASSUME last \/ Blank(rest) PROVE AggregateThrows(t)
  <2>1. CASE last
    BY <2>1, <1>1 DEF AggregateThrows
  <2>2. CASE ~last
    <3>1. NameParts(t).parts = <<one>>
      BY <2>2, <1>1, <1>2
    <3> QED
      BY <3>1, PartsRead, Zenon
  <2> QED
    BY <2>1, <2>2
<1>3. ASSUME ~(last \/ Blank(rest))
      PROVE  /\ ~AggregateThrows(t) /\ toVar(Aggregate(t)) = t
             /\ IsObject(Aggregate(t), 0, one, rest)
  <2>1. NameParts(t).parts = <<one, rest>> /\ NameParts(t).how = "returned"
    BY <1>1, <1>3
  <2>3. ~AggregateThrows(t)
    BY <2>1, PartsRead, Zenon
  <2>4. IsObject(Aggregate(t), 0, one, rest)
    BY <2>1, PartsRead, Zenon
  <2>5. Aggregate(t).func = one /\ Aggregate(t).column = rest
    BY <2>4, Zenon DEF IsObject
  <2>6. toVar(Aggregate(t)) = t
    BY <2>5, <1>1, Zenon DEF toVar
  <2> QED
    BY <2>3, <2>4, <2>6
<1> QED
  BY <1>2, <1>3, Zenon DEF one, rest, last

\* A name of three parts.
LEMMA ThreePartName ==
  ASSUME NEW t, NEW u, NEW v, Scores("_", t, u, v), u < v, u + 2 <= v, v # Len(t),
         ~Blank(SubSeq(t, v + 1, Len(t)))
  PROVE  /\ ~AggregateThrows(t) /\ toVar(Aggregate(t)) = SubSeq(t, u + 1, Len(t))
         /\ IsObject(Aggregate(t), atoi(SubSeq(t, 1, u - 1)), SubSeq(t, u + 1, v - 1),
                     SubSeq(t, v + 1, Len(t)))
<1> DEFINE one == SubSeq(t, 1, u - 1)
           two == SubSeq(t, u + 1, v - 1)
           rest == SubSeq(t, v + 1, Len(t))
<1>0. "_" \in Token
  BY Characters
<1>1. /\ NameParts(t).how = "returned" /\ NameParts(t).parts = <<one, two, rest>>
      /\ two \o <<"_">> \o rest = SubSeq(t, u + 1, Len(t))
  <2>1. /\ Exploded(<<"_">>, t).how = "returned"
        /\ Exploded(<<"_">>, t).parts = IF Blank(rest) THEN <<one, two>> ELSE <<one, two, rest>>
        /\ two \o <<"_">> \o rest = SubSeq(t, u + 1, Len(t))
    <3>1. ThreeParts("_", t, u, v)
      BY <1>0, TwoScores, Zenon
    <3> QED
      BY <3>1, Zenon DEF ThreeParts
  <2> QED
    BY <2>1, Zenon DEF NameParts
<1> HIDE DEF one, two, rest
<1>4. ~AggregateThrows(t)
  BY <1>1, PartsRead, Zenon
<1>5. IsObject(Aggregate(t), atoi(one), two, rest)
  BY <1>1, PartsRead, Zenon
<1>6. Aggregate(t).func = two /\ Aggregate(t).column = rest
  BY <1>5, Zenon DEF IsObject
<1>7. toVar(Aggregate(t)) = SubSeq(t, u + 1, Len(t))
  BY <1>6, <1>1, Zenon DEF toVar
<1> QED
  BY <1>4, <1>5, <1>7, Zenon DEF one, two, rest

\* With two underscores and nothing between or behind them, the first part is
\* the function.
LEMMA OddName ==
  ASSUME NEW t, NEW u, NEW v, Scores("_", t, u, v), u < v,
         v = u + 1 \/ v = Len(t) \/ Blank(SubSeq(t, v + 1, Len(t))), ~AggregateThrows(t)
  PROVE  Aggregate(t).func = SubSeq(t, 1, u - 1) /\ Aggregate(t).column \in Seq(Token)
<1> DEFINE one == SubSeq(t, 1, u - 1)
<1>0. "_" \in Token
  BY Characters
<1>1. \E x \in Seq(Token) : NameParts(t).parts \in {<<one>>, <<one, x>>}
  BY <1>0, TwoScores, Zenon DEF NameParts
<1> HIDE DEF one
<1>2. PICK x \in Seq(Token) : NameParts(t).parts \in {<<one>>, <<one, x>>}
  BY <1>1
<1>5. NameParts(t).parts = <<one, x>>
  <2>1. NameParts(t).parts # <<one>>
    BY PartsRead, Zenon
  <2> QED
    BY <1>2, <2>1, Zenon
<1>6. IsObject(Aggregate(t), 0, one, x)
  BY <1>5, PartsRead, Zenon
<1>7. Aggregate(t).func = one /\ Aggregate(t).column = x
  BY <1>6, Zenon DEF IsObject
<1> QED
  BY <1>7, Zenon DEF one

\* lo and hi bound what the piece from x to y has of the piece from a to b.
Overlap(t, a, b, x, y, lo, hi) ==
  /\ x \in 1 .. Len(t) /\ y \in x .. Len(t) /\ lo \in Nat /\ hi \in Nat
  /\ lo = (IF a > x THEN a ELSE x) /\ hi = (IF b < y THEN b ELSE y) /\ lo <= hi

\* A piece of a padded text is padded.
LEMMA PaddedPiece ==
  ASSUME NEW t, NEW a, NEW b, Padded(t, a, b), NEW x, NEW y, NEW lo, NEW hi,
         Overlap(t, a, b, x, y, lo, hi)
  PROVE  /\ Padded(SubSeq(t, x, y), lo - x + 1, hi - x + 1)
         /\ Stripped(SubSeq(t, x, y)) = SubSeq(t, lo, hi) /\ ~Blank(SubSeq(t, x, y))
<1> DEFINE r == SubSeq(t, x, y)
<1>1. t \in Seq(Token) /\ Len(t) \in Nat /\ a \in Nat \ {0} /\ b \in Nat /\ a <= b /\ b <= Len(t)
       /\ \A p \in 1 .. Len(t) : t[p] \in BlankChars <=> ~(a <= p /\ p <= b)
  BY DEF Padded
<1>2. x \in Nat \ {0} /\ y \in Nat /\ x <= y /\ y <= Len(t) /\ lo \in Nat /\ hi \in Nat
       /\ a <= lo /\ x <= lo /\ lo <= hi /\ hi <= b /\ hi <= y
       /\ \A p \in x .. y : (a <= p /\ p <= b) <=> (lo <= p /\ p <= hi)
  BY <1>1 DEF Overlap
<1>3. r \in Seq(Token) /\ Len(r) = (IF x <= y THEN y - x + 1 ELSE 0) /\ \A j \in 1 .. y - x + 1 : r[j] = t[x + j - 1]
  BY <1>1, <1>2, Piece
<1> HIDE DEF r
<1> DEFINE u == lo - x + 1
           v == hi - x + 1
<1>4. u \in Nat \ {0} /\ v \in Nat /\ u <= v /\ v <= y - x + 1 /\ Len(r) = y - x + 1 /\ y - x + 1 \in Nat
  BY <1>2, <1>3
<1>5. ASSUME NEW j \in 1 .. y - x + 1 PROVE r[j] \in BlankChars <=> ~(u <= j /\ j <= v)
  <2>1. x + j - 1 \in 1 .. Len(t) /\ x + j - 1 \in x .. y
    BY <1>1, <1>2
  <2>2. (lo <= x + j - 1 /\ x + j - 1 <= hi) <=> (u <= j /\ j <= v)
    BY <1>2
  <2>3. t[x + j - 1] \in BlankChars <=> ~(u <= j /\ j <= v)
    BY <2>1, <2>2, <1>1, <1>2
  <2> QED
    BY <2>3, <1>3
<1>6. Padded(r, u, v)
  BY <1>3, <1>4, <1>5 DEF Padded
<1>7. Stripped(r) = SubSeq(r, u, v) /\ ~Blank(r)
  BY <1>6, StrippedPadded, Zenon
<1>8. SubSeq(r, u, v) = SubSeq(t, lo, hi)
  <2>1. x + v - 1 <= y
    BY <1>2
  <2> HIDE DEF u, v
  <2>2. SubSeq(SubSeq(t, x, y), u, v) = SubSeq(t, x + u - 1, x + v - 1)
    BY <1>1, <1>2, <1>4, <2>1, PieceOfPiece
  <2>3. x + u - 1 = lo /\ x + v - 1 = hi
    BY <1>2 DEF u, v
  <2> QED
    BY <2>2, <2>3, Zenon DEF r
<1> QED
  BY <1>6, <1>7, <1>8, Zenon DEF r, u, v

\* The first token that is seen.
LEMMA StrippedFirst ==
  ASSUME NEW x \in Seq(Token), NEW q \in 1 .. Len(x), x[q] \notin BlankChars,
         \A j \in 1 .. q - 1 : x[j] \in BlankChars
  PROVE  Stripped(x)[1] = x[q] /\ Stripped(x) # <<>>
<1> DEFINE seen == {p \in DOMAIN x : x[p] \notin BlankChars}
<1>0. Len(x) \in Nat /\ DOMAIN x = 1 .. Len(x)
  OBVIOUS
<1>1. q \in seen /\ seen \subseteq 1 .. Len(x) /\ seen \subseteq Nat /\ \A y \in seen : q <= y
  BY <1>0
<1>2. ~Blank(x)
  BY <1>0 DEF Blank
<1> HIDE DEF seen
<1>3. Min(seen) = q
  BY <1>1, MinMaxIs
<1>4. seen \subseteq 0 .. Len(x) /\ seen # {}
  BY <1>0, <1>1
<1>5. PICK m \in seen : \A y \in seen : y <= m
  BY <1>0, <1>4, GreatestOf
<1>6. Max(seen) = m
  BY <1>1, <1>5, MinMaxIs
<1>7. Stripped(x) = SubSeq(x, q, m)
  BY <1>2, <1>3, <1>6 DEF Stripped, seen
<1>8. q \in Nat \ {0} /\ m \in Nat /\ q <= m /\ m <= Len(x)
  BY <1>0, <1>1
<1> DEFINE r == SubSeq(x, q, m)
<1>9. Len(r) = (IF q <= m THEN m - q + 1 ELSE 0) /\ \A j \in 1 .. m - q + 1 : r[j] = x[q + j - 1]
  BY <1>8, Piece
<1> HIDE DEF r
<1>10. r[1] = x[q] /\ Len(r) # 0
  <2>1. 1 \in 1 .. m - q + 1 /\ q + 1 - 1 = q
    BY <1>8
  <2>2. r[1] = x[q + 1 - 1]
    BY <2>1, <1>9
  <2> QED
    BY <2>1, <2>2, <1>8, <1>9
<1>11. r # <<>>
  BY <1>10
<1> QED
  BY <1>7, <1>10, <1>11, Zenon DEF r

\* A text that stripping leaves without blanks inside.
LEMMA Unpadded ==
  ASSUME NEW t \in Seq(Token), ~Blank(t), Range(Stripped(t)) \cap BlankChars = {}
  PROVE  \E a, b \in Nat : Padded(t, a, b)
<1> DEFINE seen == {p \in DOMAIN t : t[p] \notin BlankChars}
<1>0. Len(t) \in Nat /\ DOMAIN t = 1 .. Len(t)
  OBVIOUS
<1>1. seen \subseteq 1 .. Len(t) /\ seen # {} /\ seen \subseteq 0 .. Len(t) /\ seen \subseteq Nat
  BY <1>0 DEF Blank
<1>2. \A p \in 1 .. Len(t) : p \notin seen => t[p] \in BlankChars
  BY <1>0
<1>3. Stripped(t) = SubSeq(t, Min(seen), Max(seen))
  BY DEF Stripped
<1> HIDE DEF seen
<1>4. PICK b \in seen : \A y \in seen : y <= b
  BY <1>0, <1>1, GreatestOf
<1>5. PICK a \in seen : \A y \in seen : a <= y
  BY <1>1, Least
<1>6. Min(seen) = a /\ Max(seen) = b
  BY <1>1, <1>4, <1>5, MinMaxIs
<1> DEFINE r == SubSeq(t, a, b)
<1>7. a \in Nat \ {0} /\ b \in Nat /\ a <= b /\ b <= Len(t)
  BY <1>0, <1>1, <1>4
<1>8. Len(r) = (IF a <= b THEN b - a + 1 ELSE 0) /\ (\A j \in 1 .. b - a + 1 : r[j] = t[a + j - 1])
       /\ DOMAIN r = 1 .. (IF a <= b THEN b - a + 1 ELSE 0)
  BY <1>7, Piece
<1>9. Range(r) \cap BlankChars = {}
  BY <1>3, <1>6
<1> HIDE DEF r
<1>10. ASSUME NEW p \in 1 .. Len(t), a <= p, p <= b PROVE t[p] \notin BlankChars
  <2>1. p - a + 1 \in 1 .. b - a + 1 /\ p - a + 1 \in DOMAIN r /\ a + (p - a + 1) - 1 = p
    BY <1>0, <1>7, <1>8, <1>10
  <2>2. r[p - a + 1] = t[a + (p - a + 1) - 1]
    BY <2>1, <1>8
  <2>3. r[p - a + 1] \in Range(r)
    BY <2>1 DEF Range
  <2> QED
    BY <1>9, <2>1, <2>2, <2>3
<1>11. ASSUME NEW p \in 1 .. Len(t), ~(a <= p /\ p <= b) PROVE t[p] \in BlankChars
  BY <1>2, <1>4, <1>5, <1>11
<1> QED
  BY <1>7, <1>10, <1>11 DEF Padded

\* What atoi reads of one number.
LEMMA AtoiOne ==
  ASSUME NEW t, NEW d \in DOMAIN Number, Stripped(t) = <<d>>
  PROVE  atoi(t) = Number[d]
<1>1. <<d>> # <<>> /\ <<d>>[1] = d
  OBVIOUS
<1>2. StartsWithNumber(t)
  BY <1>1 DEF StartsWithNumber
<1> QED
  BY <1>1, <1>2 DEF atoi

\* The text starts with w; blanks follow.
Leads(t, b, w) ==
  /\ t \in Seq(Token) /\ b \in Nat /\ 1 <= b /\ b <= Len(t)
  /\ w \in Seq(Token) /\ Len(w) = b
  /\ \A p \in 1 .. b : t[p] = w[p] /\ t[p] \notin BlankChars
  /\ \A p \in b + 1 .. Len(t) : t[p] \in BlankChars

\* A padded text starts with its piece.
LEMMA FrontOf ==
  ASSUME NEW t, NEW b, Padded(t, 1, b)
  PROVE  Leads(t, b, SubSeq(t, 1, b))
<1> DEFINE w == SubSeq(t, 1, b)
<1>1. t \in Seq(Token) /\ Len(t) \in Nat /\ b \in Nat /\ 1 <= b /\ b <= Len(t)
       /\ \A p \in 1 .. Len(t) : t[p] \in BlankChars <=> ~(1 <= p /\ p <= b)
  BY DEF Padded
<1> DEFINE a == 1
<1>2. a \in Nat \ {0} /\ b - a + 1 = b /\ a <= b /\ \A j \in 1 .. b : a + j - 1 = j
  BY <1>1
<1> HIDE DEF a
<1>3. SubSeq(t, a, b) \in Seq(Token) /\ Len(SubSeq(t, a, b)) = (IF a <= b THEN b - a + 1 ELSE 0)
       /\ \A j \in 1 .. b - a + 1 : SubSeq(t, a, b)[j] = t[a + j - 1]
  BY <1>1, <1>2, Piece
<1>4. w = SubSeq(t, a, b)
  BY DEF a
<1> HIDE DEF w
<1>5. w \in Seq(Token) /\ Len(w) = b /\ \A j \in 1 .. b : w[j] = t[j]
  BY <1>2, <1>3, <1>4
<1>6. Leads(t, b, w)
  BY <1>1, <1>5 DEF Leads
<1> QED
  BY <1>6 DEF w

\* Where the delimiter is in a name of two parts.
LEMMA ScoresShort ==
  ASSUME NEW d \in Token, d \notin BlankChars, NEW t, NEW b, NEW w, Leads(t, b, w),
         NEW f, f # d, NEW c \in Seq(Token), 1 <= Len(c), \A j \in 1 .. Len(c) : c[j] # d,
         TwoThen(f, d, c, w)
  PROVE  Scores(d, t, 2, 2) /\ b = Len(c) + 2 /\ 3 <= b
<1>1. t \in Seq(Token) /\ Len(t) \in Nat /\ b \in Nat /\ b <= Len(t) /\ Len(c) \in Nat
       /\ b = Len(c) + 2 /\ 3 <= b
  BY DEF Leads, TwoThen
<1>2. ASSUME NEW h \in 1 .. Len(t) PROVE t[h] = d <=> h = 2
  <2>1. CASE h = 1 \/ h = 2
    BY <2>1, <1>1 DEF Leads, TwoThen
  <2>2. CASE h > 2 /\ h <= b
    <3>1. h - 2 \in 1 .. Len(c) /\ h - 2 + 2 = h /\ h \in 1 .. b
      BY <2>2, <1>1
    <3>2. w[h - 2 + 2] = c[h - 2]
      BY <3>1 DEF TwoThen
    <3>3. t[h] = w[h]
      BY <3>1 DEF Leads
    <3>4. c[h - 2] # d
      BY <3>1
    <3> QED
      BY <3>1, <3>2, <3>3, <3>4, <2>2
  <2>3. CASE h > b
    <3>1. t[h] \in BlankChars /\ h # 2
      BY <2>3, <1>1 DEF Leads
    <3> QED
      BY <3>1
  <2> QED
    BY <2>1, <2>2, <2>3, <1>1
<1> QED
  BY <1>1, <1>2 DEF Scores

\* And in one of three.
LEMMA ScoresLong ==
  ASSUME NEW d \in Token, d \notin BlankChars, NEW t, NEW b, NEW w, Leads(t, b, w),
         NEW e, e # d, NEW v \in Seq(Token), TwoThen(e, d, v, w),
         NEW f, f # d, NEW c \in Seq(Token), 1 <= Len(c), \A j \in 1 .. Len(c) : c[j] # d,
         TwoThen(f, d, c, v)
  PROVE  Scores(d, t, 2, 4) /\ b = Len(c) + 4 /\ 5 <= b
<1>1. t \in Seq(Token) /\ Len(t) \in Nat /\ b \in Nat /\ b <= Len(t) /\ Len(c) \in Nat
       /\ Len(v) = Len(c) + 2 /\ b = Len(c) + 4 /\ 5 <= b
  BY DEF Leads, TwoThen
<1>2. t[1] = e /\ t[2] = d
  BY <1>1 DEF Leads, TwoThen
<1>3. \A j \in 1 .. Len(v) : t[j + 2] = v[j]
  <2> SUFFICES ASSUME NEW j \in 1 .. Len(v) PROVE t[j + 2] = v[j]
    OBVIOUS
  <2>1. j + 2 \in 1 .. b
    BY <1>1
  <2>2. t[j + 2] = w[j + 2]
    BY <2>1 DEF Leads
  <2> QED
    BY <2>2 DEF TwoThen
<1>4. t[3] = f /\ t[4] = d
  <2>1. 1 \in 1 .. Len(v) /\ 2 \in 1 .. Len(v) /\ 1 + 2 = 3 /\ 2 + 2 = 4
    BY <1>1
  <2>2. t[1 + 2] = v[1] /\ t[2 + 2] = v[2]
    BY <2>1, <1>3
  <2> QED
    BY <2>1, <2>2 DEF TwoThen
<1>5. ASSUME NEW h \in 1 .. Len(t) PROVE t[h] = d <=> (h = 2 \/ h = 4)
  <2>1. CASE h = 1 \/ h = 2 \/ h = 3 \/ h = 4
    BY <2>1, <1>2, <1>4
  <2>2. CASE h > 4 /\ h <= b
    <3>1. h - 4 \in 1 .. Len(c) /\ h - 4 + 2 = h - 2 /\ h - 2 \in 1 .. Len(v) /\ h - 2 + 2 = h
      BY <2>2, <1>1
    <3>2. v[h - 4 + 2] = c[h - 4]
      BY <3>1 DEF TwoThen
    <3>3. t[h - 2 + 2] = v[h - 2]
      BY <3>1, <1>3
    <3>4. c[h - 4] # d
      BY <3>1
    <3> QED
      BY <3>1, <3>2, <3>3, <3>4, <2>2
  <2>3. CASE h > b
    <3>1. t[h] \in BlankChars /\ h # 2 /\ h # 4
      BY <2>3, <1>1 DEF Leads
    <3> QED
      BY <3>1
  <2> QED
    BY <2>1, <2>2, <2>3, <1>1
<1> QED
  BY <1>1, <1>5 DEF Scores

\* What a piece that starts behind the beginning holds.
LEMMA FrontPieces ==
  ASSUME NEW t, NEW b, Padded(t, 1, b), NEW x \in Nat, 1 <= x, x <= b
  PROVE  /\ SubSeq(t, x, x) = <<t[x]>> /\ Stripped(SubSeq(t, x, x)) = <<t[x]>>
         /\ Stripped(SubSeq(t, x, Len(t))) = SubSeq(t, x, b) /\ ~Blank(SubSeq(t, x, Len(t)))
<1>1. t \in Seq(Token) /\ Len(t) \in Nat /\ b \in Nat /\ 1 <= b /\ b <= Len(t)
  BY DEF Padded
<1>2. x \in 1 .. Len(t)
  BY <1>1
<1> DEFINE e == Len(t)
           a == 1
<1>2a. Overlap(t, a, b, x, x, x, x)
  BY <1>1 DEF Overlap
<1>3. Overlap(t, a, b, x, e, x, b)
  BY <1>1 DEF Overlap
<1> HIDE DEF e, a
<1>4. Padded(t, a, b)
  BY DEF a
<1>5. Stripped(SubSeq(t, x, x)) = SubSeq(t, x, x)
  <2> DEFINE y == x
             lo == x
             hi == x
  <2>1. Overlap(t, a, b, x, y, lo, hi)
    BY <1>2a
  <2> HIDE DEF y, lo, hi
  <2>2. Stripped(SubSeq(t, x, y)) = SubSeq(t, lo, hi)
    BY <2>1, <1>4, PaddedPiece
  <2> QED
    BY <2>2 DEF y, lo, hi
<1>6. Stripped(SubSeq(t, x, e)) = SubSeq(t, x, b) /\ ~Blank(SubSeq(t, x, e))
  BY <1>3, <1>4, PaddedPiece
<1>7. SubSeq(t, x, x) = <<t[x]>>
  BY <1>1, <1>2, OneToken, Zenon
<1> QED
  BY <1>5, <1>6, <1>7, Zenon DEF e

\* A text of three or more tokens by its first two and the others.
LEMMA TwoThenSame ==
  ASSUME NEW x, NEW y, NEW c, NEW z, NEW c2 \in Seq(Token), NEW z2,
         TwoThen(x, y, c, z), c \in Seq(Token)
  PROVE  /\ z = z2 /\ TwoThen(x, y, c2, z2) => c = c2
         /\ c = c2 /\ TwoThen(x, y, c2, z2) => z = z2
<1>1. ASSUME z = z2, TwoThen(x, y, c2, z2) PROVE c = c2
  <2>1. Len(c) = Len(c2) /\ \A j \in 1 .. Len(c) : c[j] = c2[j]
    BY <1>1 DEF TwoThen
  <2> QED
    BY <2>1, SameText
<1>2. ASSUME c = c2, TwoThen(x, y, c2, z2) PROVE z = z2
  <2>1. z \in Seq(Token) /\ z2 \in Seq(Token) /\ Len(z) = Len(z2) /\ Len(c) \in Nat
         /\ Len(z) = Len(c) + 2 /\ z[1] = z2[1] /\ z[2] = z2[2]
         /\ \A j \in 1 .. Len(c) : z[j + 2] = z2[j + 2]
    BY <1>2 DEF TwoThen
  <2>2. ASSUME NEW h \in 1 .. Len(z) PROVE z[h] = z2[h]
    <3>1. h = 1 \/ h = 2 \/ (h - 2 \in 1 .. Len(c) /\ h - 2 + 2 = h)
      BY <2>1
    <3> QED
      BY <2>1, <3>1
  <2> QED
    BY <2>1, <2>2, SameText
<1> QED
  BY <1>1, <1>2

\* A text that names an object, with blanks behind it, is read as that object.
NamedAs(t, a) ==
  /\ ~AggregateThrows(t) /\ Aggregate(t).func = a.func /\ Aggregate(t).group = a.group
  /\ Stripped(toVar(Aggregate(t))) = toVar(a)

\* func_column is read as the aggregate of variable 0 it names.
LEMMA ShortNameRead ==
  ASSUME NEW t, NEW b, Padded(t, 1, b), NEW a \in Objects, SubSeq(t, 1, b) = toVar(a), a.group = 0
  PROVE  NamedAs(t, a) /\ (b = Len(t) => Aggregate(t) = a)
<1> DEFINE c == a.column
           w == SubSeq(t, 1, b)
           d == "_"
<1>1. PICK f \in Funcs :
        /\ a.func = <<f>> /\ f # d /\ c \in Columns /\ c \in Seq(Token)
        /\ (\A j \in 1 .. Len(c) : c[j] # d)
        /\ TwoThen(f, d, c, toVar(a))
        /\ a = [group |-> a.group, func |-> a.func, column |-> a.column]
  BY ObjectFacts DEF TwoThen
<1>2. d \in Token /\ d \notin BlankChars
  BY Characters
<1>3. 1 <= Len(c)
  BY <1>1, ColumnFacts
<1>4. Leads(t, b, w)
  BY FrontOf, Zenon
<1>5. TwoThen(f, d, c, w)
  BY <1>1
<1> HIDE DEF c, d, w
<1>6. Scores(d, t, 2, 2) /\ b = Len(c) + 2 /\ 3 <= b
  BY <1>1, <1>2, <1>3, <1>4, <1>5, ScoresShort
<1>7. t \in Seq(Token) /\ Len(t) \in Nat /\ b \in Nat /\ b <= Len(t) /\ Len(c) \in Nat
  BY <1>1 DEF Padded
<1> DEFINE u == 2
           p == u + 1
           q == 1
           m == u - 1
<1>8. p \in Nat /\ 1 <= p /\ p <= b /\ q \in Nat /\ 1 <= q /\ q <= b /\ u # Len(t) /\ p = 3 /\ m = q
  BY <1>6, <1>7
<1>9. Scores("_", t, u, u)
  BY <1>6 DEF d
<1> HIDE DEF u, q
<1>10. SubSeq(t, q, q) = <<t[q]>>
  BY <1>8, FrontPieces
<1>11. ~Blank(SubSeq(t, u + 1, Len(t)))
  <2> HIDE DEF p
  <2>1. ~Blank(SubSeq(t, p, Len(t)))
    BY <1>8, FrontPieces
  <2> QED
    BY <2>1 DEF p
<1>12. /\ ~AggregateThrows(t) /\ toVar(Aggregate(t)) = t
       /\ IsObject(Aggregate(t), 0, SubSeq(t, 1, u - 1), SubSeq(t, u + 1, Len(t)))
  BY <1>8, <1>9, <1>11, TwoPartName, Zenon
<1>13. Aggregate(t).group = 0 /\ Aggregate(t).func = SubSeq(t, 1, m) /\ Aggregate(t).column = SubSeq(t, p, Len(t))
  BY <1>12, Zenon DEF IsObject
<1>14. SubSeq(t, 1, m) = <<f>>
  <2>1. t[1] = f
    BY <1>4, <1>5, <1>6, <1>7 DEF Leads, TwoThen
  <2>2. m = q /\ q = 1
    BY <1>8 DEF q
  <2> HIDE DEF m
  <2> QED
    BY <2>1, <2>2, <1>10, Zenon
<1>15. Stripped(t) = w
  BY StrippedPadded, Zenon DEF w
<1>16. NamedAs(t, a)
  BY <1>1, <1>12, <1>13, <1>14, <1>15, Zenon DEF NamedAs, w
<1>17. ASSUME b = Len(t) PROVE Aggregate(t) = a
  <2> DEFINE r == SubSeq(t, p, Len(t))
  <2>1. r \in Seq(Token) /\ Len(r) = (IF p <= Len(t) THEN Len(t) - p + 1 ELSE 0) /\ \A j \in 1 .. Len(t) - p + 1 : r[j] = t[p + j - 1]
    <3>1. p \in Nat \ {0} /\ Len(t) \in Nat /\ Len(t) <= Len(t)
      BY <1>7, <1>8
    <3> HIDE DEF p
    <3> QED
      BY <3>1, <1>7, Piece
  <2> HIDE DEF r, p
  <2>2. Len(r) = Len(c)
    BY <2>1, <1>17, <1>6, <1>7, <1>8
  <2>3. ASSUME NEW j \in 1 .. Len(r) PROVE r[j] = c[j]
    <3>1. j \in 1 .. Len(t) - p + 1 /\ p + j - 1 = j + 2 /\ j \in 1 .. Len(c) /\ j + 2 \in 1 .. b
      BY <2>2, <1>17, <1>6, <1>7, <1>8
    <3>2. r[j] = t[j + 2]
      BY <3>1, <2>1
    <3>3. t[j + 2] = w[j + 2]
      BY <3>1, <1>4 DEF Leads
    <3>4. w[j + 2] = c[j]
      BY <3>1, <1>5 DEF TwoThen
    <3> QED
      BY <3>2, <3>3, <3>4
  <2>4. r = c
    BY <1>1, <2>1, <2>2, <2>3, SameText
  <2>5. Aggregate(t) = [group |-> 0, func |-> SubSeq(t, 1, m), column |-> r]
    BY <1>12, Zenon DEF IsObject, r, p
  <2> QED
    BY <2>4, <2>5, <1>1, <1>14, Zenon DEF c
<1> QED
  BY <1>16, <1>17

\* The text is the name of the object with its variable.
LongName(w, e, a) == w = <<e, "_">> \o toVar(a)

\* group_func_column is read as the aggregate it names.
LEMMA LongNameRead ==
  ASSUME NEW t, NEW b, Padded(t, 1, b), NEW a \in Objects, NEW e \in DOMAIN Number,
         Number[e] = a.group, LongName(SubSeq(t, 1, b), e, a)
  PROVE  NamedAs(t, a) /\ (b = Len(t) => Aggregate(t) = a)
<1> DEFINE c == a.column
           x == toVar(a)
           w == SubSeq(t, 1, b)
           d == "_"
<1>1. PICK f \in Funcs :
        /\ a.func = <<f>> /\ f # d /\ c \in Columns /\ c \in Seq(Token) /\ x \in Seq(Token)
        /\ (\A j \in 1 .. Len(c) : c[j] # d)
        /\ TwoThen(f, d, c, x)
        /\ a = [group |-> a.group, func |-> a.func, column |-> a.column]
  BY ObjectFacts DEF TwoThen
<1>2. d \in Token /\ d \notin BlankChars /\ e \in Token /\ e # d
  BY Characters, Numbers
<1>3. 1 <= Len(c)
  BY <1>1, ColumnFacts
<1>4. Leads(t, b, w)
  BY FrontOf, Zenon
<1>5. TwoThen(e, d, x, w)
  <2> HIDE DEF x
  <2>1. TwoThen(e, d, x, <<e, d>> \o x)
    BY <1>1, <1>2, CatTwo
  <2>2. w = <<e, d>> \o x
    BY Zenon DEF x, LongName
  <2> QED
    BY <2>1, <2>2, Zenon
<1> HIDE DEF c, d, w, x
<1>6. Scores(d, t, 2, 4) /\ b = Len(c) + 4 /\ 5 <= b
  BY <1>1, <1>2, <1>3, <1>4, <1>5, ScoresLong
<1>7. t \in Seq(Token) /\ Len(t) \in Nat /\ b \in Nat /\ b <= Len(t) /\ Len(c) \in Nat
  BY <1>1 DEF Padded
<1> DEFINE u == 2
           v == 4
           p == v + 1
           g == u + 1
           n == v - 1
           q == 1
           m == u - 1
<1>7a. b \in Nat /\ 5 <= b /\ b <= Len(t) /\ Len(t) \in Nat
  BY <1>6, <1>7
<1>7b. v # Len(t)
  <2> DEFINE y == Len(t)
  <2>1. y \in Nat /\ 5 <= y
    BY <1>7a
  <2> HIDE DEF y
  <2>2. v # y
    BY <2>1
  <2> QED
    BY <2>2 DEF y
<1>7c. /\ p = 5 /\ m = 1 /\ n = 3 /\ g = 3 /\ u < v /\ u + 2 <= v
  OBVIOUS
<1>8. /\ p \in Nat /\ 1 <= p /\ p <= b /\ q \in Nat /\ 1 <= q /\ q <= b
      /\ g \in Nat /\ 1 <= g /\ g <= b /\ v # Len(t) /\ p = 5 /\ m = q /\ n = g /\ g = 3
      /\ u < v /\ u + 2 <= v
  <2> HIDE DEF p, m, n, g
  <2> QED
    BY <1>7a, <1>7b, <1>7c
<1>9. Scores("_", t, u, v)
  BY <1>6 DEF d
<1> HIDE DEF u, v, q
<1>10. SubSeq(t, q, q) = <<t[q]>> /\ Stripped(SubSeq(t, q, q)) = <<t[q]>>
  BY <1>8, FrontPieces
<1>11. SubSeq(t, g, g) = <<t[g]>> /\ Stripped(SubSeq(t, g, Len(t))) = SubSeq(t, g, b)
  <2> HIDE DEF g
  <2> QED
    BY <1>8, FrontPieces
<1>12. ~Blank(SubSeq(t, v + 1, Len(t)))
  <2> HIDE DEF p
  <2>1. ~Blank(SubSeq(t, p, Len(t)))
    BY <1>8, FrontPieces
  <2> QED
    BY <2>1 DEF p
<1>13. /\ ~AggregateThrows(t) /\ toVar(Aggregate(t)) = SubSeq(t, u + 1, Len(t))
       /\ IsObject(Aggregate(t), atoi(SubSeq(t, 1, u - 1)), SubSeq(t, u + 1, v - 1),
                     SubSeq(t, v + 1, Len(t)))
  BY <1>8, <1>9, <1>12, ThreePartName, Zenon
<1>14. Aggregate(t).group = atoi(SubSeq(t, 1, m)) /\ Aggregate(t).func = SubSeq(t, g, n) /\ Aggregate(t).column = SubSeq(t, p, Len(t))
  BY <1>13, Zenon DEF IsObject
<1>15. t[1] = e /\ t[3] = f /\ \A j \in 1 .. Len(x) : t[j + 2] = x[j]
  <2>1. \A j \in 1 .. b : t[j] = w[j]
    BY <1>4 DEF Leads
  <2>2. w[1] = e /\ Len(w) = Len(x) + 2 /\ Len(w) = b /\ Len(x) = Len(c) + 2 /\ \A j \in 1 .. Len(x) : w[j + 2] = x[j]
    BY <1>1, <1>4, <1>5 DEF TwoThen, Leads
  <2>3. \A j \in 1 .. Len(x) : j + 2 \in 1 .. b
    BY <2>2, <1>7
  <2>4. \A j \in 1 .. Len(x) : t[j + 2] = x[j]
    BY <2>1, <2>2, <2>3
  <2>5. 1 \in 1 .. b /\ 1 \in 1 .. Len(x) /\ 1 + 2 = 3
    BY <2>2, <1>7, <1>6
  <2>6. t[1 + 2] = x[1]
    BY <2>4, <2>5
  <2>7. x[1] = f
    BY <1>1 DEF TwoThen
  <2> QED
    BY <2>1, <2>2, <2>4, <2>5, <2>6, <2>7
<1>16. atoi(SubSeq(t, 1, m)) = a.group
  <2>1. m = q /\ q = 1
    BY <1>8 DEF q
  <2> HIDE DEF m
  <2>2. Stripped(SubSeq(t, 1, m)) = <<e>>
    BY <2>1, <1>10, <1>15, Zenon
  <2> QED
    BY <2>2, AtoiOne, Zenon
<1>17. SubSeq(t, g, n) = <<f>>
  <2>1. n = g /\ g = 3
    BY <1>8
  <2> HIDE DEF g, n
  <2> QED
    BY <2>1, <1>11, <1>15, Zenon
<1>18. SubSeq(t, g, b) = x
  <2> DEFINE r == SubSeq(t, g, b)
  <2> HIDE DEF g
  <2>1. r \in Seq(Token) /\ Len(r) = (IF g <= b THEN b - g + 1 ELSE 0) /\ \A j \in 1 .. b - g + 1 : r[j] = t[g + j - 1]
    <3>1. g \in Nat \ {0}
      BY <1>8
    <3> QED
      BY <3>1, <1>7, Piece
  <2> HIDE DEF r
  <2>2. Len(x) = b - 2 /\ b - g + 1 = b - 2 /\ Len(r) = Len(x)
    BY <1>1, <1>6, <1>7, <1>8, <2>1 DEF TwoThen
  <2>3. \A j \in 1 .. Len(r) : g + j - 1 = j + 2
    BY <1>8, <2>2, <1>7
  <2>4. \A j \in 1 .. Len(r) : r[j] = x[j]
    BY <2>1, <2>2, <2>3, <1>15
  <2>5. r = x
    BY <1>1, <2>1, <2>2, <2>4, SameText
  <2> QED
    BY <2>5 DEF r
<1>19. NamedAs(t, a)
  BY <1>1, <1>11, <1>13, <1>14, <1>16, <1>17, <1>18, Zenon DEF NamedAs, x
<1>20. ASSUME b = Len(t) PROVE Aggregate(t) = a
  <2> DEFINE r == SubSeq(t, p, Len(t))
  <2> HIDE DEF p
  <2>1. r \in Seq(Token) /\ Len(r) = (IF p <= Len(t) THEN Len(t) - p + 1 ELSE 0) /\ \A j \in 1 .. Len(t) - p + 1 : r[j] = t[p + j - 1]
    <3>1. p \in Nat \ {0} /\ Len(t) \in Nat /\ Len(t) <= Len(t)
      BY <1>7, <1>8
    <3> QED
      BY <3>1, <1>7, Piece
  <2> HIDE DEF r
  <2>2. Len(r) = Len(c)
    BY <2>1, <1>20, <1>6, <1>7, <1>8
  <2>3. ASSUME NEW j \in 1 .. Len(r) PROVE r[j] = c[j]
    <3>1. j \in 1 .. Len(t) - p + 1 /\ p + j - 1 = j + 2 + 2 /\ j \in 1 .. Len(c)
      BY <2>2, <1>20, <1>6, <1>7, <1>8
    <3>2. r[j] = t[j + 2 + 2]
      BY <3>1, <2>1
    <3>3. Len(x) = Len(c) + 2 /\ x[j + 2] = c[j]
      BY <3>1, <1>1 DEF TwoThen
    <3>4. j + 2 \in 1 .. Len(x)
      BY <3>1, <3>3, <1>7
    <3>5. t[j + 2 + 2] = x[j + 2]
      BY <3>4, <1>15
    <3> QED
      BY <3>2, <3>3, <3>5
  <2>4. r = c
    BY <1>1, <2>1, <2>2, <2>3, SameText
  <2>5. Aggregate(t) = [group |-> atoi(SubSeq(t, 1, m)), func |-> SubSeq(t, g, n), column |-> r]
    BY <1>13, Zenon DEF IsObject, r, p
  <2> HIDE DEF g, n, m
  <2> QED
    BY <2>4, <2>5, <1>1, <1>16, <1>17, Zenon DEF c
<1> QED
  BY <1>19, <1>20

\* What a text names is what it is read as.
LEMMA NamedRead ==
  ASSUME NEW t, NEW b, Padded(t, 1, b), NEW a, a \in Named(SubSeq(t, 1, b))
  PROVE  NamedAs(t, a) /\ (b = Len(t) => Aggregate(t) = a) /\ a \in Objects
<1> DEFINE w == SubSeq(t, 1, b)
<1>1. a \in Objects /\ \/ a.group = 0 /\ w = toVar(a)
                       \/ \E e \in DOMAIN Number : Number[e] = a.group /\ w = <<e, "_">> \o toVar(a)
  BY DEF Named
<1> HIDE DEF w
<1>2. CASE a.group = 0 /\ w = toVar(a)
  BY <1>1, <1>2, ShortNameRead, Zenon DEF w
<1>3. CASE \E e \in DOMAIN Number : Number[e] = a.group /\ w = <<e, "_">> \o toVar(a)
  <2>1. PICK e \in DOMAIN Number : Number[e] = a.group /\ w = <<e, "_">> \o toVar(a)
    BY <1>3
  <2> QED
    <3>1. LongName(SubSeq(t, 1, b), e, a)
      BY <2>1, Zenon DEF LongName, w
    <3> QED
      BY <1>1, <2>1, <3>1, LongNameRead, Zenon
<1> QED
  BY <1>1, <1>2, <1>3

\* The delimiter is a text.
LEMMA Underscore == <<"_">> \in Seq(Token)
<1>1. ASSUME NEW d \in Token PROVE <<d>> \in Seq(Token)
  OBVIOUS
<1> QED
  BY <1>1, Characters, Zenon

\* The delimiters of the piece are at x and y.
Marks(d, w, x, y) == x \in DOMAIN w /\ y \in DOMAIN w /\ {p \in DOMAIN w : w[p] = d} = {x, y}

\* The first token of the text.
Initial(w, e) == w[1] = e

\* The delimiters of the piece, in the padded text.
LEMMA MarkedScores ==
  ASSUME NEW d \in Token, d \notin BlankChars, NEW t, NEW a, NEW b, Padded(t, a, b),
         NEW x, NEW y, Marks(d, SubSeq(t, a, b), x, y)
  PROVE  /\ Scores(d, t, a + x - 1, a + y - 1)
         /\ x \in 1 .. b - a + 1 /\ y \in 1 .. b - a + 1 /\ Initial(SubSeq(t, a, b), t[a])
<1> DEFINE w == SubSeq(t, a, b)
<1>1. t \in Seq(Token) /\ Len(t) \in Nat /\ a \in Nat \ {0} /\ b \in Nat /\ a <= b /\ b <= Len(t)
       /\ \A p \in 1 .. Len(t) : t[p] \in BlankChars <=> ~(a <= p /\ p <= b)
  BY DEF Padded
<1>2. (\A j \in 1 .. b - a + 1 : w[j] = t[a + j - 1]) /\ DOMAIN w = 1 .. (IF a <= b THEN b - a + 1 ELSE 0)
  BY <1>1, Piece
<1>3. x \in DOMAIN w /\ y \in DOMAIN w /\ \A p \in DOMAIN w : w[p] = d <=> (p = x \/ p = y)
  BY DEF Marks
<1> HIDE DEF w
<1>4. DOMAIN w = 1 .. b - a + 1
  BY <1>1, <1>2
<1>5. a + x - 1 \in 1 .. Len(t) /\ a + y - 1 \in 1 .. Len(t)
  BY <1>1, <1>3, <1>4
<1>6. ASSUME NEW h \in 1 .. Len(t) PROVE t[h] = d <=> (h = a + x - 1 \/ h = a + y - 1)
  <2>1. CASE a <= h /\ h <= b
    <3>1. h - a + 1 \in 1 .. b - a + 1 /\ a + (h - a + 1) - 1 = h
      BY <1>1, <2>1
    <3>2. w[h - a + 1] = t[h]
      BY <3>1, <1>2
    <3>3. (h - a + 1 = x <=> h = a + x - 1) /\ (h - a + 1 = y <=> h = a + y - 1)
      <4>1. x \in Int /\ y \in Int /\ a \in Int /\ h \in Int
        BY <1>1, <1>3, <1>4
      <4> QED
        BY <4>1
    <3> QED
      BY <3>1, <3>2, <3>3, <1>3, <1>4
  <2>2. CASE ~(a <= h /\ h <= b)
    <3>1. t[h] # d
      BY <2>2, <1>1
    <3>2. h # a + x - 1 /\ h # a + y - 1
      BY <2>2, <1>1, <1>3, <1>4
    <3> QED
      BY <3>1, <3>2
  <2> QED
    BY <2>1, <2>2
<1>7. w[1] = t[a]
  <2>1. 1 \in 1 .. b - a + 1 /\ a + 1 - 1 = a
    BY <1>1
  <2>2. w[1] = t[a + 1 - 1]
    BY <1>2, <2>1
  <2> QED
    BY <2>1, <2>2
<1>8. Scores(d, t, a + x - 1, a + y - 1)
  BY <1>1, <1>5, <1>6 DEF Scores
<1> QED
  BY <1>3, <1>4, <1>7, <1>8 DEF w, Initial

\* The text is one token, another and the rest of it.
LEMMA ThenRest ==
  ASSUME NEW t, NEW a, NEW b, Padded(t, a, b), a + 2 <= b, NEW x, NEW y, t[a] = x, t[a + 1] = y
  PROVE  SubSeq(t, a, b) = <<x, y>> \o SubSeq(t, a + 2, b)
<1> DEFINE w == SubSeq(t, a, b)
           g == a + 2
           r == SubSeq(t, g, b)
           z == <<x, y>> \o r
<1>1. t \in Seq(Token) /\ Len(t) \in Nat /\ a \in Nat \ {0} /\ b \in Nat /\ a <= b /\ b <= Len(t)
  BY DEF Padded
<1>2. w \in Seq(Token) /\ Len(w) = (IF a <= b THEN b - a + 1 ELSE 0) /\ \A j \in 1 .. b - a + 1 : w[j] = t[a + j - 1]
  BY <1>1, Piece
<1>3. g \in Nat \ {0} /\ g <= b /\ g = a + 2
  BY <1>1
<1> HIDE DEF w, g
<1>4. r \in Seq(Token) /\ Len(r) = (IF g <= b THEN b - g + 1 ELSE 0) /\ \A j \in 1 .. b - g + 1 : r[j] = t[g + j - 1]
  BY <1>1, <1>3, Piece
<1> HIDE DEF r
<1>5. x \in Token /\ y \in Token
  <2>1. a \in 1 .. Len(t) /\ a + 1 \in 1 .. Len(t)
    BY <1>1
  <2> QED
    BY <2>1, <1>1
<1>6. TwoThen(x, y, r, z)
  BY <1>4, <1>5, CatTwo
<1>7. TwoThen(x, y, r, w)
  <2>1. Len(w) = Len(r) + 2
    BY <1>1, <1>2, <1>3, <1>4
  <2>2. w[1] = x /\ w[2] = y
    <3>1. 1 \in 1 .. b - a + 1 /\ 2 \in 1 .. b - a + 1 /\ a + 1 - 1 = a /\ a + 2 - 1 = a + 1
      BY <1>1
    <3>2. w[1] = t[a + 1 - 1] /\ w[2] = t[a + 2 - 1]
      BY <1>2, <3>1
    <3> QED
      BY <3>1, <3>2
  <2>3. ASSUME NEW j \in 1 .. Len(r) PROVE w[j + 2] = r[j]
    <3>1. j \in 1 .. b - g + 1 /\ j + 2 \in 1 .. b - a + 1 /\ a + (j + 2) - 1 = g + j - 1
      BY <1>1, <1>3, <1>4
    <3>2. w[j + 2] = t[a + (j + 2) - 1]
      BY <1>2, <3>1
    <3> QED
      BY <3>1, <3>2, <1>4
  <2> QED
    BY <1>2, <2>1, <2>2, <2>3 DEF TwoThen
<1> HIDE DEF z
<1>8. w = z
  BY <1>4, <1>6, <1>7, TwoThenSame, Zenon
<1> QED
  BY <1>8 DEF w, z, r, g

\* A field's name, read off.
LEMMA FieldParts ==
  ASSUME NEW a, NEW o, Field(a) = Field(o)
  PROVE  a.group = o.group /\ Stripped(toVar(a)) = Stripped(toVar(o))
<1> DEFINE x == Stripped(toVar(a))
           y == Stripped(toVar(o))
<1> HIDE DEF x, y
<1>1. [group |-> a.group, name |-> x] = [group |-> o.group, name |-> y]
  BY DEF Field, x, y
<1>2. a.group = o.group /\ x = y
  BY <1>1
<1> QED
  BY <1>2 DEF x, y

\* One underscore.
LEMMA OneMarkRead ==
  ASSUME NEW t, NEW a, NEW b, Padded(t, a, b), NEW p, Marks("_", SubSeq(t, a, b), p, p),
         ~AggregateThrows(t), NEW o \in Objects, Field(Aggregate(t)) = Field(o)
  PROVE  o \in Named(SubSeq(t, a, b))
<1> DEFINE u == a + p - 1
<1>1. "_" \in Token /\ "_" \notin BlankChars
  BY Characters
<1>2. Scores("_", t, u, u)
  BY <1>1, MarkedScores, Zenon
<1> HIDE DEF u
<1>3. toVar(Aggregate(t)) = t /\ IsObject(Aggregate(t), 0, SubSeq(t, 1, u - 1), SubSeq(t, u + 1, Len(t)))
  BY <1>2, TwoPartName, Zenon
<1>4. Aggregate(t).group = 0
  BY <1>3, Zenon DEF IsObject
<1>5. Aggregate(t).group = o.group /\ Stripped(toVar(Aggregate(t))) = Stripped(toVar(o))
  BY FieldParts, Zenon
<1>6. Stripped(t) = SubSeq(t, a, b)
  BY StrippedPadded, Zenon
<1>7. Stripped(toVar(o)) = toVar(o)
  BY ObjectFacts
<1> QED
  BY <1>3, <1>4, <1>5, <1>6, <1>7, Zenon DEF Named

\* Two underscores, a number before the first.
Numbered(w, p, e) ==
  Marks("_", w, 2, p) /\ p # 2 /\ e \in DOMAIN Number /\ Initial(w, e)

\* A name with a number and two underscores names every object with its field.
LEMMA TwoMarksRead ==
  ASSUME NEW t, NEW a, NEW b, Padded(t, a, b), NEW p, NEW e, Numbered(SubSeq(t, a, b), p, e),
         ~AggregateThrows(t), NEW o \in Objects, Field(Aggregate(t)) = Field(o)
  PROVE  o \in Named(SubSeq(t, a, b))
<1> DEFINE q == 2
           u == a + q - 1
           v == a + p - 1
<1>0. e \in DOMAIN Number /\ Initial(SubSeq(t, a, b), e) /\ p # 2
  BY Zenon DEF Numbered
<1>1. "_" \in Token /\ "_" \notin BlankChars /\ e # "_" /\ e \notin BlankChars
  BY <1>0, Characters, Numbers
<1>2. /\ Scores("_", t, u, v) /\ p \in 1 .. b - a + 1 /\ q \in 1 .. b - a + 1
      /\ Initial(SubSeq(t, a, b), t[a])
  <2>1. Marks("_", SubSeq(t, a, b), q, p)
    BY Zenon DEF Numbered
  <2> HIDE DEF q
  <2> QED
    BY <1>1, <2>1, MarkedScores, Zenon
<1>3. t \in Seq(Token) /\ Len(t) \in Nat /\ a \in Nat \ {0} /\ b \in Nat /\ a <= b /\ b <= Len(t)
       /\ \A h \in 1 .. Len(t) : t[h] \in BlankChars <=> ~(a <= h /\ h <= b)
  BY DEF Padded
<1>4. t[a] = e
  BY <1>0, <1>2, Zenon DEF Initial
<1>4a. p # 1
  <2> SUFFICES ASSUME p = 1 PROVE FALSE
    OBVIOUS
  <2>1. v = a
    BY <1>3
  <2>2. v \in 1 .. Len(t) /\ \A h \in 1 .. Len(t) : t[h] = "_" <=> (h = u \/ h = v)
    BY <1>2, Zenon DEF Scores
  <2> HIDE DEF u, v
  <2>3. t[v] = "_"
    BY <2>2, Zenon
  <2> QED
    BY <2>1, <2>3, <1>1, <1>4, Zenon
<1>5. u < v /\ u \in Nat /\ v \in Nat /\ u = a + 1 /\ u - 1 = a /\ u + 1 = a + 2 /\ v <= b
  <2>1. p # 2 /\ p # 1 /\ p \in 1 .. b - a + 1
    BY <1>0, <1>2, <1>4a, Zenon
  <2>2. p \in Nat /\ 2 < p /\ p <= b - a + 1
    BY <2>1, <1>3
  <2> QED
    BY <2>2, <1>3
<1>6. Stripped(toVar(Aggregate(t))) = toVar(o) /\ Aggregate(t).group = o.group
  <2>1. Aggregate(t).group = o.group /\ Stripped(toVar(Aggregate(t))) = Stripped(toVar(o))
    BY FieldParts, Zenon
  <2>2. Stripped(toVar(o)) = toVar(o)
    BY ObjectFacts
  <2> QED
    BY <2>1, <2>2, Zenon
<1> HIDE DEF u, v, q
<1>7. CASE v = u + 1 \/ v = Len(t) \/ Blank(SubSeq(t, v + 1, Len(t)))
  <2>1. Aggregate(t).func = SubSeq(t, 1, u - 1) /\ Aggregate(t).column \in Seq(Token)
    BY <1>2, <1>5, <1>7, OddName, Zenon
  <2> DEFINE x == SubSeq(t, 1, a)
             y == Aggregate(t).column
             d == <<"_">>
  <2>2. x \in Seq(Token) /\ Len(x) = a /\ \A j \in 1 .. a : x[j] = t[j]
    <3> DEFINE n == 1
    <3>1. n \in Nat \ {0} /\ a <= Len(t) /\ a \in Nat /\ a - n + 1 = a /\ n <= a /\ \A j \in 1 .. a : n + j - 1 = j
      BY <1>3
    <3> HIDE DEF n
    <3>2. SubSeq(t, n, a) \in Seq(Token) /\ Len(SubSeq(t, n, a)) = (IF n <= a THEN a - n + 1 ELSE 0)
           /\ \A j \in 1 .. a - n + 1 : SubSeq(t, n, a)[j] = t[n + j - 1]
      BY <1>3, <3>1, Piece
    <3>3. x = SubSeq(t, n, a)
      BY DEF n
    <3> HIDE DEF x
    <3> QED
      BY <3>1, <3>2, <3>3
  <2> HIDE DEF x
  <2>3. d \in Seq(Token)
    BY Underscore
  <2>4. y \in Seq(Token)
    BY <2>1
  <2>5. toVar(Aggregate(t)) = (x \o d) \o y
    BY <2>1, <1>5, Zenon DEF toVar, x
  <2> HIDE DEF d, y
  <2>6. x \o d \in Seq(Token) /\ Len(x \o d) = Len(x) + Len(d) /\ (\A j \in 1 .. Len(x) : (x \o d)[j] = x[j])
    BY <2>2, <2>3, Cat
  <2> DEFINE xd == x \o d
  <2> HIDE DEF xd
  <2>7. xd \o y \in Seq(Token) /\ Len(xd \o y) = Len(xd) + Len(y) /\ (\A j \in 1 .. Len(xd) : (xd \o y)[j] = xd[j])
    <3>1. xd \in Seq(Token)
      BY <2>6 DEF xd
    <3> QED
      BY <2>4, <3>1, Cat
  <2> DEFINE z == xd \o y
  <2> HIDE DEF z
  <2>8. z \in Seq(Token) /\ a \in 1 .. Len(z) /\ \A j \in 1 .. a : z[j] = t[j]
    <3>1. xd \in Seq(Token) /\ Len(xd) = Len(x) + Len(d) /\ (\A j \in 1 .. Len(x) : xd[j] = x[j])
      BY <2>6 DEF xd
    <3>2. z \in Seq(Token) /\ Len(z) = Len(xd) + Len(y) /\ (\A j \in 1 .. Len(xd) : z[j] = xd[j])
      BY <2>7 DEF z
    <3>3. Len(d) \in Nat /\ Len(y) \in Nat
      BY <2>3, <2>4
    <3> QED
      BY <3>1, <3>2, <3>3, <2>2, <1>3
  <2>9. z[a] = e /\ z[a] \notin BlankChars /\ \A j \in 1 .. a - 1 : z[j] \in BlankChars
    <3>1. z[a] = t[a]
      BY <2>8, <1>3
    <3>2. ASSUME NEW j \in 1 .. a - 1 PROVE z[j] \in BlankChars
      <4>1. j \in 1 .. Len(t) /\ j \in 1 .. a /\ ~(a <= j)
        BY <1>3
      <4> QED
        BY <4>1, <1>3, <2>8
    <3> QED
      BY <3>1, <3>2, <1>1, <1>4
  <2>10. Stripped(z)[1] = e
    BY <2>8, <2>9, StrippedFirst
  <2>11. Stripped(z) = toVar(o)
    BY <2>5, <1>6, Zenon DEF z, xd
  <2>12. toVar(o)[1] \notin DOMAIN Number
    BY ObjectFacts
  <2> QED
    BY <1>0, <2>10, <2>11, <2>12, Zenon
<1>8. CASE ~(v = u + 1 \/ v = Len(t) \/ Blank(SubSeq(t, v + 1, Len(t))))
  <2>1. u + 2 <= v
    BY <1>5, <1>8
  <2>2. /\ toVar(Aggregate(t)) = SubSeq(t, u + 1, Len(t))
        /\ IsObject(Aggregate(t), atoi(SubSeq(t, 1, u - 1)), SubSeq(t, u + 1, v - 1),
                     SubSeq(t, v + 1, Len(t)))
    BY <1>2, <1>5, <1>8, <2>1, ThreePartName, Zenon
  <2>3. Aggregate(t).group = atoi(SubSeq(t, 1, u - 1))
    BY <2>2, Zenon DEF IsObject
  <2> DEFINE n == 1
             l == Len(t)
             g == a + 2
  <2>4. g <= b
    BY <2>1, <1>5, <1>3
  <2>5. Overlap(t, a, b, n, a, a, a) /\ Overlap(t, a, b, g, l, g, b)
    BY <1>3, <2>4 DEF Overlap
  <2> HIDE DEF n, l, g
  <2>6. Stripped(SubSeq(t, g, l)) = SubSeq(t, g, b)
    BY <2>5, PaddedPiece
  <2>7. Stripped(SubSeq(t, n, a)) = SubSeq(t, a, a)
    <3> DEFINE y == a
               lo == a
               hi == a
    <3>1. Overlap(t, a, b, n, y, lo, hi)
      BY <2>5
    <3> HIDE DEF y, lo, hi
    <3>2. Stripped(SubSeq(t, n, y)) = SubSeq(t, lo, hi)
      BY <3>1, PaddedPiece
    <3> QED
      BY <3>2 DEF y, lo, hi
  <2>8. SubSeq(t, a, a) = <<e>>
    <3>1. a \in 1 .. Len(t)
      BY <1>3
    <3> QED
      BY <1>3, <1>4, <3>1, OneToken, Zenon
  <2>9. atoi(SubSeq(t, 1, u - 1)) = Number[e]
    <3>1. Stripped(SubSeq(t, 1, u - 1)) = <<e>>
      BY <2>7, <2>8, <1>5, Zenon DEF n
    <3> QED
      BY <3>1, <1>0, AtoiOne, Zenon
  <2>10. toVar(o) = SubSeq(t, a + 2, b)
    BY <1>5, <1>6, <2>2, <2>6, Zenon DEF g, l
  <2>11. SubSeq(t, a, b) = <<e, "_">> \o SubSeq(t, a + 2, b)
    <3>1. t[a + 1] = "_"
      <4>1. u \in 1 .. Len(t) /\ \A h \in 1 .. Len(t) : t[h] = "_" <=> (h = u \/ h = v)
        BY <1>2, Zenon DEF Scores
      <4>2. t[u] = "_"
        BY <4>1, Zenon
      <4> QED
        BY <4>2, <1>5, Zenon
    <3>2. a + 2 <= b
      BY <2>4 DEF g
    <3> QED
      BY <3>1, <3>2, <1>4, ThenRest, Zenon
  <2> QED
    BY <1>0, <1>6, <2>3, <2>9, <2>10, <2>11, Zenon DEF Named
<1> QED
  BY <1>7, <1>8

\* A regular name of a field is a name of the field's object.
LEMMA NameRead ==
  ASSUME NEW t, NEW a, NEW b, Padded(t, a, b), Regular(SubSeq(t, a, b)),
         ~AggregateThrows(t), NEW o \in Objects, Field(Aggregate(t)) = Field(o)
  PROVE  o \in Named(SubSeq(t, a, b))
<1> DEFINE w == SubSeq(t, a, b)
           s == {p \in DOMAIN w : w[p] = "_"}
<1>1. PICK p \in DOMAIN w : s = {p} \/ (s = {2, p} /\ w[1] \in DOMAIN Number)
  BY DEF Regular
<1> HIDE DEF w
<1>2. CASE s = {p} \/ p = 2
  <2>1. s = {p, p}
    BY <1>1, <1>2
  <2>2. Marks("_", w, p, p)
    BY <1>1, <2>1, Zenon DEF Marks
  <2> QED
    BY <2>2, OneMarkRead, Zenon DEF w
<1>3. CASE s = {2, p} /\ p # 2
  <2>1. 2 \in DOMAIN w
    BY <1>3
  <2>2. Marks("_", w, 2, p)
    BY <1>1, <1>3, <2>1, Zenon DEF Marks
  <2>3. w[1] \in DOMAIN Number
    <3>1. s # {p}
      BY <1>3
    <3> QED
      BY <1>1, <3>1
  <2> DEFINE e == w[1]
  <2>4. e \in DOMAIN Number /\ Initial(w, e)
    BY <2>3 DEF Initial
  <2> HIDE DEF e
  <2> QED
    <3>1. Numbered(w, p, e)
      BY <2>2, <2>4, <1>3, Zenon DEF Numbered
    <3> QED
      BY <3>1, TwoMarksRead, Zenon DEF w
<1> QED
  BY <1>1, <1>2, <1>3

-----------------------------------------------------------------------------
(***************************************************************************)
(* What the constructors return.                                           *)
(***************************************************************************)
\* atoi returns a number: no sign is read.
LEMMA AtoiNat == ASSUME NEW t PROVE atoi(t) \in Nat
<1>1. CASE StartsWithNumber(t)
  <2>1. Stripped(t)[1] \in DOMAIN Number
    BY <1>1 DEF StartsWithNumber
  <2> QED
    BY <1>1, <2>1, Numbers DEF atoi
<1>2. CASE ~StartsWithNumber(t)
  BY <1>2 DEF atoi
<1> QED
  BY <1>1, <1>2

\* A name that is not thrown out has a function and a column.
LEMMA AggregateTyped ==
  ASSUME NEW t \in Seq(Token), ~AggregateThrows(t)
  PROVE  Aggregate(t) \in AggregateObjects
<1> DEFINE d == "_"
           P == Exploded(<<d>>, t).parts
<1>1. d \in Token
  BY Characters
<1> HIDE DEF d
<1>2. P \in Seq(Seq(Token))
  BY <1>1, ExplodedTypes
<1>3. NameParts(t).parts = P
  BY DEF NameParts, d
<1> HIDE DEF P
<1>4. Len(P) \in Nat /\ ~(Len(P) < 2)
  BY <1>2, <1>3 DEF AggregateThrows
<1>5. P[1] \in Seq(Token) /\ P[2] \in Seq(Token) /\ (Len(P) = 3 => P[3] \in Seq(Token))
  BY <1>2, <1>4
<1>6. atoi(P[1]) \in Nat
  BY AtoiNat
<1>7. Aggregate(t) = IF Len(P) = 3 THEN [group |-> atoi(P[1]), func |-> P[2], column |-> P[3]]
                     ELSE [group |-> 0, func |-> P[1], column |-> P[2]]
  BY <1>3, Zenon DEF Aggregate
<1> QED
  BY <1>5, <1>6, <1>7 DEF AggregateObjects, Texts

\* The first token of cs.
LEMMA FirstFacts ==
  ASSUME NEW s \in Seq(Token), NEW cs, Range(s) \cap cs # {}
  PROVE  /\ First(s, cs) \in 1 .. Len(s) /\ s[First(s, cs)] \in cs
         /\ \A j \in 1 .. First(s, cs) - 1 : s[j] \notin cs
<1> DEFINE H == {h \in DOMAIN s : s[h] \in cs}
<1>0. Len(s) \in Nat /\ DOMAIN s = 1 .. Len(s)
  OBVIOUS
<1>1. H \subseteq Nat /\ H # {}
  BY <1>0 DEF Range
<1>2. Min(H) \in H /\ \A y \in H : Min(H) <= y
  <2> HIDE DEF H
  <2> QED
    BY <1>1, MinIsLeast
<1> DEFINE m == Min(H)
<1>3. First(s, cs) = m
  BY DEF First
<1>4. m \in 1 .. Len(s) /\ s[m] \in cs
  BY <1>0, <1>2
<1>5. ASSUME NEW j \in 1 .. m - 1 PROVE s[j] \notin cs
  <2>1. j \in DOMAIN s /\ ~(m <= j)
    BY <1>0, <1>4
  <2>2. j \notin H
    BY <2>1, <1>2
  <2> QED
    BY <2>1, <2>2
<1> HIDE DEF m
<1> QED
  BY <1>3, <1>4, <1>5

\* What comes before and behind a position.
LEMMA Sides ==
  ASSUME NEW s \in Seq(Token), NEW p \in Nat, 1 <= p, p <= Len(s)
  PROVE  Before(s, p) \in Seq(Token) /\ After(s, p) \in Seq(Token)
<1> DEFINE a == 1
           b == p - 1
           c == p + 1
           e == Len(s)
<1>1. a \in Nat \ {0} /\ b \in Nat /\ b <= Len(s) /\ c \in Nat \ {0} /\ e \in Nat /\ e <= Len(s)
  OBVIOUS
<1> HIDE DEF a, b, c, e
<1>2. SubSeq(s, a, b) \in Seq(Token) /\ SubSeq(s, c, e) \in Seq(Token)
  BY <1>1, Piece
<1> QED
  BY <1>2, Zenon DEF Before, After, a, b, c, e

\* The part of a condition behind its variable.
LEMMA BodyTyped ==
  ASSUME NEW c \in Seq(Token) PROVE Body(c) \in Seq(Token)
<1>1. CASE Prefixed(c)
  <2> DEFINE cs == {"."}
             p == First(c, cs)
  <2>1. Range(c) \cap cs # {}
    BY <1>1 DEF Prefixed, Holds, Range
  <2> HIDE DEF cs
  <2>2. p \in 1 .. Len(c)
    BY <2>1, FirstFacts
  <2> HIDE DEF p
  <2>3. p \in Nat /\ 1 <= p /\ p <= Len(c)
    BY <2>2
  <2>4. After(c, p) \in Seq(Token)
    BY <2>3, Sides
  <2> QED
    BY <1>1, <2>4, Zenon DEF Body, p, cs
<1>2. CASE ~Prefixed(c)
  BY <1>2 DEF Body
<1> QED
  BY <1>1, <1>2

\* The operator of a condition.
LEMMA OperatorTyped ==
  ASSUME NEW s \in Seq(Token), NEW i \in 1 .. Len(s)
  PROVE  /\ OperatorAt(s, i) \in Seq(Token)
         /\ Len(OperatorAt(s, i)) \in 1 .. 2 /\ i + Len(OperatorAt(s, i)) - 1 \in i .. Len(s)
<1> DEFINE b == i + 1
           x == s[i]
<1>0. Len(s) \in Nat /\ x \in Token
  OBVIOUS
<1>1. CASE i < Len(s) /\ SubSeq(s, i, i + 1) \in LongOperators
  <2>1. i \in Nat \ {0} /\ b \in Nat /\ b <= Len(s) /\ i <= b /\ b - i + 1 = 2
    BY <1>0, <1>1
  <2>2. OperatorAt(s, i) = SubSeq(s, i, b)
    BY <1>1 DEF OperatorAt
  <2> HIDE DEF b
  <2>3. SubSeq(s, i, b) \in Seq(Token) /\ Len(SubSeq(s, i, b)) = IF i <= b THEN b - i + 1 ELSE 0
    BY <2>1, Piece
  <2>4. OperatorAt(s, i) \in Seq(Token) /\ Len(OperatorAt(s, i)) = 2
    BY <2>1, <2>2, <2>3
  <2> DEFINE z == OperatorAt(s, i)
  <2> HIDE DEF z
  <2>5. i + Len(z) - 1 \in i .. Len(s) /\ Len(z) \in 1 .. 2
    <3>1. Len(z) = 2
      BY <2>4 DEF z
    <3> QED
      BY <3>1, <1>0, <1>1
  <2> QED
    BY <2>4, <2>5 DEF z
<1>2. CASE ~(i < Len(s) /\ SubSeq(s, i, i + 1) \in LongOperators)
  <2>1. OperatorAt(s, i) = <<x>>
    BY <1>2, Zenon DEF OperatorAt
  <2> HIDE DEF x
  <2>2. <<x>> \in Seq(Token) /\ Len(<<x>>) = 1
    BY <1>0
  <2> DEFINE z == OperatorAt(s, i)
  <2>3. z \in Seq(Token) /\ Len(z) = 1
    BY <2>1, <2>2
  <2> HIDE DEF z
  <2>4. i + Len(z) - 1 \in i .. Len(s) /\ Len(z) \in 1 .. 2
    BY <2>3, <1>0
  <2> QED
    BY <2>3, <2>4 DEF z
<1> QED
  BY <1>1, <1>2

\* Quotes replaced.
LEMMA QuotesTyped ==
  ASSUME NEW t \in Seq(Token)
  PROVE  /\ QuotesReplaced(t) \in Seq(Token) /\ Len(QuotesReplaced(t)) = Len(t)
         /\ \A p \in 1 .. Len(t) : QuotesReplaced(t)[p] = IF t[p] = "'" THEN "\"" ELSE t[p]
<1> DEFINE q == "\""
           e == "'"
           r == [p \in 1 .. Len(t) |-> IF t[p] = e THEN q ELSE t[p]]
<1>0. q \in Token
  BY Characters
<1>1. QuotesReplaced(t) = r
  <2>1. DOMAIN t = 1 .. Len(t)
    OBVIOUS
  <2> QED
    BY <2>1, Zenon DEF QuotesReplaced
<1> HIDE DEF q, e
<1>2. \A p \in 1 .. Len(t) : (IF t[p] = e THEN q ELSE t[p]) \in Token
  BY <1>0
<1>3. r \in Seq(Token) /\ Len(r) = Len(t) /\ \A p \in 1 .. Len(t) : r[p] = IF t[p] = e THEN q ELSE t[p]
  <2>1. Len(t) \in Nat
    OBVIOUS
  <2>2. r \in [1 .. Len(t) -> Token]
    BY <1>2
  <2> HIDE DEF r
  <2>3. r \in Seq(Token) /\ Len(r) = Len(t)
    BY <2>1, <2>2, SeqDef
  <2> QED
    BY <2>3 DEF r
<1> QED
  BY <1>1, <1>3 DEF e, q

\* A condition that is not thrown out.
LEMMA ConditionTyped ==
  ASSUME NEW c \in Seq(Token), ~ConditionThrows(c)
  PROVE  Condition(c) \in [group : Nat, column : Texts, exp : Texts, value : Texts]
<1> DEFINE s == Body(c)
           i == First(s, OperatorChars)
           e == OperatorAt(s, i)
           m == i + Len(e) - 1
           g == IF Prefixed(c) THEN atoi(Before(c, First(c, {"."}))) ELSE 0
           x == IF e = <<"<", ">">> THEN <<"!", "=">> ELSE e
           v == QuotesReplaced(After(s, m))
<1>1. s \in Seq(Token)
  BY BodyTyped
<1>2. Range(s) \cap OperatorChars # {}
  BY DEF ConditionThrows
<1>3. g \in Nat
  BY AtoiNat
<1>4. Condition(c) = [group |-> g, column |-> Before(s, i), exp |-> x, value |-> v]
  BY DEF Condition
<1> HIDE DEF s, g
<1>5. i \in 1 .. Len(s) /\ Len(s) \in Nat
  BY <1>1, <1>2, FirstFacts
<1> HIDE DEF i
<1>6. e \in Seq(Token) /\ Len(e) \in 1 .. 2 /\ m \in i .. Len(s)
  BY <1>1, <1>5, OperatorTyped
<1>7. x \in Seq(Token)
  <2>1. ASSUME NEW a \in Token, NEW b \in Token PROVE <<a, b>> \in Seq(Token)
    OBVIOUS
  <2>2. <<"!", "=">> \in Seq(Token)
    BY <2>1, Characters, Zenon
  <2> HIDE DEF e
  <2> QED
    BY <1>6, <2>2, Zenon
<1> HIDE DEF e, m, x
<1>8. Before(s, i) \in Seq(Token) /\ After(s, m) \in Seq(Token)
  <2>1. i \in Nat /\ 1 <= i /\ i <= Len(s) /\ m \in Nat /\ 1 <= m /\ m <= Len(s)
    BY <1>5, <1>6
  <2> QED
    BY <1>1, <2>1, Sides
<1>9. v \in Seq(Token)
  BY <1>8, QuotesTyped
<1> HIDE DEF v
<1> QED
  BY <1>3, <1>4, <1>7, <1>8, <1>9 DEF Texts

\* What Condition returns.
ConditionObjects == [group : Nat, column : Texts, exp : Texts, value : Texts]

\* The parts of a line.
LEMMA LinePartsTyped ==
  ASSUME NEW s \in Seq(Token) PROVE LineParts(s) \in Seq(Seq(Token))
<1> DEFINE d == " "
<1>1. d \in Token
  BY Characters
<1>2. LineParts(s) = IF Holds(s, d) THEN Exploded(<<d>>, s).parts ELSE <<s>>
  BY DEF LineParts
<1> HIDE DEF d
<1>3. Exploded(<<d>>, s).parts \in Seq(Seq(Token))
  BY <1>1, ExplodedTypes
<1>4. <<s>> \in Seq(Seq(Token))
  OBVIOUS
<1> QED
  BY <1>2, <1>3, <1>4, Zenon

\* Conditions(s) by the parts of the line: the odd ones are conditions, the
\* even ones connectives.
Split(cs, P) ==
  /\ P \in Seq(Seq(Token))
  /\ cs.conditions \in Seq(ConditionObjects) /\ Len(cs.conditions) = (Len(P) + 1) \div 2
  /\ \A j \in 1 .. (Len(P) + 1) \div 2 :
       /\ 2 * j - 1 \in 1 .. Len(P)
       /\ ~ConditionThrows(P[2 * j - 1]) /\ cs.conditions[j] = Condition(P[2 * j - 1])
  /\ cs.ops \in Seq(Texts) /\ Len(cs.ops) = Len(P) \div 2
  /\ \A j \in 1 .. Len(P) \div 2 : 2 * j \in 1 .. Len(P) /\ cs.ops[j] = P[2 * j]

\* Conditions takes a line apart that way.
LEMMA ConditionsSplit ==
  ASSUME NEW s \in Seq(Token), ~ConditionsThrow(s)
  PROVE  Split(Conditions(s), LineParts(s))
<1> DEFINE P == LineParts(s)
           m == (Len(P) + 1) \div 2
           n == Len(P) \div 2
           T == [j \in 1 .. m |-> P[2 * j - 1]]
           C == [j \in DOMAIN T |-> Condition(T[j])]
           O == [j \in 1 .. n |-> P[2 * j]]
<1>1. P \in Seq(Seq(Token))
  BY LinePartsTyped
<1>2. ConditionTexts(s) = T /\ Ops(s) = O
  BY Zenon DEF ConditionTexts, Ops
<1>3. Conditions(s) = [conditions |-> C, ops |-> O]
  BY <1>2, Zenon DEF Conditions
<1>4. \A c \in Range(T) : ~ConditionThrows(c)
  BY <1>2, Zenon DEF ConditionsThrow
<1> HIDE DEF P
<1>5. Len(P) \in Nat /\ m \in Nat /\ n \in Nat /\ (\A j \in 1 .. m : 2 * j - 1 \in 1 .. Len(P))
       /\ (\A j \in 1 .. n : 2 * j \in 1 .. Len(P))
  BY <1>1
<1> HIDE DEF m, n
<1>6. \A j \in 1 .. m : P[2 * j - 1] \in Seq(Token) /\ ~ConditionThrows(P[2 * j - 1])
  <2> SUFFICES ASSUME NEW j \in 1 .. m PROVE P[2 * j - 1] \in Seq(Token) /\ ~ConditionThrows(P[2 * j - 1])
    OBVIOUS
  <2>1. T[j] = P[2 * j - 1] /\ j \in DOMAIN T
    OBVIOUS
  <2>2. T[j] \in Range(T)
    BY <2>1 DEF Range
  <2>3. P[2 * j - 1] \in Seq(Token)
    BY <1>1, <1>5
  <2> QED
    BY <1>4, <2>1, <2>2, <2>3, Zenon
<1>7. \A j \in 1 .. m : Condition(P[2 * j - 1]) \in ConditionObjects
  <2> SUFFICES ASSUME NEW j \in 1 .. m PROVE Condition(P[2 * j - 1]) \in ConditionObjects
    OBVIOUS
  <2> DEFINE c == P[2 * j - 1]
  <2>1. c \in Seq(Token) /\ ~ConditionThrows(c)
    BY <1>6
  <2> HIDE DEF c
  <2>2. Condition(c) \in ConditionObjects
    BY <2>1, ConditionTyped, Zenon DEF ConditionObjects
  <2> QED
    BY <2>2 DEF c
<1>8. C = [j \in 1 .. m |-> Condition(P[2 * j - 1])]
  OBVIOUS
<1>9. C \in Seq(ConditionObjects) /\ Len(C) = m /\ \A j \in 1 .. m : C[j] = Condition(P[2 * j - 1])
  <2>1. C \in [1 .. m -> ConditionObjects] /\ \A j \in 1 .. m : C[j] = Condition(P[2 * j - 1])
    BY <1>7, <1>8
  <2> HIDE DEF C
  <2> QED
    BY <2>1, <1>5, SeqDef
<1>10. O \in Seq(Texts) /\ Len(O) = n /\ \A j \in 1 .. n : O[j] = P[2 * j]
  <2>0. \A j \in 1 .. n : P[2 * j] \in Seq(Token)
    BY <1>1, <1>5
  <2>1. O \in [1 .. n -> Texts] /\ \A j \in 1 .. n : O[j] = P[2 * j]
    BY <2>0 DEF Texts
  <2> HIDE DEF O
  <2> QED
    BY <2>1, <1>5, SeqDef
<1>11. Conditions(s).conditions = C /\ Conditions(s).ops = O
  <2> HIDE DEF C, O
  <2> QED
    BY <1>3
<1> HIDE DEF C, O
<1> DEFINE cs == Conditions(s)
<1> HIDE DEF cs
<1>12. cs.conditions = C /\ cs.ops = O
  BY <1>11 DEF cs
<1>13. Split(cs, P)
  BY <1>1, <1>5, <1>6, <1>9, <1>10, <1>12, Zenon DEF Split, m, n
<1> QED
  BY <1>13 DEF cs, P

\* The clause a line becomes.
Joined(cl, cs) ==
  /\ DOMAIN cl.conditions = 1 .. Len(cs.conditions) /\ Len(cl.conditions) = Len(cs.conditions)
  /\ \A j \in 1 .. Len(cs.conditions) : cl.conditions[j] = toCpp(cs.conditions[j])
  /\ cl.ops \in Seq(Texts) /\ Len(cl.ops) = Len(cs.conditions) - 1
  /\ \A j \in 1 .. Len(cs.conditions) - 1 : cl.ops[j] = cs.ops[j]

\* ClauseToCpp joins every condition, and the connectives between them.
LEMMA ClauseJoined ==
  ASSUME NEW cs, NEW P, Split(cs, P), cs.conditions # <<>>
  PROVE  Joined(ClauseToCpp(cs), cs)
<1> DEFINE n == Len(cs.conditions)
           C == [j \in DOMAIN cs.conditions |-> toCpp(cs.conditions[j])]
           b == n - 1
           O == SubSeq(cs.ops, 1, b)
<1>1. cs.conditions \in Seq(ConditionObjects) /\ cs.ops \in Seq(Texts) /\ n \in Nat /\ Len(cs.ops) \in Nat
       /\ b \in Nat /\ b <= Len(cs.ops)
  <2>1. Len(P) \in Nat /\ cs.conditions \in Seq(ConditionObjects) /\ cs.ops \in Seq(Texts)
         /\ Len(cs.ops) = Len(P) \div 2 /\ n = (Len(P) + 1) \div 2
    BY DEF Split
  <2>2. n # 0
    BY <2>1
  <2> QED
    BY <2>1, <2>2
<1>2. DOMAIN cs.conditions = 1 .. n
  BY <1>1
<1>3. ClauseToCpp(cs) = [conditions |-> C, ops |-> O]
  BY Zenon DEF ClauseToCpp
<1>4. DOMAIN C = 1 .. n /\ Len(C) = n /\ \A j \in 1 .. n : C[j] = toCpp(cs.conditions[j])
  <2>1. C = [j \in 1 .. n |-> toCpp(cs.conditions[j])]
    BY <1>2
  <2> HIDE DEF C, n
  <2>2. DOMAIN C = 1 .. n /\ \A j \in 1 .. n : C[j] = toCpp(cs.conditions[j])
    BY <2>1
  <2>3. Len(C) = n
    BY <2>1, <1>1
  <2> QED
    BY <2>2, <2>3
<1>5. O \in Seq(Texts) /\ Len(O) = b /\ \A j \in 1 .. b : O[j] = cs.ops[j]
  <2> DEFINE T == Texts
             o == cs.ops
             a == 1
  <2>1. a \in Nat \ {0} /\ o \in Seq(T) /\ b \in Nat /\ b <= Len(o) /\ b - a + 1 = b
         /\ Len(o) \in Nat /\ (\A j \in 1 .. b : a + j - 1 = j) /\ (IF a <= b THEN b - a + 1 ELSE 0) = b
    BY <1>1
  <2>1a. \A i \in a .. b : o[i] \in T
    BY <2>1
  <2> HIDE DEF T, o, a, b
  <2>2. SubSeq(o, a, b) \in Seq(T) /\ Len(SubSeq(o, a, b)) = (IF a <= b THEN b - a + 1 ELSE 0)
         /\ \A j \in 1 .. b - a + 1 : SubSeq(o, a, b)[j] = o[a + j - 1]
    BY <2>1, <2>1a, SubSeqProperties
  <2>3. SubSeq(o, a, b) \in Seq(T) /\ Len(SubSeq(o, a, b)) = b /\ \A j \in 1 .. b : SubSeq(o, a, b)[j] = o[j]
    BY <2>1, <2>2
  <2> QED
    BY <2>3, Zenon DEF T, o, a
<1> HIDE DEF C, O, n
<1> DEFINE cl == ClauseToCpp(cs)
<1>6. cl.conditions = C /\ cl.ops = O
  BY <1>3
<1> HIDE DEF cl
<1>7. Joined(cl, cs)
  BY <1>4, <1>5, <1>6, Zenon DEF Joined, n
<1> QED
  BY <1>7 DEF cl

-----------------------------------------------------------------------------
(***************************************************************************)
(* The inductive invariant: what has been read so far is what the          *)
(* constructors return for the texts read so far.                          *)
(***************************************************************************)
\* The queries parse_query is called with.
Queries == [n : Nat, emf : BOOLEAN, F : Seq(Texts), S : Seq(Texts), sigma : Seq(Texts), G : Texts]

\* The phases, and those from each one on.
Ended == {"accepted", "refused"}

\* After parse_having.
HavingDone == {"generated"} \cup Ended

\* After the clauses are written.
ScansDone == {"having"} \cup HavingDone

\* After the such-that lines are read.
ConditionsDone == {"scans"} \cup ScansDone

\* After S is read.
AttributesDone == {"conditions"} \cup ConditionsDone

\* After F is read.
AggregatesDone == {"attributes"} \cup AttributesDone

\* All of them.
Phases == {"aggregates", "aborted"} \cup AggregatesDone

\* The aggregates of F.
AggregatesRead(in, all) ==
  /\ all \in Seq(AggregateObjects) /\ Len(all) <= Len(in.F)
  /\ \A j \in 1 .. Len(all) : ~AggregateThrows(in.F[j]) /\ all[j] = Aggregate(in.F[j])

\* The aggregates and the columns among the first m names of S.
NamesIn(in) == {j \in DOMAIN in.S : isAggregate(in.S[j])}

\* The names of S that are taken for columns.
ColumnsIn(in) == DOMAIN in.S \ NamesIn(in)

\* Of the first m names of S: the aggregates, in their order.
SelectedNames(in, m, ags) ==
  /\ Len(ags) = Cardinality(Up(NamesIn(in), m))
  /\ \A r \in 1 .. Len(ags) : /\ ~AggregateThrows(in.S[Nth(NamesIn(in), r)])
                              /\ ags[r] = Aggregate(in.S[Nth(NamesIn(in), r)])

\* And the columns.
SelectedColumns(in, m, cols) ==
  /\ Len(cols) = Cardinality(Up(ColumnsIn(in), m))
  /\ \A r \in 1 .. Len(cols) : cols[r] = in.S[Nth(ColumnsIn(in), r)]

\* The such-that lines.
LineObjects == [conditions : Seq(ConditionObjects), ops : Seq(Texts)]

\* Each line that has been read is what Conditions makes of it.
LinesRead(in, lines) ==
  /\ lines \in Seq(LineObjects) /\ Len(lines) <= Len(in.sigma)
  /\ \A j \in 1 .. Len(lines) :
       /\ ~ConditionsThrow(in.sigma[j]) /\ lines[j] = Conditions(in.sigma[j])
       /\ Split(lines[j], LineParts(in.sigma[j]))

\* The clauses.
ClauseObjects == {ClauseToCpp(cs) : cs \in LineObjects}

\* Each clause that has been written is that of its line.
ClausesWritten(lines, cls) ==
  /\ cls \in Seq(ClauseObjects) /\ Len(cls) <= Len(lines)
  /\ \A j \in 1 .. Len(cls) :
       /\ lines[j].conditions # <<>> /\ (\A c \in Range(lines[j].conditions) : ~ToCppThrows(c))
       /\ cls[j] = ClauseToCpp(lines[j]) /\ Joined(cls[j], lines[j])

\* Why the program ends without a result.
Unreadable ==
  \/ \E j \in DOMAIN input.F : AggregateThrows(input.F[j])
  \/ \E j \in DOMAIN input.F : ~AggregateThrows(input.F[j]) /\ ~(Aggregate(input.F[j]).group <= input.n)
  \/ \E j \in DOMAIN input.S : isAggregate(input.S[j]) /\ AggregateThrows(input.S[j])
  \/ \E j \in DOMAIN input.sigma : ConditionsThrow(input.sigma[j])
  \/ Len(input.sigma) < input.n
  \/ \E j \in DOMAIN input.sigma : /\ ~ConditionsThrow(input.sigma[j]) /\ j <= input.n
                                   /\ \/ Conditions(input.sigma[j]).conditions = <<>>
                                      \/ \E c \in Range(Conditions(input.sigma[j]).conditions) : ToCppThrows(c)
  \/ HavingThrows

\* g++ accepts the program.
Compiles == NamesCompile /\ HavingCompiles /\ \A i \in DOMAIN clauses : ClauseCompiles(clauses[i])

\* The inductive invariant: the query stays as it was;
InvPhase == input \in Queries /\ pc \in Phases /\ k \in Nat /\ 1 <= k

\* the aggregates of F have been read, up to the index of the loop;
InvAggregates ==
  /\ AggregatesRead(input, all_aggregates)
  /\ pc = "aggregates" => Len(all_aggregates) = k - 1
  /\ pc \in AggregatesDone => Len(all_aggregates) = Len(input.F)
  /\ pc \in ScansDone => GroupsFit

\* of S, the names with an underscore;
InvNames ==
  /\ select_aggregates \in Seq(AggregateObjects)
  /\ pc = "aggregates" => SelectedNames(input, 0, select_aggregates)
  /\ pc = "attributes" => k <= Len(input.S) + 1 /\ SelectedNames(input, k - 1, select_aggregates)
  /\ pc \in AttributesDone => SelectedNames(input, Len(input.S), select_aggregates)

\* and the others;
InvColumns ==
  /\ select_columns \in Seq(Texts)
  /\ pc = "aggregates" => SelectedColumns(input, 0, select_columns)
  /\ pc = "attributes" => SelectedColumns(input, k - 1, select_columns)
  /\ pc \in AttributesDone => SelectedColumns(input, Len(input.S), select_columns)

\* the such-that lines;
InvLines ==
  /\ LinesRead(input, select_conditions)
  /\ pc \in {"aggregates", "attributes"} => Len(select_conditions) = 0
  /\ pc = "conditions" => Len(select_conditions) = k - 1
  /\ pc \in ConditionsDone => Len(select_conditions) = Len(input.sigma)

\* the clauses, one for each variable;
InvClauses ==
  /\ ClausesWritten(select_conditions, clauses) /\ Len(clauses) <= input.n
  /\ pc \in {"aggregates", "attributes", "conditions"} => Len(clauses) = 0
  /\ pc = "scans" => Len(clauses) = k - 1
  /\ pc \in ScansDone => Len(clauses) = input.n

\* HAVING, and the verdict.
InvEnd ==
  /\ pc \in HavingDone =>
       /\ ~HavingThrows
       /\ having = IF input.G = <<>> THEN <<>>
                   ELSE [j \in DOMAIN HavingParts |-> HavingItem(HavingParts[j])]
  /\ pc = "accepted" => Compiles
  /\ pc = "refused" => ~Compiles
  /\ pc = "aborted" => Unreadable

\* All of it.
Inv == InvPhase /\ InvAggregates /\ InvNames /\ InvColumns /\ InvLines /\ InvClauses /\ InvEnd

\* One more element at the end.
Longer(s, e, z, T) ==
  /\ z \in Seq(T) /\ Len(z) = Len(s) + 1 /\ z[Len(s) + 1] = e
  /\ \A j \in 1 .. Len(s) : z[j] = s[j]

\* What Append gives.
LEMMA Appended ==
  ASSUME NEW T, NEW s \in Seq(T), NEW e \in T
  PROVE  Longer(s, e, Append(s, e), T)
<1>1. Append(s, e) \in Seq(T) /\ Len(Append(s, e)) = Len(s) + 1
       /\ (\A j \in 1 .. Len(s) : Append(s, e)[j] = s[j]) /\ Append(s, e)[Len(s) + 1] = e
  BY AppendProperties
<1> QED
  BY <1>1, Zenon DEF Longer

\* The next aggregate of F.
LEMMA AggregatesLonger ==
  ASSUME NEW in, NEW all, AggregatesRead(in, all), in.F \in Seq(Texts), NEW i, i = Len(all) + 1,
         i <= Len(in.F), ~AggregateThrows(in.F[i])
  PROVE  AggregatesRead(in, Append(all, Aggregate(in.F[i]))) /\ Len(Append(all, Aggregate(in.F[i]))) = i
<1> DEFINE F == in.F
           e == Aggregate(F[i])
           z == Append(all, e)
<1>1. all \in Seq(AggregateObjects) /\ Len(all) \in Nat /\ Len(F) \in Nat /\ i \in Nat /\ i \in 1 .. Len(F)
       /\ \A j \in 1 .. Len(all) : ~AggregateThrows(F[j]) /\ all[j] = Aggregate(F[j])
  BY DEF AggregatesRead
<1>2. e \in AggregateObjects
  <2>1. F[i] \in Seq(Token)
    BY <1>1 DEF Texts
  <2> QED
    BY <2>1, AggregateTyped
<1> HIDE DEF e
<1>3. Longer(all, e, z, AggregateObjects)
  BY <1>1, <1>2, Appended
<1> HIDE DEF z, F
<1>4. z \in Seq(AggregateObjects) /\ Len(z) = i /\ z[i] = e /\ \A j \in 1 .. Len(all) : z[j] = all[j]
  BY <1>3 DEF Longer
<1>5. ASSUME NEW j \in 1 .. Len(z) PROVE ~AggregateThrows(F[j]) /\ z[j] = Aggregate(F[j])
  <2>1. j \in 1 .. Len(all) \/ j = i
    BY <1>1, <1>4
  <2>2. ~AggregateThrows(F[i]) /\ z[i] = Aggregate(F[i])
    BY <1>4 DEF e, F
  <2> QED
    BY <2>1, <2>2, <1>1, <1>4
<1>6. Len(z) <= Len(F)
  BY <1>1, <1>4
<1>7. AggregatesRead(in, z)
  BY <1>4, <1>5, <1>6 DEF AggregatesRead, F
<1> QED
  BY <1>4, <1>7 DEF z, e, F

\* The ranks of a set of numbers when one more number is counted.
LEMMA UpNext ==
  ASSUME NEW S, S \subseteq Nat, IsFiniteSet(S), NEW m \in Nat
  PROVE  /\ m + 1 \notin S => Up(S, m + 1) = Up(S, m)
         /\ m + 1 \in S => /\ Cardinality(Up(S, m + 1)) = Cardinality(Up(S, m)) + 1
                           /\ Nth(S, Cardinality(Up(S, m)) + 1) = m + 1
<1>1. \A q \in S : q \in Nat /\ (q <= m + 1 <=> (q <= m \/ q = m + 1))
  OBVIOUS
<1>2. ASSUME m + 1 \notin S PROVE Up(S, m + 1) = Up(S, m)
  BY <1>1, <1>2 DEF Up
<1>3. ASSUME m + 1 \in S PROVE /\ Cardinality(Up(S, m + 1)) = Cardinality(Up(S, m)) + 1
                               /\ Nth(S, Cardinality(Up(S, m)) + 1) = m + 1
  <2> DEFINE q == m + 1
  <2>0. ~(q <= m)
    OBVIOUS
  <2>1. Up(S, q) = Up(S, m) \cup {q} /\ q \notin Up(S, m)
    BY <1>1, <1>3, <2>0 DEF Up
  <2> HIDE DEF q
  <2>2. IsFiniteSet(Up(S, m))
    BY UpFacts
  <2>3. Cardinality(Up(S, q)) = Cardinality(Up(S, m)) + 1
    BY <2>1, <2>2, FS_AddElement
  <2>4. Nth(S, Cardinality(Up(S, q))) = q
    <3>1. q \in S
      BY <1>3 DEF q
    <3> QED
      BY <3>1, NthFacts
  <2> QED
    BY <2>3, <2>4 DEF q
<1> QED
  BY <1>2, <1>3

\* The names of S.
LEMMA NamesOfS ==
  ASSUME NEW in, in.S \in Seq(Texts)
  PROVE  /\ NamesIn(in) \subseteq Nat \ {0} /\ NamesIn(in) \subseteq Nat /\ IsFiniteSet(NamesIn(in))
         /\ NamesIn(in) \subseteq 1 .. Len(in.S)
         /\ ColumnsIn(in) \subseteq Nat \ {0} /\ ColumnsIn(in) \subseteq Nat /\ IsFiniteSet(ColumnsIn(in))
         /\ ColumnsIn(in) \subseteq 1 .. Len(in.S)
         /\ \A j \in 1 .. Len(in.S) : /\ j \in NamesIn(in) <=> isAggregate(in.S[j])
                                      /\ j \in ColumnsIn(in) <=> ~isAggregate(in.S[j])
<1> DEFINE n == Len(in.S)
<1>1. n \in Nat /\ DOMAIN in.S = 1 .. n
  OBVIOUS
<1>2. NamesIn(in) \subseteq 1 .. n /\ ColumnsIn(in) \subseteq 1 .. n
       /\ \A j \in 1 .. n : (j \in NamesIn(in) <=> isAggregate(in.S[j])) /\ (j \in ColumnsIn(in) <=> ~isAggregate(in.S[j]))
  BY <1>1, Zenon DEF NamesIn, ColumnsIn
<1> HIDE DEF n
<1>3. IsFiniteSet(NamesIn(in)) /\ IsFiniteSet(ColumnsIn(in)) /\ NamesIn(in) \subseteq Nat /\ ColumnsIn(in) \subseteq Nat
  BY <1>1, <1>2, AllUpToLen
<1>4. NamesIn(in) \subseteq Nat \ {0} /\ ColumnsIn(in) \subseteq Nat \ {0}
  BY <1>1, <1>2
<1> QED
  BY <1>2, <1>3, <1>4 DEF n

\* One more name of S: an aggregate.
LEMMA NamesLonger ==
  ASSUME NEW in, in.S \in Seq(Texts), NEW ags \in Seq(AggregateObjects), NEW m \in Nat, NEW i,
         i = m + 1, i <= Len(in.S), SelectedNames(in, m, ags)
  PROVE  /\ isAggregate(in.S[i]) /\ ~AggregateThrows(in.S[i]) =>
              /\ SelectedNames(in, i, Append(ags, Aggregate(in.S[i])))
              /\ Append(ags, Aggregate(in.S[i])) \in Seq(AggregateObjects)
         /\ ~isAggregate(in.S[i]) => SelectedNames(in, i, ags)
<1> DEFINE S == in.S
           N == NamesIn(in)
           e == Aggregate(S[i])
           z == Append(ags, e)
<1>0. N \subseteq Nat /\ IsFiniteSet(N) /\ \A j \in 1 .. Len(S) : j \in N <=> isAggregate(S[j])
  BY NamesOfS
<1>1. i \in 1 .. Len(S) /\ Len(ags) \in Nat /\ Len(S) \in Nat
  OBVIOUS
<1>2. /\ Len(ags) = Cardinality(Up(N, m))
      /\ \A r \in 1 .. Len(ags) : ~AggregateThrows(S[Nth(N, r)]) /\ ags[r] = Aggregate(S[Nth(N, r)])
  BY DEF SelectedNames
<1> HIDE DEF N
<1>3. ASSUME ~isAggregate(S[i]) PROVE SelectedNames(in, i, ags)
  <2>1. Up(N, m + 1) = Up(N, m)
    <3>1. m + 1 \notin N
      BY <1>0, <1>1, <1>3
    <3> QED
      BY <3>1, <1>0, UpNext
  <2> QED
    BY <1>2, <2>1 DEF SelectedNames, N
<1>4. ASSUME isAggregate(S[i]), ~AggregateThrows(S[i]) PROVE SelectedNames(in, i, z) /\ z \in Seq(AggregateObjects)
  <2>1. Cardinality(Up(N, m + 1)) = Cardinality(Up(N, m)) + 1 /\ Nth(N, Cardinality(Up(N, m)) + 1) = m + 1
    <3>1. m + 1 \in N
      BY <1>0, <1>1, <1>4
    <3> QED
      BY <3>1, <1>0, UpNext
  <2>2. e \in AggregateObjects
    <3>1. S[i] \in Seq(Token)
      BY <1>1 DEF Texts
    <3> QED
      BY <3>1, <1>4, AggregateTyped
  <2> HIDE DEF e
  <2>3. Longer(ags, e, z, AggregateObjects)
    BY <2>2, Appended
  <2> HIDE DEF z, S
  <2>4. z \in Seq(AggregateObjects) /\ Len(z) = Len(ags) + 1 /\ z[Len(ags) + 1] = e /\ \A j \in 1 .. Len(ags) : z[j] = ags[j]
    BY <2>3 DEF Longer
  <2>5. Len(z) = Cardinality(Up(N, i)) /\ Nth(N, Len(ags) + 1) = i
    BY <1>2, <2>1, <2>4
  <2>6. ASSUME NEW r \in 1 .. Len(z) PROVE ~AggregateThrows(S[Nth(N, r)]) /\ z[r] = Aggregate(S[Nth(N, r)])
    <3>1. r \in 1 .. Len(ags) \/ r = Len(ags) + 1
      BY <1>1, <2>4
    <3>2. CASE r \in 1 .. Len(ags)
      BY <3>2, <1>2, <2>4
    <3>3. CASE r = Len(ags) + 1
      BY <3>3, <2>4, <2>5, <1>4 DEF e
    <3> QED
      BY <3>1, <3>2, <3>3
  <2> QED
    BY <2>4, <2>5, <2>6 DEF SelectedNames, N, S
<1> QED
  BY <1>3, <1>4 DEF S, z, e

\* Or a column.
LEMMA ColumnsLonger ==
  ASSUME NEW in, in.S \in Seq(Texts), NEW cols \in Seq(Texts), NEW m \in Nat, NEW i,
         i = m + 1, i <= Len(in.S), SelectedColumns(in, m, cols)
  PROVE  /\ ~isAggregate(in.S[i]) => /\ SelectedColumns(in, i, Append(cols, in.S[i]))
                                     /\ Append(cols, in.S[i]) \in Seq(Texts)
         /\ isAggregate(in.S[i]) => SelectedColumns(in, i, cols)
<1> DEFINE S == in.S
           N == ColumnsIn(in)
           e == S[i]
           z == Append(cols, e)
<1>0. N \subseteq Nat /\ IsFiniteSet(N) /\ \A j \in 1 .. Len(S) : j \in N <=> ~isAggregate(S[j])
  BY NamesOfS
<1>1. i \in 1 .. Len(S) /\ Len(cols) \in Nat /\ Len(S) \in Nat
  OBVIOUS
<1>2. /\ Len(cols) = Cardinality(Up(N, m))
      /\ \A r \in 1 .. Len(cols) : cols[r] = S[Nth(N, r)]
  BY DEF SelectedColumns
<1> HIDE DEF N
<1>3. ASSUME isAggregate(S[i]) PROVE SelectedColumns(in, i, cols)
  <2>1. Up(N, m + 1) = Up(N, m)
    <3>1. m + 1 \notin N
      BY <1>0, <1>1, <1>3
    <3> QED
      BY <3>1, <1>0, UpNext
  <2> QED
    BY <1>2, <2>1 DEF SelectedColumns, N
<1>4. ASSUME ~isAggregate(S[i]) PROVE SelectedColumns(in, i, z) /\ z \in Seq(Texts)
  <2>1. Cardinality(Up(N, m + 1)) = Cardinality(Up(N, m)) + 1 /\ Nth(N, Cardinality(Up(N, m)) + 1) = m + 1
    <3>1. m + 1 \in N
      BY <1>0, <1>1, <1>4
    <3> QED
      BY <3>1, <1>0, UpNext
  <2>2. e \in Texts
    BY <1>1
  <2> HIDE DEF e
  <2>3. Longer(cols, e, z, Texts)
    BY <2>2, Appended
  <2> HIDE DEF z, S
  <2>4. z \in Seq(Texts) /\ Len(z) = Len(cols) + 1 /\ z[Len(cols) + 1] = e /\ \A j \in 1 .. Len(cols) : z[j] = cols[j]
    BY <2>3 DEF Longer
  <2>5. Len(z) = Cardinality(Up(N, i)) /\ Nth(N, Len(cols) + 1) = i
    BY <1>2, <2>1, <2>4
  <2>6. ASSUME NEW r \in 1 .. Len(z) PROVE z[r] = S[Nth(N, r)]
    <3>1. r \in 1 .. Len(cols) \/ r = Len(cols) + 1
      BY <1>1, <2>4
    <3>2. CASE r \in 1 .. Len(cols)
      BY <3>2, <1>2, <2>4
    <3>3. CASE r = Len(cols) + 1
      BY <3>3, <2>4, <2>5 DEF e
    <3> QED
      BY <3>1, <3>2, <3>3
  <2> QED
    BY <2>4, <2>5, <2>6 DEF SelectedColumns, N, S
<1> QED
  BY <1>3, <1>4 DEF S, z, e

\* The next line.
LEMMA LinesLonger ==
  ASSUME NEW in, in.sigma \in Seq(Texts), NEW lines, LinesRead(in, lines), NEW i, i = Len(lines) + 1,
         i <= Len(in.sigma), ~ConditionsThrow(in.sigma[i])
  PROVE  /\ LinesRead(in, Append(lines, Conditions(in.sigma[i])))
         /\ Len(Append(lines, Conditions(in.sigma[i]))) = i
<1> DEFINE F == in.sigma
           e == Conditions(F[i])
           z == Append(lines, e)
<1>1. lines \in Seq(LineObjects) /\ Len(lines) \in Nat /\ Len(F) \in Nat /\ i \in 1 .. Len(F)
       /\ \A j \in 1 .. Len(lines) : ~ConditionsThrow(F[j]) /\ lines[j] = Conditions(F[j]) /\ Split(lines[j], LineParts(F[j]))
  BY DEF LinesRead
<1>2. F[i] \in Seq(Token)
  BY <1>1 DEF Texts
<1>3. Split(e, LineParts(F[i]))
  BY <1>2, ConditionsSplit
<1>4. e \in LineObjects
  <2> DEFINE C == [j \in DOMAIN ConditionTexts(F[i]) |-> Condition(ConditionTexts(F[i])[j])]
             O == Ops(F[i])
  <2>1. e = [conditions |-> C, ops |-> O]
    BY Zenon DEF Conditions
  <2> HIDE DEF C, O, e
  <2>2. e.conditions \in Seq(ConditionObjects) /\ e.ops \in Seq(Texts)
    BY <1>3 DEF Split
  <2>3. C \in Seq(ConditionObjects) /\ O \in Seq(Texts)
    BY <2>1, <2>2
  <2> QED
    BY <2>1, <2>3 DEF LineObjects
<1> HIDE DEF e
<1>5. Longer(lines, e, z, LineObjects)
  BY <1>1, <1>4, Appended
<1> HIDE DEF z, F
<1>6. z \in Seq(LineObjects) /\ Len(z) = i /\ z[i] = e /\ \A j \in 1 .. Len(lines) : z[j] = lines[j]
  BY <1>5 DEF Longer
<1>7. ASSUME NEW j \in 1 .. Len(z)
      PROVE  ~ConditionsThrow(F[j]) /\ z[j] = Conditions(F[j]) /\ Split(z[j], LineParts(F[j]))
  <2>1. j \in 1 .. Len(lines) \/ j = i
    BY <1>1, <1>6
  <2>2. ~ConditionsThrow(F[i]) /\ z[i] = Conditions(F[i])
    BY <1>6 DEF e, F
  <2> QED
    BY <2>1, <2>2, <1>1, <1>3, <1>6
<1>8. Len(z) <= Len(F)
  BY <1>1, <1>6
<1>9. LinesRead(in, z)
  BY <1>6, <1>7, <1>8 DEF LinesRead, F
<1> QED
  BY <1>6, <1>9 DEF z, e, F

\* The next clause.
LEMMA ClausesLonger ==
  ASSUME NEW in, NEW lines, LinesRead(in, lines), NEW cls, ClausesWritten(lines, cls), NEW i,
         i = Len(cls) + 1, i <= Len(lines), lines[i].conditions # <<>>,
         \A c \in Range(lines[i].conditions) : ~ToCppThrows(c)
  PROVE  /\ ClausesWritten(lines, Append(cls, ClauseToCpp(lines[i])))
         /\ Len(Append(cls, ClauseToCpp(lines[i]))) = i
<1> DEFINE e == ClauseToCpp(lines[i])
           z == Append(cls, e)
<1>1. lines \in Seq(LineObjects) /\ Len(lines) \in Nat /\ Len(cls) \in Nat /\ i \in 1 .. Len(lines)
       /\ cls \in Seq(ClauseObjects)
  BY DEF LinesRead, ClausesWritten
<1>2. \A j \in 1 .. Len(cls) :
       /\ lines[j].conditions # <<>> /\ (\A c \in Range(lines[j].conditions) : ~ToCppThrows(c))
       /\ cls[j] = ClauseToCpp(lines[j]) /\ Joined(cls[j], lines[j])
  BY DEF ClausesWritten
<1>3. e \in ClauseObjects
  <2>1. lines[i] \in LineObjects
    BY <1>1
  <2> QED
    BY <2>1, Zenon DEF ClauseObjects
<1>4. Joined(e, lines[i])
  <2>1. Split(lines[i], LineParts(in.sigma[i]))
    BY <1>1 DEF LinesRead
  <2> QED
    BY <2>1, ClauseJoined, Zenon
<1> HIDE DEF e
<1>5. Longer(cls, e, z, ClauseObjects)
  BY <1>1, <1>3, Appended
<1> HIDE DEF z
<1>6. z \in Seq(ClauseObjects) /\ Len(z) = i /\ z[i] = e /\ \A j \in 1 .. Len(cls) : z[j] = cls[j]
  BY <1>5 DEF Longer
<1>7. ASSUME NEW j \in 1 .. Len(z)
      PROVE  /\ lines[j].conditions # <<>> /\ (\A c \in Range(lines[j].conditions) : ~ToCppThrows(c))
             /\ z[j] = ClauseToCpp(lines[j]) /\ Joined(z[j], lines[j])
  <2>1. j \in 1 .. Len(cls) \/ j = i
    BY <1>1, <1>6
  <2>2. CASE j \in 1 .. Len(cls)
    BY <2>2, <1>2, <1>6
  <2>3. CASE j = i
    BY <2>3, <1>4, <1>6 DEF e
  <2> QED
    BY <2>1, <2>2, <2>3
<1>8. Len(z) <= Len(lines)
  BY <1>1, <1>6
<1>9. ClausesWritten(lines, z)
  BY <1>6, <1>7, <1>8 DEF ClausesWritten
<1> QED
  BY <1>6, <1>9 DEF z, e

\* The query is one of the inputs.
LEMMA QueryTyped ==
  ASSUME \E queries \in Range(Inputs) : input \in queries
  PROVE  input \in Queries
BY InputAssumption, Zenon DEF Queries

\* Its fields.
LEMMA QueryFields ==
  ASSUME NEW in \in Queries
  PROVE  /\ in.n \in Nat /\ in.F \in Seq(Texts) /\ in.S \in Seq(Texts) /\ in.sigma \in Seq(Texts)
         /\ in.G \in Texts /\ Len(in.F) \in Nat /\ Len(in.S) \in Nat /\ Len(in.sigma) \in Nat
         /\ DOMAIN in.F = 1 .. Len(in.F) /\ DOMAIN in.S = 1 .. Len(in.S)
         /\ DOMAIN in.sigma = 1 .. Len(in.sigma)
<1>1. in.n \in Nat /\ in.F \in Seq(Texts) /\ in.S \in Seq(Texts) /\ in.sigma \in Seq(Texts) /\ in.G \in Texts
  BY DEF Queries
<1> QED
  BY <1>1

\* The phases are different.
LEMMA PhaseFacts ==
  /\ "aggregates" \in Phases \ AggregatesDone /\ "attributes" \in AggregatesDone \ AttributesDone
  /\ "conditions" \in AttributesDone \ ConditionsDone /\ "scans" \in ConditionsDone \ ScansDone
  /\ "having" \in ScansDone \ HavingDone /\ "generated" \in HavingDone /\ "accepted" \in HavingDone
  /\ "refused" \in HavingDone /\ "aborted" \in Phases \ AggregatesDone
  /\ HavingDone \subseteq ScansDone /\ ScansDone \subseteq ConditionsDone
  /\ ConditionsDone \subseteq AttributesDone /\ AttributesDone \subseteq AggregatesDone
  /\ AggregatesDone \subseteq Phases
BY DEF Phases, AggregatesDone, AttributesDone, ConditionsDone, ScansDone, HavingDone, Ended

\* Nothing has been read at first.
LEMMA InitInv == Init => Inv
<1> SUFFICES ASSUME Init PROVE Inv
  OBVIOUS
<1>1. /\ pc = "aggregates" /\ k = 1 /\ all_aggregates = <<>> /\ select_columns = <<>>
      /\ select_aggregates = <<>> /\ select_conditions = <<>> /\ clauses = <<>>
  BY DEF Init
<1>2. input \in Queries
  <2>1. \E queries \in Range(Inputs) : input \in queries
    BY DEF Init
  <2> QED
    BY <2>1, QueryTyped, Zenon
<1>3. InvPhase
  BY <1>1, <1>2, PhaseFacts DEF InvPhase
<1>4. /\ input.n \in Nat /\ input.S \in Seq(Texts) /\ Len(input.F) \in Nat /\ Len(input.sigma) \in Nat
  BY <1>2, QueryFields
<1>5. Len(<<>>) = 0 /\ \A T : <<>> \in Seq(T)
  OBVIOUS
<1>6. ~("aggregates" \in AggregatesDone) /\ ~("aggregates" \in AttributesDone) /\ ~("aggregates" \in ConditionsDone)
       /\ ~("aggregates" \in ScansDone) /\ ~("aggregates" \in HavingDone)
  BY PhaseFacts
<1>7. InvAggregates
  <2>1. AggregatesRead(input, all_aggregates)
    BY <1>1, <1>4, <1>5 DEF AggregatesRead
  <2>2. Len(all_aggregates) = k - 1
    BY <1>1, <1>5
  <2> QED
    BY <1>1, <1>6, <2>1, <2>2 DEF InvAggregates
<1>8. InvNames
  <2>1. Cardinality(Up(NamesIn(input), 0)) = 0
    BY <1>4, NamesOfS, NoneUpToZero
  <2>2. SelectedNames(input, 0, select_aggregates)
    BY <1>1, <1>5, <2>1 DEF SelectedNames
  <2> QED
    BY <1>1, <1>5, <1>6, <2>2 DEF InvNames
<1>9. InvColumns
  <2>1. Cardinality(Up(ColumnsIn(input), 0)) = 0
    BY <1>4, NamesOfS, NoneUpToZero
  <2>2. SelectedColumns(input, 0, select_columns)
    BY <1>1, <1>5, <2>1 DEF SelectedColumns
  <2> QED
    BY <1>1, <1>5, <1>6, <2>2 DEF InvColumns
<1>10. InvLines
  <2>1. LinesRead(input, select_conditions)
    BY <1>1, <1>4, <1>5 DEF LinesRead
  <2> QED
    BY <1>1, <1>5, <1>6, <2>1 DEF InvLines
<1>11. InvClauses
  <2>1. ClausesWritten(select_conditions, clauses)
    BY <1>1, <1>5 DEF ClausesWritten
  <2>2. Len(clauses) = 0 /\ 0 <= input.n
    BY <1>1, <1>4, <1>5
  <2> QED
    BY <1>1, <1>6, <2>1, <2>2 DEF InvClauses
<1>12. InvEnd
  BY <1>1, <1>6 DEF InvEnd
<1> QED
  BY <1>3, <1>7, <1>8, <1>9, <1>10, <1>11, <1>12 DEF Inv

\* g++'s verdict is about what is generated, not about where the program is.
LEMMA SameVerdict ==
  ASSUME UNCHANGED <<input, all_aggregates, select_columns, select_aggregates, clauses, having>>
  PROVE  Compiles' <=> Compiles
<1>0. /\ input' = input /\ all_aggregates' = all_aggregates /\ select_columns' = select_columns
      /\ select_aggregates' = select_aggregates /\ clauses' = clauses /\ having' = having
  OBVIOUS
<1>1. \A f, c : FieldCompiles(f, c)' <=> FieldCompiles(f, c)
  BY <1>0, Zenon DEF FieldCompiles
<1>2. NamesCompile' <=> NamesCompile
  BY <1>0, Zenon DEF NamesCompile
<1>3. Seen' = Seen
  BY <1>0, Zenon DEF Seen, SeenParts
<1>4. HavingCompiles' <=> HavingCompiles
  BY <1>0, <1>1, <1>3, Zenon DEF HavingCompiles
<1>5. \A c : ConditionCompiles(c)' <=> ConditionCompiles(c)
  <2> SUFFICES ASSUME NEW c PROVE ConditionCompiles(c)' <=> ConditionCompiles(c)
    OBVIOUS
  <2>1. FieldCompiles(Field(Aggregate(c.value)), c.call)' <=> FieldCompiles(Field(Aggregate(c.value)), c.call)
    BY <1>1, Zenon
  <2> QED
    BY <1>0, <2>1, Zenon DEF ConditionCompiles
<1>6. \A cl : ClauseCompiles(cl)' <=> ClauseCompiles(cl)
  BY <1>5, Zenon DEF ClauseCompiles
<1>7. (\A i \in DOMAIN clauses : ClauseCompiles(clauses[i]))' <=> (\A i \in DOMAIN clauses : ClauseCompiles(clauses[i]))
  BY <1>0, <1>6, Zenon
<1> QED
  BY <1>2, <1>4, <1>7, Zenon DEF Compiles

\* And why a query is not readable is a matter of the query.
LEMMA SameReason ==
  ASSUME input' = input PROVE Unreadable' <=> Unreadable
<1>1. HavingThrows' <=> HavingThrows
  BY Zenon DEF HavingThrows, HavingParts
<1> QED
  BY <1>1, Zenon DEF Unreadable

\* Each step keeps the invariant.
LEMMA GetAggregateInv == ASSUME Inv, GetAggregate PROVE Inv'
<1>0. /\ pc = "aggregates" /\ pc' = "aggregates" /\ k <= Len(input.F) /\ ~AggregateThrows(input.F[k])
      /\ all_aggregates' = Append(all_aggregates, Aggregate(input.F[k])) /\ k' = k + 1 /\ input' = input
      /\ select_columns' = select_columns /\ select_aggregates' = select_aggregates
      /\ select_conditions' = select_conditions /\ clauses' = clauses /\ having' = having
  BY DEF GetAggregate
<1>1. InvPhase /\ InvAggregates /\ InvNames /\ InvColumns /\ InvLines /\ InvClauses
  BY DEF Inv
<1>2. input \in Queries /\ k \in Nat /\ 1 <= k
  BY <1>1 DEF InvPhase
<1>3. ~("aggregates" \in AggregatesDone) /\ ~("aggregates" \in AttributesDone) /\ ~("aggregates" \in ConditionsDone)
       /\ ~("aggregates" \in ScansDone) /\ ~("aggregates" \in HavingDone) /\ "aggregates" \in Phases
  BY PhaseFacts
<1>4. InvPhase'
  BY <1>0, <1>2, <1>3 DEF InvPhase
<1>5. InvAggregates'
  <2>1. AggregatesRead(input, all_aggregates) /\ Len(all_aggregates) = k - 1
    BY <1>0, <1>1 DEF InvAggregates
  <2>2. k = Len(all_aggregates) + 1
    BY <2>1, <1>2
  <2>3. input.F \in Seq(Texts)
    BY <1>2, QueryFields
  <2>4. AggregatesRead(input, all_aggregates') /\ Len(all_aggregates') = k
    BY <1>0, <2>1, <2>2, <2>3, AggregatesLonger
  <2>5. k = k' - 1
    BY <1>0, <1>2
  <2> QED
    BY <1>0, <1>3, <2>4, <2>5, Zenon DEF InvAggregates
<1>6. InvNames'
  BY <1>0, <1>1, <1>3, Zenon DEF InvNames
<1>7. InvColumns'
  BY <1>0, <1>1, <1>3, Zenon DEF InvColumns
<1>8. InvLines'
  BY <1>0, <1>1, <1>3 DEF InvLines
<1>9. InvClauses'
  BY <1>0, <1>1, <1>3 DEF InvClauses
<1>10. InvEnd'
  BY <1>0, <1>3 DEF InvEnd
<1> QED
  BY <1>4, <1>5, <1>6, <1>7, <1>8, <1>9, <1>10 DEF Inv

\* One more name of S.
LEMMA SelectAttributeInv == ASSUME Inv, SelectAttribute PROVE Inv'
<1>0. /\ pc = "attributes" /\ pc' = "attributes" /\ k <= Len(input.S) /\ k' = k + 1 /\ input' = input
      /\ all_aggregates' = all_aggregates
      /\ select_conditions' = select_conditions /\ clauses' = clauses /\ having' = having
  BY DEF SelectAttribute
<1>0a. \/ /\ isAggregate(input.S[k]) /\ ~AggregateThrows(input.S[k]) /\ select_columns' = select_columns
          /\ select_aggregates' = Append(select_aggregates, Aggregate(input.S[k]))
       \/ /\ ~isAggregate(input.S[k]) /\ select_aggregates' = select_aggregates
          /\ select_columns' = Append(select_columns, input.S[k])
  BY DEF SelectAttribute
<1>1. InvPhase /\ InvAggregates /\ InvNames /\ InvColumns /\ InvLines /\ InvClauses
  BY DEF Inv
<1>2. input \in Queries /\ k \in Nat /\ 1 <= k
  BY <1>1 DEF InvPhase
<1>3. "attributes" \in AggregatesDone /\ ~("attributes" \in AttributesDone) /\ ~("attributes" \in ConditionsDone)
       /\ ~("attributes" \in ScansDone) /\ ~("attributes" \in HavingDone) /\ "attributes" \in Phases
  BY PhaseFacts
<1>4. InvPhase'
  BY <1>0, <1>2, <1>3 DEF InvPhase
<1>5. InvAggregates'
  BY <1>0, <1>1, <1>3 DEF InvAggregates
<1> DEFINE m == k - 1
<1>6. input.S \in Seq(Texts) /\ m \in Nat /\ k = m + 1 /\ k' - 1 = k /\ Len(input.S) \in Nat
  <2>1. input.S \in Seq(Texts) /\ Len(input.S) \in Nat
    BY <1>2, QueryFields
  <2>2. m \in Nat /\ k = m + 1 /\ k' - 1 = k
    BY <1>0, <1>2
  <2> QED
    BY <2>1, <2>2
<1>7. /\ select_aggregates \in Seq(AggregateObjects) /\ SelectedNames(input, m, select_aggregates)
      /\ select_columns \in Seq(Texts) /\ SelectedColumns(input, m, select_columns)
  BY <1>0, <1>1, Zenon DEF InvNames, InvColumns
<1> HIDE DEF m
<1>8. /\ isAggregate(input.S[k]) /\ ~AggregateThrows(input.S[k]) =>
              /\ SelectedNames(input, k, Append(select_aggregates, Aggregate(input.S[k])))
              /\ Append(select_aggregates, Aggregate(input.S[k])) \in Seq(AggregateObjects)
      /\ ~isAggregate(input.S[k]) => SelectedNames(input, k, select_aggregates)
  BY <1>0, <1>6, <1>7, NamesLonger
<1>9. /\ ~isAggregate(input.S[k]) => /\ SelectedColumns(input, k, Append(select_columns, input.S[k]))
                                     /\ Append(select_columns, input.S[k]) \in Seq(Texts)
      /\ isAggregate(input.S[k]) => SelectedColumns(input, k, select_columns)
  BY <1>0, <1>6, <1>7, ColumnsLonger
<1>10. /\ SelectedNames(input, k, select_aggregates') /\ select_aggregates' \in Seq(AggregateObjects)
       /\ SelectedColumns(input, k, select_columns') /\ select_columns' \in Seq(Texts)
  BY <1>0a, <1>7, <1>8, <1>9, Zenon
<1>11. InvNames'
  <2>1. k' <= Len(input.S) + 1
    BY <1>0, <1>2, <1>6
  <2> QED
    BY <1>0, <1>3, <1>6, <1>10, <2>1, Zenon DEF InvNames
<1>12. InvColumns'
  BY <1>0, <1>3, <1>6, <1>10, Zenon DEF InvColumns
<1>13. InvLines'
  BY <1>0, <1>1, <1>3 DEF InvLines
<1>14. InvClauses'
  BY <1>0, <1>1, <1>3 DEF InvClauses
<1>15. InvEnd'
  BY <1>0, <1>3 DEF InvEnd
<1> QED
  BY <1>4, <1>5, <1>11, <1>12, <1>13, <1>14, <1>15 DEF Inv

\* One more line.
LEMMA GetConditionsInv == ASSUME Inv, GetConditions PROVE Inv'
<1>0. /\ pc = "conditions" /\ pc' = "conditions" /\ k <= Len(input.sigma) /\ ~ConditionsThrow(input.sigma[k])
      /\ select_conditions' = Append(select_conditions, Conditions(input.sigma[k])) /\ k' = k + 1 /\ input' = input
      /\ select_columns' = select_columns /\ select_aggregates' = select_aggregates
      /\ all_aggregates' = all_aggregates /\ clauses' = clauses /\ having' = having
  BY DEF GetConditions
<1>1. InvPhase /\ InvAggregates /\ InvNames /\ InvColumns /\ InvLines /\ InvClauses
  BY DEF Inv
<1>2. input \in Queries /\ k \in Nat /\ 1 <= k
  BY <1>1 DEF InvPhase
<1>3. "conditions" \in AggregatesDone /\ "conditions" \in AttributesDone /\ ~("conditions" \in ConditionsDone)
       /\ ~("conditions" \in ScansDone) /\ ~("conditions" \in HavingDone) /\ "conditions" \in Phases
  BY PhaseFacts
<1>4. InvPhase'
  BY <1>0, <1>2, <1>3 DEF InvPhase
<1>5. InvAggregates'
  BY <1>0, <1>1, <1>3 DEF InvAggregates
<1>6. InvNames'
  BY <1>0, <1>1, <1>3, Zenon DEF InvNames
<1>7. InvColumns'
  BY <1>0, <1>1, <1>3, Zenon DEF InvColumns
<1>8. LinesRead(input, select_conditions) /\ Len(select_conditions) = k - 1
  BY <1>0, <1>1 DEF InvLines
<1>9. LinesRead(input, select_conditions') /\ Len(select_conditions') = k
  <2>1. k = Len(select_conditions) + 1
    BY <1>8, <1>2
  <2>2. input.sigma \in Seq(Texts)
    BY <1>2, QueryFields
  <2> QED
    BY <1>0, <1>8, <2>1, <2>2, LinesLonger
<1>10. InvLines'
  <2>1. k = k' - 1
    BY <1>0, <1>2
  <2> QED
    BY <1>0, <1>3, <1>9, <2>1, Zenon DEF InvLines
<1>11. InvClauses'
  <2>1. ClausesWritten(select_conditions, clauses) /\ Len(clauses) = 0 /\ Len(clauses) <= input.n
    BY <1>0, <1>1 DEF InvClauses
  <2>2. ClausesWritten(select_conditions', clauses)
    <3>1. clauses \in Seq(ClauseObjects) /\ 0 <= Len(select_conditions')
      BY <2>1, <1>9, <1>2 DEF ClausesWritten
    <3> QED
      BY <3>1, <2>1 DEF ClausesWritten
  <2> QED
    BY <1>0, <1>3, <2>1, <2>2, Zenon DEF InvClauses
<1>12. InvEnd'
  BY <1>0, <1>3 DEF InvEnd
<1> QED
  BY <1>4, <1>5, <1>6, <1>7, <1>10, <1>11, <1>12 DEF Inv

\* One more clause.
LEMMA GetSelectionCondInv == ASSUME Inv, GetSelectionCond PROVE Inv'
<1>0. /\ pc = "scans" /\ pc' = "scans" /\ k <= input.n /\ ClauseExists
      /\ (\A c \in Range(select_conditions[k].conditions) : ~ToCppThrows(c))
      /\ clauses' = Append(clauses, ClauseToCpp(select_conditions[k])) /\ k' = k + 1 /\ input' = input
      /\ select_columns' = select_columns /\ select_aggregates' = select_aggregates
      /\ all_aggregates' = all_aggregates /\ select_conditions' = select_conditions /\ having' = having
  BY DEF GetSelectionCond
<1>1. InvPhase /\ InvAggregates /\ InvNames /\ InvColumns /\ InvLines /\ InvClauses
  BY DEF Inv
<1>2. input \in Queries /\ k \in Nat /\ 1 <= k
  BY <1>1 DEF InvPhase
<1>3. "scans" \in AggregatesDone /\ "scans" \in AttributesDone /\ "scans" \in ConditionsDone
       /\ ~("scans" \in ScansDone) /\ ~("scans" \in HavingDone) /\ "scans" \in Phases
  BY PhaseFacts
<1>4. InvPhase'
  BY <1>0, <1>2, <1>3 DEF InvPhase
<1>5. InvAggregates'
  BY <1>0, <1>1, <1>3 DEF InvAggregates
<1>6. InvNames'
  BY <1>0, <1>1, <1>3, Zenon DEF InvNames
<1>7. InvColumns'
  BY <1>0, <1>1, <1>3, Zenon DEF InvColumns
<1>8. InvLines'
  BY <1>0, <1>1, <1>3 DEF InvLines
<1>9. ClausesWritten(select_conditions, clauses) /\ Len(clauses) = k - 1
  BY <1>0, <1>1 DEF InvClauses
<1>10. ClausesWritten(select_conditions, clauses') /\ Len(clauses') = k
  <2>1. k = Len(clauses) + 1
    BY <1>9, <1>2
  <2>2. LinesRead(input, select_conditions)
    BY <1>1 DEF InvLines
  <2>3. k <= Len(select_conditions) /\ select_conditions[k].conditions # <<>>
    BY <1>0 DEF ClauseExists
  <2> QED
    BY <1>0, <1>9, <2>1, <2>2, <2>3, ClausesLonger
<1>11. InvClauses'
  <2>1. k = k' - 1
    BY <1>0, <1>2
  <2> QED
    BY <1>0, <1>3, <1>10, <2>1 DEF InvClauses
<1>12. InvEnd'
  BY <1>0, <1>3 DEF InvEnd
<1> QED
  BY <1>4, <1>5, <1>6, <1>7, <1>8, <1>11, <1>12 DEF Inv

\* The end of a loop.
LEMMA LoopEndInv == ASSUME Inv, LoopEnd PROVE Inv'
<1>0. /\ k' = 1 /\ input' = input
      /\ select_columns' = select_columns /\ select_aggregates' = select_aggregates
      /\ all_aggregates' = all_aggregates /\ select_conditions' = select_conditions
      /\ clauses' = clauses /\ having' = having
  BY DEF LoopEnd
<1>1. InvPhase /\ InvAggregates /\ InvNames /\ InvColumns /\ InvLines /\ InvClauses
  BY DEF Inv
<1>2. input \in Queries /\ k \in Nat /\ 1 <= k
  BY <1>1 DEF InvPhase
<1>2a. /\ Len(input.F) \in Nat /\ Len(input.S) \in Nat /\ Len(input.sigma) \in Nat /\ input.n \in Nat
       /\ input.S \in Seq(Texts)
  BY <1>2, QueryFields
<1>3. AggregatesRead(input, all_aggregates) /\ Len(all_aggregates) \in Nat /\ Len(all_aggregates) <= Len(input.F)
  BY <1>1 DEF InvAggregates, AggregatesRead
<1>4. LinesRead(input, select_conditions) /\ Len(select_conditions) \in Nat /\ Len(select_conditions) <= Len(input.sigma)
  BY <1>1 DEF InvLines, LinesRead
<1>5. ClausesWritten(select_conditions, clauses) /\ Len(clauses) \in Nat /\ Len(clauses) <= input.n
  BY <1>1 DEF InvClauses, ClausesWritten
<1>6. GroupsFit' <=> GroupsFit
  BY <1>0, Zenon DEF GroupsFit
<1>7. k' - 1 = 0
  BY <1>0
<1>8. CASE pc = "aggregates" /\ k > Len(input.F) /\ pc' = "attributes"
  <2>1. "attributes" \in AggregatesDone /\ ~("attributes" \in AttributesDone) /\ ~("attributes" \in ConditionsDone)
         /\ ~("attributes" \in ScansDone) /\ ~("attributes" \in HavingDone) /\ "attributes" \in Phases
    BY PhaseFacts
  <2>2. Len(all_aggregates) = Len(input.F)
    <3>1. Len(all_aggregates) = k - 1
      BY <1>1, <1>8 DEF InvAggregates
    <3> QED
      BY <3>1, <1>2, <1>2a, <1>3, <1>8
  <2>3. InvPhase' /\ InvAggregates'
    BY <1>0, <1>2, <1>3, <1>8, <2>1, <2>2 DEF InvPhase, InvAggregates
  <2>4. InvNames'
    <3>1. SelectedNames(input, 0, select_aggregates) /\ select_aggregates \in Seq(AggregateObjects)
      BY <1>1, <1>8, Zenon DEF InvNames
    <3>2. k' <= Len(input.S) + 1
      BY <1>0, <1>2a
    <3> QED
      BY <1>0, <1>7, <1>8, <2>1, <3>1, <3>2, Zenon DEF InvNames
  <2>5. InvColumns'
    <3>1. SelectedColumns(input, 0, select_columns) /\ select_columns \in Seq(Texts)
      BY <1>1, <1>8, Zenon DEF InvColumns
    <3> QED
      BY <1>0, <1>7, <1>8, <2>1, <3>1, Zenon DEF InvColumns
  <2>6. InvLines' /\ InvClauses'
    BY <1>0, <1>1, <1>8, <2>1 DEF InvLines, InvClauses
  <2>7. InvEnd'
    BY <1>8, <2>1 DEF InvEnd
  <2> QED
    BY <2>3, <2>4, <2>5, <2>6, <2>7 DEF Inv
<1>9. CASE pc = "attributes" /\ k > Len(input.S) /\ pc' = "conditions"
  <2>1. "conditions" \in AggregatesDone /\ "conditions" \in AttributesDone /\ ~("conditions" \in ConditionsDone)
         /\ ~("conditions" \in ScansDone) /\ ~("conditions" \in HavingDone) /\ "conditions" \in Phases
         /\ "attributes" \in AggregatesDone
    BY PhaseFacts
  <2>2. InvPhase' /\ InvAggregates'
    BY <1>0, <1>1, <1>2, <1>9, <2>1 DEF InvPhase, InvAggregates
  <2>3. k <= Len(input.S) + 1
    BY <1>1, <1>9 DEF InvNames
  <2>4. k - 1 = Len(input.S)
    BY <2>3, <1>9, <1>2, <1>2a
  <2>5. InvNames'
    <3>1. SelectedNames(input, k - 1, select_aggregates) /\ select_aggregates \in Seq(AggregateObjects)
      BY <1>1, <1>9, Zenon DEF InvNames
    <3> QED
      BY <1>0, <1>9, <2>1, <2>4, <3>1, Zenon DEF InvNames
  <2>6. InvColumns'
    <3>1. SelectedColumns(input, k - 1, select_columns) /\ select_columns \in Seq(Texts)
      BY <1>1, <1>9, Zenon DEF InvColumns
    <3> QED
      BY <1>0, <1>9, <2>1, <2>4, <3>1, Zenon DEF InvColumns
  <2>7. InvLines' /\ InvClauses'
    BY <1>0, <1>1, <1>7, <1>9, <2>1 DEF InvLines, InvClauses
  <2>8. InvEnd'
    BY <1>9, <2>1 DEF InvEnd
  <2> QED
    BY <2>2, <2>5, <2>6, <2>7, <2>8 DEF Inv
<1>10. CASE pc = "conditions" /\ k > Len(input.sigma) /\ pc' = "scans"
  <2>1. "scans" \in AggregatesDone /\ "scans" \in AttributesDone /\ "scans" \in ConditionsDone
         /\ ~("scans" \in ScansDone) /\ ~("scans" \in HavingDone) /\ "scans" \in Phases
         /\ "conditions" \in AggregatesDone /\ "conditions" \in AttributesDone
    BY PhaseFacts
  <2>2. InvPhase' /\ InvAggregates'
    BY <1>0, <1>1, <1>2, <1>10, <2>1 DEF InvPhase, InvAggregates
  <2>3. InvNames' /\ InvColumns'
    BY <1>0, <1>1, <1>10, <2>1, Zenon DEF InvNames, InvColumns
  <2>4. Len(select_conditions) = Len(input.sigma)
    <3>1. Len(select_conditions) = k - 1
      BY <1>1, <1>10 DEF InvLines
    <3> QED
      BY <3>1, <1>2, <1>2a, <1>4, <1>10
  <2>5. InvLines'
    BY <1>0, <1>4, <1>10, <2>1, <2>4, Zenon DEF InvLines
  <2>6. InvClauses'
    <3>1. Len(clauses) = 0
      BY <1>1, <1>10 DEF InvClauses
    <3> QED
      BY <1>0, <1>5, <1>7, <1>10, <2>1, <3>1, Zenon DEF InvClauses
  <2>7. InvEnd'
    BY <1>10, <2>1 DEF InvEnd
  <2> QED
    BY <2>2, <2>3, <2>5, <2>6, <2>7 DEF Inv
<1>11. CASE pc = "scans" /\ k > input.n /\ GroupsFit /\ pc' = "having"
  <2>1. "having" \in AggregatesDone /\ "having" \in AttributesDone /\ "having" \in ConditionsDone
         /\ "having" \in ScansDone /\ ~("having" \in HavingDone) /\ "having" \in Phases
         /\ "scans" \in AggregatesDone /\ "scans" \in AttributesDone /\ "scans" \in ConditionsDone
    BY PhaseFacts
  <2>2. InvPhase'
    BY <1>0, <1>2, <1>11, <2>1 DEF InvPhase
  <2>2a. InvAggregates'
    BY <1>0, <1>1, <1>6, <1>11, <2>1, Zenon DEF InvAggregates
  <2>3. InvNames' /\ InvColumns'
    BY <1>0, <1>1, <1>11, <2>1, Zenon DEF InvNames, InvColumns
  <2>4. InvLines'
    BY <1>0, <1>1, <1>11, <2>1, Zenon DEF InvLines
  <2>5. Len(clauses) = input.n
    <3>1. Len(clauses) = k - 1
      BY <1>1, <1>11 DEF InvClauses
    <3> QED
      BY <3>1, <1>2, <1>2a, <1>5, <1>11
  <2>6. InvClauses'
    BY <1>0, <1>5, <1>11, <2>1, <2>5, Zenon DEF InvClauses
  <2>7. InvEnd'
    BY <1>11, <2>1 DEF InvEnd
  <2> QED
    BY <2>2, <2>2a, <2>3, <2>4, <2>6, <2>7 DEF Inv
<1> QED
  BY <1>8, <1>9, <1>10, <1>11, Zenon DEF LoopEnd

\* What stays when nothing but the phase changes, from a late phase to a later one.
LEMMA LaterInv ==
  ASSUME Inv, pc \in ScansDone, pc' \in ScansDone, k' = k, input' = input,
         all_aggregates' = all_aggregates, select_columns' = select_columns,
         select_aggregates' = select_aggregates, select_conditions' = select_conditions,
         clauses' = clauses
  PROVE  (InvPhase /\ InvAggregates /\ InvNames /\ InvColumns /\ InvLines /\ InvClauses)'
<1>1. InvPhase /\ InvAggregates /\ InvNames /\ InvColumns /\ InvLines /\ InvClauses
  BY DEF Inv
<1>2. \A p \in ScansDone : /\ p \in AggregatesDone /\ p \in AttributesDone /\ p \in ConditionsDone /\ p \in Phases
                           /\ p \notin {"aggregates", "attributes", "conditions"} /\ p # "scans"
  BY DEF Phases, AggregatesDone, AttributesDone, ConditionsDone, ScansDone, HavingDone, Ended
<1>3. InvPhase'
  BY <1>1, <1>2 DEF InvPhase
<1>4. GroupsFit' <=> GroupsFit
  BY Zenon DEF GroupsFit
<1>5. InvAggregates'
  <2>1. GroupsFit /\ AggregatesRead(input, all_aggregates) /\ Len(all_aggregates) = Len(input.F)
    BY <1>1, <1>2, Zenon DEF InvAggregates
  <2>2. pc' # "aggregates"
    BY <1>2
  <2> QED
    BY <1>4, <2>1, <2>2, Zenon DEF InvAggregates
<1>6. InvNames'
  <2>1. select_aggregates \in Seq(AggregateObjects) /\ SelectedNames(input, Len(input.S), select_aggregates)
    BY <1>1, <1>2, Zenon DEF InvNames
  <2>2. pc' # "aggregates" /\ pc' # "attributes"
    BY <1>2
  <2> QED
    BY <2>1, <2>2, Zenon DEF InvNames
<1>7. InvColumns'
  <2>1. select_columns \in Seq(Texts) /\ SelectedColumns(input, Len(input.S), select_columns)
    BY <1>1, <1>2, Zenon DEF InvColumns
  <2>2. pc' # "aggregates" /\ pc' # "attributes"
    BY <1>2
  <2> QED
    BY <2>1, <2>2, Zenon DEF InvColumns
<1>8. InvLines'
  <2>1. LinesRead(input, select_conditions) /\ Len(select_conditions) = Len(input.sigma)
    BY <1>1, <1>2, Zenon DEF InvLines
  <2>2. pc' \notin {"aggregates", "attributes"} /\ pc' # "conditions"
    BY <1>2
  <2> QED
    BY <2>1, <2>2, Zenon DEF InvLines
<1>9. InvClauses'
  <2>1. ClausesWritten(select_conditions, clauses) /\ Len(clauses) <= input.n /\ Len(clauses) = input.n
    BY <1>1, <1>2, Zenon DEF InvClauses
  <2>2. pc' \notin {"aggregates", "attributes", "conditions"} /\ pc' # "scans"
    BY <1>2
  <2> QED
    BY <2>1, <2>2, Zenon DEF InvClauses
<1> QED
  BY <1>3, <1>5, <1>6, <1>7, <1>8, <1>9

\* HAVING is written from the query.
LEMMA ParseHavingInv == ASSUME Inv, ParseHaving PROVE Inv'
<1>0. /\ pc = "having" /\ ~HavingThrows /\ pc' = "generated" /\ k' = k /\ input' = input
      /\ select_columns' = select_columns /\ select_aggregates' = select_aggregates
      /\ all_aggregates' = all_aggregates /\ select_conditions' = select_conditions
      /\ clauses' = clauses
  BY DEF ParseHaving
<1>1. "having" \in ScansDone /\ "generated" \in ScansDone
  BY PhaseFacts
<1>2. (InvPhase /\ InvAggregates /\ InvNames /\ InvColumns /\ InvLines /\ InvClauses)'
  BY <1>0, <1>1, LaterInv, Zenon
<1>3. HavingParts' = HavingParts /\ ~HavingThrows'
  BY <1>0, Zenon DEF HavingParts, HavingThrows
<1>4. having' = IF input.G = <<>> THEN <<>> ELSE [j \in DOMAIN HavingParts |-> HavingItem(HavingParts[j])]
  BY DEF ParseHaving
<1>5. InvEnd'
  BY <1>0, <1>3, <1>4, Zenon DEF InvEnd
<1> QED
  BY <1>2, <1>5, Zenon DEF Inv

\* g++ decides on what has been generated.
LEMMA CompileInv == ASSUME Inv, Compile PROVE Inv'
<1>0. /\ pc = "generated" /\ k' = k /\ input' = input
      /\ select_columns' = select_columns /\ select_aggregates' = select_aggregates
      /\ all_aggregates' = all_aggregates /\ select_conditions' = select_conditions
      /\ clauses' = clauses /\ having' = having
  BY DEF Compile
<1>1. pc' = IF Compiles THEN "accepted" ELSE "refused"
  BY Zenon DEF Compile, Compiles
<1>2. "generated" \in ScansDone /\ "accepted" \in ScansDone /\ "refused" \in ScansDone
       /\ "generated" \in HavingDone
  BY PhaseFacts
<1>3. pc' \in ScansDone
  BY <1>1, <1>2, Zenon
<1>4. (InvPhase /\ InvAggregates /\ InvNames /\ InvColumns /\ InvLines /\ InvClauses)'
  BY <1>0, <1>2, <1>3, LaterInv, Zenon
<1>5. Compiles' <=> Compiles
  BY <1>0, SameVerdict
<1>6. HavingParts' = HavingParts /\ (HavingThrows' <=> HavingThrows)
  BY <1>0, Zenon DEF HavingParts, HavingThrows
<1>7. /\ ~HavingThrows
      /\ having = IF input.G = <<>> THEN <<>>
                  ELSE [j \in DOMAIN HavingParts |-> HavingItem(HavingParts[j])]
  BY <1>0, <1>2, Zenon DEF Inv, InvEnd
<1>8. (pc' = "accepted" => Compiles) /\ (pc' = "refused" => ~Compiles) /\ pc' # "aborted"
  BY <1>1
<1>9. InvEnd'
  BY <1>0, <1>5, <1>6, <1>7, <1>8, Zenon DEF InvEnd
<1> QED
  BY <1>4, <1>9, Zenon DEF Inv

\* The program ends early for a reason only.
LEMMA AbortInv == ASSUME Inv, Abort PROVE Inv'
<1>0. /\ pc' = "aborted" /\ k' = k /\ input' = input
      /\ select_columns' = select_columns /\ select_aggregates' = select_aggregates
      /\ all_aggregates' = all_aggregates /\ select_conditions' = select_conditions
      /\ clauses' = clauses /\ having' = having
  BY DEF Abort
<1>1. InvPhase /\ InvAggregates /\ InvNames /\ InvColumns /\ InvLines /\ InvClauses
  BY DEF Inv
<1>2. ~("aborted" \in AggregatesDone) /\ ~("aborted" \in AttributesDone) /\ ~("aborted" \in ConditionsDone)
       /\ ~("aborted" \in ScansDone) /\ ~("aborted" \in HavingDone) /\ "aborted" \in Phases
       /\ "scans" \in AggregatesDone /\ "scans" \in ConditionsDone
  BY PhaseFacts
<1>3. InvPhase' /\ InvAggregates' /\ InvNames' /\ InvColumns' /\ InvLines' /\ InvClauses'
  BY <1>0, <1>1, <1>2 DEF InvPhase, InvAggregates, InvNames, InvColumns, InvLines, InvClauses
<1>4. input \in Queries /\ k \in Nat /\ 1 <= k
  BY <1>1 DEF InvPhase
<1>5. /\ DOMAIN input.F = 1 .. Len(input.F) /\ DOMAIN input.S = 1 .. Len(input.S)
      /\ DOMAIN input.sigma = 1 .. Len(input.sigma) /\ input.n \in Nat /\ Len(input.sigma) \in Nat
  BY <1>4, QueryFields
<1>6. Unreadable
  <2>1. CASE pc = "aggregates" /\ k <= Len(input.F) /\ AggregateThrows(input.F[k])
    <3>1. k \in DOMAIN input.F
      BY <2>1, <1>4, <1>5
    <3> QED
      BY <2>1, <3>1, Zenon DEF Unreadable
  <2>2. CASE pc = "attributes" /\ k <= Len(input.S) /\ isAggregate(input.S[k]) /\ AggregateThrows(input.S[k])
    <3>1. k \in DOMAIN input.S
      BY <2>2, <1>4, <1>5
    <3> QED
      BY <2>2, <3>1, Zenon DEF Unreadable
  <2>3. CASE pc = "conditions" /\ k <= Len(input.sigma) /\ ConditionsThrow(input.sigma[k])
    <3>1. k \in DOMAIN input.sigma
      BY <2>3, <1>4, <1>5
    <3> QED
      BY <2>3, <3>1, Zenon DEF Unreadable
  <2>4. CASE pc = "scans" /\ ~GroupsFit
    <3>1. AggregatesRead(input, all_aggregates)
      BY <1>1 DEF InvAggregates
    <3>2. PICK a \in Range(all_aggregates) : ~(a.group <= input.n)
      BY <2>4, Zenon DEF GroupsFit
    <3>3. PICK j \in 1 .. Len(all_aggregates) : a = all_aggregates[j]
      BY <3>1, <3>2 DEF Range, AggregatesRead
    <3>4. j \in DOMAIN input.F
      BY <3>1, <1>5 DEF AggregatesRead
    <3>5. ~AggregateThrows(input.F[j]) /\ a = Aggregate(input.F[j])
      BY <3>1, <3>3, Zenon DEF AggregatesRead
    <3> QED
      BY <3>2, <3>4, <3>5, Zenon DEF Unreadable
  <2>5. CASE pc = "scans" /\ k <= input.n
    <3>1. LinesRead(input, select_conditions) /\ Len(select_conditions) = Len(input.sigma)
      BY <2>5, <1>1, <1>2 DEF InvLines
    <3>2. CASE ~(k <= Len(select_conditions))
      <4>1. Len(input.sigma) < input.n
        BY <3>1, <3>2, <2>5, <1>4, <1>5
      <4> QED
        BY <4>1, Zenon DEF Unreadable
    <3>3. CASE k <= Len(select_conditions)
      <4>1. k \in 1 .. Len(select_conditions) /\ k \in DOMAIN input.sigma
        BY <3>1, <3>3, <1>4, <1>5
      <4>2. ~ConditionsThrow(input.sigma[k]) /\ select_conditions[k] = Conditions(input.sigma[k])
        BY <3>1, <4>1, Zenon DEF LinesRead
      <4>3. ASSUME select_conditions[k].conditions = <<>> \/ \E c \in Range(select_conditions[k].conditions) : ToCppThrows(c)
            PROVE  Unreadable
        BY <4>1, <4>2, <4>3, <2>5, Zenon DEF Unreadable
      <4>4. CASE ~ClauseExists
        BY <4>3, <4>4, <3>3, Zenon DEF ClauseExists
      <4>5. CASE ClauseExists
        <5>1. \/ ~GroupsFit \/ \E c \in Range(select_conditions[k].conditions) : ToCppThrows(c)
          BY <2>5, <4>5 DEF Abort
        <5> QED
          BY <5>1, <4>3, <2>4, <2>5, Zenon
      <4> QED
        BY <4>4, <4>5
    <3> QED
      BY <3>2, <3>3
  <2>6. CASE pc = "having" /\ HavingThrows
    BY <2>6, Zenon DEF Unreadable
  <2> QED
    BY <2>1, <2>2, <2>3, <2>4, <2>5, <2>6, Zenon DEF Abort
<1>7. InvEnd'
  <2>1. Unreadable'
    BY <1>0, <1>6, SameReason
  <2> QED
    BY <1>0, <1>2, <2>1 DEF InvEnd
<1> QED
  BY <1>3, <1>7, Zenon DEF Inv

\* Every state parse_query reaches is what the query makes of it: what has been
\* read so far are the objects of the names and lines so far, in their order, and
\* the program is thrown out, accepted or refused for what they are.
THEOREM Invariant == Spec => []Inv
<1>1. ASSUME Inv, [Next]_vars PROVE Inv'
  <2>1. CASE UNCHANGED vars
    <3>0. /\ pc' = pc /\ k' = k /\ input' = input
          /\ select_columns' = select_columns /\ select_aggregates' = select_aggregates
          /\ all_aggregates' = all_aggregates /\ select_conditions' = select_conditions
          /\ clauses' = clauses /\ having' = having
      BY <2>1 DEF vars
    <3>1. (GroupsFit' <=> GroupsFit) /\ HavingParts' = HavingParts /\ (HavingThrows' <=> HavingThrows)
      BY <3>0, Zenon DEF GroupsFit, HavingParts, HavingThrows
    <3>2. (Compiles' <=> Compiles) /\ (Unreadable' <=> Unreadable)
      BY <3>0, SameVerdict, SameReason
    <3>3. InvPhase' /\ InvNames' /\ InvColumns' /\ InvLines' /\ InvClauses'
      BY <1>1, <3>0, Zenon DEF Inv, InvPhase, InvNames, InvColumns, InvLines, InvClauses
    <3>4. InvAggregates' /\ InvEnd'
      BY <1>1, <3>0, <3>1, <3>2, Zenon DEF Inv, InvAggregates, InvEnd
    <3> QED
      BY <3>3, <3>4, Zenon DEF Inv
  <2>2. CASE Next
    BY <1>1, <2>2, GetAggregateInv, SelectAttributeInv, GetConditionsInv, GetSelectionCondInv,
       LoopEndInv, ParseHavingInv, AbortInv, CompileInv, Zenon DEF Next
  <2> QED
    BY <1>1, <2>1, <2>2
<1> QED
  BY <1>1, InitInv, PTL DEF Spec

\* The types: each object has its parts, a line one connective less than it
\* has conditions, or as many, and a clause always one less.
THEOREM TypesOK == Spec => []TypeOK
<1>1. ASSUME Inv PROVE TypeOK
  <2>1. InvPhase /\ InvAggregates /\ InvNames /\ InvColumns /\ InvLines /\ InvClauses
    BY <1>1 DEF Inv
  <2>2. pc \in {"aggregates", "attributes", "conditions", "scans", "having", "generated",
                "aborted", "accepted", "refused"} /\ k \in Nat
    BY <2>1 DEF InvPhase, Phases, AggregatesDone, AttributesDone, ConditionsDone, ScansDone, HavingDone, Ended
  <2>3. all_aggregates \in Seq(AggregateObjects) /\ select_aggregates \in Seq(AggregateObjects)
         /\ select_columns \in Seq(Texts)
    BY <2>1, Zenon DEF InvAggregates, AggregatesRead, InvNames, InvColumns
  <2>4. LinesRead(input, select_conditions) /\ ClausesWritten(select_conditions, clauses) /\ Len(clauses) <= input.n
    BY <2>1, Zenon DEF InvLines, InvClauses
  <2>5. ASSUME NEW cs \in Range(select_conditions)
        PROVE  /\ cs.ops \in Seq(Texts)
               /\ Len(cs.conditions) - Len(cs.ops) \in {0, 1}
               /\ cs.conditions \in Seq([group : Nat, column : Texts, exp : Texts, value : Texts])
    <3>1. PICK j \in 1 .. Len(select_conditions) : cs = select_conditions[j]
      BY <2>4 DEF Range, LinesRead
    <3> DEFINE P == LineParts(input.sigma[j])
    <3>2. Split(cs, P)
      BY <2>4, <3>1, Zenon DEF LinesRead
    <3> HIDE DEF P
    <3>3. /\ Len(P) \in Nat /\ cs.ops \in Seq(Texts) /\ cs.conditions \in Seq(ConditionObjects)
          /\ Len(cs.conditions) = (Len(P) + 1) \div 2 /\ Len(cs.ops) = Len(P) \div 2
      BY <3>2 DEF Split
    <3>4. (Len(P) + 1) \div 2 - Len(P) \div 2 \in {0, 1}
      BY <3>3
    <3> QED
      BY <3>3, <3>4, Zenon DEF ConditionObjects
  <2>6. ASSUME NEW cl \in Range(clauses) PROVE Len(cl.ops) = Len(cl.conditions) - 1
    <3>1. PICK j \in 1 .. Len(clauses) : cl = clauses[j]
      BY <2>4 DEF Range, ClausesWritten
    <3>2. Joined(cl, select_conditions[j])
      BY <2>4, <3>1, Zenon DEF ClausesWritten
    <3> QED
      BY <3>2, Zenon DEF Joined
  <2> QED
    BY <2>2, <2>3, <2>4, <2>5, <2>6, Zenon DEF TypeOK
<1> QED
  BY <1>1, Invariant, PTL

-----------------------------------------------------------------------------
(***************************************************************************)
(* Names.                                                                  *)
(***************************************************************************)
\* A text that names an object has no blanks, and is read as that object.
LEMMA NamedClean ==
  ASSUME NEW t, NEW a, a \in Named(t)
  PROVE  /\ t \in Seq(Token) /\ Padded(t, 1, Len(t)) /\ SubSeq(t, 1, Len(t)) = t
         /\ a \in Objects /\ NamedAs(t, a) /\ Aggregate(t) = a
         /\ \A p \in 1 .. Len(t) : t[p] \notin BlankChars
         /\ t # <<>>
<1> DEFINE x == toVar(a)
<1>1. a \in Objects /\ \/ a.group = 0 /\ t = x
                       \/ \E e \in DOMAIN Number : Number[e] = a.group /\ t = <<e, "_">> \o x
  BY DEF Named
<1>2. /\ x \in Seq(Token) /\ Len(x) = Len(a.column) + 2 /\ (\A p \in 1 .. Len(x) : x[p] \notin BlankChars)
      /\ a.column \in Seq(Token)
  BY <1>1, ObjectFacts
<1> HIDE DEF x
<1>2a. Len(x) \in Nat /\ 1 <= Len(x)
  BY <1>2
<1>3. t \in Seq(Token) /\ (\A p \in 1 .. Len(t) : t[p] \notin BlankChars) /\ 1 <= Len(t)
  <2>1. CASE t = x
    BY <2>1, <1>2, <1>2a
  <2>2. CASE \E e \in DOMAIN Number : Number[e] = a.group /\ t = <<e, "_">> \o x
    <3> DEFINE d == "_"
    <3>1. PICK e \in DOMAIN Number : t = <<e, d>> \o x
      BY <2>2
    <3>2. e \in Token /\ e \notin BlankChars /\ d \in Token /\ d \notin BlankChars
      BY Numbers, Characters
    <3> HIDE DEF d
    <3>3. TwoThen(e, d, x, t)
      <4>1. TwoThen(e, d, x, <<e, d>> \o x)
        BY <3>2, <1>2, CatTwo
      <4> QED
        BY <3>1, <4>1, Zenon
    <3>4. t \in Seq(Token) /\ Len(t) = Len(x) + 2 /\ t[1] = e /\ t[2] = d /\ \A j \in 1 .. Len(x) : t[j + 2] = x[j]
      BY <3>3, Zenon DEF TwoThen
    <3>5. ASSUME NEW p \in 1 .. Len(t) PROVE t[p] \notin BlankChars
      <4>1. p = 1 \/ p = 2 \/ (p - 2 \in 1 .. Len(x) /\ p - 2 + 2 = p)
        BY <3>4, <1>2a
      <4>2. ASSUME NEW j \in 1 .. Len(x) PROVE t[j + 2] \notin BlankChars
        BY <3>4, <1>2, Zenon
      <4> QED
        BY <4>1, <4>2, <3>2, <3>4
    <3>6. 1 <= Len(t)
      BY <3>4, <1>2a
    <3> QED
      BY <3>4, <3>5, <3>6
  <2> QED
    BY <1>1, <2>1, <2>2, Zenon
<1>4. t # <<>>
  BY <1>3
<1>5. Padded(t, 1, Len(t))
  BY <1>3, <1>4, StrippedClean
<1>6. SubSeq(t, 1, Len(t)) = t
  BY <1>3, SubSeqFull
<1>7. NamedAs(t, a) /\ Aggregate(t) = a
  <2> DEFINE b == Len(t)
  <2>1. Padded(t, 1, b) /\ a \in Named(SubSeq(t, 1, b)) /\ b = Len(t)
    BY <1>5, <1>6
  <2> HIDE DEF b
  <2> QED
    BY <2>1, NamedRead, Zenon
<1> QED
  BY <1>1, <1>3, <1>4, <1>5, <1>6, <1>7, Zenon

\* A character that is no blank is seen.
LEMMA HeldIsSeen ==
  ASSUME NEW t \in Seq(Token), NEW c, c \notin BlankChars, Holds(t, c)
  PROVE  ~Blank(t) /\ Holds(Stripped(t), c)
<1> DEFINE seen == {p \in DOMAIN t : t[p] \notin BlankChars}
<1>0. Len(t) \in Nat /\ DOMAIN t = 1 .. Len(t)
  OBVIOUS
<1>1. PICK h \in DOMAIN t : t[h] = c
  BY DEF Holds
<1>2. h \in seen /\ seen \subseteq Nat /\ seen \subseteq 0 .. Len(t) /\ seen # {} /\ seen \subseteq 1 .. Len(t)
  BY <1>0, <1>1
<1>3. ~Blank(t)
  BY <1>1 DEF Blank
<1>4. Stripped(t) = SubSeq(t, Min(seen), Max(seen))
  BY <1>3 DEF Stripped
<1> HIDE DEF seen
<1>5. PICK b \in seen : \A y \in seen : y <= b
  BY <1>0, <1>2, GreatestOf
<1>6. PICK a \in seen : \A y \in seen : a <= y
  BY <1>2, Least
<1>7. Min(seen) = a /\ Max(seen) = b
  BY <1>2, <1>5, <1>6, MinMaxIs
<1>8. a \in Nat \ {0} /\ b \in Nat /\ b <= Len(t) /\ a <= h /\ h <= b /\ h \in Nat
  BY <1>0, <1>2, <1>5, <1>6
<1> DEFINE r == SubSeq(t, a, b)
<1>9. (\A j \in 1 .. b - a + 1 : r[j] = t[a + j - 1]) /\ DOMAIN r = 1 .. (IF a <= b THEN b - a + 1 ELSE 0)
  BY <1>8, Piece
<1> HIDE DEF r
<1>10. h - a + 1 \in 1 .. b - a + 1 /\ h - a + 1 \in DOMAIN r /\ a + (h - a + 1) - 1 = h
  BY <1>8, <1>9
<1>11. r[h - a + 1] = t[a + (h - a + 1) - 1]
  BY <1>9, <1>10
<1>12. r[h - a + 1] = c
  BY <1>1, <1>10, <1>11
<1>13. Holds(r, c)
  BY <1>10, <1>12 DEF Holds
<1> QED
  BY <1>3, <1>4, <1>7, <1>13, Zenon DEF r

\* A field of the generated structure, when F names all of them.
LEMMA Declared ==
  ASSUME Inv, pc \in AggregatesDone, \A f \in Range(input.F) : Named(f) # {},
         NEW o \in Range(all_aggregates)
  PROVE  o \in Objects
<1>1. AggregatesRead(input, all_aggregates)
  BY Zenon DEF Inv, InvAggregates
<1>2. input \in Queries
  BY DEF Inv, InvPhase
<1>3. DOMAIN input.F = 1 .. Len(input.F) /\ Len(input.F) \in Nat
  BY <1>2, QueryFields
<1>4. PICK j \in 1 .. Len(all_aggregates) : o = all_aggregates[j]
  BY <1>1 DEF Range, AggregatesRead
<1>5. j \in DOMAIN input.F
  BY <1>1, <1>3 DEF AggregatesRead
<1>6. o = Aggregate(input.F[j])
  BY <1>1, <1>4, Zenon DEF AggregatesRead
<1>7. input.F[j] \in Range(input.F)
  BY <1>5, Zenon DEF Range
<1>8. PICK a : a \in Named(input.F[j])
  BY <1>7
<1>9. Aggregate(input.F[j]) = a /\ a \in Objects
  BY <1>8, NamedClean, Zenon
<1> QED
  BY <1>6, <1>9

\* What a text that is read as a field names.
LEMMA FieldNamed ==
  ASSUME Inv, pc \in AggregatesDone, NEW t \in Seq(Token), isAggregate(t), ~Misnamed(Stripped(t)),
         ~AggregateThrows(t), NEW o \in Range(all_aggregates), Field(o) = Field(Aggregate(t))
  PROVE  o \in Objects /\ o \in Named(Stripped(t))
<1>1. "_" \notin BlankChars
  BY Characters
<1>2. ~Blank(t) /\ isAggregate(Stripped(t))
  BY <1>1, HeldIsSeen, Zenon DEF isAggregate
<1>3. Regular(Stripped(t)) /\ \A f \in Range(input.F) : Named(f) # {}
  BY <1>2, Zenon DEF Misnamed
<1>4. Range(Stripped(t)) \cap BlankChars = {}
  BY <1>3, Zenon DEF Regular
<1>5. PICK a, b \in Nat : Padded(t, a, b)
  BY <1>2, <1>4, Unpadded
<1>6. Stripped(t) = SubSeq(t, a, b)
  BY <1>5, StrippedPadded, Zenon
<1>7. o \in Objects
  BY <1>3, Declared, Zenon
<1>8. Field(Aggregate(t)) = Field(o) /\ Regular(SubSeq(t, a, b))
  BY <1>3, <1>6
<1>9. o \in Named(SubSeq(t, a, b))
  BY <1>5, <1>7, <1>8, NameRead, Zenon
<1> QED
  BY <1>6, <1>7, <1>9, Zenon

\* A program that compiles prints what S names.
THEOREM NamesRead == Spec => []NamesAsWritten
<1>1. ASSUME Inv PROVE NamesAsWritten
  <2> SUFFICES ASSUME pc = "accepted" PROVE NamesAsWritten
    BY DEF NamesAsWritten
  <2> DEFINE N == NamesIn(input)
             C == ColumnsIn(input)
             n == Len(input.S)
  <2>1. pc \in AttributesDone /\ pc \in AggregatesDone
    BY PhaseFacts
  <2>2. input \in Queries
    BY <1>1 DEF Inv, InvPhase
  <2>3. n \in Nat /\ input.S \in Seq(Texts) /\ DOMAIN input.S = 1 .. n
    BY <2>2, QueryFields
  <2>4. /\ select_aggregates \in Seq(AggregateObjects) /\ SelectedNames(input, n, select_aggregates)
        /\ select_columns \in Seq(Texts) /\ SelectedColumns(input, n, select_columns)
    BY <1>1, <2>1, Zenon DEF Inv, InvNames, InvColumns
  <2>5. /\ N \subseteq Nat /\ IsFiniteSet(N) /\ N \subseteq 1 .. n
        /\ C \subseteq Nat /\ IsFiniteSet(C) /\ C \subseteq 1 .. n
        /\ \A j \in 1 .. n : j \in N <=> isAggregate(input.S[j])
    BY <2>3, NamesOfS
  <2>6. N = {j \in DOMAIN input.S : isAggregate(input.S[j])} /\ C = DOMAIN input.S \ N
    BY Zenon DEF NamesIn, ColumnsIn
  <2> HIDE DEF N, C, n
  <2>7. Up(N, n) = N /\ Up(C, n) = C
    BY <2>3, <2>5, AllUpToLen
  <2>8. /\ Len(select_aggregates) = Cardinality(N)
        /\ \A r \in 1 .. Len(select_aggregates) : ~AggregateThrows(input.S[Nth(N, r)])
                                                  /\ select_aggregates[r] = Aggregate(input.S[Nth(N, r)])
    BY <2>4, <2>7, Zenon DEF SelectedNames, N
  <2>9. /\ Len(select_columns) = Cardinality(C)
        /\ \A r \in 1 .. Len(select_columns) : select_columns[r] = input.S[Nth(C, r)]
    BY <2>4, <2>7, Zenon DEF SelectedColumns, C
  <2>10. NamesCompile
    BY <1>1, Zenon DEF Inv, InvEnd, Compiles
  <2>11. ASSUME NEW r \in DOMAIN select_aggregates, ~Misnamed(Stripped(input.S[Nth(N, r)]))
         PROVE  \E a \in Named(Stripped(input.S[Nth(N, r)])) : Field(select_aggregates[r]) = Field(a)
    <3> DEFINE t == input.S[Nth(N, r)]
    <3>1. r \in 1 .. Len(select_aggregates)
      BY <2>4
    <3>2. Nth(N, r) \in N
      BY <2>5, <2>8, <3>1, NthFacts
    <3>3. t \in Seq(Token) /\ isAggregate(t)
      <4> DEFINE j == Nth(N, r)
      <4>1. j \in DOMAIN input.S /\ isAggregate(input.S[j])
        BY <2>6, <3>2, Zenon
      <4> HIDE DEF j
      <4>2. input.S[j] \in Texts
        BY <2>3, <4>1
      <4> QED
        BY <4>1, <4>2, Zenon DEF t, j, Texts
    <3>4. ~AggregateThrows(t) /\ select_aggregates[r] = Aggregate(t)
      BY <2>8, <3>1, Zenon
    <3>5. select_aggregates[r] \in Range(select_aggregates)
      BY <2>11, Zenon DEF Range
    <3>6. PICK o \in Range(all_aggregates) : Field(o) = Field(select_aggregates[r])
      BY <2>10, <3>5, Zenon DEF NamesCompile
    <3>7. Field(o) = Field(Aggregate(t)) /\ ~Misnamed(Stripped(t))
      BY <2>11, <3>4, <3>6, Zenon
    <3> HIDE DEF t
    <3>8. o \in Named(Stripped(t))
      BY <1>1, <2>1, <3>3, <3>4, <3>7, FieldNamed, Zenon
    <3> QED
      BY <3>6, <3>8, Zenon DEF t
  <2>12. ASSUME NEW r \in DOMAIN select_columns
         PROVE  select_columns[r] = input.S[Nth(C, r)] /\ Stripped(select_columns[r]) \in Columns
    <3>1. r \in 1 .. Len(select_columns)
      BY <2>4
    <3>2. select_columns[r] \in Range(select_columns)
      BY Zenon DEF Range
    <3> QED
      BY <2>9, <2>10, <3>1, <3>2, Zenon DEF NamesCompile
  <2> QED
    BY <2>6, <2>8, <2>9, <2>11, <2>12, Zenon DEF NamesAsWritten
<1> QED
  BY <1>1, Invariant, PTL

-----------------------------------------------------------------------------
(***************************************************************************)
(* Where a line is cut.  Part j starts at A[j] and ends two places before  *)
(* the next one.                                                           *)
(***************************************************************************)
\* A text is cut from i on: m parts, part j from A[j] to A[j + 1] - 2; no delimiter
\* within a part but at its start or at the end of the text, and nothing but
\* blanks outside the parts.
Cuts(d, s, i, m, A) ==
  /\ m \in Nat /\ A \in [1 .. m + 1 -> Nat] /\ A[1] = i
  /\ \A j \in 1 .. m :
       /\ 1 <= A[j] /\ A[j] <= Len(s) /\ A[j + 1] <= Len(s) + 2 /\ A[j + 1] # Len(s) + 1
       /\ A[j + 1] <= Len(s) => s[A[j + 1] - 1] = d
       /\ \A h \in 1 .. Len(s) : SearchFrom(A[j]) <= h /\ h <= A[j + 1] - 2 /\ h < Len(s) => s[h] # d
  /\ \A j, l \in 1 .. m + 1 : j < l => A[j] < A[l]
  /\ \A h \in 1 .. Len(s) :
       i <= h /\ s[h] \notin BlankChars => \E j \in 1 .. m : A[j] <= h /\ h <= A[j + 1] - 2

\* The parts are those pieces.
PartsAt(s, P, A) ==
  P \in Seq(Seq(Token)) /\ \A j \in 1 .. Len(P) : P[j] = SubSeq(s, A[j], A[j + 1] - 2)

\* The cuts with one more in front.
OneMore(i, m, B) == [j \in 1 .. m + 2 |-> IF j = 1 THEN i ELSE B[j - 1]]

\* A cut before the others.
LEMMA CutsEarlier ==
  ASSUME NEW d \in BlankChars, NEW s \in Seq(Token), NEW i, NEW c, NextCut(d, s, i, c),
         NEW m, NEW B, Cuts(d, s, c + 1, m, B)
  PROVE  Cuts(d, s, i, m + 1, OneMore(i, m, B))
<1> DEFINE A == OneMore(i, m, B)
           L == Len(s)
<1>1. L \in Nat
  OBVIOUS
<1>2. /\ i \in 1 .. L + 1 /\ c \in SearchFrom(i) .. L - 1 /\ s[c] = d
      /\ \A h \in SearchFrom(i) .. c - 1 : s[h] # d
  BY DEF NextCut
<1>3. i \in Nat /\ 1 <= i /\ i <= c /\ c <= L - 1 /\ c \in Nat
  BY <1>1, <1>2 DEF SearchFrom
<1>4. /\ m \in Nat /\ B \in [1 .. m + 1 -> Nat] /\ B[1] = c + 1
      /\ \A j \in 1 .. m :
           /\ 1 <= B[j] /\ B[j] <= L /\ B[j + 1] <= L + 2 /\ B[j + 1] # L + 1
           /\ B[j + 1] <= L => s[B[j + 1] - 1] = d
           /\ \A h \in 1 .. L : SearchFrom(B[j]) <= h /\ h <= B[j + 1] - 2 /\ h < L => s[h] # d
      /\ \A j, l \in 1 .. m + 1 : j < l => B[j] < B[l]
      /\ \A h \in 1 .. L :
           c + 1 <= h /\ s[h] \notin BlankChars => \E j \in 1 .. m : B[j] <= h /\ h <= B[j + 1] - 2
  BY DEF Cuts
<1>5. /\ A \in [1 .. (m + 1) + 1 -> Nat] /\ A[1] = i
      /\ \A j \in 2 .. m + 2 : A[j] = B[j - 1]
      /\ \A j \in 1 .. m + 1 : A[j + 1] = B[j]
  BY <1>3, <1>4 DEF OneMore
<1> HIDE DEF A, L
<1>6. A[2] = c + 1
  BY <1>4, <1>5
<1>7. ASSUME NEW j \in 1 .. m + 1
      PROVE  /\ 1 <= A[j] /\ A[j] <= L /\ A[j + 1] <= L + 2 /\ A[j + 1] # L + 1
             /\ A[j + 1] <= L => s[A[j + 1] - 1] = d
             /\ \A h \in 1 .. L : SearchFrom(A[j]) <= h /\ h <= A[j + 1] - 2 /\ h < L => s[h] # d
  <2>1. CASE j = 1
    <3>1. A[j] = i /\ A[j + 1] = c + 1
      BY <2>1, <1>5, <1>6
    <3>2. s[A[j + 1] - 1] = d
      BY <3>1, <1>2, <1>3
    <3>3. ASSUME NEW h \in 1 .. L, SearchFrom(A[j]) <= h, h <= A[j + 1] - 2 PROVE s[h] # d
      <4>1. h \in SearchFrom(i) .. c - 1
        BY <3>1, <3>3, <1>1, <1>3 DEF SearchFrom
      <4> QED
        BY <4>1, <1>2
    <3> QED
      BY <3>1, <3>2, <3>3, <1>1, <1>3
  <2>2. CASE j # 1
    <3>1. PICK l \in 1 .. m : l = j - 1
      BY <2>2, <1>4
    <3>2. A[j] = B[l] /\ A[j + 1] = B[l + 1]
      BY <3>1, <1>4, <1>5
    <3> QED
      BY <3>2, <1>4
  <2> QED
    BY <2>1, <2>2
<1>8. ASSUME NEW j \in 1 .. (m + 1) + 1, NEW l \in 1 .. (m + 1) + 1, j < l PROVE A[j] < A[l]
  <2>1. CASE j = 1
    <3>1. l - 1 \in 1 .. m + 1 /\ A[l] = B[l - 1]
      BY <2>1, <1>4, <1>5, <1>8
    <3>2. B[1] <= B[l - 1]
      <4>1. CASE l - 1 = 1
        BY <4>1, <1>4
      <4>2. CASE l - 1 # 1
        <5>1. B[1] < B[l - 1]
          BY <4>2, <3>1, <1>4
        <5>2. B[1] \in Nat /\ B[l - 1] \in Nat
          BY <3>1, <1>4
        <5> QED
          BY <5>1, <5>2
      <4> QED
        BY <4>1, <4>2
    <3>3. B[l - 1] \in Nat
      BY <3>1, <1>4
    <3> QED
      BY <3>1, <3>2, <3>3, <2>1, <1>3, <1>4, <1>5
  <2>2. CASE j # 1
    <3>1. j - 1 \in 1 .. m + 1 /\ l - 1 \in 1 .. m + 1 /\ j - 1 < l - 1
      BY <2>2, <1>4, <1>8
    <3>2. A[j] = B[j - 1] /\ A[l] = B[l - 1]
      BY <2>2, <1>4, <1>5, <1>8
    <3> QED
      BY <3>1, <3>2, <1>4
  <2> QED
    BY <2>1, <2>2
<1>9. ASSUME NEW h \in 1 .. L, i <= h, s[h] \notin BlankChars
      PROVE  \E j \in 1 .. m + 1 : A[j] <= h /\ h <= A[j + 1] - 2
  <2>0. s[c] \in BlankChars
    BY <1>2
  <2>1. h # c
    BY <2>0, <1>9
  <2>2. CASE h < c
    <3>1. 1 \in 1 .. m + 1 /\ A[1] <= h /\ h <= A[1 + 1] - 2
      BY <2>2, <1>9, <1>1, <1>3, <1>4, <1>5, <1>6
    <3> QED
      BY <3>1
  <2>3. CASE c + 1 <= h
    <3>1. PICK l \in 1 .. m : B[l] <= h /\ h <= B[l + 1] - 2
      BY <2>3, <1>4, <1>9
    <3>2. PICK j \in 1 .. m + 1 : j = l + 1
      BY <1>4
    <3>3. A[j] = B[l] /\ A[j + 1] = B[l + 1]
      BY <3>2, <1>4, <1>5
    <3> QED
      BY <3>1, <3>3
  <2> QED
    BY <2>1, <2>2, <2>3, <1>1, <1>3
<1> QED
  BY <1>4, <1>5, <1>7, <1>8, <1>9 DEF Cuts, A, L

\* No further cut.
LEMMA CutsNone ==
  ASSUME NEW d \in BlankChars, NEW s \in Seq(Token), NEW i, NoMore(d, s, i)
  PROVE  /\ Blank(SubSeq(s, i, Len(s))) => Cuts(d, s, i, 0, [j \in 1 .. 1 |-> i])
         /\ Cuts(d, s, i, 1, [j \in 1 .. 2 |-> IF j = 1 THEN i ELSE Len(s) + 2])
<1> DEFINE L == Len(s)
<1>1. L \in Nat /\ i \in 1 .. L /\ \A h \in SearchFrom(i) .. L - 1 : s[h] # d
  BY DEF NoMore
<1>2. ASSUME Blank(SubSeq(s, i, L)), NEW h \in 1 .. L, i <= h PROVE s[h] \in BlankChars
  <2>1. /\ DOMAIN SubSeq(s, i, L) = 1 .. (IF i <= L THEN L - i + 1 ELSE 0)
        /\ \A j \in 1 .. L - i + 1 : SubSeq(s, i, L)[j] = s[i + j - 1]
    BY <1>1, Piece
  <2>2. \A j \in DOMAIN SubSeq(s, i, L) : SubSeq(s, i, L)[j] \in BlankChars
    BY <1>2 DEF Blank
  <2> HIDE DEF L
  <2>3. PICK j \in 1 .. L - i + 1 : j = h - i + 1
    BY <1>1, <1>2
  <2>4. j \in DOMAIN SubSeq(s, i, L) /\ i + j - 1 = h
    BY <2>1, <2>3, <1>1, <1>2
  <2> QED
    BY <2>1, <2>2, <2>3, <2>4
<1>3. ASSUME Blank(SubSeq(s, i, L)) PROVE Cuts(d, s, i, 0, [j \in 1 .. 1 |-> i])
  <2>1. \A h \in 1 .. L : i <= h => s[h] \in BlankChars
    BY <1>2, <1>3
  <2> HIDE DEF L
  <2> QED
    BY <1>1, <2>1 DEF Cuts, L
<1>4. Cuts(d, s, i, 1, [j \in 1 .. 2 |-> IF j = 1 THEN i ELSE L + 2])
  <2> DEFINE A == [j \in 1 .. 2 |-> IF j = 1 THEN i ELSE L + 2]
  <2>1. A \in [1 .. 1 + 1 -> Nat] /\ A[1] = i /\ A[2] = L + 2
    BY <1>1
  <2> HIDE DEF A, L
  <2>2. ASSUME NEW h \in 1 .. L, SearchFrom(i) <= h, h < L PROVE s[h] # d
    <3>1. h \in SearchFrom(i) .. L - 1
      BY <2>2, <1>1 DEF SearchFrom
    <3> QED
      BY <3>1, <1>1
  <2>3. ASSUME NEW j \in 1 .. 1
        PROVE  /\ 1 <= A[j] /\ A[j] <= L /\ A[j + 1] <= L + 2 /\ A[j + 1] # L + 1
               /\ A[j + 1] <= L => s[A[j + 1] - 1] = d
               /\ \A h \in 1 .. L : SearchFrom(A[j]) <= h /\ h <= A[j + 1] - 2 /\ h < L => s[h] # d
    <3>1. A[j] = i /\ A[j + 1] = L + 2
      BY <2>1
    <3> QED
      BY <3>1, <2>2, <1>1
  <2>4. \A j, l \in 1 .. 1 + 1 : j < l => A[j] < A[l]
    <3>1. \A j, l \in 1 .. 1 + 1 : j < l => j = 1 /\ l = 2
      OBVIOUS
    <3> QED
      BY <3>1, <2>1, <1>1
  <2>5. ASSUME NEW h \in 1 .. L, i <= h PROVE \E j \in 1 .. 1 : A[j] <= h /\ h <= A[j + 1] - 2
    <3>1. 1 \in 1 .. 1 /\ A[1] <= h /\ h <= A[1 + 1] - 2
      BY <2>1, <2>5, <1>1
    <3> QED
      BY <3>1
  <2> QED
    BY <2>1, <2>3, <2>4, <2>5 DEF Cuts, A, L
<1> QED
  BY <1>3, <1>4

\* One part before the others.
LEMMA PartsEarlier ==
  ASSUME NEW s \in Seq(Token), NEW i \in Nat \ {0}, NEW c \in Nat, i <= c, c <= Len(s), NEW Q, NEW B,
         PartsAt(s, Q, B), B[1] = c + 1
  PROVE  PartsAt(s, <<SubSeq(s, i, c - 1)>> \o Q, OneMore(i, Len(Q), B))
         /\ Len(<<SubSeq(s, i, c - 1)>> \o Q) = Len(Q) + 1
<1> DEFINE x == SubSeq(s, i, c - 1)
           P == <<x>> \o Q
           m == Len(Q)
           A == OneMore(i, m, B)
<1>1. Q \in Seq(Seq(Token)) /\ \A j \in 1 .. m : Q[j] = SubSeq(s, B[j], B[j + 1] - 2)
  BY DEF PartsAt
<1>2. x \in Seq(Token)
  <2>1. c - 1 \in Nat /\ c - 1 <= Len(s)
    OBVIOUS
  <2> QED
    BY <2>1, Piece
<1> HIDE DEF x
<1>3. /\ m \in Nat /\ P \in Seq(Seq(Token)) /\ Len(P) = m + 1 /\ P[1] = x
      /\ \A j \in 1 .. m : P[j + 1] = Q[j]
  BY <1>1, <1>2
<1>4. A[1] = i /\ A[2] = c + 1 /\ \A j \in 1 .. m : A[j + 1] = B[j] /\ A[j + 2] = B[j + 1]
  <2> HIDE DEF m
  <2>1. 1 \in 1 .. m + 2 /\ 2 \in 1 .. m + 2 /\ \A j \in 1 .. m : j + 1 \in 1 .. m + 2 /\ j + 2 \in 1 .. m + 2
    BY <1>3
  <2>2. \A j \in 1 .. m + 2 : A[j] = IF j = 1 THEN i ELSE B[j - 1]
    BY DEF OneMore
  <2>3. A[1] = i /\ A[2] = B[2 - 1]
    BY <2>1, <2>2
  <2>4. ASSUME NEW j \in 1 .. m PROVE A[j + 1] = B[j] /\ A[j + 2] = B[j + 1]
    <3>1. A[j + 1] = B[(j + 1) - 1] /\ A[j + 2] = B[(j + 2) - 1] /\ (j + 1) - 1 = j /\ (j + 2) - 1 = j + 1
      BY <2>1, <2>2, <1>3
    <3> QED
      BY <3>1
  <2> QED
    BY <2>3, <2>4
<1> HIDE DEF A, m, P
<1>5. ASSUME NEW j \in 1 .. m + 1 PROVE P[j] = SubSeq(s, A[j], A[j + 1] - 2)
  <2>1. CASE j = 1
    <3>1. A[j] = i /\ A[j + 1] - 2 = c - 1
      BY <2>1, <1>4
    <3>2. P[j] = x
      BY <2>1, <1>3
    <3> QED
      BY <3>1, <3>2 DEF x
  <2>2. CASE j # 1
    <3>1. PICK l \in 1 .. m : l + 1 = j
      <4>1. j - 1 \in 1 .. m /\ (j - 1) + 1 = j
        BY <2>2, <1>3
      <4> QED
        BY <4>1
    <3>2. A[j] = B[l] /\ A[j + 1] = B[l + 1]
      <4>1. l + 2 = j + 1
        BY <3>1
      <4> QED
        BY <4>1, <3>1, <1>4
    <3> QED
      BY <3>1, <3>2, <1>1, <1>3 DEF m
  <2> QED
    BY <2>1, <2>2
<1>6. PartsAt(s, P, A)
  BY <1>3, <1>5 DEF PartsAt
<1> QED
  BY <1>3, <1>6 DEF P, A, m, x

\* What FromFn gives at i is a text cut from i on.
CutFrom(d, s, i) ==
  \E A : /\ Cuts(d, s, i, Len(FromFn(<<d>>, s)[i].parts), A)
         /\ PartsAt(s, FromFn(<<d>>, s)[i].parts, A)

\* What explode leaves of a text that is cut at a blank.
LEMMA LineCut ==
  ASSUME NEW d \in Token, d \in BlankChars, NEW s \in Seq(Token), s # <<>>
  PROVE  CutFrom(d, s, 1)
<1> DEFINE I == 1 .. Len(s)
           mu == [i \in I |-> Len(s) - i]
           S == {i \in I : CutFrom(d, s, i)}
<1>1. mu \in [I -> Nat] /\ Len(s) \in Nat
  OBVIOUS
<1>2. ASSUME NEW i \in I, \A j \in I : mu[j] < mu[i] => j \in S PROVE CutFrom(d, s, i)
  <2> DEFINE H == {h \in SearchFrom(i) .. Len(s) - 1 : s[h] = d}
  <2>1. CASE H = {}
    <3>1. NoMore(d, s, i)
      BY <2>1 DEF NoMore
    <3> DEFINE rest == SubSeq(s, i, Len(s))
               f == FromFn(<<d>>, s)[i].parts
    <3>2. f = IF Blank(rest) THEN <<>> ELSE <<rest>>
      BY <3>1, NoCut, Zenon
    <3>3. /\ Blank(rest) => Cuts(d, s, i, 0, [j \in 1 .. 1 |-> i])
          /\ Cuts(d, s, i, 1, [j \in 1 .. 2 |-> IF j = 1 THEN i ELSE Len(s) + 2])
      BY <3>1, CutsNone, Zenon
    <3>4. rest \in Seq(Token)
      <4>1. i \in Nat \ {0} /\ Len(s) \in Nat /\ Len(s) <= Len(s)
        OBVIOUS
      <4> QED
        BY <4>1, Piece
    <3>5. CASE Blank(rest)
      <4> DEFINE A == [j \in 1 .. 1 |-> i]
      <4>1. f = <<>> /\ Cuts(d, s, i, 0, A)
        BY <3>2, <3>3, <3>5
      <4> HIDE DEF A, f
      <4>2. Len(f) = 0 /\ f \in Seq(Seq(Token))
        BY <4>1
      <4>3. PartsAt(s, f, A)
        BY <4>2 DEF PartsAt
      <4>4. Cuts(d, s, i, Len(f), A)
        BY <4>1, <4>2, Zenon
      <4> QED
        BY <4>3, <4>4, Zenon DEF CutFrom, f
    <3>6. CASE ~Blank(rest)
      <4> DEFINE A == [j \in 1 .. 2 |-> IF j = 1 THEN i ELSE Len(s) + 2]
      <4>1. f = <<rest>> /\ Cuts(d, s, i, 1, A)
        BY <3>2, <3>3, <3>6
      <4>2. A[1] = i /\ A[1 + 1] - 2 = Len(s)
        BY <1>1
      <4> HIDE DEF A, f
      <4>3. Len(f) = 1 /\ f \in Seq(Seq(Token)) /\ f[1] = rest
        BY <4>1, <3>4
      <4>4. f[1] = SubSeq(s, A[1], A[1 + 1] - 2)
        BY <4>2, <4>3
      <4>5. PartsAt(s, f, A)
        BY <4>3, <4>4 DEF PartsAt
      <4>6. Cuts(d, s, i, Len(f), A)
        BY <4>1, <4>3, Zenon
      <4> QED
        BY <4>5, <4>6, Zenon DEF CutFrom, f
    <3> QED
      BY <3>5, <3>6
  <2>2. CASE H # {}
    <3>1. H \subseteq Nat
      BY DEF SearchFrom
    <3>2. PICK c \in H : \A h \in H : c <= h
      <4> HIDE DEF H
      <4> QED
        BY <2>2, <3>1, Least
    <3>3. NextCut(d, s, i, c)
      <4>1. c \in SearchFrom(i) .. Len(s) - 1 /\ s[c] = d
        BY <3>2
      <4>2. ASSUME NEW h \in SearchFrom(i) .. c - 1 PROVE s[h] # d
        <5>1. h \in SearchFrom(i) .. Len(s) - 1 /\ ~(c <= h)
          BY <4>1, <4>2, <1>1 DEF SearchFrom
        <5> QED
          BY <5>1, <3>2
      <4> QED
        BY <4>1, <4>2 DEF NextCut
    <3> DEFINE f == FromFn(<<d>>, s)[i].parts
               g == FromFn(<<d>>, s)[c + 1].parts
    <3>4. c + 1 \in 1 .. Len(s) /\ i <= c /\ f = <<SubSeq(s, i, c - 1)>> \o g
      <4>1. CutGives(d, s, i, c)
        BY <3>3, CutAt, Zenon
      <4> QED
        BY <4>1, Zenon DEF CutGives
    <3>5. c \in Nat /\ c <= Len(s) /\ i \in Nat \ {0}
      BY <3>4, <1>1, <3>1, <3>2
    <3>6. CutFrom(d, s, c + 1)
      <4>1. c + 1 \in I /\ mu[c + 1] < mu[i]
        BY <3>4, <3>5, <1>1
      <4> HIDE DEF I, mu
      <4> QED
        BY <4>1, <1>2
    <3>7. PICK B : Cuts(d, s, c + 1, Len(g), B) /\ PartsAt(s, g, B)
      BY <3>6, Zenon DEF CutFrom
    <3>8. B[1] = c + 1
      BY <3>7, Zenon DEF Cuts
    <3> HIDE DEF f, g
    <3>9. /\ PartsAt(s, <<SubSeq(s, i, c - 1)>> \o g, OneMore(i, Len(g), B))
          /\ Len(<<SubSeq(s, i, c - 1)>> \o g) = Len(g) + 1
      BY <3>4, <3>5, <3>7, <3>8, PartsEarlier, Zenon
    <3>10. PartsAt(s, f, OneMore(i, Len(g), B)) /\ Len(f) = Len(g) + 1
      BY <3>4, <3>9, Zenon
    <3>11. Cuts(d, s, i, Len(g) + 1, OneMore(i, Len(g), B))
      BY <3>3, <3>7, CutsEarlier, Zenon
    <3>12. Cuts(d, s, i, Len(f), OneMore(i, Len(g), B))
      BY <3>10, <3>11, Zenon
    <3> QED
      BY <3>10, <3>12, Zenon DEF CutFrom, f
  <2> QED
    BY <2>1, <2>2
<1>3. \A i \in I : (\A j \in I : mu[j] < mu[i] => j \in S) => i \in S
  BY <1>2
<1> HIDE DEF mu, S, I
<1>4. \A i \in I : i \in S
  BY <1>1, <1>3, MeasureInduction
<1>5. 1 \in I
  BY DEF I
<1> QED
  BY <1>4, <1>5 DEF S

-----------------------------------------------------------------------------
(***************************************************************************)
(* The words of a line: each part that is not blank holds one.             *)
(***************************************************************************)
\* A word starts at x and ends at y.
WordAt(s, x, y) ==
  /\ x \in 1 .. Len(s) /\ y \in x .. Len(s)
  /\ \A p \in x .. y : s[p] \notin BlankChars
  /\ x > 1 => s[x - 1] \in BlankChars
  /\ y < Len(s) => s[y + 1] \in BlankChars

\* It is one of Words.
LEMMA StopAt ==
  ASSUME NEW s \in Seq(Token), NEW x, NEW y, WordAt(s, x, y)
  PROVE  x \in Starts(s) /\ Stop(s, x) = y
<1> DEFINE L == Len(s)
<1>0. L \in Nat /\ DOMAIN s = 1 .. L
  OBVIOUS
<1>1. /\ x \in 1 .. L /\ y \in x .. L
      /\ \A p \in x .. y : s[p] \notin BlankChars
      /\ x > 1 => s[x - 1] \in BlankChars
      /\ y < L => s[y + 1] \in BlankChars
  BY DEF WordAt
<1> HIDE DEF L
<1>2. x \in Starts(s)
  BY <1>0, <1>1 DEF Starts
<1> DEFINE Q == {q \in x .. L : \A r \in x .. q : s[r] \notin BlankChars}
<1>3. y \in Q /\ Q \subseteq Nat
  BY <1>0, <1>1
<1>4. ASSUME NEW q \in Q PROVE q <= y
  <2>1. q \in x .. L /\ \A r \in x .. q : s[r] \notin BlankChars
    BY <1>4
  <2> SUFFICES ASSUME ~(q <= y) PROVE FALSE
    OBVIOUS
  <2>2. y < L /\ y + 1 \in x .. q
    BY <2>1, <1>0, <1>1
  <2> QED
    BY <2>1, <2>2, <1>1
<1> HIDE DEF Q
<1>5. Max(Q) = y
  BY <1>3, <1>4, MinMaxIs
<1> QED
  BY <1>2, <1>5 DEF Stop, Q, L

\* A piece of a line and the one word in it.
Holding(s, a, b, x, y) ==
  /\ a \in Nat \ {0} /\ b \in Nat /\ b <= Len(s) /\ x \in a .. b /\ y \in x .. b
  /\ \A p \in a .. b : s[p] \in BlankChars <=> ~(x <= p /\ p <= y)

\* Stripping leaves the word.
LEMMA PieceHolding ==
  ASSUME NEW s \in Seq(Token), NEW a, NEW b, NEW x, NEW y, Holding(s, a, b, x, y)
  PROVE  /\ Padded(SubSeq(s, a, b), x - a + 1, y - a + 1)
         /\ Stripped(SubSeq(s, a, b)) = SubSeq(s, x, y) /\ ~Blank(SubSeq(s, a, b))
<1> DEFINE t == SubSeq(s, a, b)
<1>0. Len(s) \in Nat
  OBVIOUS
<1>1. /\ a \in Nat \ {0} /\ b \in Nat /\ b <= Len(s) /\ x \in a .. b /\ y \in x .. b
      /\ \A p \in a .. b : s[p] \in BlankChars <=> ~(x <= p /\ p <= y)
  BY DEF Holding
<1>2. /\ t \in Seq(Token) /\ Len(t) = (IF a <= b THEN b - a + 1 ELSE 0)
      /\ \A j \in 1 .. b - a + 1 : t[j] = s[a + j - 1]
  BY <1>1, Piece
<1> HIDE DEF t
<1> DEFINE u == x - a + 1
           v == y - a + 1
           n == Len(t)
<1>3. n = b - a + 1 /\ n \in Nat
  BY <1>1, <1>2
<1> HIDE DEF n
<1>4. u \in Nat \ {0} /\ v \in Nat /\ u <= v /\ v <= n
  BY <1>1, <1>3
<1>5. ASSUME NEW p \in 1 .. n PROVE t[p] \in BlankChars <=> ~(u <= p /\ p <= v)
  <2>1. t[p] = s[a + p - 1] /\ a + p - 1 \in a .. b
    BY <1>1, <1>2, <1>3
  <2>2. PICK q \in a .. b : q = a + p - 1
    BY <2>1
  <2>3. (x <= q /\ q <= y) <=> (u <= p /\ p <= v)
    BY <2>2, <1>1, <1>3
  <2>4. s[q] \in BlankChars <=> ~(x <= q /\ q <= y)
    BY <1>1
  <2> QED
    BY <2>1, <2>2, <2>3, <2>4
<1>6. Padded(t, u, v)
  BY <1>2, <1>4, <1>5 DEF Padded, n
<1>7. Stripped(t) = SubSeq(t, u, v) /\ ~Blank(t)
  BY <1>6, StrippedPadded
<1>8. SubSeq(SubSeq(s, a, b), u, v) = SubSeq(s, a + u - 1, a + v - 1)
  <2>1. u \in Nat \ {0} /\ v \in Nat /\ a + v - 1 <= b
    BY <1>1, <1>4
  <2> HIDE DEF u, v
  <2> QED
    BY <1>1, <2>1, PieceOfPiece
<1>9. a + u - 1 = x /\ a + v - 1 = y
  BY <1>1
<1> QED
  BY <1>6, <1>7, <1>8, <1>9 DEF t

\* A piece is blank unless some token of it is not.
LEMMA PieceBlank ==
  ASSUME NEW s \in Seq(Token), NEW a \in Nat \ {0}, NEW b \in Nat, b <= Len(s)
  PROVE  ~Blank(SubSeq(s, a, b)) => \E h \in a .. b : s[h] \notin BlankChars
<1> SUFFICES ASSUME ~Blank(SubSeq(s, a, b)) PROVE \E h \in a .. b : s[h] \notin BlankChars
  OBVIOUS
<1>1. /\ DOMAIN SubSeq(s, a, b) = 1 .. (IF a <= b THEN b - a + 1 ELSE 0)
      /\ \A j \in 1 .. b - a + 1 : SubSeq(s, a, b)[j] = s[a + j - 1]
  BY Piece
<1>2. PICK j \in DOMAIN SubSeq(s, a, b) : SubSeq(s, a, b)[j] \notin BlankChars
  BY DEF Blank
<1> DEFINE e == SubSeq(s, a, b)[j]
<1>3. e \notin BlankChars
  BY <1>2
<1>4. j \in 1 .. (IF a <= b THEN b - a + 1 ELSE 0) /\ (j \in 1 .. b - a + 1 => e = s[a + j - 1])
  BY <1>1, <1>2
<1> HIDE DEF e
<1>5. a + j - 1 \in a .. b /\ e = s[a + j - 1]
  BY <1>4
<1> QED
  BY <1>3, <1>5

\* No blank but the one that is cut at, up to the end.
LineOf(d, s) ==
  /\ s \in Seq(Token) /\ d \in BlankChars
  /\ \A p, h \in 1 .. Len(s) : s[p] \in BlankChars /\ s[p] # d /\ p <= h => s[h] \in BlankChars

\* A line without line breaks is cut at every blank.
LEMMA OneLineOf ==
  ASSUME NEW s \in Seq(Token), OneLine(s) PROVE LineOf(" ", s)
<1>0. Len(s) \in Nat /\ DOMAIN s = 1 .. Len(s)
  OBVIOUS
<1>1. " " \in BlankChars
  BY BlankAssumption
<1>2. ASSUME NEW p \in 1 .. Len(s), NEW h \in 1 .. Len(s), s[p] \in BlankChars, s[p] # " ", p <= h
      PROVE  s[h] \in BlankChars
  <2>1. Blank(SubSeq(s, p, Len(s)))
    BY <1>0, <1>2, Zenon DEF OneLine
  <2>2. p \in Nat \ {0} /\ Len(s) <= Len(s)
    BY <1>0
  <2>3. /\ DOMAIN SubSeq(s, p, Len(s)) = 1 .. (IF p <= Len(s) THEN Len(s) - p + 1 ELSE 0)
        /\ \A j \in 1 .. Len(s) - p + 1 : SubSeq(s, p, Len(s))[j] = s[p + j - 1]
    BY <1>0, <2>2, Piece
  <2>4. \A j \in DOMAIN SubSeq(s, p, Len(s)) : SubSeq(s, p, Len(s))[j] \in BlankChars
    BY <2>1 DEF Blank
  <2> DEFINE L == Len(s)
             t == SubSeq(s, p, L)
             j == h - p + 1
  <2>5. L \in Nat /\ p \in 1 .. L /\ h \in 1 .. L /\ p <= h
    BY <1>0, <1>2
  <2>6. /\ DOMAIN t = 1 .. (IF p <= L THEN L - p + 1 ELSE 0)
        /\ \A i \in 1 .. L - p + 1 : t[i] = s[p + i - 1]
        /\ \A i \in DOMAIN t : t[i] \in BlankChars
    BY <2>3, <2>4
  <2> HIDE DEF L, t
  <2>7. j \in DOMAIN t /\ j \in 1 .. L - p + 1 /\ p + j - 1 = h
    BY <2>5, <2>6
  <2> HIDE DEF j
  <2>8. t[j] \in BlankChars /\ t[j] = s[h]
    BY <2>6, <2>7
  <2> QED
    BY <2>8
<1> QED
  BY <1>1, <1>2 DEF LineOf

\* The word in part j starts at x and ends at y.
InPart(s, A, j, x, y) == Holding(s, A[j], A[j + 1] - 2, x, y) /\ WordAt(s, x, y)

\* What is not blank in a part belongs to the one word of that part.
LEMMA PartWord ==
  ASSUME NEW d, NEW s, LineOf(d, s), NEW m, NEW A, Cuts(d, s, 1, m, A), NEW j \in 1 .. m,
         NEW h \in 1 .. Len(s), A[j] <= h, h <= A[j + 1] - 2, s[h] \notin BlankChars
  PROVE  \E x, y : InPart(s, A, j, x, y)
<1> DEFINE L == Len(s)
           a == A[j]
           b == A[j + 1] - 2
<1>1. /\ L \in Nat /\ d \in BlankChars
      /\ \A p, q \in 1 .. L : s[p] \in BlankChars /\ s[p] # d /\ p <= q => s[q] \in BlankChars
  BY DEF LineOf
<1>2. /\ m \in Nat /\ A \in [1 .. m + 1 -> Nat] /\ A[1] = 1
      /\ 1 <= A[j] /\ A[j] <= L /\ A[j + 1] <= L + 2 /\ A[j + 1] # L + 1
      /\ A[j + 1] <= L => s[A[j + 1] - 1] = d
      /\ \A p \in 1 .. L : SearchFrom(A[j]) <= p /\ p <= A[j + 1] - 2 /\ p < L => s[p] # d
      /\ \A i, l \in 1 .. m + 1 : i < l => A[i] < A[l]
      /\ \A i \in 1 .. m : A[i + 1] <= L => s[A[i + 1] - 1] = d
  BY DEF Cuts
<1>3. A[j] \in Nat /\ A[j + 1] \in Nat
  BY <1>2
<1>4. a > 1 => s[a - 1] = d
  <2> SUFFICES ASSUME a > 1 PROVE s[a - 1] = d
    OBVIOUS
  <2>1. j # 1
    BY <1>2
  <2>2. j - 1 \in 1 .. m /\ (j - 1) + 1 = j
    BY <2>1, <1>2
  <2> DEFINE i == j - 1
  <2>3. i \in 1 .. m /\ i + 1 = j
    BY <2>2
  <2> HIDE DEF i
  <2>4. A[i + 1] <= L
    BY <2>3, <1>2
  <2> QED
    BY <2>3, <2>4, <1>2
<1>5. a \in Nat /\ 1 <= a /\ b \in Int /\ a <= h /\ h <= b /\ b <= L /\ h \in Nat
  BY <1>1, <1>2, <1>3
<1>6. b < L => s[b + 1] = d
  <2> SUFFICES ASSUME b < L PROVE s[b + 1] = d
    OBVIOUS
  <2> DEFINE g == A[j + 1]
  <2>1. g \in Nat /\ g <= L + 2 /\ g # L + 1 /\ g - 2 < L
    BY <1>2, <1>3
  <2> HIDE DEF g, L
  <2>2. g <= L /\ g - 1 = (g - 2) + 1
    BY <2>1, <1>1
  <2> QED
    BY <2>2, <1>2 DEF g
<1>7. \A p \in 1 .. L : SearchFrom(a) <= p /\ p <= b /\ p < L => s[p] # d
  BY <1>2
<1>71. b \in Nat
  BY <1>5
<1> HIDE DEF L, a, b
<1> DEFINE T == {p \in a .. b : s[p] \notin BlankChars}
<1>8. T \subseteq Nat /\ T \subseteq 0 .. b /\ h \in T
  BY <1>5, <1>71
<1>9. PICK x \in T : \A p \in T : x <= p
  <2> HIDE DEF T
  <2> QED
    BY <1>8, Least
<1>10. PICK y \in T : \A p \in T : p <= y
  <2> HIDE DEF T
  <2> QED
    BY <1>8, <1>71, GreatestOf
<1>11. /\ x \in a .. b /\ y \in a .. b /\ s[x] \notin BlankChars /\ s[y] \notin BlankChars
       /\ \A p \in a .. b : s[p] \notin BlankChars => x <= p /\ p <= y
  BY <1>9, <1>10
<1>12. x <= y
  BY <1>11
<1> HIDE DEF T
<1>13. ASSUME NEW p \in a .. b, x <= p, p <= y PROVE s[p] \notin BlankChars
  <2> SUFFICES ASSUME s[p] \in BlankChars PROVE FALSE
    OBVIOUS
  <2>1. x < p /\ p < y
    <3>1. p # x /\ p # y
      BY <1>11
    <3> QED
      BY <3>1, <1>11, <1>13, <1>5
  <2>2. p \in 1 .. L /\ y \in 1 .. L /\ p <= y /\ SearchFrom(a) <= p /\ p <= b /\ p < L
    BY <2>1, <1>1, <1>5, <1>11 DEF SearchFrom
  <2>3. s[p] # d
    BY <2>2, <1>7
  <2>4. s[y] \in BlankChars
    BY <2>2, <2>3, <1>1 DEF L
  <2> QED
    BY <2>4, <1>11
<1>14. Holding(s, a, b, x, y)
  <2>1. ASSUME NEW p \in a .. b PROVE s[p] \in BlankChars <=> ~(x <= p /\ p <= y)
    BY <1>11, <1>13
  <2> QED
    BY <2>1, <1>5, <1>71, <1>11, <1>12 DEF Holding, L
<1>15. WordAt(s, x, y)
  <2>1. x \in 1 .. L /\ y \in x .. L
    BY <1>5, <1>11, <1>12, <1>1
  <2>2. ASSUME NEW p \in x .. y PROVE s[p] \notin BlankChars
    <3>1. p \in a .. b /\ x <= p /\ p <= y
      BY <1>5, <1>11
    <3> QED
      BY <3>1, <1>13
  <2>3. ASSUME x > 1 PROVE s[x - 1] \in BlankChars
    <3>1. CASE x = a
      BY <3>1, <2>3, <1>4, <1>1
    <3>2. CASE x # a
      <4>1. x - 1 \in a .. b /\ ~(x <= x - 1)
        BY <3>2, <1>5, <1>11
      <4> QED
        BY <4>1, <1>11
    <3> QED
      BY <3>1, <3>2
  <2>4. ASSUME y < L PROVE s[y + 1] \in BlankChars
    <3>1. CASE y = b
      BY <3>1, <2>4, <1>6, <1>1
    <3>2. CASE y # b
      <4>1. y + 1 \in a .. b /\ ~(y + 1 <= y)
        BY <3>2, <1>5, <1>11
      <4> QED
        BY <4>1, <1>11
    <3> QED
      BY <3>1, <3>2
  <2> QED
    BY <2>1, <2>2, <2>3, <2>4 DEF WordAt, L
<1> QED
  BY <1>14, <1>15 DEF InPart, a, b

\* A start in a part is the start of the word in it.
LEMMA OnlyStart ==
  ASSUME NEW s \in Seq(Token), NEW a, NEW b, NEW x, NEW y, Holding(s, a, b, x, y), NEW z \in Starts(s),
         a <= z, z <= b
  PROVE  z = x
<1> DEFINE L == Len(s)
<1>0. L \in Nat /\ DOMAIN s = 1 .. L
  OBVIOUS
<1>1. z \in 1 .. L /\ s[z] \notin BlankChars /\ (z > 1 => s[z - 1] \in BlankChars)
  BY <1>0 DEF Starts
<1>2. /\ a \in Nat \ {0} /\ b \in Nat /\ b <= L /\ x \in a .. b /\ y \in x .. b
      /\ \A p \in a .. b : s[p] \in BlankChars <=> ~(x <= p /\ p <= y)
  BY DEF Holding
<1> HIDE DEF L
<1>3. x <= z /\ z <= y
  BY <1>0, <1>1, <1>2
<1> SUFFICES ASSUME z # x PROVE FALSE
  OBVIOUS
<1>4. z > 1 /\ z - 1 \in a .. b /\ x <= z - 1 /\ z - 1 <= y
  BY <1>0, <1>1, <1>2, <1>3
<1> QED
  BY <1>1, <1>2, <1>4

\* The parts with something in them.
Full(P) == {j \in 1 .. Len(P) : ~Blank(P[j])}

\* They are the words.
WordsRead(s, P) ==
  /\ IsFiniteSet(Full(P)) /\ Full(P) \subseteq Nat
  /\ Len(Words(s)) = Cardinality(Full(P)) /\ DOMAIN Words(s) = 1 .. Cardinality(Full(P))
  /\ Cardinality(Full(P)) \in Nat
  /\ \A r \in 1 .. Cardinality(Full(P)) :
       /\ Nth(Full(P), r) \in Full(P)
       /\ Words(s)[r] = Stripped(P[Nth(Full(P), r)])
       /\ \E a, b : Padded(P[Nth(Full(P), r)], a, b)

\* The parts of a line with something in them are its words.
LEMMA WordsOfLine ==
  ASSUME NEW d, NEW s, LineOf(d, s), NEW P, NEW A, Cuts(d, s, 1, Len(P), A), PartsAt(s, P, A)
  PROVE  WordsRead(s, P)
<1> DEFINE B == Full(P)
           m == Len(P)
           L == Len(s)
           W(j, x) == \E y : InPart(s, A, j, x, y)
           X(j) == CHOOSE x : W(j, x)
           f == [j \in B |-> X(j)]
<1>1. s \in Seq(Token)
  BY DEF LineOf
<1>2. P \in Seq(Seq(Token)) /\ \A j \in 1 .. m : P[j] = SubSeq(s, A[j], A[j + 1] - 2)
  BY DEF PartsAt
<1>3. m \in Nat /\ L \in Nat
  BY <1>1, <1>2
<1>4. /\ A \in [1 .. m + 1 -> Nat] /\ A[1] = 1
      /\ \A j \in 1 .. m : 1 <= A[j] /\ A[j] <= L /\ A[j + 1] <= L + 2
      /\ \A j, l \in 1 .. m + 1 : j < l => A[j] < A[l]
      /\ \A h \in 1 .. L : s[h] \notin BlankChars => \E j \in 1 .. m : A[j] <= h /\ h <= A[j + 1] - 2
  BY <1>3 DEF Cuts
<1>5. B \subseteq Nat /\ IsFiniteSet(B) /\ \A j \in B : j \in 1 .. m /\ ~Blank(P[j])
  <2>1. B \subseteq 1 .. m /\ \A j \in B : j \in 1 .. m /\ ~Blank(P[j])
    BY DEF Full
  <2> HIDE DEF B, m
  <2> QED
    BY <2>1, <1>3, AllUpToLen
<1>6. ASSUME NEW j \in 1 .. m PROVE A[j] \in Nat /\ A[j + 1] \in Nat /\ A[j + 1] - 2 <= L /\ A[j] < A[j + 1] /\ 1 <= A[j] /\ A[j] <= L
  <2> HIDE DEF m, L
  <2>1. j \in 1 .. m + 1 /\ j + 1 \in 1 .. m + 1 /\ j < j + 1
    BY <1>3
  <2>2. A[j] \in Nat /\ A[j + 1] \in Nat /\ A[j] < A[j + 1] /\ A[j + 1] <= L + 2
    BY <2>1, <1>4
  <2> QED
    BY <2>2, <1>3, <1>4
<1>7. ASSUME NEW j \in B PROVE \E x, y : InPart(s, A, j, x, y)
  <2> DEFINE a == A[j]
             b == A[j + 1] - 2
  <2>1. j \in 1 .. m /\ ~Blank(P[j])
    BY <1>5
  <2>2. ~Blank(SubSeq(s, a, b))
    BY <2>1, <1>2
  <2>3. a \in Nat \ {0} /\ b \in Int /\ b <= L
    BY <2>1, <1>6
  <2>4. b \in Nat
    <3> SUFFICES ASSUME b = -1 PROVE FALSE
      BY <2>1, <2>3, <1>6
    <3>1. A[j] < 1
      BY <2>1, <1>6
    <3> QED
      BY <3>1, <2>3
  <2> HIDE DEF a, b
  <2>5. PICK h \in a .. b : s[h] \notin BlankChars
    BY <2>2, <2>3, <2>4, <1>1, PieceBlank
  <2>6. h \in 1 .. Len(s) /\ a <= h /\ h <= b
    BY <2>3, <2>4, <2>5, <1>3
  <2>7. A[j] <= h /\ h <= A[j + 1] - 2
    BY <2>6 DEF a, b
  <2> HIDE DEF B
  <2> QED
    BY <2>1, <2>5, <2>6, <2>7, PartWord
<1>8. ASSUME NEW j \in B PROVE \E y : InPart(s, A, j, f[j], y)
  <2>1. \E x : W(j, x)
    BY <1>7
  <2>2. W(j, CHOOSE x : W(j, x))
    BY <2>1, Zenon
  <2> QED
    BY <2>2, Zenon
<1>9. \A U : (\A j \in B : f[j] \in U) => f \in [B -> U]
  <2> HIDE DEF X, B
  <2> QED
    OBVIOUS
<1> HIDE DEF f, B, W, X, m, L
<1>10. ASSUME NEW j \in B
       PROVE  /\ f[j] \in Starts(s) /\ f[j] \in Nat /\ A[j] <= f[j] /\ f[j] < A[j + 1]
              /\ Stripped(P[j]) = SubSeq(s, f[j], Stop(s, f[j])) /\ \E a, b : Padded(P[j], a, b)
  <2>1. PICK y : InPart(s, A, j, f[j], y)
    BY <1>8, Zenon
  <2>2. Holding(s, A[j], A[j + 1] - 2, f[j], y) /\ WordAt(s, f[j], y)
    BY <2>1, Zenon DEF InPart
  <2>3. f[j] \in Starts(s) /\ Stop(s, f[j]) = y
    BY <2>2, <1>1, StopAt, Zenon
  <2>4. /\ Padded(SubSeq(s, A[j], A[j + 1] - 2), f[j] - A[j] + 1, y - A[j] + 1)
        /\ Stripped(SubSeq(s, A[j], A[j + 1] - 2)) = SubSeq(s, f[j], y)
    <3> DEFINE a == A[j]
               b == A[j + 1] - 2
               x == f[j]
    <3>1. Holding(s, a, b, x, y)
      BY <2>2
    <3> HIDE DEF a, b, x
    <3>2. /\ Padded(SubSeq(s, a, b), x - a + 1, y - a + 1)
          /\ Stripped(SubSeq(s, a, b)) = SubSeq(s, x, y)
      BY <3>1, <1>1, PieceHolding
    <3> QED
      BY <3>2, Zenon DEF a, b, x
  <2>5. j \in 1 .. m /\ P[j] = SubSeq(s, A[j], A[j + 1] - 2)
    BY <1>2, <1>5, Zenon
  <2>6. f[j] \in A[j] .. A[j + 1] - 2 /\ A[j] \in Nat /\ A[j + 1] \in Nat
    BY <2>2, <2>5, <1>6, Zenon DEF Holding
  <2>7. f[j] \in Nat /\ A[j] <= f[j] /\ f[j] < A[j + 1]
    BY <2>6
  <2>8. Stripped(P[j]) = SubSeq(s, f[j], Stop(s, f[j])) /\ \E a, b : Padded(P[j], a, b)
    BY <2>3, <2>4, <2>5, Zenon
  <2> QED
    BY <2>3, <2>7, <2>8
<1> DEFINE T == Starts(s)
<1>11. T \subseteq Nat
  <2>1. DOMAIN s = 1 .. L
    BY <1>1 DEF L
  <2> QED
    BY <2>1, <1>3 DEF Starts
<1>12. f \in [B -> T]
  <2>1. \A j \in B : f[j] \in T
    BY <1>10
  <2> HIDE DEF T
  <2> QED
    BY <2>1, <1>9, Zenon
<1>13. ASSUME NEW p \in B, NEW q \in B, p < q PROVE f[p] < f[q]
  <2>1. p \in 1 .. m /\ q \in 1 .. m
    BY <1>5
  <2>2. p + 1 \in 1 .. m + 1 /\ q \in 1 .. m + 1 /\ (p + 1 = q \/ p + 1 < q)
    BY <2>1, <1>3, <1>13
  <2>3. A[p + 1] \in Nat /\ A[q] \in Nat /\ (p + 1 < q => A[p + 1] < A[q])
    BY <2>2, <1>4
  <2>4. A[p + 1] <= A[q]
    BY <2>2, <2>3
  <2>5. f[p] \in Nat /\ f[q] \in Nat /\ f[p] < A[p + 1] /\ A[q] <= f[q]
    BY <1>10
  <2> QED
    BY <2>3, <2>4, <2>5
<1>14. ASSUME NEW z \in T PROVE \E p \in B : f[p] = z
  <2>1. z \in 1 .. L /\ s[z] \notin BlankChars
    BY <1>1 DEF Starts, L
  <2>2. PICK j \in 1 .. m : A[j] <= z /\ z <= A[j + 1] - 2
    BY <2>1, <1>4
  <2>3. PICK x, y : InPart(s, A, j, x, y)
    <3>1. z \in 1 .. Len(s)
      BY <2>1 DEF L
    <3> QED
      BY <2>1, <2>2, <3>1, PartWord DEF m
  <2>4. Holding(s, A[j], A[j + 1] - 2, x, y)
    BY <2>3, Zenon DEF InPart
  <2>5. ~Blank(SubSeq(s, A[j], A[j + 1] - 2))
    BY <2>4, <1>1, PieceHolding, Zenon
  <2>6. j \in B
    <3>1. ~Blank(P[j])
      BY <2>5, <1>2, Zenon
    <3> QED
      BY <3>1, Zenon DEF B, Full, m
  <2>7. PICK v : InPart(s, A, j, f[j], v)
    BY <2>6, <1>8, Zenon
  <2>8. Holding(s, A[j], A[j + 1] - 2, f[j], v)
    BY <2>7, Zenon DEF InPart
  <2>9. z = f[j]
    BY <2>2, <2>8, <1>1, OnlyStart, Zenon
  <2> QED
    BY <2>6, <2>9, Zenon
<1>15. /\ IsFiniteSet(T) /\ Cardinality(T) = Cardinality(B)
       /\ \A r \in 1 .. Cardinality(B) : \E p \in B : Nth(B, r) = p /\ Nth(T, r) = f[p]
  <2> HIDE DEF T
  <2> QED
    <3>1. B \subseteq Nat /\ IsFiniteSet(B)
      BY <1>5
    <3>2. \A p, q \in B : p < q => f[p] < f[q]
      BY <1>13
    <3>3. \A z \in T : \E p \in B : f[p] = z
      BY <1>14
    <3> QED
      <4>1. InOrder(f, B, T)
        BY <3>1, <3>2, <3>3, <1>11, <1>12, Zenon DEF InOrder
      <4> QED
        BY <4>1, NthImage, SMT
<1>16. Cardinality(B) \in Nat
  BY <1>5, FS_CardinalityType
<1> DEFINE n == Cardinality(B)
           w == [r \in 1 .. n |-> SubSeq(s, Nth(T, r), Stop(s, Nth(T, r)))]
<1>17. Words(s) = w
  BY <1>15, Zenon DEF Words
<1>18. DOMAIN w = 1 .. n /\ Len(w) = n
  <2> HIDE DEF n
  <2>1. n \in Nat
    BY <1>16 DEF n
  <2> QED
    BY <2>1
<1>19. ASSUME NEW r \in 1 .. n
       PROVE  /\ Nth(B, r) \in B /\ w[r] = Stripped(P[Nth(B, r)])
              /\ \E a, b : Padded(P[Nth(B, r)], a, b)
  <2>1. w[r] = SubSeq(s, Nth(T, r), Stop(s, Nth(T, r)))
    BY Zenon
  <2>2. PICK p \in B : Nth(B, r) = p /\ Nth(T, r) = f[p]
    BY <1>15
  <2> QED
    BY <2>1, <2>2, <1>10, Zenon
<1> HIDE DEF w, T
<1> QED
  BY <1>5, <1>16, <1>17, <1>18, <1>19, Zenon DEF WordsRead, B

\* Something that is not blank remains when it is stripped.
LEMMA SomethingLeft ==
  ASSUME NEW t \in Seq(Token) PROVE Stripped(t) = <<>> <=> Blank(t)
<1>1. Blank(t) => Stripped(t) = <<>>
  BY StrippedBlank
<1>2. ASSUME ~Blank(t) PROVE Stripped(t) # <<>>
  <2> DEFINE S == {p \in 1 .. Len(t) : t[p] \notin BlankChars}
  <2>1. S # {} /\ S \subseteq Nat
    BY <1>2 DEF Blank
  <2>2. PICK q \in S : \A p \in S : q <= p
    <3> HIDE DEF S
    <3> QED
      BY <2>1, Least
  <2>3. q \in 1 .. Len(t) /\ t[q] \notin BlankChars
    BY <2>2
  <2>4. ASSUME NEW j \in 1 .. q - 1 PROVE t[j] \in BlankChars
    <3>1. j \in 1 .. Len(t) /\ ~(q <= j)
      <4>1. Len(t) \in Nat
        OBVIOUS
      <4> QED
        BY <4>1, <2>3
    <3> QED
      BY <3>1, <2>2
  <2> QED
    BY <2>3, <2>4, StrippedFirst
<1> QED
  BY <1>1, <1>2

\* A line of HAVING, cut at its spaces.
LEMMA EmptyLine ==
  ASSUME NEW d \in Token PROVE Exploded(<<d>>, <<>>).parts = <<>> /\ Words(<<>>) = <<>>
<1>1. <<d>> \in Seq(Token) /\ 0 < Len(<<d>>) /\ <<>> \in Seq(Token) /\ 1 \in 1 .. Len(<<>>) + 1
  OBVIOUS
<1> DEFINE q == <<d>>
           s == <<>>
           e == FromFn(q, s)[1]
<1>2. e = IF Hits(q, s, 1) # {}
          THEN [how   |-> FromFn(q, s)[NextStart(q, s, 1)].how,
                parts |-> <<FirstPart(q, s, 1)>> \o FromFn(q, s)[NextStart(q, s, 1)].parts]
          ELSE Ending(q, s, 1)
  <2> HIDE DEF q, s
  <2> QED
    BY <1>1, FromFnExists DEF q, s
<1>3. Hits(q, s, 1) = {}
  <2>1. Len(s) - Len(q) = -1
    OBVIOUS
  <2> HIDE DEF s, q
  <2> QED
    BY <2>1 DEF Hits
<1>4. Len(SubSeq(s, 1, Len(s))) < Len(q)
  OBVIOUS
<1>5. Ending(q, s, 1).parts = <<>>
  BY <1>4, Zenon DEF Ending
<1>6. e.parts = <<>>
  BY <1>2, <1>3, <1>5, Zenon
<1>7. Exploded(q, s).parts = <<>>
  BY <1>6, ExplodedIsFrom, Zenon
<1>8. Starts(s) = {}
  BY DEF Starts
<1>9. Cardinality(Starts(s)) = 0
  BY <1>8, FS_EmptySet
<1>10. Words(s) = [r \in 1 .. 0 |-> LET p == Nth(Starts(s), r) IN SubSeq(s, p, Stop(s, p))]
  BY <1>9, Zenon DEF Words
<1>11. Words(s) = <<>>
  BY <1>10
<1> QED
  BY <1>7, <1>11

\* HAVING: the words are the parts explode returns.
LEMMA LineWords ==
  ASSUME NEW s \in Seq(Token), OneLine(s)
  PROVE  WordsRead(s, Exploded(<<" ">>, s).parts)
<1> DEFINE P == Exploded(<<" ">>, s).parts
<1>1. CASE s = <<>>
  <2>1. P = <<>> /\ Words(s) = <<>>
    <3>1. " " \in Token
      BY Characters
    <3> QED
      BY <3>1, <1>1, EmptyLine, Zenon
  <2> HIDE DEF P
  <2>2. Full(P) = {} /\ Len(Words(s)) = 0 /\ DOMAIN Words(s) = 1 .. 0
    BY <2>1 DEF Full
  <2>3. IsFiniteSet({}) /\ Cardinality({}) = 0
    BY FS_EmptySet
  <2>4. \A r : r \in 1 .. 0 => FALSE
    OBVIOUS
  <2>5. WordsRead(s, P)
    BY <2>2, <2>3, <2>4 DEF WordsRead
  <2> QED
    BY <2>5 DEF P
<1>2. CASE s # <<>>
  <2>1. " " \in Token /\ " " \in BlankChars
    BY Characters
  <2>2. LineOf(" ", s)
    BY OneLineOf
  <2>3. CutFrom(" ", s, 1)
    BY <2>1, <1>2, LineCut, Zenon
  <2>4. P = FromFn(<<" ">>, s)[1].parts
    BY <2>1, ExplodedTypes, Zenon
  <2>5. PICK A : Cuts(" ", s, 1, Len(P), A) /\ PartsAt(s, P, A)
    BY <2>3, <2>4, Zenon DEF CutFrom
  <2> HIDE DEF P
  <2>6. WordsRead(s, P)
    BY <2>2, <2>5, WordsOfLine, Zenon
  <2> QED
    BY <2>6 DEF P
<1> QED
  BY <1>1, <1>2

\* A token between two texts.
LEMMA Between ==
  ASSUME NEW f \in Seq(Token), NEW c \in Seq(Token), NEW d \in Token
  PROVE  (f \o <<d>>) \o c \in Seq(Token) /\ Holds((f \o <<d>>) \o c, d)
<1> DEFINE v == (f \o <<d>>) \o c
<1>1. v \in Seq(Token) /\ v[Len(f) + 1] = d /\ Len(f) + 1 \in 1 .. Len(v) /\ DOMAIN v = 1 .. Len(v)
  OBVIOUS
<1> HIDE DEF v
<1>2. Holds(v, d)
  BY <1>1, Zenon DEF Holds
<1> QED
  BY <1>1, <1>2 DEF v

\* A part of the line and what parse_having makes of it.
LEMMA ItemSeen ==
  ASSUME NEW t \in Seq(Token), isAggregate(t) => ~AggregateThrows(t)
  PROVE  Stripped(HavingItem(t).text) = <<>> <=> Blank(t)
<1>1. CASE ~isAggregate(t)
  <2>1. HavingItem(t).text = t
    BY <1>1, Zenon DEF HavingItem
  <2> QED
    BY <2>1, SomethingLeft
<1>2. CASE isAggregate(t)
  <2>1. HavingItem(t).text = toVar(Aggregate(t))
    BY <1>2, Zenon DEF HavingItem
  <2>2. Aggregate(t) \in AggregateObjects
    BY <1>2, AggregateTyped
  <2> DEFINE f == Aggregate(t).func
             c == Aggregate(t).column
             v == toVar(Aggregate(t))
  <2>3. f \in Seq(Token) /\ c \in Seq(Token)
    BY <2>2 DEF AggregateObjects, Texts
  <2>4. v = (f \o <<"_">>) \o c
    BY Zenon DEF toVar
  <2> HIDE DEF f, c, v
  <2>5. "_" \in Token /\ "_" \notin BlankChars
    BY Characters
  <2>6. v \in Seq(Token) /\ Holds(v, "_")
    BY <2>3, <2>4, <2>5, Between, Zenon
  <2>7. ~Blank(v)
    BY <2>5, <2>6, HeldIsSeen
  <2>8. ~Blank(t)
    <3>1. Holds(t, "_")
      BY <1>2 DEF isAggregate
    <3> QED
      BY <3>1, <2>5, HeldIsSeen
  <2>9. Stripped(v) # <<>>
    BY <2>6, <2>7, SomethingLeft
  <2> QED
    BY <2>1, <2>8, <2>9 DEF v
<1> QED
  BY <1>1, <1>2

\* The part t of the line stands behind word r.
WordOf(t, r) ==
  /\ t \in Range(HavingParts) /\ t \in Seq(Token) /\ (\E a, b : Padded(t, a, b))
  /\ Words(input.G)[r] = Stripped(t) /\ Seen[r] = HavingItem(t)

\* What g++ sees of HAVING is a part for each word.
LEMMA SeenRead ==
  ASSUME input \in Queries, OneLine(input.G), ~HavingThrows,
         having = IF input.G = <<>> THEN <<>>
                  ELSE [j \in DOMAIN HavingParts |-> HavingItem(HavingParts[j])]
  PROVE  /\ Len(Seen) = Len(Words(input.G)) /\ Len(Seen) \in Nat
         /\ DOMAIN Seen = 1 .. Len(Seen) /\ DOMAIN Words(input.G) = 1 .. Len(Seen)
         /\ \A r \in 1 .. Len(Seen) : \E t : WordOf(t, r)
<1> DEFINE P == HavingParts
           B == Full(P)
           n == Cardinality(B)
<1>1. input.G \in Seq(Token)
  BY QueryFields, Zenon DEF Texts
<1>2. P \in Seq(Seq(Token))
  BY <1>1, ExplodedTypes, Characters, Zenon DEF HavingParts
<1>3. WordsRead(input.G, P)
  BY <1>1, LineWords, Zenon DEF HavingParts
<1>4. having = [j \in DOMAIN P |-> HavingItem(P[j])]
  <2>1. CASE input.G = <<>>
    <3>1. P = <<>>
      BY <2>1, EmptyLine, Characters, Zenon DEF HavingParts
    <3>2. having = <<>>
      BY <2>1
    <3> HIDE DEF P
    <3>3. [j \in DOMAIN P |-> HavingItem(P[j])] = <<>>
      BY <3>1
    <3> QED
      BY <3>2, <3>3 DEF P
  <2>2. CASE input.G # <<>>
    BY <2>2, Zenon
  <2> QED
    BY <2>1, <2>2
<1> HIDE DEF P
<1>5. DOMAIN having = 1 .. Len(P) /\ DOMAIN P = 1 .. Len(P)
  BY <1>2, <1>4
<1>6. ASSUME NEW j \in 1 .. Len(P)
      PROVE  P[j] \in Seq(Token) /\ P[j] \in Range(P) /\ having[j] = HavingItem(P[j])
  <2>1. P[j] \in Seq(Token) /\ j \in DOMAIN P
    BY <1>2
  <2> QED
    BY <2>1, <1>4, Zenon DEF Range
<1>7. ASSUME NEW j \in 1 .. Len(P) PROVE Stripped(having[j].text) = <<>> <=> Blank(P[j])
  <2>1. isAggregate(P[j]) => ~AggregateThrows(P[j])
    BY <1>6, Zenon DEF HavingThrows, P
  <2>2. Stripped(HavingItem(P[j]).text) = <<>> <=> Blank(P[j])
    BY <2>1, <1>6, ItemSeen, Zenon
  <2> QED
    BY <2>2, <1>6, Zenon
<1>8. SeenParts = B
  <2>1. \A j : j \in SeenParts <=> j \in 1 .. Len(P) /\ Stripped(having[j].text) # <<>>
    BY <1>5, Zenon DEF SeenParts
  <2>2. \A j : j \in B <=> j \in 1 .. Len(P) /\ ~Blank(P[j])
    BY Zenon DEF Full
  <2>3. \A j : j \in SeenParts <=> j \in B
    BY <2>1, <2>2, <1>7, Zenon
  <2> HIDE DEF B
  <2> QED
    BY <2>3
<1>9. /\ Len(Words(input.G)) = n /\ DOMAIN Words(input.G) = 1 .. n /\ n \in Nat
      /\ \A r \in 1 .. n : /\ Nth(B, r) \in B
                           /\ Words(input.G)[r] = Stripped(P[Nth(B, r)])
                           /\ \E a, b : Padded(P[Nth(B, r)], a, b)
  BY <1>3, Zenon DEF WordsRead
<1> HIDE DEF B
<1> DEFINE g == [r \in 1 .. n |-> having[Nth(B, r)]]
<1>10. Seen = g
  <2>1. Seen = [r \in 1 .. Cardinality(SeenParts) |-> having[Nth(SeenParts, r)]]
    BY Zenon DEF Seen
  <2> QED
    BY <2>1, <1>8, SMT
<1>11. DOMAIN g = 1 .. n /\ Len(g) = n
  <2> HIDE DEF n
  <2>1. n \in Nat
    BY <1>9
  <2> QED
    BY <2>1
<1>12. ASSUME NEW r \in 1 .. n PROVE WordOf(P[Nth(B, r)], r)
  <2> DEFINE t == P[Nth(B, r)]
  <2>1. Nth(B, r) \in 1 .. Len(P)
    BY <1>9, Zenon DEF B, Full
  <2>2. t \in Seq(Token) /\ t \in Range(P) /\ having[Nth(B, r)] = HavingItem(t)
    BY <2>1, <1>6, Zenon
  <2>3. g[r] = having[Nth(B, r)]
    BY Zenon
  <2>4. Seen[r] = HavingItem(t)
    BY <2>2, <2>3, <1>10, Zenon
  <2>5. Words(input.G)[r] = Stripped(t) /\ \E a, b : Padded(t, a, b)
    BY <1>9, Zenon
  <2> HIDE DEF t
  <2> QED
    BY <2>2, <2>4, <2>5, Zenon DEF WordOf, P, t
<1> HIDE DEF g, n
<1> QED
  BY <1>9, <1>10, <1>11, <1>12, Zenon

\* "AVG" is not the function of an aggregate that is named as the tests name them.
LEMMA AverageFunc ==
  ASSUME NEW o \in Objects
  PROVE  (o.func \in {<<"avg">>, <<"AVG">>}) = (o.func = <<"avg">>)
<1>1. PICK f \in Funcs : o.func = <<f>>
  BY DEF Objects
<1>2. f # "AVG"
  BY DEF Funcs
<1>3. <<f>> # <<"AVG">>
  <2>1. \A x, y : <<x>> = <<y>> => x = y
    <3> SUFFICES ASSUME NEW x, NEW y, <<x>> = <<y>> PROVE x = y
      OBVIOUS
    <3>1. <<x>>[1] = x /\ <<y>>[1] = y
      OBVIOUS
    <3> QED
      BY <3>1
  <2> QED
    BY <2>1, <1>2, Zenon
<1>4. o.func # <<"AVG">>
  BY <1>1, <1>3, Zenon
<1>5. \A u, v, x : x # v => (x \in {u, v}) = (x = u)
  OBVIOUS
<1> DEFINE u == <<"avg">>
           v == <<"AVG">>
<1>6. o.func # v
  BY <1>4
<1> HIDE DEF u, v
<1>7. (o.func \in {u, v}) = (o.func = u)
  BY <1>5, <1>6
<1> QED
  BY <1>7 DEF u, v

\* Stripping leaves the underscores.
LEMMA Underscored ==
  ASSUME NEW t, NEW a, NEW b, Padded(t, a, b)
  PROVE  isAggregate(Stripped(t)) <=> isAggregate(t)
<1>1. t \in Seq(Token) /\ a \in Nat \ {0} /\ b \in Nat /\ a <= b /\ b <= Len(t)
  BY DEF Padded
<1>2. Stripped(t) = SubSeq(t, a, b)
  BY StrippedPadded
<1>3. "_" \notin BlankChars
  BY Characters
<1>4. isAggregate(t) => isAggregate(Stripped(t))
  BY <1>1, <1>3, HeldIsSeen DEF isAggregate
<1>5. ASSUME NEW d, Holds(SubSeq(t, a, b), d) PROVE Holds(t, d)
  <2>1. /\ DOMAIN SubSeq(t, a, b) = 1 .. (IF a <= b THEN b - a + 1 ELSE 0)
        /\ \A j \in 1 .. b - a + 1 : SubSeq(t, a, b)[j] = t[a + j - 1]
    BY <1>1, Piece
  <2>2. PICK j \in DOMAIN SubSeq(t, a, b) : SubSeq(t, a, b)[j] = d
    BY <1>5, Zenon DEF Holds
  <2> DEFINE e == SubSeq(t, a, b)[j]
             n == Len(t)
  <2>3. j \in 1 .. (IF a <= b THEN b - a + 1 ELSE 0) /\ (j \in 1 .. b - a + 1 => e = t[a + j - 1])
    BY <2>1, <2>2
  <2>4. n \in Nat /\ b <= n /\ DOMAIN t = 1 .. n
    BY <1>1
  <2> HIDE DEF e, n
  <2>5. a + j - 1 \in DOMAIN t /\ e = t[a + j - 1]
    BY <2>3, <2>4, <1>1
  <2>6. e = d
    BY <2>2 DEF e
  <2> QED
    BY <2>5, <2>6, Zenon DEF Holds
<1>6. isAggregate(Stripped(t)) => isAggregate(t)
  BY <1>2, <1>5, Zenon DEF isAggregate
<1> QED
  BY <1>4, <1>6

\* `=` is no operand.
LEMMA OneEqual == ~isAggregate(<<"=">>) /\ ~NumberCompiles(<<"=">>)
<1> DEFINE x == "="
           v == <<x>>
<1>1. x \in Punctuation /\ x # "_" /\ x \notin {"+", "-"}
  BY DEF Punctuation, OperatorChars
<1>2. x \notin DOMAIN Number
  BY <1>1, NumberAssumption
<1> HIDE DEF x
<1>3. v # <<>> /\ v[1] = x /\ DOMAIN v = {1}
  OBVIOUS
<1> HIDE DEF v
<1>4. ~isAggregate(v)
  BY <1>1, <1>3, Zenon DEF isAggregate, Holds
<1>5. ~NumberCompiles(v)
  BY <1>1, <1>2, <1>3, Zenon DEF NumberCompiles
<1> QED
  BY <1>4, <1>5 DEF v, x

\* A program that compiles evaluates HAVING word by word; `=` sets the aggregate
\* before it, which is no average.
THEOREM HavingRead == Spec => []HavingAsWritten
<1>1. ASSUME Inv PROVE HavingAsWritten
  <2> SUFFICES ASSUME pc = "accepted", OneLine(input.G) PROVE HavingAsWritten
    BY DEF HavingAsWritten
  <2> DEFINE w == Words(input.G)
             n == Len(Seen)
  <2>1. pc \in HavingDone /\ pc \in AggregatesDone
    BY PhaseFacts
  <2>2. input \in Queries
    BY <1>1 DEF Inv, InvPhase
  <2>3. /\ ~HavingThrows
        /\ having = IF input.G = <<>> THEN <<>>
                    ELSE [j \in DOMAIN HavingParts |-> HavingItem(HavingParts[j])]
        /\ HavingCompiles
    BY <1>1, <2>1, Zenon DEF Inv, InvEnd, Compiles
  <2>4. /\ n = Len(w) /\ n \in Nat /\ DOMAIN Seen = 1 .. n /\ DOMAIN w = 1 .. n
        /\ \A r \in 1 .. n : \E t : WordOf(t, r)
    BY <2>2, <2>3, SeenRead, Zenon
  <2>5. \A j \in DOMAIN Seen :
           IF j % 2 = 0
           THEN /\ Seen[j].kind = "copied" /\ Stripped(Seen[j].text) \in HavingOperators
                /\ Stripped(Seen[j].text) = <<"=">> => AssignmentCompiles(Seen, j)
           ELSE \/ Seen[j].kind = "copied" /\ NumberCompiles(Stripped(Seen[j].text))
                \/ Seen[j].kind = "aggregate"
                     /\ FieldCompiles(HavingField(Seen[j]), Seen[j].call)
    BY <2>3, Zenon DEF HavingCompiles
  <2> HIDE DEF w, n
  <2>6. ASSUME NEW j \in 1 .. n
        PROVE  /\ ~isAggregate(w[j]) => Seen[j].kind = "copied" /\ Stripped(Seen[j].text) = w[j]
               /\ isAggregate(w[j]) => Seen[j].kind = "aggregate"
               /\ isAggregate(w[j]) /\ ~Misnamed(w[j]) =>
                    /\ Seen[j].kind = "aggregate"
                    /\ \E a \in Named(w[j]) : /\ HavingField(Seen[j]) = Field(a)
                                              /\ Seen[j].call = (a.func = <<"avg">>)
    <3>1. PICK t : WordOf(t, j)
      BY <2>4, Zenon
    <3>2. /\ t \in Range(HavingParts) /\ t \in Seq(Token) /\ w[j] = Stripped(t)
          /\ Seen[j] = HavingItem(t)
      BY <3>1, Zenon DEF WordOf, w
    <3>3. isAggregate(w[j]) <=> isAggregate(t)
      <4>1. PICK a, b : Padded(t, a, b)
        BY <3>1, Zenon DEF WordOf
      <4>2. isAggregate(Stripped(t)) <=> isAggregate(t)
        BY <4>1, Underscored, Zenon
      <4> QED
        BY <4>2, <3>2, Zenon
    <3>4. CASE ~isAggregate(t)
      <4>1. /\ HavingItem(t).kind = (IF isColumn(t) THEN "column" ELSE "copied")
            /\ HavingItem(t).text = t
        BY <3>4, Zenon DEF HavingItem
      <4>2. Seen[j].kind \in {"column", "copied"} /\ Stripped(Seen[j].text) = w[j]
        BY <4>1, <3>2, Zenon
      <4>3. Seen[j].kind \in {"copied", "aggregate"}
        BY <2>4, <2>5, Zenon
      <4>4. Seen[j].kind = "copied"
        BY <4>2, <4>3
      <4> QED
        BY <4>2, <4>4, <3>3, <3>4, Zenon
    <3>5. CASE isAggregate(t) /\ ~Misnamed(w[j])
      <4> DEFINE o == Aggregate(t)
                 s == Seen[j]
                 call == (o.func \in {<<"avg">>, <<"AVG">>})
      <4>1. HavingItem(t) = [kind |-> "aggregate", group |-> o.group, text |-> toVar(o), call |-> call]
        BY <3>5, Zenon DEF HavingItem
      <4>2. s.kind = "aggregate" /\ s.group = o.group /\ s.text = toVar(o)
        <5> DEFINE v == toVar(o)
        <5>1. Seen[j] = [kind |-> "aggregate", group |-> o.group, text |-> v, call |-> call]
          BY <4>1, <3>2, Zenon
        <5> HIDE DEF o, v, call
        <5>2. Seen[j].kind = "aggregate" /\ Seen[j].group = o.group /\ Seen[j].text = v
          BY <5>1
        <5> QED
          BY <5>2 DEF v
      <4>3. HavingField(s) = Field(o)
        BY <4>2, Zenon DEF HavingField, Field
      <4>4. s.kind # "copied"
        BY <4>2
      <4>5. FieldCompiles(HavingField(s), s.call)
        BY <4>4, <2>4, <2>5, Zenon
      <4>6. PICK b \in Range(all_aggregates) :
              Field(b) = HavingField(s) /\ s.call = (b.func \in {<<"avg">>, <<"AVG">>})
        BY <4>5, Zenon DEF FieldCompiles
      <4>7. ~AggregateThrows(t)
        BY <2>3, <3>2, <3>5, Zenon DEF HavingThrows
      <4>8. Field(b) = Field(Aggregate(t)) /\ ~Misnamed(Stripped(t))
        BY <4>3, <4>6, <3>2, <3>5, Zenon
      <4>9. b \in Objects /\ b \in Named(Stripped(t))
        BY <1>1, <2>1, <3>2, <3>5, <4>7, <4>8, FieldNamed, Zenon
      <4>10. s.call = (b.func = <<"avg">>)
        BY <4>6, <4>9, AverageFunc, Zenon
      <4>11. b \in Named(w[j]) /\ HavingField(s) = Field(b)
        BY <4>6, <4>9, <3>2, Zenon
      <4> HIDE DEF o, call
      <4> QED
        BY <4>2, <4>10, <4>11, <3>3, <3>5, Zenon
    <3>6. CASE isAggregate(t) /\ Misnamed(w[j])
      <4>1. HavingItem(t).kind = "aggregate"
        BY <3>6 DEF HavingItem
      <4> QED
        BY <4>1, <3>2, <3>3, <3>6, Zenon
    <3> QED
      BY <3>4, <3>5, <3>6
  <2>7. ASSUME NEW j \in 1 .. n, w[j] = <<"=">>
        PROVE  /\ j > 1 /\ isAggregate(w[j - 1]) /\ (j > 2 => w[j - 2] = <<"=">>)
               /\ ~Misnamed(w[j - 1]) => \E a \in Named(w[j - 1]) : a.func # <<"avg">>
    <3>1. ~isAggregate(<<"=">>) /\ ~NumberCompiles(<<"=">>)
      BY OneEqual
    <3>2. Seen[j].kind = "copied" /\ Stripped(Seen[j].text) = <<"=">>
      BY <2>6, <2>7, <3>1, Zenon
    <3>3. "copied" # "aggregate"
      OBVIOUS
    <3>4. j % 2 = 0 /\ AssignmentCompiles(Seen, j)
      BY <2>4, <2>5, <3>1, <3>2, <3>3, Zenon
    <3>5. j \in 1 .. n /\ n \in Nat /\ j % 2 = 0
      BY <2>4, <3>4
    <3>6. j > 1 /\ j - 1 \in 1 .. n /\ (j > 2 => j - 2 \in 1 .. n /\ (j - 2) % 2 = 0)
      BY ONLY <3>5
    <3>7. /\ Seen[j - 1].kind = "aggregate" /\ ~Seen[j - 1].call
          /\ j > 2 => Stripped(Seen[j - 2].text) = <<"=">>
      BY <3>4, Zenon DEF AssignmentCompiles
    <3>8. isAggregate(w[j - 1])
      BY <2>6, <3>3, <3>6, <3>7, Zenon
    <3>9. ASSUME j > 2 PROVE w[j - 2] = <<"=">>
      <4>1. Seen[j - 2].kind = "copied"
        BY <2>4, <2>5, <3>6, <3>9, Zenon
      <4> QED
        BY <4>1, <2>6, <3>3, <3>6, <3>7, <3>9, Zenon
    <3>10. ASSUME ~Misnamed(w[j - 1]) PROVE \E a \in Named(w[j - 1]) : a.func # <<"avg">>
      BY <2>6, <3>6, <3>7, <3>8, <3>10, Zenon
    <3> QED
      BY <3>6, <3>8, <3>9, <3>10, Zenon
  <2> QED
    BY <2>4, <2>6, <2>7, Zenon DEF HavingAsWritten, w, n
<1> QED
  BY <1>1, Invariant, PTL

-----------------------------------------------------------------------------
(***************************************************************************)
(* Conditions: the quotes and the operator.                                *)
(***************************************************************************)
\* Replacing quotes leaves the other tokens as they are.
LEMMA QuotesHeld ==
  ASSUME NEW t \in Seq(Token)
  PROVE  /\ Holds(QuotesReplaced(t), "\"") <=> Holds(t, "'") \/ Holds(t, "\"")
         /\ \A c : c # "'" /\ c # "\"" => (Holds(QuotesReplaced(t), c) <=> Holds(t, c))
         /\ ~Holds(t, "'") => QuotesReplaced(t) = t
<1> DEFINE q == "\""
           e == "'"
           r == QuotesReplaced(t)
           n == Len(t)
<1>1. /\ r \in Seq(Token) /\ Len(r) = n /\ DOMAIN r = 1 .. n /\ DOMAIN t = 1 .. n
      /\ \A p \in 1 .. n : r[p] = IF t[p] = e THEN q ELSE t[p]
  <2>1. r \in Seq(Token) /\ Len(r) = n /\ \A p \in 1 .. n : r[p] = IF t[p] = e THEN q ELSE t[p]
    BY QuotesTyped
  <2> HIDE DEF r, q, e
  <2> QED
    BY <2>1
<1>2. q # e
  OBVIOUS
<1> HIDE DEF q, e, r
<1>3. Holds(r, q) <=> Holds(t, e) \/ Holds(t, q)
  BY <1>1, <1>2, Zenon DEF Holds
<1>4. \A c : c # e /\ c # q => (Holds(r, c) <=> Holds(t, c))
  BY <1>1, <1>2, Zenon DEF Holds
<1>5. ASSUME ~Holds(t, e) PROVE r = t
  <2>1. \A p \in 1 .. n : r[p] = t[p]
    BY <1>1, <1>5, Zenon DEF Holds
  <2> QED
    BY <1>1, <2>1, SameText
<1> QED
  BY <1>3, <1>4, <1>5 DEF q, e, r

\* The blanks are where they were.
LEMMA QuotesPadded ==
  ASSUME NEW t \in Seq(Token)
  PROVE  /\ Blank(t) => Blank(QuotesReplaced(t))
         /\ \A a, b : Padded(t, a, b) =>
              /\ Padded(QuotesReplaced(t), a, b)
              /\ Stripped(QuotesReplaced(t)) = QuotesReplaced(SubSeq(t, a, b))
<1> DEFINE q == "\""
           e == "'"
           r == QuotesReplaced(t)
           n == Len(t)
<1>1. /\ r \in Seq(Token) /\ Len(r) = n
      /\ \A p \in 1 .. n : r[p] = IF t[p] = e THEN q ELSE t[p]
  BY QuotesTyped
<1>2. q \notin BlankChars /\ e \notin BlankChars /\ n \in Nat
  <2>1. n \in Nat
    OBVIOUS
  <2> QED
    BY <2>1, Characters, Zenon
<1> HIDE DEF q, e, r
<1>3. \A p \in 1 .. n : r[p] \in BlankChars <=> t[p] \in BlankChars
  BY <1>1, <1>2, Zenon
<1>4. Blank(t) => Blank(r)
  <2>1. DOMAIN t = 1 .. n /\ DOMAIN r = 1 .. n
    BY <1>1
  <2> QED
    BY <2>1, <1>3, Zenon DEF Blank
<1>5. ASSUME NEW a, NEW b, Padded(t, a, b)
      PROVE  Padded(r, a, b) /\ Stripped(r) = QuotesReplaced(SubSeq(t, a, b))
  <2>1. /\ a \in Nat \ {0} /\ b \in Nat /\ a <= b /\ b <= n
        /\ \A p \in 1 .. n : t[p] \in BlankChars <=> ~(a <= p /\ p <= b)
    BY <1>5 DEF Padded
  <2>2. Padded(r, a, b)
    BY <2>1, <1>1, <1>3 DEF Padded
  <2>3. Stripped(r) = SubSeq(r, a, b)
    BY <2>2, StrippedPadded
  <2> DEFINE u == SubSeq(t, a, b)
             v == SubSeq(r, a, b)
             m == b - a + 1
  <2>4. u \in Seq(Token) /\ Len(u) = m /\ \A j \in 1 .. m : u[j] = t[a + j - 1]
    BY <2>1, Piece
  <2>5. v \in Seq(Token) /\ Len(v) = m /\ \A j \in 1 .. m : v[j] = r[a + j - 1]
    BY <2>1, <1>1, Piece
  <2> HIDE DEF u, v
  <2>6. /\ QuotesReplaced(u) \in Seq(Token) /\ Len(QuotesReplaced(u)) = Len(u)
        /\ \A p \in 1 .. Len(u) : QuotesReplaced(u)[p] = IF u[p] = e THEN q ELSE u[p]
    BY <2>4, QuotesTyped DEF e, q
  <2>7. m \in Nat /\ \A j \in 1 .. m : a + j - 1 \in 1 .. n
    BY <2>1, <1>2
  <2> HIDE DEF m, n
  <2> DEFINE x == QuotesReplaced(u)
  <2>8. x \in Seq(Token) /\ Len(x) = m /\ \A p \in 1 .. m : x[p] = IF u[p] = e THEN q ELSE u[p]
    BY <2>4, <2>6
  <2> HIDE DEF x
  <2>9. ASSUME NEW j \in 1 .. m PROVE x[j] = v[j]
    BY <2>4, <2>5, <2>7, <2>8, <1>1, Zenon
  <2>10. x = v
    BY <2>5, <2>8, <2>9, SameText
  <2> QED
    BY <2>2, <2>3, <2>10 DEF u, v, x
<1> QED
  BY <1>4, <1>5 DEF r

\* Two tokens that are one operator.
Pair(x, y) == <<x, y>> \in LongOperators

\* Both are operator characters.
LEMMA PairFacts ==
  ASSUME NEW x, NEW y, Pair(x, y)
  PROVE  x \in OperatorChars /\ y \in OperatorChars
<1>1. \A u, v : <<x, y>> = <<u, v>> => x = u /\ y = v
  <2> SUFFICES ASSUME NEW u, NEW v, <<x, y>> = <<u, v>> PROVE x = u /\ y = v
    OBVIOUS
  <2> QED
    BY Tuples
<1>2. \/ <<x, y>> = <<"<", "=">> \/ <<x, y>> = <<">", "=">> \/ <<x, y>> = <<"!", "=">>
      \/ <<x, y>> = <<"<", ">">>
  BY Zenon DEF Pair, LongOperators
<1> QED
  BY <1>1, <1>2, Zenon DEF OperatorChars

\* A piece of two tokens.
LEMMA TwoTokens ==
  ASSUME NEW t \in Seq(Token), NEW x \in 1 .. Len(t), x + 1 <= Len(t)
  PROVE  SubSeq(t, x, x + 1) = <<t[x], t[x + 1]>>
<1> DEFINE b == x + 1
           y == t[x]
           z == t[x + 1]
<1>1. x \in Nat \ {0} /\ b \in Nat /\ b <= Len(t) /\ x <= b /\ b - x + 1 = 2 /\ y \in Token /\ z \in Token
  OBVIOUS
<1>2. /\ SubSeq(t, x, b) \in Seq(Token)
      /\ Len(SubSeq(t, x, b)) = (IF x <= b THEN b - x + 1 ELSE 0)
      /\ \A j \in 1 .. b - x + 1 : SubSeq(t, x, b)[j] = t[x + j - 1]
  <2> HIDE DEF b
  <2> QED
    BY <1>1, Piece
<1> DEFINE s == SubSeq(t, x, b)
<1>3. s \in Seq(Token) /\ Len(s) = 2 /\ s[1] = y /\ s[2] = z
  BY <1>1, <1>2
<1> HIDE DEF s, y, z
<1>4. <<y, z>> \in Seq(Token) /\ Len(<<y, z>>) = 2 /\ <<y, z>>[1] = y /\ <<y, z>>[2] = z
  BY <1>1
<1>5. \A j \in 1 .. 2 : j = 1 \/ j = 2
  OBVIOUS
<1> DEFINE r == <<y, z>>
<1>6. r \in Seq(Token) /\ Len(r) = 2 /\ r[1] = y /\ r[2] = z
  BY <1>4
<1> HIDE DEF r
<1>7. s = r
  BY <1>3, <1>5, <1>6, SameText
<1> QED
  BY <1>7 DEF s, r, y, z, b

\* The operator at position o ends before z, as long as possible.
OperatorSpan(t, o, z) ==
  /\ o \in 1 .. Len(t)
  /\ \/ z = o + 2 /\ o < Len(t) /\ Pair(t[o], t[o + 1])
     \/ z = o + 1 /\ ~(o < Len(t) /\ Pair(t[o], t[o + 1]))

\* OperatorAt reads up to there.
LEMMA OperatorRead ==
  ASSUME NEW t \in Seq(Token), NEW o \in 1 .. Len(t)
  PROVE  \E z \in Nat : /\ OperatorSpan(t, o, z) /\ OperatorAt(t, o) = SubSeq(t, o, z - 1)
                        /\ Len(OperatorAt(t, o)) = z - o
<1> DEFINE L == Len(t)
           e == OperatorAt(t, o)
<1>0. L \in Nat /\ (o < L => o + 1 <= L)
  OBVIOUS
<1>1. o < L => SubSeq(t, o, o + 1) = <<t[o], t[o + 1]>>
  BY <1>0, TwoTokens
<1>2. CASE o < L /\ Pair(t[o], t[o + 1])
  <2> DEFINE z == o + 2
  <2>1. e = SubSeq(t, o, o + 1)
    BY <1>1, <1>2, Zenon DEF OperatorAt, Pair
  <2>2. z \in Nat /\ z - 1 = o + 1 /\ z - o = 2
    OBVIOUS
  <2>3. OperatorSpan(t, o, z)
    BY <1>2 DEF OperatorSpan
  <2>4. Len(e) = 2
    <3>1. e = <<t[o], t[o + 1]>>
      BY <2>1, <1>1, <1>2, Zenon
    <3>2. Len(<<t[o], t[o + 1]>>) = 2
      BY Tuples, Zenon
    <3> HIDE DEF e
    <3> QED
      BY <3>1, <3>2, Zenon
  <2> HIDE DEF e
  <2>5. e = SubSeq(t, o, z - 1) /\ Len(e) = z - o
    BY <2>1, <2>2, <2>4
  <2> HIDE DEF z
  <2> QED
    BY <2>2, <2>3, <2>5 DEF e
<1>3. CASE ~(o < L /\ Pair(t[o], t[o + 1]))
  <2> DEFINE z == o + 1
  <2>1. e = <<t[o]>>
    BY <1>1, <1>3, Zenon DEF OperatorAt, Pair
  <2>2. z \in Nat /\ z - 1 = o /\ z - o = 1
    OBVIOUS
  <2>3. OperatorSpan(t, o, z)
    BY <1>3 DEF OperatorSpan
  <2>4. Len(e) = 1
    BY <2>1, Tuples, Zenon
  <2>5. SubSeq(t, o, o) = <<t[o]>>
    BY OneToken
  <2> HIDE DEF e
  <2>6. e = SubSeq(t, o, z - 1) /\ Len(e) = z - o
    BY <2>1, <2>2, <2>4, <2>5
  <2> HIDE DEF z
  <2> QED
    BY <2>2, <2>3, <2>6 DEF e
<1> QED
  BY <1>2, <1>3

\* The operator as g++ is given it.
Exp(e) == IF e = <<"<", ">">> THEN <<"!", "=">> ELSE e

\* The text p of a condition: its column from s0, its operator from o, its value from z.
CondAt(p, s0, o, z) ==
  /\ p \in Seq(Token) /\ s0 \in 1 .. Len(p) /\ o \in s0 .. Len(p) /\ z \in Nat
  /\ OperatorSpan(p, o, z)
  /\ p[o] \in OperatorChars /\ \A h \in s0 .. o - 1 : p[h] \notin OperatorChars

\* Column, operator and value as Condition finds them.
CondParts(p, s0, o, z) ==
  /\ Condition(p).column = SubSeq(p, s0, o - 1)
  /\ Condition(p).exp = Exp(SubSeq(p, o, z - 1))
  /\ Condition(p).value = QuotesReplaced(SubSeq(p, z, Len(p)))

\* A piece from s0 to the end, position by position.
LEMMA Shifted ==
  ASSUME NEW p \in Seq(Token), NEW s0 \in 1 .. Len(p)
  PROVE  /\ SubSeq(p, s0, Len(p)) \in Seq(Token)
         /\ Len(SubSeq(p, s0, Len(p))) = Len(p) - s0 + 1
         /\ \A j \in 1 .. Len(p) - s0 + 1 : SubSeq(p, s0, Len(p))[j] = p[s0 + j - 1]
         /\ \A c \in Nat \ {0}, d \in Nat : s0 + d - 1 <= Len(p) =>
              SubSeq(SubSeq(p, s0, Len(p)), c, d) = SubSeq(p, s0 + c - 1, s0 + d - 1)
<1> DEFINE L == Len(p)
<1>1. s0 \in Nat \ {0} /\ L \in Nat /\ L <= Len(p) /\ s0 <= L
  OBVIOUS
<1> HIDE DEF L
<1>2. /\ SubSeq(p, s0, L) \in Seq(Token)
      /\ Len(SubSeq(p, s0, L)) = (IF s0 <= L THEN L - s0 + 1 ELSE 0)
      /\ \A j \in 1 .. L - s0 + 1 : SubSeq(p, s0, L)[j] = p[s0 + j - 1]
  BY <1>1, Piece
<1>3. ASSUME NEW c \in Nat \ {0}, NEW d \in Nat, s0 + d - 1 <= L
      PROVE  SubSeq(SubSeq(p, s0, L), c, d) = SubSeq(p, s0 + c - 1, s0 + d - 1)
  BY <1>1, <1>3, PieceOfPiece
<1>4. Len(SubSeq(p, s0, L)) = L - s0 + 1
  BY <1>1, <1>2
<1> QED
  BY <1>2, <1>3, <1>4 DEF L

\* A condition that is not thrown out has such an operator.
LEMMA ConditionAt ==
  ASSUME NEW p \in Seq(Token), NEW s0 \in 1 .. Len(p), Body(p) = SubSeq(p, s0, Len(p)),
         Range(Body(p)) \cap OperatorChars # {}
  PROVE  \E o, z : CondAt(p, s0, o, z) /\ CondParts(p, s0, o, z)
<1> DEFINE q == Body(p)
           i == First(q, OperatorChars)
           e == OperatorAt(q, i)
           L == Len(p)
           M == Len(q)
<1>1. /\ q \in Seq(Token) /\ M = L - s0 + 1 /\ L \in Nat
      /\ \A j \in 1 .. L - s0 + 1 : q[j] = p[s0 + j - 1]
      /\ \A c \in Nat \ {0}, d \in Nat : s0 + d - 1 <= L => SubSeq(q, c, d) = SubSeq(p, s0 + c - 1, s0 + d - 1)
  BY Shifted
<1>2. s0 \in Nat /\ 1 <= s0 /\ s0 <= L
  OBVIOUS
<1>3. i \in 1 .. M /\ q[i] \in OperatorChars /\ \A j \in 1 .. i - 1 : q[j] \notin OperatorChars
  <2>1. Range(q) \cap OperatorChars # {}
    OBVIOUS
  <2> HIDE DEF q
  <2> QED
    BY <1>1, <2>1, FirstFacts
<1>4. PICK y \in Nat : OperatorSpan(q, i, y) /\ e = SubSeq(q, i, y - 1) /\ Len(e) = y - i
  BY <1>1, <1>3, OperatorRead
<1>5. Condition(p).column = Before(q, i) /\ Condition(p).exp = Exp(e)
      /\ Condition(p).value = QuotesReplaced(After(q, i + Len(e) - 1))
  BY Zenon DEF Condition, Exp
<1> HIDE DEF q, i, e, L, M
<1>6. \/ y = i + 2 /\ i < M /\ Pair(q[i], q[i + 1])
      \/ y = i + 1 /\ ~(i < M /\ Pair(q[i], q[i + 1]))
  BY <1>4 DEF OperatorSpan, M
<1>61. /\ M = L - s0 + 1 /\ L \in Nat /\ s0 \in Nat /\ 1 <= s0 /\ s0 <= L /\ i \in 1 .. M
       /\ ((y = i + 2 /\ i < M) \/ y = i + 1)
  BY <1>1, <1>2, <1>3, <1>6, Zenon
<1> DEFINE o == s0 + i - 1
           z == s0 + y - 1
<1>7. /\ o \in s0 .. L /\ z \in Nat /\ o \in 1 .. L /\ i \in Nat \ {0} /\ y \in Nat \ {0} /\ y - 1 \in Nat
      /\ i - 1 \in Nat /\ s0 + (i - 1) - 1 <= L /\ s0 + (i - 1) - 1 = o - 1
      /\ s0 + (y - 1) - 1 <= L /\ s0 + (y - 1) - 1 = z - 1 /\ s0 + M - 1 = L /\ M \in Nat
      /\ s0 + M - 1 <= L /\ (i + (y - i) - 1) + 1 = y
  BY <1>61
<1>8. q[i] = p[o] /\ (i < M => q[i + 1] = p[o + 1]) /\ (i < M <=> o < L)
  <2>1. i \in 1 .. L - s0 + 1 /\ (i < M => i + 1 \in 1 .. L - s0 + 1 /\ s0 + (i + 1) - 1 = o + 1)
    BY <1>1, <1>2, <1>3
  <2>2. i < M <=> o < L
    BY <1>1, <1>2, <1>3
  <2>3. q[i] = p[o]
    BY <2>1, <1>1
  <2>4. ASSUME i < M PROVE q[i + 1] = p[o + 1]
    <3>1. i + 1 \in 1 .. L - s0 + 1 /\ s0 + (i + 1) - 1 = o + 1
      BY <2>1, <2>4
    <3> HIDE DEF o
    <3> QED
      BY <3>1, <1>1
  <2> QED
    BY <2>2, <2>3, <2>4
<1>9. OperatorSpan(p, o, z)
  <2>1. \/ z = o + 2 /\ o < L /\ Pair(p[o], p[o + 1])
        \/ z = o + 1 /\ ~(o < L /\ Pair(p[o], p[o + 1]))
    <3>1. CASE y = i + 2 /\ i < M /\ Pair(q[i], q[i + 1])
      <4>1. z = o + 2
        BY <3>1, <1>2, <1>7
      <4> HIDE DEF o, z
      <4> QED
        <5>1. o < L /\ p[o] = q[i] /\ p[o + 1] = q[i + 1]
          BY <3>1, <1>8
        <5>2. Pair(p[o], p[o + 1])
          BY <5>1, <3>1, Zenon
        <5> QED
          BY <4>1, <5>1, <5>2
    <3>2. CASE y = i + 1 /\ ~(i < M /\ Pair(q[i], q[i + 1]))
      <4>1. z = o + 1
        BY <3>2, <1>2, <1>7
      <4> HIDE DEF o, z
      <4> QED
        BY <3>2, <4>1, <1>8, Zenon
    <3> QED
      BY <3>1, <3>2, <1>6
  <2> HIDE DEF o, z
  <2> QED
    BY <2>1, <1>7 DEF OperatorSpan, L
<1>10. ASSUME NEW h \in s0 .. o - 1 PROVE p[h] \notin OperatorChars
  <2> DEFINE j == h - s0 + 1
  <2>1. j \in 1 .. i - 1 /\ j \in 1 .. L - s0 + 1 /\ s0 + j - 1 = h
    BY <1>1, <1>2, <1>3
  <2> HIDE DEF j
  <2>2. q[j] = p[s0 + j - 1]
    BY <2>1, <1>1
  <2>3. q[j] = p[h]
    BY <2>1, <2>2
  <2> QED
    BY <2>1, <2>3, <1>3
<1>11. CondAt(p, s0, o, z)
  <2>1. p[o] \in OperatorChars
    BY <1>3, <1>8
  <2> HIDE DEF o, z
  <2> QED
    BY <2>1, <1>7, <1>9, <1>10 DEF CondAt, L
<1>12. Before(q, i) = SubSeq(p, s0, o - 1)
  <2>1. SubSeq(q, 1, i - 1) = SubSeq(p, s0 + 1 - 1, s0 + (i - 1) - 1)
    <3> DEFINE c == 1
               d == i - 1
    <3>1. c \in Nat \ {0} /\ d \in Nat /\ s0 + d - 1 <= L
      BY <1>7
    <3> HIDE DEF c, d
    <3>2. SubSeq(q, c, d) = SubSeq(p, s0 + c - 1, s0 + d - 1)
      BY <3>1, <1>1
    <3> QED
      BY <3>2 DEF c, d
  <2>2. s0 + 1 - 1 = s0
    BY <1>2
  <2> HIDE DEF o
  <2> QED
    BY <2>1, <2>2, <1>7, Zenon DEF Before
<1>13. e = SubSeq(p, o, z - 1)
  <2> DEFINE d == y - 1
  <2>1. i \in Nat \ {0} /\ d \in Nat /\ s0 + d - 1 <= L /\ s0 + d - 1 = z - 1
    BY <1>7
  <2> HIDE DEF d, z
  <2>2. SubSeq(q, i, d) = SubSeq(p, s0 + i - 1, s0 + d - 1)
    BY <2>1, <1>1
  <2> HIDE DEF o
  <2>3. SubSeq(q, i, d) = SubSeq(p, o, z - 1)
    BY <2>1, <2>2, Zenon DEF o
  <2> QED
    BY <2>3, <1>4, Zenon DEF d
<1>14. After(q, i + Len(e) - 1) = SubSeq(p, z, L)
  <2>1. (i + Len(e) - 1) + 1 = y
    BY <1>4, <1>7
  <2>2. After(q, i + Len(e) - 1) = SubSeq(q, y, M)
    BY <2>1, Zenon DEF After, M
  <2>3. SubSeq(q, y, M) = SubSeq(p, s0 + y - 1, s0 + M - 1)
    BY <1>1, <1>7
  <2>4. SubSeq(q, y, M) = SubSeq(p, z, L)
    BY <2>3, <1>7, Zenon
  <2> QED
    BY <2>2, <2>4, Zenon
<1>15. CondParts(p, s0, o, z)
  <2> HIDE DEF o, z
  <2> QED
    BY <1>5, <1>12, <1>13, <1>14, Zenon DEF CondParts, L
<1> HIDE DEF o, z
<1> QED
  BY <1>11, <1>15, Zenon

\* The greater of two positions.
Later(a, s0) == IF a > s0 THEN a ELSE s0

\* The pieces of a condition without the blanks around them.
LEMMA CondStripped ==
  ASSUME NEW p, NEW s0, NEW o, NEW z, CondAt(p, s0, o, z), NEW a, NEW b, Padded(p, a, b)
  PROVE  /\ a \in Nat \ {0} /\ b \in Nat /\ b <= Len(p) /\ s0 \in Nat \ {0} /\ o \in Nat /\ z \in Nat
         /\ a <= o /\ o <= b /\ o < z /\ z <= o + 2 /\ z <= b + 1 /\ s0 <= o /\ Len(p) \in Nat
         /\ Later(a, s0) <= o - 1 =>
              Stripped(SubSeq(p, s0, o - 1)) = SubSeq(p, Later(a, s0), o - 1)
         /\ ~(Later(a, s0) <= o - 1) => Stripped(SubSeq(p, s0, o - 1)) = <<>>
         /\ z <= b => /\ Padded(SubSeq(p, z, Len(p)), 1, b - z + 1)
                      /\ Stripped(SubSeq(p, z, Len(p))) = SubSeq(p, z, b)
         /\ ~(z <= b) => Blank(SubSeq(p, z, Len(p)))
<1> DEFINE L == Len(p)
           m == Later(a, s0)
<1>1. /\ p \in Seq(Token) /\ s0 \in 1 .. L /\ o \in s0 .. L /\ z \in Nat /\ OperatorSpan(p, o, z)
      /\ p[o] \in OperatorChars
  BY DEF CondAt
<1>2. /\ a \in Nat \ {0} /\ b \in Nat /\ a <= b /\ b <= L /\ L \in Nat
      /\ \A h \in 1 .. L : p[h] \in BlankChars <=> ~(a <= h /\ h <= b)
  BY DEF Padded
<1>3. /\ o \in 1 .. L
      /\ \/ z = o + 2 /\ o < L /\ Pair(p[o], p[o + 1])
         \/ z = o + 1 /\ ~(o < L /\ Pair(p[o], p[o + 1]))
  BY <1>1 DEF OperatorSpan
<1> HIDE DEF L, m
<1>4. \A x \in OperatorChars : x \notin BlankChars
  BY Characters
<1>5. a <= o /\ o <= b
  BY <1>1, <1>2, <1>3, <1>4
<1>6. z <= b + 1
  <2>1. CASE z = o + 2 /\ o < L /\ Pair(p[o], p[o + 1])
    <3>1. p[o + 1] \in OperatorChars
      BY <2>1, PairFacts
    <3>2. o + 1 \in 1 .. L
      BY <2>1, <1>2, <1>3
    <3>3. o + 1 <= b
      BY <3>1, <3>2, <1>2, <1>4
    <3> QED
      BY <3>3, <2>1, <1>2, <1>3
  <2>2. CASE z = o + 1
    BY <2>2, <1>2, <1>3, <1>5
  <2> QED
    BY <2>1, <2>2, <1>3
<1>7. /\ s0 \in Nat \ {0} /\ o \in Nat /\ o < z /\ z <= o + 2 /\ s0 <= o /\ o <= L
      /\ m \in Nat /\ a <= m /\ s0 <= m /\ (m = a \/ m = s0) /\ (m = IF a > s0 THEN a ELSE s0)
  BY <1>1, <1>2, <1>3 DEF m, Later
<1>8. ASSUME m <= o - 1 PROVE Stripped(SubSeq(p, s0, o - 1)) = SubSeq(p, m, o - 1)
  <2> DEFINE y == o - 1
  <2>1. /\ s0 \in 1 .. L /\ y \in s0 .. L /\ m \in Nat /\ y \in Nat
        /\ m = (IF a > s0 THEN a ELSE s0) /\ y = (IF b < y THEN b ELSE y) /\ m <= y
    BY <1>1, <1>2, <1>5, <1>7, <1>8
  <2>2. Overlap(p, a, b, s0, y, m, y)
    <3> HIDE DEF y
    <3> QED
      BY <2>1 DEF Overlap, L
  <2> HIDE DEF y
  <2>3. Stripped(SubSeq(p, s0, y)) = SubSeq(p, m, y)
    BY <2>2, PaddedPiece
  <2> QED
    BY <2>3 DEF y
<1>9. ASSUME ~(m <= o - 1) PROVE Stripped(SubSeq(p, s0, o - 1)) = <<>>
  <2> DEFINE y == o - 1
  <2>1. y \in Nat /\ y <= L /\ s0 \in Nat \ {0}
    BY <1>2, <1>7
  <2>2. ASSUME NEW h \in s0 .. y PROVE p[h] \in BlankChars
    <3>1. h \in 1 .. L /\ ~(a <= h)
      BY <1>2, <1>7, <1>9
    <3> QED
      BY <3>1, <1>2
  <2> HIDE DEF y
  <2>3. Blank(SubSeq(p, s0, y))
    BY <2>1, <2>2, <1>1, PieceBlank DEF L
  <2> QED
    BY <2>3, StrippedBlank DEF y
<1>10. ASSUME z <= b PROVE /\ Padded(SubSeq(p, z, L), 1, b - z + 1)
                           /\ Stripped(SubSeq(p, z, L)) = SubSeq(p, z, b)
  <2>1. /\ z \in 1 .. L /\ L \in z .. L /\ z \in Nat /\ b \in Nat
        /\ z = (IF a > z THEN a ELSE z) /\ b = (IF b < L THEN b ELSE L) /\ z <= b /\ z - z + 1 = 1
    BY <1>1, <1>2, <1>5, <1>7, <1>10
  <2>2. Overlap(p, a, b, z, L, z, b)
    BY <2>1 DEF Overlap, L
  <2>3. Padded(SubSeq(p, z, L), z - z + 1, b - z + 1) /\ Stripped(SubSeq(p, z, L)) = SubSeq(p, z, b)
    BY <2>2, PaddedPiece
  <2> QED
    BY <2>1, <2>3, Zenon
<1>11. ASSUME ~(z <= b) PROVE Blank(SubSeq(p, z, L))
  <2>1. L <= Len(p) /\ L \in Nat /\ z \in Nat \ {0}
    BY <1>1, <1>2, <1>7 DEF L
  <2>2. ASSUME NEW h \in z .. L PROVE p[h] \in BlankChars
    <3>1. h \in 1 .. L /\ ~(h <= b)
      BY <2>1, <1>2, <1>11
    <3> QED
      BY <3>1, <1>2
  <2> QED
    BY <2>1, <2>2, <1>1, PieceBlank
<1> QED
  BY <1>1, <1>2, <1>5, <1>6, <1>7, <1>8, <1>9, <1>10, <1>11 DEF L, m

\* A condition with something in each of its parts.
CondWord(p, s0, o, z, a, b) ==
  /\ CondAt(p, s0, o, z) /\ Padded(p, a, b) /\ z <= b
  /\ \A h \in a .. o - 1 : p[h] \notin OperatorChars

\* The same with numbers only.
Spots(p, o, z, a, b) ==
  /\ a \in Nat \ {0} /\ b \in Nat /\ b <= Len(p) /\ o \in Nat /\ z \in Nat /\ Len(p) \in Nat
  /\ a <= o /\ o <= b /\ z <= b
  /\ \/ z = o + 2 /\ Pair(p[o], p[o + 1])
     \/ z = o + 1 /\ ~Pair(p[o], p[o + 1])
  /\ p[o] \in OperatorChars /\ p[z - 1] \in OperatorChars
  /\ \A h \in a .. o - 1 : p[h] \notin OperatorChars

\* The positions of a condition with something in each of its parts.
LEMMA SpotsOf ==
  ASSUME NEW p, NEW s0, NEW o, NEW z, NEW a, NEW b, CondWord(p, s0, o, z, a, b)
  PROVE  p \in Seq(Token) /\ Spots(p, o, z, a, b)
<1>1. CondAt(p, s0, o, z) /\ Padded(p, a, b) /\ z <= b /\ \A h \in a .. o - 1 : p[h] \notin OperatorChars
  BY DEF CondWord
<1>2. /\ a \in Nat \ {0} /\ b \in Nat /\ b <= Len(p) /\ o \in Nat /\ z \in Nat /\ a <= o /\ o <= b
      /\ o < z /\ Len(p) \in Nat
  BY <1>1, CondStripped
<1>3. p \in Seq(Token) /\ OperatorSpan(p, o, z) /\ p[o] \in OperatorChars
  BY <1>1 DEF CondAt
<1>4. \/ z = o + 2 /\ o < Len(p) /\ Pair(p[o], p[o + 1])
      \/ z = o + 1 /\ ~(o < Len(p) /\ Pair(p[o], p[o + 1]))
  BY <1>3 DEF OperatorSpan
<1>5. o < Len(p)
  BY <1>1, <1>2
<1>6. \/ z = o + 2 /\ Pair(p[o], p[o + 1])
      \/ z = o + 1 /\ ~Pair(p[o], p[o + 1])
  BY <1>4, <1>5
<1>7. p[z - 1] \in OperatorChars
  <2>1. CASE z = o + 2 /\ Pair(p[o], p[o + 1])
    <3>1. p[o + 1] \in OperatorChars /\ z - 1 = o + 1
      BY <2>1, <1>2, PairFacts
    <3> QED
      BY <3>1
  <2>2. CASE z = o + 1
    <3>1. z - 1 = o
      BY <2>2, <1>2
    <3> QED
      BY <3>1, <1>3
  <2> QED
    BY <2>1, <2>2, <1>6
<1> QED
  BY <1>1, <1>2, <1>3, <1>6, <1>7 DEF Spots

\* The word of the condition, token by token.
LEMMA WordTokens ==
  ASSUME NEW p \in Seq(Token), NEW o, NEW z, NEW a, NEW b, Spots(p, o, z, a, b)
  PROVE  LET w == SubSeq(p, a, b)
         IN  /\ w \in Seq(Token) /\ Len(w) = b - a + 1 /\ DOMAIN w = 1 .. b - a + 1
             /\ \A h \in a .. b : h - a + 1 \in 1 .. b - a + 1 /\ w[h - a + 1] = p[h]
             /\ \A x \in 1 .. b - a + 1 : a + x - 1 \in a .. b /\ w[x] = p[a + x - 1]
<1>1. a \in Nat \ {0} /\ b \in Nat /\ b <= Len(p) /\ a <= b
  BY DEF Spots
<1> DEFINE w == SubSeq(p, a, b)
<1>2. /\ w \in Seq(Token) /\ Len(w) = (IF a <= b THEN b - a + 1 ELSE 0)
      /\ DOMAIN w = 1 .. (IF a <= b THEN b - a + 1 ELSE 0)
      /\ \A j \in 1 .. b - a + 1 : w[j] = p[a + j - 1]
  BY <1>1, Piece
<1> HIDE DEF w
<1>3. w \in Seq(Token) /\ Len(w) = b - a + 1 /\ DOMAIN w = 1 .. b - a + 1
  BY <1>1, <1>2
<1>4. ASSUME NEW h \in a .. b PROVE h - a + 1 \in 1 .. b - a + 1 /\ w[h - a + 1] = p[h]
  <2> DEFINE j == h - a + 1
  <2>1. j \in 1 .. b - a + 1 /\ a + j - 1 = h
    BY <1>1
  <2> HIDE DEF j
  <2>2. w[j] = p[h]
    BY <2>1, <1>2
  <2> QED
    BY <2>1, <2>2 DEF j
<1>5. ASSUME NEW x \in 1 .. b - a + 1 PROVE a + x - 1 \in a .. b /\ w[x] = p[a + x - 1]
  BY <1>1, <1>2
<1> QED
  BY <1>3, <1>4, <1>5 DEF w

\* A word that is not chained has one operator.
LEMMA NoMoreOperators ==
  ASSUME NEW p \in Seq(Token), NEW o, NEW z, NEW a, NEW b, Spots(p, o, z, a, b), ~Chained(SubSeq(p, a, b))
  PROVE  \A h \in z .. b : p[h] \notin OperatorChars
<1> SUFFICES ASSUME NEW h \in z .. b, p[h] \in OperatorChars PROVE Chained(SubSeq(p, a, b))
  OBVIOUS
<1> DEFINE w == SubSeq(p, a, b)
           n == b - a + 1
           x == o - a + 1
           y == h - a + 1
<1>1. /\ a \in Nat \ {0} /\ b \in Nat /\ o \in Nat /\ z \in Nat /\ a <= o /\ o <= b /\ z <= b
      /\ \/ z = o + 2 /\ Pair(p[o], p[o + 1])
         \/ z = o + 1 /\ ~Pair(p[o], p[o + 1])
      /\ p[o] \in OperatorChars
  BY DEF Spots
<1>2. /\ w \in Seq(Token) /\ Len(w) = n /\ DOMAIN w = 1 .. n
      /\ \A i \in a .. b : i - a + 1 \in 1 .. n /\ w[i - a + 1] = p[i]
  BY WordTokens
<1>3. o \in a .. b /\ h \in a .. b /\ x < y /\ n \in Nat /\ (y = x + 1 => h = o + 1 /\ z = o + 1)
  BY <1>1
<1> HIDE DEF w
<1>4. w[x] = p[o] /\ w[y] = p[h] /\ x \in 1 .. n /\ y \in 1 .. n
  BY <1>2, <1>3
<1> HIDE DEF n
<1>5. ASSUME y = x + 1 PROVE SubSeq(w, x, y) \notin LongOperators
  <2>1. h = o + 1 /\ z = o + 1
    BY <1>3, <1>5
  <2>2. ~Pair(p[o], p[h])
    BY <2>1, <1>1
  <2>3. ~Pair(w[x], w[y])
    BY <2>2, <1>4, Zenon
  <2> HIDE DEF x, y
  <2>4. x \in 1 .. Len(w) /\ x + 1 <= Len(w)
    BY <1>2, <1>4, <1>5
  <2>5. SubSeq(w, x, x + 1) = <<w[x], w[x + 1]>>
    BY <2>4, <1>2, TwoTokens
  <2>6. SubSeq(w, x, y) = <<w[x], w[y]>>
    BY <2>5, <1>5, Zenon
  <2> QED
    BY <2>3, <2>6, Zenon DEF Pair
<1> HIDE DEF x, y
<1>6. x < y /\ {w[x], w[y]} \subseteq OperatorChars /\ x \in DOMAIN w /\ y \in DOMAIN w
  BY <1>1, <1>2, <1>3, <1>4
<1>7. Chained(w)
  BY <1>5, <1>6, Zenon DEF Chained
<1> QED
  BY <1>7 DEF w

\* What comes behind the last operator of a word.
LEMMA ValueTextIs ==
  ASSUME NEW p \in Seq(Token), NEW o, NEW z, NEW a, NEW b, Spots(p, o, z, a, b),
         \A h \in z .. b : p[h] \notin OperatorChars
  PROVE  ValueText(SubSeq(p, a, b)) = SubSeq(p, z, b)
<1> DEFINE w == SubSeq(p, a, b)
           n == b - a + 1
           g == z - a
           S == {0} \cup {x \in DOMAIN w : w[x] \in OperatorChars}
<1>1. /\ a \in Nat \ {0} /\ b \in Nat /\ o \in Nat /\ z \in Nat /\ a <= o /\ o <= b /\ z <= b /\ o < z
      /\ p[z - 1] \in OperatorChars /\ b <= Len(p)
  BY DEF Spots
<1>2. /\ w \in Seq(Token) /\ Len(w) = n /\ DOMAIN w = 1 .. n
      /\ \A i \in a .. b : i - a + 1 \in 1 .. n /\ w[i - a + 1] = p[i]
      /\ \A x \in 1 .. n : a + x - 1 \in a .. b /\ w[x] = p[a + x - 1]
  BY WordTokens
<1> HIDE DEF w
<1>3. z - 1 \in a .. b /\ (z - 1) - a + 1 = g /\ g \in Nat /\ g + 1 \in Nat \ {0} /\ n \in Nat
      /\ a + n - 1 <= b /\ a + n - 1 = b /\ a + (g + 1) - 1 = z
  BY <1>1
<1>4. g \in 1 .. n /\ w[g] = p[z - 1]
  BY <1>2, <1>3
<1>5. g \in S /\ S \subseteq Nat
  BY <1>1, <1>2, <1>4
<1>6. ASSUME NEW x \in S PROVE x <= g
  <2>1. CASE x = 0
    BY <2>1, <1>3
  <2>2. CASE x \in 1 .. n /\ w[x] \in OperatorChars
    <3>1. a + x - 1 \in a .. b /\ p[a + x - 1] \in OperatorChars
      BY <2>2, <1>2
    <3>2. ~(a + x - 1 \in z .. b)
      BY <3>1
    <3> QED
      BY <3>1, <3>2, <2>2, <1>1
  <2> QED
    BY <2>1, <2>2, <1>2
<1> HIDE DEF S
<1>7. Max(S) = g
  BY <1>5, <1>6, MinMaxIs
<1>8. ValueText(w) = SubSeq(w, g + 1, n)
  BY <1>2, <1>7, Zenon DEF ValueText, S
<1>9. SubSeq(w, g + 1, n) = SubSeq(p, z, b)
  <2> DEFINE c == g + 1
  <2>1. c \in Nat \ {0} /\ a + c - 1 = z
    BY <1>3
  <2> HIDE DEF c, n
  <2>2. SubSeq(SubSeq(p, a, b), c, n) = SubSeq(p, a + c - 1, a + n - 1)
    BY <2>1, <1>1, <1>3, PieceOfPiece
  <2> QED
    BY <2>1, <2>2, <1>3, Zenon DEF w, c
<1> QED
  BY <1>8, <1>9 DEF w

\* The operator of the word is the operator of the text.
LEMMA OperatorOfWord ==
  ASSUME NEW p \in Seq(Token), NEW o, NEW z, NEW a, NEW b, Spots(p, o, z, a, b)
  PROVE  /\ Range(SubSeq(p, a, b)) \cap OperatorChars # {}
         /\ OperatorAt(SubSeq(p, a, b), First(SubSeq(p, a, b), OperatorChars)) = SubSeq(p, o, z - 1)
<1> DEFINE w == SubSeq(p, a, b)
           n == b - a + 1
           x == o - a + 1
<1>1. /\ a \in Nat \ {0} /\ b \in Nat /\ o \in Nat /\ z \in Nat /\ a <= o /\ o <= b /\ z <= b /\ o < z
      /\ \/ z = o + 2 /\ Pair(p[o], p[o + 1])
         \/ z = o + 1 /\ ~Pair(p[o], p[o + 1])
      /\ p[o] \in OperatorChars /\ b <= Len(p)
      /\ \A h \in a .. o - 1 : p[h] \notin OperatorChars
  BY DEF Spots
<1>2. /\ w \in Seq(Token) /\ Len(w) = n /\ DOMAIN w = 1 .. n
      /\ \A i \in a .. b : i - a + 1 \in 1 .. n /\ w[i - a + 1] = p[i]
      /\ \A y \in 1 .. n : a + y - 1 \in a .. b /\ w[y] = p[a + y - 1]
  BY WordTokens
<1> HIDE DEF w
<1>3. o \in a .. b /\ o + 1 \in a .. b /\ (o + 1) - a + 1 = x + 1 /\ x \in 1 .. n /\ x < n
  BY <1>1
<1>4. w[x] = p[o] /\ w[x + 1] = p[o + 1]
  BY <1>2, <1>3
<1>5. Range(w) \cap OperatorChars # {}
  BY <1>1, <1>2, <1>3, <1>4 DEF Range
<1>6. First(w, OperatorChars) = x
  <2> DEFINE f == First(w, OperatorChars)
  <2>1. f \in 1 .. n /\ w[f] \in OperatorChars /\ \A j \in 1 .. f - 1 : w[j] \notin OperatorChars
    BY <1>2, <1>5, FirstFacts
  <2> HIDE DEF f
  <2>2. a + f - 1 \in a .. b /\ p[a + f - 1] \in OperatorChars
    BY <2>1, <1>2
  <2>3. ~(a + f - 1 \in a .. o - 1)
    BY <2>2, <1>1
  <2>4. x <= f
    BY <2>1, <2>2, <2>3, <1>1
  <2>5. ~(x \in 1 .. f - 1)
    BY <2>1, <1>1, <1>4
  <2> QED
    BY <2>1, <2>4, <2>5, <1>1, <1>3 DEF f
<1>7. x \in 1 .. Len(w)
  BY <1>2, <1>3
<1> HIDE DEF x, n
<1>8. PICK y \in Nat : OperatorSpan(w, x, y) /\ OperatorAt(w, x) = SubSeq(w, x, y - 1)
  BY <1>2, <1>7, OperatorRead
<1>9. \/ y = x + 2 /\ x < n /\ Pair(w[x], w[x + 1])
      \/ y = x + 1 /\ ~(x < n /\ Pair(w[x], w[x + 1]))
  BY <1>2, <1>8 DEF OperatorSpan
<1>10. \/ y = x + 2 /\ Pair(p[o], p[o + 1])
       \/ y = x + 1 /\ ~Pair(p[o], p[o + 1])
  BY <1>3, <1>4, <1>9
<1>11. y - x = z - o /\ y \in Nat
  BY <1>1, <1>10, <1>3
<1>12. SubSeq(w, x, y - 1) = SubSeq(p, o, z - 1)
  <2> DEFINE d == y - 1
  <2>1. x \in Nat \ {0} /\ d \in Nat /\ a + d - 1 <= b /\ a + x - 1 = o /\ a + d - 1 = z - 1
    BY <1>1, <1>11 DEF x
  <2> HIDE DEF d
  <2>2. SubSeq(SubSeq(p, a, b), x, d) = SubSeq(p, a + x - 1, a + d - 1)
    BY <2>1, <1>1, PieceOfPiece
  <2> QED
    BY <2>1, <2>2, Zenon DEF w, d
<1> QED
  BY <1>5, <1>6, <1>8, <1>12, Zenon DEF w

-----------------------------------------------------------------------------
(***************************************************************************)
(* How a condition is put together.                                        *)
(***************************************************************************)
\* Two neighbouring pieces are one piece.
LEMMA Glued ==
  ASSUME NEW p \in Seq(Token), NEW a \in Nat \ {0}, NEW u \in Nat \ {0}, NEW b \in Nat,
         a <= u, u <= b + 1, b <= Len(p)
  PROVE  SubSeq(p, a, u - 1) \o SubSeq(p, u, b) = SubSeq(p, a, b)
<1> DEFINE v == u - 1
<1>1. /\ a \in 1 .. Len(p) + 1 /\ v \in a - 1 .. Len(p) /\ b \in v .. Len(p) /\ v + 1 = u
  OBVIOUS
<1> HIDE DEF v
<1>2. SubSeq(p, a, v) \o SubSeq(p, v + 1, b) = SubSeq(p, a, b)
  BY <1>1, ConcatAdjacentSubSeq
<1> QED
  BY <1>1, <1>2 DEF v

\* A text begins with its first part, and the second is the rest.
LEMMA Begins ==
  ASSUME NEW x \in Seq(Token), NEW y \in Seq(Token)
  PROVE  IsPrefix(x, x \o y) /\ SubSeq(x \o y, Len(x) + 1, Len(x \o y)) = y
<1> DEFINE w == x \o y
           m == Len(x)
           n == Len(y)
           g == m + 1
           l == Len(w)
<1>1. /\ w \in Seq(Token) /\ l = m + n /\ m \in Nat /\ n \in Nat
      /\ \A j \in 1 .. m : w[j] = x[j]
      /\ \A j \in 1 .. n : w[m + j] = y[j]
  BY Cat
<1> HIDE DEF w
<1>2. m \in Nat /\ n \in Nat /\ l \in Nat /\ g \in Nat \ {0} /\ m <= l /\ l - g + 1 = n /\ l <= Len(w)
      /\ m <= Len(w) /\ m <= Len(x)
  BY <1>1
<1> HIDE DEF m, n, g, l
<1> DEFINE one == 1
           r == SubSeq(w, g, l)
           s == SubSeq(w, one, m)
           t == SubSeq(x, one, m)
<1>3. one \in Nat \ {0} /\ one = 1
  OBVIOUS
<1> HIDE DEF one
<1>4. r \in Seq(Token) /\ Len(r) = (IF g <= l THEN l - g + 1 ELSE 0) /\ \A j \in 1 .. l - g + 1 : r[j] = w[g + j - 1]
  BY <1>1, <1>2, Piece
<1>5. s \in Seq(Token) /\ Len(s) = (IF one <= m THEN m - one + 1 ELSE 0) /\ \A j \in 1 .. m - one + 1 : s[j] = w[one + j - 1]
  BY <1>1, <1>2, <1>3, Piece
<1>6. t \in Seq(Token) /\ Len(t) = (IF one <= m THEN m - one + 1 ELSE 0) /\ \A j \in 1 .. m - one + 1 : t[j] = x[one + j - 1]
  BY <1>2, <1>3, Piece
<1> HIDE DEF r, s, t
<1>7. r = y
  <2>1. Len(r) = n
    BY <1>2, <1>4
  <2>2. ASSUME NEW j \in 1 .. n PROVE r[j] = y[j]
    <3>1. j \in 1 .. l - g + 1 /\ g + j - 1 = m + j
      BY <1>2 DEF g
    <3>2. r[j] = w[g + j - 1]
      BY <3>1, <1>4
    <3> QED
      BY <3>1, <3>2, <1>1
  <2> QED
    BY <2>1, <2>2, <1>4, SameText DEF n
<1>8. s = t
  <2>1. Len(s) = m /\ Len(t) = m /\ m - one + 1 = m
    BY <1>2, <1>3, <1>5, <1>6
  <2>2. ASSUME NEW j \in 1 .. m PROVE s[j] = t[j]
    <3>1. j \in 1 .. m - one + 1 /\ one + j - 1 = j
      BY <1>2, <1>3
    <3>2. s[j] = w[one + j - 1] /\ t[j] = x[one + j - 1]
      BY <3>1, <1>5, <1>6
    <3>3. s[j] = w[j] /\ t[j] = x[j]
      BY <3>1, <3>2
    <3> QED
      BY <3>3, <1>1
  <2> QED
    BY <2>1, <2>2, <1>5, <1>6, SameText
<1>9. SubSeq(x, 1, Len(x)) = SubSeq(w, 1, Len(x)) /\ Len(x) <= Len(w)
  BY <1>2, <1>8 DEF s, t, one, m, l
<1>10. IsPrefix(x, w)
  BY <1>9, Zenon DEF IsPrefix
<1> QED
  BY <1>7, <1>10 DEF r, w, g, m, l

\* How conditions begin, and the operators they may have.
Openings == {<<>>} \cup {<<d, ".">> : d \in DOMAIN Number}

\* The operators of the grammar.
Exps == LongOperators \cup {<<"=">>, <<"<">>, <<">">>}

\* The word is put together from the four.
Made(w, pre, col, e, val) == w = (pre \o col \o e) \o val

\* The reading they are.
ReadingOf(pre, col, e, kind, val) ==
  [prefix |-> pre, column |-> col, exp |-> e, kind |-> kind, value |-> val]

\* They are texts.
LEMMA ExpsTyped ==
  /\ \A pre \in Openings : pre \in Seq(Token)
  /\ \A e \in Exps : e \in Seq(Token)
<1>1. ASSUME NEW pre \in Openings PROVE pre \in Seq(Token)
  <2>1. CASE pre = <<>>
    BY <2>1
  <2>2. ASSUME NEW d \in DOMAIN Number, pre = <<d, ".">> PROVE pre \in Seq(Token)
    <3> DEFINE dot == "."
    <3>1. d \in Token /\ dot \in Token
      BY Numbers, Characters
    <3> HIDE DEF dot
    <3>2. <<d, dot>> \in Seq(Token)
      BY <3>1
    <3> QED
      BY <2>2, <3>2 DEF dot
  <2> QED
    BY <2>1, <2>2 DEF Openings
<1>2. ASSUME NEW e \in Exps PROVE e \in Seq(Token)
  <2>1. \A x, y \in Token : <<x>> \in Seq(Token) /\ <<x, y>> \in Seq(Token)
    OBVIOUS
  <2>2. "<" \in Token /\ ">" \in Token /\ "=" \in Token /\ "!" \in Token
    BY Characters
  <2> QED
    BY <2>1, <2>2, Zenon DEF Exps, LongOperators
<1> QED
  BY <1>1, <1>2

\* What is put together can be read.
LEMMA ReadAs ==
  ASSUME NEW w, NEW pre \in Openings, NEW col \in Columns, NEW e \in Exps, NEW val \in Seq(Token),
         NEW kind \in Kinds, Made(w, pre, col, e, val), WrittenAs(kind, val)
  PROVE  ReadingOf(pre, col, e, kind, val) \in Readings(w)
<1> DEFINE H == pre \o col \o e
           heads == {r \in [prefix : Openings, column : Columns, exp : Exps] :
                       IsPrefix(r.prefix \o r.column \o r.exp, w)}
           Rest(r) == SubSeq(w, Len(r.prefix \o r.column \o r.exp) + 1, Len(w))
           h == [prefix |-> pre, column |-> col, exp |-> e]
<1>1. pre \in Seq(Token) /\ col \in Seq(Token) /\ e \in Seq(Token)
  BY ExpsTyped, ColumnFacts
<1>2. H \in Seq(Token) /\ w = H \o val
  <2>1. w = H \o val
    BY DEF Made
  <2>2. pre \o col \in Seq(Token)
    BY <1>1, Cat
  <2> DEFINE g == pre \o col
  <2> HIDE DEF g
  <2>3. g \o e \in Seq(Token)
    BY <2>2, <1>1, Cat DEF g
  <2> QED
    BY <2>1, <2>3 DEF g
<1>3. IsPrefix(H, w) /\ SubSeq(w, Len(H) + 1, Len(w)) = val
  <2> HIDE DEF H
  <2> QED
    BY <1>2, Begins
<1>4. h.prefix = pre /\ h.column = col /\ h.exp = e /\ h \in [prefix : Openings, column : Columns, exp : Exps]
  OBVIOUS
<1> HIDE DEF h
<1>5. h \in heads /\ Rest(h) = val
  BY <1>3, <1>4, Zenon
<1> DEFINE hk == <<h, kind>>
<1>6. hk[1] = h /\ hk[2] = kind /\ hk \in heads \X Kinds
  <2> HIDE DEF heads
  <2> QED
    BY <1>5
<1> HIDE DEF hk
<1>7. hk \in {x \in heads \X Kinds : WrittenAs(x[2], Rest(x[1]))}
  <2>1. WrittenAs(hk[2], Rest(hk[1]))
    BY <1>5, <1>6, Zenon
  <2> HIDE DEF heads
  <2> QED
    BY <1>6, <2>1, Zenon
<1>8. ReadingOf(pre, col, e, kind, val)
       = [prefix |-> hk[1].prefix, column |-> hk[1].column, exp |-> hk[1].exp,
          kind |-> hk[2], value |-> Rest(hk[1])]
  BY <1>4, <1>5, <1>6, Zenon DEF ReadingOf
<1>9. Readings(w) = {[prefix |-> x[1].prefix, column |-> x[1].column, exp |-> x[1].exp,
                      kind |-> x[2], value |-> Rest(x[1])] :
                       x \in {y \in heads \X Kinds : WrittenAs(y[2], Rest(y[1]))}}
  BY Zenon DEF Readings, Openings, Exps
<1> HIDE DEF heads, Rest
<1> QED
  BY <1>7, <1>8, <1>9, Zenon

\* The column of a condition starts at the beginning, or behind a variable and a point.
Heading(p, a, s0) ==
  \/ s0 = 1
  \/ s0 = a + 2 /\ p[a] \in DOMAIN Number /\ p[a + 1] = "."

\* Behind the variable, if there is one, comes the column.
LEMMA BodyAt ==
  ASSUME NEW p, NEW a, NEW b, Padded(p, a, b), NEW i, ~OfAnother(SubSeq(p, a, b), i), ~ConditionThrows(p)
  PROVE  \E s0 : /\ Heading(p, a, s0) /\ s0 \in 1 .. Len(p) /\ Body(p) = SubSeq(p, s0, Len(p))
                 /\ Range(Body(p)) \cap OperatorChars # {}
<1> DEFINE dot == "."
           L == Len(p)
           w == SubSeq(p, a, b)
           n == b - a + 1
<1>1. /\ p \in Seq(Token) /\ a \in Nat \ {0} /\ b \in Nat /\ a <= b /\ b <= L /\ L \in Nat
      /\ \A h \in 1 .. L : p[h] \in BlankChars <=> ~(a <= h /\ h <= b)
  BY DEF Padded
<1>2. Range(Body(p)) \cap OperatorChars # {}
  BY Zenon DEF ConditionThrows
<1>3. CASE ~Prefixed(p)
  <2> DEFINE one == 1
  <2>1. Body(p) = p
    BY <1>3, Zenon DEF Body
  <2>2. one \in Nat \ {0} /\ one \in 1 .. L /\ one = 1 /\ L <= Len(p)
    BY <1>1
  <2> HIDE DEF one, L
  <2>3. SubSeq(p, one, L) \in Seq(Token) /\ Len(SubSeq(p, one, L)) = (IF one <= L THEN L - one + 1 ELSE 0)
        /\ \A j \in 1 .. L - one + 1 : SubSeq(p, one, L)[j] = p[one + j - 1]
    BY <1>1, <2>2, Piece
  <2> DEFINE q == SubSeq(p, one, L)
  <2> HIDE DEF q
  <2>4. q \in Seq(Token) /\ Len(q) = L /\ \A j \in 1 .. L : q[j] = p[j]
    <3>1. (IF one <= L THEN L - one + 1 ELSE 0) = L /\ L - one + 1 = L
      BY <1>1, <2>2
    <3>2. ASSUME NEW j \in 1 .. L PROVE q[j] = p[j]
      <4>1. one + j - 1 = j
        BY <2>2
      <4>2. q[j] = p[one + j - 1]
        BY <2>3, <3>1 DEF q
      <4> QED
        BY <4>1, <4>2
    <3> QED
      BY <2>3, <3>1, <3>2 DEF q
  <2>5. q = p
    <3>1. Len(q) = Len(p)
      BY <2>4 DEF L
    <3> QED
      BY <1>1, <2>4, <3>1, SameText
  <2>6. Body(p) = SubSeq(p, 1, Len(p)) /\ 1 \in 1 .. Len(p)
    BY <2>1, <2>2, <2>5 DEF q, one, L
  <2> QED
    BY <1>2, <2>6 DEF Heading
<1>4. CASE Prefixed(p)
  <2> DEFINE f == First(p, {dot})
             g == First(w, {dot})
             s0 == a + 2
  <2>1. Body(p) = SubSeq(p, f + 1, L)
    BY <1>4, Zenon DEF Body, After
  <2>2. dot \notin BlankChars
    BY Characters
  <2>3. Holds(p, dot)
    BY <1>4 DEF Prefixed
  <2>4. /\ w \in Seq(Token) /\ Len(w) = (IF a <= b THEN b - a + 1 ELSE 0)
        /\ \A j \in 1 .. b - a + 1 : w[j] = p[a + j - 1]
    BY <1>1, Piece
  <2>41. w = Stripped(p)
    BY StrippedPadded, Zenon
  <2>42. Before(w, g) \in {<<d>> : d \in {e \in DOMAIN Number : Number[e] = i}} \/ ~Holds(w, dot)
    BY Zenon DEF OfAnother, Prefixed
  <2> HIDE DEF w, dot, L
  <2>5. Holds(w, dot)
    BY <1>1, <2>2, <2>3, <2>41, HeldIsSeen, Zenon
  <2>6. Len(w) = n /\ n \in Nat /\ DOMAIN w = 1 .. n /\ n = b - a + 1
    BY <1>1, <2>4
  <2>7. Range(w) \cap {dot} # {} /\ Range(p) \cap {dot} # {}
    BY <2>3, <2>5, Zenon DEF Holds, Range
  <2>8. g \in 1 .. n /\ w[g] \in {dot} /\ \A j \in 1 .. g - 1 : w[j] \notin {dot}
    BY <2>4, <2>6, <2>7, FirstFacts
  <2>9. f \in 1 .. L /\ p[f] \in {dot} /\ \A j \in 1 .. f - 1 : p[j] \notin {dot}
    BY <1>1, <2>7, FirstFacts DEF L
  <2>10. PICK d \in DOMAIN Number : Before(w, g) = <<d>>
    BY <2>42, <2>5, Zenon
  <2> DEFINE bw == Before(w, g)
             gm == g - 1
             one == 1
  <2>11. one \in Nat \ {0} /\ gm \in Nat /\ gm <= Len(w) /\ one = 1 /\ gm = g - 1
    BY <2>6, <2>8
  <2>12. bw = SubSeq(w, one, gm)
    BY Zenon DEF Before
  <2> HIDE DEF one, gm, g, f, bw, n
  <2>13. Len(SubSeq(w, one, gm)) = (IF one <= gm THEN gm - one + 1 ELSE 0)
         /\ \A j \in 1 .. gm - one + 1 : SubSeq(w, one, gm)[j] = w[one + j - 1]
    BY <2>4, <2>11, Piece
  <2>14. Len(bw) = 1 /\ bw[1] = d
    BY <2>10 DEF bw
  <2>15. Len(bw) = (IF one <= gm THEN gm - one + 1 ELSE 0) /\ \A j \in 1 .. gm - one + 1 : bw[j] = w[one + j - 1]
    BY <2>12, <2>13, Zenon
  <2>16. gm = 1
    <3>1. (IF one <= gm THEN gm - one + 1 ELSE 0) = 1
      BY <2>14, <2>15, Zenon
    <3>2. gm \in Nat /\ one = 1
      BY <2>11
    <3> QED
      BY <3>1, <3>2
  <2>17. bw[1] = w[1]
    <3>1. one \in 1 .. gm - one + 1 /\ one + one - 1 = one
      BY <2>11, <2>16
    <3>2. bw[one] = w[one + one - 1]
      BY <2>15, <3>1
    <3> QED
      BY <3>1, <3>2, <2>11
  <2>18. g = 2
    BY <2>8, <2>11, <2>16
  <2>19. p[a] = d /\ p[a + 1] = dot /\ a + 1 \in 1 .. L /\ a + 1 <= b
    <3>1. 1 \in 1 .. n /\ 2 \in 1 .. n
      BY <2>6, <2>8, <2>18
    <3>2. 1 \in 1 .. b - a + 1 /\ 2 \in 1 .. b - a + 1 /\ a + 1 - 1 = a /\ a + 2 - 1 = a + 1
      BY <1>1, <3>1, <2>6
    <3>3. w[1] = p[a + 1 - 1] /\ w[2] = p[a + 2 - 1]
      BY <3>2, <2>4
    <3>4. w[1] = p[a] /\ w[2] = p[a + 1] /\ w[2] = dot
      BY <3>2, <3>3, <2>8, <2>18
    <3>5. a + 1 \in 1 .. L /\ a + 1 <= b
      BY <3>2, <1>1
    <3> QED
      BY <3>4, <3>5, <2>14, <2>17
  <2>20. f = a + 1
    <3>1. ~(a + 1 < f)
      <4> SUFFICES ASSUME a + 1 < f PROVE FALSE
        OBVIOUS
      <4>1. a + 1 \in 1 .. f - 1
        BY <1>1, <2>9
      <4> QED
        BY <4>1, <2>9, <2>19
    <3>2. a <= f
      BY <2>2, <2>9, <1>1
    <3>3. f # a
      BY <2>9, <2>19, Numbers DEF dot
    <3> QED
      BY <3>1, <3>2, <3>3, <1>1, <2>9
  <2>21. Body(p) = SubSeq(p, s0, L)
    <3>1. f + 1 = s0
      BY <2>20, <1>1
    <3> QED
      BY <3>1, <2>1, Zenon
  <2>22. s0 <= L
    <3> SUFFICES ASSUME ~(s0 <= L) PROVE FALSE
      OBVIOUS
    <3>1. s0 \in Nat \ {0} /\ L \in Nat /\ L <= Len(p)
      BY <1>1 DEF L
    <3> HIDE DEF s0
    <3>2. DOMAIN SubSeq(p, s0, L) = 1 .. (IF s0 <= L THEN L - s0 + 1 ELSE 0)
      BY <1>1, <3>1, Piece
    <3>3. DOMAIN Body(p) = {}
      BY <3>2, <2>21
    <3> QED
      BY <3>3, <1>2, Zenon DEF Range
  <2>23. s0 \in 1 .. L
    BY <2>22, <1>1
  <2>24. Heading(p, a, s0)
    BY <2>19 DEF Heading, dot
  <2> HIDE DEF s0
  <2> QED
    BY <1>2, <2>21, <2>23, <2>24 DEF L
<1> QED
  BY <1>3, <1>4

\* A condition with a column and a value, as a word in its parts.
CondRead(p, a, b, s0, o, z) ==
  /\ Heading(p, a, s0) /\ CondWord(p, s0, o, z, a, b) /\ CondParts(p, s0, o, z)
  /\ Later(a, s0) <= o - 1

\* A condition that is not thrown out, on a column and with a value, has a
\* column, an operator and a value in its word.
LEMMA ConditionFound ==
  ASSUME NEW p, NEW a, NEW b, Padded(p, a, b), NEW i, ~OfAnother(SubSeq(p, a, b), i), ~ConditionThrows(p),
         Stripped(Condition(p).column) \in Columns, Stripped(Condition(p).value) # <<>>
  PROVE  \E s0, o, z : CondRead(p, a, b, s0, o, z)
<1>1. p \in Seq(Token)
  BY DEF Padded
<1>2. PICK s0 : /\ Heading(p, a, s0) /\ s0 \in 1 .. Len(p) /\ Body(p) = SubSeq(p, s0, Len(p))
                /\ Range(Body(p)) \cap OperatorChars # {}
  BY BodyAt, Zenon
<1>3. PICK o, z : CondAt(p, s0, o, z) /\ CondParts(p, s0, o, z)
  BY <1>1, <1>2, ConditionAt, Zenon
<1>4. /\ a \in Nat \ {0} /\ s0 \in Nat \ {0} /\ o \in Nat /\ z \in Nat
      /\ ~(Later(a, s0) <= o - 1) => Stripped(SubSeq(p, s0, o - 1)) = <<>>
      /\ ~(z <= b) => Blank(SubSeq(p, z, Len(p)))
      /\ z \in Nat \ {0}
  BY <1>3, CondStripped
<1>5. Later(a, s0) <= o - 1
  <2>1. Stripped(SubSeq(p, s0, o - 1)) \in Columns
    BY <1>3, Zenon DEF CondParts
  <2>2. <<>> \notin Columns
    BY ColumnFacts
  <2> QED
    BY <1>4, <2>1, <2>2, Zenon
<1>6. z <= b
  <2> SUFFICES ASSUME ~(z <= b) PROVE FALSE
    OBVIOUS
  <2> DEFINE T == SubSeq(p, z, Len(p))
             L == Len(p)
  <2>1. Blank(T)
    BY <1>4
  <2>2. T \in Seq(Token)
    <3>1. L \in Nat /\ L <= Len(p)
      BY <1>1
    <3> HIDE DEF L
    <3>2. SubSeq(p, z, L) \in Seq(Token)
      BY <1>1, <1>4, <3>1, Piece
    <3> QED
      BY <3>2 DEF L
  <2> HIDE DEF T
  <2>3. Blank(QuotesReplaced(T))
    BY <2>1, <2>2, QuotesPadded, Zenon
  <2>4. Stripped(QuotesReplaced(T)) = <<>>
    BY <2>3, StrippedBlank, Zenon
  <2> QED
    BY <2>4, <1>3, Zenon DEF CondParts, T
<1>7. ASSUME NEW h \in a .. o - 1 PROVE p[h] \notin OperatorChars
  <2>1. \A x \in s0 .. o - 1 : p[x] \notin OperatorChars
    BY <1>3 DEF CondAt
  <2>2. CASE s0 = 1
    <3>1. h \in s0 .. o - 1
      BY <2>2, <1>4
    <3> QED
      BY <3>1, <2>1
  <2>3. CASE s0 = a + 2 /\ p[a] \in DOMAIN Number /\ p[a + 1] = "."
    <3>1. h = a \/ h = a + 1 \/ h \in s0 .. o - 1
      BY <2>3, <1>4
    <3>2. "." \notin OperatorChars
      BY DEF OperatorChars
    <3>3. p[a] \notin OperatorChars
      BY <2>3, Numbers
    <3>4. p[a + 1] \notin OperatorChars
      BY <2>3, <3>2, Zenon
    <3> QED
      BY <3>1, <3>3, <3>4, <2>1
  <2> QED
    BY <1>2, <2>2, <2>3 DEF Heading
<1> QED
  BY <1>2, <1>3, <1>5, <1>6, <1>7, Zenon DEF CondRead, CondWord

\* The word is the prefix, the column, the operator and the value.
LEMMA WordMade ==
  ASSUME NEW p, NEW a, NEW b, NEW s0, NEW o, NEW z, CondRead(p, a, b, s0, o, z)
  PROVE  \E pre \in Openings :
           Made(SubSeq(p, a, b), pre, SubSeq(p, Later(a, s0), o - 1), SubSeq(p, o, z - 1), SubSeq(p, z, b))
<1> DEFINE m == Later(a, s0)
           w == SubSeq(p, a, b)
           col == SubSeq(p, m, o - 1)
           e == SubSeq(p, o, z - 1)
           V == SubSeq(p, z, b)
<1>1. Heading(p, a, s0) /\ CondAt(p, s0, o, z) /\ Padded(p, a, b) /\ z <= b /\ m <= o - 1
  BY DEF CondRead, CondWord
<1>2. /\ a \in Nat \ {0} /\ b \in Nat /\ b <= Len(p) /\ s0 \in Nat \ {0} /\ o \in Nat /\ z \in Nat
      /\ a <= o /\ o <= b /\ o < z /\ Len(p) \in Nat
  BY <1>1, CondStripped
<1>3. p \in Seq(Token)
  BY <1>1 DEF Padded
<1>4. /\ m \in Nat \ {0} /\ a <= m /\ m <= o /\ o \in Nat \ {0} /\ z - 1 \in Nat /\ z - 1 <= Len(p) /\ z \in Nat \ {0}
      /\ m <= z /\ z <= (z - 1) + 1 /\ o <= (z - 1) + 1 /\ a <= z /\ z <= b + 1 /\ m <= b /\ o - 1 \in Nat
      /\ o - 1 <= Len(p)
  BY <1>1, <1>2 DEF Later
<1>5. SubSeq(p, a, z - 1) \o V = w
  BY <1>2, <1>3, <1>4, Glued
<1>6. col \o e = SubSeq(p, m, z - 1)
  <2> DEFINE y == z - 1
  <2>1. y \in Nat /\ o <= y + 1 /\ y <= Len(p)
    BY <1>4
  <2> HIDE DEF y, m
  <2>2. SubSeq(p, m, o - 1) \o SubSeq(p, o, y) = SubSeq(p, m, y)
    BY <1>3, <1>4, <2>1, Glued
  <2> QED
    BY <2>2 DEF y, m
<1>7. \E pre \in Openings : pre \o (col \o e) = SubSeq(p, a, z - 1)
  <2>1. CASE m = a
    <3>1. <<>> \o SubSeq(p, m, z - 1) = SubSeq(p, a, z - 1)
      <4> DEFINE y == z - 1
                 r == SubSeq(p, a, y)
      <4>1. r \in Seq(Token)
        <5>1. y \in Nat /\ y <= Len(p)
          BY <1>4
        <5> HIDE DEF y
        <5> QED
          BY <5>1, <1>2, <1>3, Piece
      <4> HIDE DEF r
      <4>2. <<>> \o r = r
        BY <4>1
      <4> HIDE DEF m
      <4> QED
        BY <4>2, <2>1, Zenon DEF r, y
    <3>2. <<>> \in Openings
      BY DEF Openings
    <3> HIDE DEF col, e, m
    <3>3. <<>> \o (col \o e) = SubSeq(p, a, z - 1)
      BY <3>1, <1>6, Zenon
    <3> QED
      BY <3>2, <3>3, Zenon
  <2>2. CASE m # a
    <3>1. m = s0 /\ s0 = a + 2 /\ p[a] \in DOMAIN Number /\ p[a + 1] = "."
      <4>1. m = s0 /\ s0 # 1
        BY <2>2, <1>2 DEF Later
      <4> QED
        BY <4>1, <1>1 DEF Heading
    <3> DEFINE d == p[a]
               dot == "."
               x == a + 1
               y == z - 1
    <3>2. a \in 1 .. Len(p) /\ a + 1 <= Len(p) /\ x = a + 1 /\ m - 1 = x
      BY <3>1, <1>2, <1>4
    <3>3. SubSeq(p, a, m - 1) = <<d, dot>>
      <4>1. SubSeq(p, a, a + 1) = <<p[a], p[a + 1]>>
        BY <1>3, <3>2, TwoTokens
      <4>2. SubSeq(p, a, m - 1) = SubSeq(p, a, a + 1)
        BY <3>2
      <4> HIDE DEF m
      <4> QED
        BY <4>1, <4>2, <3>1, Zenon
    <3>4. SubSeq(p, a, m - 1) \o SubSeq(p, m, y) = SubSeq(p, a, y)
      <4>1. y \in Nat /\ y <= Len(p) /\ m <= y + 1
        BY <1>4
      <4> HIDE DEF y, m
      <4> QED
        BY <4>1, <1>2, <1>3, <1>4, Glued
    <3>5. <<d, dot>> \in Openings
      BY <3>1, Zenon DEF Openings
    <3> HIDE DEF col, e, m, d, dot
    <3>6. <<d, dot>> \o (col \o e) = SubSeq(p, a, z - 1)
      BY <3>3, <3>4, <1>6, Zenon DEF y
    <3> QED
      BY <3>5, <3>6, Zenon
  <2> QED
    BY <2>1, <2>2
<1>8. PICK pre \in Openings : pre \o (col \o e) = SubSeq(p, a, z - 1)
  BY <1>7, Zenon
<1>9. col \in Seq(Token) /\ e \in Seq(Token) /\ pre \in Seq(Token)
  <2>1. pre \in Seq(Token)
    BY ExpsTyped
  <2> DEFINE u == o - 1
             y == z - 1
  <2>2. u \in Nat /\ u <= Len(p) /\ y \in Nat /\ y <= Len(p) /\ o \in Nat \ {0} /\ m \in Nat \ {0}
    BY <1>4
  <2> HIDE DEF u, y, m
  <2>3. SubSeq(p, m, u) \in Seq(Token) /\ SubSeq(p, o, y) \in Seq(Token)
    BY <2>2, <1>3, Piece
  <2> QED
    BY <2>1, <2>3 DEF u, y
<1> HIDE DEF col, e, V, w, m
<1>10. (pre \o col) \o e = pre \o (col \o e)
  BY <1>9
<1>11. w = (pre \o col \o e) \o V
  BY <1>5, <1>8, <1>10, Zenon
<1>12. Made(w, pre, col, e, V)
  BY <1>11, Zenon DEF Made
<1> QED
  BY <1>12, Zenon DEF col, e, V, w, m

\* The operator, unless it is a lone !.
LEMMA ExpOf ==
  ASSUME NEW p, NEW a, NEW b, NEW o, NEW z, p \in Seq(Token), Spots(p, o, z, a, b),
         Exp(SubSeq(p, o, z - 1)) # <<"!">>
  PROVE  SubSeq(p, o, z - 1) \in Exps
<1> DEFINE e == SubSeq(p, o, z - 1)
           x == p[o]
           y == p[o + 1]
<1>1. /\ o \in Nat /\ a \in Nat \ {0} /\ a <= o /\ o <= b /\ b <= Len(p) /\ b \in Nat /\ z \in Nat /\ z <= b
      /\ ((z = o + 2 /\ Pair(x, y)) \/ (z = o + 1 /\ ~Pair(x, y))) /\ x \in OperatorChars
  BY DEF Spots
<1>2. CASE z = o + 2 /\ Pair(x, y)
  <2>1. o \in 1 .. Len(p) /\ o + 1 <= Len(p) /\ z - 1 = o + 1
    BY <1>1, <1>2
  <2>2. SubSeq(p, o, o + 1) = <<x, y>>
    BY <2>1, TwoTokens
  <2>3. SubSeq(p, o, z - 1) = <<x, y>>
    BY <2>1, <2>2
  <2> HIDE DEF x, y
  <2> QED
    BY <2>3, <1>2, Zenon DEF Exps, Pair
<1>3. CASE z = o + 1
  <2>1. o \in 1 .. Len(p) /\ z - 1 = o
    BY <1>1, <1>3
  <2>2. SubSeq(p, o, o) = <<x>>
    BY <2>1, OneToken
  <2>3. SubSeq(p, o, z - 1) = <<x>>
    BY <2>1, <2>2
  <2> HIDE DEF x
  <2>4. <<x>> # <<"<", ">">>
    <3>1. Len(<<x>>) = 1 /\ Len(<<"<", ">">>) = 2
      BY Tuples, Zenon
    <3>2. 1 # 2
      OBVIOUS
    <3> QED
      BY <3>1, <3>2, Zenon
  <2>5. <<x>> # <<"!">>
    BY <2>3, <2>4, Zenon DEF Exp
  <2>6. x \in {"=", "<", ">"}
    BY <2>5, <1>1, Zenon DEF OperatorChars
  <2>7. <<x>> \in {<<"=">>, <<"<">>, <<">">>}
    BY <2>6, Zenon
  <2> QED
    BY <2>3, <2>7, Zenon DEF Exps
<1> QED
  BY <1>1, <1>2, <1>3

\* All that a condition's text p and its word w have to do with each other; T is
\* the text of the value, V the same without blanks.
CondIs(p, w, pre, col, e, T, V) ==
  /\ pre \in Openings /\ col \in Columns /\ e \in Exps /\ Made(w, pre, col, e, V)
  /\ Stripped(Condition(p).column) = col /\ Condition(p).exp = Exp(e)
  /\ Condition(p).value = QuotesReplaced(T) /\ Stripped(QuotesReplaced(T)) = QuotesReplaced(V)
  /\ T \in Seq(Token) /\ V \in Seq(Token) /\ Stripped(T) = V
  /\ \A c : c \notin BlankChars => (Holds(T, c) <=> Holds(V, c))
  /\ Range(V) \cap OperatorChars = {} /\ ValueText(w) = V
  /\ \A c : Holds(V, c) => Holds(w, c)
  /\ Holds(w, "'") /\ ~OtherThanEqual(w) => e = <<"=">>

\* What is in a piece is in the text.
LEMMA PieceHolds ==
  ASSUME NEW p \in Seq(Token), NEW a \in Nat \ {0}, NEW x \in Nat \ {0}, NEW y \in Nat, NEW b \in Nat,
         a <= x, y <= b, b <= Len(p), NEW c, Holds(SubSeq(p, x, y), c)
  PROVE  Holds(SubSeq(p, a, b), c)
<1> DEFINE v == SubSeq(p, x, y)
           w == SubSeq(p, a, b)
<1>1. Len(p) \in Nat /\ y <= Len(p)
  OBVIOUS
<1>2. DOMAIN v = 1 .. (IF x <= y THEN y - x + 1 ELSE 0) /\ \A j \in 1 .. y - x + 1 : v[j] = p[x + j - 1]
  BY <1>1, Piece
<1>3. DOMAIN w = 1 .. (IF a <= b THEN b - a + 1 ELSE 0) /\ \A j \in 1 .. b - a + 1 : w[j] = p[a + j - 1]
  BY Piece
<1>4. PICK h \in DOMAIN v : v[h] = c
  BY Zenon DEF Holds
<1> HIDE DEF v, w
<1>5. h \in 1 .. y - x + 1 /\ x <= y
  BY <1>2
<1> DEFINE g == x + h - a
<1>6. g \in 1 .. b - a + 1 /\ a + g - 1 = x + h - 1 /\ a <= b
  BY <1>1, <1>5
<1> HIDE DEF g
<1>7. w[g] = p[a + g - 1] /\ v[h] = p[x + h - 1] /\ g \in DOMAIN w
  BY <1>2, <1>3, <1>5, <1>6
<1>8. w[g] = c
  BY <1>4, <1>6, <1>7
<1> QED
  BY <1>7, <1>8, Zenon DEF Holds, w

\* Such a condition, not chained and without a lone !, is what the four parts
\* of its word say.
LEMMA ConditionIs ==
  ASSUME NEW p, NEW a, NEW b, NEW s0, NEW o, NEW z, CondRead(p, a, b, s0, o, z), ~Chained(SubSeq(p, a, b)),
         Condition(p).exp # <<"!">>, Stripped(Condition(p).column) \in Columns
  PROVE  \E pre, col, e, T, V : CondIs(p, SubSeq(p, a, b), pre, col, e, T, V)
<1> DEFINE m == Later(a, s0)
           L == Len(p)
           w == SubSeq(p, a, b)
           col == SubSeq(p, m, o - 1)
           e == SubSeq(p, o, z - 1)
           V == SubSeq(p, z, b)
           T == SubSeq(p, z, L)
<1>1. CondWord(p, s0, o, z, a, b) /\ CondParts(p, s0, o, z) /\ m <= o - 1
  BY DEF CondRead
<1>2. CondAt(p, s0, o, z) /\ Padded(p, a, b) /\ z <= b
  BY <1>1 DEF CondWord
<1>3. p \in Seq(Token) /\ Spots(p, o, z, a, b)
  BY <1>1, SpotsOf
<1>4. /\ a \in Nat \ {0} /\ b \in Nat /\ b <= L /\ o \in Nat /\ z \in Nat /\ a <= o /\ o < z /\ L \in Nat
      /\ Stripped(SubSeq(p, s0, o - 1)) = col
      /\ Padded(T, 1, b - z + 1) /\ Stripped(T) = V
  BY <1>1, <1>2, CondStripped
<1>5. /\ Condition(p).column = SubSeq(p, s0, o - 1) /\ Condition(p).exp = Exp(e)
      /\ Condition(p).value = QuotesReplaced(T)
  BY <1>1, Zenon DEF CondParts
<1>6. col \in Columns /\ Stripped(Condition(p).column) = col
  BY <1>4, <1>5, Zenon
<1>7. e \in Exps
  BY <1>3, <1>5, ExpOf, Zenon
<1>8. PICK pre \in Openings : Made(w, pre, col, e, V)
  BY WordMade, Zenon
<1>9. z \in Nat \ {0} /\ a <= z
  BY <1>4
<1>10. T \in Seq(Token)
  BY <1>4 DEF Padded
<1>11. V \in Seq(Token) /\ DOMAIN V = 1 .. (IF z <= b THEN b - z + 1 ELSE 0)
       /\ \A j \in 1 .. b - z + 1 : V[j] = p[z + j - 1]
  BY <1>3, <1>4, <1>9, Piece
<1>12. Stripped(QuotesReplaced(T)) = QuotesReplaced(V)
  <2> HIDE DEF T, V
  <2>1. V = SubSeq(T, 1, b - z + 1)
    BY <1>4, StrippedPadded, Zenon
  <2>2. \A x, y : Padded(T, x, y) => Stripped(QuotesReplaced(T)) = QuotesReplaced(SubSeq(T, x, y))
    BY <1>10, QuotesPadded, Zenon
  <2> QED
    BY <2>1, <2>2, <1>4, Zenon
<1>13. ASSUME NEW c, c \notin BlankChars PROVE Holds(T, c) <=> Holds(V, c)
  <2>1. Holds(T, c) => Holds(V, c)
    <3> HIDE DEF T, V
    <3> QED
      BY <1>4, <1>10, <1>13, HeldIsSeen, Zenon
  <2>2. Holds(V, c) => Holds(T, c)
    <3>1. z <= z /\ L <= Len(p) /\ L \in Nat
      BY <1>4
    <3> HIDE DEF L
    <3> QED
      BY <3>1, <1>3, <1>4, <1>9, PieceHolds
  <2> QED
    BY <2>1, <2>2
<1>14. \A h \in z .. b : p[h] \notin OperatorChars
  BY <1>3, NoMoreOperators
<1>15. ValueText(w) = V
  BY <1>3, <1>14, ValueTextIs
<1>16. Range(V) \cap OperatorChars = {}
  <2> SUFFICES ASSUME NEW j \in DOMAIN V, V[j] \in OperatorChars PROVE FALSE
    BY Zenon DEF Range
  <2> HIDE DEF V
  <2>1. j \in 1 .. b - z + 1 /\ z + j - 1 \in z .. b
    BY <1>4, <1>9, <1>11
  <2>2. V[j] = p[z + j - 1]
    BY <2>1, <1>11
  <2> QED
    BY <2>1, <2>2, <1>14
<1>17. ASSUME NEW c, Holds(V, c) PROVE Holds(w, c)
  BY <1>3, <1>4, <1>9, <1>17, PieceHolds
<1>18. Holds(w, "'") /\ ~OtherThanEqual(w) => e = <<"=">>
  <2>1. Range(w) \cap OperatorChars # {} /\ OperatorAt(w, First(w, OperatorChars)) = e
    BY <1>3, OperatorOfWord
  <2> HIDE DEF w, e
  <2> QED
    BY <2>1, Zenon DEF OtherThanEqual
<1> HIDE DEF m, L, w, col, e, V, T
<1>19. CondIs(p, w, pre, col, e, T, V)
  BY <1>5, <1>6, <1>7, <1>8, <1>10, <1>11, <1>12, <1>13, <1>4, <1>15, <1>16, <1>17, <1>18, Zenon DEF CondIs
<1> QED
  BY <1>19, Zenon DEF w

\* The test and the kind of a condition fit a reading.
Fits(c, e, kind, V) ==
  \/ kind = "text" /\ c.test = "compare" /\ e = <<"=">> /\ c.kind = "literal"
  \/ /\ c.test = "operator" /\ c.exp = Exp(e)
     /\ \/ kind = "column" /\ c.kind \in {"column", "expr"}
        \/ kind = "expr" /\ c.kind = "expr"
        \/ /\ kind = "aggregate" /\ c.kind = "aggregate"
           /\ \E a \in Named(V) : Field(Aggregate(c.value)) = Field(a)
        \/ kind = "number" /\ c.kind = "literal"

\* When a condition says what a reading says.
LEMMA SaysSo ==
  ASSUME NEW c, NEW pre, NEW col, NEW e, NEW kind, NEW V,
         Stripped(c.column) = col, Stripped(c.value) = QuotesReplaced(V), Fits(c, e, kind, V)
  PROVE  Says(c, ReadingOf(pre, col, e, kind, V))
<1> DEFINE r == ReadingOf(pre, col, e, kind, V)
<1>1. r.column = col /\ r.exp = e /\ r.kind = kind /\ r.value = V
  BY DEF ReadingOf
<1> HIDE DEF r
<1>2. Stripped(c.column) = r.column /\ Stripped(c.value) = QuotesReplaced(r.value)
  BY <1>1, Zenon
<1>3. IF r.kind = "text" THEN c.test = "compare" /\ r.exp = <<"=">>
      ELSE c.test = "operator" /\ c.exp = IF r.exp = <<"<", ">">> THEN <<"!", "=">> ELSE r.exp
  <2>1. CASE kind = "text" /\ c.test = "compare" /\ e = <<"=">>
    BY <1>1, <2>1, Zenon
  <2>2. CASE c.test = "operator" /\ c.exp = Exp(e) /\ kind \in {"column", "expr", "aggregate", "number"}
    <3>1. kind # "text"
      BY <2>2
    <3> QED
      BY <1>1, <2>2, <3>1, Zenon DEF Exp
  <2>3. \/ kind = "text" /\ c.test = "compare" /\ e = <<"=">>
        \/ c.test = "operator" /\ c.exp = Exp(e) /\ kind \in {"column", "expr", "aggregate", "number"}
    BY Zenon DEF Fits
  <2> QED
    BY <2>1, <2>2, <2>3
<1> DEFINE A == \E a \in Named(r.value) : Field(Aggregate(c.value)) = Field(a)
<1>4. (CASE r.kind = "column"   -> c.kind \in {"column", "expr"}
        [] r.kind = "expr"      -> c.kind = "expr"
        [] r.kind = "aggregate" -> c.kind = "aggregate" /\ A
        [] OTHER                -> c.kind = "literal")
  <2>1. \/ r.kind = "text" /\ c.kind = "literal"
        \/ r.kind = "column" /\ c.kind \in {"column", "expr"}
        \/ r.kind = "expr" /\ c.kind = "expr"
        \/ r.kind = "aggregate" /\ c.kind = "aggregate" /\ A
        \/ r.kind = "number" /\ c.kind = "literal"
    BY <1>1, Zenon DEF Fits
  <2> HIDE DEF A
  <2> DEFINE k1 == r.kind
             k2 == c.kind
  <2>2. \/ k1 = "text" /\ k2 = "literal"
        \/ k1 = "column" /\ k2 \in {"column", "expr"}
        \/ k1 = "expr" /\ k2 = "expr"
        \/ k1 = "aggregate" /\ k2 = "aggregate" /\ A
        \/ k1 = "number" /\ k2 = "literal"
    BY <2>1
  <2> HIDE DEF k1, k2
  <2>3. (CASE k1 = "column"   -> k2 \in {"column", "expr"}
          [] k1 = "expr"      -> k2 = "expr"
          [] k1 = "aggregate" -> k2 = "aggregate" /\ A
          [] OTHER            -> k2 = "literal")
    BY ONLY <2>2
  <2> QED
    BY <2>3 DEF k1, k2
<1>5. Says(c, r)
  BY <1>2, <1>3, <1>4, Zenon DEF Says
<1> QED
  BY <1>5 DEF r

\* The fields of the C++ condition.
LEMMA CppFields ==
  ASSUME NEW x
  PROVE  /\ toCpp(x).column = x.column /\ toCpp(x).exp = x.exp /\ toCpp(x).value = x.value
         /\ toCpp(x).kind = Kind(x.value) /\ toCpp(x).column_call = Holds(x.column, "avg")
         /\ toCpp(x).test = IF Holds(x.value, "\"") THEN "compare" ELSE "operator"
<1>1. toCpp(x) = [column |-> x.column, test |-> IF Holds(x.value, "\"") THEN "compare" ELSE "operator",
                  exp |-> x.exp, kind |-> Kind(x.value), value |-> x.value, call |-> Holds(x.value, "avg"),
                  column_call |-> Holds(x.column, "avg")]
  BY Zenon DEF toCpp
<1> DEFINE t == IF Holds(x.value, "\"") THEN "compare" ELSE "operator"
           i == Kind(x.value)
           h == Holds(x.value, "avg")
           l == Holds(x.column, "avg")
<1> HIDE DEF t, i, h, l
<1>2. toCpp(x) = [column |-> x.column, test |-> t, exp |-> x.exp, kind |-> i, value |-> x.value, call |-> h,
                  column_call |-> l]
  BY <1>1 DEF t, i, h, l
<1>3. /\ toCpp(x).column = x.column /\ toCpp(x).exp = x.exp /\ toCpp(x).value = x.value
      /\ toCpp(x).kind = i /\ toCpp(x).test = t /\ toCpp(x).column_call = l
  BY <1>2
<1> QED
  BY <1>3 DEF t, i, l

\* The kinds of a value.
LEMMA KindIs ==
  ASSUME NEW v
  PROVE  \/ Kind(v) = "column" /\ isColumn(v)
         \/ Kind(v) = "aggregate" /\ ~isColumn(v) /\ isAggregate(v)
         \/ Kind(v) = "expr" /\ ~isColumn(v) /\ ~isAggregate(v) /\ hasColumn(v)
         \/ Kind(v) = "literal" /\ ~isColumn(v) /\ ~isAggregate(v) /\ ~hasColumn(v)
<1> DEFINE A == isColumn(v)
           B == isAggregate(v)
           C == hasColumn(v)
<1>1. Kind(v) = CASE A -> "column" [] ~A /\ B -> "aggregate" [] ~A /\ ~B /\ C -> "expr" [] OTHER -> "literal"
  BY Zenon DEF Kind
<1> HIDE DEF A, B, C
<1>2. \/ Kind(v) = "column" /\ A
      \/ Kind(v) = "aggregate" /\ ~A /\ B
      \/ Kind(v) = "expr" /\ ~A /\ ~B /\ C
      \/ Kind(v) = "literal" /\ ~A /\ ~B /\ ~C
  BY ONLY <1>1
<1> QED
  BY <1>2 DEF A, B, C

\* What g++ asks of a condition, by the kind of its value.
LEMMA CompilesBy ==
  ASSUME NEW c, ConditionCompiles(c)
  PROVE  LET v == Stripped(c.value)
             text == Stripped(c.column) \in TextColumns
         IN  /\ Stripped(c.column) \in Columns /\ c.exp # <<"!">>
             /\ c.kind = "column" => (v \in TextColumns) = text
             /\ c.kind = "aggregate" => /\ c.test = "operator"
                                        /\ FieldCompiles(Field(Aggregate(c.value)), c.call)
             /\ c.kind = "expr" =>
                  /\ c.test = "operator"
                  /\ \E x \in 1 .. Len(v) :
                       /\ SubSeq(v, 1, x) \in Columns
                       /\ (SubSeq(v, 1, x) \in TextColumns) = text
                       /\ Len(v) > x => ~text /\ v[x + 1] # "."
                       /\ (Len(v) - x) % 2 = 0
                       /\ Arithmetic(SubSeq(v, x + 1, Len(v)))
             /\ c.kind = "literal" => IF c.test = "compare" THEN text /\ TextCompiles(v)
                                      ELSE ~text /\ NumberCompiles(v)
<1> DEFINE v == Stripped(c.value)
           text == Stripped(c.column) \in TextColumns
           A == (v \in TextColumns) = text
           B == c.test = "operator" /\ ~text /\ FieldCompiles(Field(Aggregate(c.value)), c.call)
           C == /\ c.test = "operator"
                /\ \E x \in 1 .. Len(v) :
                     /\ SubSeq(v, 1, x) \in Columns
                     /\ (SubSeq(v, 1, x) \in TextColumns) = text
                     /\ Len(v) > x => ~text /\ v[x + 1] # "."
                     /\ (Len(v) - x) % 2 = 0
                     /\ Arithmetic(SubSeq(v, x + 1, Len(v)))
           D == IF c.test = "compare" THEN text /\ TextCompiles(v) ELSE ~text /\ NumberCompiles(v)
           i == c.kind
<1>1. /\ Stripped(c.column) \in Columns /\ c.exp # <<"!">>
      /\ CASE i = "column" -> A [] i = "aggregate" -> B [] i = "expr" -> C [] i = "literal" -> D
  BY DEF ConditionCompiles
<1> HIDE DEF A, B, C, D, i
<1>2. (CASE i = "column" -> A [] i = "aggregate" -> B [] i = "expr" -> C [] i = "literal" -> D)
  BY <1>1
<1>3. (i = "column" => A) /\ (i = "aggregate" => B) /\ (i = "expr" => C) /\ (i = "literal" => D)
  BY ONLY <1>2
<1>4. Stripped(c.column) \in Columns /\ c.exp # <<"!">>
  BY <1>1
<1> QED
  BY <1>3, <1>4, Zenon DEF A, B, C, D, i

\* The value of a condition is written the way its reading says.
Unquoted(V) == ~Holds(V, "\"")

\* A value that g++ takes for a text was written as one.
LEMMA TextQuoted ==
  ASSUME NEW V \in Seq(Token), Unquoted(V), TextCompiles(QuotesReplaced(V))
  PROVE  WrittenAs("text", V)
<1> DEFINE q == "\""
           e == "'"
           n == Len(V)
           v == QuotesReplaced(V)
<1>1. n \in Nat /\ Len(v) = n /\ \A x \in 1 .. n : v[x] = IF V[x] = e THEN q ELSE V[x]
  <2>1. n \in Nat
    OBVIOUS
  <2> QED
    BY <2>1, QuotesTyped, Zenon
<1>2. \A x \in 1 .. n : V[x] # q
  <2>1. DOMAIN V = 1 .. n
    OBVIOUS
  <2> QED
    BY <2>1, Zenon DEF Holds, Unquoted
<1>3. Len(v) >= 2 /\ v[1] = q /\ v[Len(v)] = q /\ \A x \in 2 .. Len(v) - 1 : v[x] # q
  BY Zenon DEF TextCompiles
<1>4. q # e
  OBVIOUS
<1> HIDE DEF q, e, v, n
<1>5. n >= 2 /\ v[1] = q /\ v[n] = q /\ \A x \in 2 .. n - 1 : v[x] # q
  BY <1>1, <1>3, Zenon
<1>6. 1 \in 1 .. n /\ n \in 1 .. n /\ \A x \in 2 .. n - 1 : x \in 1 .. n
  <2>1. n >= 2 /\ n \in Nat
    BY <1>1, <1>5
  <2> QED
    BY ONLY <2>1
<1>7. V[1] = e /\ V[n] = e
  BY <1>1, <1>2, <1>5, <1>6, Zenon
<1>8. \A x \in 2 .. n - 1 : V[x] # e
  BY <1>1, <1>5, <1>6, Zenon
<1> DEFINE A == /\ n >= 2 /\ V[1] = e /\ V[n] = e
                /\ \A x \in 2 .. n - 1 : V[x] # e
           i == "text"
<1>9. A
  BY <1>5, <1>7, <1>8, Zenon
<1>10. A => WrittenAs("text", V)
  BY DEF WrittenAs, n, e
<1> QED
  BY <1>9, <1>10, Zenon

\* How the values of the grammar are written, kind by kind.
LEMMA WrittenKinds ==
  ASSUME NEW V
  PROVE  /\ V \in Columns => WrittenAs("column", V)
         /\ Named(V) # {} => WrittenAs("aggregate", V)
         /\ NumberCompiles(V) /\ Range(V) \cap OperatorChars = {} => WrittenAs("number", V)
         /\ (\E x \in 1 .. Len(V) - 1 :
               /\ SubSeq(V, 1, x) \in Columns \ TextColumns
               /\ V[x + 1] # "." /\ (Len(V) - x) % 2 = 0
               /\ Arithmetic(SubSeq(V, x + 1, Len(V)))
               /\ Range(V) \cap OperatorChars = {}) => WrittenAs("expr", V)
<1> DEFINE A == V \in Columns
           B == Named(V) # {}
           C == \E x \in 1 .. Len(V) - 1 :
                  /\ SubSeq(V, 1, x) \in Columns \ TextColumns
                  /\ V[x + 1] # "." /\ (Len(V) - x) % 2 = 0
                  /\ Arithmetic(SubSeq(V, x + 1, Len(V)))
                  /\ Range(V) \cap OperatorChars = {}
           D == NumberCompiles(V) /\ Range(V) \cap OperatorChars = {}
           E == /\ Len(V) >= 2 /\ V[1] = "'" /\ V[Len(V)] = "'"
                /\ \A p \in 2 .. Len(V) - 1 : V[p] # "'"
<1>1. \A i : WrittenAs(i, V) = CASE i = "column" -> A [] i = "aggregate" -> B [] i = "expr" -> C
                                 [] i = "number" -> D [] i = "text" -> E
  BY Zenon DEF WrittenAs
<1> HIDE DEF A, B, C, D, E
<1>2. /\ WrittenAs("column", V) = CASE "column" = "column" -> A [] "column" = "aggregate" -> B
           [] "column" = "expr" -> C [] "column" = "number" -> D [] "column" = "text" -> E
      /\ WrittenAs("aggregate", V) = CASE "aggregate" = "column" -> A [] "aggregate" = "aggregate" -> B
           [] "aggregate" = "expr" -> C [] "aggregate" = "number" -> D [] "aggregate" = "text" -> E
      /\ WrittenAs("number", V) = CASE "number" = "column" -> A [] "number" = "aggregate" -> B
           [] "number" = "expr" -> C [] "number" = "number" -> D [] "number" = "text" -> E
      /\ WrittenAs("expr", V) = CASE "expr" = "column" -> A [] "expr" = "aggregate" -> B
           [] "expr" = "expr" -> C [] "expr" = "number" -> D [] "expr" = "text" -> E
  BY <1>1, Zenon
<1>3. /\ A => WrittenAs("column", V)
      /\ B => WrittenAs("aggregate", V)
      /\ D => WrittenAs("number", V)
      /\ C => WrittenAs("expr", V)
  BY ONLY <1>2
<1> QED
  BY <1>3, Zenon DEF A, B, C, D

\* One of the values a condition may have says what the word says.
LEMMA ConditionSays ==
  ASSUME Inv, pc \in AggregatesDone, NEW p, NEW w, NEW pre, NEW col, NEW e, NEW T, NEW V,
         CondIs(p, w, pre, col, e, T, V), ~OtherThanEqual(w), ~Misnamed(ValueText(w)),
         ConditionCompiles(toCpp(Condition(p))), ~ToCppThrows(Condition(p))
  PROVE  \E r \in Readings(w) : Says(toCpp(Condition(p)), r)
<1> DEFINE c == toCpp(Condition(p))
           U == QuotesReplaced(T)
           text == Stripped(c.column) \in TextColumns
           Stmt == \E r \in Readings(w) : Says(c, r)
<1>1. /\ pre \in Openings /\ col \in Columns /\ e \in Exps /\ Made(w, pre, col, e, V)
      /\ Stripped(Condition(p).column) = col /\ Condition(p).exp = Exp(e)
      /\ Condition(p).value = U /\ Stripped(U) = QuotesReplaced(V)
      /\ T \in Seq(Token) /\ V \in Seq(Token) /\ Stripped(T) = V
      /\ \A x : x \notin BlankChars => (Holds(T, x) <=> Holds(V, x))
      /\ Range(V) \cap OperatorChars = {} /\ ValueText(w) = V
      /\ \A x : Holds(V, x) => Holds(w, x)
      /\ Holds(w, "'") => e = <<"=">>
  BY Zenon DEF CondIs
<1>2. /\ Stripped(c.column) = col /\ c.exp = Exp(e) /\ c.value = U /\ c.kind = Kind(U)
      /\ c.test = IF Holds(U, "\"") THEN "compare" ELSE "operator"
  BY <1>1, CppFields, Zenon
<1>3. "'" \notin BlankChars /\ "\"" \notin BlankChars /\ "_" \notin BlankChars
  BY Characters
<1>4. ~Holds(V, "\"") /\ ~Holds(T, "\"")
  BY <1>1, <1>3, Zenon DEF OtherThanEqual
<1>5. Holds(U, "\"") <=> Holds(T, "'")
  <2>1. Holds(QuotesReplaced(T), "\"") <=> Holds(T, "'") \/ Holds(T, "\"")
    BY <1>1, QuotesHeld, Zenon
  <2> QED
    BY <2>1, <1>4, Zenon
<1>6. ~Holds(T, "'") => U = T /\ QuotesReplaced(V) = V
  <2>1. ~Holds(T, "'") => QuotesReplaced(T) = T
    BY <1>1, QuotesHeld, Zenon
  <2>2. ~Holds(V, "'") => QuotesReplaced(V) = V
    BY <1>1, QuotesHeld, Zenon
  <2> QED
    BY <2>1, <2>2, <1>1, <1>3, Zenon
<1>7. c.test = "operator" => ~Holds(T, "'")
  <2>1. "compare" # "operator"
    OBVIOUS
  <2> QED
    BY <2>1, <1>2, <1>5, Zenon
<1>8. ASSUME NEW kind \in Kinds, WrittenAs(kind, V), Fits(c, e, kind, V)
      PROVE  Stmt
  <2>1. Stripped(c.column) = col /\ Stripped(c.value) = QuotesReplaced(V)
    BY <1>1, <1>2, Zenon
  <2> HIDE DEF c
  <2>2. Says(c, ReadingOf(pre, col, e, kind, V))
    BY <2>1, <1>8, SaysSo
  <2>3. ReadingOf(pre, col, e, kind, V) \in Readings(w)
    BY <1>1, <1>8, ReadAs, Zenon
  <2> QED
    BY <2>2, <2>3, Zenon
<1>9. "column" \in Kinds /\ "expr" \in Kinds /\ "aggregate" \in Kinds /\ "number" \in Kinds /\ "text" \in Kinds
  BY DEF Kinds
<1>10. LET v == Stripped(c.value)
       IN  /\ c.kind = "aggregate" => c.test = "operator" /\ FieldCompiles(Field(Aggregate(c.value)), c.call)
           /\ c.kind = "expr" =>
                /\ c.test = "operator"
                /\ \E x \in 1 .. Len(v) :
                     /\ SubSeq(v, 1, x) \in Columns
                     /\ (SubSeq(v, 1, x) \in TextColumns) = text
                     /\ Len(v) > x => ~text /\ v[x + 1] # "."
                     /\ (Len(v) - x) % 2 = 0
                     /\ Arithmetic(SubSeq(v, x + 1, Len(v)))
           /\ c.kind = "literal" => IF c.test = "compare" THEN text /\ TextCompiles(v)
                                    ELSE ~text /\ NumberCompiles(v)
  <2>1. ConditionCompiles(c)
    OBVIOUS
  <2> HIDE DEF c
  <2> QED
    BY <2>1, CompilesBy, Zenon
<1>11. /\ ~(Kind(U) = "aggregate" /\ AggregateThrows(U))
  BY <1>1, Zenon DEF ToCppThrows
<1> HIDE DEF c, Stmt
<1>12. ASSUME Kind(U) = "column" /\ isColumn(U) PROVE Stmt
  <2>1. U \in Columns
    BY <1>12 DEF isColumn
  <2>2. ~Holds(U, "\"")
    <3> DEFINE q == "\""
    <3>1. q \in Punctuation
      BY DEF Punctuation
    <3> HIDE DEF q, U
    <3>2. U \in Seq(Token) /\ \A j \in 1 .. Len(U) : U[j] \notin Punctuation
      BY <2>1, ColumnFacts
    <3>3. DOMAIN U = 1 .. Len(U)
      BY <3>2
    <3> QED
      BY <3>1, <3>2, <3>3, Zenon DEF Holds, q
  <2>3. c.test = "operator" /\ U = T
    BY <2>2, <1>2, <1>5, <1>6, Zenon
  <2>4. V \in Columns
    <3>1. Stripped(U) = U
      BY <2>1, ColumnFacts, Zenon
    <3> QED
      BY <3>1, <2>1, <2>3, <1>1, Zenon
  <2>5. WrittenAs("column", V)
    BY <2>4, WrittenKinds, Zenon
  <2>9. Fits(c, e, "column", V)
    BY <2>3, <2>5, <1>2, <1>12, Zenon DEF Fits
  <2> QED
    BY <2>9, <2>3, <2>5, <1>8, <1>9, Zenon
<1>13. ASSUME Kind(U) = "aggregate" /\ isAggregate(U) PROVE Stmt
  <2>1. c.test = "operator" /\ FieldCompiles(Field(Aggregate(U)), c.call) /\ ~AggregateThrows(U)
    BY <1>2, <1>10, <1>11, <1>13, Zenon
  <2>2. U = T
    BY <2>1, <1>6, <1>7, Zenon
  <2>3. PICK o \in Range(all_aggregates) : Field(o) = Field(Aggregate(T))
    BY <2>1, <2>2, Zenon DEF FieldCompiles
  <2>4. isAggregate(T) /\ ~Misnamed(Stripped(T)) /\ ~AggregateThrows(T)
    BY <2>1, <2>2, <1>1, <1>13, Zenon
  <2>5. o \in Named(Stripped(T))
    BY <1>1, <2>3, <2>4, FieldNamed, Zenon
  <2>6. o \in Named(V) /\ Field(Aggregate(c.value)) = Field(o)
    BY <2>2, <2>3, <2>5, <1>1, <1>2, Zenon
  <2>7. WrittenAs("aggregate", V)
    BY <2>6, WrittenKinds, Zenon
  <2>9. Fits(c, e, "aggregate", V)
    BY <2>1, <2>6, <2>7, <1>2, <1>13, Zenon DEF Fits
  <2> QED
    BY <2>9, <2>1, <2>6, <2>7, <1>8, <1>9, Zenon
<1>14. ASSUME Kind(U) = "expr" PROVE Stmt
  <2>1. c.test = "operator" /\ QuotesReplaced(V) = V
    BY <1>2, <1>6, <1>7, <1>10, <1>14, Zenon
  <2>2. Stripped(c.value) = V
    BY <2>1, <1>1, <1>2, Zenon
  <2>3. PICK x \in 1 .. Len(V) :
                     /\ SubSeq(V, 1, x) \in Columns
                     /\ (SubSeq(V, 1, x) \in TextColumns) = text
                     /\ Len(V) > x => ~text /\ V[x + 1] # "."
                     /\ (Len(V) - x) % 2 = 0
                     /\ Arithmetic(SubSeq(V, x + 1, Len(V)))
    BY <2>2, <1>2, <1>10, <1>14, Zenon
  <2> DEFINE n == Len(V)
  <2>4. n \in Nat /\ x \in Nat /\ 1 <= x /\ x <= n
    BY <1>1, <2>3
  <2> HIDE DEF text
  <2>5. ASSUME x = n PROVE Stmt
    <3>1. SubSeq(V, 1, n) = V
      BY <1>1
    <3>2. V \in Columns
      BY <3>1, <2>3, <2>5, Zenon
    <3>3. WrittenAs("column", V)
      BY <3>2, WrittenKinds, Zenon
    <3>9. Fits(c, e, "column", V)
      BY <2>1, <3>3, <1>2, <1>14, Zenon DEF Fits
    <3> QED
      BY <3>9, <2>1, <3>3, <1>8, <1>9, Zenon
  <2>6. ASSUME x # n PROVE Stmt
    <3>1. x \in 1 .. n - 1 /\ n > x
      BY <2>4, <2>6
    <3>2. SubSeq(V, 1, x) \in Columns \ TextColumns /\ V[x + 1] # "." /\ (n - x) % 2 = 0
          /\ Arithmetic(SubSeq(V, x + 1, n)) /\ Range(V) \cap OperatorChars = {}
      BY <3>1, <2>3, <1>1, Zenon
    <3>3. WrittenAs("expr", V)
      BY <3>1, <3>2, WrittenKinds, Zenon
    <3>9. Fits(c, e, "expr", V)
      BY <2>1, <3>3, <1>2, <1>14, Zenon DEF Fits
    <3> QED
      BY <3>9, <2>1, <3>3, <1>8, <1>9, Zenon
  <2> QED
    BY <2>5, <2>6
<1>15. ASSUME Kind(U) = "literal" /\ Holds(U, "\"") PROVE Stmt
  <2>1. c.test = "compare" /\ TextCompiles(QuotesReplaced(V))
    BY <1>1, <1>2, <1>10, <1>15, Zenon
  <2>2. WrittenAs("text", V)
    BY <2>1, <1>1, <1>4, TextQuoted, Zenon DEF Unquoted
  <2>3. e = <<"=">>
    BY <1>1, <1>3, <1>5, <1>15, Zenon
  <2>9. Fits(c, e, "text", V)
    BY <2>1, <2>2, <2>3, <1>2, <1>15, Zenon DEF Fits
  <2> QED
    BY <2>9, <2>1, <2>2, <2>3, <1>8, <1>9, Zenon
<1>16. ASSUME Kind(U) = "literal" /\ ~Holds(U, "\"") PROVE Stmt
  <2>1. "compare" # "operator"
    OBVIOUS
  <2>2. c.test = "operator" /\ NumberCompiles(V)
    BY <2>1, <1>1, <1>2, <1>5, <1>6, <1>10, <1>16, Zenon
  <2>3. WrittenAs("number", V)
    BY <2>2, <1>1, WrittenKinds, Zenon
  <2>9. Fits(c, e, "number", V)
    BY <2>2, <2>3, <1>2, <1>16, Zenon DEF Fits
  <2> QED
    BY <2>9, <2>2, <2>3, <1>8, <1>9, Zenon
<1>17. \/ Kind(U) = "column" /\ isColumn(U)
       \/ Kind(U) = "aggregate" /\ isAggregate(U)
       \/ Kind(U) = "expr"
       \/ Kind(U) = "literal"
  BY KindIs, Zenon
<1>18. Stmt
  BY <1>12, <1>13, <1>14, <1>15, <1>16, <1>17, Zenon
<1> QED
  BY <1>18 DEF Stmt, c

\* A condition that g++ accepts has a value.
LEMMA ValueThere ==
  ASSUME NEW x, x.value \in Seq(Token), ConditionCompiles(toCpp(x))
  PROVE  Stripped(x.value) # <<>>
<1> DEFINE c == toCpp(x)
           U == x.value
           v == Stripped(U)
<1>1. c.value = U /\ c.kind = Kind(U)
  BY CppFields, Zenon
<1>2. /\ c.kind = "expr" => \E y \in 1 .. Len(Stripped(c.value)) : SubSeq(Stripped(c.value), 1, y) \in Columns
      /\ c.kind = "literal" => TextCompiles(Stripped(c.value)) \/ NumberCompiles(Stripped(c.value))
  <2>1. ConditionCompiles(c)
    OBVIOUS
  <2> HIDE DEF c
  <2> QED
    BY <2>1, CompilesBy, Zenon
<1> SUFFICES ASSUME v = <<>> PROVE FALSE
  OBVIOUS
<1>3. /\ Kind(U) = "expr" => \E y \in 1 .. Len(<<>>) : TRUE
      /\ Kind(U) = "literal" => TextCompiles(<<>>) \/ NumberCompiles(<<>>)
  BY <1>1, <1>2, Zenon
<1>4. 1 .. Len(<<>>) = {} /\ ~TextCompiles(<<>>)
  BY DEF TextCompiles
<1>5. ~NumberCompiles(<<>>)
  BY DEF NumberCompiles
<1>6. Kind(U) # "expr" /\ Kind(U) # "literal"
  BY <1>3, <1>4, <1>5, Zenon
<1>7. ~isColumn(U)
  <2> SUFFICES ASSUME U \in Columns PROVE FALSE
    BY Zenon DEF isColumn
  <2>1. Stripped(U) = U /\ 1 <= Len(U)
    BY ColumnFacts
  <2>2. U = <<>>
    BY <2>1, Zenon
  <2>3. ~(1 <= Len(<<>>))
    OBVIOUS
  <2> QED
    BY <2>1, <2>2, <2>3, Zenon
<1>8. ~isAggregate(U)
  <2>1. "_" \notin BlankChars
    BY Characters
  <2>2. isAggregate(U) => ~Blank(U)
    BY <2>1, HeldIsSeen, Zenon DEF isAggregate
  <2>3. Blank(U)
    BY SomethingLeft, Zenon
  <2> QED
    BY <2>2, <2>3
<1> QED
  BY <1>6, <1>7, <1>8, KindIs, Zenon

\* A condition that is not thrown out has something in it.
LEMMA CondThere ==
  ASSUME NEW p \in Seq(Token), ~ConditionThrows(p) PROVE ~Blank(p)
<1>1. Range(Body(p)) \cap OperatorChars # {}
  BY Zenon DEF ConditionThrows
<1>2. PICK h \in DOMAIN Body(p) : Body(p)[h] \in OperatorChars
  BY <1>1, Zenon DEF Range
<1>3. \A x \in OperatorChars : x \notin BlankChars
  BY Characters
<1>4. CASE ~Prefixed(p)
  <2>1. Body(p) = p
    BY <1>4, Zenon DEF Body
  <2> QED
    BY <2>1, <1>2, <1>3, Zenon DEF Blank
<1>5. CASE Prefixed(p)
  <2>1. Holds(p, ".") /\ "." \notin BlankChars
    BY <1>5, Characters DEF Prefixed
  <2> QED
    BY <2>1, Zenon DEF Holds, Blank
<1> QED
  BY <1>4, <1>5

\* The parts of a line whose clause compiles have something in them, the last
\* one excepted if it is a connective.
LEMMA PartsFull ==
  ASSUME NEW cs, NEW P, NEW cl, Split(cs, P), Joined(cl, cs), ClauseCompiles(cl)
  PROVE  \E f \in Nat : /\ Full(P) = 1 .. f /\ f <= Len(P) /\ (f + 1) \div 2 = Len(cl.conditions)
                        /\ \A j \in 1 .. Len(cl.conditions) : 2 * j - 1 \in 1 .. f
                        /\ \A j \in 1 .. Len(cl.conditions) - 1 : 2 * j \in 1 .. f
<1> DEFINE L == Len(P)
           m == (L + 1) \div 2
<1>1. /\ P \in Seq(Seq(Token)) /\ L \in Nat /\ Len(cs.conditions) = m
      /\ \A j \in 1 .. m : 2 * j - 1 \in 1 .. L /\ ~ConditionThrows(P[2 * j - 1])
      /\ Len(cs.ops) = L \div 2 /\ \A j \in 1 .. L \div 2 : 2 * j \in 1 .. L /\ cs.ops[j] = P[2 * j]
  <2>1. P \in Seq(Seq(Token)) /\ Len(cs.conditions) = m /\ Len(cs.ops) = L \div 2
    BY DEF Split
  <2>2. \A j \in 1 .. m : 2 * j - 1 \in 1 .. L /\ ~ConditionThrows(P[2 * j - 1])
    BY DEF Split
  <2>3. \A j \in 1 .. L \div 2 : 2 * j \in 1 .. L /\ cs.ops[j] = P[2 * j]
    BY DEF Split
  <2>4. L \in Nat
    BY <2>1
  <2> QED
    BY <2>1, <2>2, <2>3, <2>4, Zenon
<1>2. /\ Len(cl.conditions) = m /\ Len(cl.ops) = m - 1 /\ cl.ops \in Seq(Texts)
      /\ \A j \in 1 .. m - 1 : cl.ops[j] = cs.ops[j]
  BY <1>1, Zenon DEF Joined
<1>3. \A op \in Range(cl.ops) : Stripped(op) \in Connectives
  BY Zenon DEF ClauseCompiles
<1>31. m \in Nat /\ L \in Nat /\ L \div 2 \in Nat /\ (L = 2 * m \/ L = 2 * m - 1)
       /\ (L = 2 * m => L \div 2 = m) /\ (L = 2 * m - 1 => L \div 2 = m - 1)
       /\ \A x \in 1 .. L : \E j \in 1 .. m : x = 2 * j - 1 \/ x = 2 * j
  <2>1. L \in Nat
    BY <1>1
  <2> HIDE DEF L
  <2> QED
    <3>1. m \in Nat /\ L \div 2 \in Nat /\ (L = 2 * m \/ L = 2 * m - 1)
       /\ (L = 2 * m => L \div 2 = m) /\ (L = 2 * m - 1 => L \div 2 = m - 1)
      BY ONLY <2>1
    <3>2. ASSUME NEW x \in 1 .. L PROVE \E j \in 1 .. m : x = 2 * j - 1 \/ x = 2 * j
      <4> DEFINE j == (x + 1) \div 2
      <4>1. j \in Nat /\ (x = 2 * j \/ x = 2 * j - 1)
        BY <2>1
      <4> HIDE DEF j, m
      <4>2. j \in 1 .. m
        BY <4>1, <3>1, <2>1
      <4> QED
        BY <4>1, <4>2
    <3> QED
      BY <2>1, <3>1, <3>2
<1> HIDE DEF m, L
<1>4. ASSUME NEW j \in 1 .. m PROVE ~Blank(P[2 * j - 1])
  <2>1. 2 * j - 1 \in 1 .. L /\ ~ConditionThrows(P[2 * j - 1])
    BY <1>1, <1>31
  <2> DEFINE t == P[2 * j - 1]
  <2>2. t \in Seq(Token)
    <3> DEFINE x == 2 * j - 1
    <3>1. x \in 1 .. Len(P)
      BY <2>1 DEF L
    <3> HIDE DEF x
    <3>2. P[x] \in Seq(Token)
      BY <3>1, <1>1
    <3> QED
      BY <3>2 DEF x
  <2>3. ~ConditionThrows(t)
    BY <2>1
  <2> HIDE DEF t
  <2>4. ~Blank(t)
    BY <2>2, <2>3, CondThere, Zenon
  <2> QED
    BY <2>4 DEF t
<1>5. ASSUME NEW j \in 1 .. m - 1 PROVE ~Blank(P[2 * j])
  <2>1. j \in 1 .. L \div 2
    BY <1>31
  <2>2. cl.ops[j] = cs.ops[j] /\ cs.ops[j] = P[2 * j]
    BY <2>1, <1>1, <1>2, <1>31
  <2>3. j \in DOMAIN cl.ops
    <3> DEFINE q == cl.ops
    <3>1. q \in Seq(Texts) /\ Len(q) = m - 1
      BY <1>2
    <3> HIDE DEF q
    <3>2. j \in DOMAIN q
      BY <3>1
    <3> QED
      BY <3>2 DEF q
  <2>4. Stripped(cl.ops[j]) \in Connectives
    BY <2>3, <1>3, Zenon DEF Range
  <2>5. <<>> \notin Connectives
    BY DEF Connectives
  <2>6. ~Blank(cl.ops[j])
    BY <2>4, <2>5, StrippedBlank, Zenon
  <2> QED
    BY <2>2, <2>6, Zenon
<1>6. ASSUME NEW x \in 1 .. L, x # 2 * m PROVE ~Blank(P[x])
  <2>1. PICK j \in 1 .. m : x = 2 * j - 1 \/ x = 2 * j
    BY <1>31
  <2>2. CASE x = 2 * j - 1
    BY <2>2, <1>4
  <2>3. CASE x = 2 * j
    <3>1. j \in 1 .. m - 1
      BY <2>3, <1>6, <1>31
    <3> QED
      BY <3>1, <2>3, <1>5
  <2> QED
    BY <2>1, <2>2, <2>3
<1>7. CASE L = 2 * m /\ m # 0 /\ Blank(P[L])
  <2> DEFINE f == L - 1
  <2>1. /\ f \in Nat /\ f <= L /\ (f + 1) \div 2 = m
        /\ \A j \in 1 .. m : 2 * j - 1 \in 1 .. f
        /\ \A j \in 1 .. m - 1 : 2 * j \in 1 .. f
    BY <1>31, <1>7
  <2>2. Full(P) = 1 .. f
    <3>1. ASSUME NEW x PROVE x \in Full(P) <=> x \in 1 .. f
      <4>1. x \in 1 .. f => x \in 1 .. L /\ x # 2 * m
        BY <1>31, <1>7
      <4>2. x \in 1 .. L /\ x # L => x \in 1 .. f
        BY <1>31
      <4> HIDE DEF f
      <4> QED
        BY <4>1, <4>2, <1>6, <1>7, Zenon DEF Full, L
    <3> QED
      BY <3>1, Zenon
  <2> HIDE DEF f
  <2> QED
    BY <2>1, <2>2, <1>2 DEF L
<1>8. CASE ~(L = 2 * m /\ m # 0 /\ Blank(P[L]))
  <2>1. /\ L \in Nat /\ L <= L /\ (L + 1) \div 2 = m
        /\ \A j \in 1 .. m : 2 * j - 1 \in 1 .. L
        /\ \A j \in 1 .. m - 1 : 2 * j \in 1 .. L
    BY <1>31 DEF m
  <2>2. Full(P) = 1 .. L
    <3>1. ASSUME NEW x \in 1 .. L PROVE ~Blank(P[x])
      <4>1. CASE x # 2 * m
        BY <4>1, <1>6
      <4>2. CASE x = 2 * m
        <5>1. L = 2 * m /\ m # 0 /\ x = L
          BY <4>2, <1>31
        <5> QED
          BY <5>1, <1>8
      <4> QED
        BY <4>1, <4>2
    <3> QED
      BY <3>1, Zenon DEF Full, L
  <2> QED
    BY <2>1, <2>2, <1>2 DEF L
<1> QED
  BY <1>7, <1>8

\* A line without a space is one part.
LEMMA OnePart ==
  ASSUME NEW d \in BlankChars, NEW s, LineOf(d, s), s # <<>>, ~Holds(s, d)
  PROVE  WordsRead(s, <<s>>)
<1> DEFINE L == Len(s)
           A == [j \in 1 .. 2 |-> IF j = 1 THEN 1 ELSE L + 2]
           P == <<s>>
<1>1. s \in Seq(Token) /\ L \in Nat /\ 1 <= L /\ DOMAIN s = 1 .. L
  BY DEF LineOf
<1>2. \A h \in 1 .. L : s[h] # d
  BY <1>1 DEF Holds
<1>3. NoMore(d, s, 1)
  BY <1>1, <1>2 DEF NoMore, SearchFrom
<1>4. Cuts(d, s, 1, 1, A)
  BY <1>1, <1>3, CutsNone
<1>5. P \in Seq(Seq(Token)) /\ Len(P) = 1 /\ P[1] = s
  BY <1>1
<1>6. A[1] = 1 /\ A[1 + 1] - 2 = L
  BY <1>1
<1> HIDE DEF A, P
<1>7. SubSeq(s, 1, L) = s
  BY <1>1
<1>8. PartsAt(s, P, A)
  <2>1. ASSUME NEW j \in 1 .. Len(P) PROVE P[j] = SubSeq(s, A[j], A[j + 1] - 2)
    <3>1. j = 1
      BY <1>5
    <3> QED
      BY <3>1, <1>5, <1>6, <1>7, Zenon
  <2> QED
    BY <2>1, <1>5, Zenon DEF PartsAt
<1>9. Cuts(d, s, 1, Len(P), A)
  BY <1>4, <1>5, Zenon
<1> QED
  BY <1>8, <1>9, WordsOfLine, Zenon DEF P

\* The words of a such-that line are its parts.
LEMMA LinePartsWords ==
  ASSUME NEW s \in Seq(Token), OneLine(s), s # <<>>
  PROVE  WordsRead(s, LineParts(s))
<1>1. CASE Holds(s, " ")
  <2>1. LineParts(s) = Exploded(<<" ">>, s).parts
    BY <1>1, Zenon DEF LineParts
  <2>2. WordsRead(s, Exploded(<<" ">>, s).parts)
    BY LineWords, Zenon
  <2> QED
    BY <2>1, <2>2, Zenon
<1>2. CASE ~Holds(s, " ")
  <2>1. LineParts(s) = <<s>>
    BY <1>2, Zenon DEF LineParts
  <2>2. LineOf(" ", s) /\ " " \in BlankChars
    BY OneLineOf, Characters, Zenon
  <2>3. WordsRead(s, <<s>>)
    BY <2>2, <1>2, OnePart, Zenon
  <2> QED
    BY <2>1, <2>3, Zenon
<1> QED
  BY <1>1, <1>2

\* One condition of a line, from its part to its word.
LEMMA PartSays ==
  ASSUME Inv, pc \in AggregatesDone, NEW p, NEW a, NEW b, Padded(p, a, b), NEW i,
         ~Departs(SubSeq(p, a, b), i), ~ConditionThrows(p), ~ToCppThrows(Condition(p)),
         ConditionCompiles(toCpp(Condition(p)))
  PROVE  \E r \in Readings(SubSeq(p, a, b)) : Says(toCpp(Condition(p)), r)
<1> DEFINE w == SubSeq(p, a, b)
           x == Condition(p)
<1>1. p \in Seq(Token)
  BY DEF Padded
<1>2. ~Chained(w) /\ ~OtherThanEqual(w) /\ ~OfAnother(w, i) /\ ~Misnamed(ValueText(w))
  BY Zenon DEF Departs
<1>3. x.value \in Seq(Token)
  <2>1. x \in ConditionObjects
    BY <1>1, ConditionTyped, Zenon DEF ConditionObjects
  <2> HIDE DEF x
  <2> QED
    BY <2>1 DEF ConditionObjects, Texts
<1>4. Stripped(x.value) # <<>>
  <2> HIDE DEF x
  <2>1. ConditionCompiles(toCpp(x))
    BY DEF x
  <2> QED
    BY <2>1, <1>3, ValueThere, Zenon
<1>5. Stripped(x.column) \in Columns /\ x.exp # <<"!">>
  <2> DEFINE c == toCpp(x)
  <2>1. c.column = x.column /\ c.exp = x.exp
    BY CppFields, Zenon
  <2>2. Stripped(c.column) \in Columns /\ c.exp # <<"!">>
    BY CompilesBy, Zenon
  <2> QED
    BY <2>1, <2>2, Zenon
<1>6. PICK s0, o, z : CondRead(p, a, b, s0, o, z)
  BY <1>2, <1>4, <1>5, ConditionFound, Zenon
<1>7. PICK pre, col, e, T, V : CondIs(p, w, pre, col, e, T, V)
  BY <1>2, <1>5, <1>6, ConditionIs, Zenon
<1> QED
  BY <1>2, <1>7, ConditionSays, Zenon

\* The clause of a line, condition by condition.
LineSays(s, cl) ==
  LET w == Words(s)
      m == (Len(w) + 1) \div 2
  IN  /\ Len(cl.conditions) = m
      /\ \A j \in 1 .. m : \E r \in Readings(w[2 * j - 1]) : Says(cl.conditions[j], r)
      /\ \A j \in 1 .. m - 1 : Stripped(cl.ops[j]) = w[2 * j]

\* The clause of a line that compiles says what the words of the line say.
LEMMA LineRead ==
  ASSUME Inv, pc \in AggregatesDone, NEW s \in Seq(Token), OneLine(s), NEW cs, NEW cl,
         Split(cs, LineParts(s)), Joined(cl, cs), ClauseCompiles(cl),
         cs.conditions # <<>>, \A c \in Range(cs.conditions) : ~ToCppThrows(c),
         NEW i, \A j \in DOMAIN Words(s) : ~Departs(Words(s)[j], i)
  PROVE  LineSays(s, cl)
<1> DEFINE P == LineParts(s)
           w == Words(s)
           m == Len(cl.conditions)
<1>1. /\ cs.conditions \in Seq(ConditionObjects) /\ Len(cs.conditions) = (Len(P) + 1) \div 2
      /\ \A j \in 1 .. (Len(P) + 1) \div 2 :
           2 * j - 1 \in 1 .. Len(P) /\ ~ConditionThrows(P[2 * j - 1]) /\ cs.conditions[j] = Condition(P[2 * j - 1])
      /\ \A j \in 1 .. Len(P) \div 2 : cs.ops[j] = P[2 * j]
      /\ P \in Seq(Seq(Token)) /\ Len(cs.ops) = Len(P) \div 2
  BY DEF Split
<1>2. /\ m = Len(cs.conditions) /\ \A j \in 1 .. m : cl.conditions[j] = toCpp(cs.conditions[j])
      /\ DOMAIN cl.conditions = 1 .. m
      /\ \A j \in 1 .. m - 1 : cl.ops[j] = cs.ops[j]
  BY Zenon DEF Joined
<1>3. PICK f \in Nat : /\ Full(P) = 1 .. f /\ f <= Len(P) /\ (f + 1) \div 2 = m
                       /\ \A j \in 1 .. m : 2 * j - 1 \in 1 .. f
                       /\ \A j \in 1 .. m - 1 : 2 * j \in 1 .. f
  BY PartsFull
<1>4. m \in Nat /\ 1 <= m
  <2> DEFINE q == cs.conditions
  <2>1. q \in Seq(ConditionObjects) /\ q # <<>>
    BY <1>1
  <2> HIDE DEF q
  <2>2. Len(q) \in Nat /\ Len(q) # 0
    BY <2>1
  <2>3. m \in Nat /\ m # 0
    BY <2>2, <1>2, Zenon DEF q
  <2> QED
    BY <2>3
<1>5. s # <<>>
  <2> SUFFICES ASSUME s = <<>> PROVE FALSE
    OBVIOUS
  <2>1. ~Holds(<<>>, " ")
    BY DEF Holds
  <2>2. P = << <<>> >>
    BY <2>1, Zenon DEF LineParts
  <2>3. Blank(<<>>)
    BY DEF Blank
  <2>4. 1 \in 1 .. m /\ 2 * 1 - 1 = 1
    BY <1>4
  <2>5. 2 * 1 - 1 \in 1 .. f
    BY <2>4, <1>3, Zenon
  <2>6. 1 \in Full(P)
    BY <2>4, <2>5, <1>3, Zenon
  <2>7. ~Blank(P[1])
    BY <2>6, Zenon DEF Full
  <2> DEFINE u == <<>>
             v == <<u>>
  <2> HIDE DEF u
  <2>8. v[1] = u
    OBVIOUS
  <2> QED
    BY <2>2, <2>3, <2>7, <2>8, Zenon DEF u
<1>6. WordsRead(s, P)
  BY <1>5, LinePartsWords, Zenon
<1>7. Cardinality(1 .. f) = f /\ \A r \in 1 .. f : Nth(1 .. f, r) = r
  BY <1>3, NthOfInterval
<1> HIDE DEF P, w
<1>8. /\ Len(w) = f /\ DOMAIN w = 1 .. f
      /\ \A r \in 1 .. f : w[r] = Stripped(P[r]) /\ \E a, b : Padded(P[r], a, b)
  <2>1. /\ Len(w) = Cardinality(1 .. f) /\ DOMAIN w = 1 .. Cardinality(1 .. f)
        /\ \A r \in 1 .. Cardinality(1 .. f) :
             w[r] = Stripped(P[Nth(1 .. f, r)]) /\ \E a, b : Padded(P[Nth(1 .. f, r)], a, b)
    BY <1>3, <1>6, Zenon DEF WordsRead, w
  <2> QED
    BY <2>1, <1>7, Zenon
<1>9. m = (Len(w) + 1) \div 2
  BY <1>3, <1>8
<1>10. ASSUME NEW j \in 1 .. m
       PROVE  \E r \in Readings(w[2 * j - 1]) : Says(cl.conditions[j], r)
  <2> DEFINE x == 2 * j - 1
             p == P[x]
  <2>1. x \in 1 .. f
    BY <1>3
  <2>2. ~ConditionThrows(P[2 * j - 1]) /\ cs.conditions[j] = Condition(P[2 * j - 1])
    BY <1>1, <1>2
  <2>3. cl.conditions[j] = toCpp(Condition(p)) /\ ~ConditionThrows(p) /\ cs.conditions[j] = Condition(p)
    BY <2>2, <1>2, Zenon
  <2>4. j \in DOMAIN cs.conditions
    <3> DEFINE q == cs.conditions
    <3>1. q \in Seq(ConditionObjects) /\ j \in 1 .. Len(q)
      BY <1>1, <1>2
    <3> HIDE DEF q
    <3>2. j \in DOMAIN q
      BY <3>1
    <3> QED
      BY <3>2 DEF q
  <2>5. ~ToCppThrows(Condition(p))
    BY <2>3, <2>4, Zenon DEF Range
  <2>6. ConditionCompiles(toCpp(Condition(p)))
    BY <2>3, <1>2, Zenon DEF ClauseCompiles, Range
  <2> HIDE DEF x
  <2>7. w[x] = Stripped(p) /\ \E a, b : Padded(p, a, b)
    BY <2>1, <1>8, Zenon
  <2>8. PICK a, b : Padded(p, a, b)
    BY <2>7
  <2>9. w[x] = SubSeq(p, a, b)
    BY <2>7, <2>8, StrippedPadded, Zenon
  <2>10. ~Departs(SubSeq(p, a, b), i)
    BY <2>1, <2>9, <1>8, Zenon DEF w
  <2> HIDE DEF p
  <2>11. \E r \in Readings(SubSeq(p, a, b)) : Says(toCpp(Condition(p)), r)
    BY <2>3, <2>5, <2>6, <2>8, <2>10, PartSays, Zenon
  <2>12. \E r \in Readings(w[x]) : Says(cl.conditions[j], r)
    BY <2>3, <2>9, <2>11, Zenon
  <2> QED
    BY <2>12 DEF x
<1>11. ASSUME NEW j \in 1 .. m - 1 PROVE Stripped(cl.ops[j]) = w[2 * j]
  <2>1. 2 * j \in 1 .. f /\ j \in 1 .. Len(P) \div 2
    <3>1. 2 * j \in 1 .. f
      BY <1>3
    <3>2. 2 * j <= Len(P) /\ Len(P) \in Nat /\ j \in Nat /\ 1 <= j
      BY <3>1, <1>1, <1>3
    <3>3. j <= Len(P) \div 2 /\ Len(P) \div 2 \in Nat
      BY ONLY <3>2
    <3> QED
      BY <3>1, <3>2, <3>3
  <2>2. cl.ops[j] = P[2 * j]
    BY <2>1, <1>1, <1>2
  <2>3. w[2 * j] = Stripped(P[2 * j])
    BY <2>1, <1>8
  <2> QED
    BY <2>2, <2>3, Zenon
<1> QED
  BY <1>9, <1>10, <1>11, Zenon DEF LineSays, w

\* A program that compiles tests the conditions of the such-that lines as they are written.
THEOREM ClausesRead == Spec => []ClausesAsWritten
<1>1. ASSUME Inv PROVE ClausesAsWritten
  <2> SUFFICES ASSUME pc = "accepted", NEW i \in 1 .. input.n, OneLine(input.sigma[i]),
                      \A j \in DOMAIN Words(input.sigma[i]) : ~Departs(Words(input.sigma[i])[j], i)
               PROVE  LineSays(input.sigma[i], clauses[i])
    BY Zenon DEF ClausesAsWritten, LineSays
  <2>1. pc \in ScansDone /\ pc \in ConditionsDone /\ pc \in AggregatesDone
    BY PhaseFacts
  <2>2. input \in Queries
    BY <1>1 DEF Inv, InvPhase
  <2>3. /\ input.n \in Nat /\ input.sigma \in Seq(Texts) /\ Len(input.sigma) \in Nat
        /\ DOMAIN input.sigma = 1 .. Len(input.sigma)
    BY <2>2, QueryFields
  <2>4. LinesRead(input, select_conditions) /\ Len(select_conditions) = Len(input.sigma)
    BY <1>1, <2>1, Zenon DEF Inv, InvLines
  <2>5. ClausesWritten(select_conditions, clauses) /\ Len(clauses) = input.n
    BY <1>1, <2>1, Zenon DEF Inv, InvClauses
  <2>6. \A j \in DOMAIN clauses : ClauseCompiles(clauses[j])
    BY <1>1, Zenon DEF Inv, InvEnd, Compiles
  <2>7. clauses \in Seq(ClauseObjects) /\ Len(clauses) <= Len(select_conditions)
    BY <2>5, Zenon DEF ClausesWritten
  <2>8. i \in DOMAIN clauses /\ i \in 1 .. Len(clauses) /\ i \in 1 .. Len(select_conditions) /\ i \in 1 .. Len(input.sigma)
    <3>1. DOMAIN clauses = 1 .. Len(clauses)
      BY <2>7
    <3> QED
      BY <3>1, <2>3, <2>4, <2>5, <2>7
  <2> DEFINE s == input.sigma[i]
             cs == select_conditions[i]
             cl == clauses[i]
  <2>9. s \in Seq(Token)
    BY <2>3, <2>8 DEF Texts
  <2>10. Split(cs, LineParts(s))
    BY <2>4, <2>8, Zenon DEF LinesRead
  <2>11. /\ cs.conditions # <<>> /\ (\A c \in Range(cs.conditions) : ~ToCppThrows(c))
         /\ Joined(cl, cs)
    BY <2>5, <2>8, Zenon DEF ClausesWritten
  <2>12. ClauseCompiles(cl)
    BY <2>6, <2>8, Zenon
  <2> HIDE DEF s, cs, cl
  <2>13. OneLine(s) /\ \A j \in DOMAIN Words(s) : ~Departs(Words(s)[j], i)
    BY Zenon DEF s
  <2>14. LineSays(s, cl)
    BY <1>1, <2>1, <2>9, <2>10, <2>11, <2>12, <2>13, LineRead, Zenon
  <2> QED
    BY <2>14 DEF s, cl
<1> QED
  BY <1>1, Invariant, PTL

-----------------------------------------------------------------------------
(***************************************************************************)
(* Lines whose words are separated by single delimiters: the parts are the *)
(* words.                                                                  *)
(***************************************************************************)
\* No blank at the start, no two in a row, and only the delimiter or the end.
Apart(d, s) ==
  \A p \in 1 .. Len(s) : s[p] \in BlankChars =>
    p > 1 /\ s[p - 1] \notin BlankChars /\ (s[p] = d \/ p = Len(s))

\* A part of such a line is its word, with the blank of the line's end at most.
LEMMA PartStarts ==
  ASSUME NEW d, NEW s, LineOf(d, s), Apart(d, s), NEW m, NEW A, Cuts(d, s, 1, m, A), NEW j \in 1 .. m
  PROVE  \E y : /\ Holding(s, A[j], A[j + 1] - 2, A[j], y)
                /\ s[Len(s)] \notin BlankChars => y = A[j + 1] - 2
<1> DEFINE L == Len(s)
           a == A[j]
           b == A[j + 1] - 2
<1>1. L \in Nat /\ d \in BlankChars
  BY DEF LineOf
<1>2. /\ m \in Nat /\ A \in [1 .. m + 1 -> Nat] /\ A[1] = 1
      /\ 1 <= A[j] /\ A[j] <= L /\ A[j + 1] <= L + 2 /\ A[j + 1] # L + 1
      /\ A[j + 1] <= L => s[A[j + 1] - 1] = d
      /\ \A p \in 1 .. L : SearchFrom(A[j]) <= p /\ p <= A[j + 1] - 2 /\ p < L => s[p] # d
      /\ \A i, l \in 1 .. m + 1 : i < l => A[i] < A[l]
      /\ \A i \in 1 .. m : A[i + 1] <= L => s[A[i + 1] - 1] = d
  BY DEF Cuts
<1>3. A[j] \in Nat /\ A[j + 1] \in Nat /\ A[j] < A[j + 1]
  BY <1>2
<1>4. a > 1 => s[a - 1] = d
  <2> SUFFICES ASSUME a > 1 PROVE s[a - 1] = d
    OBVIOUS
  <2>1. j # 1
    BY <1>2
  <2>2. j - 1 \in 1 .. m /\ (j - 1) + 1 = j
    BY <2>1, <1>2
  <2> DEFINE i == j - 1
  <2>3. i \in 1 .. m /\ i + 1 = j
    BY <2>2
  <2> HIDE DEF i
  <2>4. A[i + 1] <= L
    BY <2>3, <1>2
  <2> QED
    BY <2>3, <2>4, <1>2
<1>5. \A p \in 1 .. L : s[p] \in BlankChars =>
        p > 1 /\ s[p - 1] \notin BlankChars /\ (s[p] = d \/ p = L)
  BY DEF Apart
<1>6. a \in Nat /\ 1 <= a /\ a <= L /\ a < b + 2 /\ b \in Int /\ b <= L /\ b # L - 1
  BY <1>1, <1>2, <1>3
<1>7. \A p \in 1 .. L : SearchFrom(a) <= p /\ p <= b /\ p < L => s[p] # d
  BY <1>2
<1>8. b <= L - 2 => s[b + 1] = d
  <2>1. A[j + 1] - 1 = b + 1 /\ (b <= L - 2 => A[j + 1] <= L)
    BY <1>1, <1>3
  <2> QED
    BY <2>1, <1>2
<1> HIDE DEF L, a, b
<1>9. s[a] \notin BlankChars
  <2>1. a \in 1 .. L
    BY <1>1, <1>6
  <2> QED
    BY <2>1, <1>1, <1>4, <1>5
<1>10. a <= b
  <2>1. CASE b = a - 1
    <3>1. b <= L - 2 /\ b + 1 = a
      BY <2>1, <1>1, <1>6
    <3> QED
      BY <3>1, <1>1, <1>8, <1>9
  <2>2. CASE b # a - 1
    BY <2>2, <1>6
  <2> QED
    BY <2>1, <2>2
<1>11. ASSUME NEW h \in a .. b, s[h] \in BlankChars PROVE h = L
  <2>1. h # a /\ h \in 1 .. L
    BY <1>1, <1>6, <1>9, <1>11
  <2>2. SearchFrom(a) <= h /\ h <= b
    BY <2>1, <1>6, <1>11 DEF SearchFrom
  <2> QED
    BY <2>1, <2>2, <1>1, <1>5, <1>7, <1>11
<1> DEFINE y == IF s[b] \in BlankChars THEN b - 1 ELSE b
<1>12. s[b] \in BlankChars => b = L /\ a # b
  BY <1>9, <1>10, <1>11, <1>6
<1>13. y \in a .. b /\ (s[L] \notin BlankChars => y = b)
  BY <1>6, <1>10, <1>12
<1>14. ASSUME NEW p \in a .. b PROVE s[p] \in BlankChars <=> ~(a <= p /\ p <= y)
  <2>1. CASE s[b] \in BlankChars
    <3>1. b = L /\ y = b - 1
      BY <2>1, <1>12
    <3>2. p # b => s[p] \notin BlankChars
      BY <3>1, <1>11
    <3> QED
      BY <2>1, <3>1, <3>2, <1>6, <1>10
  <2>2. CASE s[b] \notin BlankChars
    <3>1. y = b
      BY <2>2
    <3>2. s[p] \notin BlankChars
      <4>1. CASE p = b
        BY <4>1, <2>2
      <4>2. CASE p # b
        BY <4>2, <1>1, <1>6, <1>11
      <4> QED
        BY <4>1, <4>2
    <3> QED
      BY <3>1, <3>2, <1>6, <1>10
  <2> QED
    BY <2>1, <2>2
<1>15. a \in Nat \ {0} /\ b \in Nat /\ a \in a .. b
  BY <1>6, <1>10
<1> HIDE DEF y
<1>16. Holding(s, a, b, a, y)
  BY <1>6, <1>13, <1>14, <1>15, <1>1 DEF Holding, L
<1> QED
  BY <1>13, <1>16 DEF a, b, L

\* The parts are the words, one by one; only the last may end with a blank.
PartsAreWords(s, P) ==
  /\ P \in Seq(Seq(Token)) /\ Len(Words(s)) = Len(P) /\ DOMAIN Words(s) = 1 .. Len(P)
  /\ \A j \in 1 .. Len(P) :
       /\ Words(s)[j] = Stripped(P[j])
       /\ \E b : Padded(P[j], 1, b) /\ (s[Len(s)] \notin BlankChars => b = Len(P[j]))

\* The parts of such a line are its words.
LEMMA PartsOfApart ==
  ASSUME NEW d, NEW s, LineOf(d, s), Apart(d, s), NEW P, NEW A,
         Cuts(d, s, 1, Len(P), A), PartsAt(s, P, A)
  PROVE  PartsAreWords(s, P)
<1>1. s \in Seq(Token) /\ P \in Seq(Seq(Token)) /\ \A j \in 1 .. Len(P) : P[j] = SubSeq(s, A[j], A[j + 1] - 2)
  BY DEF LineOf, PartsAt
<1>2. ASSUME NEW j \in 1 .. Len(P)
      PROVE  /\ ~Blank(P[j])
             /\ \E b : Padded(P[j], 1, b) /\ (s[Len(s)] \notin BlankChars => b = Len(P[j]))
  <2> DEFINE m == Len(P)
  <2>0. Cuts(d, s, 1, m, A) /\ j \in 1 .. m
    OBVIOUS
  <2> HIDE DEF m
  <2>1. PICK y : /\ Holding(s, A[j], A[j + 1] - 2, A[j], y)
                 /\ s[Len(s)] \notin BlankChars => y = A[j + 1] - 2
    BY <2>0, PartStarts
  <2> DEFINE a == A[j]
             b == A[j + 1] - 2
  <2>2. Holding(s, a, b, a, y)
    BY <2>1
  <2>3. P[j] = SubSeq(s, a, b)
    BY <1>1
  <2> HIDE DEF a, b
  <2>4. Padded(P[j], a - a + 1, y - a + 1) /\ ~Blank(P[j])
    BY <1>1, <2>2, <2>3, PieceHolding
  <2>5. a \in Nat \ {0} /\ b \in Nat /\ b <= Len(s) /\ y \in a .. b
    BY <2>2 DEF Holding
  <2>6. a - a + 1 = 1
    BY <2>5
  <2>7. Padded(P[j], 1, y - a + 1)
    BY <2>4, <2>6
  <2>8. Len(P[j]) = b - a + 1
    BY <1>1, <2>3, <2>5, Piece
  <2>9. s[Len(s)] \notin BlankChars => y = b
    BY <2>1 DEF b
  <2> QED
    BY <2>4, <2>7, <2>8, <2>9
<1>3. WordsRead(s, P)
  BY WordsOfLine, Zenon
<1>4. Full(P) = 1 .. Len(P)
  BY <1>2 DEF Full
<1>5. Len(P) \in Nat
  BY <1>1
<1>6. Cardinality(Full(P)) = Len(P) /\ \A r \in 1 .. Len(P) : Nth(Full(P), r) = r
  BY <1>4, <1>5, NthOfInterval, Zenon
<1>7. Len(Words(s)) = Len(P) /\ DOMAIN Words(s) = 1 .. Len(P)
  BY <1>3, <1>6, Zenon DEF WordsRead
<1>8. \A j \in 1 .. Len(P) : Words(s)[j] = Stripped(P[j])
  BY <1>3, <1>6, Zenon DEF WordsRead
<1> QED
  BY <1>1, <1>2, <1>7, <1>8, Zenon DEF PartsAreWords

\* Such a line, cut at its spaces.
LEMMA SpacesCut ==
  ASSUME NEW s \in Seq(Token), s # <<>>, OneLine(s), Apart(" ", s)
  PROVE  PartsAreWords(s, Exploded(<<" ">>, s).parts)
<1> DEFINE P == Exploded(<<" ">>, s).parts
<1>1. " " \in Token /\ " " \in BlankChars
  BY Characters
<1>2. LineOf(" ", s)
  BY OneLineOf
<1>3. CutFrom(" ", s, 1)
  BY <1>1, LineCut, Zenon
<1>4. P = FromFn(<<" ">>, s)[1].parts
  BY <1>1, ExplodedTypes, Zenon
<1>5. PICK A : Cuts(" ", s, 1, Len(P), A) /\ PartsAt(s, P, A)
  BY <1>3, <1>4, Zenon DEF CutFrom
<1> HIDE DEF P
<1>6. PartsAreWords(s, P)
  BY <1>2, <1>5, PartsOfApart, Zenon
<1> QED
  BY <1>6 DEF P

\* A text without blanks is one part.
LEMMA NothingCut ==
  ASSUME NEW s \in Seq(Token), s # <<>>, OneLine(s), \A p \in 1 .. Len(s) : s[p] \notin BlankChars
  PROVE  PartsAreWords(s, <<s>>)
<1> DEFINE P == <<s>>
<1>1. ~Holds(s, " ") /\ " " \in BlankChars
  <2>1. DOMAIN s = 1 .. Len(s)
    BY ONLY s \in Seq(Token)
  <2>2. " " \in BlankChars
    BY Characters, Zenon
  <2> QED
    BY <2>1, <2>2, Zenon DEF Holds
<1>2. WordsRead(s, P)
  BY <1>1, OneLineOf, OnePart, Zenon
<1>3. Padded(s, 1, Len(s)) /\ ~Blank(s)
  BY StrippedClean
<1>4. P \in Seq(Seq(Token)) /\ Len(P) = 1 /\ P[1] = s
  OBVIOUS
<1> HIDE DEF P
<1>5. Full(P) = 1 .. Len(P)
  BY <1>3, <1>4 DEF Full
<1>6. Cardinality(Full(P)) = Len(P) /\ \A r \in 1 .. Len(P) : Nth(Full(P), r) = r
  <2>1. Len(P) \in Nat
    BY <1>4
  <2> QED
    BY <1>5, <2>1, NthOfInterval, Zenon
<1>7. Len(Words(s)) = Len(P) /\ DOMAIN Words(s) = 1 .. Len(P)
  BY <1>2, <1>6, Zenon DEF WordsRead
<1>8. \A j \in 1 .. Len(P) : Words(s)[j] = Stripped(P[j])
  BY <1>2, <1>6, Zenon DEF WordsRead
<1>9. \A j \in 1 .. Len(P) : P[j] = s
  BY <1>4
<1>10. PartsAreWords(s, P)
  BY <1>3, <1>4, <1>7, <1>8, <1>9, Zenon DEF PartsAreWords
<1> QED
  BY <1>10 DEF P

\* A line without words.
LEMMA NoWords ==
  ASSUME NEW s \in Seq(Token), Blank(s)
  PROVE  Len(Words(s)) = 0
<1>1. Starts(s) = {}
  BY DEF Starts, Blank
<1>2. Cardinality(Starts(s)) = 0
  BY <1>1, FS_EmptySet
<1>3. Words(s) = [r \in 1 .. 0 |-> LET p == Nth(Starts(s), r) IN SubSeq(s, p, Stop(s, p))]
  BY <1>2, Zenon DEF Words
<1>4. Words(s) = <<>>
  BY <1>3
<1> QED
  BY <1>4

\* A tidy line, with any delimiter.
TidyAt(d, s) ==
  \A p \in 1 .. Len(s) : s[p] \in BlankChars =>
    s[p] = d /\ p > 1 /\ s[p - 1] \notin BlankChars /\ p < Len(s)

\* A tidy line is one, and does not end with a blank.
LEMMA TidyFacts ==
  ASSUME NEW d, NEW s \in Seq(Token), s # <<>>, TidyAt(d, s)
  PROVE  Apart(d, s) /\ s[Len(s)] \notin BlankChars
<1>1. Len(s) \in Nat /\ Len(s) # 0
  OBVIOUS
<1>2. Len(s) \in 1 .. Len(s) /\ ~(Len(s) < Len(s))
  BY <1>1
<1> QED
  BY <1>2 DEF TidyAt, Apart

\* The text u is s without its last token.
Shorter(s, u) == Len(u) \in Nat /\ Len(s) = Len(u) + 1 /\ \A j \in 1 .. Len(u) : u[j] = s[j]

\* A text without its last token.
LEMMA FrontShorter ==
  ASSUME NEW s \in Seq(Token), s # <<>>
  PROVE  Shorter(s, SubSeq(s, 1, Len(s) - 1)) /\ SubSeq(s, 1, Len(s) - 1) \in Seq(Token)
<1> DEFINE L == Len(s)
           b == L - 1
<1>1. L \in Nat /\ L # 0
  OBVIOUS
<1>2. 1 \in Nat \ {0} /\ b \in Nat /\ b <= L
  BY <1>1
<1> HIDE DEF b
<1>3. /\ SubSeq(s, 1, b) \in Seq(Token)
      /\ Len(SubSeq(s, 1, b)) = IF 1 <= b THEN b - 1 + 1 ELSE 0
      /\ \A j \in 1 .. b - 1 + 1 : SubSeq(s, 1, b)[j] = s[1 + j - 1]
  BY <1>2, Piece
<1> DEFINE u == SubSeq(s, 1, b)
<1> HIDE DEF u
<1>4. Len(u) = b /\ \A j \in 1 .. b : u[j] = s[j]
  BY <1>2, <1>3 DEF u
<1>5. L = b + 1
  BY <1>1 DEF b
<1>6. Shorter(s, u)
  BY <1>2, <1>4, <1>5 DEF Shorter
<1> QED
  BY <1>3, <1>6 DEF u, b

\* A tidy line and its end.
LEMMA EndApart ==
  ASSUME NEW d, NEW s \in Seq(Token), ~Blank(s), NEW u, Shorter(s, u), TidyAt(d, u)
  PROVE  Apart(d, s)
<1> DEFINE m == Len(u)
           L == Len(s)
<1>1. DOMAIN s = 1 .. L /\ L \in Nat
  OBVIOUS
<1>2. m \in Nat /\ L = m + 1 /\ \A j \in 1 .. m : u[j] = s[j]
  BY DEF Shorter
<1>3. \A p \in 1 .. m : u[p] \in BlankChars =>
        u[p] = d /\ p > 1 /\ u[p - 1] \notin BlankChars /\ p < m
  BY DEF TidyAt
<1> HIDE DEF m, L
<1>4. ASSUME NEW p \in 1 .. L, s[p] \in BlankChars
      PROVE  p > 1 /\ s[p - 1] \notin BlankChars /\ (s[p] = d \/ p = L)
  <2>1. CASE p # L
    <3>1. p \in 1 .. m
      BY <2>1, <1>2
    <3>2. u[p] = d /\ p > 1 /\ u[p - 1] \notin BlankChars /\ u[p] = s[p]
      BY <3>1, <1>2, <1>3, <1>4
    <3>3. p - 1 \in 1 .. m
      BY <3>1, <3>2, <1>2
    <3> QED
      BY <3>2, <3>3, <1>2
  <2>2. CASE p = L
    <3>1. m # 0
      <4> SUFFICES ASSUME m = 0 PROVE FALSE
        OBVIOUS
      <4>1. \A q \in 1 .. L : q = p
        BY <1>2, <2>2
      <4> QED
        BY <4>1, <1>1, <1>4, Zenon DEF Blank
    <3>2. m \in 1 .. m /\ m = p - 1 /\ p > 1
      BY <3>1, <2>2, <1>2
    <3>3. s[p - 1] \notin BlankChars
      BY <3>2, <1>2, <1>3
    <3> QED
      BY <2>2, <3>2, <3>3
  <2> QED
    BY <2>1, <2>2
<1> QED
  BY <1>4 DEF Apart, L

\* Blanks of a line that are no delimiters are at its end.
LEMMA ApartOneLine ==
  ASSUME NEW s \in Seq(Token), Apart(" ", s) PROVE OneLine(s)
<1> DEFINE L == Len(s)
<1>1. DOMAIN s = 1 .. L
  BY ONLY s \in Seq(Token)
<1>2. ASSUME NEW p \in 1 .. L, s[p] \in BlankChars, s[p] # " " PROVE Blank(SubSeq(s, p, L))
  <2>1. p = L
    BY <1>2, Zenon DEF Apart
  <2>2. SubSeq(s, p, p) = <<s[p]>>
    BY OneToken
  <2> DEFINE t == <<s[p]>>
  <2>3. DOMAIN t = {1} /\ t[1] = s[p]
    BY ONLY TRUE
  <2> HIDE DEF t
  <2>4. Blank(t)
    BY <2>3, <1>2, Zenon DEF Blank
  <2> QED
    BY <2>1, <2>2, <2>4, Zenon DEF t
<1>3. \A p \in 1 .. L : s[p] \in BlankChars \ {" "} => s[p] \in BlankChars /\ s[p] # " "
  OBVIOUS
<1> QED
  BY <1>1, <1>2, <1>3, Zenon DEF OneLine

\* A line with words is not empty.
LEMMA SomeWords ==
  ASSUME NEW s \in Seq(Token), Len(Words(s)) % 2 = 1 PROVE ~Blank(s) /\ s # <<>>
<1>1. Blank(s) => Len(Words(s)) = 0
  BY NoWords
<1>2. 0 % 2 # 1
  BY ONLY TRUE
<1>3. ~Blank(s)
  BY <1>1, <1>2
<1>4. DOMAIN s = 1 .. Len(s) /\ (s = <<>> => Len(s) = 0)
  OBVIOUS
<1> QED
  BY <1>3, <1>4 DEF Blank

\* A tidy line: its parts are its words and have no blanks.
LEMMA TidyLine ==
  ASSUME NEW s \in Seq(Token), Tidy(s), Len(Words(s)) % 2 = 1
  PROVE  /\ PartsAreWords(s, LineParts(s)) /\ s[Len(s)] \notin BlankChars
         /\ OneLine(s) /\ s # <<>>
<1>1. DOMAIN s = 1 .. Len(s)
  OBVIOUS
<1>2. s # <<>>
  BY SomeWords
<1>3. TidyAt(" ", s)
  BY <1>1, Zenon DEF Tidy, TidyAt
<1>4. Apart(" ", s) /\ s[Len(s)] \notin BlankChars
  BY <1>2, <1>3, TidyFacts, Zenon
<1>5. OneLine(s)
  BY <1>4, ApartOneLine, Zenon
<1>7. CASE Holds(s, " ")
  <2>1. LineParts(s) = Exploded(<<" ">>, s).parts
    BY <1>7, Zenon DEF LineParts
  <2>2. PartsAreWords(s, Exploded(<<" ">>, s).parts)
    BY <1>2, <1>4, <1>5, SpacesCut, Zenon
  <2> QED
    BY <2>1, <2>2, <1>2, <1>4, <1>5, Zenon
<1>8. CASE ~Holds(s, " ")
  <2>1. LineParts(s) = <<s>>
    BY <1>8, Zenon DEF LineParts
  <2>2. \A p \in 1 .. Len(s) : s[p] \notin BlankChars
    BY <1>1, <1>3, <1>8, Zenon DEF Holds, TidyAt
  <2>3. PartsAreWords(s, <<s>>)
    BY <2>2, <1>2, <1>5, NothingCut, Zenon
  <2> QED
    BY <2>1, <2>3, <1>2, <1>4, <1>5, Zenon
<1> QED
  BY <1>7, <1>8

\* HAVING, which may still have its line end.
LEMMA TidyHaving ==
  ASSUME NEW s \in Seq(Token), Len(Words(s)) % 2 = 1, SaneHaving(s)
  PROVE  PartsAreWords(s, Exploded(<<" ">>, s).parts) /\ OneLine(s)
<1>1. ~Blank(s) /\ s # <<>>
  BY SomeWords
<1>2. Tidy(s) \/ Tidy(SubSeq(s, 1, Len(s) - 1))
  BY <1>1, Zenon DEF SaneHaving
<1>3. Apart(" ", s)
  <2>1. CASE Tidy(s)
    <3>1. DOMAIN s = 1 .. Len(s)
      OBVIOUS
    <3>2. TidyAt(" ", s)
      BY <2>1, <3>1, Zenon DEF Tidy, TidyAt
    <3> QED
      BY <3>2, <1>1, TidyFacts, Zenon
  <2>2. CASE Tidy(SubSeq(s, 1, Len(s) - 1))
    <3> DEFINE u == SubSeq(s, 1, Len(s) - 1)
    <3>1. Shorter(s, u) /\ u \in Seq(Token) /\ Tidy(u)
      BY <2>2, <1>1, FrontShorter, Zenon
    <3> HIDE DEF u
    <3>2. DOMAIN u = 1 .. Len(u)
      BY <3>1
    <3>3. TidyAt(" ", u)
      BY <3>1, <3>2, Zenon DEF Tidy, TidyAt
    <3> QED
      BY <3>1, <3>3, <1>1, EndApart, Zenon
  <2> QED
    BY <1>2, <2>1, <2>2
<1>4. OneLine(s)
  BY <1>3, ApartOneLine, Zenon
<1> QED
  BY <1>1, <1>3, <1>4, SpacesCut, Zenon

-----------------------------------------------------------------------------
(***************************************************************************)
(* A condition that the grammar reads is read by Condition in the same     *)
(* way.                                                                    *)
(***************************************************************************)
\* A text with a given beginning is that and the rest.
LEMMA BeginsWith ==
  ASSUME NEW x \in Seq(Token), NEW w \in Seq(Token), IsPrefix(x, w)
  PROVE  /\ w = x \o SubSeq(w, Len(x) + 1, Len(w))
         /\ SubSeq(w, Len(x) + 1, Len(w)) \in Seq(Token)
<1> DEFINE m == Len(x)
           L == Len(w)
           g == m + 1
           one == 1
<1>1. m <= L /\ SubSeq(x, 1, m) = SubSeq(w, 1, m)
  BY Zenon DEF IsPrefix
<1>2. m \in Nat /\ L \in Nat
  OBVIOUS
<1>3. SubSeq(x, 1, m) = x /\ SubSeq(w, 1, L) = w
  OBVIOUS
<1>4. /\ one \in Nat \ {0} /\ g \in Nat \ {0} /\ one <= g /\ g <= L + 1 /\ L <= Len(w) /\ L \in Nat
      /\ g - 1 = m
  BY <1>1, <1>2
<1> HIDE DEF one, g, m, L
<1>5. SubSeq(w, one, g - 1) \o SubSeq(w, g, L) = SubSeq(w, one, L)
  BY <1>4, Glued
<1>6. SubSeq(w, g, L) \in Seq(Token)
  BY <1>4, Piece
<1>7. SubSeq(w, one, g - 1) = x /\ SubSeq(w, one, L) = w
  BY <1>1, <1>3, <1>4 DEF one
<1>8. x \o SubSeq(w, g, L) = w
  BY <1>5, <1>7
<1> QED
  BY <1>6, <1>8 DEF g, m, L

\* A reading comes from the four parts of the word.
LEMMA ReadingFound ==
  ASSUME NEW w \in Seq(Token), NEW r \in Readings(w)
  PROVE  /\ r.prefix \in Openings /\ r.column \in Columns /\ r.exp \in Exps /\ r.kind \in Kinds
         /\ r.value \in Seq(Token) /\ WrittenAs(r.kind, r.value)
         /\ Made(w, r.prefix, r.column, r.exp, r.value)
<1> DEFINE heads == {x \in [prefix : Openings, column : Columns, exp : Exps] :
                       IsPrefix(x.prefix \o x.column \o x.exp, w)}
           Rest(x) == SubSeq(w, Len(x.prefix \o x.column \o x.exp) + 1, Len(w))
           Read(x) == [prefix |-> x[1].prefix, column |-> x[1].column, exp |-> x[1].exp,
                       kind |-> x[2], value |-> Rest(x[1])]
<1>1. Readings(w) = {Read(x) : x \in {y \in heads \X Kinds : WrittenAs(y[2], Rest(y[1]))}}
  BY Zenon DEF Readings, Openings, Exps
<1>2. PICK x \in heads \X Kinds : WrittenAs(x[2], Rest(x[1])) /\ r = Read(x)
  <2> HIDE DEF heads, Rest, Read
  <2> QED
    BY <1>1, Zenon
<1>3. x[1] \in heads /\ x[2] \in Kinds
  <2> HIDE DEF heads
  <2> QED
    BY <1>2
<1> DEFINE pre == x[1].prefix
           col == x[1].column
           e == x[1].exp
           H == pre \o col \o e
           val == Rest(x[1])
<1>4. x[1] \in [prefix : Openings, column : Columns, exp : Exps] /\ IsPrefix(H, w)
  BY <1>3, Zenon
<1>5. pre \in Openings /\ col \in Columns /\ e \in Exps
  BY <1>4
<1>6. val = SubSeq(w, Len(H) + 1, Len(w))
  BY Zenon
<1> HIDE DEF heads, Rest
<1>7. r.prefix = pre /\ r.column = col /\ r.exp = e /\ r.kind = x[2] /\ r.value = val
  <2> HIDE DEF pre, col, e, val
  <2>1. r = [prefix |-> pre, column |-> col, exp |-> e, kind |-> x[2], value |-> val]
    BY <1>2, Zenon DEF pre, col, e, val
  <2> QED
    BY <2>1
<1> HIDE DEF val, pre, col, e, Read
<1>8. pre \in Seq(Token) /\ col \in Seq(Token) /\ e \in Seq(Token)
  BY <1>5, ExpsTyped, ColumnFacts
<1>9. H \in Seq(Token)
  <2>1. pre \o col \in Seq(Token)
    BY <1>8, Cat
  <2> DEFINE g == pre \o col
  <2> HIDE DEF g
  <2>2. g \o e \in Seq(Token)
    BY <2>1, <1>8, Cat DEF g
  <2> QED
    BY <2>2 DEF g
<1>10. w = H \o val /\ val \in Seq(Token)
  <2> HIDE DEF H
  <2> QED
    BY <1>4, <1>6, <1>9, BeginsWith
<1>11. Made(w, pre, col, e, val)
  BY <1>10, Zenon DEF Made
<1>12. WrittenAs(x[2], val)
  BY <1>2, Zenon DEF val
<1> QED
  BY <1>3, <1>5, <1>7, <1>10, <1>11, <1>12, Zenon

\* The word, token by token.
Laid(w, pre, col, e, val) ==
  /\ w \in Seq(Token) /\ pre \in Seq(Token) /\ col \in Seq(Token) /\ e \in Seq(Token) /\ val \in Seq(Token)
  /\ Len(w) = Len(pre) + Len(col) + Len(e) + Len(val)
  /\ \A j \in 1 .. Len(pre) : w[j] = pre[j]
  /\ \A j \in 1 .. Len(col) : w[Len(pre) + j] = col[j]
  /\ \A j \in 1 .. Len(e) : w[Len(pre) + Len(col) + j] = e[j]
  /\ \A j \in 1 .. Len(val) : w[Len(pre) + Len(col) + Len(e) + j] = val[j]

\* A word that is made of the four parts has their tokens one after the other.
LEMMA LaidOut ==
  ASSUME NEW w, NEW pre \in Openings, NEW col \in Columns, NEW e \in Exps, NEW val \in Seq(Token),
         Made(w, pre, col, e, val)
  PROVE  Laid(w, pre, col, e, val)
<1> DEFINE x == pre \o col
           y == x \o e
           a == Len(pre)
           b == Len(col)
           c == Len(e)
           n == Len(val)
<1>1. pre \in Seq(Token) /\ col \in Seq(Token) /\ e \in Seq(Token)
  BY ExpsTyped, ColumnFacts
<1>2. w = y \o val
  BY Zenon DEF Made
<1>3. a \in Nat /\ b \in Nat /\ c \in Nat /\ n \in Nat
  BY <1>1
<1>4. /\ x \in Seq(Token) /\ Len(x) = a + b
      /\ \A j \in 1 .. a : x[j] = pre[j]
      /\ \A j \in 1 .. b : x[a + j] = col[j]
  BY <1>1, Cat
<1> HIDE DEF x
<1>5. /\ y \in Seq(Token) /\ Len(y) = Len(x) + c
      /\ \A j \in 1 .. Len(x) : y[j] = x[j]
      /\ \A j \in 1 .. c : y[Len(x) + j] = e[j]
  BY <1>1, <1>4, Cat
<1> HIDE DEF y
<1>6. /\ w \in Seq(Token) /\ Len(w) = Len(y) + n
      /\ \A j \in 1 .. Len(y) : w[j] = y[j]
      /\ \A j \in 1 .. n : w[Len(y) + j] = val[j]
  BY <1>2, <1>5, Cat
<1> HIDE DEF a, b, c, n
<1>7. Len(y) = a + b + c /\ Len(x) = a + b /\ Len(w) = a + b + c + n
  BY <1>3, <1>4, <1>5, <1>6
<1>8. ASSUME NEW j \in 1 .. a PROVE w[j] = pre[j]
  <2>1. j \in 1 .. Len(x) /\ j \in 1 .. Len(y)
    BY <1>3, <1>7
  <2> QED
    BY <2>1, <1>4, <1>5, <1>6
<1>9. ASSUME NEW j \in 1 .. b PROVE w[a + j] = col[j]
  <2>1. a + j \in 1 .. Len(x) /\ a + j \in 1 .. Len(y)
    BY <1>3, <1>7
  <2> QED
    BY <2>1, <1>4, <1>5, <1>6
<1>10. ASSUME NEW j \in 1 .. c PROVE w[a + b + j] = e[j]
  <2>1. Len(x) + j \in 1 .. Len(y) /\ Len(x) + j = a + b + j
    BY <1>3, <1>7
  <2>2. y[Len(x) + j] = e[j]
    BY <1>5
  <2> QED
    BY <2>1, <2>2, <1>6
<1>11. ASSUME NEW j \in 1 .. n PROVE w[a + b + c + j] = val[j]
  <2>1. Len(y) + j = a + b + c + j
    BY <1>7
  <2>2. w[Len(y) + j] = val[j]
    BY <1>6
  <2> QED
    BY <2>1, <2>2
<1> QED
  BY <1>1, <1>6, <1>7, <1>8, <1>9, <1>10, <1>11 DEF Laid, a, b, c, n

\* A text found token by token is the piece there.
LEMMA PieceIs ==
  ASSUME NEW p \in Seq(Token), NEW x \in Seq(Token), NEW a \in Nat, NEW z, z = a + Len(x), z <= Len(p),
         \A j \in 1 .. Len(x) : p[a + j] = x[j]
  PROVE  SubSeq(p, a + 1, z) = x
<1> DEFINE g == a + 1
           m == Len(x)
<1>1. m \in Nat
  OBVIOUS
<1> HIDE DEF m
<1>2. g \in Nat \ {0} /\ z \in Nat /\ z <= Len(p) /\ z = a + m
  BY <1>1 DEF m
<1> HIDE DEF g
<1>3. /\ SubSeq(p, g, z) \in Seq(Token) /\ Len(SubSeq(p, g, z)) = (IF g <= z THEN z - g + 1 ELSE 0)
      /\ \A j \in 1 .. z - g + 1 : SubSeq(p, g, z)[j] = p[g + j - 1]
  BY <1>2, Piece
<1> DEFINE y == SubSeq(p, g, z)
<1> HIDE DEF y
<1>4. (IF g <= z THEN z - g + 1 ELSE 0) = m /\ z - g + 1 = m
  BY <1>1, <1>2 DEF g
<1>5. y \in Seq(Token) /\ Len(y) = m
  BY <1>3, <1>4 DEF y
<1>6. ASSUME NEW j \in 1 .. m PROVE y[j] = x[j]
  <2>1. g + j - 1 = a + j
    BY <1>1 DEF g
  <2>2. y[j] = p[g + j - 1]
    BY <1>3, <1>4 DEF y
  <2>3. p[a + j] = x[j]
    BY DEF m
  <2> QED
    BY <2>1, <2>2, <2>3
<1>7. y = x
  BY <1>5, <1>6, SameText DEF m
<1> QED
  BY <1>7 DEF y, g

\* The operators of the grammar: one character, or two that are one operator.
LEMMA ExpFacts ==
  ASSUME NEW e \in Exps
  PROVE  /\ e[1] \in OperatorChars
         /\ Len(e) = 1 \/ (Len(e) = 2 /\ Pair(e[1], e[2]))
         /\ Exp(e) # <<"!">>
<1>0. \A x, y : Len(<<x>>) = 1 /\ <<x>>[1] = x /\ Len(<<x, y>>) = 2 /\ <<x, y>>[1] = x /\ <<x, y>>[2] = y
  OBVIOUS
<1>1. ASSUME NEW x, NEW y, e = <<x, y>>, e \in LongOperators
      PROVE  e[1] \in OperatorChars /\ Len(e) = 2 /\ Pair(e[1], e[2])
  <2>1. Len(e) = 2 /\ e[1] = x /\ e[2] = y
    BY <1>0, <1>1
  <2>2. Pair(x, y)
    BY <1>1 DEF Pair
  <2> QED
    BY <2>1, <2>2, PairFacts
<1>2. ASSUME e \in LongOperators PROVE e[1] \in OperatorChars /\ Len(e) = 2 /\ Pair(e[1], e[2])
  <2>1. \E x, y : e = <<x, y>>
    BY <1>2, Zenon DEF LongOperators
  <2> QED
    BY <2>1, <1>1, <1>2
<1>3. ASSUME NEW x \in OperatorChars, e = <<x>> PROVE e[1] \in OperatorChars /\ Len(e) = 1
  BY <1>0, <1>3
<1>4. "=" \in OperatorChars /\ "<" \in OperatorChars /\ ">" \in OperatorChars
  BY DEF OperatorChars
<1>5. e \in LongOperators \/ \E x \in OperatorChars : e = <<x>>
  BY <1>4, Zenon DEF Exps
<1>6. /\ <<"!", "=">> # <<"!">> /\ <<"<", "=">> # <<"!">> /\ <<">", "=">> # <<"!">>
      /\ <<"<">> # <<"!">> /\ <<">">> # <<"!">> /\ <<"=">> # <<"!">>
  BY ONLY TRUE
<1>7. e # <<"!">>
  BY <1>6 DEF Exps, LongOperators
<1>8. Exp(e) # <<"!">>
  BY <1>6, <1>7, Zenon DEF Exp
<1> QED
  BY <1>2, <1>3, <1>5, <1>8

\* Where the body of such a condition begins.
LEMMA BodyThere ==
  ASSUME NEW w, NEW pre \in Openings, NEW col, NEW e, NEW val, Laid(w, pre, col, e, val),
         pre = <<>> => ~Holds(w, "."), Len(pre) < Len(w)
  PROVE  /\ Body(w) = SubSeq(w, Len(pre) + 1, Len(w))
         /\ Prefixed(w) => StartsWithNumber(Before(w, First(w, {"."})))
<1> DEFINE dot == "."
           L == Len(w)
<1>1. w \in Seq(Token) /\ pre \in Seq(Token) /\ (\A j \in 1 .. Len(pre) : w[j] = pre[j])
  BY Zenon DEF Laid
<1>2. CASE pre = <<>>
  <2>1. ~Prefixed(w)
    BY <1>2, Zenon DEF Prefixed
  <2>2. Body(w) = w
    BY <2>1, Zenon DEF Body
  <2>3. SubSeq(w, 1, Len(w)) = w
    BY ONLY <1>1
  <2>4. Len(pre) + 1 = 1
    BY ONLY <1>2
  <2> QED
    BY <2>1, <2>2, <2>3, <2>4, Zenon
<1>3. ASSUME NEW d \in DOMAIN Number, pre = <<d, dot>>
      PROVE  /\ Body(w) = SubSeq(w, Len(pre) + 1, Len(w))
             /\ StartsWithNumber(Before(w, First(w, {"."})))
  <2> DEFINE f == First(w, {dot})
  <2>0. Len(<<d, dot>>) = 2 /\ <<d, dot>>[1] = d /\ <<d, dot>>[2] = dot
    BY ONLY TRUE
  <2>1. Len(pre) = 2 /\ pre[1] = d /\ pre[2] = dot
    BY <2>0, <1>3, Zenon
  <2>2. d # dot /\ d \in Token /\ d \notin BlankChars
    BY Numbers, Zenon
  <2>3. Len(pre) < L
    BY Zenon
  <2>31. L \in Nat /\ DOMAIN w = 1 .. L
    BY ONLY <1>1
  <2> HIDE DEF dot, L
  <2>4. w[1] = d /\ w[2] = dot /\ 1 \in 1 .. L /\ 2 \in 1 .. L /\ 2 < L
    <3>1. 1 \in 1 .. Len(pre) /\ 2 \in 1 .. Len(pre) /\ 2 < L
      BY ONLY <2>1, <2>3
    <3>2. 1 \in 1 .. L /\ 2 \in 1 .. L
      BY ONLY <3>1, <2>31
    <3> QED
      BY ONLY <3>1, <3>2, <2>1, <1>1
  <2>5. Holds(w, dot) /\ Range(w) \cap {dot} # {}
    BY <2>4, <2>31, Zenon DEF Holds, Range
  <2>6. f \in 1 .. L /\ w[f] \in {dot} /\ \A j \in 1 .. f - 1 : w[j] \notin {dot}
    BY <2>5, <1>1, FirstFacts DEF L
  <2> HIDE DEF f
  <2>7. f = 2
    <3>1. f # 1
      BY ONLY <2>2, <2>4, <2>6
    <3>2. ~(2 < f)
      <4> SUFFICES ASSUME 2 < f PROVE FALSE
        OBVIOUS
      <4>1. 2 \in 1 .. f - 1
        BY ONLY <2>6, 2 < f
      <4> QED
        BY ONLY <4>1, <2>4, <2>6
    <3> QED
      BY ONLY <3>1, <3>2, <2>6
  <2>8. Body(w) = SubSeq(w, f + 1, L)
    BY <2>5, Zenon DEF Body, After, Prefixed, dot, f, L
  <2>9. f + 1 = Len(pre) + 1
    BY <2>1, <2>7, Zenon
  <2> DEFINE bw == Before(w, f)
             one == 1
  <2>10. bw = SubSeq(w, 1, 1)
    <3>1. 2 - 1 = 1
      BY ONLY TRUE
    <3> QED
      BY <3>1, <2>7, Zenon DEF Before
  <2>11. SubSeq(w, 1, 1) = <<w[1]>>
    <3> HIDE DEF one
    <3>1. one \in 1 .. Len(w)
      BY <2>4 DEF one, L
    <3>2. SubSeq(w, one, one) = <<w[one]>>
      BY <1>1, <3>1, OneToken
    <3> QED
      BY <3>2 DEF one
  <2>12. bw = <<d>>
    BY <2>4, <2>10, <2>11, Zenon
  <2> HIDE DEF bw
  <2>13. Stripped(<<d>>) = <<d>>
    <3> DEFINE t == <<d>>
    <3>1. t \in Seq(Token) /\ Len(t) = 1 /\ t[1] = d
      BY ONLY <2>2
    <3> HIDE DEF t
    <3>2. \A p \in 1 .. Len(t) : t[p] \notin BlankChars
      BY <2>2, <3>1
    <3>3. Stripped(t) = t
      BY <3>1, <3>2, StrippedClean
    <3> QED
      BY <3>3 DEF t
  <2>14. <<d>> # <<>> /\ <<d>>[1] = d
    BY ONLY TRUE
  <2>15. StartsWithNumber(bw)
    BY <2>12, <2>13, <2>14, Zenon DEF StartsWithNumber
  <2> QED
    BY <2>8, <2>9, <2>15, Zenon DEF bw, f, dot, L
<1>4. pre = <<>> \/ \E d \in DOMAIN Number : pre = <<d, dot>>
  BY Zenon DEF Openings
<1> QED
  BY <1>2, <1>3, <1>4, Zenon

\* What Condition makes of it.
ReadInto(w, col, e, val) ==
  /\ ~ConditionThrows(w) /\ Condition(w).column = col /\ Condition(w).exp = Exp(e)
  /\ Condition(w).value = QuotesReplaced(val)

\* Condition finds the column, the operator and the value of such a word.
LEMMA ReadCondition ==
  ASSUME NEW w, NEW pre \in Openings, NEW col \in Columns, NEW e \in Exps, NEW val,
         Laid(w, pre, col, e, val), pre = <<>> => ~Holds(w, "."), val # <<>>, val[1] \notin OperatorChars
  PROVE  ReadInto(w, col, e, val)
<1> DEFINE L == Len(w)
           a == Len(pre)
           b == Len(col)
           c == Len(e)
           n == Len(val)
           s0 == a + 1
           q == a + b + 1
<1>1. /\ w \in Seq(Token) /\ pre \in Seq(Token) /\ col \in Seq(Token) /\ e \in Seq(Token) /\ val \in Seq(Token)
      /\ L = a + b + c + n
      /\ \A j \in 1 .. b : w[a + j] = col[j]
      /\ \A j \in 1 .. c : w[a + b + j] = e[j]
      /\ \A j \in 1 .. n : w[a + b + c + j] = val[j]
  BY Zenon DEF Laid
<1>2. a \in Nat /\ b \in Nat /\ c \in Nat /\ n \in Nat /\ n # 0
  <2>1. a \in Nat /\ b \in Nat /\ c \in Nat /\ n \in Nat
    BY ONLY <1>1
  <2>2. n # 0
    BY ONLY <1>1, val # <<>>
  <2> QED
    BY <2>1, <2>2
<1>3. e[1] \in OperatorChars /\ (c = 1 \/ (c = 2 /\ Pair(e[1], e[2])))
  BY ExpFacts, Zenon
<1>4. \A j \in 1 .. b : col[j] \notin OperatorChars
  BY ColumnFacts, Zenon
<1>5. a < L /\ s0 \in 1 .. L /\ q \in s0 .. L /\ L \in Nat
  BY ONLY <1>1, <1>2, <1>3
<1> HIDE DEF L, a, b, c, n
<1>6. Body(w) = SubSeq(w, s0, L) /\ (Prefixed(w) => StartsWithNumber(Before(w, First(w, {"."}))))
  BY <1>5, BodyThere, Zenon DEF a, L
<1>7. w[q] \in OperatorChars
  <2>1. 1 \in 1 .. c
    BY ONLY <1>2, <1>3
  <2>2. w[q] = e[1]
    BY ONLY <2>1, <1>1
  <2> QED
    BY <2>2, <1>3
<1> HIDE DEF s0, q
<1>8. Range(Body(w)) \cap OperatorChars # {}
  <2>0. s0 \in Nat \ {0} /\ L <= Len(w) /\ L \in Nat
    BY ONLY <1>5 DEF L
  <2>1. /\ DOMAIN SubSeq(w, s0, L) = 1 .. (IF s0 <= L THEN L - s0 + 1 ELSE 0)
        /\ \A j \in 1 .. L - s0 + 1 : SubSeq(w, s0, L)[j] = w[s0 + j - 1]
    BY <1>1, <2>0, Piece
  <2> DEFINE B == SubSeq(w, s0, L)
             k1 == q - s0 + 1
  <2> HIDE DEF B
  <2>2. k1 \in 1 .. L - s0 + 1 /\ s0 + k1 - 1 = q /\ s0 <= L
    BY ONLY <1>5
  <2> HIDE DEF k1
  <2>3. k1 \in DOMAIN B /\ B[k1] = w[q]
    BY <2>1, <2>2 DEF B
  <2>4. Range(B) \cap OperatorChars # {}
    BY <2>3, <1>7, Zenon DEF Range
  <2> QED
    BY <2>4, <1>6, Zenon DEF B
<1>9. ~ConditionThrows(w)
  BY <1>6, <1>8, Zenon DEF ConditionThrows
<1>10. PICK o, z : CondAt(w, s0, o, z) /\ CondParts(w, s0, o, z)
  BY <1>1, <1>5, <1>6, <1>8, ConditionAt DEF L
<1>11. /\ o \in s0 .. L /\ z \in Nat /\ OperatorSpan(w, o, z)
       /\ w[o] \in OperatorChars /\ \A h \in s0 .. o - 1 : w[h] \notin OperatorChars
  BY <1>10, Zenon DEF CondAt, L
<1>12. o = q
  <2>1. ~(q < o)
    <3> SUFFICES ASSUME q < o PROVE FALSE
      OBVIOUS
    <3>1. q \in s0 .. o - 1
      BY ONLY <1>5, <1>11, q < o
    <3> QED
      BY ONLY <3>1, <1>7, <1>11
  <2>2. ~(o < q)
    <3> SUFFICES ASSUME o < q PROVE FALSE
      OBVIOUS
    <3> DEFINE j == o - a
    <3>1. j \in 1 .. b /\ a + j = o
      BY ONLY <1>2, <1>5, <1>11, o < q DEF s0, q
    <3> HIDE DEF j
    <3>2. w[a + j] = col[j] /\ col[j] \notin OperatorChars
      BY ONLY <3>1, <1>1, <1>4
    <3> QED
      BY ONLY <3>1, <3>2, <1>11
  <2> QED
    BY ONLY <2>1, <2>2, <1>5, <1>11
<1>13. z = q + c
  <2>1. \/ z = o + 2 /\ o < L /\ Pair(w[o], w[o + 1])
        \/ z = o + 1 /\ ~(o < L /\ Pair(w[o], w[o + 1]))
    BY <1>11, Zenon DEF OperatorSpan, L
  <2>2. CASE c = 2 /\ Pair(e[1], e[2])
    <3>1. 1 \in 1 .. c /\ 2 \in 1 .. c /\ a + b + 1 = q /\ a + b + 2 = q + 1 /\ q < L
      BY ONLY <2>2, <1>1, <1>2 DEF q
    <3>2. w[q] = e[1] /\ w[q + 1] = e[2]
      <4>1. w[a + b + 1] = e[1] /\ w[a + b + 2] = e[2]
        BY ONLY <3>1, <1>1
      <4> QED
        BY <4>1, <3>1
    <3>3. Pair(w[q], w[q + 1]) /\ q < L
      BY <3>1, <3>2, <2>2, Zenon
    <3>4. z = q + 2
      BY <3>3, <2>1, <1>12, Zenon
    <3> QED
      BY <3>4, <2>2, Zenon
  <2>3. CASE c = 1
    <3>1. 1 \in 1 .. n /\ a + b + c + 1 = q + 1
      BY ONLY <2>3, <1>2 DEF q
    <3>2. w[a + b + c + 1] = val[1]
      BY ONLY <3>1, <1>1
    <3>3. w[q + 1] = val[1]
      BY ONLY <3>1, <3>2
    <3>4. ~Pair(w[q], w[q + 1])
      BY <3>3, PairFacts
    <3>5. z = q + 1
      BY <3>4, <2>1, <1>12, Zenon
    <3> QED
      BY <3>5, <2>3, Zenon
  <2> QED
    BY <2>2, <2>3, <1>3
<1>14. /\ Condition(w).column = SubSeq(w, s0, q - 1)
       /\ Condition(w).exp = Exp(SubSeq(w, q, z - 1))
       /\ Condition(w).value = QuotesReplaced(SubSeq(w, z, L))
  BY <1>10, <1>12, Zenon DEF CondParts, L
<1>15. SubSeq(w, s0, q - 1) = col
  <2> DEFINE y == q - 1
  <2>1. y = a + b /\ y <= L
    BY ONLY <1>1, <1>2 DEF q
  <2> HIDE DEF y
  <2>2. SubSeq(w, a + 1, y) = col
    BY <2>1, <1>1, <1>2, PieceIs DEF b, L
  <2> QED
    BY <2>2 DEF y, s0
<1>16. SubSeq(w, q, z - 1) = e
  <2> DEFINE y == z - 1
             x == a + b
  <2>1. y = x + c /\ y <= L /\ x \in Nat /\ x + 1 = q
    BY ONLY <1>1, <1>2, <1>13 DEF q
  <2>2. \A j \in 1 .. c : w[x + j] = e[j]
    BY <1>1
  <2> HIDE DEF y, x
  <2>3. SubSeq(w, x + 1, y) = e
    BY <2>1, <2>2, <1>1, PieceIs DEF c, L
  <2> QED
    BY <2>1, <2>3 DEF y
<1>17. SubSeq(w, z, L) = val
  <2> DEFINE x == a + b + c
  <2>1. L = x + n /\ x \in Nat /\ x + 1 = z
    BY ONLY <1>1, <1>2, <1>13 DEF q
  <2>2. \A j \in 1 .. n : w[x + j] = val[j]
    BY <1>1
  <2>21. L <= Len(w)
    BY ONLY <1>5 DEF L
  <2> HIDE DEF x
  <2>3. SubSeq(w, x + 1, L) = val
    BY <2>1, <2>2, <2>21, <1>1, PieceIs DEF n
  <2> QED
    BY <2>1, <2>3
<1> QED
  BY <1>9, <1>14, <1>15, <1>16, <1>17, Zenon DEF ReadInto

-----------------------------------------------------------------------------
(***************************************************************************)
(* The values of the grammar, token by token.                              *)
(***************************************************************************)
\* A column and arithmetic behind it, x the end of the column.
IsExpr(v, x) ==
  /\ x \in 1 .. Len(v) - 1 /\ SubSeq(v, 1, x) \in Columns \ TextColumns
  /\ v[x + 1] # "." /\ (Len(v) - x) % 2 = 0
  /\ Arithmetic(SubSeq(v, x + 1, Len(v))) /\ Range(v) \cap OperatorChars = {}

\* A text in quotes.
IsText(v) ==
  /\ Len(v) >= 2 /\ v[1] = "'" /\ v[Len(v)] = "'"
  /\ \A p \in 2 .. Len(v) - 1 : v[p] # "'"

\* A value of the grammar, by its kind.
LEMMA WrittenIs ==
  ASSUME NEW kind \in Kinds, NEW v, WrittenAs(kind, v)
  PROVE  \/ kind = "column" /\ v \in Columns
         \/ kind = "aggregate" /\ Named(v) # {}
         \/ kind = "expr" /\ \E x : IsExpr(v, x)
         \/ kind = "number" /\ NumberCompiles(v) /\ Range(v) \cap OperatorChars = {}
         \/ kind = "text" /\ IsText(v)
<1> DEFINE A == v \in Columns
           B == Named(v) # {}
           C == \E x \in 1 .. Len(v) - 1 :
                  /\ SubSeq(v, 1, x) \in Columns \ TextColumns
                  /\ v[x + 1] # "." /\ (Len(v) - x) % 2 = 0
                  /\ Arithmetic(SubSeq(v, x + 1, Len(v)))
                  /\ Range(v) \cap OperatorChars = {}
           D == NumberCompiles(v) /\ Range(v) \cap OperatorChars = {}
           E == /\ Len(v) >= 2 /\ v[1] = "'" /\ v[Len(v)] = "'"
                /\ \A p \in 2 .. Len(v) - 1 : v[p] # "'"
<1>1. WrittenAs(kind, v) = CASE kind = "column" -> A [] kind = "aggregate" -> B [] kind = "expr" -> C
                             [] kind = "number" -> D [] kind = "text" -> E
  BY Zenon DEF WrittenAs
<1>2. kind \in {"column", "aggregate", "expr", "number", "text"}
  BY DEF Kinds
<1>3. WrittenAs(kind, v)
  OBVIOUS
<1> HIDE DEF A, B, C, D, E
<1>4. \/ kind = "column" /\ A
      \/ kind = "aggregate" /\ B
      \/ kind = "expr" /\ C
      \/ kind = "number" /\ D
      \/ kind = "text" /\ E
  BY ONLY <1>1, <1>2, <1>3
<1>5. C => \E x : IsExpr(v, x)
  BY Zenon DEF C, IsExpr
<1>6. E => IsText(v)
  BY Zenon DEF E, IsText
<1> QED
  BY <1>4, <1>5, <1>6, Zenon DEF A, B, D

\* The tokens of a name.
LEMMA NamedTokens ==
  ASSUME NEW t, NEW a, a \in Named(t)
  PROVE  /\ Holds(t, "_") /\ (t[1] \in Funcs \/ t[1] \in DOMAIN Number)
         /\ \A c : Holds(t, c) => c = "_" \/ a.func = <<c>> \/ Holds(a.column, c) \/ c \in DOMAIN Number
         /\ \A c : a.func = <<c>> => Holds(t, c)
<1> DEFINE d == "_"
           x == toVar(a)
           n == Len(a.column)
<1>1. a \in Objects /\ \/ a.group = 0 /\ t = x
                       \/ \E e \in DOMAIN Number : Number[e] = a.group /\ t = <<e, d>> \o x
  BY Zenon DEF Named
<1>2. PICK f \in Funcs : /\ a.func = <<f>> /\ x \in Seq(Token) /\ Len(x) = n + 2
                         /\ x[1] = f /\ x[2] = d /\ a.column \in Seq(Token)
                         /\ \A j \in 1 .. n : x[j + 2] = a.column[j]
  BY <1>1, ObjectFacts, Zenon
<1>3. n \in Nat /\ DOMAIN a.column = 1 .. n /\ DOMAIN x = 1 .. n + 2
  <2> HIDE DEF x, d
  <2> QED
    BY ONLY <1>2
<1> HIDE DEF x, n, d
<1>4. \A c : a.func = <<c>> => c = f
  <2>1. \A y, z : <<y>> = <<z>> => y = z
    BY ONLY TRUE
  <2> QED
    BY <2>1, <1>2, Zenon
<1>5. 1 \in 1 .. n + 2 /\ 2 \in 1 .. n + 2 /\ \A p \in 1 .. n + 2 : p = 1 \/ p = 2 \/ \E j \in 1 .. n : p = j + 2
  <2>1. 1 \in 1 .. n + 2 /\ 2 \in 1 .. n + 2
    BY ONLY <1>3
  <2>2. ASSUME NEW p \in 1 .. n + 2 PROVE p = 1 \/ p = 2 \/ \E j \in 1 .. n : p = j + 2
    <3>1. p = 1 \/ p = 2 \/ (p - 2 \in 1 .. n /\ p = (p - 2) + 2)
      BY ONLY <1>3, <2>2, p \in 1 .. n + 2
    <3> QED
      BY <3>1, Zenon
  <2> QED
    BY <2>1, <2>2
<1>6. Holds(x, d) /\ Holds(x, f)
  BY <1>2, <1>3, <1>5, Zenon DEF Holds
<1>7. ASSUME NEW c, Holds(x, c) PROVE c = d \/ c = f \/ Holds(a.column, c)
  <2>1. PICK p \in 1 .. n + 2 : x[p] = c
    BY <1>3, <1>7, Zenon DEF Holds
  <2>2. p = 1 \/ p = 2 \/ \E j \in 1 .. n : p = j + 2
    BY <1>5, Zenon
  <2> QED
    BY <2>1, <2>2, <1>2, <1>3, Zenon DEF Holds
<1>8. CASE t = x
  <2>1. Holds(t, d) /\ t[1] \in Funcs
    BY <1>8, <1>6, <1>2, Zenon
  <2>2. \A c : Holds(t, c) => c = d \/ a.func = <<c>> \/ Holds(a.column, c)
    BY <1>8, <1>7, <1>2, Zenon
  <2>3. \A c : a.func = <<c>> => Holds(t, c)
    BY <1>8, <1>4, <1>6, Zenon
  <2> QED
    BY <2>1, <2>2, <2>3, Zenon DEF d
<1>9. ASSUME NEW e \in DOMAIN Number, t = <<e, d>> \o x
      PROVE  /\ Holds(t, d) /\ t[1] \in DOMAIN Number
             /\ \A c : Holds(t, c) => c = d \/ a.func = <<c>> \/ Holds(a.column, c) \/ c \in DOMAIN Number
             /\ \A c : a.func = <<c>> => Holds(t, c)
  <2>1. e \in Token /\ d \in Token
    BY Numbers, Characters, Zenon DEF d
  <2>2. TwoThen(e, d, x, t)
    <3>1. TwoThen(e, d, x, <<e, d>> \o x)
      BY <2>1, <1>2, CatTwo
    <3> QED
      BY <1>9, <3>1, Zenon
  <2>3. t \in Seq(Token) /\ Len(t) = Len(x) + 2 /\ t[1] = e /\ t[2] = d /\ \A j \in 1 .. Len(x) : t[j + 2] = x[j]
    BY <2>2, Zenon DEF TwoThen
  <2> DEFINE m == n + 2
  <2>4. m \in Nat /\ Len(x) = m
    BY ONLY <1>2, <1>3
  <2>5. DOMAIN t = 1 .. m + 2 /\ DOMAIN x = 1 .. m
    BY ONLY <2>3, <2>4, <1>2
  <2> HIDE DEF m
  <2>6. \A p \in 1 .. m + 2 : p = 1 \/ p = 2 \/ \E j \in 1 .. m : p = j + 2
    <3>2. ASSUME NEW p \in 1 .. m + 2 PROVE p = 1 \/ p = 2 \/ \E j \in 1 .. m : p = j + 2
      <4>1. p = 1 \/ p = 2 \/ (p - 2 \in 1 .. m /\ p = (p - 2) + 2)
        BY ONLY <2>4, <3>2, p \in 1 .. m + 2
      <4> QED
        BY <4>1, Zenon
    <3> QED
      BY <3>2
  <2>7. \A j \in 1 .. m : j + 2 \in 1 .. m + 2 /\ t[j + 2] = x[j]
    <3>1. \A j \in 1 .. m : j + 2 \in 1 .. m + 2
      BY ONLY <2>4
    <3> QED
      BY <3>1, <2>3, <2>4, Zenon
  <2>8. \A c : Holds(x, c) => Holds(t, c)
    BY <2>5, <2>7, Zenon DEF Holds
  <2>9. ASSUME NEW c, Holds(t, c) PROVE c = e \/ c = d \/ Holds(x, c)
    <3>1. PICK p \in 1 .. m + 2 : t[p] = c
      BY <2>5, <2>9, Zenon DEF Holds
    <3>2. p = 1 \/ p = 2 \/ \E j \in 1 .. m : p = j + 2
      BY <2>6, Zenon
    <3> QED
      BY <3>1, <3>2, <2>3, <2>5, <2>7, Zenon DEF Holds
  <2>10. Holds(t, d) /\ Holds(t, f)
    BY <2>8, <1>6, Zenon
  <2>11. \A c : Holds(t, c) => c = d \/ a.func = <<c>> \/ Holds(a.column, c) \/ c \in DOMAIN Number
    BY <2>9, <1>7, <1>2, Zenon
  <2>12. \A c : a.func = <<c>> => Holds(t, c)
    BY <2>10, <1>4, Zenon
  <2> QED
    BY <2>3, <2>10, <2>11, <2>12, Zenon
<1>10. t = x \/ \E e \in DOMAIN Number : t = <<e, d>> \o x
  BY <1>1, Zenon
<1> QED
  BY <1>8, <1>9, <1>10, Zenon DEF d

\* Numbers and signs only.
Sign(x) == x \in {"+", "-", "*", "/", "."}

\* A text of numbers and signs.
Plain(t) == \A p \in 1 .. Len(t) : t[p] \in DOMAIN Number \/ Sign(t[p])

\* A text without operators.
NoOps(t) == \A p \in 1 .. Len(t) : t[p] \notin OperatorChars

\* A text without its first token.
LEMMA TailIs ==
  ASSUME NEW s \in Seq(Token), s # <<>>
  PROVE  /\ Tail(s) \in Seq(Token) /\ Len(Tail(s)) \in Nat /\ Len(s) = Len(Tail(s)) + 1
         /\ \A j \in 1 .. Len(Tail(s)) : Tail(s)[j] = s[j + 1]
OBVIOUS

\* A number or a sign before a text of numbers and signs is another one.
LEMMA PlainTail ==
  ASSUME NEW s \in Seq(Token), s # <<>>, s[1] \in DOMAIN Number \/ Sign(s[1]), Plain(Tail(s))
  PROVE  Plain(s)
<1> DEFINE t == Tail(s)
           m == Len(t)
<1>1. m \in Nat /\ Len(s) = m + 1 /\ \A j \in 1 .. m : t[j] = s[j + 1]
  BY TailIs
<1>2. \A j \in 1 .. m : t[j] \in DOMAIN Number \/ Sign(t[j])
  BY DEF Plain
<1> HIDE DEF t, m
<1>3. ASSUME NEW p \in 1 .. m + 1 PROVE s[p] \in DOMAIN Number \/ Sign(s[p])
  <2>1. p = 1 \/ (p - 1 \in 1 .. m /\ p = (p - 1) + 1)
    BY ONLY <1>1, p \in 1 .. m + 1
  <2>2. \A j \in 1 .. m : s[j + 1] \in DOMAIN Number \/ Sign(s[j + 1])
    BY <1>1, <1>2
  <2> QED
    BY <2>1, <2>2
<1> QED
  BY <1>1, <1>3 DEF Plain

\* No operator, none in the rest.
LEMMA NoOpsTail ==
  ASSUME NEW s \in Seq(Token), s # <<>>, NoOps(s) PROVE NoOps(Tail(s))
<1> DEFINE t == Tail(s)
           m == Len(t)
<1>1. m \in Nat /\ Len(s) = m + 1 /\ \A j \in 1 .. m : t[j] = s[j + 1]
  BY TailIs
<1> HIDE DEF t, m
<1>2. \A j \in 1 .. m : j + 1 \in 1 .. m + 1
  BY <1>1
<1> QED
  BY <1>1, <1>2 DEF NoOps, t, m

\* Arithmetic without operators of comparison is numbers and signs.
LEMMA ArithmeticPlain ==
  ASSUME NEW t \in Seq(Token), Arithmetic(t), NoOps(t) PROVE Plain(t)
<1>1. DOMAIN t = 1 .. Len(t)
  OBVIOUS
<1>2. \A p \in DOMAIN t : t[p] \in IF p % 2 = 0 THEN DOMAIN Number ELSE {"+", "-", "*", "/", "."} \cup OperatorChars
  BY Zenon DEF Arithmetic
<1>3. ASSUME NEW p \in 1 .. Len(t) PROVE t[p] \in DOMAIN Number \/ Sign(t[p])
  <2>1. t[p] \in DOMAIN Number \/ t[p] \in {"+", "-", "*", "/", "."} \cup OperatorChars
    BY <1>1, <1>2, Zenon
  <2>2. t[p] \notin OperatorChars
    BY Zenon DEF NoOps
  <2> QED
    BY <2>1, <2>2, Zenon DEF Sign
<1> QED
  BY <1>3, Zenon DEF Plain

\* A number, with its sign.
LEMMA NumberPlain ==
  ASSUME NEW v \in Seq(Token), NumberCompiles(v), NoOps(v)
  PROVE  v # <<>> /\ Plain(v)
<1> DEFINE u == IF v # <<>> /\ v[1] \in {"+", "-"} THEN Tail(v) ELSE v
<1>1. Len(u) % 2 = 1 /\ u[1] \in DOMAIN Number /\ Arithmetic(Tail(u))
  BY Zenon DEF NumberCompiles
<1>2. u \in Seq(Token) /\ NoOps(u)
  <2>1. CASE v # <<>> /\ v[1] \in {"+", "-"}
    <3>1. u = Tail(v) /\ v # <<>>
      BY <2>1, Zenon
    <3> QED
      BY <3>1, TailIs, NoOpsTail, Zenon
  <2>2. CASE ~(v # <<>> /\ v[1] \in {"+", "-"})
    BY <2>2, Zenon
  <2> QED
    BY <2>1, <2>2
<1> HIDE DEF u
<1>3. u # <<>>
  <2>1. Len(<<>>) % 2 # 1
    BY ONLY TRUE
  <2> QED
    BY <2>1, <1>1, Zenon
<1>4. Plain(u)
  <2>1. Tail(u) \in Seq(Token) /\ NoOps(Tail(u))
    BY <1>2, <1>3, TailIs, NoOpsTail, Zenon
  <2>2. Plain(Tail(u))
    BY <2>1, <1>1, ArithmeticPlain, Zenon
  <2> QED
    BY <2>2, <1>1, <1>2, <1>3, PlainTail, Zenon
<1>5. CASE v # <<>> /\ v[1] \in {"+", "-"}
  <2>1. u = Tail(v)
    BY <1>5, Zenon DEF u
  <2>2. Sign(v[1])
    BY <1>5, Zenon DEF Sign
  <2> QED
    BY <2>1, <2>2, <1>4, <1>5, PlainTail, Zenon
<1>6. CASE ~(v # <<>> /\ v[1] \in {"+", "-"})
  BY <1>6, <1>3, <1>4, Zenon DEF u
<1> QED
  BY <1>5, <1>6

\* Where a column's name is in a text.
LEMMA ColumnIn ==
  ASSUME NEW t \in Seq(Token), hasColumn(t)
  PROVE  \E c \in Columns, x \in Nat :
           /\ x + Len(c) <= Len(t) /\ \A j \in 1 .. Len(c) : t[x + j] = c[j]
<1>0. PICK c \in Columns : \E p \in 1 .. Len(t) - Len(c) + 1 : SubSeq(t, p, p + Len(c) - 1) = c
  BY Zenon DEF hasColumn
<1>1. PICK p \in 1 .. Len(t) - Len(c) + 1 : SubSeq(t, p, p + Len(c) - 1) = c
  BY <1>0
<1> DEFINE n == Len(c)
           L == Len(t)
           x == p - 1
           b == p + n - 1
<1>2. n \in Nat /\ 1 <= n /\ L \in Nat
  <2>1. n \in Nat /\ 1 <= n
    BY ColumnFacts
  <2> QED
    BY <2>1
<1>21. p \in 1 .. L - n + 1
  BY Zenon
<1> HIDE DEF n, L
<1>3. p \in Nat \ {0} /\ b \in Nat /\ b <= L /\ x \in Nat /\ x + n <= L /\ b - p + 1 = n
  BY ONLY <1>2, <1>21
<1>4. SubSeq(t, p, b) = c
  BY <1>1, Zenon DEF n
<1> HIDE DEF b, x
<1>5. \A j \in 1 .. b - p + 1 : SubSeq(t, p, b)[j] = t[p + j - 1]
  BY <1>3, Piece DEF L
<1>6. ASSUME NEW j \in 1 .. n PROVE t[x + j] = c[j]
  <2>1. p + j - 1 = x + j
    BY <1>3 DEF x
  <2>2. c[j] = t[p + j - 1]
    BY <1>3, <1>4, <1>5
  <2> QED
    BY <2>1, <2>2
<1> QED
  BY <1>3, <1>6 DEF n, L

\* Numbers and signs have no column's name in them.
LEMMA NoColumnIn ==
  ASSUME NEW t \in Seq(Token), Plain(t), t # <<>>
  PROVE  /\ ~hasColumn(t) /\ ~isColumn(t) /\ ~isAggregate(t)
         /\ ~Holds(t, "'") /\ ~Holds(t, "\"")
<1>0. DOMAIN t = 1 .. Len(t) /\ Len(t) \in Nat /\ 1 \in 1 .. Len(t)
  OBVIOUS
<1>1. \A x : Sign(x) => x \in Punctuation /\ x # "_" /\ x # "'" /\ x # "\""
  BY DEF Sign, Punctuation
<1>2. \A x \in DOMAIN Number : x \notin Punctuation /\ x # "_" /\ x # "'" /\ x # "\""
  BY Numbers, Zenon
<1>3. \A p \in 1 .. Len(t) : t[p] \in DOMAIN Number \/ Sign(t[p])
  BY Zenon DEF Plain
<1>4. ~isAggregate(t) /\ ~Holds(t, "'") /\ ~Holds(t, "\"")
  BY <1>0, <1>1, <1>2, <1>3, Zenon DEF isAggregate, Holds
<1>5. ASSUME NEW c \in Columns, NEW p \in 1 .. Len(t), t[p] = c[1] PROVE FALSE
  <2>1. 1 \in 1 .. Len(c)
    BY ColumnFacts
  <2>2. c[1] \notin DOMAIN Number /\ c[1] \notin Punctuation
    BY <2>1, ColumnFacts, Zenon
  <2> QED
    BY <2>2, <1>1, <1>3, <1>5, Zenon
<1>6. ~isColumn(t)
  BY <1>0, <1>5, Zenon DEF isColumn
<1>7. ~hasColumn(t)
  <2> SUFFICES ASSUME hasColumn(t) PROVE FALSE
    OBVIOUS
  <2>1. PICK c \in Columns, x \in Nat :
           /\ x + Len(c) <= Len(t) /\ \A j \in 1 .. Len(c) : t[x + j] = c[j]
    BY ColumnIn
  <2>2. Len(c) \in Nat /\ 1 <= Len(c)
    BY ColumnFacts
  <2>3. 1 \in 1 .. Len(c) /\ x + 1 \in 1 .. Len(t)
    BY ONLY <2>1, <2>2, <1>0
  <2> QED
    BY <2>1, <2>3, <1>5, Zenon
<1> QED
  BY <1>4, <1>6, <1>7

\* A value is not empty and does not start like an operator.
LEMMA ValueStart ==
  ASSUME NEW kind \in Kinds, NEW val \in Seq(Token), WrittenAs(kind, val)
  PROVE  val # <<>> /\ val[1] \notin OperatorChars
<1>0. DOMAIN val = 1 .. Len(val) /\ Len(val) \in Nat /\ (val # <<>> => 1 \in 1 .. Len(val))
  OBVIOUS
<1>1. ASSUME val \in Columns PROVE val # <<>> /\ val[1] \notin OperatorChars
  <2>1. Len(val) \in Nat /\ 1 <= Len(val)
    BY <1>1, ColumnFacts
  <2>2. 1 \in 1 .. Len(val) /\ val # <<>>
    BY <2>1
  <2> QED
    BY <2>2, <1>1, ColumnFacts, Zenon
<1>2. ASSUME Named(val) # {} PROVE val # <<>> /\ val[1] \notin OperatorChars
  <2>1. PICK a : a \in Named(val)
    BY <1>2
  <2>2. val # <<>> /\ (val[1] \in Funcs \/ val[1] \in DOMAIN Number)
    BY <2>1, NamedClean, NamedTokens, Zenon
  <2>3. Funcs \cap OperatorChars = {} /\ \A d \in DOMAIN Number : d \notin OperatorChars
    <3>1. \A d \in DOMAIN Number : d \notin OperatorChars
      BY Numbers, Zenon
    <3>2. Funcs \cap OperatorChars = {}
      BY Characters
    <3> QED
      BY <3>1, <3>2
  <2> QED
    BY <2>2, <2>3
<1>3. ASSUME Range(val) \cap OperatorChars = {}, val # <<>> PROVE val[1] \notin OperatorChars
  BY <1>0, <1>3, Zenon DEF Range
<1>4. ASSUME NEW x, IsExpr(val, x) PROVE val # <<>> /\ val[1] \notin OperatorChars
  <2>1. x \in 1 .. Len(val) - 1 /\ Range(val) \cap OperatorChars = {}
    BY <1>4, Zenon DEF IsExpr
  <2>2. val # <<>>
    BY <2>1, <1>0
  <2> QED
    BY <2>1, <2>2, <1>3
<1>5. ASSUME NumberCompiles(val), Range(val) \cap OperatorChars = {}
      PROVE  val # <<>> /\ val[1] \notin OperatorChars
  <2>1. NoOps(val)
    BY <1>0, <1>5, Zenon DEF NoOps, Range
  <2>2. val # <<>>
    BY <2>1, <1>5, NumberPlain, Zenon
  <2> QED
    BY <2>2, <1>3, <1>5
<1>6. ASSUME IsText(val) PROVE val # <<>> /\ val[1] \notin OperatorChars
  <2>1. Len(val) >= 2 /\ val[1] = "'"
    BY <1>6, Zenon DEF IsText
  <2>2. val # <<>>
    BY <2>1, <1>0
  <2>3. "'" \notin OperatorChars
    BY DEF OperatorChars
  <2> QED
    BY <2>1, <2>2, <2>3
<1> QED
  BY <1>1, <1>2, <1>4, <1>5, <1>6, WrittenIs, Zenon

\* When g++ accepts a condition, kind by kind.
LEMMA CompilesAs ==
  ASSUME NEW c, NEW col, NEW v, Stripped(c.column) = col, col \in Columns, c.exp # <<"!">>, ~c.column_call,
         Stripped(c.value) = v, c.kind \in {"column", "expr"} => input.emf
  PROVE  /\ c.kind = "column" /\ (v \in TextColumns) = (col \in TextColumns) => ConditionCompiles(c)
         /\ /\ c.kind = "aggregate" /\ c.test = "operator" /\ col \notin TextColumns
            /\ FieldCompiles(Field(Aggregate(c.value)), c.call)
            => ConditionCompiles(c)
         /\ /\ c.kind = "expr" /\ c.test = "operator"
            /\ \E p \in 1 .. Len(v) : /\ SubSeq(v, 1, p) \in Columns
                                      /\ (SubSeq(v, 1, p) \in TextColumns) = (col \in TextColumns)
                                      /\ Len(v) > p => col \notin TextColumns /\ v[p + 1] # "."
                                      /\ (Len(v) - p) % 2 = 0
                                      /\ Arithmetic(SubSeq(v, p + 1, Len(v)))
            => ConditionCompiles(c)
         /\ c.kind = "literal" /\ c.test = "compare" /\ col \in TextColumns /\ TextCompiles(v)
            => ConditionCompiles(c)
         /\ c.kind = "literal" /\ c.test # "compare" /\ col \notin TextColumns /\ NumberCompiles(v)
            => ConditionCompiles(c)
<1> DEFINE A == (v \in TextColumns) = (col \in TextColumns)
           B == /\ c.test = "operator" /\ ~(col \in TextColumns)
                /\ FieldCompiles(Field(Aggregate(c.value)), c.call)
           C == /\ c.test = "operator"
                /\ \E p \in 1 .. Len(v) : /\ SubSeq(v, 1, p) \in Columns
                                          /\ (SubSeq(v, 1, p) \in TextColumns) = (col \in TextColumns)
                                          /\ Len(v) > p => ~(col \in TextColumns) /\ v[p + 1] # "."
                                          /\ (Len(v) - p) % 2 = 0
                                          /\ Arithmetic(SubSeq(v, p + 1, Len(v)))
           D == IF c.test = "compare" THEN col \in TextColumns /\ TextCompiles(v)
                ELSE ~(col \in TextColumns) /\ NumberCompiles(v)
           R == CASE c.kind = "column" -> A [] c.kind = "aggregate" -> B
                  [] c.kind = "expr" -> C [] c.kind = "literal" -> D
<1>1. R => ConditionCompiles(c)
  BY Zenon DEF ConditionCompiles
<1> HIDE DEF A, B, C, D
<1>2. /\ c.kind = "column" /\ A => R
      /\ c.kind = "aggregate" /\ B => R
      /\ c.kind = "expr" /\ C => R
      /\ c.kind = "literal" /\ D => R
  BY ONLY TRUE DEF R
<1> HIDE DEF R
<1>3. /\ c.kind = "column" /\ A => ConditionCompiles(c)
      /\ c.kind = "aggregate" /\ B => ConditionCompiles(c)
      /\ c.kind = "expr" /\ C => ConditionCompiles(c)
      /\ c.kind = "literal" /\ D => ConditionCompiles(c)
  BY <1>1, <1>2, Zenon
<1> QED
  BY <1>3, Zenon DEF A, B, C, D

-----------------------------------------------------------------------------
(***************************************************************************)
(* What such a condition becomes in C++, kind by kind.                     *)
(***************************************************************************)
\* The condition x was made of a column, an operator and a value.
HoldsParts(x, col, e, val) ==
  /\ col \in Columns /\ ~Holds(col, "avg") /\ e \in Exps /\ val \in Seq(Token) /\ val # <<>>
  /\ \A j \in 1 .. Len(val) : val[j] \notin BlankChars
  /\ x.column = col /\ x.exp = Exp(e) /\ x.value = QuotesReplaced(val)

\* What toCpp makes of it.
LEMMA CppParts ==
  ASSUME NEW x, NEW col, NEW e, NEW val, HoldsParts(x, col, e, val)
  PROVE  /\ toCpp(x).column = col /\ Stripped(toCpp(x).column) = col /\ col \in Columns
         /\ toCpp(x).exp # <<"!">> /\ ~toCpp(x).column_call /\ toCpp(x).value = QuotesReplaced(val)
         /\ Stripped(toCpp(x).value) = QuotesReplaced(val) /\ QuotesReplaced(val) \in Seq(Token)
         /\ toCpp(x).kind = Kind(QuotesReplaced(val))
         /\ toCpp(x).test = (IF Holds(val, "'") \/ Holds(val, "\"") THEN "compare" ELSE "operator")
         /\ toCpp(x).call = Holds(QuotesReplaced(val), "avg")
<1> DEFINE V == QuotesReplaced(val)
<1>1. /\ col \in Columns /\ ~Holds(col, "avg") /\ e \in Exps /\ val \in Seq(Token)
      /\ \A j \in 1 .. Len(val) : val[j] \notin BlankChars
      /\ x.column = col /\ x.exp = Exp(e) /\ x.value = V
  BY Zenon DEF HoldsParts
<1>2. /\ toCpp(x).column = col /\ toCpp(x).exp = Exp(e) /\ toCpp(x).value = V
      /\ toCpp(x).kind = Kind(V) /\ toCpp(x).test = IF Holds(V, "\"") THEN "compare" ELSE "operator"
      /\ toCpp(x).column_call = Holds(col, "avg")
  BY <1>1, CppFields, Zenon
<1>3. toCpp(x).call = Holds(V, "avg")
  <2>1. toCpp(x).call = Holds(x.value, "avg")
    BY DEF toCpp
  <2> QED
    BY <2>1, <1>1, Zenon
<1>4. V \in Seq(Token) /\ Len(V) = Len(val)
      /\ \A p \in 1 .. Len(val) : V[p] = IF val[p] = "'" THEN "\"" ELSE val[p]
  BY <1>1, QuotesTyped, Zenon
<1>5. Holds(V, "\"") <=> Holds(val, "'") \/ Holds(val, "\"")
  BY <1>1, QuotesHeld, Zenon
<1>6. "\"" \notin BlankChars
  BY Characters, Zenon
<1>7. Exp(e) # <<"!">>
  BY <1>1, ExpFacts, Zenon
<1>8. Stripped(col) = col
  BY <1>1, ColumnFacts, Zenon
<1> HIDE DEF V
<1>9. \A p \in 1 .. Len(V) : V[p] \notin BlankChars
  BY <1>1, <1>4, <1>6, Zenon
<1>10. Stripped(V) = V
  BY <1>4, <1>9, StrippedClean, Zenon
<1> QED
  BY <1>1, <1>2, <1>3, <1>4, <1>5, <1>7, <1>8, <1>10, Zenon DEF V

\* Every name of F has been read.
AllRead == \A f \in Range(input.F) : Aggregate(f) \in Range(all_aggregates)

\* toCpp does not throw, and what it writes compiles once F has been read.
GoodCpp(x) == ~ToCppThrows(x) /\ (AllRead => ConditionCompiles(toCpp(x)))

\* A value without quotes is copied as it is.
LEMMA Bare ==
  ASSUME NEW x, NEW col, NEW e, NEW val, HoldsParts(x, col, e, val), ~Holds(val, "'"), ~Holds(val, "\"")
  PROVE  /\ x.value = val /\ toCpp(x).value = val /\ Stripped(toCpp(x).value) = val
         /\ toCpp(x).kind = Kind(val) /\ toCpp(x).test = "operator" /\ toCpp(x).call = Holds(val, "avg")
         /\ Stripped(toCpp(x).column) = col /\ col \in Columns /\ toCpp(x).exp # <<"!">> /\ ~toCpp(x).column_call
         /\ val \in Seq(Token)
<1>1. val \in Seq(Token) /\ x.value = QuotesReplaced(val)
  BY Zenon DEF HoldsParts
<1>2. QuotesReplaced(val) = val
  BY <1>1, QuotesHeld, Zenon
<1> DEFINE c == toCpp(x)
<1>3. /\ c.value = QuotesReplaced(val) /\ Stripped(c.value) = QuotesReplaced(val)
      /\ c.kind = Kind(QuotesReplaced(val)) /\ c.call = Holds(QuotesReplaced(val), "avg")
      /\ Stripped(c.column) = col /\ col \in Columns /\ c.exp # <<"!">> /\ ~c.column_call
      /\ c.test = (IF Holds(val, "'") \/ Holds(val, "\"") THEN "compare" ELSE "operator")
  BY CppParts, Zenon
<1> HIDE DEF c
<1>4. c.test = "operator"
  BY <1>3, Zenon
<1> QED
  BY <1>1, <1>2, <1>3, <1>4, Zenon DEF c

\* A condition on a column.
LEMMA ColumnCpp ==
  ASSUME NEW x, NEW col, NEW e, NEW val, HoldsParts(x, col, e, val), val \in Columns, input.emf,
         (val \in TextColumns) = (col \in TextColumns)
  PROVE  GoodCpp(x)
<1>1. ~Holds(val, "'") /\ ~Holds(val, "\"")
  <2>1. val \in Seq(Token) /\ \A j \in 1 .. Len(val) : val[j] \notin Punctuation
    BY ColumnFacts, Zenon
  <2>2. DOMAIN val = 1 .. Len(val)
    BY <2>1
  <2>3. "'" \in Punctuation /\ "\"" \in Punctuation
    BY DEF Punctuation
  <2> QED
    BY <2>1, <2>2, <2>3, Zenon DEF Holds
<1> DEFINE c == toCpp(x)
<1>2. /\ x.value = val /\ Stripped(c.value) = val /\ c.kind = Kind(val)
      /\ Stripped(c.column) = col /\ col \in Columns /\ c.exp # <<"!">> /\ ~c.column_call
  BY <1>1, Bare, Zenon
<1>3. Kind(val) = "column"
  BY KindIs, Zenon DEF isColumn
<1>4. "column" # "aggregate"
  OBVIOUS
<1> HIDE DEF c
<1>5. ConditionCompiles(c)
  BY <1>2, <1>3, CompilesAs, Zenon
<1> QED
  BY <1>2, <1>3, <1>4, <1>5, Zenon DEF GoodCpp, ToCppThrows, c

\* A condition on a number.
LEMMA NumberCpp ==
  ASSUME NEW x, NEW col, NEW e, NEW val, HoldsParts(x, col, e, val), NumberCompiles(val),
         Range(val) \cap OperatorChars = {}, col \notin TextColumns
  PROVE  GoodCpp(x)
<1>0. val \in Seq(Token)
  BY Zenon DEF HoldsParts
<1>1. NoOps(val)
  <2>1. DOMAIN val = 1 .. Len(val)
    BY <1>0
  <2> QED
    BY <2>1, Zenon DEF NoOps, Range
<1>2. /\ ~hasColumn(val) /\ ~isColumn(val) /\ ~isAggregate(val)
      /\ ~Holds(val, "'") /\ ~Holds(val, "\"")
  BY <1>0, <1>1, NumberPlain, NoColumnIn, Zenon
<1> DEFINE c == toCpp(x)
<1>3. /\ x.value = val /\ Stripped(c.value) = val /\ c.kind = Kind(val) /\ c.test = "operator"
      /\ Stripped(c.column) = col /\ col \in Columns /\ c.exp # <<"!">> /\ ~c.column_call
  BY <1>2, Bare, Zenon
<1>4. Kind(val) = "literal"
  BY <1>2, KindIs, Zenon
<1>5. "literal" # "aggregate" /\ "operator" # "compare" /\ "literal" \notin {"column", "expr"}
  OBVIOUS
<1> HIDE DEF c
<1>6. ConditionCompiles(c)
  BY <1>3, <1>4, <1>5, CompilesAs, Zenon
<1> QED
  BY <1>3, <1>4, <1>5, <1>6, Zenon DEF GoodCpp, ToCppThrows, c

\* A text with the tokens of a column in a row has that column.
LEMMA ColumnThere ==
  ASSUME NEW t \in Seq(Token), NEW c \in Columns, NEW x \in Nat, x + Len(c) <= Len(t),
         \A j \in 1 .. Len(c) : t[x + j] = c[j]
  PROVE  hasColumn(t)
<1> DEFINE z == x + Len(c)
           p == x + 1
<1>1. c \in Seq(Token) /\ Len(c) \in Nat /\ 1 <= Len(c)
  BY ColumnFacts, Zenon
<1>2. Len(t) \in Nat
  OBVIOUS
<1>3. p \in 1 .. Len(t) - Len(c) + 1 /\ z = p + Len(c) - 1
  BY <1>1, <1>2
<1>4. SubSeq(t, x + 1, z) = c
  BY <1>1, PieceIs, Zenon
<1>5. SubSeq(t, p, p + Len(c) - 1) = c
  BY <1>3, <1>4, Zenon
<1> HIDE DEF p, z
<1> QED
  BY <1>3, <1>5, Zenon DEF hasColumn

\* A condition on a text.
LEMMA TextCpp ==
  ASSUME NEW x, NEW col, NEW e, NEW val, HoldsParts(x, col, e, val), IsText(val), col \in TextColumns,
         ~hasColumn(val), ~isAggregate(val), ~Holds(val, "\"")
  PROVE  GoodCpp(x)
<1> DEFINE V == QuotesReplaced(val)
           dq == "\""
           sq == "'"
<1>0. val \in Seq(Token)
  BY Zenon DEF HoldsParts
<1>00. DOMAIN val = 1 .. Len(val) /\ Len(val) \in Nat
  BY ONLY <1>0
<1>1. /\ V \in Seq(Token) /\ Len(V) = Len(val)
      /\ \A p \in 1 .. Len(val) : V[p] = IF val[p] = sq THEN dq ELSE val[p]
  BY <1>0, QuotesTyped, Zenon
<1>2. dq # sq /\ dq \in Punctuation /\ "_" # dq /\ "_" # sq
  BY DEF Punctuation
<1>3. Len(val) \in Nat /\ Len(val) >= 2 /\ val[1] = sq /\ val[Len(val)] = sq
      /\ \A p \in 2 .. Len(val) - 1 : val[p] # sq
  BY <1>00, Zenon DEF IsText
<1>4. \A p \in 1 .. Len(val) : val[p] # dq
  BY <1>00, Zenon DEF Holds
<1>5. ~isAggregate(V)
  BY <1>0, <1>2, QuotesHeld, Zenon DEF isAggregate
<1>6. x.value = V
  BY Zenon DEF HoldsParts
<1>7. Holds(val, sq)
  <2>1. 1 \in 1 .. Len(val)
    BY ONLY <1>3
  <2> QED
    BY <2>1, <1>00, <1>3, Zenon DEF Holds
<1> DEFINE c == toCpp(x)
<1>8. /\ Stripped(c.column) = col /\ col \in Columns /\ c.exp # <<"!">> /\ ~c.column_call /\ Stripped(c.value) = V
      /\ c.kind = Kind(V)
      /\ c.test = (IF Holds(val, sq) \/ Holds(val, dq) THEN "compare" ELSE "operator")
  BY CppParts, Zenon
<1> HIDE DEF V, dq, sq, c
<1>9. c.test = "compare"
  BY <1>7, <1>8, Zenon
<1>10. /\ V[1] = dq /\ V[Len(V)] = dq /\ \A p \in 2 .. Len(V) - 1 : V[p] # dq
       /\ Len(V) >= 2 /\ 1 \in 1 .. Len(V) /\ Len(V) \in 1 .. Len(V)
  <2>1. 1 \in 1 .. Len(val) /\ Len(val) \in 1 .. Len(val) /\ \A p \in 2 .. Len(val) - 1 : p \in 1 .. Len(val)
    BY ONLY <1>3
  <2>2. V[1] = dq /\ V[Len(val)] = dq
    BY <2>1, <1>1, <1>3, Zenon
  <2>3. \A p \in 2 .. Len(val) - 1 : V[p] # dq
    BY <2>1, <1>1, <1>3, <1>4, Zenon
  <2> QED
    BY <2>1, <2>2, <2>3, <1>1, <1>3
<1>11. TextCompiles(V)
  BY <1>10, Zenon DEF TextCompiles, dq
<1>12. ~isColumn(V)
  <2>1. V \in Columns => \A j \in 1 .. Len(V) : V[j] \notin Punctuation
    BY ColumnFacts, Zenon
  <2> QED
    BY <2>1, <1>2, <1>10, Zenon DEF isColumn
<1>13. ~hasColumn(V)
  <2> SUFFICES ASSUME hasColumn(V) PROVE FALSE
    OBVIOUS
  <2>1. PICK d \in Columns, y \in Nat : y + Len(d) <= Len(V) /\ \A j \in 1 .. Len(d) : V[y + j] = d[j]
    BY <1>1, ColumnIn, Zenon
  <2>2. Len(d) \in Nat /\ \A j \in 1 .. Len(d) : d[j] \notin Punctuation
    BY ColumnFacts, Zenon
  <2>3. Len(V) \in Nat
    BY <1>1, <1>3
  <2>4. \A j \in 1 .. Len(d) : y + j \in 1 .. Len(V)
    BY ONLY <2>1, <2>2, <2>3
  <2>5. ASSUME NEW j \in 1 .. Len(d) PROVE val[y + j] = d[j]
    <3>1. V[y + j] = d[j] /\ d[j] # dq /\ y + j \in 1 .. Len(val)
      BY <2>1, <2>2, <2>4, <1>1, <1>2, Zenon
    <3> QED
      BY <3>1, <1>1, Zenon
  <2>6. y + Len(d) <= Len(val)
    BY <2>1, <1>1
  <2> QED
    BY <2>5, <2>6, <1>0, ColumnThere, Zenon
<1>14. Kind(V) = "literal"
  BY <1>5, <1>12, <1>13, KindIs, Zenon
<1>15. "literal" # "aggregate" /\ "literal" \notin {"column", "expr"}
  OBVIOUS
<1>16. ConditionCompiles(c)
  BY <1>8, <1>9, <1>11, <1>14, <1>15, CompilesAs, Zenon
<1> QED
  BY <1>6, <1>14, <1>15, <1>16, Zenon DEF GoodCpp, ToCppThrows, c

\* A condition on an aggregate of F.
LEMMA AggregateCpp ==
  ASSUME NEW x, NEW col, NEW e, NEW val, HoldsParts(x, col, e, val), InF(val), col \notin TextColumns,
         val \notin Columns, \A a \in Named(val) : ~Holds(a.column, "avg")
  PROVE  GoodCpp(x)
<1>0. PICK f \in Range(input.F) : Named(val) \cap Named(f) # {}
  BY Zenon DEF InF
<1>1. PICK a : a \in Named(val) /\ a \in Named(f)
  BY <1>0, Zenon
<1>2. /\ val \in Seq(Token) /\ a \in Objects /\ Aggregate(val) = a /\ ~AggregateThrows(val)
      /\ Aggregate(f) = a
  BY <1>1, NamedClean, Zenon DEF NamedAs
<1>3. /\ Holds(val, "_")
      /\ \A c : Holds(val, c) => c = "_" \/ a.func = <<c>> \/ Holds(a.column, c) \/ c \in DOMAIN Number
      /\ \A c : a.func = <<c>> => Holds(val, c)
  BY <1>1, NamedTokens, Zenon
<1>4. PICK g \in Funcs : a.func = <<g>> /\ a.column \in Columns
  BY <1>2, ObjectFacts, Zenon
<1>5. \A c : a.func = <<c>> => c \in Funcs
  <2>1. \A c : <<c>> = <<g>> => c = g
    OBVIOUS
  <2> QED
    BY <2>1, <1>4, Zenon
<1>6. \A c \in Punctuation : ~Holds(a.column, c)
  <2>1. a.column \in Seq(Token) /\ \A j \in 1 .. Len(a.column) : a.column[j] \notin Punctuation
    BY <1>4, ColumnFacts, Zenon
  <2>2. DOMAIN a.column = 1 .. Len(a.column)
    BY <2>1
  <2> QED
    BY <2>1, <2>2, Zenon DEF Holds
<1>7. /\ "'" \in Punctuation /\ "\"" \in Punctuation /\ "'" # "_" /\ "\"" # "_" /\ "avg" # "_"
      /\ "avg" \in Funcs
  BY DEF Punctuation, Funcs
<1>8. Funcs \cap Punctuation = {}
  BY Characters, Zenon
<1>9. \A d \in DOMAIN Number : d \notin Punctuation /\ d \notin Funcs
  BY Numbers, Zenon
<1>10. \A c \in Punctuation : c # "_" => ~Holds(val, c)
  BY <1>3, <1>5, <1>6, <1>8, <1>9, Zenon
<1>11. ~Holds(val, "'") /\ ~Holds(val, "\"")
  BY <1>7, <1>10, Zenon
<1>12. Holds(val, "avg") <=> a.func = <<"avg">>
  BY <1>1, <1>3, <1>7, <1>9, Zenon
<1> DEFINE c == toCpp(x)
<1>13. /\ x.value = val /\ Stripped(c.value) = val /\ c.kind = Kind(val) /\ c.test = "operator"
       /\ Stripped(c.column) = col /\ col \in Columns /\ c.exp # <<"!">> /\ ~c.column_call
       /\ c.value = val /\ c.call = Holds(val, "avg")
  BY <1>11, Bare, Zenon
<1>14. Kind(val) = "aggregate"
  BY <1>3, KindIs, Zenon DEF isAggregate, isColumn
<1>15. "aggregate" \notin {"column", "expr"}
  OBVIOUS
<1>16. (a.func \in {<<"avg">>, <<"AVG">>}) = (a.func = <<"avg">>)
  BY <1>2, AverageFunc, Zenon
<1> HIDE DEF c
<1>17. c.call = (a.func \in {<<"avg">>, <<"AVG">>})
  <2>1. Holds(val, "avg") \in BOOLEAN
    BY DEF Holds
  <2> QED
    BY <2>1, <1>12, <1>13, <1>16, Zenon
<1>18. ASSUME AllRead PROVE ConditionCompiles(c)
  <2>1. a \in Range(all_aggregates)
    BY <1>1, <1>2, <1>18, Zenon DEF AllRead
  <2>2. FieldCompiles(Field(a), c.call)
    BY <2>1, <1>17, Zenon DEF FieldCompiles
  <2>3. FieldCompiles(Field(Aggregate(c.value)), c.call)
    BY <2>2, <1>2, <1>13, Zenon
  <2> QED
    BY <2>3, <1>13, <1>14, <1>15, CompilesAs, Zenon
<1> QED
  BY <1>2, <1>13, <1>18, Zenon DEF GoodCpp, ToCppThrows, c

\* What follows the column of an expression.
LEMMA ExprTokens ==
  ASSUME NEW v \in Seq(Token), NEW x, IsExpr(v, x)
  PROVE  /\ x \in Nat /\ 1 <= x /\ x < Len(v) /\ Len(v) \in Nat
         /\ v[x + 1] \in Punctuation
         /\ \A j \in 1 .. Len(v) : v[j] # "'" /\ v[j] # "\""
         /\ \E c \in Columns : Len(c) = x /\ \A j \in 1 .. x : v[j] = c[j]
<1> DEFINE L == Len(v)
           c == SubSeq(v, 1, x)
           u == x + 1
           t == SubSeq(v, u, L)
<1>0. L \in Nat /\ DOMAIN v = 1 .. L
  OBVIOUS
<1>1. x \in 1 .. L - 1 /\ c \in Columns /\ Arithmetic(t) /\ Range(v) \cap OperatorChars = {}
  BY Zenon DEF IsExpr
<1>2. x \in Nat /\ 1 <= x /\ x < L /\ x <= L /\ u \in Nat \ {0} /\ 1 \in Nat \ {0} /\ L <= Len(v)
      /\ u \in 1 .. L /\ u = x + 1
  BY ONLY <1>0, <1>1
<1> HIDE DEF u
<1>3. /\ Len(c) = IF 1 <= x THEN x - 1 + 1 ELSE 0
      /\ \A j \in 1 .. x - 1 + 1 : c[j] = v[1 + j - 1]
  BY <1>2, Piece, Zenon
<1>4. /\ t \in Seq(Token) /\ Len(t) = IF u <= L THEN L - u + 1 ELSE 0
      /\ \A j \in 1 .. L - u + 1 : t[j] = v[u + j - 1]
  BY <1>0, <1>2, Piece
<1> HIDE DEF c, t
<1>5. Len(c) = x /\ \A j \in 1 .. x : c[j] = v[j]
  <2>1. Len(c) = x
    BY <1>2, <1>3
  <2>2. ASSUME NEW j \in 1 .. x PROVE c[j] = v[j]
    <3>1. j \in 1 .. x - 1 + 1 /\ 1 + j - 1 = j
      BY <1>2
    <3> QED
      BY <3>1, <1>3, Zenon
  <2> QED
    BY <2>1, <2>2
<1>6. Len(t) \in Nat /\ Len(t) = L - x /\ 1 <= Len(t) /\ DOMAIN t = 1 .. Len(t)
  <2>1. DOMAIN t = 1 .. Len(t)
    BY <1>4
  <2>2. Len(t) = L - x
    BY <1>0, <1>2, <1>4
  <2> QED
    BY <2>1, <2>2, <1>0, <1>2
<1>7. ASSUME NEW j \in 1 .. Len(t) PROVE t[j] = v[x + j] /\ x + j \in 1 .. L
  <2>1. j \in 1 .. L - u + 1 /\ u + j - 1 = x + j /\ x + j \in 1 .. L
    BY ONLY <1>2, <1>6, <1>0
  <2> QED
    BY <2>1, <1>4, Zenon
<1>8. NoOps(t)
  BY <1>0, <1>1, <1>7, Zenon DEF NoOps, Range
<1>9. Plain(t)
  BY <1>1, <1>4, <1>8, ArithmeticPlain, Zenon
<1>10. \A y : Sign(y) => y # "'" /\ y # "\"" /\ y \in Punctuation
  BY DEF Sign, Punctuation
<1>11. \A d \in DOMAIN Number : d # "'" /\ d # "\""
  BY Numbers, Zenon
<1>12. 1 \in 1 .. Len(t) /\ 1 % 2 # 0
  BY ONLY <1>6
<1>13. v[u] \in Punctuation
  <2>1. t[1] \in {"+", "-", "*", "/", "."} \cup OperatorChars
    BY <1>1, <1>6, <1>12, Zenon DEF Arithmetic
  <2>2. {"+", "-", "*", "/", "."} \cup OperatorChars \subseteq Punctuation
    BY DEF Punctuation
  <2>3. t[1] = v[u]
    BY <1>2, <1>7, <1>12
  <2> QED
    BY <2>1, <2>2, <2>3
<1>14. "'" \in Punctuation /\ "\"" \in Punctuation
  BY DEF Punctuation
<1>15. \A j \in 1 .. Len(c) : c[j] \notin Punctuation
  BY <1>1, ColumnFacts, Zenon
<1>16. ASSUME NEW j \in 1 .. L PROVE v[j] # "'" /\ v[j] # "\""
  <2>1. CASE j <= x
    <3>1. j \in 1 .. x /\ j \in 1 .. Len(c)
      BY <2>1, <1>2, <1>5
    <3> QED
      BY <3>1, <1>5, <1>14, <1>15, Zenon
  <2>2. CASE ~(j <= x)
    <3> DEFINE y == j - x
    <3>1. y \in 1 .. Len(t) /\ x + y = j
      BY <2>2, <1>2, <1>6, <1>0
    <3>2. t[y] = v[j]
      BY <3>1, <1>7
    <3> HIDE DEF y
    <3> QED
      BY <3>1, <3>2, <1>9, <1>10, <1>11, Zenon DEF Plain
  <2> QED
    BY <2>1, <2>2
<1> QED
  BY <1>0, <1>1, <1>2, <1>5, <1>13, <1>16, Zenon

\* A condition on an expression.
LEMMA ExprCpp ==
  ASSUME NEW x, NEW col, NEW e, NEW val, HoldsParts(x, col, e, val), NEW p, IsExpr(val, p), input.emf,
         col \notin TextColumns, ~isAggregate(val)
  PROVE  GoodCpp(x)
<1>0. val \in Seq(Token)
  BY Zenon DEF HoldsParts
<1>00. DOMAIN val = 1 .. Len(val)
  BY ONLY <1>0
<1>1. /\ p \in Nat /\ 1 <= p /\ p < Len(val) /\ Len(val) \in Nat /\ val[p + 1] \in Punctuation
      /\ \A j \in 1 .. Len(val) : val[j] # "'" /\ val[j] # "\""
      /\ \E c \in Columns : Len(c) = p /\ \A j \in 1 .. p : val[j] = c[j]
  BY <1>0, ExprTokens, Zenon
<1>11. p \in Nat /\ 1 <= p /\ p < Len(val) /\ Len(val) \in Nat
  BY <1>1
<1>2. p \in 1 .. Len(val) /\ p + 1 \in 1 .. Len(val) /\ 0 + p <= Len(val) /\ 0 \in Nat
      /\ \A j \in 1 .. p : 0 + j = j
  BY ONLY <1>11
<1>3. ~Holds(val, "'") /\ ~Holds(val, "\"")
  BY <1>00, <1>1, Zenon DEF Holds
<1>4. ~isColumn(val)
  <2>1. val \in Columns => \A j \in 1 .. Len(val) : val[j] \notin Punctuation
    BY ColumnFacts, Zenon
  <2> QED
    BY <2>1, <1>1, <1>2, Zenon DEF isColumn
<1>5. hasColumn(val)
  <2>1. PICK c \in Columns : Len(c) = p /\ \A j \in 1 .. p : val[j] = c[j]
    BY <1>1
  <2>2. 0 + Len(c) <= Len(val) /\ \A j \in 1 .. Len(c) : val[0 + j] = c[j]
    BY <2>1, <1>2, Zenon
  <2> QED
    BY <2>2, <1>0, <1>2, ColumnThere, Zenon
<1> DEFINE c == toCpp(x)
<1>6. /\ x.value = val /\ Stripped(c.value) = val /\ c.kind = Kind(val) /\ c.test = "operator"
      /\ Stripped(c.column) = col /\ col \in Columns /\ c.exp # <<"!">> /\ ~c.column_call
  BY <1>3, Bare, Zenon
<1>7. Kind(val) = "expr"
  BY <1>4, <1>5, KindIs, Zenon
<1>8. "expr" # "aggregate"
  OBVIOUS
<1> HIDE DEF c
<1>9. \E q \in 1 .. Len(val) : /\ SubSeq(val, 1, q) \in Columns
                               /\ (SubSeq(val, 1, q) \in TextColumns) = (col \in TextColumns)
                               /\ Len(val) > q => col \notin TextColumns /\ val[q + 1] # "."
                               /\ (Len(val) - q) % 2 = 0
                               /\ Arithmetic(SubSeq(val, q + 1, Len(val)))
  <2>1. /\ SubSeq(val, 1, p) \in Columns \ TextColumns
        /\ val[p + 1] # "." /\ (Len(val) - p) % 2 = 0
        /\ Arithmetic(SubSeq(val, p + 1, Len(val)))
    BY Zenon DEF IsExpr
  <2> DEFINE s == SubSeq(val, 1, p)
  <2> HIDE DEF s
  <2>2. s \in Columns /\ (s \in TextColumns) = (col \in TextColumns)
    BY <2>1 DEF s
  <2> QED
    BY <2>1, <2>2, <1>2, Zenon DEF s
<1>10. ConditionCompiles(c)
  BY <1>6, <1>7, <1>9, CompilesAs, Zenon
<1> QED
  BY <1>6, <1>7, <1>8, <1>10, Zenon DEF GoodCpp, ToCppThrows, c

\* The value of a word without blanks has none.
LEMMA ValueClean ==
  ASSUME NEW w, NEW pre, NEW col, NEW e, NEW val, Laid(w, pre, col, e, val),
         \A j \in 1 .. Len(w) : w[j] \notin BlankChars
  PROVE  \A j \in 1 .. Len(val) : val[j] \notin BlankChars
<1>1. /\ w \in Seq(Token) /\ pre \in Seq(Token) /\ col \in Seq(Token) /\ e \in Seq(Token)
      /\ val \in Seq(Token)
      /\ Len(w) = Len(pre) + Len(col) + Len(e) + Len(val)
      /\ \A j \in 1 .. Len(val) : w[Len(pre) + Len(col) + Len(e) + j] = val[j]
  BY Zenon DEF Laid
<1>2. Len(pre) \in Nat /\ Len(col) \in Nat /\ Len(e) \in Nat /\ Len(val) \in Nat
  BY ONLY <1>1
<1>3. Len(w) = Len(pre) + Len(col) + Len(e) + Len(val)
  BY <1>1
<1>4. \A j \in 1 .. Len(val) : Len(pre) + Len(col) + Len(e) + j \in 1 .. Len(w)
  BY ONLY <1>2, <1>3
<1> QED
  BY <1>1, <1>4, Zenon

\* A sane condition is read, and compiles once the names of F are known.
LEMMA SaneWord ==
  ASSUME NEW w \in Seq(Token), \A j \in 1 .. Len(w) : w[j] \notin BlankChars, NEW i, SaneCondition(w, i)
  PROVE  ~ConditionThrows(w) /\ GoodCpp(Condition(w))
<1> DEFINE Sane(r) ==
      CASE r.kind = "column"    -> (r.value \in TextColumns) = (r.column \in TextColumns)
        [] r.kind = "aggregate" -> /\ InF(r.value) /\ r.column \notin TextColumns
                                   /\ r.value \notin Columns
                                   /\ \A a \in Named(r.value) : ~Holds(a.column, "avg")
        [] r.kind = "text"      -> /\ r.column \in TextColumns
                                   /\ ~hasColumn(r.value) /\ ~isAggregate(r.value)
                                   /\ ~Holds(r.value, ".") /\ ~Holds(r.value, "\"")
        [] r.kind = "number"    -> r.column \notin TextColumns
        [] r.kind = "expr"      -> r.column \notin TextColumns /\ ~isAggregate(r.value)
<1>1. PICK r \in Readings(w) : /\ ~Holds(r.column, "avg")
                               /\ r.prefix = <<>> => ~Holds(w, ".")
                               /\ r.kind \in {"column", "expr"} => input.emf
                               /\ Sane(r)
  BY Zenon DEF SaneCondition
<1> DEFINE col == r.column
           e == r.exp
           val == r.value
           x == Condition(w)
<1>2. /\ r.prefix \in Openings /\ col \in Columns /\ e \in Exps /\ r.kind \in Kinds
      /\ val \in Seq(Token) /\ WrittenAs(r.kind, val) /\ Made(w, r.prefix, col, e, val)
  BY ReadingFound, Zenon
<1>3. Laid(w, r.prefix, col, e, val)
  BY <1>2, LaidOut, Zenon
<1>4. val # <<>> /\ val[1] \notin OperatorChars
  BY <1>2, ValueStart, Zenon
<1>5. ReadInto(w, col, e, val)
  BY <1>1, <1>2, <1>3, <1>4, ReadCondition, Zenon
<1>6. \A j \in 1 .. Len(val) : val[j] \notin BlankChars
  BY <1>3, ValueClean, Zenon
<1>7. ~ConditionThrows(w) /\ HoldsParts(x, col, e, val)
  BY <1>1, <1>2, <1>4, <1>5, <1>6, Zenon DEF ReadInto, HoldsParts
<1>8. \/ r.kind = "column" /\ val \in Columns
      \/ r.kind = "aggregate" /\ Named(val) # {}
      \/ r.kind = "expr" /\ \E y : IsExpr(val, y)
      \/ r.kind = "number" /\ NumberCompiles(val) /\ Range(val) \cap OperatorChars = {}
      \/ r.kind = "text" /\ IsText(val)
  BY <1>2, WrittenIs, Zenon
<1> HIDE DEF x
<1>9. CASE r.kind = "column" /\ val \in Columns
  <2>1. input.emf /\ (val \in TextColumns) = (col \in TextColumns)
    BY <1>1, <1>9
  <2> QED
    BY <2>1, <1>7, <1>9, ColumnCpp, Zenon DEF x
<1>10. CASE r.kind = "aggregate" /\ Named(val) # {}
  <2>1. /\ InF(val) /\ col \notin TextColumns /\ val \notin Columns
        /\ \A a \in Named(val) : ~Holds(a.column, "avg")
    BY <1>1, <1>10
  <2> QED
    BY <2>1, <1>7, AggregateCpp, Zenon DEF x
<1>11. CASE r.kind = "expr" /\ \E y : IsExpr(val, y)
  <2>1. input.emf /\ col \notin TextColumns /\ ~isAggregate(val)
    BY <1>1, <1>11
  <2> QED
    BY <2>1, <1>7, <1>11, ExprCpp, Zenon DEF x
<1>12. CASE r.kind = "number" /\ NumberCompiles(val) /\ Range(val) \cap OperatorChars = {}
  <2>1. col \notin TextColumns
    BY <1>1, <1>12
  <2> QED
    BY <2>1, <1>7, <1>12, NumberCpp, Zenon DEF x
<1>13. CASE r.kind = "text" /\ IsText(val)
  <2>1. col \in TextColumns /\ ~hasColumn(val) /\ ~isAggregate(val) /\ ~Holds(val, "\"")
    BY <1>1, <1>13
  <2> QED
    BY <2>1, <1>7, <1>13, TextCpp, Zenon DEF x
<1> QED
  BY <1>8, <1>9, <1>10, <1>11, <1>12, <1>13, Zenon

\* A text without blanks at its ends is without blanks.
LEMMA PaddedClean ==
  ASSUME NEW t, Padded(t, 1, Len(t))
  PROVE  t \in Seq(Token) /\ Stripped(t) = t /\ \A p \in 1 .. Len(t) : t[p] \notin BlankChars
<1>1. /\ t \in Seq(Token) /\ Len(t) \in Nat
      /\ \A p \in 1 .. Len(t) : t[p] \in BlankChars <=> ~(1 <= p /\ p <= Len(t))
  BY Zenon DEF Padded
<1>2. \A p \in 1 .. Len(t) : 1 <= p /\ p <= Len(t)
  BY <1>1
<1>3. \A p \in 1 .. Len(t) : t[p] \notin BlankChars
  BY <1>1, <1>2, Zenon
<1> QED
  BY <1>1, <1>3, StrippedClean, Zenon

\* The parts of a sane line, in turn a condition that is read and a connective.
InTurn(P) ==
  /\ P \in Seq(Seq(Token)) /\ Len(P) \in Nat /\ Len(P) % 2 = 1
  /\ \A j \in 1 .. Len(P) : /\ Stripped(P[j]) = P[j]
                            /\ j % 2 = 1 => ~ConditionThrows(P[j]) /\ GoodCpp(Condition(P[j]))
                            /\ j % 2 # 1 => P[j] \in Connectives

\* The parts of a sane line take turns.
LEMMA PartsInTurn ==
  ASSUME NEW s \in Seq(Token), NEW i, SaneLine(s, i)
  PROVE  InTurn(LineParts(s))
<1> DEFINE P == LineParts(s)
           w == Words(s)
<1>1. /\ Tidy(s) /\ Len(w) % 2 = 1
      /\ \A j \in DOMAIN w : IF j % 2 = 1 THEN SaneCondition(w[j], i) ELSE w[j] \in Connectives
  BY Zenon DEF SaneLine
<1>2. PartsAreWords(s, P) /\ s[Len(s)] \notin BlankChars
  BY <1>1, TidyLine, Zenon
<1>3. /\ P \in Seq(Seq(Token)) /\ Len(w) = Len(P) /\ DOMAIN w = 1 .. Len(P)
      /\ \A j \in 1 .. Len(P) : w[j] = Stripped(P[j]) /\ Padded(P[j], 1, Len(P[j]))
  BY <1>2, Zenon DEF PartsAreWords
<1> HIDE DEF P, w
<1>4. ASSUME NEW j \in 1 .. Len(P)
      PROVE  /\ Stripped(P[j]) = P[j] /\ (j % 2 = 1 => ~ConditionThrows(P[j]) /\ GoodCpp(Condition(P[j])))
             /\ j % 2 # 1 => P[j] \in Connectives
  <2> DEFINE p == P[j]
  <2>1. p \in Seq(Token) /\ Stripped(p) = p /\ \A h \in 1 .. Len(p) : p[h] \notin BlankChars
    BY <1>3, PaddedClean, Zenon
  <2>2. w[j] = p
    BY <2>1, <1>3, Zenon
  <2>3. IF j % 2 = 1 THEN SaneCondition(p, i) ELSE p \in Connectives
    BY <2>2, <1>1, <1>3, Zenon
  <2> HIDE DEF p
  <2>4. j % 2 = 1 => ~ConditionThrows(p) /\ GoodCpp(Condition(p))
    BY <2>1, <2>3, SaneWord, Zenon
  <2>5. j % 2 # 1 => p \in Connectives
    BY <2>3, Zenon
  <2> QED
    BY <2>1, <2>4, <2>5, Zenon DEF p
<1>5. Len(P) \in Nat
  BY <1>3
<1> QED
  BY <1>1, <1>3, <1>4, <1>5, Zenon DEF InTurn, P

\* Such a line is read, and its clause compiles.
GoodLine(s) ==
  /\ ~ConditionsThrow(s) /\ Conditions(s).conditions # <<>>
  /\ \A c \in Range(Conditions(s).conditions) : ~ToCppThrows(c)
  /\ AllRead => ClauseCompiles(ClauseToCpp(Conditions(s)))

\* A sane line is read, and its clause compiles.
LEMMA SaneLineRead ==
  ASSUME NEW s \in Seq(Token), NEW i, SaneLine(s, i)
  PROVE  GoodLine(s)
<1> DEFINE P == LineParts(s)
           L == Len(P)
           m == (L + 1) \div 2
           h == L \div 2
           cs == Conditions(s)
           cl == ClauseToCpp(cs)
           ct == ConditionTexts(s)
<1>1. InTurn(P)
  BY PartsInTurn, Zenon
<1>2. /\ L \in Nat /\ L % 2 = 1
      /\ \A j \in 1 .. L : /\ Stripped(P[j]) = P[j]
                           /\ j % 2 = 1 => ~ConditionThrows(P[j]) /\ GoodCpp(Condition(P[j]))
                           /\ j % 2 # 1 => P[j] \in Connectives
  BY <1>1, Zenon DEF InTurn
<1>3. /\ m \in Nat /\ 1 <= m /\ h = m - 1
      /\ \A j \in 1 .. m : 2 * j - 1 \in 1 .. L /\ (2 * j - 1) % 2 = 1
      /\ \A j \in 1 .. m - 1 : 2 * j \in 1 .. L /\ (2 * j) % 2 # 1 /\ j \in 1 .. h
  BY <1>2, Halves, Zenon
<1>4. ct = [j \in 1 .. m |-> P[2 * j - 1]]
  BY Zenon DEF ConditionTexts
<1> HIDE DEF m, h, P, L, ct
<1>5. ASSUME NEW j \in 1 .. m PROVE ~ConditionThrows(P[2 * j - 1]) /\ GoodCpp(Condition(P[2 * j - 1]))
  BY <1>2, <1>3, Zenon
<1>6. ~ConditionsThrow(s)
  <2>1. \A c \in Range(ct) : ~ConditionThrows(c)
    BY <1>4, <1>5, Zenon DEF Range
  <2> QED
    BY <2>1, Zenon DEF ConditionsThrow, ct
<1>7. Split(cs, P)
  BY <1>6, ConditionsSplit, Zenon DEF P
<1> HIDE DEF cs
<1>8. /\ cs.conditions \in Seq(ConditionObjects) /\ Len(cs.conditions) = m
      /\ \A j \in 1 .. m : cs.conditions[j] = Condition(P[2 * j - 1])
      /\ \A j \in 1 .. h : cs.ops[j] = P[2 * j]
  BY <1>7, Zenon DEF Split, m, h, L
<1> DEFINE q == cs.conditions
<1>9. q # <<>> /\ DOMAIN q = 1 .. m
  <2>1. q \in Seq(ConditionObjects) /\ Len(q) = m
    BY <1>8
  <2> HIDE DEF q
  <2> QED
    BY <2>1, <1>3
<1>10. \A c \in Range(q) : GoodCpp(c)
  <2>1. \A j \in 1 .. m : GoodCpp(q[j])
    BY <1>5, <1>8, Zenon
  <2> QED
    BY <2>1, <1>9, Zenon DEF Range
<1>11. \A c \in Range(q) : ~ToCppThrows(c)
  BY <1>10, Zenon DEF GoodCpp
<1>12. Joined(cl, cs)
  BY <1>7, <1>9, ClauseJoined, Zenon
<1> HIDE DEF cl
<1>13. /\ DOMAIN cl.conditions = 1 .. m /\ \A j \in 1 .. m : cl.conditions[j] = toCpp(cs.conditions[j])
       /\ cl.ops \in Seq(Texts) /\ Len(cl.ops) = m - 1 /\ \A j \in 1 .. m - 1 : cl.ops[j] = cs.ops[j]
  BY <1>8, <1>12, Zenon DEF Joined
<1>14. ASSUME AllRead PROVE ClauseCompiles(cl)
  <2>1. ASSUME NEW c \in Range(cl.conditions) PROVE ConditionCompiles(c)
    <3>1. PICK j \in 1 .. m : c = cl.conditions[j]
      BY <1>13, Zenon DEF Range
    <3>2. c = toCpp(Condition(P[2 * j - 1]))
      BY <3>1, <1>8, <1>13, Zenon
    <3> QED
      BY <3>2, <1>5, <1>14, Zenon DEF GoodCpp
  <2>2. ASSUME NEW op \in Range(cl.ops) PROVE Stripped(op) \in Connectives
    <3> DEFINE o == cl.ops
    <3>1. DOMAIN o = 1 .. m - 1
      <4>1. o \in Seq(Texts) /\ Len(o) = m - 1
        BY <1>13, Zenon
      <4> HIDE DEF o
      <4> QED
        BY <4>1
    <3>2. PICK j \in 1 .. m - 1 : op = cl.ops[j]
      BY <3>1, Zenon DEF Range
    <3>3. 2 * j \in 1 .. L /\ (2 * j) % 2 # 1 /\ j \in 1 .. h
      BY <1>3, Zenon
    <3>4. op = P[2 * j]
      BY <3>2, <3>3, <1>8, <1>13, Zenon
    <3> QED
      BY <3>3, <3>4, <1>2, Zenon
  <2> QED
    BY <2>1, <2>2, Zenon DEF ClauseCompiles
<1> QED
  BY <1>6, <1>9, <1>11, <1>14, Zenon DEF GoodLine, cl, cs

-----------------------------------------------------------------------------
(***************************************************************************)
(* HAVING.                                                                 *)
(***************************************************************************)
\* What is written of operators and numbers is copied.
LEMMA OneNumber ==
  ASSUME NEW d \in DOMAIN Number
  PROVE  NumberCompiles(<<d>>) /\ ~isAggregate(<<d>>) /\ ~isColumn(<<d>>)
<1> DEFINE v == <<d>>
<1>1. v # <<>> /\ Len(v) = 1 /\ v[1] = d /\ Tail(v) = <<>> /\ DOMAIN v = {1}
  OBVIOUS
<1>2. d \notin Punctuation /\ d # "_"
  BY Numbers, Zenon
<1>3. "+" \in Punctuation /\ "-" \in Punctuation
  BY DEF Punctuation
<1>4. d \notin {"+", "-"}
  BY <1>2, <1>3, Zenon
<1>5. Arithmetic(<<>>)
  BY DEF Arithmetic
<1> HIDE DEF v
<1>6. (IF v # <<>> /\ v[1] \in {"+", "-"} THEN Tail(v) ELSE v) = v
  BY <1>1, <1>4, Zenon
<1>7. Len(v) % 2 = 1
  BY <1>1
<1>8. NumberCompiles(v)
  BY <1>1, <1>5, <1>6, <1>7, Zenon DEF NumberCompiles
<1>9. ~isAggregate(v)
  BY <1>1, <1>2, Zenon DEF isAggregate, Holds
<1>10. ~isColumn(v)
  <2>1. v \in Columns => v[1] \notin DOMAIN Number
    BY ColumnFacts, Zenon
  <2> QED
    BY <2>1, <1>1, Zenon DEF isColumn
<1> QED
  BY <1>8, <1>9, <1>10 DEF v

\* An operator is neither a column nor a name.
LEMMA OneOperator ==
  ASSUME NEW v \in HavingOperators
  PROVE  ~isAggregate(v) /\ ~isColumn(v)
<1>1. ASSUME NEW x, v = <<x>>, x # "_", v \in Connectives \/ x \in Punctuation
      PROVE  ~isAggregate(v) /\ ~isColumn(v)
  <2>0. v = <<x>>
    BY <1>1
  <2>1. DOMAIN v = {1} /\ v[1] = x /\ Len(v) = 1 /\ 1 \in 1 .. Len(v)
    BY ONLY <2>0
  <2>2. ~isAggregate(v)
    BY <2>1, <1>1, Zenon DEF isAggregate, Holds
  <2>3. v \in Columns => v \notin Connectives /\ \A j \in 1 .. Len(v) : v[j] \notin Punctuation
    BY ColumnFacts, ColumnAssumption, Zenon DEF ColumnAssumption
  <2> QED
    BY <2>1, <2>2, <2>3, <1>1, Zenon DEF isColumn
<1>2. ASSUME NEW x, NEW y, v = <<x, y>>, x # "_", y # "_", x \in Punctuation
      PROVE  ~isAggregate(v) /\ ~isColumn(v)
  <2>0. v = <<x, y>>
    BY <1>2
  <2>1. DOMAIN v = {1, 2} /\ v[1] = x /\ v[2] = y /\ Len(v) = 2 /\ 1 \in 1 .. Len(v)
    BY ONLY <2>0
  <2>2. ~isAggregate(v)
    BY <2>1, <1>2, Zenon DEF isAggregate, Holds
  <2>3. v \in Columns => \A j \in 1 .. Len(v) : v[j] \notin Punctuation
    BY ColumnFacts, Zenon
  <2> QED
    BY <2>1, <2>2, <2>3, <1>2, Zenon DEF isColumn
<1>3. \/ v \in Connectives
      \/ v \in {<<"=">>, <<"<">>, <<">">>, <<"+">>, <<"-">>, <<"*">>, <<"/">>}
      \/ v \in {<<"=", "=">>, <<"<", "=">>, <<">", "=">>, <<"!", "=">>}
  BY DEF HavingOperators
<1>4. CASE v \in Connectives
  <2>1. \E x \in {"and", "or", "xor"} : v = <<x>>
    BY <1>4 DEF Connectives
  <2>2. \A x \in {"and", "or", "xor"} : x # "_"
    OBVIOUS
  <2> QED
    BY <2>1, <2>2, <1>1, <1>4, Zenon
<1>5. CASE v \in {<<"=">>, <<"<">>, <<">">>, <<"+">>, <<"-">>, <<"*">>, <<"/">>}
  <2>1. \E x \in {"=", "<", ">", "+", "-", "*", "/"} : v = <<x>>
    BY <1>5
  <2>2. \A x \in {"=", "<", ">", "+", "-", "*", "/"} : x # "_" /\ x \in Punctuation
    BY DEF Punctuation, OperatorChars
  <2> QED
    BY <2>1, <2>2, <1>1, Zenon
<1>6. CASE v \in {<<"=", "=">>, <<"<", "=">>, <<">", "=">>, <<"!", "=">>}
  <2>1. \E x \in {"=", "<", ">", "!"} : v = <<x, "=">>
    BY <1>6
  <2>2. \A x \in {"=", "<", ">", "!"} : x # "_" /\ x \in Punctuation /\ "=" # "_"
    BY DEF Punctuation, OperatorChars
  <2> QED
    BY <2>1, <2>2, <1>2, Zenon
<1> QED
  BY <1>3, <1>4, <1>5, <1>6

\* An item of HAVING, for an operator, for a number, and for an aggregate of F.
ItemIs(item, kind, text) == item.kind = kind /\ item.text = text

\* What parse_having makes of a part.
LEMMA ItemFields ==
  ASSUME NEW t
  PROVE  /\ ~isAggregate(t) /\ ~isColumn(t) => ItemIs(HavingItem(t), "copied", t)
         /\ isAggregate(t) =>
              /\ ItemIs(HavingItem(t), "aggregate", toVar(Aggregate(t)))
              /\ HavingItem(t).group = Aggregate(t).group
              /\ HavingItem(t).call = (Aggregate(t).func \in {<<"avg">>, <<"AVG">>})
<1>1. ASSUME ~isAggregate(t), ~isColumn(t) PROVE ItemIs(HavingItem(t), "copied", t)
  BY <1>1 DEF HavingItem, ItemIs
<1>2. ASSUME isAggregate(t)
      PROVE  /\ ItemIs(HavingItem(t), "aggregate", toVar(Aggregate(t)))
             /\ HavingItem(t).group = Aggregate(t).group
             /\ HavingItem(t).call = (Aggregate(t).func \in {<<"avg">>, <<"AVG">>})
  <2> DEFINE g == Aggregate(t).group
             x == toVar(Aggregate(t))
             l == Aggregate(t).func \in {<<"avg">>, <<"AVG">>}
  <2>1. HavingItem(t) = [kind |-> "aggregate", group |-> g, text |-> x, call |-> l]
    BY <1>2, Zenon DEF HavingItem
  <2> HIDE DEF g, x, l
  <2>2. HavingItem(t).kind = "aggregate" /\ HavingItem(t).group = g /\ HavingItem(t).text = x
        /\ HavingItem(t).call = l
    BY <2>1
  <2> QED
    BY <2>2, Zenon DEF ItemIs, g, x, l
<1> QED
  BY <1>1, <1>2

\* A column with blanks around it is no column; a name keeps its underscores.
LEMMA CopiedItem ==
  ASSUME NEW t, NEW b, Padded(t, 1, b), ~isAggregate(Stripped(t)), ~isColumn(Stripped(t))
  PROVE  ItemIs(HavingItem(t), "copied", t) /\ ~isAggregate(t)
<1>1. ~isAggregate(t)
  BY Underscored, Zenon
<1>2. ~isColumn(t)
  BY ColumnFacts, Zenon DEF isColumn
<1> QED
  BY <1>1, <1>2, ItemFields, Zenon

\* A part that names an aggregate of F is a field.
LEMMA NamedItem ==
  ASSUME NEW t, NEW b, Padded(t, 1, b), InF(Stripped(t))
  PROVE  /\ isAggregate(t) /\ ~AggregateThrows(t) /\ HavingItem(t).kind = "aggregate"
         /\ AllRead => FieldCompiles(HavingField(HavingItem(t)), HavingItem(t).call)
         /\ (\A a \in Named(Stripped(t)) : a.func # <<"avg">>) => ~HavingItem(t).call
<1> DEFINE w == Stripped(t)
           x == HavingItem(t)
<1>0. PICK f \in Range(input.F) : Named(w) \cap Named(f) # {}
  BY Zenon DEF InF
<1>1. PICK a : a \in Named(w) /\ a \in Named(f)
  BY <1>0, Zenon
<1>2. w = SubSeq(t, 1, b)
  BY StrippedPadded, Zenon
<1>3. NamedAs(t, a) /\ a \in Objects
  BY <1>1, <1>2, NamedRead, Zenon
<1>4. Aggregate(f) = a
  BY <1>1, NamedClean, Zenon
<1>5. isAggregate(t)
  <2>1. isAggregate(w)
    BY <1>1, NamedTokens, Zenon DEF isAggregate
  <2> QED
    BY <2>1, Underscored, Zenon
<1>6. /\ ~AggregateThrows(t) /\ Aggregate(t).func = a.func /\ Aggregate(t).group = a.group
      /\ Stripped(toVar(Aggregate(t))) = toVar(a)
  BY <1>3, Zenon DEF NamedAs
<1>7. /\ x.kind = "aggregate" /\ x.text = toVar(Aggregate(t)) /\ x.group = Aggregate(t).group
      /\ x.call = (Aggregate(t).func \in {<<"avg">>, <<"AVG">>})
  BY <1>5, ItemFields, Zenon DEF ItemIs
<1>8. Stripped(toVar(a)) = toVar(a)
  BY <1>3, ObjectFacts, Zenon
<1> HIDE DEF x, w
<1>9. HavingField(x) = Field(a)
  <2>1. x.group = a.group /\ Stripped(x.text) = Stripped(toVar(a))
    BY <1>6, <1>7, <1>8, Zenon
  <2> QED
    BY <2>1, Zenon DEF HavingField, Field
<1>10. x.call = (a.func \in {<<"avg">>, <<"AVG">>})
  BY <1>6, <1>7, Zenon
<1>11. ASSUME AllRead PROVE FieldCompiles(HavingField(x), x.call)
  <2>1. a \in Range(all_aggregates)
    BY <1>4, <1>11, Zenon DEF AllRead
  <2> QED
    BY <2>1, <1>9, <1>10, Zenon DEF FieldCompiles
<1>12. x.call = (a.func = <<"avg">>)
  BY <1>3, <1>10, AverageFunc, Zenon
<1> QED
  BY <1>1, <1>5, <1>6, <1>7, <1>11, <1>12, Zenon DEF x, w

\* What a word of a sane HAVING is.
HavingWord(w, r) ==
  IF r % 2 = 0 THEN w \in HavingOperators ELSE InF(w) \/ w \in {<<d>> : d \in DOMAIN Number}

\* The words of a sane HAVING are its parts.
LEMMA SaneWords ==
  ASSUME input \in Queries, SaneHaving(input.G), input.G # <<>>
  PROVE  /\ Len(Words(input.G)) % 2 = 1 /\ OneLine(input.G)
         /\ PartsAreWords(input.G, HavingParts)
         /\ \A r \in DOMAIN Words(input.G) : HavingWord(Words(input.G)[r], r)
         /\ \A r \in DOMAIN Words(input.G) :
              r % 2 = 0 /\ Words(input.G)[r] = <<"=">> => SaneAssignment(Words(input.G), r)
<1> DEFINE G == input.G
           w == Words(G)
<1>1. G \in Seq(Token)
  BY QueryFields, Zenon DEF Texts
<1>2. /\ Len(w) % 2 = 1
      /\ \A r \in DOMAIN w :
           IF r % 2 = 0
           THEN w[r] \in HavingOperators /\ (w[r] = <<"=">> => SaneAssignment(w, r))
           ELSE InF(w[r]) \/ w[r] \in {<<d>> : d \in DOMAIN Number}
  BY Zenon DEF SaneHaving
<1>3. PartsAreWords(G, Exploded(<<" ">>, G).parts) /\ OneLine(G)
  BY <1>1, <1>2, TidyHaving, Zenon
<1> QED
  BY <1>2, <1>3, Zenon DEF HavingWord, HavingParts

\* A part of a sane HAVING.
PartIs(t, r) ==
  /\ r \in DOMAIN Words(input.G) /\ Words(input.G)[r] = Stripped(t) /\ HavingWord(Stripped(t), r)
  /\ \E b : Padded(t, 1, b)

\* Every part of a sane HAVING is one of its words.
LEMMA PartFound ==
  ASSUME input \in Queries, SaneHaving(input.G), input.G # <<>>, NEW t \in Range(HavingParts)
  PROVE  \E r : PartIs(t, r)
<1> DEFINE P == HavingParts
           w == Words(input.G)
<1>1. /\ PartsAreWords(input.G, P) /\ \A r \in DOMAIN w : HavingWord(w[r], r)
  BY SaneWords, Zenon
<1>2. /\ P \in Seq(Seq(Token)) /\ DOMAIN w = 1 .. Len(P)
      /\ \A j \in 1 .. Len(P) : w[j] = Stripped(P[j]) /\ \E b : Padded(P[j], 1, b)
  BY <1>1, Zenon DEF PartsAreWords
<1>3. DOMAIN P = 1 .. Len(P)
  <2> HIDE DEF P
  <2> QED
    BY <1>2
<1>4. PICK j \in DOMAIN P : t = P[j]
  BY Zenon DEF Range
<1> HIDE DEF P
<1>5. PartIs(t, j)
  BY <1>1, <1>2, <1>3, <1>4, Zenon DEF PartIs
<1> QED
  BY <1>5

\* A sane HAVING is read.
LEMMA SaneHavingRead ==
  ASSUME input \in Queries, SaneHaving(input.G)
  PROVE  ~HavingThrows
<1>1. CASE input.G = <<>>
  <2>1. " " \in Token
    BY Characters, Zenon
  <2>2. HavingParts = <<>>
    BY <2>1, <1>1, EmptyLine, Zenon DEF HavingParts
  <2>3. DOMAIN <<>> = {}
    OBVIOUS
  <2> QED
    BY <2>2, <2>3, Zenon DEF HavingThrows, Range
<1>2. CASE input.G # <<>>
  <2> SUFFICES ASSUME NEW t \in Range(HavingParts), isAggregate(t) PROVE ~AggregateThrows(t)
    BY Zenon DEF HavingThrows
  <2>1. PICK r : PartIs(t, r)
    BY <1>2, PartFound, Zenon
  <2>2. PICK b : Padded(t, 1, b)
    BY <2>1, Zenon DEF PartIs
  <2>3. isAggregate(Stripped(t))
    BY <2>2, Underscored, Zenon
  <2>4. \/ Stripped(t) \in HavingOperators \/ InF(Stripped(t))
        \/ \E d \in DOMAIN Number : Stripped(t) = <<d>>
    BY <2>1, Zenon DEF PartIs, HavingWord
  <2>5. InF(Stripped(t))
    BY <2>3, <2>4, OneNumber, OneOperator, Zenon
  <2> QED
    BY <2>2, <2>5, NamedItem, Zenon
<1> QED
  BY <1>1, <1>2

\* And compiles, once the names of F are known.
LEMMA SaneHavingCompiles ==
  ASSUME input \in Queries, SaneHaving(input.G), AllRead,
         having = IF input.G = <<>> THEN <<>>
                  ELSE [j \in DOMAIN HavingParts |-> HavingItem(HavingParts[j])]
  PROVE  HavingCompiles
<1> DEFINE w == Words(input.G)
           seen == Seen
           L == Len(seen)
<1>1. ~HavingThrows
  BY SaneHavingRead, Zenon
<1>2. OneLine(input.G)
  <2>1. CASE input.G = <<>>
    <3>1. DOMAIN <<>> = {}
      OBVIOUS
    <3> QED
      BY <2>1, <3>1, Zenon DEF OneLine
  <2>2. CASE input.G # <<>>
    BY <2>2, SaneWords, Zenon
  <2> QED
    BY <2>1, <2>2
<1>3. /\ L = Len(w) /\ L \in Nat /\ DOMAIN seen = 1 .. L /\ DOMAIN w = 1 .. L
      /\ \A r \in 1 .. L : \E t : WordOf(t, r)
  BY <1>1, <1>2, SeenRead, Zenon
<1>4. CASE input.G = <<>>
  <2>1. " " \in Token
    BY Characters, Zenon
  <2>2. w = <<>>
    BY <2>1, <1>4, EmptyLine, Zenon
  <2>3. DOMAIN w = {}
    <3>1. DOMAIN <<>> = {}
      OBVIOUS
    <3> HIDE DEF w
    <3> QED
      BY <2>2, <3>1, Zenon
  <2>4. DOMAIN seen = {}
    BY <2>3, <1>3, Zenon
  <2> QED
    BY <2>4, <1>4, Zenon DEF HavingCompiles
<1>5. CASE input.G # <<>>
  <2>1. /\ L % 2 = 1 /\ \A r \in DOMAIN w : HavingWord(w[r], r)
        /\ \A r \in DOMAIN w : r % 2 = 0 /\ w[r] = <<"=">> => SaneAssignment(w, r)
    BY <1>3, <1>5, SaneWords, Zenon
  <2> HIDE DEF w, seen, L
  <2>2. ASSUME NEW j \in 1 .. L
        PROVE  IF j % 2 = 0
               THEN /\ seen[j].kind = "copied" /\ Stripped(seen[j].text) \in HavingOperators
                    /\ Stripped(seen[j].text) = w[j]
               ELSE \/ seen[j].kind = "copied" /\ NumberCompiles(Stripped(seen[j].text))
                    \/ seen[j].kind = "aggregate"
                         /\ FieldCompiles(HavingField(seen[j]), seen[j].call)
    <3>1. PICK t : WordOf(t, j)
      BY <1>3, Zenon
    <3>2. t \in Range(HavingParts) /\ w[j] = Stripped(t) /\ seen[j] = HavingItem(t)
      BY <3>1, Zenon DEF WordOf, w, seen
    <3>3. PICK b : Padded(t, 1, b)
      BY <3>2, <1>5, PartFound, Zenon DEF PartIs
    <3>4. HavingWord(Stripped(t), j)
      BY <3>2, <2>1, <1>3, Zenon
    <3>5. CASE j % 2 = 0
      <4>1. Stripped(t) \in HavingOperators
        BY <3>4, <3>5, Zenon DEF HavingWord
      <4>2. ItemIs(seen[j], "copied", t)
        BY <4>1, <3>2, <3>3, OneOperator, CopiedItem, Zenon
      <4> QED
        BY <4>1, <4>2, <3>2, <3>5, Zenon DEF ItemIs
    <3>6. CASE j % 2 # 0 /\ InF(Stripped(t))
      <4>1. HavingItem(t).kind = "aggregate" /\ FieldCompiles(HavingField(HavingItem(t)), HavingItem(t).call)
        BY <3>3, <3>6, NamedItem, Zenon
      <4> QED
        BY <4>1, <3>2, <3>6, Zenon
    <3>7. CASE j % 2 # 0 /\ ~InF(Stripped(t))
      <4>1. PICK d \in DOMAIN Number : Stripped(t) = <<d>>
        BY <3>4, <3>7, Zenon DEF HavingWord
      <4>2. NumberCompiles(Stripped(t)) /\ ~isAggregate(Stripped(t)) /\ ~isColumn(Stripped(t))
        BY <4>1, OneNumber, Zenon
      <4>3. ItemIs(seen[j], "copied", t)
        BY <4>2, <3>2, <3>3, CopiedItem, Zenon
      <4> QED
        BY <4>2, <4>3, <3>7, Zenon DEF ItemIs
    <3> QED
      BY <3>5, <3>6, <3>7, Zenon
  <2>3. ASSUME NEW j \in 1 .. L, j % 2 = 0, w[j] = <<"=">>
        PROVE  AssignmentCompiles(seen, j)
    <3>1. SaneAssignment(w, j)
      BY <2>1, <2>3, <1>3, Zenon
    <3>2. j \in 1 .. L /\ L \in Nat /\ j % 2 = 0
      BY <2>3, <1>3
    <3>3. j - 1 \in 1 .. L /\ (j > 2 => j - 2 \in 1 .. L /\ (j - 2) % 2 = 0)
      BY ONLY <3>2
    <3>4. PICK t : WordOf(t, j - 1)
      BY <1>3, <3>3, Zenon
    <3>5. t \in Range(HavingParts) /\ w[j - 1] = Stripped(t) /\ seen[j - 1] = HavingItem(t)
      BY <3>4, Zenon DEF WordOf, w, seen
    <3>6. PICK b : Padded(t, 1, b)
      BY <3>5, <1>5, PartFound, Zenon DEF PartIs
    <3>7. InF(Stripped(t)) /\ \A a \in Named(Stripped(t)) : a.func # <<"avg">>
      BY <3>1, <3>5, Zenon DEF SaneAssignment
    <3>8. seen[j - 1].kind = "aggregate" /\ ~seen[j - 1].call
      BY <3>5, <3>6, <3>7, NamedItem, Zenon
    <3>9. ASSUME j > 2 PROVE Stripped(seen[j - 2].text) = <<"=">>
      BY <2>2, <3>1, <3>3, <3>9, Zenon DEF SaneAssignment
    <3> QED
      BY <3>8, <3>9, Zenon DEF AssignmentCompiles
  <2> QED
    BY <2>1, <2>2, <2>3, <1>3, Zenon DEF HavingCompiles, seen, L
<1> QED
  BY <1>4, <1>5

-----------------------------------------------------------------------------
(***************************************************************************)
(* Whole queries.                                                          *)
(***************************************************************************)
\* A name of the grammar is a field of C++.
LEMMA ObjectIdentifier ==
  ASSUME NEW a \in Objects
  PROVE  Identifier(toVar(a)) /\ hasColumn(a.column)
<1> DEFINE t == toVar(a)
           c == a.column
<1>1. PICK f \in Funcs :
        /\ f \notin DOMAIN Number /\ c \in Columns /\ c \in Seq(Token) /\ t \in Seq(Token)
        /\ Len(t) = Len(c) + 2 /\ t[1] = f /\ t[2] = "_" /\ \A j \in 1 .. Len(c) : t[j + 2] = c[j]
        /\ Stripped(t) = t
  BY ObjectFacts, Zenon
<1>2. f \notin Punctuation /\ "_" \notin Punctuation
  BY Characters, Zenon
<1>3. \A j \in 1 .. Len(c) : c[j] \notin Punctuation
  BY <1>1, ColumnFacts, Zenon
<1> HIDE DEF t, c
<1>4. Len(c) \in Nat /\ Len(t) = Len(c) + 2 /\ DOMAIN t = 1 .. Len(t)
  <2>0. c \in Seq(Token) /\ t \in Seq(Token)
    BY <1>1, Zenon
  <2>1. Len(c) \in Nat
    BY ONLY <2>0
  <2>2. DOMAIN t = 1 .. Len(t)
    BY ONLY <2>0
  <2> QED
    BY <2>1, <2>2, <1>1, Zenon
<1>5. ASSUME NEW j \in 1 .. Len(t) PROVE t[j] \notin Punctuation
  <2>1. CASE j = 1
    BY <2>1, <1>1, <1>2, Zenon
  <2>2. CASE j = 2
    BY <2>2, <1>1, <1>2, Zenon
  <2>3. CASE j # 1 /\ j # 2
    <3> DEFINE i == j - 2
    <3>1. i \in 1 .. Len(c) /\ i + 2 = j
      BY ONLY <2>3, <1>4
    <3> HIDE DEF i
    <3>2. t[j] = c[i]
      BY <3>1, <1>1, Zenon
    <3> QED
      BY <3>1, <3>2, <1>3, Zenon
  <2> QED
    BY <2>1, <2>2, <2>3
<1>6. t # <<>>
  <2>1. Len(t) # 0
    BY ONLY <1>4
  <2>2. Len(<<>>) = 0
    OBVIOUS
  <2> QED
    BY <2>1, <2>2, Zenon
<1>7. Range(t) \cap Punctuation = {}
  BY <1>4, <1>5, Zenon DEF Range
<1>8. Identifier(t)
  BY <1>1, <1>6, <1>7, Zenon DEF Identifier
<1>9. hasColumn(c)
  <2>1. 0 \in Nat /\ 0 + Len(c) <= Len(c) /\ \A j \in 1 .. Len(c) : 0 + j = j
    BY ONLY <1>4
  <2>2. \A j \in 1 .. Len(c) : c[0 + j] = c[j]
    BY <2>1, Zenon
  <2> QED
    BY <2>1, <2>2, <1>1, ColumnThere, Zenon
<1> QED
  BY <1>8, <1>9, Zenon DEF t, c

\* A name of F is a name, and was read.
LEMMA NameInF ==
  ASSUME NEW t, InF(t)
  PROVE  ~AggregateThrows(t) /\ \E f \in Range(input.F) : Aggregate(f) = Aggregate(t)
<1>1. PICK f \in Range(input.F) : Named(t) \cap Named(f) # {}
  BY Zenon DEF InF
<1>2. PICK a : a \in Named(t) /\ a \in Named(f)
  BY <1>1, Zenon
<1>3. Aggregate(t) = a /\ NamedAs(t, a) /\ Aggregate(f) = a
  BY <1>2, NamedClean, Zenon
<1> QED
  BY <1>3, Zenon DEF NamedAs

\* A sane query is read to the end,
LEMMA SaneReadable ==
  ASSUME input \in Queries, SaneInput
  PROVE  ~Unreadable
<1>1. /\ input.n \in Nat /\ input.sigma \in Seq(Texts) /\ Len(input.sigma) = input.n
      /\ DOMAIN input.sigma = 1 .. Len(input.sigma)
  BY QueryFields, Zenon DEF SaneInput
<1>2. ASSUME NEW j \in DOMAIN input.F
      PROVE  ~AggregateThrows(input.F[j]) /\ Aggregate(input.F[j]).group <= input.n
  <2>1. PICK a \in Named(input.F[j]) : a.group <= input.n
    BY Zenon DEF SaneInput, Range
  <2>2. Aggregate(input.F[j]) = a /\ NamedAs(input.F[j], a)
    BY NamedClean, Zenon
  <2> QED
    BY <2>1, <2>2, Zenon DEF NamedAs
<1>3. ASSUME NEW j \in DOMAIN input.S, isAggregate(input.S[j]) PROVE ~AggregateThrows(input.S[j])
  <2>1. InF(input.S[j])
    BY <1>3, Zenon DEF SaneInput, Range
  <2> QED
    BY <2>1, NameInF, Zenon
<1>4. ASSUME NEW j \in DOMAIN input.sigma PROVE GoodLine(input.sigma[j])
  <2>1. input.sigma[j] \in Seq(Token)
    BY <1>1 DEF Texts
  <2>2. SaneLine(input.sigma[j], j)
    BY Zenon DEF SaneInput
  <2> QED
    BY <2>1, <2>2, SaneLineRead, Zenon
<1>5. ~HavingThrows
  BY SaneHavingRead, Zenon DEF SaneInput
<1>6. ~(Len(input.sigma) < input.n)
  BY <1>1
<1> QED
  BY <1>2, <1>3, <1>4, <1>5, <1>6, Zenon DEF Unreadable, GoodLine

\* and its names compile,
LEMMA SaneNames ==
  ASSUME Inv, pc \in AttributesDone, pc \in AggregatesDone, SaneInput, AllRead
  PROVE  NamesCompile
<1> DEFINE N == NamesIn(input)
           C == ColumnsIn(input)
           n == Len(input.S)
<1>1. input \in Queries
  BY DEF Inv, InvPhase
<1>2. n \in Nat /\ input.S \in Seq(Texts) /\ DOMAIN input.S = 1 .. n
  BY <1>1, QueryFields
<1>3. /\ select_aggregates \in Seq(AggregateObjects) /\ SelectedNames(input, n, select_aggregates)
      /\ select_columns \in Seq(Texts) /\ SelectedColumns(input, n, select_columns)
  BY Zenon DEF Inv, InvNames, InvColumns
<1>4. /\ N \subseteq Nat /\ IsFiniteSet(N) /\ N \subseteq 1 .. n
      /\ C \subseteq Nat /\ IsFiniteSet(C) /\ C \subseteq 1 .. n
      /\ \A j \in 1 .. n : (j \in N <=> isAggregate(input.S[j])) /\ (j \in C <=> ~isAggregate(input.S[j]))
  BY <1>2, NamesOfS
<1> HIDE DEF N, C, n
<1>5. Up(N, n) = N /\ Up(C, n) = C
  BY <1>2, <1>4, AllUpToLen
<1>6. /\ Len(select_aggregates) = Cardinality(N)
      /\ \A r \in 1 .. Len(select_aggregates) : select_aggregates[r] = Aggregate(input.S[Nth(N, r)])
  BY <1>3, <1>5, Zenon DEF SelectedNames, N
<1>7. /\ Len(select_columns) = Cardinality(C)
      /\ \A r \in 1 .. Len(select_columns) : select_columns[r] = input.S[Nth(C, r)]
  BY <1>3, <1>5, Zenon DEF SelectedColumns, C
<1>8. DOMAIN select_aggregates = 1 .. Len(select_aggregates) /\ DOMAIN select_columns = 1 .. Len(select_columns)
  BY <1>3
<1>9. ASSUME NEW a \in Range(all_aggregates)
      PROVE  Identifier(toVar(a)) /\ (a.func = <<"count">> \/ hasColumn(a.column))
  <2>1. \A f \in Range(input.F) : Named(f) # {}
    BY Zenon DEF SaneInput
  <2>2. a \in Objects
    BY <2>1, Declared, Zenon
  <2> QED
    BY <2>2, ObjectIdentifier, Zenon
<1>10. ASSUME NEW a \in Range(select_aggregates)
       PROVE  \E b \in Range(all_aggregates) : Field(b) = Field(a)
  <2>1. PICK r \in 1 .. Len(select_aggregates) : a = select_aggregates[r]
    BY <1>8, Zenon DEF Range
  <2> DEFINE j == Nth(N, r)
  <2>2. j \in N
    BY <1>4, <1>6, NthFacts, Zenon
  <2> HIDE DEF j
  <2>3. j \in DOMAIN input.S /\ isAggregate(input.S[j])
    BY <2>2, <1>2, <1>4, Zenon
  <2>4. InF(input.S[j])
    BY <2>3, Zenon DEF SaneInput, Range
  <2>5. PICK f \in Range(input.F) : Aggregate(f) = Aggregate(input.S[j])
    BY <2>4, NameInF, Zenon
  <2>6. a = Aggregate(f)
    BY <2>1, <2>5, <1>6, Zenon DEF j
  <2> QED
    BY <2>6, Zenon DEF AllRead
<1>11. ASSUME NEW c \in Range(select_columns) PROVE Stripped(c) \in Columns
  <2>1. PICK r \in 1 .. Len(select_columns) : c = select_columns[r]
    BY <1>8, Zenon DEF Range
  <2> DEFINE j == Nth(C, r)
  <2>2. j \in C
    BY <1>4, <1>7, NthFacts, Zenon
  <2> HIDE DEF j
  <2>3. j \in DOMAIN input.S /\ ~isAggregate(input.S[j])
    BY <2>2, <1>2, <1>4, Zenon
  <2>4. input.S[j] \in Columns
    BY <2>3, Zenon DEF SaneInput, Range
  <2>5. c = input.S[j]
    BY <2>1, <1>7, Zenon DEF j
  <2> QED
    BY <2>4, <2>5, ColumnFacts, Zenon
<1> QED
  BY <1>9, <1>10, <1>11, Zenon DEF NamesCompile

\* and its clauses.
LEMMA SaneCompiles ==
  ASSUME Inv, pc \in HavingDone, SaneInput
  PROVE  Compiles
<1>1. pc \in AggregatesDone /\ pc \in AttributesDone /\ pc \in ConditionsDone /\ pc \in ScansDone
  BY PhaseFacts, Zenon
<1>2. input \in Queries
  BY DEF Inv, InvPhase
<1>3. /\ input.sigma \in Seq(Texts) /\ Len(input.sigma) \in Nat /\ DOMAIN input.sigma = 1 .. Len(input.sigma)
      /\ DOMAIN input.F = 1 .. Len(input.F)
  BY <1>2, QueryFields, Zenon
<1>4. /\ AggregatesRead(input, all_aggregates) /\ Len(all_aggregates) = Len(input.F)
  BY <1>1, Zenon DEF Inv, InvAggregates
<1>5. AllRead
  <2>1. DOMAIN all_aggregates = 1 .. Len(all_aggregates)
    <3>1. all_aggregates \in Seq(AggregateObjects)
      BY <1>4, Zenon DEF AggregatesRead
    <3> QED
      BY <3>1
  <2>2. ASSUME NEW f \in Range(input.F) PROVE Aggregate(f) \in Range(all_aggregates)
    <3>1. PICK j \in DOMAIN input.F : f = input.F[j]
      BY Zenon DEF Range
    <3>2. j \in 1 .. Len(all_aggregates)
      BY <1>3, <1>4, Zenon
    <3>3. all_aggregates[j] = Aggregate(f)
      BY <3>1, <3>2, <1>4, Zenon DEF AggregatesRead
    <3> QED
      BY <2>1, <3>2, <3>3, Zenon DEF Range
  <2> QED
    BY <2>2, Zenon DEF AllRead
<1>6. NamesCompile
  BY <1>1, <1>5, SaneNames, Zenon
<1>7. HavingCompiles
  <2>1. having = IF input.G = <<>> THEN <<>>
                 ELSE [j \in DOMAIN HavingParts |-> HavingItem(HavingParts[j])]
    BY Zenon DEF Inv, InvEnd
  <2>2. SaneHaving(input.G)
    BY Zenon DEF SaneInput
  <2> QED
    BY <2>1, <2>2, <1>2, <1>5, SaneHavingCompiles, Zenon
<1>8. LinesRead(input, select_conditions) /\ ClausesWritten(select_conditions, clauses)
  BY Zenon DEF Inv, InvLines, InvClauses
<1>9. ASSUME NEW i \in DOMAIN clauses PROVE ClauseCompiles(clauses[i])
  <2>1. /\ clauses \in Seq(ClauseObjects) /\ Len(clauses) <= Len(select_conditions)
        /\ select_conditions \in Seq(LineObjects) /\ Len(select_conditions) <= Len(input.sigma)
    BY <1>8, Zenon DEF LinesRead, ClausesWritten
  <2>2. Len(clauses) \in Nat /\ Len(select_conditions) \in Nat /\ i \in 1 .. Len(clauses)
    BY <2>1
  <2>3. i \in 1 .. Len(select_conditions) /\ i \in 1 .. Len(input.sigma)
    BY <2>1, <2>2, <1>3
  <2>4. clauses[i] = ClauseToCpp(Conditions(input.sigma[i]))
    <3>1. clauses[i] = ClauseToCpp(select_conditions[i])
      BY <2>2, <1>8, Zenon DEF ClausesWritten
    <3>2. select_conditions[i] = Conditions(input.sigma[i])
      BY <2>3, <1>8, Zenon DEF LinesRead
    <3> QED
      BY <3>1, <3>2, Zenon
  <2>5. input.sigma[i] \in Seq(Token)
    BY <2>3, <1>3 DEF Texts
  <2>6. SaneLine(input.sigma[i], i)
    BY <2>3, <1>3, Zenon DEF SaneInput
  <2> QED
    BY <2>4, <2>5, <2>6, <1>5, SaneLineRead, Zenon DEF GoodLine
<1> QED
  BY <1>6, <1>7, <1>9, Zenon DEF Compiles

\* A query written like the test queries is neither thrown out nor refused for
\* the way its names and clauses are read: every constructor accepts its text, and
\* g++ what toCpp and parse_having write.
THEOREM SaneRead == Spec => []SaneQueriesRead
<1>1. ASSUME Inv PROVE SaneQueriesRead
  <2> SUFFICES ASSUME pc \in {"aborted", "refused"}, SaneInput PROVE FALSE
    BY DEF SaneQueriesRead
  <2>1. input \in Queries
    BY <1>1 DEF Inv, InvPhase
  <2>2. CASE pc = "aborted"
    <3>1. Unreadable
      BY <1>1, <2>2, Zenon DEF Inv, InvEnd
    <3> QED
      BY <3>1, <2>1, SaneReadable, Zenon
  <2>3. CASE pc = "refused"
    <3>1. ~Compiles
      BY <1>1, <2>3, Zenon DEF Inv, InvEnd
    <3>2. pc \in HavingDone
      BY <2>3, PhaseFacts, Zenon
    <3> QED
      BY <3>1, <3>2, <1>1, SaneCompiles, Zenon
  <2> QED
    BY <2>2, <2>3
<1> QED
  BY <1>1, Invariant, PTL
=============================================================================
