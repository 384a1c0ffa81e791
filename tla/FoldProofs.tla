----------------------------- MODULE FoldProofs -----------------------------
(***************************************************************************)
(* What folds over a sequence compute: the empty sequence gives the base,  *)
(* and a longer one applies the operator to the fold of all but its last   *)
(* element.  With it, induction over numbers and over sequences, stated    *)
(* with sets so that it can be used for any property.                      *)
(***************************************************************************)
EXTENDS Integers, SequencesExt, FiniteSetTheorems, TLAPS

CONSTANT Op(_, _)

Fold(base, s) == FoldLeft(Op, base, s)

-----------------------------------------------------------------------------
(* Induction.                                                              *)

\* A number that is not in S would be the largest of the finitely many below it
\* that are not; each has a predecessor among them, and pigeons do not fit.
LEMMA Induction ==
  ASSUME NEW S, 0 \in S, \A m \in Nat : m \in S => m + 1 \in S
  PROVE  Nat \subseteq S
<1> SUFFICES ASSUME NEW m \in Nat, m \notin S PROVE FALSE
  OBVIOUS
<1>1. PICK T \in SUBSET (0 .. m) : \A k \in 0 .. m : k \in T <=> k \notin S
  <2> WITNESS {k \in 0 .. m : k \notin S} \in SUBSET (0 .. m)
  <2> QED
    OBVIOUS
<1>2. IsFiniteSet(T) /\ Cardinality(T) \in Nat
  <2>1. IsFiniteSet(0 .. m)
    BY FS_Interval
  <2> QED
    BY <2>1, FS_Subset, FS_CardinalityType
<1>3. m \in T
  BY <1>1
<1>4. IsFiniteSet(T \ {m}) /\ Cardinality(T \ {m}) < Cardinality(T)
  <2>1. /\ IsFiniteSet(T \ {m})
        /\ Cardinality(T \ {m}) =
             IF m \in T THEN Cardinality(T) - 1 ELSE Cardinality(T)
    BY <1>2, FS_RemoveElement, Zenon
  <2> QED
    BY <1>2, <1>3, <2>1
<1> DEFINE down == [k \in T |-> k - 1]
<1>5. down \in [T -> T \ {m}]
  BY <1>1
<1>6. \A x, y \in T : x # y => down[x] # down[y]
  OBVIOUS
<1> HIDE DEF down
<1>7. \E x, y \in T : x # y /\ down[x] = down[y]
  BY <1>2, <1>4, <1>5, FS_PigeonHole
<1> QED
  BY <1>6, <1>7

\* What holds of the empty sequence, and of a longer one if it holds of all but
\* its last element, holds of every sequence.
LEMMA SeqInduction ==
  ASSUME NEW S, NEW P, <<>> \in P,
         \A s \in Seq(S), x \in S : s \in P => Append(s, x) \in P
  PROVE  Seq(S) \subseteq P
<1> DEFINE Upto == {m \in Nat : \A s \in Seq(S) : Len(s) = m => s \in P}
<1>1. 0 \in Upto
  <2>1. \A s \in Seq(S) : Len(s) = 0 => s = <<>>
    OBVIOUS
  <2> QED
    BY <2>1
<1>2. ASSUME NEW m \in Nat, m \in Upto
      PROVE  m + 1 \in Upto
  <2> SUFFICES ASSUME NEW s \in Seq(S), Len(s) = m + 1 PROVE s \in P
    OBVIOUS
  <2> DEFINE front == [k \in 1 .. m |-> s[k]]
  <2>1. front \in Seq(S) /\ Len(front) = m /\ s[m + 1] \in S
    OBVIOUS
  <2>2. s = Append(front, s[m + 1])
    OBVIOUS
  <2>3. front \in P
    BY <1>2, <2>1
  <2> HIDE DEF front
  <2> QED
    BY <2>1, <2>2, <2>3
<1>3. Nat \subseteq Upto
  <2> HIDE DEF Upto
  <2> QED
    BY <1>1, <1>2, Induction
<1> QED
  BY <1>3

-----------------------------------------------------------------------------
(* Folds.                                                                  *)

\* The function that folds the elements of s at the positions of a set, up to m.
IsFold(g, base, s, m) ==
  g = [a \in SUBSET (1 .. m) |->
         IF a = {} THEN base ELSE Op(g[a \ {Max(a)}], s[Max(a)])]

\* The largest of a set of positions.
LEMMA MaxIs ==
  ASSUME NEW m \in Nat, NEW a \in SUBSET (1 .. m), m \in a
  PROVE  Max(a) = m
<1>1. \A y \in a : m >= y
  OBVIOUS
<1>2. Max(a) \in a /\ \A y \in a : Max(a) >= y
  BY <1>1 DEF Max
<1>3. Max(a) \in 1 .. m /\ Max(a) >= m
  BY <1>2
<1> QED
  BY <1>3

LEMMA MaxIn ==
  ASSUME NEW m \in Nat
  PROVE  \A a \in SUBSET (1 .. m) : a # {} => Max(a) \in a
<1> DEFINE Upto == {k \in Nat : \A a \in SUBSET (1 .. k) : a # {} => Max(a) \in a}
<1>1. 0 \in Upto
  <2>1. 1 .. 0 = {}
    OBVIOUS
  <2> QED
    BY <2>1
<1>2. ASSUME NEW k \in Nat, k \in Upto
      PROVE  k + 1 \in Upto
  <2> SUFFICES ASSUME NEW a \in SUBSET (1 .. k + 1), a # {} PROVE Max(a) \in a
    OBVIOUS
  <2>1. CASE k + 1 \in a
    BY <2>1, MaxIs
  <2>2. CASE k + 1 \notin a
    <3>1. a \in SUBSET (1 .. k)
      BY <2>2
    <3> QED
      BY <1>2, <3>1
  <2> QED
    BY <2>1, <2>2
<1>3. Nat \subseteq Upto
  <2> HIDE DEF Upto
  <2> QED
    BY <1>1, <1>2, Induction
<1> QED
  BY <1>3

\* There is such a function: one position more is one case more.
LEMMA FoldExists ==
  ASSUME NEW base, NEW s, NEW m \in Nat
  PROVE  \E g : IsFold(g, base, s, m)
<1> DEFINE Upto == {k \in Nat : \E g : IsFold(g, base, s, k)}
<1>1. 0 \in Upto
  <2>1. IsFold([a \in SUBSET (1 .. 0) |-> base], base, s, 0)
    BY DEF IsFold
  <2> QED
    BY <2>1
<1>2. ASSUME NEW k \in Nat, k \in Upto
      PROVE  k + 1 \in Upto
  <2>1. PICK g : IsFold(g, base, s, k)
    BY <1>2
  <2> DEFINE h == [a \in SUBSET (1 .. k + 1) |->
                     IF k + 1 \in a THEN Op(g[a \ {k + 1}], s[k + 1]) ELSE g[a]]
  <2>2. ASSUME NEW a \in SUBSET (1 .. k + 1)
        PROVE  h[a] = IF a = {} THEN base ELSE Op(h[a \ {Max(a)}], s[Max(a)])
    <3>1. CASE k + 1 \in a
      <4>1. Max(a) = k + 1
        BY <3>1, MaxIs
      <4>2. a \ {k + 1} \in SUBSET (1 .. k + 1) /\ k + 1 \notin a \ {k + 1}
        OBVIOUS
      <4>3. h[a \ {k + 1}] = g[a \ {k + 1}]
        BY <4>2
      <4> QED
        BY <3>1, <4>1, <4>3
    <3>2. CASE k + 1 \notin a
      <4>1. a \in SUBSET (1 .. k) /\ h[a] = g[a]
        BY <3>2
      <4>2. g[a] = IF a = {} THEN base ELSE Op(g[a \ {Max(a)}], s[Max(a)])
        BY <2>1, <4>1 DEF IsFold
      <4>3. a \ {Max(a)} \in SUBSET (1 .. k + 1) /\ k + 1 \notin a \ {Max(a)}
        BY <3>2
      <4>4. h[a \ {Max(a)}] = g[a \ {Max(a)}]
        BY <4>3
      <4> QED
        BY <4>1, <4>2, <4>4
    <3> QED
      BY <3>1, <3>2
  <2>3. h = [a \in SUBSET (1 .. k + 1) |-> h[a]]
    OBVIOUS
  <2> HIDE DEF h
  <2>4. IsFold(h, base, s, k + 1)
    BY <2>2, <2>3 DEF IsFold
  <2> QED
    BY <2>4
<1>3. Nat \subseteq Upto
  <2> HIDE DEF Upto
  <2> QED
    BY <1>1, <1>2, Induction
<1> QED
  BY <1>3

\* The function that the definition of the fold chooses is one.
LEMMA FoldIs ==
  ASSUME NEW base, NEW S, NEW s \in Seq(S)
  PROVE  \E g : IsFold(g, base, s, Len(s)) /\ Fold(base, s) = g[1 .. Len(s)]
<1>1. Len(s) \in Nat /\ DOMAIN s = 1 .. Len(s)
  OBVIOUS
<1>2. PICK g : IsFold(g, base, s, Len(s))
  BY <1>1, FoldExists
<1> QED
  BY <1>1, <1>2 DEF Fold, FoldLeft, MapThenFoldSet, IsFold

\* It only looks at the positions it is asked for.
LEMMA FoldAgrees ==
  ASSUME NEW base, NEW s, NEW t, NEW ms \in Nat, NEW mt \in Nat, NEW g, NEW h,
         IsFold(g, base, s, ms), IsFold(h, base, t, mt),
         NEW m \in Nat, m <= ms, m <= mt, \A k \in 1 .. m : s[k] = t[k]
  PROVE  g[1 .. m] = h[1 .. m]
<1> DEFINE Upto == {k \in Nat : k <= m => g[1 .. k] = h[1 .. k]}
<1>1. 0 \in Upto
  <2>1. 1 .. 0 = {}
    OBVIOUS
  <2>2. g[{}] = base /\ h[{}] = base
    BY DEF IsFold
  <2> QED
    BY <2>1, <2>2
<1>2. ASSUME NEW k \in Nat, k \in Upto
      PROVE  k + 1 \in Upto
  <2> SUFFICES ASSUME k + 1 <= m PROVE g[1 .. k + 1] = h[1 .. k + 1]
    OBVIOUS
  <2>1. Max(1 .. k + 1) = k + 1
    BY MaxIs
  <2>2. /\ (1 .. k + 1) \ {k + 1} = 1 .. k /\ 1 .. k + 1 # {}
        /\ 1 .. k + 1 \in SUBSET (1 .. ms) /\ 1 .. k + 1 \in SUBSET (1 .. mt)
    OBVIOUS
  <2> DEFINE next == 1 .. k + 1
  <2>3. /\ next \ {Max(next)} = 1 .. k /\ Max(next) = k + 1 /\ next # {}
        /\ next \in SUBSET (1 .. ms) /\ next \in SUBSET (1 .. mt)
    BY <2>1, <2>2
  <2> HIDE DEF next
  <2>5. /\ g[next] = Op(g[1 .. k], s[k + 1])
        /\ h[next] = Op(h[1 .. k], t[k + 1])
    BY <2>3 DEF IsFold
  <2>4. s[k + 1] = t[k + 1]
    OBVIOUS
  <2> QED
    BY <1>2, <2>4, <2>5 DEF next
<1>3. Nat \subseteq Upto
  <2> HIDE DEF Upto
  <2> QED
    BY <1>1, <1>2, Induction
<1> QED
  BY <1>3

\* A fold of nothing is its base ...
LEMMA FoldEmpty == ASSUME NEW base PROVE Fold(base, <<>>) = base
<1>1. <<>> \in Seq({}) /\ Len(<<>>) = 0 /\ 1 .. 0 = {}
  OBVIOUS
<1>2. PICK g : IsFold(g, base, <<>>, 0) /\ Fold(base, <<>>) = g[{}]
  BY <1>1, FoldIs
<1> QED
  BY <1>2 DEF IsFold

\* ... and one element more is one application more.
LEMMA FoldAppend ==
  ASSUME NEW base, NEW S, NEW s \in Seq(S), NEW x \in S
  PROVE  Fold(base, Append(s, x)) = Op(Fold(base, s), x)
<1> DEFINE m == Len(s)
           t == Append(s, x)
<1>1. /\ m \in Nat /\ t \in Seq(S) /\ Len(t) = m + 1
      /\ t[m + 1] = x /\ \A k \in 1 .. m : s[k] = t[k]
  OBVIOUS
<1>2. PICK g : IsFold(g, base, s, m) /\ Fold(base, s) = g[1 .. m]
  BY FoldIs
<1> HIDE DEF m, t
<1>3. PICK h : IsFold(h, base, t, m + 1) /\ Fold(base, t) = h[1 .. m + 1]
  BY <1>1, FoldIs
<1>4. g[1 .. m] = h[1 .. m]
  BY <1>1, <1>2, <1>3, FoldAgrees
<1>5. Max(1 .. m + 1) = m + 1 /\ (1 .. m + 1) \ {m + 1} = 1 .. m /\ 1 .. m + 1 # {}
  BY <1>1, MaxIs
<1>6. h[1 .. m + 1] = Op(h[1 .. m], t[m + 1])
  BY <1>3, <1>5 DEF IsFold
<1> QED
  BY <1>1, <1>2, <1>3, <1>4, <1>6 DEF t
=============================================================================
