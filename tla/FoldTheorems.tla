--------------------------- MODULE FoldTheorems ---------------------------
(***************************************************************************)
(* Induction, and what FoldLeft of module SequencesExt computes, for one   *)
(* operator op.  A proof about a fold of its own operator takes an         *)
(* instance of this module WITH op <- that operator.                       *)
(*                                                                         *)
(* Induction is stated with a set in place of a predicate: the provers     *)
(* instantiate a theorem's sets, and not its operators.                    *)
(***************************************************************************)
EXTENDS Integers, Sequences, SequencesExt, WellFoundedInduction, SequenceTheorems, TLAPS

CONSTANT op(_, _)

Fold(base, seq) == FoldLeft(op, base, seq)

(* A set that has 0 and, with a number, the next one has all of them.      *)
LEMMA NaturalsByAdding ==
  ASSUME NEW S, 0 \in S, \A n \in Nat : n \in S => n + 1 \in S
  PROVE  Nat \subseteq S
<1> SUFFICES ASSUME Nat \ S # {} PROVE FALSE OBVIOUS
<1> DEFINE R == OpToRel(<, Nat)
           T == Nat \ S
<1>1. IsWellFoundedOn(R, Nat) BY NatLessThanWellFounded
<1>2. T \subseteq Nat /\ T # {} OBVIOUS
<1>3. PICK x \in T : \A y \in T : <<y, x>> \notin R
  <2> HIDE DEF R, T
  <2> QED BY <1>1, <1>2, WFMin
<1>4. x # 0 /\ x \in Nat BY <1>3
<1>5. x - 1 \in Nat /\ x - 1 < x /\ (x - 1) + 1 = x BY <1>4
<1>6. x - 1 \notin S BY <1>3, <1>4, <1>5
<1>7. <<x - 1, x>> \in R BY <1>4, <1>5 DEF OpToRel
<1> QED BY <1>3, <1>5, <1>6, <1>7

(* A set that has the empty sequence and, with a sequence over A, every    *)
(* one that is longer by an element of A has all of them.                  *)
LEMMA SequencesByAppending ==
  ASSUME NEW A, NEW S, <<>> \in S,
         \A seq \in Seq(A), x \in A : seq \in S => Append(seq, x) \in S
  PROVE  Seq(A) \subseteq S
<1> DEFINE T == {n \in Nat : \A seq \in Seq(A) : Len(seq) = n => seq \in S}
<1>1. 0 \in T
  <2>1. ASSUME NEW seq \in Seq(A), Len(seq) = 0 PROVE seq = <<>>
    BY <2>1, EmptySeq
  <2> QED BY <2>1
<1>2. ASSUME NEW n \in Nat, n \in T PROVE n + 1 \in T
  <2> SUFFICES ASSUME NEW seq \in Seq(A), Len(seq) = n + 1 PROVE seq \in S
    OBVIOUS
  <2> DEFINE front == SubSeq(seq, 1, n)
  <2>1. front \in Seq(A) /\ Len(front) = n BY <1>2
  <2>2. seq[n + 1] \in A BY <1>2
  <2>3. seq = Append(front, seq[n + 1])
    <3>1. Append(front, seq[n + 1]) \in Seq(A) /\ Len(Append(front, seq[n + 1])) = n + 1
      BY <2>1, <2>2
    <3>2. \A k \in 1 .. n + 1 : Append(front, seq[n + 1])[k] = seq[k]
      BY <1>2, <2>1, <2>2
    <3> QED BY <1>2, <3>1, <3>2, SeqEqual
  <2>4. front \in S BY <1>2, <2>1
  <2> QED BY <2>1, <2>2, <2>3, <2>4
<1>3. Nat \subseteq T
  <2> HIDE DEF T
  <2> QED BY <1>1, <1>2, NaturalsByAdding
<1>4. ASSUME NEW seq \in Seq(A) PROVE seq \in S
  <2>1. Len(seq) \in T BY <1>3
  <2> QED BY <2>1
<1> QED BY <1>4

-----------------------------------------------------------------------------
(* FoldLeft is defined by a function on sets of positions, which it takes  *)
(* apart by their largest element.                                         *)
Folds(g, base, seq, n) ==
  g = [s \in SUBSET (1 .. n) |->
         IF s = {} THEN base ELSE op(g[s \ {Max(s)}], seq[Max(s)])]

LEMMA LastIsMax ==
  ASSUME NEW n \in Nat, NEW s \in SUBSET (1 .. n + 1), n + 1 \in s
  PROVE  Max(s) = n + 1
<1>1. n + 1 \in s /\ \A y \in s : n + 1 >= y OBVIOUS
<1>2. Max(s) \in s /\ \A y \in s : Max(s) >= y
  BY <1>1, Zenon DEF Max
<1>3. Max(s) \in 1 .. n + 1 BY <1>2
<1>4. Max(s) >= n + 1 BY <1>1, <1>2
<1> QED BY <1>3, <1>4

LEMMA FoldExists ==
  ASSUME NEW base, NEW seq, NEW n \in Nat
  PROVE  \E g : Folds(g, base, seq, n)
<1> DEFINE S == {m \in Nat : \E g : Folds(g, base, seq, m)}
<1>1. 0 \in S
  <2> DEFINE g == [s \in SUBSET (1 .. 0) |-> base]
  <2>1. \A s \in SUBSET (1 .. 0) : s = {} OBVIOUS
  <2>2. Folds(g, base, seq, 0) BY <2>1 DEF Folds
  <2> HIDE DEF g
  <2> QED BY <2>2
<1>2. ASSUME NEW m \in Nat, m \in S PROVE m + 1 \in S
  <2>1. PICK g : Folds(g, base, seq, m) BY <1>2
  <2> DEFINE h == [s \in SUBSET (1 .. m + 1) |->
                     IF m + 1 \in s THEN op(g[s \ {m + 1}], seq[m + 1]) ELSE g[s]]
             k == [s \in SUBSET (1 .. m + 1) |->
                     IF s = {} THEN base ELSE op(h[s \ {Max(s)}], seq[Max(s)])]
  <2>2. ASSUME NEW s \in SUBSET (1 .. m + 1) PROVE h[s] = k[s]
    <3>1. CASE m + 1 \in s
      <4>1. Max(s) = m + 1 BY <3>1, LastIsMax
      <4>2. h[s \ {m + 1}] = g[s \ {m + 1}] OBVIOUS
      <4>3. h[s] = op(g[s \ {m + 1}], seq[m + 1]) BY <3>1
      <4>4. k[s] = op(h[s \ {m + 1}], seq[m + 1]) BY <3>1, <4>1
      <4> QED BY <4>2, <4>3, <4>4
    <3>2. CASE m + 1 \notin s
      <4>1. s \in SUBSET (1 .. m) BY <3>2
      <4>2. h[s] = g[s] BY <3>2
      <4>3. h[s \ {Max(s)}] = g[s \ {Max(s)}] BY <3>2
      <4>4. g[s] = IF s = {} THEN base ELSE op(g[s \ {Max(s)}], seq[Max(s)])
        BY <2>1, <4>1 DEF Folds
      <4>5. k[s] = IF s = {} THEN base ELSE op(h[s \ {Max(s)}], seq[Max(s)])
        OBVIOUS
      <4> QED BY <4>2, <4>3, <4>4, <4>5
    <3> QED BY <3>1, <3>2
  <2>3. h = k
    <3>1. DOMAIN h = DOMAIN k OBVIOUS
    <3>2. h = [s \in SUBSET (1 .. m + 1) |-> k[s]]
      <4>1. h = [s \in SUBSET (1 .. m + 1) |-> h[s]] OBVIOUS
      <4> HIDE DEF h, k
      <4> QED BY <2>2, <4>1
    <3>3. k = [s \in SUBSET (1 .. m + 1) |-> k[s]] OBVIOUS
    <3> HIDE DEF h, k
    <3> QED BY <3>2, <3>3
  <2>4. Folds(h, base, seq, m + 1)
    <3> HIDE DEF h
    <3> QED BY <2>3 DEF Folds
  <2> HIDE DEF h
  <2> QED BY <2>4
<1>3. Nat \subseteq S
  <2> HIDE DEF S
  <2> QED BY <1>1, <1>2, NaturalsByAdding
<1> QED BY <1>3

LEMMA FoldIsItsFunction ==
  ASSUME NEW A, NEW base, NEW seq \in Seq(A)
  PROVE  \E g : Folds(g, base, seq, Len(seq)) /\ Fold(base, seq) = g[1 .. Len(seq)]
<1> DEFINE g == CHOOSE g : Folds(g, base, seq, Len(seq))
<1>1. Folds(g, base, seq, Len(seq))
  <2>1. Len(seq) \in Nat BY LenProperties
  <2>2. \E h : Folds(h, base, seq, Len(seq)) BY <2>1, FoldExists
  <2> QED BY <2>2, Zenon
<1>2. DOMAIN seq = 1 .. Len(seq) OBVIOUS
<1>3. Fold(base, seq) = g[DOMAIN seq]
  BY <1>2, Zenon DEF Fold, FoldLeft, MapThenFoldSet, Folds
<1> HIDE DEF g
<1> QED BY <1>1, <1>2, <1>3

(* Nothing is done for an empty sequence.                                  *)
LEMMA FoldEmpty ==
  ASSUME NEW base
  PROVE  Fold(base, <<>>) = base
<1>1. <<>> \in Seq({}) /\ Len(<<>>) = 0 BY EmptySeq
<1>2. PICK g : Folds(g, base, <<>>, 0) /\ Fold(base, <<>>) = g[1 .. 0]
  BY <1>1, FoldIsItsFunction
<1>3. 1 .. 0 = {} OBVIOUS
<1> QED BY <1>2, <1>3 DEF Folds

(* One element more at the end takes op once more.                         *)
LEMMA FoldAppend ==
  ASSUME NEW A, NEW base, NEW seq \in Seq(A), NEW x \in A
  PROVE  Fold(base, Append(seq, x)) = op(Fold(base, seq), x)
<1> DEFINE n == Len(seq)
           longer == Append(seq, x)
<1>1. /\ n \in Nat /\ longer \in Seq(A) /\ Len(longer) = n + 1
      /\ longer[n + 1] = x /\ \A k \in 1 .. n : longer[k] = seq[k]
  OBVIOUS
<1> HIDE DEF n, longer
<1>2. PICK g : Folds(g, base, seq, n) /\ Fold(base, seq) = g[1 .. n]
  BY FoldIsItsFunction DEF n
<1>3. PICK h : Folds(h, base, longer, n + 1) /\ Fold(base, longer) = h[1 .. n + 1]
  BY <1>1, FoldIsItsFunction
<1>4. ASSUME NEW m \in Nat PROVE Max(1 .. m + 1) = m + 1 /\ (1 .. m + 1) \ {m + 1} = 1 .. m
  BY LastIsMax
<1> DEFINE S == {m \in Nat : m <= n => g[1 .. m] = h[1 .. m]}
<1>5. 0 \in S
  <2>1. 1 .. 0 = {} /\ {} \in SUBSET (1 .. n) /\ {} \in SUBSET (1 .. n + 1) OBVIOUS
  <2> QED BY <1>2, <1>3, <2>1 DEF Folds
<1>6. ASSUME NEW m \in Nat, m \in S, m + 1 <= n PROVE g[1 .. m + 1] = h[1 .. m + 1]
  <2>1. m + 1 \in 1 .. n /\ m <= n BY <1>1, <1>6
  <2>2. g[1 .. m] = h[1 .. m] BY <1>6, <2>1
  <2> DEFINE s == 1 .. m + 1
  <2>3. s \in SUBSET (1 .. n) /\ s \in SUBSET (1 .. n + 1) /\ m + 1 \in s
    BY <1>1, <1>6
  <2>4. Max(s) = m + 1 /\ s \ {m + 1} = 1 .. m BY <1>4
  <2> HIDE DEF s, S
  <2>5. g[s] = op(g[s \ {Max(s)}], seq[Max(s)]) BY <1>2, <2>3 DEF Folds
  <2>6. h[s] = op(h[s \ {Max(s)}], longer[Max(s)]) BY <1>3, <2>3 DEF Folds
  <2>7. g[s] = h[s] BY <1>1, <2>1, <2>2, <2>4, <2>5, <2>6
  <2> QED BY <2>7 DEF s
<1>7. n \in S
  <2>1. \A m \in Nat : m \in S => m + 1 \in S BY <1>6
  <2> HIDE DEF S
  <2> QED BY <1>1, <1>5, <2>1, NaturalsByAdding
<1>8. h[1 .. n + 1] = op(h[1 .. n], x)
  <2> DEFINE s == 1 .. n + 1
  <2>1. s \in SUBSET (1 .. n + 1) /\ n + 1 \in s BY <1>1
  <2>2. Max(s) = n + 1 /\ s \ {n + 1} = 1 .. n BY <1>1, <1>4
  <2> HIDE DEF s
  <2>3. h[s] = op(h[s \ {Max(s)}], longer[Max(s)]) BY <1>3, <2>1 DEF Folds
  <2>4. h[s] = op(h[1 .. n], x) BY <1>1, <2>2, <2>3
  <2> QED BY <2>4 DEF s
<1> QED BY <1>1, <1>2, <1>3, <1>7, <1>8 DEF longer
=============================================================================
