--------------------------- MODULE FoldInduction ---------------------------
(***************************************************************************)
(* Folds over sequences of any length.  The operator that is folded, and   *)
(* what is shown of the accumulated value, are constants here, so that an  *)
(* instance of this module has the theorems for an operator of its own; Op *)
(* has three parameters more, for what the operator depends on.            *)
(***************************************************************************)
EXTENDS Integers, Sequences, SequencesExt, WellFoundedInduction, TLAPS

CONSTANTS
  Op(_, _, _, _, _),  \* applied to the parameters, what is accumulated, and an element
  P(_, _, _, _, _)    \* said of the parameters, the elements so far, and what is accumulated

Fold(a, b, c, base, s) == FoldLeft(LAMBDA x, y : Op(a, b, c, x, y), base, s)

\* A set of numbers that is not empty has a least one.
LEMMA LeastNumber ==
  ASSUME NEW S, S \subseteq Nat, S # {}
  PROVE  \E n \in S : \A m \in 0..(n - 1) : m \notin S
<1>1. PICK n \in S : \A m \in S : n <= m
  <2>1. IsWellFoundedOn(OpToRel(<, Nat), Nat) BY NatLessThanWellFounded
  <2>2. PICK n \in S : \A m \in Nat : <<m, n>> \in OpToRel(<, Nat) => m \notin S
    BY <2>1, WFMin
  <2>3. \A m \in S : ~(m < n) BY <2>2 DEF OpToRel
  <2>4. QED BY <2>3
<1>2. QED BY <1>1

\* The function that FoldLeft chooses, on the subsets of D.
Iter(h, a, b, c, base, s, D) ==
  h = [t \in SUBSET D |-> IF t = {} THEN base ELSE Op(a, b, c, h[t \ {Max(t)}], s[Max(t)])]

\* The greatest of the numbers up to k + 1 in a set that has k + 1.
LEMMA MaxIs ==
  ASSUME NEW k \in Nat, NEW t, t \subseteq 1..(k + 1), k + 1 \in t
  PROVE  Max(t) = k + 1
<1>1. \A y \in t : k + 1 >= y OBVIOUS
<1>2. \A x \in t : (\A y \in t : x >= y) => x = k + 1 OBVIOUS
<1>3. QED BY <1>1, <1>2 DEF Max

\* There is such a function on the subsets of 1..k, for every k.
LEMMA IterExists ==
  ASSUME NEW a, NEW b, NEW c, NEW base, NEW s, NEW n \in Nat
  PROVE  \E h : Iter(h, a, b, c, base, s, 1..n)
<1> DEFINE bad == {k \in Nat : ~\E h : Iter(h, a, b, c, base, s, 1..k)}
<1>1. SUFFICES ASSUME bad # {} PROVE FALSE OBVIOUS
<1>2. PICK k \in bad : \A m \in 0..(k - 1) : m \notin bad
  <2>1. bad \subseteq Nat OBVIOUS
  <2> HIDE DEF bad
  <2>2. QED BY <1>1, <2>1, LeastNumber
<1>3. CASE k = 0
  <2> DEFINE g == [t \in SUBSET (1..0) |-> base]
  <2>1. \A t \in SUBSET (1..0) : t = {} OBVIOUS
  <2>2. Iter(g, a, b, c, base, s, 1..0)
    <3>1. \A t \in SUBSET (1..0) : (IF t = {} THEN base ELSE Op(a, b, c, g[t \ {Max(t)}], s[Max(t)])) = base
      BY <2>1
    <3>2. QED BY <3>1 DEF Iter
  <2>3. QED BY <1>2, <1>3, <2>2
<1>4. CASE k # 0
  <2>1. PICK j \in Nat : k = j + 1
    <3>1. k \in Nat /\ k - 1 \in Nat BY <1>4
    <3>2. QED BY <3>1
  <2>2. PICK h : Iter(h, a, b, c, base, s, 1..j)
    <3>1. j \in 0..(k - 1) /\ j \in Nat BY <2>1
    <3>2. j \notin bad BY <1>2, <3>1
    <3>3. QED BY <3>1, <3>2
  <2> DEFINE g == [t \in SUBSET (1..k) |-> IF t \in SUBSET (1..j) THEN h[t]
                                         ELSE Op(a, b, c, h[t \ {k}], s[k])]
  <2>3. Iter(g, a, b, c, base, s, 1..k)
    <3>1. \A t \in SUBSET (1..k) : g[t] = IF t = {} THEN base ELSE Op(a, b, c, g[t \ {Max(t)}], s[Max(t)])
      <4>1. SUFFICES ASSUME NEW t \in SUBSET (1..k)
                     PROVE  g[t] = IF t = {} THEN base ELSE Op(a, b, c, g[t \ {Max(t)}], s[Max(t)])
        OBVIOUS
      <4>2. PICK m : m = Max(t) OBVIOUS
      <4>3. CASE t \in SUBSET (1..j)
        <5>1. t \ {m} \in SUBSET (1..j) /\ t \ {m} \in SUBSET (1..k) BY <4>3
        <5>2. g[t] = h[t] /\ g[t \ {m}] = h[t \ {m}] BY <4>3, <5>1
        <5>3. h[t] = IF t = {} THEN base ELSE Op(a, b, c, h[t \ {m}], s[m]) BY <2>2, <4>2, <4>3 DEF Iter
        <5>4. QED BY <4>2, <5>2, <5>3
      <4>4. CASE t \notin SUBSET (1..j)
        <5>1. k \in t BY <2>1, <4>4
        <5>2. m = k BY <2>1, <4>2, <5>1, MaxIs
        <5>3. t \ {k} \in SUBSET (1..j) /\ t \ {k} \in SUBSET (1..k) BY <2>1
        <5>4. g[t] = Op(a, b, c, h[t \ {k}], s[k]) BY <4>4
        <5>5. g[t \ {k}] = h[t \ {k}] BY <5>3
        <5>6. QED BY <4>2, <5>1, <5>2, <5>4, <5>5
      <4>5. QED BY <4>3, <4>4
    <3>2. DOMAIN g = SUBSET (1..k) /\ g = [t \in SUBSET (1..k) |-> g[t]] OBVIOUS
    <3> HIDE DEF g
    <3>3. QED BY <3>1, <3>2 DEF Iter
  <2>4. QED BY <1>2, <2>3
<1>5. QED BY <1>3, <1>4

Steps(f, a, b, c, base, s, n) ==
  /\ f[0] = base
  /\ \A k \in 1..n : f[k] = Op(a, b, c, f[k - 1], s[k])
  /\ f[n] = Fold(a, b, c, base, s)

\* A fold goes through the elements one after the other.
THEOREM FoldSteps ==
  ASSUME NEW a, NEW b, NEW c, NEW base, NEW s, NEW n \in Nat, DOMAIN s = 1..n
  PROVE  \E f : Steps(f, a, b, c, base, s, n)
<1>1. PICK h : h = CHOOSE g : Iter(g, a, b, c, base, s, 1..n) OBVIOUS
<1>2. Iter(h, a, b, c, base, s, 1..n) BY <1>1, IterExists
<1>3. Fold(a, b, c, base, s) = h[1..n]
  BY <1>1 DEF Fold, FoldLeft, MapThenFoldSet, Iter
<1> DEFINE f == [k \in 0..n |-> h[1..k]]
<1>4. f[0] = base
  <2>1. 1..0 = {} /\ {} \in SUBSET (1..n) /\ 0 \in 0..n OBVIOUS
  <2>2. h[{}] = base BY <1>2, <2>1 DEF Iter
  <2>3. QED BY <2>1, <2>2
<1>5. ASSUME NEW k \in 1..n PROVE f[k] = Op(a, b, c, f[k - 1], s[k])
  <2>1. PICK j \in Nat : k = j + 1
    <3>1. k - 1 \in Nat /\ k = (k - 1) + 1 OBVIOUS
    <3>2. QED BY <3>1
  <2>2. PICK t : t = 1..k OBVIOUS
  <2>3. t \in SUBSET (1..n) /\ t # {} /\ k \in t BY <2>2
  <2>4. Max(t) = k BY <2>1, <2>2, <2>3, MaxIs
  <2>5. t \ {k} = 1..(k - 1) BY <2>2
  <2>6. h[t] = Op(a, b, c, h[t \ {k}], s[k]) BY <1>2, <2>3, <2>4 DEF Iter
  <2>7. f[k] = h[t] /\ f[k - 1] = h[1..(k - 1)] BY <2>2
  <2>8. QED BY <2>5, <2>6, <2>7
<1>6. f[n] = h[1..n] OBVIOUS
<1> HIDE DEF f
<1>7. Steps(f, a, b, c, base, s, n) BY <1>3, <1>4, <1>5, <1>6 DEF Steps
<1>8. QED BY <1>7

\* What holds of the first value, and is kept by each element, holds in the end.
THEOREM FoldKeeps ==
  ASSUME NEW a, NEW b, NEW c, NEW base, NEW s, NEW n \in Nat, DOMAIN s = 1..n,
         P(a, b, c, 0, base),
         \A k \in 1..n : \A x : P(a, b, c, k - 1, x) => P(a, b, c, k, Op(a, b, c, x, s[k]))
  PROVE  P(a, b, c, n, Fold(a, b, c, base, s))
<1>0. PICK f : Steps(f, a, b, c, base, s, n) BY FoldSteps, Zenon
<1>1. /\ f[0] = base
      /\ \A k \in 1..n : f[k] = Op(a, b, c, f[k - 1], s[k])
      /\ f[n] = Fold(a, b, c, base, s)
  BY <1>0 DEF Steps
<1> DEFINE bad == {k \in 0..n : ~P(a, b, c, k, f[k])}
<1>2. bad = {}
  <2>1. SUFFICES ASSUME bad # {} PROVE FALSE OBVIOUS
  <2>2. PICK k \in bad : \A m \in 0..(k - 1) : m \notin bad
    <3>1. bad \subseteq Nat OBVIOUS
    <3> HIDE DEF bad
    <3>2. QED BY <2>1, <3>1, LeastNumber
  <2>3. k # 0 BY <1>1, <2>2
  <2>4. k \in 1..n /\ k - 1 \in 0..(k - 1) /\ k - 1 \in 0..n BY <2>3
  <2>5. P(a, b, c, k - 1, f[k - 1]) BY <2>2, <2>4
  <2>6. P(a, b, c, k, f[k]) BY <1>1, <2>4, <2>5
  <2>7. QED BY <2>2, <2>6
<1>3. P(a, b, c, n, f[n]) BY <1>2
<1>4. QED BY <1>1, <1>3
=============================================================================
