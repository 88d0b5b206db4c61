-------------------------- MODULE HighlightProofs --------------------------
(***************************************************************************)
(* Proofs about Highlight, for any documents with any languages, injected  *)
(* in each other to any depth, and any number of captures and layers.      *)
(***************************************************************************)
EXTENDS Highlight, FiniteSetTheorems, SequenceTheorems, WellFoundedInduction, TLAPS

-----------------------------------------------------------------------------
(* Sequences of anything                                                     *)

IsSeq(s) == s \in Seq({s[i] : i \in DOMAIN s})

\* Whatever a sequence is one of, it is a sequence.
LEMMA AnySeq ==
  ASSUME NEW S, NEW s \in Seq(S)
  PROVE  IsSeq(s) /\ Len(s) \in Nat /\ DOMAIN s = 1..Len(s)
<1>1. Len(s) \in Nat /\ s \in [1..Len(s) -> S] /\ DOMAIN s = 1..Len(s) BY LenProperties
<1>2. s \in [1..Len(s) -> {s[i] : i \in DOMAIN s}] BY <1>1
<1>3. QED BY <1>1, <1>2, SeqDef DEF IsSeq

\* Append, whatever is appended.
LEMMA AppendFacts ==
  ASSUME NEW s, IsSeq(s), NEW e
  PROVE  /\ IsSeq(Append(s, e)) /\ Len(s) \in Nat /\ DOMAIN s = 1..Len(s)
         /\ Len(Append(s, e)) = Len(s) + 1 /\ DOMAIN Append(s, e) = 1..(Len(s) + 1)
         /\ \A i \in 1..Len(s) : Append(s, e)[i] = s[i]
         /\ Append(s, e)[Len(s) + 1] = e
<1> DEFINE S == {s[i] : i \in DOMAIN s}
           T == S \cup {e}
<1>1. s \in Seq(S) BY DEF IsSeq
<1>2. s \in Seq(T) BY <1>1, SeqMonotonic
<1>3. e \in T OBVIOUS
<1> HIDE DEF T, S
<1>4. Append(s, e) \in Seq(T) /\ Len(Append(s, e)) = Len(s) + 1
      /\ (\A i \in 1..Len(s) : Append(s, e)[i] = s[i]) /\ Append(s, e)[Len(s) + 1] = e
  BY <1>2, <1>3, AppendProperties
<1>5. QED BY <1>2, <1>4, AnySeq

\* The replacement of one element.
LEMMA ExceptFacts ==
  ASSUME NEW s, IsSeq(s), NEW k \in 1..Len(s), NEW e
  PROVE  LET t == [s EXCEPT ![k] = e]
         IN  /\ IsSeq(t) /\ Len(s) \in Nat /\ DOMAIN s = 1..Len(s)
             /\ Len(t) = Len(s) /\ DOMAIN t = 1..Len(s)
             /\ \A i \in 1..Len(s) : t[i] = IF i = k THEN e ELSE s[i]
<1> DEFINE S == {s[i] : i \in DOMAIN s}
           T == S \cup {e}
           t == [s EXCEPT ![k] = e]
<1>1. s \in Seq(S) BY DEF IsSeq
<1>2. s \in Seq(T) BY <1>1, SeqMonotonic
<1>3. e \in T OBVIOUS
<1> HIDE DEF T, S
<1>4. t \in Seq(T) /\ Len(t) = Len(s) /\ \A i \in 1..Len(s) : t[i] = IF i = k THEN e ELSE s[i]
  BY <1>2, <1>3, ExceptSeq
<1> HIDE DEF t
<1>5. IsSeq(t) /\ DOMAIN t = 1..Len(s) /\ Len(s) \in Nat /\ DOMAIN s = 1..Len(s)
  BY <1>2, <1>4, AnySeq
<1>6. QED BY <1>4, <1>5 DEF t

\* The empty sequence.
LEMMA EmptyIsSeq == IsSeq(<<>>) /\ Len(<<>>) = 0 /\ DOMAIN <<>> = {}
<1>1. <<>> \in Seq({}) BY EmptySeq
<1>2. IsSeq(<<>>) /\ DOMAIN <<>> = 1..0 BY <1>1, AnySeq
<1>3. QED BY <1>2

\* The concatenation of two sequences.
LEMMA ConcatFacts ==
  ASSUME NEW s, IsSeq(s), NEW t, IsSeq(t)
  PROVE  /\ IsSeq(s \o t) /\ Len(s) \in Nat /\ Len(t) \in Nat /\ Len(s \o t) = Len(s) + Len(t)
         /\ DOMAIN (s \o t) = 1..(Len(s) + Len(t))
         /\ \A i \in 1..(Len(s) + Len(t)) : (s \o t)[i] = IF i <= Len(s) THEN s[i] ELSE t[i - Len(s)]
         /\ ToSet(s \o t) = ToSet(s) \cup ToSet(t)
<1> DEFINE S == {s[i] : i \in DOMAIN s} \cup {t[i] : i \in DOMAIN t}
<1>1. s \in Seq(S) /\ t \in Seq(S) BY SeqMonotonic DEF IsSeq
<1> HIDE DEF S
<1>2. /\ s \o t \in Seq(S) /\ Len(s \o t) = Len(s) + Len(t)
      /\ \A i \in 1..(Len(s) + Len(t)) : (s \o t)[i] = IF i <= Len(s) THEN s[i] ELSE t[i - Len(s)]
  BY <1>1, ConcatProperties
<1>3. PICK u : u = s \o t OBVIOUS
<1>4. IsSeq(u) /\ DOMAIN u = 1..Len(u) /\ DOMAIN s = 1..Len(s) /\ DOMAIN t = 1..Len(t)
      /\ Len(s) \in Nat /\ Len(t) \in Nat
  BY <1>1, <1>2, <1>3, AnySeq
<1>5. Len(u) = Len(s) + Len(t) /\ \A i \in 1..(Len(s) + Len(t)) : u[i] = IF i <= Len(s) THEN s[i] ELSE t[i - Len(s)]
  BY <1>2, <1>3
<1>6. ToSet(u) = ToSet(s) \cup ToSet(t)
  <2>1. \A i \in DOMAIN u : u[i] \in ToSet(s) \cup ToSet(t)
    <3>1. SUFFICES ASSUME NEW i \in DOMAIN u PROVE u[i] \in ToSet(s) \cup ToSet(t) OBVIOUS
    <3>2. CASE i <= Len(s) BY <1>4, <1>5, <3>2 DEF ToSet
    <3>3. CASE ~(i <= Len(s))
      <4>1. i - Len(s) \in DOMAIN t /\ u[i] = t[i - Len(s)] BY <1>4, <1>5, <3>3
      <4>2. QED BY <4>1 DEF ToSet
    <3>4. QED BY <3>2, <3>3
  <2>2. \A i \in DOMAIN s : s[i] \in ToSet(u)
    <3>1. SUFFICES ASSUME NEW i \in DOMAIN s PROVE s[i] \in ToSet(u) OBVIOUS
    <3>2. i \in DOMAIN u /\ u[i] = s[i] BY <1>4, <1>5
    <3>3. QED BY <3>2 DEF ToSet
  <2>3. \A i \in DOMAIN t : t[i] \in ToSet(u)
    <3>1. SUFFICES ASSUME NEW i \in DOMAIN t PROVE t[i] \in ToSet(u) OBVIOUS
    <3>2. i + Len(s) \in DOMAIN u /\ u[i + Len(s)] = t[i] BY <1>4, <1>5
    <3>3. QED BY <3>2 DEF ToSet
  <2>4. QED BY <2>1, <2>2, <2>3 DEF ToSet
<1>7. QED BY <1>3, <1>4, <1>5, <1>6

\* Two sequences with the same elements.
LEMMA SameSeq ==
  ASSUME NEW s, IsSeq(s), NEW t, IsSeq(t), Len(s) = Len(t), \A i \in 1..Len(s) : s[i] = t[i]
  PROVE  s = t
<1> DEFINE S == {s[i] : i \in DOMAIN s} \cup {t[i] : i \in DOMAIN t}
<1>1. s \in Seq(S) /\ t \in Seq(S) BY SeqMonotonic DEF IsSeq
<1> HIDE DEF S
<1>2. QED BY <1>1, SeqEqual

\* A part of a sequence.
LEMMA SubFacts ==
  ASSUME NEW s, IsSeq(s), NEW m \in Nat \ {0}, NEW n \in Nat, n <= Len(s)
  PROVE  LET t == SubSeq(s, m, n)
         IN  /\ IsSeq(t) /\ Len(s) \in Nat /\ DOMAIN s = 1..Len(s)
             /\ Len(t) = (IF m <= n THEN n - m + 1 ELSE 0) /\ DOMAIN t = 1..Len(t)
             /\ \A i \in DOMAIN t : m + i - 1 \in 1..n /\ t[i] = s[m + i - 1]
<1> DEFINE S == {s[i] : i \in DOMAIN s}
<1>1. s \in Seq(S) BY DEF IsSeq
<1>2. Len(s) \in Nat /\ DOMAIN s = 1..Len(s) BY <1>1, AnySeq
<1>3. \A i \in m..n : s[i] \in S BY <1>2
<1> HIDE DEF S
<1>4. PICK t : t = SubSeq(s, m, n) OBVIOUS
<1>5. t \in Seq(S) /\ Len(t) = (IF m <= n THEN n - m + 1 ELSE 0) /\ \A i \in 1..(n - m + 1) : t[i] = s[m + i - 1]
  BY <1>3, <1>4, SubSeqProperties
<1>6. IsSeq(t) /\ DOMAIN t = 1..Len(t) BY <1>5, AnySeq
<1>7. \A i \in DOMAIN t : m + i - 1 \in 1..n /\ t[i] = s[m + i - 1] BY <1>5, <1>6
<1>8. QED BY <1>2, <1>4, <1>5, <1>6, <1>7

\* A sequence of one.
LEMMA OneFacts ==
  ASSUME NEW e
  PROVE  IsSeq(<<e>>) /\ Len(<<e>>) = 1 /\ DOMAIN <<e>> = 1..1 /\ <<e>>[1] = e
<1>1. <<e>> \in Seq({e}) OBVIOUS
<1>2. IsSeq(<<e>>) BY <1>1, AnySeq
<1>3. QED BY <1>2

\* The sequence without its first element.
LEMMA TailIs ==
  ASSUME NEW s, IsSeq(s), s # <<>>
  PROVE  /\ IsSeq(Tail(s)) /\ Len(s) \in Nat \ {0} /\ DOMAIN s = 1..Len(s)
         /\ Len(Tail(s)) = Len(s) - 1 /\ DOMAIN Tail(s) = 1..(Len(s) - 1)
         /\ \A i \in 1..(Len(s) - 1) : Tail(s)[i] = s[i + 1]
<1> DEFINE S == {s[i] : i \in DOMAIN s}
<1>1. s \in Seq(S) BY DEF IsSeq
<1> HIDE DEF S
<1>2. Len(s) \in Nat \ {0} /\ DOMAIN s = 1..Len(s) BY <1>1, EmptySeq, AnySeq
<1>3. Tail(s) \in Seq(S) /\ Len(Tail(s)) = Len(s) - 1 /\ \A i \in 1..(Len(s) - 1) : Tail(s)[i] = s[i + 1]
  BY <1>1
<1>4. IsSeq(Tail(s)) /\ DOMAIN Tail(s) = 1..Len(Tail(s)) BY <1>3, AnySeq
<1>5. QED BY <1>2, <1>3, <1>4

\* A sequence that is not empty has a first element.
LEMMA NotEmpty ==
  ASSUME NEW s, IsSeq(s)
  PROVE  /\ Len(s) \in Nat /\ DOMAIN s = 1..Len(s)
         /\ s # <<>> <=> Len(s) >= 1
<1>1. Len(s) \in Nat /\ DOMAIN s = 1..Len(s) BY AnySeq DEF IsSeq
<1>2. Len(s) = 0 => s = <<>> BY EmptyIsSeq, SameSeq
<1>3. s = <<>> => Len(s) = 0 BY EmptyIsSeq
<1>4. QED BY <1>1, <1>2, <1>3

-----------------------------------------------------------------------------
(* Layers, and how many highlights are open in them                          *)

\* h[k] highlights are open in the first k layers.
Sums(h, ls) ==
  /\ h[0] = 0
  /\ \A k \in 0..Len(ls) : h[k] \in Int
  /\ \A k \in 1..Len(ls) : h[k] = h[k - 1] + Len(ls[k].ends)
Total(ls, t) == \E h : Sums(h, ls) /\ h[Len(ls)] = t

PlaceIn(c, n) == c.start \in 0..n /\ c.end \in 0..n

\* A layer of a text of n bytes.
LayerOK(l, n) ==
  /\ l = [captures |-> l.captures, language |-> l.language, depth |-> l.depth, ranges |-> l.ranges,
          ends |-> l.ends, scopes |-> l.scopes]
  /\ IsSeq(l.captures) /\ \A i \in DOMAIN l.captures : PlaceIn(l.captures[i], n)
  /\ IsSeq(l.ends) /\ \A i \in DOMAIN l.ends : l.ends[i] \in 0..n

LayersOK(ls, t, n) ==
  /\ IsSeq(ls)
  /\ \A i \in DOMAIN ls : LayerOK(ls[i], n)
  /\ Total(ls, t)

\* What a step up keeps is so for all numbers up to n.
LEMMA UpTo ==
  ASSUME NEW n \in Nat, NEW G, 0 \in G, \A k \in 1..n : k - 1 \in G => k \in G
  PROVE  \A k \in 0..n : k \in G
<1> DEFINE bad == {k \in 0..n : k \notin G}
<1>1. SUFFICES ASSUME bad # {} PROVE FALSE OBVIOUS
<1>2. PICK k \in bad : \A m \in 0..(k - 1) : m \notin bad
  <2>1. IsWellFoundedOn(OpToRel(<, Nat), Nat) BY NatLessThanWellFounded
  <2>2. bad \subseteq Nat OBVIOUS
  <2> HIDE DEF bad
  <2>3. PICK k \in bad : \A m \in Nat : <<m, k>> \in OpToRel(<, Nat) => m \notin bad BY <1>1, <2>1, <2>2, WFMin
  <2>4. \A m \in 0..(k - 1) : <<m, k>> \in OpToRel(<, Nat) BY <2>2 DEF OpToRel
  <2>5. QED BY <2>2, <2>3, <2>4
<1>3. k # 0 BY <1>2
<1>4. k \in 1..n /\ k - 1 \in 0..(k - 1) /\ k - 1 \in 0..n BY <1>2, <1>3
<1>5. QED BY <1>2, <1>4

\* The ends of a layer have a number.
LEMMA EndsCount ==
  ASSUME NEW ls, NEW t, NEW n, LayersOK(ls, t, n)
  PROVE  /\ Len(ls) \in Nat /\ DOMAIN ls = 1..Len(ls) /\ t \in Int
         /\ \A k \in 1..Len(ls) : Len(ls[k].ends) \in Nat
<1>1. Len(ls) \in Nat /\ DOMAIN ls = 1..Len(ls) BY AnySeq DEF LayersOK, IsSeq
<1>2. \A k \in 1..Len(ls) : IsSeq(ls[k].ends) BY <1>1 DEF LayersOK, LayerOK
<1>3. \A k \in 1..Len(ls) : Len(ls[k].ends) \in Nat BY <1>2, NotEmpty
<1>4. t \in Int BY <1>1 DEF LayersOK, Total, Sums
<1>5. QED BY <1>1, <1>3, <1>4

\* No fewer than none are open.
LEMMA TotalNat ==
  ASSUME NEW ls, NEW t, NEW n, LayersOK(ls, t, n)
  PROVE  t \in Nat
<1>1. /\ Len(ls) \in Nat /\ \A k \in 1..Len(ls) : Len(ls[k].ends) \in Nat BY EndsCount
<1>2. PICK h : Sums(h, ls) /\ h[Len(ls)] = t BY DEF LayersOK, Total
<1> DEFINE G == {k \in 0..Len(ls) : h[k] \in Nat}
<1>3. 0 \in G BY <1>1, <1>2 DEF Sums
<1>4. ASSUME NEW k \in 1..Len(ls), k - 1 \in G PROVE k \in G
  <2>1. PICK x, y : x = h[k - 1] /\ y = Len(ls[k].ends) OBVIOUS
  <2>2. x \in Nat /\ y \in Nat /\ h[k] = x + y BY <1>1, <1>2, <1>4, <2>1 DEF Sums
  <2>3. h[k] \in Nat BY <2>2
  <2>4. QED BY <1>1, <2>3
<1>5. \A k \in 0..Len(ls) : k \in G
  <2> HIDE DEF G
  <2>1. QED BY <1>1, <1>3, <1>4, UpTo
<1>6. QED BY <1>1, <1>2, <1>5

\* Layers without ends have no open highlights.
LEMMA TotalNone ==
  ASSUME NEW ls, NEW t, NEW n, LayersOK(ls, t, n), \A k \in DOMAIN ls : ls[k].ends = <<>>
  PROVE  t = 0
<1>1. Len(ls) \in Nat /\ DOMAIN ls = 1..Len(ls) BY EndsCount
<1>2. PICK h : Sums(h, ls) /\ h[Len(ls)] = t BY DEF LayersOK, Total
<1>3. \A k \in 1..Len(ls) : Len(ls[k].ends) = 0 BY <1>1, EmptyIsSeq
<1> DEFINE G == {k \in 0..Len(ls) : h[k] = 0}
<1>4. 0 \in G BY <1>1, <1>2 DEF Sums
<1>5. \A k \in 1..Len(ls) : k - 1 \in G => k \in G BY <1>1, <1>2, <1>3 DEF Sums
<1>6. \A k \in 0..Len(ls) : k \in G
  <2> HIDE DEF G
  <2>1. QED BY <1>1, <1>4, <1>5, UpTo
<1>7. QED BY <1>1, <1>2, <1>6

\* Layers one after the other.
LEMMA LayersJoin ==
  ASSUME NEW n, NEW a, NEW t, LayersOK(a, t, n), NEW b, NEW u, LayersOK(b, u, n), NEW y, y = a \o b
  PROVE  LayersOK(y, t + u, n)
<1>1. /\ Len(a) \in Nat /\ DOMAIN a = 1..Len(a) /\ Len(b) \in Nat /\ DOMAIN b = 1..Len(b) /\ t \in Int /\ u \in Int
  BY EndsCount
<1>2. /\ IsSeq(y) /\ Len(y) = Len(a) + Len(b) /\ DOMAIN y = 1..(Len(a) + Len(b))
      /\ \A i \in 1..(Len(a) + Len(b)) : y[i] = IF i <= Len(a) THEN a[i] ELSE b[i - Len(a)]
  BY ConcatFacts DEF LayersOK
<1>3. \A i \in DOMAIN y : LayerOK(y[i], n)
  <2>1. SUFFICES ASSUME NEW i \in DOMAIN y PROVE LayerOK(y[i], n) OBVIOUS
  <2>2. CASE i <= Len(a) BY <1>1, <1>2, <2>2 DEF LayersOK
  <2>3. CASE ~(i <= Len(a))
    <3>1. i - Len(a) \in DOMAIN b /\ y[i] = b[i - Len(a)] BY <1>1, <1>2, <2>3
    <3>2. QED BY <3>1 DEF LayersOK
  <2>4. QED BY <2>2, <2>3
<1>4. PICK g : Sums(g, a) /\ g[Len(a)] = t BY DEF LayersOK, Total
<1>5. PICK f : Sums(f, b) /\ f[Len(b)] = u BY DEF LayersOK, Total
<1>6. PICK h : h = [k \in 0..(Len(a) + Len(b)) |-> IF k <= Len(a) THEN g[k] ELSE t + f[k - Len(a)]] OBVIOUS
<1>7. \A k \in 0..Len(a) : h[k] = g[k] /\ h[k] \in Int BY <1>1, <1>4, <1>6 DEF Sums
<1>8. \A k \in 0..Len(b) : h[Len(a) + k] = t + f[k] /\ h[Len(a) + k] \in Int
  <2>1. SUFFICES ASSUME NEW k \in 0..Len(b) PROVE h[Len(a) + k] = t + f[k] /\ h[Len(a) + k] \in Int OBVIOUS
  <2>2. f[k] \in Int /\ f[0] = 0 BY <1>5 DEF Sums
  <2>3. CASE k = 0 BY <1>1, <1>4, <1>7, <2>2, <2>3
  <2>4. CASE k # 0
    <3>1. Len(a) + k \in 0..(Len(a) + Len(b)) /\ ~(Len(a) + k <= Len(a)) /\ (Len(a) + k) - Len(a) = k BY <1>1, <2>4
    <3>2. h[Len(a) + k] = t + f[k] BY <1>6, <3>1
    <3>3. QED BY <1>1, <2>2, <3>2
  <2>5. QED BY <2>3, <2>4
<1>9. Sums(h, y)
  <2>1. h[0] = 0 BY <1>1, <1>4, <1>7 DEF Sums
  <2>2. ASSUME NEW k \in 0..Len(y) PROVE h[k] \in Int
    <3>1. CASE k <= Len(a) BY <1>1, <1>2, <1>7, <3>1
    <3>2. CASE ~(k <= Len(a))
      <4>1. PICK j \in 0..Len(b) : k = Len(a) + j
        <5>1. k - Len(a) \in 0..Len(b) /\ k = Len(a) + (k - Len(a)) BY <1>1, <1>2, <3>2
        <5>2. QED BY <5>1
      <4>2. QED BY <1>8, <4>1
    <3>3. QED BY <3>1, <3>2
  <2>3. ASSUME NEW k \in 1..Len(y) PROVE h[k] = h[k - 1] + Len(y[k].ends)
    <3>1. CASE k <= Len(a)
      <4>1. k \in 1..Len(a) /\ k \in 0..Len(a) /\ k - 1 \in 0..Len(a) /\ y[k] = a[k] BY <1>1, <1>2, <3>1
      <4>2. QED BY <1>4, <1>7, <4>1 DEF Sums
    <3>2. CASE ~(k <= Len(a))
      <4>1. PICK j \in 1..Len(b) : k = Len(a) + j
        <5>1. k - Len(a) \in 1..Len(b) /\ k = Len(a) + (k - Len(a)) BY <1>1, <1>2, <3>2
        <5>2. QED BY <5>1
      <4>2. y[k] = b[j] /\ k - 1 = Len(a) + (j - 1) /\ j - 1 \in 0..Len(b) /\ j \in 0..Len(b)
        <5>1. k - Len(a) = j BY <1>1, <4>1
        <5>2. QED BY <1>1, <1>2, <3>2, <4>1, <5>1
      <4>3. h[k] = t + f[j] /\ h[k - 1] = t + f[j - 1] BY <1>8, <4>1, <4>2
      <4>4. f[j] = f[j - 1] + Len(b[j].ends) /\ f[j - 1] \in Int /\ f[j] \in Int BY <1>5, <4>1, <4>2 DEF Sums
      <4>5. Len(b[j].ends) \in Nat BY <4>1, EndsCount
      <4>6. QED BY <1>1, <4>2, <4>3, <4>4, <4>5
    <3>3. QED BY <3>1, <3>2
  <2>4. QED BY <2>1, <2>2, <2>3 DEF Sums
<1>10. h[Len(y)] = t + u
  <2>1. Len(b) \in 0..Len(b) BY <1>1
  <2>2. QED BY <1>2, <1>5, <1>8, <2>1
<1>11. QED BY <1>2, <1>3, <1>9, <1>10 DEF LayersOK, Total

\* A part of the layers.
LEMMA LayersPart ==
  ASSUME NEW n, NEW ls, NEW t, LayersOK(ls, t, n), NEW h, Sums(h, ls),
         NEW i \in Nat \ {0}, NEW j \in Nat, j <= Len(ls), i <= j + 1, NEW y, y = SubSeq(ls, i, j)
  PROVE  LayersOK(y, h[j] - h[i - 1], n)
<1>1. Len(ls) \in Nat /\ DOMAIN ls = 1..Len(ls) BY EndsCount
<1>2. /\ IsSeq(y) /\ Len(y) = (IF i <= j THEN j - i + 1 ELSE 0) /\ DOMAIN y = 1..Len(y)
      /\ \A k \in DOMAIN y : i + k - 1 \in 1..j /\ y[k] = ls[i + k - 1]
  BY SubFacts DEF LayersOK
<1>3. Len(y) = j - i + 1 /\ Len(y) \in Nat BY <1>2
<1>4. \A k \in DOMAIN y : LayerOK(y[k], n) BY <1>1, <1>2 DEF LayersOK
<1>5. PICK g : g = [k \in 0..Len(y) |-> h[i - 1 + k] - h[i - 1]] OBVIOUS
<1>6. \A k \in 0..Len(y) : i - 1 + k \in 0..Len(ls) /\ g[k] = h[i - 1 + k] - h[i - 1]
  BY <1>1, <1>3, <1>5
<1>7. \A k \in 0..Len(ls) : h[k] \in Int BY DEF Sums
<1>8. i - 1 \in 0..Len(ls) BY <1>1
<1>9. Sums(g, y)
  <2>1. g[0] = 0 BY <1>3, <1>6, <1>7, <1>8
  <2>2. ASSUME NEW k \in 1..Len(y) PROVE g[k] = g[k - 1] + Len(y[k].ends)
    <3>1. i + k - 1 \in 1..Len(ls) /\ y[k] = ls[i + k - 1] BY <1>1, <1>2, <1>3
    <3>2. g[k] = h[i - 1 + k] - h[i - 1] /\ g[k - 1] = h[i - 1 + (k - 1)] - h[i - 1] BY <1>3, <1>6
    <3>3. PICK m \in 1..Len(ls) : m = i + k - 1 BY <3>1
    <3>4. h[m] = h[m - 1] + Len(ls[m].ends) /\ h[m] \in Int /\ h[m - 1] \in Int BY <1>1, <1>7 DEF Sums
    <3>5. g[k] = h[m] - h[i - 1] /\ g[k - 1] = h[m - 1] - h[i - 1]
      <4>1. i - 1 + k = m /\ i - 1 + (k - 1) = m - 1 BY <1>3, <3>3
      <4>2. QED BY <3>2, <4>1
    <3>6. Len(ls[m].ends) \in Nat /\ h[i - 1] \in Int BY <1>7, <1>8, EndsCount
    <3>7. PICK a, b, c : a = h[m - 1] /\ b = Len(ls[m].ends) /\ c = h[i - 1] OBVIOUS
    <3>8. a \in Int /\ b \in Nat /\ c \in Int /\ g[k] = (a + b) - c /\ g[k - 1] = a - c BY <3>4, <3>5, <3>6, <3>7
    <3>9. g[k] = g[k - 1] + b BY <3>8
    <3>10. QED BY <3>1, <3>3, <3>7, <3>9
  <2>3. ASSUME NEW k \in 0..Len(y) PROVE g[k] \in Int
    <3>1. PICK a, b : a = h[i - 1 + k] /\ b = h[i - 1] OBVIOUS
    <3>2. a \in Int /\ b \in Int /\ g[k] = a - b BY <1>6, <1>7, <1>8, <3>1
    <3>3. QED BY <3>2
  <2>4. QED BY <2>1, <2>2, <2>3 DEF Sums
<1>10. g[Len(y)] = h[j] - h[i - 1]
  <2>1. Len(y) \in 0..Len(y) /\ i - 1 + Len(y) = j BY <1>3
  <2>2. QED BY <1>6, <2>1
<1>11. QED BY <1>2, <1>4, <1>9, <1>10 DEF LayersOK, Total

\* One layer.
LEMMA LayersOne ==
  ASSUME NEW n, NEW l, LayerOK(l, n)
  PROVE  LayersOK(<<l>>, Len(l.ends), n)
<1>1. PICK y : y = <<l>> OBVIOUS
<1>2. IsSeq(y) /\ Len(y) = 1 /\ DOMAIN y = 1..1 /\ y[1] = l BY <1>1, OneFacts
<1>3. Len(l.ends) \in Nat BY NotEmpty DEF LayerOK
<1>4. PICK h : h = [k \in 0..1 |-> IF k = 0 THEN 0 ELSE Len(l.ends)] OBVIOUS
<1>5. h[0] = 0 /\ h[1] = Len(l.ends) BY <1>4
<1>6. Sums(h, y)
  <2>1. \A k \in 0..Len(y) : k = 0 \/ k = 1 BY <1>2
  <2>2. \A k \in 1..Len(y) : k = 1 /\ k - 1 = 0 BY <1>2
  <2>3. QED BY <1>2, <1>3, <1>5, <2>1, <2>2 DEF Sums
<1>7. \A i \in DOMAIN y : LayerOK(y[i], n) BY <1>2
<1>8. QED BY <1>1, <1>2, <1>5, <1>6, <1>7 DEF LayersOK, Total

\* Another layer in front.
LEMMA LayersTop ==
  ASSUME NEW n, NEW ls, NEW t, LayersOK(ls, t, n), ls # <<>>, NEW l, LayerOK(l, n), NEW y, y = [ls EXCEPT ![1] = l]
  PROVE  LayersOK(y, t + Len(l.ends) - Len(ls[1].ends), n) /\ y # <<>>
<1>1. Len(ls) \in Nat /\ DOMAIN ls = 1..Len(ls) /\ t \in Int BY EndsCount
<1>2. Len(ls) >= 1 BY NotEmpty DEF LayersOK
<1>3. 1 \in 1..Len(ls) /\ Len(ls[1].ends) \in Nat BY <1>1, <1>2, EndsCount
<1>4. /\ IsSeq(y) /\ Len(y) = Len(ls) /\ DOMAIN y = 1..Len(ls) /\ \A i \in 1..Len(ls) : y[i] = IF i = 1 THEN l ELSE ls[i]
  BY <1>3, ExceptFacts DEF LayersOK
<1>5. Len(l.ends) \in Nat BY NotEmpty DEF LayerOK
<1>6. \A i \in DOMAIN y : LayerOK(y[i], n) BY <1>1, <1>4 DEF LayersOK
<1>7. PICK h : Sums(h, ls) /\ h[Len(ls)] = t BY DEF LayersOK, Total
<1>8. PICK d, x, z : d = x - z /\ x = Len(l.ends) /\ z = Len(ls[1].ends) OBVIOUS
<1>18. d \in Int /\ x \in Nat /\ z \in Nat BY <1>3, <1>5, <1>8
<1>9. PICK g : g = [k \in 0..Len(ls) |-> IF k = 0 THEN 0 ELSE h[k] + d] OBVIOUS
<1>10. \A k \in 0..Len(ls) : h[k] \in Int BY <1>7 DEF Sums
<1>11. g[0] = 0 /\ \A k \in 1..Len(ls) : g[k] = h[k] + d /\ h[k] \in Int 
  <2>1. 0 \in 0..Len(ls) /\ \A k \in 1..Len(ls) : k \in 0..Len(ls) /\ k # 0 BY <1>1
  <2>2. QED BY <1>9, <1>10, <2>1
<1>12. \A k \in 0..Len(y) : g[k] \in Int BY <1>4, <1>18, <1>9, <1>10
<1>13. ASSUME NEW k \in 1..Len(y) PROVE g[k] = g[k - 1] + Len(y[k].ends)
  <2>1. k \in 1..Len(ls) /\ h[k] = h[k - 1] + Len(ls[k].ends) /\ h[0] = 0 BY <1>4, <1>7 DEF Sums
  <2>2. Len(ls[k].ends) \in Nat BY <2>1, EndsCount
  <2>3. CASE k = 1
    <3>1. h[1] = Len(ls[1].ends) /\ g[1] = h[1] + d /\ g[k - 1] = 0 BY <1>3, <1>11, <2>1, <2>2, <2>3
    <3>2. y[k] = l BY <1>4, <2>1, <2>3
    <3>3. g[k] = z + d /\ g[k - 1] = 0 /\ Len(y[k].ends) = x BY <1>8, <2>3, <3>1, <3>2
    <3>4. d = x - z BY <1>8
    <3>5. z + d = 0 + x BY <1>18, <3>4
    <3>6. QED BY <3>3, <3>5
  <2>4. CASE k # 1
    <3>1. k - 1 \in 1..Len(ls) /\ y[k] = ls[k] BY <1>4, <2>1, <2>4
    <3>2. g[k] = h[k] + d /\ g[k - 1] = h[k - 1] + d /\ h[k - 1] \in Int BY <1>11, <2>1, <3>1
    <3>3. PICK a, b : a = h[k - 1] /\ b = Len(ls[k].ends) OBVIOUS
    <3>4. a \in Int /\ b \in Nat /\ g[k] = (a + b) + d /\ g[k - 1] = a + d BY <2>1, <2>2, <3>2, <3>3
    <3>5. g[k] = g[k - 1] + b BY <1>18, <3>4
    <3>6. QED BY <3>1, <3>3, <3>5
  <2>5. QED BY <2>3, <2>4
<1>14. Sums(g, y) BY <1>11, <1>12, <1>13 DEF Sums
<1>15. g[Len(y)] = t + Len(l.ends) - Len(ls[1].ends) 
  <2>1. Len(ls) \in 1..Len(ls) BY <1>1, <1>2
  <2>2. g[Len(y)] = t + d BY <1>4, <1>7, <1>11, <2>1
  <2>3. t + d = t + x - z BY <1>1, <1>8, <1>18
  <2>4. QED BY <1>8, <2>2, <2>3
<1>16. y # <<>> BY <1>2, <1>4, EmptyIsSeq
<1>17. QED BY <1>4, <1>6, <1>14, <1>15, <1>16 DEF LayersOK, Total

\* No layers.
LEMMA LayersNone == ASSUME NEW n PROVE LayersOK(<<>>, 0, n)
<1>1. PICK y : y = <<>> OBVIOUS
<1>2. IsSeq(y) /\ Len(y) = 0 /\ DOMAIN y = {} BY <1>1, EmptyIsSeq
<1>3. PICK h : h = [k \in 0..0 |-> 0] OBVIOUS
<1>4. h[0] = 0 BY <1>3
<1>5. \A k \in 0..Len(y) : k = 0 BY <1>2
<1>6. \A k \in 1..Len(y) : FALSE BY <1>2
<1>7. Sums(h, y) BY <1>4, <1>5, <1>6 DEF Sums
<1>8. QED BY <1>1, <1>2, <1>4, <1>7 DEF LayersOK, Total

\* One layer more.
LEMMA LayersMore ==
  ASSUME NEW n, NEW ls, NEW t, LayersOK(ls, t, n), NEW l, LayerOK(l, n), NEW y, y = Append(ls, l)
  PROVE  LayersOK(y, t + Len(l.ends), n)
<1>1. PICK one : one = <<l>> OBVIOUS
<1>2. LayersOK(one, Len(l.ends), n) BY <1>1, LayersOne
<1>3. IsSeq(one) /\ Len(one) = 1 /\ DOMAIN one = 1..1 /\ one[1] = l BY <1>1, OneFacts
<1>4. IsSeq(ls) BY DEF LayersOK
<1>5. PICK z : z = ls \o one OBVIOUS
<1>6. /\ IsSeq(z) /\ Len(ls) \in Nat /\ Len(z) = Len(ls) + 1
      /\ \A i \in 1..(Len(ls) + 1) : z[i] = IF i <= Len(ls) THEN ls[i] ELSE one[i - Len(ls)]
  BY <1>3, <1>4, <1>5, ConcatFacts
<1>7. /\ IsSeq(y) /\ Len(y) = Len(ls) + 1 /\ y[Len(ls) + 1] = l /\ \A i \in 1..Len(ls) : y[i] = ls[i]
  BY <1>4, AppendFacts
<1>8. ASSUME NEW i \in 1..Len(y) PROVE y[i] = z[i]
  <2>1. CASE i <= Len(ls) BY <1>6, <1>7, <2>1
  <2>2. CASE ~(i <= Len(ls))
    <3>1. i = Len(ls) + 1 /\ i - Len(ls) = 1 BY <1>6, <1>7, <2>2
    <3>2. z[i] = one[1] BY <1>6, <2>2, <3>1
    <3>3. QED BY <1>3, <1>7, <3>1, <3>2
  <2>3. QED BY <2>1, <2>2
<1>9. y = z BY <1>6, <1>7, <1>8, SameSeq
<1>10. QED BY <1>2, <1>5, <1>9, LayersJoin

-----------------------------------------------------------------------------
(* The elements that are kept                                                *)

KeptOp(s, places, w, kept, i) == IF i \in places THEN Append(kept, s[i]) ELSE kept
KeptSome(s, places, w, k, kept) ==
  IsSeq(kept) /\ \A j \in DOMAIN kept : \E i \in DOMAIN s : i \in places /\ kept[j] = s[i]
KeptFold == INSTANCE FoldInduction WITH Op <- KeptOp, P <- KeptSome

\* With what is open in the first layers, and the length of the text.
KeptOpen(s, places, w, k, kept) == LayersOK(kept, w[1][k], w[2])
OpenFold == INSTANCE FoldInduction WITH Op <- KeptOp, P <- KeptOpen

\* What is kept are elements that should be.
LEMMA KeptFacts ==
  ASSUME NEW s, IsSeq(s), NEW places, NEW y, y = KeptAt(s, places)
  PROVE  IsSeq(y) /\ \A j \in DOMAIN y : \E i \in DOMAIN s : i \in places /\ y[j] = s[i]
<1>1. Len(s) \in Nat /\ DOMAIN s = 1..Len(s) BY NotEmpty
<1>2. PICK n \in Nat : n = Len(s) BY <1>1
<1>3. PICK r : r = [i \in DOMAIN s |-> i] OBVIOUS
<1>4. DOMAIN r = 1..n /\ \A i \in 1..n : r[i] = i BY <1>1, <1>2, <1>3
<1>5. KeptAt(s, places) = KeptFold!Fold(s, places, 0, <<>>, r)
  <2>1. KeptAt(s, places) = KeptFold!Fold(s, places, 0, <<>>, [i \in DOMAIN s |-> i])
    BY Zenon DEF KeptAt, KeptFold!Fold, KeptOp, FoldLeft, MapThenFoldSet, Max, KeptFold!FoldLeft,
                 KeptFold!MapThenFoldSet, KeptFold!Max
  <2>2. QED BY <1>3, <2>1, Zenon
<1>6. KeptSome(s, places, 0, 0, <<>>) BY EmptyIsSeq DEF KeptSome
<1>7. ASSUME NEW k \in 1..n, NEW x, KeptSome(s, places, 0, k - 1, x)
      PROVE  KeptSome(s, places, 0, k, KeptOp(s, places, 0, x, r[k]))
  <2>1. r[k] = k /\ k \in DOMAIN s BY <1>1, <1>2, <1>4
  <2>2. CASE k \in places
    <3>1. PICK z : z = Append(x, s[k]) OBVIOUS
    <3>2. /\ IsSeq(z) /\ Len(x) \in Nat /\ DOMAIN x = 1..Len(x) /\ DOMAIN z = 1..(Len(x) + 1)
          /\ (\A i \in 1..Len(x) : z[i] = x[i]) /\ z[Len(x) + 1] = s[k]
      BY <1>7, <3>1, AppendFacts DEF KeptSome
    <3>3. ASSUME NEW j \in DOMAIN z PROVE \E i \in DOMAIN s : i \in places /\ z[j] = s[i]
      <4>1. CASE j \in 1..Len(x) BY <1>7, <3>2, <4>1 DEF KeptSome
      <4>2. CASE j = Len(x) + 1 BY <2>1, <2>2, <3>2, <4>2
      <4>3. QED BY <3>2, <4>1, <4>2
    <3>4. KeptOp(s, places, 0, x, r[k]) = z BY <2>1, <2>2, <3>1 DEF KeptOp
    <3>5. QED BY <3>2, <3>3, <3>4 DEF KeptSome
  <2>3. CASE k \notin places
    <3>1. KeptOp(s, places, 0, x, r[k]) = x BY <2>1, <2>3 DEF KeptOp
    <3>2. QED BY <1>7, <3>1 DEF KeptSome
  <2>4. QED BY <2>2, <2>3
<1> HIDE DEF KeptSome, KeptOp
<1>8. KeptSome(s, places, 0, n, KeptFold!Fold(s, places, 0, <<>>, r)) BY <1>4, <1>6, <1>7, KeptFold!FoldKeeps
<1>9. QED BY <1>5, <1>8 DEF KeptSome

\* When only layers without ends are left out, as many highlights are open.
LEMMA KeptLayers ==
  ASSUME NEW n, NEW ls, NEW t, LayersOK(ls, t, n), NEW places,
         \A i \in DOMAIN ls : ls[i].ends # <<>> => i \in places,
         NEW y, y = KeptAt(ls, places)
  PROVE  LayersOK(y, t, n)
<1>1. Len(ls) \in Nat /\ DOMAIN ls = 1..Len(ls) /\ \A k \in 1..Len(ls) : Len(ls[k].ends) \in Nat BY EndsCount
<1>2. PICK m \in Nat : m = Len(ls) BY <1>1
<1>3. PICK r : r = [i \in DOMAIN ls |-> i] OBVIOUS
<1>4. DOMAIN r = 1..m /\ \A i \in 1..m : r[i] = i BY <1>1, <1>2, <1>3
<1>5. PICK h : Sums(h, ls) /\ h[Len(ls)] = t BY DEF LayersOK, Total
<1>6. PICK w : w = <<h, n>> OBVIOUS
<1>7. w[1] = h /\ w[2] = n BY <1>6
<1>8. KeptAt(ls, places) = OpenFold!Fold(ls, places, w, <<>>, r)
  <2>1. KeptAt(ls, places) = OpenFold!Fold(ls, places, w, <<>>, [i \in DOMAIN ls |-> i])
    BY Zenon DEF KeptAt, OpenFold!Fold, KeptOp, FoldLeft, MapThenFoldSet, Max, OpenFold!FoldLeft,
                 OpenFold!MapThenFoldSet, OpenFold!Max
  <2>2. QED BY <1>3, <2>1, Zenon
<1>9. KeptOpen(ls, places, w, 0, <<>>)
  <2>1. h[0] = 0 BY <1>5 DEF Sums
  <2>2. QED BY <1>7, <2>1, LayersNone DEF KeptOpen
<1>10. ASSUME NEW k \in 1..m, NEW x, KeptOpen(ls, places, w, k - 1, x)
       PROVE  KeptOpen(ls, places, w, k, KeptOp(ls, places, w, x, r[k]))
  <2>1. r[k] = k /\ k \in DOMAIN ls BY <1>1, <1>2, <1>4
  <2>2. LayersOK(x, h[k - 1], n) /\ LayerOK(ls[k], n) BY <1>7, <1>10, <2>1 DEF KeptOpen, LayersOK
  <2>3. h[k] = h[k - 1] + Len(ls[k].ends) BY <1>2, <1>5 DEF Sums
  <2>4. CASE k \in places
    <3>1. PICK z : z = Append(x, ls[k]) OBVIOUS
    <3>2. LayersOK(z, h[k - 1] + Len(ls[k].ends), n) BY <2>2, <3>1, LayersMore
    <3>3. KeptOp(ls, places, w, x, r[k]) = z BY <2>1, <2>4, <3>1 DEF KeptOp
    <3>4. QED BY <1>7, <2>3, <3>2, <3>3 DEF KeptOpen
  <2>5. CASE k \notin places
    <3>1. ls[k].ends = <<>> BY <2>1, <2>5
    <3>2. Len(ls[k].ends) = 0 BY <3>1, EmptyIsSeq
    <3>3. h[k] = h[k - 1]
      <4>1. h[k - 1] \in Int BY <2>2, EndsCount
      <4>2. QED BY <2>3, <3>2, <4>1
    <3>4. KeptOp(ls, places, w, x, r[k]) = x BY <2>1, <2>5 DEF KeptOp
    <3>5. QED BY <1>7, <2>2, <3>3, <3>4 DEF KeptOpen
  <2>6. QED BY <2>4, <2>5
<1> HIDE DEF KeptOpen, KeptOp
<1>11. KeptOpen(ls, places, w, m, OpenFold!Fold(ls, places, w, <<>>, r)) BY <1>4, <1>9, <1>10, OpenFold!FoldKeeps
<1>12. QED BY <1>2, <1>5, <1>7, <1>8, <1>11 DEF KeptOpen

-----------------------------------------------------------------------------
(* The order of layers                                                       *)

\* The least of some numbers.
LEMMA LeastIs ==
  ASSUME NEW I, I \subseteq Nat, I # {}
  PROVE  Min(I) \in I /\ \A i \in I : Min(I) <= i
<1>1. PICK k \in I : \A m \in 0..(k - 1) : m \notin I BY KeptFold!LeastNumber
<1>2. \A i \in I : k <= i BY <1>1
<1>3. QED BY <1>2 DEF Min

\* Layers that are dropped in front have nothing left.
LEMMA LiveOK ==
  ASSUME NEW n, NEW ls, NEW t, LayersOK(ls, t, n), NEW first, first = SelectInSeq(ls, HasKey),
         NEW live, live = IF first = 0 THEN <<>> ELSE SubSeq(ls, first, Len(ls))
  PROVE  LayersOK(live, t, n)
<1>1. Len(ls) \in Nat /\ DOMAIN ls = 1..Len(ls) /\ t \in Int BY EndsCount
<1>2. PICK m \in Nat : m = Len(ls) BY <1>1
<1>3. PICK I : I = {i \in 1..m : HasKey(ls[i])} OBVIOUS
<1>4. first = IF I # {} THEN Min(I) ELSE 0 BY <1>2, <1>3 DEF SelectInSeq
<1>5. \A i \in 1..m : i \notin I => ls[i].ends = <<>> BY <1>3 DEF HasKey
<1>6. CASE I = {}
  <2>1. \A k \in DOMAIN ls : ls[k].ends = <<>> BY <1>1, <1>2, <1>5, <1>6
  <2>2. t = 0 BY <2>1, TotalNone
  <2>3. live = <<>> BY <1>4, <1>6
  <2>4. QED BY <2>2, <2>3, LayersNone
<1>7. CASE I # {}
  <2>1. I \subseteq Nat BY <1>3
  <2>2. first \in I /\ \A i \in I : first <= i BY <1>4, <1>7, <2>1, LeastIs
  <2>3. first \in 1..m BY <1>3, <2>2
  <2>4. PICK h : Sums(h, ls) /\ h[m] = t BY <1>2 DEF LayersOK, Total
  <2>5. PICK f \in Nat : f = first - 1 BY <2>3
  <2>6. PICK front : front = SubSeq(ls, 1, f) OBVIOUS
  <2>7. f <= Len(ls) /\ 1 <= f + 1 BY <1>2, <2>3, <2>5
  <2>8. LayersOK(front, h[f] - h[1 - 1], n) 
    <3>1. PICK i : i = 1 OBVIOUS
    <3>2. i \in Nat \ {0} /\ f \in Nat /\ f <= Len(ls) /\ i <= f + 1 /\ front = SubSeq(ls, i, f) BY <2>6, <2>7, <3>1
    <3>3. LayersOK(front, h[f] - h[i - 1], n) BY <2>4, <3>2, LayersPart
    <3>4. QED BY <3>1, <3>3
  <2>9. \A k \in DOMAIN front : front[k].ends = <<>>
    <3>1. IsSeq(ls) BY DEF LayersOK
    <3>2. \A k \in DOMAIN front : 1 + k - 1 \in 1..f /\ front[k] = ls[1 + k - 1] BY <2>6, <2>7, <3>1, SubFacts
    <3>3. \A k \in 1..f : k \in 1..m /\ k \notin I BY <2>2, <2>3, <2>5
    <3>4. QED BY <1>5, <3>2, <3>3
  <2>10. h[f] - h[1 - 1] = 0 BY <2>8, <2>9, TotalNone
  <2>11. h[f] = 0
    <3>1. h[0] = 0 /\ h[f] \in Int BY <2>4, <2>7 DEF Sums
    <3>2. QED BY <2>10, <3>1
  <2>12. live = SubSeq(ls, first, m) BY <1>2, <2>3
  <2>13. first \in Nat \ {0} /\ m <= Len(ls) /\ first <= m + 1 BY <1>2, <2>3
  <2>14. LayersOK(live, h[m] - h[first - 1], n) BY <2>4, <2>12, <2>13, LayersPart
  <2>15. h[m] - h[first - 1] = t BY <1>1, <2>4, <2>5, <2>11
  <2>16. QED BY <2>14, <2>15
<1>8. QED BY <1>6, <1>7

\* The first layer is moved.
LEMMA MovedOK ==
  ASSUME NEW n, NEW ls, NEW t, LayersOK(ls, t, n), NEW m \in Nat, m + 1 <= Len(ls),
         NEW y, y = SubSeq(ls, 2, m + 1) \o <<ls[1]>> \o SubSeq(ls, m + 2, Len(ls))
  PROVE  LayersOK(y, t, n)
<1>1. Len(ls) \in Nat /\ DOMAIN ls = 1..Len(ls) /\ t \in Int BY EndsCount
<1>2. PICK h : Sums(h, ls) /\ h[Len(ls)] = t BY DEF LayersOK, Total
<1>3. PICK a, b, c, d : /\ a = SubSeq(ls, 2, m + 1) /\ b = <<ls[1]>> /\ c = SubSeq(ls, m + 2, Len(ls))
                        /\ d = a \o b
  OBVIOUS
<1>4. LayersOK(a, h[m + 1] - h[2 - 1], n)
  <2>1. PICK i, j : i = 2 /\ j = m + 1 OBVIOUS
  <2>2. i \in Nat \ {0} /\ j \in Nat /\ j <= Len(ls) /\ i <= j + 1 /\ a = SubSeq(ls, i, j) BY <1>1, <1>3, <2>1
  <2>3. LayersOK(a, h[j] - h[i - 1], n) BY <1>2, <2>2, LayersPart
  <2>4. QED BY <2>1, <2>3
<1>5. LayersOK(c, h[Len(ls)] - h[m + 2 - 1], n)
  <2>1. PICK i, j : i = m + 2 /\ j = Len(ls) OBVIOUS
  <2>2. i \in Nat \ {0} /\ j \in Nat /\ j <= Len(ls) /\ i <= j + 1 /\ c = SubSeq(ls, i, j) BY <1>1, <1>3, <2>1
  <2>3. LayersOK(c, h[j] - h[i - 1], n) BY <1>2, <2>2, LayersPart
  <2>4. QED BY <2>1, <2>3
<1>6. LayerOK(ls[1], n) BY <1>1 DEF LayersOK
<1>7. LayersOK(b, Len(ls[1].ends), n) BY <1>3, <1>6, LayersOne
<1>8. PICK p, q, r : p = h[1] /\ q = h[m + 1] /\ r = Len(ls[1].ends) OBVIOUS
<1>9. p \in Int /\ q \in Int /\ r \in Int /\ p = r
  <2>1. 1 \in 1..Len(ls) /\ 1 \in 0..Len(ls) /\ m + 1 \in 0..Len(ls) BY <1>1
  <2>2. h[1] = h[1 - 1] + Len(ls[1].ends) /\ h[0] = 0 /\ h[1] \in Int /\ h[m + 1] \in Int BY <1>2, <2>1 DEF Sums
  <2>3. r \in Nat BY <1>8, <2>1, EndsCount
  <2>4. p = 0 + r BY <1>8, <2>2
  <2>5. QED BY <1>8, <2>2, <2>3, <2>4
<1>10. LayersOK(a, q - p, n) /\ LayersOK(c, t - q, n) /\ LayersOK(b, r, n)
  <2>1. 2 - 1 = 1 /\ m + 2 - 1 = m + 1 OBVIOUS
  <2>2. QED BY <1>2, <1>4, <1>5, <1>7, <1>8, <2>1
<1>11. LayersOK(d, (q - p) + r, n) BY <1>3, <1>10, LayersJoin
<1>12. y = d \o c BY <1>3
<1>13. LayersOK(y, ((q - p) + r) + (t - q), n) BY <1>10, <1>11, <1>12, LayersJoin
<1>14. ((q - p) + r) + (t - q) = t BY <1>1, <1>9
<1>15. QED BY <1>13, <1>14

\* sort_layers loses no highlight that is open.
LEMMA SortOK ==
  ASSUME NEW n, NEW ls, NEW t, LayersOK(ls, t, n), NEW y, y = sort_layers(ls)
  PROVE  LayersOK(y, t, n)
<1>1. PICK first : first = SelectInSeq(ls, HasKey) OBVIOUS
<1>2. PICK live : live = IF first = 0 THEN <<>> ELSE SubSeq(ls, first, Len(ls)) OBVIOUS
<1>3. LayersOK(live, t, n) BY <1>1, <1>2, LiveOK
<1>4. PICK behind : behind = {i \in 2..Len(live) : \A j \in 2..i :
                                HasKey(live[j]) /\ Less(sort_key(live[j]), sort_key(live[1]))}
  OBVIOUS
<1>5. PICK m : m = Cardinality(behind) OBVIOUS
<1>6. y = IF live = <<>> \/ m = 0 THEN live
          ELSE SubSeq(live, 2, m + 1) \o <<live[1]>> \o SubSeq(live, m + 2, Len(live))
  BY <1>1, <1>2, <1>4, <1>5 DEF sort_layers
<1>7. CASE live = <<>> \/ m = 0 BY <1>3, <1>6, <1>7
<1>8. CASE ~(live = <<>> \/ m = 0)
  <2>1. Len(live) \in Nat BY <1>3, EndsCount
  <2>2. Len(live) >= 1 BY <1>3, <1>8, NotEmpty DEF LayersOK
  <2>3. IsFiniteSet(2..Len(live)) /\ Cardinality(2..Len(live)) = Len(live) - 1 BY <2>1, <2>2, FS_Interval
  <2>4. behind \subseteq 2..Len(live) BY <1>4
  <2>5. IsFiniteSet(behind) /\ m <= Len(live) - 1 BY <1>5, <2>3, <2>4, FS_Subset
  <2>6. m \in Nat BY <1>5, <2>5, FS_CardinalityType
  <2>7. m + 1 <= Len(live) BY <2>1, <2>5, <2>6
  <2>8. QED BY <1>3, <1>6, <1>8, <2>6, <2>7, MovedOK
<1>9. QED BY <1>7, <1>8

\* A layer of a text that has no highlights open.
Fresh(ls, n) == IsSeq(ls) /\ \A i \in DOMAIN ls : LayerOK(ls[i], n) /\ ls[i].ends = <<>>

\* insert_layer: where a layer goes.
LEMMA InsertIs ==
  ASSUME NEW ls, IsSeq(ls), ls # <<>>, NEW l, HasKey(l)
  PROVE  \E at, sub, places :
           /\ at \in 2..(Len(ls) + 1) /\ sub = SubSeq(ls, 2, at - 1)
           /\ places = {i \in DOMAIN sub : HasKey(sub[i])}
           /\ insert_layer(ls, l) = <<ls[1]>> \o KeptAt(sub, places) \o <<l>> \o SubSeq(ls, at, Len(ls))
<1>1. Len(ls) \in Nat /\ Len(ls) >= 1 BY NotEmpty
<1> DEFINE after == {i \in 2..Len(ls) : HasKey(ls[i]) /\ Less(sort_key(l), sort_key(ls[i]))}
           at == IF after = {} THEN Len(ls) + 1 ELSE CHOOSE i \in after : \A j \in after : i <= j
           sub == SubSeq(ls, 2, at - 1)
           places == {i \in DOMAIN sub : HasKey(sub[i])}
<1>2. insert_layer(ls, l) = IF ~HasKey(l) THEN ls
                            ELSE <<ls[1]>> \o Kept(sub, HasKey) \o <<l>> \o SubSeq(ls, at, Len(ls))
  BY Zenon DEF insert_layer
<1>3. Kept(sub, HasKey) = KeptAt(sub, places) BY Zenon DEF Kept
<1>4. at \in 2..(Len(ls) + 1)
  <2>1. CASE after = {} BY <1>1, <2>1
  <2>2. CASE after # {}
    <3>1. after \subseteq Nat BY <1>1
    <3>2. at = Min(after) BY <2>2 DEF Min
    <3> HIDE DEF at
    <3>3. at \in after 
      <4> HIDE DEF after
      <4>1. QED BY <2>2, <3>1, <3>2, LeastIs
    <3>4. QED BY <1>1, <3>3
  <2>3. QED BY <2>1, <2>2
<1>5. sub = SubSeq(ls, 2, at - 1) /\ places = {i \in DOMAIN sub : HasKey(sub[i])} OBVIOUS
<1> HIDE DEF after, at, sub, places
<1>7. insert_layer(ls, l) = <<ls[1]>> \o KeptAt(sub, places) \o <<l>> \o SubSeq(ls, at, Len(ls))
  BY <1>2, <1>3, Zenon
<1>8. QED BY <1>4, <1>5, <1>7

\* insert_layer loses no highlight that is open.
LEMMA InsertOK ==
  ASSUME NEW n, NEW ls, NEW t, LayersOK(ls, t, n), ls # <<>>, NEW l, LayerOK(l, n), l.ends = <<>>,
         NEW y, y = insert_layer(ls, l)
  PROVE  LayersOK(y, t, n) /\ y # <<>>
<1>1. IsSeq(ls) /\ Len(ls) \in Nat /\ DOMAIN ls = 1..Len(ls) /\ t \in Int BY EndsCount DEF LayersOK
<1>2. Len(ls) >= 1 BY <1>1, NotEmpty
<1>3. CASE ~HasKey(l) BY <1>3 DEF insert_layer
<1>4. CASE HasKey(l)
  <2>1. PICK at, sub, places :
           /\ at \in 2..(Len(ls) + 1) /\ sub = SubSeq(ls, 2, at - 1)
           /\ places = {i \in DOMAIN sub : HasKey(sub[i])}
           /\ insert_layer(ls, l) = <<ls[1]>> \o KeptAt(sub, places) \o <<l>> \o SubSeq(ls, at, Len(ls))
    BY <1>1, <1>4, InsertIs
  <2>2. sub = SubSeq(ls, 2, at - 1) BY <2>1
  <2>3. PICK h : Sums(h, ls) /\ h[Len(ls)] = t BY DEF LayersOK, Total
  <2>4. LayersOK(sub, h[at - 1] - h[1], n)
    <3>1. PICK i, j : i = 2 /\ j = at - 1 OBVIOUS
    <3>2. i \in Nat \ {0} /\ j \in Nat /\ j <= Len(ls) /\ i <= j + 1 /\ sub = SubSeq(ls, i, j) /\ i - 1 = 1
      BY <1>1, <2>1, <3>1
    <3>3. LayersOK(sub, h[j] - h[i - 1], n) BY <2>3, <3>2, LayersPart
    <3>4. QED BY <3>1, <3>2, <3>3
  <2>5. PICK passed : passed = KeptAt(sub, places) OBVIOUS
  <2>6. \A i \in DOMAIN sub : sub[i].ends # <<>> => i \in places BY <2>1, <2>2 DEF HasKey
  <2>7. LayersOK(passed, h[at - 1] - h[1], n) BY <2>4, <2>5, <2>6, KeptLayers
  <2>8. PICK rest : rest = SubSeq(ls, at, Len(ls)) OBVIOUS
  <2>9. LayersOK(rest, h[Len(ls)] - h[at - 1], n)
    <3>1. PICK j : j = Len(ls) OBVIOUS
    <3>2. at \in Nat \ {0} /\ j \in Nat /\ j <= Len(ls) /\ at <= j + 1 /\ rest = SubSeq(ls, at, j) BY <1>1, <2>1, <2>8, <3>1
    <3>3. LayersOK(rest, h[j] - h[at - 1], n) BY <2>3, <3>2, LayersPart
    <3>4. QED BY <3>1, <3>3
  <2>10. 1 \in 1..Len(ls) BY <1>1, <1>2
  <2>11. LayerOK(ls[1], n) BY <1>1, <2>10 DEF LayersOK
  <2>12. PICK p, q, r : p = h[1] /\ q = h[at - 1] /\ r = Len(ls[1].ends) OBVIOUS
  <2>13. p \in Int /\ q \in Int /\ r \in Int /\ p = r
    <3>1. 1 \in 0..Len(ls) /\ at - 1 \in 0..Len(ls) BY <1>1, <1>2, <2>1
    <3>2. h[1] = h[1 - 1] + Len(ls[1].ends) /\ h[0] = 0 /\ h[1] \in Int /\ h[at - 1] \in Int BY <2>3, <2>10, <3>1 DEF Sums
    <3>3. r \in Nat BY <2>10, <2>12, EndsCount
    <3>4. p = 0 + r BY <2>12, <3>2
    <3>5. QED BY <2>12, <3>2, <3>3, <3>4
  <2>14. PICK one, two, a, b : one = <<ls[1]>> /\ two = <<l>> /\ a = one \o passed /\ b = a \o two OBVIOUS
  <2>15. LayersOK(one, r, n) BY <2>11, <2>12, <2>14, LayersOne
  <2>16. LayersOK(two, 0, n)
    <3>1. Len(l.ends) = 0 BY EmptyIsSeq
    <3>2. QED BY <2>14, <3>1, LayersOne
  <2>17. LayersOK(a, r + (q - p), n) BY <2>7, <2>12, <2>14, <2>15, LayersJoin
  <2>18. LayersOK(b, (r + (q - p)) + 0, n) BY <2>14, <2>16, <2>17, LayersJoin
  <2>19. y = b \o rest BY <2>1, <2>2, <2>5, <2>8, <2>14
  <2>20. LayersOK(rest, t - q, n) BY <2>3, <2>9, <2>12
  <2>21. LayersOK(y, ((r + (q - p)) + 0) + (t - q), n) BY <2>18, <2>19, <2>20, LayersJoin
  <2>22. ((r + (q - p)) + 0) + (t - q) = t BY <1>1, <2>13
  <2>23. LayersOK(y, t, n) BY <2>21, <2>22
  <2>24. Len(y) >= 1
    <3>1. IsSeq(one) /\ Len(one) = 1 /\ IsSeq(passed) /\ IsSeq(two) /\ IsSeq(a) /\ IsSeq(b) /\ IsSeq(rest)
      BY <2>7, <2>14, <2>16, <2>17, <2>18, <2>20, OneFacts DEF LayersOK
    <3>2. Len(a) \in Nat /\ Len(a) >= 1 BY <2>14, <3>1, ConcatFacts
    <3>3. Len(b) \in Nat /\ Len(b) >= 1 BY <2>14, <3>1, <3>2, ConcatFacts
    <3>4. QED BY <2>19, <3>1, <3>3, ConcatFacts
  <2>25. QED BY <2>23, <2>24, NotEmpty DEF LayersOK
<1>5. QED BY <1>3, <1>4

InsertOp(t, n, w, ls, l) == insert_layer(ls, l)
InsertKeeps(t, n, w, k, ls) == LayersOK(ls, t, n) /\ ls # <<>>
InsertFold == INSTANCE FoldInduction WITH Op <- InsertOp, P <- InsertKeeps

\* The layers of an injection are inserted.
LEMMA InsertAll ==
  ASSUME NEW n, NEW ls, NEW t, LayersOK(ls, t, n), ls # <<>>, NEW new, Fresh(new, n),
         NEW y, y = FoldLeft(insert_layer, ls, new)
  PROVE  LayersOK(y, t, n)
<1>1. Len(new) \in Nat /\ DOMAIN new = 1..Len(new) BY NotEmpty DEF Fresh
<1>2. PICK m \in Nat : m = Len(new) BY <1>1
<1>3. y = InsertFold!Fold(t, n, 0, ls, new)
  <2>1. FoldLeft(insert_layer, ls, new) = InsertFold!Fold(t, n, 0, ls, new)
    BY Zenon DEF InsertFold!Fold, InsertOp, FoldLeft, MapThenFoldSet, Max, InsertFold!FoldLeft,
                 InsertFold!MapThenFoldSet, InsertFold!Max
  <2>2. QED BY <2>1
<1>4. InsertKeeps(t, n, 0, 0, ls) BY DEF InsertKeeps
<1>5. ASSUME NEW k \in 1..m, NEW x, InsertKeeps(t, n, 0, k - 1, x)
      PROVE  InsertKeeps(t, n, 0, k, InsertOp(t, n, 0, x, new[k]))
  <2>1. LayerOK(new[k], n) /\ new[k].ends = <<>> BY <1>1, <1>2 DEF Fresh
  <2>2. PICK z : z = insert_layer(x, new[k]) OBVIOUS
  <2>3. LayersOK(z, t, n) /\ z # <<>> BY <1>5, <2>1, <2>2, InsertOK DEF InsertKeeps
  <2>4. QED BY <2>2, <2>3 DEF InsertKeeps, InsertOp
<1> HIDE DEF InsertKeeps, InsertOp
<1>6. InsertKeeps(t, n, 0, m, InsertFold!Fold(t, n, 0, ls, new)) BY <1>1, <1>2, <1>4, <1>5, InsertFold!FoldKeeps
<1>7. QED BY <1>3, <1>6 DEF InsertKeeps

-----------------------------------------------------------------------------
(* The captures of a query                                                   *)

\* A capture is of the node that its match says.
LEMMA ItemPlace ==
  ASSUME NEW config, NEW m, NEW at, NEW n, PlaceIn(m.captures[at], n)
  PROVE  PlaceIn(Item(config, m, at), n)
<1>1. PICK c : c = m.captures[at] OBVIOUS
<1>2. Item(config, m, at).start = c.start /\ Item(config, m, at).end = c.end
  BY <1>1 DEF Item
<1>3. QED BY <1>1, <1>2 DEF PlaceIn

CapturesOp(config, source, n, kept, s) ==
  IF s[1].pattern \notin config.combined /\ satisfies_text_predicates(source, config.query, s[1])
  THEN Append(kept, Item(config, s[1], s[2])) ELSE kept
CapturesIn(config, source, n, k, kept) == IsSeq(kept) /\ \A j \in DOMAIN kept : PlaceIn(kept[j], n)
CapturesFold == INSTANCE FoldInduction WITH Op <- CapturesOp, P <- CapturesIn

\* The captures that are used lie in the text.
LEMMA CapturesOK ==
  ASSUME NEW config, NEW source, NEW n, NEW stream, IsSeq(stream),
         \A i \in DOMAIN stream : PlaceIn(stream[i][1].captures[stream[i][2]], n),
         NEW y, y = QueryCaptures(config, source, stream)
  PROVE  IsSeq(y) /\ \A j \in DOMAIN y : PlaceIn(y[j], n)
<1>1. Len(stream) \in Nat /\ DOMAIN stream = 1..Len(stream) BY NotEmpty
<1>2. PICK m \in Nat : m = Len(stream) BY <1>1
<1>3. QueryCaptures(config, source, stream) = CapturesFold!Fold(config, source, n, <<>>, stream)
  BY Zenon DEF QueryCaptures, CapturesFold!Fold, CapturesOp, FoldLeft, MapThenFoldSet, Max,
               CapturesFold!FoldLeft, CapturesFold!MapThenFoldSet, CapturesFold!Max
<1>4. CapturesIn(config, source, n, 0, <<>>) BY EmptyIsSeq DEF CapturesIn
<1>5. ASSUME NEW k \in 1..m, NEW x, CapturesIn(config, source, n, k - 1, x)
      PROVE  CapturesIn(config, source, n, k, CapturesOp(config, source, n, x, stream[k]))
  <2>1. PICK e : e = stream[k] OBVIOUS
  <2>2. PICK item : item = Item(config, e[1], e[2]) OBVIOUS
  <2>3. PlaceIn(item, n) BY <1>1, <1>2, <2>1, <2>2, ItemPlace
  <2>4. PICK z : z = Append(x, item) OBVIOUS
  <2>5. IsSeq(x) /\ \A j \in DOMAIN x : PlaceIn(x[j], n) BY <1>5 DEF CapturesIn
  <2>6. /\ IsSeq(z) /\ Len(x) \in Nat /\ DOMAIN x = 1..Len(x) /\ DOMAIN z = 1..(Len(x) + 1)
        /\ (\A i \in 1..Len(x) : z[i] = x[i]) /\ z[Len(x) + 1] = item
    BY <2>4, <2>5, AppendFacts
  <2>7. \A j \in DOMAIN z : PlaceIn(z[j], n) BY <2>3, <2>5, <2>6
  <2>8. CapturesOp(config, source, n, x, e) = z \/ CapturesOp(config, source, n, x, e) = x
    BY <2>2, <2>4, Zenon DEF CapturesOp
  <2>9. QED BY <2>1, <2>5, <2>6, <2>7, <2>8 DEF CapturesIn
<1> HIDE DEF CapturesIn, CapturesOp
<1>6. CapturesIn(config, source, n, m, CapturesFold!Fold(config, source, n, <<>>, stream))
  BY <1>1, <1>2, <1>4, <1>5, CapturesFold!FoldKeeps
<1>7. QED BY <1>3, <1>6 DEF CapturesIn

-----------------------------------------------------------------------------
(* New layers                                                                *)

\* A language that is known has captures in the text, and no highlights are open in it.
LEMMA NewLayerOK ==
  ASSUME DocumentsGiven, doc \in Documents, NEW e, injection_callback(e.language, e.depth), NEW y, y = NewLayer(e)
  PROVE  LayerOK(y, SourceLen) /\ y.ends = <<>>
<1>1. PICK k \in DOMAIN doc.trees : k = <<e.language, e.depth>> BY DEF injection_callback
<1>2. PICK tree : tree = doc.trees[k] OBVIOUS
<1>3. tree.stream \in Seq(ToSet(tree.stream)) /\ \A s \in ToSet(tree.stream) : CaptureIn(s[1].captures[s[2]], doc.text)
  BY <1>2 DEF DocumentsGiven
<1>4. IsSeq(tree.stream) BY <1>3, AnySeq
<1>5. \A i \in DOMAIN tree.stream : PlaceIn(tree.stream[i][1].captures[tree.stream[i][2]], SourceLen)
  <2>1. \A i \in DOMAIN tree.stream : tree.stream[i] \in ToSet(tree.stream) BY DEF ToSet
  <2>2. QED BY <1>3, <2>1 DEF CaptureIn, PlaceIn, SourceLen
<1>6. PICK c : c = QueryCaptures(Config(e.language, e.depth), doc.text, tree.stream) OBVIOUS
<1>7. IsSeq(c) /\ \A j \in DOMAIN c : PlaceIn(c[j], SourceLen) BY <1>4, <1>5, <1>6, CapturesOK
<1>8. y = [captures |-> c, language |-> e.language, depth |-> e.depth, ranges |-> e.ranges, ends |-> <<>>,
           scopes |-> <<RootScope>>]
  BY <1>1, <1>2, <1>6 DEF NewLayer, Tree
<1>9. y.captures = c /\ y.ends = <<>> BY <1>8
<1>10. QED BY <1>7, <1>8, <1>9, EmptyIsSeq DEF LayerOK

\* The layers that wait to be made.
Waiting(q) == IsSeq(q) /\ \A i \in DOMAIN q : injection_callback(q[i].language, q[i].depth)

\* The combined injections of a layer are a sequence.
LEMMA CombinedIsSeq ==
  ASSUME NEW config, config.locals_pattern_index \in Nat, NEW own, NEW parent, NEW source, NEW matches,
         NEW y, y = CombinedInjections(config, own, parent, source, matches)
  PROVE  IsSeq(y)
<1> DEFINE Of(i) == SelectSeq(matches, LAMBDA m : m.pattern = i /\ i \in config.combined
                                             /\ satisfies_text_predicates(source, config.query, m))
           Injections(ms) == [k \in DOMAIN ms |-> injection_for_match(config, own, parent, source, ms[k])]
           all == [i \in 1..config.locals_pattern_index |-> Combine(Injections(Of(i)))]
           places == {i \in DOMAIN all : all[i].language # NoLanguage /\ all[i].nodes # <<>>}
<1>1. CombinedInjections(config, own, parent, source, matches) = KeptAt(all, places)
  BY Zenon DEF CombinedInjections, Kept
<1>2. IsSeq(all)
  <2>1. DOMAIN all = 1..config.locals_pattern_index OBVIOUS
  <2>2. all = [i \in DOMAIN all |-> all[i]] OBVIOUS
  <2> HIDE DEF all
  <2>3. all \in [1..config.locals_pattern_index -> {all[i] : i \in DOMAIN all}] BY <2>1, <2>2
  <2>4. QED BY <2>3, SeqDef DEF IsSeq
<1> HIDE DEF all, places
<1>3. QED BY <1>1, <1>2, KeptFacts

\* Those that wait are in languages that are known.
LEMMA QueuedOK ==
  ASSUME NEW e, NEW found, IsSeq(found), NEW y, y = Queued(e, found)
  PROVE  Waiting(y)
<1> DEFINE all == [i \in DOMAIN found |->
                     [language |-> found[i].language, depth |-> e.depth + 1,
                      ranges |-> intersect_ranges(e.ranges, found[i].nodes, found[i].includes_children)]]
           places == {i \in DOMAIN all : injection_callback(all[i].language, all[i].depth) /\ all[i].ranges # <<>>}
<1>1. Queued(e, found) = KeptAt(all, places) BY Zenon DEF Queued, Kept
<1>2. IsSeq(all)
  <2>1. Len(found) \in Nat /\ DOMAIN all = 1..Len(found) BY NotEmpty
  <2>2. all = [i \in DOMAIN all |-> all[i]] OBVIOUS
  <2> HIDE DEF all
  <2>3. all \in [1..Len(found) -> {all[i] : i \in DOMAIN all}] BY <2>1, <2>2
  <2>4. QED BY <2>1, <2>3, SeqDef DEF IsSeq
<1>3. \A i \in places : injection_callback(all[i].language, all[i].depth) OBVIOUS
<1> HIDE DEF all, places
<1>4. IsSeq(y) /\ \A j \in DOMAIN y : \E i \in DOMAIN all : i \in places /\ y[j] = all[i]
  BY <1>1, <1>2, KeptFacts
<1>5. QED BY <1>3, <1>4 DEF Waiting

\* What a round of HighlightIterLayer::new keeps.
Making(st) == st = [queue |-> st.queue, result |-> st.result] /\ Waiting(st.queue) /\ Fresh(st.result, SourceLen)

\* A round of the loop.
LEMMA RoundOK ==
  ASSUME DocumentsGiven, doc \in Documents, NEW st, Making(st), NEW parent, NEW y, y = NextLayer(st, parent)
  PROVE  Making(y)
<1>1. PICK q, r : q = st.queue /\ r = st.result OBVIOUS
<1>2. Waiting(q) /\ Fresh(r, SourceLen) /\ st = [queue |-> q, result |-> r] BY <1>1 DEF Making
<1>3. PICK e : e = Head(q) OBVIOUS
<1>4. PICK found : found = CombinedInjections(Config(e.language, e.depth), e.language, parent, doc.text,
                                              Tree(e.language, e.depth).combined)
  OBVIOUS
<1>5. y = IF q = <<>> THEN st
          ELSE IF set_included_ranges(e.ranges)
          THEN [queue |-> Tail(q) \o Queued(e, found), result |-> Append(r, NewLayer(e))]
          ELSE [queue |-> Tail(q), result |-> r]
  <2>1. [st EXCEPT !.queue = Tail(st.queue)] = [queue |-> Tail(q), result |-> r]
    <3>1. PICK tail : tail = Tail(st.queue) OBVIOUS
    <3>2. [[queue |-> q, result |-> r] EXCEPT !.queue = tail] = [queue |-> tail, result |-> r] OBVIOUS
    <3>3. [st EXCEPT !.queue = tail] = [queue |-> tail, result |-> r] BY <1>2, <3>2
    <3>4. QED BY <1>1, <3>1, <3>3
  <2>2. NextLayer(st, parent) =
          IF st.queue = <<>> THEN st
          ELSE IF set_included_ranges(Head(st.queue).ranges)
          THEN [queue |-> Tail(st.queue) \o Queued(Head(st.queue),
                            CombinedInjections(Config(Head(st.queue).language, Head(st.queue).depth),
                              Head(st.queue).language, parent, doc.text,
                              Tree(Head(st.queue).language, Head(st.queue).depth).combined)),
                result |-> Append(st.result, NewLayer(Head(st.queue)))]
          ELSE [st EXCEPT !.queue = Tail(st.queue)]
    BY Zenon DEF NextLayer
  <2>3. QED BY <1>1, <1>3, <1>4, <2>1, <2>2
<1>6. CASE q = <<>> BY <1>5, <1>6
<1>7. CASE q # <<>>
  <2>1. IsSeq(q) BY <1>2 DEF Waiting
  <2>2. /\ IsSeq(Tail(q)) /\ Len(q) \in Nat \ {0} /\ DOMAIN q = 1..Len(q) /\ DOMAIN Tail(q) = 1..(Len(q) - 1)
        /\ \A i \in 1..(Len(q) - 1) : Tail(q)[i] = q[i + 1]
    BY <1>7, <2>1, TailIs
  <2>3. PICK rest : rest = Tail(q) OBVIOUS
  <2>4. Waiting(rest)
    <3>1. \A i \in DOMAIN rest : i + 1 \in DOMAIN q /\ rest[i] = q[i + 1] BY <2>2, <2>3
    <3>2. QED BY <1>2, <2>2, <2>3, <3>1 DEF Waiting
  <2>5. e = q[1] /\ 1 \in DOMAIN q BY <1>3, <2>2
  <2>6. injection_callback(e.language, e.depth) BY <1>2, <2>5 DEF Waiting
  <2>7. Config(e.language, e.depth).locals_pattern_index \in Nat
    BY <2>6 DEF injection_callback, Config, Tree, DocumentsGiven
  <2>8. IsSeq(found) BY <1>4, <2>7, CombinedIsSeq
  <2>9. PICK more : more = Queued(e, found) OBVIOUS
  <2>10. Waiting(more) BY <2>8, <2>9, QueuedOK
  <2>11. PICK both : both = rest \o more OBVIOUS
  <2>12. Waiting(both)
    <3>1. /\ IsSeq(rest) /\ IsSeq(more) BY <2>4, <2>10 DEF Waiting
    <3>2. /\ IsSeq(both) /\ Len(rest) \in Nat /\ Len(more) \in Nat /\ DOMAIN both = 1..(Len(rest) + Len(more))
          /\ \A i \in 1..(Len(rest) + Len(more)) : both[i] = IF i <= Len(rest) THEN rest[i] ELSE more[i - Len(rest)]
          /\ DOMAIN rest = 1..Len(rest) /\ DOMAIN more = 1..Len(more)
      BY <2>11, <3>1, ConcatFacts, NotEmpty
    <3>3. ASSUME NEW i \in DOMAIN both PROVE injection_callback(both[i].language, both[i].depth)
      <4>1. CASE i <= Len(rest) BY <2>4, <3>2, <4>1 DEF Waiting
      <4>2. CASE ~(i <= Len(rest))
        <5>1. i - Len(rest) \in DOMAIN more /\ both[i] = more[i - Len(rest)] BY <3>2, <4>2
        <5>2. QED BY <2>10, <5>1 DEF Waiting
      <4>3. QED BY <4>1, <4>2
    <3>4. QED BY <3>2, <3>3 DEF Waiting
  <2>13. PICK l : l = NewLayer(e) OBVIOUS
  <2>14. LayerOK(l, SourceLen) /\ l.ends = <<>> BY <2>6, <2>13, NewLayerOK
  <2>15. PICK made : made = Append(r, l) OBVIOUS
  <2>16. Fresh(made, SourceLen)
    <3>1. /\ IsSeq(made) /\ Len(r) \in Nat /\ DOMAIN r = 1..Len(r) /\ DOMAIN made = 1..(Len(r) + 1)
          /\ (\A i \in 1..Len(r) : made[i] = r[i]) /\ made[Len(r) + 1] = l
      BY <1>2, <2>15, AppendFacts DEF Fresh
    <3>2. ASSUME NEW i \in DOMAIN made PROVE LayerOK(made[i], SourceLen) /\ made[i].ends = <<>>
      <4>1. CASE i \in 1..Len(r) BY <1>2, <3>1, <4>1 DEF Fresh
      <4>2. CASE i = Len(r) + 1 BY <2>14, <3>1, <4>2
      <4>3. QED BY <3>1, <4>1, <4>2
    <3>3. QED BY <3>1, <3>2 DEF Fresh
  <2>17. y = [queue |-> both, result |-> made] \/ y = [queue |-> rest, result |-> r]
    BY <1>5, <1>7, <2>3, <2>9, <2>11, <2>13, <2>15
  <2>18. CASE y = [queue |-> both, result |-> made]
    <3>1. y.queue = both /\ y.result = made BY <2>18
    <3>2. QED BY <2>12, <2>16, <2>18, <3>1 DEF Making
  <2>19. CASE y = [queue |-> rest, result |-> r]
    <3>1. y.queue = rest /\ y.result = r BY <2>19
    <3>2. QED BY <1>2, <2>4, <2>19, <3>1 DEF Making
  <2>20. QED BY <2>17, <2>18, <2>19
<1>8. QED BY <1>6, <1>7

RoundOp(parent, b, w, st, n) == NextLayer(st, parent)
RoundKeeps(parent, b, w, k, st) == Making(st)
RoundFold == INSTANCE FoldInduction WITH Op <- RoundOp, P <- RoundKeeps

\* The layers of a language that is known are layers of the text, with nothing open.
LEMMA NewLayersOK ==
  ASSUME DocumentsGiven, doc \in Documents, NEW e, injection_callback(e.language, e.depth), NEW parent,
         NEW y, y = NewLayers(e, parent)
  PROVE  Fresh(y, SourceLen)
<1>1. PICK m \in Nat : m = MaxLayers BY DEF DocumentsGiven
<1>2. PICK r : r = [n \in 1..MaxLayers |-> n] OBVIOUS
<1>3. DOMAIN r = 1..m BY <1>1, <1>2
<1>4. PICK base : base = [queue |-> <<e>>, result |-> <<>>] OBVIOUS
<1>5. NewLayers(e, parent) = RoundFold!Fold(parent, 0, 0, base, r).result
  <2>1. NewLayers(e, parent) = RoundFold!Fold(parent, 0, 0, [queue |-> <<e>>, result |-> <<>>], [n \in 1..MaxLayers |-> n]).result
    BY Zenon DEF NewLayers, RoundFold!Fold, RoundOp, FoldLeft, MapThenFoldSet, Max, RoundFold!FoldLeft,
                 RoundFold!MapThenFoldSet, RoundFold!Max
  <2>2. QED BY <1>2, <1>4, <2>1, Zenon
<1>6. RoundKeeps(parent, 0, 0, 0, base)
  <2>1. PICK q : q = <<e>> OBVIOUS
  <2>2. IsSeq(q) /\ DOMAIN q = 1..1 /\ q[1] = e BY <2>1, OneFacts
  <2>3. Waiting(q) BY <2>2 DEF Waiting
  <2>4. Fresh(<<>>, SourceLen) BY EmptyIsSeq DEF Fresh
  <2>5. base.queue = q /\ base.result = <<>> /\ base = [queue |-> q, result |-> <<>>] BY <1>4, <2>1
  <2>6. QED BY <2>3, <2>4, <2>5 DEF RoundKeeps, Making
<1>7. ASSUME NEW k \in 1..m, NEW x, RoundKeeps(parent, 0, 0, k - 1, x)
      PROVE  RoundKeeps(parent, 0, 0, k, RoundOp(parent, 0, 0, x, r[k]))
  <2>1. PICK z : z = NextLayer(x, parent) OBVIOUS
  <2>2. Making(z) BY <1>7, <2>1, RoundOK DEF RoundKeeps
  <2>3. QED BY <2>1, <2>2 DEF RoundKeeps, RoundOp
<1> HIDE DEF RoundKeeps, RoundOp
<1>8. RoundKeeps(parent, 0, 0, m, RoundFold!Fold(parent, 0, 0, base, r)) BY <1>3, <1>6, <1>7, RoundFold!FoldKeeps
<1>9. QED BY <1>5, <1>8 DEF RoundKeeps, Making

\* The layers of an injection.
LEMMA InjectedOK ==
  ASSUME DocumentsGiven, doc \in Documents, NEW capture, NEW layer, NEW y, y = Injected(capture, layer)
  PROVE  Fresh(y, SourceLen)
<1>1. PICK inj : inj = injection_for_match(Config(layer.language, layer.depth), layer.language, doc.language,
                                           doc.text, capture.match)
  OBVIOUS
<1>2. PICK ranges : ranges = intersect_ranges(layer.ranges, <<inj.content>>, inj.includes_children) OBVIOUS
<1>3. PICK e : e = [language |-> inj.language, depth |-> layer.depth + 1, ranges |-> ranges] OBVIOUS
<1>4. y = <<>> \/ (injection_callback(inj.language, layer.depth + 1) /\ y = NewLayers(e, doc.language))
  BY <1>1, <1>2, <1>3, Zenon DEF Injected
<1>5. CASE y = <<>> BY <1>5, EmptyIsSeq DEF Fresh
<1>6. CASE injection_callback(inj.language, layer.depth + 1) /\ y = NewLayers(e, doc.language)
  <2>1. e.language = inj.language /\ e.depth = layer.depth + 1 BY <1>3
  <2>2. injection_callback(e.language, e.depth) BY <1>6, <2>1
  <2>3. QED BY <1>6, <2>2, NewLayersOK
<1>7. QED BY <1>4, <1>5, <1>6

\* Layers with nothing open.
LEMMA FreshOK ==
  ASSUME NEW n, NEW ls, Fresh(ls, n)
  PROVE  LayersOK(ls, 0, n)
<1>1. Len(ls) \in Nat /\ DOMAIN ls = 1..Len(ls) BY NotEmpty DEF Fresh
<1>2. PICK h : h = [k \in 0..Len(ls) |-> 0] OBVIOUS
<1>3. \A k \in 0..Len(ls) : h[k] = 0 BY <1>2
<1>4. \A k \in 1..Len(ls) : Len(ls[k].ends) = 0 BY <1>1, EmptyIsSeq DEF Fresh
<1>5. \A k \in 1..Len(ls) : k \in 0..Len(ls) /\ k - 1 \in 0..Len(ls) BY <1>1
<1>6. 0 \in 0..Len(ls) /\ Len(ls) \in 0..Len(ls) BY <1>1
<1>7. Sums(h, ls) BY <1>3, <1>4, <1>5, <1>6 DEF Sums
<1>8. QED BY <1>3, <1>6, <1>7 DEF Fresh, LayersOK, Total

-----------------------------------------------------------------------------
(* The events                                                                *)

CountIn(es, kind, n) == Cardinality({i \in 1..n : es[i].type = kind})
SourcesIn(es) == {i \in DOMAIN es : es[i].type = "source"}
EarlierIn(es, i) == {j \in SourcesIn(es) : j < i}

\* Events that give the source up to an offset, with d highlights open.
EventsOK(es, offset, d) ==
  /\ IsSeq(es) /\ d \in Nat
  /\ \A i \in SourcesIn(es) :
       /\ es[i].from < es[i].to
       /\ es[i].from = IF EarlierIn(es, i) = {} THEN 0 ELSE es[Max(EarlierIn(es, i))].to
  /\ offset = IF SourcesIn(es) = {} THEN 0 ELSE es[Max(SourcesIn(es))].to
  /\ \A n \in DOMAIN es : CountIn(es, "end", n) <= CountIn(es, "start", n)
  /\ CountIn(es, "start", Len(es)) = d + CountIn(es, "end", Len(es))

\* The number of events of a type.
LEMMA CountNat ==
  ASSUME NEW es, NEW kind, NEW n \in Nat
  PROVE  CountIn(es, kind, n) \in Nat /\ IsFiniteSet({i \in 1..n : es[i].type = kind})
<1>1. IsFiniteSet(1..n) BY FS_Interval
<1>2. {i \in 1..n : es[i].type = kind} \subseteq 1..n OBVIOUS
<1>3. IsFiniteSet({i \in 1..n : es[i].type = kind}) BY <1>1, <1>2, FS_Subset
<1>4. QED BY <1>3, FS_CardinalityType DEF CountIn

Longer(es, e, y) == IsSeq(es) /\ y = Append(es, e)

\* One event more is counted when it is of the type, and leaves the numbers before it.
LEMMA CountMore ==
  ASSUME NEW es, NEW e, NEW y, Longer(es, e, y), NEW kind, NEW m \in Nat, m = Len(es)
  PROVE  /\ \A n \in 0..m : CountIn(y, kind, n) = CountIn(es, kind, n)
         /\ e.type = kind => \E c \in Nat : CountIn(es, kind, m) = c /\ CountIn(y, kind, m + 1) = c + 1
         /\ e.type # kind => CountIn(y, kind, m + 1) = CountIn(es, kind, m)
<1>1. /\ (\A i \in 1..m : y[i] = es[i]) /\ y[m + 1] = e BY AppendFacts DEF Longer
<1>2. ASSUME NEW n \in 0..m PROVE CountIn(y, kind, n) = CountIn(es, kind, n)
  <2>1. {i \in 1..n : y[i].type = kind} = {i \in 1..n : es[i].type = kind} BY <1>1
  <2>2. QED BY <2>1 DEF CountIn
<1>3. PICK S : S = {i \in 1..m : es[i].type = kind} OBVIOUS
<1>4. PICK T : T = {i \in 1..(m + 1) : y[i].type = kind} OBVIOUS
<1>5. CountIn(y, kind, m + 1) = Cardinality(T) /\ CountIn(es, kind, m) = Cardinality(S) BY <1>3, <1>4 DEF CountIn
<1>6. IsFiniteSet(S)
  <2>1. IsFiniteSet({i \in 1..m : es[i].type = kind}) BY CountNat
  <2>2. QED BY <1>3, <2>1
<1>7. ASSUME e.type = kind
      PROVE  \E c \in Nat : CountIn(es, kind, m) = c /\ CountIn(y, kind, m + 1) = c + 1
  <2>1. T = S \cup {m + 1} BY <1>1, <1>3, <1>4, <1>7
  <2>2. m + 1 \notin S BY <1>3
  <2>3. Cardinality(T) = Cardinality(S) + 1 BY <1>6, <2>1, <2>2, FS_AddElement
  <2>4. Cardinality(S) \in Nat BY <1>6, FS_CardinalityType
  <2>5. QED BY <1>5, <2>3, <2>4
<1>8. ASSUME e.type # kind PROVE CountIn(y, kind, m + 1) = CountIn(es, kind, m)
  <2>1. T = S BY <1>1, <1>3, <1>4, <1>8
  <2>2. QED BY <1>5, <2>1
<1>9. QED BY <1>2, <1>7, <1>8

\* The sources, with one event more.
LEMMA SourcesMore ==
  ASSUME NEW es, IsSeq(es), NEW e, NEW y, y = Append(es, e)
  PROVE  /\ SourcesIn(es) \subseteq 1..Len(es)
         /\ SourcesIn(y) = SourcesIn(es) \cup (IF e.type = "source" THEN {Len(es) + 1} ELSE {})
         /\ \A i \in SourcesIn(es) : EarlierIn(y, i) = EarlierIn(es, i)
         /\ EarlierIn(y, Len(es) + 1) = SourcesIn(es)
<1>1. /\ Len(es) \in Nat /\ (\A i \in 1..Len(es) : y[i] = es[i]) /\ y[Len(es) + 1] = e
      /\ DOMAIN es = 1..Len(es) /\ DOMAIN y = 1..(Len(es) + 1)
  BY AppendFacts
<1>2. SourcesIn(es) \subseteq 1..Len(es) BY <1>1 DEF SourcesIn
<1>3. \A i \in 1..Len(es) : i \in SourcesIn(y) <=> i \in SourcesIn(es) BY <1>1 DEF SourcesIn
<1>4. Len(es) + 1 \in SourcesIn(y) <=> e.type = "source" BY <1>1 DEF SourcesIn
<1>5. SourcesIn(y) \subseteq 1..(Len(es) + 1) BY <1>1 DEF SourcesIn
<1>6. SourcesIn(y) = SourcesIn(es) \cup (IF e.type = "source" THEN {Len(es) + 1} ELSE {})
  BY <1>1, <1>2, <1>3, <1>4, <1>5
<1>7. ASSUME NEW i \in SourcesIn(es) PROVE EarlierIn(y, i) = EarlierIn(es, i)
  BY <1>1, <1>2, <1>3, <1>5 DEF EarlierIn
<1>8. EarlierIn(y, Len(es) + 1) = SourcesIn(es) BY <1>1, <1>2, <1>3, <1>5 DEF EarlierIn
<1>9. QED BY <1>2, <1>6, <1>7, <1>8

\* The greatest of some numbers up to one.
LEMMA GreatestIs ==
  ASSUME NEW m \in Nat, NEW I, I \subseteq 1..m, I # {}
  PROVE  Max(I) \in I /\ \A i \in I : Max(I) >= i
<1>1. PICK J : J = {k \in Nat : \E i \in I : k = m - i} OBVIOUS
<1>2. J \subseteq Nat BY <1>1
<1>3. \A i \in I : m - i \in J BY <1>1
<1>4. J # {} BY <1>3
<1>5. PICK k \in J : \A j \in 0..(k - 1) : j \notin J BY <1>2, <1>4, KeptFold!LeastNumber
<1>6. PICK i \in I : k = m - i BY <1>1, <1>5
<1>7. ASSUME NEW j \in I PROVE i >= j
  <2>1. m - j \in J BY <1>3
  <2>2. ~(m - j \in 0..(k - 1)) BY <1>5, <2>1
  <2>3. QED BY <1>6, <2>2
<1>8. QED BY <1>7 DEF Max

\* The greatest, when one that is greater comes.
LEMMA GreaterIs ==
  ASSUME NEW m \in Nat, NEW I, I \subseteq 1..m
  PROVE  Max(I \cup {m + 1}) = m + 1
<1>1. PICK J : J = I \cup {m + 1} OBVIOUS
<1>2. J \subseteq 1..(m + 1) /\ m + 1 \in J BY <1>1
<1>3. \A y \in J : m + 1 >= y BY <1>2
<1>4. \A x \in J : (\A y \in J : x >= y) => x = m + 1 BY <1>2
<1>5. Max(J) = m + 1 BY <1>2, <1>3, <1>4 DEF Max
<1>6. QED BY <1>1, <1>5

\* An event after those that are well formed.
LEMMA EventsMore ==
  ASSUME NEW es, NEW offset \in Int, NEW d, EventsOK(es, offset, d), NEW e, NEW y, y = Append(es, e)
  PROVE  /\ e.type = "source" /\ e.from = offset /\ e.to \in Int /\ offset < e.to => EventsOK(y, e.to, d)
         /\ e.type = "start" => EventsOK(y, offset, d + 1)
         /\ e.type = "end" /\ d >= 1 => EventsOK(y, offset, d - 1)
<1>1. /\ IsSeq(es) /\ d \in Nat /\ IsSeq(y) /\ Len(es) \in Nat /\ Len(y) = Len(es) + 1
      /\ DOMAIN es = 1..Len(es) /\ DOMAIN y = 1..(Len(es) + 1)
      /\ (\A i \in 1..Len(es) : y[i] = es[i]) /\ y[Len(es) + 1] = e
  BY AppendFacts DEF EventsOK
<1>0. IsSeq(es) /\ y = Append(es, e) /\ Longer(es, e, y) BY <1>1 DEF Longer
<1>2. PICK m \in Nat : m = Len(es) BY <1>1
<1>3. /\ SourcesIn(es) \subseteq 1..m
      /\ SourcesIn(y) = SourcesIn(es) \cup (IF e.type = "source" THEN {m + 1} ELSE {})
      /\ \A i \in SourcesIn(es) : EarlierIn(y, i) = EarlierIn(es, i)
      /\ EarlierIn(y, m + 1) = SourcesIn(es)
  <2>1. /\ SourcesIn(es) \subseteq 1..Len(es)
        /\ SourcesIn(y) = SourcesIn(es) \cup (IF e.type = "source" THEN {Len(es) + 1} ELSE {})
        /\ \A i \in SourcesIn(es) : EarlierIn(y, i) = EarlierIn(es, i)
        /\ EarlierIn(y, Len(es) + 1) = SourcesIn(es)
    BY <1>0, SourcesMore
  <2>2. QED BY <1>2, <2>1
<1>4. \A i \in SourcesIn(es) :
        /\ y[i].from < y[i].to
        /\ y[i].from = IF EarlierIn(y, i) = {} THEN 0 ELSE y[Max(EarlierIn(y, i))].to
  <2>1. SUFFICES ASSUME NEW i \in SourcesIn(es)
                 PROVE  /\ y[i].from < y[i].to
                        /\ y[i].from = IF EarlierIn(y, i) = {} THEN 0 ELSE y[Max(EarlierIn(y, i))].to
    OBVIOUS
  <2>2. PICK I : I = EarlierIn(es, i) OBVIOUS
  <2>3. es[i].from < es[i].to /\ es[i].from = IF I = {} THEN 0 ELSE es[Max(I)].to BY <2>2 DEF EventsOK
  <2>4. y[i] = es[i] /\ EarlierIn(y, i) = I BY <1>1, <1>2, <1>3, <2>2
  <2>5. I \subseteq 1..m BY <1>3, <2>2 DEF EarlierIn
  <2>6. I # {} => y[Max(I)] = es[Max(I)]
    <3>1. I # {} => Max(I) \in 1..m BY <2>5, GreatestIs
    <3>2. QED BY <1>1, <1>2, <3>1
  <2>7. QED BY <2>3, <2>4, <2>6
<1>5. offset = IF SourcesIn(es) = {} THEN 0 ELSE y[Max(SourcesIn(es))].to
  <2>1. PICK I : I = SourcesIn(es) OBVIOUS
  <2>2. offset = IF I = {} THEN 0 ELSE es[Max(I)].to BY <2>1 DEF EventsOK
  <2>3. I # {} => Max(I) \in 1..m BY <1>3, <2>1, GreatestIs
  <2>4. QED BY <1>1, <1>2, <2>1, <2>2, <2>3
<1>6. ASSUME NEW kind PROVE \A n \in 0..m : CountIn(y, kind, n) = CountIn(es, kind, n)
  BY <1>0, <1>2, CountMore
<1>7. \A n \in 1..m : CountIn(y, "end", n) <= CountIn(y, "start", n)
  <2>1. \A n \in 1..m : n \in 0..m /\ CountIn(es, "end", n) <= CountIn(es, "start", n) BY <1>1, <1>2 DEF EventsOK
  <2>2. QED BY <1>6, <2>1
<1>8. PICK a, b : a = CountIn(es, "start", m) /\ b = CountIn(es, "end", m) OBVIOUS
<1>9. a \in Nat /\ b \in Nat BY <1>8, CountNat
<1>10. a = d + b BY <1>2, <1>8 DEF EventsOK
<1>11. /\ CountIn(y, "start", m + 1) = IF e.type = "start" THEN a + 1 ELSE a
       /\ CountIn(y, "end", m + 1) = IF e.type = "end" THEN b + 1 ELSE b
  <2>1. ASSUME NEW kind
        PROVE  /\ e.type = kind => \E c \in Nat : CountIn(es, kind, m) = c /\ CountIn(y, kind, m + 1) = c + 1
               /\ e.type # kind => CountIn(y, kind, m + 1) = CountIn(es, kind, m)
    BY <1>0, <1>2, CountMore
  <2>2. QED BY <1>8, <1>9, <2>1
<1>12. ASSUME NEW f \in Nat, CountIn(y, "start", m + 1) = f + CountIn(y, "end", m + 1),
              CountIn(y, "end", m + 1) \in Nat, NEW to,
              to = IF SourcesIn(y) = {} THEN 0 ELSE y[Max(SourcesIn(y))].to,
              \A i \in SourcesIn(y) :
                /\ y[i].from < y[i].to
                /\ y[i].from = IF EarlierIn(y, i) = {} THEN 0 ELSE y[Max(EarlierIn(y, i))].to
       PROVE  EventsOK(y, to, f)
  <2>1. ASSUME NEW n \in DOMAIN y PROVE CountIn(y, "end", n) <= CountIn(y, "start", n)
    <3>1. CASE n \in 1..m BY <1>7, <3>1
    <3>2. CASE n = m + 1
      <4>1. PICK c : c = CountIn(y, "end", m + 1) OBVIOUS
      <4>2. c \in Nat /\ CountIn(y, "start", m + 1) = f + c BY <1>12, <4>1
      <4>3. c <= f + c BY <4>2
      <4>4. QED BY <3>2, <4>1, <4>2, <4>3
    <3>3. QED BY <1>1, <1>2, <3>1, <3>2
  <2>2. Len(y) = m + 1 BY <1>1, <1>2
  <2>3. QED BY <1>1, <1>12, <2>1, <2>2 DEF EventsOK
<1>13. ASSUME e.type = "source", e.from = offset, e.to \in Int, offset < e.to PROVE EventsOK(y, e.to, d)
  <2>1. SourcesIn(y) = SourcesIn(es) \cup {m + 1} BY <1>3, <1>13
  <2>2. Max(SourcesIn(y)) = m + 1 BY <1>3, <2>1, GreaterIs
  <2>3. SourcesIn(y) # {} /\ y[m + 1] = e BY <1>1, <1>2, <2>1
  <2>4. e.to = IF SourcesIn(y) = {} THEN 0 ELSE y[Max(SourcesIn(y))].to BY <2>2, <2>3
  <2>5. CountIn(y, "start", m + 1) = a /\ CountIn(y, "end", m + 1) = b
    <3>1. e.type # "start" /\ e.type # "end" BY <1>13
    <3>2. QED BY <1>11, <3>1
  <2>6. y[m + 1].from < y[m + 1].to
        /\ y[m + 1].from = IF EarlierIn(y, m + 1) = {} THEN 0 ELSE y[Max(EarlierIn(y, m + 1))].to
    BY <1>3, <1>5, <1>13, <2>3
  <2>7. \A i \in SourcesIn(y) :
          /\ y[i].from < y[i].to
          /\ y[i].from = IF EarlierIn(y, i) = {} THEN 0 ELSE y[Max(EarlierIn(y, i))].to
    BY <1>4, <2>1, <2>6
  <2>8. d \in Nat /\ CountIn(y, "start", m + 1) = d + CountIn(y, "end", m + 1) /\ CountIn(y, "end", m + 1) \in Nat
    BY <1>1, <1>9, <1>10, <2>5
  <2>9. QED BY <1>12, <2>4, <2>7, <2>8
<1>14. ASSUME e.type # "source", NEW f \in Nat, CountIn(y, "start", m + 1) = f + CountIn(y, "end", m + 1),
              CountIn(y, "end", m + 1) \in Nat
       PROVE  EventsOK(y, offset, f)
  <2>1. SourcesIn(y) = SourcesIn(es) BY <1>3, <1>14
  <2>2. offset = IF SourcesIn(y) = {} THEN 0 ELSE y[Max(SourcesIn(y))].to BY <1>5, <2>1
  <2>3. \A i \in SourcesIn(y) :
          /\ y[i].from < y[i].to
          /\ y[i].from = IF EarlierIn(y, i) = {} THEN 0 ELSE y[Max(EarlierIn(y, i))].to
    BY <1>4, <2>1
  <2>4. QED BY <1>12, <1>14, <2>2, <2>3
<1>15. ASSUME e.type = "start" PROVE EventsOK(y, offset, d + 1)
  <2>1. e.type # "source" /\ e.type # "end" BY <1>15
  <2>2. CountIn(y, "start", m + 1) = a + 1 /\ CountIn(y, "end", m + 1) = b BY <1>11, <1>15, <2>1
  <2>3. d + 1 \in Nat /\ a + 1 = (d + 1) + b BY <1>1, <1>9, <1>10
  <2>4. PICK f : f = d + 1 OBVIOUS
  <2>5. f \in Nat /\ CountIn(y, "start", m + 1) = f + CountIn(y, "end", m + 1) /\ CountIn(y, "end", m + 1) \in Nat
    BY <1>9, <2>2, <2>3, <2>4
  <2>6. QED BY <1>14, <2>1, <2>4, <2>5
<1>16. ASSUME e.type = "end", d >= 1 PROVE EventsOK(y, offset, d - 1)
  <2>1. e.type # "source" /\ e.type # "start" BY <1>16
  <2>2. CountIn(y, "start", m + 1) = a /\ CountIn(y, "end", m + 1) = b + 1 BY <1>11, <1>16, <2>1
  <2>3. d - 1 \in Nat /\ a = (d - 1) + (b + 1) /\ b + 1 \in Nat BY <1>1, <1>9, <1>10, <1>16
  <2>4. PICK f : f = d - 1 OBVIOUS
  <2>5. f \in Nat /\ CountIn(y, "start", m + 1) = f + CountIn(y, "end", m + 1) /\ CountIn(y, "end", m + 1) \in Nat
    BY <2>2, <2>3, <2>4
  <2>6. QED BY <1>14, <2>1, <2>4, <2>5
<1>17. QED BY <1>13, <1>15, <1>16

\* No events yet.
LEMMA EventsNone == EventsOK(<<>>, 0, 0)
<1>1. PICK es : es = <<>> OBVIOUS
<1>2. IsSeq(es) /\ Len(es) = 0 /\ DOMAIN es = {} BY <1>1, EmptyIsSeq
<1>3. SourcesIn(es) = {} BY <1>2 DEF SourcesIn
<1>4. \A kind : CountIn(es, kind, Len(es)) = 0
  <2>1. ASSUME NEW kind PROVE CountIn(es, kind, Len(es)) = 0
    <3>1. {i \in 1..Len(es) : es[i].type = kind} = {} BY <1>2
    <3>2. QED BY <3>1, FS_EmptySet DEF CountIn
  <2>2. QED BY <2>1
<1>5. QED BY <1>1, <1>2, <1>3, <1>4 DEF EventsOK

-----------------------------------------------------------------------------
(* What is kept of a sequence that is put together                           *)

\* The elements kept so far, from the first on.
KeptRun(f, s, places, n) ==
  /\ f[0] = <<>>
  /\ \A k \in 1..n : f[k] = IF k \in places THEN Append(f[k - 1], s[k]) ELSE f[k - 1]

\* There is such a run, and its last is what is kept.
LEMMA KeptSteps ==
  ASSUME NEW s, IsSeq(s), NEW places
  PROVE  \E f : /\ KeptRun(f, s, places, Len(s)) /\ f[Len(s)] = KeptAt(s, places)
                /\ \A k \in 0..Len(s) : IsSeq(f[k])
<1>1. Len(s) \in Nat /\ DOMAIN s = 1..Len(s) BY NotEmpty
<1>2. PICK n \in Nat : n = Len(s) BY <1>1
<1>3. PICK r : r = [i \in DOMAIN s |-> i] OBVIOUS
<1>4. DOMAIN r = 1..n /\ \A i \in 1..n : r[i] = i BY <1>1, <1>2, <1>3
<1>5. KeptAt(s, places) = KeptFold!Fold(s, places, 0, <<>>, r)
  <2>1. KeptAt(s, places) = KeptFold!Fold(s, places, 0, <<>>, [i \in DOMAIN s |-> i])
    BY Zenon DEF KeptAt, KeptFold!Fold, KeptOp, FoldLeft, MapThenFoldSet, Max, KeptFold!FoldLeft,
                 KeptFold!MapThenFoldSet, KeptFold!Max
  <2>2. QED BY <1>3, <2>1, Zenon
<1>6. PICK f : KeptFold!Steps(f, s, places, 0, <<>>, r, n) BY <1>4, KeptFold!FoldSteps, Zenon
<1>7. /\ f[0] = <<>> /\ f[n] = KeptFold!Fold(s, places, 0, <<>>, r)
      /\ \A k \in 1..n : f[k] = KeptOp(s, places, 0, f[k - 1], r[k])
  BY <1>6, Zenon DEF KeptFold!Steps
<1>8. \A k \in 1..n : f[k] = IF k \in places THEN Append(f[k - 1], s[k]) ELSE f[k - 1]
  BY <1>4, <1>7 DEF KeptOp
<1>9. \A k \in 0..n : IsSeq(f[k])
  <2> DEFINE G == {k \in 0..n : IsSeq(f[k])}
  <2>1. 0 \in G BY <1>7, EmptyIsSeq
  <2>2. ASSUME NEW k \in 1..n, k - 1 \in G PROVE k \in G
    <3>1. IsSeq(f[k - 1]) BY <2>2
    <3>2. IsSeq(Append(f[k - 1], s[k])) BY <3>1, AppendFacts
    <3>3. QED BY <1>8, <3>1, <3>2
  <2>3. \A k \in 0..n : k \in G
    <3> HIDE DEF G
    <3>1. QED BY <2>1, <2>2, UpTo
  <2>4. QED BY <2>3
<1>10. QED BY <1>2, <1>5, <1>7, <1>8, <1>9 DEF KeptRun

\* There is only one.
LEMMA KeptSame ==
  ASSUME NEW s, NEW places, NEW n \in Nat, NEW f, KeptRun(f, s, places, n), NEW g, KeptRun(g, s, places, n)
  PROVE  \A k \in 0..n : f[k] = g[k]
<1> DEFINE G == {k \in 0..n : f[k] = g[k]}
<1>1. 0 \in G BY DEF KeptRun
<1>2. \A k \in 1..n : k - 1 \in G => k \in G BY DEF KeptRun
<1>3. \A k \in 0..n : k \in G
  <2> HIDE DEF G
  <2>1. QED BY <1>1, <1>2, UpTo
<1>4. QED BY <1>3

\* Nothing is before and after.
LEMMA JoinNone ==
  ASSUME NEW s, IsSeq(s)
  PROVE  s \o <<>> = s /\ <<>> \o s = s
<1>1. PICK e : e = <<>> OBVIOUS
<1>2. IsSeq(e) /\ Len(e) = 0 BY <1>1, EmptyIsSeq
<1>3. PICK a, b : a = s \o e /\ b = e \o s OBVIOUS
<1>4. Len(s) \in Nat /\ IsSeq(a) /\ Len(a) = Len(s) + 0 /\ \A i \in 1..(Len(s) + 0) : a[i] = IF i <= Len(s) THEN s[i] ELSE e[i - Len(s)]
  BY <1>2, <1>3, ConcatFacts
<1>5. IsSeq(b) /\ Len(b) = 0 + Len(s) /\ \A i \in 1..(0 + Len(s)) : b[i] = IF i <= 0 THEN e[i] ELSE s[i - 0]
  BY <1>2, <1>3, ConcatFacts
<1>6. a = s BY <1>4, SameSeq
<1>7. b = s BY <1>4, <1>5, SameSeq
<1>8. QED BY <1>1, <1>3, <1>6, <1>7

\* An element after two sequences.
LEMMA JoinAppend ==
  ASSUME NEW s, IsSeq(s), NEW t, IsSeq(t), NEW e
  PROVE  s \o Append(t, e) = Append(s \o t, e)
<1>1. PICK u, v, x, y : u = Append(t, e) /\ v = s \o t /\ x = s \o u /\ y = Append(v, e) OBVIOUS
<1>2. /\ IsSeq(u) /\ Len(t) \in Nat /\ Len(u) = Len(t) + 1 /\ (\A i \in 1..Len(t) : u[i] = t[i]) /\ u[Len(t) + 1] = e
  BY <1>1, AppendFacts
<1>3. /\ IsSeq(v) /\ Len(s) \in Nat /\ Len(v) = Len(s) + Len(t)
      /\ \A i \in 1..(Len(s) + Len(t)) : v[i] = IF i <= Len(s) THEN s[i] ELSE t[i - Len(s)]
  BY <1>1, ConcatFacts
<1>4. /\ IsSeq(x) /\ Len(x) = Len(s) + Len(u)
      /\ \A i \in 1..(Len(s) + Len(u)) : x[i] = IF i <= Len(s) THEN s[i] ELSE u[i - Len(s)]
  BY <1>1, <1>2, ConcatFacts
<1>5. /\ IsSeq(y) /\ Len(y) = Len(v) + 1 /\ (\A i \in 1..Len(v) : y[i] = v[i]) /\ y[Len(v) + 1] = e
  BY <1>1, <1>3, AppendFacts
<1>6. ASSUME NEW i \in 1..Len(x) PROVE x[i] = y[i]
  <2>1. PICK p \in Nat, q \in Nat : p = Len(s) /\ q = Len(t) BY <1>2, <1>3
  <2>2. i \in 1..(p + (q + 1)) /\ x[i] = IF i <= p THEN s[i] ELSE u[i - p] BY <1>2, <1>4, <2>1
  <2>3. CASE i <= p
    <3>1. i \in 1..(p + q) BY <2>3, <2>2
    <3>2. y[i] = v[i] /\ v[i] = s[i] BY <1>3, <1>5, <2>1, <2>3, <3>1
    <3>3. QED BY <2>3, <2>2, <3>2
  <2>4. CASE p < i /\ i <= p + q
    <3>1. i \in 1..(p + q) /\ i - p \in 1..q /\ ~(i <= p) BY <2>4, <2>2
    <3>2. y[i] = v[i] /\ v[i] = t[i - p] BY <1>3, <1>5, <2>1, <3>1
    <3>3. x[i] = u[i - p] /\ u[i - p] = t[i - p] BY <1>2, <2>1, <2>2, <3>1
    <3>4. QED BY <3>2, <3>3
  <2>5. CASE i = p + q + 1
    <3>1. i - p = q + 1 /\ ~(i <= p) /\ i = (p + q) + 1 BY <2>5
    <3>2. x[i] = e BY <1>2, <2>1, <2>2, <3>1
    <3>3. y[i] = e BY <1>3, <1>5, <2>1, <3>1
    <3>4. QED BY <3>2, <3>3
  <2>6. QED BY <2>3, <2>4, <2>5, <2>2
<1>7. x = y
  <2>1. Len(x) = Len(y) BY <1>2, <1>3, <1>4, <1>5
  <2>2. QED BY <1>4, <1>5, <1>6, <2>1, SameSeq
<1>8. QED BY <1>1, <1>7

Joined(a, b, y) == IsSeq(a) /\ IsSeq(b) /\ y = a \o b

\* Places in two sequences, by those in their concatenation.
PlacesOf(a, b, places, P, Q) ==
  /\ \A i \in DOMAIN a : i \in P <=> i \in places
  /\ \A i \in DOMAIN b : i \in Q <=> i + Len(a) \in places

\* What is kept of two sequences is what is kept of the one, then of the other.
LEMMA KeptJoin ==
  ASSUME NEW a, NEW b, NEW places, NEW P, NEW Q, NEW y, Joined(a, b, y),
         PlacesOf(a, b, places, P, Q)
  PROVE  KeptAt(y, places) = KeptAt(a, P) \o KeptAt(b, Q)
<1>1. /\ IsSeq(a) /\ IsSeq(b) /\ y = a \o b
      /\ \A i \in DOMAIN a : i \in P <=> i \in places
      /\ \A i \in DOMAIN b : i \in Q <=> i + Len(a) \in places
  BY DEF PlacesOf, Joined
<1>2. PICK m \in Nat, n \in Nat : m = Len(a) /\ n = Len(b) BY <1>1, NotEmpty
<1>3. /\ DOMAIN a = 1..m /\ DOMAIN b = 1..n BY <1>1, <1>2, NotEmpty
<1>4. /\ IsSeq(y) /\ Len(y) = m + n
      /\ \A i \in 1..(m + n) : y[i] = IF i <= m THEN a[i] ELSE b[i - m]
  BY <1>1, <1>2, ConcatFacts
<1>5. PICK f : KeptRun(f, a, P, m) /\ f[m] = KeptAt(a, P) /\ \A k \in 0..m : IsSeq(f[k]) BY <1>1, <1>2, KeptSteps
<1>6. PICK g : KeptRun(g, b, Q, n) /\ g[n] = KeptAt(b, Q) /\ \A k \in 0..n : IsSeq(g[k]) BY <1>1, <1>2, KeptSteps
<1>7. PICK h : KeptRun(h, y, places, m + n) /\ h[m + n] = KeptAt(y, places)
  <2>1. PICK h : KeptRun(h, y, places, Len(y)) /\ h[Len(y)] = KeptAt(y, places) BY <1>4, KeptSteps
  <2>2. QED BY <1>4, <2>1
<1>8. PICK u : u = f[m] OBVIOUS
<1>9. IsSeq(u) BY <1>5, <1>8
<1>10. PICK e : e = [k \in 0..(m + n) |-> IF k <= m THEN f[k] ELSE u \o g[k - m]] OBVIOUS
<1>11. e[m] = u \o g[0] /\ g[0] = <<>>
  <2>1. e[m] = u BY <1>8, <1>10
  <2>2. g[0] = <<>> BY <1>6 DEF KeptRun
  <2>3. QED BY <1>9, <2>1, <2>2, JoinNone
<1>12. \A k \in 0..n : e[m + k] = u \o g[k]
  <2>1. ASSUME NEW k \in 0..n PROVE e[m + k] = u \o g[k]
    <3>1. CASE k = 0
      <4>1. m + k = m BY <3>1
      <4>2. QED BY <1>11, <3>1, <4>1
    <3>2. CASE k # 0
      <4>1. ~(m + k <= m) /\ (m + k) - m = k /\ m + k \in 0..(m + n) BY <3>2
      <4>2. QED BY <1>10, <4>1
    <3>3. QED BY <3>1, <3>2
  <2>2. QED BY <2>1
<1>13. ASSUME NEW k \in 1..(m + n) PROVE e[k] = IF k \in places THEN Append(e[k - 1], y[k]) ELSE e[k - 1]
  <2>1. CASE k <= m
    <3>1. e[k] = f[k] /\ e[k - 1] = f[k - 1] /\ y[k] = a[k] BY <1>4, <1>10, <2>1
    <3>2. k \in 1..m BY <2>1
    <3>3. f[k] = IF k \in P THEN Append(f[k - 1], a[k]) ELSE f[k - 1] BY <1>5, <3>2 DEF KeptRun
    <3>4. QED BY <1>1, <1>3, <3>1, <3>2, <3>3
  <2>2. CASE ~(k <= m)
    <3>1. PICK j \in 1..n : k = m + j
      <4>1. k - m \in 1..n /\ k = m + (k - m) BY <2>2
      <4>2. QED BY <4>1
    <3>2. e[k] = u \o g[j] BY <1>12, <3>1
    <3>3. k - 1 = m + (j - 1) /\ j - 1 \in 0..n BY <3>1
    <3>4. e[k - 1] = u \o g[j - 1] BY <1>12, <3>3
    <3>5. y[k] = b[j] BY <1>4, <2>2, <3>1
    <3>6. g[j] = IF j \in Q THEN Append(g[j - 1], b[j]) ELSE g[j - 1] BY <1>6 DEF KeptRun
    <3>7. j \in Q <=> k \in places
      <4>1. j \in DOMAIN b /\ j + Len(a) = k BY <1>2, <1>3, <3>1
      <4>2. QED BY <1>1, <4>1
    <3>8. IsSeq(g[j - 1]) BY <1>6, <3>3
    <3>9. u \o Append(g[j - 1], b[j]) = Append(u \o g[j - 1], b[j]) BY <1>9, <3>8, JoinAppend
    <3>10. QED BY <3>2, <3>4, <3>5, <3>6, <3>7, <3>9
  <2>3. QED BY <2>1, <2>2
<1>14. e[0] = <<>>
  <2>1. f[0] = <<>> BY <1>5 DEF KeptRun
  <2>2. QED BY <1>10, <2>1
<1>15. KeptRun(e, y, places, m + n) BY <1>13, <1>14 DEF KeptRun
<1>16. e[m + n] = h[m + n] BY <1>7, <1>15, KeptSame
<1>17. e[m + n] = u \o g[n] BY <1>12
<1>18. QED BY <1>5, <1>6, <1>7, <1>8, <1>16, <1>17

-----------------------------------------------------------------------------
(* The items of html by their tags                                           *)

TagPlaces(s, tag) == {i \in DOMAIN s : s[i].tag = tag}
TagsIn(s, tag) == KeptAt(s, TagPlaces(s, tag))

\* The items with a tag are a sequence of such.
LEMMA TagsAre ==
  ASSUME NEW s, IsSeq(s), NEW tag
  PROVE  IsSeq(TagsIn(s, tag)) /\ Len(TagsIn(s, tag)) \in Nat
<1>1. PICK P, y : P = TagPlaces(s, tag) /\ y = KeptAt(s, P) OBVIOUS
<1>2. IsSeq(y) BY <1>1, KeptFacts
<1>3. Len(y) \in Nat BY <1>2, NotEmpty
<1>4. QED BY <1>1, <1>2, <1>3 DEF TagsIn

\* Of two sequences, those of the one and then of the other.
LEMMA TagsJoin ==
  ASSUME NEW a, NEW b, NEW y, Joined(a, b, y), NEW tag
  PROVE  TagsIn(y, tag) = TagsIn(a, tag) \o TagsIn(b, tag)
<1>1. IsSeq(a) /\ IsSeq(b) /\ y = a \o b BY DEF Joined
<1>2. PICK m \in Nat, n \in Nat : m = Len(a) /\ n = Len(b) BY <1>1, NotEmpty
<1>3. DOMAIN a = 1..m /\ DOMAIN b = 1..n BY <1>1, <1>2, NotEmpty
<1>4. DOMAIN y = 1..(m + n) /\ \A i \in 1..(m + n) : y[i] = IF i <= m THEN a[i] ELSE b[i - m]
  BY <1>1, <1>2, ConcatFacts
<1>5. PICK places, P, Q : places = TagPlaces(y, tag) /\ P = TagPlaces(a, tag) /\ Q = TagPlaces(b, tag) OBVIOUS
<1>6. ASSUME NEW i \in DOMAIN a PROVE i \in P <=> i \in places
  <2>1. i \in 1..(m + n) /\ i <= m BY <1>3
  <2>2. y[i] = a[i] BY <1>4, <2>1
  <2>3. QED BY <1>4, <1>5, <2>1, <2>2 DEF TagPlaces
<1>7. ASSUME NEW i \in DOMAIN b PROVE i \in Q <=> i + Len(a) \in places
  <2>1. i + m \in 1..(m + n) /\ ~(i + m <= m) /\ (i + m) - m = i BY <1>3
  <2>2. y[i + m] = b[i] BY <1>4, <2>1
  <2>3. QED BY <1>2, <1>4, <1>5, <2>1, <2>2 DEF TagPlaces
<1>8. PlacesOf(a, b, places, P, Q) BY <1>6, <1>7 DEF PlacesOf
<1>9. KeptAt(y, places) = KeptAt(a, P) \o KeptAt(b, Q) BY <1>8, KeptJoin
<1>10. QED BY <1>1, <1>5, <1>9 DEF TagsIn

\* Items without the tag.
LEMMA TagsNone ==
  ASSUME NEW s, IsSeq(s), NEW tag, \A i \in DOMAIN s : s[i].tag # tag
  PROVE  TagsIn(s, tag) = <<>>
<1>1. PICK P, y : P = TagPlaces(s, tag) /\ y = KeptAt(s, P) OBVIOUS
<1>2. P = {} BY <1>1 DEF TagPlaces
<1>3. IsSeq(y) /\ \A j \in DOMAIN y : \E i \in DOMAIN s : i \in P /\ y[j] = s[i] BY <1>1, KeptFacts
<1>4. DOMAIN y = {} BY <1>2, <1>3
<1>5. Len(y) \in Nat /\ DOMAIN y = 1..Len(y) /\ (y # <<>> => Len(y) >= 1) BY <1>3, NotEmpty
<1>6. ~(Len(y) >= 1)
  <2>1. SUFFICES ASSUME Len(y) >= 1 PROVE FALSE OBVIOUS
  <2>2. 1 \in DOMAIN y BY <1>5, <2>1
  <2>3. QED BY <1>4, <2>2
<1>7. y = <<>> BY <1>5, <1>6
<1>8. QED BY <1>1, <1>7 DEF TagsIn

\* One item.
LEMMA TagsOne ==
  ASSUME NEW e, NEW tag
  PROVE  TagsIn(<<e>>, tag) = IF e.tag = tag THEN <<e>> ELSE <<>>
<1>1. PICK s : s = <<e>> OBVIOUS
<1>2. IsSeq(s) /\ Len(s) = 1 /\ DOMAIN s = 1..1 /\ s[1] = e BY <1>1, OneFacts
<1>3. CASE e.tag # tag
  <2>1. \A i \in DOMAIN s : s[i].tag # tag BY <1>2, <1>3
  <2>2. QED BY <1>1, <1>2, <1>3, <2>1, TagsNone
<1>4. CASE e.tag = tag
  <2>1. PICK P : P = TagPlaces(s, tag) OBVIOUS
  <2>2. 1 \in P BY <1>2, <1>4, <2>1 DEF TagPlaces
  <2>3. PICK f : KeptRun(f, s, P, Len(s)) /\ f[Len(s)] = KeptAt(s, P) BY <1>2, KeptSteps
  <2>4. f[0] = <<>> /\ \A k \in 1..1 : f[k] = IF k \in P THEN Append(f[k - 1], s[k]) ELSE f[k - 1]
    BY <1>2, <2>3 DEF KeptRun
  <2>5. f[1] = Append(<<>>, e)
    <3>1. PICK k \in 1..1 : TRUE OBVIOUS
    <3>2. k = 1 /\ k - 1 = 0 OBVIOUS
    <3>3. f[k] = Append(f[k - 1], s[k]) BY <2>2, <2>4, <3>2
    <3>4. QED BY <1>2, <2>4, <3>2, <3>3
  <2>6. Append(<<>>, e) = <<e>> OBVIOUS
  <2>7. QED BY <1>1, <1>2, <1>4, <2>1, <2>3, <2>5, <2>6 DEF TagsIn
<1>5. QED BY <1>3, <1>4

\* What the characters are of, and how many marks there are.
Ofs(cs) == [i \in DOMAIN cs |-> cs[i].of]
Letters(s) == Ofs(TagsIn(s, "char"))
Marks(s) == Len(TagsIn(s, "mark"))

\* A sequence given by its elements.
LEMMA MadeSeq ==
  ASSUME NEW n \in Nat, NEW f, DOMAIN f = 1..n, f = [i \in 1..n |-> f[i]]
  PROVE  IsSeq(f) /\ Len(f) = n
<1>1. f \in [1..n -> {f[i] : i \in DOMAIN f}] BY Zenon
<1>2. f \in Seq({f[i] : i \in DOMAIN f}) BY <1>1, SeqDef
<1>3. IsSeq(f) /\ Len(f) \in Nat /\ DOMAIN f = 1..Len(f) BY <1>2, AnySeq DEF IsSeq
<1>4. Len(f) = n BY <1>3
<1>5. QED BY <1>3, <1>4

\* What they are of.
LEMMA OfsIs ==
  ASSUME NEW cs, IsSeq(cs)
  PROVE  /\ IsSeq(Ofs(cs)) /\ Len(Ofs(cs)) = Len(cs) /\ DOMAIN Ofs(cs) = 1..Len(cs)
         /\ \A i \in 1..Len(cs) : Ofs(cs)[i] = cs[i].of
<1>1. PICK n \in Nat : n = Len(cs) /\ DOMAIN cs = 1..n BY NotEmpty
<1>2. PICK f : f = Ofs(cs) OBVIOUS
<1>3. f = [i \in 1..n |-> cs[i].of] BY <1>1, <1>2 DEF Ofs
<1>4. DOMAIN f = 1..n /\ f = [i \in 1..n |-> f[i]] /\ \A i \in 1..n : f[i] = cs[i].of BY <1>3
<1>5. IsSeq(f) /\ Len(f) = n BY <1>4, MadeSeq
<1>6. QED BY <1>1, <1>2, <1>4, <1>5

\* Letters and marks of two parts.
LEMMA LettersJoin ==
  ASSUME NEW a, IsSeq(a), NEW b, IsSeq(b)
  PROVE  /\ Letters(a \o b) = Letters(a) \o Letters(b) /\ IsSeq(Letters(a))
         /\ Marks(a \o b) = Marks(a) + Marks(b) /\ Marks(a) \in Nat /\ Marks(b) \in Nat
<1>1. PICK ab, char, mark : ab = a \o b /\ char = "char" /\ mark = "mark" OBVIOUS
<1>2. Joined(a, b, ab) BY <1>1 DEF Joined
<1>3. PICK x, y, z : x = TagsIn(a, char) /\ y = TagsIn(b, char) /\ z = TagsIn(ab, char) OBVIOUS
<1>4. IsSeq(x) /\ IsSeq(y) BY <1>3, TagsAre
<1>5. z = x \o y BY <1>3, <1>2, TagsJoin
<1>6. PICK p \in Nat, q \in Nat : p = Len(x) /\ q = Len(y) BY <1>4, NotEmpty
<1>7. IsSeq(z) /\ Len(z) = p + q /\ \A i \in 1..(p + q) : z[i] = IF i <= p THEN x[i] ELSE y[i - p]
  BY <1>4, <1>5, <1>6, ConcatFacts
<1>8. PICK f, g, h, k : f = Ofs(x) /\ g = Ofs(y) /\ h = Ofs(z) /\ k = f \o g OBVIOUS
<1>9. /\ IsSeq(f) /\ Len(f) = p /\ (\A i \in 1..p : f[i] = x[i].of)
      /\ IsSeq(g) /\ Len(g) = q /\ (\A i \in 1..q : g[i] = y[i].of)
      /\ IsSeq(h) /\ Len(h) = p + q /\ (\A i \in 1..(p + q) : h[i] = z[i].of)
  BY <1>4, <1>6, <1>7, <1>8, OfsIs
<1>10. IsSeq(k) /\ Len(k) = p + q /\ \A i \in 1..(p + q) : k[i] = IF i <= p THEN f[i] ELSE g[i - p]
  <2>1. /\ IsSeq(f \o g) /\ Len(f \o g) = Len(f) + Len(g)
        /\ \A i \in 1..(Len(f) + Len(g)) : (f \o g)[i] = IF i <= Len(f) THEN f[i] ELSE g[i - Len(f)]
    BY <1>9, ConcatFacts
  <2>2. QED BY <1>8, <1>9, <2>1
<1>11. ASSUME NEW i \in 1..(p + q) PROVE h[i] = k[i]
  <2>1. CASE i <= p
    <3>1. i \in 1..p BY <2>1
    <3>2. QED BY <1>7, <1>9, <1>10, <2>1, <3>1
  <2>2. CASE ~(i <= p)
    <3>1. i - p \in 1..q BY <2>2
    <3>2. QED BY <1>7, <1>9, <1>10, <2>2, <3>1
  <2>3. QED BY <2>1, <2>2
<1>12. h = k BY <1>9, <1>10, <1>11, SameSeq
<1>13. PICK u, v : u = TagsIn(a, mark) /\ v = TagsIn(b, mark) OBVIOUS
<1>14. IsSeq(u) /\ IsSeq(v) /\ Len(u) \in Nat /\ Len(v) \in Nat BY <1>13, TagsAre
<1>15. TagsIn(ab, mark) = u \o v BY <1>13, <1>2, TagsJoin
<1>16. Len(u \o v) = Len(u) + Len(v) BY <1>14, ConcatFacts
<1>17. QED BY <1>1, <1>3, <1>8, <1>9, <1>12, <1>13, <1>14, <1>15, <1>16 DEF Letters, Marks

\* Items that are neither characters nor marks, such as tags.
LEMMA LettersNone ==
  ASSUME NEW s, IsSeq(s), \A i \in DOMAIN s : s[i].tag \in {"open", "close"}
  PROVE  Letters(s) = <<>> /\ Marks(s) = 0
<1>1. TagsIn(s, "char") = <<>> BY TagsNone
<1>2. TagsIn(s, "mark") = <<>> BY TagsNone
<1>3. Ofs(<<>>) = <<>>
  <2>1. PICK e : e = <<>> OBVIOUS
  <2>2. IsSeq(e) /\ Len(e) = 0 BY <2>1, EmptyIsSeq
  <2>3. IsSeq(Ofs(e)) /\ Len(Ofs(e)) = 0 BY <2>2, OfsIs
  <2>4. Ofs(e) = <<>> BY <2>3, NotEmpty
  <2>5. QED BY <2>1, <2>4
<1>4. QED BY <1>1, <1>2, <1>3, EmptyIsSeq DEF Letters, Marks

\* One item more.
LEMMA LettersOne ==
  /\ \A c : Letters(<<Char(c)>>) = <<c>> /\ Marks(<<Char(c)>>) = 0
  /\ Letters(<<Mark>>) = <<>> /\ Marks(<<Mark>>) = 1
<1>1. ASSUME NEW c PROVE Letters(<<Char(c)>>) = <<c>> /\ Marks(<<Char(c)>>) = 0
  <2>1. PICK e : e = Char(c) OBVIOUS
  <2>2. e.tag = "char" /\ e.of = c BY <2>1 DEF Char
  <2>3. TagsIn(<<e>>, "char") = <<e>> /\ TagsIn(<<e>>, "mark") = <<>> BY <2>2, TagsOne
  <2>4. PICK s, f : s = <<e>> /\ f = Ofs(s) OBVIOUS
  <2>5. IsSeq(s) /\ Len(s) = 1 /\ s[1] = e BY <2>4, OneFacts
  <2>6. IsSeq(f) /\ Len(f) = 1 /\ f[1] = c BY <2>2, <2>4, <2>5, OfsIs
  <2>7. PICK g : g = <<c>> OBVIOUS
  <2>8. IsSeq(g) /\ Len(g) = 1 /\ g[1] = c BY <2>7, OneFacts
  <2>9. f = g BY <2>6, <2>8, SameSeq
  <2>10. QED BY <2>1, <2>3, <2>4, <2>7, <2>9, EmptyIsSeq DEF Letters, Marks
<1>2. Letters(<<Mark>>) = <<>> /\ Marks(<<Mark>>) = 1
  <2>1. PICK e : e = Mark OBVIOUS
  <2>2. e.tag = "mark" BY <2>1 DEF Mark
  <2>3. TagsIn(<<e>>, "mark") = <<e>> /\ TagsIn(<<e>>, "char") = <<>> BY <2>2, TagsOne
  <2>4. PICK n : n = <<>> OBVIOUS
  <2>5. IsSeq(n) /\ Len(n) = 0 BY <2>4, EmptyIsSeq
  <2>6. IsSeq(Ofs(n)) /\ Len(Ofs(n)) = 0 BY <2>5, OfsIs
  <2>7. Ofs(n) = <<>> BY <2>6, NotEmpty
  <2>8. Len(<<e>>) = 1 BY OneFacts
  <2>9. QED BY <2>1, <2>3, <2>4, <2>7, <2>8 DEF Letters, Marks
<1>3. QED BY <1>1, <1>2

-----------------------------------------------------------------------------
(* Nesting                                                                   *)

Weight(x) == IF x.tag = "open" THEN 1 ELSE IF x.tag = "close" THEN 0 - 1 ELSE 0
DepthRun(h, s, c) ==
  /\ h[0] = c
  /\ \A k \in 0..Len(s) : h[k] \in Nat
  /\ \A k \in 1..Len(s) : h[k] = h[k - 1] + Weight(s[k])

\* From c open tags on, no tag is closed that is not open, and in the end d are.
Nests(s, c, d) == IsSeq(s) /\ \E h : DepthRun(h, s, c) /\ h[Len(s)] = d

\* The numbers of open tags.
LEMMA NestsNat ==
  ASSUME NEW s, NEW c, NEW d, Nests(s, c, d)
  PROVE  c \in Nat /\ d \in Nat
<1>1. Len(s) \in Nat BY NotEmpty DEF Nests
<1>2. PICK h : DepthRun(h, s, c) /\ h[Len(s)] = d BY DEF Nests
<1>3. 0 \in 0..Len(s) /\ Len(s) \in 0..Len(s) BY <1>1
<1>4. QED BY <1>2, <1>3 DEF DepthRun

\* Nesting goes on.
LEMMA NestsJoin ==
  ASSUME NEW a, NEW b, NEW y, Joined(a, b, y), NEW c, NEW d, NEW e, Nests(a, c, d), Nests(b, d, e)
  PROVE  Nests(y, c, e)
<1>1. IsSeq(a) /\ IsSeq(b) /\ y = a \o b BY DEF Joined
<1>2. PICK m \in Nat, n \in Nat : m = Len(a) /\ n = Len(b) BY <1>1, NotEmpty
<1>3. /\ IsSeq(y) /\ Len(y) = m + n
      /\ \A i \in 1..(m + n) : y[i] = IF i <= m THEN a[i] ELSE b[i - m]
  BY <1>1, <1>2, ConcatFacts
<1>4. PICK f : DepthRun(f, a, c) /\ f[m] = d BY <1>2 DEF Nests
<1>5. PICK g : DepthRun(g, b, d) /\ g[n] = e BY <1>2 DEF Nests
<1>6. PICK h : h = [k \in 0..(m + n) |-> IF k <= m THEN f[k] ELSE g[k - m]] OBVIOUS
<1>7. \A k \in 0..m : h[k] = f[k] BY <1>6
<1>8. \A k \in 0..n : h[m + k] = g[k]
  <2>1. ASSUME NEW k \in 0..n PROVE h[m + k] = g[k]
    <3>1. CASE k = 0
      <4>1. m + k = m /\ m \in 0..m BY <3>1
      <4>2. h[m] = d BY <1>4, <1>7, <4>1
      <4>3. g[0] = d BY <1>5 DEF DepthRun
      <4>4. QED BY <3>1, <4>1, <4>2, <4>3
    <3>2. CASE k # 0
      <4>1. ~(m + k <= m) /\ (m + k) - m = k /\ m + k \in 0..(m + n) BY <3>2
      <4>2. QED BY <1>6, <4>1
    <3>3. QED BY <3>1, <3>2
  <2>2. QED BY <2>1
<1>9. /\ f[0] = c /\ (\A k \in 0..m : f[k] \in Nat) /\ (\A k \in 1..m : f[k] = f[k - 1] + Weight(a[k]))
      /\ (\A k \in 0..n : g[k] \in Nat) /\ (\A k \in 1..n : g[k] = g[k - 1] + Weight(b[k]))
  BY <1>2, <1>4, <1>5 DEF DepthRun
<1>10. ASSUME NEW k \in 0..(m + n) PROVE h[k] \in Nat
  <2>1. CASE k <= m
    <3>1. k \in 0..m BY <2>1
    <3>2. QED BY <1>7, <1>9, <3>1
  <2>2. CASE ~(k <= m)
    <3>1. PICK j \in 0..n : k = m + j
      <4>1. k - m \in 0..n /\ k = m + (k - m) BY <2>2
      <4>2. QED BY <4>1
    <3>2. QED BY <1>8, <1>9, <3>1
  <2>3. QED BY <2>1, <2>2
<1>11. ASSUME NEW k \in 1..(m + n) PROVE h[k] = h[k - 1] + Weight(y[k])
  <2>1. CASE k <= m
    <3>1. k \in 1..m /\ k \in 0..m /\ k - 1 \in 0..m BY <2>1
    <3>2. y[k] = a[k] BY <1>3, <2>1
    <3>3. QED BY <1>7, <1>9, <3>1, <3>2
  <2>2. CASE ~(k <= m)
    <3>1. PICK j \in 1..n : k = m + j
      <4>1. k - m \in 1..n /\ k = m + (k - m) BY <2>2
      <4>2. QED BY <4>1
    <3>2. y[k] = b[j]
      <4>1. k - m = j BY <3>1
      <4>2. QED BY <1>3, <2>2, <4>1
    <3>3. k - 1 = m + (j - 1) /\ j \in 0..n /\ j - 1 \in 0..n BY <3>1
    <3>4. h[k] = g[j] /\ h[k - 1] = g[j - 1] BY <1>8, <3>1, <3>3
    <3>5. QED BY <1>9, <3>2, <3>4
  <2>3. QED BY <2>1, <2>2
<1>12. h[0] = c BY <1>7, <1>9
<1>13. DepthRun(h, y, c) BY <1>3, <1>10, <1>11, <1>12 DEF DepthRun
<1>14. h[m + n] = e BY <1>5, <1>8
<1>15. QED BY <1>3, <1>13, <1>14 DEF Nests

\* And can be cut.
LEMMA NestsSplit ==
  ASSUME NEW a, NEW b, NEW y, Joined(a, b, y), NEW c, NEW e, Nests(y, c, e)
  PROVE  \E d : Nests(a, c, d) /\ Nests(b, d, e)
<1>1. IsSeq(a) /\ IsSeq(b) /\ y = a \o b BY DEF Joined
<1>2. PICK m \in Nat, n \in Nat : m = Len(a) /\ n = Len(b) BY <1>1, NotEmpty
<1>3. /\ Len(y) = m + n
      /\ \A i \in 1..(m + n) : y[i] = IF i <= m THEN a[i] ELSE b[i - m]
  BY <1>1, <1>2, ConcatFacts
<1>4. PICK h : DepthRun(h, y, c) /\ h[m + n] = e BY <1>3 DEF Nests
<1>5. /\ h[0] = c /\ (\A k \in 0..(m + n) : h[k] \in Nat)
      /\ \A k \in 1..(m + n) : h[k] = h[k - 1] + Weight(y[k])
  BY <1>3, <1>4 DEF DepthRun
<1>6. Nests(a, c, h[m])
  <2>1. \A k \in 0..m : h[k] \in Nat BY <1>5
  <2>2. ASSUME NEW k \in 1..m PROVE h[k] = h[k - 1] + Weight(a[k])
    <3>1. k \in 1..(m + n) /\ k <= m OBVIOUS
    <3>2. y[k] = a[k] BY <1>3, <3>1
    <3>3. QED BY <1>5, <3>1, <3>2
  <2>3. DepthRun(h, a, c) BY <1>2, <1>5, <2>1, <2>2 DEF DepthRun
  <2>4. QED BY <1>1, <1>2, <2>3 DEF Nests
<1>7. Nests(b, h[m], e)
  <2>1. PICK g : g = [k \in 0..n |-> h[m + k]] OBVIOUS
  <2>2. \A k \in 0..n : g[k] = h[m + k] BY <2>1
  <2>3. \A k \in 0..n : g[k] \in Nat BY <1>5, <2>2
  <2>4. ASSUME NEW k \in 1..n PROVE g[k] = g[k - 1] + Weight(b[k])
    <3>1. m + k \in 1..(m + n) /\ ~(m + k <= m) /\ (m + k) - m = k /\ (m + k) - 1 = m + (k - 1) OBVIOUS
    <3>2. y[m + k] = b[k] BY <1>3, <3>1
    <3>3. h[m + k] = h[(m + k) - 1] + Weight(y[m + k]) BY <1>5, <3>1
    <3>4. k \in 0..n /\ k - 1 \in 0..n OBVIOUS
    <3>5. g[k] = h[m + k] /\ g[k - 1] = h[m + (k - 1)] BY <2>2, <3>4
    <3>6. QED BY <3>1, <3>2, <3>3, <3>5
  <2>5. g[0] = h[m] /\ g[n] = h[m + n]
    <3>1. 0 \in 0..n /\ n \in 0..n /\ m + 0 = m OBVIOUS
    <3>2. QED BY <2>2, <3>1
  <2>6. DepthRun(g, b, h[m]) BY <1>2, <2>3, <2>4, <2>5 DEF DepthRun
  <2>7. QED BY <1>1, <1>2, <1>4, <2>5, <2>6 DEF Nests
<1>8. QED BY <1>6, <1>7

\* One item.
LEMMA NestsOne ==
  ASSUME NEW x, NEW c \in Nat, NEW d \in Nat, d = c + Weight(x)
  PROVE  Nests(<<x>>, c, d)
<1>1. PICK s : s = <<x>> OBVIOUS
<1>2. IsSeq(s) /\ Len(s) = 1 /\ s[1] = x BY <1>1, OneFacts
<1>3. PICK h : h = [k \in 0..1 |-> IF k = 0 THEN c ELSE d] OBVIOUS
<1>4. h[0] = c /\ h[1] = d BY <1>3
<1>5. \A k \in 0..1 : h[k] \in Nat BY <1>3
<1>6. ASSUME NEW k \in 1..1 PROVE h[k] = h[k - 1] + Weight(s[k])
  <2>1. k = 1 /\ k - 1 = 0 OBVIOUS
  <2>2. QED BY <1>2, <1>4, <2>1
<1>7. DepthRun(h, s, c) BY <1>2, <1>4, <1>5, <1>6 DEF DepthRun
<1>8. QED BY <1>1, <1>2, <1>4, <1>7 DEF Nests

\* No item.
LEMMA NestsNone ==
  ASSUME NEW c \in Nat
  PROVE  Nests(<<>>, c, c)
<1>1. PICK s : s = <<>> OBVIOUS
<1>2. IsSeq(s) /\ Len(s) = 0 BY <1>1, EmptyIsSeq
<1>3. PICK h : h = [k \in 0..0 |-> c] OBVIOUS
<1>4. h[0] = c /\ \A k \in 0..0 : h[k] \in Nat BY <1>3
<1>5. \A k \in 1..0 : FALSE OBVIOUS
<1>6. DepthRun(h, s, c) BY <1>2, <1>4, <1>5 DEF DepthRun
<1>7. QED BY <1>1, <1>2, <1>4, <1>6 DEF Nests

\* A tag for each that is open.
LEMMA NestsAll ==
  ASSUME NEW s, IsSeq(s), NEW n \in Nat, n = Len(s)
  PROVE  /\ (\A k \in 1..n : s[k].tag = "close") => Nests(s, n, 0)
         /\ (\A k \in 1..n : s[k].tag = "open") => Nests(s, 0, n)
<1>1. ASSUME \A k \in 1..n : s[k].tag = "close" PROVE Nests(s, n, 0)
  <2>1. PICK h : h = [k \in 0..n |-> n - k] OBVIOUS
  <2>2. \A k \in 0..n : h[k] = n - k /\ h[k] \in Nat BY <2>1
  <2>3. \A k \in 1..n : Weight(s[k]) = 0 - 1 BY <1>1 DEF Weight
  <2>4. ASSUME NEW k \in 1..n PROVE h[k] = h[k - 1] + Weight(s[k])
    <3>1. k \in 0..n /\ k - 1 \in 0..n OBVIOUS
    <3>2. h[k] = n - k /\ h[k - 1] = n - (k - 1) BY <2>2, <3>1
    <3>3. QED BY <2>3, <3>2
  <2>5. h[0] = n /\ h[n] = 0
    <3>1. 0 \in 0..n /\ n \in 0..n OBVIOUS
    <3>2. QED BY <2>2, <3>1
  <2>6. DepthRun(h, s, n) BY <2>2, <2>4, <2>5 DEF DepthRun
  <2>7. QED BY <2>5, <2>6 DEF Nests
<1>2. ASSUME \A k \in 1..n : s[k].tag = "open" PROVE Nests(s, 0, n)
  <2>1. PICK h : h = [k \in 0..n |-> k] OBVIOUS
  <2>2. \A k \in 0..n : h[k] = k /\ h[k] \in Nat BY <2>1
  <2>3. \A k \in 1..n : Weight(s[k]) = 1 BY <1>2 DEF Weight
  <2>4. ASSUME NEW k \in 1..n PROVE h[k] = h[k - 1] + Weight(s[k])
    <3>1. k \in 0..n /\ k - 1 \in 0..n OBVIOUS
    <3>2. h[k] = k /\ h[k - 1] = k - 1 BY <2>2, <3>1
    <3>3. QED BY <2>3, <3>2
  <2>5. h[0] = 0 /\ h[n] = n
    <3>1. 0 \in 0..n /\ n \in 0..n OBVIOUS
    <3>2. QED BY <2>2, <3>1
  <2>6. DepthRun(h, s, 0) BY <2>2, <2>4, <2>5 DEF DepthRun
  <2>7. QED BY <2>5, <2>6 DEF Nests
<1>3. QED BY <1>1, <1>2

\* A sequence in two parts.
LEMMA SubSplit ==
  ASSUME NEW s, IsSeq(s), NEW n \in 0..Len(s)
  PROVE  Joined(SubSeq(s, 1, n), SubSeq(s, n + 1, Len(s)), s)
<1>1. PICK m \in Nat, one \in Nat : m = Len(s) /\ one = 1 BY NotEmpty
<1>2. n \in Nat /\ n <= m /\ one \in Nat \ {0} /\ n + 1 \in Nat \ {0} /\ m <= Len(s) BY <1>1
<1>3. PICK j, a, b, y : j = n + 1 /\ a = SubSeq(s, one, n) /\ b = SubSeq(s, j, m) /\ y = a \o b OBVIOUS
<1>4. /\ IsSeq(a) /\ Len(a) = (IF one <= n THEN n - one + 1 ELSE 0) /\ DOMAIN a = 1..Len(a)
      /\ \A i \in DOMAIN a : one + i - 1 \in 1..n /\ a[i] = s[one + i - 1]
  BY <1>1, <1>2, <1>3, SubFacts
<1>5. /\ IsSeq(b) /\ Len(b) = (IF j <= m THEN m - j + 1 ELSE 0) /\ DOMAIN b = 1..Len(b)
      /\ \A i \in DOMAIN b : j + i - 1 \in 1..m /\ b[i] = s[j + i - 1]
  BY <1>1, <1>2, <1>3, SubFacts
<1>6. Len(a) = n /\ DOMAIN a = 1..n /\ Len(b) = m - n /\ DOMAIN b = 1..(m - n) BY <1>1, <1>2, <1>3, <1>4, <1>5
<1>7. \A i \in 1..n : a[i] = s[i]
  <2>1. ASSUME NEW i \in 1..n PROVE a[i] = s[i]
    <3>1. one + i - 1 = i BY <1>1
    <3>2. QED BY <1>4, <1>6, <3>1
  <2>2. QED BY <2>1
<1>8. \A i \in 1..(m - n) : b[i] = s[n + i]
  <2>1. ASSUME NEW i \in 1..(m - n) PROVE b[i] = s[n + i]
    <3>1. j + i - 1 = n + i BY <1>3
    <3>2. QED BY <1>5, <1>6, <3>1
  <2>2. QED BY <2>1
<1>9. /\ IsSeq(y) /\ Len(y) = Len(a) + Len(b)
      /\ \A i \in 1..(Len(a) + Len(b)) : y[i] = IF i <= Len(a) THEN a[i] ELSE b[i - Len(a)]
  <2>1. /\ IsSeq(a \o b) /\ Len(a \o b) = Len(a) + Len(b)
        /\ \A i \in 1..(Len(a) + Len(b)) : (a \o b)[i] = IF i <= Len(a) THEN a[i] ELSE b[i - Len(a)]
    BY <1>4, <1>5, ConcatFacts
  <2>2. QED BY <1>3, <2>1, Zenon
<1>10. n + (m - n) = m BY <1>2
<1>11. ASSUME NEW i \in 1..m PROVE y[i] = s[i]
  <2>1. y[i] = IF i <= n THEN a[i] ELSE b[i - n] BY <1>6, <1>9, <1>10
  <2>2. CASE i <= n BY <1>7, <2>1, <2>2
  <2>3. CASE ~(i <= n)
    <3>1. i - n \in 1..(m - n) /\ n + (i - n) = i BY <1>2, <2>3
    <3>2. QED BY <1>8, <2>1, <2>3, <3>1
  <2>4. QED BY <2>2, <2>3
<1>12. y = s BY <1>1, <1>6, <1>9, <1>10, <1>11, SameSeq
<1>13. QED BY <1>1, <1>3, <1>4, <1>5, <1>12 DEF Joined

\* By how much opening tags are more than closing ones.
LEMMA NestsCount ==
  ASSUME NEW s, NEW c, NEW d, Nests(s, c, d)
  PROVE  Len(TagsIn(s, "open")) - Len(TagsIn(s, "close")) = d - c
<1>1. IsSeq(s) BY DEF Nests
<1>2. PICK n \in Nat : n = Len(s) /\ DOMAIN s = 1..n BY <1>1, NotEmpty
<1>3. PICK h : DepthRun(h, s, c) /\ h[n] = d BY <1>2 DEF Nests
<1>4. PICK P, Q : P = TagPlaces(s, "open") /\ Q = TagPlaces(s, "close") OBVIOUS
<1>5. PICK f : KeptRun(f, s, P, Len(s)) /\ f[Len(s)] = KeptAt(s, P) /\ \A k \in 0..Len(s) : IsSeq(f[k])
  BY <1>1, KeptSteps
<1>6. PICK g : KeptRun(g, s, Q, Len(s)) /\ g[Len(s)] = KeptAt(s, Q) /\ \A k \in 0..Len(s) : IsSeq(g[k])
  BY <1>1, KeptSteps
<1>7. /\ h[0] = c /\ (\A k \in 0..n : h[k] \in Nat) /\ (\A k \in 1..n : h[k] = h[k - 1] + Weight(s[k]))
      /\ f[0] = <<>> /\ (\A k \in 1..n : f[k] = IF k \in P THEN Append(f[k - 1], s[k]) ELSE f[k - 1])
      /\ g[0] = <<>> /\ (\A k \in 1..n : g[k] = IF k \in Q THEN Append(g[k - 1], s[k]) ELSE g[k - 1])
      /\ \A k \in 0..n : IsSeq(f[k]) /\ IsSeq(g[k])
  BY <1>2, <1>3, <1>5, <1>6 DEF DepthRun, KeptRun
<1>8. \A k \in 1..n : (k \in P <=> s[k].tag = "open") /\ (k \in Q <=> s[k].tag = "close")
  BY <1>2, <1>4 DEF TagPlaces
<1>9. c \in Nat /\ d \in Nat BY NestsNat
<1> DEFINE G == {k \in 0..n : Len(f[k]) - Len(g[k]) = h[k] - c}
<1>10. 0 \in G
  <2>1. Len(f[0]) = 0 /\ Len(g[0]) = 0 BY <1>7, EmptyIsSeq
  <2>2. 0 - 0 = c - c /\ 0 \in 0..n BY <1>9
  <2>3. Len(f[0]) - Len(g[0]) = h[0] - c BY <1>7, <2>1, <2>2
  <2>4. QED BY <2>2, <2>3
<1>11. ASSUME NEW k \in 1..n, k - 1 \in G PROVE k \in G
  <2>1. k - 1 \in 0..n /\ k \in 0..n OBVIOUS
  <2>2. PICK u, v : u = f[k - 1] /\ v = g[k - 1] OBVIOUS
  <2>3. IsSeq(u) /\ IsSeq(v) BY <1>7, <2>1, <2>2
  <2>4. PICK p \in Nat, q \in Nat, z \in Nat : p = Len(u) /\ q = Len(v) /\ z = h[k - 1]
    <3>1. Len(u) \in Nat /\ Len(v) \in Nat /\ h[k - 1] \in Nat BY <1>7, <2>1, <2>3, NotEmpty
    <3>2. QED BY <3>1
  <2>5. p - q = z - c BY <1>11, <2>2, <2>4
  <2>6. Len(Append(u, s[k])) = p + 1 /\ Len(Append(v, s[k])) = q + 1 BY <2>3, <2>4, AppendFacts
  <2>7. h[k] = z + Weight(s[k]) BY <1>7, <2>4
  <2>8. f[k] = (IF k \in P THEN Append(u, s[k]) ELSE u) /\ g[k] = (IF k \in Q THEN Append(v, s[k]) ELSE v)
    BY <1>7, <2>2
  <2>9. Len(f[k]) - Len(g[k]) = h[k] - c
    <3>1. CASE s[k].tag = "open"
      <4>1. Weight(s[k]) = 1 BY <3>1 DEF Weight
      <4>2. Len(f[k]) = p + 1 /\ Len(g[k]) = q BY <1>8, <2>4, <2>6, <2>8, <3>1
      <4>3. (p + 1) - q = (z + 1) - c BY <1>9, <2>5
      <4>4. QED BY <2>7, <4>1, <4>2, <4>3
    <3>2. CASE s[k].tag = "close"
      <4>1. Weight(s[k]) = 0 - 1 BY <3>2 DEF Weight
      <4>2. Len(f[k]) = p /\ Len(g[k]) = q + 1 BY <1>8, <2>4, <2>6, <2>8, <3>2
      <4>3. p - (q + 1) = (z + (0 - 1)) - c BY <1>9, <2>5
      <4>4. QED BY <2>7, <4>1, <4>2, <4>3
    <3>3. CASE s[k].tag # "open" /\ s[k].tag # "close"
      <4>1. Weight(s[k]) = 0 BY <3>3 DEF Weight
      <4>2. Len(f[k]) = p /\ Len(g[k]) = q BY <1>8, <2>4, <2>8, <3>3
      <4>3. p - q = (z + 0) - c BY <1>9, <2>5
      <4>4. QED BY <2>7, <4>1, <4>2, <4>3
    <3>4. QED BY <3>1, <3>2, <3>3
  <2>10. QED BY <2>1, <2>9
<1>12. \A k \in 0..n : k \in G
  <2> HIDE DEF G
  <2>1. QED BY <1>10, <1>11, UpTo
<1>13. n \in G
  <2>1. n \in 0..n OBVIOUS
  <2> HIDE DEF G
  <2>2. QED BY <1>12, <2>1
<1>14. Len(f[n]) - Len(g[n]) = d - c BY <1>3, <1>13
<1>15. QED BY <1>2, <1>4, <1>5, <1>6, <1>14 DEF TagsIn

\* Counting tags, as the property does.
LEMMA CountIs ==
  ASSUME NEW s, NEW tag
  PROVE  CountTags(s, tag) = Len(TagsIn(s, tag))
BY Zenon DEF CountTags, Kept, TagsIn, TagPlaces

\* What nests from nothing to nothing is balanced.
LEMMA NestsBalanced ==
  ASSUME NEW s, Nests(s, 0, 0)
  PROVE  Balanced(s)
<1>1. IsSeq(s) BY DEF Nests
<1>2. ASSUME NEW y, NEW d, Nests(y, 0, d)
      PROVE  /\ CountTags(y, "close") \in Nat /\ CountTags(y, "open") \in Nat /\ d \in Nat
             /\ CountTags(y, "open") - CountTags(y, "close") = d
  <2>1. IsSeq(y) BY <1>2 DEF Nests
  <2>2. PICK p, q, open, close : open = "open" /\ close = "close" /\ p = Len(TagsIn(y, open)) /\ q = Len(TagsIn(y, close)) OBVIOUS
  <2>3. p \in Nat /\ q \in Nat BY <2>1, <2>2, TagsAre
  <2>4. p - q = d - 0 BY <1>2, <2>2, NestsCount
  <2>5. d \in Nat BY <1>2, NestsNat
  <2>6. CountTags(y, open) = p /\ CountTags(y, close) = q BY <2>2, CountIs
  <2>7. QED BY <2>2, <2>3, <2>4, <2>5, <2>6
<1>3. CountTags(s, "open") = CountTags(s, "close") BY <1>2
<1>4. ASSUME NEW n \in 0..Len(s)
      PROVE  CountTags(SubSeq(s, 1, n), "close") <= CountTags(SubSeq(s, 1, n), "open")
  <2>1. PICK a, b : a = SubSeq(s, 1, n) /\ b = SubSeq(s, n + 1, Len(s)) OBVIOUS
  <2>2. Joined(a, b, s) BY <1>1, <2>1, SubSplit
  <2>3. PICK d : Nests(a, 0, d) /\ Nests(b, d, 0) BY <2>2, NestsSplit
  <2>4. /\ CountTags(a, "close") \in Nat /\ CountTags(a, "open") \in Nat /\ d \in Nat
        /\ CountTags(a, "open") - CountTags(a, "close") = d
    BY <1>2, <2>3
  <2>5. QED BY <2>1, <2>4
<1>5. QED BY <1>3, <1>4 DEF Balanced

-----------------------------------------------------------------------------
(* The html: lines that are done, and the items since                        *)

\* Concatenation is associative.
LEMMA JoinAssoc ==
  ASSUME NEW a, NEW b, NEW c, IsSeq(a), IsSeq(b), IsSeq(c)
  PROVE  (a \o b) \o c = a \o (b \o c)
<1>1. PICK u, v, x, y : u = a \o b /\ v = b \o c /\ x = u \o c /\ y = a \o v OBVIOUS
<1>2. PICK p \in Nat, q \in Nat, n \in Nat : p = Len(a) /\ q = Len(b) /\ n = Len(c) BY NotEmpty
<1>3. /\ IsSeq(u) /\ Len(u) = p + q /\ (\A i \in 1..(p + q) : u[i] = IF i <= p THEN a[i] ELSE b[i - p])
      /\ IsSeq(v) /\ Len(v) = q + n /\ (\A i \in 1..(q + n) : v[i] = IF i <= q THEN b[i] ELSE c[i - q])
  BY <1>1, <1>2, ConcatFacts
<1>4. PICK pq \in Nat, qn \in Nat : pq = p + q /\ qn = q + n OBVIOUS
<1>5. /\ IsSeq(x) /\ Len(x) = pq + n /\ (\A i \in 1..(pq + n) : x[i] = IF i <= pq THEN u[i] ELSE c[i - pq])
      /\ IsSeq(y) /\ Len(y) = p + qn /\ (\A i \in 1..(p + qn) : y[i] = IF i <= p THEN a[i] ELSE v[i - p])
  <2>1. /\ IsSeq(u \o c) /\ Len(u \o c) = Len(u) + Len(c)
        /\ \A i \in 1..(Len(u) + Len(c)) : (u \o c)[i] = IF i <= Len(u) THEN u[i] ELSE c[i - Len(u)]
    BY <1>3, ConcatFacts
  <2>2. /\ IsSeq(a \o v) /\ Len(a \o v) = Len(a) + Len(v)
        /\ \A i \in 1..(Len(a) + Len(v)) : (a \o v)[i] = IF i <= Len(a) THEN a[i] ELSE v[i - Len(a)]
    BY <1>3, ConcatFacts
  <2>3. Len(u) = pq /\ Len(v) = qn BY <1>3, <1>4
  <2>4. QED BY <1>1, <1>2, <2>1, <2>2, <2>3
<1>6. Len(x) = Len(y) BY <1>4, <1>5
<1>7. ASSUME NEW i \in 1..Len(x) PROVE x[i] = y[i]
  <2>1. i \in 1..(p + q + n) BY <1>4, <1>5
  <2>2. CASE i <= p
    <3>1. i <= pq /\ i \in 1..(p + q) BY <1>4, <2>1, <2>2
    <3>2. x[i] = u[i] /\ u[i] = a[i] BY <1>3, <1>5, <2>2, <3>1
    <3>3. y[i] = a[i] BY <1>5, <1>6, <2>2
    <3>4. QED BY <3>2, <3>3
  <2>3. CASE p < i /\ i <= p + q
    <3>1. i <= pq /\ ~(i <= p) /\ i \in 1..(p + q) /\ i - p \in 1..(q + n) /\ i - p <= q BY <1>4, <2>1, <2>3
    <3>2. x[i] = u[i] /\ u[i] = b[i - p] BY <1>3, <1>5, <3>1
    <3>3. y[i] = v[i - p] /\ v[i - p] = b[i - p] BY <1>3, <1>5, <1>6, <3>1
    <3>4. QED BY <3>2, <3>3
  <2>4. CASE p + q < i
    <3>1. ~(i <= pq) /\ ~(i <= p) /\ i - p \in 1..(q + n) /\ ~(i - p <= q) /\ (i - p) - q = i - pq BY <1>4, <2>1, <2>4
    <3>2. x[i] = c[i - pq] BY <1>5, <3>1
    <3>3. y[i] = v[i - p] /\ v[i - p] = c[(i - p) - q] BY <1>3, <1>5, <1>6, <3>1
    <3>4. QED BY <3>1, <3>2, <3>3
  <2>5. QED BY <2>1, <2>2, <2>3, <2>4
<1>8. x = y BY <1>5, <1>6, <1>7, SameSeq
<1>9. QED BY <1>1, <1>8

\* The facts of a concatenation.
LEMMA JoinedFacts ==
  ASSUME NEW a, NEW b, NEW y, Joined(a, b, y)
  PROVE  /\ IsSeq(a) /\ IsSeq(b) /\ IsSeq(y) /\ y = a \o b
         /\ Len(a) \in Nat /\ Len(b) \in Nat /\ Len(y) = Len(a) + Len(b)
         /\ DOMAIN a = 1..Len(a) /\ DOMAIN b = 1..Len(b) /\ DOMAIN y = 1..(Len(a) + Len(b))
         /\ \A i \in 1..Len(a) : y[i] = a[i]
         /\ \A i \in 1..Len(b) : y[Len(a) + i] = b[i]
<1>1. IsSeq(a) /\ IsSeq(b) /\ y = a \o b BY DEF Joined
<1>2. PICK m \in Nat, n \in Nat : m = Len(a) /\ n = Len(b) BY <1>1, NotEmpty
<1>3. /\ IsSeq(y) /\ Len(y) = m + n /\ DOMAIN y = 1..(m + n)
      /\ \A i \in 1..(m + n) : y[i] = IF i <= m THEN a[i] ELSE b[i - m]
  BY <1>1, <1>2, ConcatFacts
<1>4. DOMAIN a = 1..m /\ DOMAIN b = 1..n BY <1>1, <1>2, NotEmpty
<1>5. \A i \in 1..m : y[i] = a[i]
  <2>1. ASSUME NEW i \in 1..m PROVE y[i] = a[i]
    <3>1. i \in 1..(m + n) /\ i <= m OBVIOUS
    <3>2. QED BY <1>3, <3>1
  <2>2. QED BY <2>1
<1>6. \A i \in 1..n : y[m + i] = b[i]
  <2>1. ASSUME NEW i \in 1..n PROVE y[m + i] = b[i]
    <3>1. m + i \in 1..(m + n) /\ ~(m + i <= m) /\ (m + i) - m = i OBVIOUS
    <3>2. QED BY <1>3, <3>1
  <2>2. QED BY <2>1
<1>7. QED BY <1>1, <1>2, <1>3, <1>4, <1>5, <1>6

\* Three parts, either way.
LEMMA JoinedAssoc ==
  ASSUME NEW a, NEW b, NEW ab, Joined(a, b, ab), NEW c, NEW y, Joined(ab, c, y)
  PROVE  \E bc : Joined(b, c, bc) /\ Joined(a, bc, y)
<1>1. IsSeq(a) /\ IsSeq(b) /\ ab = a \o b /\ IsSeq(c) /\ y = ab \o c BY DEF Joined
<1>2. PICK bc : bc = b \o c OBVIOUS
<1>3. Joined(b, c, bc) BY <1>1, <1>2 DEF Joined
<1>4. IsSeq(bc) BY <1>3, JoinedFacts
<1>5. y = a \o bc
  <2>1. (a \o b) \o c = a \o (b \o c) BY <1>1, JoinAssoc
  <2>2. QED BY <1>1, <1>2, <2>1
<1>6. Joined(a, bc, y) BY <1>1, <1>4, <1>5 DEF Joined
<1>7. QED BY <1>3, <1>6

\* The other way.
LEMMA JoinedBack ==
  ASSUME NEW b, NEW c, NEW bc, Joined(b, c, bc), NEW a, NEW y, Joined(a, bc, y)
  PROVE  \E ab : Joined(a, b, ab) /\ Joined(ab, c, y)
<1>1. IsSeq(a) /\ IsSeq(b) /\ bc = b \o c /\ IsSeq(c) /\ y = a \o bc BY DEF Joined
<1>2. PICK ab : ab = a \o b OBVIOUS
<1>3. Joined(a, b, ab) BY <1>1, <1>2 DEF Joined
<1>4. IsSeq(ab) BY <1>3, JoinedFacts
<1>5. y = ab \o c
  <2>1. (a \o b) \o c = a \o (b \o c) BY <1>1, JoinAssoc
  <2>2. QED BY <1>1, <1>2, <2>1
<1>6. Joined(ab, c, y) BY <1>1, <1>4, <1>5 DEF Joined
<1>7. QED BY <1>3, <1>6

SameLen(a, c) == Len(a) = Len(c)

\* Cut at one place, the parts are the same.
LEMMA JoinedCut ==
  ASSUME NEW a, NEW b, NEW y, Joined(a, b, y), NEW c, NEW e, Joined(c, e, y), SameLen(a, c)
  PROVE  a = c /\ b = e
<1>1. /\ IsSeq(a) /\ IsSeq(b) /\ Len(a) \in Nat /\ Len(b) \in Nat /\ Len(y) = Len(a) + Len(b)
      /\ (\A i \in 1..Len(a) : y[i] = a[i]) /\ \A i \in 1..Len(b) : y[Len(a) + i] = b[i]
  BY JoinedFacts
<1>2. /\ IsSeq(c) /\ IsSeq(e) /\ Len(c) \in Nat /\ Len(e) \in Nat /\ Len(y) = Len(c) + Len(e)
      /\ (\A i \in 1..Len(c) : y[i] = c[i]) /\ \A i \in 1..Len(e) : y[Len(c) + i] = e[i]
  BY JoinedFacts
<1>3. Len(a) = Len(c) /\ Len(b) = Len(e) BY <1>1, <1>2 DEF SameLen
<1>4. a = c BY <1>1, <1>2, <1>3, SameSeq
<1>5. b = e BY <1>1, <1>2, <1>3, SameSeq
<1>6. QED BY <1>4, <1>5

\* A line: it nests and ends with a newline.
LineOK(html, from, to) ==
  /\ from \in Nat /\ to \in Nat /\ from < to /\ to <= Len(html)
  /\ Nests(SubSeq(html, from + 1, to), 0, 0)
  /\ html[to] = Char(Newline)

LinesOK(done, lo) ==
  /\ IsSeq(done) /\ IsSeq(lo) /\ Len(lo) >= 1
  /\ lo[1] = 0 /\ lo[Len(lo)] = Len(done)
  /\ \A i \in 1..(Len(lo) - 1) : LineOK(done, lo[i], lo[i + 1])

\* A line stays when something follows.
LEMMA LineKept ==
  ASSUME NEW a, NEW b, NEW y, Joined(a, b, y), NEW from, NEW to, LineOK(a, from, to)
  PROVE  LineOK(y, from, to)
<1>1. /\ IsSeq(a) /\ IsSeq(y) /\ Len(a) \in Nat /\ Len(b) \in Nat /\ Len(y) = Len(a) + Len(b)
      /\ \A i \in 1..Len(a) : y[i] = a[i]
  BY JoinedFacts
<1>2. from \in Nat /\ to \in Nat /\ from < to /\ to <= Len(a) /\ to <= Len(y) BY <1>1 DEF LineOK
<1>3. PICK m, u, v : m = from + 1 /\ u = SubSeq(a, m, to) /\ v = SubSeq(y, m, to) OBVIOUS
<1>4. m \in Nat \ {0} BY <1>2, <1>3
<1>5. /\ IsSeq(u) /\ Len(u) = (IF m <= to THEN to - m + 1 ELSE 0) /\ DOMAIN u = 1..Len(u)
      /\ \A i \in DOMAIN u : m + i - 1 \in 1..to /\ u[i] = a[m + i - 1]
  BY <1>1, <1>2, <1>3, <1>4, SubFacts
<1>6. /\ IsSeq(v) /\ Len(v) = (IF m <= to THEN to - m + 1 ELSE 0) /\ DOMAIN v = 1..Len(v)
      /\ \A i \in DOMAIN v : m + i - 1 \in 1..to /\ v[i] = y[m + i - 1]
  BY <1>1, <1>2, <1>3, <1>4, SubFacts
<1>7. ASSUME NEW i \in 1..Len(u) PROVE u[i] = v[i]
  <2>1. i \in DOMAIN u /\ i \in DOMAIN v BY <1>5, <1>6
  <2>2. m + i - 1 \in 1..to /\ u[i] = a[m + i - 1] /\ v[i] = y[m + i - 1] BY <1>5, <1>6, <2>1
  <2>3. m + i - 1 \in 1..Len(a) BY <1>1, <1>2, <2>2
  <2>4. QED BY <1>1, <2>2, <2>3
<1>8. u = v BY <1>5, <1>6, <1>7, SameSeq
<1>9. y[to] = a[to]
  <2>1. to \in 1..Len(a) BY <1>1, <1>2
  <2>2. QED BY <1>1, <2>1
<1>10. QED BY <1>2, <1>3, <1>8, <1>9 DEF LineOK

\* One line more.
LEMMA LinesMore ==
  ASSUME NEW done, NEW lo, LinesOK(done, lo), NEW line, Nests(line, 0, 0), Len(line) >= 1,
         line[Len(line)] = Char(Newline), NEW y, Joined(done, line, y), NEW more, more = Append(lo, Len(y))
  PROVE  LinesOK(y, more)
<1>1. /\ IsSeq(done) /\ IsSeq(line) /\ IsSeq(y) /\ Len(done) \in Nat /\ Len(line) \in Nat
      /\ Len(y) = Len(done) + Len(line) /\ \A i \in 1..Len(line) : y[Len(done) + i] = line[i]
  BY JoinedFacts
<1>2. IsSeq(lo) /\ Len(lo) >= 1 /\ lo[1] = 0 /\ lo[Len(lo)] = Len(done) BY DEF LinesOK
<1>3. /\ IsSeq(more) /\ Len(lo) \in Nat /\ Len(more) = Len(lo) + 1
      /\ (\A i \in 1..Len(lo) : more[i] = lo[i]) /\ more[Len(lo) + 1] = Len(y)
  BY <1>2, AppendFacts
<1>4. PICK n \in Nat, m \in Nat, k \in Nat : n = Len(lo) /\ m = Len(done) /\ k = Len(line) BY <1>1, <1>3
<1>5. LineOK(y, m, m + k)
  <2>1. m < m + k /\ m + k <= Len(y) BY <1>1, <1>4
  <2>2. y[m + k] = Char(Newline)
    <3>1. k \in 1..k BY <1>4
    <3>2. QED BY <1>1, <1>4, <3>1
  <2>3. SubSeq(y, m + 1, m + k) = line
    <3>1. PICK j, u, v : j = m + 1 /\ u = SubSeq(y, j, m + k) /\ v = m + k OBVIOUS
    <3>2. j \in Nat \ {0} /\ v \in Nat /\ v <= Len(y) /\ j <= v /\ v - j + 1 = k BY <1>4, <2>1, <3>1
    <3>3. /\ IsSeq(u) /\ Len(u) = (IF j <= v THEN v - j + 1 ELSE 0) /\ DOMAIN u = 1..Len(u)
          /\ \A i \in DOMAIN u : u[i] = y[j + i - 1]
      BY <1>1, <3>1, <3>2, SubFacts
    <3>4. Len(u) = k BY <3>2, <3>3
    <3>5. ASSUME NEW i \in 1..k PROVE u[i] = line[i]
      <4>1. u[i] = y[j + i - 1] BY <3>3, <3>4
      <4>2. j + i - 1 = m + i BY <3>1
      <4>3. y[m + i] = line[i] BY <1>1, <1>4
      <4>4. QED BY <4>1, <4>2, <4>3
    <3>6. u = line BY <1>1, <1>4, <3>3, <3>4, <3>5, SameSeq
    <3>7. QED BY <3>1, <3>6
  <2>4. Nests(SubSeq(y, m + 1, m + k), 0, 0) BY <2>3
  <2>5. m + k \in Nat OBVIOUS
  <2>6. QED BY <2>1, <2>2, <2>4, <2>5, Zenon DEF LineOK
<1>6. ASSUME NEW i \in 1..(Len(more) - 1) PROVE LineOK(y, more[i], more[i + 1])
  <2>1. i \in 1..n BY <1>3, <1>4
  <2>2. CASE i < n
    <3>1. i \in 1..(Len(lo) - 1) /\ i \in 1..Len(lo) /\ i + 1 \in 1..Len(lo) BY <1>4, <2>1, <2>2
    <3>2. LineOK(done, lo[i], lo[i + 1]) BY <3>1 DEF LinesOK
    <3>3. LineOK(y, lo[i], lo[i + 1]) BY <3>2, LineKept
    <3>4. more[i] = lo[i] /\ more[i + 1] = lo[i + 1] BY <1>3, <3>1
    <3>5. QED BY <3>3, <3>4
  <2>3. CASE ~(i < n)
    <3>1. i = n BY <2>1, <2>3
    <3>2. more[i] = m /\ more[i + 1] = m + k BY <1>1, <1>2, <1>3, <1>4, <2>1, <3>1
    <3>3. QED BY <1>5, <3>2
  <2>4. QED BY <2>2, <2>3
<1>7. more[1] = 0 /\ more[Len(more)] = Len(y) /\ Len(more) >= 1
  <2>1. 1 \in 1..Len(lo) BY <1>2, <1>3
  <2>2. QED BY <1>2, <1>3, <2>1
<1>8. QED BY <1>1, <1>3, <1>6, <1>7 DEF LinesOK

\* The html, its lines' offsets, and where the last carriage return was, 1 more than
\* its offset: with d tags open.
Parts(html, lo, at, d, done, cur) ==
  /\ Joined(done, cur, html) /\ LinesOK(done, lo) /\ Nests(cur, 0, d)
  /\ \A k \in DOMAIN cur : cur[k] # Char(Newline)
  /\ at # 0 => at - 1 \in Len(done)..(Len(done) + Len(cur))
HtmlOK(html, lo, at, d) == at \in Nat /\ \E done, cur : Parts(html, lo, at, d, done, cur)

\* What is said of it.
LEMMA HtmlIs ==
  ASSUME NEW html, NEW lo, NEW at, NEW d, HtmlOK(html, lo, at, d)
  PROVE  IsSeq(html) /\ Len(html) \in Nat /\ d \in Nat /\ at \in Nat
<1>1. PICK done, cur : Parts(html, lo, at, d, done, cur) BY DEF HtmlOK
<1>2. Joined(done, cur, html) /\ Nests(cur, 0, d) BY <1>1 DEF Parts
<1>3. IsSeq(html) BY <1>2, JoinedFacts
<1>4. d \in Nat BY <1>2, NestsNat
<1>5. QED BY <1>3, <1>4, NotEmpty DEF HtmlOK

\* A carriage return is at the end, or none.
LEMMA HtmlReturn ==
  ASSUME NEW html, NEW lo, NEW at, NEW d, HtmlOK(html, lo, at, d)
  PROVE  HtmlOK(html, lo, Len(html) + 1, d) /\ HtmlOK(html, lo, 0, d)
<1>1. PICK done, cur : Parts(html, lo, at, d, done, cur) BY DEF HtmlOK
<1>2. /\ Joined(done, cur, html) /\ LinesOK(done, lo) /\ Nests(cur, 0, d)
      /\ \A k \in DOMAIN cur : cur[k] # Char(Newline)
  BY <1>1 DEF Parts
<1>3. Len(done) \in Nat /\ Len(cur) \in Nat /\ Len(html) = Len(done) + Len(cur) BY <1>2, JoinedFacts
<1>4. Len(html) + 1 \in Nat /\ (Len(html) + 1) - 1 \in Len(done)..(Len(done) + Len(cur)) BY <1>3
<1>5. Parts(html, lo, Len(html) + 1, d, done, cur) BY <1>2, <1>4 DEF Parts
<1>6. Parts(html, lo, 0, d, done, cur) BY <1>2 DEF Parts
<1>7. QED BY <1>4, <1>5, <1>6 DEF HtmlOK

Only(x, one) == one = <<x>>

\* An item more that ends no line.
LEMMA HtmlMore ==
  ASSUME NEW html, NEW lo, NEW at, NEW d, HtmlOK(html, lo, at, d), NEW x, x # Char(Newline),
         NEW e \in Nat, e = d + Weight(x), NEW one, Only(x, one), NEW y, Joined(html, one, y)
  PROVE  HtmlOK(y, lo, at, e)
<1>1. PICK done, cur : Parts(html, lo, at, d, done, cur) BY DEF HtmlOK
<1>2. /\ Joined(done, cur, html) /\ LinesOK(done, lo) /\ Nests(cur, 0, d)
      /\ (\A k \in DOMAIN cur : cur[k] # Char(Newline))
      /\ (at # 0 => at - 1 \in Len(done)..(Len(done) + Len(cur)))
  BY <1>1 DEF Parts
<1>3. PICK now : Joined(cur, one, now) /\ Joined(done, now, y) BY <1>2, JoinedAssoc
<1>4. d \in Nat BY <1>2, NestsNat
<1>5. Nests(one, d, e) BY <1>4, NestsOne DEF Only
<1>6. Nests(now, 0, e) BY <1>2, <1>3, <1>5, NestsJoin
<1>7. Len(one) = 1 /\ one[1] = x BY OneFacts DEF Only
<1>8. /\ Len(cur) \in Nat /\ DOMAIN cur = 1..Len(cur) /\ DOMAIN now = 1..(Len(cur) + Len(one))
      /\ Len(now) = Len(cur) + Len(one)
      /\ (\A i \in 1..Len(cur) : now[i] = cur[i]) /\ \A i \in 1..Len(one) : now[Len(cur) + i] = one[i]
  BY <1>3, JoinedFacts
<1>9. ASSUME NEW k \in DOMAIN now PROVE now[k] # Char(Newline)
  <2>1. CASE k <= Len(cur)
    <3>1. k \in 1..Len(cur) BY <1>7, <1>8, <2>1
    <3>2. QED BY <1>2, <1>8, <3>1
  <2>2. CASE ~(k <= Len(cur))
    <3>1. k = Len(cur) + 1 /\ 1 \in 1..Len(one) BY <1>7, <1>8, <2>2
    <3>2. now[k] = x BY <1>7, <1>8, <3>1
    <3>3. QED BY <3>2
  <2>3. QED BY <2>1, <2>2
<1>10. at # 0 => at - 1 \in Len(done)..(Len(done) + Len(now))
  <2>1. Len(done) \in Nat BY <1>2, JoinedFacts
  <2>2. at \in Nat BY DEF HtmlOK
  <2>3. QED BY <1>2, <1>7, <1>8, <2>1, <2>2
<1>11. Parts(y, lo, at, e, done, now) BY <1>2, <1>3, <1>6, <1>9, <1>10 DEF Parts
<1>12. QED BY <1>11 DEF HtmlOK

\* The mark of a carriage return, put in at its place.
Marked(html, at, y) ==
  y = (SubSeq(html, 1, at - 1) \o <<Mark>>) \o SubSeq(html, (at - 1) + 1, Len(html))

\* It changes no line and no character, and is one mark more.
LEMMA HtmlMarked ==
  ASSUME NEW html, NEW lo, NEW at, NEW d, HtmlOK(html, lo, at, d), at # 0, NEW y, Marked(html, at, y)
  PROVE  HtmlOK(y, lo, 0, d) /\ Letters(y) = Letters(html) /\ Marks(y) = Marks(html) + 1
<1>1. PICK done, cur : Parts(html, lo, at, d, done, cur) BY DEF HtmlOK
<1>2. /\ Joined(done, cur, html) /\ LinesOK(done, lo) /\ Nests(cur, 0, d)
      /\ (\A k \in DOMAIN cur : cur[k] # Char(Newline))
      /\ at - 1 \in Len(done)..(Len(done) + Len(cur))
  BY <1>1 DEF Parts
<1>3. /\ IsSeq(html) /\ IsSeq(cur) /\ Len(done) \in Nat /\ Len(cur) \in Nat /\ Len(html) = Len(done) + Len(cur)
      /\ DOMAIN cur = 1..Len(cur)
  BY <1>2, JoinedFacts
<1>4. at \in Nat BY DEF HtmlOK
<1>5. PICK n : n = at - 1 OBVIOUS
<1>6. n \in 0..Len(html) /\ n - Len(done) \in 0..Len(cur) /\ n \in Nat BY <1>2, <1>3, <1>4, <1>5
<1>7. PICK j \in 0..Len(cur) : j = n - Len(done) BY <1>6
<1>8. PICK a, b : a = SubSeq(html, 1, n) /\ b = SubSeq(html, n + 1, Len(html)) OBVIOUS
<1>9. Joined(a, b, html) BY <1>3, <1>6, <1>8, SubSplit
<1>10. PICK u, v : u = SubSeq(cur, 1, j) /\ v = SubSeq(cur, j + 1, Len(cur)) OBVIOUS
<1>11. Joined(u, v, cur) BY <1>3, <1>10, SubSplit
<1>12. PICK du : Joined(done, u, du) /\ Joined(du, v, html) BY <1>2, <1>11, JoinedBack
<1>13. a = du /\ b = v
  <2>1. Len(u) = j
    <3>1. PICK one : one = 1 OBVIOUS
    <3>2. one \in Nat \ {0} /\ j \in Nat /\ j <= Len(cur) BY <1>3, <3>1
    <3>3. Len(SubSeq(cur, one, j)) = (IF one <= j THEN j - one + 1 ELSE 0) BY <1>3, <3>2, SubFacts
    <3>4. QED BY <1>10, <3>1, <3>2, <3>3
  <2>2. Len(du) = Len(done) + Len(u) BY <1>12, JoinedFacts
  <2>3. Len(a) = n
    <3>1. PICK one : one = 1 OBVIOUS
    <3>2. one \in Nat \ {0} /\ n <= Len(html) BY <1>3, <1>6, <3>1
    <3>3. Len(SubSeq(html, one, n)) = (IF one <= n THEN n - one + 1 ELSE 0) BY <1>3, <1>6, <3>2, SubFacts
    <3>4. QED BY <1>6, <1>8, <3>1, <3>2, <3>3
  <2>4. SameLen(a, du) BY <1>3, <1>6, <1>7, <2>1, <2>2, <2>3 DEF SameLen
  <2>5. QED BY <1>9, <1>12, <2>4, JoinedCut
<1>14. PICK one, am : one = <<Mark>> /\ am = a \o one OBVIOUS
<1>15. IsSeq(one) /\ Len(one) = 1 /\ one[1] = Mark /\ DOMAIN one = 1..1 BY <1>14, OneFacts
<1>16. IsSeq(a) /\ IsSeq(b) BY <1>9, JoinedFacts
<1>17. Joined(a, one, am) BY <1>14, <1>15, <1>16 DEF Joined
<1>18. IsSeq(am) BY <1>17, JoinedFacts
<1>19. y = am \o b BY <1>5, <1>8, <1>14, Zenon DEF Marked
<1>20. Joined(am, b, y) BY <1>16, <1>18, <1>19 DEF Joined
<1>21. PICK um : Joined(u, one, um) /\ Joined(done, um, am) BY <1>12, <1>13, <1>17, JoinedAssoc
<1>22. PICK now : Joined(um, v, now) /\ Joined(done, now, y) BY <1>13, <1>20, <1>21, JoinedAssoc
<1>23. Nests(now, 0, d)
  <2>1. PICK c : Nests(u, 0, c) /\ Nests(v, c, d) BY <1>2, <1>11, NestsSplit
  <2>2. c \in Nat BY <2>1, NestsNat
  <2>3. Nests(one, c, c)
    <3>1. Weight(Mark) = 0 BY DEF Weight, Mark
    <3>2. c = c + Weight(Mark) BY <2>2, <3>1
    <3>3. QED BY <1>14, <2>2, <3>2, NestsOne
  <2>4. Nests(um, 0, c) BY <1>21, <2>1, <2>3, NestsJoin
  <2>5. QED BY <1>22, <2>1, <2>4, NestsJoin
<1>24. ASSUME NEW k \in DOMAIN now PROVE now[k] # Char(Newline)
  <2>1. PICK x, z : x = Len(u) /\ z = Len(v) OBVIOUS
  <2>2. /\ x \in Nat /\ Len(um) = x + 1 /\ (\A i \in 1..x : um[i] = u[i]) /\ (\A i \in 1..1 : um[x + i] = one[i])
    <3>1. /\ Len(u) \in Nat /\ Len(um) = Len(u) + Len(one) /\ (\A i \in 1..Len(u) : um[i] = u[i])
          /\ (\A i \in 1..Len(one) : um[Len(u) + i] = one[i])
      BY <1>21, JoinedFacts
    <3>2. QED BY <1>15, <2>1, <3>1
  <2>3. /\ z \in Nat /\ DOMAIN now = 1..((x + 1) + z) /\ (\A i \in 1..(x + 1) : now[i] = um[i])
        /\ (\A i \in 1..z : now[(x + 1) + i] = v[i])
    <3>1. /\ Len(v) \in Nat /\ DOMAIN now = 1..(Len(um) + Len(v)) /\ (\A i \in 1..Len(um) : now[i] = um[i])
          /\ (\A i \in 1..Len(v) : now[Len(um) + i] = v[i])
      BY <1>22, JoinedFacts
    <3>2. QED BY <2>1, <2>2, <3>1
  <2>4. /\ Len(cur) = x + z /\ (\A i \in 1..x : cur[i] = u[i]) /\ (\A i \in 1..z : cur[x + i] = v[i])
    BY <1>11, <2>1, JoinedFacts
  <2>5. CASE k \in 1..x
    <3>1. now[k] = cur[k] /\ k \in 1..(x + z) BY <2>2, <2>3, <2>4, <2>5
    <3>2. QED BY <1>2, <1>3, <2>4, <3>1
  <2>6. CASE k = x + 1
    <3>1. now[k] = um[k] BY <2>2, <2>3, <2>6
    <3>2. um[x + 1] = one[1] BY <2>2
    <3>3. Mark # Char(Newline)
      <4>1. Mark.tag = "mark" /\ Char(Newline).tag = "char" BY DEF Mark, Char
      <4>2. QED BY <4>1
    <3>4. QED BY <1>15, <2>6, <3>1, <3>2, <3>3
  <2>7. CASE k > x + 1
    <3>1. PICK i \in 1..z : k = (x + 1) + i
      <4>1. k - (x + 1) \in 1..z /\ k = (x + 1) + (k - (x + 1)) BY <2>2, <2>3, <2>7
      <4>2. QED BY <4>1
    <3>2. now[k] = v[i] BY <2>3, <3>1
    <3>3. cur[x + i] = v[i] BY <2>4
    <3>4. now[k] = cur[x + i] /\ x + i \in 1..(x + z) BY <2>2, <2>3, <3>2, <3>3
    <3>5. QED BY <1>2, <1>3, <2>4, <3>4
  <2>8. QED BY <2>2, <2>3, <2>5, <2>6, <2>7
<1>25. Parts(y, lo, 0, d, done, now) BY <1>2, <1>22, <1>23, <1>24 DEF Parts
<1>26. HtmlOK(y, lo, 0, d) BY <1>25 DEF HtmlOK
<1>27. Letters(y) = Letters(html) /\ Marks(y) = Marks(html) + 1
  <2>1. y = am \o b /\ am = a \o one /\ html = a \o b BY <1>9, <1>14, <1>19 DEF Joined
  <2>2. Letters(y) = Letters(am) \o Letters(b) /\ Marks(y) = Marks(am) + Marks(b) /\ Marks(b) \in Nat
    BY <1>16, <1>18, <2>1, LettersJoin
  <2>3. Letters(am) = Letters(a) \o Letters(one) /\ Marks(am) = Marks(a) + Marks(one) /\ Marks(a) \in Nat /\ IsSeq(Letters(a))
    BY <1>15, <1>16, <2>1, LettersJoin
  <2>4. Letters(html) = Letters(a) \o Letters(b) /\ Marks(html) = Marks(a) + Marks(b)
    BY <1>16, <2>1, LettersJoin
  <2>5. Letters(one) = <<>> /\ Marks(one) = 1 BY <1>14, LettersOne
  <2>6. Letters(am) = Letters(a) BY <2>3, <2>5, JoinNone
  <2>7. QED BY <2>2, <2>3, <2>4, <2>5, <2>6
<1>28. QED BY <1>26, <1>27

AllTags(s, n, tag) == IsSeq(s) /\ Len(s) = n /\ \A k \in 1..n : s[k].tag = tag

\* A newline: all that is open is closed before it and opened again after it.
LEMMA HtmlLine ==
  ASSUME NEW html, NEW lo, NEW at, NEW d, HtmlOK(html, lo, at, d),
         NEW closes, AllTags(closes, d, "close"), NEW opens, AllTags(opens, d, "open"),
         NEW nl, Only(Char(Newline), nl), NEW u, Joined(html, closes, u), NEW v, Joined(u, nl, v),
         NEW y, Joined(v, opens, y)
  PROVE  /\ HtmlOK(y, Append(lo, Len(v)), 0, d)
         /\ Letters(y) = Letters(html) \o <<Newline>> /\ Marks(y) = Marks(html)
<1>1. PICK done, cur : Parts(html, lo, at, d, done, cur) BY DEF HtmlOK
<1>2. Joined(done, cur, html) /\ LinesOK(done, lo) /\ Nests(cur, 0, d) BY <1>1 DEF Parts
<1>3. PICK n \in Nat : n = d BY <1>2, NestsNat
<1>4. /\ IsSeq(closes) /\ Len(closes) = n /\ (\A k \in 1..n : closes[k].tag = "close")
      /\ IsSeq(opens) /\ Len(opens) = n /\ \A k \in 1..n : opens[k].tag = "open"
  BY <1>3 DEF AllTags
<1>5. Nests(closes, d, 0) /\ Nests(opens, 0, d) BY <1>3, <1>4, NestsAll
<1>6. PICK cc : Joined(cur, closes, cc) /\ Joined(done, cc, u) BY <1>2, JoinedAssoc
<1>7. PICK line : Joined(cc, nl, line) /\ Joined(done, line, v) BY <1>6, JoinedAssoc
<1>8. Nests(line, 0, 0)
  <2>1. Weight(Char(Newline)) = 0 BY DEF Weight, Char
  <2>2. Nests(nl, 0, 0)
    <3>1. 0 = 0 + Weight(Char(Newline)) BY <2>1
    <3>2. QED BY <3>1, NestsOne DEF Only
  <2>3. Nests(cc, 0, 0) BY <1>2, <1>5, <1>6, NestsJoin
  <2>4. QED BY <1>7, <2>2, <2>3, NestsJoin
<1>9. Len(nl) = 1 /\ nl[1] = Char(Newline) /\ IsSeq(nl) BY OneFacts DEF Only
<1>10. Len(line) >= 1 /\ line[Len(line)] = Char(Newline)
  <2>1. /\ Len(cc) \in Nat /\ Len(line) = Len(cc) + Len(nl) /\ \A i \in 1..Len(nl) : line[Len(cc) + i] = nl[i]
    BY <1>7, JoinedFacts
  <2>2. 1 \in 1..Len(nl) /\ Len(line) = Len(cc) + 1 BY <1>9, <2>1
  <2>3. line[Len(cc) + 1] = nl[1] BY <2>1, <2>2
  <2>4. QED BY <1>9, <2>1, <2>2, <2>3
<1>11. PICK more : more = Append(lo, Len(v)) OBVIOUS
<1>12. LinesOK(v, more) BY <1>2, <1>7, <1>8, <1>10, <1>11, LinesMore
<1>13. ASSUME NEW k \in DOMAIN opens PROVE opens[k] # Char(Newline)
  <2>1. k \in 1..n BY <1>4, NotEmpty
  <2>2. opens[k].tag = "open" BY <1>4, <2>1
  <2>3. Char(Newline).tag = "char" BY DEF Char
  <2>4. QED BY <2>2, <2>3
<1>14. Parts(y, more, 0, d, v, opens) BY <1>5, <1>12, <1>13 DEF Parts
<1>15. HtmlOK(y, more, 0, d) BY <1>14 DEF HtmlOK
<1>16. Letters(closes) = <<>> /\ Marks(closes) = 0 /\ Letters(opens) = <<>> /\ Marks(opens) = 0
  <2>1. \A i \in DOMAIN closes : closes[i].tag \in {"open", "close"} BY <1>4, NotEmpty
  <2>2. \A i \in DOMAIN opens : opens[i].tag \in {"open", "close"} BY <1>4, NotEmpty
  <2>3. QED BY <1>4, <2>1, <2>2, LettersNone
<1>17. IsSeq(html) /\ IsSeq(u) /\ IsSeq(v) /\ u = html \o closes /\ v = u \o nl /\ y = v \o opens BY JoinedFacts
<1>18. Letters(u) = Letters(html) /\ Marks(u) = Marks(html)
  <2>1. /\ Letters(u) = Letters(html) \o Letters(closes) /\ IsSeq(Letters(html))
        /\ Marks(u) = Marks(html) + Marks(closes) /\ Marks(html) \in Nat
    BY <1>4, <1>17, LettersJoin
  <2>2. QED BY <1>16, <2>1, JoinNone
<1>19. Letters(v) = Letters(html) \o <<Newline>> /\ Marks(v) = Marks(html)
  <2>1. /\ Letters(v) = Letters(u) \o Letters(nl) /\ Marks(v) = Marks(u) + Marks(nl) /\ Marks(u) \in Nat
    BY <1>9, <1>17, LettersJoin
  <2>2. Letters(nl) = <<Newline>> /\ Marks(nl) = 0 BY LettersOne DEF Only
  <2>3. QED BY <1>18, <2>1, <2>2
<1>20. Letters(y) = Letters(v) /\ Marks(y) = Marks(v)
  <2>1. /\ Letters(y) = Letters(v) \o Letters(opens) /\ IsSeq(Letters(v))
        /\ Marks(y) = Marks(v) + Marks(opens) /\ Marks(v) \in Nat
    BY <1>4, <1>17, LettersJoin
  <2>2. QED BY <1>16, <2>1, JoinNone
<1>21. QED BY <1>11, <1>15, <1>19, <1>20

-----------------------------------------------------------------------------
(* The renderer                                                              *)

\* A renderer with d highlights open, of p characters of a text.
Lone(text, p) == {i \in 1..(p - 1) : text[i] = Return /\ text[i + 1] \notin {Return, Newline}}
Drawn(r, d, text, run, p) ==
  /\ r = [html |-> r.html, line_offsets |-> r.line_offsets,
          last_carriage_return |-> r.last_carriage_return, highlights |-> r.highlights]
  /\ IsSeq(r.highlights) /\ Len(r.highlights) = d
  /\ HtmlOK(r.html, r.line_offsets, r.last_carriage_return, d)
  /\ Letters(r.html) = run[p]
  /\ Marks(r.html) = Cardinality(Lone(text, p))
  /\ r.last_carriage_return # 0 <=> p > 0 /\ text[p] = Return

Made(html, lo, at, hs) ==
  [html |-> html, line_offsets |-> lo, last_carriage_return |-> at, highlights |-> hs]

\* A renderer from its parts.
LEMMA MadeIs ==
  ASSUME NEW html, NEW lo, NEW at, NEW hs
  PROVE  /\ Made(html, lo, at, hs).html = html /\ Made(html, lo, at, hs).line_offsets = lo
         /\ Made(html, lo, at, hs).last_carriage_return = at /\ Made(html, lo, at, hs).highlights = hs
BY DEF Made

\* Put adds items to its html.
LEMMA MadePut ==
  ASSUME NEW html, NEW lo, NEW at, NEW hs, NEW items
  PROVE  Put(Made(html, lo, at, hs), items) = Made(html \o items, lo, at, hs)
<1>1. PICK r, s : r = Made(html, lo, at, hs) /\ s = Put(r, items) OBVIOUS
<1>2. s = Made(html \o items, lo, at, hs) BY <1>1 DEF Put, Made
<1>3. QED BY <1>1, <1>2

\* It is drawn when its parts are.
LEMMA DrawnMade ==
  ASSUME NEW html, NEW lo, NEW at, NEW hs, NEW d, NEW text, NEW run, NEW p,
         IsSeq(hs), Len(hs) = d, HtmlOK(html, lo, at, d), Letters(html) = run[p],
         Marks(html) = Cardinality(Lone(text, p)), at # 0 <=> p > 0 /\ text[p] = Return,
         NEW r, r = Made(html, lo, at, hs)
  PROVE  Drawn(r, d, text, run, p)
<1>1. r.html = html /\ r.line_offsets = lo /\ r.last_carriage_return = at /\ r.highlights = hs BY MadeIs
<1>2. r = [html |-> r.html, line_offsets |-> r.line_offsets,
           last_carriage_return |-> r.last_carriage_return, highlights |-> r.highlights]
  BY <1>1 DEF Made
<1>3. QED BY <1>1, <1>2 DEF Drawn

DrawnAs(r, d, text, run, p, html, lo, at, hs) ==
  /\ html = r.html /\ lo = r.line_offsets /\ at = r.last_carriage_return /\ hs = r.highlights
  /\ r = Made(html, lo, at, hs) /\ IsSeq(hs) /\ Len(hs) = d /\ HtmlOK(html, lo, at, d)
  /\ Letters(html) = run[p] /\ Marks(html) = Cardinality(Lone(text, p))
  /\ at # 0 <=> p > 0 /\ text[p] = Return

\* And has these parts.
LEMMA DrawnParts ==
  ASSUME NEW r, NEW d, NEW text, NEW run, NEW p, Drawn(r, d, text, run, p)
  PROVE  \E html, lo, at, hs : DrawnAs(r, d, text, run, p, html, lo, at, hs)
<1>1. PICK html, lo, at, hs : html = r.html /\ lo = r.line_offsets /\ at = r.last_carriage_return /\ hs = r.highlights
  OBVIOUS
<1>2. r = Made(html, lo, at, hs) BY <1>1, Zenon DEF Drawn, Made
<1>3. QED BY <1>1, <1>2, Zenon DEF Drawn, DrawnAs

\* start_highlight.
LEMMA StartDrawn ==
  ASSUME NEW r, NEW d, NEW text, NEW run, NEW p, Drawn(r, d, text, run, p), NEW h
  PROVE  Drawn(start_highlight(r, h), d + 1, text, run, p)
<1>1. PICK html, lo, at, hs : DrawnAs(r, d, text, run, p, html, lo, at, hs) BY DrawnParts, Zenon
<1>2. /\ html = r.html /\ lo = r.line_offsets /\ at = r.last_carriage_return /\ hs = r.highlights
      /\ r = Made(html, lo, at, hs) /\ IsSeq(hs) /\ Len(hs) = d /\ HtmlOK(html, lo, at, d)
      /\ Letters(html) = run[p] /\ Marks(html) = Cardinality(Lone(text, p))
      /\ (at # 0 <=> p > 0 /\ text[p] = Return)
  BY <1>1, Zenon DEF DrawnAs
<1>3. IsSeq(html) /\ d \in Nat BY <1>2, HtmlIs
<1>4. PICK x, one, y, gs : x = Open(h) /\ one = <<x>> /\ y = html \o one /\ gs = Append(hs, h) OBVIOUS
<1>5. x.tag = "open" BY <1>4 DEF Open
<1>6. IsSeq(one) /\ Only(x, one) BY <1>4, OneFacts DEF Only
<1>7. Joined(html, one, y) BY <1>3, <1>4, <1>6 DEF Joined
<1>8. HtmlOK(y, lo, at, d + 1)
  <2>1. Weight(x) = 1 BY <1>5 DEF Weight
  <2>2. x # Char(Newline) BY <1>5 DEF Char
  <2>3. PICK e \in Nat : e = d + Weight(x) /\ e = d + 1 BY <1>3, <2>1
  <2>4. HtmlOK(y, lo, at, e) BY <1>2, <1>6, <1>7, <2>2, <2>3, HtmlMore
  <2>5. QED BY <2>3, <2>4
<1>9. Letters(y) = Letters(html) /\ Marks(y) = Marks(html)
  <2>1. \A i \in DOMAIN one : one[i].tag \in {"open", "close"} BY <1>4, <1>5, OneFacts
  <2>2. Letters(one) = <<>> /\ Marks(one) = 0 BY <1>6, <2>1, LettersNone
  <2>3. /\ Letters(y) = Letters(html) \o Letters(one) /\ IsSeq(Letters(html))
        /\ Marks(y) = Marks(html) + Marks(one) /\ Marks(html) \in Nat
    BY <1>3, <1>4, <1>6, LettersJoin
  <2>4. QED BY <2>2, <2>3, JoinNone
<1>10. IsSeq(gs) /\ Len(gs) = d + 1 BY <1>2, <1>4, AppendFacts
<1>11. start_highlight(r, h) = Made(y, lo, at, gs)
  <2>1. start_highlight(r, h) = Put([r EXCEPT !.highlights = gs], <<x>>)
    BY <1>2, <1>4, Zenon DEF start_highlight
  <2>2. r = Made(html, lo, at, hs) BY <1>2
  <2>3. QED BY <1>4, <2>1, <2>2 DEF Put, Made
<1>12. QED BY <1>2, <1>8, <1>9, <1>10, <1>11, DrawnMade

\* end_highlight.
LEMMA EndDrawn ==
  ASSUME NEW r, NEW d, NEW text, NEW run, NEW p, Drawn(r, d, text, run, p), d >= 1
  PROVE  Drawn(end_highlight(r), d - 1, text, run, p)
<1>1. PICK html, lo, at, hs : DrawnAs(r, d, text, run, p, html, lo, at, hs) BY DrawnParts, Zenon
<1>2. /\ html = r.html /\ lo = r.line_offsets /\ at = r.last_carriage_return /\ hs = r.highlights
      /\ r = Made(html, lo, at, hs) /\ IsSeq(hs) /\ Len(hs) = d /\ HtmlOK(html, lo, at, d)
      /\ Letters(html) = run[p] /\ Marks(html) = Cardinality(Lone(text, p))
      /\ (at # 0 <=> p > 0 /\ text[p] = Return)
  BY <1>1, Zenon DEF DrawnAs
<1>3. IsSeq(html) /\ d \in Nat BY <1>2, HtmlIs
<1>4. PICK x, one, y, n : x = Close /\ one = <<x>> /\ y = html \o one /\ n = d - 1 OBVIOUS
<1>5. PICK gs, first : first = 1 /\ gs = SubSeq(hs, first, n) OBVIOUS
<1>6. x.tag = "close" BY <1>4 DEF Close
<1>7. IsSeq(one) /\ Only(x, one) BY <1>4, OneFacts DEF Only
<1>8. Joined(html, one, y) BY <1>3, <1>4, <1>7 DEF Joined
<1>9. n \in Nat BY <1>3, <1>4
<1>10. HtmlOK(y, lo, at, n)
  <2>1. Weight(x) = 0 - 1 BY <1>6 DEF Weight
  <2>2. x # Char(Newline) BY <1>6 DEF Char
  <2>3. n = d + Weight(x) BY <1>3, <1>4, <2>1
  <2>4. QED BY <1>2, <1>7, <1>8, <1>9, <2>2, <2>3, HtmlMore
<1>11. Letters(y) = Letters(html) /\ Marks(y) = Marks(html)
  <2>1. \A i \in DOMAIN one : one[i].tag \in {"open", "close"} BY <1>4, <1>6, OneFacts
  <2>2. Letters(one) = <<>> /\ Marks(one) = 0 BY <1>7, <2>1, LettersNone
  <2>3. /\ Letters(y) = Letters(html) \o Letters(one) /\ IsSeq(Letters(html))
        /\ Marks(y) = Marks(html) + Marks(one) /\ Marks(html) \in Nat
    BY <1>3, <1>4, <1>7, LettersJoin
  <2>4. QED BY <2>2, <2>3, JoinNone
<1>12. IsSeq(gs) /\ Len(gs) = n
  <2>1. first \in Nat \ {0} /\ n <= Len(hs) BY <1>2, <1>3, <1>4, <1>5
  <2>2. IsSeq(hs) BY <1>2
  <2>3. /\ IsSeq(SubSeq(hs, first, n))
        /\ Len(SubSeq(hs, first, n)) = (IF first <= n THEN n - first + 1 ELSE 0)
    BY <1>9, <2>1, <2>2, SubFacts
  <2>4. QED BY <1>5, <1>9, <2>3
<1>13. hs # <<>> /\ Front(hs) = gs
  <2>1. hs # <<>> BY <1>2, NotEmpty
  <2>2. Front(hs) = SubSeq(hs, 1, Len(hs) - 1) BY Zenon DEF Front
  <2>3. QED BY <1>2, <1>4, <1>5, <2>1, <2>2
<1>14. end_highlight(r) = Made(y, lo, at, gs)
  <2>1. end_highlight(r) = Put([r EXCEPT !.highlights = gs], <<x>>)
    BY <1>2, <1>4, <1>13, Zenon DEF end_highlight
  <2>2. r = Made(html, lo, at, hs) BY <1>2
  <2>3. QED BY <1>4, <2>1, <2>2 DEF Put, Made
<1>15. QED BY <1>2, <1>4, <1>10, <1>11, <1>12, <1>14, DrawnMade

\* An element at the end.
LEMMA AppendIs ==
  ASSUME NEW s, IsSeq(s), NEW e
  PROVE  s \o <<e>> = Append(s, e)
<1>1. PICK n : n = <<>> OBVIOUS
<1>2. IsSeq(n) BY <1>1, EmptyIsSeq
<1>3. s \o Append(n, e) = Append(s \o n, e) BY <1>2, JoinAppend
<1>4. Append(n, e) = <<e>> BY <1>1
<1>5. s \o n = s BY <1>1, JoinNone
<1>6. QED BY <1>3, <1>4, <1>5

\* A character more tells whether a carriage return before it is a lone one.
LEMMA LoneMore ==
  ASSUME NEW text, NEW p \in Nat
  PROVE  /\ IsFiniteSet(Lone(text, p)) /\ Cardinality(Lone(text, p)) \in Nat
         /\ Cardinality(Lone(text, p + 1)) =
              Cardinality(Lone(text, p))
              + (IF p > 0 /\ text[p] = Return /\ text[p + 1] \notin {Return, Newline} THEN 1 ELSE 0)
<1>1. PICK S, T : S = Lone(text, p) /\ T = Lone(text, p + 1) OBVIOUS
<1>2. IsFiniteSet(S)
  <2>1. IsFiniteSet(1..p) BY FS_Interval
  <2>2. S \subseteq 1..p BY <1>1 DEF Lone
  <2>3. QED BY <2>1, <2>2, FS_Subset
<1>3. Cardinality(S) \in Nat BY <1>2, FS_CardinalityType
<1>4. CASE p > 0 /\ text[p] = Return /\ text[p + 1] \notin {Return, Newline}
  <2>1. T = S \cup {p} BY <1>1, <1>4 DEF Lone
  <2>2. p \notin S BY <1>1 DEF Lone
  <2>3. Cardinality(T) = Cardinality(S) + 1 BY <1>2, <2>1, <2>2, FS_AddElement
  <2>4. QED BY <1>1, <1>2, <1>3, <1>4, <2>3
<1>5. CASE ~(p > 0 /\ text[p] = Return /\ text[p + 1] \notin {Return, Newline})
  <2>1. T = S BY <1>1, <1>5 DEF Lone
  <2>2. Cardinality(T) = Cardinality(S) + 0 BY <1>3, <2>1
  <2>3. QED BY <1>1, <1>2, <1>3, <1>5, <2>2
<1>6. QED BY <1>4, <1>5

\* A line ending makes none of them.
LEMMA LoneSame ==
  ASSUME NEW text, NEW p \in Nat, text[p + 1] \in {Return, Newline}
  PROVE  Cardinality(Lone(text, p + 1)) = Cardinality(Lone(text, p))
<1>1. PICK n, m : n = Cardinality(Lone(text, p)) /\ m = Cardinality(Lone(text, p + 1)) OBVIOUS
<1>2. n \in Nat /\ m = n + (IF p > 0 /\ text[p] = Return /\ text[p + 1] \notin {Return, Newline} THEN 1 ELSE 0)
  BY <1>1, LoneMore
<1>3. m = n + 0 BY <1>2
<1>4. QED BY <1>1, <1>2, <1>3

\* add_carriage_return.
LEMMA ReturnMarked ==
  ASSUME NEW html, NEW lo, NEW at, NEW hs, NEW d, HtmlOK(html, lo, at, d)
  PROVE  \E y : /\ add_carriage_return(Made(html, lo, at, hs)) = Made(y, lo, 0, hs)
                /\ HtmlOK(y, lo, 0, d) /\ Letters(y) = Letters(html)
                /\ Marks(y) = Marks(html) + (IF at # 0 THEN 1 ELSE 0)
<1>1. PICK r : r = Made(html, lo, at, hs) OBVIOUS
<1>2. r.html = html /\ r.last_carriage_return = at BY <1>1, MadeIs
<1>3. CASE at = 0
  <2>1. add_carriage_return(r) = r BY <1>2, <1>3, Zenon DEF add_carriage_return
  <2>2. IsSeq(html) BY HtmlIs
  <2>3. Marks(html) \in Nat BY <2>2, LettersJoin
  <2>4. Marks(html) = Marks(html) + 0 BY <2>3
  <2>5. QED BY <1>1, <1>3, <2>1, <2>4
<1>4. CASE at # 0
  <2>1. PICK y : y = (SubSeq(html, 1, at - 1) \o <<Mark>>) \o SubSeq(html, (at - 1) + 1, Len(html)) OBVIOUS
  <2>2. Marked(html, at, y) BY <2>1, Zenon DEF Marked
  <2>3. HtmlOK(y, lo, 0, d) /\ Letters(y) = Letters(html) /\ Marks(y) = Marks(html) + 1 BY <1>4, <2>2, HtmlMarked
  <2>4. PICK s : s = [r EXCEPT !.html = y, !.last_carriage_return = 0] OBVIOUS
  <2>5. add_carriage_return(r) = s /\ s = Made(y, lo, 0, hs)
    <3>1. add_carriage_return(r) = s BY <1>2, <1>4, <2>1, <2>4, Zenon DEF add_carriage_return
    <3>2. s = Made(y, lo, 0, hs) BY <1>1, <2>4 DEF Made
    <3>3. QED BY <3>1, <3>2
  <2>6. QED BY <1>1, <1>4, <2>3, <2>5
<1>5. QED BY <1>3, <1>4

NextOf(run, text, p) ==
  run[p + 1] = IF text[p + 1] # Return THEN Append(run[p], text[p + 1]) ELSE run[p]

\* A carriage return is remembered.
LEMMA ReturnDrawn ==
  ASSUME NEW r, NEW d, NEW text, NEW run, NEW p \in Nat, Drawn(r, d, text, run, p), NextOf(run, text, p),
         NEW c, c = text[p + 1], c = Return
  PROVE  Drawn(AddChar(r, c), d, text, run, p + 1)
<1>1. PICK html, lo, at, hs : DrawnAs(r, d, text, run, p, html, lo, at, hs) BY DrawnParts, Zenon
<1>2. /\ html = r.html /\ r = Made(html, lo, at, hs) /\ IsSeq(hs) /\ Len(hs) = d /\ HtmlOK(html, lo, at, d)
      /\ Letters(html) = run[p] /\ Marks(html) = Cardinality(Lone(text, p))
  BY <1>1, Zenon DEF DrawnAs
<1>3. PICK m : m = Len(html) + 1 OBVIOUS
<1>4. m \in Nat /\ m # 0 BY <1>2, <1>3, HtmlIs
<1>5. HtmlOK(html, lo, m, d) BY <1>2, <1>3, HtmlReturn
<1>6. Letters(html) = run[p + 1] BY <1>2 DEF NextOf
<1>7. Marks(html) = Cardinality(Lone(text, p + 1))
  <2>1. text[p + 1] \in {Return, Newline} OBVIOUS
  <2>2. QED BY <1>2, <2>1, LoneSame
<1>8. m # 0 <=> p + 1 > 0 /\ text[p + 1] = Return BY <1>4
<1>9. AddChar(r, c) = Made(html, lo, m, hs)
  <2>1. AddChar(r, c) = [r EXCEPT !.last_carriage_return = m] BY <1>2, <1>3, Zenon DEF AddChar
  <2>2. r = Made(html, lo, at, hs) BY <1>2
  <2>3. QED BY <2>1, <2>2 DEF Made
<1>10. QED BY <1>2, <1>5, <1>6, <1>7, <1>8, <1>9, DrawnMade

\* A newline ends the line.
LEMMA NewlineDrawn ==
  ASSUME NEW r, NEW d, NEW text, NEW run, NEW p \in Nat, Drawn(r, d, text, run, p), NextOf(run, text, p),
         NEW c, c = text[p + 1], c = Newline
  PROVE  Drawn(AddChar(r, c), d, text, run, p + 1)
<1>1. PICK html, lo, at, hs : DrawnAs(r, d, text, run, p, html, lo, at, hs) BY DrawnParts, Zenon
<1>2. /\ html = r.html /\ r = Made(html, lo, at, hs) /\ IsSeq(hs) /\ Len(hs) = d /\ HtmlOK(html, lo, at, d)
      /\ Letters(html) = run[p] /\ Marks(html) = Cardinality(Lone(text, p))
  BY <1>1, Zenon DEF DrawnAs
<1>3. IsSeq(html) /\ d \in Nat /\ DOMAIN hs = 1..d BY <1>2, HtmlIs, NotEmpty
<1>4. Newline # Return BY DEF Newline, Return
<1>5. PICK closes, opens, nl, u, v, y :
           /\ closes = [i \in DOMAIN hs |-> Close] /\ opens = [i \in DOMAIN hs |-> Open(hs[i])]
           /\ nl = <<Char(Newline)>> /\ u = html \o closes /\ v = u \o nl /\ y = v \o opens
  OBVIOUS
<1>6. AllTags(closes, d, "close")
  <2>1. DOMAIN closes = 1..d /\ closes = [i \in 1..d |-> closes[i]] /\ \A i \in 1..d : closes[i] = Close
    BY <1>3, <1>5
  <2>2. IsSeq(closes) /\ Len(closes) = d BY <1>3, <2>1, MadeSeq
  <2>3. Close.tag = "close" BY DEF Close
  <2>4. QED BY <2>1, <2>2, <2>3 DEF AllTags
<1>7. AllTags(opens, d, "open")
  <2>1. DOMAIN opens = 1..d /\ opens = [i \in 1..d |-> opens[i]] /\ \A i \in 1..d : opens[i] = Open(hs[i])
    BY <1>3, <1>5
  <2>2. IsSeq(opens) /\ Len(opens) = d BY <1>3, <2>1, MadeSeq
  <2>3. \A h : Open(h).tag = "open" BY DEF Open
  <2>4. QED BY <2>1, <2>2, <2>3 DEF AllTags
<1>8. IsSeq(nl) /\ Only(Char(Newline), nl) BY <1>5, OneFacts DEF Only
<1>9. Joined(html, closes, u) BY <1>3, <1>5, <1>6 DEF Joined, AllTags
<1>10. IsSeq(u) BY <1>9, JoinedFacts
<1>11. Joined(u, nl, v) BY <1>5, <1>8, <1>10 DEF Joined
<1>12. IsSeq(v) BY <1>11, JoinedFacts
<1>13. Joined(v, opens, y) BY <1>5, <1>7, <1>12 DEF Joined, AllTags
<1>14. PICK more : more = Append(lo, Len(v)) OBVIOUS
<1>15. HtmlOK(y, more, 0, d) /\ Letters(y) = Letters(html) \o <<Newline>> /\ Marks(y) = Marks(html)
  BY <1>2, <1>6, <1>7, <1>8, <1>9, <1>11, <1>13, <1>14, HtmlLine
<1>16. Letters(y) = run[p + 1]
  <2>1. IsSeq(Letters(html)) BY <1>3, LettersJoin
  <2>2. Letters(y) = Append(Letters(html), Newline) BY <1>15, <2>1, AppendIs
  <2>3. run[p + 1] = Append(run[p], Newline) BY <1>4 DEF NextOf
  <2>4. QED BY <1>2, <2>2, <2>3
<1>17. Marks(y) = Cardinality(Lone(text, p + 1))
  <2>1. text[p + 1] \in {Return, Newline} OBVIOUS
  <2>2. QED BY <1>2, <1>15, <2>1, LoneSame
<1>18. 0 # 0 <=> p + 1 > 0 /\ text[p + 1] = Return BY <1>4
<1>19. AddChar(r, c) = Made(y, more, 0, hs)
  <2>1. PICK s : s = [r EXCEPT !.last_carriage_return = 0] OBVIOUS
  <2>2. AddChar(r, c) = AddNewline(s) BY <1>4, <2>1, Zenon DEF AddChar
  <2>3. r = Made(html, lo, at, hs) BY <1>2
  <2>4. s = Made(html, lo, 0, hs) BY <2>1, <2>3 DEF Made
  <2>5. s.html = html /\ s.highlights = hs /\ s.line_offsets = lo BY <2>4, MadeIs
  <2>6. PICK z : z = [s EXCEPT !.html = y, !.line_offsets = more] OBVIOUS
  <2>7. AddNewline(s) = z BY <1>5, <1>14, <2>5, <2>6, Zenon DEF AddNewline
  <2>8. z = Made(y, more, 0, hs) BY <2>4, <2>6 DEF Made
  <2>9. QED BY <2>2, <2>7, <2>8
<1>20. QED BY <1>2, <1>15, <1>16, <1>17, <1>18, <1>19, DrawnMade

\* Another character, after the mark of a carriage return that it follows.
LEMMA OtherDrawn ==
  ASSUME NEW r, NEW d, NEW text, NEW run, NEW p \in Nat, Drawn(r, d, text, run, p), NextOf(run, text, p),
         NEW c, c = text[p + 1], c # Newline, c # Return
  PROVE  Drawn(AddChar(r, c), d, text, run, p + 1)
<1>1. PICK html, lo, at, hs : DrawnAs(r, d, text, run, p, html, lo, at, hs) BY DrawnParts, Zenon
<1>2. /\ html = r.html /\ r = Made(html, lo, at, hs) /\ IsSeq(hs) /\ Len(hs) = d /\ HtmlOK(html, lo, at, d)
      /\ Letters(html) = run[p] /\ Marks(html) = Cardinality(Lone(text, p))
      /\ (at # 0 <=> p > 0 /\ text[p] = Return)
  BY <1>1, Zenon DEF DrawnAs
<1>3. PICK z : /\ add_carriage_return(Made(html, lo, at, hs)) = Made(z, lo, 0, hs)
               /\ HtmlOK(z, lo, 0, d) /\ Letters(z) = Letters(html)
               /\ Marks(z) = Marks(html) + (IF at # 0 THEN 1 ELSE 0)
  BY <1>2, ReturnMarked
<1>4. IsSeq(z) /\ d \in Nat BY <1>3, HtmlIs
<1>5. PICK x, one, y : x = Char(c) /\ one = <<x>> /\ y = z \o one OBVIOUS
<1>6. IsSeq(one) /\ Only(x, one) BY <1>5, OneFacts DEF Only
<1>7. Joined(z, one, y) BY <1>4, <1>5, <1>6 DEF Joined
<1>8. x # Char(Newline) /\ Weight(x) = 0
  <2>1. x.tag = "char" /\ x.of = c /\ Char(Newline).of = Newline BY <1>5 DEF Char
  <2>2. QED BY <2>1 DEF Weight
<1>9. HtmlOK(y, lo, 0, d)
  <2>1. d = d + Weight(x) BY <1>4, <1>8
  <2>2. QED BY <1>3, <1>4, <1>6, <1>7, <1>8, <2>1, HtmlMore
<1>10. /\ Letters(y) = Letters(z) \o Letters(one) /\ IsSeq(Letters(z))
       /\ Marks(y) = Marks(z) + Marks(one) /\ Marks(z) \in Nat
  BY <1>4, <1>5, <1>6, LettersJoin
<1>11. Letters(one) = <<c>> /\ Marks(one) = 0 BY <1>5, LettersOne
<1>12. Letters(y) = run[p + 1]
  <2>1. Letters(y) = Append(Letters(z), c) BY <1>10, <1>11, AppendIs
  <2>2. run[p + 1] = Append(run[p], c) BY DEF NextOf
  <2>3. QED BY <1>2, <1>3, <2>1, <2>2
<1>13. Marks(y) = Cardinality(Lone(text, p + 1))
  <2>1. PICK k : k = IF at # 0 THEN 1 ELSE 0 OBVIOUS
  <2>2. Marks(y) = Cardinality(Lone(text, p)) + k BY <1>2, <1>3, <1>10, <1>11, <2>1
  <2>3. k = IF p > 0 /\ text[p] = Return /\ text[p + 1] \notin {Return, Newline} THEN 1 ELSE 0 BY <1>2, <2>1
  <2>4. QED BY <2>2, <2>3, LoneMore
<1>14. 0 # 0 <=> p + 1 > 0 /\ text[p + 1] = Return OBVIOUS
<1>15. AddChar(r, c) = Made(y, lo, 0, hs)
  <2>1. r = Made(html, lo, at, hs) BY <1>2
  <2>2. AddChar(r, c) = Put(Made(z, lo, 0, hs), one) BY <1>3, <1>5, <2>1, Zenon DEF AddChar
  <2>3. Put(Made(z, lo, 0, hs), one) = Made(y, lo, 0, hs) BY <1>5, MadePut
  <2>4. QED BY <2>2, <2>3
<1>16. QED BY <1>2, <1>9, <1>12, <1>13, <1>14, <1>15, DrawnMade

\* AddChar: the renderer with one character more.
LEMMA CharDrawn ==
  ASSUME NEW r, NEW d, NEW text, NEW run, NEW p \in Nat, Drawn(r, d, text, run, p), NextOf(run, text, p)
  PROVE  Drawn(AddChar(r, text[p + 1]), d, text, run, p + 1)
<1>1. PICK c : c = text[p + 1] OBVIOUS
<1>2. CASE c = Return BY <1>1, <1>2, ReturnDrawn
<1>3. CASE c = Newline BY <1>1, <1>3, NewlineDrawn
<1>4. CASE c # Newline /\ c # Return BY <1>1, <1>4, OtherDrawn
<1>5. QED BY <1>2, <1>3, <1>4

TextOp(d, w, p, r, c) == AddChar(r, c)
TextSoFar(d, w, p, k, r) == Drawn(r, d, w[1], w[2], p + k)
TextFold == INSTANCE FoldInduction WITH Op <- TextOp, P <- TextSoFar

\* add_text: the renderer with the text up to another place.
LEMMA TextDrawn ==
  ASSUME NEW text, IsSeq(text), NEW run, \A i \in 0..(Len(text) - 1) : NextOf(run, text, i),
         NEW p \in Nat, NEW q \in Nat, p <= q, q <= Len(text), NEW r, NEW d, Drawn(r, d, text, run, p)
  PROVE  Drawn(add_text(r, SubSeq(text, p + 1, q)), d, text, run, q)
<1>1. PICK w, s, m : w = <<text, run>> /\ s = SubSeq(text, p + 1, q) /\ m = p + 1 OBVIOUS
<1>2. w[1] = text /\ w[2] = run BY <1>1
<1>3. PICK n \in Nat : n = q - p OBVIOUS
<1>4. Len(text) \in Nat BY NotEmpty
<1>5. DOMAIN s = 1..n /\ \A i \in 1..n : s[i] = text[p + i]
  <2>1. m \in Nat \ {0} BY <1>1
  <2>2. /\ IsSeq(SubSeq(text, m, q)) /\ Len(SubSeq(text, m, q)) = (IF m <= q THEN q - m + 1 ELSE 0)
        /\ DOMAIN SubSeq(text, m, q) = 1..Len(SubSeq(text, m, q))
        /\ \A i \in DOMAIN SubSeq(text, m, q) : SubSeq(text, m, q)[i] = text[m + i - 1]
    BY <2>1, SubFacts
  <2>3. s = SubSeq(text, m, q) BY <1>1
  <2>4. Len(s) = (IF m <= q THEN q - m + 1 ELSE 0) /\ DOMAIN s = 1..Len(s) /\ \A i \in DOMAIN s : s[i] = text[m + i - 1]
    BY <2>2, <2>3
  <2>5. (IF m <= q THEN q - m + 1 ELSE 0) = n BY <1>1, <1>3
  <2>6. DOMAIN s = 1..n /\ \A i \in 1..n : s[i] = text[m + i - 1] BY <2>4, <2>5
  <2>7. \A i \in 1..n : m + i - 1 = p + i BY <1>1
  <2>8. QED BY <2>6, <2>7
<1>6. add_text(r, s) = TextFold!Fold(d, w, p, r, s)
  BY Zenon DEF add_text, TextFold!Fold, TextOp, FoldLeft, MapThenFoldSet, Max, TextFold!FoldLeft,
               TextFold!MapThenFoldSet, TextFold!Max
<1>7. TextSoFar(d, w, p, 0, r)
  <2>1. p + 0 = p OBVIOUS
  <2>2. QED BY <1>2, <2>1 DEF TextSoFar
<1>8. ASSUME NEW k \in 1..n, NEW x, TextSoFar(d, w, p, k - 1, x)
      PROVE  TextSoFar(d, w, p, k, TextOp(d, w, p, x, s[k]))
  <2>1. PICK i \in Nat : i = p + (k - 1) /\ i + 1 = p + k /\ i \in 0..(Len(text) - 1) BY <1>3, <1>4
  <2>2. Drawn(x, d, text, run, i) BY <1>2, <1>8, <2>1 DEF TextSoFar
  <2>3. NextOf(run, text, i) BY <2>1
  <2>4. Drawn(AddChar(x, text[i + 1]), d, text, run, i + 1) BY <2>2, <2>3, CharDrawn
  <2>5. s[k] = text[i + 1] BY <1>5, <2>1
  <2>6. QED BY <1>2, <2>1, <2>4, <2>5 DEF TextSoFar, TextOp
<1> HIDE DEF TextSoFar, TextOp
<1>9. TextSoFar(d, w, p, n, TextFold!Fold(d, w, p, r, s)) BY <1>5, <1>7, <1>8, TextFold!FoldKeeps
<1>10. p + n = q BY <1>3
<1>11. QED BY <1>1, <1>2, <1>6, <1>9, <1>10 DEF TextSoFar

-----------------------------------------------------------------------------
(* The end of render                                                         *)

\* All of the html is in lines that have ended.
Ended(html, offsets) ==
  \E lo : /\ LinesOK(html, lo) /\ IsSeq(offsets) /\ Len(offsets) = Len(lo) - 1
          /\ \A i \in 1..Len(offsets) : offsets[i] = lo[i]
LineEnds(line) == IsSeq(line) /\ line # <<>> /\ Balanced(line) /\ line[Len(line)] = Char(Newline)

\* Each of them stands by itself.
LEMMA EndedLines ==
  ASSUME NEW r, Ended(r.html, r.line_offsets), NEW i \in DOMAIN r.line_offsets
  PROVE  LineEnds(Line(r, i))
<1>1. PICK html, offsets : html = r.html /\ offsets = r.line_offsets OBVIOUS
<1>2. PICK lo : /\ LinesOK(html, lo) /\ IsSeq(offsets) /\ Len(offsets) = Len(lo) - 1
                /\ \A k \in 1..Len(offsets) : offsets[k] = lo[k]
  BY <1>1 DEF Ended
<1>3. /\ IsSeq(html) /\ IsSeq(lo) /\ Len(lo) >= 1 /\ lo[Len(lo)] = Len(html)
      /\ \A k \in 1..(Len(lo) - 1) : LineOK(html, lo[k], lo[k + 1])
  BY <1>2 DEF LinesOK
<1>4. PICK n \in Nat : n = Len(offsets) /\ DOMAIN offsets = 1..n BY <1>2, NotEmpty
<1>5. Len(lo) \in Nat BY <1>3, NotEmpty
<1>6. Len(lo) = n + 1 BY <1>2, <1>4, <1>5
<1>7. i \in 1..n BY <1>1, <1>4
<1>8. PICK from, to : from = lo[i] /\ to = lo[i + 1] OBVIOUS
<1>9. LineOK(html, from, to) BY <1>3, <1>6, <1>7, <1>8
<1>10. /\ from \in Nat /\ to \in Nat /\ from < to /\ to <= Len(html)
       /\ Nests(SubSeq(html, from + 1, to), 0, 0) /\ html[to] = Char(Newline)
  BY <1>9 DEF LineOK
<1>11. offsets[i] = from BY <1>2, <1>4, <1>7, <1>8
<1>12. (IF i = Len(offsets) THEN Len(html) ELSE offsets[i + 1]) = to
  <2>1. CASE i = n BY <1>3, <1>4, <1>6, <1>8, <2>1
  <2>2. CASE i # n
    <3>1. i + 1 \in 1..n BY <1>7, <2>2
    <3>2. offsets[i + 1] = lo[i + 1] BY <1>2, <1>4, <3>1
    <3>3. QED BY <1>4, <1>8, <2>2, <3>2
  <2>3. QED BY <2>1, <2>2
<1>13. PICK m, line : m = from + 1 /\ line = SubSeq(html, m, to) OBVIOUS
<1>14. Line(r, i) = line
  <2>1. Line(r, i) = SubSeq(html, offsets[i] + 1, IF i = Len(offsets) THEN Len(html) ELSE offsets[i + 1])
    BY <1>1, Zenon DEF Line
  <2>2. QED BY <1>11, <1>12, <1>13, <2>1
<1>15. Nests(line, 0, 0) BY <1>10, <1>13
<1>16. Balanced(line) BY <1>15, NestsBalanced
<1>17. IsSeq(line) /\ line # <<>> /\ line[Len(line)] = Char(Newline)
  <2>1. m \in Nat \ {0} BY <1>10, <1>13
  <2>2. /\ IsSeq(SubSeq(html, m, to)) /\ Len(SubSeq(html, m, to)) = (IF m <= to THEN to - m + 1 ELSE 0)
        /\ DOMAIN SubSeq(html, m, to) = 1..Len(SubSeq(html, m, to))
        /\ \A k \in DOMAIN SubSeq(html, m, to) : SubSeq(html, m, to)[k] = html[m + k - 1]
    BY <1>3, <1>10, <2>1, SubFacts
  <2>3. /\ IsSeq(line) /\ Len(line) = (IF m <= to THEN to - m + 1 ELSE 0)
        /\ DOMAIN line = 1..Len(line) /\ \A k \in DOMAIN line : line[k] = html[m + k - 1]
    BY <1>13, <2>2
  <2>4. PICK l \in Nat : l = to - from /\ l >= 1 /\ m + l - 1 = to BY <1>10, <1>13
  <2>5. (IF m <= to THEN to - m + 1 ELSE 0) = l BY <1>10, <1>13, <2>4
  <2>6. Len(line) = l /\ l \in DOMAIN line BY <2>3, <2>4, <2>5
  <2>7. line[l] = html[to] BY <2>3, <2>4, <2>6
  <2>8. line # <<>> BY <2>4, <2>6, EmptyIsSeq
  <2>9. QED BY <1>10, <2>3, <2>6, <2>7, <2>8
<1>18. QED BY <1>14, <1>16, <1>17 DEF LineEnds

\* A last line that has ended is whole.
LEMMA EndWhole ==
  ASSUME NEW z, NEW lo, HtmlOK(z, lo, 0, 0), z # <<>>, z[Len(z)] = Char(Newline)
  PROVE  lo[Len(lo)] = Len(z) /\ Ended(z, Front(lo))
<1>1. PICK done, cur : Parts(z, lo, 0, 0, done, cur) BY DEF HtmlOK
<1>2. /\ Joined(done, cur, z) /\ LinesOK(done, lo) /\ \A k \in DOMAIN cur : cur[k] # Char(Newline) BY <1>1 DEF Parts
<1>3. /\ IsSeq(done) /\ IsSeq(cur) /\ IsSeq(z) /\ z = done \o cur
      /\ Len(done) \in Nat /\ Len(cur) \in Nat /\ Len(z) = Len(done) + Len(cur) /\ DOMAIN cur = 1..Len(cur)
      /\ \A i \in 1..Len(cur) : z[Len(done) + i] = cur[i]
  BY <1>2, JoinedFacts
<1>4. cur = <<>>
  <2>1. SUFFICES ASSUME cur # <<>> PROVE FALSE OBVIOUS
  <2>2. PICK k : k = Len(cur) OBVIOUS
  <2>3. k >= 1 /\ k \in 1..Len(cur) BY <1>3, <2>1, <2>2, NotEmpty
  <2>4. z[Len(z)] = cur[k] BY <1>3, <2>2, <2>3
  <2>5. QED BY <1>2, <1>3, <2>3, <2>4
<1>5. z = done BY <1>3, <1>4, JoinNone
<1>6. LinesOK(z, lo) BY <1>2, <1>5
<1>7. IsSeq(lo) /\ Len(lo) >= 1 /\ lo[Len(lo)] = Len(z) BY <1>6 DEF LinesOK
<1>8. PICK n, one, o : n = Len(lo) - 1 /\ one = 1 /\ o = SubSeq(lo, one, n) OBVIOUS
<1>9. one \in Nat \ {0} /\ n \in Nat /\ n <= Len(lo) /\ Len(lo) \in Nat
  <2>1. Len(lo) \in Nat BY <1>7, NotEmpty
  <2>2. QED BY <1>7, <1>8, <2>1
<1>10. /\ IsSeq(SubSeq(lo, one, n)) /\ Len(SubSeq(lo, one, n)) = (IF one <= n THEN n - one + 1 ELSE 0)
       /\ DOMAIN SubSeq(lo, one, n) = 1..Len(SubSeq(lo, one, n))
       /\ \A k \in DOMAIN SubSeq(lo, one, n) : SubSeq(lo, one, n)[k] = lo[one + k - 1]
  BY <1>7, <1>9, SubFacts
<1>11. /\ IsSeq(o) /\ Len(o) = (IF one <= n THEN n - one + 1 ELSE 0) /\ DOMAIN o = 1..Len(o)
       /\ \A k \in DOMAIN o : o[k] = lo[one + k - 1]
  BY <1>8, <1>10
<1>12. (IF one <= n THEN n - one + 1 ELSE 0) = n /\ \A k \in 1..n : one + k - 1 = k BY <1>8, <1>9
<1>13. Len(o) = n /\ \A k \in 1..Len(o) : o[k] = lo[k] BY <1>11, <1>12
<1>14. Front(lo) = o
  <2>1. Front(lo) = SubSeq(lo, 1, Len(lo) - 1) BY Zenon DEF Front
  <2>2. QED BY <1>8, <2>1
<1>15. Ended(z, o) BY <1>6, <1>8, <1>11, <1>13 DEF Ended
<1>16. QED BY <1>7, <1>14, <1>15

\* Another is ended by a newline.
LEMMA EndLine ==
  ASSUME NEW z, NEW lo, HtmlOK(z, lo, 0, 0), NEW nl, Only(Char(Newline), nl), NEW y, Joined(z, nl, y)
  PROVE  lo[Len(lo)] # Len(y) /\ Ended(y, lo)
<1>1. PICK done, cur : Parts(z, lo, 0, 0, done, cur) BY DEF HtmlOK
<1>2. Joined(done, cur, z) /\ LinesOK(done, lo) /\ Nests(cur, 0, 0) BY <1>1 DEF Parts
<1>3. PICK line : Joined(cur, nl, line) /\ Joined(done, line, y) BY <1>2, JoinedAssoc
<1>4. PICK x : x = Char(Newline) OBVIOUS
<1>5. nl = <<x>> /\ IsSeq(nl) /\ Len(nl) = 1 /\ nl[1] = x BY <1>4, OneFacts DEF Only
<1>6. Nests(line, 0, 0)
  <2>1. Weight(x) = 0 BY <1>4 DEF Weight, Char
  <2>2. PICK c \in Nat : c = 0 /\ c = c + Weight(x) BY <2>1
  <2>3. Nests(nl, c, c) BY <1>5, <2>2, NestsOne
  <2>4. QED BY <1>2, <1>3, <2>2, <2>3, NestsJoin
<1>7. /\ IsSeq(line) /\ Len(cur) \in Nat /\ Len(line) = Len(cur) + Len(nl)
      /\ \A i \in 1..Len(nl) : line[Len(cur) + i] = nl[i]
  BY <1>3, JoinedFacts
<1>8. Len(line) >= 1 /\ line[Len(line)] = Char(Newline) BY <1>4, <1>5, <1>7
<1>9. PICK more : more = Append(lo, Len(y)) OBVIOUS
<1>10. LinesOK(y, more) BY <1>2, <1>3, <1>6, <1>8, <1>9, LinesMore
<1>11. IsSeq(lo) /\ lo[Len(lo)] = Len(done) BY <1>2 DEF LinesOK
<1>12. /\ Len(lo) \in Nat /\ Len(more) = Len(lo) + 1 /\ \A i \in 1..Len(lo) : more[i] = lo[i]
  BY <1>9, <1>11, AppendFacts
<1>13. Len(done) \in Nat /\ Len(y) = Len(done) + Len(line) /\ Len(line) \in Nat BY <1>3, JoinedFacts
<1>14. lo[Len(lo)] # Len(y) BY <1>8, <1>11, <1>13
<1>15. Len(lo) = Len(more) - 1 BY <1>12
<1>16. QED BY <1>10, <1>11, <1>12, <1>14, <1>15 DEF Ended

PlainPlaces(text) == {i \in DOMAIN text : text[i] # Return}
PlainOf(text) == KeptAt(text, PlainPlaces(text))
LoneIn(text) ==
  {i \in 1..Len(text) : text[i] = Return /\ (i = Len(text) \/ text[i + 1] \notin {Return, Newline})}

\* What render leaves.
Rendered(r, text) ==
  /\ Ended(r.html, r.line_offsets)
  /\ Letters(r.html) \in {PlainOf(text), Append(PlainOf(text), Newline)}
  /\ Marks(r.html) = Cardinality(LoneIn(text))

\* A carriage return at the end is a lone one.
LEMMA LoneLast ==
  ASSUME NEW text, IsSeq(text), NEW n \in Nat, n = Len(text)
  PROVE  Cardinality(LoneIn(text)) = Cardinality(Lone(text, n)) + (IF n > 0 /\ text[n] = Return THEN 1 ELSE 0)
<1>1. PICK S, T : S = Lone(text, n) /\ T = LoneIn(text) OBVIOUS
<1>2. IsFiniteSet(S) /\ Cardinality(S) \in Nat BY <1>1, LoneMore
<1>3. CASE n > 0 /\ text[n] = Return
  <2>1. T = S \cup {n} BY <1>1, <1>3 DEF Lone, LoneIn
  <2>2. n \notin S BY <1>1 DEF Lone
  <2>3. Cardinality(T) = Cardinality(S) + 1 BY <1>2, <2>1, <2>2, FS_AddElement
  <2>4. QED BY <1>1, <1>3, <2>3
<1>4. CASE ~(n > 0 /\ text[n] = Return)
  <2>1. T = S BY <1>1, <1>4 DEF Lone, LoneIn
  <2>2. Cardinality(T) = Cardinality(S) + 0 BY <1>2, <2>1
  <2>3. QED BY <1>1, <1>4, <2>2
<1>5. QED BY <1>3, <1>4

\* FinishRender.
LEMMA FinishDrawn ==
  ASSUME NEW text, IsSeq(text), NEW run, run[Len(text)] = PlainOf(text),
         NEW r, Drawn(r, 0, text, run, Len(text)), NEW f, f = FinishRender(r)
  PROVE  Rendered(f, text)
<1>1. PICK n \in Nat : n = Len(text) BY NotEmpty
<1>2. PICK html, lo, at, hs : DrawnAs(r, 0, text, run, n, html, lo, at, hs) BY <1>1, DrawnParts, Zenon
<1>3. /\ r = Made(html, lo, at, hs) /\ HtmlOK(html, lo, at, 0)
      /\ Letters(html) = run[n] /\ Marks(html) = Cardinality(Lone(text, n))
      /\ (at # 0 <=> n > 0 /\ text[n] = Return)
  BY <1>2, Zenon DEF DrawnAs
<1>4. PICK z : /\ add_carriage_return(Made(html, lo, at, hs)) = Made(z, lo, 0, hs)
               /\ HtmlOK(z, lo, 0, 0) /\ Letters(z) = Letters(html)
               /\ Marks(z) = Marks(html) + (IF at # 0 THEN 1 ELSE 0)
  BY <1>3, ReturnMarked
<1>5. Letters(z) = PlainOf(text) BY <1>1, <1>3, <1>4
<1>6. Marks(z) = Cardinality(LoneIn(text))
  <2>1. PICK k : k = IF at # 0 THEN 1 ELSE 0 OBVIOUS
  <2>2. k = IF n > 0 /\ text[n] = Return THEN 1 ELSE 0 BY <1>3, <2>1
  <2>3. Cardinality(LoneIn(text)) = Cardinality(Lone(text, n)) + k BY <1>1, <2>2, LoneLast
  <2>4. QED BY <1>3, <1>4, <2>1, <2>3
<1>7. PICK x, nl : x = Char(Newline) /\ nl = <<x>> OBVIOUS
<1>8. IsSeq(z) BY <1>4, HtmlIs
<1>9. IsSeq(nl) /\ Only(Char(Newline), nl) BY <1>7, OneFacts DEF Only
<1>10. PICK m : m = Made(z, lo, 0, hs) OBVIOUS
<1>11. m.html = z /\ m.line_offsets = lo BY <1>10, MadeIs
<1>12. add_carriage_return(r) = m BY <1>3, <1>4, <1>10
<1>13. PICK y : y = IF z # <<>> /\ Last(z) = Char(Newline) THEN z ELSE Append(z, Char(Newline)) OBVIOUS
<1>14. PICK o : o = IF Last(lo) = Len(y) THEN Front(lo) ELSE lo OBVIOUS
<1>15. f = [m EXCEPT !.html = y, !.line_offsets = o]
  BY <1>11, <1>12, <1>13, <1>14, Zenon DEF FinishRender
<1>16. f.html = y /\ f.line_offsets = o
  <2>1. m = [html |-> z, line_offsets |-> lo, last_carriage_return |-> 0, highlights |-> hs] BY <1>10 DEF Made
  <2>2. QED BY <1>15, <2>1
<1>17. Last(z) = z[Len(z)] /\ Last(lo) = lo[Len(lo)] BY DEF Last
<1>18. CASE z # <<>> /\ Last(z) = Char(Newline)
  <2>1. y = z BY <1>13, <1>18
  <2>2. z[Len(z)] = Char(Newline) BY <1>17, <1>18
  <2>3. lo[Len(lo)] = Len(z) /\ Ended(z, Front(lo)) BY <1>4, <1>18, <2>2, EndWhole
  <2>4. o = Front(lo) BY <1>14, <1>17, <2>1, <2>3
  <2>5. QED BY <1>5, <1>6, <1>16, <2>1, <2>3, <2>4 DEF Rendered
<1>19. CASE ~(z # <<>> /\ Last(z) = Char(Newline))
  <2>1. y = z \o nl
    <3>1. y = Append(z, x) BY <1>7, <1>13, <1>19
    <3>2. z \o <<x>> = Append(z, x) BY <1>8, AppendIs
    <3>3. QED BY <1>7, <3>1, <3>2
  <2>2. Joined(z, nl, y) BY <1>8, <1>9, <2>1 DEF Joined
  <2>3. lo[Len(lo)] # Len(y) /\ Ended(y, lo) BY <1>4, <1>9, <2>2, EndLine
  <2>4. o = lo BY <1>14, <1>17, <2>3
  <2>5. /\ Letters(z \o nl) = Letters(z) \o Letters(nl) /\ IsSeq(Letters(z))
        /\ Marks(z \o nl) = Marks(z) + Marks(nl) /\ Marks(z) \in Nat
    BY <1>8, <1>9, LettersJoin
  <2>6. Letters(nl) = <<Newline>> /\ Marks(nl) = 0 BY <1>7, LettersOne
  <2>7. Letters(y) = Append(PlainOf(text), Newline) BY <1>5, <2>1, <2>5, <2>6, AppendIs
  <2>8. Marks(y) = Marks(z) BY <2>1, <2>5, <2>6
  <2>9. QED BY <1>6, <1>16, <2>3, <2>4, <2>7, <2>8 DEF Rendered
<1>20. QED BY <1>18, <1>19

\* It is what LinesBalanced says.
LEMMA RenderedBalanced ==
  ASSUME Rendered(renderer, doc.text)
  PROVE  LinesBalanced
<1>1. PICK html, text : html = renderer.html /\ text = doc.text OBVIOUS
<1>2. PICK chars : chars = TagsIn(html, "char") OBVIOUS
<1>3. Kept(renderer.html, LAMBDA x : x.tag = "char") = chars BY <1>1, <1>2, Zenon DEF Kept, TagsIn, TagPlaces
<1>4. Plain = PlainOf(text) BY <1>1, Zenon DEF Plain, PlainOf, PlainPlaces, Kept, Return
<1>5. LoneReturns = LoneIn(text) BY <1>1, Zenon DEF LoneReturns, LoneIn, Return, Newline, SourceLen
<1>6. [i \in DOMAIN chars |-> chars[i].of] = Letters(html) BY <1>2, Zenon DEF Letters, Ofs
<1>7. CountTags(html, "mark") = Marks(html) BY CountIs DEF Marks
<1>8. ASSUME NEW i \in DOMAIN renderer.line_offsets
      PROVE  /\ Balanced(Line(renderer, i)) /\ Line(renderer, i) # <<>>
             /\ "nl" \in {Line(renderer, i)[k].of : k \in {Len(Line(renderer, i))}}
  <2>1. PICK line : line = Line(renderer, i) OBVIOUS
  <2>2. LineEnds(line) BY <1>8, <2>1, EndedLines DEF Rendered
  <2>3. Char(Newline).of = "nl" BY DEF Char, Newline
  <2>4. line[Len(line)].of = "nl" BY <2>2, <2>3 DEF LineEnds
  <2>5. QED BY <2>1, <2>2, <2>4 DEF LineEnds
<1>9. [i \in DOMAIN chars |-> chars[i].of] \in {Plain, Append(Plain, "nl")}
  BY <1>1, <1>4, <1>6 DEF Rendered, Newline
<1>10. CountTags(renderer.html, "mark") = Cardinality(LoneReturns) BY <1>1, <1>5, <1>7 DEF Rendered
<1>11. QED BY <1>3, <1>8, <1>9, <1>10, Zenon DEF LinesBalanced

-----------------------------------------------------------------------------
(* The invariant: as many highlights are open in the events as in the layers, *)
(* but for the one whose event waits; the source was given up to byte_offset, *)
(* and the renderer has drawn as much of it.                                  *)

Runs(run, text) == KeptRun(run, text, PlainPlaces(text), Len(text)) /\ run[Len(text)] = PlainOf(text)
Shown(r, d, text, p) == \E run : Runs(run, text) /\ Drawn(r, d, text, run, p)

\* In the beginning nothing is drawn.
LEMMA ShownNone ==
  ASSUME NEW text, IsSeq(text)
  PROVE  Shown(NewRenderer, 0, text, 0)
<1>1. PICK run : /\ KeptRun(run, text, PlainPlaces(text), Len(text)) /\ run[Len(text)] = KeptAt(text, PlainPlaces(text))
                 /\ \A k \in 0..Len(text) : IsSeq(run[k])
  BY KeptSteps
<1>2. Runs(run, text) BY <1>1 DEF Runs, PlainOf
<1>3. PICK html, lo, n, none : html = <<>> /\ lo = <<n>> /\ n = 0 /\ none = <<>> OBVIOUS
<1>4. IsSeq(html) /\ Len(html) = 0 /\ IsSeq(none) /\ Len(none) = n BY <1>3, EmptyIsSeq
<1>5. IsSeq(lo) /\ Len(lo) = 1 /\ lo[1] = n BY <1>3, OneFacts
<1>6. HtmlOK(html, lo, n, n)
  <2>1. Joined(html, html, html) BY <1>3, <1>4, JoinNone DEF Joined
  <2>2. LinesOK(html, lo) BY <1>3, <1>4, <1>5 DEF LinesOK
  <2>3. n \in Nat BY <1>3
  <2>4. Nests(html, n, n) BY <1>3, <2>3, NestsNone
  <2>5. \A k \in DOMAIN html : html[k] # Char(Newline)
    <3>1. DOMAIN html = 1..0 BY <1>4, NotEmpty
    <3>2. QED BY <3>1
  <2>6. Parts(html, lo, n, n, html, html) BY <1>3, <2>1, <2>2, <2>4, <2>5 DEF Parts
  <2>7. QED BY <2>3, <2>6 DEF HtmlOK
<1>7. Letters(html) = run[n] /\ Marks(html) = Cardinality(Lone(text, n))
  <2>1. \A i \in DOMAIN html : html[i].tag \in {"open", "close"}
    <3>1. DOMAIN html = 1..0 BY <1>4, NotEmpty
    <3>2. QED BY <3>1
  <2>2. Letters(html) = <<>> /\ Marks(html) = 0 BY <1>4, <2>1, LettersNone
  <2>3. run[0] = <<>> BY <1>1 DEF KeptRun
  <2>4. Lone(text, n) = {} BY <1>3 DEF Lone
  <2>5. Cardinality(Lone(text, n)) = 0 BY <2>4, FS_EmptySet
  <2>6. QED BY <1>3, <2>2, <2>3, <2>5
<1>8. PICK r : r = Made(html, lo, n, none) OBVIOUS
<1>9. n # 0 <=> n > 0 /\ text[n] = Return BY <1>3
<1>10. Drawn(r, n, text, run, n) BY <1>4, <1>6, <1>7, <1>8, <1>9, DrawnMade
<1>11. NewRenderer = r BY <1>3, <1>8 DEF NewRenderer, Made
<1>12. QED BY <1>2, <1>3, <1>10, <1>11 DEF Shown

\* render draws an event.
LEMMA ShownStart ==
  ASSUME NEW d, NEW p, Shown(renderer, d, doc.text, p), NEW e, e.type = "start", Render(e)
  PROVE  Shown(renderer', d + 1, doc.text, p)
<1>1. PICK run : Runs(run, doc.text) /\ Drawn(renderer, d, doc.text, run, p) BY DEF Shown
<1>2. renderer' = start_highlight(renderer, e.h) BY DEF Render
<1>3. PICK text, r, y : text = doc.text /\ r = renderer /\ y = start_highlight(r, e.h) OBVIOUS
<1>4. Drawn(y, d + 1, text, run, p) BY <1>1, <1>3, StartDrawn
<1>5. QED BY <1>1, <1>2, <1>3, <1>4 DEF Shown

\* The end of a highlight that is open.
LEMMA ShownEnd ==
  ASSUME NEW d, d >= 1, NEW p, Shown(renderer, d, doc.text, p), NEW e, e.type = "end", Render(e)
  PROVE  Shown(renderer', d - 1, doc.text, p)
<1>1. PICK run : Runs(run, doc.text) /\ Drawn(renderer, d, doc.text, run, p) BY DEF Shown
<1>2. renderer' = end_highlight(renderer) BY DEF Render
<1>3. PICK text, r, y : text = doc.text /\ r = renderer /\ y = end_highlight(r) OBVIOUS
<1>4. Drawn(y, d - 1, text, run, p) BY <1>1, <1>3, EndDrawn
<1>5. QED BY <1>1, <1>2, <1>3, <1>4 DEF Shown

\* A piece of the source.
LEMMA ShownSource ==
  ASSUME IsSeq(doc.text), NEW d, NEW p \in Nat, NEW q \in Nat, p <= q, q <= Len(doc.text),
         Shown(renderer, d, doc.text, p), NEW e, e.type = "source", e.from = p, e.to = q, Render(e)
  PROVE  Shown(renderer', d, doc.text, q)
<1>1. PICK run : Runs(run, doc.text) /\ Drawn(renderer, d, doc.text, run, p) BY DEF Shown
<1>2. renderer' = add_text(renderer, Text(p, q)) BY DEF Render
<1>3. PICK text, r, y : text = doc.text /\ r = renderer /\ y = add_text(r, SubSeq(text, p + 1, q)) OBVIOUS
<1>4. Len(text) \in Nat /\ DOMAIN text = 1..Len(text) /\ q <= Len(text) /\ IsSeq(text) BY <1>3, NotEmpty
<1>5. ASSUME NEW i \in 0..(Len(text) - 1) PROVE NextOf(run, text, i)
  <2>1. PICK k : k = i + 1 OBVIOUS
  <2>2. k \in 1..Len(text) /\ k - 1 = i /\ k \in DOMAIN text BY <1>4, <2>1
  <2>3. run[k] = IF k \in PlainPlaces(text) THEN Append(run[k - 1], text[k]) ELSE run[k - 1]
    BY <1>1, <1>3, <2>2 DEF Runs, KeptRun
  <2>4. k \in PlainPlaces(text) <=> text[k] # Return BY <2>2 DEF PlainPlaces
  <2>5. QED BY <2>1, <2>2, <2>3, <2>4 DEF NextOf
<1>6. Drawn(r, d, text, run, p) BY <1>1, <1>3
<1>7. Drawn(add_text(r, SubSeq(text, p + 1, q)), d, text, run, q) BY <1>4, <1>5, <1>6, TextDrawn
<1>8. renderer' = y BY <1>2, <1>3 DEF Text
<1>9. QED BY <1>1, <1>3, <1>7, <1>8 DEF Shown

\* The end of the document.
LEMMA ShownEnded ==
  ASSUME NEW text, IsSeq(text), NEW r, Shown(r, 0, text, Len(text)), NEW f, f = FinishRender(r)
  PROVE  Rendered(f, text)
<1>1. PICK run : Runs(run, text) /\ Drawn(r, 0, text, run, Len(text)) BY DEF Shown
<1>2. QED BY <1>1, FinishDrawn DEF Runs

Pending(t, d) ==
  \/ next_event = NoEvent /\ d = t
  \/ next_event = End /\ d = t + 1
  \/ \E h : next_event = Start(h) /\ d = t - 1

HlState(t, d) ==
  /\ doc \in Documents
  /\ byte_offset \in 0..SourceLen
  /\ LayersOK(layers, t, SourceLen)
  /\ EventsOK(events, byte_offset, d)
  /\ Pending(t, d)
  /\ status = "finished" => byte_offset = SourceLen /\ d = 0 /\ Rendered(renderer, doc.text)
  /\ status # "finished" => Shown(renderer, d, doc.text, byte_offset)

HlInv == \E t, d : HlState(t, d)

\* A text is a sequence.
LEMMA LengthNat ==
  ASSUME DocumentsGiven, doc \in Documents
  PROVE  SourceLen \in Nat /\ IsSeq(doc.text)
<1>1. doc.text \in Seq(ToSet(doc.text)) BY DEF DocumentsGiven
<1>2. PICK text, S : text = doc.text /\ S = ToSet(doc.text) OBVIOUS
<1>3. Len(text) \in Nat /\ IsSeq(text) BY <1>1, <1>2, AnySeq
<1>4. QED BY <1>2, <1>3 DEF SourceLen

\* In the beginning nothing is open.
LEMMA HlInitOK ==
  ASSUME DocumentsGiven, HlInit
  PROVE  HlInv
<1>1. doc \in Documents /\ byte_offset = 0 /\ next_event = NoEvent /\ events = <<>> BY DEF HlInit
<1>2. SourceLen \in Nat BY <1>1, LengthNat
<1>3. EventsOK(events, byte_offset, 0) BY <1>1, EventsNone
<1>4. status # "finished" BY DEF HlInit
<1>5. LayersOK(layers, 0, SourceLen)
  <2>1. CASE status = "refused"
    <3>1. layers = <<>> BY <2>1 DEF HlInit
    <3>2. QED BY <3>1, LayersNone
  <2>2. CASE status # "refused"
    <3>1. injection_callback(doc.language, 0) BY <2>2 DEF HlInit
    <3>2. PICK all : all = [language |-> doc.language, depth |-> 0, ranges |-> <<Span(0, MaxByte)>>] OBVIOUS
    <3>3. PICK ls : ls = NewLayers(all, NoLanguage) OBVIOUS
    <3>4. layers = sort_layers(ls) BY <2>2, <3>2, <3>3, Zenon DEF HlInit
    <3>5. all.language = doc.language /\ all.depth = 0 BY <3>2
    <3>6. Fresh(ls, SourceLen) BY <1>1, <3>1, <3>3, <3>5, NewLayersOK
    <3>7. LayersOK(ls, 0, SourceLen) BY <3>6, FreshOK
    <3>8. QED BY <3>4, <3>7, SortOK
  <2>3. QED BY <2>1, <2>2
<1>6. Pending(0, 0) BY <1>1 DEF Pending
<1>7. byte_offset \in 0..SourceLen BY <1>1, <1>2
<1>8. Shown(renderer, 0, doc.text, byte_offset)
  <2>1. renderer = NewRenderer BY DEF HlInit
  <2>2. IsSeq(doc.text) BY <1>1, LengthNat
  <2>3. PICK text : text = doc.text OBVIOUS
  <2>4. Shown(NewRenderer, 0, text, 0) BY <2>2, <2>3, ShownNone
  <2>5. QED BY <1>1, <2>1, <2>3, <2>4
<1>9. HlState(0, 0) BY <1>1, <1>3, <1>4, <1>5, <1>6, <1>7, <1>8 DEF HlState
<1>10. QED BY <1>9 DEF HlInv

\* The kinds of events are told apart.
LEMMA EventKinds ==
  /\ NoEvent.type = "none" /\ End.type = "end" /\ \A h : Start(h).type = "start"
  /\ \A a, b : Source(a, b).type = "source" /\ Source(a, b).from = a /\ Source(a, b).to = b
  /\ NoEvent # End /\ \A h : NoEvent # Start(h) /\ End # Start(h)
<1>1. NoEvent.type = "none" /\ End.type = "end" /\ \A h : Start(h).type = "start" BY DEF NoEvent, End, Start
<1>2. \A a, b : Source(a, b).type = "source" /\ Source(a, b).from = a /\ Source(a, b).to = b BY DEF Source
<1>3. QED BY <1>1, <1>2

\* emit_event: the source up to an offset and then an event, now or in the next step.
LEMMA EmitOK ==
  ASSUME DocumentsGiven, NEW t, NEW d, HlState(t, d), Running, NEW ls, NEW u, LayersOK(ls, u, SourceLen),
         NEW offset \in 0..SourceLen, NEW e,
         (e = End /\ u = t - 1) \/ ((\E h : e = Start(h)) /\ u = t + 1),
         emit_event(ls, offset, e), doc' = doc, status' = status
  PROVE  HlInv'
<1>1. /\ doc \in Documents /\ byte_offset \in 0..SourceLen /\ LayersOK(layers, t, SourceLen)
      /\ EventsOK(events, byte_offset, d) /\ status # "finished" /\ next_event = NoEvent
      /\ Shown(renderer, d, doc.text, byte_offset)
  BY DEF HlState, Running
<1>2. d = t BY <1>1, EventKinds DEF HlState, Pending
<1>3. SourceLen \in Nat /\ SourceLen' = SourceLen /\ IsSeq(doc.text) BY <1>1, LengthNat DEF SourceLen
<1>4. u \in Nat /\ t \in Nat BY <1>1, TotalNat
<1>5. layers' = sort_layers(ls) BY DEF emit_event
<1>6. LayersOK(layers', u, SourceLen) BY <1>5, SortOK
<1>7. byte_offset \in Int /\ offset \in Int BY <1>1, <1>3
<1>8. CASE byte_offset < offset
  <2>1. PICK s : s = Source(byte_offset, offset) OBVIOUS
  <2>2. events' = Append(events, s) /\ Render(s) /\ byte_offset' = offset /\ next_event' = e
    BY <1>8, <2>1 DEF emit_event, Return1
  <2>3. s.type = "source" /\ s.from = byte_offset /\ s.to = offset BY <2>1, EventKinds
  <2>4. EventsOK(events', offset, d) BY <1>1, <1>7, <1>8, <2>2, <2>3, EventsMore
  <2>5. Pending(u, d)'
    <3>1. CASE e = End /\ u = t - 1
      <4>1. d = u + 1 BY <1>2, <1>4, <3>1
      <4>2. QED BY <2>2, <3>1, <4>1 DEF Pending, End
    <3>2. CASE ((\E h : e = Start(h)) /\ u = t + 1)
      <4>1. d = u - 1 BY <1>2, <1>4, <3>2
      <4>2. QED BY <2>2, <3>2, <4>1 DEF Pending, Start
    <3>3. QED BY <3>1, <3>2
  <2>6. Shown(renderer', d, doc.text, offset)
    <3>1. byte_offset \in Nat /\ offset \in Nat /\ byte_offset <= offset /\ offset <= Len(doc.text)
      BY <1>1, <1>3, <1>8 DEF SourceLen
    <3>2. QED BY <1>1, <1>3, <2>2, <2>3, <3>1, ShownSource
  <2>7. HlState(u, d)' BY <1>1, <1>3, <1>6, <2>2, <2>4, <2>5, <2>6 DEF HlState, SourceLen
  <2>8. QED BY <2>7 DEF HlInv
<1>9. CASE ~(byte_offset < offset)
  <2>1. events' = Append(events, e) /\ Render(e) /\ byte_offset' = byte_offset /\ next_event' = next_event
    BY <1>9 DEF emit_event, Return1
  <2>2. EventsOK(events', byte_offset, u) /\ Shown(renderer', u, doc.text, byte_offset)
    <3>1. CASE e = End /\ u = t - 1
      <4>1. e.type = "end" /\ d >= 1 /\ u = d - 1 BY <1>2, <1>4, <3>1, EventKinds
      <4>2. EventsOK(events', byte_offset, d - 1) BY <1>1, <1>7, <2>1, <4>1, EventsMore
      <4>3. Shown(renderer', d - 1, doc.text, byte_offset) BY <1>1, <2>1, <4>1, ShownEnd
      <4>4. QED BY <4>1, <4>2, <4>3
    <3>2. CASE ((\E h : e = Start(h)) /\ u = t + 1)
      <4>1. e.type = "start" /\ u = d + 1 BY <1>2, <3>2, EventKinds
      <4>2. EventsOK(events', byte_offset, d + 1) BY <1>1, <1>7, <2>1, <4>1, EventsMore
      <4>3. Shown(renderer', d + 1, doc.text, byte_offset) BY <1>1, <2>1, <4>1, ShownStart
      <4>4. QED BY <4>1, <4>2, <4>3
    <3>3. QED BY <3>1, <3>2
  <2>3. Pending(u, u)' BY <1>1, <2>1 DEF Pending, NoEvent
  <2>4. HlState(u, u)' BY <1>1, <1>3, <1>6, <2>1, <2>2, <2>3 DEF HlState, SourceLen
  <2>5. QED BY <2>4 DEF HlInv
<1>10. QED BY <1>8, <1>9

\* A step that returns no event.
LEMMA QuietOK ==
  ASSUME DocumentsGiven, NEW t, NEW d, HlState(t, d), Running, NEW ls, LayersOK(ls, t, SourceLen),
         layers' = sort_layers(ls), UNCHANGED <<doc, byte_offset, next_event, status, events, renderer>>
  PROVE  HlInv'
<1>1. LayersOK(layers', t, SourceLen) BY SortOK
<1>2. HlState(t, d)' BY <1>1 DEF HlState, SourceLen, Pending, NoEvent, End, Start
<1>3. QED BY <1>2 DEF HlInv

\* The layer in front.
LEMMA TopOK ==
  ASSUME NEW t, NEW d, HlState(t, d), layers # <<>>
  PROVE  LayerOK(Top, SourceLen) /\ LayersOK(layers, t, SourceLen) /\ Len(Top.ends) \in Nat /\ t \in Int
<1>1. LayersOK(layers, t, SourceLen) BY DEF HlState
<1>2. Len(layers) \in Nat /\ DOMAIN layers = 1..Len(layers) /\ t \in Int BY <1>1, EndsCount
<1>3. Len(layers) >= 1 BY <1>1, NotEmpty DEF LayersOK
<1>4. LayerOK(Top, SourceLen) BY <1>1, <1>2, <1>3 DEF LayersOK, Top
<1>5. Len(Top.ends) \in Nat BY <1>4, NotEmpty DEF LayerOK
<1>6. QED BY <1>1, <1>2, <1>4, <1>5

\* Captures of the text.
PlacesIn(c, n) == IsSeq(c) /\ \A i \in DOMAIN c : PlaceIn(c[i], n)

Recaptured(l, scopes, captures, y) == y = [l EXCEPT !.scopes = scopes, !.captures = captures]

\* A layer with other captures and scopes.
LEMMA CapturesLeft ==
  ASSUME NEW n, NEW l, LayerOK(l, n), NEW captures, PlacesIn(captures, n), NEW scopes,
         NEW y, Recaptured(l, scopes, captures, y)
  PROVE  LayerOK(y, n) /\ y.ends = l.ends
<1>1. PICK a, b, c, e : a = l.language /\ b = l.depth /\ c = l.ranges /\ e = l.ends OBVIOUS
<1>2. PICK k, s : k = l.captures /\ s = l.scopes OBVIOUS
<1>3. l = [captures |-> k, language |-> a, depth |-> b, ranges |-> c, ends |-> e, scopes |-> s]
  BY <1>1, <1>2 DEF LayerOK
<1>4. y = [captures |-> captures, language |-> a, depth |-> b, ranges |-> c, ends |-> e, scopes |-> scopes]
  BY <1>3 DEF Recaptured
<1>5. y.captures = captures /\ y.ends = e /\ y = [captures |-> y.captures, language |-> y.language,
        depth |-> y.depth, ranges |-> y.ranges, ends |-> y.ends, scopes |-> y.scopes]
  <2>1. y.captures = captures /\ y.ends = e /\ y.scopes = scopes BY <1>4
  <2>2. y.language = a /\ y.depth = b /\ y.ranges = c BY <1>4
  <2>3. QED BY <1>4, <2>1, <2>2, Zenon
<1>6. QED BY <1>1, <1>5 DEF LayerOK, PlacesIn

\* A layer with other ends.
LEMMA EndsLeft ==
  ASSUME NEW n, NEW l, LayerOK(l, n), NEW ends, IsSeq(ends), \A i \in DOMAIN ends : ends[i] \in 0..n,
         NEW y, y = [l EXCEPT !.ends = ends]
  PROVE  LayerOK(y, n) /\ y.ends = ends
<1>1. PICK a, b, c, e : a = l.language /\ b = l.depth /\ c = l.ranges /\ e = l.ends OBVIOUS
<1>2. PICK k, s : k = l.captures /\ s = l.scopes OBVIOUS
<1>3. l = [captures |-> k, language |-> a, depth |-> b, ranges |-> c, ends |-> e, scopes |-> s]
  BY <1>1, <1>2 DEF LayerOK
<1>4. y = [captures |-> k, language |-> a, depth |-> b, ranges |-> c, ends |-> ends, scopes |-> s]
  BY <1>3
<1>5. y.captures = k /\ y.ends = ends /\ y = [captures |-> y.captures, language |-> y.language,
        depth |-> y.depth, ranges |-> y.ranges, ends |-> y.ends, scopes |-> y.scopes]
  <2>1. y.captures = k /\ y.ends = ends /\ y.scopes = s BY <1>4
  <2>2. y.language = a /\ y.depth = b /\ y.ranges = c BY <1>4
  <2>3. QED BY <1>4, <2>1, <2>2, Zenon
<1>6. QED BY <1>2, <1>5 DEF LayerOK

\* EndHighlight: a highlight is open no more.
LEMMA EndHighlightOK ==
  ASSUME DocumentsGiven, NEW t, NEW d, HlState(t, d), EndHighlight
  PROVE  HlInv'
<1>1. Running /\ layers # <<>> /\ Top.ends # <<>> BY DEF EndHighlight, EndDue
<1>2. LayerOK(Top, SourceLen) /\ LayersOK(layers, t, SourceLen) /\ t \in Int BY <1>1, TopOK
<1>3. PICK old : old = Top.ends OBVIOUS
<1>4. IsSeq(old) /\ \A i \in DOMAIN old : old[i] \in 0..SourceLen BY <1>2, <1>3 DEF LayerOK
<1>5. Len(old) \in Nat /\ DOMAIN old = 1..Len(old) /\ Len(old) >= 1 BY <1>1, <1>3, <1>4, NotEmpty
<1>6. PICK m \in Nat : m = Len(old) - 1
  <2>1. Len(old) - 1 \in Nat BY <1>5
  <2>2. QED BY <2>1
<1>7. PICK ends : ends = SubSeq(old, 1, m) OBVIOUS
<1>8. IsSeq(ends) /\ Len(ends) = m /\ \A i \in DOMAIN ends : ends[i] \in 0..SourceLen
  <2>1. PICK one : one = 1 OBVIOUS
  <2>2. one \in Nat \ {0} /\ m <= Len(old) /\ ends = SubSeq(old, one, m) BY <1>5, <1>6, <1>7, <2>1
  <2>3. /\ IsSeq(ends) /\ Len(ends) = (IF one <= m THEN m - one + 1 ELSE 0)
        /\ \A i \in DOMAIN ends : one + i - 1 \in 1..m /\ ends[i] = old[one + i - 1]
    BY <1>4, <2>2, SubFacts
  <2>4. \A i \in DOMAIN ends : one + i - 1 \in DOMAIN old BY <1>5, <1>6, <2>3
  <2>5. QED BY <1>4, <2>1, <2>3, <2>4
<1>9. Front(old) = ends /\ Last(old) = old[m + 1]
  <2>1. Front(old) = SubSeq(old, 1, Len(old) - 1) /\ Last(old) = old[Len(old)] BY Zenon DEF Front, Last
  <2>2. Len(old) = m + 1 BY <1>5, <1>6
  <2>3. QED BY <1>6, <1>7, <2>1, <2>2
<1>10. PICK offset \in 0..SourceLen : offset = Last(old) BY <1>4, <1>5, <1>6, <1>9
<1>11. PICK l : l = [Top EXCEPT !.ends = ends] OBVIOUS
<1>12. LayerOK(l, SourceLen) /\ l.ends = ends BY <1>2, <1>8, <1>11, EndsLeft
<1>13. PICK ls : ls = [layers EXCEPT ![1] = l] OBVIOUS
<1>14. LayersOK(ls, t + Len(l.ends) - Len(layers[1].ends), SourceLen) BY <1>1, <1>2, <1>12, <1>13, LayersTop
<1>15. t + Len(l.ends) - Len(layers[1].ends) = t - 1
  <2>1. Len(layers[1].ends) = m + 1 /\ Len(l.ends) = m BY <1>3, <1>5, <1>6, <1>8, <1>12 DEF Top
  <2>2. t + m - (m + 1) = t - 1 BY <1>2
  <2>3. QED BY <2>1, <2>2
<1>16. PICK u, e : u = t - 1 /\ e = End OBVIOUS
<1>17. LayersOK(ls, u, SourceLen) BY <1>14, <1>15, <1>16
<1>18. emit_event(ls, offset, e) /\ doc' = doc /\ status' = status
  <2>1. emit_event(TopIs([Top EXCEPT !.ends = Front(Top.ends)]), Last(Top.ends), End) /\ doc' = doc /\ status' = status
    BY DEF EndHighlight
  <2>2. TopIs([Top EXCEPT !.ends = Front(Top.ends)]) = ls BY <1>3, <1>9, <1>11, <1>13, Zenon DEF TopIs
  <2>3. QED BY <1>3, <1>10, <1>16, <2>1, <2>2
<1>19. (e = End /\ u = t - 1) \/ ((\E h : e = Start(h)) /\ u = t + 1) BY <1>16, Zenon
<1>20. QED BY <1>1, <1>17, <1>18, <1>19, EmitOK, Zenon

\* Of the captures some are left.
LEMMA WithoutOK ==
  ASSUME NEW n, NEW captures, PlacesIn(captures, n), NEW ids, NEW y, y = Without(captures, ids)
  PROVE  PlacesIn(y, n)
<1> DEFINE places == {i \in DOMAIN captures : captures[i].id \notin ids}
<1>1. Without(captures, ids) = KeptAt(captures, places) BY Zenon DEF Without, Kept
<1> HIDE DEF places
<1>2. IsSeq(y) /\ \A j \in DOMAIN y : \E i \in DOMAIN captures : i \in places /\ y[j] = captures[i]
  BY <1>1, KeptFacts DEF PlacesIn
<1>3. QED BY <1>2 DEF PlacesIn

\* Of the captures the later ones are left.
LEMMA LaterOK ==
  ASSUME NEW n, NEW captures, PlacesIn(captures, n), NEW k \in Nat \ {0}, NEW y, y = SubSeq(captures, k, Len(captures))
  PROVE  PlacesIn(y, n)
<1>1. PICK m : m = Len(captures) OBVIOUS
<1>2. IsSeq(captures) /\ m \in Nat /\ m <= Len(captures) BY <1>1, NotEmpty DEF PlacesIn
<1>3. IsSeq(y) /\ DOMAIN captures = 1..Len(captures) /\ \A i \in DOMAIN y : k + i - 1 \in 1..m /\ y[i] = captures[k + i - 1]
  BY <1>1, <1>2, SubFacts
<1>4. QED BY <1>1, <1>3 DEF PlacesIn

\* Inject: the new layers have nothing open.
LEMMA InjectOK ==
  ASSUME DocumentsGiven, NEW t, NEW d, HlState(t, d), Inject
  PROVE  HlInv'
<1>1. Running /\ layers # <<>> /\ doc \in Documents BY DEF Inject, CaptureDue, HlState
<1>2. LayerOK(Top, SourceLen) /\ LayersOK(layers, t, SourceLen) /\ Len(Top.ends) \in Nat /\ t \in Int BY <1>1, TopOK
<1>3. PICK c : c = Without(Top.captures, {Capture.id}) OBVIOUS
<1>4. PlacesIn(c, SourceLen) BY <1>2, <1>3, WithoutOK DEF PlacesIn, LayerOK
<1>5. PICK s : s = Top.scopes OBVIOUS
<1>6. PICK l : l = [Top EXCEPT !.scopes = s, !.captures = c] OBVIOUS
<1>7. LayerOK(l, SourceLen) /\ l.ends = Top.ends
  <2>1. Recaptured(Top, s, c, l) BY <1>6, Zenon DEF Recaptured
  <2>2. QED BY <1>2, <1>4, <2>1, CapturesLeft
<1>8. [Top EXCEPT !.captures = c] = l
  <2>1. PICK a, b, r, e, k : a = Top.language /\ b = Top.depth /\ r = Top.ranges /\ e = Top.ends /\ k = Top.captures OBVIOUS
  <2>2. Top = [captures |-> k, language |-> a, depth |-> b, ranges |-> r, ends |-> e, scopes |-> s]
    BY <1>2, <1>5, <2>1 DEF LayerOK
  <2>3. PICK top : top = Top OBVIOUS
  <2>4. [top EXCEPT !.captures = c] = [captures |-> c, language |-> a, depth |-> b, ranges |-> r, ends |-> e, scopes |-> s]
    BY <2>2, <2>3
  <2>5. l = [captures |-> c, language |-> a, depth |-> b, ranges |-> r, ends |-> e, scopes |-> s]
    BY <1>6, <2>2, <2>3
  <2>6. QED BY <2>3, <2>4, <2>5, Zenon
<1>9. PICK ls : ls = [layers EXCEPT ![1] = l] OBVIOUS
<1>10. LayersOK(ls, t + Len(l.ends) - Len(layers[1].ends), SourceLen) /\ ls # <<>> BY <1>1, <1>2, <1>7, <1>9, LayersTop
<1>11. t + Len(l.ends) - Len(layers[1].ends) = t
  <2>1. PICK x \in Nat : x = Len(Top.ends) BY <1>2
  <2>2. t + x - x = t BY <1>2
  <2>3. QED BY <1>7, <2>1, <2>2 DEF Top
<1>12. PICK new : new = Injected(Capture, Top) OBVIOUS
<1>13. Fresh(new, SourceLen) BY <1>1, <1>12, InjectedOK
<1>14. PICK y : y = FoldLeft(insert_layer, ls, new) OBVIOUS
<1>15. LayersOK(y, t, SourceLen) BY <1>10, <1>11, <1>13, <1>14, InsertAll
<1>16. layers' = sort_layers(y) /\ UNCHANGED <<doc, byte_offset, next_event, status, events, renderer>>
  <2>1. TopIs([Top EXCEPT !.captures = Without(Top.captures, {Capture.id})]) = ls
    BY <1>3, <1>8, <1>9, Zenon DEF TopIs
  <2>2. layers' = sort_layers(FoldLeft(insert_layer, TopIs([Top EXCEPT !.captures = Without(Top.captures, {Capture.id})]),
                                       Injected(Capture, Top)))
        /\ UNCHANGED <<doc, byte_offset, next_event, status, events, renderer>>
    BY DEF Inject
  <2>3. QED BY <1>12, <1>14, <2>1, <2>2, Zenon
<1>17. QED BY <1>1, <1>15, <1>16, QuietOK

\* The captures of the first one's node are some of the captures.
LEMMA AtNodeIsSeq ==
  ASSUME NEW captures, IsSeq(captures), NEW y, y = AtNode(captures)
  PROVE  IsSeq(y) /\ Len(y) \in Nat
<1> DEFINE I == {i \in 1..Len(captures) : ~SameNode(captures[i], captures[1])}
           n == IF I # {} THEN Min(I) ELSE 0
<1>1. AtNode(captures) = IF n = 0 THEN captures ELSE SubSeq(captures, 1, n - 1)
  BY Zenon DEF AtNode, SelectInSeq
<1>2. Len(captures) \in Nat BY NotEmpty
<1>3. I \subseteq 1..Len(captures) OBVIOUS
<1> HIDE DEF I
<1>4. n \in 0..Len(captures)
  <2>1. CASE I = {} BY <1>2, <2>1
  <2>2. CASE I # {}
    <3>1. I \subseteq Nat BY <1>2, <1>3
    <3>2. Min(I) \in I BY <2>2, <3>1, LeastIs
    <3>3. n = Min(I) BY <2>2, Zenon
    <3> HIDE DEF n
    <3>4. n \in 1..Len(captures) BY <1>3, <3>2, <3>3
    <3>5. QED BY <1>2, <3>4
  <2>3. QED BY <2>1, <2>2
<1> HIDE DEF n
<1>5. CASE n = 0 BY <1>1, <1>2, <1>5
<1>6. CASE n # 0
  <2>1. PICK m, one : m = n - 1 /\ one = 1 OBVIOUS
  <2>2. m \in Nat /\ m <= Len(captures) /\ one \in Nat \ {0} /\ y = SubSeq(captures, one, m) BY <1>1, <1>2, <1>4, <1>6, <2>1
  <2>3. IsSeq(y) BY <2>2, SubFacts
  <2>4. QED BY <2>3, NotEmpty
<1>7. QED BY <1>5, <1>6

\* Node: the captures of a node are used up; a highlight may open.
LEMMA NodeEffect ==
  ASSUME Node, LayerOK(Top, SourceLen)
  PROVE  \E scopes, captures :
           /\ PlacesIn(captures, SourceLen)
           /\ \/ /\ layers' = sort_layers(TopIs([Top EXCEPT !.scopes = scopes, !.captures = captures]))
                 /\ UNCHANGED <<byte_offset, next_event, events, renderer>>
              \/ \E h : emit_event(TopIs([[Top EXCEPT !.scopes = scopes, !.captures = captures]
                                            EXCEPT !.ends = Append(@, Capture.end)]),
                                   Capture.start, Start(h))
<1> DEFINE node == AtNode(Top.captures)
           locals == Kept(node, IsLocal)
           highlights == Kept(node, LAMBDA c : c.kind = "highlight")
           later == SubSeq(Top.captures, Len(node) + 1, Len(Top.captures))
           st == FoldLeft(Local, [scopes |-> PopScopes(Top.scopes, Capture.start), ref |-> 0,
                                  isdef |-> FALSE], locals)
           duplicate == /\ last_highlight_range # <<>>
                        /\ <<Capture.start, Capture.end>> = SubSeq(last_highlight_range, 1, 2)
                        /\ Top.depth < last_highlight_range[3]
           tried == Tried(highlights, st.isdef \/ st.ref # 0)
           current == highlights[Last(tried)].h
           rest == Without(later, {highlights[k].id : k \in ToSet(Front(tried))})
           n == Len(st.scopes)
           stored == IF ~st.isdef THEN st.scopes
                     ELSE [st.scopes EXCEPT ![n].defs[Len(st.scopes[n].defs)].highlight = current]
           h == IF st.ref # 0 THEN st.ref ELSE current
           skipped == SubSeq(Top.captures, Len(locals) + 2, Len(Top.captures))
           Now(scopes, captures) == [Top EXCEPT !.scopes = scopes, !.captures = captures]
<1>1. IF highlights = <<>>
      THEN /\ layers' = sort_layers(TopIs(Now(st.scopes, later)))
           /\ UNCHANGED <<byte_offset, next_event, last_highlight_range, events, spans, renderer>>
      ELSE IF duplicate
      THEN /\ layers' = sort_layers(TopIs(Now(st.scopes, skipped)))
           /\ UNCHANGED <<byte_offset, next_event, last_highlight_range, events, spans, renderer>>
      ELSE IF h = 0
      THEN /\ layers' = sort_layers(TopIs(Now(stored, rest)))
           /\ UNCHANGED <<byte_offset, next_event, last_highlight_range, events, spans, renderer>>
      ELSE /\ spans' = Append(spans, Span(Capture.start, Capture.end))
           /\ last_highlight_range' = <<Capture.start, Capture.end, Top.depth>>
           /\ emit_event(TopIs([Now(stored, rest) EXCEPT !.ends = Append(@, Capture.end)]),
                         Capture.start, Start(h))
  BY Zenon DEF Node
<1>2. PICK all : all = Top.captures OBVIOUS
<1>3. PlacesIn(all, SourceLen) BY <1>2 DEF LayerOK, PlacesIn
<1>4. IsSeq(node) /\ Len(node) \in Nat BY <1>2, <1>3, AtNodeIsSeq DEF PlacesIn
<1>5. Len(locals) \in Nat
  <2> DEFINE places == {i \in DOMAIN node : IsLocal(node[i])}
  <2>1. locals = KeptAt(node, places) BY Zenon DEF Kept
  <2> HIDE DEF node, places, locals
  <2>2. IsSeq(locals) BY <1>4, <2>1, KeptFacts
  <2>3. QED BY <2>2, NotEmpty
<1>6. PlacesIn(later, SourceLen)
  <2> HIDE DEF node
  <2>1. PICK k : k = Len(node) + 1 OBVIOUS
  <2>2. k \in Nat \ {0} /\ later = SubSeq(all, k, Len(all)) BY <1>2, <1>4, <2>1
  <2> HIDE DEF later
  <2>3. QED BY <1>3, <2>2, LaterOK
<1>7. PlacesIn(skipped, SourceLen)
  <2> HIDE DEF locals
  <2>1. PICK k : k = Len(locals) + 2 OBVIOUS
  <2>2. k \in Nat \ {0} /\ skipped = SubSeq(all, k, Len(all)) BY <1>2, <1>5, <2>1
  <2> HIDE DEF skipped
  <2>3. QED BY <1>3, <2>2, LaterOK
<1>8. PlacesIn(rest, SourceLen)
  <2> DEFINE ids == {highlights[k].id : k \in ToSet(Front(tried))}
  <2>1. rest = Without(later, ids) OBVIOUS
  <2> HIDE DEF rest, later, ids
  <2>2. QED BY <1>6, <2>1, WithoutOK
<1> HIDE DEF node, locals, highlights, later, st, duplicate, tried, current, rest, n, stored, h, skipped
<1>9. PICK s : s = st.scopes OBVIOUS
<1>10. \/ /\ layers' = sort_layers(TopIs(Now(s, later)))
          /\ UNCHANGED <<byte_offset, next_event, events, renderer>>
       \/ /\ layers' = sort_layers(TopIs(Now(s, skipped)))
          /\ UNCHANGED <<byte_offset, next_event, events, renderer>>
       \/ /\ layers' = sort_layers(TopIs(Now(stored, rest)))
          /\ UNCHANGED <<byte_offset, next_event, events, renderer>>
       \/ emit_event(TopIs([Now(stored, rest) EXCEPT !.ends = Append(@, Capture.end)]), Capture.start, Start(h))
  BY <1>1, <1>9, Zenon
<1>11. QED BY <1>6, <1>7, <1>8, <1>10, Zenon

\* Node: a highlight that opens is open in its layer and in the events.
LEMMA NodeOK ==
  ASSUME DocumentsGiven, NEW t, NEW d, HlState(t, d), Node
  PROVE  HlInv'
<1>1. Running /\ layers # <<>> /\ Top.captures # <<>> /\ doc' = doc /\ status' = status BY DEF Node, CaptureDue
<1>2. LayerOK(Top, SourceLen) /\ LayersOK(layers, t, SourceLen) /\ Len(Top.ends) \in Nat /\ t \in Int BY <1>1, TopOK
<1>3. PICK scopes, captures :
           /\ PlacesIn(captures, SourceLen)
           /\ \/ /\ layers' = sort_layers(TopIs([Top EXCEPT !.scopes = scopes, !.captures = captures]))
                 /\ UNCHANGED <<byte_offset, next_event, events, renderer>>
              \/ \E h : emit_event(TopIs([[Top EXCEPT !.scopes = scopes, !.captures = captures]
                                            EXCEPT !.ends = Append(@, Capture.end)]),
                                   Capture.start, Start(h))
  BY <1>2, NodeEffect, Zenon
<1>4. PICK l : l = [Top EXCEPT !.scopes = scopes, !.captures = captures] OBVIOUS
<1>5. LayerOK(l, SourceLen) /\ l.ends = Top.ends
  <2>1. Recaptured(Top, scopes, captures, l) BY <1>4, Zenon DEF Recaptured
  <2>2. QED BY <1>2, <1>3, <2>1, CapturesLeft
<1>6. PICK x \in Nat : x = Len(Top.ends) BY <1>2
<1>7. CASE layers' = sort_layers(TopIs(l)) /\ UNCHANGED <<byte_offset, next_event, events, renderer>>
  <2>1. PICK ls : ls = [layers EXCEPT ![1] = l] OBVIOUS
  <2>2. LayersOK(ls, t + Len(l.ends) - Len(layers[1].ends), SourceLen) BY <1>1, <1>2, <1>5, <2>1, LayersTop
  <2>3. t + Len(l.ends) - Len(layers[1].ends) = t
    <3>1. t + x - x = t BY <1>2
    <3>2. QED BY <1>5, <1>6, <3>1 DEF Top
  <2>4. LayersOK(ls, t, SourceLen) BY <2>2, <2>3
  <2>5. layers' = sort_layers(ls) BY <1>7, <2>1 DEF TopIs
  <2>6. QED BY <1>1, <1>7, <2>4, <2>5, QuietOK
<1>8. CASE \E h : emit_event(TopIs([l EXCEPT !.ends = Append(@, Capture.end)]), Capture.start, Start(h))
  <2>1. PICK h : emit_event(TopIs([l EXCEPT !.ends = Append(@, Capture.end)]), Capture.start, Start(h)) BY <1>8
  <2>2. PICK start, end : start = Capture.start /\ end = Capture.end OBVIOUS
  <2>3. start \in 0..SourceLen /\ end \in 0..SourceLen
    <3>1. PICK all : all = Top.captures OBVIOUS
    <3>2. IsSeq(all) /\ \A i \in DOMAIN all : PlaceIn(all[i], SourceLen) BY <1>2, <3>1 DEF LayerOK
    <3>3. Len(all) \in Nat /\ Len(all) >= 1 /\ DOMAIN all = 1..Len(all) BY <1>1, <3>1, <3>2, NotEmpty
    <3>4. Head(all) = all[1] /\ 1 \in DOMAIN all BY <3>3
    <3>5. PlaceIn(Capture, SourceLen) BY <3>1, <3>2, <3>4 DEF Capture
    <3>6. QED BY <2>2, <3>5 DEF PlaceIn
  <2>4. PICK ends : ends = Append(l.ends, end) OBVIOUS
  <2>5. IsSeq(l.ends) /\ \A i \in DOMAIN l.ends : l.ends[i] \in 0..SourceLen BY <1>5 DEF LayerOK
  <2>6. /\ IsSeq(ends) /\ Len(ends) = Len(l.ends) + 1 /\ DOMAIN l.ends = 1..Len(l.ends)
        /\ DOMAIN ends = 1..(Len(l.ends) + 1) /\ (\A i \in 1..Len(l.ends) : ends[i] = l.ends[i])
        /\ ends[Len(l.ends) + 1] = end
    BY <2>4, <2>5, AppendFacts
  <2>7. Len(l.ends) = x BY <1>5, <1>6
  <2>8. \A i \in DOMAIN ends : ends[i] \in 0..SourceLen
    <3>1. ASSUME NEW i \in DOMAIN ends PROVE ends[i] \in 0..SourceLen
      <4>1. CASE i \in 1..x BY <2>5, <2>6, <2>7, <4>1
      <4>2. CASE i = x + 1 BY <2>3, <2>6, <2>7, <4>2
      <4>3. QED BY <2>6, <2>7, <4>1, <4>2
    <3>2. QED BY <3>1
  <2>9. PICK k : k = [l EXCEPT !.ends = ends] OBVIOUS
  <2>10. LayerOK(k, SourceLen) /\ k.ends = ends BY <1>5, <2>6, <2>8, <2>9, EndsLeft
  <2>11. PICK ls : ls = [layers EXCEPT ![1] = k] OBVIOUS
  <2>12. LayersOK(ls, t + Len(k.ends) - Len(layers[1].ends), SourceLen) BY <1>1, <1>2, <2>10, <2>11, LayersTop
  <2>13. t + Len(k.ends) - Len(layers[1].ends) = t + 1
    <3>1. t + (x + 1) - x = t + 1 BY <1>2
    <3>2. QED BY <1>6, <2>6, <2>7, <2>10, <3>1 DEF Top
  <2>14. PICK u, e : u = t + 1 /\ e = Start(h) OBVIOUS
  <2>15. LayersOK(ls, u, SourceLen) BY <2>12, <2>13, <2>14
  <2>16. emit_event(ls, start, e)
    <3>1. [l EXCEPT !.ends = Append(@, Capture.end)] = k BY <2>2, <2>4, <2>9, Zenon
    <3>2. TopIs(k) = ls BY <2>11, Zenon DEF TopIs
    <3>3. QED BY <2>1, <2>2, <2>14, <3>1, <3>2, Zenon
  <2>17. (e = End /\ u = t - 1) \/ ((\E g : e = Start(g)) /\ u = t + 1) BY <2>14, Zenon
  <2>18. QED BY <1>1, <2>3, <2>15, <2>16, <2>17, EmitOK, Zenon
<1>9. QED BY <1>3, <1>4, <1>7, <1>8, Zenon

\* TakeEvent: the event that waited.
LEMMA TakeEventOK ==
  ASSUME DocumentsGiven, NEW t, NEW d, HlState(t, d), TakeEvent
  PROVE  HlInv'
<1>1. /\ events' = Append(events, next_event) /\ Render(next_event) /\ next_event' = NoEvent /\ next_event # NoEvent
      /\ doc' = doc /\ layers' = layers /\ byte_offset' = byte_offset /\ status' = status /\ status # "finished"
  BY DEF TakeEvent, Return1
<1>2. /\ doc \in Documents /\ byte_offset \in 0..SourceLen /\ LayersOK(layers, t, SourceLen)
      /\ EventsOK(events, byte_offset, d) /\ Shown(renderer, d, doc.text, byte_offset)
  BY <1>1 DEF HlState
<1>3. SourceLen \in Nat /\ SourceLen' = SourceLen BY <1>1, <1>2, LengthNat DEF SourceLen
<1>4. t \in Nat /\ byte_offset \in Int BY <1>2, <1>3, TotalNat
<1>5. EventsOK(events', byte_offset, t) /\ Shown(renderer', t, doc.text, byte_offset)
  <2>1. (next_event = End /\ d = t + 1) \/ ((\E h : next_event = Start(h)) /\ d = t - 1)
    BY <1>1 DEF HlState, Pending
  <2>2. CASE next_event = End /\ d = t + 1
    <3>1. next_event.type = "end" /\ d >= 1 /\ d - 1 = t BY <1>4, <2>2, EventKinds
    <3>2. EventsOK(events', byte_offset, d - 1) BY <1>1, <1>2, <1>4, <3>1, EventsMore
    <3>3. Shown(renderer', d - 1, doc.text, byte_offset) BY <1>1, <1>2, <3>1, ShownEnd
    <3>4. QED BY <3>1, <3>2, <3>3
  <2>3. CASE (\E h : next_event = Start(h)) /\ d = t - 1
    <3>1. next_event.type = "start" /\ d + 1 = t BY <1>4, <2>3, EventKinds
    <3>2. EventsOK(events', byte_offset, d + 1) BY <1>1, <1>2, <1>4, <3>1, EventsMore
    <3>3. Shown(renderer', d + 1, doc.text, byte_offset) BY <1>1, <1>2, <3>1, ShownStart
    <3>4. QED BY <3>1, <3>2, <3>3
  <2>4. QED BY <2>1, <2>2, <2>3
<1>6. Pending(t, t)' BY <1>1 DEF Pending, NoEvent
<1>7. HlState(t, t)' BY <1>1, <1>2, <1>3, <1>5, <1>6 DEF HlState, SourceLen
<1>8. QED BY <1>7 DEF HlInv

\* Finish: no layer is left, so nothing is open.
LEMMA FinishOK ==
  ASSUME DocumentsGiven, NEW t, NEW d, HlState(t, d), Finish
  PROVE  HlInv'
<1>1. /\ next_event = NoEvent /\ layers = <<>> /\ doc' = doc /\ layers' = layers /\ next_event' = next_event
      /\ status # "finished"
  BY DEF Finish, Running
<1>2. /\ doc \in Documents /\ byte_offset \in 0..SourceLen /\ LayersOK(layers, t, SourceLen)
      /\ EventsOK(events, byte_offset, d) /\ Shown(renderer, d, doc.text, byte_offset)
  BY <1>1 DEF HlState
<1>3. SourceLen \in Nat /\ SourceLen' = SourceLen /\ IsSeq(doc.text) BY <1>1, <1>2, LengthNat DEF SourceLen
<1>4. d = t BY <1>1, EventKinds DEF HlState, Pending
<1>5. t = 0
  <2>1. \A k \in DOMAIN layers : layers[k].ends = <<>> BY <1>1, EmptyIsSeq
  <2>2. QED BY <1>2, <2>1, TotalNone
<1>6. Pending(t, d)' BY <1>1, <1>4 DEF Pending, NoEvent
<1>7. CASE byte_offset < SourceLen
  <2>1. PICK s, n : s = Source(byte_offset, SourceLen) /\ n = SourceLen OBVIOUS
  <2>2. events' = Append(events, s) /\ Render(s) /\ byte_offset' = n /\ status' = status
    BY <1>7, <2>1 DEF Finish, Return1
  <2>3. s.type = "source" /\ s.from = byte_offset /\ s.to = n BY <2>1, EventKinds
  <2>4. EventsOK(events', n, d)
    <3>1. byte_offset \in Int /\ n \in Int /\ byte_offset < n BY <1>2, <1>3, <1>7, <2>1
    <3>2. EventsOK(events', s.to, d) BY <1>2, <2>2, <2>3, <3>1, EventsMore
    <3>3. QED BY <2>3, <3>2
  <2>5. n \in 0..n BY <1>3, <2>1
  <2>6. Shown(renderer', d, doc.text, n)
    <3>1. byte_offset \in Nat /\ n \in Nat /\ byte_offset <= n /\ n <= Len(doc.text)
      BY <1>2, <1>3, <1>7, <2>1 DEF SourceLen
    <3>2. QED BY <1>2, <1>3, <2>2, <2>3, <3>1, ShownSource
  <2>7. HlState(t, d)' BY <1>1, <1>2, <1>3, <1>6, <2>1, <2>2, <2>4, <2>5, <2>6 DEF HlState
  <2>8. QED BY <2>7 DEF HlInv
<1>8. CASE ~(byte_offset < SourceLen)
  <2>1. events' = events /\ byte_offset' = byte_offset BY <1>8 DEF Finish
  <2>2. byte_offset = SourceLen BY <1>2, <1>3, <1>8
  <2>3. Rendered(renderer', doc.text) /\ status' = "finished"
    <3>1. renderer' = FinishRender(renderer) /\ status' = "finished" BY <1>8 DEF Finish
    <3>2. PICK text, r, f : text = doc.text /\ r = renderer /\ f = FinishRender(r) OBVIOUS
    <3>3. Shown(r, 0, text, Len(text)) BY <1>2, <1>4, <1>5, <2>2, <3>2 DEF SourceLen
    <3>4. Rendered(f, text) BY <1>3, <3>2, <3>3, ShownEnded
    <3>5. QED BY <3>1, <3>2, <3>4
  <2>4. HlState(t, d)' BY <1>1, <1>2, <1>3, <1>4, <1>5, <1>6, <2>1, <2>2, <2>3 DEF HlState
  <2>5. QED BY <2>4 DEF HlInv
<1>9. QED BY <1>7, <1>8

\* Every step keeps the invariant.
LEMMA HlStepOK ==
  ASSUME DocumentsGiven, HlInv, [HlNext]_hlVars
  PROVE  HlInv'
<1>1. PICK t, d : HlState(t, d) BY DEF HlInv
<1>2. CASE TakeEvent BY <1>1, <1>2, TakeEventOK
<1>3. CASE Finish BY <1>1, <1>3, FinishOK
<1>4. CASE Cancel
  <2>1. status # "finished" BY <1>4 DEF Cancel, Running
  <2>2. status' = "cancelled" /\ UNCHANGED <<doc, layers, byte_offset, next_event, events, renderer>>
    BY <1>4 DEF Cancel
  <2>3. Shown(renderer, d, doc.text, byte_offset) BY <1>1, <2>1 DEF HlState
  <2>4. Shown(renderer, d, doc.text, byte_offset)' BY <2>2, <2>3
  <2>5. Pending(t, d)' BY <1>1, <2>2 DEF HlState, Pending
  <2>6. LayersOK(layers, t, SourceLen)' /\ EventsOK(events, byte_offset, d)' /\ (byte_offset \in 0..SourceLen)'
        /\ doc' \in Documents
    BY <1>1, <2>2 DEF HlState, SourceLen
  <2>7. HlState(t, d)' BY <2>2, <2>4, <2>5, <2>6 DEF HlState
  <2>8. QED BY <2>7 DEF HlInv
<1>5. CASE EndHighlight BY <1>1, <1>5, EndHighlightOK
<1>6. CASE Inject BY <1>1, <1>6, InjectOK
<1>7. CASE Node BY <1>1, <1>7, NodeOK
<1>8. CASE UNCHANGED hlVars
  <2>1. HlState(t, d)' BY <1>1, <1>8 DEF hlVars, HlState, SourceLen, Pending, NoEvent, End, Start
  <2>2. QED BY <2>1 DEF HlInv
<1>9. QED BY <1>2, <1>3, <1>4, <1>5, <1>6, <1>7, <1>8 DEF HlNext

\* What the invariant says of the events.
LEMMA HlInvGives ==
  ASSUME HlInv
  PROVE  EventsWellFormed
<1>1. PICK t, d : HlState(t, d) BY DEF HlInv
<1>2. EventsOK(events, byte_offset, d) /\ (status = "finished" => byte_offset = SourceLen /\ d = 0)
  BY <1>1 DEF HlState
<1>3. SourcesIn(events) = Sources /\ \A i : EarlierIn(events, i) = SourcesBefore(i)
  BY DEF SourcesIn, Sources, EarlierIn, SourcesBefore
<1>4. \A kind, n : CountIn(events, kind, n) = Count(kind, n) BY Zenon DEF CountIn, Count
<1>5. /\ \A i \in Sources :
           /\ events[i].from < events[i].to
           /\ events[i].from = IF SourcesBefore(i) = {} THEN 0 ELSE events[Max(SourcesBefore(i))].to
      /\ \A n \in DOMAIN events : Count("end", n) <= Count("start", n)
  BY <1>2, <1>3, <1>4 DEF EventsOK
<1>6. ASSUME status = "finished"
      PROVE  /\ SourceLen = IF Sources = {} THEN 0 ELSE events[Max(Sources)].to
             /\ Count("start", Len(events)) = Count("end", Len(events))
  <2>1. SourceLen = IF Sources = {} THEN 0 ELSE events[Max(Sources)].to BY <1>2, <1>3, <1>6 DEF EventsOK
  <2>2. Len(events) \in Nat BY <1>2, NotEmpty DEF EventsOK
  <2>3. PICK a, b : a = CountIn(events, "start", Len(events)) /\ b = CountIn(events, "end", Len(events)) OBVIOUS
  <2>4. b \in Nat BY <2>2, <2>3, CountNat
  <2>5. a = 0 + b BY <1>2, <1>6, <2>3 DEF EventsOK
  <2>6. a = b BY <2>4, <2>5
  <2>7. QED BY <1>4, <2>1, <2>3, <2>6
<1>7. QED BY <1>5, <1>6 DEF EventsWellFormed

\* What the invariant says of the lines of HTML.
LEMMA HlInvLines ==
  ASSUME HlInv
  PROVE  LinesBalanced
<1>1. PICK t, d : HlState(t, d) BY DEF HlInv
<1>2. CASE status = "finished"
  <2>1. Rendered(renderer, doc.text) BY <1>1, <1>2 DEF HlState
  <2>2. QED BY <2>1, RenderedBalanced
<1>3. CASE status # "finished" BY <1>3 DEF LinesBalanced
<1>4. QED BY <1>2, <1>3

\* The pieces of source in the stream of HighlightIter::next follow one another to the
\* end of the document, and highlights are ended after they were started and none is
\* left open, for any documents with captures in their texts, and any injections.
THEOREM EventsAreWellFormed ==
  ASSUME DocumentsGiven
  PROVE  HlSpec => []EventsWellFormed
<1>1. HlInit => HlInv BY HlInitOK
<1>2. HlInv /\ [HlNext]_hlVars => HlInv' BY HlStepOK
<1>3. HlInv => EventsWellFormed BY HlInvGives
<1>4. QED BY <1>1, <1>2, <1>3, PTL DEF HlSpec

\* Each line that HtmlRenderer::lines gives has its own opening and closing tags and
\* ends with a newline; the lines together are the text without its carriage returns,
\* and each run of those that ends no line has one mark (of several that follow one
\* another add_text forgets all but the last), for all texts.
THEOREM LinesAreBalanced ==
  ASSUME DocumentsGiven
  PROVE  HlSpec => []LinesBalanced
<1>1. HlInit => HlInv BY HlInitOK
<1>2. HlInv /\ [HlNext]_hlVars => HlInv' BY HlStepOK
<1>3. HlInv => LinesBalanced BY HlInvLines
<1>4. QED BY <1>1, <1>2, <1>3, PTL DEF HlSpec
=============================================================================
