----------------------------- MODULE TagsProofs -----------------------------
(***************************************************************************)
(* Proofs about Tags: the tags leave the queue in the order of the         *)
(* document, one for each node, and the lines and columns that are taken   *)
(* over from one tag to the next are those of its own name.                *)
(***************************************************************************)
EXTENDS Tags, FiniteSetTheorems, SequenceTheorems, WellFoundedInduction, TLAPS

-----------------------------------------------------------------------------
(* Numbers                                                                   *)

\* A set of numbers that is not empty has a least one.
LEMMA LeastExists ==
  ASSUME NEW S, S \subseteq Nat, S # {}
  PROVE  \E n \in S : \A m \in S : n <= m
<1> DEFINE R == OpToRel(<, Nat)
<1>1. \E n \in S : \A m \in S : ~ (<<m, n>> \in R)
  <2>1. IsWellFoundedOn(R, Nat) BY NatLessThanWellFounded
  <2> HIDE DEF R
  <2>2. QED BY <2>1, WFMin, Zenon
<1>2. PICK n \in S : \A m \in S : ~ (<<m, n>> \in R) BY <1>1
<1>3. \A m \in S : n <= m
  <2> SUFFICES ASSUME NEW m \in S, m < n PROVE FALSE OBVIOUS
  <2>1. <<m, n>> \in R BY DEF OpToRel
  <2>2. QED BY <1>2, <2>1
<1>4. QED BY <1>3

\* A set of positions that holds all positions before each of its own is counted by the
\* last of them: where Queued inserts is behind the names that come before.
LEMMA Initial ==
  ASSUME NEW n \in Nat, NEW S, S \subseteq 1..n, \A k \in S : \A j \in 1..k : j \in S
  PROVE  Cardinality(S) \in 0..n /\ S = 1..Cardinality(S)
<1> DEFINE C == {c \in Nat : \A k \in S : k <= c}
<1>1. PICK c \in C : \A d \in C : c <= d
  <2>1. C \subseteq Nat /\ n \in C OBVIOUS
  <2> HIDE DEF C
  <2>2. QED BY <2>1, LeastExists, Zenon
<1>2. c \in Nat /\ c <= n BY <1>1
<1>3. S = 1..c
  <2>1. S \subseteq 1..c BY <1>1
  <2>2. ASSUME c > 0 PROVE c \in S
    <3>1. c - 1 \in Nat /\ c - 1 \notin C BY <1>1, <2>2
    <3>2. PICK k \in S : ~(k <= c - 1) BY <3>1
    <3>3. k = c BY <3>2, <2>1
    <3>4. QED BY <3>2, <3>3
  <2>3. 1..c \subseteq S BY <1>2, <2>2
  <2>4. QED BY <2>1, <2>3
<1>4. Cardinality(1..c) = c BY <1>2, FS_Interval
<1>5. QED BY <1>2, <1>3, <1>4

-----------------------------------------------------------------------------
(* Sequences of anything                                                     *)

IsSeq(s) == s \in Seq({s[i] : i \in DOMAIN s})

\* Whatever a sequence is one of, it is a sequence.
LEMMA AnySeq ==
  ASSUME NEW S, NEW s \in Seq(S)
  PROVE  IsSeq(s) /\ Len(s) \in Nat /\ DOMAIN s = 1..Len(s)
<1>1. Len(s) \in Nat /\ s \in [1..Len(s) -> S] /\ DOMAIN s = 1..Len(s) BY LenProperties
<1>2. s \in [1..Len(s) -> {s[i] : i \in DOMAIN s}] BY <1>1
<1>3. QED BY <1>1, <1>2, SeqDef DEF IsSeq

\* Append, whatever is appended.
LEMMA AppendFacts ==
  ASSUME NEW s, IsSeq(s), NEW e
  PROVE  /\ IsSeq(Append(s, e)) /\ Len(s) \in Nat /\ DOMAIN s = 1..Len(s)
         /\ Len(Append(s, e)) = Len(s) + 1 /\ DOMAIN Append(s, e) = 1..(Len(s) + 1)
         /\ \A i \in 1..Len(s) : Append(s, e)[i] = s[i]
         /\ Append(s, e)[Len(s) + 1] = e
<1> DEFINE S == {s[i] : i \in DOMAIN s}
           T == S \cup {e}
<1>1. s \in Seq(S) BY DEF IsSeq
<1>2. s \in Seq(T) BY <1>1, SeqMonotonic
<1>3. e \in T OBVIOUS
<1> HIDE DEF T, S
<1>4. Append(s, e) \in Seq(T) /\ Len(Append(s, e)) = Len(s) + 1
      /\ (\A i \in 1..Len(s) : Append(s, e)[i] = s[i]) /\ Append(s, e)[Len(s) + 1] = e
  BY <1>2, <1>3, AppendProperties
<1>5. QED BY <1>2, <1>4, AnySeq

\* Tail.
LEMMA TailFacts ==
  ASSUME NEW s, IsSeq(s), s # <<>>
  PROVE  /\ IsSeq(Tail(s)) /\ Len(s) \in Nat \ {0} /\ DOMAIN s = 1..Len(s)
         /\ Len(Tail(s)) = Len(s) - 1 /\ DOMAIN Tail(s) = 1..(Len(s) - 1)
         /\ \A i \in 1..(Len(s) - 1) : Tail(s)[i] = s[i + 1]
<1> DEFINE S == {s[i] : i \in DOMAIN s}
<1>1. s \in Seq(S) BY DEF IsSeq
<1> HIDE DEF S
<1>2. Tail(s) \in Seq(S) /\ Len(Tail(s)) = Len(s) - 1 /\ \A i \in 1..Len(Tail(s)) : Tail(s)[i] = s[i + 1]
  BY <1>1, HeadTailProperties
<1>3. Len(s) \in Nat \ {0} BY <1>1, EmptySeq
<1>4. QED BY <1>1, <1>2, <1>3, AnySeq

\* The replacement of one element.
LEMMA ExceptFacts ==
  ASSUME NEW s, IsSeq(s), NEW k \in 1..Len(s), NEW e
  PROVE  LET t == [s EXCEPT ![k] = e]
         IN  /\ IsSeq(t) /\ Len(s) \in Nat /\ DOMAIN s = 1..Len(s)
             /\ Len(t) = Len(s) /\ DOMAIN t = 1..Len(s)
             /\ \A i \in 1..Len(s) : t[i] = IF i = k THEN e ELSE s[i]
<1> DEFINE S == {s[i] : i \in DOMAIN s}
           T == S \cup {e}
           t == [s EXCEPT ![k] = e]
<1>1. s \in Seq(S) BY DEF IsSeq
<1>2. s \in Seq(T) BY <1>1, SeqMonotonic
<1>3. e \in T OBVIOUS
<1> HIDE DEF T, S
<1>4. t \in Seq(T) /\ Len(t) = Len(s) /\ \A i \in 1..Len(s) : t[i] = IF i = k THEN e ELSE s[i]
  BY <1>2, <1>3, ExceptSeq
<1> HIDE DEF t
<1>5. IsSeq(t) /\ DOMAIN t = 1..Len(s) /\ Len(s) \in Nat /\ DOMAIN s = 1..Len(s)
  BY <1>2, <1>4, AnySeq
<1>6. QED BY <1>4, <1>5 DEF t

\* InsertAt.
LEMMA InsertFacts ==
  ASSUME NEW s, IsSeq(s), NEW k \in 1..(Len(s) + 1), NEW e
  PROVE  LET t == InsertAt(s, k, e)
         IN  /\ IsSeq(t) /\ Len(s) \in Nat /\ DOMAIN s = 1..Len(s)
             /\ Len(t) = Len(s) + 1 /\ DOMAIN t = 1..(Len(s) + 1)
             /\ \A i \in 1..(Len(s) + 1) : t[i] = IF i < k THEN s[i] ELSE IF i = k THEN e ELSE s[i - 1]
<1> DEFINE S == {s[i] : i \in DOMAIN s}
           T == S \cup {e}
           a == SubSeq(s, 1, k - 1)
           b == <<e>>
           c == SubSeq(s, k, Len(s))
           t == (a \o b) \o c
<1>1. s \in Seq(S) BY DEF IsSeq
<1>2. Len(s) \in Nat /\ DOMAIN s = 1..Len(s) BY <1>1, AnySeq
<1>3. \A i \in 1..Len(s) : s[i] \in T BY <1>2
<1>4. b \in Seq(T) /\ Len(b) = 1 /\ b[1] = e OBVIOUS
<1>5. a \in Seq(T) /\ Len(a) = k - 1 /\ \A i \in 1..(k - 1) : a[i] = s[i]
  <2> HIDE DEF T
  <2>1. \A i \in 1..(k - 1) : s[i] \in T BY <1>2, <1>3
  <2>2. a \in Seq(T) /\ Len(a) = (IF 1 <= k - 1 THEN k - 1 - 1 + 1 ELSE 0)
        /\ \A i \in 1..(k - 1 - 1 + 1) : a[i] = s[1 + i - 1]
    BY <1>2, <2>1, SubSeqProperties
  <2> HIDE DEF a
  <2>3. QED BY <2>2, <1>2
<1>6. c \in Seq(T) /\ Len(c) = Len(s) - k + 1 /\ \A i \in 1..(Len(s) - k + 1) : c[i] = s[k + i - 1]
  <2> HIDE DEF T
  <2>1. \A i \in k..Len(s) : s[i] \in T BY <1>2, <1>3
  <2>2. c \in Seq(T) /\ Len(c) = (IF k <= Len(s) THEN Len(s) - k + 1 ELSE 0)
        /\ \A i \in 1..(Len(s) - k + 1) : c[i] = s[k + i - 1]
    BY <1>2, <2>1, SubSeqProperties
  <2> HIDE DEF c
  <2>3. QED BY <2>2, <1>2
<1> HIDE DEF S, T, a, b, c
<1>7. a \o b \in Seq(T) /\ Len(a \o b) = k
      /\ \A i \in 1..k : (a \o b)[i] = IF i <= k - 1 THEN a[i] ELSE b[i - (k - 1)]
  <2>1. k \in Nat /\ Len(a) + Len(b) = k BY <1>2, <1>4, <1>5
  <2>2. a \o b \in Seq(T) /\ Len(a \o b) = Len(a) + Len(b)
        /\ \A i \in 1..(Len(a) + Len(b)) : (a \o b)[i] = IF i <= Len(a) THEN a[i] ELSE b[i - Len(a)]
    BY <1>4, <1>5, ConcatProperties
  <2>3. QED BY <2>1, <2>2, <1>5
<1> DEFINE ab == a \o b
<1>8. t = ab \o c /\ ab \in Seq(T) /\ Len(ab) = k
      /\ \A i \in 1..k : ab[i] = IF i < k THEN s[i] ELSE e
  BY <1>2, <1>4, <1>5, <1>7
<1> HIDE DEF ab, t
<1>9. t \in Seq(T) /\ Len(t) = Len(s) + 1
      /\ \A i \in 1..(Len(s) + 1) : t[i] = IF i <= k THEN ab[i] ELSE c[i - k]
  BY <1>2, <1>6, <1>8, ConcatProperties
<1>10. \A i \in 1..(Len(s) + 1) : t[i] = IF i < k THEN s[i] ELSE IF i = k THEN e ELSE s[i - 1]
  BY <1>2, <1>6, <1>8, <1>9
<1>11. IsSeq(t) /\ DOMAIN t = 1..(Len(s) + 1) BY <1>2, <1>9, AnySeq
<1>12. t = InsertAt(s, k, e) BY DEF t, a, b, c, InsertAt
<1>13. QED BY <1>2, <1>9, <1>10, <1>11, <1>12

-----------------------------------------------------------------------------
(* Lines and columns                                                         *)

\* A line starts after the last newline before the place.
LEMMA StartFacts ==
  ASSUME NEW b \in Nat
  PROVE  /\ LineStart(b) \in 0..b
         /\ LineStart(b) = 0 \/ text[LineStart(b)] = "nl"
         /\ \A j \in (LineStart(b) + 1)..b : text[j] # "nl"
<1> DEFINE S == {i \in 0..b : i = 0 \/ text[i] = "nl"}
           C == {c \in Nat : \A i \in S : i <= c}
<1>1. PICK c \in C : \A d \in C : c <= d
  <2>1. C \subseteq Nat /\ b \in C OBVIOUS
  <2> HIDE DEF C
  <2>2. QED BY <2>1, LeastExists, Zenon
<1>2. c \in Nat /\ c <= b BY <1>1
<1>3. c \in S
  <2>1. CASE c = 0 BY <2>1
  <2>2. CASE c > 0
    <3>1. c - 1 \in Nat /\ c - 1 \notin C BY <1>1, <2>2
    <3>2. PICK i \in S : ~(i <= c - 1) BY <3>1
    <3>3. i = c BY <3>2, <1>1
    <3>4. QED BY <3>2, <3>3
  <2>3. QED BY <2>1, <2>2, <1>2
<1>4. \A j \in (c + 1)..b : text[j] # "nl"
  <2> SUFFICES ASSUME NEW j \in (c + 1)..b, text[j] = "nl" PROVE FALSE OBVIOUS
  <2>1. j \in S BY <1>2
  <2>2. QED BY <2>1, <1>1, <1>2
<1>5. c \in 0..b /\ (c = 0 \/ text[c] = "nl") BY <1>3
<1> HIDE DEF S, C
<1>6. QED BY <1>4, <1>5, Zenon DEF LineStart

\* Between two places with no newline the line stays, and the row.
LEMMA SameLine ==
  ASSUME NEW a \in Nat, NEW b \in Nat, a <= b, \A j \in (a + 1)..b : text[j] # "nl"
  PROVE  LineStart(b) = LineStart(a) /\ Row(b) = Row(a)
<1>1. LineStart(b) = LineStart(a)
  <2>1. LineStart(a) \in 0..a /\ (LineStart(a) = 0 \/ text[LineStart(a)] = "nl")
        /\ \A j \in (LineStart(a) + 1)..a : text[j] # "nl"
    BY StartFacts
  <2>2. LineStart(b) \in 0..b /\ (LineStart(b) = 0 \/ text[LineStart(b)] = "nl")
        /\ \A j \in (LineStart(b) + 1)..b : text[j] # "nl"
    BY StartFacts
  <2>3. ASSUME LineStart(a) < LineStart(b) PROVE FALSE
    <3>1. LineStart(b) \in (LineStart(a) + 1)..b /\ text[LineStart(b)] = "nl" BY <2>1, <2>2, <2>3
    <3>2. LineStart(b) \in (LineStart(a) + 1)..a \/ LineStart(b) \in (a + 1)..b BY <2>1, <3>1
    <3>3. QED BY <2>1, <3>1, <3>2
  <2>4. ASSUME LineStart(b) < LineStart(a) PROVE FALSE
    <3>1. LineStart(a) \in (LineStart(b) + 1)..b /\ text[LineStart(a)] = "nl" BY <2>1, <2>2, <2>4
    <3>2. QED BY <2>2, <3>1
  <2>5. QED BY <2>1, <2>2, <2>3, <2>4
<1>2. {i \in 1..b : text[i] = "nl"} = {i \in 1..a : text[i] = "nl"} OBVIOUS
<1>3. QED BY <1>1, <1>2 DEF Row

\* Two places on the same row are on the same line.
LEMMA SameRow ==
  ASSUME NEW a \in Nat, NEW b \in Nat, a <= b, Row(a) = Row(b)
  PROVE  LineStart(b) = LineStart(a)
<1> DEFINE A == {i \in 1..a : text[i] = "nl"}
           B == {i \in 1..b : text[i] = "nl"}
<1>1. IsFiniteSet(B)
  <2>1. IsFiniteSet(1..b) BY FS_Interval
  <2>2. B \in SUBSET (1..b) OBVIOUS
  <2>3. QED BY <2>1, <2>2, FS_Subset
<1>2. A \in SUBSET B OBVIOUS
<1>3. Cardinality(B) = Cardinality(A) BY DEF Row
<1>4. B = A
  <2> HIDE DEF A, B
  <2>1. QED BY <1>1, <1>2, <1>3, FS_Subset
<1>5. \A j \in (a + 1)..b : text[j] # "nl"
  <2> SUFFICES ASSUME NEW j \in (a + 1)..b, text[j] = "nl" PROVE FALSE OBVIOUS
  <2>1. j \in B OBVIOUS
  <2>2. j \notin A OBVIOUS
  <2>3. QED BY <1>4, <2>1, <2>2
<1>6. QED BY <1>5, SameLine

Counted(P, a, b) == Cardinality({i \in (a + 1)..b : i \in P})

\* The places of a set are counted in two parts; what is counted is a number.
LEMMA CountSplit ==
  ASSUME NEW P, NEW a \in Nat, NEW b \in Nat, NEW c \in Nat, a <= b, b <= c
  PROVE  /\ Counted(P, a, c) \in Nat /\ Counted(P, a, b) \in Nat /\ Counted(P, b, c) \in Nat
         /\ Counted(P, a, c) = Counted(P, a, b) + Counted(P, b, c)
<1> DEFINE A == {i \in (a + 1)..b : i \in P}
           B == {i \in (b + 1)..c : i \in P}
           S == {i \in (a + 1)..c : i \in P}
<1>1. IsFiniteSet(A) /\ IsFiniteSet(B)
  <2>1. IsFiniteSet((a + 1)..b) /\ IsFiniteSet((b + 1)..c) BY FS_Interval
  <2>2. A \in SUBSET ((a + 1)..b) /\ B \in SUBSET ((b + 1)..c) OBVIOUS
  <2> HIDE DEF A, B
  <2>3. QED BY <2>1, <2>2, FS_Subset
<1>2. S = A \cup B /\ A \cap B = {} OBVIOUS
<1> HIDE DEF A, B, S
<1>3. Cardinality(A \cup B) = Cardinality(A) + Cardinality(B) - Cardinality(A \cap B) BY <1>1, FS_Union
<1>4. Cardinality(A \cap B) = 0 BY <1>2, FS_EmptySet
<1>5. Cardinality(A) \in Nat /\ Cardinality(B) \in Nat BY <1>1, FS_CardinalityType
<1>6. Cardinality(S) \in Nat /\ Cardinality(S) = Cardinality(A) + Cardinality(B) BY <1>2, <1>3, <1>4, <1>5
<1>7. QED BY <1>5, <1>6 DEF A, B, S, Counted

\* The units of a text are those of its parts.
LEMMA Utf16Split ==
  ASSUME NEW a \in Nat, NEW b \in Nat, NEW c \in Nat, a <= b, b <= c
  PROVE  utf16_len(a, c) = utf16_len(a, b) + utf16_len(b, c)
<1> DEFINE P == {i \in Nat : text[i] # "c"}
           Q == {i \in Nat : text[i] = "w4"}
<1>1. ASSUME NEW x \in Nat, NEW y \in Nat
      PROVE  utf16_len(x, y) = Counted(P, x, y) + Counted(Q, x, y)
  <2>1. {i \in (x + 1)..y : text[i] # "c"} = {i \in (x + 1)..y : i \in P} OBVIOUS
  <2>2. {i \in (x + 1)..y : text[i] = "w4"} = {i \in (x + 1)..y : i \in Q} OBVIOUS
  <2>3. QED BY <2>1, <2>2 DEF utf16_len, Counted
<1> HIDE DEF P, Q
<1>2. /\ Counted(P, a, b) \in Nat /\ Counted(P, b, c) \in Nat
      /\ Counted(P, a, c) = Counted(P, a, b) + Counted(P, b, c)
  BY CountSplit
<1>3. /\ Counted(Q, a, b) \in Nat /\ Counted(Q, b, c) \in Nat
      /\ Counted(Q, a, c) = Counted(Q, a, b) + Counted(Q, b, c)
  BY CountSplit
<1>4. QED BY <1>1, <1>2, <1>3

-----------------------------------------------------------------------------
(* What is true of a text, as functions of its places                        *)

Places == 0..Len(text)
Rows == [b \in Places |-> Row(b)]
Starts == [b \in Places |-> LineStart(b)]
Units == [p \in Places \X Places |-> utf16_len(p[1], p[2])]
Lines == [b \in Places |-> LineFrom(text, b, MaxLineLen)]

\* They change with the document only.
LEMMA TextStays ==
  ASSUME input' = input
  PROVE  Places' = Places /\ Rows' = Rows /\ Starts' = Starts /\ Units' = Units /\ Lines' = Lines
<1>1. Places' = Places BY DEF Places, text
<1>2. Rows' = Rows BY <1>1 DEF Rows, Row, text
<1>3. Starts' = Starts BY <1>1 DEF Starts, LineStart, text
<1>4. Units' = Units BY <1>1 DEF Units, utf16_len, text
<1>5. Lines' = Lines BY <1>1 DEF Lines, text
<1>6. QED BY <1>1, <1>2, <1>3, <1>4, <1>5

-----------------------------------------------------------------------------
(* The queue                                                                 *)

Position(tag) == Cardinality({k \in DOMAIN tag_queue : KeyLess(tag_queue[k].tag.name, tag.name)}) + 1

\* The place that is found is one of the queue, or behind it.
LEMMA PositionInQueue ==
  ASSUME IsSeq(tag_queue), NEW tag
  PROVE  Len(tag_queue) \in Nat /\ DOMAIN tag_queue = 1..Len(tag_queue)
         /\ Position(tag) \in 1..(Len(tag_queue) + 1)
<1> DEFINE B == {k \in DOMAIN tag_queue : KeyLess(tag_queue[k].tag.name, tag.name)}
           n == Len(tag_queue)
<1>1. n \in Nat /\ DOMAIN tag_queue = 1..n
  <2> DEFINE S == {tag_queue[i] : i \in DOMAIN tag_queue}
  <2>1. tag_queue \in Seq(S) BY DEF IsSeq
  <2> HIDE DEF S
  <2>2. QED BY <2>1, AnySeq
<1>3. B \in SUBSET (1..n) BY <1>1
<1> HIDE DEF B, n
<1>2. IsFiniteSet(1..n) /\ Cardinality(1..n) = n
  <2>1. n \in Int BY <1>1
  <2>2. QED BY <1>1, <2>1, FS_Interval
<1>4. IsFiniteSet(B) /\ Cardinality(B) <= n BY <1>2, <1>3, FS_Subset
<1>5. Cardinality(B) \in Nat BY <1>4, FS_CardinalityType
<1>6. Position(tag) = Cardinality(B) + 1 BY DEF Position, B
<1>7. QED BY <1>1, <1>4, <1>5, <1>6 DEF n

\* The queue afterwards, place by place.
Placed(q, tag, pattern) ==
  LET i == Position(tag)
  IN  \/ /\ i <= Len(tag_queue) /\ tag_queue[i].tag.name = tag.name
         /\ Len(q) = Len(tag_queue)
         /\ \A k \in 1..Len(tag_queue) :
              q[k] = tag_queue[k] \/ (k = i /\ q[k] = [tag |-> tag, pattern |-> pattern])
      \/ /\ i <= Len(tag_queue) => tag_queue[i].tag.name # tag.name
         /\ Len(q) = Len(tag_queue) + 1
         /\ \A k \in 1..(Len(tag_queue) + 1) :
              q[k] = IF k < i THEN tag_queue[k]
                     ELSE IF k = i THEN [tag |-> tag, pattern |-> pattern] ELSE tag_queue[k - 1]

\* The tag takes the place of the one for its node, or a place of its own.
LEMMA QueuedPlaces ==
  ASSUME IsSeq(tag_queue), NEW tag, NEW pattern
  PROVE  /\ IsSeq(Queued(tag, pattern)) /\ Len(Queued(tag, pattern)) \in Nat
         /\ DOMAIN Queued(tag, pattern) = 1..Len(Queued(tag, pattern))
         /\ Placed(Queued(tag, pattern), tag, pattern)
<1> DEFINE i == Position(tag)
           entry == [tag |-> tag, pattern |-> pattern]
           n == Len(tag_queue)
           q == Queued(tag, pattern)
<1>1. n \in Nat /\ DOMAIN tag_queue = 1..n /\ i \in 1..(n + 1) BY PositionInQueue
<1>2. q = IF i <= n /\ tag_queue[i].tag.name = tag.name
          THEN IF Prefers(pattern, tag_queue[i].pattern) THEN [tag_queue EXCEPT ![i] = entry] ELSE tag_queue
          ELSE InsertAt(tag_queue, i, entry)
  BY DEF Queued, Position
<1> HIDE DEF q
<1>3. CASE i <= n /\ tag_queue[i].tag.name = tag.name
  <2>1. CASE q = tag_queue
    <3>1. Placed(q, tag, pattern) BY <1>1, <1>3, <2>1 DEF Placed
    <3>2. QED BY <1>1, <2>1, <3>1 DEF q
  <2>2. CASE q = [tag_queue EXCEPT ![i] = entry]
    <3>1. i \in 1..n BY <1>1, <1>3
    <3> HIDE DEF i, entry
    <3>2. IsSeq(q) /\ Len(q) = n /\ DOMAIN q = 1..n /\ \A k \in 1..n : q[k] = IF k = i THEN entry ELSE tag_queue[k]
      BY <2>2, <3>1, ExceptFacts
    <3>3. \A k \in 1..n : q[k] = tag_queue[k] \/ (k = i /\ q[k] = entry) BY <3>2
    <3>4. Placed(q, tag, pattern) BY <1>1, <1>3, <3>2, <3>3 DEF Placed, i, entry
    <3>5. QED BY <1>1, <3>2, <3>4 DEF q
  <2>3. QED BY <1>2, <1>3, <2>1, <2>2
<1>4. CASE ~(i <= n /\ tag_queue[i].tag.name = tag.name)
  <2>1. q = InsertAt(tag_queue, i, entry) BY <1>2, <1>4
  <2> HIDE DEF i, entry
  <2>2. /\ IsSeq(q) /\ Len(q) = n + 1 /\ DOMAIN q = 1..(n + 1)
        /\ \A k \in 1..(n + 1) : q[k] = IF k < i THEN tag_queue[k] ELSE IF k = i THEN entry ELSE tag_queue[k - 1]
    BY <1>1, <2>1, InsertFacts
  <2>3. Placed(q, tag, pattern) BY <1>1, <1>4, <2>2 DEF Placed, i, entry
  <2>4. QED BY <1>1, <2>2, <2>3 DEF q
<1>5. QED BY <1>3, <1>4

\* Nothing else is in the queue.
LEMMA QueuedElements ==
  ASSUME IsSeq(tag_queue), NEW tag, NEW pattern, NEW q, q = Queued(tag, pattern), NEW k \in DOMAIN q
  PROVE  \/ q[k].tag = tag
         \/ \E j \in DOMAIN tag_queue : q[k] = tag_queue[j]
<1>1. Len(tag_queue) \in Nat /\ DOMAIN tag_queue = 1..Len(tag_queue)
      /\ Position(tag) \in 1..(Len(tag_queue) + 1)
  BY PositionInQueue
<1>2. DOMAIN q = 1..Len(q) /\ Placed(q, tag, pattern) BY QueuedPlaces
<1>3. [tag |-> tag, pattern |-> pattern].tag = tag OBVIOUS
<1>4. CASE Len(q) = Len(tag_queue) /\ \A m \in 1..Len(tag_queue) :
              q[m] = tag_queue[m] \/ (m = Position(tag) /\ q[m] = [tag |-> tag, pattern |-> pattern])
  BY <1>1, <1>2, <1>3, <1>4
<1>5. CASE Len(q) = Len(tag_queue) + 1 /\ \A m \in 1..(Len(tag_queue) + 1) :
              q[m] = IF m < Position(tag) THEN tag_queue[m]
                     ELSE IF m = Position(tag) THEN [tag |-> tag, pattern |-> pattern] ELSE tag_queue[m - 1]
  <2>1. CASE k < Position(tag) BY <1>1, <1>2, <1>5, <2>1
  <2>2. CASE k = Position(tag) BY <1>1, <1>2, <1>3, <1>5, <2>2
  <2>3. CASE k > Position(tag)
    <3>1. q[k] = tag_queue[k - 1] /\ k - 1 \in 1..Len(tag_queue) BY <1>1, <1>2, <1>5, <2>3
    <3>2. QED BY <1>1, <3>1
  <2>4. QED BY <1>1, <1>2, <2>1, <2>2, <2>3
<1>6. QED BY <1>2, <1>4, <1>5 DEF Placed

\* A tag's name has a start and an end.
Named(name) == name = [start |-> name.start, end |-> name.end] /\ name.start \in Nat /\ name.end \in Nat

\* Names are ordered by their keys.
LEMMA KeyOrder ==
  ASSUME NEW a, NEW b, NEW c, Named(a), Named(b), Named(c)
  PROVE  /\ KeyLess(a, b) /\ KeyLess(b, c) => KeyLess(a, c)
         /\ KeyLess(a, b) \/ a = b \/ KeyLess(b, a)
BY DEF Named, KeyLess

Sorted(q) == \A i, j \in DOMAIN q : i < j => KeyLess(q[i].tag.name, q[j].tag.name)

\* The place that is found is behind the names that come before.
LEMMA PositionSplits ==
  ASSUME IsSeq(tag_queue), Sorted(tag_queue), \A i \in DOMAIN tag_queue : Named(tag_queue[i].tag.name),
         NEW tag, Named(tag.name)
  PROVE  \A k \in 1..Len(tag_queue) : k < Position(tag) <=> KeyLess(tag_queue[k].tag.name, tag.name)
<1> DEFINE i == Position(tag)
           n == Len(tag_queue)
           N(k) == tag_queue[k].tag.name
           B == {k \in DOMAIN tag_queue : KeyLess(N(k), tag.name)}
<1>1. n \in Nat /\ DOMAIN tag_queue = 1..n /\ i \in 1..(n + 1) BY PositionInQueue
<1>3. \A k \in 1..n : Named(N(k)) BY <1>1
<1>4. \A j, k \in 1..n : j < k => KeyLess(N(j), N(k)) BY <1>1 DEF Sorted
<1>5. B = 1..(i - 1)
  <2>1. B \subseteq 1..n BY <1>1
  <2>2. ASSUME NEW k \in B, NEW j \in 1..k PROVE j \in B
    <3>1. k \in 1..n /\ j \in 1..n /\ KeyLess(N(k), tag.name) BY <1>1, <2>1
    <3>2. CASE j = k BY <3>2
    <3>3. CASE j < k
      <4>1. KeyLess(N(j), N(k)) BY <1>4, <3>1, <3>3
      <4>2. Named(N(j)) /\ Named(N(k)) BY <1>3, <3>1
      <4> HIDE DEF N
      <4>3. KeyLess(N(j), tag.name) BY <4>1, <4>2, <3>1, KeyOrder
      <4>4. QED BY <1>1, <3>1, <4>3
    <3>4. QED BY <3>1, <3>2, <3>3
  <2>3. i = Cardinality(B) + 1 BY DEF Position
  <2> HIDE DEF B, i
  <2>4. Cardinality(B) \in 0..n /\ B = 1..Cardinality(B) BY <1>1, <2>1, <2>2, Initial
  <2>5. QED BY <2>3, <2>4
<1> HIDE DEF i
<1>6. \A k \in 1..n : k < i <=> KeyLess(N(k), tag.name)
  <2> SUFFICES ASSUME NEW k \in 1..n PROVE k < i <=> k \in B BY <1>1
  <2> HIDE DEF B
  <2>1. QED BY <1>1, <1>5
<1>7. QED BY <1>6 DEF i

\* The queue stays sorted, with one tag for a node.
LEMMA QueuedSorted ==
  ASSUME IsSeq(tag_queue), Sorted(tag_queue), \A i \in DOMAIN tag_queue : Named(tag_queue[i].tag.name),
         NEW tag, Named(tag.name), NEW pattern
  PROVE  Sorted(Queued(tag, pattern))
<1> DEFINE i == Position(tag)
           n == Len(tag_queue)
           q == Queued(tag, pattern)
           N(k) == tag_queue[k].tag.name
<1>1. n \in Nat /\ DOMAIN tag_queue = 1..n /\ i \in 1..(n + 1) BY PositionInQueue
<1>2. DOMAIN q = 1..Len(q) /\ Placed(q, tag, pattern) BY QueuedPlaces
<1> SUFFICES Sorted(q) OBVIOUS
<1> HIDE DEF q
<1>3. \A k \in 1..n : Named(N(k)) BY <1>1
<1>4. \A j, k \in 1..n : j < k => KeyLess(N(j), N(k)) BY <1>1 DEF Sorted
<1>6. \A k \in 1..n : k < i <=> KeyLess(N(k), tag.name) BY PositionSplits
<1> HIDE DEF i
<1>7. [tag |-> tag, pattern |-> pattern].tag = tag OBVIOUS
<1>8. CASE /\ i <= n /\ N(i) = tag.name /\ Len(q) = n
           /\ \A k \in 1..n : q[k] = tag_queue[k] \/ (k = i /\ q[k] = [tag |-> tag, pattern |-> pattern])
  <2>1. \A k \in 1..n : q[k].tag.name = N(k) BY <1>7, <1>8
  <2> HIDE DEF N
  <2>2. QED BY <1>2, <1>4, <1>8, <2>1 DEF Sorted
<1>9. CASE /\ i <= n => N(i) # tag.name
           /\ Len(q) = n + 1
           /\ \A k \in 1..(n + 1) :
                q[k] = IF k < i THEN tag_queue[k]
                       ELSE IF k = i THEN [tag |-> tag, pattern |-> pattern] ELSE tag_queue[k - 1]
  <2> DEFINE M(k) == q[k].tag.name
  <2>1. \A k \in 1..(n + 1) : k < i => k \in 1..n /\ M(k) = N(k) BY <1>1, <1>9
  <2>2. M(i) = tag.name BY <1>1, <1>7, <1>9
  <2>3. \A k \in 1..(n + 1) : k > i => k - 1 \in 1..n /\ k - 1 >= i /\ M(k) = N(k - 1) BY <1>1, <1>9
  <2>4. i <= n => KeyLess(tag.name, N(i))
    <3> SUFFICES ASSUME i <= n PROVE KeyLess(tag.name, N(i)) OBVIOUS
    <3>1. i \in 1..n BY <1>1
    <3>2. Named(N(i)) /\ N(i) # tag.name /\ ~KeyLess(N(i), tag.name) BY <1>3, <1>6, <1>9, <3>1
    <3> HIDE DEF N
    <3>3. QED BY <3>2, KeyOrder
  <2>5. \A k \in 1..n : k >= i => KeyLess(tag.name, N(k))
    <3> SUFFICES ASSUME NEW k \in 1..n, k >= i PROVE KeyLess(tag.name, N(k)) OBVIOUS
    <3>1. i \in 1..n BY <1>1
    <3>2. KeyLess(tag.name, N(i)) BY <2>4, <3>1
    <3>3. CASE k = i BY <3>2, <3>3
    <3>4. CASE k > i
      <4>1. KeyLess(N(i), N(k)) /\ Named(N(i)) /\ Named(N(k)) BY <1>3, <1>4, <3>1, <3>4
      <4> HIDE DEF N
      <4>2. QED BY <3>2, <4>1, KeyOrder
    <3>5. QED BY <1>1, <3>3, <3>4
  <2> SUFFICES ASSUME NEW j \in 1..(n + 1), NEW k \in 1..(n + 1), j < k PROVE KeyLess(M(j), M(k))
    BY <1>2, <1>9 DEF Sorted
  <2> HIDE DEF M, N
  <2>6. CASE k < i BY <1>1, <1>4, <2>1, <2>6
  <2>7. CASE k = i BY <1>1, <1>6, <2>1, <2>2, <2>7
  <2>8. CASE k > i /\ j < i
    <3>1. M(k) = N(k - 1) /\ k - 1 \in 1..n /\ M(j) = N(j) /\ j \in 1..n /\ j < k - 1
      BY <1>1, <2>1, <2>3, <2>8
    <3>2. QED BY <1>4, <3>1
  <2>9. CASE k > i /\ j = i
    <3>1. M(k) = N(k - 1) /\ k - 1 \in 1..n /\ k - 1 >= i BY <1>1, <2>3, <2>9
    <3>2. QED BY <2>2, <2>5, <2>9, <3>1
  <2>10. CASE k > i /\ j > i
    <3>1. M(k) = N(k - 1) /\ k - 1 \in 1..n /\ M(j) = N(j - 1) /\ j - 1 \in 1..n /\ j - 1 < k - 1
      BY <1>1, <2>3, <2>10
    <3>2. QED BY <1>4, <3>1
  <2>11. QED BY <1>1, <2>6, <2>7, <2>8, <2>9, <2>10
<1>10. QED BY <1>2, <1>8, <1>9 DEF Placed, i

-----------------------------------------------------------------------------
(* What both theorems need                                                   *)

Base ==
  /\ query \in Queries /\ input \in Inputs(query)
  /\ Len(input.matches) \in Nat /\ matched \in 0..Len(input.matches)
  /\ status = "running" => config = NewConfiguration(query)
  /\ IsSeq(tag_queue) /\ IsSeq(buffer)

\* The empty sequence.
LEMMA EmptyIsSeq == IsSeq(<<>>)
BY DEF IsSeq

\* Base holds when the first call of next begins.
LEMMA BaseInit ==
  ASSUME NamesInText, TagInit
  PROVE  Base
<1>1. query \in Queries /\ input \in Inputs(query) /\ matched = 0 /\ status = "new"
      /\ tag_queue = <<>> /\ buffer = <<>>
  BY DEF TagInit
<1>2. Len(input.matches) \in Nat BY <1>1 DEF NamesInText
<1>3. QED BY <1>1, <1>2, EmptyIsSeq DEF Base

\* The name of a match that is not refused is one of its names.
LEMMA MatchName ==
  ASSUME Base, TagsMatch, ~Refused
  PROVE  /\ matched + 1 \in 1..Len(input.matches)
         /\ Match.pattern > Len(query.locals)
         /\ The(NameCapture) \in NamesOf(query, Match)
<1>1. status = "running" /\ matched < Len(input.matches) /\ Match.pattern > config.tags_pattern_index
  BY DEF TagsMatch, MatchDue
<1>2. config = NewConfiguration(query) BY <1>1 DEF Base
<1>3. /\ config.tags_pattern_index = Len(query.locals)
      /\ config.name = IndexOf(query.names, <<"name", "">>)
      /\ config.ignore = IndexOf(query.names, <<"ignore", "">>)
  BY <1>2 DEF NewConfiguration
<1>4. NameCapture # {} BY DEF Refused
<1>5. PICK c : c = (CHOOSE d \in NameCapture : TRUE) /\ c \in NameCapture BY <1>4
<1>6. The(NameCapture) = c.node BY <1>5 DEF The
<1>7. \E i \in DOMAIN Match.captures :
        Match.captures[i] = c /\ Match.captures[i].index \in {config.name, config.ignore}
  BY <1>5 DEF NameCapture, LastCapture
<1>8. c.node \in NamesOf(query, Match)
  <2>1. PICK i \in DOMAIN Match.captures :
          Match.captures[i] = c /\ Match.captures[i].index \in {config.name, config.ignore}
    BY <1>7
  <2>2. QED BY <1>3, <2>1 DEF NamesOf
<1>9. matched + 1 \in 1..Len(input.matches) BY <1>1 DEF Base
<1>10. QED BY <1>1, <1>3, <1>6, <1>8, <1>9

\* Where the name lies.
LEMMA MatchNameInText ==
  ASSUME NamesInText, Base, TagsMatch, ~Refused, NEW n, n = The(NameCapture)
  PROVE  /\ n.start \in Nat /\ n.end \in Nat /\ n.start <= n.end /\ n.end <= Len(text)
         /\ Len(text) \in Nat
<1>1. n \in NamesOf(query, input.matches[matched + 1]) /\ matched + 1 \in 1..Len(input.matches)
  BY MatchName DEF Match
<1>2. query \in Queries /\ input \in Inputs(query) BY DEF Base
<1>3. QED BY <1>1, <1>2 DEF NamesInText, text

\* The queue and the buffer stay sequences.
LEMMA BaseNext ==
  ASSUME Base, [TagNext]_tagVars
  PROVE  Base'
<1>1. CASE UNCHANGED tagVars BY <1>1 DEF Base, tagVars, IsSeq
<1>2. CASE Configure
  <2>1. UNCHANGED <<query, input, matched, tag_queue, buffer>> BY <1>2 DEF Configure
  <2>2. status' = "running" => config' = NewConfiguration(query) BY <1>2 DEF Configure
  <2>3. QED BY <2>1, <2>2 DEF Base, IsSeq, NewConfiguration
<1>3. CASE Cancel
  <2>1. UNCHANGED <<query, input, matched, tag_queue, config>> /\ status' = "cancelled" /\ buffer' = <<>>
    BY <1>3 DEF Cancel
  <2>2. IsSeq(buffer') BY <2>1, EmptyIsSeq
  <2>3. QED BY <2>1, <2>2 DEF Base, IsSeq
<1>4. CASE ReturnEarlier
  <2>1. /\ UNCHANGED <<query, input, matched, config, status>>
        /\ tag_queue' = Tail(tag_queue)
        /\ buffer' = buffer \/ buffer' = Append(buffer, tag_queue[1].tag)
        /\ tag_queue # <<>>
    BY <1>4 DEF ReturnEarlier, Earlier
  <2>2. IsSeq(tag_queue') BY <2>1, TailFacts DEF Base
  <2>3. IsSeq(buffer')
    <3>1. IsSeq(buffer) BY DEF Base
    <3>2. CASE buffer' = buffer BY <3>1, <3>2
    <3>3. CASE buffer' = Append(buffer, tag_queue[1].tag)
      <4>1. IsSeq(Append(buffer, tag_queue[1].tag)) BY <3>1, AppendFacts
      <4>2. QED BY <3>3, <4>1
    <3>4. QED BY <2>1, <3>2, <3>3
  <2>4. QED BY <2>1, <2>2, <2>3 DEF Base
<1>5. CASE LocalMatch \/ SkipMatch
  <2>1. UNCHANGED <<query, input, tag_queue, buffer, config, status>> /\ matched' = matched + 1
        /\ matched < Len(input.matches)
    BY <1>5 DEF LocalMatch, SkipMatch, TagsMatch, MatchDue
  <2>2. QED BY <2>1 DEF Base, IsSeq
<1>6. CASE TagMatch \/ IgnoreMatch
  <2>1. UNCHANGED <<query, input, buffer, config, status>> /\ matched' = matched + 1
        /\ matched < Len(input.matches)
        /\ \E t : tag_queue' = Queued(t, Match.pattern)
    BY <1>6 DEF TagMatch, IgnoreMatch, TagsMatch, MatchDue
  <2>2. IsSeq(tag_queue')
    <3>1. PICK t : tag_queue' = Queued(t, Match.pattern) BY <2>1
    <3>2. PICK pattern : pattern = Match.pattern OBVIOUS
    <3>3. IsSeq(Queued(t, pattern)) BY QueuedPlaces DEF Base
    <3>4. QED BY <3>1, <3>2, <3>3
  <2>3. QED BY <2>1, <2>2 DEF Base, IsSeq
<1>7. CASE Drain
  <2>1. CASE tag_queue = <<>>
    <3>1. UNCHANGED <<query, input, matched, config, tag_queue, buffer>> /\ status' = "finished"
      BY <1>7, <2>1 DEF Drain
    <3>2. QED BY <3>1 DEF Base, IsSeq
  <2>2. CASE tag_queue # <<>>
    <3>1. UNCHANGED <<query, input, matched, config, status>> /\ tag_queue' = Tail(tag_queue)
          /\ buffer' = Append(buffer, tag_queue[1].tag)
      BY <1>7, <2>2 DEF Drain
    <3>2. IsSeq(tag_queue') BY <2>2, <3>1, TailFacts DEF Base
    <3>3. IsSeq(buffer') BY <3>1, AppendFacts DEF Base
    <3>4. QED BY <3>1, <3>2, <3>3 DEF Base
  <2>3. QED BY <2>1, <2>2
<1>8. QED BY <1>1, <1>2, <1>3, <1>4, <1>5, <1>6, <1>7 DEF TagNext

-----------------------------------------------------------------------------
(* Lines and columns are true                                                *)

Truth == [places |-> Places, rows |-> Rows, starts |-> Starts, units |-> Units, lines |-> Lines]

\* What is known of a line, if anything is, is so of the place it was found at.
InfoOf(f, info) ==
  \/ info.row = -1
  \/ /\ info.byte \in f.places
     /\ info.row = f.rows[info.byte]
     /\ info.column = info.byte - f.starts[info.byte]
     /\ info.utf16 = f.units[<<f.starts[info.byte], info.byte>>]
     /\ info.line = f.lines[f.starts[info.byte]]

TrueOf(f, t) ==
  ~t.ignored =>
    /\ t.name.start \in f.places /\ t.name.end \in f.places
    /\ t.columns = [start |-> f.units[<<f.starts[t.name.start], t.name.start>>],
                    end |-> f.units[<<f.starts[t.name.start], t.name.end>>]]
    /\ t.line = f.lines[f.starts[t.name.start]]

LineInv ==
  /\ InfoOf(Truth, prev_line_info)
  /\ \A i \in DOMAIN tag_queue : TrueOf(Truth, tag_queue[i].tag)
  /\ \A i \in DOMAIN buffer : TrueOf(Truth, buffer[i])

\* The fields are the functions of the text.
LEMMA TruthFields ==
  /\ Truth.places = Places /\ Truth.rows = Rows /\ Truth.starts = Starts
  /\ Truth.units = Units /\ Truth.lines = Lines
BY DEF Truth

\* The functions at their places.
LEMMA TruthValues ==
  ASSUME Len(text) \in Nat, NEW b \in Places
  PROVE  /\ b \in Nat /\ Rows[b] = Row(b) /\ Row(b) \in Nat
         /\ Starts[b] = LineStart(b) /\ LineStart(b) \in 0..b /\ LineStart(b) \in Places
         /\ Lines[b] = LineFrom(text, b, MaxLineLen)
         /\ Column(b) = b - Starts[b]
         /\ \A c \in Places : Units[<<b, c>>] = utf16_len(b, c)
<1>1. b \in Nat BY DEF Places
<1>2. Rows[b] = Row(b) /\ Starts[b] = LineStart(b) /\ Lines[b] = LineFrom(text, b, MaxLineLen)
  BY DEF Rows, Starts, Lines
<1>3. LineStart(b) \in 0..b BY <1>1, StartFacts
<1>4. LineStart(b) \in Places BY <1>1, <1>3 DEF Places
<1>5. Row(b) \in Nat
  <2> DEFINE R == {i \in 1..b : text[i] = "nl"}
  <2>1. IsFiniteSet(1..b) BY <1>1, FS_Interval
  <2>2. R \in SUBSET (1..b) OBVIOUS
  <2>3. Row(b) = Cardinality(R) BY DEF Row
  <2> HIDE DEF R
  <2>4. IsFiniteSet(R) BY <2>1, <2>2, FS_Subset
  <2>5. QED BY <2>3, <2>4, FS_CardinalityType
<1>6. \A c \in Places : Units[<<b, c>>] = utf16_len(b, c) BY DEF Units
<1>7. QED BY <1>1, <1>2, <1>3, <1>4, <1>5, <1>6 DEF Column

\* Two places on the same row, in either order.
LEMMA RowDecides ==
  ASSUME NEW a \in Nat, NEW b \in Nat, Row(a) = Row(b)
  PROVE  LineStart(a) = LineStart(b)
<1>1. CASE a <= b BY <1>1, SameRow
<1>2. CASE b <= a BY <1>2, SameRow
<1>3. QED BY <1>1, <1>2

\* The line of a name, found or taken over.
LEMMA LineOfTrue ==
  ASSUME Len(text) \in Nat, NEW info, InfoOf(Truth, info), NEW name, name.start \in Places
  PROVE  LineOf(info, name) = Lines[Starts[name.start]]
<1> DEFINE s == name.start
<1>1. /\ s \in Nat /\ Rows[s] = Row(s) /\ Row(s) \in Nat /\ Starts[s] = LineStart(s)
      /\ LineStart(s) \in 0..s /\ LineStart(s) \in Places /\ Column(s) = s - Starts[s]
  BY TruthValues
<1>2. CASE info.row = Row(s)
  <2>1. info.row # -1 BY <1>1, <1>2
  <2>2. /\ info.byte \in Places /\ info.row = Rows[info.byte]
        /\ info.line = Lines[Starts[info.byte]]
    BY <2>1, TruthFields DEF InfoOf
  <2>3. info.byte \in Nat /\ Rows[info.byte] = Row(info.byte) /\ Starts[info.byte] = LineStart(info.byte)
    BY <2>2, TruthValues
  <2>4. LineStart(info.byte) = LineStart(s) BY <1>1, <1>2, <2>2, <2>3, RowDecides
  <2>5. QED BY <1>1, <1>2, <2>2, <2>3, <2>4 DEF LineOf
<1>3. CASE info.row # Row(s)
  <2>1. LineOf(info, name) = LineFrom(text, s - Column(s), MaxLineLen) BY <1>3 DEF LineOf, line_range
  <2>2. s - Column(s) = LineStart(s) BY <1>1
  <2>3. Lines[LineStart(s)] = LineFrom(text, LineStart(s), MaxLineLen) BY <1>1, TruthValues
  <2>4. QED BY <1>1, <2>1, <2>2, <2>3
<1>4. QED BY <1>2, <1>3

\* The column of a name, counted from the start of the line or from the name before.
LEMMA Utf16StartTrue ==
  ASSUME Len(text) \in Nat, NEW info, InfoOf(Truth, info), NEW name, name.start \in Places
  PROVE  Utf16Start(info, name) = utf16_len(LineStart(name.start), name.start)
<1> DEFINE s == name.start
<1>1. /\ s \in Nat /\ Rows[s] = Row(s) /\ Row(s) \in Nat /\ Starts[s] = LineStart(s)
      /\ LineStart(s) \in 0..s /\ LineStart(s) \in Places /\ Column(s) = s - Starts[s]
  BY TruthValues
<1>2. CASE Reusable(info, name)
  <2>1. info.row = Row(s) /\ info.column <= Column(s) BY <1>2 DEF Reusable
  <2>2. info.row # -1 BY <1>1, <2>1
  <2> DEFINE b == info.byte
  <2>3. /\ b \in Places /\ info.row = Rows[b] /\ info.column = b - Starts[b]
        /\ info.utf16 = Units[<<Starts[b], b>>]
    BY <2>2, TruthFields DEF InfoOf
  <2>4. /\ b \in Nat /\ Rows[b] = Row(b) /\ Starts[b] = LineStart(b) /\ LineStart(b) \in Places
        /\ LineStart(b) \in 0..b
    BY <2>3, TruthValues
  <2>5. LineStart(b) = LineStart(s) BY <1>1, <2>1, <2>3, <2>4, RowDecides
  <2>6. b <= s BY <1>1, <2>1, <2>3, <2>4, <2>5
  <2>7. info.utf16 = utf16_len(LineStart(s), b) BY <2>3, <2>4, <2>5, TruthValues
  <2>8. utf16_len(LineStart(s), s) = utf16_len(LineStart(s), b) + utf16_len(b, s)
    BY <1>1, <2>4, <2>5, <2>6, Utf16Split
  <2>9. QED BY <1>2, <2>7, <2>8 DEF Utf16Start
<1>3. CASE ~Reusable(info, name)
  <2>1. Utf16Start(info, name) = utf16_len(s - Column(s), s) BY <1>3 DEF Utf16Start
  <2>2. s - Column(s) = LineStart(s) BY <1>1
  <2>3. QED BY <2>1, <2>2
<1>4. QED BY <1>2, <1>3

\* A new tag is true, and so is what is kept of it for the next one.
LEMMA NewTagTrue ==
  ASSUME Len(text) \in Nat, NEW info, InfoOf(Truth, info), NEW name,
         name.start \in Places, name.end \in Places, name.start <= name.end,
         \A b \in (name.start + 1)..name.end : text[b] # "nl",
         NEW tag, NEW line, line = LineOf(info, name),
         NEW new, new = NewTag(name, tag, line, Utf16Start(info, name))
  PROVE  /\ TrueOf(Truth, new)
         /\ InfoOf(Truth, [row |-> Row(name.end), column |-> Column(name.end), byte |-> name.end,
                           utf16 |-> new.columns.end, line |-> line])
<1> DEFINE s == name.start
           e == name.end
           l == LineStart(name.start)
<1>1. /\ s \in Nat /\ Starts[s] = l /\ l \in 0..s /\ l \in Places
      /\ \A c \in Places : Units[<<l, c>>] = utf16_len(l, c)
  BY TruthValues
<1>2. e \in Nat /\ Starts[e] = LineStart(e) /\ Rows[e] = Row(e) /\ Column(e) = e - Starts[e] BY TruthValues
<1>3. LineStart(e) = l BY <1>1, <1>2, SameLine
<1>4. line = Lines[l] BY <1>1, LineOfTrue
<1>5. Utf16Start(info, name) = utf16_len(l, s) BY Utf16StartTrue
<1>6. utf16_len(l, e) = utf16_len(l, s) + utf16_len(s, e) BY <1>1, <1>2, Utf16Split
<1>7. /\ new.name = [start |-> s, end |-> e] /\ ~new.ignored /\ new.line = line
      /\ new.columns = [start |-> utf16_len(l, s), end |-> utf16_len(l, s) + utf16_len(s, e)]
  BY <1>5 DEF NewTag
<1>8. new.name.start = s /\ new.name.end = e BY <1>7
<1>9. new.columns = [start |-> Units[<<l, s>>], end |-> Units[<<l, e>>]] /\ new.columns.end = Units[<<l, e>>]
  BY <1>1, <1>6, <1>7
<1>10. TrueOf(Truth, new) BY <1>1, <1>4, <1>7, <1>8, <1>9, TruthFields DEF TrueOf
<1> DEFINE next == [row |-> Row(e), column |-> Column(e), byte |-> e, utf16 |-> new.columns.end, line |-> line]
<1>11. next.row = Rows[e] /\ next.column = e - Starts[e] /\ next.byte = e
       /\ next.utf16 = Units[<<Starts[e], e>>] /\ next.line = Lines[Starts[e]]
  BY <1>2, <1>3, <1>4, <1>9
<1> HIDE DEF next
<1>12. InfoOf(Truth, next) BY <1>11, TruthFields DEF InfoOf
<1>13. QED BY <1>10, <1>12 DEF next

\* LineInv holds when the first call of next begins.
LEMMA LineInit ==
  ASSUME TagInit
  PROVE  LineInv
<1>1. tag_queue = <<>> /\ buffer = <<>> /\ prev_line_info.row = -1 BY DEF TagInit, NoLine
<1>2. QED BY <1>1 DEF LineInv, InfoOf

\* The truth stays as long as the document does.
LEMMA TruthStays ==
  ASSUME input' = input
  PROVE  Truth' = Truth
BY TextStays DEF Truth

\* Each step keeps what is known true: only TagMatch adds a tag, and only it changes
\* what is kept of a line.
LEMMA LineNext ==
  ASSUME NamesInText, NamesOnOneLine, Base, LineInv, [TagNext]_tagVars
  PROVE  LineInv'
<1>0. /\ InfoOf(Truth, prev_line_info)
      /\ \A i \in DOMAIN tag_queue : TrueOf(Truth, tag_queue[i].tag)
      /\ \A i \in DOMAIN buffer : TrueOf(Truth, buffer[i])
  BY DEF LineInv
<1>1. CASE UNCHANGED <<input, tag_queue, prev_line_info, buffer>>
  <2>1. Truth' = Truth BY <1>1, TruthStays
  <2>2. QED BY <1>0, <1>1, <2>1 DEF LineInv
<1>2. CASE Cancel
  <2>1. UNCHANGED <<input, tag_queue, prev_line_info>> /\ buffer' = <<>> BY <1>2 DEF Cancel
  <2>2. Truth' = Truth BY <2>1, TruthStays
  <2>3. QED BY <1>0, <2>1, <2>2 DEF LineInv
<1>3. ASSUME tag_queue # <<>>, tag_queue' = Tail(tag_queue), UNCHANGED <<input, prev_line_info>>,
             buffer' = buffer \/ buffer' = Append(buffer, tag_queue[1].tag)
      PROVE  LineInv'
  <2>1. Truth' = Truth BY <1>3, TruthStays
  <2>2. /\ Len(tag_queue) \in Nat \ {0} /\ DOMAIN tag_queue = 1..Len(tag_queue)
        /\ DOMAIN Tail(tag_queue) = 1..(Len(tag_queue) - 1)
        /\ \A i \in 1..(Len(tag_queue) - 1) : Tail(tag_queue)[i] = tag_queue[i + 1]
    BY <1>3, TailFacts DEF Base
  <2>3. \A i \in DOMAIN tag_queue' : TrueOf(Truth, tag_queue'[i].tag)
    <3> SUFFICES ASSUME NEW i \in 1..(Len(tag_queue) - 1) PROVE TrueOf(Truth, Tail(tag_queue)[i].tag)
      BY <1>3, <2>2
    <3>1. Tail(tag_queue)[i] = tag_queue[i + 1] /\ i + 1 \in DOMAIN tag_queue BY <2>2
    <3>2. QED BY <1>0, <3>1
  <2>4. \A i \in DOMAIN buffer' : TrueOf(Truth, buffer'[i])
    <3>1. CASE buffer' = buffer BY <1>0, <3>1
    <3>2. CASE buffer' = Append(buffer, tag_queue[1].tag)
      <4>1. TrueOf(Truth, tag_queue[1].tag) BY <1>0, <2>2
      <4>2. PICK t : t = tag_queue[1].tag OBVIOUS
      <4>3. /\ Len(buffer) \in Nat /\ DOMAIN buffer = 1..Len(buffer)
            /\ DOMAIN Append(buffer, t) = 1..(Len(buffer) + 1)
            /\ \A i \in 1..Len(buffer) : Append(buffer, t)[i] = buffer[i]
            /\ Append(buffer, t)[Len(buffer) + 1] = t
        BY AppendFacts DEF Base
      <4>4. \A i \in 1..(Len(buffer) + 1) : TrueOf(Truth, Append(buffer, t)[i])
        <5> SUFFICES ASSUME NEW i \in 1..(Len(buffer) + 1) PROVE TrueOf(Truth, Append(buffer, t)[i])
          OBVIOUS
        <5>1. CASE i = Len(buffer) + 1 BY <4>1, <4>2, <4>3, <5>1
        <5>2. CASE i \in 1..Len(buffer) BY <1>0, <4>3, <5>2
        <5>3. QED BY <4>3, <5>1, <5>2
      <4>5. QED BY <3>2, <4>2, <4>3, <4>4
    <3>3. QED BY <1>3, <3>1, <3>2
  <2>5. QED BY <1>0, <1>3, <2>1, <2>3, <2>4 DEF LineInv
<1>4. CASE ReturnEarlier
  <2>1. /\ tag_queue # <<>> /\ tag_queue' = Tail(tag_queue) /\ UNCHANGED <<input, prev_line_info>>
        /\ buffer' = buffer \/ buffer' = Append(buffer, tag_queue[1].tag)
    BY <1>4 DEF ReturnEarlier, Earlier
  <2>2. QED BY <1>3, <2>1
<1>5. CASE Drain
  <2>1. CASE tag_queue = <<>>
    <3>1. UNCHANGED <<input, tag_queue, prev_line_info, buffer>> BY <1>5, <2>1 DEF Drain
    <3>2. QED BY <1>1, <3>1
  <2>2. CASE tag_queue # <<>>
    <3>1. /\ tag_queue' = Tail(tag_queue) /\ UNCHANGED <<input, prev_line_info>>
          /\ buffer' = Append(buffer, tag_queue[1].tag)
      BY <1>5, <2>2 DEF Drain
    <3>2. QED BY <1>3, <2>2, <3>1
  <2>3. QED BY <2>1, <2>2
<1>6. ASSUME NEW t, TrueOf(Truth, t), tag_queue' = Queued(t, Match.pattern), UNCHANGED <<input, buffer>>,
             InfoOf(Truth, prev_line_info')
      PROVE  LineInv'
  <2>1. Truth' = Truth BY <1>6, TruthStays
  <2>2. ASSUME NEW i \in DOMAIN tag_queue' PROVE TrueOf(Truth, tag_queue'[i].tag)
    <3>1. PICK q : q = tag_queue' OBVIOUS
    <3>2. PICK pattern : pattern = Match.pattern OBVIOUS
    <3>3. q = Queued(t, pattern) /\ i \in DOMAIN q BY <1>6, <3>1, <3>2
    <3>4. q[i].tag = t \/ \E j \in DOMAIN tag_queue : q[i] = tag_queue[j] BY <3>3, QueuedElements DEF Base
    <3>5. QED BY <1>0, <1>6, <3>1, <3>4
  <2>3. QED BY <1>0, <1>6, <2>1, <2>2 DEF LineInv
<1>7. CASE TagMatch
  <2> DEFINE name == The(NameCapture)
             tag == CHOOSE c \in TagCapture : TRUE
             line == LineOf(prev_line_info, name)
             new == NewTag(name, tag, line, Utf16Start(prev_line_info, name))
  <2>1. /\ TagsMatch /\ ~Refused /\ UNCHANGED <<input, buffer>>
        /\ tag_queue' = Queued(new, Match.pattern)
        /\ prev_line_info' = [row |-> Row(name.end), column |-> Column(name.end), byte |-> name.end,
                              utf16 |-> new.columns.end, line |-> line]
    BY <1>7 DEF TagMatch
  <2>2. /\ name.start \in Nat /\ name.end \in Nat /\ name.start <= name.end /\ name.end <= Len(text)
        /\ Len(text) \in Nat
    BY <2>1, MatchNameInText
  <2>3. name.start \in Places /\ name.end \in Places BY <2>2 DEF Places
  <2>4. \A b \in (name.start + 1)..name.end : text[b] # "nl"
    <3>1. name \in NamesOf(query, input.matches[matched + 1]) /\ matched + 1 \in 1..Len(input.matches)
      BY <2>1, MatchName DEF Match
    <3>2. query \in Queries /\ input \in Inputs(query) BY DEF Base
    <3> HIDE DEF name
    <3>3. QED BY <3>1, <3>2 DEF NamesOnOneLine, text
  <2>5. PICK n, g, l, w : n = name /\ g = tag /\ l = line /\ w = new OBVIOUS
  <2>6. l = LineOf(prev_line_info, n) /\ w = NewTag(n, g, l, Utf16Start(prev_line_info, n)) BY <2>5
  <2>7. /\ n.start \in Places /\ n.end \in Places /\ n.start <= n.end
        /\ \A b \in (n.start + 1)..n.end : text[b] # "nl"
    BY <2>2, <2>3, <2>4, <2>5
  <2>8. /\ tag_queue' = Queued(w, Match.pattern)
        /\ prev_line_info' = [row |-> Row(n.end), column |-> Column(n.end), byte |-> n.end,
                              utf16 |-> w.columns.end, line |-> l]
    BY <2>1, <2>5
  <2> HIDE DEF name, tag, line, new
  <2>9. TrueOf(Truth, w) /\ InfoOf(Truth, prev_line_info')
    BY <1>0, <2>2, <2>6, <2>7, <2>8, NewTagTrue
  <2>10. QED BY <1>6, <2>1, <2>8, <2>9
<1>8. CASE IgnoreMatch
  <2>1. /\ UNCHANGED <<input, buffer, prev_line_info>>
        /\ tag_queue' = Queued(IgnoredTag(The(NameCapture)), Match.pattern)
    BY <1>8 DEF IgnoreMatch
  <2>2. PICK t : t = IgnoredTag(The(NameCapture)) OBVIOUS
  <2>3. t.ignored BY <2>2 DEF IgnoredTag
  <2>4. TrueOf(Truth, t) BY <2>3 DEF TrueOf
  <2>5. QED BY <1>0, <1>6, <2>1, <2>2, <2>4
<1>9. CASE UNCHANGED tagVars \/ Configure \/ LocalMatch \/ SkipMatch
  BY <1>1, <1>9 DEF tagVars, Configure, LocalMatch, SkipMatch
<1>10. QED BY <1>2, <1>4, <1>5, <1>7, <1>8, <1>9 DEF TagNext

\* LinesTrue follows.
LEMMA LinesFollow ==
  ASSUME NamesInText, Base, LineInv
  PROVE  LinesTrue
<1> SUFFICES ASSUME NEW i \in Returned PROVE LineTrue(buffer[i]) BY DEF LinesTrue
<1>1. Len(text) \in Nat BY DEF Base, NamesInText, text
<1>2. PICK t : t = buffer[i] OBVIOUS
<1>3. TrueOf(Truth, t) /\ ~t.ignored BY <1>2 DEF Returned, LineInv
<1> DEFINE s == t.name.start
           e == t.name.end
<1>4. /\ s \in Places /\ e \in Places
      /\ t.columns = [start |-> Units[<<Starts[s], s>>], end |-> Units[<<Starts[s], e>>]]
      /\ t.line = Lines[Starts[s]]
  BY <1>3, TruthFields DEF TrueOf
<1>5. /\ s \in Nat /\ Starts[s] = LineStart(s) /\ LineStart(s) \in Places /\ LineStart(s) \in 0..s
      /\ Column(s) = s - LineStart(s)
  BY <1>1, <1>4, TruthValues
<1>6. /\ Lines[LineStart(s)] = LineFrom(text, LineStart(s), MaxLineLen)
      /\ \A c \in Places : Units[<<LineStart(s), c>>] = utf16_len(LineStart(s), c)
  BY <1>1, <1>5, TruthValues
<1>7. s - Column(s) = LineStart(s) BY <1>5
<1>8. t.line = line_range(text, s, Column(s), MaxLineLen) BY <1>4, <1>5, <1>6, <1>7 DEF line_range
<1>9. t.columns = [start |-> utf16_len(LineStart(s), s), end |-> utf16_len(LineStart(s), e)]
  BY <1>4, <1>5, <1>6
<1>10. LineTrue(t) BY <1>8, <1>9 DEF LineTrue
<1>11. QED BY <1>2, <1>10

\* Whatever the matches, their order and the patterns: when no name goes on in the next
\* line, each tag that is returned has the line and the columns of its own name, though
\* they were taken over from the name before it on the line.
THEOREM LinesAreTrue ==
  ASSUME NamesInText, NamesOnOneLine
  PROVE  TagSpec => []LinesTrue
<1> DEFINE Inv == Base /\ LineInv
<1>1. TagInit => Inv BY BaseInit, LineInit
<1>2. Inv /\ [TagNext]_tagVars => Inv' BY BaseNext, LineNext
<1>3. Inv => LinesTrue BY LinesFollow
<1>4. QED BY <1>1, <1>2, <1>3, PTL DEF TagSpec

-----------------------------------------------------------------------------
(* Tags are returned in order                                                *)

\* The names of the matches that were looked at.
Seen ==
  UNION {NamesOf(query, input.matches[k]) :
           k \in {j \in 1..matched : input.matches[j].pattern > Len(query.locals)}}

\* What was returned comes before what is in the queue, and as long as there are matches
\* to come a name was seen that it lies before altogether.
OrderInv ==
  /\ \A i \in DOMAIN tag_queue : \E n \in Seen : tag_queue[i].tag.name = [start |-> n.start, end |-> n.end]
  /\ Sorted(tag_queue)
  /\ \A i \in DOMAIN buffer : Named(buffer[i].name)
  /\ TagsInOrder
  /\ \A i \in DOMAIN buffer : \A j \in DOMAIN tag_queue : KeyLess(buffer[i].name, tag_queue[j].tag.name)
  /\ matched < Len(input.matches) =>
       \A i \in DOMAIN buffer : \E n \in Seen : buffer[i].name.end < n.start

\* OrderInv holds when the first call of next begins.
LEMMA OrderInit ==
  ASSUME TagInit
  PROVE  OrderInv
<1>1. tag_queue = <<>> /\ buffer = <<>> BY DEF TagInit
<1>2. QED BY <1>1 DEF OrderInv, Sorted, TagsInOrder

\* What was seen lies in the text, and no later match has a name before it.
LEMMA SeenFacts ==
  ASSUME NamesInText, MatchesInOrder, Base, NEW m \in Seen
  PROVE  /\ m.start \in Nat /\ m.end \in Nat
         /\ (matched < Len(input.matches) /\ Match.pattern > Len(query.locals)) =>
              \A n \in NamesOf(query, Match) : m.start <= n.end
<1>1. PICK k \in 1..matched : input.matches[k].pattern > Len(query.locals)
                              /\ m \in NamesOf(query, input.matches[k])
  BY DEF Seen
<1>2. query \in Queries /\ input \in Inputs(query) /\ Len(input.matches) \in Nat
      /\ matched \in 0..Len(input.matches)
  BY DEF Base
<1>3. k \in 1..Len(input.matches) BY <1>2
<1>4. m.start \in Nat /\ m.end \in Nat BY <1>1, <1>2, <1>3 DEF NamesInText
<1>5. ASSUME matched < Len(input.matches), Match.pattern > Len(query.locals), NEW n \in NamesOf(query, Match)
      PROVE  m.start <= n.end
  <2>1. PICK j : j = matched + 1 OBVIOUS
  <2>2. j \in 1..Len(input.matches) /\ k < j BY <1>2, <1>5, <2>1
  <2>3. n \in NamesOf(query, input.matches[j]) /\ input.matches[j].pattern > Len(query.locals)
    BY <1>5, <2>1 DEF Match
  <2>4. QED BY <1>1, <1>2, <1>3, <2>2, <2>3 DEF MatchesInOrder, IsTagsMatch
<1>6. QED BY <1>4, <1>5

\* Names are not forgotten, and those of a match are added.
LEMMA SeenGrows ==
  ASSUME Base, UNCHANGED <<query, input>>, matched < Len(input.matches), matched' = matched + 1
  PROVE  /\ Seen \subseteq Seen'
         /\ Match.pattern > Len(query.locals) => NamesOf(query, Match) \subseteq Seen'
<1>1. matched \in Nat BY DEF Base
<1>2. 1..matched \subseteq 1..matched' /\ matched + 1 \in 1..matched' BY <1>1
<1>3. Seen' = UNION {NamesOf(query, input.matches[k]) :
                       k \in {j \in 1..matched' : input.matches[j].pattern > Len(query.locals)}}
  BY DEF Seen, NamesOf
<1>4. Seen \subseteq Seen' BY <1>2, <1>3 DEF Seen
<1>5. ASSUME Match.pattern > Len(query.locals) PROVE NamesOf(query, Match) \subseteq Seen'
  BY <1>2, <1>3, <1>5 DEF Match
<1>6. QED BY <1>4, <1>5

\* The first of the queue is returned, or forgotten.
LEMMA OrderShift ==
  ASSUME NamesInText, MatchesInOrder, Base, OrderInv,
         tag_queue # <<>>, tag_queue' = Tail(tag_queue), UNCHANGED <<query, input, matched>>,
         buffer' = buffer \/ buffer' = Append(buffer, tag_queue[1].tag),
         \/ matched = Len(input.matches)
         \/ Earlier
  PROVE  OrderInv'
<1> DEFINE N(k) == tag_queue[k].tag.name
           l == Len(tag_queue)
           x == tag_queue[1].tag
<1>0. /\ \A i \in DOMAIN tag_queue : \E n \in Seen : N(i) = [start |-> n.start, end |-> n.end]
      /\ \A i, j \in DOMAIN tag_queue : i < j => KeyLess(N(i), N(j))
      /\ \A i \in DOMAIN buffer : Named(buffer[i].name)
      /\ \A i, j \in DOMAIN buffer : i < j => KeyLess(buffer[i].name, buffer[j].name)
      /\ \A i \in DOMAIN buffer : \A j \in DOMAIN tag_queue : KeyLess(buffer[i].name, N(j))
      /\ matched < Len(input.matches) =>
           \A i \in DOMAIN buffer : \E n \in Seen : buffer[i].name.end < n.start
  BY DEF OrderInv, Sorted, TagsInOrder
<1>1. Seen' = Seen BY DEF Seen, NamesOf
<1>2. /\ l \in Nat \ {0} /\ DOMAIN tag_queue = 1..l /\ DOMAIN tag_queue' = 1..(l - 1)
      /\ \A i \in 1..(l - 1) : tag_queue'[i] = tag_queue[i + 1]
  BY TailFacts DEF Base
<1>3. /\ IsSeq(buffer) /\ Len(input.matches) \in Nat /\ matched \in 0..Len(input.matches)
  BY DEF Base
<1>4. Len(buffer) \in Nat /\ DOMAIN buffer = 1..Len(buffer) BY <1>3, AppendFacts
<1>5. \A i \in DOMAIN tag_queue' : i + 1 \in DOMAIN tag_queue /\ tag_queue'[i].tag.name = N(i + 1) BY <1>2
<1>6. \A i \in DOMAIN tag_queue' : \E n \in Seen : tag_queue'[i].tag.name = [start |-> n.start, end |-> n.end]
  BY <1>0, <1>5
<1>7. Sorted(tag_queue')
  <2> SUFFICES ASSUME NEW i \in 1..(l - 1), NEW j \in 1..(l - 1), i < j
               PROVE  KeyLess(tag_queue'[i].tag.name, tag_queue'[j].tag.name)
    BY <1>2 DEF Sorted
  <2>1. i + 1 < j + 1 /\ i + 1 \in DOMAIN tag_queue /\ j + 1 \in DOMAIN tag_queue BY <1>2
  <2>2. QED BY <1>0, <1>2, <1>5, <2>1
<1>8. 1 \in DOMAIN tag_queue BY <1>2
<1>9. \A j \in DOMAIN tag_queue' : KeyLess(x.name, tag_queue'[j].tag.name)
  <2> SUFFICES ASSUME NEW j \in 1..(l - 1) PROVE KeyLess(x.name, tag_queue'[j].tag.name) BY <1>2
  <2>1. 1 < j + 1 /\ j + 1 \in DOMAIN tag_queue BY <1>2
  <2>2. QED BY <1>0, <1>2, <1>5, <1>8, <2>1
<1>10. Named(x.name)
  <2>1. PICK n \in Seen : N(1) = [start |-> n.start, end |-> n.end] BY <1>0, <1>8
  <2>2. n.start \in Nat /\ n.end \in Nat BY SeenFacts
  <2>3. QED BY <2>1, <2>2 DEF Named
<1>11. matched < Len(input.matches) => \E n \in Seen : x.name.end < n.start
  <2> SUFFICES ASSUME matched < Len(input.matches) PROVE \E n \in Seen : x.name.end < n.start OBVIOUS
  <2>1. x.name.end < N(l).start BY <1>3 DEF Earlier, Last
  <2>2. l \in DOMAIN tag_queue BY <1>2
  <2>3. PICK n \in Seen : N(l) = [start |-> n.start, end |-> n.end] BY <1>0, <2>2
  <2>4. N(l).start = n.start BY <2>3
  <2>5. QED BY <2>1, <2>4
<1> HIDE DEF N, x
<1>12. CASE buffer' = buffer
  <2>1. \A i \in DOMAIN buffer' : \A j \in DOMAIN tag_queue' : KeyLess(buffer'[i].name, tag_queue'[j].tag.name)
    BY <1>0, <1>5, <1>12
  <2>2. TagsInOrder' BY <1>0, <1>12 DEF TagsInOrder
  <2>3. QED BY <1>0, <1>1, <1>6, <1>7, <1>12, <2>1, <2>2 DEF OrderInv
<1>13. CASE buffer' = Append(buffer, x)
  <2>1. /\ DOMAIN buffer' = 1..(Len(buffer) + 1) /\ buffer'[Len(buffer) + 1] = x
        /\ \A i \in 1..Len(buffer) : buffer'[i] = buffer[i]
    BY <1>3, <1>13, AppendFacts
  <2>2. \A i \in 1..(Len(buffer) + 1) : i \in 1..Len(buffer) \/ i = Len(buffer) + 1 BY <1>4
  <2>3. \A i \in DOMAIN buffer' : Named(buffer'[i].name) BY <1>0, <1>4, <1>10, <2>1, <2>2
  <2>4. \A i \in DOMAIN buffer' : \A j \in DOMAIN tag_queue' : KeyLess(buffer'[i].name, tag_queue'[j].tag.name)
    <3> SUFFICES ASSUME NEW i \in 1..(Len(buffer) + 1), NEW j \in DOMAIN tag_queue'
                 PROVE  KeyLess(buffer'[i].name, tag_queue'[j].tag.name)
      BY <2>1
    <3>1. CASE i \in 1..Len(buffer) BY <1>0, <1>4, <1>5, <2>1, <3>1
    <3>2. CASE i = Len(buffer) + 1 BY <1>9, <2>1, <3>2
    <3>3. QED BY <2>2, <3>1, <3>2
  <2>5. matched' < Len(input.matches)' =>
          \A i \in DOMAIN buffer' : \E n \in Seen : buffer'[i].name.end < n.start
    BY <1>0, <1>4, <1>11, <2>1, <2>2
  <2>6. TagsInOrder'
    <3> SUFFICES ASSUME NEW i \in 1..(Len(buffer) + 1), NEW j \in 1..(Len(buffer) + 1), i < j
                 PROVE  KeyLess(buffer'[i].name, buffer'[j].name)
      BY <2>1 DEF TagsInOrder
    <3>1. i \in 1..Len(buffer) BY <1>4
    <3>2. CASE j \in 1..Len(buffer) BY <1>0, <1>4, <2>1, <3>1, <3>2
    <3>3. CASE j = Len(buffer) + 1 BY <1>0, <1>4, <1>8, <2>1, <3>1, <3>3 DEF N, x
    <3>4. QED BY <2>2, <3>2, <3>3
  <2>7. QED BY <1>1, <1>6, <1>7, <2>3, <2>4, <2>5, <2>6 DEF OrderInv
<1>14. QED BY <1>12, <1>13 DEF x

\* A tag or a placeholder is queued for the name of the match.
LEMMA OrderQueue ==
  ASSUME NamesInText, MatchesInOrder, Base, OrderInv, TagsMatch, ~Refused,
         NEW t, t.name = [start |-> The(NameCapture).start, end |-> The(NameCapture).end],
         tag_queue' = Queued(t, Match.pattern), UNCHANGED <<query, input, buffer>>, matched' = matched + 1
  PROVE  OrderInv'
<1>1. PICK n : n = The(NameCapture) OBVIOUS
<1>2. PICK pattern : pattern = Match.pattern OBVIOUS
<1>3. PICK q : q = Queued(t, pattern) OBVIOUS
<1>4. tag_queue' = q BY <1>2, <1>3
<1>5. /\ n \in NamesOf(query, Match) /\ Match.pattern > Len(query.locals) BY <1>1, MatchName
<1>6. n.start \in Nat /\ n.end \in Nat BY <1>1, MatchNameInText
<1>7. t.name = [start |-> n.start, end |-> n.end] /\ t.name.start = n.start /\ t.name.end = n.end BY <1>1
<1>8. Named(t.name) BY <1>6, <1>7 DEF Named
<1>9. matched < Len(input.matches) BY DEF TagsMatch, MatchDue
<1>10. Seen \subseteq Seen' /\ n \in Seen' BY <1>5, <1>9, SeenGrows
<1>11. /\ \A i \in DOMAIN tag_queue : \E m \in Seen : tag_queue[i].tag.name = [start |-> m.start, end |-> m.end]
       /\ Sorted(tag_queue)
       /\ \A i \in DOMAIN buffer : Named(buffer[i].name)
       /\ TagsInOrder
       /\ \A i \in DOMAIN buffer : \A j \in DOMAIN tag_queue : KeyLess(buffer[i].name, tag_queue[j].tag.name)
       /\ \A i \in DOMAIN buffer : \E m \in Seen : buffer[i].name.end < m.start
  BY <1>9 DEF OrderInv
<1>12. \A k \in DOMAIN q : q[k].tag = t \/ \E j \in DOMAIN tag_queue : q[k] = tag_queue[j]
  BY <1>3, QueuedElements DEF Base
<1>13. \A i \in DOMAIN q : \E m \in Seen' : q[i].tag.name = [start |-> m.start, end |-> m.end]
  BY <1>7, <1>10, <1>11, <1>12
<1>14. Sorted(q)
  <2>1. \A i \in DOMAIN tag_queue : Named(tag_queue[i].tag.name)
    <3> SUFFICES ASSUME NEW i \in DOMAIN tag_queue PROVE Named(tag_queue[i].tag.name) OBVIOUS
    <3>1. PICK m \in Seen : tag_queue[i].tag.name = [start |-> m.start, end |-> m.end] BY <1>11
    <3>2. m.start \in Nat /\ m.end \in Nat BY SeenFacts
    <3>3. QED BY <3>1, <3>2 DEF Named
  <2>2. IsSeq(tag_queue) BY DEF Base
  <2>3. QED BY <1>3, <1>8, <1>11, <2>1, <2>2, QueuedSorted
<1>15. ASSUME NEW i \in DOMAIN buffer PROVE KeyLess(buffer[i].name, t.name)
  <2>1. PICK m \in Seen : buffer[i].name.end < m.start BY <1>11
  <2>2. m.start \in Nat /\ m.start <= n.end BY <1>5, <1>9, SeenFacts
  <2>3. buffer[i].name.end \in Nat BY <1>11 DEF Named
  <2>4. buffer[i].name.end < t.name.end BY <1>6, <1>7, <2>1, <2>2, <2>3
  <2>5. QED BY <2>4 DEF KeyLess
<1>16. \A i \in DOMAIN buffer : \A j \in DOMAIN q : KeyLess(buffer[i].name, q[j].tag.name)
  BY <1>11, <1>12, <1>15
<1>17. \A i \in DOMAIN buffer : \E m \in Seen' : buffer[i].name.end < m.start BY <1>10, <1>11
<1>18. TagsInOrder' BY <1>11 DEF TagsInOrder
<1>19. QED BY <1>4, <1>11, <1>13, <1>14, <1>16, <1>17, <1>18 DEF OrderInv

\* Each step keeps the order.
LEMMA OrderNext ==
  ASSUME NamesInText, MatchesInOrder, Base, OrderInv, [TagNext]_tagVars
  PROVE  OrderInv'
<1>1. CASE UNCHANGED <<query, input, matched, tag_queue, buffer>>
  <2>1. Seen' = Seen BY <1>1 DEF Seen, NamesOf
  <2>2. QED BY <1>1, <2>1 DEF OrderInv, Sorted, TagsInOrder
<1>2. CASE Cancel
  <2>1. UNCHANGED <<query, input, matched, tag_queue>> /\ buffer' = <<>> BY <1>2 DEF Cancel
  <2>2. Seen' = Seen BY <2>1 DEF Seen, NamesOf
  <2>3. QED BY <2>1, <2>2 DEF OrderInv, Sorted, TagsInOrder
<1>3. CASE ReturnEarlier
  <2>1. /\ UNCHANGED <<query, input, matched>> /\ Earlier /\ tag_queue # <<>>
        /\ tag_queue' = Tail(tag_queue)
        /\ buffer' = buffer \/ buffer' = Append(buffer, tag_queue[1].tag)
    BY <1>3 DEF ReturnEarlier, Earlier
  <2>2. QED BY <2>1, OrderShift
<1>4. CASE Drain
  <2>1. CASE tag_queue = <<>>
    <3>1. UNCHANGED <<query, input, matched, tag_queue, buffer>> BY <1>4, <2>1 DEF Drain
    <3>2. QED BY <1>1, <3>1
  <2>2. CASE tag_queue # <<>>
    <3>1. /\ UNCHANGED <<query, input, matched>> /\ matched = Len(input.matches)
          /\ tag_queue' = Tail(tag_queue) /\ buffer' = Append(buffer, tag_queue[1].tag)
      BY <1>4, <2>2 DEF Drain
    <3>2. QED BY <2>2, <3>1, OrderShift
  <2>3. QED BY <2>1, <2>2
<1>5. CASE LocalMatch \/ SkipMatch
  <2>1. /\ UNCHANGED <<query, input, tag_queue, buffer>> /\ matched' = matched + 1
        /\ matched < Len(input.matches)
    BY <1>5 DEF LocalMatch, SkipMatch, TagsMatch, MatchDue
  <2>2. Seen \subseteq Seen' BY <2>1, SeenGrows
  <2>3. QED BY <2>1, <2>2 DEF OrderInv, Sorted, TagsInOrder
<1>6. CASE TagMatch
  <2> DEFINE name == The(NameCapture)
             tag == CHOOSE c \in TagCapture : TRUE
             line == LineOf(prev_line_info, name)
  <2>1. PICK t : t = NewTag(name, tag, line, Utf16Start(prev_line_info, name)) OBVIOUS
  <2>2. /\ TagsMatch /\ ~Refused /\ UNCHANGED <<query, input, buffer>>
        /\ tag_queue' = Queued(t, Match.pattern) /\ matched' = matched + 1
    BY <1>6, <2>1 DEF TagMatch
  <2>3. t.name = [start |-> name.start, end |-> name.end] BY <2>1 DEF NewTag
  <2>4. QED BY <2>2, <2>3, OrderQueue
<1>7. CASE IgnoreMatch
  <2>1. PICK t : t = IgnoredTag(The(NameCapture)) OBVIOUS
  <2>2. /\ TagsMatch /\ ~Refused /\ UNCHANGED <<query, input, buffer>>
        /\ tag_queue' = Queued(t, Match.pattern) /\ matched' = matched + 1
    BY <1>7, <2>1 DEF IgnoreMatch
  <2>3. t.name = [start |-> The(NameCapture).start, end |-> The(NameCapture).end]
    BY <2>1 DEF IgnoredTag
  <2>4. QED BY <2>2, <2>3, OrderQueue
<1>8. CASE UNCHANGED tagVars \/ Configure BY <1>1, <1>8 DEF tagVars, Configure
<1>9. QED BY <1>2, <1>3, <1>4, <1>5, <1>6, <1>7, <1>8 DEF TagNext

\* Whatever the patterns: when no match has a name that ends before the name of an
\* earlier match starts, the tags come in the order of the document and no node has two,
\* though they leave the queue while there are matches to come.
THEOREM TagsComeInOrder ==
  ASSUME NamesInText, MatchesInOrder
  PROVE  TagSpec => []TagsInOrder
<1> DEFINE Inv == Base /\ OrderInv
<1>1. TagInit => Inv BY BaseInit, OrderInit
<1>2. Inv /\ [TagNext]_tagVars => Inv' BY BaseNext, OrderNext
<1>3. Inv => TagsInOrder BY DEF OrderInv
<1>4. QED BY <1>1, <1>2, <1>3, PTL DEF TagSpec


-----------------------------------------------------------------------------
(* Scopes                                                                    *)

\* The greatest of some positions.
LEMMA GreatestIn ==
  ASSUME NEW n \in Nat, NEW S, S \subseteq 1..n, S # {}
  PROVE  Max(S) \in S /\ \A y \in S : Max(S) >= y
<1> DEFINE T == {n - x : x \in S}
<1>1. T \subseteq Nat /\ T # {}
  <2>1. \A x \in S : n - x \in Nat OBVIOUS
  <2>2. QED BY <2>1
<1>2. PICK t \in T : \A u \in T : t <= u
  <2> HIDE DEF T
  <2>1. QED BY <1>1, LeastExists
<1>3. PICK x \in S : t = n - x BY <1>2
<1>4. \A y \in S : x >= y
  <2> SUFFICES ASSUME NEW y \in S PROVE x >= y OBVIOUS
  <2>1. n - y \in T OBVIOUS
  <2>2. t <= n - y BY <1>2, <2>1
  <2>3. QED BY <1>3, <2>2
<1>5. QED BY <1>4, Zenon DEF Max

\* The least of some positions.
LEMMA LeastIn ==
  ASSUME NEW S, S \subseteq Nat, S # {}
  PROVE  Min(S) \in S /\ \A y \in S : Min(S) <= y
<1>1. \E x \in S : \A y \in S : x <= y BY LeastExists
<1>2. QED BY <1>1, Zenon DEF Min

\* The index of a capture name is where that name stands.
LEMMA IndexFacts ==
  ASSUME NEW names, IsSeq(names), \A i, j \in DOMAIN names : names[i] = names[j] => i = j,
         NEW i \in DOMAIN names, NEW name
  PROVE  i = IndexOf(names, name) <=> names[i] = name
<1> DEFINE I == {k \in 1..Len(names) : names[k] = name}
<1>1. DOMAIN names = 1..Len(names) /\ Len(names) \in Nat BY AppendFacts
<1>2. IndexOf(names, name) = IF I # {} THEN Min(I) ELSE 0 BY DEF IndexOf, SelectInSeq
<1>3. i \in 1..Len(names) BY <1>1
<1>4. I \subseteq Nat OBVIOUS
<1>5. CASE I = {}
  <2>1. names[i] # name BY <1>3, <1>5
  <2>2. QED BY <1>2, <1>3, <1>5, <2>1
<1>6. CASE I # {}
  <2>1. Min(I) \in I
    <3> HIDE DEF I
    <3>1. QED BY <1>4, <1>6, LeastIn
  <2>2. Min(I) \in DOMAIN names /\ names[Min(I)] = name BY <1>1, <2>1
  <2>3. IndexOf(names, name) = Min(I) BY <1>2, <1>6
  <2> HIDE DEF I
  <2>4. QED BY <2>2, <2>3
<1>7. QED BY <1>5, <1>6

\* A fold over one capture.
LEMMA FoldOne ==
  ASSUME NEW ss, NEW cs, DOMAIN cs = {1}
  PROVE  FoldLeft(AddLocal, ss, cs) = AddLocal(ss, cs[1])
<1> DEFINE r == AddLocal(ss, cs[1])
           D == SUBSET {1}
           good(f) == f = [s \in D |-> IF s = {} THEN ss ELSE AddLocal(f[s \ {Max(s)}], cs[Max(s)])]
           g == [s \in D |-> IF s = {} THEN ss ELSE r]
<1>1. Max({1}) = 1 BY DEF Max
<1>2. \A s \in D : s = {} \/ s = {1} OBVIOUS
<1>3. {1} \ {1} = {} OBVIOUS
<1>4. good(g)
  <2>1. g[{}] = ss /\ {} \in D OBVIOUS
  <2>2. \A s \in D : s # {} => AddLocal(g[s \ {Max(s)}], cs[Max(s)]) = r BY <1>1, <1>2, <1>3, <2>1
  <2> HIDE DEF r
  <2>3. QED BY <2>2
<1>5. FoldLeft(AddLocal, ss, cs) = (CHOOSE f : good(f))[{1}]
  BY DEF FoldLeft, MapThenFoldSet
<1>6. PICK f : f = (CHOOSE h : good(h)) OBVIOUS
<1> HIDE DEF r, g
<1>7. good(f) BY <1>4, <1>6
<1>8. f[{}] = ss /\ f[{1}] = AddLocal(f[{1} \ {Max({1})}], cs[Max({1})])
  <2>1. {} \in D /\ {1} \in D /\ {1} # {} OBVIOUS
  <2>2. QED BY <1>7, <2>1
<1>9. QED BY <1>1, <1>3, <1>5, <1>6, <1>8 DEF r

Shape(s) == [start |-> s.start, end |-> s.end, inherits |-> s.inherits]
IsScope(s) ==
  /\ s = [start |-> s.start, end |-> s.end, inherits |-> s.inherits, defs |-> s.defs]
  /\ s.start \in Nat /\ s.end \in Nat

\* The names and the definitions of a document.
Known(q, d) ==
  UNION {NamesOf(q, d.matches[k]) \cup DefsOf(q, d.matches[k]) : k \in 1..Len(d.matches)}

\* The definitions of the j-th match that go to the i-th scope; the first is the document.
DefinedIn(q, d, j, i, s) ==
  {n \in DefsOf(q, d.matches[j]) : IF i = 1 THEN ScopeOf(q, d, j, n) = {} ELSE s \in ScopeOf(q, d, j, n)}

\* The texts that matches before the k-th define in the i-th scope.
Held(q, d, k, i, s) ==
  UNION {{TextOf(d, n) : n \in DefinedIn(q, d, j, i, s)} : j \in Before(q, d, k)}

Narrowing(q, d, ss) ==
  \A i, j \in 2..Len(ss) : i < j =>
    \A n \in Known(q, d) : Around(ss[i], n) /\ Around(ss[j], n) => Width(ss[j]) < Width(ss[i])

\* The scopes are those of the matches before the k-th, the later of two around a node the
\* narrower, each with what is defined in it.
ScopesOK(q, d, k, ss) ==
  /\ IsSeq(ss) /\ Len(ss) > 0
  /\ \A i \in 1..Len(ss) : IsScope(ss[i])
  /\ Shape(ss[1]) = [start |-> 0, end |-> Len(d.text), inherits |-> FALSE]
  /\ {Shape(ss[i]) : i \in 2..Len(ss)} = ScopesAt(q, d, k)
  /\ Narrowing(q, d, ss)
  /\ \A i \in 1..Len(ss) : ss[i].defs = Held(q, d, k, i, Shape(ss[i]))

\* The shape of a scope is around what the scope is around.
LEMMA ShapeFacts ==
  ASSUME NEW s
  PROVE  /\ Shape(s).start = s.start /\ Shape(s).end = s.end /\ Shape(s).inherits = s.inherits
         /\ Width(Shape(s)) = Width(s) /\ \A n : Around(Shape(s), n) <=> Around(s, n)
BY DEF Shape, Width, Around

\* The matches of the locals query so far, match by match.
LEMMA BeforeNext ==
  ASSUME NEW q, NEW d, NEW k \in Nat \ {0}
  PROVE  /\ IsTagsMatch(q, d.matches[k]) => Before(q, d, k + 1) = Before(q, d, k)
         /\ ~IsTagsMatch(q, d.matches[k]) => Before(q, d, k + 1) = Before(q, d, k) \cup {k}
<1>1. 1..((k + 1) - 1) = (1..(k - 1)) \cup {k} OBVIOUS
<1>2. QED BY <1>1 DEF Before

\* What is in scope so far, match by match.
LEMMA ScopesNext ==
  ASSUME NEW q, NEW d, NEW k \in Nat \ {0}, ~IsTagsMatch(q, d.matches[k])
  PROVE  ScopesAt(q, d, k + 1) = ScopesAt(q, d, k) \cup ScopesOf(q, d.matches[k])
<1>1. Before(q, d, k + 1) = Before(q, d, k) \cup {k} BY BeforeNext
<1>2. QED BY <1>1 DEF ScopesAt

\* What is defined in a scope so far, match by match.
LEMMA HeldNext ==
  ASSUME NEW q, NEW d, NEW k \in Nat \ {0}, ~IsTagsMatch(q, d.matches[k]), NEW next, next = k + 1, NEW i, NEW s
  PROVE  Held(q, d, next, i, s) = Held(q, d, k, i, s) \cup {TextOf(d, n) : n \in DefinedIn(q, d, k, i, s)}
<1>1. Before(q, d, next) = Before(q, d, k) \cup {k} BY BeforeNext
<1>2. QED BY <1>1, Zenon DEF Held

\* A match without a definition adds nothing.
LEMMA HeldSame ==
  ASSUME NEW q, NEW d, NEW k \in Nat \ {0}, ~IsTagsMatch(q, d.matches[k]), NEW next, next = k + 1, NEW i, NEW s,
         DefsOf(q, d.matches[k]) = {}
  PROVE  Held(q, d, next, i, s) = Held(q, d, k, i, s)
<1>1. Held(q, d, next, i, s) = Held(q, d, k, i, s) \cup {TextOf(d, n) : n \in DefinedIn(q, d, k, i, s)} BY HeldNext
<1>2. DefinedIn(q, d, k, i, s) = {} BY DEF DefinedIn
<1>3. QED BY <1>1, <1>2

\* A match of the tags query leaves the scopes alone.
LEMMA ScopesTags ==
  ASSUME NEW q, NEW d, NEW k \in Nat \ {0}, IsTagsMatch(q, d.matches[k]), NEW ss, ScopesOK(q, d, k, ss)
  PROVE  ScopesOK(q, d, k + 1, ss)
<1>1. Before(q, d, k + 1) = Before(q, d, k) BY BeforeNext
<1>2. ScopesAt(q, d, k + 1) = ScopesAt(q, d, k) BY <1>1 DEF ScopesAt
<1>3. \A i, s : Held(q, d, k + 1, i, s) = Held(q, d, k, i, s) BY <1>1 DEF Held
<1>4. QED BY <1>2, <1>3 DEF ScopesOK

\* In the beginning there is the document.
LEMMA ScopesStart ==
  ASSUME NEW q, NEW d, Len(d.text) \in Nat, NEW ss,
         ss = <<[start |-> 0, end |-> Len(d.text), inherits |-> FALSE, defs |-> {}]>>
  PROVE  ScopesOK(q, d, 1, ss)
<1>1. Before(q, d, 1) = {} BY DEF Before
<1>2. ScopesAt(q, d, 1) = {} /\ \A i, s : Held(q, d, 1, i, s) = {} BY <1>1 DEF ScopesAt, Held
<1>3. Len(ss) = 1 /\ DOMAIN ss = 1..1 /\ ss[1] = [start |-> 0, end |-> Len(d.text), inherits |-> FALSE, defs |-> {}]
  OBVIOUS
<1>4. 2..1 = {} /\ 1..1 = {1} OBVIOUS
<1>5. IsSeq(ss)
  <2>1. ss[1] \in {ss[i] : i \in DOMAIN ss} BY <1>3, <1>4
  <2> DEFINE S == {ss[i] : i \in DOMAIN ss}
  <2>2. ss = <<ss[1]>> BY <1>3
  <2>3. \A x \in S : <<x>> \in Seq(S)
    <3> HIDE DEF S
    <3>1. QED OBVIOUS
  <2>4. QED BY <2>1, <2>2, <2>3 DEF IsSeq
<1> HIDE DEF Shape
<1>6. {Shape(ss[i]) : i \in 2..Len(ss)} = {} /\ Narrowing(q, d, ss) BY <1>3, <1>4 DEF Narrowing
<1>7. Shape(ss[1]) = [start |-> 0, end |-> Len(d.text), inherits |-> FALSE] /\ ss[1].defs = {}
      /\ ss[1].start = 0 /\ ss[1].end = Len(d.text)
  BY <1>3 DEF Shape
<1>8. \A i \in 1..Len(ss) : ss[i].defs = Held(q, d, 1, i, Shape(ss[i]))
  <2>1. \A i \in 1..Len(ss) : Held(q, d, 1, i, Shape(ss[i])) = {} BY <1>1 DEF Held
  <2>2. QED BY <1>3, <1>4, <1>7, <2>1
<1>9. \A i \in 1..Len(ss) : IsScope(ss[i])
  <2>1. PICK x : x = ss[1] OBVIOUS
  <2>2. x = [start |-> 0, end |-> Len(d.text), inherits |-> FALSE, defs |-> {}] BY <1>3, <2>1
  <2>3. x = [start |-> x.start, end |-> x.end, inherits |-> x.inherits, defs |-> x.defs] BY <2>2
  <2>4. x.start \in Nat /\ x.end \in Nat BY <2>2
  <2>5. IsScope(x) BY <2>3, <2>4 DEF IsScope
  <2>6. QED BY <1>3, <1>4, <2>1, <2>5
<1>10. {Shape(ss[i]) : i \in 2..Len(ss)} = ScopesAt(q, d, 1) BY <1>2, <1>6
<1>11. Len(ss) > 0 BY <1>3
<1>12. QED BY <1>5, <1>6, <1>7, <1>8, <1>9, <1>10, <1>11, Zenon DEF ScopesOK

\* The scope of a definition is the last one around it.
LEMMA Innermost ==
  ASSUME NEW q, NEW d, NEW k, NEW ss, ScopesOK(q, d, k, ss), NEW n \in Known(q, d),
         NEW i \in 1..Len(ss), Around(ss[i], n), \A j \in 1..Len(ss) : Around(ss[j], n) => j <= i
  PROVE  ScopeOf(q, d, k, n) = IF i = 1 THEN {} ELSE {Shape(ss[i])}
<1> DEFINE l == Len(ss)
<1>0. l \in Nat BY AppendFacts DEF ScopesOK
<1>1. \A s : s \in ScopesAt(q, d, k) <=> \E j \in 2..l : s = Shape(ss[j]) BY DEF ScopesOK
<1>2. \A j \in 2..l : j \in 1..l OBVIOUS
<1>3. \A j \in 1..l : Width(ss[j]) \in Int
  <2>1. \A j \in 1..l : IsScope(ss[j]) BY DEF ScopesOK
  <2>2. \A j \in 1..l : ss[j].start \in Nat /\ ss[j].end \in Nat BY <2>1 DEF IsScope
  <2>3. QED BY <2>2 DEF Width
<1>4. ASSUME NEW s \in ScopeOf(q, d, k, n) PROVE i # 1 /\ s = Shape(ss[i])
  <2>1. s \in ScopesAt(q, d, k) /\ Around(s, n)
        /\ \A t \in ScopesAt(q, d, k) : Around(t, n) => Width(s) <= Width(t)
    BY <1>4 DEF ScopeOf
  <2>2. PICK j \in 2..l : s = Shape(ss[j]) BY <1>1, <2>1
  <2>3. Around(ss[j], n) /\ Width(s) = Width(ss[j]) BY <2>1, <2>2, ShapeFacts
  <2>4. j <= i BY <1>2, <2>3
  <2>5. i \in 2..l BY <2>4
  <2>6. CASE j = i BY <2>2, <2>4, <2>6
  <2>7. CASE j < i
    <3>1. Width(ss[i]) < Width(ss[j]) BY <2>3, <2>5, <2>7 DEF ScopesOK, Narrowing
    <3>2. Shape(ss[i]) \in ScopesAt(q, d, k) BY <1>1, <2>5
    <3>3. Width(s) <= Width(Shape(ss[i])) BY <2>1, <3>2, ShapeFacts
    <3>4. Width(ss[j]) <= Width(ss[i]) BY <2>3, <3>3, ShapeFacts
    <3>5. QED BY <1>2, <1>3, <3>1, <3>4
  <2>8. QED BY <2>4, <2>6, <2>7
<1>5. ASSUME i # 1 PROVE Shape(ss[i]) \in ScopeOf(q, d, k, n)
  <2>1. i \in 2..l BY <1>0, <1>5
  <2>2. Shape(ss[i]) \in ScopesAt(q, d, k) /\ Around(Shape(ss[i]), n) BY <1>1, <2>1, ShapeFacts
  <2>3. ASSUME NEW t \in ScopesAt(q, d, k), Around(t, n) PROVE Width(Shape(ss[i])) <= Width(t)
    <3>1. PICK j \in 2..l : t = Shape(ss[j]) BY <1>1
    <3>2. Around(ss[j], n) /\ Width(t) = Width(ss[j]) /\ Width(Shape(ss[i])) = Width(ss[i])
      BY <2>3, <3>1, ShapeFacts
    <3>3. j <= i BY <1>2, <3>2
    <3>4. CASE j = i BY <1>2, <1>3, <3>2, <3>4
    <3>5. CASE j < i
      <4>1. Width(ss[i]) < Width(ss[j]) BY <2>1, <3>2, <3>5 DEF ScopesOK, Narrowing
      <4>2. QED BY <1>2, <1>3, <3>2, <4>1
    <3>6. QED BY <3>3, <3>4, <3>5
  <2>4. QED BY <2>2, <2>3 DEF ScopeOf
<1>6. CASE i = 1
  <2>1. ScopeOf(q, d, k, n) = {} BY <1>4, <1>6
  <2>2. QED BY <1>6, <2>1
<1>7. CASE i # 1
  <2>1. ScopeOf(q, d, k, n) = {Shape(ss[i])} BY <1>4, <1>5, <1>7
  <2>2. QED BY <1>7, <2>1
<1>8. QED BY <1>6, <1>7

\* A scope is entered.
LEMMA ScopesPush ==
  ASSUME ScopesNest, NEW q \in Queries, NEW d \in Inputs(q), NEW k \in Nat \ {0}, k <= Len(d.matches), Len(d.matches) \in Nat,
         ~IsTagsMatch(q, d.matches[k]), NEW ss, ScopesOK(q, d, k, ss), NEW s, IsScope(s), s.defs = {},
         ScopesOf(q, d.matches[k]) = {Shape(s)}, DefsOf(q, d.matches[k]) = {}
  PROVE  ScopesOK(q, d, k + 1, Append(ss, s))
<1>0. PICK l : l = Len(ss) OBVIOUS
<1>1. PICK r : r = Append(ss, s) OBVIOUS
<1>2. /\ IsSeq(r) /\ l \in Nat /\ l > 0 /\ Len(r) = l + 1
      /\ \A i \in 1..l : r[i] = ss[i]
      /\ r[l + 1] = s
  BY <1>0, <1>1, AppendFacts DEF ScopesOK
<1>3. \A i \in 1..(l + 1) : i \in 1..l \/ i = l + 1 BY <1>2
<1>4. \A x : x \in ScopesAt(q, d, k) <=> \E j \in 2..l : x = Shape(ss[j]) BY <1>0 DEF ScopesOK
<1> DEFINE A == {Shape(r[i]) : i \in 2..Len(r)}
<1>41. k \in 1..Len(d.matches) OBVIOUS
<1>5. ScopesAt(q, d, k + 1) = ScopesAt(q, d, k) \cup {Shape(s)} BY ScopesNext
<1>6. A = ScopesAt(q, d, k + 1)
  <2>1. \A i \in 2..(l + 1) : (i \in 2..l /\ i \in 1..l) \/ i = l + 1 BY <1>2
  <2>2. l + 1 \in 2..(l + 1) /\ \A i \in 2..l : i \in 2..(l + 1) /\ i \in 1..l BY <1>2
  <2>3. ASSUME NEW x \in A PROVE x \in ScopesAt(q, d, k) \/ x = Shape(s)
    <3>1. PICK i \in 2..(l + 1) : x = Shape(r[i]) BY <1>2
    <3>2. CASE i \in 2..l /\ i \in 1..l
      <4>1. x = Shape(ss[i]) BY <1>2, <3>1, <3>2
      <4>2. QED BY <1>4, <3>2, <4>1
    <3>3. CASE i = l + 1 BY <1>2, <3>1, <3>3
    <3>4. QED BY <2>1, <3>2, <3>3
  <2>4. ASSUME NEW x \in ScopesAt(q, d, k) PROVE x \in A
    <3>1. PICK i \in 2..l : x = Shape(ss[i]) BY <1>4
    <3>2. i \in 2..Len(r) /\ r[i] = ss[i] BY <1>2, <2>2
    <3>3. QED BY <3>1, <3>2
  <2>5. Shape(s) \in A BY <1>2, <2>2
  <2> HIDE DEF A
  <2>6. QED BY <1>5, <2>3, <2>4, <2>5
<1>7. ASSUME NEW x, NEW j \in Before(q, d, k), x \in ScopesOf(q, d.matches[j]), NEW n \in Known(q, d),
             Around(x, n), Around(Shape(s), n)
      PROVE  Width(Shape(s)) < Width(x)
  <2>1. PICK i \in 1..Len(d.matches) : n \in NamesOf(q, d.matches[i]) \cup DefsOf(q, d.matches[i])
    BY DEF Known
  <2>2. Shape(s) \in ScopesOf(q, d.matches[k]) OBVIOUS
  <2>3. QED BY <1>41, <1>7, <2>1, <2>2 DEF ScopesNest
<1>8. Narrowing(q, d, r)
  <2> SUFFICES ASSUME NEW i \in 2..(l + 1), NEW j \in 2..(l + 1), i < j, NEW n \in Known(q, d),
                      Around(r[i], n), Around(r[j], n)
               PROVE  Width(r[j]) < Width(r[i])
    BY <1>2 DEF Narrowing
  <2>1. i \in 2..l /\ r[i] = ss[i] BY <1>2
  <2>2. CASE j \in 2..l
    <3>1. r[j] = ss[j] BY <1>2, <2>2
    <3>2. QED BY <1>0, <2>1, <2>2, <3>1 DEF ScopesOK, Narrowing
  <2>3. CASE j = l + 1
    <3>1. Shape(ss[i]) \in ScopesAt(q, d, k) BY <1>4, <2>1
    <3>2. PICK m \in Before(q, d, k) : Shape(ss[i]) \in ScopesOf(q, d.matches[m]) BY <3>1 DEF ScopesAt
    <3>3. r[j] = s BY <1>2, <2>3
    <3>4. Around(Shape(ss[i]), n) /\ Around(Shape(s), n) BY <2>1, <3>3, ShapeFacts
    <3>5. Width(Shape(s)) < Width(Shape(ss[i])) BY <1>7, <3>2, <3>4
    <3>6. QED BY <2>1, <3>3, <3>5, ShapeFacts
  <2>4. QED BY <1>2, <2>2, <2>3
<1>9. \A i, x : Held(q, d, k + 1, i, x) = Held(q, d, k, i, x)
  <2>1. PICK next : next = k + 1 OBVIOUS
  <2>2. \A i, x : Held(q, d, next, i, x) = Held(q, d, k, i, x) BY <2>1, HeldSame
  <2>3. QED BY <2>1, <2>2
<1>10. Held(q, d, k, l + 1, Shape(s)) = {}
  <2> SUFFICES ASSUME NEW j \in Before(q, d, k), NEW e \in DefsOf(q, d.matches[j]),
                      Shape(s) \in ScopeOf(q, d, j, e)
               PROVE  FALSE
    <3>1. l + 1 # 1 BY <1>2
    <3>2. QED BY <3>1 DEF Held, DefinedIn
  <2>1. Shape(s) \in ScopesAt(q, d, j) /\ Around(Shape(s), e) BY DEF ScopeOf
  <2>2. PICK m \in Before(q, d, j) : Shape(s) \in ScopesOf(q, d.matches[m]) BY <2>1 DEF ScopesAt
  <2>3. j \in 1..(k - 1) /\ m \in 1..(j - 1) /\ ~IsTagsMatch(q, d.matches[m]) BY <2>2 DEF Before
  <2>4. m \in Before(q, d, k) /\ j \in 1..Len(d.matches) BY <2>3 DEF Before
  <2>5. e \in Known(q, d) BY <2>4 DEF Known
  <2>6. Width(Shape(s)) < Width(Shape(s)) BY <1>7, <2>1, <2>2, <2>4, <2>5
  <2>7. Width(Shape(s)) \in Int BY ShapeFacts DEF Width, IsScope
  <2>8. QED BY <2>6, <2>7
<1>11. \A i \in 1..(l + 1) : r[i].defs = Held(q, d, k + 1, i, Shape(r[i]))
  <2> SUFFICES ASSUME NEW i \in 1..(l + 1) PROVE r[i].defs = Held(q, d, k, i, Shape(r[i])) BY <1>9
  <2>1. CASE i \in 1..l BY <1>0, <1>2, <2>1 DEF ScopesOK
  <2>2. CASE i = l + 1 BY <1>2, <1>10, <2>2
  <2>3. QED BY <1>3, <2>1, <2>2
<1>12. \A i \in 1..(l + 1) : IsScope(r[i])
  <2> SUFFICES ASSUME NEW i \in 1..(l + 1) PROVE IsScope(r[i]) OBVIOUS
  <2>1. CASE i \in 1..l BY <1>0, <1>2, <2>1 DEF ScopesOK
  <2>2. CASE i = l + 1 BY <1>2, <2>2
  <2>3. QED BY <1>3, <2>1, <2>2
<1>13. r[1] = ss[1] /\ Len(r) > 0 BY <1>2
<1>14. QED BY <1>1, <1>2, <1>6, <1>8, <1>11, <1>12, <1>13 DEF ScopesOK

\* A definition is added to the last scope around it.
LEMMA ScopesDefine ==
  ASSUME NEW q, NEW d, NEW k \in Nat \ {0}, ~IsTagsMatch(q, d.matches[k]), NEW ss, ScopesOK(q, d, k, ss),
         NEW n \in Known(q, d), ScopesOf(q, d.matches[k]) = {}, DefsOf(q, d.matches[k]) = {n},
         NEW i \in 1..Len(ss), Around(ss[i], n), \A j \in 1..Len(ss) : Around(ss[j], n) => j <= i
  PROVE  ScopesOK(q, d, k + 1, [ss EXCEPT ![i].defs = @ \cup {TextOf(d, n)}])
<1>0. PICK l : l = Len(ss) OBVIOUS
<1>1. PICK e : e = [ss[i] EXCEPT !.defs = @ \cup {TextOf(d, n)}] OBVIOUS
<1>2. PICK r : r = [ss EXCEPT ![i] = e] OBVIOUS
<1>3. [ss EXCEPT ![i].defs = @ \cup {TextOf(d, n)}] = r BY <1>1, <1>2
<1>4. /\ IsSeq(r) /\ l \in Nat /\ l > 0 /\ Len(r) = l
      /\ \A j \in 1..l : r[j] = IF j = i THEN e ELSE ss[j]
  BY <1>0, <1>2, ExceptFacts DEF ScopesOK
<1>5. IsScope(ss[i]) BY DEF ScopesOK
<1>6. /\ e = [start |-> ss[i].start, end |-> ss[i].end, inherits |-> ss[i].inherits,
              defs |-> ss[i].defs \cup {TextOf(d, n)}]
  BY <1>1, <1>5 DEF IsScope
<1>7. IsScope(e) /\ Shape(e) = Shape(ss[i]) /\ e.defs = ss[i].defs \cup {TextOf(d, n)}
      /\ e.start = ss[i].start /\ e.end = ss[i].end
  BY <1>5, <1>6 DEF IsScope, Shape
<1>8. \A j \in 1..l : Shape(r[j]) = Shape(ss[j]) /\ IsScope(r[j]) /\ r[j].start = ss[j].start /\ r[j].end = ss[j].end
  BY <1>0, <1>4, <1>7 DEF ScopesOK
<1>9. \A j \in 2..l : j \in 1..l OBVIOUS
<1>10. {Shape(r[j]) : j \in 2..Len(r)} = ScopesAt(q, d, k + 1)
  <2>1. ScopesAt(q, d, k + 1) = ScopesAt(q, d, k) BY ScopesNext
  <2>2. {Shape(r[j]) : j \in 2..l} = {Shape(ss[j]) : j \in 2..l} BY <1>8, <1>9
  <2>3. QED BY <1>0, <1>4, <2>1, <2>2 DEF ScopesOK
<1>11. Narrowing(q, d, r)
  <2>1. \A j \in 2..l : Width(r[j]) = Width(ss[j]) /\ \A x \in Known(q, d) : Around(r[j], x) <=> Around(ss[j], x)
    BY <1>8, <1>9 DEF Width, Around
  <2>2. QED BY <1>0, <1>4, <2>1 DEF ScopesOK, Narrowing
<1>12. ScopeOf(q, d, k, n) = IF i = 1 THEN {} ELSE {Shape(ss[i])} BY Innermost
<1>13. ASSUME NEW j \in 1..l PROVE r[j].defs = Held(q, d, k + 1, j, Shape(r[j]))
  <2>1. PICK x : x = Shape(ss[j]) OBVIOUS
  <2>2. PICK D : D = DefinedIn(q, d, k, j, x) OBVIOUS
  <2>3. Held(q, d, k + 1, j, x) = Held(q, d, k, j, x) \cup {TextOf(d, m) : m \in D}
    <3>1. PICK next : next = k + 1 OBVIOUS
    <3>2. Held(q, d, next, j, x) = Held(q, d, k, j, x) \cup {TextOf(d, m) : m \in DefinedIn(q, d, k, j, x)}
      BY <3>1, HeldNext
    <3>3. QED BY <2>2, <3>1, <3>2
  <2>4. n \in D <=> IF j = 1 THEN ScopeOf(q, d, k, n) = {} ELSE x \in ScopeOf(q, d, k, n)
    BY <2>2 DEF DefinedIn
  <2>5. ss[j].defs = Held(q, d, k, j, x) BY <1>0, <2>1 DEF ScopesOK
  <2>6. Shape(r[j]) = x BY <1>8, <2>1
  <2>7. n \in D <=> j = i
    <3>1. CASE i = j BY <1>12, <2>1, <2>4, <3>1
    <3>2. CASE i # j /\ (i = 1 \/ j = 1) BY <1>12, <2>1, <2>4, <3>2
    <3>3. CASE i # j /\ i # 1 /\ j # 1
      <4>1. x # Shape(ss[i])
        <5> SUFFICES ASSUME x = Shape(ss[i]) PROVE FALSE OBVIOUS
        <5>0. /\ Width(x) = Width(ss[j]) /\ Width(x) = Width(ss[i])
              /\ Around(x, n) <=> Around(ss[j], n)
              /\ Around(x, n) <=> Around(ss[i], n)
          BY <2>1, ShapeFacts, Zenon
        <5>1. Around(ss[j], n) /\ Width(ss[j]) = Width(ss[i]) BY <5>0
        <5>2. j \in 2..l /\ i \in 2..l BY <1>0, <1>4, <3>3
        <5>3. i < j \/ j < i BY <3>3, <5>2
        <5>4. Width(ss[i]) < Width(ss[j]) \/ Width(ss[j]) < Width(ss[i])
          BY <1>0, <5>1, <5>2, <5>3 DEF ScopesOK, Narrowing
        <5>5. Width(ss[i]) \in Int BY <1>5 DEF IsScope, Width
        <5>6. QED BY <5>1, <5>4, <5>5
      <4>2. QED BY <1>12, <2>4, <3>3, <4>1
    <3>4. QED BY <3>1, <3>2, <3>3
  <2>8. D \subseteq {n} BY <2>2 DEF DefinedIn
  <2>9. CASE j = i
    <3>1. D = {n} BY <2>7, <2>8, <2>9
    <3>2. Held(q, d, k + 1, j, x) = ss[j].defs \cup {TextOf(d, n)} BY <2>3, <2>5, <3>1
    <3>3. QED BY <1>4, <1>7, <2>6, <2>9, <3>2
  <2>10. CASE j # i
    <3>1. D = {} BY <2>7, <2>8, <2>10
    <3>2. Held(q, d, k + 1, j, x) = ss[j].defs BY <2>3, <2>5, <3>1
    <3>3. QED BY <1>4, <2>6, <2>10, <3>2
  <2>11. QED BY <2>9, <2>10
<1>14. 1 \in 1..l BY <1>4
<1>15. Shape(r[1]) = Shape(ss[1]) BY <1>8, <1>14
<1>16. ScopesOK(q, d, k + 1, r) BY <1>4, <1>8, <1>10, <1>11, <1>13, <1>15 DEF ScopesOK
<1>17. QED BY <1>3, <1>16

\* A match that captures neither leaves the scopes alone.
LEMMA ScopesOther ==
  ASSUME NEW q, NEW d, NEW k \in Nat \ {0}, ~IsTagsMatch(q, d.matches[k]), NEW ss, ScopesOK(q, d, k, ss),
         ScopesOf(q, d.matches[k]) = {}, DefsOf(q, d.matches[k]) = {}
  PROVE  ScopesOK(q, d, k + 1, ss)
<1>1. ScopesAt(q, d, k + 1) = ScopesAt(q, d, k) BY ScopesNext
<1>2. \A i, s : Held(q, d, k + 1, i, s) = Held(q, d, k, i, s)
  <2>1. PICK next : next = k + 1 OBVIOUS
  <2>2. \A i, s : Held(q, d, next, i, s) = Held(q, d, k, i, s) BY <2>1, HeldSame
  <2>3. QED BY <2>1, <2>2
<1>3. QED BY <1>1, <1>2 DEF ScopesOK

\* The last scope around a node, 0 for none.
LEMMA LastAround ==
  ASSUME NEW ss, IsSeq(ss), NEW n, NEW i, i = SelectLastInSeq(ss, LAMBDA s : Around(s, n)),
         NEW r \in 1..Len(ss), Around(ss[r], n)
  PROVE  i \in 1..Len(ss) /\ Around(ss[i], n) /\ \A j \in 1..Len(ss) : Around(ss[j], n) => j <= i
<1> DEFINE I == {j \in 1..Len(ss) : Around(ss[j], n)}
<1>1. i = IF I # {} THEN Max(I) ELSE 0 BY Zenon DEF SelectLastInSeq
<1>2. Len(ss) \in Nat BY AppendFacts
<1>3. I \subseteq 1..Len(ss) /\ r \in I OBVIOUS
<1>4. Max(I) \in I /\ \A y \in I : Max(I) >= y
  <2> HIDE DEF I
  <2>1. QED BY <1>2, <1>3, GreatestIn
<1>5. i = Max(I) BY <1>1, <1>3
<1>6. i \in I /\ \A y \in I : i >= y
  <2> HIDE DEF I
  <2>1. QED BY <1>4, <1>5
<1>7. ASSUME NEW j \in 1..Len(ss), Around(ss[j], n) PROVE j <= i
  <2>1. j \in I BY <1>7
  <2>2. QED BY <1>2, <1>6, <2>1
<1>8. QED BY <1>6, <1>7

\* Patterns are counted from one, those of the locals query first.
LEMMA PatternFacts ==
  ASSUME MatchesOfQuery, NEW q \in Queries
  PROVE  /\ Len(q.locals) \in Nat /\ DOMAIN (q.locals \o q.tags) \subseteq Nat
         /\ IsSeq(q.names) /\ \A i, j \in DOMAIN q.names : q.names[i] = q.names[j] => i = j
<1> DEFINE S == ToSet(q.locals) \cup ToSet(q.tags)
<1>1. q.locals \in Seq(ToSet(q.locals)) /\ q.tags \in Seq(ToSet(q.tags)) /\ q.names \in Seq(ToSet(q.names))
      /\ \A i, j \in DOMAIN q.names : q.names[i] = q.names[j] => i = j
  BY DEF MatchesOfQuery
<1>2. q.locals \in Seq(S) /\ q.tags \in Seq(S)
  <2>1. ToSet(q.locals) \subseteq S /\ ToSet(q.tags) \subseteq S OBVIOUS
  <2> HIDE DEF S
  <2>2. QED BY <1>1, <2>1, SeqMonotonic
<1> HIDE DEF S
<1>3. q.locals \o q.tags \in Seq(S) BY <1>2, ConcatProperties
<1>4. DOMAIN (q.locals \o q.tags) = 1..Len(q.locals \o q.tags) /\ Len(q.locals \o q.tags) \in Nat
      /\ Len(q.locals) \in Nat
  BY <1>2, <1>3, LenProperties
<1>5. IsSeq(q.names) BY <1>1, AnySeq
<1>6. DOMAIN (q.locals \o q.tags) \subseteq Nat
  <2>1. PICK p : p = q.locals \o q.tags OBVIOUS
  <2>2. DOMAIN p = 1..Len(p) /\ Len(p) \in Nat BY <1>4, <2>1
  <2>3. DOMAIN p \subseteq Nat BY <2>2
  <2>4. QED BY <2>1, <2>3
<1>7. QED BY <1>1, <1>4, <1>5, <1>6

\* What the configuration says of a match.
LEMMA ConfigFacts ==
  ASSUME MatchesOfQuery, Base, MatchDue
  PROVE  /\ matched + 1 \in 1..Len(input.matches) /\ query \in Queries /\ input \in Inputs(query)
         /\ Match.pattern > config.tags_pattern_index <=> IsTagsMatch(query, Match)
         /\ Match.pattern <= config.tags_pattern_index <=> ~IsTagsMatch(query, Match)
         /\ Info = PatternInfo(query.names, PatternOf(query, Match))
         /\ \A c \in ToSet(Match.captures) :
              /\ c.index \in DOMAIN query.names
              /\ c.index = config.scope <=> query.names[c.index] = <<"local", "scope">>
              /\ c.index = config.definition <=> query.names[c.index] = <<"local", "definition">>
              /\ c.index = config.name <=> query.names[c.index] = <<"name", "">>
              /\ c.index = config.ignore <=> query.names[c.index] = <<"ignore", "">>
              /\ c.index \in DOMAIN config.captures <=> query.names[c.index] \notin Special
              /\ c.index \in DOMAIN config.captures => config.captures[c.index] = NamedCapture(query.names, c.index)
<1>1. status = "running" /\ matched < Len(input.matches) BY DEF MatchDue
<1>2. /\ query \in Queries /\ input \in Inputs(query) /\ matched + 1 \in 1..Len(input.matches)
      /\ config = NewConfiguration(query)
  BY <1>1 DEF Base
<1>3. /\ config.tags_pattern_index = Len(query.locals)
      /\ config.scope = IndexOf(query.names, <<"local", "scope">>)
      /\ config.definition = IndexOf(query.names, <<"local", "definition">>)
      /\ config.name = IndexOf(query.names, <<"name", "">>)
      /\ config.ignore = IndexOf(query.names, <<"ignore", "">>)
  BY <1>2 DEF NewConfiguration
<1>4. config.captures = [i \in {k \in DOMAIN query.names : query.names[k] \notin Special} |-> NamedCapture(query.names, i)]
  BY <1>2 DEF NewConfiguration
<1>5. config.pattern_info = [i \in DOMAIN (query.locals \o query.tags) |->
                               PatternInfo(query.names, (query.locals \o query.tags)[i])]
  BY <1>2 DEF NewConfiguration
<1>6. /\ Match.pattern \in DOMAIN (query.locals \o query.tags)
      /\ \A c \in ToSet(Match.captures) : c.index \in DOMAIN query.names
  <2>1. PICK k : k = matched + 1 OBVIOUS
  <2>2. Match = input.matches[k] BY <2>1 DEF Match
  <2>3. QED BY <1>2, <2>1, <2>2, Zenon DEF MatchesOfQuery
<1>7. /\ Len(query.locals) \in Nat /\ DOMAIN (query.locals \o query.tags) \subseteq Nat
      /\ IsSeq(query.names) /\ \A i, j \in DOMAIN query.names : query.names[i] = query.names[j] => i = j
  BY <1>2, PatternFacts
<1>8. Info = PatternInfo(query.names, PatternOf(query, Match)) BY <1>5, <1>6 DEF Info, PatternOf
<1>9. Match.pattern \in Nat BY <1>6, <1>7
<1>10. (Match.pattern > config.tags_pattern_index <=> IsTagsMatch(query, Match))
       /\ (Match.pattern <= config.tags_pattern_index <=> ~IsTagsMatch(query, Match))
  <2>1. PICK n : n = Len(query.locals) OBVIOUS
  <2>2. PICK p : p = Match.pattern OBVIOUS
  <2>3. (p > n <=> ~(p <= n)) BY <1>7, <1>9, <2>1, <2>2
  <2>4. QED BY <1>3, <2>1, <2>2, <2>3 DEF IsTagsMatch
<1>11. ASSUME NEW c \in ToSet(Match.captures)
       PROVE  /\ c.index \in DOMAIN query.names
              /\ c.index = config.scope <=> query.names[c.index] = <<"local", "scope">>
              /\ c.index = config.definition <=> query.names[c.index] = <<"local", "definition">>
              /\ c.index = config.name <=> query.names[c.index] = <<"name", "">>
              /\ c.index = config.ignore <=> query.names[c.index] = <<"ignore", "">>
              /\ c.index \in DOMAIN config.captures <=> query.names[c.index] \notin Special
              /\ c.index \in DOMAIN config.captures => config.captures[c.index] = NamedCapture(query.names, c.index)
  <2>1. PICK i : i = c.index OBVIOUS
  <2>2. PICK names : names = query.names OBVIOUS
  <2>3. i \in DOMAIN names BY <1>6, <1>11, <2>1, <2>2
  <2>4. IsSeq(names) /\ \A a, b \in DOMAIN names : names[a] = names[b] => a = b BY <1>7, <2>2
  <2>5. \A name : i = IndexOf(names, name) <=> names[i] = name BY <2>3, <2>4, IndexFacts
  <2>6. DOMAIN config.captures = {k \in DOMAIN names : names[k] \notin Special}
        /\ \A k \in DOMAIN config.captures : config.captures[k] = NamedCapture(names, k)
    BY <1>4, <2>2
  <2>7. (i \in DOMAIN config.captures <=> names[i] \notin Special)
        /\ (i \in DOMAIN config.captures => config.captures[i] = NamedCapture(names, i))
    BY <2>3, <2>6
  <2>8. QED BY <1>3, <2>1, <2>2, <2>3, <2>5, <2>7
<1>12. QED BY <1>2, <1>8, <1>10, <1>11

\* A match of the locals query has one capture.
LEMMA LocalCapture ==
  ASSUME MatchesOfQuery, ScopesNest, Base, MatchDue, ~IsTagsMatch(query, Match),
         NEW c, c = Match.captures[1]
  PROVE  /\ DOMAIN Match.captures = {1} /\ c \in ToSet(Match.captures)
         /\ c.node.start \in Nat /\ c.node.end \in Nat /\ c.node.end <= Len(text)
         /\ \A name : NodesOf(query, Match, name) = IF query.names[c.index] = name THEN {c.node} ELSE {}
<1>1. PICK k : k = matched + 1 OBVIOUS
<1>2. Match = input.matches[k] BY <1>1 DEF Match
<1>3. k \in 1..Len(input.matches) /\ query \in Queries /\ input \in Inputs(query) BY <1>1, ConfigFacts
<1>4. Match.captures \in Seq(ToSet(Match.captures)) BY <1>2, <1>3 DEF MatchesOfQuery
<1>5. /\ Len(Match.captures) = 1
      /\ c.node.start \in Nat /\ c.node.end \in Nat /\ c.node.end <= Len(text)
  BY <1>2, <1>3, Zenon DEF ScopesNest, text
<1>6. DOMAIN Match.captures = 1..1 BY <1>4, <1>5, LenProperties
<1>7. DOMAIN Match.captures = {1} BY <1>6
<1>8. ToSet(Match.captures) = {c} BY <1>7 DEF ToSet
<1>9. ASSUME NEW name PROVE NodesOf(query, Match, name) = IF query.names[c.index] = name THEN {c.node} ELSE {}
  <2>1. CASE query.names[c.index] = name
    <3>1. {e \in ToSet(Match.captures) : query.names[e.index] = name} = {c} BY <1>8, <2>1
    <3>2. QED BY <2>1, <3>1 DEF NodesOf
  <2>2. CASE query.names[c.index] # name
    <3>1. {e \in ToSet(Match.captures) : query.names[e.index] = name} = {} BY <1>8, <2>2
    <3>2. QED BY <2>2, <3>1 DEF NodesOf
  <2>3. QED BY <2>1, <2>2
<1>10. QED BY <1>5, <1>7, <1>8, <1>9

\* A match of the locals query.
LEMMA ScopesLocal ==
  ASSUME NamesInText, MatchesOfQuery, ScopesNest, Base, LocalMatch, ScopesOK(query, input, matched + 1, scopes)
  PROVE  ScopesOK(query, input, (matched + 1) + 1, scopes')
<1>0. MatchDue /\ Match.pattern <= config.tags_pattern_index /\ scopes' = FoldLeft(AddLocal, scopes, Match.captures)
  BY DEF LocalMatch
<1>1. PICK c : c = Match.captures[1] OBVIOUS
<1>2. PICK k : k = matched + 1 OBVIOUS
<1>3. /\ k \in 1..Len(input.matches) /\ query \in Queries /\ input \in Inputs(query)
      /\ ~IsTagsMatch(query, Match) /\ Info = PatternInfo(query.names, PatternOf(query, Match))
  BY <1>0, <1>2, ConfigFacts
<1>4. /\ DOMAIN Match.captures = {1} /\ c \in ToSet(Match.captures)
      /\ c.node.start \in Nat /\ c.node.end \in Nat /\ c.node.end <= Len(text)
      /\ \A name : NodesOf(query, Match, name) = IF query.names[c.index] = name THEN {c.node} ELSE {}
  BY <1>0, <1>1, <1>3, LocalCapture
<1>5. /\ c.index = config.scope <=> query.names[c.index] = <<"local", "scope">>
      /\ c.index = config.definition <=> query.names[c.index] = <<"local", "definition">>
  BY <1>0, <1>4, ConfigFacts
<1>6. Match = input.matches[k] BY <1>2 DEF Match
<1>7. PICK ss : ss = scopes OBVIOUS
<1>8. scopes' = AddLocal(ss, c)
  <2>1. PICK cs : cs = Match.captures OBVIOUS
  <2>2. FoldLeft(AddLocal, ss, cs) = AddLocal(ss, cs[1]) BY <1>4, <2>1, FoldOne
  <2>3. QED BY <1>0, <1>1, <1>7, <2>1, <2>2
<1>9. PICK n : n = c.node OBVIOUS
<1>10. PICK i : i = SelectLastInSeq(ss, LAMBDA s : Around(s, c.node)) OBVIOUS
<1>11. Len(input.matches) \in Nat /\ k \in Nat \ {0} /\ k <= Len(input.matches) BY <1>2, <1>3 DEF Base
<1>12. Info.inherits = PatternOf(query, Match).inherits BY <1>3 DEF PatternInfo
<1>13. ScopesOK(query, input, k, ss) BY <1>2, <1>7
<1>14. ~IsTagsMatch(query, input.matches[k]) BY <1>3, <1>6
<1>15. CASE c.index = config.scope
  <2>1. PICK s : s = [start |-> n.start, end |-> n.end, inherits |-> Info.inherits, defs |-> {}] OBVIOUS
  <2>2. scopes' = Append(ss, s) BY <1>8, <1>9, <1>15, <2>1 DEF AddLocal
  <2>3. IsScope(s) /\ s.defs = {} BY <1>4, <1>9, <2>1 DEF IsScope
  <2>4. NodesOf(query, Match, <<"local", "scope">>) = {n} BY <1>4, <1>5, <1>9, <1>15
  <2>5. DefsOf(query, input.matches[k]) = {}
    <3>1. query.names[c.index] # <<"local", "definition">> BY <1>5, <1>15
    <3>2. QED BY <1>4, <1>6, <3>1 DEF DefsOf
  <2>6. Shape(s) = [start |-> n.start, end |-> n.end, inherits |-> PatternOf(query, Match).inherits]
    BY <1>12, <2>1 DEF Shape
  <2>7. ScopesOf(query, input.matches[k]) = {Shape(s)} BY <1>6, <2>4, <2>6 DEF ScopesOf
  <2>8. ScopesOK(query, input, k + 1, Append(ss, s))
    BY <1>3, <1>11, <1>13, <1>14, <2>3, <2>5, <2>7, ScopesPush
  <2>9. QED BY <1>2, <2>2, <2>8
<1>16. CASE c.index # config.scope
  <2>1. ScopesOf(query, input.matches[k]) = {}
    <3>1. NodesOf(query, Match, <<"local", "scope">>) = {} BY <1>4, <1>5, <1>16
    <3>2. QED BY <1>6, <3>1 DEF ScopesOf
  <2>2. CASE c.index = config.definition
    <3>1. DefsOf(query, input.matches[k]) = {n} BY <1>4, <1>5, <1>6, <1>9, <2>2 DEF DefsOf
    <3>2. n \in Known(query, input) BY <1>3, <3>1 DEF Known
    <3>3. 1 \in 1..Len(ss) /\ Around(ss[1], n) /\ IsSeq(ss)
      <4>1. IsSeq(ss) /\ Len(ss) > 0 /\ Shape(ss[1]) = [start |-> 0, end |-> Len(input.text), inherits |-> FALSE]
        BY <1>13 DEF ScopesOK
      <4>2. Len(ss) \in Nat BY <4>1, AppendFacts
      <4>3. ss[1].start = 0 /\ ss[1].end = Len(input.text)
        <5>1. Shape(ss[1]).start = 0 /\ Shape(ss[1]).end = Len(input.text) BY <4>1
        <5>2. QED BY <5>1 DEF Shape
      <4>4. Len(input.text) \in Nat BY <1>3 DEF NamesInText
      <4>5. QED BY <1>4, <1>9, <4>1, <4>2, <4>3, <4>4 DEF Around, text
    <3>4. i = SelectLastInSeq(ss, LAMBDA s : Around(s, n)) BY <1>9, <1>10
    <3>5. i \in 1..Len(ss) /\ Around(ss[i], n) /\ \A j \in 1..Len(ss) : Around(ss[j], n) => j <= i
      BY <3>3, <3>4, LastAround
    <3>6. i # 0 BY <3>5
    <3>7. Bytes(n.start, n.end) = TextOf(input, n) BY DEF Bytes, TextOf, text
    <3>8. scopes' = [ss EXCEPT ![i].defs = @ \cup {Bytes(n.start, n.end)}]
      BY <1>8, <1>9, <1>10, <1>16, <2>2, <3>6, Zenon DEF AddLocal
    <3>9. scopes' = [ss EXCEPT ![i].defs = @ \cup {TextOf(input, n)}] BY <3>7, <3>8, Zenon
    <3>10. ScopesOK(query, input, k + 1, [ss EXCEPT ![i].defs = @ \cup {TextOf(input, n)}])
      BY <1>11, <1>13, <1>14, <2>1, <3>1, <3>2, <3>5, ScopesDefine
    <3>11. QED BY <1>2, <3>9, <3>10, Zenon
  <2>3. CASE c.index # config.definition
    <3>1. DefsOf(query, input.matches[k]) = {} BY <1>4, <1>5, <1>6, <2>3 DEF DefsOf
    <3>2. scopes' = ss BY <1>8, <1>16, <2>3 DEF AddLocal
    <3>3. ScopesOK(query, input, k + 1, ss) BY <1>11, <1>13, <1>14, <2>1, <3>1, ScopesOther
    <3>4. QED BY <1>2, <3>2, <3>3
  <2>4. QED BY <2>2, <2>3
<1>17. QED BY <1>15, <1>16

\* Nothing happened yet, or the scopes are those of the matches so far.
ScopeInv ==
  /\ status = "new" => matched = 0 /\ tag_queue = <<>> /\ buffer = <<>>
  /\ status = "running" => ScopesOK(query, input, matched + 1, scopes)

\* ScopeInv holds when the first call of next begins.
LEMMA ScopeInit ==
  ASSUME TagInit
  PROVE  ScopeInv
BY DEF TagInit, ScopeInv

\* Each step keeps the scopes.
LEMMA ScopeNext ==
  ASSUME NamesInText, MatchesOfQuery, ScopesNest, Base, ScopeInv, [TagNext]_tagVars
  PROVE  ScopeInv'
<1>1. CASE UNCHANGED tagVars BY <1>1 DEF tagVars, ScopeInv
<1>2. CASE Configure
  <2>1. UNCHANGED <<query, input, matched>> /\ matched = 0 /\ status' # "new"
        /\ (status' = "running" => scopes' = <<RootScope>>)
    BY <1>2 DEF Configure, ScopeInv
  <2>2. Len(input.text) \in Nat BY DEF Base, NamesInText
  <2>3. ASSUME status' = "running" PROVE ScopesOK(query', input', matched' + 1, scopes')
    <3>1. PICK ss : ss = scopes' OBVIOUS
    <3>2. ss = <<[start |-> 0, end |-> Len(input.text), inherits |-> FALSE, defs |-> {}]>>
      BY <2>1, <2>3, <3>1 DEF RootScope, text
    <3>3. ScopesOK(query, input, 1, ss) BY <2>2, <3>2, ScopesStart
    <3>4. matched' + 1 = 1 BY <2>1
    <3>5. QED BY <2>1, <3>1, <3>3, <3>4
  <2>4. QED BY <2>1, <2>3 DEF ScopeInv
<1>3. CASE Cancel \/ (Drain /\ status' = "finished")
  <2>1. status' # "new" /\ status' # "running" BY <1>3 DEF Cancel
  <2>2. QED BY <2>1 DEF ScopeInv
<1>4. CASE ReturnEarlier \/ (Drain /\ status' # "finished")
  <2>1. UNCHANGED <<query, input, matched, scopes>> /\ status = "running" /\ status' = "running"
    BY <1>4 DEF ReturnEarlier, Drain, Earlier
  <2>2. QED BY <2>1 DEF ScopeInv
<1>5. CASE LocalMatch
  <2>1. UNCHANGED <<query, input, status>> /\ status = "running" /\ matched' = matched + 1
    BY <1>5 DEF LocalMatch, MatchDue
  <2>2. ScopesOK(query, input, matched + 1, scopes) BY <2>1 DEF ScopeInv
  <2>3. ScopesOK(query, input, (matched + 1) + 1, scopes') BY <1>5, <2>2, ScopesLocal
  <2>4. QED BY <2>1, <2>3 DEF ScopeInv
<1>6. CASE SkipMatch \/ TagMatch \/ IgnoreMatch
  <2>1. UNCHANGED <<query, input, status, scopes>> /\ status = "running" /\ matched' = matched + 1 /\ TagsMatch
    BY <1>6 DEF SkipMatch, TagMatch, IgnoreMatch, TagsMatch, MatchDue
  <2>2. ScopesOK(query, input, matched + 1, scopes) BY <2>1 DEF ScopeInv
  <2>3. PICK k : k = matched + 1 OBVIOUS
  <2>4. IsTagsMatch(query, input.matches[k]) /\ k \in Nat \ {0}
    <3>1. IsTagsMatch(query, Match) /\ matched + 1 \in 1..Len(input.matches) BY <2>1, ConfigFacts DEF TagsMatch
    <3>2. QED BY <2>3, <3>1 DEF Match
  <2>5. ScopesOK(query, input, k + 1, scopes) BY <2>2, <2>3, <2>4, ScopesTags
  <2>6. QED BY <2>1, <2>3, <2>5 DEF ScopeInv
<1>7. QED BY <1>1, <1>2, <1>3, <1>4, <1>5, <1>6 DEF TagNext

LastDeciding(ss, n, t) == SelectLastInSeq(ss, LAMBDA s : Around(s, n) /\ (t \in s.defs \/ ~s.inherits))

\* The last scope that decides about a name, 0 for none.
LEMMA LastDecides ==
  ASSUME NEW ss, IsSeq(ss), NEW n, NEW t, NEW i, i = LastDeciding(ss, n, t)
  PROVE  \/ /\ i \in 1..Len(ss) /\ Around(ss[i], n) /\ (t \in ss[i].defs \/ ~ss[i].inherits)
            /\ \A j \in 1..Len(ss) : Around(ss[j], n) /\ (t \in ss[j].defs \/ ~ss[j].inherits) => j <= i
         \/ /\ i = 0
            /\ \A j \in 1..Len(ss) : ~(Around(ss[j], n) /\ (t \in ss[j].defs \/ ~ss[j].inherits))
<1> DEFINE I == {j \in 1..Len(ss) : Around(ss[j], n) /\ (t \in ss[j].defs \/ ~ss[j].inherits)}
<1>1. i = IF I # {} THEN Max(I) ELSE 0 BY Zenon DEF LastDeciding, SelectLastInSeq
<1>2. Len(ss) \in Nat BY AppendFacts
<1>3. CASE I = {}
  <2>1. i = 0 BY <1>1, <1>3
  <2>2. QED BY <1>3, <2>1
<1>4. CASE I # {}
  <2>1. Max(I) \in I /\ \A y \in I : Max(I) >= y
    <3>1. I \subseteq 1..Len(ss) OBVIOUS
    <3> HIDE DEF I
    <3>2. QED BY <1>2, <1>4, <3>1, GreatestIn
  <2>2. i \in I /\ \A y \in I : i >= y
    <3> HIDE DEF I
    <3>1. QED BY <1>1, <1>4, <2>1
  <2>3. ASSUME NEW j \in 1..Len(ss), Around(ss[j], n) /\ (t \in ss[j].defs \/ ~ss[j].inherits) PROVE j <= i
    <3>1. j \in I BY <2>3
    <3>2. QED BY <1>2, <2>2, <3>1
  <2>4. QED BY <2>2, <2>3
<1>5. QED BY <1>3, <1>4

\* What is in scope at a match stays in scope.
LEMMA ScopesGrow ==
  ASSUME NEW q, NEW d, NEW k \in Nat \ {0}, NEW j \in Before(q, d, k)
  PROVE  ScopesAt(q, d, j) \subseteq ScopesAt(q, d, k) /\ j \in 1..(k - 1)
<1>1. j \in 1..(k - 1) BY DEF Before
<1>2. Before(q, d, j) \subseteq Before(q, d, k) BY <1>1 DEF Before
<1>3. QED BY <1>1, <1>2 DEF ScopesAt

\* The texts of a scope and the definitions they are of.
LEMMA HeldBy ==
  ASSUME NEW q, NEW d, NEW k, NEW i, NEW s, NEW t
  PROVE  t \in Held(q, d, k, i, s) <=>
           \E j \in Before(q, d, k) : \E e \in DefsOf(q, d.matches[j]) :
             /\ TextOf(d, e) = t
             /\ IF i = 1 THEN ScopeOf(q, d, j, e) = {} ELSE s \in ScopeOf(q, d, j, e)
<1>1. t \in Held(q, d, k, i, s) <=>
        \E j \in Before(q, d, k) : \E e \in DefinedIn(q, d, j, i, s) : TextOf(d, e) = t
  <2> DEFINE T(j) == {TextOf(d, n) : n \in DefinedIn(q, d, j, i, s)}
  <2>1. Held(q, d, k, i, s) = UNION {T(j) : j \in Before(q, d, k)} BY DEF Held
  <2>2. \A j : t \in T(j) <=> \E e \in DefinedIn(q, d, j, i, s) : TextOf(d, e) = t OBVIOUS
  <2> HIDE DEF T
  <2>3. t \in UNION {T(j) : j \in Before(q, d, k)} <=> \E j \in Before(q, d, k) : t \in T(j) OBVIOUS
  <2>4. QED BY <2>1, <2>2, <2>3
<1>2. \A j, e : e \in DefinedIn(q, d, j, i, s) <=>
        /\ e \in DefsOf(q, d.matches[j])
        /\ IF i = 1 THEN ScopeOf(q, d, j, e) = {} ELSE s \in ScopeOf(q, d, j, e)
  BY DEF DefinedIn
<1>3. QED BY <1>1, <1>2

\* The scope of a definition is one of the scopes, and the only one.
LEMMA ScopeOfOne ==
  ASSUME NEW q, NEW d, NEW k \in Nat \ {0}, k <= Len(d.matches), Len(d.matches) \in Nat,
         NEW ss, ScopesOK(q, d, k, ss),
         NEW j \in Before(q, d, k), NEW e \in DefsOf(q, d.matches[j]), NEW s \in ScopeOf(q, d, j, e)
  PROVE  \E m \in 2..Len(ss) : s = Shape(ss[m]) /\ ScopeOf(q, d, j, e) = {s}
           /\ \A i \in 2..Len(ss) : Shape(ss[i]) = s => i = m
<1>0. PICK l : l = Len(ss) OBVIOUS
<1>1. \A x : x \in ScopesAt(q, d, k) <=> \E i \in 2..l : x = Shape(ss[i]) BY <1>0 DEF ScopesOK
<1>2. ScopesAt(q, d, j) \subseteq ScopesAt(q, d, k) /\ j \in 1..Len(d.matches) BY ScopesGrow
<1>3. e \in Known(q, d) BY <1>2 DEF Known
<1>4. \A x \in ScopeOf(q, d, j, e) : x \in ScopesAt(q, d, j) /\ Around(x, e)
        /\ \A y \in ScopesAt(q, d, j) : Around(y, e) => Width(x) <= Width(y)
  BY DEF ScopeOf
<1>5. PICK m \in 2..l : s = Shape(ss[m]) BY <1>1, <1>2, <1>4
<1>6. \A i \in 1..l : Width(ss[i]) \in Int
  <2>1. \A i \in 1..l : IsScope(ss[i]) BY <1>0 DEF ScopesOK
  <2>2. \A i \in 1..l : ss[i].start \in Nat /\ ss[i].end \in Nat BY <2>1 DEF IsScope
  <2>3. QED BY <2>2 DEF Width
<1>7. \A a, b \in 2..l : a < b /\ Around(ss[a], e) /\ Around(ss[b], e) => Width(ss[b]) < Width(ss[a])
  BY <1>0, <1>3 DEF ScopesOK, Narrowing
<1>8. ASSUME NEW i \in 2..l, Around(ss[i], e), Width(ss[i]) = Width(ss[m]) PROVE i = m
  <2>1. Around(ss[m], e) BY <1>4, <1>5, ShapeFacts
  <2>2. i \in 1..l /\ m \in 1..l /\ (i = m \/ i < m \/ m < i) OBVIOUS
  <2>3. QED BY <1>6, <1>7, <1>8, <2>1, <2>2
<1>9. ASSUME NEW x \in ScopeOf(q, d, j, e) PROVE x = s
  <2>1. PICK i \in 2..l : x = Shape(ss[i]) BY <1>1, <1>2, <1>4
  <2>2. Around(x, e) /\ Width(x) <= Width(s) /\ Width(s) <= Width(x) BY <1>4
  <2>3. Width(x) = Width(ss[i]) /\ Width(s) = Width(ss[m]) /\ (Around(x, e) <=> Around(ss[i], e))
    BY <1>5, <2>1, ShapeFacts
  <2>4. Width(ss[i]) \in Int /\ Width(ss[m]) \in Int
    <3>1. i \in 1..l /\ m \in 1..l OBVIOUS
    <3>2. QED BY <1>6, <3>1
  <2>5. Around(ss[i], e) /\ Width(ss[i]) = Width(ss[m]) BY <2>2, <2>3, <2>4
  <2>6. i = m BY <1>8, <2>5
  <2>7. QED BY <1>5, <2>1, <2>6
<1>10. ScopeOf(q, d, j, e) = {s} BY <1>9
<1>11. ASSUME NEW i \in 2..l, Shape(ss[i]) = s PROVE i = m
  <2>1. Width(s) = Width(ss[i]) /\ Width(s) = Width(ss[m]) /\ (Around(s, e) <=> Around(ss[i], e))
    BY <1>5, <1>11, ShapeFacts, Zenon
  <2>2. Around(s, e) BY <1>4
  <2>3. QED BY <1>8, <2>1, <2>2
<1>12. QED BY <1>0, <1>5, <1>10, <1>11

\* The definition of a text that a scope has.
LEMMA HeldFrom ==
  ASSUME NEW q, NEW d, NEW k, NEW i, NEW s, NEW t \in Held(q, d, k, i, s)
  PROVE  \E j \in Before(q, d, k) : \E e \in DefsOf(q, d.matches[j]) :
             /\ TextOf(d, e) = t
             /\ i = 1 => ScopeOf(q, d, j, e) = {}
             /\ i # 1 => s \in ScopeOf(q, d, j, e)
<1>1. \E j \in Before(q, d, k) : \E e \in DefsOf(q, d.matches[j]) :
        /\ TextOf(d, e) = t
        /\ IF i = 1 THEN ScopeOf(q, d, j, e) = {} ELSE s \in ScopeOf(q, d, j, e)
  BY HeldBy
<1>2. QED BY <1>1

\* The walk over the scopes from the last finds a definition just when the name is local.
LEMMA LocalAgrees ==
  ASSUME NEW q, NEW d, NEW k \in Nat \ {0}, k <= Len(d.matches), Len(d.matches) \in Nat, Len(d.text) \in Nat,
         NEW ss, ScopesOK(q, d, k, ss),
         NEW n \in Known(q, d), n.start \in Nat, n.end \in Nat, n.end <= Len(d.text),
         NEW i, i = LastDeciding(ss, n, TextOf(d, n))
  PROVE  i # 0 /\ TextOf(d, n) \in ss[i].defs <=> LocalAt(q, d, k, n)
<1>0. PICK l : l = Len(ss) OBVIOUS
<1>1. PICK t : t = TextOf(d, n) OBVIOUS
<1>2. /\ IsSeq(ss) /\ l \in Nat /\ l > 0
      /\ \A x : x \in ScopesAt(q, d, k) <=> \E m \in 2..l : x = Shape(ss[m])
      /\ \A m \in 1..l : ss[m].defs = Held(q, d, k, m, Shape(ss[m]))
      /\ Shape(ss[1]) = [start |-> 0, end |-> Len(d.text), inherits |-> FALSE]
  BY <1>0, AppendFacts DEF ScopesOK
<1>3. 1 \in 1..l /\ Around(ss[1], n) /\ ~ss[1].inherits
  <2>1. ss[1].start = 0 /\ ss[1].end = Len(d.text) /\ ss[1].inherits = FALSE
    <3>1. Shape(ss[1]).start = 0 /\ Shape(ss[1]).end = Len(d.text) /\ Shape(ss[1]).inherits = FALSE BY <1>2
    <3>2. QED BY <3>1, ShapeFacts
  <2>2. QED BY <1>2, <2>1 DEF Around
<1>4. /\ i \in 1..l /\ Around(ss[i], n) /\ (t \in ss[i].defs \/ ~ss[i].inherits)
      /\ \A j \in 1..l : Around(ss[j], n) /\ (t \in ss[j].defs \/ ~ss[j].inherits) => j <= i
  <2>1. i = LastDeciding(ss, n, t) BY <1>1
  <2>2. \/ /\ i \in 1..Len(ss) /\ Around(ss[i], n) /\ (t \in ss[i].defs \/ ~ss[i].inherits)
           /\ \A j \in 1..Len(ss) : Around(ss[j], n) /\ (t \in ss[j].defs \/ ~ss[j].inherits) => j <= i
        \/ /\ i = 0
           /\ \A j \in 1..Len(ss) : ~(Around(ss[j], n) /\ (t \in ss[j].defs \/ ~ss[j].inherits))
    BY <1>2, <2>1, LastDecides
  <2>3. QED BY <1>0, <1>3, <2>2
<1>5. \A m \in 1..l : Width(ss[m]) \in Int
  <2>1. \A m \in 1..l : IsScope(ss[m]) BY <1>0 DEF ScopesOK
  <2>2. \A m \in 1..l : ss[m].start \in Nat /\ ss[m].end \in Nat BY <2>1 DEF IsScope
  <2>3. QED BY <2>2 DEF Width
<1>6. \A a, b \in 2..l : a < b /\ Around(ss[a], n) /\ Around(ss[b], n) => Width(ss[b]) < Width(ss[a])
  BY <1>0 DEF ScopesOK, Narrowing
<1>7. \A m \in 2..l : m \in 1..l OBVIOUS
<1>8. ASSUME t \in ss[i].defs PROVE LocalAt(q, d, k, n)
  <2>1. t \in Held(q, d, k, i, Shape(ss[i])) BY <1>2, <1>4, <1>8
  <2>2. PICK s : s = Shape(ss[i]) OBVIOUS
  <2>3. t \in Held(q, d, k, i, s) BY <2>1, <2>2
  <2>31. PICK j \in Before(q, d, k) : \E e \in DefsOf(q, d.matches[j]) :
             /\ TextOf(d, e) = t
             /\ i = 1 => ScopeOf(q, d, j, e) = {}
             /\ i # 1 => s \in ScopeOf(q, d, j, e)
    BY <2>3, HeldFrom
  <2>4. PICK e \in DefsOf(q, d.matches[j]) :
             /\ TextOf(d, e) = t
             /\ i = 1 => ScopeOf(q, d, j, e) = {}
             /\ i # 1 => s \in ScopeOf(q, d, j, e)
    BY <2>31
  <2>5. CASE i = 1
    <3>1. ScopeOf(q, d, j, e) = {} BY <2>4, <2>5
    <3>2. ASSUME NEW x \in ScopesAt(q, d, k), Around(x, n) PROVE x.inherits
      <4>1. PICK m \in 2..l : x = Shape(ss[m]) BY <1>2
      <4>2. Around(ss[m], n) /\ x.inherits = ss[m].inherits BY <3>2, <4>1, ShapeFacts
      <4>3. m \in 1..l /\ ~(m <= i) BY <2>5
      <4>4. ss[m].inherits BY <1>4, <4>2, <4>3
      <4>5. QED BY <4>2, <4>4
    <3>3. QED BY <1>1, <2>4, <3>1, <3>2 DEF LocalAt
  <2>6. CASE i # 1
    <3>1. s \in ScopeOf(q, d, j, e) BY <2>4, <2>6
    <3>2. ScopeOf(q, d, j, e) = {s} BY <3>1, ScopeOfOne
    <3>3. i \in 2..l BY <1>2, <1>4, <2>6
    <3>4. Around(s, n) /\ Width(s) = Width(ss[i]) BY <1>4, <2>2, ShapeFacts
    <3>5. ASSUME NEW x \in ScopesAt(q, d, k), Around(x, n), Width(x) < Width(s) PROVE x.inherits
      <4>1. PICK m \in 2..l : x = Shape(ss[m]) BY <1>2
      <4>2. Around(ss[m], n) /\ x.inherits = ss[m].inherits /\ Width(x) = Width(ss[m]) BY <3>5, <4>1, ShapeFacts
      <4>3. Width(ss[m]) < Width(ss[i]) BY <3>4, <3>5, <4>2
      <4>4. ~(m <= i)
        <5>1. m # i BY <1>5, <1>7, <4>3
        <5>2. ~(m < i) BY <1>4, <1>5, <1>6, <1>7, <3>3, <4>2, <4>3
        <5>3. QED BY <3>3, <5>1, <5>2
      <4>5. ss[m].inherits BY <1>4, <1>7, <4>2, <4>4
      <4>6. QED BY <4>2, <4>5
    <3>6. QED BY <1>1, <2>4, <3>2, <3>4, <3>5 DEF LocalAt
  <2>7. QED BY <2>5, <2>6
<1>9. ASSUME LocalAt(q, d, k, n) PROVE t \in ss[i].defs
  <2>1. PICK j \in Before(q, d, k) : \E e \in DefsOf(q, d.matches[j]) :
          /\ TextOf(d, e) = t
          /\ \A s \in ScopeOf(q, d, j, e) : Around(s, n)
          /\ \A x \in ScopesAt(q, d, k) :
               (Around(x, n) /\ \A s \in ScopeOf(q, d, j, e) : Width(x) < Width(s)) => x.inherits
    BY <1>1, <1>9 DEF LocalAt
  <2>2. PICK e \in DefsOf(q, d.matches[j]) :
          /\ TextOf(d, e) = t
          /\ \A s \in ScopeOf(q, d, j, e) : Around(s, n)
          /\ \A x \in ScopesAt(q, d, k) :
               (Around(x, n) /\ \A s \in ScopeOf(q, d, j, e) : Width(x) < Width(s)) => x.inherits
    BY <2>1
  <2>3. CASE ScopeOf(q, d, j, e) = {}
    <3>1. CASE i = 1
      <4>1. t \in Held(q, d, k, i, Shape(ss[i])) BY <2>2, <2>3, <3>1, HeldBy
      <4>2. QED BY <1>2, <1>4, <4>1
    <3>2. CASE i # 1
      <4>1. i \in 2..l BY <1>2, <1>4, <3>2
      <4>2. Shape(ss[i]) \in ScopesAt(q, d, k) BY <1>2, <4>1
      <4>3. Around(Shape(ss[i]), n) BY <1>4, ShapeFacts
      <4>4. Shape(ss[i]).inherits BY <2>2, <2>3, <4>2, <4>3
      <4>5. ss[i].inherits BY <4>4, ShapeFacts
      <4>6. QED BY <1>4, <4>5
    <3>3. QED BY <3>1, <3>2
  <2>4. CASE ScopeOf(q, d, j, e) # {}
    <3>1. PICK s : s \in ScopeOf(q, d, j, e) BY <2>4
    <3>2. PICK m \in 2..l : s = Shape(ss[m]) /\ ScopeOf(q, d, j, e) = {s} BY <1>0, <3>1, ScopeOfOne
    <3>3. t \in ss[m].defs
      <4>1. m # 1 /\ m \in 1..l OBVIOUS
      <4>2. t \in Held(q, d, k, m, s) BY <2>2, <3>1, <4>1, HeldBy
      <4>3. QED BY <1>2, <3>2, <4>1, <4>2
    <3>4. Around(ss[m], n) /\ Width(s) = Width(ss[m])
      <4>1. Around(s, n) BY <2>2, <3>1
      <4>2. QED BY <3>2, <4>1, ShapeFacts
    <3>5. m <= i BY <1>4, <1>7, <3>3, <3>4
    <3>6. CASE m = i BY <3>3, <3>6
    <3>7. CASE m < i
      <4>1. i \in 2..l BY <1>4, <3>7
      <4>2. Width(ss[i]) < Width(ss[m]) BY <1>4, <1>6, <3>4, <3>7, <4>1
      <4>3. Shape(ss[i]) \in ScopesAt(q, d, k) BY <1>2, <4>1
      <4>4. Around(Shape(ss[i]), n) /\ Width(Shape(ss[i])) < Width(s) BY <1>4, <3>4, <4>2, ShapeFacts
      <4>5. Shape(ss[i]).inherits BY <2>2, <3>2, <4>3, <4>4
      <4>6. ss[i].inherits BY <4>5, ShapeFacts
      <4>7. QED BY <1>4, <4>6
    <3>8. QED BY <1>4, <3>5, <3>6, <3>7
  <2>5. QED BY <2>3, <2>4
<1>10. i # 0 BY <1>4
<1>11. QED BY <1>1, <1>8, <1>9, <1>10

-----------------------------------------------------------------------------
(* The tag of a match                                                        *)

\* The last of some captures.
LEMMA LastOf ==
  ASSUME NEW cs, IsSeq(cs), NEW S, S \subseteq DOMAIN cs, S # {}
  PROVE  \E i \in S : {k \in S : \A m \in S : m <= k} = {i}
<1>1. DOMAIN cs = 1..Len(cs) /\ Len(cs) \in Nat BY AppendFacts
<1>2. PICK i : i = Max(S) OBVIOUS
<1>3. i \in S /\ \A y \in S : i >= y BY <1>1, <1>2, GreatestIn
<1>4. {k \in S : \A m \in S : m <= k} = {i}
  <2>1. \A k \in S : k \in 1..Len(cs) BY <1>1
  <2>2. ASSUME NEW k \in S, \A m \in S : m <= k PROVE k = i BY <1>1, <1>3, <2>1, <2>2
  <2>3. \A m \in S : m <= i BY <1>1, <1>3, <2>1
  <2>4. QED BY <1>3, <2>2, <2>3
<1>5. QED BY <1>3, <1>4

\* The capture that names the match is the only one there is.
LEMMA NameNodes ==
  ASSUME MatchesOfQuery, OneNameEach, Base, TagsMatch
  PROVE  /\ NameCapture = {} <=> NodesOf(query, Match, <<"name", "">>) = {} /\ NodesOf(query, Match, <<"ignore", "">>) = {}
         /\ NameCapture # {} => /\ NamesOf(query, Match) = {The(NameCapture)}
                                /\ NodesOf(query, Match, <<"name", "">>) \subseteq {The(NameCapture)}
<1> DEFINE F == {i \in DOMAIN Match.captures : Match.captures[i].index \in {config.name, config.ignore}}
           X == <<"name", "">>
           Y == <<"ignore", "">>
<1>0. MatchDue BY DEF TagsMatch
<1>1. PICK k : k = matched + 1 OBVIOUS
<1>2. Match = input.matches[k] BY <1>1 DEF Match
<1>3. k \in 1..Len(input.matches) /\ query \in Queries /\ input \in Inputs(query) /\ IsTagsMatch(query, Match)
  BY <1>0, <1>1, ConfigFacts DEF TagsMatch
<1>4. \A i \in DOMAIN Match.captures : Match.captures[i] \in ToSet(Match.captures) BY DEF ToSet
<1>5. \A c \in ToSet(Match.captures) : (c.index = config.name <=> query.names[c.index] = X)
        /\ (c.index = config.ignore <=> query.names[c.index] = Y)
  BY <1>0, ConfigFacts
<1>6. \A i \in DOMAIN Match.captures : i \in F <=> query.names[Match.captures[i].index] \in {X, Y}
  BY <1>4, <1>5
<1>7. \A i, j \in F : i = j
  <2>1. \A i, j \in DOMAIN Match.captures :
          query.names[Match.captures[i].index] \in {X, Y} /\ query.names[Match.captures[j].index] \in {X, Y} => i = j
    <3>1. \A i, j \in DOMAIN input.matches[k].captures :
            query.names[input.matches[k].captures[i].index] \in {X, Y}
            /\ query.names[input.matches[k].captures[j].index] \in {X, Y} => i = j
      <4>1. IsTagsMatch(query, input.matches[k]) BY <1>2, <1>3
      <4>2. QED BY <1>3, <4>1 DEF OneNameEach
    <3>2. QED BY <1>2, <3>1
  <2>2. F \subseteq DOMAIN Match.captures OBVIOUS
  <2> HIDE DEF F, X, Y
  <2>3. QED BY <1>6, <2>1, <2>2
<1>8. \A c \in ToSet(Match.captures) : query.names[c.index] \in {X, Y} => \E i \in F : Match.captures[i] = c
  BY <1>6 DEF ToSet
<1>9. NameCapture = {Match.captures[i] : i \in {j \in F : \A m \in F : m <= j}}
  BY Zenon DEF NameCapture, LastCapture
<1>10. NamesOf(query, Match) = {Match.captures[i].node : i \in F}
  <2>1. status = "running" BY <1>0 DEF MatchDue
  <2>2. config.name = IndexOf(query.names, X) /\ config.ignore = IndexOf(query.names, Y)
    <3>1. config = NewConfiguration(query) BY <2>1 DEF Base
    <3>2. QED BY <3>1 DEF NewConfiguration
  <2>3. QED BY <2>2 DEF NamesOf
<1>11. \A name \in {X, Y} : \A n \in NodesOf(query, Match, name) : \E i \in F : n = Match.captures[i].node
  <2> SUFFICES ASSUME NEW name \in {X, Y}, NEW n \in NodesOf(query, Match, name)
               PROVE  \E i \in F : n = Match.captures[i].node
    OBVIOUS
  <2>1. PICK c \in ToSet(Match.captures) : query.names[c.index] = name /\ n = c.node BY DEF NodesOf
  <2> HIDE DEF F, X, Y
  <2>2. QED BY <1>8, <2>1
<1>12. \A i \in F : Match.captures[i].node \in NodesOf(query, Match, X) \/ Match.captures[i].node \in NodesOf(query, Match, Y)
  <2> SUFFICES ASSUME NEW i \in F
               PROVE  Match.captures[i].node \in NodesOf(query, Match, X) \/ Match.captures[i].node \in NodesOf(query, Match, Y)
    OBVIOUS
  <2>1. PICK c : c = Match.captures[i] OBVIOUS
  <2>2. c \in ToSet(Match.captures) /\ (query.names[c.index] = X \/ query.names[c.index] = Y) BY <1>4, <1>6, <2>1
  <2>3. QED BY <2>1, <2>2 DEF NodesOf
<1>13. CASE F = {}
  <2>1. NameCapture = {} BY <1>9, <1>13
  <2>2. NodesOf(query, Match, X) = {} /\ NodesOf(query, Match, Y) = {} BY <1>11, <1>13
  <2>3. QED BY <2>1, <2>2
<1>14. CASE F # {}
  <2>1. PICK i : i \in F BY <1>14
  <2>2. F = {i} BY <1>7, <2>1
  <2>3. i \in DOMAIN Match.captures BY <2>1
  <2> HIDE DEF F
  <2>4. i \in Nat
    <3>1. Match.captures \in Seq(ToSet(Match.captures)) BY <1>2, <1>3 DEF MatchesOfQuery
    <3>2. DOMAIN Match.captures = 1..Len(Match.captures) BY <3>1, LenProperties
    <3>3. QED BY <2>3, <3>2
  <2>5. {j \in F : \A m \in F : m <= j} = {i} BY <2>2, <2>4
  <2>6. NameCapture = {Match.captures[i]} BY <1>9, <2>5
  <2>7. The(NameCapture) = Match.captures[i].node BY <2>6 DEF The
  <2>8. NamesOf(query, Match) = {Match.captures[i].node} BY <1>10, <2>2
  <2>9. NodesOf(query, Match, X) \subseteq {Match.captures[i].node} BY <1>11, <2>2
  <2>10. ~(NodesOf(query, Match, X) = {} /\ NodesOf(query, Match, Y) = {}) BY <1>12, <2>1
  <2>11. NameCapture # {} BY <2>6
  <2>12. QED BY <2>7, <2>8, <2>9, <2>10, <2>11
<1>15. QED BY <1>13, <1>14

\* The capture that says what the name is, and the one that ignores it.
LEMMA RoleNodes ==
  ASSUME MatchesOfQuery, OneNameEach, Base, TagsMatch
  PROVE  /\ Ignored <=> NodesOf(query, Match, <<"ignore", "">>) # {}
         /\ TagCapture = {} <=> Roles(query, Match) = {}
         /\ TagCapture # {} => /\ config.captures[(CHOOSE c \in TagCapture : TRUE).index] = TagKind(query, Match)
                               /\ NodesOf(query, Match, <<"ignore", "">>) = {}
<1> DEFINE R == {i \in DOMAIN Match.captures : Match.captures[i].index \in DOMAIN config.captures}
<1>0. MatchDue BY DEF TagsMatch
<1>1. PICK k : k = matched + 1 OBVIOUS
<1>2. Match = input.matches[k] BY <1>1 DEF Match
<1>3. k \in 1..Len(input.matches) /\ query \in Queries /\ input \in Inputs(query) /\ IsTagsMatch(query, Match)
  BY <1>0, <1>1, ConfigFacts DEF TagsMatch
<1>4. \A i \in DOMAIN Match.captures : Match.captures[i] \in ToSet(Match.captures) BY DEF ToSet
<1>5. \A c \in ToSet(Match.captures) :
        /\ c.index = config.ignore <=> query.names[c.index] = <<"ignore", "">>
        /\ c.index \in DOMAIN config.captures <=> query.names[c.index] \notin Special
        /\ c.index \in DOMAIN config.captures => config.captures[c.index] = NamedCapture(query.names, c.index)
  BY <1>0, ConfigFacts
<1>6. (\A a, b \in Roles(query, Match) : a = b)
      /\ (NodesOf(query, Match, <<"ignore", "">>) # {} => Roles(query, Match) = {})
  BY <1>2, <1>3, Zenon DEF OneNameEach
<1>7. Ignored <=> NodesOf(query, Match, <<"ignore", "">>) # {}
  <2>1. Ignored <=> \E c \in ToSet(Match.captures) : query.names[c.index] = <<"ignore", "">> BY <1>5 DEF Ignored
  <2>2. QED BY <2>1 DEF NodesOf
<1>8. \A i \in DOMAIN Match.captures : i \in R <=> Match.captures[i] \in Roles(query, Match)
  BY <1>4, <1>5 DEF Roles
<1>9. \A c \in Roles(query, Match) : \E i \in R : Match.captures[i] = c
  <2>1. \A c \in Roles(query, Match) : \E i \in DOMAIN Match.captures : Match.captures[i] = c BY DEF Roles, ToSet
  <2> HIDE DEF R
  <2>2. QED BY <1>8, <2>1
<1>10. TagCapture = {Match.captures[i] : i \in {j \in R : \A m \in R : m <= j}}
  BY Zenon DEF TagCapture, LastCapture
<1>11. R \subseteq DOMAIN Match.captures OBVIOUS
<1> HIDE DEF R
<1>12. CASE R = {}
  <2>1. TagCapture = {} BY <1>10, <1>12
  <2>2. Roles(query, Match) = {} BY <1>9, <1>12
  <2>3. QED BY <1>7, <2>1, <2>2
<1>13. CASE R # {}
  <2>1. IsSeq(Match.captures)
    <3>1. Match.captures \in Seq(ToSet(Match.captures)) BY <1>2, <1>3 DEF MatchesOfQuery
    <3>2. QED BY <3>1, AnySeq
  <2>2. PICK cs : cs = Match.captures OBVIOUS
  <2>3. PICK i \in R : {j \in R : \A m \in R : m <= j} = {i} BY <1>11, <1>13, <2>1, <2>2, LastOf
  <2>4. PICK c : c = Match.captures[i] OBVIOUS
  <2>5. TagCapture = {c} BY <1>10, <2>2, <2>3, <2>4
  <2>6. c \in Roles(query, Match) /\ c \in ToSet(Match.captures) BY <1>4, <1>8, <1>11, <2>3, <2>4
  <2>7. Roles(query, Match) = {c} BY <1>6, <2>6
  <2>8. (CHOOSE x \in TagCapture : TRUE) = c /\ (CHOOSE x \in Roles(query, Match) : TRUE) = c BY <2>5, <2>7
  <2>9. c.index \in DOMAIN config.captures BY <1>5, <2>6 DEF Roles
  <2>10. config.captures[c.index] = NamedCapture(query.names, c.index) BY <1>5, <2>6, <2>9
  <2>11. TagKind(query, Match) = config.captures[c.index] BY <2>8, <2>10 DEF TagKind
  <2>12. QED BY <1>6, <1>7, <2>5, <2>7, <2>8, <2>11
<1>14. QED BY <1>12, <1>13

\* A name is found to be local just when it is.
LEMMA NameLocal ==
  ASSUME NamesInText, MatchesOfQuery, OneNameEach, Base, ScopeInv, TagsMatch, NameCapture # {},
         NEW n, n = The(NameCapture), NEW k, k = matched + 1
  PROVE  IsLocal(scopes, n) <=> LocalAt(query, input, k, n)
<1>1. status = "running" /\ MatchDue BY DEF TagsMatch, MatchDue
<1>2. ScopesOK(query, input, k, scopes) BY <1>1 DEF ScopeInv
<1>3. k \in 1..Len(input.matches) /\ query \in Queries /\ input \in Inputs(query) /\ Len(input.matches) \in Nat
  BY <1>1, ConfigFacts DEF Base
<1>4. n \in NamesOf(query, input.matches[k]) BY NameNodes DEF Match
<1>5. n \in Known(query, input) BY <1>3, <1>4 DEF Known
<1>6. n.start \in Nat /\ n.end \in Nat /\ n.end <= Len(input.text) /\ Len(input.text) \in Nat
  BY <1>3, <1>4 DEF NamesInText
<1>7. Bytes(n.start, n.end) = TextOf(input, n) BY DEF Bytes, TextOf, text
<1>8. PICK ss : ss = scopes OBVIOUS
<1>9. PICK i : i = LastDeciding(ss, n, TextOf(input, n)) OBVIOUS
<1>10. IsLocal(ss, n) <=> i # 0 /\ TextOf(input, n) \in ss[i].defs
  <2>1. IsLocal(ss, n) <=>
          /\ LastDeciding(ss, n, Bytes(n.start, n.end)) # 0
          /\ Bytes(n.start, n.end) \in ss[LastDeciding(ss, n, Bytes(n.start, n.end))].defs
    BY Zenon DEF IsLocal, LastDeciding
  <2>2. QED BY <1>7, <1>9, <2>1
<1>11. k \in Nat \ {0} /\ k <= Len(input.matches) BY <1>3
<1>12. i # 0 /\ TextOf(input, n) \in ss[i].defs <=> LocalAt(query, input, k, n)
  BY <1>2, <1>3, <1>5, <1>6, <1>8, <1>9, <1>11, LocalAgrees
<1>13. QED BY <1>8, <1>10, <1>12

\* What a match of the tags query is taken for is what it means.
LEMMA MatchMeaning ==
  ASSUME NamesInText, MatchesOfQuery, OneNameEach, Base, ScopeInv, TagsMatch, NEW k, k = matched + 1
  PROVE  /\ Refused => ~Wanted(query, input, k) /\ ~Unwanted(query, input, k)
         /\ ~Refused => NamesOf(query, Match) = {The(NameCapture)}
         /\ ~Refused /\ TagCapture # {} => Wanted(query, input, k) /\ ~Unwanted(query, input, k)
         /\ ~Refused /\ TagCapture = {} => ~Wanted(query, input, k) /\ Unwanted(query, input, k)
<1> DEFINE N == NodesOf(query, Match, <<"name", "">>)
           G == NodesOf(query, Match, <<"ignore", "">>)
           R == Roles(query, Match)
           T == PatternOf(query, Match)
<1>0. MatchDue BY DEF TagsMatch
<1>1. Match = input.matches[k] BY DEF Match
<1>2. IsTagsMatch(query, Match) /\ Info = PatternInfo(query.names, T) BY <1>0, ConfigFacts DEF TagsMatch
<1>3. Info.nonlocal = T.nonlocal BY <1>2 DEF PatternInfo
<1>4. /\ NameCapture = {} <=> N = {} /\ G = {}
      /\ NameCapture # {} => NamesOf(query, Match) = {The(NameCapture)} /\ N \subseteq {The(NameCapture)}
  BY NameNodes
<1>5. /\ Ignored <=> G # {}
      /\ TagCapture = {} <=> R = {}
      /\ TagCapture # {} => G = {}
  BY RoleNodes
<1>6. Wanted(query, input, k) <=>
        /\ N # {} /\ R # {} /\ G = {}
        /\ \A n \in N : ~n.error /\ ~(T.nonlocal /\ LocalAt(query, input, k, n))
  BY <1>1, <1>2 DEF Wanted
<1>7. Unwanted(query, input, k) <=> G # {} BY <1>1, <1>2 DEF Unwanted
<1>8. PICK n : n = The(NameCapture) OBVIOUS
<1>9. NameCapture # {} => (IsLocal(scopes, n) <=> LocalAt(query, input, k, n)) BY <1>8, NameLocal
<1>10. Refused <=> \/ NameCapture = {}
                   \/ TagCapture = {} /\ ~Ignored
                   \/ TagCapture # {} /\ (n.error \/ (T.nonlocal /\ IsLocal(scopes, n)))
  BY <1>3, <1>8 DEF Refused
<1> HIDE DEF N, G, R, T
<1>11. CASE NameCapture = {} BY <1>4, <1>6, <1>7, <1>10, <1>11
<1>12. CASE NameCapture # {} /\ TagCapture = {} BY <1>4, <1>5, <1>6, <1>7, <1>10, <1>12
<1>13. CASE NameCapture # {} /\ TagCapture # {}
  <2>1. N = {n} BY <1>4, <1>5, <1>8, <1>13
  <2>2. Wanted(query, input, k) <=> ~n.error /\ ~(T.nonlocal /\ LocalAt(query, input, k, n))
    BY <1>5, <1>6, <1>13, <2>1
  <2>3. QED BY <1>4, <1>5, <1>7, <1>9, <1>10, <1>13, <2>2
<1>14. QED BY <1>11, <1>12, <1>13

\* Queueing keeps the names that are queued and adds one; of two patterns for a name the
\* first is kept.
LEMMA QueuedMeaning ==
  ASSUME IsSeq(tag_queue), Sorted(tag_queue), \A i \in DOMAIN tag_queue : Named(tag_queue[i].tag.name),
         NEW tag, Named(tag.name), NEW pattern, NEW q, q = Queued(tag, pattern)
  PROVE  /\ \A j \in DOMAIN tag_queue : \E i \in DOMAIN q : q[i].tag.name = tag_queue[j].tag.name
         /\ \E i \in DOMAIN q : q[i].tag.name = tag.name
         /\ \A i \in DOMAIN q :
              \/ /\ q[i] = [tag |-> tag, pattern |-> pattern]
                 /\ \A j \in DOMAIN tag_queue : tag_queue[j].tag.name = tag.name => pattern < tag_queue[j].pattern
              \/ \E j \in DOMAIN tag_queue :
                   q[i] = tag_queue[j] /\ (tag_queue[j].tag.name = tag.name => ~(pattern < tag_queue[j].pattern))
<1> DEFINE N(k) == tag_queue[k].tag.name
           entry == [tag |-> tag, pattern |-> pattern]
<1>0. PICK n : n = Len(tag_queue) OBVIOUS
<1>1. PICK i : i = Position(tag) OBVIOUS
<1>2. n \in Nat /\ DOMAIN tag_queue = 1..n /\ i \in 1..(n + 1) BY <1>0, <1>1, PositionInQueue
<1>3. q = IF i <= n /\ N(i) = tag.name
          THEN IF pattern < tag_queue[i].pattern THEN [tag_queue EXCEPT ![i] = entry] ELSE tag_queue
          ELSE InsertAt(tag_queue, i, entry)
  BY <1>0, <1>1 DEF Queued, Position, Prefers
<1>4. \A k \in 1..n : Named(N(k)) BY <1>2
<1>5. \A j, k \in 1..n : N(j) = N(k) => j = k
  <2> SUFFICES ASSUME NEW j \in 1..n, NEW k \in 1..n, j < k, N(j) = N(k) PROVE FALSE OBVIOUS
  <2>1. KeyLess(N(j), N(k)) BY <1>2 DEF Sorted
  <2>2. Named(N(k)) BY <1>4
  <2> HIDE DEF N
  <2>3. QED BY <2>1, <2>2 DEF KeyLess, Named
<1>6. entry.tag = tag OBVIOUS
<1>7. CASE i <= n /\ N(i) = tag.name /\ pattern < tag_queue[i].pattern
  <2>1. i \in 1..n BY <1>2, <1>7
  <2>2. q = [tag_queue EXCEPT ![i] = entry] BY <1>3, <1>7
  <2> HIDE DEF entry
  <2>3. DOMAIN q = 1..n /\ \A k \in 1..n : q[k] = IF k = i THEN entry ELSE tag_queue[k]
    BY <1>0, <2>1, <2>2, ExceptFacts
  <2>4. \A k \in 1..n : q[k].tag.name = N(k) BY <1>6, <1>7, <2>3
  <2>5. \A j \in 1..n : N(j) = tag.name => j = i BY <1>5, <1>7, <2>1
  <2>6. \A k \in 1..n : \/ q[k] = entry /\ \A j \in 1..n : N(j) = tag.name => pattern < tag_queue[j].pattern
                        \/ q[k] = tag_queue[k] /\ (N(k) = tag.name => ~(pattern < tag_queue[k].pattern))
    BY <1>7, <2>3, <2>5
  <2>7. QED BY <1>2, <1>7, <2>1, <2>3, <2>4, <2>6 DEF entry
<1>8. CASE i <= n /\ N(i) = tag.name /\ ~(pattern < tag_queue[i].pattern)
  <2>1. i \in 1..n BY <1>2, <1>8
  <2>2. q = tag_queue BY <1>3, <1>8
  <2>3. \A j \in 1..n : N(j) = tag.name => j = i BY <1>5, <1>8, <2>1
  <2>4. QED BY <1>2, <1>8, <2>1, <2>2, <2>3
<1>9. CASE ~(i <= n /\ N(i) = tag.name)
  <2>1. q = InsertAt(tag_queue, i, entry) BY <1>3, <1>9
  <2> HIDE DEF entry
  <2>2. /\ DOMAIN q = 1..(n + 1)
        /\ \A k \in 1..(n + 1) : q[k] = IF k < i THEN tag_queue[k] ELSE IF k = i THEN entry ELSE tag_queue[k - 1]
    BY <1>0, <1>2, <2>1, InsertFacts
  <2>3. \A k \in 1..n : k < i <=> KeyLess(N(k), tag.name) BY <1>0, <1>1, PositionSplits
  <2>4. ASSUME NEW j \in 1..n, N(j) = tag.name PROVE FALSE
    <3>1. ~KeyLess(N(j), tag.name) BY <2>4 DEF KeyLess, Named
    <3>2. i <= j /\ i # j /\ i \in 1..n BY <1>2, <1>9, <2>3, <2>4, <3>1
    <3>3. KeyLess(N(i), N(j)) BY <1>2, <3>2 DEF Sorted
    <3>4. i < i BY <2>3, <2>4, <3>2, <3>3
    <3>5. QED BY <1>2, <3>4
  <2>5. ASSUME NEW j \in 1..n PROVE \E k \in 1..(n + 1) : q[k] = tag_queue[j]
    <3>1. CASE j < i BY <1>2, <2>2, <3>1
    <3>2. CASE j >= i
      <4>1. j + 1 \in 1..(n + 1) /\ ~(j + 1 < i) /\ j + 1 # i /\ (j + 1) - 1 = j BY <1>2, <3>2
      <4>2. q[j + 1] = tag_queue[j] BY <2>2, <4>1
      <4>3. QED BY <4>1, <4>2
    <3>3. QED BY <1>2, <3>1, <3>2
  <2>6. q[i] = entry BY <1>2, <2>2
  <2>7. ASSUME NEW k \in 1..(n + 1), k # i PROVE \E j \in 1..n : q[k] = tag_queue[j]
    <3>1. CASE k < i
      <4>1. k \in 1..n BY <1>2, <3>1
      <4>2. QED BY <2>2, <3>1, <4>1
    <3>2. CASE k > i
      <4>1. k - 1 \in 1..n /\ ~(k < i) BY <1>2, <3>2
      <4>2. QED BY <2>2, <2>7, <4>1
    <3>3. QED BY <1>2, <2>7, <3>1, <3>2
  <2>8. \A j \in 1..n : N(j) # tag.name BY <2>4
  <2>9. \A k \in 1..(n + 1) :
          \/ q[k] = entry /\ \A j \in 1..n : N(j) = tag.name => pattern < tag_queue[j].pattern
          \/ \E j \in 1..n : q[k] = tag_queue[j] /\ (N(j) = tag.name => ~(pattern < tag_queue[j].pattern))
    BY <2>6, <2>7, <2>8
  <2>10. q[i].tag.name = tag.name BY <1>6, <2>6
  <2>11. \A j \in DOMAIN tag_queue : \E k \in DOMAIN q : q[k].tag.name = tag_queue[j].tag.name BY <1>2, <2>2, <2>5
  <2>12. \E k \in DOMAIN q : q[k].tag.name = tag.name BY <1>2, <2>2, <2>10
  <2>13. \A k \in DOMAIN q :
          \/ q[k] = entry /\ \A j \in DOMAIN tag_queue : tag_queue[j].tag.name = tag.name => pattern < tag_queue[j].pattern
          \/ \E j \in DOMAIN tag_queue :
               q[k] = tag_queue[j] /\ (tag_queue[j].tag.name = tag.name => ~(pattern < tag_queue[j].pattern))
    BY <1>2, <2>2, <2>9
  <2>14. QED BY <2>11, <2>12, <2>13, Zenon DEF entry
<1>10. QED BY <1>7, <1>8, <1>9

\* The patterns of matches are compared as numbers.
LEMMA MatchPatterns ==
  ASSUME MatchesOfQuery, NEW q \in Queries, NEW d \in Inputs(q), NEW k \in 1..Len(d.matches)
  PROVE  d.matches[k].pattern \in Nat
<1>1. d.matches[k].pattern \in DOMAIN (q.locals \o q.tags) BY DEF MatchesOfQuery
<1>2. QED BY <1>1, PatternFacts

Decides(q, d, k) == Wanted(q, d, k) \/ Unwanted(q, d, k)
SameName(q, d, j, k) == TagName(q, d.matches[j]) = TagName(q, d.matches[k])

\* Those that decide about a name so far.
LEMMA WinnersAre ==
  ASSUME NEW q, NEW d, NEW n, NEW k
  PROVE  /\ k \in Candidates(q, d, n) <=> k \in 1..n /\ Decides(q, d, k)
         /\ k \in Winners(q, d, n) <=>
              /\ k \in Candidates(q, d, n)
              /\ \A j \in Candidates(q, d, n) : SameName(q, d, j, k) =>
                   \/ d.matches[k].pattern < d.matches[j].pattern
                   \/ d.matches[k].pattern = d.matches[j].pattern /\ k <= j
BY DEF Candidates, Winners, Decides, SameName

\* One match decides about a name.
LEMMA WinnersUnique ==
  ASSUME MatchesOfQuery, NEW q \in Queries, NEW d \in Inputs(q), Len(d.matches) \in Nat,
         NEW n \in 0..Len(d.matches), NEW j \in Winners(q, d, n), NEW k \in Winners(q, d, n), SameName(q, d, j, k)
  PROVE  j = k
<1>1. j \in Candidates(q, d, n) /\ k \in Candidates(q, d, n) BY WinnersAre
<1>2. j \in 1..n /\ k \in 1..n BY <1>1, WinnersAre
<1>3. j \in 1..Len(d.matches) /\ k \in 1..Len(d.matches) BY <1>2
<1>4. d.matches[j].pattern \in Nat /\ d.matches[k].pattern \in Nat BY <1>3, MatchPatterns
<1>5. SameName(q, d, k, j) BY DEF SameName
<1>6. d.matches[k].pattern < d.matches[j].pattern
      \/ (d.matches[k].pattern = d.matches[j].pattern /\ k <= j)
  BY <1>1, WinnersAre
<1>7. d.matches[j].pattern < d.matches[k].pattern
      \/ (d.matches[j].pattern = d.matches[k].pattern /\ j <= k)
  BY <1>1, <1>5, WinnersAre
<1>8. PICK a, b : a = d.matches[j].pattern /\ b = d.matches[k].pattern OBVIOUS
<1>9. QED BY <1>2, <1>4, <1>6, <1>7, <1>8

\* The candidates, match by match.
LEMMA CandidatesNext ==
  ASSUME NEW q, NEW d, NEW n \in Nat, NEW k
  PROVE  /\ k \in Candidates(q, d, n + 1) <=> k \in Candidates(q, d, n) \/ (k = n + 1 /\ Decides(q, d, k))
         /\ k \in Candidates(q, d, n) => k # n + 1
<1>1. k \in 1..(n + 1) <=> k \in 1..n \/ k = n + 1 OBVIOUS
<1>2. k \in 1..n => k # n + 1 OBVIOUS
<1>3. QED BY <1>1, <1>2, WinnersAre

\* A match that says nothing of a tag changes nothing.
LEMMA WinnersSame ==
  ASSUME NEW q, NEW d, NEW n \in Nat, ~Decides(q, d, n + 1)
  PROVE  Candidates(q, d, n + 1) = Candidates(q, d, n) /\ Winners(q, d, n + 1) = Winners(q, d, n)
<1>1. \A k : k \in Candidates(q, d, n + 1) <=> k \in Candidates(q, d, n)
  <2> SUFFICES ASSUME NEW k PROVE k \in Candidates(q, d, n + 1) <=> k \in Candidates(q, d, n) OBVIOUS
  <2>1. k \in Candidates(q, d, n + 1) <=> k \in Candidates(q, d, n) \/ (k = n + 1 /\ Decides(q, d, k)) BY CandidatesNext
  <2>2. QED BY <2>1
<1>2. Candidates(q, d, n + 1) = Candidates(q, d, n) BY <1>1
<1>3. QED BY <1>2, Zenon DEF Winners

\* One that decided goes on to do so unless the new match is for its name and of an
\* earlier pattern.
LEMMA WinnersKeep ==
  ASSUME MatchesOfQuery, NEW q \in Queries, NEW d \in Inputs(q), Len(d.matches) \in Nat,
         NEW n \in Nat, n < Len(d.matches), NEW k \in Winners(q, d, n),
         SameName(q, d, n + 1, k) => ~(d.matches[n + 1].pattern < d.matches[k].pattern)
  PROVE  k \in Winners(q, d, n + 1)
<1>1. k \in Candidates(q, d, n) /\ k \in 1..n BY WinnersAre
<1>2. k \in Candidates(q, d, n + 1) BY <1>1, CandidatesNext
<1>3. ASSUME NEW j \in Candidates(q, d, n + 1), SameName(q, d, j, k)
      PROVE  \/ d.matches[k].pattern < d.matches[j].pattern
             \/ d.matches[k].pattern = d.matches[j].pattern /\ k <= j
  <2>1. CASE j \in Candidates(q, d, n) BY <1>3, <2>1, WinnersAre
  <2>2. CASE j = n + 1
    <3>1. PICK a, b : a = d.matches[j].pattern /\ b = d.matches[k].pattern OBVIOUS
    <3>2. ~(a < b) BY <1>3, <2>2, <3>1
    <3>3. j \in 1..Len(d.matches) /\ k \in 1..Len(d.matches) BY <1>1, <2>2
    <3>4. a \in Nat /\ b \in Nat BY <3>1, <3>3, MatchPatterns
    <3>5. k <= j BY <1>1, <2>2
    <3>6. b < a \/ b = a BY <3>2, <3>4
    <3>7. QED BY <3>1, <3>5, <3>6
  <2>3. QED BY <2>1, <2>2, CandidatesNext
<1>4. QED BY <1>2, <1>3, WinnersAre

\* The new match decides when it is of an earlier pattern than all for its name.
LEMMA WinnersNew ==
  ASSUME NEW q, NEW d, NEW n \in Nat, Decides(q, d, n + 1),
         \A j \in Candidates(q, d, n) : SameName(q, d, j, n + 1) => d.matches[n + 1].pattern < d.matches[j].pattern
  PROVE  n + 1 \in Winners(q, d, n + 1)
<1>1. PICK k : k = n + 1 OBVIOUS
<1>2. k \in Candidates(q, d, n + 1) BY <1>1, CandidatesNext
<1>3. ASSUME NEW j \in Candidates(q, d, n + 1), SameName(q, d, j, k)
      PROVE  \/ d.matches[k].pattern < d.matches[j].pattern
             \/ d.matches[k].pattern = d.matches[j].pattern /\ k <= j
  <2>1. CASE j \in Candidates(q, d, n) BY <1>1, <1>3, <2>1
  <2>2. CASE j = n + 1 BY <1>1, <2>2
  <2>3. QED BY <2>1, <2>2, CandidatesNext
<1>4. k \in Winners(q, d, n + 1) BY <1>2, <1>3, WinnersAre
<1>5. QED BY <1>1, <1>4

\* Who decides now decided before, if there.
LEMMA WinnersDown ==
  ASSUME NEW q, NEW d, NEW n \in Nat, NEW k \in Winners(q, d, n + 1), k \in Candidates(q, d, n)
  PROVE  k \in Winners(q, d, n)
<1>1. \A j \in Candidates(q, d, n) : j \in Candidates(q, d, n + 1) BY CandidatesNext
<1>2. \A j \in Candidates(q, d, n + 1) : SameName(q, d, j, k) =>
        \/ d.matches[k].pattern < d.matches[j].pattern
        \/ d.matches[k].pattern = d.matches[j].pattern /\ k <= j
  BY WinnersAre
<1>3. QED BY <1>1, <1>2, WinnersAre

-----------------------------------------------------------------------------
(* A tag for each node                                                       *)

\* A tag, or a placeholder, of the k-th match.
IsTagOf(q, d, k, tag) ==
  /\ tag.name = TagName(q, d.matches[k])
  /\ tag.ignored <=> Unwanted(q, d, k)
  /\ Wanted(q, d, k) => tag.kind = TagKind(q, d.matches[k])

QueueOK(q, d, n, tq) ==
  \A i \in DOMAIN tq : \E k \in Winners(q, d, n) :
    IsTagOf(q, d, k, tq[i].tag) /\ tq[i].pattern = d.matches[k].pattern
BufferOK(q, d, n, bs) == \A i \in DOMAIN bs : \E k \in Winners(q, d, n) : IsTagOf(q, d, k, bs[i])

\* The name of a match is in the queue; or it lies before all names to come, and the
\* match has its tag in the buffer if it decides.
Kept(q, d, n, tq, bs, seen, k) ==
  \/ \E i \in DOMAIN tq : tq[i].tag.name = TagName(q, d.matches[k])
  \/ /\ n < Len(d.matches) => \E m \in seen : TagName(q, d.matches[k]).end < m.start
     /\ k \in Winners(q, d, n) /\ Wanted(q, d, k) => \E i \in DOMAIN bs : ~bs[i].ignored /\ IsTagOf(q, d, k, bs[i])

\* Queue and buffer have the tags of the matches that decide so far.
TagInv ==
  status \in {"running", "finished"} =>
    /\ QueueOK(query, input, matched, tag_queue) /\ BufferOK(query, input, matched, buffer)
    /\ \A k \in Candidates(query, input, matched) : Kept(query, input, matched, tag_queue, buffer, Seen, k)
    /\ status = "finished" => tag_queue = <<>> /\ matched = Len(input.matches)

\* The first of the queue goes to the buffer, or is forgotten when it is ignored.
LEMMA TagShift ==
  ASSUME MatchesOfQuery, NEW q \in Queries, NEW d \in Inputs(q), Len(d.matches) \in Nat, NEW n \in 0..Len(d.matches),
         NEW tq, IsSeq(tq), tq # <<>>, NEW bs, IsSeq(bs), NEW bt, NEW seen,
         bt = Append(bs, tq[1].tag) \/ (bt = bs /\ tq[1].tag.ignored),
         n < Len(d.matches) => \E m \in seen : tq[1].tag.name.end < m.start,
         QueueOK(q, d, n, tq), BufferOK(q, d, n, bs), \A k \in Candidates(q, d, n) : Kept(q, d, n, tq, bs, seen, k)
  PROVE  /\ QueueOK(q, d, n, Tail(tq)) /\ BufferOK(q, d, n, bt)
         /\ \A k \in Candidates(q, d, n) : Kept(q, d, n, Tail(tq), bt, seen, k)
<1>0. PICK l : l = Len(tq) OBVIOUS
<1>1. PICK r : r = Tail(tq) OBVIOUS
<1>2. PICK x : x = tq[1].tag OBVIOUS
<1>3. /\ l \in Nat \ {0} /\ DOMAIN tq = 1..l /\ DOMAIN r = 1..(l - 1)
      /\ \A i \in 1..(l - 1) : r[i] = tq[i + 1]
  BY <1>0, <1>1, TailFacts
<1>4. 1 \in DOMAIN tq /\ \A i \in 1..(l - 1) : i + 1 \in DOMAIN tq BY <1>3
<1>5. QueueOK(q, d, n, r) BY <1>3, <1>4 DEF QueueOK
<1>6. PICK w \in Winners(q, d, n) : IsTagOf(q, d, w, x) BY <1>2, <1>4 DEF QueueOK
<1>7. /\ Len(bs) \in Nat /\ DOMAIN bs = 1..Len(bs)
      /\ \A i \in DOMAIN bs : i \in DOMAIN bt /\ bt[i] = bs[i]
      /\ ~x.ignored => \E i \in DOMAIN bt : bt[i] = x
      /\ \A i \in DOMAIN bt : bt[i] = x \/ \E j \in DOMAIN bs : bt[i] = bs[j]
  <2>1. Len(bs) \in Nat /\ DOMAIN bs = 1..Len(bs) BY AppendFacts
  <2>2. CASE bt = Append(bs, x)
    <3>1. /\ DOMAIN bt = 1..(Len(bs) + 1) /\ bt[Len(bs) + 1] = x
          /\ \A i \in 1..Len(bs) : bt[i] = bs[i]
      BY <2>2, AppendFacts
    <3>2. \A i \in 1..(Len(bs) + 1) : i \in 1..Len(bs) \/ i = Len(bs) + 1 BY <2>1
    <3>3. Len(bs) + 1 \in 1..(Len(bs) + 1) /\ \A i \in 1..Len(bs) : i \in 1..(Len(bs) + 1) BY <2>1
    <3>4. QED BY <2>1, <3>1, <3>2, <3>3
  <2>3. CASE bt = bs /\ x.ignored BY <2>1, <2>3
  <2>4. QED BY <1>2, <2>2, <2>3
<1>8. BufferOK(q, d, n, bt) BY <1>6, <1>7 DEF BufferOK
<1>9. ASSUME NEW k \in Candidates(q, d, n) PROVE Kept(q, d, n, r, bt, seen, k)
  <2>1. CASE \E i \in DOMAIN tq : tq[i].tag.name = TagName(q, d.matches[k])
    <3>1. PICK i \in DOMAIN tq : tq[i].tag.name = TagName(q, d.matches[k]) BY <2>1
    <3>2. CASE i # 1
      <4>1. i - 1 \in 1..(l - 1) /\ (i - 1) + 1 = i BY <1>3, <3>2
      <4>2. r[i - 1] = tq[i] BY <1>3, <4>1
      <4>3. i - 1 \in DOMAIN r /\ r[i - 1].tag.name = TagName(q, d.matches[k]) BY <1>3, <3>1, <4>1, <4>2
      <4>4. QED BY <4>3 DEF Kept
    <3>3. CASE i = 1
      <4>1. x.name = TagName(q, d.matches[k]) BY <1>2, <3>1, <3>3
      <4>2. n < Len(d.matches) => \E m \in seen : TagName(q, d.matches[k]).end < m.start BY <1>2, <4>1
      <4>3. ASSUME k \in Winners(q, d, n), Wanted(q, d, k)
            PROVE  \E j \in DOMAIN bt : ~bt[j].ignored /\ IsTagOf(q, d, k, bt[j])
        <5>1. SameName(q, d, k, w) BY <1>6, <4>1 DEF IsTagOf, SameName
        <5>2. k = w BY <1>6, <4>3, <5>1, WinnersUnique
        <5>3. ~Unwanted(q, d, k) BY <4>3 DEF Wanted, Unwanted
        <5>4. ~x.ignored BY <1>6, <5>2, <5>3 DEF IsTagOf
        <5>5. PICK j \in DOMAIN bt : bt[j] = x BY <1>7, <5>4
        <5>6. QED BY <1>6, <5>2, <5>4, <5>5
      <4>4. QED BY <4>2, <4>3 DEF Kept
    <3>4. QED BY <3>2, <3>3
  <2>2. CASE /\ n < Len(d.matches) => \E m \in seen : TagName(q, d.matches[k]).end < m.start
             /\ k \in Winners(q, d, n) /\ Wanted(q, d, k) =>
                  \E i \in DOMAIN bs : ~bs[i].ignored /\ IsTagOf(q, d, k, bs[i])
    BY <1>7, <2>2 DEF Kept
  <2>3. Kept(q, d, n, tq, bs, seen, k) OBVIOUS
  <2>4. QED BY <2>1, <2>2, <2>3 DEF Kept
<1>10. QED BY <1>1, <1>5, <1>8, <1>9

\* A match that says nothing of a tag.
LEMMA TagSkip ==
  ASSUME NEW q, NEW d, Len(d.matches) \in Nat, NEW n \in Nat, n < Len(d.matches), ~Decides(q, d, n + 1),
         NEW tq, NEW bs, NEW seen, NEW later, seen \subseteq later,
         QueueOK(q, d, n, tq), BufferOK(q, d, n, bs), \A k \in Candidates(q, d, n) : Kept(q, d, n, tq, bs, seen, k)
  PROVE  /\ QueueOK(q, d, n + 1, tq) /\ BufferOK(q, d, n + 1, bs)
         /\ \A k \in Candidates(q, d, n + 1) : Kept(q, d, n + 1, tq, bs, later, k)
<1>1. Candidates(q, d, n + 1) = Candidates(q, d, n) /\ Winners(q, d, n + 1) = Winners(q, d, n) BY WinnersSame
<1>2. QueueOK(q, d, n + 1, tq) BY <1>1 DEF QueueOK
<1>3. BufferOK(q, d, n + 1, bs) BY <1>1 DEF BufferOK
<1>4. ASSUME NEW k \in Candidates(q, d, n) PROVE Kept(q, d, n + 1, tq, bs, later, k)
  <2>1. Kept(q, d, n, tq, bs, seen, k) OBVIOUS
  <2>2. QED BY <1>1, <2>1 DEF Kept
<1>5. QED BY <1>1, <1>2, <1>3, <1>4

\* A tag or a placeholder is queued for the next match.
LEMMA TagQueue ==
  ASSUME MatchesOfQuery, NEW q \in Queries, NEW d \in Inputs(q), Len(d.matches) \in Nat, NEW n \in Nat, n < Len(d.matches),
         IsSeq(tag_queue), Sorted(tag_queue), \A i \in DOMAIN tag_queue : Named(tag_queue[i].tag.name),
         NEW t, Named(t.name), IsTagOf(q, d, n + 1, t), Decides(q, d, n + 1),
         NEW p, p = d.matches[n + 1].pattern, NEW r, r = Queued(t, p),
         NEW bs, NEW seen, NEW later, seen \subseteq later,
         \A m \in seen : m.start \in Nat /\ m.start <= t.name.end,
         \A i \in DOMAIN bs : \E m \in seen : bs[i].name.end < m.start,
         \A i \in DOMAIN bs : Named(bs[i].name),
         QueueOK(q, d, n, tag_queue), BufferOK(q, d, n, bs),
         \A k \in Candidates(q, d, n) : Kept(q, d, n, tag_queue, bs, seen, k)
  PROVE  /\ QueueOK(q, d, n + 1, r) /\ BufferOK(q, d, n + 1, bs)
         /\ \A k \in Candidates(q, d, n + 1) : Kept(q, d, n + 1, r, bs, later, k)
<1> DEFINE tq == tag_queue
<1>1. /\ \A j \in DOMAIN tq : \E i \in DOMAIN r : r[i].tag.name = tq[j].tag.name
      /\ \E i \in DOMAIN r : r[i].tag.name = t.name
      /\ \A i \in DOMAIN r :
           \/ /\ r[i] = [tag |-> t, pattern |-> p]
              /\ \A j \in DOMAIN tq : tq[j].tag.name = t.name => p < tq[j].pattern
           \/ \E j \in DOMAIN tq : r[i] = tq[j] /\ (tq[j].tag.name = t.name => ~(p < tq[j].pattern))
  BY QueuedMeaning
<1>2. t.name = TagName(q, d.matches[n + 1]) /\ t.name.end \in Nat BY DEF IsTagOf, Named
<1>3. \A x : (\E m \in seen : x.end < m.start) /\ x.end \in Nat => x # t.name
  <2> SUFFICES ASSUME NEW x, NEW m \in seen, x.end < m.start, x = t.name PROVE FALSE OBVIOUS
  <2>1. m.start \in Nat /\ m.start <= t.name.end OBVIOUS
  <2>2. QED BY <1>2, <2>1
<1>4. n + 1 \in 1..Len(d.matches) /\ p \in Nat
  <2>1. n + 1 \in 1..Len(d.matches) OBVIOUS
  <2>2. QED BY <2>1, MatchPatterns
<1>5. \A k \in Candidates(q, d, n) : k \in 1..Len(d.matches) /\ d.matches[k].pattern \in Nat
  <2> SUFFICES ASSUME NEW k \in Candidates(q, d, n) PROVE k \in 1..Len(d.matches) /\ d.matches[k].pattern \in Nat OBVIOUS
  <2>1. k \in 1..n BY WinnersAre
  <2>2. k \in 1..Len(d.matches) BY <2>1
  <2>3. QED BY <2>2, MatchPatterns
<1>6. ASSUME NEW k \in Candidates(q, d, n), SameName(q, d, k, n + 1)
      PROVE  \E i \in DOMAIN tq : tq[i].tag.name = TagName(q, d.matches[k])
  <2>1. TagName(q, d.matches[k]) = t.name BY <1>2, <1>6 DEF SameName
  <2>2. TagName(q, d.matches[k]).end \in Nat BY <1>2, <2>1
  <2>3. ~\E m \in seen : TagName(q, d.matches[k]).end < m.start BY <1>3, <2>1, <2>2
  <2>4. Kept(q, d, n, tq, bs, seen, k) OBVIOUS
  <2>5. QED BY <2>3, <2>4 DEF Kept
<1>7. QueueOK(q, d, n + 1, r)
  <2> SUFFICES ASSUME NEW i \in DOMAIN r
               PROVE  \E k \in Winners(q, d, n + 1) : IsTagOf(q, d, k, r[i].tag) /\ r[i].pattern = d.matches[k].pattern
    BY DEF QueueOK
  <2>1. CASE /\ r[i] = [tag |-> t, pattern |-> p]
             /\ \A j \in DOMAIN tq : tq[j].tag.name = t.name => p < tq[j].pattern
    <3>1. ASSUME NEW j \in Candidates(q, d, n), SameName(q, d, j, n + 1) PROVE p < d.matches[j].pattern
      <4>1. PICK m \in DOMAIN tq : tq[m].tag.name = TagName(q, d.matches[j]) BY <1>6, <3>1
      <4>2. TagName(q, d.matches[j]) = t.name BY <1>2, <3>1 DEF SameName
      <4>3. p < tq[m].pattern BY <2>1, <4>1, <4>2
      <4>4. PICK w \in Winners(q, d, n) : IsTagOf(q, d, w, tq[m].tag) /\ tq[m].pattern = d.matches[w].pattern
        BY <4>1 DEF QueueOK
      <4>5. SameName(q, d, j, w) BY <4>1, <4>4 DEF SameName, IsTagOf
      <4>6. d.matches[w].pattern < d.matches[j].pattern \/ d.matches[w].pattern = d.matches[j].pattern
        BY <3>1, <4>4, <4>5, WinnersAre
      <4>7. d.matches[w].pattern \in Nat /\ d.matches[j].pattern \in Nat
        <5>1. w \in Candidates(q, d, n) BY <4>4, WinnersAre
        <5>2. QED BY <1>5, <3>1, <5>1
      <4>8. PICK a, b : a = d.matches[w].pattern /\ b = d.matches[j].pattern OBVIOUS
      <4>9. QED BY <1>4, <4>3, <4>4, <4>6, <4>7, <4>8
    <3>2. n + 1 \in Winners(q, d, n + 1) BY <3>1, WinnersNew
    <3>3. r[i].tag = t /\ r[i].pattern = p BY <2>1
    <3>4. QED BY <3>2, <3>3
  <2>2. CASE \E j \in DOMAIN tq : r[i] = tq[j] /\ (tq[j].tag.name = t.name => ~(p < tq[j].pattern))
    <3>1. PICK j \in DOMAIN tq : r[i] = tq[j] /\ (tq[j].tag.name = t.name => ~(p < tq[j].pattern)) BY <2>2
    <3>2. PICK w \in Winners(q, d, n) : IsTagOf(q, d, w, tq[j].tag) /\ tq[j].pattern = d.matches[w].pattern
      BY <3>1 DEF QueueOK
    <3>3. SameName(q, d, n + 1, w) => ~(d.matches[n + 1].pattern < d.matches[w].pattern)
      BY <1>2, <3>1, <3>2 DEF SameName, IsTagOf
    <3>4. w \in Winners(q, d, n + 1) BY <3>2, <3>3, WinnersKeep
    <3>5. QED BY <3>1, <3>2, <3>4
  <2>3. QED BY <1>1, <2>1, <2>2
<1>8. BufferOK(q, d, n + 1, bs)
  <2> SUFFICES ASSUME NEW i \in DOMAIN bs PROVE \E k \in Winners(q, d, n + 1) : IsTagOf(q, d, k, bs[i])
    BY DEF BufferOK
  <2>1. PICK w \in Winners(q, d, n) : IsTagOf(q, d, w, bs[i]) BY DEF BufferOK
  <2>2. bs[i].name # t.name
    <3>1. bs[i].name.end \in Nat BY DEF Named
    <3>2. QED BY <1>3, <3>1
  <2>3. ~SameName(q, d, n + 1, w) BY <1>2, <2>1, <2>2 DEF SameName, IsTagOf
  <2>4. w \in Winners(q, d, n + 1) BY <2>1, <2>3, WinnersKeep
  <2>5. QED BY <2>1, <2>4
<1>9. ASSUME NEW k \in Candidates(q, d, n + 1) PROVE Kept(q, d, n + 1, r, bs, later, k)
  <2>1. CASE k = n + 1
    <3>1. \E i \in DOMAIN r : r[i].tag.name = TagName(q, d.matches[k]) BY <1>1, <1>2, <2>1
    <3>2. QED BY <3>1 DEF Kept
  <2>2. CASE k \in Candidates(q, d, n)
    <3>1. Kept(q, d, n, tq, bs, seen, k) BY <2>2
    <3>2. CASE \E i \in DOMAIN tq : tq[i].tag.name = TagName(q, d.matches[k])
      <4>1. PICK j \in DOMAIN tq : tq[j].tag.name = TagName(q, d.matches[k]) BY <3>2
      <4>2. PICK i \in DOMAIN r : r[i].tag.name = tq[j].tag.name BY <1>1, <4>1
      <4>3. QED BY <4>1, <4>2 DEF Kept
    <3>3. CASE /\ n < Len(d.matches) => \E m \in seen : TagName(q, d.matches[k]).end < m.start
               /\ k \in Winners(q, d, n) /\ Wanted(q, d, k) =>
                    \E i \in DOMAIN bs : ~bs[i].ignored /\ IsTagOf(q, d, k, bs[i])
      <4>1. \E m \in later : TagName(q, d.matches[k]).end < m.start BY <3>3
      <4>2. k \in Winners(q, d, n + 1) => k \in Winners(q, d, n) BY <2>2, WinnersDown
      <4>3. QED BY <3>3, <4>1, <4>2 DEF Kept
    <3>4. QED BY <3>1, <3>2, <3>3 DEF Kept
  <2>3. QED BY <2>1, <2>2, CandidatesNext
<1>10. QED BY <1>7, <1>8, <1>9

\* The names in the queue.
LEMMA QueueNamed ==
  ASSUME NamesInText, MatchesInOrder, Base, OrderInv, NEW i \in DOMAIN tag_queue
  PROVE  /\ Named(tag_queue[i].tag.name)
         /\ \E n \in Seen : tag_queue[i].tag.name = [start |-> n.start, end |-> n.end]
<1>1. PICK n \in Seen : tag_queue[i].tag.name = [start |-> n.start, end |-> n.end] BY DEF OrderInv
<1>2. n.start \in Nat /\ n.end \in Nat BY SeenFacts
<1>3. QED BY <1>1, <1>2 DEF Named

\* A tag leaves the queue early when a name was seen that it lies before.
LEMMA EarlierSeen ==
  ASSUME NamesInText, MatchesInOrder, Base, OrderInv, Earlier
  PROVE  \E n \in Seen : tag_queue[1].tag.name.end < n.start
<1>1. PICK l : l = Len(tag_queue) OBVIOUS
<1>2. l > 1 /\ tag_queue[1].tag.name.end < tag_queue[l].tag.name.start BY <1>1 DEF Earlier, Last
<1>3. l \in Nat /\ DOMAIN tag_queue = 1..l BY <1>1, AppendFacts DEF Base
<1>4. l \in DOMAIN tag_queue BY <1>2, <1>3
<1>5. PICK n \in Seen : tag_queue[l].tag.name = [start |-> n.start, end |-> n.end] BY <1>4, QueueNamed
<1>6. tag_queue[l].tag.name.start = n.start BY <1>5
<1>7. QED BY <1>2, <1>6

\* TagInv holds when the first call of next begins.
LEMMA TagInvInit ==
  ASSUME TagInit
  PROVE  TagInv
BY DEF TagInit, TagInv

\* A tag or a placeholder that is queued is that of the match.
LEMMA TagInvQueue ==
  ASSUME NamesInText, MatchesInOrder, MatchesOfQuery, OneNameEach, Base, OrderInv, ScopeInv, TagInv,
         TagsMatch, ~Refused, NEW t, t.name = [start |-> The(NameCapture).start, end |-> The(NameCapture).end],
         \/ TagCapture # {} /\ ~t.ignored /\ t.kind = config.captures[(CHOOSE c \in TagCapture : TRUE).index]
         \/ TagCapture = {} /\ t.ignored,
         tag_queue' = Queued(t, Match.pattern), UNCHANGED <<query, input, buffer, status>>, matched' = matched + 1
  PROVE  TagInv'
<1>1. status = "running" /\ matched < Len(input.matches) /\ MatchDue BY DEF TagsMatch, MatchDue
<1>2. PICK k : k = matched + 1 OBVIOUS
<1>3. PICK x : x = The(NameCapture) OBVIOUS
<1>4. /\ NamesOf(query, Match) = {x}
      /\ TagCapture # {} => Wanted(query, input, k) /\ ~Unwanted(query, input, k)
      /\ TagCapture = {} => ~Wanted(query, input, k) /\ Unwanted(query, input, k)
  BY <1>2, <1>3, MatchMeaning
<1>5. Match = input.matches[k] BY <1>2 DEF Match
<1>6. TagName(query, input.matches[k]) = t.name
  <2>1. (CHOOSE n \in NamesOf(query, Match) : TRUE) = x BY <1>4
  <2>2. QED BY <1>3, <1>5, <2>1 DEF TagName
<1>7. TagCapture # {} => config.captures[(CHOOSE c \in TagCapture : TRUE).index] = TagKind(query, Match) BY RoleNodes
<1>8. IsTagOf(query, input, k, t) /\ Decides(query, input, k) BY <1>4, <1>5, <1>6, <1>7 DEF IsTagOf, Decides
<1>9. x.start \in Nat /\ x.end \in Nat BY <1>3, MatchNameInText
<1>10. t.name.end = x.end /\ Named(t.name) BY <1>3, <1>9 DEF Named
<1>11. \A m \in Seen : m.start \in Nat /\ m.start <= t.name.end
  <2>1. Match.pattern > Len(query.locals) BY MatchName
  <2>2. x \in NamesOf(query, Match) BY <1>4
  <2>3. QED BY <1>1, <1>10, <2>1, <2>2, SeenFacts
<1>12. Seen \subseteq Seen' BY <1>1, SeenGrows
<1>13. /\ \A i \in DOMAIN tag_queue : Named(tag_queue[i].tag.name)
       /\ Sorted(tag_queue) /\ IsSeq(tag_queue)
  BY QueueNamed DEF OrderInv, Base
<1>14. /\ \A i \in DOMAIN buffer : \E m \in Seen : buffer[i].name.end < m.start
       /\ \A i \in DOMAIN buffer : Named(buffer[i].name)
  BY <1>1 DEF OrderInv
<1>15. query \in Queries /\ input \in Inputs(query) /\ Len(input.matches) \in Nat /\ matched \in Nat BY DEF Base
<1>16. PICK p : p = input.matches[k].pattern OBVIOUS
<1>17. PICK r : r = Queued(t, p) OBVIOUS
<1>18. tag_queue' = r BY <1>5, <1>16, <1>17
<1>19. PICK seen : seen = Seen OBVIOUS
<1>20. PICK later : later = Seen' OBVIOUS
<1>21. PICK n : n = matched OBVIOUS
<1>22. PICK bs : bs = buffer OBVIOUS
<1>23. /\ QueueOK(query, input, n, tag_queue) /\ BufferOK(query, input, n, bs)
       /\ \A j \in Candidates(query, input, n) : Kept(query, input, n, tag_queue, bs, seen, j)
  BY <1>1, <1>19, <1>21, <1>22 DEF TagInv
<1>24. k = n + 1 BY <1>2, <1>21
<1>25. /\ QueueOK(query, input, n + 1, r) /\ BufferOK(query, input, n + 1, bs)
       /\ \A j \in Candidates(query, input, n + 1) : Kept(query, input, n + 1, r, bs, later, j)
  <2>1. IsTagOf(query, input, n + 1, t) /\ Decides(query, input, n + 1) /\ p = input.matches[n + 1].pattern
    BY <1>8, <1>16, <1>24
  <2>2. /\ seen \subseteq later /\ \A m \in seen : m.start \in Nat /\ m.start <= t.name.end
        /\ \A i \in DOMAIN bs : \E m \in seen : bs[i].name.end < m.start
        /\ \A i \in DOMAIN bs : Named(bs[i].name)
    BY <1>11, <1>12, <1>14, <1>19, <1>20, <1>22
  <2>3. n \in Nat /\ n < Len(input.matches) BY <1>1, <1>15, <1>21
  <2>4. QED BY <1>10, <1>13, <1>15, <1>17, <1>23, <2>1, <2>2, <2>3, TagQueue
<1>26. /\ QueueOK(query', input', matched', tag_queue') /\ BufferOK(query', input', matched', buffer')
       /\ \A j \in Candidates(query', input', matched') : Kept(query', input', matched', tag_queue', buffer', Seen', j)
  BY <1>18, <1>20, <1>21, <1>22, <1>25
<1>27. status' # "finished" BY <1>1
<1>28. QED BY <1>26, <1>27 DEF TagInv

\* The first of the queue leaves it.
LEMMA TagInvShift ==
  ASSUME NamesInText, MatchesInOrder, MatchesOfQuery, Base, OrderInv, TagInv, status = "running",
         tag_queue # <<>>, tag_queue' = Tail(tag_queue), UNCHANGED <<query, input, matched, status>>,
         buffer' = Append(buffer, tag_queue[1].tag) \/ (buffer' = buffer /\ tag_queue[1].tag.ignored),
         matched = Len(input.matches) \/ Earlier
  PROVE  TagInv'
<1>1. /\ query \in Queries /\ input \in Inputs(query) /\ Len(input.matches) \in Nat
      /\ matched \in 0..Len(input.matches) /\ IsSeq(tag_queue) /\ IsSeq(buffer)
  BY DEF Base
<1>2. PICK seen : seen = Seen OBVIOUS
<1>3. Seen' = seen
  <2>1. Seen' = Seen BY DEF Seen, NamesOf
  <2>2. QED BY <1>2, <2>1
<1>4. matched < Len(input.matches) => \E m \in seen : tag_queue[1].tag.name.end < m.start
  BY <1>1, <1>2, EarlierSeen
<1>5. PICK bt : bt = buffer' OBVIOUS
<1>6. bt = Append(buffer, tag_queue[1].tag) \/ (bt = buffer /\ tag_queue[1].tag.ignored) BY <1>5
<1>7. /\ QueueOK(query, input, matched, tag_queue) /\ BufferOK(query, input, matched, buffer)
      /\ \A j \in Candidates(query, input, matched) : Kept(query, input, matched, tag_queue, buffer, seen, j)
  BY <1>2 DEF TagInv
<1>8. /\ QueueOK(query, input, matched, Tail(tag_queue)) /\ BufferOK(query, input, matched, bt)
      /\ \A j \in Candidates(query, input, matched) : Kept(query, input, matched, Tail(tag_queue), bt, seen, j)
  BY <1>1, <1>4, <1>6, <1>7, TagShift
<1>9. /\ QueueOK(query', input', matched', tag_queue') /\ BufferOK(query', input', matched', buffer')
      /\ \A j \in Candidates(query', input', matched') : Kept(query', input', matched', tag_queue', buffer', Seen', j)
  BY <1>3, <1>5, <1>8
<1>10. QED BY <1>9 DEF TagInv

\* A match that is skipped, or of the locals query.
LEMMA TagInvSkip ==
  ASSUME Base, TagInv, status = "running", UNCHANGED <<query, input, status, tag_queue, buffer>>,
         matched < Len(input.matches), matched' = matched + 1, ~Decides(query, input, matched + 1)
  PROVE  TagInv'
<1>1. Len(input.matches) \in Nat /\ matched \in Nat BY DEF Base
<1>2. PICK seen : seen = Seen OBVIOUS
<1>3. PICK later : later = Seen' OBVIOUS
<1>4. seen \subseteq later BY <1>2, <1>3, SeenGrows
<1>5. /\ QueueOK(query, input, matched, tag_queue) /\ BufferOK(query, input, matched, buffer)
      /\ \A j \in Candidates(query, input, matched) : Kept(query, input, matched, tag_queue, buffer, seen, j)
  BY <1>2 DEF TagInv
<1>6. /\ QueueOK(query, input, matched + 1, tag_queue) /\ BufferOK(query, input, matched + 1, buffer)
      /\ \A j \in Candidates(query, input, matched + 1) : Kept(query, input, matched + 1, tag_queue, buffer, later, j)
  BY <1>1, <1>4, <1>5, TagSkip
<1>7. /\ QueueOK(query', input', matched', tag_queue') /\ BufferOK(query', input', matched', buffer')
      /\ \A j \in Candidates(query', input', matched') : Kept(query', input', matched', tag_queue', buffer', Seen', j)
  BY <1>3, <1>6
<1>8. QED BY <1>7 DEF TagInv

\* Each step keeps queue and buffer to the matches that decide.
LEMMA TagInvNext ==
  ASSUME NamesInText, MatchesInOrder, MatchesOfQuery, OneNameEach, Base, OrderInv, ScopeInv, TagInv, [TagNext]_tagVars
  PROVE  TagInv'
<1>1. CASE UNCHANGED tagVars
  <2>1. UNCHANGED <<query, input, status, matched, tag_queue, buffer>> BY <1>1 DEF tagVars
  <2>2. Seen' = Seen BY <2>1 DEF Seen, NamesOf
  <2>3. QED BY <2>1, <2>2 DEF TagInv
<1>2. CASE Configure
  <2>1. UNCHANGED <<query, input, matched, tag_queue, buffer>> /\ status' # "finished"
        /\ matched = 0 /\ tag_queue = <<>> /\ buffer = <<>>
    BY <1>2 DEF Configure, ScopeInv
  <2>2. Candidates(query, input, 0) = {} BY DEF Candidates
  <2>3. QueueOK(query, input, 0, <<>>) /\ BufferOK(query, input, 0, <<>>) BY DEF QueueOK, BufferOK
  <2>4. QueueOK(query', input', matched', tag_queue') /\ BufferOK(query', input', matched', buffer')
        /\ Candidates(query', input', matched') = {}
    BY <2>1, <2>2, <2>3
  <2>5. QED BY <2>1, <2>4 DEF TagInv
<1>3. CASE Cancel
  <2>1. status' = "cancelled" BY <1>3 DEF Cancel
  <2>2. QED BY <2>1 DEF TagInv
<1>4. CASE ReturnEarlier
  <2>1. /\ UNCHANGED <<query, input, matched, status>> /\ status = "running" /\ Earlier /\ tag_queue # <<>>
        /\ tag_queue' = Tail(tag_queue)
        /\ buffer' = Append(buffer, tag_queue[1].tag) \/ (buffer' = buffer /\ tag_queue[1].tag.ignored)
    BY <1>4 DEF ReturnEarlier, Earlier
  <2>2. QED BY <2>1, TagInvShift
<1>5. CASE Drain
  <2>1. CASE tag_queue = <<>>
    <3>1. UNCHANGED <<query, input, matched, tag_queue, buffer>> /\ matched = Len(input.matches) /\ status = "running"
      BY <1>5, <2>1 DEF Drain
    <3>2. Seen' = Seen BY <3>1 DEF Seen, NamesOf
    <3>3. QED BY <2>1, <3>1, <3>2 DEF TagInv
  <2>2. CASE tag_queue # <<>>
    <3>1. /\ UNCHANGED <<query, input, matched, status>> /\ matched = Len(input.matches) /\ status = "running"
          /\ tag_queue' = Tail(tag_queue) /\ buffer' = Append(buffer, tag_queue[1].tag)
      BY <1>5, <2>2 DEF Drain
    <3>2. QED BY <2>2, <3>1, TagInvShift
  <2>3. QED BY <2>1, <2>2
<1>6. CASE LocalMatch \/ SkipMatch
  <2>1. /\ UNCHANGED <<query, input, status, tag_queue, buffer>> /\ matched' = matched + 1
        /\ matched < Len(input.matches) /\ status = "running" /\ MatchDue
    BY <1>6 DEF LocalMatch, SkipMatch, TagsMatch, MatchDue
  <2>2. PICK k : k = matched + 1 OBVIOUS
  <2>3. ~Decides(query, input, k)
    <3>1. CASE LocalMatch
      <4>1. ~IsTagsMatch(query, Match) BY <2>1, <3>1, ConfigFacts DEF LocalMatch
      <4>2. Match = input.matches[k] BY <2>2 DEF Match
      <4>3. QED BY <4>1, <4>2 DEF Decides, Wanted, Unwanted
    <3>2. CASE SkipMatch
      <4>1. TagsMatch /\ Refused BY <3>2 DEF SkipMatch
      <4>2. QED BY <2>2, <4>1, MatchMeaning DEF Decides
    <3>3. QED BY <1>6, <3>1, <3>2
  <2>4. QED BY <2>1, <2>2, <2>3, TagInvSkip
<1>7. CASE TagMatch
  <2> DEFINE name == The(NameCapture)
             tag == CHOOSE c \in TagCapture : TRUE
             line == LineOf(prev_line_info, name)
  <2>1. PICK t : t = NewTag(name, tag, line, Utf16Start(prev_line_info, name)) OBVIOUS
  <2>2. /\ TagsMatch /\ ~Refused /\ TagCapture # {} /\ UNCHANGED <<query, input, buffer, status>>
        /\ tag_queue' = Queued(t, Match.pattern) /\ matched' = matched + 1
    BY <1>7, <2>1 DEF TagMatch
  <2>3. t.name = [start |-> name.start, end |-> name.end] /\ ~t.ignored /\ t.kind = config.captures[tag.index]
    BY <2>1 DEF NewTag
  <2>4. QED BY <2>2, <2>3, TagInvQueue
<1>8. CASE IgnoreMatch
  <2>1. PICK t : t = IgnoredTag(The(NameCapture)) OBVIOUS
  <2>2. /\ TagsMatch /\ ~Refused /\ TagCapture = {} /\ UNCHANGED <<query, input, buffer, status>>
        /\ tag_queue' = Queued(t, Match.pattern) /\ matched' = matched + 1
    BY <1>8, <2>1 DEF IgnoreMatch
  <2>3. t.name = [start |-> The(NameCapture).start, end |-> The(NameCapture).end] /\ t.ignored
    BY <2>1 DEF IgnoredTag
  <2>4. QED BY <2>2, <2>3, TagInvQueue
<1>9. QED BY <1>1, <1>2, <1>3, <1>4, <1>5, <1>6, <1>7, <1>8 DEF TagNext

\* In the end the tags are those of the matches that decide and want one.
LEMMA TagsFollow ==
  ASSUME OrderInv, TagInv
  PROVE  OneTagPerNode
<1> DEFINE W == Winners(query, input, Len(input.matches))
           Got(i) == [name |-> buffer[i].name, kind |-> buffer[i].kind]
           Due(k) == [name |-> TagName(query, input.matches[k]), kind |-> TagKind(query, input.matches[k])]
<1>1. TagsInOrder BY DEF OrderInv
<1>2. ASSUME status = "finished" PROVE {Got(i) : i \in Returned} = {Due(k) : k \in {j \in W : Wanted(query, input, j)}}
  <2>1. /\ tag_queue = <<>> /\ matched = Len(input.matches) /\ BufferOK(query, input, matched, buffer)
        /\ \A k \in Candidates(query, input, matched) : Kept(query, input, matched, tag_queue, buffer, Seen, k)
    BY <1>2 DEF TagInv
  <2>2. ASSUME NEW i \in DOMAIN buffer, NEW k, IsTagOf(query, input, k, buffer[i]), Wanted(query, input, k)
        PROVE  Got(i) = Due(k)
    BY <2>2 DEF IsTagOf
  <2>3. ASSUME NEW i \in Returned PROVE \E k \in W : Wanted(query, input, k) /\ Got(i) = Due(k)
    <3>1. i \in DOMAIN buffer /\ ~buffer[i].ignored BY DEF Returned
    <3>2. PICK k \in W : IsTagOf(query, input, k, buffer[i]) BY <2>1, <3>1 DEF BufferOK
    <3>3. k \in Candidates(query, input, Len(input.matches)) BY <3>2, WinnersAre
    <3>4. Wanted(query, input, k) \/ Unwanted(query, input, k) BY <3>3 DEF Candidates
    <3>5. ~Unwanted(query, input, k) BY <3>1, <3>2 DEF IsTagOf
    <3>6. QED BY <2>2, <3>1, <3>2, <3>4, <3>5
  <2>4. ASSUME NEW k \in W, Wanted(query, input, k) PROVE \E i \in Returned : Got(i) = Due(k)
    <3>1. k \in Candidates(query, input, matched) /\ k \in Winners(query, input, matched) BY <2>1, WinnersAre
    <3>2. Kept(query, input, matched, tag_queue, buffer, Seen, k) BY <2>1, <3>1
    <3>3. DOMAIN tag_queue = {} BY <2>1
    <3>4. PICK i \in DOMAIN buffer : ~buffer[i].ignored /\ IsTagOf(query, input, k, buffer[i])
      BY <2>4, <3>1, <3>2, <3>3 DEF Kept
    <3>5. i \in Returned BY <3>4 DEF Returned
    <3>6. QED BY <2>2, <2>4, <3>4, <3>5
  <2> HIDE DEF W, Got, Due
  <2>5. QED BY <2>3, <2>4
<1>3. QED BY <1>1, <1>2, Zenon DEF OneTagPerNode

\* Whatever the queries and the documents: when matches come in order, each of the tags
\* query with one name and each of the locals query with one capture, and scopes narrow,
\* then the tags come in the order of the document, none twice, and in the end they are
\* those of the nodes that should have one, each with the role that the first pattern for
\* it gives; a name is left out just when its match says that it must not be local and it
\* is, by the scopes around it.
THEOREM OneTagForEachNode ==
  ASSUME NamesInText, MatchesInOrder, MatchesOfQuery, OneNameEach, ScopesNest
  PROVE  TagSpec => []OneTagPerNode
<1> DEFINE Inv == Base /\ OrderInv /\ ScopeInv /\ TagInv
<1>1. TagInit => Inv BY BaseInit, OrderInit, ScopeInit, TagInvInit
<1>2. Inv /\ [TagNext]_tagVars => Inv' BY BaseNext, OrderNext, ScopeNext, TagInvNext
<1>3. Inv => OneTagPerNode BY TagsFollow
<1>4. QED BY <1>1, <1>2, <1>3, PTL DEF TagSpec

=============================================================================
