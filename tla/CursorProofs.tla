---------------------------- MODULE CursorProofs ----------------------------
(***************************************************************************)
(* Proofs about documents without included ranges: what the lexer tells    *)
(* scanners and the parser of the text is true, and a token records every  *)
(* byte that was looked at to lex it.                                      *)
(***************************************************************************)
EXTENDS LexProofs, FiniteSetTheorems

-----------------------------------------------------------------------------
(* The hypothesis and the inductive invariant.                             *)

\* The read callback returns at least a whole character, or the rest.
WholeReads(input) ==
  \A i \in 1 .. Len(input.text) : input.read[i] >= 3 \/ i + input.read[i] > Len(input.text)

\* The document ends before the end of the default range.
DocumentInput(input) == Len(input.text) < UINT32_MAX /\ WholeReads(input)

\* Documents are parsed without included ranges.
DocumentInputs == \A in \in Inputs : in.ranges = <<>> /\ DocumentInput(in.input)

\* The character at byte b of the text.
CharAt(text, b) == decode(text, b, Len(text) - b)

\* No character spans byte b.
Boundary(text, b) == \A p \in 0 .. (b - 1) : p + CharAt(text, p).lookahead_size <= b

\* A position between characters, with its point.
Pos(text, l) ==
  /\ l.bytes <= Len(text)
  /\ Boundary(text, l.bytes)
  /\ l.extent = PointAt(text, l.bytes)

\* The newlines before byte b, and where the line of byte b begins.
Newlines(text, b) == {i \in 1 .. b : i <= Len(text) /\ text[i] = "nl"}

LineStart(text, b) == b - PointAt(text, b).column

\* The characters from byte a to byte b that count for the column.
CountedSet(text, a, b) ==
  {i \in a .. (b - 1) : /\ \A k \in a .. (i - 1) : k + CharAt(text, k).lookahead_size <= i
                        /\ ~(i = 0 /\ CharAt(text, i).lookahead = "bom")}

Counted(text, a, b) == Cardinality(CountedSet(text, a, b))

\* A valid column is the number of characters since the line began.
ColumnAt(text, b, column) ==
  column.valid => column.value = Counted(text, LineStart(text, b), b)

\* The lookahead, when there is one, is the character at the cursor.
LookaheadAt(s) ==
  LET b == s.current_position.bytes
  IN  ~ts_lexer__eof(s) /\ s.lookahead_size > 0 =>
        /\ b < Len(s.input.text)
        /\ s.lookahead = CharAt(s.input.text, b).lookahead
        /\ s.lookahead_size = CharAt(s.input.text, b).lookahead_size

\* The lexer is at the end of the file only at the end of the text.
EndAt(s) ==
  ts_lexer__eof(s) =>
    s.current_position.bytes = Len(s.input.text) /\ ~HasChunk(s) /\ s.lookahead = "nul"

\* A lexer whose cursor tells the truth about the document it is in.
Truthful(s) ==
  /\ LexerOK(s)
  /\ s.included_ranges = <<DEFAULT_RANGE>>
  /\ DocumentInput(s.input)
  /\ Pos(s.input.text, s.current_position)
  /\ LookaheadAt(s)
  /\ EndAt(s)
  /\ ColumnAt(s.input.text, s.current_position.bytes, s.column_data)

\* The byte up to which the scanner has got, also while ts_lexer__get_column
\* runs over the line again.
Reached == IF pc = "column" THEN goal_byte ELSE lexer.current_position.bytes

\* A byte at or past what the decoder has looked at for the character at byte b
\* and for those before it.
ReachAt(text, b) ==
  IF ~(b < Len(text) /\ CharAt(text, b).lookahead = "error") THEN b + 1
  ELSE IF Width(text[b + 1]) = 3 /\ b + 2 <= Len(text) /\ text[b + 2] = "cont" THEN b + 3
  ELSE b + 2

\* ts_parser__lex is running, and has not returned its token.
InCall == pc \in {"ready", "scan", "column"}

\* The positions that ts_parser__lex remembers are in order.
CallTrue ==
  LET text == lexer.input.text
  IN  /\ Pos(text, call.start_position)
      /\ Pos(text, call.current_position)
      /\ ColumnAt(text, call.current_position.bytes, call.column_data)
      /\ call.start_position.bytes <= call.current_position.bytes
      /\ call.current_position.bytes <= Reached
      /\ call.skipped_error =>
           /\ call.error_mode
           /\ Pos(text, call.error_start_position)
           /\ Pos(text, call.error_end_position)
           /\ call.start_position.bytes <= call.error_start_position.bytes
           /\ call.error_start_position.bytes <= call.error_end_position.bytes
           /\ call.error_end_position.bytes <= call.current_position.bytes

\* The token that is being lexed begins and, once its end was marked, ends
\* between the bytes from and to.
TokenPlaced(s, from, to) ==
  /\ Pos(s.input.text, s.token_start_position)
  /\ from <= s.token_start_position.bytes /\ s.token_start_position.bytes <= to
  /\ \/ s.token_end_position = LENGTH_UNDEFINED
     \/ /\ Pos(s.input.text, s.token_end_position)
        /\ from <= s.token_end_position.bytes /\ s.token_end_position.bytes <= to

TokenTrue == TokenPlaced(lexer, call.start_position.bytes, Reached)

\* ts_lexer__get_column is on its way to the character it began at.
ColumnLoop ==
  /\ lexer.current_position.bytes <= goal_byte
  /\ goal_byte <= Len(lexer.input.text)
  /\ Boundary(lexer.input.text, goal_byte)

\* What was examined in this call is below what ts_lexer_finish will record, or
\* has recorded.
Examined ==
  IF InCall THEN \/ examined <= call.lookahead_end_byte
                 \/ examined <= ReachAt(lexer.input.text, Reached)
            ELSE examined <= leaf.lookahead_end_byte

\* The inductive invariant.
CursorInv ==
  /\ IInv
  /\ Truthful(lexer)
  /\ \A p \in positions : Pos(lexer.input.text, p)
  /\ pc = "stopped" => lexer.current_position.bytes = 0
  /\ InCall => CallTrue
  /\ pc \in {"scan", "column"} => TokenTrue
  /\ pc = "column" => ColumnLoop
  /\ Examined

-----------------------------------------------------------------------------
(* Characters and lines of a text.                                         *)

\* A character ends inside the text; after its first byte come continuation
\* bytes.  A newline is one byte, a byte order mark three.
LEMMA CharFacts ==
  ASSUME NEW text \in Seq(ByteKind), NEW b \in Nat, b < Len(text)
  PROVE  LET c == CharAt(text, b)
         IN  /\ c.lookahead \in Codepoint /\ c.lookahead_size \in 1 .. 3
             /\ b + c.lookahead_size <= Len(text)
             /\ \A i \in (b + 2) .. (b + c.lookahead_size) : text[i] = "cont"
             /\ c.lookahead = "nl" <=> text[b + 1] = "nl"
             /\ text[b + 1] = "nl" => c.lookahead_size = 1
             /\ text[b + 1] = "cont" => c.lookahead = "error"
             /\ c.lookahead = "error" => c.lookahead_size = 1
             /\ c.lookahead = "bom" => c.lookahead_size = 3
<1> DEFINE k == text[b + 1]
<1>1. k \in ByteKind /\ Len(text) \in Nat OBVIOUS
<1>2. Width(k) \in 1 .. 3 /\ (k = "nl" => Width(k) = 1) /\ (k = "bom" => Width(k) = 3)
  BY <1>1 DEF Width, ByteKind
<1> DEFINE whole == /\ k # "cont" /\ Width(k) <= Len(text) - b
                    /\ \A i \in 1 .. (Width(k) - 1) : text[b + 1 + i] = "cont"
<1>3. CharAt(text, b) = IF whole THEN [lookahead |-> k, lookahead_size |-> Width(k)]
                                 ELSE [lookahead |-> "error", lookahead_size |-> 1]
  BY DEF CharAt, decode
<1>4. CASE whole
  <2>1. CharAt(text, b).lookahead = k /\ CharAt(text, b).lookahead_size = Width(k)
    BY <1>3, <1>4
  <2>2. \A i \in (b + 2) .. (b + Width(k)) : text[i] = "cont"
    <3> TAKE i \in (b + 2) .. (b + Width(k))
    <3>1. i - b - 1 \in 1 .. (Width(k) - 1) /\ b + 1 + (i - b - 1) = i BY <1>2
    <3>2. text[b + 1 + (i - b - 1)] = "cont" BY <1>4, <3>1
    <3>3. QED BY <3>1, <3>2
  <2>3. k # "error" /\ k \in Codepoint BY <1>1 DEF ByteKind, Codepoint
  <2> HIDE DEF k
  <2>4. b + Width(k) <= Len(text) BY <1>1, <1>2, <1>4
  <2>5. QED BY <1>2, <1>4, <2>1, <2>2, <2>3, <2>4 DEF k
<1>5. CASE ~whole
  <2>1. CharAt(text, b).lookahead = "error" /\ CharAt(text, b).lookahead_size = 1
    BY <1>3, <1>5
  <2>2. k # "nl"
    <3> SUFFICES ASSUME k = "nl" PROVE FALSE OBVIOUS
    <3>1. Width(k) = 1 /\ k # "cont" BY <1>2
    <3>2. whole BY <1>1, <3>1
    <3>3. QED BY <1>5, <3>2
  <2> HIDE DEF k
  <2>3. QED BY <1>1, <2>1, <2>2 DEF k, Codepoint
<1>6. QED BY <1>4, <1>5

\* Bytes between characters are apart by whole characters.
LEMMA BoundaryStep ==
  ASSUME NEW text \in Seq(ByteKind), NEW b \in Nat, b < Len(text), Boundary(text, b)
  PROVE  Boundary(text, b + CharAt(text, b).lookahead_size)
<1>n. PICK n \in 1 .. 3 : n = CharAt(text, b).lookahead_size BY CharFacts
<1>1. n \in 1 .. 3 /\ b + n <= Len(text) /\ (\A i \in (b + 2) .. (b + n) : text[i] = "cont")
  BY <1>n, CharFacts
<1>2. \A p \in 0 .. (b + n - 1) : p + CharAt(text, p).lookahead_size <= b + n
  <2> TAKE p \in 0 .. (b + n - 1)
  <2>0. p \in Nat /\ p < Len(text) /\ Len(text) \in Nat BY <1>1
  <2>1. CharAt(text, p).lookahead_size \in 1 .. 3 BY <2>0, CharFacts
  <2>2. CASE p < b
    <3>1. p + CharAt(text, p).lookahead_size <= b BY <2>2 DEF Boundary
    <3>2. QED BY <1>1, <2>0, <2>1, <3>1
  <2>3. CASE p = b
    <3>1. CharAt(text, p).lookahead_size = n BY <1>n, <2>3
    <3>2. QED BY <1>1, <2>3, <3>1
  <2>4. CASE p > b
    <3>1. p + 1 \in (b + 2) .. (b + n) BY <1>1, <2>4
    <3>2. text[p + 1] = "cont" BY <1>1, <3>1
    <3>3. CharAt(text, p).lookahead_size = 1 BY <2>0, <3>2, CharFacts
    <3>4. QED BY <1>1, <2>0, <3>3
  <2>5. QED BY <2>0, <2>2, <2>3, <2>4
<1>3. Boundary(text, b + n) BY <1>2 DEF Boundary
<1>4. QED BY <1>n, <1>3

\* The line of a byte begins at 0 or after the last newline before it.
LEMMA LineFacts ==
  ASSUME NEW text \in Seq(ByteKind), NEW b \in Nat
  PROVE  LET a == LineStart(text, b)
             S == Newlines(text, b)
         IN  /\ IsFiniteSet(S) /\ S \subseteq 1 .. b
             /\ PointAt(text, b) = [row |-> Cardinality(S), column |-> b - a]
             /\ Cardinality(S) \in Nat
             /\ a \in 0 .. b
             /\ a \in S \/ (S = {} /\ a = 0)
             /\ \A i \in S : i <= a
<1> DEFINE S    == Newlines(text, b)
           line == IF S = {} THEN 0 ELSE CHOOSE i \in S : \A j \in S : j <= i
           U    == {k \in 0 .. b : \A j \in S : j <= k}
<1>1. S \subseteq 1 .. b BY DEF Newlines
<1>2. IsFiniteSet(S) BY <1>1, FS_Interval, FS_Subset
<1>3. Cardinality(S) \in Nat BY <1>2, FS_CardinalityType
<1>4. PointAt(text, b) = [row |-> Cardinality(S), column |-> b - line]
  BY DEF PointAt, Newlines
<1>5. line \in 0 .. b /\ (line \in S \/ (S = {} /\ line = 0)) /\ \A i \in S : i <= line
  <2>1. CASE S = {} BY <2>1
  <2>2. CASE S # {}
    <3>1. b \in U BY <1>1
    <3>2. U \in SUBSET Nat /\ U # {}
      <4>1. \A k \in U : k \in 0 .. b BY Zenon
      <4>2. \A k \in 0 .. b : k \in Nat OBVIOUS
      <4> HIDE DEF U
      <4>3. QED BY <3>1, <4>1, <4>2, Zenon
    <3> DEFINE u == Least(U)
    <3>3. u \in U /\ \A j \in U : u <= j BY <3>2, LeastIn
    <3> HIDE DEF u
    <3>4. u \in 0 .. b /\ \A j \in S : j <= u BY <3>3
    <3>5. u \in S
      <4> SUFFICES ASSUME u \notin S PROVE FALSE OBVIOUS
      <4>1. PICK j \in S : TRUE BY <2>2
      <4>2. j \in 1 .. b /\ j <= u BY <1>1, <3>4
      <4>3. \A i \in S : i <= u - 1 BY <1>1, <3>4
      <4>4. u - 1 \in U BY <3>4, <4>2, <4>3
      <4>5. QED BY <3>3, <3>4, <4>4
    <3>6. \E i \in S : \A j \in S : j <= i BY <3>4, <3>5
    <3> HIDE DEF S, U
    <3>7. line \in S /\ \A j \in S : j <= line BY <2>2, <3>6
    <3> HIDE DEF line
    <3>8. line \in 0 .. b BY <1>1, <3>7
    <3>9. QED BY <3>7, <3>8
  <2>3. QED BY <2>1, <2>2
<1> HIDE DEF S, line
<1>6. LineStart(text, b) = line
  <2>1. PointAt(text, b).column = b - line BY <1>4
  <2>2. QED BY <1>5, <2>1 DEF LineStart
<1>7. QED BY <1>1, <1>2, <1>3, <1>4, <1>5, <1>6 DEF S

\* The last newline determines the line.
LEMMA LineIs ==
  ASSUME NEW text \in Seq(ByteKind), NEW b \in Nat, NEW a \in Nat,
         a \in Newlines(text, b) \/ (Newlines(text, b) = {} /\ a = 0),
         \A i \in Newlines(text, b) : i <= a
  PROVE  LineStart(text, b) = a
<1>1. LineStart(text, b) \in 0 .. b
  BY LineFacts
<1>2. /\ LineStart(text, b) \in Newlines(text, b) \/ (Newlines(text, b) = {} /\ LineStart(text, b) = 0)
      /\ \A i \in Newlines(text, b) : i <= LineStart(text, b)
  BY LineFacts
<1> DEFINE z == LineStart(text, b)
           S == Newlines(text, b)
<1> HIDE DEF z, S
<1>3. z \in Nat BY <1>1 DEF z
<1>4. (z \in S \/ (S = {} /\ z = 0)) /\ (\A i \in S : i <= z) BY <1>2 DEF z, S
<1>5. (a \in S \/ (S = {} /\ a = 0)) /\ (\A i \in S : i <= a) BY DEF S
<1>6. CASE S = {} BY <1>4, <1>5, <1>6 DEF z
<1>7. CASE S # {}
  <2>1. z \in S /\ a \in S BY <1>4, <1>5, <1>7
  <2>2. z <= a /\ a <= z BY <1>4, <1>5, <2>1
  <2>3. QED BY <1>3, <2>2 DEF z
<1>8. QED BY <1>6, <1>7

\* Bytes that share their newlines are on one line.
LEMMA SameLine ==
  ASSUME NEW text \in Seq(ByteKind), NEW b \in Nat, NEW c \in Nat,
         Newlines(text, b) = Newlines(text, c)
  PROVE  /\ LineStart(text, b) = LineStart(text, c)
         /\ PointAt(text, c) = [row |-> PointAt(text, b).row, column |-> c - LineStart(text, b)]
<1>0. LineStart(text, c) \in 0 .. c BY LineFacts
<1>1. /\ LineStart(text, c) \in Nat
      /\ LineStart(text, c) \in Newlines(text, c) \/ (Newlines(text, c) = {} /\ LineStart(text, c) = 0)
      /\ \A i \in Newlines(text, c) : i <= LineStart(text, c)
  <2>1. LineStart(text, c) \in Nat BY <1>0
  <2>2. QED BY <2>1, LineFacts
<1>2. LineStart(text, b) = LineStart(text, c) BY <1>1, LineIs
<1>3. PointAt(text, c) = [row |-> Cardinality(Newlines(text, c)), column |-> c - LineStart(text, c)]
  BY LineFacts
<1>4. PointAt(text, b) = [row |-> Cardinality(Newlines(text, b)), column |-> b - LineStart(text, b)]
  BY LineFacts
<1>5. PointAt(text, b).row = Cardinality(Newlines(text, b)) BY <1>4
<1>6. QED BY <1>2, <1>3, <1>5

\* Over a character that is no newline the line stays and the column in bytes
\* grows; over a newline a line begins.
LEMMA PointStep ==
  ASSUME NEW text \in Seq(ByteKind), NEW b \in Nat, b < Len(text)
  PROVE  LET c == CharAt(text, b)
             at == PointAt(text, b)
             n == b + c.lookahead_size
         IN  /\ c.lookahead = "nl" => /\ PointAt(text, n) = [row |-> at.row + 1, column |-> 0]
                                      /\ LineStart(text, n) = n
             /\ c.lookahead # "nl" =>
                  /\ PointAt(text, n) = [row |-> at.row, column |-> at.column + c.lookahead_size]
                  /\ LineStart(text, n) = LineStart(text, b)
<1>n. PICK n \in 1 .. 3 : n = CharAt(text, b).lookahead_size BY CharFacts
<1>1. /\ b + n <= Len(text) /\ \A i \in (b + 2) .. (b + n) : text[i] = "cont"
      /\ CharAt(text, b).lookahead = "nl" <=> text[b + 1] = "nl"
      /\ text[b + 1] = "nl" => n = 1
  BY <1>n, CharFacts
<1>2. /\ IsFiniteSet(Newlines(text, b)) /\ Newlines(text, b) \subseteq 1 .. b
      /\ PointAt(text, b) = [row |-> Cardinality(Newlines(text, b)), column |-> b - LineStart(text, b)]
      /\ LineStart(text, b) \in 0 .. b
  BY LineFacts
<1>3. PointAt(text, b).row = Cardinality(Newlines(text, b)) /\ PointAt(text, b).column = b - LineStart(text, b)
  BY <1>2
<1>4. CASE text[b + 1] = "nl"
  <2>1. n = 1 BY <1>1, <1>4
  <2>2. Newlines(text, b + 1) = Newlines(text, b) \cup {b + 1}
    <3>1. Len(text) \in Nat OBVIOUS
    <3>2. \A i : i \in 1 .. (b + 1) <=> i \in 1 .. b \/ i = b + 1 OBVIOUS
    <3>3. \A i : i \in Newlines(text, b + 1) <=> i \in Newlines(text, b) \/ i = b + 1
      BY <1>4, <3>1, <3>2 DEF Newlines
    <3>4. QED BY <3>3
  <2>3. b + 1 \notin Newlines(text, b) BY <1>2
  <2>4. Cardinality(Newlines(text, b + 1)) = Cardinality(Newlines(text, b)) + 1
    BY <1>2, <2>2, <2>3, FS_AddElement
  <2>5. \A i \in Newlines(text, b + 1) : i <= b + 1 BY <1>2, <2>2
  <2>6. b + 1 \in Newlines(text, b + 1) BY <2>2
  <2>7. LineStart(text, b + 1) = b + 1 BY <2>5, <2>6, LineIs
  <2>8. PointAt(text, b + 1) = [row |-> Cardinality(Newlines(text, b + 1)),
                                column |-> (b + 1) - LineStart(text, b + 1)]
    BY LineFacts
  <2>9. PointAt(text, b + 1) = [row |-> PointAt(text, b).row + 1, column |-> 0]
    BY <1>3, <2>4, <2>7, <2>8
  <2>10. QED BY <1>n, <1>1, <1>4, <2>1, <2>7, <2>9
<1>5. CASE text[b + 1] # "nl"
  <2>1. Newlines(text, b + n) = Newlines(text, b)
    <3>1. Len(text) \in Nat OBVIOUS
    <3>2. ASSUME NEW i \in 1 .. (b + n), i \notin 1 .. b PROVE text[i] # "nl"
      <4>1. i = b + 1 \/ i \in (b + 2) .. (b + n) BY <3>2
      <4>2. QED BY <1>1, <1>5, <4>1
    <3>3. \A i : i \in 1 .. b => i \in 1 .. (b + n) OBVIOUS
    <3>4. \A i : i \in Newlines(text, b + n) <=> i \in Newlines(text, b)
      BY <3>2, <3>3 DEF Newlines
    <3>5. QED BY <3>4
  <2>2. b + n \in Nat OBVIOUS
  <2>3. /\ LineStart(text, b) = LineStart(text, b + n)
        /\ PointAt(text, b + n) = [row |-> PointAt(text, b).row, column |-> (b + n) - LineStart(text, b)]
    BY <2>1, <2>2, SameLine
  <2>4. (b + n) - LineStart(text, b) = PointAt(text, b).column + n BY <1>2, <1>3
  <2>5. QED BY <1>n, <1>1, <1>5, <2>3, <2>4
<1>6. QED BY <1>4, <1>5

\* The beginning of the line is a position of its own, to which
\* ts_lexer__get_column backs up.
LEMMA LineStartPos ==
  ASSUME NEW text \in Seq(ByteKind), NEW b \in Nat, b <= Len(text)
  PROVE  LET a == LineStart(text, b)
         IN  /\ a \in 0 .. b
             /\ PointAt(text, a) = [row |-> PointAt(text, b).row, column |-> 0]
             /\ LineStart(text, a) = a
             /\ Boundary(text, a)
<1> DEFINE a == LineStart(text, b)
<1>1. /\ a \in 0 .. b
      /\ a \in Newlines(text, b) \/ (Newlines(text, b) = {} /\ a = 0)
      /\ \A i \in Newlines(text, b) : i <= a
  BY LineFacts
<1> HIDE DEF a
<1>2. Newlines(text, a) = Newlines(text, b)
  <2>1. \A i : i \in Newlines(text, a) => i \in Newlines(text, b) BY <1>1 DEF Newlines
  <2>2. \A i : i \in Newlines(text, b) => i \in Newlines(text, a) BY <1>1 DEF Newlines
  <2>3. QED BY <2>1, <2>2
<1>3. /\ LineStart(text, b) = LineStart(text, a)
      /\ PointAt(text, a) = [row |-> PointAt(text, b).row, column |-> a - LineStart(text, b)]
  BY <1>1, <1>2, SameLine
<1>4. a - LineStart(text, b) = 0 BY <1>1 DEF a
<1>5. Boundary(text, a)
  <2>1. ASSUME NEW p \in 0 .. (a - 1) PROVE p + CharAt(text, p).lookahead_size <= a
    <3>0. p \in Nat /\ p < Len(text) /\ Len(text) \in Nat /\ p < a /\ a > 0 BY <1>1
    <3>1. a \in Newlines(text, b) BY <1>1, <3>0
    <3>2. text[a] = "nl" BY <3>1 DEF Newlines
    <3>3. PICK n \in 1 .. 3 : n = CharAt(text, p).lookahead_size BY <3>0, CharFacts
    <3>4. (\A i \in (p + 2) .. (p + n) : text[i] = "cont") /\ (text[p + 1] = "nl" => n = 1)
      BY <3>0, <3>3, CharFacts
    <3>5. SUFFICES ASSUME p + n > a PROVE FALSE BY <1>1, <3>0, <3>3
    <3>6. CASE a = p + 1 BY <3>0, <3>2, <3>4, <3>5, <3>6
    <3>7. CASE a # p + 1
      <4>1. a \in (p + 2) .. (p + n) BY <1>1, <3>0, <3>5, <3>7
      <4>2. QED BY <3>2, <3>4, <4>1
    <3>8. QED BY <3>6, <3>7
  <2>2. QED BY <2>1 DEF Boundary
<1>6. QED BY <1>1, <1>3, <1>4, <1>5 DEF a

\* Points subtract and add as their bytes do.
LEMMA PointArithmetic ==
  ASSUME NEW text \in Seq(ByteKind), NEW a \in Nat, NEW b \in Nat, a <= b
  PROVE  point_add(PointAt(text, a), point_sub(PointAt(text, b), PointAt(text, a))) = PointAt(text, b)
<1>1. /\ IsFiniteSet(Newlines(text, b)) /\ Cardinality(Newlines(text, b)) \in Nat
      /\ PointAt(text, b) = [row |-> Cardinality(Newlines(text, b)), column |-> b - LineStart(text, b)]
      /\ LineStart(text, b) \in 0 .. b
  BY LineFacts
<1>2. /\ Cardinality(Newlines(text, a)) \in Nat
      /\ PointAt(text, a) = [row |-> Cardinality(Newlines(text, a)), column |-> a - LineStart(text, a)]
      /\ LineStart(text, a) \in 0 .. a
  BY LineFacts
<1>3. Newlines(text, a) \subseteq Newlines(text, b) BY DEF Newlines
<1>4. /\ Cardinality(Newlines(text, a)) <= Cardinality(Newlines(text, b))
      /\ Cardinality(Newlines(text, b)) = Cardinality(Newlines(text, a)) => Newlines(text, b) = Newlines(text, a)
  BY <1>1, <1>3, FS_Subset
<1>5. PICK r \in Nat : r = Cardinality(Newlines(text, a)) BY <1>2
<1>6. PICK q \in Nat : q = Cardinality(Newlines(text, b)) BY <1>1
<1>7. PICK c \in Nat : c = a - LineStart(text, a) BY <1>2
<1>8. PICK d \in Nat : d = b - LineStart(text, b) BY <1>1
<1>9. PointAt(text, a) = [row |-> r, column |-> c] /\ PointAt(text, b) = [row |-> q, column |-> d]
  BY <1>1, <1>2, <1>5, <1>6, <1>7, <1>8
<1>10. r <= q BY <1>4, <1>5, <1>6
<1>11. CASE q > r
  <2>1. point_sub([row |-> q, column |-> d], [row |-> r, column |-> c]) = [row |-> q - r, column |-> d]
    BY <1>11 DEF point_sub
  <2>2. point_add([row |-> r, column |-> c], [row |-> q - r, column |-> d]) = [row |-> q, column |-> d]
    BY <1>11 DEF point_add
  <2>3. QED BY <1>9, <2>1, <2>2
<1>12. CASE q = r
  <2>1. Newlines(text, b) = Newlines(text, a) BY <1>4, <1>5, <1>6, <1>12
  <2>2. LineStart(text, b) = LineStart(text, a) BY <2>1, SameLine
  <2>3. c <= d BY <1>1, <1>2, <1>7, <1>8, <2>2
  <2>4. point_sub([row |-> q, column |-> d], [row |-> r, column |-> c]) = [row |-> 0, column |-> d - c]
    BY <1>12, <2>3 DEF point_sub
  <2>5. point_add([row |-> r, column |-> c], [row |-> 0, column |-> d - c]) = [row |-> r, column |-> d]
    BY <2>3 DEF point_add
  <2>6. QED BY <1>9, <1>12, <2>4, <2>5
<1>13. QED BY <1>10, <1>11, <1>12

\* No characters lie between a byte and itself.
LEMMA CountedNone ==
  ASSUME NEW text \in Seq(ByteKind), NEW a \in Nat
  PROVE  Counted(text, a, a) = 0
<1>1. CountedSet(text, a, a) = {} BY DEF CountedSet
<1>2. QED BY <1>1, FS_EmptySet DEF Counted

\* A character counts once, the byte order mark that begins the text not.
LEMMA CountedStep ==
  ASSUME NEW text \in Seq(ByteKind), NEW b \in Nat, b < Len(text), Boundary(text, b),
         NEW a \in 0 .. b
  PROVE  LET c == CharAt(text, b)
             n == b + c.lookahead_size
         IN  /\ Counted(text, a, b) \in Nat
             /\ Counted(text, a, n) = IF b = 0 /\ c.lookahead = "bom" THEN Counted(text, a, b)
                                                                      ELSE Counted(text, a, b) + 1
<1>n. PICK n \in 1 .. 3 : n = CharAt(text, b).lookahead_size BY CharFacts
<1>1. CountedSet(text, a, b) \subseteq a .. (b - 1) BY DEF CountedSet
<1>2. IsFiniteSet(CountedSet(text, a, b))
  <2>1. a \in Int /\ b - 1 \in Int OBVIOUS
  <2>2. IsFiniteSet(a .. (b - 1)) BY <2>1, FS_Interval
  <2>3. QED BY <1>1, <2>2, FS_Subset
<1>3. Counted(text, a, b) \in Nat BY <1>2, FS_CardinalityType DEF Counted
<1>4. \A k \in a .. (b - 1) : k + CharAt(text, k).lookahead_size <= b BY DEF Boundary
<1> DEFINE skip == b = 0 /\ CharAt(text, b).lookahead = "bom"
           F(i) == \A k \in a .. (i - 1) : k + CharAt(text, k).lookahead_size <= i
           G(i) == ~(i = 0 /\ CharAt(text, i).lookahead = "bom")
<1>5. \A i : i \in CountedSet(text, a, b) <=> i \in a .. (b - 1) /\ F(i) /\ G(i)
  BY Zenon DEF CountedSet
<1>m. PICK m \in Nat : m = b + n OBVIOUS
<1>6. \A i : i \in CountedSet(text, a, m) <=> i \in a .. (m - 1) /\ F(i) /\ G(i)
  BY Zenon DEF CountedSet
<1>7. F(b) BY <1>4
<1>8. \A i \in (b + 1) .. (m - 1) : ~F(i)
  <2> TAKE i \in (b + 1) .. (m - 1)
  <2>1. b \in a .. (i - 1) BY <1>m
  <2>2. b + n > i BY <1>m
  <2>3. ~(b + n <= i) BY <2>2
  <2>4. QED BY <1>n, <2>1, <2>3
<1>9. G(b) <=> ~skip OBVIOUS
<1> HIDE DEF F, G, skip
<1>10. \A i : i \in a .. (m - 1) <=> i \in a .. (b - 1) \/ i = b \/ i \in (b + 1) .. (m - 1)
  BY <1>m
<1>11. \A i : i \in CountedSet(text, a, m) <=> i \in CountedSet(text, a, b) \/ (i = b /\ ~skip)
  <2> TAKE i
  <2>1. CASE i \in a .. (b - 1)
    <3>1. i # b BY <2>1
    <3>2. QED BY <1>5, <1>6, <1>10, <2>1, <3>1, Zenon
  <2>2. CASE i = b
    <3>1. b \notin a .. (b - 1) OBVIOUS
    <3>2. QED BY <1>5, <1>6, <1>7, <1>9, <1>10, <2>2, <3>1, Zenon
  <2>3. CASE i \in (b + 1) .. (m - 1)
    <3>1. i # b /\ i \notin a .. (b - 1) BY <2>3
    <3>2. QED BY <1>5, <1>6, <1>8, <2>3, <3>1, Zenon
  <2>4. CASE ~(i \in a .. (b - 1) \/ i = b \/ i \in (b + 1) .. (m - 1))
    BY <1>5, <1>6, <1>10, <2>4, Zenon
  <2>5. QED BY <2>1, <2>2, <2>3, <2>4
<1>12. CASE skip
  <2>1. CountedSet(text, a, m) = CountedSet(text, a, b) BY <1>11, <1>12
  <2>2. QED BY <1>n, <1>m, <1>3, <1>12, <2>1 DEF Counted, skip
<1>13. CASE ~skip
  <2>1. CountedSet(text, a, m) = CountedSet(text, a, b) \cup {b} BY <1>11, <1>13
  <2>2. b \notin CountedSet(text, a, b) BY <1>1
  <2>3. Cardinality(CountedSet(text, a, m)) = Cardinality(CountedSet(text, a, b)) + 1
    BY <1>2, <2>1, <2>2, FS_AddElement
  <2>4. QED BY <1>n, <1>m, <1>3, <1>13, <2>3 DEF Counted, skip
<1>14. QED BY <1>12, <1>13

\* The column after the character that is consumed.
ColumnAfter(text, b, column) ==
  IF CharAt(text, b).lookahead = "nl" THEN [valid |-> TRUE, value |-> 0]
  ELSE IF b = 0 /\ CharAt(text, b).lookahead = "bom" THEN column
  ELSE ts_lexer__increment_column_data(column)

\* A column that is true before a character is true after it.
LEMMA ColumnStep ==
  ASSUME NEW text \in Seq(ByteKind), NEW b \in Nat, b < Len(text), Boundary(text, b),
         NEW column \in ColumnData, ColumnAt(text, b, column)
  PROVE  ColumnAt(text, b + CharAt(text, b).lookahead_size, ColumnAfter(text, b, column))
<1>n. PICK n \in 1 .. 3 : n = CharAt(text, b).lookahead_size BY CharFacts
<1>1. LineStart(text, b) \in 0 .. b BY LineFacts
<1>2. CASE CharAt(text, b).lookahead = "nl"
  <2>1. LineStart(text, b + n) = b + n BY <1>n, <1>2, PointStep
  <2>2. b + n \in Nat OBVIOUS
  <2>3. Counted(text, b + n, b + n) = 0 BY <2>2, CountedNone
  <2>4. ColumnAfter(text, b, column) = [valid |-> TRUE, value |-> 0] BY <1>2 DEF ColumnAfter
  <2>5. ColumnAt(text, b + n, ColumnAfter(text, b, column)) BY <2>1, <2>3, <2>4 DEF ColumnAt
  <2>6. QED BY <1>n, <2>5
<1>3. CASE CharAt(text, b).lookahead # "nl"
  <2>1. LineStart(text, b + n) = LineStart(text, b) BY <1>n, <1>3, PointStep
  <2> DEFINE a == LineStart(text, b)
  <2>2. /\ Counted(text, a, b) \in Nat
        /\ Counted(text, a, b + n) = IF b = 0 /\ CharAt(text, b).lookahead = "bom"
                                       THEN Counted(text, a, b) ELSE Counted(text, a, b) + 1
    BY <1>n, <1>1, CountedStep
  <2>3. column.valid => column.value = Counted(text, a, b) BY DEF ColumnAt
  <2> HIDE DEF a
  <2>4. SUFFICES ASSUME ColumnAfter(text, b, column).valid
                 PROVE  ColumnAfter(text, b, column).value = Counted(text, a, b + n)
    BY <1>n, <2>1 DEF ColumnAt, a
  <2>5. CASE b = 0 /\ CharAt(text, b).lookahead = "bom"
    BY <1>3, <2>2, <2>3, <2>4, <2>5 DEF ColumnAfter
  <2>6. CASE ~(b = 0 /\ CharAt(text, b).lookahead = "bom")
    <3>1. ColumnAfter(text, b, column) = ts_lexer__increment_column_data(column)
      BY <1>3, <2>6 DEF ColumnAfter
    <3>2. column.valid BY <2>4, <3>1 DEF ts_lexer__increment_column_data
    <3>3. ColumnAfter(text, b, column).value = column.value + 1
      BY <3>1, <3>2 DEF ts_lexer__increment_column_data, ColumnData
    <3>4. QED BY <2>2, <2>3, <2>6, <3>2, <3>3
  <2>7. QED BY <2>5, <2>6
<1>4. QED BY <1>2, <1>3

\* In a document without included ranges all characters are included.
LEMMA CountIs ==
  ASSUME NEW s, s.included_ranges = <<DEFAULT_RANGE>>, s.input.text \in Seq(ByteKind),
         Len(s.input.text) < UINT32_MAX, NEW a \in Nat, NEW b \in Nat, b <= Len(s.input.text)
  PROVE  CharacterCount(s, a, b) = Counted(s.input.text, a, b)
<1> DEFINE text == s.input.text
           included(i) == \E j \in 1 .. Len(s.included_ranges) :
                             /\ s.included_ranges[j].start_byte <= i
                             /\ i < s.included_ranges[j].end_byte
           F(i) == \A k \in a .. (i - 1) : k + CharAt(text, k).lookahead_size <= i
           G(i) == ~(i = 0 /\ CharAt(text, i).lookahead = "bom")
           C == {i \in a .. (b - 1) : F(i) /\ included(i) /\ G(i)}
<1>1. CharacterCount(s, a, b) = Cardinality(C) BY DEF CharacterCount, CharAt
<1>2. ASSUME NEW i \in a .. (b - 1) PROVE included(i)
  <2>1. Len(s.included_ranges) = 1 /\ s.included_ranges[1] = DEFAULT_RANGE OBVIOUS
  <2>2. DEFAULT_RANGE.start_byte = 0 /\ DEFAULT_RANGE.end_byte = UINT32_MAX BY DEF DEFAULT_RANGE
  <2>3. Len(text) \in Nat OBVIOUS
  <2>4. 0 <= i /\ i < UINT32_MAX BY <2>3, UInt32Assumption
  <2>5. 1 \in 1 .. Len(s.included_ranges) BY <2>1
  <2>6. QED BY <2>1, <2>2, <2>4, <2>5
<1> HIDE DEF included
<1>3. C = CountedSet(text, a, b) BY <1>2 DEF CountedSet
<1>4. QED BY <1>1, <1>3 DEF Counted

\* What the decoder has looked at for a character is covered after it, too.
LEMMA ReachStep ==
  ASSUME NEW text \in Seq(ByteKind), NEW b \in Nat, b < Len(text)
  PROVE  /\ ReachAt(text, b) \in Nat
         /\ ReachAt(text, b) <= ReachAt(text, b + CharAt(text, b).lookahead_size)
<1>n. PICK n \in 1 .. 3 : n = CharAt(text, b).lookahead_size BY CharFacts
<1>1. Len(text) \in Nat /\ b + n <= Len(text) BY <1>n, CharFacts
<1>2. ReachAt(text, b) \in Nat BY DEF ReachAt
<1>3. ReachAt(text, b + n) \in (b + n + 1) .. (b + n + 3) BY <1>1 DEF ReachAt
<1>4. CASE CharAt(text, b).lookahead # "error"
  <2>1. ReachAt(text, b) = b + 1 BY <1>4 DEF ReachAt
  <2>2. QED BY <1>n, <1>1, <1>2, <1>3, <2>1
<1>5. CASE CharAt(text, b).lookahead = "error"
  <2>1. n = 1 BY <1>n, <1>5, CharFacts
  <2>2. CASE b + 2 <= Len(text) /\ text[b + 2] = "cont"
    <3>1. text[(b + 1) + 1] = "cont" BY <2>2
    <3>2. CharAt(text, b + 1).lookahead = "error" BY <1>1, <2>2, <3>1, CharFacts
    <3>3. ReachAt(text, b + 1) \in (b + 3) .. (b + 4) BY <1>1, <2>2, <3>2 DEF ReachAt
    <3>4. ReachAt(text, b) \in (b + 1) .. (b + 3) BY DEF ReachAt
    <3>5. QED BY <1>n, <1>2, <2>1, <3>3, <3>4
  <2>3. CASE ~(b + 2 <= Len(text) /\ text[b + 2] = "cont")
    <3>1. ReachAt(text, b) = b + 2 BY <1>1, <1>5, <2>3 DEF ReachAt
    <3>2. QED BY <1>n, <1>2, <1>3, <2>1, <3>1
  <2>4. QED BY <2>2, <2>3
<1>6. QED BY <1>4, <1>5

-----------------------------------------------------------------------------
(* The functions of the lexer in a document without included ranges.       *)

\* The range of such a document.
LEMMA DefaultRange ==
  /\ Len(<<DEFAULT_RANGE>>) = 1 /\ <<DEFAULT_RANGE>>[1] = DEFAULT_RANGE
  /\ DEFAULT_RANGE.start_byte = 0 /\ DEFAULT_RANGE.end_byte = UINT32_MAX
  /\ DEFAULT_RANGE.start_point = [row |-> 0, column |-> 0]
  /\ RangesAccepted(<<DEFAULT_RANGE>>)
BY UInt32Assumption DEF RangesAccepted, DEFAULT_RANGE

\* The cursor and the column are true; nothing is said of chunk and lookahead.
Sited(s) ==
  /\ s \in LexerType
  /\ s.included_ranges = <<DEFAULT_RANGE>>
  /\ DocumentInput(s.input)
  /\ Pos(s.input.text, s.current_position)
  /\ ColumnAt(s.input.text, s.current_position.bytes, s.column_data)
  /\ CursorInRange(s)
  /\ BomWide(s)

\* t has the document, the cursor, the column and the token of s.
Same(s, t) ==
  /\ t.input = s.input
  /\ t.current_position = s.current_position
  /\ t.column_data = s.column_data
  /\ t.token_start_position = s.token_start_position
  /\ t.token_end_position = s.token_end_position

\* The types and bounds that a sited cursor has.
LEMMA SitedFacts ==
  ASSUME NEW s, Sited(s)
  PROVE  /\ s.input \in TSInput /\ s.input.text \in Seq(ByteKind) /\ Len(s.input.text) \in Nat
         /\ s.current_position \in Length /\ s.current_position.bytes \in Nat
         /\ s.current_position.bytes <= Len(s.input.text)
         /\ Len(s.input.text) < UINT32_MAX
         /\ Len(s.included_ranges) = 1 /\ s.included_ranges[1] = DEFAULT_RANGE
         /\ ts_lexer__eof(s) <=> s.current_included_range_index = 2
         /\ s.current_included_range_index \in {1, 2}
<1>1. s.input \in TSInput /\ s.current_position \in Length BY DEF Sited, LexerType
<1>2. s.input.text \in Seq(ByteKind) BY <1>1 DEF TSInput
<1>3. Len(s.included_ranges) = 1 /\ s.included_ranges[1] = DEFAULT_RANGE
  BY DefaultRange DEF Sited
<1>4. ts_lexer__eof(s) <=> s.current_included_range_index = 2
  BY <1>3 DEF ts_lexer__eof, EofIndex
<1>5. s.current_included_range_index \in 1 .. (Len(s.included_ranges) + 1)
  BY IndexOK DEF Sited
<1>6. QED BY <1>1, <1>2, <1>3, <1>4, <1>5 DEF Sited, Pos, DocumentInput, Length

\* A true cursor is sited.
LEMMA TruthfulSited ==
  ASSUME NEW s, Truthful(s)
  PROVE  Sited(s)
BY DEF Truthful, Sited, LexerOK

\* A sited cursor with a chunk that spans it satisfies the invariant of the
\* lexer.
LEMMA SitedOK ==
  ASSUME NEW s, Sited(s), ChunkInText(s), ChunkHere(s)
  PROVE  LexerOK(s)
<1>1. Len(s.included_ranges) > 0 BY SitedFacts
<1>2. QED BY <1>1, DefaultRange DEF Sited, LexerOK

\* Where enough bytes are left, or a character was found, decoding is decoding
\* in the whole text.
LEMMA DecodeEnough ==
  ASSUME NEW text \in Seq(ByteKind), NEW b \in Nat, b < Len(text),
         NEW avail \in 1 .. (Len(text) - b),
         decode(text, b, avail).lookahead # "error" \/ avail >= 3 \/ avail = Len(text) - b
  PROVE  decode(text, b, avail) = CharAt(text, b)
<1> DEFINE k == text[b + 1]
           cont == \A i \in 1 .. (Width(k) - 1) : text[b + 1 + i] = "cont"
<1>1. k \in ByteKind /\ Len(text) \in Nat OBVIOUS
<1>2. Width(k) \in 1 .. 3 BY <1>1 DEF Width, ByteKind
<1>3. decode(text, b, avail) = IF k # "cont" /\ Width(k) <= avail /\ cont
                                 THEN [lookahead |-> k, lookahead_size |-> Width(k)]
                                 ELSE [lookahead |-> "error", lookahead_size |-> 1]
  BY DEF decode
<1>4. CharAt(text, b) = IF k # "cont" /\ Width(k) <= Len(text) - b /\ cont
                          THEN [lookahead |-> k, lookahead_size |-> Width(k)]
                          ELSE [lookahead |-> "error", lookahead_size |-> 1]
  BY DEF CharAt, decode
<1>5. k # "error" BY <1>1 DEF ByteKind
<1> HIDE DEF k, cont
<1>6. CASE decode(text, b, avail).lookahead # "error"
  <2>1. k # "cont" /\ Width(k) <= avail /\ cont BY <1>3, <1>6
  <2>2. Width(k) <= Len(text) - b BY <1>1, <1>2, <2>1
  <2>3. QED BY <1>3, <1>4, <2>1, <2>2
<1>7. CASE avail >= 3 \/ avail = Len(text) - b
  <2>1. Width(k) <= avail <=> Width(k) <= Len(text) - b BY <1>1, <1>2, <1>7
  <2>2. QED BY <1>3, <1>4, <2>1
<1>8. QED BY <1>6, <1>7

\* A chunk at the cursor, or the end of the file at the end of the text.
AtChunk(s) ==
  LET b == s.current_position.bytes
  IN  \/ HasChunk(s) /\ InChunk(s, b) /\ ~ts_lexer__eof(s)
      \/ ~HasChunk(s) /\ ts_lexer__eof(s) /\ s.chunk_start = b /\ b = Len(s.input.text)

\* ts_lexer__get_chunk stays where it is.
LEMMA GetChunkTrue ==
  ASSUME NEW s, Sited(s), ~ts_lexer__eof(s)
  PROVE  LET t == ts_lexer__get_chunk(s)
         IN  /\ Sited(t) /\ LexerOK(t) /\ Same(s, t) /\ AtChunk(t)
             /\ t.lookahead = s.lookahead /\ t.lookahead_size = s.lookahead_size
             /\ t.current_position.bytes < Len(t.input.text) => ~ts_lexer__eof(t)
<1> DEFINE t == ts_lexer__get_chunk(s)
           b == s.current_position.bytes
<1>0. s \in LexerType /\ Len(s.included_ranges) > 0 /\ CursorInRange(s)
      /\ RangesAccepted(s.included_ranges) /\ BomWide(s)
  BY SitedFacts, DefaultRange DEF Sited
<1>1. /\ LexerOK(t) /\ t.current_position = s.current_position /\ t.input = s.input
      /\ t.included_ranges = s.included_ranges /\ t.lookahead_size = s.lookahead_size
      /\ t.chunk_start = b
      /\ HasChunk(t) => t.current_included_range_index = s.current_included_range_index
      /\ ~HasChunk(t) => ts_lexer__eof(t)
      /\ b < Len(s.input.text) => HasChunk(t)
  BY <1>0, GetChunkOK
<1>2. /\ t.column_data = s.column_data /\ t.lookahead = s.lookahead
      /\ t.token_start_position = s.token_start_position
      /\ t.token_end_position = s.token_end_position
      /\ t.chunk_size = IF b < Len(s.input.text) THEN s.input.read[b + 1] ELSE 0
  BY <1>0 DEF ts_lexer__get_chunk, LexerType
<1> HIDE DEF t
<1>3. Same(s, t) BY <1>1, <1>2 DEF Same
<1>4. Sited(t) BY <1>1, <1>2 DEF Sited, LexerOK
<1>5. b \in Nat /\ b <= Len(s.input.text) /\ Len(s.input.text) \in Nat BY SitedFacts
<1>6. ~HasChunk(t) => ~(b < Len(s.input.text)) BY <1>1
<1>7. HasChunk(t) => ~ts_lexer__eof(t) BY <1>1 DEF ts_lexer__eof, EofIndex
<1>8. HasChunk(t) => InChunk(t, t.current_position.bytes) BY <1>1 DEF LexerOK, ChunkHere
<1>9. AtChunk(t) BY <1>1, <1>5, <1>6, <1>7, <1>8 DEF AtChunk
<1>10. QED BY <1>1, <1>2, <1>3, <1>4, <1>7, <1>9 DEF t

\* ts_lexer__get_lookahead finds the character of the text, however the read
\* callback cuts it.
LEMMA GetLookaheadTrue ==
  ASSUME NEW s, Sited(s), LexerOK(s), AtChunk(s)
  PROVE  LET t == ts_lexer__get_lookahead(s)
         IN  Truthful(t) /\ Loaded(t) /\ Same(s, t) /\ (ts_lexer__eof(t) <=> ts_lexer__eof(s))
<1> DEFINE t     == ts_lexer__get_lookahead(s)
           text  == s.input.text
           b     == s.current_position.bytes
           size  == s.chunk_size - (b - s.chunk_start)
           first == decode(text, b, size)
           again == first.lookahead = "error" /\ size < 4
           fresh == IF again THEN ts_lexer__get_chunk(s) ELSE s
           char  == IF again THEN decode(text, b, fresh.chunk_size) ELSE first
<1>1. /\ s.input \in TSInput /\ text \in Seq(ByteKind) /\ Len(text) \in Nat
      /\ b \in Nat /\ b <= Len(text)
  BY SitedFacts
<1>2. s \in LexerType /\ s.chunk_start \in Nat /\ s.chunk_size \in Nat
  BY DEF Sited, LexerType
<1>3. /\ LexerOK(t) /\ Loaded(t) /\ t.current_position = s.current_position
      /\ t.current_included_range_index = s.current_included_range_index
      /\ t.included_ranges = s.included_ranges
  BY GetLookaheadOK DEF AtChunk
<1>4. ts_lexer__eof(t) <=> ts_lexer__eof(s) BY <1>3 DEF ts_lexer__eof, EofIndex
<1>5. t = IF size = 0 THEN [s EXCEPT !.lookahead = "nul", !.lookahead_size = 1]
                      ELSE [fresh EXCEPT !.lookahead = char.lookahead,
                                         !.lookahead_size = char.lookahead_size]
  BY DEF ts_lexer__get_lookahead
<1>6. CASE ~HasChunk(s)
  <2>1. ts_lexer__eof(s) /\ s.chunk_start = b /\ b = Len(text) /\ s.chunk_size = 0
    BY <1>2, <1>6 DEF AtChunk, HasChunk
  <2>2. size = 0 BY <1>1, <2>1
  <2>3. t = [s EXCEPT !.lookahead = "nul", !.lookahead_size = 1] BY <1>5, <2>2
  <2> HIDE DEF t
  <2>4. /\ Same(s, t) /\ t.lookahead = "nul" /\ t.chunk_size = s.chunk_size
    BY <1>2, <2>3 DEF Same, LexerType
  <2>5. EndAt(t) BY <2>1, <2>4 DEF EndAt, Same, HasChunk
  <2>6. LookaheadAt(t) BY <1>4, <2>1 DEF LookaheadAt
  <2>7. Truthful(t) BY <1>3, <2>4, <2>5, <2>6 DEF Truthful, Same, Sited
  <2>8. QED BY <1>3, <1>4, <2>4, <2>7 DEF t
<1>7. CASE HasChunk(s)
  <2>1. InChunk(s, b) /\ ~ts_lexer__eof(s) BY <1>7 DEF AtChunk
  <2>2. s.chunk_start + s.chunk_size <= Len(text) BY <1>7 DEF LexerOK, ChunkInText
  <2>3. size \in 1 .. (Len(text) - b) /\ b < Len(text)
    BY <1>1, <1>2, <2>1, <2>2 DEF InChunk
  <2>4. t = [fresh EXCEPT !.lookahead = char.lookahead, !.lookahead_size = char.lookahead_size]
    <3> HIDE DEF size, fresh, char, t
    <3>1. size # 0 BY <2>3
    <3>2. QED BY <1>5, <3>1
  <2>5. fresh \in LexerType /\ Same(s, fresh)
    <3>1. CASE again BY <2>1, <3>1, GetChunkTrue DEF Sited
    <3>2. CASE ~again BY <1>2, <3>2 DEF Same
    <3>3. QED BY <3>1, <3>2
  <2>6. char = CharAt(text, b)
    <3>1. CASE again
      <4>1. ts_lexer__get_chunk(s).chunk_size = s.input.read[b + 1]
        BY <1>2, <2>3 DEF ts_lexer__get_chunk, LexerType
      <4>2. char = decode(text, b, s.input.read[b + 1]) BY <3>1, <4>1
      <4>3. /\ s.input.read[b + 1] \in Nat /\ s.input.read[b + 1] > 0
            /\ b + s.input.read[b + 1] <= Len(text)
        BY <1>1, <2>3, ReadSize
      <4>4. s.input.read[b + 1] >= 3 \/ (b + 1) + s.input.read[b + 1] > Len(text)
        <5>1. b + 1 \in 1 .. Len(text) BY <1>1, <2>3
        <5>2. QED BY <5>1 DEF Sited, DocumentInput, WholeReads
      <4>5. PICK r \in Nat : r = s.input.read[b + 1] BY <4>3
      <4>6. r \in 1 .. (Len(text) - b) /\ (r >= 3 \/ r = Len(text) - b)
        <5>1. r > 0 /\ b + r <= Len(text) BY <4>3, <4>5
        <5>2. r >= 3 \/ (b + 1) + r > Len(text) BY <4>4, <4>5
        <5>3. PICK n \in Nat : n = Len(text) BY <1>1
        <5>4. PICK d \in Nat : d = b BY <1>1
        <5>5. r > 0 /\ d + r <= n /\ (r >= 3 \/ (d + 1) + r > n) BY <5>1, <5>2, <5>3, <5>4
        <5>6. r \in 1 .. (n - d) /\ (r >= 3 \/ r = n - d) BY <5>5
        <5>7. QED BY <5>3, <5>4, <5>6
      <4>7. decode(text, b, r) = CharAt(text, b) BY <1>1, <2>3, <4>6, DecodeEnough
      <4>8. QED BY <4>2, <4>5, <4>7
    <3>2. CASE ~again
      <4>1. char = first BY <3>2
      <4>2. first.lookahead # "error" \/ size >= 3 BY <2>3, <3>2
      <4>3. first = CharAt(text, b) BY <1>1, <2>3, <4>2, DecodeEnough
      <4>4. QED BY <4>1, <4>3
    <3>3. QED BY <3>1, <3>2
  <2> HIDE DEF t, fresh, char
  <2>7. /\ Same(s, t) /\ t.lookahead = CharAt(text, b).lookahead
        /\ t.lookahead_size = CharAt(text, b).lookahead_size
    BY <2>4, <2>5, <2>6 DEF Same, LexerType
  <2>8. EndAt(t) BY <1>4, <2>1 DEF EndAt
  <2>9. LookaheadAt(t) BY <2>3, <2>7 DEF LookaheadAt, Same
  <2>10. Truthful(t) BY <1>3, <2>7, <2>8, <2>9 DEF Truthful, Same, Sited
  <2>11. QED BY <1>3, <1>4, <2>7, <2>10 DEF t
<1>8. QED BY <1>6, <1>7

\* The beginning of a text.
LEMMA PosZero ==
  ASSUME NEW text \in Seq(ByteKind)
  PROVE  Pos(text, length_zero) /\ LineStart(text, 0) = 0
         /\ PointAt(text, 0) = [row |-> 0, column |-> 0]
<1>1. /\ LineStart(text, 0) \in 0 .. 0 /\ Newlines(text, 0) \subseteq 1 .. 0
      /\ PointAt(text, 0) = [row |-> Cardinality(Newlines(text, 0)), column |-> 0 - LineStart(text, 0)]
  BY LineFacts
<1>2. LineStart(text, 0) = 0 /\ Newlines(text, 0) = {} BY <1>1
<1>3. PointAt(text, 0) = [row |-> 0, column |-> 0]
  <2>1. Cardinality(Newlines(text, 0)) = 0 BY <1>2, FS_EmptySet
  <2>2. 0 - LineStart(text, 0) = 0 BY <1>2
  <2>3. QED BY <1>1, <2>1, <2>2
<1>4. Boundary(text, 0) BY DEF Boundary
<1>5. length_zero.bytes = 0 /\ length_zero.extent = [row |-> 0, column |-> 0] BY DEF length_zero
<1>6. Len(text) \in Nat OBVIOUS
<1>7. QED BY <1>2, <1>3, <1>4, <1>5, <1>6 DEF Pos

\* A position is determined by its byte.
LEMMA PosIs ==
  ASSUME NEW text, NEW p \in Length, NEW q \in Length, Pos(text, p), Pos(text, q), p.bytes = q.bytes
  PROVE  p = q
<1>1. p.extent = q.extent BY DEF Pos
<1>2. p = [bytes |-> p.bytes, extent |-> p.extent] /\ q = [bytes |-> q.bytes, extent |-> q.extent]
  BY DEF Length
<1>3. QED BY <1>1, <1>2

\* ts_lexer_goto moves to the position it is given.
LEMMA GotoTrue ==
  ASSUME NEW s \in LexerType, s.included_ranges = <<DEFAULT_RANGE>>, ChunkInText(s),
         DocumentInput(s.input), NEW position \in Length, Pos(s.input.text, position),
         position.bytes = s.current_position.bytes =>
           ColumnAt(s.input.text, position.bytes, s.column_data)
  PROVE  LET t == ts_lexer_goto(s, position)
         IN  /\ Truthful(t) /\ t.input = s.input /\ t.current_position = position
             /\ t.token_start_position = s.token_start_position
             /\ t.token_end_position = s.token_end_position
             /\ t.column_data = ColumnAfterGoto(s, position)
             /\ ~ts_lexer__eof(t) /\ t.lookahead_size = 0 /\ t.lookahead = "nul"
<1> DEFINE t      == ts_lexer_goto(s, position)
           ranges == s.included_ranges
           found  == {i \in 1 .. Len(ranges) : HoldsTextAfter(ranges[i], position.bytes)}
           target == IF ranges[1].start_byte >= position.bytes
                       THEN [bytes |-> ranges[1].start_byte, extent |-> ranges[1].start_point]
                       ELSE position
           keep   == ChunkKept(s, target.bytes)
<1>1. s.input \in TSInput /\ s.input.text \in Seq(ByteKind) /\ Len(s.input.text) \in Nat
  BY DEF LexerType, TSInput
<1>2. position.bytes \in Nat /\ position.bytes < UINT32_MAX /\ UINT32_MAX \in Nat
  BY <1>1, UInt32Assumption DEF Length, Pos, DocumentInput
<1>3. /\ Len(ranges) = 1 /\ ranges[1] = DEFAULT_RANGE /\ ranges[1].start_byte = 0
      /\ ranges[1].end_byte = UINT32_MAX /\ ranges[1].start_point = [row |-> 0, column |-> 0]
  BY DefaultRange
<1>4. HoldsTextAfter(ranges[1], position.bytes)
  BY <1>2, <1>3, UInt32Assumption DEF HoldsTextAfter, NonEmpty
<1>5. found = {1} BY <1>3, <1>4
<1>6. Least({1}) = 1
  <2>1. {1} \in SUBSET Nat /\ {1} # {} OBVIOUS
  <2>2. QED BY <2>1, LeastIn
<1>7. target = position
  <2>1. CASE position.bytes = 0
    <3>1. length_zero \in Length BY ConstantsOK
    <3>2. Pos(s.input.text, length_zero) BY <1>1, PosZero
    <3>3. length_zero.bytes = position.bytes BY <2>1 DEF length_zero
    <3>4. position = length_zero BY <3>1, <3>2, <3>3, PosIs
    <3>5. QED BY <1>3, <2>1, <3>4 DEF length_zero
  <2>2. CASE position.bytes # 0 BY <1>2, <1>3, <2>2
  <2>3. QED BY <2>1, <2>2
<1>8. t = [s EXCEPT !.column_data = ColumnAfterGoto(s, position),
                    !.current_position = target,
                    !.current_included_range_index = 1,
                    !.chunk_start = IF keep \/ ~HasChunk(s) THEN @ ELSE 0,
                    !.chunk_size = IF keep THEN @ ELSE 0,
                    !.lookahead = "nul",
                    !.lookahead_size = 0]
  <2>1. found # {} /\ Least(found) = 1 BY <1>5, <1>6
  <2> HIDE DEF found
  <2>2. QED BY <2>1 DEF ts_lexer_goto, found
<1>9. LexerOK(t)
  <2>1. Len(s.included_ranges) > 0 BY <1>3
  <2>2. RangesAccepted(s.included_ranges) BY DefaultRange
  <2>3. QED BY <2>1, <2>2, GotoOK
<1> HIDE DEF t, target, keep
<1>10. /\ t.input = s.input /\ t.current_position = position
       /\ t.included_ranges = s.included_ranges
       /\ t.token_start_position = s.token_start_position
       /\ t.token_end_position = s.token_end_position
       /\ t.column_data = ColumnAfterGoto(s, position)
       /\ t.current_included_range_index = 1 /\ t.lookahead_size = 0 /\ t.lookahead = "nul"
  BY <1>7, <1>8 DEF LexerType
<1>11. ~ts_lexer__eof(t) BY <1>3, <1>10 DEF ts_lexer__eof, EofIndex
<1>12. ColumnAt(t.input.text, t.current_position.bytes, t.column_data)
  <2>1. CASE position.bytes = s.current_position.bytes BY <1>10, <2>1 DEF ColumnAfterGoto
  <2>2. CASE position.bytes # s.current_position.bytes
    BY <1>10, <2>2 DEF ColumnAfterGoto, ColumnAt, NoColumn
  <2>3. QED BY <2>1, <2>2
<1>13. LookaheadAt(t) BY <1>10 DEF LookaheadAt
<1>14. EndAt(t) BY <1>11 DEF EndAt
<1>15. Truthful(t) BY <1>9, <1>10, <1>12, <1>13, <1>14 DEF Truthful
<1>16. QED BY <1>10, <1>11, <1>15 DEF t

\* ts_lexer_reset moves to the position it is given, or is there.
LEMMA ResetTrue ==
  ASSUME NEW s, Truthful(s), NEW position \in Length, Pos(s.input.text, position)
  PROVE  LET t == ts_lexer_reset(s, position)
         IN  /\ Truthful(t) /\ t.input = s.input /\ t.current_position = position
             /\ t.token_start_position = s.token_start_position
             /\ t.token_end_position = s.token_end_position
<1>1. s \in LexerType /\ s.current_position \in Length /\ ChunkInText(s)
  BY DEF Truthful, LexerOK, LexerType
<1>2. CASE position.bytes = s.current_position.bytes
  <2>1. ts_lexer_reset(s, position) = s BY <1>2 DEF ts_lexer_reset
  <2>2. position = s.current_position BY <1>1, <1>2, PosIs DEF Truthful
  <2>3. QED BY <2>1, <2>2
<1>3. CASE position.bytes # s.current_position.bytes
  <2>1. ts_lexer_reset(s, position) = ts_lexer_goto(s, position) BY <1>3 DEF ts_lexer_reset
  <2>2. QED BY <1>1, <1>3, <2>1, GotoTrue DEF Truthful
<1>4. QED BY <1>2, <1>3

\* ts_lexer__do_advance moves over the character at the cursor.
LEMMA DoAdvanceTrue ==
  ASSUME NEW s, Truthful(s), ~ts_lexer__eof(s), s.lookahead_size > 0,
         NEW skip \in BOOLEAN, NEW junk \in Nat
  PROVE  LET t == ts_lexer__do_advance(s, skip, junk)
             b == s.current_position.bytes
         IN  /\ Truthful(t) /\ Loaded(t) /\ t.input = s.input
             /\ b < Len(s.input.text)
             /\ t.current_position.bytes = b + CharAt(s.input.text, b).lookahead_size
             /\ t.token_start_position = IF skip THEN t.current_position ELSE s.token_start_position
             /\ t.token_end_position = s.token_end_position
<1> DEFINE text   == s.input.text
           b      == s.current_position.bytes
           c      == CharAt(text, b)
           moved  == ConsumeLookahead(s)
           marked == IF skip THEN [moved EXCEPT !.token_start_position = moved.current_position]
                             ELSE moved
           loaded == IF InChunk(marked, marked.current_position.bytes)
                       THEN marked ELSE ts_lexer__get_chunk(marked)
           t      == ts_lexer__do_advance(s, skip, junk)
<1>1. Sited(s) /\ LexerOK(s) BY TruthfulSited DEF Truthful
<1>2. /\ text \in Seq(ByteKind) /\ Len(text) \in Nat /\ b \in Nat /\ Len(text) < UINT32_MAX
      /\ s.current_position \in Length
      /\ s.current_included_range_index = 1
      /\ Len(s.included_ranges) = 1 /\ s.included_ranges[1] = DEFAULT_RANGE
  BY <1>1, SitedFacts
<1>3. b < Len(text) /\ s.lookahead = c.lookahead /\ s.lookahead_size = c.lookahead_size
  BY DEF Truthful, LookaheadAt
<1>4. s \in LexerType /\ s.column_data \in ColumnData BY <1>1 DEF Sited, LexerType
<1>n. PICK n \in 1 .. 3 : n = c.lookahead_size BY <1>2, <1>3, CharFacts
<1>5. b + n <= Len(text) BY <1>n, <1>2, <1>3, CharFacts
<1>6. Boundary(text, b + n) BY <1>n, <1>2, <1>3, BoundaryStep DEF Truthful, Pos
<1>7. /\ c.lookahead = "nl" => PointAt(text, b + n) = [row |-> PointAt(text, b).row + 1, column |-> 0]
      /\ c.lookahead # "nl" =>
           PointAt(text, b + n) = [row |-> PointAt(text, b).row, column |-> PointAt(text, b).column + n]
  BY <1>n, <1>2, <1>3, PointStep
<1>8. s.current_position.extent = PointAt(text, b) BY DEF Truthful, Pos
<1>9. ExtentAfter(s) = PointAt(text, b + n) BY <1>n, <1>3, <1>7, <1>8 DEF ExtentAfter
<1>10. ColumnAt(text, b + n, ColumnAfter(text, b, s.column_data))
  BY <1>n, <1>2, <1>3, <1>4, ColumnStep DEF Truthful, Pos
<1>11. moved = [s EXCEPT !.current_position = [bytes |-> b + s.lookahead_size, extent |-> ExtentAfter(s)],
                         !.column_data =
                            IF s.lookahead = "nl" THEN [valid |-> TRUE, value |-> 0]
                            ELSE IF b = 0 /\ s.lookahead = "bom" THEN @
                            ELSE ts_lexer__increment_column_data(@)]
  BY DEF ConsumeLookahead
<1>12. /\ moved.current_position = [bytes |-> b + n, extent |-> PointAt(text, b + n)]
       /\ moved.column_data = ColumnAfter(text, b, s.column_data)
       /\ moved.token_end_position = s.token_end_position
  <2> HIDE DEF moved
  <2>1. ExtentAfter(s) = PointAt(text, b + n) /\ b + s.lookahead_size = b + n BY <1>n, <1>3, <1>9
  <2>2. moved.current_position = [bytes |-> b + s.lookahead_size, extent |-> ExtentAfter(s)]
    BY <1>4, <1>11 DEF LexerType
  <2>3. moved.column_data = ColumnAfter(text, b, s.column_data)
    BY <1>3, <1>4, <1>11 DEF LexerType, ColumnAfter
  <2>4. moved.token_end_position = s.token_end_position BY <1>4, <1>11 DEF LexerType
  <2>5. QED BY <2>1, <2>2, <2>3, <2>4
<1>13. /\ moved \in LexerType /\ moved.input = s.input
       /\ moved.included_ranges = s.included_ranges
       /\ moved.current_included_range_index = s.current_included_range_index
       /\ moved.chunk_start = s.chunk_start /\ moved.chunk_size = s.chunk_size
       /\ moved.token_start_position = s.token_start_position
       /\ moved.lookahead = s.lookahead /\ moved.lookahead_size = s.lookahead_size
  BY <1>4, ConsumeOK
<1>14. moved.current_position.bytes = b + n BY <1>12
<1>15. CurrentRangeEnd(s, junk) = UINT32_MAX /\ NonEmpty(CurrentRange(s))
  BY <1>2, DefaultRange, UInt32Assumption DEF CurrentRangeEnd, CurrentRange, NonEmpty
<1>16. ~(moved.current_position.bytes >= CurrentRangeEnd(s, junk))
  BY <1>2, <1>5, <1>14, <1>15, UInt32Assumption
<1>17. t = ts_lexer__get_lookahead(loaded)
  BY <1>15, <1>16 DEF ts_lexer__do_advance
<1> HIDE DEF moved
<1>18. /\ marked \in LexerType /\ marked.input = s.input
       /\ marked.included_ranges = s.included_ranges
       /\ marked.current_included_range_index = s.current_included_range_index
       /\ marked.chunk_start = s.chunk_start /\ marked.chunk_size = s.chunk_size
       /\ marked.lookahead = s.lookahead /\ marked.lookahead_size = s.lookahead_size
       /\ marked.current_position = moved.current_position
       /\ marked.column_data = moved.column_data
       /\ marked.token_end_position = s.token_end_position
       /\ marked.token_start_position = IF skip THEN moved.current_position ELSE s.token_start_position
  <2>1. moved.current_position \in Length BY <1>13 DEF LexerType
  <2>2. CASE skip
    <3>1. marked = [moved EXCEPT !.token_start_position = moved.current_position] BY <2>2
    <3> HIDE DEF marked
    <3>2. QED BY <1>12, <1>13, <2>1, <2>2, <3>1 DEF LexerType
  <2>3. CASE ~skip
    <3>1. marked = moved BY <2>3
    <3> HIDE DEF marked
    <3>2. QED BY <1>12, <1>13, <2>3, <3>1
  <2>4. QED BY <2>2, <2>3
<1> HIDE DEF marked
<1>19. Pos(text, marked.current_position)
  BY <1>5, <1>6, <1>12, <1>18 DEF Pos
<1>20. CursorInRange(marked)
  <2>1. CurrentRange(marked) = DEFAULT_RANGE /\ Len(marked.included_ranges) = 1
        /\ marked.current_included_range_index = 1
    BY <1>2, <1>18 DEF CurrentRange
  <2>2. marked.current_position.bytes = b + n BY <1>14, <1>18
  <2>3. QED BY <1>2, <1>5, <2>1, <2>2, DefaultRange, UInt32Assumption DEF CursorInRange
<1>21. BomWide(marked) BY <1>1, <1>18 DEF Sited, BomWide
<1>22. ColumnAt(marked.input.text, marked.current_position.bytes, marked.column_data)
  BY <1>10, <1>12, <1>14, <1>18
<1>23. Sited(marked)
  BY <1>18, <1>19, <1>20, <1>21, <1>22 DEF Sited, Truthful
<1>24. ~ts_lexer__eof(marked) BY <1>2, <1>18 DEF ts_lexer__eof, EofIndex
<1>25. Sited(loaded) /\ LexerOK(loaded) /\ AtChunk(loaded) /\ Same(marked, loaded)
  <2>1. CASE InChunk(marked, marked.current_position.bytes)
    <3>1. ChunkInText(marked) BY <1>1, <1>18 DEF LexerOK, ChunkInText, HasChunk
    <3>2. ChunkHere(marked) BY <2>1 DEF ChunkHere
    <3>3. LexerOK(marked) BY <1>23, <3>1, <3>2, SitedOK
    <3>4. marked.chunk_start \in Nat /\ marked.chunk_size \in Nat /\ b + n \in Nat
          /\ marked.current_position.bytes = b + n
      BY <1>2, <1>14, <1>18 DEF LexerType
    <3>5. HasChunk(marked) BY <2>1, <3>4 DEF HasChunk, InChunk
    <3>6. AtChunk(marked) BY <1>24, <2>1, <3>5 DEF AtChunk
    <3>7. QED BY <1>23, <2>1, <3>3, <3>6 DEF Same
  <2>2. CASE ~InChunk(marked, marked.current_position.bytes)
    BY <1>23, <1>24, <2>2, GetChunkTrue
  <2>3. QED BY <2>1, <2>2
<1> HIDE DEF loaded
<1>26. Truthful(t) /\ Loaded(t) /\ Same(loaded, t) BY <1>17, <1>25, GetLookaheadTrue
<1> HIDE DEF t
<1>27. /\ t.input = s.input /\ t.current_position = moved.current_position
       /\ t.token_start_position = marked.token_start_position
       /\ t.token_end_position = s.token_end_position
  BY <1>18, <1>25, <1>26 DEF Same
<1>28. QED BY <1>n, <1>3, <1>14, <1>18, <1>26, <1>27 DEF t

\* ts_lexer__advance moves over the character at the cursor, and not at all at
\* the end of the file.
LEMMA AdvanceTrue ==
  ASSUME NEW s, Truthful(s), Loaded(s), NEW skip \in BOOLEAN, NEW junk \in Nat
  PROVE  LET t == ts_lexer__advance(s, skip, junk)
             b == s.current_position.bytes
         IN  /\ Truthful(t) /\ Loaded(t) /\ t.input = s.input
             /\ ts_lexer__eof(s) => t = s
             /\ ~ts_lexer__eof(s) =>
                  /\ b < Len(s.input.text)
                  /\ t.current_position.bytes = b + CharAt(s.input.text, b).lookahead_size
                  /\ t.token_start_position = IF skip THEN t.current_position ELSE s.token_start_position
                  /\ t.token_end_position = s.token_end_position
<1>1. CASE ts_lexer__eof(s)
  <2>1. ~HasChunk(s) BY <1>1 DEF Truthful, EndAt
  <2>2. ts_lexer__advance(s, skip, junk) = s BY <2>1 DEF ts_lexer__advance
  <2>3. QED BY <1>1, <2>2
<1>2. CASE ~ts_lexer__eof(s)
  <2>1. HasChunk(s) /\ s.lookahead_size > 0 BY <1>2 DEF Loaded
  <2>2. LexerOK(s) BY DEF Truthful
  <2>3. CurrentRange(s) \in TSRange
    <3>1. s.included_ranges \in Seq(TSRange) BY <2>2 DEF LexerOK, LexerType
    <3>2. s.current_included_range_index \in 1 .. Len(s.included_ranges)
      BY <1>2, <2>2 DEF LexerOK, CursorInRange
    <3>3. QED BY <3>1, <3>2 DEF CurrentRange
  <2>4. FastPath(s, junk) => FastAdvance(s, skip) = ts_lexer__do_advance(s, skip, junk)
    BY <2>1, <2>2, <2>3, FastPathSame
  <2>5. ts_lexer__advance(s, skip, junk) = ts_lexer__do_advance(s, skip, junk)
    BY <2>1, <2>4 DEF ts_lexer__advance
  <2>6. QED BY <1>2, <2>1, <2>5, DoAdvanceTrue
<1>3. QED BY <1>1, <1>2

\* The document, the cursor and the column are what is true of a lexer; the
\* token is not part of it.
LEMMA TokenFree ==
  ASSUME NEW s, Truthful(s), NEW t \in LexerType,
         t.input = s.input, t.included_ranges = s.included_ranges,
         t.current_included_range_index = s.current_included_range_index,
         t.current_position = s.current_position,
         t.chunk_start = s.chunk_start, t.chunk_size = s.chunk_size,
         t.lookahead = s.lookahead, t.lookahead_size = s.lookahead_size,
         ColumnAt(s.input.text, s.current_position.bytes, t.column_data)
  PROVE  Truthful(t) /\ (Loaded(s) => Loaded(t)) /\ (ts_lexer__eof(t) <=> ts_lexer__eof(s))
<1>1. LexerOK(t) /\ (ts_lexer__eof(t) <=> ts_lexer__eof(s)) /\ (HasChunk(t) <=> HasChunk(s))
  BY UnmovedOK DEF Truthful
<1>2. LookaheadAt(t) BY <1>1 DEF Truthful, LookaheadAt
<1>3. EndAt(t) BY <1>1 DEF Truthful, EndAt
<1>4. Loaded(s) => Loaded(t) BY <1>1 DEF Loaded
<1>5. QED BY <1>1, <1>2, <1>3, <1>4 DEF Truthful

\* In a document without included ranges a token ends where it is marked.
LEMMA MarkEndTrue ==
  ASSUME NEW s, Truthful(s)
  PROVE  LET t == ts_lexer__mark_end(s)
         IN  /\ Truthful(t) /\ (Loaded(s) => Loaded(t)) /\ t.input = s.input
             /\ t.current_position = s.current_position
             /\ t.token_start_position = s.token_start_position
             /\ t.token_end_position = s.current_position
             /\ t.lookahead = s.lookahead
             /\ ts_lexer__eof(t) <=> ts_lexer__eof(s)
<1> DEFINE t == ts_lexer__mark_end(s)
<1>1. Sited(s) BY TruthfulSited
<1>2. s \in LexerType /\ s.current_position \in Length BY <1>1 DEF Sited, LexerType
<1>3. ~(~ts_lexer__eof(s) /\ s.current_included_range_index > 1) BY <1>1, SitedFacts
<1>4. t = [s EXCEPT !.token_end_position = s.current_position]
  BY <1>3 DEF ts_lexer__mark_end
<1> HIDE DEF t
<1>5. /\ t \in LexerType
      /\ t.input = s.input /\ t.included_ranges = s.included_ranges
      /\ t.current_included_range_index = s.current_included_range_index
      /\ t.current_position = s.current_position
      /\ t.chunk_start = s.chunk_start /\ t.chunk_size = s.chunk_size
      /\ t.lookahead = s.lookahead /\ t.lookahead_size = s.lookahead_size
      /\ t.column_data = s.column_data
      /\ t.token_start_position = s.token_start_position
      /\ t.token_end_position = s.current_position
  BY <1>2, <1>4 DEF LexerType
<1>6. ColumnAt(s.input.text, s.current_position.bytes, t.column_data) BY <1>5 DEF Truthful
<1>7. Truthful(t) /\ (Loaded(s) => Loaded(t)) /\ (ts_lexer__eof(t) <=> ts_lexer__eof(s))
  BY <1>5, <1>6, TokenFree
<1>8. QED BY <1>5, <1>7 DEF t

\* ts_lexer_finish gives the token an end that is not before its start.
LEMMA FinishTrue ==
  ASSUME NEW s, Truthful(s), NEW from \in Nat, from <= s.current_position.bytes,
         TokenPlaced(s, from, s.current_position.bytes)
  PROVE  LET t == ts_lexer_finish(s)
         IN  /\ Truthful(t) /\ (Loaded(s) => Loaded(t)) /\ t.input = s.input
             /\ t.current_position = s.current_position /\ t.lookahead = s.lookahead
             /\ ts_lexer__eof(t) <=> ts_lexer__eof(s)
             /\ t.token_start_position \in Length /\ t.token_end_position \in Length
             /\ Pos(t.input.text, t.token_start_position) /\ Pos(t.input.text, t.token_end_position)
             /\ from <= t.token_start_position.bytes
             /\ t.token_start_position.bytes <= t.token_end_position.bytes
             /\ t.token_end_position.bytes <= t.current_position.bytes
<1> DEFINE text == s.input.text
           e    == IF length_is_undefined(s.token_end_position) THEN ts_lexer__mark_end(s) ELSE s
           t    == ts_lexer_finish(s)
<1>1. Sited(s) BY TruthfulSited
<1>2. text \in Seq(ByteKind) BY <1>1, SitedFacts
<1>3. /\ Truthful(e) /\ (Loaded(s) => Loaded(e)) /\ e.input = s.input
      /\ e.current_position = s.current_position /\ e.lookahead = s.lookahead
      /\ ts_lexer__eof(e) <=> ts_lexer__eof(s)
      /\ e.token_start_position = s.token_start_position
      /\ Pos(text, e.token_end_position) /\ from <= e.token_end_position.bytes
      /\ e.token_end_position.bytes <= s.current_position.bytes
  <2>1. CASE length_is_undefined(s.token_end_position)
    <3>1. e = ts_lexer__mark_end(s) BY <2>1
    <3> HIDE DEF e
    <3>2. s.current_position.bytes \in Nat BY <1>1, SitedFacts
    <3>3. Pos(text, s.current_position) BY DEF Truthful
    <3>4. QED BY <3>1, <3>2, <3>3, MarkEndTrue
  <2>2. CASE ~length_is_undefined(s.token_end_position)
    <3>1. e = s BY <2>2
    <3>2. s.token_end_position # LENGTH_UNDEFINED
      BY <2>2 DEF length_is_undefined, LENGTH_UNDEFINED
    <3> HIDE DEF e
    <3>3. QED BY <3>1, <3>2 DEF TokenPlaced
  <2>3. QED BY <2>1, <2>2
<1>4. t = IF e.token_end_position.bytes < e.token_start_position.bytes
            THEN [e EXCEPT !.token_start_position = e.token_end_position] ELSE e
  BY DEF ts_lexer_finish
<1> HIDE DEF t, e
<1>5. e \in LexerType /\ e.token_start_position \in Length /\ e.token_end_position \in Length
  BY <1>3 DEF Truthful, LexerOK, LexerType
<1>6. e.token_start_position.bytes \in Nat /\ e.token_end_position.bytes \in Nat BY <1>5 DEF Length
<1>7. CASE e.token_end_position.bytes < e.token_start_position.bytes
  <2>1. t = [e EXCEPT !.token_start_position = e.token_end_position] BY <1>4, <1>7
  <2>2. /\ t \in LexerType
        /\ t.input = e.input /\ t.included_ranges = e.included_ranges
        /\ t.current_included_range_index = e.current_included_range_index
        /\ t.current_position = e.current_position
        /\ t.chunk_start = e.chunk_start /\ t.chunk_size = e.chunk_size
        /\ t.lookahead = e.lookahead /\ t.lookahead_size = e.lookahead_size
        /\ t.column_data = e.column_data
        /\ t.token_start_position = e.token_end_position
        /\ t.token_end_position = e.token_end_position
    BY <1>5, <2>1 DEF LexerType
  <2>3. ColumnAt(e.input.text, e.current_position.bytes, t.column_data) BY <1>3, <2>2 DEF Truthful
  <2>4. Truthful(t) /\ (Loaded(e) => Loaded(t)) /\ (ts_lexer__eof(t) <=> ts_lexer__eof(e))
    BY <1>3, <2>2, <2>3, TokenFree
  <2>5. QED BY <1>3, <1>5, <1>6, <2>2, <2>4 DEF t
<1>8. CASE ~(e.token_end_position.bytes < e.token_start_position.bytes)
  <2>1. t = e BY <1>4, <1>8
  <2>2. e.token_start_position.bytes <= e.token_end_position.bytes BY <1>6, <1>8
  <2>3. Pos(text, e.token_start_position) /\ from <= e.token_start_position.bytes
    BY <1>3 DEF TokenPlaced
  <2>4. QED BY <1>3, <1>5, <2>1, <2>2, <2>3 DEF t
<1>9. QED BY <1>7, <1>8

\* ts_lexer_start begins a token at the cursor, after a byte order mark at the
\* beginning of the text.
LEMMA StartTrue ==
  ASSUME NEW s, Truthful(s)
  PROVE  LET t == ts_lexer_start(s)
             b == s.current_position.bytes
         IN  /\ Truthful(t) /\ Loaded(t) /\ t.input = s.input
             /\ \/ t.current_position = s.current_position
                \/ /\ b < Len(s.input.text)
                   /\ t.current_position.bytes = b + CharAt(s.input.text, b).lookahead_size
             /\ t.token_start_position = t.current_position
             /\ t.token_end_position = LENGTH_UNDEFINED
<1> DEFINE begun  == [s EXCEPT !.token_start_position = s.current_position,
                               !.token_end_position = LENGTH_UNDEFINED,
                               !.did_get_column = FALSE]
           loaded == IF HasChunk(begun) THEN begun ELSE ts_lexer__get_chunk(begun)
           seen   == IF loaded.lookahead_size = 0 THEN ts_lexer__get_lookahead(loaded) ELSE loaded
           past   == IF seen.lookahead = "bom" THEN ts_lexer__advance(seen, TRUE, 0) ELSE seen
           t      == ts_lexer_start(s)
<1>1. s \in LexerType /\ s.current_position \in Length BY DEF Truthful, LexerOK, LexerType
<1>2. LENGTH_UNDEFINED \in Length BY DEF LENGTH_UNDEFINED, Length, TSPoint
<1>3. /\ begun \in LexerType /\ begun.input = s.input
      /\ begun.included_ranges = s.included_ranges
      /\ begun.current_included_range_index = s.current_included_range_index
      /\ begun.current_position = s.current_position
      /\ begun.chunk_start = s.chunk_start /\ begun.chunk_size = s.chunk_size
      /\ begun.lookahead = s.lookahead /\ begun.lookahead_size = s.lookahead_size
      /\ begun.column_data = s.column_data
      /\ begun.token_start_position = s.current_position
      /\ begun.token_end_position = LENGTH_UNDEFINED
  BY <1>1, <1>2 DEF LexerType
<1>4. t = IF ts_lexer__eof(begun) THEN begun
          ELSE IF seen.current_position.bytes # 0 THEN seen
          ELSE [past EXCEPT !.column_data = [valid |-> TRUE, value |-> 0]]
  BY DEF ts_lexer_start
<1> HIDE DEF begun, t
<1>5. Truthful(begun) /\ (ts_lexer__eof(begun) <=> ts_lexer__eof(s))
  BY <1>3, TokenFree DEF Truthful
<1>6. CASE ts_lexer__eof(begun)
  <2>1. t = begun BY <1>4, <1>6
  <2>2. Loaded(begun) BY <1>6 DEF Loaded
  <2>3. QED BY <1>3, <1>5, <2>1, <2>2 DEF t
<1>7. CASE ~ts_lexer__eof(begun)
  <2>1. Sited(begun) /\ LexerOK(begun) BY <1>5, TruthfulSited DEF Truthful
  <2>2. /\ Sited(loaded) /\ LexerOK(loaded) /\ AtChunk(loaded) /\ Same(begun, loaded)
        /\ loaded.lookahead = begun.lookahead /\ loaded.lookahead_size = begun.lookahead_size
        /\ loaded.current_position.bytes < Len(loaded.input.text) => ~ts_lexer__eof(loaded)
    <3>1. CASE HasChunk(begun)
      BY <1>7, <2>1, <3>1 DEF AtChunk, LexerOK, ChunkHere, Same
    <3>2. CASE ~HasChunk(begun) BY <1>7, <2>1, <3>2, GetChunkTrue
    <3>3. QED BY <3>1, <3>2
  <2> HIDE DEF loaded
  <2>3. Truthful(seen) /\ Loaded(seen) /\ Same(begun, seen)
    <3>1. CASE loaded.lookahead_size = 0
      BY <2>2, <3>1, GetLookaheadTrue DEF Same
    <3>2. CASE loaded.lookahead_size # 0
      <4>1. seen = loaded BY <3>2
      <4>2. loaded.lookahead_size > 0 /\ begun.lookahead_size > 0
        BY <2>2, <3>2 DEF Sited, LexerType
      <4>3. /\ begun.current_position.bytes < Len(begun.input.text)
            /\ begun.lookahead = CharAt(begun.input.text, begun.current_position.bytes).lookahead
            /\ begun.lookahead_size = CharAt(begun.input.text, begun.current_position.bytes).lookahead_size
        BY <1>5, <1>7, <4>2 DEF Truthful, LookaheadAt
      <4>4. ~ts_lexer__eof(loaded) BY <2>2, <4>3 DEF Same
      <4>5. LookaheadAt(loaded) BY <2>2, <4>3 DEF LookaheadAt, Same
      <4>6. EndAt(loaded) BY <4>4 DEF EndAt
      <4>7. Truthful(loaded) BY <2>2, <4>5, <4>6 DEF Truthful, Sited
      <4>8. Loaded(loaded) BY <2>2, <4>2, <4>4 DEF Loaded, AtChunk
      <4>9. QED BY <2>2, <4>1, <4>7, <4>8
    <3>3. QED BY <3>1, <3>2
  <2> HIDE DEF seen
  <2>4. CASE seen.current_position.bytes # 0
    <3>1. t = seen BY <1>4, <1>7, <2>4
    <3>2. QED BY <1>3, <2>3, <3>1 DEF t, Same
  <2>5. CASE seen.current_position.bytes = 0
    <3>1. t = [past EXCEPT !.column_data = [valid |-> TRUE, value |-> 0]] BY <1>4, <1>7, <2>5
    <3> DEFINE text == s.input.text
    <3>2. text \in Seq(ByteKind) /\ seen.input = s.input /\ seen.current_position = s.current_position
          /\ s.current_position.bytes = 0
      BY <1>3, <2>1, <2>3, <2>5, SitedFacts DEF Same
    <3>3. /\ Truthful(past) /\ Loaded(past) /\ past.input = s.input
          /\ past.token_start_position = past.current_position
          /\ past.token_end_position = LENGTH_UNDEFINED
          /\ Counted(text, LineStart(text, past.current_position.bytes), past.current_position.bytes) = 0
          /\ \/ past.current_position = s.current_position
             \/ /\ 0 < Len(text)
                /\ past.current_position.bytes = 0 + CharAt(text, 0).lookahead_size
      <4>0. LineStart(text, 0) = 0 /\ Counted(text, 0, 0) = 0 BY <3>2, PosZero, CountedNone
      <4>1. CASE seen.lookahead # "bom"
        <5>1. past = seen BY <4>1
        <5> HIDE DEF past
        <5>2. QED BY <1>3, <2>3, <3>2, <4>0, <5>1 DEF Same
      <4>2. CASE seen.lookahead = "bom" /\ ts_lexer__eof(seen)
        BY <2>3, <4>2 DEF Truthful, EndAt
      <4>3. CASE seen.lookahead = "bom" /\ ~ts_lexer__eof(seen)
        <5>1. past = ts_lexer__advance(seen, TRUE, 0) BY <4>3
        <5> HIDE DEF past
        <5>2. /\ Truthful(past) /\ Loaded(past) /\ past.input = seen.input
              /\ 0 < Len(text)
              /\ past.current_position.bytes = 0 + CharAt(text, 0).lookahead_size
              /\ past.token_start_position = past.current_position
              /\ past.token_end_position = seen.token_end_position
          <6>1. PICK skip \in BOOLEAN : skip = TRUE OBVIOUS
          <6>2. PICK junk \in Nat : junk = 0 OBVIOUS
          <6>3. past = ts_lexer__advance(seen, skip, junk) BY <5>1, <6>1, <6>2
          <6>4. /\ Truthful(past) /\ Loaded(past) /\ past.input = seen.input
                /\ seen.current_position.bytes < Len(seen.input.text)
                /\ past.current_position.bytes = seen.current_position.bytes
                     + CharAt(seen.input.text, seen.current_position.bytes).lookahead_size
                /\ past.token_start_position
                     = IF skip THEN past.current_position ELSE seen.token_start_position
                /\ past.token_end_position = seen.token_end_position
            BY <2>3, <4>3, <6>3, AdvanceTrue
          <6>5. QED BY <2>5, <3>2, <6>1, <6>4
        <5>3. CharAt(text, 0).lookahead = "bom"
          <6>1. seen.lookahead_size > 0 BY <2>3, <4>3 DEF Loaded
          <6>2. seen.lookahead = CharAt(seen.input.text, seen.current_position.bytes).lookahead
            BY <2>3, <4>3, <6>1 DEF Truthful, LookaheadAt
          <6>3. QED BY <3>2, <4>3, <6>2
        <5>4. LineStart(text, 0 + CharAt(text, 0).lookahead_size) = LineStart(text, 0)
          <6>1. 0 \in Nat /\ CharAt(text, 0).lookahead # "nl" BY <5>3
          <6>2. QED BY <3>2, <5>2, <6>1, PointStep
        <5>5. Boundary(text, 0) BY DEF Boundary
        <5>6. Counted(text, 0, 0 + CharAt(text, 0).lookahead_size) = Counted(text, 0, 0)
          <6>1. 0 \in Nat /\ 0 \in 0 .. 0 OBVIOUS
          <6>2. QED BY <3>2, <5>2, <5>3, <5>5, <6>1, CountedStep
        <5>7. QED BY <1>3, <2>3, <3>2, <4>0, <5>2, <5>4, <5>6 DEF Same
      <4>4. QED BY <4>1, <4>2, <4>3
    <3> HIDE DEF past
    <3>4. past \in LexerType /\ [valid |-> TRUE, value |-> 0] \in ColumnData
      BY <3>3 DEF Truthful, LexerOK, ColumnData
    <3>5. /\ t \in LexerType
          /\ t.input = past.input /\ t.included_ranges = past.included_ranges
          /\ t.current_included_range_index = past.current_included_range_index
          /\ t.current_position = past.current_position
          /\ t.chunk_start = past.chunk_start /\ t.chunk_size = past.chunk_size
          /\ t.lookahead = past.lookahead /\ t.lookahead_size = past.lookahead_size
          /\ t.column_data = [valid |-> TRUE, value |-> 0]
          /\ t.token_start_position = past.token_start_position
          /\ t.token_end_position = past.token_end_position
      BY <3>1, <3>4 DEF LexerType
    <3>6. ColumnAt(past.input.text, past.current_position.bytes, t.column_data)
      BY <3>3, <3>5 DEF ColumnAt
    <3>7. Truthful(t) /\ (Loaded(past) => Loaded(t)) BY <3>3, <3>5, <3>6, TokenFree
    <3>8. QED BY <3>2, <3>3, <3>5, <3>7 DEF t
  <2>6. QED BY <2>4, <2>5
<1>8. QED BY <1>6, <1>7

\* ts_lexer__get_column backs up to the beginning of the line, where the column
\* is zero.
LEMMA BackUpTrue ==
  ASSUME NEW s, Truthful(s)
  PROVE  LET t == GetColumnBackUp(s)
         IN  /\ Truthful(t) /\ Loaded(t) /\ t.input = s.input
             /\ t.current_position.bytes <= s.current_position.bytes
             /\ t.token_start_position = s.token_start_position
             /\ t.token_end_position = s.token_end_position
<1> DEFINE text == s.input.text
           b    == s.current_position.bytes
           a    == LineStart(text, b)
           line == [bytes |-> UInt32(b - s.current_position.extent.column),
                    extent |-> [row |-> s.current_position.extent.row, column |-> 0]]
           went == ts_lexer_goto(s, line)
           zero == [went EXCEPT !.column_data = [valid |-> TRUE, value |-> 0]]
           back == ts_lexer__get_chunk(zero)
           t    == GetColumnBackUp(s)
<1>1. Sited(s) /\ LexerOK(s) BY TruthfulSited DEF Truthful
<1>2. /\ text \in Seq(ByteKind) /\ Len(text) \in Nat /\ b \in Nat /\ b <= Len(text)
      /\ Len(text) < UINT32_MAX /\ s.current_position \in Length
  BY <1>1, SitedFacts
<1>3. s.current_position.extent = PointAt(text, b) BY DEF Truthful, Pos
<1>4. /\ a \in 0 .. b
      /\ PointAt(text, a) = [row |-> PointAt(text, b).row, column |-> 0]
      /\ LineStart(text, a) = a
      /\ Boundary(text, a)
  BY <1>2, LineStartPos
<1>5. b - s.current_position.extent.column = a BY <1>3 DEF LineStart
<1>6. UInt32(a) = a
  <2> HIDE DEF a
  <2>1. a \in Nat /\ UINT32_MAX + 1 \in Nat /\ a < UINT32_MAX + 1 BY <1>2, <1>4, UInt32Assumption
  <2>2. \A x, n \in Nat : x < n => x % n = x OBVIOUS
  <2>3. QED BY <2>1, <2>2 DEF UInt32
<1>7. line.bytes = a /\ line.extent = PointAt(text, a) BY <1>3, <1>4, <1>5, <1>6
<1>8. line \in Length
  <2>1. s.current_position.extent \in TSPoint BY <1>2 DEF Length
  <2>2. a \in Nat BY <1>4
  <2> HIDE DEF a
  <2>3. QED BY <1>7, <2>1, <2>2 DEF Length, TSPoint
<1>9. Pos(text, line) BY <1>2, <1>4, <1>7 DEF Pos
<1>10. t = IF ts_lexer__eof(back) THEN back ELSE ts_lexer__get_lookahead(back)
  BY DEF GetColumnBackUp
<1>11. s \in LexerType /\ ChunkInText(s) /\ DocumentInput(s.input)
       /\ s.included_ranges = <<DEFAULT_RANGE>>
  BY <1>1 DEF LexerOK, Sited
<1>12. line.bytes = s.current_position.bytes => ColumnAt(text, line.bytes, s.column_data)
  BY DEF Truthful
<1> HIDE DEF line, t
<1>13. /\ Truthful(went) /\ went.input = s.input /\ went.current_position = line
       /\ went.token_start_position = s.token_start_position
       /\ went.token_end_position = s.token_end_position
       /\ ~ts_lexer__eof(went) /\ went.lookahead_size = 0 /\ went.lookahead = "nul"
  BY <1>8, <1>9, <1>11, <1>12, GotoTrue
<1> HIDE DEF went
<1>14. went \in LexerType /\ [valid |-> TRUE, value |-> 0] \in ColumnData
  BY <1>13 DEF Truthful, LexerOK, ColumnData
<1>15. /\ zero \in LexerType
       /\ zero.input = went.input /\ zero.included_ranges = went.included_ranges
       /\ zero.current_included_range_index = went.current_included_range_index
       /\ zero.current_position = went.current_position
       /\ zero.chunk_start = went.chunk_start /\ zero.chunk_size = went.chunk_size
       /\ zero.lookahead = went.lookahead /\ zero.lookahead_size = went.lookahead_size
       /\ zero.column_data = [valid |-> TRUE, value |-> 0]
       /\ zero.token_start_position = went.token_start_position
       /\ zero.token_end_position = went.token_end_position
  BY <1>14 DEF LexerType
<1> HIDE DEF zero
<1>16. ColumnAt(went.input.text, went.current_position.bytes, zero.column_data)
  <2>1. Counted(text, a, a) = 0
    <3>1. a \in Nat BY <1>4
    <3>2. QED BY <1>2, <3>1, CountedNone
  <2> HIDE DEF a
  <2>2. QED BY <1>4, <1>7, <1>13, <1>15, <2>1 DEF ColumnAt
<1>17. Truthful(zero) /\ ~ts_lexer__eof(zero) BY <1>13, <1>15, <1>16, TokenFree
<1>18. Sited(zero) BY <1>17, TruthfulSited
<1>19. /\ Sited(back) /\ LexerOK(back) /\ Same(zero, back) /\ AtChunk(back)
       /\ back.lookahead = "nul"
  BY <1>13, <1>15, <1>17, <1>18, GetChunkTrue
<1> HIDE DEF back
<1>20. Truthful(t) /\ Loaded(t) /\ Same(back, t)
  <2>1. CASE ts_lexer__eof(back)
    <3>1. t = back BY <1>10, <2>1
    <3>2. EndAt(back) BY <1>19, <2>1 DEF EndAt, AtChunk
    <3>3. LookaheadAt(back) BY <2>1 DEF LookaheadAt
    <3>4. Truthful(back) BY <1>19, <3>2, <3>3 DEF Truthful, Sited
    <3>5. QED BY <2>1, <3>1, <3>4 DEF Same, Loaded
  <2>2. CASE ~ts_lexer__eof(back) BY <1>10, <1>19, <2>2, GetLookaheadTrue
  <2>3. QED BY <2>1, <2>2
<1>21. /\ t.input = s.input /\ t.current_position = line
       /\ t.token_start_position = s.token_start_position
       /\ t.token_end_position = s.token_end_position
  BY <1>13, <1>15, <1>19, <1>20 DEF Same
<1>22. line.bytes <= b BY <1>2, <1>4, <1>7
<1>23. QED BY <1>20, <1>21, <1>22 DEF t

\* ts_lexer_set_input stays where it is; the position must be one of the text.
LEMMA SetInputTrue ==
  ASSUME NEW s, Truthful(s), NEW input \in TSInput, DocumentInput(input),
         Pos(input.text, s.current_position),
         ColumnAt(input.text, s.current_position.bytes, s.column_data)
  PROVE  LET t == ts_lexer_set_input(s, input)
         IN  Truthful(t) /\ t.input = input /\ t.current_position = s.current_position
<1> DEFINE given == [s EXCEPT !.input = input]
           clear == ts_lexer__clear_chunk(given)
<1>1. s \in LexerType /\ s.current_position \in Length BY DEF Truthful, LexerOK, LexerType
<1>2. /\ clear \in LexerType /\ clear.input = input
      /\ clear.included_ranges = s.included_ranges
      /\ clear.current_position = s.current_position
      /\ clear.column_data = s.column_data
      /\ clear.chunk_size = 0
  BY <1>1 DEF ts_lexer__clear_chunk, LexerType
<1>3. ts_lexer_set_input(s, input) = ts_lexer_goto(clear, s.current_position)
  BY DEF ts_lexer_set_input
<1> HIDE DEF clear
<1>4. ChunkInText(clear) BY <1>2 DEF ChunkInText, HasChunk
<1>5. clear.included_ranges = <<DEFAULT_RANGE>> BY <1>2 DEF Truthful
<1>6. QED BY <1>1, <1>2, <1>3, <1>4, <1>5, GotoTrue

\* A parse without included ranges begins at the beginning of its text.
LEMMA BeginTrue ==
  ASSUME NEW s, Truthful(s), s.current_position.bytes = 0,
         NEW input \in TSInput, DocumentInput(input)
  PROVE  LET t == ts_lexer_set_input(ts_lexer_set_included_ranges(s, <<>>), input)
         IN  Truthful(t) /\ t.input = input /\ t.current_position = length_zero
<1> DEFINE over == [s EXCEPT !.included_ranges = <<DEFAULT_RANGE>>]
           u    == ts_lexer_set_included_ranges(s, <<>>)
<1>1. s \in LexerType /\ s.current_position \in Length /\ ChunkInText(s)
      /\ DocumentInput(s.input) /\ Pos(s.input.text, s.current_position)
      /\ ColumnAt(s.input.text, s.current_position.bytes, s.column_data)
  BY DEF Truthful, LexerOK, LexerType
<1>2. u = ts_lexer_goto(over, s.current_position)
  <2>1. RangesAccepted(<<DEFAULT_RANGE>>) BY DefaultRange
  <2>2. QED BY <2>1 DEF ts_lexer_set_included_ranges
<1>4. /\ over \in LexerType /\ over.input = s.input
      /\ over.included_ranges = <<DEFAULT_RANGE>>
      /\ over.current_position = s.current_position
      /\ over.column_data = s.column_data
      /\ over.chunk_start = s.chunk_start /\ over.chunk_size = s.chunk_size
  <2>1. PICK rs \in Seq(TSRange) : rs = <<DEFAULT_RANGE>> BY <1>1 DEF Truthful, LexerType
  <2>2. over = [s EXCEPT !.included_ranges = rs] BY <2>1
  <2> HIDE DEF over
  <2>3. QED BY <1>1, <2>1, <2>2 DEF LexerType
<1> HIDE DEF over
<1>5. ChunkInText(over) BY <1>1, <1>4 DEF ChunkInText, HasChunk
<1>6. Truthful(u) /\ u.current_position = s.current_position
  BY <1>1, <1>2, <1>4, <1>5, GotoTrue
<1> HIDE DEF u
<1>7. s.input.text \in Seq(ByteKind) /\ input.text \in Seq(ByteKind)
  BY <1>1 DEF LexerType, TSInput
<1>8. s.current_position = length_zero
  <2>1. Pos(s.input.text, length_zero) /\ length_zero.bytes = 0
    BY <1>7, PosZero DEF length_zero
  <2>2. QED BY <1>1, <2>1, ConstantsOK, PosIs
<1>9. Pos(input.text, u.current_position) BY <1>6, <1>7, <1>8, PosZero
<1>10. ColumnAt(input.text, u.current_position.bytes, u.column_data)
  <2>1. ColumnAt(u.input.text, 0, u.column_data) /\ u.input.text \in Seq(ByteKind)
        /\ u.current_position.bytes = 0
    <3>1. u \in LexerType /\ u.current_position.bytes = 0 BY <1>6 DEF Truthful, LexerOK
    <3>2. u.input.text \in Seq(ByteKind) BY <3>1 DEF LexerType, TSInput
    <3>3. QED BY <1>6, <3>1, <3>2 DEF Truthful
  <2>2. LineStart(u.input.text, 0) = 0 /\ LineStart(input.text, 0) = 0 BY <1>7, <2>1, PosZero
  <2>3. Counted(u.input.text, 0, 0) = 0 /\ Counted(input.text, 0, 0) = 0
    BY <1>7, <2>1, CountedNone
  <2>4. QED BY <2>1, <2>2, <2>3 DEF ColumnAt
<1>11. QED BY <1>6, <1>8, <1>9, <1>10, SetInputTrue DEF u

-----------------------------------------------------------------------------
(* The steps of the parser, the lexer and the scanners.                    *)

\* The types and bounds that the invariant gives.
LEMMA StateFacts ==
  ASSUME CursorInv
  PROVE  /\ lexer \in LexerType /\ lexer.input \in TSInput /\ lexer.input.text \in Seq(ByteKind)
         /\ Len(lexer.input.text) \in Nat
         /\ lexer.current_position \in Length /\ lexer.current_position.bytes \in Nat
         /\ lexer.current_position.bytes <= Len(lexer.input.text)
         /\ call \in CallType
         /\ call.start_position \in Length /\ call.start_position.bytes \in Nat
         /\ call.current_position \in Length /\ call.current_position.bytes \in Nat
         /\ call.error_start_position \in Length /\ call.error_start_position.bytes \in Nat
         /\ call.error_end_position \in Length /\ call.error_end_position.bytes \in Nat
         /\ call.lookahead_end_byte \in Nat /\ leaf.lookahead_end_byte \in Nat
         /\ positions \subseteq Length /\ goal_byte \in Nat /\ examined \in Nat
<1>1. /\ lexer \in LexerType /\ call \in CallType /\ leaf \in LeafType
      /\ positions \subseteq Length /\ goal_byte \in Nat /\ examined \in Nat
  BY DEF CursorInv, IInv, TypeOK
<1>2. Sited(lexer) BY TruthfulSited DEF CursorInv
<1>3. /\ lexer.input \in TSInput /\ lexer.input.text \in Seq(ByteKind)
      /\ Len(lexer.input.text) \in Nat
      /\ lexer.current_position \in Length /\ lexer.current_position.bytes \in Nat
      /\ lexer.current_position.bytes <= Len(lexer.input.text)
  BY <1>2, SitedFacts
<1>4. /\ call.start_position \in Length /\ call.current_position \in Length
      /\ call.error_start_position \in Length /\ call.error_end_position \in Length
      /\ call.lookahead_end_byte \in Nat
  BY <1>1 DEF CallType
<1>5. leaf.lookahead_end_byte \in Nat BY <1>1 DEF LeafType
<1>6. \A l \in Length : l.bytes \in Nat BY DEF Length
<1>7. QED BY <1>1, <1>3, <1>4, <1>5, <1>6

\* Adding the difference of two positions to the first gives the second.
LEMMA LengthStep ==
  ASSUME NEW text \in Seq(ByteKind), NEW p \in Length, NEW q \in Length,
         Pos(text, p), Pos(text, q), p.bytes <= q.bytes
  PROVE  length_add(p, length_sub(q, p)) = q
<1>1. p.bytes \in Nat /\ q.bytes \in Nat BY DEF Length
<1>2. q = [bytes |-> q.bytes, extent |-> q.extent] BY DEF Length
<1>3. point_add(p.extent, point_sub(q.extent, p.extent)) = q.extent
  BY <1>1, PointArithmetic DEF Pos
<1> DEFINE d == length_sub(q, p)
<1>4. d.bytes = q.bytes - p.bytes /\ d.extent = point_sub(q.extent, p.extent)
  BY <1>1 DEF length_sub
<1> HIDE DEF d
<1>5. length_add(p, d) = [bytes |-> p.bytes + d.bytes, extent |-> point_add(p.extent, d.extent)]
  BY DEF length_add
<1>6. p.bytes + d.bytes = q.bytes BY <1>1, <1>4
<1>7. QED BY <1>2, <1>3, <1>4, <1>5, <1>6 DEF d

\* The leaf that ts_parser__lex builds takes the version to the end of the
\* token, and covers what the lexer recorded.
LEMMA ReturnTrue ==
  ASSUME CursorInv, Pos(lexer.input.text, call.start_position),
         NEW token, NEW start \in Length, NEW end \in Length,
         Pos(lexer.input.text, start), Pos(lexer.input.text, end),
         call.start_position.bytes <= start.bytes, start.bytes <= end.bytes,
         Return(token, start, end)
  PROVE  /\ lexer' = token
         /\ \A p \in positions' : Pos(lexer.input.text, p)
         /\ leaf'.lookahead_end_byte = LookaheadEnd
<1> DEFINE text    == lexer.input.text
           padding == length_sub(start, call.start_position)
           size    == length_sub(end, start)
           next    == length_add(length_add(call.start_position, padding), size)
<1>1. text \in Seq(ByteKind) /\ call.start_position \in Length BY StateFacts
<1>2. length_add(call.start_position, padding) = start BY <1>1, LengthStep
<1>3. length_add(start, size) = end BY <1>1, LengthStep
<1>4. next = end BY <1>2, <1>3
<1>5. \E others \in SUBSET positions : positions' = others \union {next} BY DEF Return
<1>6. lexer' = token BY DEF Return
<1>7. leaf' = [start_position |-> call.start_position, padding |-> padding,
               size |-> size, lookahead_end_byte |-> LookaheadEnd]
  BY DEF Return
<1> HIDE DEF next, padding, size
<1>8. leaf'.lookahead_end_byte = LookaheadEnd BY <1>7
<1>9. \A p \in positions : Pos(text, p) BY DEF CursorInv
<1>10. \A p \in positions' : Pos(text, p) BY <1>4, <1>5, <1>9
<1>11. QED BY <1>6, <1>8, <1>10

\* What the decoder has looked at for the lookahead of the cursor is counted.
LEMMA ReachTrue ==
  ASSUME NEW s, Truthful(s), Loaded(s)
  PROVE  LookaheadReach(s) <= ReachAt(s.input.text, s.current_position.bytes)
<1> DEFINE text == s.input.text
           b    == s.current_position.bytes
           w    == Width(text[b + 1])
           next == b + 2 <= Len(text) /\ text[b + 2] = "cont"
<1>1. Sited(s) BY TruthfulSited
<1>2. b \in Nat /\ Len(text) \in Nat BY <1>1, SitedFacts
<1>3. w \in 1 .. 3 BY DEF Width
<1>4. LookaheadReach(s) = IF s.lookahead # "error" THEN b + 1
                          ELSE IF w = 3 /\ ~next THEN b + 2 ELSE b + w
  BY DEF LookaheadReach
<1>5. ReachAt(text, b) = IF ~(b < Len(text) /\ CharAt(text, b).lookahead = "error") THEN b + 1
                         ELSE IF w = 3 /\ next THEN b + 3 ELSE b + 2
  BY DEF ReachAt
<1> HIDE DEF w, next
<1>6. CASE s.lookahead # "error" BY <1>2, <1>4, <1>5, <1>6
<1>7. CASE s.lookahead = "error"
  <2>1. ~ts_lexer__eof(s) /\ s.lookahead_size > 0 BY <1>7 DEF Truthful, EndAt, Loaded
  <2>2. b < Len(text) /\ CharAt(text, b).lookahead = "error"
    BY <1>7, <2>1 DEF Truthful, LookaheadAt
  <2>3. QED BY <1>2, <1>3, <1>4, <1>5, <1>7, <2>2
<1>8. QED BY <1>6, <1>7

\* ts_lexer_finish records at least the bytes that were looked at.
LEMMA RecordTrue ==
  ASSUME NEW s, Truthful(s), Loaded(s), NEW recorded \in Nat
  PROVE  /\ ReachAt(s.input.text, s.current_position.bytes) <= FinishLookaheadEnd(s, recorded)
         /\ recorded <= FinishLookaheadEnd(s, recorded)
         /\ FinishLookaheadEnd(s, recorded) \in Nat
         /\ ReachAt(s.input.text, s.current_position.bytes) \in Nat
<1> DEFINE text == s.input.text
           b    == s.current_position.bytes
           cur  == b + 1 + (IF s.lookahead = "error" THEN 4 ELSE 0)
<1>1. Sited(s) BY TruthfulSited
<1>2. b \in Nat /\ Len(text) \in Nat /\ b <= Len(text) BY <1>1, SitedFacts
<1>3. FinishLookaheadEnd(s, recorded) = IF cur > recorded THEN cur ELSE recorded
  BY DEF FinishLookaheadEnd
<1>4. cur \in Nat BY <1>2
<1>5. ReachAt(text, b) <= cur /\ ReachAt(text, b) \in Nat
  <2>1. CASE b < Len(text) /\ CharAt(text, b).lookahead = "error"
    <3>1. ~ts_lexer__eof(s) BY <1>2, <2>1 DEF Truthful, EndAt
    <3>2. s.lookahead = "error" BY <2>1, <3>1 DEF Truthful, Loaded, LookaheadAt
    <3>3. cur = b + 5 BY <1>2, <3>2
    <3>4. ReachAt(text, b) \in (b + 1) .. (b + 3) BY <1>2 DEF ReachAt
    <3>5. QED BY <1>2, <3>3, <3>4
  <2>2. CASE ~(b < Len(text) /\ CharAt(text, b).lookahead = "error")
    <3>1. ReachAt(text, b) = b + 1 BY <2>2 DEF ReachAt
    <3>2. QED BY <1>2, <3>1
  <2>3. QED BY <2>1, <2>2
<1> HIDE DEF cur
<1>6. QED BY <1>3, <1>4, <1>5

\* When a scanner returns: the token, and what was examined.
LEMMA FinishedTrue ==
  ASSUME CursorInv, pc = "scan"
  PROVE  /\ Truthful(Finished) /\ Loaded(Finished) /\ Finished.input = lexer.input
         /\ Finished.current_position = lexer.current_position
         /\ ts_lexer__eof(Finished) <=> ts_lexer__eof(lexer)
         /\ Finished.token_start_position \in Length /\ Finished.token_end_position \in Length
         /\ Pos(lexer.input.text, Finished.token_start_position)
         /\ Pos(lexer.input.text, Finished.token_end_position)
         /\ call.start_position.bytes <= Finished.token_start_position.bytes
         /\ Finished.token_start_position.bytes <= Finished.token_end_position.bytes
         /\ Finished.token_end_position.bytes <= lexer.current_position.bytes
         /\ Finished.token_start_position.bytes <= lexer.current_position.bytes
         /\ examined <= LookaheadEnd /\ LookaheadEnd \in Nat
<1>1. Truthful(lexer) /\ Loaded(lexer) BY DEF CursorInv, IInv, ChunkLoaded, Lexing
<1>2. Reached = lexer.current_position.bytes BY DEF Reached
<1>3. /\ call.start_position.bytes \in Nat /\ call.current_position.bytes \in Nat
      /\ lexer.current_position.bytes \in Nat /\ call.lookahead_end_byte \in Nat
      /\ examined \in Nat
  BY StateFacts
<1>4. call.start_position.bytes <= lexer.current_position.bytes
  <2>1. CallTrue BY DEF CursorInv, InCall
  <2>2. QED BY <1>2, <1>3, <2>1 DEF CallTrue
<1>5. TokenPlaced(lexer, call.start_position.bytes, lexer.current_position.bytes)
  BY <1>2 DEF CursorInv, TokenTrue
<1>6. /\ Truthful(Finished) /\ (Loaded(lexer) => Loaded(Finished)) /\ Finished.input = lexer.input
      /\ Finished.current_position = lexer.current_position
      /\ ts_lexer__eof(Finished) <=> ts_lexer__eof(lexer)
      /\ Finished.token_start_position \in Length /\ Finished.token_end_position \in Length
      /\ Pos(Finished.input.text, Finished.token_start_position)
      /\ Pos(Finished.input.text, Finished.token_end_position)
      /\ call.start_position.bytes <= Finished.token_start_position.bytes
      /\ Finished.token_start_position.bytes <= Finished.token_end_position.bytes
      /\ Finished.token_end_position.bytes <= Finished.current_position.bytes
  BY <1>1, <1>3, <1>4, <1>5, FinishTrue DEF Finished
<1>7. Finished.token_start_position.bytes <= lexer.current_position.bytes
  <2>1. Finished.token_start_position.bytes \in Nat /\ Finished.token_end_position.bytes \in Nat
    BY <1>6 DEF Length
  <2>2. QED BY <1>3, <1>6, <2>1
<1>8. examined <= LookaheadEnd /\ LookaheadEnd \in Nat
  <2>1. /\ ReachAt(lexer.input.text, lexer.current_position.bytes) <= LookaheadEnd
        /\ call.lookahead_end_byte <= LookaheadEnd
        /\ LookaheadEnd \in Nat
        /\ ReachAt(lexer.input.text, lexer.current_position.bytes) \in Nat
    BY <1>1, <1>3, RecordTrue DEF LookaheadEnd
  <2>2. \/ examined <= call.lookahead_end_byte
        \/ examined <= ReachAt(lexer.input.text, lexer.current_position.bytes)
    BY <1>2 DEF CursorInv, Examined, InCall
  <2>3. QED BY <1>3, <2>1, <2>2
<1>9. QED BY <1>1, <1>6, <1>7, <1>8

\* The steps between two calls of ts_parser__lex.
LEMMA ParseSteps ==
  ASSUME CursorInv, IInv', DocumentInputs,
         \/ \E in \in Inputs : BeginParse(in)
         \/ ResumeParse \/ EndParse \/ KeywordReturn
  PROVE  CursorInv'
<1>1. Truthful(lexer) BY DEF CursorInv
<1>2. lexer.input \in TSInput /\ lexer.input.text \in Seq(ByteKind) BY StateFacts
<1>3. ASSUME NEW in \in Inputs, BeginParse(in) PROVE CursorInv'
  <2>1. in.ranges = <<>> /\ DocumentInput(in.input) /\ in.input \in TSInput
    BY InputsAssumption DEF DocumentInputs
  <2>2. lexer.current_position.bytes = 0 /\ pc = "stopped" BY <1>3 DEF BeginParse, CursorInv
  <2>3. lexer' = ts_lexer_set_input(ts_lexer_set_included_ranges(lexer, <<>>), in.input)
    BY <1>3, <2>1 DEF BeginParse
  <2>4. Truthful(lexer') /\ lexer'.input = in.input BY <1>1, <2>1, <2>2, <2>3, BeginTrue
  <2>5. pc' = "parsing" /\ positions' = {length_zero} /\ examined' = examined /\ leaf' = leaf
    BY <1>3 DEF BeginParse
  <2>6. \A p \in positions' : Pos(lexer'.input.text, p)
    <3>1. in.input.text \in Seq(ByteKind) BY <2>1 DEF TSInput
    <3>2. QED BY <2>4, <2>5, <3>1, PosZero
  <2>7. Examined' BY <2>2, <2>5 DEF CursorInv, Examined, InCall
  <2>8. QED BY <2>4, <2>5, <2>6, <2>7 DEF CursorInv, InCall
<1>4. CASE ResumeParse
  <2>1. lexer' = ts_lexer_set_input(lexer, lexer.input) BY <1>4 DEF ResumeParse
  <2>2. Truthful(lexer') /\ lexer'.input = lexer.input
    BY <1>1, <1>2, <2>1, SetInputTrue DEF Truthful
  <2>3. pc = "parsing" /\ pc' = "parsing" /\ positions' = positions
        /\ examined' = examined /\ leaf' = leaf
    BY <1>4 DEF ResumeParse
  <2>4. Examined' BY <2>3 DEF CursorInv, Examined, InCall
  <2>5. QED BY <2>2, <2>3, <2>4 DEF CursorInv, InCall
<1>5. CASE EndParse
  <2>1. lexer' = ts_lexer_reset(lexer, length_zero) BY <1>5 DEF EndParse
  <2>2. Pos(lexer.input.text, length_zero) /\ length_zero \in Length
    BY <1>2, PosZero, ConstantsOK
  <2>3. Truthful(lexer') /\ lexer'.input = lexer.input /\ lexer'.current_position = length_zero
    BY <1>1, <2>1, <2>2, ResetTrue
  <2>4. pc' = "stopped" /\ positions' = {length_zero} /\ examined' = 0 /\ leaf' = NoLeaf
    BY <1>5 DEF EndParse
  <2>5. Examined' BY <2>4 DEF Examined, InCall, NoLeaf
  <2>6. lexer'.current_position.bytes = 0 BY <2>3 DEF length_zero
  <2>7. QED BY <2>2, <2>3, <2>4, <2>5, <2>6 DEF CursorInv, InCall
<1>6. CASE KeywordReturn
  <2>1. /\ pc = "keyword" /\ pc' = "parsing" /\ positions' = positions
        /\ examined' = examined /\ leaf' = leaf /\ lexer' = lexer
    BY <1>6 DEF KeywordReturn
  <2>2. Examined' BY <2>1 DEF CursorInv, Examined, InCall
  <2>3. QED BY <1>1, <2>1, <2>2 DEF CursorInv, InCall
<1>7. QED BY <1>3, <1>4, <1>5, <1>6

\* A call of ts_parser__lex begins at the position of its version.
LEMMA BeginLexStep ==
  ASSUME CursorInv, IInv', NEW start \in positions, NEW external \in BOOLEAN,
         NEW error_mode \in BOOLEAN, BeginLex(start, external, error_mode)
  PROVE  CursorInv'
<1> DEFINE s == ts_lexer_reset(lexer, start)
           c == [NoCall EXCEPT !.start_position = start, !.error_mode = error_mode]
<1>1. start \in Length /\ Pos(lexer.input.text, start) BY StateFacts DEF CursorInv
<1>2. Truthful(s) /\ s.input = lexer.input /\ s.current_position = start
  BY <1>1, ResetTrue DEF CursorInv
<1>3. /\ lexer' = s /\ pc' = "ready" /\ positions' = positions /\ examined' = 0
      /\ call' = [c EXCEPT !.current_position = s.current_position,
                           !.column_data = s.column_data, !.external = external]
  BY DEF BeginLex, Attempt
<1>4. /\ c.start_position = start /\ c.skipped_error = FALSE /\ c.lookahead_end_byte = 0
      /\ c \in CallType
  BY <1>1, ConstantsOK DEF NoCall, CallType
<1> HIDE DEF s, c
<1>5. /\ call'.start_position = start /\ call'.current_position = start
      /\ call'.column_data = s.column_data /\ call'.skipped_error = FALSE
      /\ call'.lookahead_end_byte = 0
  BY <1>2, <1>3, <1>4 DEF CallType
<1>6. Reached' = start.bytes BY <1>2, <1>3 DEF Reached
<1>7. start.bytes \in Nat BY <1>1 DEF Length
<1>8. ColumnAt(lexer'.input.text, start.bytes, s.column_data) BY <1>2, <1>3 DEF Truthful
<1>9. CallTrue' BY <1>1, <1>2, <1>3, <1>5, <1>6, <1>7, <1>8 DEF CallTrue
<1>10. Examined' BY <1>3, <1>5 DEF Examined, InCall
<1>11. \A p \in positions' : Pos(lexer'.input.text, p) BY <1>2, <1>3 DEF CursorInv
<1>12. QED BY <1>2, <1>3, <1>9, <1>10, <1>11 DEF CursorInv

\* Some facts of the call survive a step of the scanner, which only moves on.
LEMMA CallKept ==
  ASSUME CursorInv, InCall, call' = call, lexer'.input = lexer.input,
         Reached <= Reached', Reached' \in Nat
  PROVE  CallTrue'
<1>1. /\ call.current_position.bytes \in Nat /\ lexer.current_position.bytes \in Nat
      /\ goal_byte \in Nat
  BY StateFacts
<1>2. CallTrue BY DEF CursorInv
<1>3. Reached \in Nat BY <1>1 DEF Reached
<1>4. call.current_position.bytes <= Reached' BY <1>1, <1>2, <1>3 DEF CallTrue
<1>5. QED BY <1>2, <1>4 DEF CallTrue

\* What has been examined is covered after a move to t, which is over the
\* character at the cursor or not at all.
LEMMA ExaminedKept ==
  ASSUME CursorInv, pc \in {"ready", "scan"}, pc' \in {"ready", "scan"}, call' = call,
         Truthful(lexer'), Loaded(lexer'), lexer'.input = lexer.input,
         \/ lexer'.current_position = lexer.current_position
         \/ /\ lexer.current_position.bytes < Len(lexer.input.text)
            /\ lexer'.current_position.bytes
                 = lexer.current_position.bytes
                     + CharAt(lexer.input.text, lexer.current_position.bytes).lookahead_size,
         Examine(lexer') \/ examined' = examined
  PROVE  Examined'
<1> DEFINE text == lexer.input.text
           b    == lexer.current_position.bytes
           d    == lexer'.current_position.bytes
<1>1. text \in Seq(ByteKind) /\ b \in Nat /\ call.lookahead_end_byte \in Nat /\ examined \in Nat
  BY StateFacts
<1>2. /\ Reached = b /\ Reached' = d BY DEF Reached
<1>3. examined <= call.lookahead_end_byte \/ examined <= ReachAt(text, b)
  BY <1>2 DEF CursorInv, Examined, InCall
<1>4. ReachAt(text, d) \in Nat
  BY <1>1, RecordTrue
<1>5. ReachAt(text, b) \in Nat /\ ReachAt(text, b) <= ReachAt(text, d)
  <2>1. CASE lexer'.current_position = lexer.current_position BY <1>4, <2>1
  <2>2. CASE lexer'.current_position # lexer.current_position BY <1>1, <2>2, ReachStep
  <2>3. QED BY <2>1, <2>2
<1>6. LookaheadReach(lexer') <= ReachAt(text, d) BY ReachTrue
<1>7. examined' = examined \/ examined' = LookaheadReach(lexer') BY DEF Examine
<1> HIDE DEF d, b, text
<1>8. examined' <= call.lookahead_end_byte \/ examined' <= ReachAt(text, d)
  BY <1>1, <1>3, <1>4, <1>5, <1>6, <1>7
<1>9. QED BY <1>2, <1>8 DEF Examined, InCall, text

\* The size of a character is positive.
LEMMA MoveOn ==
  ASSUME NEW text \in Seq(ByteKind), NEW b \in Nat,
         NEW d \in Nat, b < Len(text), d = b + CharAt(text, b).lookahead_size
  PROVE  b <= d
<1>1. CharAt(text, b).lookahead_size \in 1 .. 3 BY CharFacts
<1>2. QED BY <1>1

\* An attempt begins.
LEMMA StartStep ==
  ASSUME CursorInv, IInv', Start
  PROVE  CursorInv'
<1> DEFINE b == lexer.current_position.bytes
<1>1. Truthful(lexer) /\ lexer.input.text \in Seq(ByteKind) /\ b \in Nat
      /\ call.start_position.bytes \in Nat /\ call.current_position.bytes \in Nat
  BY StateFacts DEF CursorInv
<1>2. /\ pc = "ready" /\ pc' = "scan" /\ lexer' = ts_lexer_start(lexer) /\ Examine(lexer')
      /\ positions' = positions /\ call' = call
  BY DEF Start
<1>3. /\ Truthful(lexer') /\ Loaded(lexer') /\ lexer'.input = lexer.input
      /\ \/ lexer'.current_position = lexer.current_position
         \/ /\ b < Len(lexer.input.text)
            /\ lexer'.current_position.bytes = b + CharAt(lexer.input.text, b).lookahead_size
      /\ lexer'.token_start_position = lexer'.current_position
      /\ lexer'.token_end_position = LENGTH_UNDEFINED
  BY <1>1, <1>2, StartTrue
<1>4. Sited(lexer') BY <1>3, TruthfulSited
<1>5. lexer'.current_position.bytes \in Nat BY <1>4, SitedFacts
<1>6. b <= lexer'.current_position.bytes BY <1>1, <1>3, <1>5, MoveOn
<1>7. Reached = b /\ Reached' = lexer'.current_position.bytes BY <1>2 DEF Reached
<1>8. CallTrue' BY <1>2, <1>3, <1>5, <1>6, <1>7, CallKept DEF InCall
<1>9. TokenTrue'
  <2>1. Pos(lexer'.input.text, lexer'.token_start_position) BY <1>3 DEF Truthful
  <2>2. call.start_position.bytes <= lexer'.current_position.bytes
    <3>1. call.start_position.bytes <= call.current_position.bytes
          /\ call.current_position.bytes <= b
      BY <1>2, <1>7 DEF CursorInv, InCall, CallTrue
    <3>2. QED BY <1>1, <1>5, <1>6, <3>1
  <2>3. QED BY <1>2, <1>3, <1>5, <1>7, <2>1, <2>2 DEF TokenTrue, TokenPlaced
<1>10. Examined' BY <1>2, <1>3, ExaminedKept
<1>11. \A p \in positions' : Pos(lexer'.input.text, p) BY <1>2, <1>3 DEF CursorInv
<1>12. QED BY <1>2, <1>3, <1>8, <1>9, <1>10, <1>11 DEF CursorInv

\* A scanner advances.
LEMMA AdvanceStep ==
  ASSUME CursorInv, IInv', NEW skip \in BOOLEAN, NEW junk \in JunkEnds, Advance(skip, junk)
  PROVE  CursorInv'
<1> DEFINE b == lexer.current_position.bytes
           from == call.start_position.bytes
<1>1. Truthful(lexer) /\ lexer.input.text \in Seq(ByteKind) /\ b \in Nat /\ from \in Nat
      /\ call.current_position.bytes \in Nat
  BY StateFacts DEF CursorInv
<1>2. /\ pc \in {"scan", "keyword"} /\ pc' = pc /\ lexer' = ts_lexer__advance(lexer, skip, junk)
      /\ positions' = positions /\ call' = call /\ leaf' = leaf
      /\ pc = "scan" => Examine(lexer')
      /\ pc = "keyword" => examined' = examined
  BY DEF Advance
<1>3. Loaded(lexer) BY <1>2 DEF CursorInv, IInv, ChunkLoaded, Lexing
<1>4. junk \in Nat BY JunkAssumption
<1>5. /\ Truthful(lexer') /\ Loaded(lexer') /\ lexer'.input = lexer.input
      /\ ts_lexer__eof(lexer) => lexer' = lexer
      /\ ~ts_lexer__eof(lexer) =>
           /\ b < Len(lexer.input.text)
           /\ lexer'.current_position.bytes = b + CharAt(lexer.input.text, b).lookahead_size
           /\ lexer'.token_start_position
                = IF skip THEN lexer'.current_position ELSE lexer.token_start_position
           /\ lexer'.token_end_position = lexer.token_end_position
  BY <1>1, <1>2, <1>3, <1>4, AdvanceTrue
<1>6. Sited(lexer') BY <1>5, TruthfulSited
<1>7. lexer'.current_position.bytes \in Nat BY <1>6, SitedFacts
<1>8. b <= lexer'.current_position.bytes
  <2>1. CASE ts_lexer__eof(lexer) BY <1>1, <1>5, <2>1
  <2>2. CASE ~ts_lexer__eof(lexer) BY <1>1, <1>5, <1>7, <2>2, MoveOn
  <2>3. QED BY <2>1, <2>2
<1>9. \A p \in positions' : Pos(lexer'.input.text, p) BY <1>2, <1>5 DEF CursorInv
<1>10. CASE pc = "keyword"
  <2>1. Examined' BY <1>2, <1>10 DEF CursorInv, Examined, InCall
  <2>2. QED BY <1>2, <1>5, <1>9, <1>10, <2>1 DEF CursorInv, InCall
<1>11. CASE pc = "scan"
  <2>1. Reached = b /\ Reached' = lexer'.current_position.bytes BY <1>2, <1>11 DEF Reached
  <2>2. CallTrue' BY <1>2, <1>5, <1>7, <1>8, <1>11, <2>1, CallKept DEF InCall
  <2>3. Examined' BY <1>2, <1>5, <1>11, ExaminedKept
  <2>4. TokenPlaced(lexer, from, b) BY <1>11, <2>1 DEF CursorInv, TokenTrue
  <2>5. lexer.token_start_position.bytes \in Nat /\ lexer.token_end_position.bytes \in Nat
    <3>1. lexer \in LexerType BY StateFacts
    <3>2. lexer.token_start_position \in Length /\ lexer.token_end_position \in Length
      BY <3>1 DEF LexerType
    <3>3. QED BY <3>2 DEF Length
  <2>6. TokenTrue'
    <3> DEFINE d == lexer'.current_position.bytes
               text == lexer.input.text
    <3>1. from <= d
      <4>1. from <= call.current_position.bytes /\ call.current_position.bytes <= b
        BY <1>11, <2>1 DEF CursorInv, InCall, CallTrue
      <4>2. QED BY <1>1, <1>7, <1>8, <4>1
    <3>2. /\ lexer'.token_end_position = lexer.token_end_position
          /\ \/ lexer'.token_start_position = lexer.token_start_position
             \/ lexer'.token_start_position = lexer'.current_position
      BY <1>5
    <3>3. /\ Pos(text, lexer.token_start_position)
          /\ from <= lexer.token_start_position.bytes /\ lexer.token_start_position.bytes <= d
      BY <1>1, <1>7, <1>8, <2>4, <2>5 DEF TokenPlaced
    <3>4. \/ lexer.token_end_position = LENGTH_UNDEFINED
          \/ /\ Pos(text, lexer.token_end_position)
             /\ from <= lexer.token_end_position.bytes /\ lexer.token_end_position.bytes <= d
      BY <1>1, <1>7, <1>8, <2>4, <2>5 DEF TokenPlaced
    <3>5. Pos(text, lexer'.current_position) BY <1>5 DEF Truthful
    <3>6. d \in Nat /\ d <= d BY <1>7
    <3> HIDE DEF d
    <3>7. /\ Pos(text, lexer'.token_start_position)
          /\ from <= lexer'.token_start_position.bytes /\ lexer'.token_start_position.bytes <= d
      BY <3>1, <3>2, <3>3, <3>5, <3>6 DEF d
    <3>8. TokenPlaced(lexer', from, d) BY <1>5, <3>2, <3>4, <3>7 DEF TokenPlaced
    <3>9. QED BY <1>2, <2>1, <3>8 DEF TokenTrue, d
  <2>7. QED BY <1>2, <1>5, <1>9, <1>11, <2>2, <2>3, <2>6 DEF CursorInv
<1>12. QED BY <1>2, <1>10, <1>11

\* A scanner marks the end of the token.
LEMMA MarkEndStep ==
  ASSUME CursorInv, IInv', MarkEnd
  PROVE  CursorInv'
<1> DEFINE b    == lexer.current_position.bytes
           from == call.start_position.bytes
<1>1. Truthful(lexer) /\ b \in Nat /\ from \in Nat /\ call.current_position.bytes \in Nat
  BY StateFacts DEF CursorInv
<1>2. /\ pc \in {"scan", "keyword"} /\ pc' = pc /\ lexer' = ts_lexer__mark_end(lexer)
      /\ positions' = positions /\ call' = call /\ leaf' = leaf /\ examined' = examined
  BY DEF MarkEnd
<1>3. /\ Truthful(lexer') /\ lexer'.input = lexer.input
      /\ lexer'.current_position = lexer.current_position
      /\ lexer'.token_start_position = lexer.token_start_position
      /\ lexer'.token_end_position = lexer.current_position
  BY <1>1, <1>2, MarkEndTrue
<1>4. \A p \in positions' : Pos(lexer'.input.text, p) BY <1>2, <1>3 DEF CursorInv
<1>5. Reached = b /\ Reached' = b BY <1>2, <1>3 DEF Reached
<1>6. Examined' BY <1>2, <1>3, <1>5 DEF CursorInv, Examined, InCall
<1>7. CASE pc = "keyword" BY <1>2, <1>3, <1>4, <1>6, <1>7 DEF CursorInv, InCall
<1>8. CASE pc = "scan"
  <2>1. CallTrue' BY <1>1, <1>2, <1>3, <1>5, <1>8, CallKept DEF InCall
  <2>2. from <= b
    <3>1. from <= call.current_position.bytes /\ call.current_position.bytes <= b
      BY <1>5, <1>8 DEF CursorInv, InCall, CallTrue
    <3>2. QED BY <1>1, <3>1
  <2>3. TokenPlaced(lexer, from, b) BY <1>5, <1>8 DEF CursorInv, TokenTrue
  <2>4. Pos(lexer.input.text, lexer.current_position) /\ b <= b BY <1>1 DEF Truthful
  <2>5. TokenPlaced(lexer', from, b) BY <1>3, <2>2, <2>3, <2>4 DEF TokenPlaced
  <2>6. TokenTrue' BY <1>2, <1>5, <2>5 DEF TokenTrue
  <2>7. QED BY <1>2, <1>3, <1>4, <1>6, <1>8, <2>1, <2>6 DEF CursorInv
<1>9. QED BY <1>2, <1>7, <1>8

\* A lexer over the same document whose token is the same is placed the same.
LEMMA PlacedKept ==
  ASSUME NEW s, NEW t, NEW from, NEW to, TokenPlaced(s, from, to), t.input = s.input,
         t.token_start_position = s.token_start_position,
         t.token_end_position = s.token_end_position
  PROVE  TokenPlaced(t, from, to)
BY DEF TokenPlaced

\* A scanner asks for the column: a valid one is returned, another is counted
\* from the beginning of the line.
LEMMA GetColumnStep ==
  ASSUME CursorInv, IInv', GetColumn
  PROVE  CursorInv'
<1> DEFINE b    == lexer.current_position.bytes
           from == call.start_position.bytes
<1>1. Truthful(lexer) /\ b \in Nat /\ lexer \in LexerType /\ b <= Len(lexer.input.text)
  BY StateFacts DEF CursorInv
<1>2. /\ pc = "scan" /\ positions' = positions /\ call' = call /\ leaf' = leaf
      /\ examined' = examined
  BY DEF GetColumn
<1>3. Reached = b BY <1>2 DEF Reached
<1>4. TokenPlaced(lexer, from, b) BY <1>2, <1>3 DEF CursorInv, TokenTrue
<1>5. CASE lexer.column_data.valid
  <2>1. lexer' = [lexer EXCEPT !.did_get_column = TRUE] /\ pc' = pc BY <1>5 DEF GetColumn
  <2>2. /\ lexer' \in LexerType
        /\ lexer'.input = lexer.input /\ lexer'.included_ranges = lexer.included_ranges
        /\ lexer'.current_included_range_index = lexer.current_included_range_index
        /\ lexer'.current_position = lexer.current_position
        /\ lexer'.chunk_start = lexer.chunk_start /\ lexer'.chunk_size = lexer.chunk_size
        /\ lexer'.lookahead = lexer.lookahead /\ lexer'.lookahead_size = lexer.lookahead_size
        /\ lexer'.column_data = lexer.column_data
        /\ lexer'.token_start_position = lexer.token_start_position
        /\ lexer'.token_end_position = lexer.token_end_position
    BY <1>1, <2>1 DEF LexerType
  <2>3. ColumnAt(lexer.input.text, b, lexer'.column_data) BY <1>1, <2>2 DEF Truthful
  <2>4. Truthful(lexer') BY <1>1, <2>2, <2>3, TokenFree
  <2>5. Reached' = b BY <1>2, <2>1, <2>2 DEF Reached
  <2>6. CallTrue' BY <1>1, <1>2, <1>3, <2>2, <2>5, CallKept DEF InCall
  <2>7. TokenPlaced(lexer', from, b) BY <1>4, <2>2, PlacedKept
  <2>8. TokenTrue' BY <1>2, <2>5, <2>7 DEF TokenTrue
  <2>9. Examined' BY <1>2, <1>3, <2>1, <2>2, <2>5 DEF CursorInv, Examined, InCall
  <2>10. \A p \in positions' : Pos(lexer'.input.text, p) BY <1>2, <2>2 DEF CursorInv
  <2>11. QED BY <1>2, <2>1, <2>4, <2>6, <2>8, <2>9, <2>10 DEF CursorInv
<1>6. CASE ~lexer.column_data.valid
  <2> DEFINE back == GetColumnBackUp(lexer)
  <2>1. lexer' = [back EXCEPT !.did_get_column = TRUE] /\ pc' = "column" /\ goal_byte' = b
    BY <1>6 DEF GetColumn
  <2>2. /\ Truthful(back) /\ back.input = lexer.input /\ back.current_position.bytes <= b
        /\ back.token_start_position = lexer.token_start_position
        /\ back.token_end_position = lexer.token_end_position
    BY <1>1, BackUpTrue
  <2> HIDE DEF back
  <2>3. back \in LexerType BY <2>2 DEF Truthful, LexerOK
  <2>4. /\ lexer' \in LexerType
        /\ lexer'.input = back.input /\ lexer'.included_ranges = back.included_ranges
        /\ lexer'.current_included_range_index = back.current_included_range_index
        /\ lexer'.current_position = back.current_position
        /\ lexer'.chunk_start = back.chunk_start /\ lexer'.chunk_size = back.chunk_size
        /\ lexer'.lookahead = back.lookahead /\ lexer'.lookahead_size = back.lookahead_size
        /\ lexer'.column_data = back.column_data
        /\ lexer'.token_start_position = back.token_start_position
        /\ lexer'.token_end_position = back.token_end_position
    BY <2>1, <2>3 DEF LexerType
  <2>5. ColumnAt(back.input.text, back.current_position.bytes, lexer'.column_data)
    BY <2>2, <2>4 DEF Truthful
  <2>6. Truthful(lexer') BY <2>2, <2>4, <2>5, TokenFree
  <2>7. Reached' = b BY <2>1 DEF Reached
  <2>8. lexer'.input = lexer.input BY <2>2, <2>4
  <2>9. CallTrue' BY <1>1, <1>2, <1>3, <2>7, <2>8, CallKept DEF InCall
  <2>10. TokenPlaced(lexer', from, b) BY <1>4, <2>2, <2>4, PlacedKept
  <2>11. TokenTrue' BY <1>2, <2>7, <2>10 DEF TokenTrue
  <2>12. Examined' BY <1>2, <1>3, <2>1, <2>7, <2>8 DEF CursorInv, Examined, InCall
  <2>13. \A p \in positions' : Pos(lexer'.input.text, p) BY <1>2, <2>8 DEF CursorInv
  <2>14. ColumnLoop'
    <3>1. Boundary(lexer.input.text, b) BY <1>1 DEF Truthful, Pos
    <3>2. QED BY <1>1, <2>1, <2>2, <2>4, <2>8, <3>1 DEF ColumnLoop
  <2>15. QED BY <2>1, <2>6, <2>9, <2>11, <2>12, <2>13, <2>14 DEF CursorInv
<1>7. QED BY <1>5, <1>6

\* The loop of ts_lexer__get_column does not step over the byte it began at:
\* no character spans that byte.
LEMMA GetColumnAdvanceStep ==
  ASSUME CursorInv, IInv', GetColumnAdvance
  PROVE  CursorInv'
<1> DEFINE b    == lexer.current_position.bytes
           from == call.start_position.bytes
           text == lexer.input.text
<1>1. Truthful(lexer) /\ text \in Seq(ByteKind) /\ b \in Nat /\ goal_byte \in Nat
  BY StateFacts DEF CursorInv
<1>2. /\ pc = "column" /\ pc' = pc /\ positions' = positions /\ call' = call /\ leaf' = leaf
      /\ examined' = examined /\ goal_byte' = goal_byte
      /\ lexer' = ts_lexer__do_advance(lexer, FALSE, 0)
      /\ b < goal_byte /\ ~ts_lexer__eof(lexer)
  BY DEF GetColumnAdvance, GetColumnContinues
<1>3. lexer.lookahead_size > 0
  BY <1>2 DEF CursorInv, IInv, ChunkLoaded, Lexing, Loaded
<1>4. /\ Truthful(lexer') /\ lexer'.input = lexer.input
      /\ b < Len(text)
      /\ lexer'.current_position.bytes = b + CharAt(text, b).lookahead_size
      /\ lexer'.token_start_position = lexer.token_start_position
      /\ lexer'.token_end_position = lexer.token_end_position
  <2>1. PICK skip \in BOOLEAN : skip = FALSE OBVIOUS
  <2>2. PICK junk \in Nat : junk = 0 OBVIOUS
  <2>3. lexer' = ts_lexer__do_advance(lexer, skip, junk) BY <1>2, <2>1, <2>2
  <2>4. /\ Truthful(lexer') /\ lexer'.input = lexer.input
        /\ b < Len(text)
        /\ lexer'.current_position.bytes = b + CharAt(text, b).lookahead_size
        /\ lexer'.token_start_position
             = IF skip THEN lexer'.current_position ELSE lexer.token_start_position
        /\ lexer'.token_end_position = lexer.token_end_position
    <3>1. Truthful(lexer) /\ ~ts_lexer__eof(lexer) BY <1>1, <1>2
    <3>2. QED BY <1>3, <2>3, <3>1, DoAdvanceTrue
  <2>5. QED BY <2>1, <2>4
<1>5. Reached = goal_byte /\ Reached' = goal_byte BY <1>2 DEF Reached
<1>6. CallTrue' BY <1>1, <1>2, <1>4, <1>5, CallKept DEF InCall
<1>7. TokenPlaced(lexer, from, goal_byte) BY <1>2, <1>5 DEF CursorInv, TokenTrue
<1>8. TokenPlaced(lexer', from, goal_byte) BY <1>4, <1>7, PlacedKept
<1>9. TokenTrue' BY <1>2, <1>5, <1>8 DEF TokenTrue
<1>10. Examined' BY <1>2, <1>4, <1>5 DEF CursorInv, Examined, InCall
<1>11. ColumnLoop'
  <2>1. Boundary(text, goal_byte) /\ goal_byte <= Len(text) BY <1>2 DEF CursorInv, ColumnLoop
  <2>2. b \in 0 .. (goal_byte - 1) BY <1>1, <1>2
  <2>3. b + CharAt(text, b).lookahead_size <= goal_byte BY <2>1, <2>2 DEF Boundary
  <2>4. QED BY <1>2, <1>4, <2>1, <2>3 DEF ColumnLoop
<1>12. \A p \in positions' : Pos(lexer'.input.text, p) BY <1>2, <1>4 DEF CursorInv
<1>13. QED BY <1>2, <1>4, <1>6, <1>9, <1>10, <1>11, <1>12 DEF CursorInv

\* The loop of ts_lexer__get_column ends where it began.
LEMMA ColumnEnd ==
  ASSUME CursorInv, pc = "column", ~GetColumnContinues(lexer, goal_byte)
  PROVE  lexer.current_position.bytes = goal_byte
<1>1. /\ lexer.current_position.bytes \in Nat /\ goal_byte \in Nat
      /\ Len(lexer.input.text) \in Nat
  BY StateFacts
<1>2. lexer.current_position.bytes <= goal_byte /\ goal_byte <= Len(lexer.input.text)
  BY DEF CursorInv, ColumnLoop
<1>3. CASE ts_lexer__eof(lexer)
  <2>1. lexer.current_position.bytes = Len(lexer.input.text)
    BY <1>3 DEF CursorInv, Truthful, EndAt
  <2>2. QED BY <1>1, <1>2, <2>1
<1>4. CASE ~ts_lexer__eof(lexer)
  <2>1. HasChunk(lexer) BY <1>4 DEF CursorInv, IInv, ChunkLoaded, Lexing, Loaded
  <2>2. ~(lexer.current_position.bytes < goal_byte) BY <1>4, <2>1 DEF GetColumnContinues
  <2>3. QED BY <1>1, <1>2, <2>2
<1>5. QED BY <1>3, <1>4

\* ts_lexer__get_column returns to the scanner.
LEMMA GetColumnReturnStep ==
  ASSUME CursorInv, IInv', GetColumnReturn
  PROVE  CursorInv'
<1>1. /\ pc = "column" /\ pc' = "scan" /\ positions' = positions /\ call' = call /\ leaf' = leaf
      /\ examined' = examined /\ lexer' = lexer /\ ~GetColumnContinues(lexer, goal_byte)
  BY DEF GetColumnReturn
<1>2. lexer.current_position.bytes = goal_byte BY <1>1, ColumnEnd
<1>3. Reached' = Reached BY <1>1, <1>2 DEF Reached
<1>4. CallTrue' BY <1>1, <1>3 DEF CursorInv, InCall, CallTrue
<1>5. TokenTrue' BY <1>1, <1>3 DEF CursorInv, TokenTrue
<1>6. Examined' BY <1>1, <1>3 DEF CursorInv, Examined, InCall
<1>7. QED BY <1>1, <1>4, <1>5, <1>6 DEF CursorInv

\* A token is returned.
LEMMA ReturnStep ==
  ASSUME CursorInv, IInv', pc = "scan", pc' \in {"parsing", "keyword"}, examined' = examined,
         NEW token, Truthful(token), token.input = lexer.input,
         NEW start \in Length, NEW end \in Length,
         Pos(lexer.input.text, start), Pos(lexer.input.text, end),
         call.start_position.bytes <= start.bytes, start.bytes <= end.bytes,
         Return(token, start, end)
  PROVE  CursorInv'
<1>1. Pos(lexer.input.text, call.start_position) BY DEF CursorInv, InCall, CallTrue
<1>2. /\ lexer' = token
      /\ \A p \in positions' : Pos(lexer.input.text, p)
      /\ leaf'.lookahead_end_byte = LookaheadEnd
  BY <1>1, ReturnTrue
<1>3. examined <= LookaheadEnd BY FinishedTrue
<1>4. Examined' BY <1>2, <1>3 DEF Examined, InCall
<1>5. Truthful(lexer') /\ lexer'.input = lexer.input BY <1>2
<1>6. QED BY <1>2, <1>4, <1>5 DEF CursorInv, InCall

\* What was skipped lies between the start of the call and the cursor.
LEMMA ErrorTrue ==
  ASSUME CursorInv, pc = "scan"
  PROVE  /\ ErrorStart \in Length /\ ErrorEnd \in Length
         /\ Pos(lexer.input.text, ErrorStart) /\ Pos(lexer.input.text, ErrorEnd)
         /\ call.start_position.bytes <= ErrorStart.bytes
         /\ ErrorStart.bytes <= ErrorEnd.bytes
         /\ ErrorEnd.bytes <= lexer.current_position.bytes
         /\ ErrorStart.bytes \in Nat /\ ErrorEnd.bytes \in Nat
<1>1. CallTrue /\ Reached = lexer.current_position.bytes BY DEF CursorInv, InCall, Reached
<1>2. CASE call.skipped_error
  <2>1. ErrorStart = call.error_start_position /\ ErrorEnd = call.error_end_position
    BY <1>2 DEF ErrorStart, ErrorEnd
  <2>2. /\ ErrorStart \in Length /\ ErrorEnd \in Length
        /\ ErrorStart.bytes \in Nat /\ ErrorEnd.bytes \in Nat
        /\ call.current_position.bytes \in Nat /\ lexer.current_position.bytes \in Nat
    BY <2>1, StateFacts
  <2>3. /\ Pos(lexer.input.text, ErrorStart) /\ Pos(lexer.input.text, ErrorEnd)
        /\ call.start_position.bytes <= ErrorStart.bytes
        /\ ErrorStart.bytes <= ErrorEnd.bytes
        /\ ErrorEnd.bytes <= call.current_position.bytes
        /\ call.current_position.bytes <= lexer.current_position.bytes
    BY <1>1, <1>2, <2>1 DEF CallTrue
  <2>4. QED BY <2>2, <2>3
<1>3. CASE ~call.skipped_error
  <2>1. ErrorStart = Finished.token_start_position /\ ErrorEnd = ErrorStart
    BY <1>3 DEF ErrorStart, ErrorEnd
  <2>2. /\ ErrorStart \in Length
        /\ Pos(lexer.input.text, ErrorStart)
        /\ call.start_position.bytes <= ErrorStart.bytes
        /\ ErrorStart.bytes <= lexer.current_position.bytes
    BY <2>1, FinishedTrue
  <2>3. ErrorStart.bytes \in Nat BY <2>2 DEF Length
  <2>4. QED BY <2>1, <2>2, <2>3
<1>4. QED BY <1>2, <1>3

\* A scanner found a token, or gave up at the end of the file.
LEMMA FoundSteps ==
  ASSUME CursorInv, IInv', TokenFound \/ KeywordCandidate \/ GiveUpAtEof
  PROVE  CursorInv'
<1>1. pc = "scan" /\ pc' \in {"parsing", "keyword"} /\ examined' = examined
  BY DEF TokenFound, KeywordCandidate, GiveUpAtEof
<1>2. /\ Truthful(Finished) /\ Finished.input = lexer.input
      /\ Finished.token_start_position \in Length /\ Finished.token_end_position \in Length
      /\ Pos(lexer.input.text, Finished.token_start_position)
      /\ Pos(lexer.input.text, Finished.token_end_position)
      /\ call.start_position.bytes <= Finished.token_start_position.bytes
      /\ Finished.token_start_position.bytes <= Finished.token_end_position.bytes
  BY <1>1, FinishedTrue
<1>3. /\ ErrorStart \in Length /\ ErrorEnd \in Length
      /\ Pos(lexer.input.text, ErrorStart) /\ Pos(lexer.input.text, ErrorEnd)
      /\ call.start_position.bytes <= ErrorStart.bytes
      /\ ErrorStart.bytes <= ErrorEnd.bytes
  BY <1>1, ErrorTrue
<1>4. ASSUME Return(Finished, ErrorStart, ErrorEnd) PROVE CursorInv'
  BY <1>1, <1>2, <1>3, <1>4, ReturnStep
<1>5. CASE TokenFound
  <2>1. CASE call.skipped_error
    <3>1. ErrorStart = call.error_start_position /\ ErrorEnd = call.error_end_position
      BY <2>1 DEF ErrorStart, ErrorEnd
    <3>2. Return(Finished, call.error_start_position, call.error_end_position)
      BY <1>5, <2>1 DEF TokenFound
    <3>3. QED BY <1>4, <3>1, <3>2
  <2>2. CASE ~call.skipped_error
    <3>1. Return(Finished, Finished.token_start_position, Finished.token_end_position)
      BY <1>5, <2>2 DEF TokenFound
    <3>2. QED BY <1>1, <1>2, <3>1, ReturnStep
  <2>3. QED BY <2>1, <2>2
<1>6. CASE KeywordCandidate
  <2> DEFINE back  == ts_lexer_reset(Finished, Finished.token_start_position)
             token == ts_lexer_start(back)
  <2>1. Return(token, Finished.token_start_position, Finished.token_end_position)
    BY <1>6 DEF KeywordCandidate
  <2>2. Truthful(back) /\ back.input = lexer.input BY <1>2, ResetTrue
  <2> HIDE DEF back
  <2>3. Truthful(token) /\ token.input = lexer.input BY <2>2, StartTrue
  <2> HIDE DEF token
  <2>4. QED BY <1>1, <1>2, <2>1, <2>3, ReturnStep
<1>7. CASE GiveUpAtEof BY <1>4, <1>7 DEF GiveUpAtEof
<1>8. QED BY <1>5, <1>6, <1>7

\* The external scanner fails or traps: the cursor and the column are restored.
LEMMA ExternalSteps ==
  ASSUME CursorInv, IInv', ExternalFails \/ ScannerError
  PROVE  CursorInv'
<1> DEFINE text == lexer.input.text
<1>1. pc = "scan" /\ positions' = positions BY DEF ExternalFails, ScannerError
<1>2. CallTrue BY <1>1 DEF CursorInv, InCall
<1>3. CASE ExternalFails
  <2> DEFINE back == ts_lexer_reset(Finished, call.current_position)
  <2>1. /\ lexer' = [back EXCEPT !.column_data = call.column_data]
        /\ call' = [call EXCEPT !.external = FALSE, !.lookahead_end_byte = LookaheadEnd]
        /\ pc' = "ready" /\ examined' = examined
    BY <1>3 DEF ExternalFails
  <2>2. /\ Truthful(Finished) /\ Finished.input = lexer.input
        /\ examined <= LookaheadEnd /\ LookaheadEnd \in Nat
    BY <1>1, FinishedTrue
  <2>3. /\ call \in CallType /\ call.current_position \in Length
        /\ call.current_position.bytes \in Nat
    BY StateFacts
  <2>4. Pos(text, call.current_position) /\ ColumnAt(text, call.current_position.bytes, call.column_data)
    BY <1>2 DEF CallTrue
  <2>5. Truthful(back) /\ back.input = lexer.input /\ back.current_position = call.current_position
    BY <2>2, <2>3, <2>4, ResetTrue
  <2> HIDE DEF back
  <2>6. back \in LexerType /\ call.column_data \in ColumnData
    BY <2>3, <2>5 DEF Truthful, LexerOK, CallType
  <2>7. /\ lexer' \in LexerType
        /\ lexer'.input = back.input /\ lexer'.included_ranges = back.included_ranges
        /\ lexer'.current_included_range_index = back.current_included_range_index
        /\ lexer'.current_position = back.current_position
        /\ lexer'.chunk_start = back.chunk_start /\ lexer'.chunk_size = back.chunk_size
        /\ lexer'.lookahead = back.lookahead /\ lexer'.lookahead_size = back.lookahead_size
        /\ lexer'.column_data = call.column_data
    BY <2>1, <2>6 DEF LexerType
  <2>8. ColumnAt(back.input.text, back.current_position.bytes, lexer'.column_data)
    BY <2>4, <2>5, <2>7
  <2>9. Truthful(lexer') BY <2>5, <2>7, <2>8, TokenFree
  <2>10. /\ call'.start_position = call.start_position
         /\ call'.current_position = call.current_position
         /\ call'.column_data = call.column_data
         /\ call'.skipped_error = call.skipped_error
         /\ call'.error_mode = call.error_mode
         /\ call'.error_start_position = call.error_start_position
         /\ call'.error_end_position = call.error_end_position
         /\ call'.lookahead_end_byte = LookaheadEnd
    BY <2>1, <2>3 DEF CallType
  <2>11. lexer'.input = lexer.input /\ Reached' = call.current_position.bytes
    BY <2>1, <2>5, <2>7 DEF Reached
  <2>12. call.current_position.bytes <= call.current_position.bytes BY <2>3
  <2>13. CallTrue' BY <1>2, <2>10, <2>11, <2>12 DEF CallTrue
  <2>14. Examined' BY <2>1, <2>2, <2>10 DEF Examined, InCall
  <2>15. \A p \in positions' : Pos(lexer'.input.text, p) BY <1>1, <2>11 DEF CursorInv
  <2>16. QED BY <2>1, <2>9, <2>13, <2>14, <2>15 DEF CursorInv
<1>4. CASE ScannerError
  <2>1. pc' = "parsing" /\ leaf' = NoLeaf /\ examined' = 0 /\ lexer' = lexer
    BY <1>4 DEF ScannerError
  <2>2. Examined' BY <2>1 DEF Examined, InCall, NoLeaf
  <2>3. QED BY <1>1, <2>1, <2>2 DEF CursorInv, InCall
<1>5. QED BY <1>3, <1>4

\* The call begins again in error mode; nothing has been skipped so far.
LEMMA RetryStep ==
  ASSUME CursorInv, IInv', NEW external \in BOOLEAN, RetryInErrorMode(external)
  PROVE  CursorInv'
<1> DEFINE text == lexer.input.text
           s == ts_lexer_reset(Finished, call.start_position)
           c == [call EXCEPT !.error_mode = TRUE, !.lookahead_end_byte = LookaheadEnd]
<1>1. /\ pc = "scan" /\ ~call.error_mode /\ positions' = positions /\ examined' = examined
      /\ lexer' = s /\ pc' = "ready"
      /\ call' = [c EXCEPT !.current_position = s.current_position,
                           !.column_data = s.column_data, !.external = external]
  BY DEF RetryInErrorMode, Attempt
<1>2. CallTrue BY <1>1 DEF CursorInv, InCall
<1>3. Pos(text, call.start_position) /\ ~call.skipped_error BY <1>1, <1>2 DEF CallTrue
<1>4. call \in CallType /\ call.start_position \in Length /\ call.start_position.bytes \in Nat
  BY StateFacts
<1>5. /\ Truthful(Finished) /\ Finished.input = lexer.input
      /\ examined <= LookaheadEnd /\ LookaheadEnd \in Nat
  BY <1>1, FinishedTrue
<1>6. Truthful(s) /\ s.input = lexer.input /\ s.current_position = call.start_position
  BY <1>3, <1>4, <1>5, ResetTrue
<1>7. /\ c \in CallType /\ c.start_position = call.start_position
      /\ c.skipped_error = call.skipped_error /\ c.lookahead_end_byte = LookaheadEnd
  BY <1>4, <1>5 DEF CallType
<1> HIDE DEF s, c
<1>8. /\ call'.start_position = call.start_position
      /\ call'.current_position = call.start_position
      /\ call'.column_data = s.column_data
      /\ ~call'.skipped_error
      /\ call'.lookahead_end_byte = LookaheadEnd
  BY <1>1, <1>3, <1>6, <1>7 DEF CallType
<1>9. Reached' = call.start_position.bytes BY <1>1, <1>6 DEF Reached
<1>10. ColumnAt(lexer'.input.text, call.start_position.bytes, s.column_data)
  BY <1>1, <1>6 DEF Truthful
<1>11. call.start_position.bytes <= call.start_position.bytes BY <1>4
<1>12. CallTrue' BY <1>1, <1>3, <1>6, <1>8, <1>9, <1>10, <1>11 DEF CallTrue
<1>13. Examined' BY <1>1, <1>5, <1>8 DEF Examined, InCall
<1>14. \A p \in positions' : Pos(lexer'.input.text, p) BY <1>1, <1>6 DEF CursorInv
<1>15. QED BY <1>1, <1>6, <1>12, <1>13, <1>14 DEF CursorInv

\* What the attempt consumed, or one character, is skipped.
LEMMA SkipStep ==
  ASSUME CursorInv, IInv', NEW external \in BOOLEAN, NEW junk \in JunkEnds,
         SkipUnrecognized(external, junk)
  PROVE  CursorInv'
<1> DEFINE text == lexer.input.text
           b    == lexer.current_position.bytes
           next == IF Stuck THEN ts_lexer__advance(Finished, FALSE, junk) ELSE Finished
           c == [call EXCEPT !.skipped_error = TRUE,
                             !.error_start_position = ErrorStart,
                             !.error_end_position = next.current_position,
                             !.lookahead_end_byte = LookaheadEnd]
<1>1. /\ pc = "scan" /\ call.error_mode /\ positions' = positions /\ Examine(next)
      /\ ~(Stuck /\ ts_lexer__eof(lexer))
      /\ lexer' = next /\ pc' = "ready"
      /\ call' = [c EXCEPT !.current_position = next.current_position,
                           !.column_data = next.column_data, !.external = external]
  BY DEF SkipUnrecognized, Attempt
<1>2. CallTrue BY <1>1 DEF CursorInv, InCall
<1>3. /\ text \in Seq(ByteKind) /\ b \in Nat /\ call \in CallType
      /\ call.start_position.bytes \in Nat /\ examined \in Nat
  BY StateFacts
<1>4. /\ Truthful(Finished) /\ Loaded(Finished) /\ Finished.input = lexer.input
      /\ Finished.current_position = lexer.current_position
      /\ ts_lexer__eof(Finished) <=> ts_lexer__eof(lexer)
      /\ examined <= LookaheadEnd /\ LookaheadEnd \in Nat
  BY <1>1, FinishedTrue
<1>5. /\ ErrorStart \in Length /\ Pos(text, ErrorStart)
      /\ call.start_position.bytes <= ErrorStart.bytes
      /\ ErrorStart.bytes <= ErrorEnd.bytes
      /\ ErrorEnd.bytes <= b
      /\ ErrorStart.bytes \in Nat /\ ErrorEnd.bytes \in Nat
  BY <1>1, ErrorTrue
<1>6. /\ Truthful(next) /\ Loaded(next) /\ next.input = lexer.input
      /\ next.current_position.bytes \in Nat /\ b <= next.current_position.bytes
  <2>1. CASE ~Stuck
    <3>1. next = Finished BY <2>1
    <3> HIDE DEF next
    <3>2. b <= b BY <1>3
    <3>3. QED BY <1>3, <1>4, <3>1, <3>2
  <2>2. CASE Stuck
    <3>1. next = ts_lexer__advance(Finished, FALSE, junk) BY <2>2
    <3> HIDE DEF next
    <3>2. PICK skip \in BOOLEAN : skip = FALSE OBVIOUS
    <3>3. next = ts_lexer__advance(Finished, skip, junk) BY <3>1, <3>2
    <3>4. ~ts_lexer__eof(Finished) /\ Truthful(Finished) /\ Loaded(Finished) /\ junk \in Nat
      BY <1>1, <1>4, <2>2, JunkAssumption
    <3>5. /\ Truthful(next) /\ Loaded(next) /\ next.input = Finished.input
          /\ Finished.current_position.bytes < Len(Finished.input.text)
          /\ next.current_position.bytes = Finished.current_position.bytes
               + CharAt(Finished.input.text, Finished.current_position.bytes).lookahead_size
      BY <3>3, <3>4, AdvanceTrue
    <3>6. b < Len(text) /\ next.current_position.bytes = b + CharAt(text, b).lookahead_size
      BY <1>4, <3>5
    <3>7. Sited(next) BY <3>5, TruthfulSited
    <3>8. next.current_position.bytes \in Nat BY <3>7, SitedFacts
    <3>9. b <= next.current_position.bytes BY <1>3, <3>6, <3>8, MoveOn
    <3>10. QED BY <1>4, <3>5, <3>8, <3>9
  <2>3. QED BY <2>1, <2>2
<1> HIDE DEF next
<1>7. next.current_position \in Length /\ Pos(text, next.current_position)
  <2>1. next \in LexerType BY <1>6 DEF Truthful, LexerOK
  <2>2. QED BY <1>6, <2>1 DEF Truthful, LexerType
<1>8. /\ c \in CallType /\ c.start_position = call.start_position
      /\ c.error_mode = call.error_mode
      /\ c.error_start_position = ErrorStart /\ c.error_end_position = next.current_position
      /\ c.lookahead_end_byte = LookaheadEnd
  BY <1>3, <1>4, <1>5, <1>7 DEF CallType
<1> HIDE DEF c
<1>9. /\ call'.start_position = call.start_position
      /\ call'.current_position = next.current_position
      /\ call'.column_data = next.column_data
      /\ call'.error_mode = call.error_mode
      /\ call'.error_start_position = ErrorStart
      /\ call'.error_end_position = next.current_position
      /\ call'.lookahead_end_byte = LookaheadEnd
  BY <1>1, <1>8 DEF CallType
<1>10. Reached' = next.current_position.bytes BY <1>1 DEF Reached
<1>11. ColumnAt(text, next.current_position.bytes, next.column_data) BY <1>6 DEF Truthful
<1>12. /\ call.start_position.bytes <= next.current_position.bytes
       /\ ErrorStart.bytes <= next.current_position.bytes
       /\ next.current_position.bytes <= next.current_position.bytes
  BY <1>3, <1>5, <1>6
<1>13. lexer'.input.text = text BY <1>1, <1>6
<1>14. CallTrue'
  <2>1. Pos(text, call.start_position) BY <1>2 DEF CallTrue
  <2>2. QED BY <1>1, <1>5, <1>7, <1>9, <1>10, <1>11, <1>12, <1>13, <2>1 DEF CallTrue
<1>15. Examined'
  <2>1. LookaheadReach(next) <= ReachAt(text, next.current_position.bytes)
    BY <1>6, ReachTrue
  <2>2. examined' = examined \/ examined' = LookaheadReach(next) BY <1>1 DEF Examine
  <2>3. \/ examined' <= call'.lookahead_end_byte
        \/ examined' <= ReachAt(lexer'.input.text, Reached')
    BY <1>4, <1>9, <1>10, <1>13, <2>1, <2>2
  <2>4. QED BY <1>1, <2>3 DEF Examined, InCall
<1>16. \A p \in positions' : Pos(lexer'.input.text, p) BY <1>1, <1>13 DEF CursorInv
<1>17. Truthful(lexer') BY <1>1, <1>6
<1>18. QED BY <1>1, <1>14, <1>15, <1>16, <1>17 DEF CursorInv

\* A missing token is empty and at its version's position.
LEMMA MissingStep ==
  ASSUME CursorInv, IInv', NEW position \in positions, PlaceMissing(position)
  PROVE  CursorInv'
<1> DEFINE text == lexer.input.text
           back == ts_lexer_reset(lexer, position)
           s    == ts_lexer__mark_end(back)
           next == length_add(position, length_sub(s.token_end_position, position))
<1>1. /\ pc = "parsing" /\ pc' = pc /\ lexer' = s /\ leaf' = leaf /\ examined' = examined
      /\ \E others \in SUBSET positions : positions' = others \union {next}
  BY DEF PlaceMissing
<1>2. /\ text \in Seq(ByteKind) /\ position \in Length /\ Pos(text, position)
      /\ Truthful(lexer)
  BY StateFacts DEF CursorInv
<1>3. Truthful(back) /\ back.input = lexer.input /\ back.current_position = position
  BY <1>2, ResetTrue
<1> HIDE DEF back
<1>4. Truthful(s) /\ s.input = lexer.input /\ s.token_end_position = position
  BY <1>3, MarkEndTrue
<1> HIDE DEF s
<1>5. next = position
  <2>1. position.bytes <= position.bytes BY <1>2 DEF Length
  <2>2. length_add(position, length_sub(position, position)) = position
    BY <1>2, <2>1, LengthStep
  <2>3. QED BY <1>4, <2>2
<1> HIDE DEF next
<1>6. \A p \in positions' : Pos(text, p) BY <1>1, <1>2, <1>5 DEF CursorInv
<1>7. Examined' BY <1>1 DEF CursorInv, Examined, InCall
<1>8. QED BY <1>1, <1>4, <1>6, <1>7 DEF CursorInv, InCall

-----------------------------------------------------------------------------
(* The theorems.                                                           *)

\* A new lexer is at the beginning of an empty text.
THEOREM InitCursor == Init => CursorInv
<1> SUFFICES ASSUME Init PROVE CursorInv OBVIOUS
<1> DEFINE s == ts_lexer_init
<1>1. IInv BY InitIInv
<1>2. lexer = s /\ pc = "stopped" /\ positions = {length_zero} /\ examined = 0 /\ leaf = NoLeaf
  BY DEF Init
<1>3. LexerOK(s) BY InitOK
<1>4. /\ s.included_ranges = <<DEFAULT_RANGE>> /\ s.current_included_range_index = 1
      /\ s.current_position = length_zero /\ s.lookahead_size = 0
      /\ s.column_data = NoColumn /\ s.input = [text |-> <<>>, read |-> <<>>]
  BY DEF ts_lexer_init
<1>5. s.input.text = <<>> /\ s.input.text \in Seq(ByteKind) BY <1>4
<1> HIDE DEF s
<1>6. DocumentInput(s.input)
  BY <1>5, UInt32Assumption DEF DocumentInput, WholeReads
<1>7. Pos(s.input.text, length_zero) BY <1>5, PosZero
<1>8. LookaheadAt(s) BY <1>4 DEF LookaheadAt
<1>9. ~ts_lexer__eof(s) BY <1>4, DefaultRange DEF ts_lexer__eof, EofIndex
<1>10. EndAt(s) BY <1>9 DEF EndAt
<1>11. ColumnAt(s.input.text, s.current_position.bytes, s.column_data)
  BY <1>4 DEF ColumnAt, NoColumn
<1>12. Truthful(s) BY <1>3, <1>4, <1>6, <1>7, <1>8, <1>10, <1>11 DEF Truthful
<1>13. Examined BY <1>2 DEF Examined, InCall, NoLeaf
<1>14. lexer.current_position.bytes = 0 BY <1>2, <1>4 DEF length_zero
<1>15. QED BY <1>1, <1>2, <1>7, <1>12, <1>13, <1>14 DEF CursorInv, InCall

\* Every step keeps the cursor true.
THEOREM NextCursor ==
  ASSUME DocumentInputs, CursorInv, [Next]_vars
  PROVE  CursorInv'
<1>1. IInv' BY NextIInv DEF CursorInv
<1>2. CASE UNCHANGED vars
  BY <1>1, <1>2 DEF vars, CursorInv, InCall, CallTrue, TokenTrue, ColumnLoop, Examined, Reached
<1>3. CASE Next
  <2>1. ASSUME ScannerReturns PROVE CursorInv'
    BY <1>1, <2>1, FoundSteps, ExternalSteps, RetryStep, SkipStep, ParseSteps DEF ScannerReturns
  <2>2. QED
    BY <1>1, <1>3, <2>1, ParseSteps, BeginLexStep, StartStep, AdvanceStep, MarkEndStep,
       GetColumnStep, GetColumnAdvanceStep, GetColumnReturnStep, MissingStep
    DEF Next
<1>4. QED BY <1>2, <1>3

\* In a document without included ranges, whose characters the read callback
\* does not cut, the lookahead is the character at the cursor, the points of the
\* cursor and of every version and the column are those of their bytes, and
\* ts_lexer__get_column ends where it began; whatever the scanners do.
THEOREM LexCursorTrue ==
  ASSUME DocumentInputs PROVE Spec => []CursorTrue
<1>1. CursorInv => CursorTrue
  <2> SUFFICES ASSUME CursorInv PROVE CursorTrue OBVIOUS
  <2> DEFINE text == lexer.input.text
             b    == lexer.current_position.bytes
  <2>1. /\ text \in Seq(ByteKind) /\ b \in Nat /\ b <= Len(text) /\ Truthful(lexer)
        /\ lexer.included_ranges = <<DEFAULT_RANGE>> /\ Len(text) < UINT32_MAX
        /\ lexer.current_position.extent = PointAt(text, b)
    BY StateFacts DEF CursorInv, Truthful, DocumentInput, Pos
  <2>2. LookaheadTrue
    <3> SUFFICES ASSUME ~ts_lexer__eof(lexer), lexer.lookahead_size > 0
                 PROVE  CharAt(text, b)
                          = [lookahead |-> lexer.lookahead, lookahead_size |-> lexer.lookahead_size]
      BY DEF LookaheadTrue, CharAt
    <3>1. lexer.lookahead = CharAt(text, b).lookahead
          /\ lexer.lookahead_size = CharAt(text, b).lookahead_size
      BY <2>1 DEF Truthful, LookaheadAt
    <3>2. CharAt(text, b)
            = [lookahead |-> CharAt(text, b).lookahead, lookahead_size |-> CharAt(text, b).lookahead_size]
      BY DEF CharAt, decode
    <3>3. QED BY <3>1, <3>2
  <2>3. GetColumnRestores BY ColumnEnd DEF GetColumnRestores
  <2>4. CursorPointTrue BY <2>1 DEF CursorPointTrue
  <2>5. PositionPointsTrue BY DEF CursorInv, PositionPointsTrue, Pos
  <2>6. ColumnTrue
    <3> SUFFICES ASSUME lexer.column_data.valid
                 PROVE  lexer.column_data.value
                          = CharacterCount(lexer, LineStart(text, b), b)
      BY DEF ColumnTrue, LineStart
    <3>1. LineStart(text, b) \in Nat
      <4>1. LineStart(text, b) \in 0 .. b BY <2>1, LineFacts
      <4>2. QED BY <4>1
    <3>2. CharacterCount(lexer, LineStart(text, b), b) = Counted(text, LineStart(text, b), b)
      BY <2>1, <3>1, CountIs
    <3>3. QED BY <2>1, <3>2 DEF Truthful, ColumnAt
  <2>7. QED BY <2>2, <2>3, <2>4, <2>5, <2>6 DEF CursorTrue
<1>2. CursorInv /\ [Next]_vars => CursorInv' BY NextCursor
<1>3. QED BY InitCursor, <1>1, <1>2, PTL DEF Spec

\* In such a document a token's lookahead_end_byte is past the first byte of every
\* character that any of the attempts to lex it examined, and past every byte
\* looked at of a sequence that does not decode. The later bytes of a character
\* that decodes are not claimed: ts_lexer_finish adds one byte for the last one,
\* whatever its length, so an edit that begins inside it is not covered.
THEOREM LexLookaheadCovered ==
  ASSUME DocumentInputs PROVE Spec => []LookaheadCovered
<1>1. CursorInv => LookaheadCovered
  BY DEF CursorInv, Examined, InCall, LookaheadCovered
<1>2. CursorInv /\ [Next]_vars => CursorInv' BY NextCursor
<1>3. QED BY InitCursor, <1>1, <1>2, PTL DEF Spec
=============================================================================
