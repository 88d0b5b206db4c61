----------------------------- MODULE LexProofs -----------------------------
(***************************************************************************)
(* Proofs about the lexer, for every document, every set of included       *)
(* ranges, every read callback and every sequence of calls.                *)
(***************************************************************************)
EXTENDS Lex, TLAPS, WellFoundedInduction

-----------------------------------------------------------------------------
(* Operators.                                                              *)

\* A nonempty set of natural numbers has a least element: the loops of
\* ts_lexer_goto and ts_lexer__do_advance stop at it.
LEMMA LeastIn ==
  ASSUME NEW S \in SUBSET Nat, S # {}
  PROVE  Least(S) \in S /\ \A j \in S : Least(S) <= j
<1>1. IsWellFoundedOn(OpToRel(<, Nat), Nat)
  BY NatLessThanWellFounded
<1>2. PICK x \in S : \A y \in S : ~(<<y, x>> \in OpToRel(<, Nat))
  BY <1>1, WFMin
<1>3. \A y \in S : ~(y < x)
  BY <1>2, Zenon DEF OpToRel
<1>4. \A y \in S : x <= y
  BY <1>3
<1>5. QED BY <1>4 DEF Least

\* A decoded character has a width from one to three bytes.
LEMMA DecodeType ==
  ASSUME NEW text \in Seq(ByteKind), NEW b \in Nat, b < Len(text), NEW avail \in Nat
  PROVE  /\ decode(text, b, avail).lookahead \in Codepoint
         /\ decode(text, b, avail).lookahead_size \in 1 .. 3
         /\ decode(text, b, avail).lookahead = "bom" => decode(text, b, avail).lookahead_size = 3
<1>1. text[b + 1] \in ByteKind OBVIOUS
<1>2. Width(text[b + 1]) \in 1 .. 3 BY <1>1 DEF Width, ByteKind
<1>3. QED BY <1>1, <1>2 DEF decode, Codepoint, ByteKind, Width

\* The read callback returns a part of the text that is not empty.
LEMMA ReadSize ==
  ASSUME NEW input \in TSInput, NEW b \in Nat, b < Len(input.text)
  PROVE  /\ input.read[b + 1] \in Nat
         /\ input.read[b + 1] > 0
         /\ b + input.read[b + 1] <= Len(input.text)
<1>1. Len(input.text) \in Nat BY DEF TSInput
<1>2. b + 1 \in 1 .. Len(input.text) BY <1>1
<1>3. input.read[b + 1] \in 1 .. (Len(input.text) - (b + 1) + 1) BY <1>2 DEF TSInput
<1>4. QED BY <1>1, <1>3

\* Values of the lookahead fields that the functions assign.
LEMMA LookaheadValues ==
  /\ "nul" \in Codepoint /\ "error" \in Codepoint
  /\ 0 \in 0 .. 3 /\ 1 \in 0 .. 3
  /\ \A n \in 1 .. 3 : n \in 0 .. 3
BY DEF Codepoint

\* A chunk spans the cursor, also at end of file: ts_lexer__get_column may load
\* one there.
ChunkHere(s) == HasChunk(s) => InChunk(s, s.current_position.bytes)

\* A byte order mark has more than one byte.
BomWide(s) == s.lookahead = "bom" => s.lookahead_size # 1

\* What holds of the lexer between any two of its functions.
LexerOK(s) ==
  /\ s \in LexerType
  /\ Len(s.included_ranges) > 0
  /\ RangesAccepted(s.included_ranges)
  /\ CursorInRange(s)
  /\ ChunkInText(s)
  /\ ChunkHere(s)
  /\ BomWide(s)

\* It says nothing of the column and the token.
LEMMA UnmovedOK ==
  ASSUME NEW s, LexerOK(s), NEW t \in LexerType,
         t.input = s.input, t.included_ranges = s.included_ranges,
         t.current_included_range_index = s.current_included_range_index,
         t.current_position = s.current_position,
         t.chunk_start = s.chunk_start, t.chunk_size = s.chunk_size,
         t.lookahead = s.lookahead, t.lookahead_size = s.lookahead_size
  PROVE  LexerOK(t) /\ (ts_lexer__eof(t) <=> ts_lexer__eof(s)) /\ (HasChunk(t) <=> HasChunk(s))
BY DEF LexerOK, CursorInRange, ChunkInText, ChunkHere, BomWide, HasChunk,
       InChunk, ts_lexer__eof, EofIndex, CurrentRange

\* ts_lexer__get_chunk reads a chunk at the cursor or moves to end of file.
LEMMA GetChunkOK ==
  ASSUME NEW s \in LexerType, Len(s.included_ranges) > 0, CursorInRange(s),
         RangesAccepted(s.included_ranges), BomWide(s)
  PROVE  LET t == ts_lexer__get_chunk(s)
         IN  /\ LexerOK(t)
             /\ t.current_position = s.current_position
             /\ t.input = s.input
             /\ t.included_ranges = s.included_ranges
             /\ t.lookahead_size = s.lookahead_size
             /\ t.chunk_start = s.current_position.bytes
             /\ HasChunk(t) => t.current_included_range_index = s.current_included_range_index
             /\ ~HasChunk(t) => ts_lexer__eof(t)
             /\ s.current_position.bytes < Len(s.input.text) => HasChunk(t)
<1> DEFINE b    == s.current_position.bytes
           size == IF b < Len(s.input.text) THEN s.input.read[b + 1] ELSE 0
           t    == ts_lexer__get_chunk(s)
<1>1. b \in Nat BY DEF LexerType, Length
<1>2. s.input \in TSInput /\ s.input.text \in Seq(ByteKind) /\ s.input.read \in Seq(Nat)
  BY DEF LexerType, TSInput
<1>b. b < Len(s.input.text) => /\ s.input.read[b + 1] \in Nat
                               /\ s.input.read[b + 1] > 0
                               /\ b + s.input.read[b + 1] <= Len(s.input.text)
  BY <1>1, <1>2, ReadSize
<1>3. size \in Nat /\ (b + size <= Len(s.input.text) \/ size = 0)
  BY <1>1, <1>2, <1>b
<1>4. b < Len(s.input.text) => size > 0
  BY <1>1, <1>2, <1>b
<1>5. size \in Nat BY <1>3
<1>6. t = [s EXCEPT !.chunk_start = b, !.chunk_size = size,
                    !.current_included_range_index = IF size = 0 THEN EofIndex(s) ELSE @]
  BY DEF ts_lexer__get_chunk
<1>7. EofIndex(s) \in Nat BY DEF EofIndex, LexerType
<1> HIDE DEF size, b, t
<1>8. t \in LexerType BY <1>1, <1>5, <1>6, <1>7 DEF LexerType
<1>9. /\ t.current_position = s.current_position /\ t.input = s.input
      /\ t.included_ranges = s.included_ranges
      /\ t.lookahead = s.lookahead /\ t.lookahead_size = s.lookahead_size
      /\ t.chunk_start = b /\ t.chunk_size = size
      /\ t.current_included_range_index
           = IF size = 0 THEN EofIndex(s) ELSE s.current_included_range_index
  BY <1>6 DEF LexerType
<1>10. QED
  BY <1>1, <1>3, <1>4, <1>5, <1>8, <1>9
  DEF LexerOK, CursorInRange, ChunkInText, ChunkHere, HasChunk, InChunk,
      BomWide, ts_lexer__eof, EofIndex, CurrentRange, b, t

\* ts_lexer__get_lookahead decodes a character where its chunk spans the
\* cursor, and does not move.
LEMMA GetLookaheadOK ==
  ASSUME NEW s, LexerOK(s), HasChunk(s) => InChunk(s, s.current_position.bytes),
         ~HasChunk(s) => s.chunk_start = s.current_position.bytes /\ ts_lexer__eof(s)
  PROVE  LET t == ts_lexer__get_lookahead(s)
         IN  /\ LexerOK(t)
             /\ Loaded(t)
             /\ t.current_position = s.current_position
             /\ t.current_included_range_index = s.current_included_range_index
             /\ t.included_ranges = s.included_ranges
<1> DEFINE b     == s.current_position.bytes
           size  == s.chunk_size - (b - s.chunk_start)
           first == decode(s.input.text, b, size)
           again == first.lookahead = "error" /\ size < 4
           fresh == IF again THEN ts_lexer__get_chunk(s) ELSE s
           char  == IF again THEN decode(s.input.text, b, fresh.chunk_size) ELSE first
           t     == ts_lexer__get_lookahead(s)
<1>1. /\ s \in LexerType /\ CursorInRange(s) /\ Len(s.included_ranges) > 0
      /\ RangesAccepted(s.included_ranges) /\ BomWide(s)
  BY DEF LexerOK
<1>2. b \in Nat /\ s.input \in TSInput /\ s.input.text \in Seq(ByteKind)
      /\ s.chunk_start \in Nat /\ s.chunk_size \in Nat
  BY <1>1 DEF LexerType, TSInput, Length
<1>3. CASE ~HasChunk(s)
  <2>1. size = 0 BY <1>2, <1>3 DEF HasChunk
  <2>2. t = [s EXCEPT !.lookahead = "nul", !.lookahead_size = 1]
    BY <2>1 DEF ts_lexer__get_lookahead
  <2> HIDE DEF t
  <2>3. t \in LexerType BY <1>1, <2>2, LookaheadValues DEF LexerType
  <2>4. /\ t.current_position = s.current_position
        /\ t.current_included_range_index = s.current_included_range_index
        /\ t.included_ranges = s.included_ranges /\ t.input = s.input
        /\ t.chunk_start = s.chunk_start /\ t.chunk_size = s.chunk_size
        /\ BomWide(t)
    BY <1>1, <2>2 DEF LexerType, BomWide
  <2>5. LexerOK(t) /\ ts_lexer__eof(t)
    BY <1>3, <2>3, <2>4
    DEF LexerOK, CursorInRange, ChunkInText, ChunkHere, HasChunk, ts_lexer__eof, EofIndex
  <2>6. QED BY <2>4, <2>5 DEF Loaded, t
<1>4. CASE HasChunk(s)
  <2>a. Len(s.input.text) \in Nat BY <1>2
  <2>b. s.chunk_start <= b /\ b < s.chunk_start + s.chunk_size
        /\ s.chunk_start + s.chunk_size <= Len(s.input.text)
    BY <1>4 DEF InChunk, LexerOK, ChunkInText
  <2>1. size \in Nat /\ size # 0 /\ b < Len(s.input.text)
    BY <1>2, <2>a, <2>b
  <2>2. t = [fresh EXCEPT !.lookahead = char.lookahead,
                          !.lookahead_size = char.lookahead_size]
    BY <2>1 DEF ts_lexer__get_lookahead
  <2>3. /\ LexerOK(fresh) /\ HasChunk(fresh)
        /\ fresh.current_position = s.current_position
        /\ fresh.current_included_range_index = s.current_included_range_index
        /\ fresh.included_ranges = s.included_ranges
    <3>1. CASE again BY <1>1, <2>1, <3>1, GetChunkOK
    <3>2. CASE ~again BY <1>4, <3>2
    <3>3. QED BY <3>1, <3>2
  <2>4. fresh \in LexerType /\ fresh.chunk_size \in Nat BY <2>3 DEF LexerOK, LexerType
  <2>5. /\ char.lookahead \in Codepoint /\ char.lookahead_size \in 1 .. 3
        /\ char.lookahead = "bom" => char.lookahead_size = 3
    <3> HIDE DEF fresh
    <3>1. /\ first.lookahead \in Codepoint /\ first.lookahead_size \in 1 .. 3
          /\ first.lookahead = "bom" => first.lookahead_size = 3
      BY <1>2, <2>1, DecodeType
    <3>2. /\ decode(s.input.text, b, fresh.chunk_size).lookahead \in Codepoint
          /\ decode(s.input.text, b, fresh.chunk_size).lookahead_size \in 1 .. 3
          /\ decode(s.input.text, b, fresh.chunk_size).lookahead = "bom"
               => decode(s.input.text, b, fresh.chunk_size).lookahead_size = 3
      BY <1>2, <2>1, <2>4, DecodeType
    <3>3. QED BY <3>1, <3>2
  <2> HIDE DEF t, fresh, char
  <2>6. t \in LexerType BY <2>2, <2>4, <2>5, LookaheadValues DEF LexerType
  <2>7. /\ t.current_position = fresh.current_position
        /\ t.current_included_range_index = fresh.current_included_range_index
        /\ t.included_ranges = fresh.included_ranges /\ t.input = fresh.input
        /\ t.chunk_start = fresh.chunk_start /\ t.chunk_size = fresh.chunk_size
        /\ t.lookahead = char.lookahead /\ t.lookahead_size = char.lookahead_size
    BY <2>2, <2>4 DEF LexerType
  <2>8. QED
    BY <2>3, <2>5, <2>6, <2>7
    DEF LexerOK, CursorInRange, ChunkInText, ChunkHere, BomWide, HasChunk, Loaded, InChunk,
        ts_lexer__eof, EofIndex, CurrentRange, t
<1>5. QED BY <1>3, <1>4

\* ts_lexer_goto ends inside a range or at end of file, whatever the cursor
\* was before: the index and the chunk need not have matched it.
LEMMA GotoOK ==
  ASSUME NEW s \in LexerType, Len(s.included_ranges) > 0, ChunkInText(s),
         RangesAccepted(s.included_ranges),
         NEW position \in Length
  PROVE  LexerOK(ts_lexer_goto(s, position))
<1> DEFINE ranges == s.included_ranges
           found  == {i \in 1 .. Len(ranges) : HoldsTextAfter(ranges[i], position.bytes)}
           i      == Least(found)
           last   == ranges[Len(ranges)]
           column == ColumnAfterGoto(s, position)
           target == IF ranges[i].start_byte >= position.bytes
                       THEN [bytes |-> ranges[i].start_byte, extent |-> ranges[i].start_point]
                       ELSE position
           keep   == ChunkKept(s, target.bytes)
           t      == ts_lexer_goto(s, position)
<1>1. ranges \in Seq(TSRange) /\ Len(ranges) \in Nat \ {0} BY DEF LexerType
<1>2. column \in ColumnData BY DEF LexerType, ColumnData, NoColumn, ColumnAfterGoto
<1>3. CASE found = {}
  <2>1. t = [s EXCEPT !.column_data = column,
                      !.current_position = [bytes |-> last.end_byte,
                                            extent |-> last.end_point],
                      !.current_included_range_index = EofIndex(s),
                      !.chunk_start = 0, !.chunk_size = 0,
                      !.lookahead = "nul", !.lookahead_size = 1]
    BY <1>3, Zenon DEF ts_lexer_goto
  <2>2. last \in TSRange BY <1>1
  <2>3. [bytes |-> last.end_byte, extent |-> last.end_point] \in Length
    BY <2>2 DEF TSRange, Length
  <2>4. EofIndex(s) \in Nat BY <1>1 DEF EofIndex
  <2> HIDE DEF t, column, last
  <2>5. t \in LexerType BY <1>2, <2>1, <2>3, <2>4, LookaheadValues DEF LexerType
  <2>6. /\ t.included_ranges = ranges /\ t.chunk_size = 0 /\ t.lookahead = "nul"
        /\ t.current_included_range_index = EofIndex(s)
    BY <2>1 DEF LexerType
  <2>7. QED
    BY <2>5, <2>6 DEF LexerOK, CursorInRange, ChunkInText, ChunkHere, BomWide, HasChunk,
                      ts_lexer__eof, EofIndex, t
<1>4. CASE found # {}
  <2>1. t = [s EXCEPT !.column_data = column,
                      !.current_position = target,
                      !.current_included_range_index = i,
                      !.chunk_start = IF keep \/ ~HasChunk(s) THEN @ ELSE 0,
                      !.chunk_size = IF keep THEN @ ELSE 0,
                      !.lookahead = "nul", !.lookahead_size = 0]
    BY <1>4, Zenon DEF ts_lexer_goto
  <2>2. i \in found
    <3> HIDE DEF found
    <3>1. found \in SUBSET Nat BY <1>1 DEF found
    <3>2. QED BY <1>4, <3>1, LeastIn
  <2>c. i \in 1 .. Len(ranges) /\ HoldsTextAfter(ranges[i], position.bytes)
    <3> HIDE DEF i
    <3>1. QED BY <2>2, Zenon
  <2> HIDE DEF i, found
  <2>3. /\ i \in 1 .. Len(ranges) /\ ranges[i] \in TSRange
        /\ ranges[i].end_byte > position.bytes
        /\ ranges[i].start_byte < ranges[i].end_byte
    BY <1>1, <2>c DEF HoldsTextAfter, NonEmpty
  <2>4. /\ target \in Length
        /\ ranges[i].start_byte <= target.bytes /\ target.bytes < ranges[i].end_byte
    BY <2>3 DEF TSRange, Length
  <2> HIDE DEF t, column, target
  <2>5. s.chunk_start \in Nat /\ s.chunk_size \in Nat BY DEF LexerType
  <2>a. i \in Nat BY <1>1, <2>3
  <2>b. /\ (IF keep \/ ~HasChunk(s) THEN s.chunk_start ELSE 0) \in Nat
        /\ (IF keep THEN s.chunk_size ELSE 0) \in Nat
    BY <2>5
  <2>6. t \in LexerType
    BY <1>2, <2>1, <2>4, <2>a, <2>b, LookaheadValues DEF LexerType
  <2>7. /\ t.included_ranges = ranges /\ t.input = s.input
        /\ t.current_position = target /\ t.current_included_range_index = i
        /\ t.lookahead = "nul"
        /\ t.chunk_size = IF keep THEN s.chunk_size ELSE 0
        /\ t.chunk_start = IF keep \/ ~HasChunk(s) THEN s.chunk_start ELSE 0
    BY <2>1 DEF LexerType
  <2>8. CursorInRange(t)
    BY <1>1, <2>3, <2>4, <2>7 DEF CursorInRange, CurrentRange
  <2>9. ChunkInText(t) /\ ChunkHere(t)
    BY <2>5, <2>7 DEF ChunkInText, ChunkHere, HasChunk, InChunk, ChunkKept
  <2>10. QED BY <1>1, <2>6, <2>7, <2>8, <2>9 DEF LexerOK, BomWide, t
<1>5. QED BY <1>3, <1>4

\* Consuming the lookahead moves the position forward by its size and changes
\* nothing else than the column.
LEMMA ConsumeOK ==
  ASSUME NEW s \in LexerType
  PROVE  LET t == ConsumeLookahead(s)
         IN  /\ t \in LexerType
             /\ t.input = s.input
             /\ t.included_ranges = s.included_ranges
             /\ t.current_included_range_index = s.current_included_range_index
             /\ t.chunk_start = s.chunk_start /\ t.chunk_size = s.chunk_size
             /\ t.token_start_position = s.token_start_position
             /\ t.lookahead = s.lookahead /\ t.lookahead_size = s.lookahead_size
             /\ t.current_position.bytes = s.current_position.bytes + s.lookahead_size
<1> DEFINE size == s.lookahead_size
           pos  == [bytes |-> s.current_position.bytes + size, extent |-> ExtentAfter(s)]
           bom  == s.current_position.bytes = 0 /\ s.lookahead = "bom"
           col  == IF s.lookahead = "nl" THEN [valid |-> TRUE, value |-> 0]
                   ELSE IF bom THEN s.column_data
                   ELSE ts_lexer__increment_column_data(s.column_data)
           t    == ConsumeLookahead(s)
<1>1. s.current_position.bytes \in Nat /\ s.current_position.extent \in TSPoint /\ size \in Nat
  BY DEF LexerType, Length
<1>2. ExtentAfter(s) \in TSPoint BY <1>1 DEF TSPoint, ExtentAfter
<1>3. pos \in Length /\ pos.bytes = s.current_position.bytes + size
  BY <1>1, <1>2 DEF Length
<1>4. s.column_data \in ColumnData BY DEF LexerType
<1>5. col \in ColumnData
  BY <1>4 DEF ColumnData, ts_lexer__increment_column_data
<1>6. CASE size = 0
  <2>1. t = s BY <1>6 DEF ConsumeLookahead
  <2>2. QED BY <1>1, <1>6, <2>1
<1>7. CASE size # 0
  <2>1. t = [s EXCEPT !.current_position = pos, !.column_data = col]
    BY <1>7 DEF ConsumeLookahead
  <2> HIDE DEF t, pos, col
  <2>2. t \in LexerType BY <1>3, <1>5, <2>1 DEF LexerType
  <2>3. QED BY <1>3, <2>1, <2>2 DEF LexerType, t
<1>8. QED BY <1>6, <1>7

\* Leaving a range moves to the start of the next range that is not empty, or
\* to end of file.
LEMMA LeaveRangeOK ==
  ASSUME NEW s \in LexerType, Len(s.included_ranges) > 0,
         s.current_included_range_index \in 1 .. (Len(s.included_ranges) + 1)
  PROVE  LET t == LeaveRange(s)
             n == Len(s.included_ranges)
         IN  /\ t \in LexerType
             /\ t.input = s.input
             /\ t.included_ranges = s.included_ranges
             /\ t.chunk_start = s.chunk_start /\ t.chunk_size = s.chunk_size
             /\ t.lookahead = s.lookahead /\ t.lookahead_size = s.lookahead_size
             /\ t.current_included_range_index \in 1 .. (n + 1)
             /\ CursorInRange(t)
             /\ \/ t.current_position = s.current_position
                \/ \E k \in (s.current_included_range_index + 1) .. n :
                      t.current_position.bytes = s.included_ranges[k].start_byte
<1> DEFINE ranges == s.included_ranges
           n      == Len(ranges)
           cur    == s.current_included_range_index
           later  == {j \in (cur + 1) .. n : NonEmpty(ranges[j])}
           next   == Least(later)
           at(k)  == [bytes |-> ranges[k].start_byte, extent |-> ranges[k].start_point]
           t      == LeaveRange(s)
<1>1. ranges \in Seq(TSRange) /\ n \in Nat \ {0} /\ cur \in Nat BY DEF LexerType
<1>2. \A k \in 1 .. n : ranges[k] \in TSRange BY <1>1
<1>3. \A k \in 1 .. n : at(k) \in Length BY <1>2 DEF TSRange, Length
<1>4. CASE later = {}
  <2> DEFINE pos == IF cur < n THEN at(n) ELSE s.current_position
  <2>1. t = [s EXCEPT !.current_included_range_index = n + 1, !.current_position = pos]
    BY <1>4 DEF LeaveRange
  <2>2. s.current_position \in Length BY DEF LexerType
  <2>3. pos \in Length BY <1>1, <1>3, <2>2
  <2>4. n + 1 \in Nat BY <1>1
  <2>a. \/ pos = s.current_position
        \/ n \in (cur + 1) .. n /\ pos.bytes = ranges[n].start_byte
    BY <1>1
  <2> HIDE DEF t, n, pos
  <2>5. t \in LexerType BY <2>1, <2>3, <2>4 DEF LexerType
  <2>6. /\ t.input = s.input /\ t.included_ranges = ranges
        /\ t.chunk_start = s.chunk_start /\ t.chunk_size = s.chunk_size
        /\ t.lookahead = s.lookahead /\ t.lookahead_size = s.lookahead_size
        /\ t.current_included_range_index = n + 1 /\ t.current_position = pos
    BY <2>1 DEF LexerType
  <2>7. CursorInRange(t) BY <2>6 DEF CursorInRange, ts_lexer__eof, EofIndex, n
  <2>8. n + 1 \in 1 .. (n + 1) BY <1>1 DEF n
  <2>9. QED BY <2>a, <2>5, <2>6, <2>7, <2>8 DEF t, n
<1>5. CASE later # {}
  <2>1. t = [s EXCEPT !.current_included_range_index = next, !.current_position = at(next)]
    BY <1>5, Zenon DEF LeaveRange
  <2>2. next \in later
    <3> HIDE DEF later
    <3>1. later \in SUBSET Nat BY <1>1 DEF later
    <3>2. QED BY <1>5, <3>1, LeastIn
  <2>3. next \in (cur + 1) .. n /\ NonEmpty(ranges[next])
    <3> HIDE DEF next
    <3>1. QED BY <2>2, Zenon
  <2> HIDE DEF next, later
  <2>4. next \in 1 .. n /\ next \in Nat /\ next \in 1 .. (n + 1) BY <1>1, <2>3
  <2>5. at(next) \in Length BY <1>3, <2>4
  <2>6. at(next).bytes = ranges[next].start_byte OBVIOUS
  <2>7. ranges[next].start_byte \in Nat /\ ranges[next].start_byte < ranges[next].end_byte
    BY <1>2, <2>3, <2>4 DEF NonEmpty, TSRange
  <2> HIDE DEF t, at, n
  <2>8. t \in LexerType BY <2>1, <2>4, <2>5 DEF LexerType
  <2>9. /\ t.input = s.input /\ t.included_ranges = ranges
        /\ t.chunk_start = s.chunk_start /\ t.chunk_size = s.chunk_size
        /\ t.lookahead = s.lookahead /\ t.lookahead_size = s.lookahead_size
        /\ t.current_included_range_index = next /\ t.current_position = at(next)
    BY <2>1 DEF LexerType
  <2>10. CursorInRange(t)
    BY <2>4, <2>6, <2>7, <2>9 DEF CursorInRange, CurrentRange, n
  <2>11. QED BY <2>3, <2>4, <2>6, <2>8, <2>9, <2>10 DEF t, n
<1>6. QED BY <1>4, <1>5

\* The range index is one of a range or that of end of file.
LEMMA IndexOK ==
  ASSUME NEW s \in LexerType, CursorInRange(s)
  PROVE  s.current_included_range_index \in 1 .. (Len(s.included_ranges) + 1)
<1>1. Len(s.included_ranges) \in Nat BY DEF LexerType
<1>2. QED BY <1>1 DEF CursorInRange, ts_lexer__eof, EofIndex

\* ts_lexer__do_advance ends inside a range with a chunk and a lookahead, or at
\* end of file; from inside a range it moves forward.
LEMMA DoAdvanceOK ==
  ASSUME NEW s, LexerOK(s), NEW skip \in BOOLEAN, NEW junk \in Nat
  PROVE  LET t == ts_lexer__do_advance(s, skip, junk)
         IN  /\ LexerOK(t) /\ Loaded(t)
             /\ ~ts_lexer__eof(s) /\ s.lookahead_size > 0 =>
                  t.current_position.bytes > s.current_position.bytes
<1> DEFINE moved   == ConsumeLookahead(s)
           leaving == \/ moved.current_position.bytes >= CurrentRangeEnd(s, junk)
                      \/ ~ts_lexer__eof(s) /\ ~NonEmpty(CurrentRange(s))
           there   == IF leaving THEN LeaveRange(moved) ELSE moved
           marked  == IF skip
                        THEN [there EXCEPT !.token_start_position = there.current_position]
                        ELSE there
           loaded  == IF InChunk(marked, marked.current_position.bytes)
                        THEN marked ELSE ts_lexer__get_chunk(marked)
           t       == ts_lexer__do_advance(s, skip, junk)
<1>1. /\ s \in LexerType /\ Len(s.included_ranges) > 0 /\ CursorInRange(s) /\ ChunkInText(s)
      /\ RangesAccepted(s.included_ranges) /\ BomWide(s)
  BY DEF LexerOK
<1>2. s.current_included_range_index \in 1 .. (Len(s.included_ranges) + 1)
  BY <1>1, IndexOK
<1>3. /\ moved \in LexerType /\ moved.input = s.input
      /\ moved.included_ranges = s.included_ranges
      /\ moved.current_included_range_index = s.current_included_range_index
      /\ moved.chunk_start = s.chunk_start /\ moved.chunk_size = s.chunk_size
      /\ moved.lookahead = s.lookahead /\ moved.lookahead_size = s.lookahead_size
      /\ moved.current_position.bytes = s.current_position.bytes + s.lookahead_size
  BY <1>1, ConsumeOK
<1> HIDE DEF moved
<1>4. ~leaving => CursorInRange(moved)
  <2> SUFFICES ASSUME ~leaving PROVE CursorInRange(moved) OBVIOUS
  <2>1. CASE ts_lexer__eof(s)
    BY <1>3, <2>1 DEF CursorInRange, ts_lexer__eof, EofIndex
  <2>2. CASE ~ts_lexer__eof(s)
    <3>1. s.current_position.bytes \in Nat /\ s.lookahead_size \in Nat
      BY <1>1 DEF LexerType, Length
    <3>2. s.included_ranges \in Seq(TSRange) /\ s.current_included_range_index \in 1 .. Len(s.included_ranges)
      BY <1>1, <2>2 DEF LexerType, CursorInRange
    <3>3. CurrentRange(s) \in TSRange BY <3>2 DEF CurrentRange
    <3>4. CurrentRange(s).start_byte \in Nat /\ CurrentRange(s).end_byte \in Nat
      BY <3>3 DEF TSRange
    <3>5. moved.current_position.bytes < CurrentRange(s).end_byte
      BY <1>3, <2>2, <3>1, <3>4 DEF CurrentRangeEnd
    <3>6. CurrentRange(s).start_byte <= moved.current_position.bytes
      BY <1>1, <1>3, <2>2, <3>1, <3>4 DEF CursorInRange
    <3>7. QED BY <1>3, <3>2, <3>5, <3>6 DEF CursorInRange, CurrentRange
  <2>3. QED BY <2>1, <2>2
<1>5. /\ there \in LexerType /\ there.input = s.input
      /\ there.included_ranges = s.included_ranges
      /\ there.chunk_start = s.chunk_start /\ there.chunk_size = s.chunk_size
      /\ there.lookahead = s.lookahead /\ there.lookahead_size = s.lookahead_size
      /\ CursorInRange(there)
  <2>1. CASE leaving BY <1>1, <1>2, <1>3, <2>1, LeaveRangeOK
  <2>2. CASE ~leaving BY <1>3, <1>4, <2>2
  <2>3. QED BY <2>1, <2>2
<1>a. ~ts_lexer__eof(s) /\ s.lookahead_size > 0 =>
        there.current_position.bytes > s.current_position.bytes
  <2> SUFFICES ASSUME ~ts_lexer__eof(s), s.lookahead_size > 0
               PROVE  there.current_position.bytes > s.current_position.bytes
    OBVIOUS
  <2> DEFINE cur == s.current_included_range_index
             n   == Len(s.included_ranges)
  <2>1. s.current_position.bytes \in Nat /\ s.lookahead_size \in Nat
    BY <1>1 DEF LexerType, Length
  <2>2. cur \in 1 .. n /\ n \in Nat /\ s.included_ranges \in Seq(TSRange)
    BY <1>1 DEF LexerType, CursorInRange
  <2>b. \A k \in 1 .. n : s.included_ranges[k] \in TSRange BY <2>2
  <2>3. \A k \in 1 .. n : /\ s.included_ranges[k].start_byte \in Nat
                          /\ s.included_ranges[k].end_byte \in Nat
    BY <2>b DEF TSRange
  <2>4. s.current_position.bytes < s.included_ranges[cur].end_byte
    BY <1>1 DEF CursorInRange, CurrentRange
  <2>5. \A k \in (cur + 1) .. n : s.current_position.bytes < s.included_ranges[k].start_byte
    <3> SUFFICES ASSUME NEW k \in (cur + 1) .. n
                 PROVE  s.current_position.bytes < s.included_ranges[k].start_byte
      OBVIOUS
    <3>1. k \in 1 .. n /\ cur < k BY <2>2
    <3>2. s.included_ranges[cur].end_byte <= s.included_ranges[k].start_byte
      BY <1>1, <2>2, <3>1 DEF RangesAccepted
    <3>3. QED BY <2>1, <2>2, <2>3, <2>4, <3>1, <3>2
  <2>6. moved.current_position.bytes > s.current_position.bytes BY <1>3, <2>1
  <2>7. CASE ~leaving BY <2>6, <2>7
  <2>8. CASE leaving
    <3>1. \/ there.current_position = moved.current_position
          \/ \E k \in (cur + 1) .. n :
                there.current_position.bytes = s.included_ranges[k].start_byte
      BY <1>1, <1>2, <1>3, <2>8, LeaveRangeOK
    <3>2. QED BY <2>1, <2>2, <2>3, <2>5, <2>6, <3>1
  <2>9. QED BY <2>7, <2>8
<1> HIDE DEF leaving, there
<1>6. /\ marked \in LexerType /\ marked.input = s.input
      /\ marked.included_ranges = s.included_ranges
      /\ marked.chunk_start = s.chunk_start /\ marked.chunk_size = s.chunk_size
      /\ marked.lookahead = s.lookahead /\ marked.lookahead_size = s.lookahead_size
      /\ marked.current_position = there.current_position
      /\ marked.current_included_range_index = there.current_included_range_index
  <2>1. there.current_position \in Length BY <1>5 DEF LexerType
  <2>2. [there EXCEPT !.token_start_position = there.current_position] \in LexerType
    BY <1>5, <2>1 DEF LexerType
  <2>3. QED BY <1>5, <2>2 DEF LexerType
<1>7. CursorInRange(marked)
  BY <1>5, <1>6 DEF CursorInRange, ts_lexer__eof, EofIndex, CurrentRange
<1>8. ChunkInText(marked) /\ BomWide(marked)
  BY <1>1, <1>6 DEF ChunkInText, HasChunk, BomWide
<1>9. ts_lexer__eof(marked) <=> ts_lexer__eof(there)
  BY <1>5, <1>6 DEF ts_lexer__eof, EofIndex
<1> HIDE DEF marked
<1>10. CASE leaving /\ ts_lexer__eof(there)
  <2> DEFINE cleared == ts_lexer__clear_chunk(marked)
  <2>1. t = [cleared EXCEPT !.lookahead = "nul", !.lookahead_size = 1]
    BY <1>10, Zenon DEF ts_lexer__do_advance, moved, leaving, there, marked
  <2>2. cleared = [marked EXCEPT !.chunk_size = 0, !.chunk_start = 0]
    BY DEF ts_lexer__clear_chunk
  <2> HIDE DEF cleared, t
  <2>3. /\ cleared \in LexerType /\ cleared.chunk_size = 0
        /\ cleared.included_ranges = s.included_ranges
        /\ cleared.current_included_range_index = marked.current_included_range_index
        /\ cleared.current_position = marked.current_position
    BY <1>6, <2>2 DEF LexerType
  <2>4. t \in LexerType BY <2>1, <2>3, LookaheadValues DEF LexerType
  <2>5. /\ t.chunk_size = 0 /\ t.included_ranges = s.included_ranges
        /\ t.current_included_range_index = marked.current_included_range_index
        /\ t.current_position = there.current_position /\ t.lookahead = "nul"
    BY <1>6, <2>1, <2>3 DEF LexerType
  <2>6. ts_lexer__eof(t) BY <1>6, <1>9, <1>10, <2>5 DEF ts_lexer__eof, EofIndex
  <2>7. QED
    BY <1>1, <1>a, <2>4, <2>5, <2>6
    DEF LexerOK, CursorInRange, ChunkInText, ChunkHere, BomWide, HasChunk, Loaded, t
<1>11. CASE ~(leaving /\ ts_lexer__eof(there))
  <2>1. t = ts_lexer__get_lookahead(loaded)
    BY <1>11, Zenon DEF ts_lexer__do_advance, moved, leaving, there, marked
  <2>2. CASE InChunk(marked, marked.current_position.bytes)
    <3>1. loaded = marked BY <2>2
    <3>2. LexerOK(marked)
      BY <1>1, <1>6, <1>7, <1>8, <2>2 DEF LexerOK, ChunkHere
    <3>3. HasChunk(marked)
      <4>1. marked.chunk_start \in Nat /\ marked.chunk_size \in Nat BY <1>6 DEF LexerType
      <4>2. marked.current_position.bytes \in Nat BY <1>6 DEF LexerType, Length
      <4>3. QED BY <2>2, <4>1, <4>2 DEF HasChunk, InChunk
    <3>4. QED BY <1>6, <1>a, <2>1, <2>2, <3>1, <3>2, <3>3, GetLookaheadOK
  <2>3. CASE ~InChunk(marked, marked.current_position.bytes)
    <3> DEFINE fresh == ts_lexer__get_chunk(marked)
    <3>1. loaded = fresh BY <2>3
    <3>2. /\ LexerOK(fresh) /\ fresh.chunk_start = marked.current_position.bytes
          /\ fresh.current_position = marked.current_position
          /\ ~HasChunk(fresh) => ts_lexer__eof(fresh)
      BY <1>1, <1>6, <1>7, <1>8, GetChunkOK
    <3> HIDE DEF fresh
    <3>3. HasChunk(fresh) => InChunk(fresh, fresh.current_position.bytes)
      <4>1. fresh.chunk_start \in Nat /\ fresh.chunk_size \in Nat
        BY <3>2 DEF LexerOK, LexerType
      <4>2. QED BY <3>2, <4>1 DEF HasChunk, InChunk
    <3>4. QED BY <1>6, <1>a, <2>1, <3>1, <3>2, <3>3, GetLookaheadOK
  <2>4. QED BY <2>2, <2>3
<1>12. QED BY <1>10, <1>11

\* The fast path stays in the range and in the chunk, one byte further.
LEMMA FastAdvanceOK ==
  ASSUME NEW s, LexerOK(s), Loaded(s), HasChunk(s), NEW skip \in BOOLEAN, NEW junk \in Nat,
         FastPath(s, junk)
  PROVE  /\ LexerOK(FastAdvance(s, skip)) /\ Loaded(FastAdvance(s, skip))
         /\ FastAdvance(s, skip).current_position.bytes = s.current_position.bytes + 1
<1> DEFINE pos  == s.current_position
           next == [bytes |-> pos.bytes + 1,
                    extent |-> [row |-> pos.extent.row, column |-> pos.extent.column + 1]]
           col  == ts_lexer__increment_column_data(s.column_data)
           tok  == IF skip THEN next ELSE s.token_start_position
           char == s.input.text[next.bytes + 1]
           t    == FastAdvance(s, skip)
<1>1. s \in LexerType BY DEF LexerOK
<1>2. pos.bytes \in Nat /\ pos.extent \in TSPoint BY <1>1 DEF LexerType, Length
<1>3. next \in Length /\ next.bytes = pos.bytes + 1 BY <1>2 DEF Length, TSPoint
<1>4. s.column_data \in ColumnData BY <1>1 DEF LexerType
<1>5. col \in ColumnData BY <1>4 DEF ColumnData, ts_lexer__increment_column_data
<1>6. char \in Codepoint /\ char # "bom"
  <2>1. char \in Ascii BY <1>3 DEF FastPath
  <2>2. QED BY <2>1 DEF Ascii, Codepoint, ByteKind
<1>7. tok \in Length BY <1>1, <1>3 DEF LexerType
<1>8. t = [s EXCEPT !.column_data = col, !.current_position = next,
                    !.token_start_position = tok, !.lookahead = char]
  BY DEF FastAdvance
<1> HIDE DEF t, next, col, tok, char
<1>9. t \in LexerType BY <1>1, <1>3, <1>5, <1>6, <1>7, <1>8 DEF LexerType
<1>10. /\ t.input = s.input /\ t.included_ranges = s.included_ranges
       /\ t.current_included_range_index = s.current_included_range_index
       /\ t.chunk_start = s.chunk_start /\ t.chunk_size = s.chunk_size
       /\ t.lookahead = char /\ t.lookahead_size = s.lookahead_size
       /\ t.current_position = next
  BY <1>1, <1>8 DEF LexerType
<1>11. ts_lexer__eof(t) <=> ts_lexer__eof(s)
  BY <1>10 DEF ts_lexer__eof, EofIndex
<1>12. s.chunk_start \in Nat /\ s.chunk_size \in Nat BY <1>1 DEF LexerType
<1>13. InChunk(t, next.bytes)
  BY <1>2, <1>3, <1>10, <1>12 DEF LexerOK, ChunkHere, InChunk, FastPath, HasChunk
<1>14. CursorInRange(t)
  <2>1. CASE ts_lexer__eof(s) BY <1>11, <2>1 DEF CursorInRange
  <2>2. CASE ~ts_lexer__eof(s)
    <3>1. s.included_ranges \in Seq(TSRange) /\ s.current_included_range_index \in 1 .. Len(s.included_ranges)
      BY <1>1, <2>2 DEF LexerType, LexerOK, CursorInRange
    <3>a. CurrentRange(s) \in TSRange BY <3>1 DEF CurrentRange
    <3>2. CurrentRange(s).start_byte \in Nat /\ CurrentRange(s).end_byte \in Nat
      BY <3>a DEF TSRange
    <3>3. next.bytes < CurrentRange(s).end_byte
      BY <1>3, <2>2 DEF FastPath, CurrentRangeEnd
    <3>4. CurrentRange(s).start_byte <= next.bytes
      BY <1>2, <1>3, <2>2, <3>2 DEF LexerOK, CursorInRange
    <3>5. QED BY <1>10, <3>1, <3>3, <3>4 DEF CursorInRange, CurrentRange
  <2>3. QED BY <2>1, <2>2
<1>15. QED
  BY <1>3, <1>6, <1>9, <1>10, <1>11, <1>13, <1>14
  DEF LexerOK, Loaded, ChunkInText, ChunkHere, BomWide, HasChunk, t

\* ts_lexer__advance, on either path, keeps the cursor in a range with a chunk.
LEMMA AdvanceOK ==
  ASSUME NEW s, LexerOK(s), Loaded(s), NEW skip \in BOOLEAN, NEW junk \in Nat
  PROVE  LET t == ts_lexer__advance(s, skip, junk)
         IN  /\ LexerOK(t) /\ Loaded(t)
             /\ ~ts_lexer__eof(s) => t.current_position.bytes > s.current_position.bytes
<1>1. CASE ~HasChunk(s) BY <1>1 DEF ts_lexer__advance, Loaded
<1>2. CASE HasChunk(s) /\ FastPath(s, junk)
  <2>1. s.current_position.bytes \in Nat BY DEF LexerOK, LexerType, Length
  <2>2. QED BY <1>2, <2>1, FastAdvanceOK DEF ts_lexer__advance
<1>3. CASE HasChunk(s) /\ ~FastPath(s, junk)
  BY <1>3, DoAdvanceOK DEF ts_lexer__advance, Loaded
<1>4. QED BY <1>1, <1>2, <1>3

\* On the fast path ts_lexer__do_advance stays in the range and in the chunk,
\* and decodes the next byte.
LEMMA FastPathSame ==
  ASSUME NEW s, LexerOK(s), HasChunk(s), NEW skip \in BOOLEAN, NEW junk \in Nat,
         FastPath(s, junk), ~ts_lexer__eof(s) => CurrentRange(s) \in TSRange
  PROVE  FastAdvance(s, skip) = ts_lexer__do_advance(s, skip, junk)
<1> DEFINE pos  == s.current_position
           next == [bytes |-> pos.bytes + 1,
                    extent |-> [row |-> pos.extent.row, column |-> pos.extent.column + 1]]
           col  == ts_lexer__increment_column_data(s.column_data)
           tok  == IF skip THEN next ELSE s.token_start_position
           char == s.input.text[next.bytes + 1]
           moved   == ConsumeLookahead(s)
           leaving == \/ moved.current_position.bytes >= CurrentRangeEnd(s, junk)
                      \/ ~ts_lexer__eof(s) /\ ~NonEmpty(CurrentRange(s))
           there   == IF leaving THEN LeaveRange(moved) ELSE moved
           marked  == IF skip
                        THEN [there EXCEPT !.token_start_position = there.current_position]
                        ELSE there
           loaded  == IF InChunk(marked, marked.current_position.bytes)
                        THEN marked ELSE ts_lexer__get_chunk(marked)
<1>1. /\ s \in LexerType /\ CursorInRange(s) /\ BomWide(s) /\ ChunkInText(s) /\ ChunkHere(s)
      /\ s.lookahead_size = 1 /\ s.lookahead # "nl"
      /\ pos.bytes + 1 < CurrentRangeEnd(s, junk)
      /\ pos.bytes + 1 < s.chunk_start + s.chunk_size
      /\ char \in Ascii
  BY DEF LexerOK, FastPath
<1>2. /\ pos.bytes \in Nat /\ s.chunk_start \in Nat /\ s.chunk_size \in Nat
      /\ s.input.text \in Seq(ByteKind) /\ s.chunk_start <= pos.bytes
  BY <1>1 DEF LexerType, Length, TSInput, ChunkHere, InChunk
<1>3. moved = [s EXCEPT !.current_position = next, !.column_data = col]
  <2> DEFINE after == [bytes |-> pos.bytes + s.lookahead_size, extent |-> ExtentAfter(s)]
             count == IF s.lookahead = "nl" THEN [valid |-> TRUE, value |-> 0]
                      ELSE IF pos.bytes = 0 /\ s.lookahead = "bom" THEN s.column_data
                      ELSE ts_lexer__increment_column_data(s.column_data)
  <2>1. after = next BY <1>1 DEF ExtentAfter
  <2>2. count = col BY <1>1 DEF BomWide
  <2>3. s.lookahead_size # 0 BY <1>1
  <2>4. moved = [s EXCEPT !.current_position = after, !.column_data = count]
    BY <2>3, Zenon DEF ConsumeLookahead
  <2> HIDE DEF after, count, next, col, moved
  <2>5. QED BY <2>1, <2>2, <2>4
<1> HIDE DEF moved
<1>4. ~leaving
  <2>1. moved.current_position.bytes = pos.bytes + 1 BY <1>1, <1>3 DEF LexerType
  <2>2. CASE ts_lexer__eof(s) BY <1>1, <1>2, <2>1, <2>2 DEF CurrentRangeEnd
  <2>3. CASE ~ts_lexer__eof(s)
    <3>1. CurrentRange(s).start_byte \in Nat /\ CurrentRange(s).end_byte \in Nat
      BY <2>3 DEF TSRange
    <3>2. QED
      BY <1>1, <1>2, <2>1, <2>3, <3>1 DEF CurrentRangeEnd, CursorInRange, NonEmpty
  <2>4. QED BY <2>2, <2>3
<1>5. there = moved BY <1>4
<1> HIDE DEF leaving, there
<1>6. marked = [s EXCEPT !.current_position = next, !.column_data = col,
                         !.token_start_position = tok]
  BY <1>1, <1>3, <1>5 DEF LexerType
<1> HIDE DEF marked
<1>7. /\ marked.current_position = next /\ next.bytes = pos.bytes + 1
      /\ marked.input = s.input /\ marked.chunk_start = s.chunk_start
      /\ marked.chunk_size = s.chunk_size
  BY <1>1, <1>6 DEF LexerType
<1>8. loaded = marked BY <1>1, <1>2, <1>7 DEF InChunk
<1>9. ts_lexer__do_advance(s, skip, junk) = ts_lexer__get_lookahead(marked)
  BY <1>4, <1>8, Zenon DEF ts_lexer__do_advance, moved, leaving, there, marked
<1> DEFINE size == s.chunk_size - (next.bytes - s.chunk_start)
<1>10. size \in Nat /\ size # 0 /\ 1 <= size BY <1>1, <1>2, <1>7
<1> HIDE DEF size, char
<1>11. decode(s.input.text, next.bytes, size) = [lookahead |-> char, lookahead_size |-> 1]
  BY <1>1, <1>10 DEF decode, Width, Ascii, char
<1>12. char # "error" BY <1>1 DEF Ascii
<1>13. ts_lexer__get_lookahead(marked)
         = [marked EXCEPT !.lookahead = char, !.lookahead_size = 1]
  <2> DEFINE b     == marked.current_position.bytes
             left  == marked.chunk_size - (b - marked.chunk_start)
             first == decode(marked.input.text, b, left)
             again == first.lookahead = "error" /\ left < 4
             fresh == IF again THEN ts_lexer__get_chunk(marked) ELSE marked
             taken == IF again THEN decode(marked.input.text, b, fresh.chunk_size) ELSE first
  <2>1. b = next.bytes /\ left = size BY <1>7 DEF size
  <2>2. first = [lookahead |-> char, lookahead_size |-> 1]
    <3> HIDE DEF b, left, next
    <3>1. QED BY <1>7, <1>11, <2>1
  <2> HIDE DEF left, first
  <2>3. fresh = marked /\ taken = first BY <1>12, <2>2
  <2>4. ts_lexer__get_lookahead(marked)
          = [fresh EXCEPT !.lookahead = taken.lookahead, !.lookahead_size = taken.lookahead_size]
    BY <1>10, <2>1, Zenon DEF ts_lexer__get_lookahead, left, first
  <2> HIDE DEF fresh, taken
  <2>5. QED BY <2>2, <2>3, <2>4
<1>14. FastAdvance(s, skip)
         = [s EXCEPT !.column_data = col, !.current_position = next,
                     !.token_start_position = tok, !.lookahead = char]
  BY DEF FastAdvance, char
<1> DEFINE fast == FastAdvance(s, skip)
           slow == [marked EXCEPT !.lookahead = char, !.lookahead_size = 1]
<1> HIDE DEF next, col, tok, fast
<1>15. /\ DOMAIN fast = DOMAIN s /\ fast = [x \in DOMAIN s |-> fast[x]]
       /\ DOMAIN slow = DOMAIN s /\ slow = [x \in DOMAIN s |-> slow[x]]
  BY <1>1, <1>6, <1>14 DEF LexerType, fast
<1>16. \A x \in DOMAIN s : fast[x] = slow[x]
  BY <1>1, <1>6, <1>14 DEF fast
<1> HIDE DEF slow
<1>17. fast = slow BY <1>15, <1>16
<1>18. QED BY <1>9, <1>13, <1>17 DEF fast, slow

\* ts_lexer__mark_end and ts_lexer_finish change the token only.
LEMMA MarkEndOK ==
  ASSUME NEW s, LexerOK(s)
  PROVE  LET t == ts_lexer__mark_end(s)
         IN  /\ LexerOK(t)
             /\ Loaded(s) => Loaded(t)
             /\ t.current_position = s.current_position
             /\ t.token_start_position = s.token_start_position
<1> DEFINE i    == s.current_included_range_index
           prev == s.included_ranges[i - 1]
           back == /\ ~ts_lexer__eof(s)
                   /\ i > 1
                   /\ s.current_position.bytes = CurrentRange(s).start_byte
           end  == IF back THEN [bytes |-> prev.end_byte, extent |-> prev.end_point]
                           ELSE s.current_position
           t    == ts_lexer__mark_end(s)
<1>1. s \in LexerType BY DEF LexerOK
<1>2. end \in Length
  <2>1. s.included_ranges \in Seq(TSRange) /\ s.current_position \in Length
    BY <1>1 DEF LexerType
  <2>2. back => prev \in TSRange
    <3>1. back => i \in 1 .. Len(s.included_ranges) BY DEF LexerOK, CursorInRange
    <3>2. back => i - 1 \in 1 .. Len(s.included_ranges) BY <2>1, <3>1
    <3>3. QED BY <2>1, <3>2
  <2>3. QED BY <2>1, <2>2 DEF TSRange, Length
<1>3. t = [s EXCEPT !.token_end_position = end]
  BY DEF ts_lexer__mark_end
<1> HIDE DEF t, end
<1>4. t \in LexerType BY <1>1, <1>2, <1>3 DEF LexerType
<1>5. /\ t.input = s.input /\ t.included_ranges = s.included_ranges
      /\ t.current_included_range_index = s.current_included_range_index
      /\ t.current_position = s.current_position
      /\ t.chunk_start = s.chunk_start /\ t.chunk_size = s.chunk_size
      /\ t.lookahead = s.lookahead /\ t.lookahead_size = s.lookahead_size
      /\ t.token_start_position = s.token_start_position
  BY <1>1, <1>3 DEF LexerType
<1>6. QED BY <1>4, <1>5, UnmovedOK DEF Loaded, t

\* ts_lexer_finish leaves the cursor and the chunk where they are.
LEMMA FinishOK ==
  ASSUME NEW s, LexerOK(s)
  PROVE  LET t == ts_lexer_finish(s)
         IN  LexerOK(t) /\ (Loaded(s) => Loaded(t)) /\ t.current_position = s.current_position
<1> DEFINE ended == IF length_is_undefined(s.token_end_position)
                      THEN ts_lexer__mark_end(s) ELSE s
           reset == [ended EXCEPT !.token_start_position = ended.token_end_position]
           t     == ts_lexer_finish(s)
<1>1. /\ LexerOK(ended) /\ (Loaded(s) => Loaded(ended))
      /\ ended.current_position = s.current_position
  BY MarkEndOK
<1>2. t = ended \/ t = reset BY DEF ts_lexer_finish
<1> HIDE DEF t, ended
<1>3. ended \in LexerType BY <1>1 DEF LexerOK
<1>4. reset \in LexerType BY <1>3 DEF LexerType
<1>5. /\ reset.input = ended.input /\ reset.included_ranges = ended.included_ranges
      /\ reset.current_included_range_index = ended.current_included_range_index
      /\ reset.current_position = ended.current_position
      /\ reset.chunk_start = ended.chunk_start /\ reset.chunk_size = ended.chunk_size
      /\ reset.lookahead = ended.lookahead /\ reset.lookahead_size = ended.lookahead_size
  BY <1>3 DEF LexerType
<1> HIDE DEF reset
<1>6. LexerOK(reset) /\ (Loaded(ended) => Loaded(reset))
  BY <1>1, <1>4, <1>5, UnmovedOK DEF Loaded
<1>7. QED BY <1>1, <1>2, <1>5, <1>6 DEF t

\* Backing up to the start of the line.
LEMMA BackUpOK ==
  ASSUME NEW s, LexerOK(s)
  PROVE  LexerOK(GetColumnBackUp(s)) /\ Loaded(GetColumnBackUp(s))
<1> DEFINE pos  == s.current_position
           line == [bytes |-> UInt32(pos.bytes - pos.extent.column),
                    extent |-> [row |-> pos.extent.row, column |-> 0]]
           gone == ts_lexer_goto(s, line)
           zero == [gone EXCEPT !.column_data = [valid |-> TRUE, value |-> 0]]
           back == ts_lexer__get_chunk(zero)
<1>1. /\ s \in LexerType /\ Len(s.included_ranges) > 0 /\ ChunkInText(s)
      /\ RangesAccepted(s.included_ranges)
  BY DEF LexerOK
<1>2. pos.bytes \in Nat /\ pos.extent \in TSPoint BY <1>1 DEF LexerType, Length
<1>3. line \in Length
  <2>1. pos.bytes - pos.extent.column \in Int BY <1>2 DEF TSPoint
  <2>2. UINT32_MAX + 1 \in Nat /\ UINT32_MAX + 1 > 0 BY UInt32Assumption
  <2>3. UInt32(pos.bytes - pos.extent.column) \in Nat BY <2>1, <2>2 DEF UInt32
  <2>4. QED BY <1>2, <2>3 DEF Length, TSPoint
<1> HIDE DEF line
<1>4. LexerOK(gone) BY <1>1, <1>3, GotoOK
<1> HIDE DEF gone
<1>5. gone \in LexerType BY <1>4 DEF LexerOK
<1>6. /\ zero \in LexerType /\ zero.input = gone.input
      /\ zero.included_ranges = gone.included_ranges
      /\ zero.current_included_range_index = gone.current_included_range_index
      /\ zero.current_position = gone.current_position
      /\ zero.chunk_start = gone.chunk_start /\ zero.chunk_size = gone.chunk_size
      /\ zero.lookahead = gone.lookahead /\ zero.lookahead_size = gone.lookahead_size
  BY <1>5 DEF LexerType, ColumnData
<1> HIDE DEF zero
<1>7. LexerOK(zero) BY <1>4, <1>6, UnmovedOK
<1>8. /\ LexerOK(back) /\ back.chunk_start = back.current_position.bytes
      /\ ~HasChunk(back) => ts_lexer__eof(back)
  BY <1>7, GetChunkOK DEF LexerOK
<1>9. GetColumnBackUp(s) = IF ts_lexer__eof(back) THEN back ELSE ts_lexer__get_lookahead(back)
  BY Zenon DEF GetColumnBackUp, line, gone, zero
<1> HIDE DEF back
<1>10. HasChunk(back) => InChunk(back, back.current_position.bytes)
  <2>1. back.chunk_start \in Nat /\ back.chunk_size \in Nat BY <1>8 DEF LexerOK, LexerType
  <2>2. QED BY <1>8, <2>1 DEF HasChunk, InChunk
<1>11. QED BY <1>8, <1>9, <1>10, GetLookaheadOK DEF Loaded

\* ts_lexer_reset jumps to the position of another version or does nothing.
LEMMA ResetOK ==
  ASSUME NEW s, LexerOK(s), NEW position \in Length
  PROVE  LexerOK(ts_lexer_reset(s, position))
BY GotoOK DEF ts_lexer_reset, LexerOK

\* ts_lexer_start loads a chunk and a lookahead.
LEMMA StartOK ==
  ASSUME NEW s, LexerOK(s)
  PROVE  LexerOK(ts_lexer_start(s)) /\ Loaded(ts_lexer_start(s))
<1> DEFINE begun  == [s EXCEPT !.token_start_position = s.current_position,
                               !.token_end_position = LENGTH_UNDEFINED,
                               !.did_get_column = FALSE]
           loaded == IF HasChunk(begun) THEN begun ELSE ts_lexer__get_chunk(begun)
           seen   == IF loaded.lookahead_size = 0 THEN ts_lexer__get_lookahead(loaded)
                                                  ELSE loaded
           past   == IF seen.lookahead = "bom" THEN ts_lexer__advance(seen, TRUE, 0) ELSE seen
           zero   == [past EXCEPT !.column_data = [valid |-> TRUE, value |-> 0]]
           t      == ts_lexer_start(s)
<1>1. s \in LexerType BY DEF LexerOK
<1>2. LENGTH_UNDEFINED \in Length BY DEF LENGTH_UNDEFINED, Length, TSPoint
<1>3. /\ begun \in LexerType /\ begun.input = s.input
      /\ begun.included_ranges = s.included_ranges
      /\ begun.current_included_range_index = s.current_included_range_index
      /\ begun.current_position = s.current_position
      /\ begun.chunk_start = s.chunk_start /\ begun.chunk_size = s.chunk_size
      /\ begun.lookahead = s.lookahead /\ begun.lookahead_size = s.lookahead_size
  BY <1>1, <1>2 DEF LexerType
<1>4. t = IF ts_lexer__eof(begun) THEN begun
          ELSE IF seen.current_position.bytes # 0 THEN seen ELSE zero
  BY Zenon DEF ts_lexer_start
<1> HIDE DEF begun, t
<1>5. LexerOK(begun) BY <1>3, UnmovedOK
<1>6. CASE ts_lexer__eof(begun) BY <1>4, <1>5, <1>6 DEF Loaded, t
<1>7. CASE ~ts_lexer__eof(begun)
  <2>1. /\ LexerOK(loaded)
        /\ HasChunk(loaded) => InChunk(loaded, loaded.current_position.bytes)
        /\ ~HasChunk(loaded) => /\ loaded.chunk_start = loaded.current_position.bytes
                                /\ ts_lexer__eof(loaded)
    <3>1. CASE HasChunk(begun)
      BY <1>5, <1>7, <3>1 DEF LexerOK, ChunkHere
    <3>2. CASE ~HasChunk(begun)
      <4> DEFINE fresh == ts_lexer__get_chunk(begun)
      <4>1. /\ LexerOK(fresh) /\ fresh.chunk_start = fresh.current_position.bytes
            /\ ~HasChunk(fresh) => ts_lexer__eof(fresh)
        BY <1>5, GetChunkOK DEF LexerOK
      <4>2. loaded = fresh BY <3>2
      <4> HIDE DEF fresh
      <4>3. fresh.chunk_start \in Nat /\ fresh.chunk_size \in Nat BY <4>1 DEF LexerOK, LexerType
      <4>4. QED BY <4>1, <4>2, <4>3 DEF HasChunk, InChunk
    <3>3. QED BY <3>1, <3>2
  <2> HIDE DEF loaded
  <2>2. LexerOK(seen) /\ Loaded(seen)
    <3>1. CASE loaded.lookahead_size = 0 BY <2>1, <3>1, GetLookaheadOK
    <3>2. CASE loaded.lookahead_size # 0
      <4>1. loaded.lookahead_size > 0 BY <2>1, <3>2 DEF LexerOK, LexerType
      <4>2. QED BY <2>1, <3>2, <4>1 DEF Loaded
    <3>3. QED BY <3>1, <3>2
  <2> HIDE DEF seen
  <2>3. LexerOK(past) /\ Loaded(past) BY <2>2, AdvanceOK
  <2> HIDE DEF past
  <2>4. past \in LexerType BY <2>3 DEF LexerOK
  <2>5. /\ zero \in LexerType /\ zero.input = past.input
        /\ zero.included_ranges = past.included_ranges
        /\ zero.current_included_range_index = past.current_included_range_index
        /\ zero.current_position = past.current_position
        /\ zero.chunk_start = past.chunk_start /\ zero.chunk_size = past.chunk_size
        /\ zero.lookahead = past.lookahead /\ zero.lookahead_size = past.lookahead_size
    BY <2>4 DEF LexerType, ColumnData
  <2> HIDE DEF zero
  <2>6. LexerOK(zero) /\ Loaded(zero) BY <2>3, <2>5, UnmovedOK DEF Loaded
  <2>7. QED BY <1>4, <1>7, <2>2, <2>6 DEF t
<1>8. QED BY <1>6, <1>7

\* ts_lexer_set_input forgets the chunk of the previous text.
LEMMA SetInputOK ==
  ASSUME NEW s, LexerOK(s), NEW input \in TSInput
  PROVE  LexerOK(ts_lexer_set_input(s, input))
<1> DEFINE given == [s EXCEPT !.input = input]
           clear == ts_lexer__clear_chunk(given)
<1>1. s \in LexerType /\ Len(s.included_ranges) > 0 /\ RangesAccepted(s.included_ranges)
  BY DEF LexerOK
<1>2. given \in LexerType /\ given.included_ranges = s.included_ranges
  BY <1>1 DEF LexerType
<1>3. clear = [given EXCEPT !.chunk_size = 0, !.chunk_start = 0]
  BY DEF ts_lexer__clear_chunk
<1> HIDE DEF given, clear
<1>4. /\ clear \in LexerType /\ clear.included_ranges = s.included_ranges
      /\ clear.chunk_size = 0
  BY <1>2, <1>3 DEF LexerType
<1>5. ChunkInText(clear) BY <1>4 DEF ChunkInText, HasChunk
<1>6. s.current_position \in Length BY <1>1 DEF LexerType
<1>7. QED
  BY <1>1, <1>4, <1>5, <1>6, GotoOK DEF ts_lexer_set_input, given, clear

\* ts_lexer_set_included_ranges moves the cursor into the new ranges, or
\* rejects them and changes nothing.
LEMMA SetIncludedRangesOK ==
  ASSUME NEW s, LexerOK(s), NEW ranges \in Seq(TSRange)
  PROVE  LexerOK(ts_lexer_set_included_ranges(s, ranges))
<1> DEFINE rs    == IF ranges = <<>> THEN <<DEFAULT_RANGE>> ELSE ranges
           given == [s EXCEPT !.included_ranges = rs]
<1>1. s \in LexerType /\ ChunkInText(s) BY DEF LexerOK
<1>2. DEFAULT_RANGE \in TSRange BY UInt32Assumption DEF DEFAULT_RANGE, TSRange, TSPoint
<1>3. rs \in Seq(TSRange) /\ Len(rs) > 0 BY <1>2
<1> HIDE DEF rs
<1>4. /\ given \in LexerType /\ given.included_ranges = rs /\ given.input = s.input
      /\ given.chunk_start = s.chunk_start /\ given.chunk_size = s.chunk_size
  BY <1>1, <1>3 DEF LexerType
<1>5. ChunkInText(given) BY <1>1, <1>4 DEF ChunkInText, HasChunk
<1>6. s.current_position \in Length BY <1>1 DEF LexerType
<1> HIDE DEF given
<1>7. RangesAccepted(rs) => LexerOK(ts_lexer_goto(given, s.current_position))
  BY <1>3, <1>4, <1>5, <1>6, GotoOK
<1>8. \/ ts_lexer_set_included_ranges(s, ranges) = s
      \/ /\ RangesAccepted(rs)
         /\ ts_lexer_set_included_ranges(s, ranges) = ts_lexer_goto(given, s.current_position)
  BY Zenon DEF ts_lexer_set_included_ranges, rs, given
<1>9. QED BY <1>7, <1>8

-----------------------------------------------------------------------------
(* The specification.                                                      *)

\* length_add and length_sub (length.h) of two positions are positions.
LEMMA LengthArithmetic ==
  ASSUME NEW a \in Length, NEW b \in Length
  PROVE  length_add(a, b) \in Length /\ length_sub(a, b) \in Length
<1>1. a.bytes \in Nat /\ a.extent \in TSPoint /\ b.bytes \in Nat /\ b.extent \in TSPoint
  BY DEF Length
<1>2. point_add(a.extent, b.extent) \in TSPoint /\ point_sub(a.extent, b.extent) \in TSPoint
  BY <1>1 DEF TSPoint, point_add, point_sub
<1>3. QED BY <1>1, <1>2 DEF Length, length_add, length_sub

\* The inductive invariant.
IInv ==
  /\ TypeOK
  /\ LexerOK(lexer)
  /\ ChunkLoaded

\* The initial values of the local variables of ts_parser__lex have their types.
LEMMA ConstantsOK ==
  /\ length_zero \in Length
  /\ NoCall \in CallType
  /\ NoLeaf \in LeafType
<1>1. length_zero \in Length BY DEF length_zero, Length, TSPoint
<1>2. NoColumn \in ColumnData BY DEF NoColumn, ColumnData
<1>3. NoCall \in CallType BY <1>1, <1>2 DEF NoCall, CallType
<1>4. NoLeaf \in LeafType BY <1>1 DEF NoLeaf, LeafType
<1>5. QED BY <1>1, <1>3, <1>4

\* ts_lexer_init: before any input the lexer is at the start of DEFAULT_RANGE.
LEMMA InitOK == LexerOK(ts_lexer_init)
<1> DEFINE s == ts_lexer_init
<1>1. DEFAULT_RANGE \in TSRange BY UInt32Assumption DEF DEFAULT_RANGE, TSRange, TSPoint
<1>2. [text |-> <<>>, read |-> <<>>] \in TSInput BY DEF TSInput
<1>3. NoColumn \in ColumnData BY DEF NoColumn, ColumnData
<1>4. s \in LexerType
  BY <1>1, <1>2, <1>3, ConstantsOK, LookaheadValues DEF ts_lexer_init, LexerType
<1>5. /\ s.included_ranges = <<DEFAULT_RANGE>> /\ s.current_included_range_index = 1
      /\ s.current_position.bytes = 0 /\ s.chunk_size = 0 /\ s.lookahead = "nul"
  BY DEF ts_lexer_init, length_zero
<1>6. CursorInRange(s)
  BY <1>5, UInt32Assumption DEF CursorInRange, CurrentRange, DEFAULT_RANGE
<1>7. RangesAccepted(<<DEFAULT_RANGE>>)
  BY UInt32Assumption DEF RangesAccepted, DEFAULT_RANGE
<1>8. QED
  BY <1>4, <1>5, <1>6, <1>7 DEF LexerOK, ChunkInText, ChunkHere, BomWide, HasChunk

\* The lexer that ts_lexer_init builds satisfies the inductive invariant.
THEOREM InitIInv == Init => IInv
<1> SUFFICES ASSUME Init PROVE IInv OBVIOUS
<1>1. lexer = ts_lexer_init /\ LexerOK(lexer) BY InitOK DEF Init
<1>2. lexer \in LexerType BY <1>1 DEF LexerOK
<1>3. TypeOK BY <1>2, ConstantsOK DEF Init, TypeOK, Control
<1>4. ChunkLoaded BY DEF Init, ChunkLoaded, Lexing
<1>5. QED BY <1>1, <1>3, <1>4 DEF IInv

\* Attempt preserves the invariant when the lexer and the call it is given do.
LEMMA AttemptOK ==
  ASSUME NEW s, LexerOK(s), NEW c \in CallType, NEW external \in BOOLEAN,
         Attempt(s, c, external)
  PROVE  LexerOK(lexer') /\ lexer' \in LexerType /\ pc' = "ready" /\ call' \in CallType
<1>1. s \in LexerType BY DEF LexerOK
<1>2. s.current_position \in Length /\ s.column_data \in ColumnData BY <1>1 DEF LexerType
<1>3. QED BY <1>1, <1>2 DEF Attempt, CallType

\* So does Return.
LEMMA ReturnOK ==
  ASSUME IInv, NEW token, LexerOK(token), NEW start \in Length, NEW end \in Length,
         Return(token, start, end)
  PROVE  /\ LexerOK(lexer') /\ lexer' \in LexerType /\ lexer' = token
         /\ positions' \subseteq Length /\ call' \in CallType /\ leaf' \in LeafType
<1> DEFINE padding == length_sub(start, call.start_position)
           size    == length_sub(end, start)
           next    == length_add(length_add(call.start_position, padding), size)
<1>1. call.start_position \in Length BY DEF IInv, TypeOK, CallType
<1>2. padding \in Length /\ size \in Length BY <1>1, LengthArithmetic
<1>3. next \in Length
  <2> HIDE DEF padding, size
  <2>1. length_add(call.start_position, padding) \in Length BY <1>1, <1>2, LengthArithmetic
  <2>2. QED BY <1>2, <2>1, LengthArithmetic
<1>4. LookaheadEnd \in Nat
  <2>1. lexer.current_position.bytes \in Nat /\ call.lookahead_end_byte \in Nat
    BY DEF IInv, TypeOK, LexerType, CallType, Length
  <2>2. QED BY <2>1 DEF LookaheadEnd, FinishLookaheadEnd
<1>5. leaf' = [start_position |-> call.start_position, padding |-> padding,
               size |-> size, lookahead_end_byte |-> LookaheadEnd]
  BY DEF Return
<1>6. \E others \in SUBSET positions : positions' = others \union {next}
  BY DEF Return
<1>7. lexer' = token /\ call' = NoCall BY DEF Return
<1> HIDE DEF next, size, padding
<1>8. leaf' \in LeafType BY <1>1, <1>2, <1>4, <1>5 DEF LeafType
<1>9. positions' \subseteq Length BY <1>3, <1>6 DEF IInv, TypeOK
<1>10. QED BY <1>7, <1>8, <1>9, ConstantsOK DEF LexerOK

\* The history variable stays a natural number.
LEMMA ExamineOK ==
  ASSUME IInv, NEW s, LexerOK(s), Examine(s)
  PROVE  examined' \in Nat
<1>1. s.current_position.bytes \in Nat BY DEF LexerOK, LexerType, Length
<1>2. \A kind : Width(kind) \in Nat BY DEF Width
<1>3. LookaheadReach(s) \in Nat
  <2> DEFINE b   == s.current_position.bytes
             w   == Width(s.input.text[b + 1])
             cut == w = 3 /\ ~(b + 2 <= Len(s.input.text) /\ s.input.text[b + 2] = "cont")
  <2>1. w \in Nat BY <1>2
  <2>2. LookaheadReach(s) = IF s.lookahead # "error" THEN b + 1 ELSE IF cut THEN b + 2 ELSE b + w
    BY DEF LookaheadReach
  <2> HIDE DEF w, cut
  <2>3. QED BY <1>1, <2>1, <2>2
<1>4. examined \in Nat BY DEF IInv, TypeOK
<1>5. QED BY <1>3, <1>4 DEF Examine

\* The lexer that the actions that end an attempt start from, and the bytes
\* they record.
LEMMA FinishedOK ==
  ASSUME IInv, pc = "scan"
  PROVE  /\ LexerOK(Finished) /\ Loaded(Finished)
         /\ Finished.token_start_position \in Length
         /\ Finished.token_end_position \in Length
         /\ LookaheadEnd \in Nat
<1>1. LexerOK(lexer) /\ Loaded(lexer) BY DEF IInv, ChunkLoaded, Lexing
<1>2. LexerOK(Finished) /\ Loaded(Finished) BY <1>1, FinishOK DEF Finished
<1>3. Finished \in LexerType BY <1>2 DEF LexerOK
<1>4. lexer.current_position.bytes \in Nat /\ call.lookahead_end_byte \in Nat
  BY DEF IInv, TypeOK, LexerType, CallType, Length
<1>5. LookaheadEnd \in Nat BY <1>4 DEF LookaheadEnd, FinishLookaheadEnd
<1>6. QED BY <1>2, <1>3, <1>5 DEF LexerType

\* Every step of the parser, the lexer and the scanners preserves the
\* invariant.
THEOREM NextIInv == IInv /\ [Next]_vars => IInv'
<1> SUFFICES ASSUME IInv, [Next]_vars PROVE IInv' OBVIOUS
<1> USE DEF IInv
<1>1. LexerOK(lexer) /\ lexer \in LexerType BY DEF TypeOK
<1>2. ASSUME NEW in \in Inputs, BeginParse(in) PROVE IInv'
  <2>1. in.input \in TSInput /\ in.ranges \in Seq(TSRange) BY InputsAssumption
  <2>2. LexerOK(lexer')
    BY <1>1, <1>2, <2>1, SetIncludedRangesOK, SetInputOK DEF BeginParse
  <2>3. TypeOK' BY <1>2, <2>2, ConstantsOK DEF BeginParse, TypeOK, Control, LexerOK
  <2>4. ChunkLoaded' BY <1>2 DEF BeginParse, ChunkLoaded, Lexing
  <2>5. QED BY <2>2, <2>3, <2>4
<1>3. CASE ResumeParse
  <2>1. lexer.input \in TSInput BY <1>1 DEF LexerType
  <2>2. LexerOK(lexer') BY <1>1, <1>3, <2>1, SetInputOK DEF ResumeParse
  <2>3. TypeOK' BY <1>3, <2>2 DEF ResumeParse, TypeOK, LexerOK
  <2>4. ChunkLoaded' BY <1>3 DEF ResumeParse, ChunkLoaded, Lexing
  <2>5. QED BY <2>2, <2>3, <2>4
<1>4. CASE EndParse
  <2>1. LexerOK(lexer') BY <1>1, <1>4, ConstantsOK, ResetOK DEF EndParse
  <2>2. TypeOK' BY <1>4, <2>1, ConstantsOK DEF EndParse, TypeOK, Control, LexerOK
  <2>3. ChunkLoaded' BY <1>4 DEF EndParse, ChunkLoaded, Lexing
  <2>4. QED BY <2>1, <2>2, <2>3
<1>5. ASSUME NEW start \in positions, NEW external \in BOOLEAN, NEW error_mode \in BOOLEAN,
             BeginLex(start, external, error_mode)
      PROVE  IInv'
  <2> DEFINE c == [NoCall EXCEPT !.start_position = start, !.error_mode = error_mode]
  <2>1. start \in Length BY DEF TypeOK
  <2>2. LexerOK(ts_lexer_reset(lexer, start)) BY <1>1, <2>1, ResetOK
  <2>3. c \in CallType BY <2>1, ConstantsOK DEF CallType
  <2>4. Attempt(ts_lexer_reset(lexer, start), c, external) BY <1>5 DEF BeginLex
  <2> HIDE DEF c
  <2>5. LexerOK(lexer') /\ lexer' \in LexerType /\ pc' = "ready" /\ call' \in CallType
    BY <2>2, <2>3, <2>4, AttemptOK
  <2>6. TypeOK' BY <1>5, <2>5 DEF BeginLex, TypeOK, Control
  <2>7. ChunkLoaded' BY <2>5 DEF ChunkLoaded, Lexing
  <2>8. QED BY <2>5, <2>6, <2>7
<1>6. CASE Start
  <2>1. LexerOK(lexer') /\ Loaded(lexer') BY <1>1, <1>6, StartOK DEF Start
  <2>2. examined' \in Nat
    <3>1. Examine(lexer') BY <1>6 DEF Start
    <3>2. QED BY <2>1, <3>1, ExamineOK
  <2>3. TypeOK' BY <1>6, <2>1, <2>2 DEF Start, TypeOK, Control, LexerOK
  <2>4. QED BY <2>1, <2>3 DEF ChunkLoaded
<1>7. ASSUME NEW skip \in BOOLEAN, NEW junk \in JunkEnds, Advance(skip, junk) PROVE IInv'
  <2>1. Loaded(lexer) BY <1>7 DEF Advance, ChunkLoaded, Lexing
  <2>2. junk \in Nat BY JunkAssumption
  <2>3. LexerOK(lexer') /\ Loaded(lexer') BY <1>1, <1>7, <2>1, <2>2, AdvanceOK DEF Advance
  <2>4. examined' \in Nat
    <3>1. Examine(lexer') \/ examined' = examined BY <1>7 DEF Advance
    <3>2. QED BY <2>3, <3>1, ExamineOK DEF TypeOK
  <2>5. TypeOK' BY <1>7, <2>3, <2>4 DEF Advance, TypeOK, LexerOK
  <2>6. QED BY <2>3, <2>5 DEF ChunkLoaded
<1>8. CASE MarkEnd
  <2>1. Loaded(lexer) BY <1>8 DEF MarkEnd, ChunkLoaded, Lexing
  <2>2. LexerOK(lexer') /\ Loaded(lexer') BY <1>1, <1>8, <2>1, MarkEndOK DEF MarkEnd
  <2>3. TypeOK' BY <1>8, <2>2 DEF MarkEnd, TypeOK, LexerOK
  <2>4. QED BY <2>2, <2>3 DEF ChunkLoaded
<1>9. CASE GetColumn
  <2> DEFINE base == IF lexer.column_data.valid THEN lexer ELSE GetColumnBackUp(lexer)
  <2>1. Loaded(lexer) BY <1>9 DEF GetColumn, ChunkLoaded, Lexing
  <2>2. LexerOK(base) /\ Loaded(base) BY <1>1, <2>1, BackUpOK
  <2>3. lexer' = [base EXCEPT !.did_get_column = TRUE] BY <1>9 DEF GetColumn
  <2> HIDE DEF base
  <2>4. base \in LexerType BY <2>2 DEF LexerOK
  <2>5. /\ lexer' \in LexerType /\ lexer'.input = base.input
        /\ lexer'.included_ranges = base.included_ranges
        /\ lexer'.current_included_range_index = base.current_included_range_index
        /\ lexer'.current_position = base.current_position
        /\ lexer'.chunk_start = base.chunk_start /\ lexer'.chunk_size = base.chunk_size
        /\ lexer'.lookahead = base.lookahead /\ lexer'.lookahead_size = base.lookahead_size
    BY <2>3, <2>4 DEF LexerType
  <2>6. LexerOK(lexer') /\ Loaded(lexer') BY <2>2, <2>5, UnmovedOK DEF Loaded
  <2>7. lexer.current_position.bytes \in Nat BY <1>1 DEF LexerType, Length
  <2>8. pc' \in Control /\ goal_byte' \in Nat
    BY <1>9, <2>7 DEF GetColumn, TypeOK, Control
  <2>9. TypeOK' BY <1>9, <2>5, <2>8 DEF GetColumn, TypeOK
  <2>10. QED BY <2>6, <2>9 DEF ChunkLoaded
<1>10. CASE GetColumnAdvance
  <2>1. LexerOK(lexer') /\ Loaded(lexer') BY <1>1, <1>10, DoAdvanceOK DEF GetColumnAdvance
  <2>2. TypeOK' BY <1>10, <2>1 DEF GetColumnAdvance, TypeOK, LexerOK
  <2>3. QED BY <2>1, <2>2 DEF ChunkLoaded
<1>11. CASE GetColumnReturn
  <2>1. Loaded(lexer) BY <1>11 DEF GetColumnReturn, ChunkLoaded, Lexing
  <2>2. TypeOK' BY <1>11 DEF GetColumnReturn, TypeOK, Control
  <2>3. LexerOK(lexer') /\ Loaded(lexer') BY <1>1, <1>11, <2>1 DEF GetColumnReturn
  <2>4. QED BY <2>2, <2>3 DEF ChunkLoaded
<1>12. CASE TokenFound
  <2>1. call.error_start_position \in Length /\ call.error_end_position \in Length
    BY DEF TypeOK, CallType
  <2>2. LexerOK(Finished) /\ Finished.token_start_position \in Length
        /\ Finished.token_end_position \in Length
    BY <1>12, FinishedOK DEF TokenFound
  <2>3. \E start, end \in Length : Return(Finished, start, end)
    BY <1>12, <2>1, <2>2 DEF TokenFound
  <2>4. /\ LexerOK(lexer') /\ lexer' \in LexerType
        /\ positions' \subseteq Length /\ call' \in CallType /\ leaf' \in LeafType
    BY <2>2, <2>3, ReturnOK
  <2>5. TypeOK' BY <1>12, <2>4 DEF TokenFound, TypeOK, Control
  <2>6. ChunkLoaded' BY <1>12 DEF TokenFound, ChunkLoaded, Lexing
  <2>7. QED BY <2>4, <2>5, <2>6
<1>13. CASE KeywordCandidate
  <2> DEFINE again == ts_lexer_start(ts_lexer_reset(Finished, Finished.token_start_position))
  <2>1. LexerOK(Finished) /\ Finished.token_start_position \in Length
        /\ Finished.token_end_position \in Length
    BY <1>13, FinishedOK DEF KeywordCandidate
  <2>2. LexerOK(again) /\ Loaded(again)
    BY <2>1, ResetOK, StartOK
  <2>3. Return(again, Finished.token_start_position, Finished.token_end_position)
    BY <1>13 DEF KeywordCandidate
  <2> HIDE DEF again
  <2>4. /\ LexerOK(lexer') /\ lexer' \in LexerType /\ lexer' = again
        /\ positions' \subseteq Length /\ call' \in CallType /\ leaf' \in LeafType
    BY <2>1, <2>2, <2>3, ReturnOK
  <2>5. TypeOK' BY <1>13, <2>4 DEF KeywordCandidate, TypeOK, Control
  <2>6. QED BY <2>2, <2>4, <2>5 DEF ChunkLoaded
<1>14. CASE KeywordReturn
  <2>1. TypeOK' BY <1>14 DEF KeywordReturn, TypeOK, Control
  <2>2. ChunkLoaded' BY <1>14 DEF KeywordReturn, ChunkLoaded, Lexing
  <2>3. QED BY <1>1, <1>14, <2>1, <2>2 DEF KeywordReturn
<1>15. CASE ExternalFails
  <2> DEFINE back == ts_lexer_reset(Finished, call.current_position)
  <2>1. call.current_position \in Length /\ call.column_data \in ColumnData
    BY DEF TypeOK, CallType
  <2>2. LexerOK(Finished) /\ LookaheadEnd \in Nat BY <1>15, FinishedOK DEF ExternalFails
  <2>3. LexerOK(back) BY <2>1, <2>2, ResetOK
  <2>4. lexer' = [back EXCEPT !.column_data = call.column_data] BY <1>15 DEF ExternalFails
  <2> HIDE DEF back
  <2>5. back \in LexerType BY <2>3 DEF LexerOK
  <2>6. /\ lexer' \in LexerType /\ lexer'.input = back.input
        /\ lexer'.included_ranges = back.included_ranges
        /\ lexer'.current_included_range_index = back.current_included_range_index
        /\ lexer'.current_position = back.current_position
        /\ lexer'.chunk_start = back.chunk_start /\ lexer'.chunk_size = back.chunk_size
        /\ lexer'.lookahead = back.lookahead /\ lexer'.lookahead_size = back.lookahead_size
    BY <2>1, <2>4, <2>5 DEF LexerType
  <2>7. LexerOK(lexer') BY <2>3, <2>6, UnmovedOK
  <2>8. call' \in CallType BY <1>15, <2>2 DEF ExternalFails, TypeOK, CallType
  <2>9. TypeOK' BY <1>15, <2>6, <2>8 DEF ExternalFails, TypeOK, Control
  <2>10. ChunkLoaded' BY <1>15 DEF ExternalFails, ChunkLoaded, Lexing
  <2>11. QED BY <2>7, <2>9, <2>10
<1>16. CASE ScannerError
  <2>1. TypeOK' BY <1>16, ConstantsOK DEF ScannerError, TypeOK, Control
  <2>2. ChunkLoaded' BY <1>16 DEF ScannerError, ChunkLoaded, Lexing
  <2>3. QED BY <1>1, <1>16, <2>1, <2>2 DEF ScannerError
<1>17. ASSUME NEW external \in BOOLEAN, RetryInErrorMode(external) PROVE IInv'
  <2> DEFINE c == [call EXCEPT !.error_mode = TRUE, !.lookahead_end_byte = LookaheadEnd]
             s == ts_lexer_reset(Finished, call.start_position)
  <2>1. call.start_position \in Length BY DEF TypeOK, CallType
  <2>2. LexerOK(Finished) /\ LookaheadEnd \in Nat BY <1>17, FinishedOK DEF RetryInErrorMode
  <2>3. LexerOK(s) BY <2>1, <2>2, ResetOK
  <2>4. c \in CallType BY <2>2 DEF TypeOK, CallType
  <2>5. Attempt(s, c, external) BY <1>17 DEF RetryInErrorMode
  <2> HIDE DEF s, c
  <2>6. LexerOK(lexer') /\ lexer' \in LexerType /\ pc' = "ready" /\ call' \in CallType
    BY <2>3, <2>4, <2>5, AttemptOK
  <2>7. TypeOK' BY <1>17, <2>6 DEF RetryInErrorMode, TypeOK, Control
  <2>8. ChunkLoaded' BY <2>6 DEF ChunkLoaded, Lexing
  <2>9. QED BY <2>6, <2>7, <2>8
<1>18. ASSUME NEW external \in BOOLEAN, NEW junk \in JunkEnds, SkipUnrecognized(external, junk)
       PROVE  IInv'
  <2> DEFINE next == IF Stuck THEN ts_lexer__advance(Finished, FALSE, junk) ELSE Finished
             c    == [call EXCEPT !.skipped_error = TRUE,
                                  !.error_start_position = ErrorStart,
                                  !.error_end_position = next.current_position,
                                  !.lookahead_end_byte = LookaheadEnd]
  <2>1. LexerOK(Finished) /\ Loaded(Finished) /\ LookaheadEnd \in Nat
        /\ Finished.token_start_position \in Length
    BY <1>18, FinishedOK DEF SkipUnrecognized
  <2>2. junk \in Nat BY JunkAssumption
  <2>3. LexerOK(next) BY <2>1, <2>2, AdvanceOK
  <2>4. next.current_position \in Length BY <2>3 DEF LexerOK, LexerType
  <2>5. ErrorStart \in Length BY <2>1 DEF ErrorStart, TypeOK, CallType
  <2>6. Attempt(next, c, external) /\ Examine(next) BY <1>18 DEF SkipUnrecognized
  <2> HIDE DEF next
  <2>7. c \in CallType BY <2>1, <2>4, <2>5 DEF TypeOK, CallType
  <2> HIDE DEF c
  <2>8. LexerOK(lexer') /\ lexer' \in LexerType /\ pc' = "ready" /\ call' \in CallType
    BY <2>3, <2>6, <2>7, AttemptOK
  <2>9. examined' \in Nat BY <2>3, <2>6, ExamineOK
  <2>10. TypeOK' BY <1>18, <2>8, <2>9 DEF SkipUnrecognized, TypeOK, Control
  <2>11. ChunkLoaded' BY <2>8 DEF ChunkLoaded, Lexing
  <2>12. QED BY <2>8, <2>10, <2>11
<1>19. CASE GiveUpAtEof
  <2>1. LexerOK(Finished) /\ Finished.token_start_position \in Length
    BY <1>19, FinishedOK DEF GiveUpAtEof
  <2>2. ErrorStart \in Length /\ ErrorEnd \in Length
    BY <2>1 DEF ErrorStart, ErrorEnd, TypeOK, CallType
  <2>3. Return(Finished, ErrorStart, ErrorEnd) BY <1>19 DEF GiveUpAtEof
  <2>4. /\ LexerOK(lexer') /\ lexer' \in LexerType
        /\ positions' \subseteq Length /\ call' \in CallType /\ leaf' \in LeafType
    BY <2>1, <2>2, <2>3, ReturnOK
  <2>5. TypeOK' BY <1>19, <2>4 DEF GiveUpAtEof, TypeOK, Control
  <2>6. ChunkLoaded' BY <1>19 DEF GiveUpAtEof, ChunkLoaded, Lexing
  <2>7. QED BY <2>4, <2>5, <2>6
<1>20. ASSUME NEW position \in positions, PlaceMissing(position) PROVE IInv'
  <2> DEFINE s    == ts_lexer__mark_end(ts_lexer_reset(lexer, position))
             next == length_add(position, length_sub(s.token_end_position, position))
  <2>1. position \in Length BY DEF TypeOK
  <2>2. LexerOK(s) BY <1>1, <2>1, ResetOK, MarkEndOK
  <2>3. lexer' = s /\ \E others \in SUBSET positions : positions' = others \union {next}
    BY <1>20 DEF PlaceMissing
  <2> HIDE DEF s
  <2>4. s.token_end_position \in Length BY <2>2 DEF LexerOK, LexerType
  <2>5. length_sub(s.token_end_position, position) \in Length BY <2>1, <2>4, LengthArithmetic
  <2>6. next \in Length BY <2>1, <2>5, LengthArithmetic
  <2> HIDE DEF next
  <2>7. positions' \subseteq Length BY <2>3, <2>6 DEF TypeOK
  <2>8. TypeOK' BY <1>20, <2>2, <2>3, <2>7 DEF PlaceMissing, TypeOK, LexerOK
  <2>9. ChunkLoaded' BY <1>20 DEF PlaceMissing, ChunkLoaded, Lexing
  <2>10. QED BY <2>2, <2>3, <2>8, <2>9
<1>21. CASE UNCHANGED vars
  BY <1>21 DEF vars, TypeOK, ChunkLoaded, Lexing
<1>22. QED
  BY <1>2, <1>3, <1>4, <1>5, <1>6, <1>7, <1>8, <1>9, <1>10, <1>11, <1>12, <1>13, <1>14,
     <1>15, <1>16, <1>17, <1>18, <1>19, <1>20, <1>21
  DEF Next, ScannerReturns

\* Whatever the document, the included ranges, the read callback and the
\* scanners do: the variables have their types ...
THEOREM LexTypeCorrect == Spec => []TypeOK
<1>1. IInv => TypeOK BY DEF IInv
<1>2. QED BY InitIInv, NextIInv, <1>1, PTL DEF Spec

\* ... the cursor is inside the range that its index names ...
THEOREM LexInRange == Spec => []InRange
<1>1. IInv => InRange BY DEF IInv, LexerOK, InRange
<1>2. QED BY InitIInv, NextIInv, <1>1, PTL DEF Spec

\* ... the chunk spans the cursor, as ts_lexer__get_lookahead assumes ...
THEOREM LexChunkSpans == Spec => []ChunkSpans
<1>1. IInv => ChunkSpans BY DEF IInv, LexerOK, ChunkSpans, ChunkHere, ChunkAtCursor
<1>2. QED BY InitIInv, NextIInv, <1>1, PTL DEF Spec

\* ... and a scanner that is not at end of file can advance.
THEOREM LexChunkLoaded == Spec => []ChunkLoaded
<1>1. IInv => ChunkLoaded BY DEF IInv
<1>2. QED BY InitIInv, NextIInv, <1>1, PTL DEF Spec

\* Before the end of the file ts_lexer__advance moves forward, whatever range
\* or chunk it enters, so that a scanner's loop ends.
THEOREM LexAdvanceProgress == Spec => AdvanceProgress
<1>1. IInv /\ [Next]_vars => [AdvanceMoves]_vars
  <2> SUFFICES ASSUME IInv, NEW skip \in BOOLEAN, NEW junk \in JunkEnds,
                      Advance(skip, junk), ~ts_lexer__eof(lexer)
               PROVE  lexer'.current_position.bytes > lexer.current_position.bytes
    BY DEF AdvanceMoves
  <2>1. LexerOK(lexer) /\ Loaded(lexer) /\ lexer' = ts_lexer__advance(lexer, skip, junk)
    BY DEF IInv, Advance, ChunkLoaded, Lexing
  <2>2. junk \in Nat BY JunkAssumption
  <2>3. QED BY <2>1, <2>2, AdvanceOK
<1>2. QED BY InitIInv, NextIInv, <1>1, PTL DEF Spec, AdvanceProgress

\* The fast path of ts_lexer__advance does what ts_lexer__do_advance would, for
\* every document, every cut into chunks and every sequence of ranges.
THEOREM LexFastPathAgrees == Spec => []FastPathAgrees
<1>1. IInv => FastPathAgrees
  <2> SUFFICES ASSUME IInv, HasChunk(lexer), NEW junk \in JunkEnds, NEW skip \in BOOLEAN,
                      FastPath(lexer, junk)
               PROVE  FastAdvance(lexer, skip) = ts_lexer__do_advance(lexer, skip, junk)
    BY DEF FastPathAgrees
  <2>1. LexerOK(lexer) BY DEF IInv
  <2>2. ~ts_lexer__eof(lexer) => CurrentRange(lexer) \in TSRange
    BY <2>1 DEF LexerOK, LexerType, CursorInRange, CurrentRange
  <2>3. junk \in Nat BY JunkAssumption
  <2>4. QED BY <2>1, <2>2, <2>3, FastPathSame
<1>2. QED BY InitIInv, NextIInv, <1>1, PTL DEF Spec

\* All of it together: what scanners and parser rely on when they use the cursor.
THEOREM LexCursorSound == Spec => []CursorSound
<1>1. InRange /\ ChunkSpans /\ ChunkLoaded /\ FastPathAgrees => CursorSound BY DEF CursorSound
<1>2. QED BY LexInRange, LexChunkSpans, LexChunkLoaded, LexFastPathAgrees, <1>1, PTL
=============================================================================
