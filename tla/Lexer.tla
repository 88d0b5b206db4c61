------------------------------- MODULE Lexer -------------------------------
(***************************************************************************)
(* The incremental lexer of the runtime (lib/src/lexer.c): a cursor over   *)
(* the included ranges of a document whose text arrives in chunks.         *)
(*                                                                         *)
(* Every function of lexer.c is an operator from a Lexer record to a Lexer *)
(* record; module Lex runs them as ts_parser__lex does.  Range indices are *)
(* 1-based, so the end-of-file index is Len(included_ranges) + 1.  A       *)
(* document is a sequence of byte kinds: what the lexer tells apart is the *)
(* width of a character, newlines, the byte order mark and malformed text. *)
(***************************************************************************)
EXTENDS Integers, Sequences

CONSTANT UINT32_MAX       \* the end of DEFAULT_RANGE, past every document

ASSUME UInt32Assumption == UINT32_MAX \in Nat \ {0}

-----------------------------------------------------------------------------
(* Documents and positions.                                                *)

TSPoint == [row : Nat, column : Nat]

Length == [bytes : Nat, extent : TSPoint]

TSRange == [start_byte : Nat, end_byte : Nat,
            start_point : TSPoint, end_point : TSPoint]

\* "x" is any other ASCII byte, "wide" and "bom" are the lead bytes of a two
\* byte character and of the byte order mark, "cont" is a continuation byte.
ByteKind == {"x", "nl", "wide", "bom", "cont"}

Ascii == {"x", "nl"}

Codepoint == ByteKind \union {"nul", "error"}

Width(kind) == CASE kind = "wide" -> 2 [] kind = "bom" -> 3 [] OTHER -> 1

length_zero == [bytes |-> 0, extent |-> [row |-> 0, column |-> 0]]

LENGTH_UNDEFINED == [bytes |-> 0, extent |-> [row |-> 0, column |-> 1]]

length_is_undefined(l) == l.bytes = 0 /\ l.extent.column # 0

DEFAULT_RANGE ==
  [start_byte  |-> 0, end_byte |-> UINT32_MAX,
   start_point |-> [row |-> 0, column |-> 0],
   end_point   |-> [row |-> UINT32_MAX, column |-> UINT32_MAX]]

point_add(a, b) ==
  IF b.row > 0 THEN [row |-> a.row + b.row, column |-> b.column]
               ELSE [row |-> a.row, column |-> a.column + b.column]

point_sub(a, b) ==
  IF a.row > b.row
    THEN [row |-> a.row - b.row, column |-> a.column]
    ELSE [row |-> 0,
          column |-> IF a.column >= b.column THEN a.column - b.column ELSE 0]

length_add(a, b) ==
  [bytes |-> a.bytes + b.bytes, extent |-> point_add(a.extent, b.extent)]

length_sub(a, b) ==
  [bytes  |-> IF a.bytes >= b.bytes THEN a.bytes - b.bytes ELSE 0,
   extent |-> point_sub(a.extent, b.extent)]

\* The TSInput of a parse: the text, and how many bytes the read callback
\* returns when it is asked for the text at a byte.  The callback returns
\* nothing exactly at and after the end of the text.
TSInput ==
  {input \in [text : Seq(ByteKind), read : Seq(Nat)] :
     /\ Len(input.read) = Len(input.text)
     /\ \A i \in 1 .. Len(input.text) : input.read[i] \in 1 .. (Len(input.text) - i + 1)}

\* ts_decode_utf8 on the avail bytes at byte b (lib/src/unicode.h and the
\* decoders it wraps): a whole character, or TS_DECODE_ERROR.
decode(text, b, avail) ==
  LET kind  == text[b + 1]
      whole == /\ kind # "cont"
               /\ Width(kind) <= avail
               /\ \A i \in 1 .. (Width(kind) - 1) : text[b + 1 + i] = "cont"
  IN  IF whole THEN [lookahead |-> kind, lookahead_size |-> Width(kind)]
               ELSE [lookahead |-> "error", lookahead_size |-> 1]

-----------------------------------------------------------------------------
(* The Lexer struct.  chunk is NULL exactly when chunk_size is 0.          *)

ColumnData == [valid : BOOLEAN, value : Nat]

NoColumn == [valid |-> FALSE, value |-> 0]

EofIndex(s) == Len(s.included_ranges) + 1

ts_lexer__eof(s) == s.current_included_range_index = EofIndex(s)

HasChunk(s) == s.chunk_size > 0

InChunk(s, b) == s.chunk_start <= b /\ b < s.chunk_start + s.chunk_size

CurrentRange(s) == s.included_ranges[s.current_included_range_index]

NonEmpty(range) == range.start_byte < range.end_byte

Least(S) == CHOOSE i \in S : \A j \in S : i <= j

ts_lexer__increment_column_data(column) ==
  IF column.valid THEN [column EXCEPT !.value = @ + 1] ELSE column

ts_lexer__clear_chunk(s) == [s EXCEPT !.chunk_size = 0, !.chunk_start = 0]

ts_lexer__get_chunk(s) ==
  LET b    == s.current_position.bytes
      size == IF b < Len(s.input.text) THEN s.input.read[b + 1] ELSE 0
  IN  [s EXCEPT !.chunk_start = b,
                !.chunk_size  = size,
                !.current_included_range_index =
                   IF size = 0 THEN EofIndex(s) ELSE @]

\* Mutant: a character cut off by the end of the chunk is not decoded again.
ts_lexer__get_lookahead_Once(s) ==
  LET b    == s.current_position.bytes
      size == s.chunk_size - (b - s.chunk_start)
      char == decode(s.input.text, b, size)
  IN  IF size = 0
        THEN [s EXCEPT !.lookahead = "nul", !.lookahead_size = 1]
        ELSE [s EXCEPT !.lookahead = char.lookahead,
                       !.lookahead_size = char.lookahead_size]

ts_lexer__get_lookahead(s) ==
  LET b     == s.current_position.bytes
      size  == s.chunk_size - (b - s.chunk_start)
      first == decode(s.input.text, b, size)
      again == first.lookahead = "error" /\ size < 4
      fresh == IF again THEN ts_lexer__get_chunk(s) ELSE s
      char  == IF again THEN decode(s.input.text, b, fresh.chunk_size) ELSE first
  IN  IF size = 0
        THEN [s EXCEPT !.lookahead = "nul", !.lookahead_size = 1]
        ELSE [fresh EXCEPT !.lookahead = char.lookahead,
                           !.lookahead_size = char.lookahead_size]

\* Mutant: an empty range is entered.
HoldsTextAfter_Empty(range, b) == range.end_byte >= b

\* The range has text at or after byte b.
HoldsTextAfter(range, b) == range.end_byte > b /\ NonEmpty(range)

\* The column data is of no use at another position.
ColumnAfterGoto(s, position) ==
  IF position.bytes # s.current_position.bytes THEN NoColumn ELSE s.column_data

\* The chunk serves the position that ts_lexer_goto moves to.
ChunkKept(s, b) == InChunk(s, b)

\* Move to the first valid position at or after the given position.
ts_lexer_goto(s, position) ==
  LET ranges == s.included_ranges
      found  == {i \in 1 .. Len(ranges) : HoldsTextAfter(ranges[i], position.bytes)}
      i      == Least(found)
      last   == ranges[Len(ranges)]
      column == ColumnAfterGoto(s, position)
      target == IF ranges[i].start_byte >= position.bytes
                  THEN [bytes |-> ranges[i].start_byte, extent |-> ranges[i].start_point]
                  ELSE position
      keep   == ChunkKept(s, target.bytes)
  IN  IF found # {}
        THEN [s EXCEPT !.column_data = column,
                       !.current_position = target,
                       !.current_included_range_index = i,
                       !.chunk_start = IF keep \/ ~HasChunk(s) THEN @ ELSE 0,
                       !.chunk_size = IF keep THEN @ ELSE 0,
                       !.lookahead = "nul",
                       !.lookahead_size = 0]
        ELSE [s EXCEPT !.column_data = column,
                       !.current_position = [bytes |-> last.end_byte,
                                             extent |-> last.end_point],
                       !.current_included_range_index = EofIndex(s),
                       !.chunk_start = 0,
                       !.chunk_size = 0,
                       !.lookahead = "nul",
                       !.lookahead_size = 1]

\* The row and the column in bytes after the lookahead.
ExtentAfter(s) ==
  LET at == s.current_position.extent
  IN  IF s.lookahead = "nl" THEN [row |-> at.row + 1, column |-> 0]
                            ELSE [row |-> at.row, column |-> at.column + s.lookahead_size]

\* Consume the lookahead: the first part of ts_lexer__do_advance.
ConsumeLookahead(s) ==
  LET b    == s.current_position.bytes
      next == [bytes |-> b + s.lookahead_size, extent |-> ExtentAfter(s)]
      bom  == b = 0 /\ s.lookahead = "bom"
  IN  IF s.lookahead_size = 0
        THEN s
        ELSE [s EXCEPT !.current_position = next,
                       !.column_data =
                          IF s.lookahead = "nl" THEN [valid |-> TRUE, value |-> 0]
                          ELSE IF bom THEN @
                          ELSE ts_lexer__increment_column_data(@)]

\* The range the next position is in.  At end of file the code reads
\* included_ranges[included_range_count], one element past the array: junk is
\* the end byte it finds there.
CurrentRangeEnd(s, junk) ==
  IF ts_lexer__eof(s) THEN junk ELSE CurrentRange(s).end_byte

\* Leave an exhausted range for the next one that is not empty: the loop of
\* ts_lexer__do_advance.  Entering a range at its start leaves it again only
\* if it is empty, so the loop stops at the first range that is not.
LeaveRange(s) ==
  LET ranges == s.included_ranges
      n      == Len(ranges)
      cur    == s.current_included_range_index
      later  == {j \in (cur + 1) .. n : NonEmpty(ranges[j])}
      j      == Least(later)
      at(k)  == [bytes |-> ranges[k].start_byte, extent |-> ranges[k].start_point]
  IN  IF later # {}
        THEN [s EXCEPT !.current_included_range_index = j,
                       !.current_position = at(j)]
        ELSE [s EXCEPT !.current_included_range_index = n + 1,
                       !.current_position = IF cur < n THEN at(n) ELSE @]

ts_lexer__do_advance(s, skip, junk) ==
  LET moved    == ConsumeLookahead(s)
      leaving  == \/ moved.current_position.bytes >= CurrentRangeEnd(s, junk)
                  \/ ~ts_lexer__eof(s) /\ ~NonEmpty(CurrentRange(s))
      there    == IF leaving THEN LeaveRange(moved) ELSE moved
      marked   == IF skip
                    THEN [there EXCEPT !.token_start_position = there.current_position]
                    ELSE there
      loaded   == IF InChunk(marked, marked.current_position.bytes)
                    THEN marked ELSE ts_lexer__get_chunk(marked)
  IN  IF leaving /\ ts_lexer__eof(there)
        THEN [ts_lexer__clear_chunk(marked) EXCEPT !.lookahead = "nul",
                                                   !.lookahead_size = 1]
        ELSE ts_lexer__get_lookahead(loaded)

\* The next byte is ASCII and in the same range and chunk.
FastPath(s, junk) ==
  LET next == s.current_position.bytes + 1
  IN  /\ s.lookahead_size = 1
      /\ s.lookahead # "nl"
      /\ next < CurrentRangeEnd(s, junk)
      /\ next < s.chunk_start + s.chunk_size
      /\ s.input.text[next + 1] \in Ascii

FastAdvance(s, skip) ==
  LET pos  == s.current_position
      next == [bytes |-> pos.bytes + 1,
               extent |-> [row |-> pos.extent.row, column |-> pos.extent.column + 1]]
  IN  [s EXCEPT !.column_data = ts_lexer__increment_column_data(@),
                !.current_position = next,
                !.token_start_position = IF skip THEN next ELSE @,
                !.lookahead = s.input.text[next.bytes + 1]]

ts_lexer__advance(s, skip, junk) ==
  IF ~HasChunk(s) THEN s
  ELSE IF FastPath(s, junk) THEN FastAdvance(s, skip)
  ELSE ts_lexer__do_advance(s, skip, junk)

\* A token that ends where a range begins ends where the previous range ends.
ts_lexer__mark_end(s) ==
  LET i    == s.current_included_range_index
      prev == s.included_ranges[i - 1]
      back == /\ ~ts_lexer__eof(s)
              /\ i > 1
              /\ s.current_position.bytes = CurrentRange(s).start_byte
  IN  [s EXCEPT !.token_end_position =
         IF back THEN [bytes |-> prev.end_byte, extent |-> prev.end_point]
                 ELSE s.current_position]

\* The value of an unsigned 32-bit difference.
UInt32(difference) == difference % (UINT32_MAX + 1)

\* ts_lexer__get_column up to its loop: back up to the beginning of the line.
GetColumnBackUp(s) ==
  LET pos  == s.current_position
      line == [bytes |-> UInt32(pos.bytes - pos.extent.column),
               extent |-> [row |-> pos.extent.row, column |-> 0]]
      back == ts_lexer__get_chunk(
                [ts_lexer_goto(s, line) EXCEPT
                   !.column_data = [valid |-> TRUE, value |-> 0]])
  IN  IF ts_lexer__eof(back) THEN back ELSE ts_lexer__get_lookahead(back)

\* The condition of the loop of ts_lexer__get_column.
GetColumnContinues(s, goal_byte) ==
  s.current_position.bytes < goal_byte /\ ~ts_lexer__eof(s) /\ HasChunk(s)

ts_lexer_init ==
  [input |-> [text |-> <<>>, read |-> <<>>],
   included_ranges |-> <<DEFAULT_RANGE>>,
   current_included_range_index |-> 1,
   current_position |-> length_zero,
   chunk_start |-> 0, chunk_size |-> 0,
   lookahead |-> "nul", lookahead_size |-> 0,
   column_data |-> NoColumn,
   did_get_column |-> FALSE,
   token_start_position |-> length_zero,
   token_end_position |-> length_zero]

ts_lexer_set_input(s, input) ==
  ts_lexer_goto(ts_lexer__clear_chunk([s EXCEPT !.input = input]), s.current_position)

ts_lexer_reset(s, position) ==
  IF position.bytes # s.current_position.bytes THEN ts_lexer_goto(s, position) ELSE s

ts_lexer_start(s) ==
  LET begun  == [s EXCEPT !.token_start_position = s.current_position,
                          !.token_end_position = LENGTH_UNDEFINED,
                          !.did_get_column = FALSE]
      loaded == IF HasChunk(begun) THEN begun ELSE ts_lexer__get_chunk(begun)
      seen   == IF loaded.lookahead_size = 0 THEN ts_lexer__get_lookahead(loaded)
                                             ELSE loaded
      past   == IF seen.lookahead = "bom" THEN ts_lexer__advance(seen, TRUE, 0) ELSE seen
  IN  IF ts_lexer__eof(begun) THEN begun
      ELSE IF seen.current_position.bytes # 0 THEN seen
      ELSE [past EXCEPT !.column_data = [valid |-> TRUE, value |-> 0]]

ts_lexer_finish(s) ==
  LET ended == IF length_is_undefined(s.token_end_position)
                 THEN ts_lexer__mark_end(s) ELSE s
  IN  IF ended.token_end_position.bytes < ended.token_start_position.bytes
        THEN [ended EXCEPT !.token_start_position = ended.token_end_position]
        ELSE ended

\* Mutant: the last attempt counts, not the one that looked furthest.
FinishLookaheadEnd_Last(s, lookahead_end_byte) ==
  s.current_position.bytes + 1 + (IF s.lookahead = "error" THEN 4 ELSE 0)

\* The lookahead_end_byte out-parameter of ts_lexer_finish.
FinishLookaheadEnd(s, lookahead_end_byte) ==
  LET current == s.current_position.bytes + 1 + (IF s.lookahead = "error" THEN 4 ELSE 0)
  IN  IF current > lookahead_end_byte THEN current ELSE lookahead_end_byte

\* Mutant: overlapping ranges are accepted.
RangesAccepted_Overlap(ranges) ==
  \A i \in 1 .. Len(ranges) : ranges[i].start_byte <= ranges[i].end_byte

\* The loop of ts_lexer_set_included_ranges accepts exactly the sequences in
\* which no range ends before it starts or starts before an earlier one ends.
RangesAccepted(ranges) ==
  /\ \A i \in 1 .. Len(ranges) : ranges[i].start_byte <= ranges[i].end_byte
  /\ \A i, j \in 1 .. Len(ranges) : i < j => ranges[i].end_byte <= ranges[j].start_byte

ts_lexer_set_included_ranges(s, ranges) ==
  LET rs == IF ranges = <<>> THEN <<DEFAULT_RANGE>> ELSE ranges
  IN  IF RangesAccepted(rs)
        THEN ts_lexer_goto([s EXCEPT !.included_ranges = rs], s.current_position)
        ELSE s
=============================================================================
