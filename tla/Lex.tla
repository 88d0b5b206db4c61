-------------------------------- MODULE Lex --------------------------------
(***************************************************************************)
(* How the parser drives the lexer: ts_parser__lex (lib/src/parser.c), the *)
(* lex functions and external scanners it calls, the missing tokens of     *)
(* ts_parser__handle_error, and the calls that begin and end a parse.      *)
(*                                                                         *)
(* A parse has several stack versions; the lexer is shared and jumps       *)
(* between their positions.  The scanners are external code: between       *)
(* ts_lexer_start and ts_lexer_finish they may call advance, mark_end and  *)
(* get_column in any order, and then succeed or fail.                      *)
(***************************************************************************)
EXTENDS Lexer, FiniteSets

CONSTANTS
  Inputs,          \* the inputs of a parse: [input : TSInput, ranges : Seq(TSRange)]
  MaxVersions,     \* how many stack versions have a position at a time
  ColumnAtEof,     \* whether scanners ask for the column at the end of the file
  JunkEnds         \* what the element after included_ranges may hold

ASSUME InputsAssumption ==
  \A in \in Inputs : in.input \in TSInput /\ in.ranges \in Seq(TSRange)
ASSUME MaxVersionsAssumption == MaxVersions \in Nat \ {0}
ASSUME ColumnAtEofAssumption == ColumnAtEof \in BOOLEAN
ASSUME JunkAssumption == JunkEnds \subseteq Nat /\ JunkEnds # {}

VARIABLES
  lexer,           \* the Lexer struct of the parser
  positions,       \* the positions of the stack versions
  pc,              \* where the parser is
  call,            \* the local variables of ts_parser__lex
  goal_byte,       \* the local variable of ts_lexer__get_column
  leaf,            \* the token ts_parser__lex returned last
  examined         \* history: the greatest LookaheadReach of this lex

vars == <<lexer, positions, pc, call, goal_byte, leaf, examined>>

\* stopped:  no parse is running
\* parsing:  the parser is between two tokens
\* ready:    at the top of an attempt, before ts_lexer_start
\* scan:     inside a lex function or an external scanner
\* column:   inside the loop of ts_lexer__get_column
\* keyword:  inside the keyword lex function
Control == {"stopped", "parsing", "ready", "scan", "column", "keyword"}

NoCall ==
  [start_position |-> length_zero, current_position |-> length_zero,
   column_data |-> NoColumn, external |-> FALSE, error_mode |-> FALSE,
   skipped_error |-> FALSE, error_start_position |-> length_zero,
   error_end_position |-> length_zero, lookahead_end_byte |-> 0]

NoLeaf ==
  [start_position |-> length_zero, padding |-> length_zero,
   size |-> length_zero, lookahead_end_byte |-> 0]

-----------------------------------------------------------------------------
Init ==
  /\ lexer = ts_lexer_init
  /\ positions = {length_zero}
  /\ pc = "stopped"
  /\ call = NoCall
  /\ goal_byte = 0
  /\ leaf = NoLeaf
  /\ examined = 0

\* Where an edit of whole characters that changes the lookahead of s can begin,
\* at the latest, plus one. A character that decodes is replaced from its first
\* byte, so its later bytes are not counted although the decoder read them; a
\* sequence that does not decode has no characters, and counts with all the
\* bytes up to the first that cannot continue it.
LookaheadReach(s) ==
  LET text == s.input.text
      b    == s.current_position.bytes
      cut  == Width(text[b + 1]) = 3 /\ ~(b + 2 <= Len(text) /\ text[b + 2] = "cont")
  IN  IF s.lookahead # "error" THEN b + 1
      ELSE IF cut THEN b + 2
      ELSE b + Width(text[b + 1])

Examine(s) ==
  examined' = IF LookaheadReach(s) > examined THEN LookaheadReach(s) ELSE examined


\* ts_parser_set_included_ranges, then ts_parser_parse with an input: the
\* user does not parse when the ranges are rejected.
BeginParse(in) ==
  /\ pc = "stopped"
  /\ in.ranges = <<>> \/ RangesAccepted(in.ranges)
  /\ lexer' = ts_lexer_set_input(ts_lexer_set_included_ranges(lexer, in.ranges), in.input)
  /\ pc' = "parsing"
  /\ positions' = {length_zero}
  /\ UNCHANGED <<call, goal_byte, leaf, examined>>

\* ts_parser_parse again after the progress callback stopped it: the parse
\* resumes, with the same text, where it left off.
ResumeParse ==
  /\ pc = "parsing"
  /\ lexer' = ts_lexer_set_input(lexer, lexer.input)
  /\ UNCHANGED <<positions, pc, call, goal_byte, leaf, examined>>

\* ts_parser_reset, at the end of a parse or in place of resuming it.
EndParse ==
  /\ pc = "parsing"
  /\ lexer' = ts_lexer_reset(lexer, length_zero)
  /\ pc' = "stopped"
  /\ positions' = {length_zero}
  /\ call' = NoCall
  /\ leaf' = NoLeaf
  /\ goal_byte' = 0
  /\ examined' = 0

\* The top of an iteration of the loop of ts_parser__lex, at lexer state s.
Attempt(s, c, external) ==
  /\ lexer' = s
  /\ pc' = "ready"
  /\ call' = [c EXCEPT !.current_position = s.current_position,
                       !.column_data = s.column_data,
                       !.external = external]

\* ts_parser__lex is called for a version; its lex mode may have an external
\* lex state, and its parse state may be ERROR_STATE.
BeginLex(start, external, error_mode) ==
  /\ pc = "parsing"
  /\ start \in positions
  /\ Attempt(ts_lexer_reset(lexer, start),
             [NoCall EXCEPT !.start_position = start, !.error_mode = error_mode],
             external)
  /\ examined' = 0
  /\ UNCHANGED <<positions, goal_byte, leaf>>

Start ==
  /\ pc = "ready"
  /\ lexer' = ts_lexer_start(lexer)
  /\ pc' = "scan"
  /\ Examine(lexer')
  /\ UNCHANGED <<positions, call, goal_byte, leaf>>

-----------------------------------------------------------------------------
(* What a scanner may do.  Only external scanners ask for the column.      *)

Advance(skip, junk) ==
  /\ pc \in {"scan", "keyword"}
  /\ lexer' = ts_lexer__advance(lexer, skip, junk)
  /\ IF pc = "scan" THEN Examine(lexer') ELSE UNCHANGED examined
  /\ UNCHANGED <<positions, pc, call, goal_byte, leaf>>

MarkEnd ==
  /\ pc \in {"scan", "keyword"}
  /\ lexer' = ts_lexer__mark_end(lexer)
  /\ UNCHANGED <<positions, pc, call, goal_byte, leaf, examined>>

GetColumn ==
  /\ pc = "scan" /\ call.external
  /\ ts_lexer__eof(lexer) => ColumnAtEof
  /\ IF lexer.column_data.valid
       THEN /\ lexer' = [lexer EXCEPT !.did_get_column = TRUE]
            /\ UNCHANGED <<pc, goal_byte>>
       ELSE /\ lexer' = [GetColumnBackUp(lexer) EXCEPT !.did_get_column = TRUE]
            /\ pc' = "column"
            /\ goal_byte' = lexer.current_position.bytes
  /\ UNCHANGED <<positions, call, leaf, examined>>

GetColumnAdvance ==
  /\ pc = "column"
  /\ GetColumnContinues(lexer, goal_byte)
  /\ lexer' = ts_lexer__do_advance(lexer, FALSE, 0)
  /\ UNCHANGED <<positions, pc, call, goal_byte, leaf, examined>>

GetColumnReturn ==
  /\ pc = "column"
  /\ ~GetColumnContinues(lexer, goal_byte)
  /\ pc' = "scan"
  /\ goal_byte' = 0
  /\ UNCHANGED <<lexer, positions, call, leaf, examined>>

-----------------------------------------------------------------------------
(* How an attempt ends.  Each action begins with the ts_lexer_finish that  *)
(* follows the call of the scanner.                                        *)

Finished == ts_lexer_finish(lexer)

LookaheadEnd == FinishLookaheadEnd(lexer, call.lookahead_end_byte)

\* The end of ts_parser__lex: build the leaf, which the parser pushes on the
\* version it was lexed for; the other versions keep their positions.
Return(token, start, end) ==
  LET padding == length_sub(start, call.start_position)
      size    == length_sub(end, start)
      next    == length_add(length_add(call.start_position, padding), size)
  IN  /\ leaf' = [start_position |-> call.start_position, padding |-> padding,
                  size |-> size, lookahead_end_byte |-> LookaheadEnd]
      /\ lexer' = token
      /\ \E others \in SUBSET positions :
            /\ Cardinality(others) < MaxVersions
            /\ positions' = others \union {next}
      /\ call' = NoCall

\* A token was found: after characters that were skipped the result is an
\* error leaf for them, and the token is lexed again for the next leaf.
TokenFound ==
  /\ pc = "scan"
  /\ IF call.skipped_error
       THEN Return(Finished, call.error_start_position, call.error_end_position)
       ELSE Return(Finished, Finished.token_start_position, Finished.token_end_position)
  /\ pc' = "parsing"
  /\ UNCHANGED <<goal_byte, examined>>

\* The token found is the keyword capture token: lex it again as a keyword.
KeywordCandidate ==
  /\ pc = "scan" /\ ~call.external /\ ~call.skipped_error
  /\ Return(ts_lexer_start(ts_lexer_reset(Finished, Finished.token_start_position)),
            Finished.token_start_position, Finished.token_end_position)
  /\ pc' = "keyword"
  /\ UNCHANGED <<goal_byte, examined>>

KeywordReturn ==
  /\ pc = "keyword"
  /\ pc' = "parsing"
  /\ UNCHANGED <<lexer, positions, call, goal_byte, leaf, examined>>

\* The external scanner fails, or its empty token is ignored: rewind, and run
\* the internal lex function from the same place.
ExternalFails ==
  /\ pc = "scan" /\ call.external
  /\ lexer' = [ts_lexer_reset(Finished, call.current_position) EXCEPT
                  !.column_data = call.column_data]
  /\ call' = [call EXCEPT !.external = FALSE, !.lookahead_end_byte = LookaheadEnd]
  /\ pc' = "ready"
  /\ UNCHANGED <<positions, goal_byte, leaf, examined>>

\* The external scanner of a language in a WASM store traps.
ScannerError ==
  /\ pc = "scan" /\ call.external
  /\ pc' = "parsing"
  /\ call' = NoCall
  /\ leaf' = NoLeaf
  /\ examined' = 0
  /\ UNCHANGED <<lexer, positions, goal_byte>>

\* No token: try again with the lex mode of ERROR_STATE.
RetryInErrorMode(external) ==
  /\ pc = "scan" /\ ~call.external /\ ~call.error_mode
  /\ Attempt(ts_lexer_reset(Finished, call.start_position),
             [call EXCEPT !.error_mode = TRUE, !.lookahead_end_byte = LookaheadEnd],
             external)
  /\ UNCHANGED <<positions, goal_byte, leaf, examined>>

\* The error leaf begins and ends, so far, where the first attempt in error
\* mode found no token.
ErrorStart ==
  IF call.skipped_error THEN call.error_start_position ELSE Finished.token_start_position

ErrorEnd ==
  IF call.skipped_error THEN call.error_end_position ELSE Finished.token_start_position

\* Mutant: a character is never skipped by force.
Stuck_Never == FALSE

\* The last attempt did not move past what was skipped before it.
Stuck == lexer.current_position.bytes = ErrorEnd.bytes

\* No token in error mode: skip what the attempt consumed, at least one
\* character, and try again.
SkipUnrecognized(external, junk) ==
  LET next == IF Stuck THEN ts_lexer__advance(Finished, FALSE, junk) ELSE Finished
  IN  /\ pc = "scan" /\ ~call.external /\ call.error_mode
      /\ ~(Stuck /\ ts_lexer__eof(lexer))
      /\ Attempt(next,
                 [call EXCEPT !.skipped_error = TRUE,
                              !.error_start_position = ErrorStart,
                              !.error_end_position = next.current_position,
                              !.lookahead_end_byte = LookaheadEnd],
                 external)
      /\ Examine(next)
      /\ UNCHANGED <<positions, goal_byte, leaf>>

\* No token in error mode at the end of the file: return what was skipped.
GiveUpAtEof ==
  /\ pc = "scan" /\ ~call.external /\ call.error_mode
  /\ Stuck /\ ts_lexer__eof(lexer)
  /\ Return(Finished, ErrorStart, ErrorEnd)
  /\ pc' = "parsing"
  /\ UNCHANGED <<goal_byte, examined>>

-----------------------------------------------------------------------------
\* ts_parser__handle_error places a missing token for a copy of a version.
PlaceMissing(position) ==
  LET s    == ts_lexer__mark_end(ts_lexer_reset(lexer, position))
      next == length_add(position, length_sub(s.token_end_position, position))
  IN  /\ pc = "parsing"
      /\ position \in positions
      /\ lexer' = s
      /\ \E others \in SUBSET positions :
            /\ Cardinality(others) < MaxVersions
            /\ positions' = others \union {next}
      /\ UNCHANGED <<pc, call, goal_byte, leaf, examined>>

ScannerReturns ==
  \/ TokenFound
  \/ KeywordCandidate
  \/ KeywordReturn
  \/ ExternalFails
  \/ ScannerError
  \/ \E external \in BOOLEAN : RetryInErrorMode(external)
  \/ \E external \in BOOLEAN, junk \in JunkEnds : SkipUnrecognized(external, junk)
  \/ GiveUpAtEof

Next ==
  \/ \E in \in Inputs : BeginParse(in)
  \/ ResumeParse
  \/ EndParse
  \/ \E start \in positions, external, error_mode \in BOOLEAN :
        BeginLex(start, external, error_mode)
  \/ Start
  \/ \E skip \in BOOLEAN, junk \in JunkEnds : Advance(skip, junk)
  \/ MarkEnd
  \/ GetColumn
  \/ GetColumnAdvance
  \/ GetColumnReturn
  \/ ScannerReturns
  \/ \E position \in positions : PlaceMissing(position)

Spec == Init /\ [][Next]_vars

\* Every scanner returns, and the loops of the lexer and of ts_parser__lex run
\* on; nothing makes the parser lex another token.  Start is the one step from
\* "ready" to "scan".
Started == pc = "ready" /\ pc' = "scan"

Fairness ==
  /\ WF_pc(Started)
  /\ WF_vars(GetColumnAdvance \/ GetColumnReturn)
  /\ WF_vars(ScannerReturns)

FairSpec == Spec /\ Fairness

-----------------------------------------------------------------------------
Lexing == pc \in {"scan", "column", "keyword"}

LexerType ==
  [input : TSInput,
   included_ranges : Seq(TSRange),
   current_included_range_index : Nat,
   current_position : Length,
   chunk_start : Nat, chunk_size : Nat,
   lookahead : Codepoint, lookahead_size : 0 .. 3,
   column_data : ColumnData,
   did_get_column : BOOLEAN,
   token_start_position : Length,
   token_end_position : Length]

CallType ==
  [start_position : Length, current_position : Length,
   column_data : ColumnData, external : BOOLEAN, error_mode : BOOLEAN,
   skipped_error : BOOLEAN, error_start_position : Length,
   error_end_position : Length, lookahead_end_byte : Nat]

LeafType ==
  [start_position : Length, padding : Length, size : Length,
   lookahead_end_byte : Nat]

\* The types of the variables.
TypeOK ==
  /\ lexer \in LexerType
  /\ positions \subseteq Length
  /\ pc \in Control
  /\ call \in CallType
  /\ goal_byte \in Nat
  /\ leaf \in LeafType
  /\ examined \in Nat

\* The cursor is inside the included range its index names, however the parser
\* and the scanners move it: the code indexes included_ranges with it and
\* ts_lexer__mark_end compares the position with the start of that range.
CursorInRange(s) ==
  \/ ts_lexer__eof(s)
  \/ /\ s.current_included_range_index \in 1 .. Len(s.included_ranges)
     /\ CurrentRange(s).start_byte <= s.current_position.bytes
     /\ s.current_position.bytes < CurrentRange(s).end_byte

InRange == CursorInRange(lexer)

\* ts_lexer__get_lookahead "assumes that the lexer has already retrieved a
\* chunk of source code that spans the current position": whenever there is a
\* chunk before the end of the file, it does, and it is a part of the text.
ChunkInText(s) ==
  HasChunk(s) => s.chunk_start + s.chunk_size <= Len(s.input.text)

ChunkAtCursor(s) ==
  HasChunk(s) /\ ~ts_lexer__eof(s) => InChunk(s, s.current_position.bytes)

ChunkSpans == ChunkInText(lexer) /\ ChunkAtCursor(lexer)

\* A scanner never runs on a lexer that is before the end of the file and has
\* no chunk: ts_lexer__advance would do nothing there, and the loop that skips
\* unrecognized characters in ts_parser__lex would never end.
Loaded(s) == ~ts_lexer__eof(s) => HasChunk(s) /\ s.lookahead_size > 0

ChunkLoaded == Lexing => Loaded(lexer)

\* The fast path of ts_lexer__advance does what ts_lexer__do_advance would.
FastPathAgrees ==
  Lexing /\ HasChunk(lexer) =>
    \A junk \in JunkEnds, skip \in BOOLEAN :
       FastPath(lexer, junk) =>
         FastAdvance(lexer, skip) = ts_lexer__do_advance(lexer, skip, junk)

\* The lookahead is the character of the document at the position, however the
\* read callback cut the text into chunks.
LookaheadTrue ==
  ~ts_lexer__eof(lexer) /\ lexer.lookahead_size > 0 =>
    LET b == lexer.current_position.bytes
    IN  decode(lexer.input.text, b, Len(lexer.input.text) - b)
          = [lookahead |-> lexer.lookahead, lookahead_size |-> lexer.lookahead_size]

\* The lookahead_end_byte of a token is past the first byte of every character
\* that any of the attempts to lex it examined, and past all the bytes examined of
\* a sequence that does not decode: an edit that replaces whole characters, or
\* touches such a sequence, and changes what was examined begins before it. An
\* edit that begins inside the last character examined, when that one decodes and
\* is longer than a byte, is not covered: ts_lexer_finish adds one byte for it.
LookaheadCovered == pc = "parsing" => examined <= leaf.lookahead_end_byte

\* The row and column of the cursor are those of its byte, from the first reset
\* of a parse on: the reference is the document, in which a row ends with each
\* newline.
PointAt(text, b) ==
  LET newlines == {i \in 1 .. b : i <= Len(text) /\ text[i] = "nl"}
      line     == IF newlines = {} THEN 0 ELSE CHOOSE i \in newlines : \A j \in newlines : j <= i
  IN  [row |-> Cardinality(newlines), column |-> b - line]

CursorPointTrue ==
  pc \notin {"stopped", "parsing"} =>
    lexer.current_position.extent
      = PointAt(lexer.input.text, lexer.current_position.bytes)

\* ... and those of the position of every stack version are too.
PositionPointsTrue ==
  pc # "stopped" => \A p \in positions : p.extent = PointAt(lexer.input.text, p.bytes)

\* ts_lexer__get_column ends where it began.
GetColumnRestores ==
  pc = "column" /\ ~GetColumnContinues(lexer, goal_byte) =>
    lexer.current_position.bytes = goal_byte

\* The number of included characters from byte a to byte b, the byte order
\* mark that begins a document not counted.
CharacterCount(s, a, b) ==
  LET text     == s.input.text
      char(i)  == decode(text, i, Len(text) - i)
      first(i) == \A k \in a .. (i - 1) : k + char(k).lookahead_size <= i
      included(i) == \E j \in 1 .. Len(s.included_ranges) :
                        /\ s.included_ranges[j].start_byte <= i
                        /\ i < s.included_ranges[j].end_byte
  IN  Cardinality({i \in a .. (b - 1) :
                     first(i) /\ included(i) /\ ~(i = 0 /\ char(i).lookahead = "bom")})

\* The column a scanner gets is "the number of codepoints since the start of
\* the current line" (docs/src/creating-parsers/4-external-scanners.md), of
\* those that are included.
ColumnTrue ==
  pc = "scan" /\ ~ts_lexer__eof(lexer) /\ lexer.column_data.valid =>
    LET b == lexer.current_position.bytes
    IN  lexer.column_data.value
          = CharacterCount(lexer, b - PointAt(lexer.input.text, b).column, b)

\* What a scanner and the parser rely on when they use the cursor: it is in its
\* range, over a chunk that spans it, with a lookahead, and both ways to advance
\* it agree (ts_lexer_goto, ts_lexer__get_chunk, ts_lexer__advance).
CursorSound == InRange /\ ChunkSpans /\ ChunkLoaded /\ FastPathAgrees

WholeDocument == lexer.included_ranges = <<DEFAULT_RANGE>>

\* What the lexer tells of the document is true: the lookahead is its character
\* at the cursor, get_column ends where it began and, in a document without
\* included ranges, the points of the cursor and of every version and the column
\* are those of the byte, over all chunks, jumps back and skipped errors.
CursorTrue ==
  /\ LookaheadTrue /\ GetColumnRestores
  /\ WholeDocument => CursorPointTrue /\ PositionPointsTrue /\ ColumnTrue

\* An advance before the end of the file.
AdvanceMoves ==
  \A skip \in BOOLEAN, junk \in JunkEnds :
     Advance(skip, junk) /\ ~ts_lexer__eof(lexer) =>
       lexer'.current_position.bytes > lexer.current_position.bytes

\* Before the end of the file ts_lexer__advance always moves forward, across
\* ranges and chunks and past characters that do not decode: the loops of the
\* lex functions and of ts_parser__lex rely on it.
AdvanceProgress == [][AdvanceMoves]_vars

\* Every call of ts_parser__lex returns.
LexReturns == pc = "ready" ~> pc = "parsing"
=============================================================================
