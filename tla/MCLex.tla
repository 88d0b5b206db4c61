------------------------------- MODULE MCLex -------------------------------
(***************************************************************************)
(* Instances of Lex: documents, included ranges and read callbacks.        *)
(***************************************************************************)
EXTENDS Lex

CONSTANT MinChunk  \* the callback returns at least this many bytes if there are

\* Every callback that returns between MinChunk bytes and all the text left.
ReadsOf(text) ==
  LET n == Len(text)
      atLeast(i) == IF n - i + 1 < MinChunk THEN n - i + 1 ELSE MinChunk
  IN  {r \in [1 .. n -> 1 .. n] : \A i \in 1 .. n : r[i] \in atLeast(i) .. (n - i + 1)}

RangeAt(text, r) ==
  [start_byte |-> r[1], end_byte |-> r[2],
   start_point |-> PointAt(text, r[1]), end_point |-> PointAt(text, r[2])]

InputsOf(texts, ranges) ==
  UNION {{[input  |-> [text |-> text, read |-> read],
           ranges |-> [i \in 1 .. Len(rs) |-> RangeAt(text, rs[i])]] :
             read \in ReadsOf(text), rs \in ranges} : text \in texts}

\* Documents without included ranges: a byte order mark, a newline, characters
\* of two bytes that a chunk may cut, one that is cut by the end, and a byte
\* order mark that is not whole.
WholeTexts ==
  {<<"x", "nl", "x">>, <<"bom", "cont", "cont", "nl">>, <<"x", "x", "wide", "cont">>, <<"wide">>,
   <<"bom", "cont", "x">>, <<>>}

\* A gap that cuts a character, an empty range between two others, one at the
\* end, an overlap that is rejected, and a range with a newline inside.
SplitRanges ==
  {<< <<0, 1>>, <<2, 3>> >>, << <<0, 1>>, <<1, 1>>, <<2, 4>> >>,
   << <<1, 2>>, <<3, 3>> >>, << <<0, 2>>, <<1, 3>> >>, << <<1, 3>> >>}

SplitTexts == {<<"x", "nl", "x">>, <<"x", "wide", "cont">>}

MCInputs == InputsOf(WholeTexts, {<<>>}) \union InputsOf(SplitTexts, SplitRanges)
=============================================================================
