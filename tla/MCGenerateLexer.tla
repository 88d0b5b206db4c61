--------------------------- MODULE MCGenerateLexer ---------------------------
(***************************************************************************)
(* GenerateLexer on small grammars.  Characters: 0 is the null character,  *)
(* 3 and 4 are letters, 5 is a space, 6 the largest character; 1 and 2     *)
(* keep the null character from being in a range short enough for          *)
(* ADVANCE_MAP.  The texts have null characters.                           *)
(***************************************************************************)
EXTENDS GenerateLexer

MaxText == 3

MCTexts == UNION {[1 .. k -> {0} \union 3 .. 6] : k \in 0 .. MaxText}
MCLetters == {3, 4}

A == from_char(3)
B == from_char(4)
Letters == add(A, B)

\* Strings, patterns, immediate tokens and tokens with precedence.
Pool == <<
  Pattern(Repetition(Class(Letters), 1, Unbounded)),
  String(<<3>>),
  String(<<3, 4>>),
  Choice(<<String(<<4>>), String(<<3, 3>>)>>),
  Pattern(Class(negate(A))),
  Pattern(Concat(<<Class(B), Repetition(Class(Letters), 0, 2)>>)),
  immediate_token(String(<<4>>)),
  prec(IntPrec(1), Pattern(Alternation(<<Literal(<<3, 4>>), Class(add_char(A, 6))>>))),
  Pattern(Concat(<<Class(A), Repetition(Class(from_char(5)), 0, Unbounded)>>)),
  Seqn(<<Repeat(String(<<3>>)), Pattern(Repetition(Class(B), 0, 1))>>),
  Pattern(Repetition(Class(add_char(B, 6)), 2, 2)),
  Pattern(Class(add_range(B, 0, 2))),
  Pattern(Class(negate(empty)))
>>

Spaces == Pattern(Class(from_char(5)))

Input(ts, seps, word, reserved, sentences) ==
  [tokens |-> [k \in DOMAIN ts |-> Pool[ts[k]]], separators |-> seps, word |-> word,
   reserved |-> reserved, sentences |-> sentences]

Triples == {ts \in (DOMAIN Pool) \X (DOMAIN Pool) \X (DOMAIN Pool) : ts[1] < ts[2] /\ ts[2] < ts[3]}

\* Tokens of every kind together; the word token among them; separators.
MCInputs ==
  {Input(ts, <<Spaces>>, NoToken, {}, {<<1, 2>>, <<3>>}) : ts \in Triples}
  \union {Input(ts, <<>>, NoToken, {}, {<<1>>, <<2, 3, 2>>}) : ts \in Triples}
  \union {Input(<<ts[2], ts[3], 1>>, <<Spaces>>, 3, {1}, {<<1, 3>>, <<2, 1>>}) :
            ts \in {x \in Triples : x[1] = 1}}
  \union {Input(<<2, 1>>, <<r>>, NoToken, {}, {<<1, 2>>}) : r \in {Spaces, String(<<6>>), NamedSymbol(<<"s">>)}}
=============================================================================
