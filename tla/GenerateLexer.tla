--------------------------- MODULE GenerateLexer ---------------------------
(***************************************************************************)
(* The generator's lexical pipeline as build_tables.rs runs it: the tokens *)
(* become an Nfa, their conflicts are computed, keywords are chosen, the   *)
(* error state is filled, parse states share lex states, and the lex table *)
(* is minimized and sorted.                                                *)
(*                                                                         *)
(* An input is a list of tokens and separators, the word token and the     *)
(* sentences of a grammar that is a choice of sequences of tokens: its     *)
(* parse states are the prefixes of the sentences.                         *)
(***************************************************************************)
EXTENDS LexTables

CONSTANTS
  Inputs,    \* the grammars that are tried
  Texts      \* the texts that the generated lexers are run on

VARIABLES
  stage,         \* what has been computed
  input,
  grammar,       \* LexicalGrammar: the Nfa and the token variables
  following,     \* following_tokens
  status,        \* TokenConflictMap
  parse_states,  \* token sets by state; the error state first
  keywords,
  built,         \* the table before it is minimized
  table          \* main_lex_table, and the lex state of each parse state

vars == <<stage, input, grammar, following, status, parse_states, keywords, built, table>>

-----------------------------------------------------------------------------
\* The LR states of a choice of sequences, in the order they are found.
ParseState(in, prefix) ==
  LET rest   == {s \in in.sentences : Len(s) >= Len(prefix)
                                      /\ SubSeq(s, 1, Len(prefix)) = prefix}
      tokens == {s[Len(prefix) + 1] : s \in {x \in rest : Len(x) > Len(prefix)}}
  IN  [tokens   |-> tokens,
       eof      |-> prefix \in rest,
       reserved |-> IF in.word \in tokens THEN in.reserved ELSE {}]

RECURSIVE InOrder(_)
InOrder(P) ==
  IF P = {} THEN <<>>
  ELSE LET p == CHOOSE p \in P : \A q \in P \ {p} : KeyLess(<<Len(p)>> \o p, <<Len(q)>> \o q)
       IN  <<p>> \o InOrder(P \ {p})

ErrorState == [tokens |-> {}, eof |-> FALSE, reserved |-> {}]

States(in) ==
  LET ps == InOrder(UNION {Prefixes(s) : s \in in.sentences})
  IN  <<ErrorState>> \o [k \in DOMAIN ps |-> ParseState(in, ps[k])]

\* get_following_tokens: what stands next to each token; reserved words with
\* the word token.
FollowingTokens(in) ==
  [t \in DOMAIN in.tokens |->
     LET next == {s[k + 1] : <<s, k>> \in
                    {<<s, k>> \in in.sentences \X (1 .. 5) : k < Len(s) /\ s[k] = t}}
     IN  next \union (IF in.word \in next THEN in.reserved ELSE {})]

-----------------------------------------------------------------------------
Init ==
  /\ input \in Inputs
  /\ stage = "tokens"
  /\ grammar = [nfa |-> <<>>, variables |-> <<>>]
  /\ following = <<>> /\ status = <<>> /\ parse_states = <<>> /\ keywords = {}
  /\ built = [table |-> EmptyTable, lex_state |-> <<>>]
  /\ table = [states |-> <<>>, lex_state |-> <<>>, keyword_states |-> <<>>, large |-> <<>>]

ExpandTokens ==
  /\ stage = "tokens" /\ Expandable(input.tokens, input.separators)
  /\ stage' = "parse_table"
  /\ grammar' = expand_tokens(input.tokens, input.separators)
  /\ UNCHANGED <<input, following, status, parse_states, keywords, built, table>>

RefuseTokens ==
  /\ stage = "tokens" /\ ~Expandable(input.tokens, input.separators)
  /\ stage' = "refused"
  /\ UNCHANGED <<input, grammar, following, status, parse_states, keywords, built, table>>

\* build_parse_table, whose states this module takes as they are.
BuildParseStates ==
  /\ stage = "parse_table"
  /\ stage' = "conflicts"
  /\ following' = FollowingTokens(input)
  /\ parse_states' = States(input)
  /\ UNCHANGED <<input, grammar, status, keywords, built, table>>

FindConflicts ==
  /\ stage = "conflicts"
  /\ stage' = "keywords"
  /\ status' = TokenConflictMap(grammar, following)
  /\ UNCHANGED <<input, grammar, following, parse_states, keywords, built, table>>

\* The coincident tokens are those of the states before the error state is filled.
ChooseKeywords ==
  /\ stage = "keywords"
  /\ stage' = "lex"
  /\ keywords' = identify_keywords(grammar, input.word, status, parse_states)
  /\ parse_states' = [parse_states EXCEPT ![1] =
                        populate_error_state(grammar, input.word, status, keywords',
                                             parse_states)]
  /\ UNCHANGED <<input, grammar, following, status, built, table>>

TokenSets(ps) == [s \in DOMAIN ps |-> LexedTokens(ps[s], keywords, input.word)]

BuildTable ==
  /\ stage = "lex"
  /\ stage' = "minimize"
  /\ built' = BuildLexTable(grammar, status, [parse_states EXCEPT ![1] = ErrorState],
                            TokenSets(parse_states))
  /\ UNCHANGED <<input, grammar, following, status, parse_states, keywords, table>>

KeywordTable ==
  IF input.word = NoToken THEN <<>>
  ELSE add_state_for_tokens(grammar, EmptyTable,
                            [tokens |-> keywords, eof |-> FALSE]).table.states

MinimizeTable ==
  /\ stage = "minimize"
  /\ stage' = "done"
  /\ LET sorted == sort_states(minimize_lex_table(built))
     IN  table' = [states |-> sorted.states, lex_state |-> sorted.lex_state,
                   keyword_states |-> KeywordTable, large |-> LargeCharacterSets(grammar)]
  /\ UNCHANGED <<input, grammar, following, status, parse_states, keywords, built>>

Next ==
  \/ ExpandTokens \/ RefuseTokens \/ BuildParseStates \/ FindConflicts \/ ChooseKeywords
  \/ BuildTable \/ MinimizeTable

Spec == Init /\ [][Next]_vars

-----------------------------------------------------------------------------
(* What the generated function does with a text: the token of the last       *)
(* accepting state it went through, and where that was.                      *)

RECURSIVE Run(_, _, _, _, _)
Run(Action(_, _), states, id, text, acc) ==
  LET state == states[id]
      now   == IF state.accept_action = NoToken THEN acc
               ELSE [acc EXCEPT !.token = state.accept_action, !.end = acc.pos]
      a     == Action(state, IF acc.pos < Len(text) THEN text[acc.pos + 1] ELSE Eof)
  IN  IF a.state = 0 THEN [token |-> now.token, end |-> now.end]
      ELSE Run(Action, states, a.state, text,
               [now EXCEPT !.pos = IF acc.pos < Len(text) THEN @ + 1 ELSE @])

Lexed(Action(_, _), states, id, text) ==
  Run(Action, states, id, text, [token |-> NoToken, end |-> 0, pos |-> 0])

LexByTable(states, id, text) == Lexed(TableAction, states, id, text)
LexRendered(large_sets, states, id, text) ==
  Lexed(LAMBDA state, c : RenderedAction(large_sets, state, c), states, id, text)

\* The lexer of one parse state alone.
OwnTable(set) == add_state_for_tokens(grammar, EmptyTable, set).table.states

-----------------------------------------------------------------------------
(* What the rules say a token matches.                                       *)
TextLength == Max({Len(w) : w \in Texts})

Separated(in) ==
  IF in.separators = <<>> THEN {<<>>}
  ELSE Star(UNION {Strings(in.separators[i], TextLength) : i \in DOMAIN in.separators},
            {<<>>}, TextLength)

TokenStrings(in, t) ==
  Cat(IF is_immediate_token(in.tokens[t]) THEN {<<>>} ELSE Separated(in),
      Strings(in.tokens[t], TextLength), TextLength)

RECURSIVE NfaEnds(_, _, _)
NfaEnds(nfa, ids, text) ==
  IF text = <<>> THEN add_states(nfa, ids)
  ELSE NfaEnds(nfa, {nfa[i].state_id : i \in
                       {j \in add_states(nfa, ids) : nfa[j].kind = "Advance"
                                                     /\ contains(nfa[j].chars, Head(text))}},
               Tail(text))

Accepts(t, text) ==
  \E i \in NfaEnds(grammar.nfa, {grammar.variables[t].start_state}, text) :
     grammar.nfa[i].kind = "Accept" /\ grammar.nfa[i].variable_index = t

\* expand_tokens: the automaton of a token accepts what its rule matches, after
\* any number of separators, and nothing else.
NfaMatchesRules ==
  stage = "parse_table" =>
    \A t \in DOMAIN input.tokens :
       LET strings == TokenStrings(input, t)
       IN  \A w \in Texts : Accepts(t, w) <=> w \in strings

\* The tokens have no precedence of their own, and none begins like a separator.
Ordinary(in) ==
  /\ \A t \in DOMAIN in.tokens : ~HasPrec(in.tokens[t])
  /\ \A t \in DOMAIN in.tokens : \A i \in DOMAIN in.separators :
       {w[1] : w \in Strings(in.tokens[t], TextLength) \ {<<>>}}
         \intersect {w[1] : w \in Strings(in.separators[i], TextLength) \ {<<>>}} = {}

Matches(strings, tokens, w) ==
  {<<t, k>> \in tokens \X (1 .. Len(w)) : SubSeq(w, 1, k) \in strings[t]}

\* The documented choice between tokens of equal precedence: the longest match,
\* then a string before a pattern, then the one that comes first.
BestMatch(matches) ==
  LET longest == {m \in matches : \A x \in matches : x[2] <= m[2]}
      P(m)    == get_implicit_precedence(input.tokens[m[1]])
      best    == {m \in longest : \A x \in longest : P(x) <= P(m)}
  IN  CHOOSE m \in best : \A x \in best : m[1] <= x[1]

\* prefer_token and prefer_transition, over a whole text: the lexer of the error
\* state, which looks for most tokens at once, takes the longest match.
LongestMatch ==
  stage = "lex" /\ Ordinary(input) =>
    LET strings == [t \in DOMAIN input.tokens |-> TokenStrings(input, t)]
        tokens  == DOMAIN input.tokens
        own     == OwnTable([tokens |-> tokens, eof |-> FALSE])
    IN  \A w \in Texts :
          LET matches == Matches(strings, tokens, w)
              got     == LexByTable(own, 1, w)
          IN  IF matches = {} THEN got.token = NoToken
              ELSE <<got.token, got.end>> = BestMatch(matches)

\* merge_token_set: a parse state that shares a lex state with others lexes the
\* tokens it expects as its own lexer would, wherever one is followed by the end
\* or by a character that something that may follow it starts with.
MergedStatesLexAlike ==
  stage = "minimize" =>
    LET fc == get_following_chars(grammar, following)
    IN  \A s \in DOMAIN parse_states \ {1} :
          LET set == TokenSets(parse_states)[s]
              own == OwnTable(set)
          IN  \A w \in Texts :
                LET mine == LexByTable(own, 1, w)
                IN  /\ mine.token > 0
                    /\ mine.end < Len(w) => w[mine.end + 1] \in fc[mine.token]
                    => LexByTable(built.table.states, built.lex_state[s], w) = mine

\* identify_keywords: every string of a keyword is one of the word token, and
\* the keyword lexer finds the keyword in it.
KeywordsMatchWord ==
  stage = "done" =>
    \A k \in keywords : \A w \in Strings(input.tokens[k], TextLength) :
       /\ w \in Strings(input.tokens[input.word], TextLength)
       /\ LexByTable(table.keyword_states, 1, w) = [token |-> k, end |-> Len(w)]

\* The text w, and w cut at one of its null characters by a character (END) that
\* is in no set.
StopsAtNull(w) == {w} \union {SubSeq(w, 1, i - 1) \o <<END>> : i \in {k \in DOMAIN w : w[k] = 0}}

\* minimize_lex_table, sort_states and render.rs: the generated conditions of
\* the final table choose what the table first built would, except that they may
\* refuse a null character which the table takes: a condition that is written as
\* what it leaves out leaves out the null character with it, since lookahead is 0
\* at the end too.  Texts without null characters are lexed exactly as the table
\* says.  The inputs have no token that ADVANCE_MAP finds at the null character:
\* it does not test eof, and at the end of the text would take such a token.
RenderedLexerAgrees ==
  stage = "done" =>
    \A s \in DOMAIN parse_states : \A w \in Texts :
       LexRendered(table.large, table.states, table.lex_state[s], w)
         \in {LexByTable(built.table.states, built.lex_state[s], v) : v \in StopsAtNull(w)}
=============================================================================
