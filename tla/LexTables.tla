----------------------------- MODULE LexTables -----------------------------
(***************************************************************************)
(* The lexical half of build_tables (crates/generate/src/build_tables.rs): *)
(* token_conflicts.rs, coincident_tokens.rs, identify_keywords,            *)
(* populate_error_state, build_lex_table.rs, and the lex states of         *)
(* render.rs.                                                              *)
(*                                                                         *)
(* Tokens are numbered from 1.  A parse state is the set of its tokens,    *)
(* whether the end is one of them, and its reserved words.                 *)
(***************************************************************************)
EXTENDS ExpandTokens

CONSTANTS
  Alphabetic,                   \* the characters that are letters or underscore
  LARGE_CHARACTER_RANGE_COUNT,  \* build_lex_table.rs: 8
  ADVANCE_MAP_RANGE_COUNT       \* render.rs: 8

ASSUME ThresholdsAssumption ==
  /\ LARGE_CHARACTER_RANGE_COUNT \in Nat \ {0} /\ ADVANCE_MAP_RANGE_COUNT \in Nat \ {0}
  /\ Alphabetic \subseteq 0 .. END - 1

NoToken == 0    \* no accept action, no word token
EndToken == -1  \* Symbol::end()

-----------------------------------------------------------------------------
(* token_conflicts.rs                                                        *)

\* The Nfa is built backwards, so a variable's states end with its start.
variable_index_for_nfa_state(g, id) ==
  Min({i \in DOMAIN g.variables : g.variables[i].start_state >= id})

VariablesOf(g, ids) == {variable_index_for_nfa_state(g, id) : id \in ids}

prefer_token(g, left, right) ==
  LET l == g.variables[left.variable_index].implicit_precedence
      r == g.variables[right.variable_index].implicit_precedence
  IN  \/ left.precedence > right.precedence
      \/ /\ left.precedence = right.precedence
         /\ (l > r \/ (l = r /\ left.variable_index < right.variable_index))

\* Mutant: match length no longer decides between tokens of equal precedence.
prefer_transition_Shortest(g, t, completed, has_separator_transitions) ==
  t.precedence > completed.precedence

prefer_transition(g, t, completed, has_separator_transitions) ==
  \/ t.precedence > completed.precedence
  \/ /\ t.precedence = completed.precedence
     /\ ~t.is_separator
     /\ has_separator_transitions => completed.variable_index \in VariablesOf(g, t.states)

NoCompletion == [variable_index |-> NoToken, precedence |-> 0]

\* The completed token of a lex state.
Completion(g, state_ids) ==
  FoldLeft(LAMBDA best, c :
             IF best # NoCompletion /\ prefer_token(g, best, c) THEN best
             ELSE [variable_index |-> c.variable_index, precedence |-> c.precedence],
           NoCompletion, completions(g.nfa, state_ids))

get_starting_chars(g) ==
  [i \in DOMAIN g.variables |->
     UNION {Chars(t.chars) : t \in
       transition_chars(g.nfa, add_states(g.nfa, {g.variables[i].start_state}))}]

get_following_chars(g, following_tokens) ==
  [i \in DOMAIN g.variables |-> UNION {get_starting_chars(g)[j] : j \in following_tokens[i]}]

\* The flags that one set of states adds for tokens i and j: pairs of the token
\* and the flag.  A set of one token only is not looked into.
CompletionFlags(g, state_ids) ==
  LET done == {[variable_index |-> c.variable_index, precedence |-> c.precedence] :
                 c \in ToSet(completions(g.nfa, state_ids))}
  IN  (IF AnySeparator(g.nfa, state_ids)
         THEN {<<c.variable_index, "DOES_MATCH_SEPARATORS">> : c \in done} ELSE {})
      \union {<<c.variable_index, "MATCHES_SAME_STRING">> : c \in
                {x \in done : Completion(g, state_ids) = x
                              /\ \E y \in done : y.variable_index # x.variable_index}}

TransitionFlags(g, following_chars, state_ids, t) ==
  LET completed == Completion(g, state_ids)
      ahead     == VariablesOf(g, t.states) \ {completed.variable_index}
      advanced  == CHOOSE i \in ahead : TRUE
      prefer    == prefer_transition(g, t, completed, AnySeparator(g.nfa, state_ids))
  IN  IF completed = NoCompletion \/ completed.variable_index \in VariablesOf(g, t.states)
        THEN {}
      ELSE IF ~prefer THEN {<<completed.variable_index, "MATCHES_PREFIX">>}
      ELSE {<<advanced, "DOES_MATCH_CONTINUATION">>}
             \union (IF Chars(t.characters) \intersect following_chars[completed.variable_index] # {}
                       THEN {<<advanced, "DOES_MATCH_VALID_CONT">>} ELSE {})

\* One set of Nfa states of the search, and the sets that follow it.
Visit(g, following_chars, live, ids, ts) ==
  IF Cardinality(live) = 1
    THEN [flags |-> {<<CHOOSE i \in live : TRUE, "MATCHES_DIFFERENT_STRING">>}, next |-> {}]
    ELSE [flags |-> CompletionFlags(g, ids) \union
                    UNION {TransitionFlags(g, following_chars, ids, t) : t \in ts},
          next  |-> {t.states : t \in ts}]

VisitSet(g, following_chars, set) ==
  Visit(g, following_chars, VariablesOf(g, set), add_states(g.nfa, set),
        ToSet(transitions(g.nfa, add_states(g.nfa, set))))

RECURSIVE ConflictSearch(_, _, _, _, _)
ConflictSearch(g, following_chars, todo, seen, flags) ==
  IF todo = {} THEN flags
  ELSE LET visits == {VisitSet(g, following_chars, set) : set \in todo}
       IN  ConflictSearch(g, following_chars, (UNION {v.next : v \in visits}) \ (seen \union todo),
                          seen \union todo, flags \union UNION {v.flags : v \in visits})

compute_conflict_status(g, following_chars, i, j) ==
  ConflictSearch(g, following_chars,
                 {{g.variables[i].start_state, g.variables[j].start_state}}, {}, {})

FlagsOf(i, j, flags) == IF i = j THEN {} ELSE {f[2] : f \in {x \in flags : x[1] = i}}

\* status[i][j]: what token i does with regard to token j.
TokenConflictMap(g, following_tokens) ==
  LET fc == get_following_chars(g, following_tokens)
      n  == Len(g.variables)
  IN  [i \in 1 .. n |-> [j \in 1 .. n |->
         FlagsOf(i, j, compute_conflict_status(g, fc, i, j))]]

has_same_conflict_status(status, a, b, other) == status[a][other] = status[b][other]

does_match_different_string(status, i, j) == "MATCHES_DIFFERENT_STRING" \in status[i][j]

does_match_same_string(status, i, j) == "MATCHES_SAME_STRING" \in status[i][j]

does_conflict(status, i, j) ==
  status[i][j] \intersect
    {"DOES_MATCH_VALID_CONT", "DOES_MATCH_SEPARATORS", "MATCHES_SAME_STRING"} # {}

does_match_prefix(status, i, j) == "MATCHES_PREFIX" \in status[i][j]

does_match_shorter_or_longer(status, i, j) ==
  /\ status[i][j] \intersect {"DOES_MATCH_VALID_CONT", "DOES_MATCH_SEPARATORS"} # {}
  /\ "DOES_MATCH_SEPARATORS" \notin status[j][i]

does_overlap(status, i, j) ==
  status[i][j] \intersect {"DOES_MATCH_SEPARATORS", "MATCHES_PREFIX", "MATCHES_SAME_STRING",
                           "DOES_MATCH_CONTINUATION"} # {}

-----------------------------------------------------------------------------
(* coincident_tokens.rs: tokens that are valid in the same parse state.      *)

coincident(parse_states, a, b) ==
  \E s \in DOMAIN parse_states : {a, b} \subseteq parse_states[s].tokens

all_coincident_states_have_word(parse_states, word_token, a, b) ==
  \A s \in DOMAIN parse_states :
     {a, b} \subseteq parse_states[s].tokens => word_token \in parse_states[s].tokens

-----------------------------------------------------------------------------
(* build_tables.rs                                                           *)

all_chars_are_alphabetical(g, i) ==
  \A t \in transition_chars(g.nfa, add_states(g.nfa, {g.variables[i].start_state})) :
     t.is_sep \/ Chars(t.chars) \subseteq Alphabetic

\* Mutant: a candidate may match strings that are no words.
keyword_candidates_Loose(g, word_token, status) ==
  {i \in DOMAIN g.variables : /\ all_chars_are_alphabetical(g, i)
                              /\ does_match_same_string(status, i, word_token)}

keyword_candidates(g, word_token, status) ==
  {i \in DOMAIN g.variables : /\ all_chars_are_alphabetical(g, i)
                              /\ does_match_same_string(status, i, word_token)
                              /\ ~does_match_different_string(status, i, word_token)}

identify_keywords(g, word_token, status, parse_states) ==
  LET candidates == keyword_candidates(g, word_token, status)
      unshadowed == {i \in candidates : \A other \in candidates \ {i} :
                       ~does_match_same_string(status, other, i)}
  IN  IF word_token = NoToken THEN {}
      ELSE {i \in unshadowed : \A other \in DOMAIN g.variables \ candidates :
              \/ all_coincident_states_have_word(parse_states, word_token, i, other)
              \/ has_same_conflict_status(status, i, word_token, other)}

\* The tokens of the error state: all but those that conflict with a token that
\* conflicts with none.
populate_error_state(g, word_token, status, keywords, parse_states) ==
  LET n == DOMAIN g.variables
      conflict_free ==
        {i \in n : \A j \in n \ {i} : \/ coincident(parse_states, i, j)
                                      \/ ~does_match_shorter_or_longer(status, i, j)}
      excluded ==
        {i \in n \ (conflict_free \union keywords \union {word_token}) :
           \E t \in conflict_free : /\ ~coincident(parse_states, i, t)
                                    /\ does_conflict(status, i, t)}
  IN  [tokens |-> n \ excluded, eof |-> TRUE, reserved |-> {}]

-----------------------------------------------------------------------------
(* build_lex_table.rs: the builder                                           *)

EmptyTable == [keys |-> <<>>, states |-> <<>>]

\* The id of the lex state for a set of Nfa states, new or not.
add_state(g, table, nfa_states, eof_valid) ==
  LET key   == <<add_states(g.nfa, nfa_states), eof_valid>>
      known == {i \in DOMAIN table.keys : table.keys[i] = key}
  IN  IF known # {} THEN [table |-> table, id |-> Min(known)]
      ELSE [table |-> [table EXCEPT !.keys = Append(@, key)], id |-> Len(table.keys) + 1]

AddTransition(g, eof_valid, acc, new, t) ==
  [table   |-> new.table,
   actions |-> Append(acc.actions, [chars |-> t.characters, state |-> new.id,
                                    in_main_token |-> ~t.is_separator])]

AddTransitions(g, eof_valid, table, ts) ==
  FoldLeft(LAMBDA acc, t : AddTransition(g, eof_valid, acc,
             add_state(g, acc.table, t.states, eof_valid /\ t.is_separator), t),
           [table |-> table, actions |-> <<>>], ts)

FinishState(key, completion, eof_id, last) ==
  [last.table EXCEPT !.states = Append(@,
     [accept_action |-> IF completion # NoCompletion THEN completion.variable_index
                        ELSE IF key[1] = {} THEN EndToken ELSE NoToken,
      eof_action |-> eof_id,
      advance_actions |-> last.actions])]

PopulateState(g, key, completion, eof) ==
  FinishState(key, completion, eof.id,
    AddTransitions(g, key[2], eof.table,
      SelectSeq(transitions(g.nfa, key[1]), LAMBDA t :
        \/ completion = NoCompletion
        \/ prefer_transition(g, t, completion, AnySeparator(g.nfa, key[1])))))

\* The next state of the queue, which has the ids in order.
populate_state(g, table) ==
  LET key == table.keys[Len(table.states) + 1]
  IN  PopulateState(g, key, Completion(g, key[1]),
                    IF key[2] THEN add_state(g, table, {}, FALSE)
                    ELSE [table |-> table, id |-> 0])

RECURSIVE PopulateAll(_, _)
PopulateAll(g, table) ==
  IF Len(table.states) = Len(table.keys) THEN table ELSE PopulateAll(g, populate_state(g, table))

PopulateFrom(g, new) == [table |-> PopulateAll(g, new.table), id |-> new.id]

add_state_for_tokens(g, table, set) ==
  PopulateFrom(g, add_state(g, table, {g.variables[i].start_state : i \in set.tokens}, set.eof))

-----------------------------------------------------------------------------
(* build_lex_table.rs: parse states share a lex state where that is safe.    *)

\* Where keywords are valid the lexer looks for the word token.
LexedTokens(parse_state, keywords, word_token) ==
  LET all == parse_state.tokens \union parse_state.reserved
  IN  [tokens |-> (all \ keywords) \union (IF all \intersect keywords = {} THEN {}
                                           ELSE {word_token}),
       eof |-> parse_state.eof]

\* Mutant: a token that continues past another is no conflict.
check_token_conflicts_Same(status, parse_states, i, set) ==
  \E j \in set : does_match_same_string(status, i, j)

check_token_conflicts(status, parse_states, i, set) ==
  \/ \E j \in set : does_conflict(status, i, j) \/ does_match_prefix(status, i, j)
  \/ \E j \in set : /\ does_overlap(status, i, j) \/ does_overlap(status, j, i)
                    /\ ~coincident(parse_states, i, j)

Mergeable(status, parse_states, tokens, other) ==
  /\ \A i \in tokens \ other : ~check_token_conflicts(status, parse_states, i, other)
  /\ \A i \in other \ tokens : ~check_token_conflicts(status, parse_states, i, tokens)

\* merge_token_set for each parse state in turn: it joins the first set it can.
MergeTokenSets(status, coincident_states, token_sets) ==
  LET step(acc, s) ==
        LET set  == token_sets[s]
            fits == {k \in DOMAIN acc : Mergeable(status, coincident_states,
                                                  acc[k].set.tokens, set.tokens)}
            k    == Min(fits)
        IN  IF fits = {} THEN Append(acc, [set |-> set, states |-> {s}])
            ELSE [acc EXCEPT ![k] =
                    [set    |-> [tokens |-> @.set.tokens \union set.tokens,
                                 eof    |-> @.set.eof \/ set.eof],
                     states |-> @.states \union {s}]]
  IN  FoldLeft(step, <<>>, [s \in DOMAIN token_sets |-> s])

AssignLexState(acc, states, new) ==
  [table     |-> new.table,
   lex_state |-> [s \in DOMAIN acc.lex_state |->
                    IF s \in states THEN new.id ELSE acc.lex_state[s]]]

\* The table before it is minimized, and the lex state of each parse state.
BuildLexTable(g, status, coincident_states, token_sets) ==
  FoldLeft(LAMBDA acc, m : AssignLexState(acc, m.states, add_state_for_tokens(g, acc.table, m.set)),
           [table |-> EmptyTable, lex_state |-> [s \in DOMAIN token_sets |-> 0]],
           MergeTokenSets(status, coincident_states, token_sets))

-----------------------------------------------------------------------------
(* build_lex_table.rs: minimize_lex_table and sort_states                    *)

Signature(states, i) ==
  <<i = 1, states[i].accept_action, states[i].eof_action # 0,
    [k \in DOMAIN states[i].advance_actions |->
       <<states[i].advance_actions[k].chars, states[i].advance_actions[k].in_main_token>>]>>

SignatureGroups(states) ==
  LET First(i) == Min({j \in DOMAIN states : Signature(states, j) = Signature(states, i)})
      firsts   == Ascending({First(i) : i \in DOMAIN states})
  IN  [k \in DOMAIN firsts |-> Ascending({i \in DOMAIN states : First(i) = firsts[k]})]

lex_states_differ(left, right, group_of) ==
  \E k \in DOMAIN left.advance_actions \intersect DOMAIN right.advance_actions :
     group_of[left.advance_actions[k].state] # group_of[right.advance_actions[k].state]

LexDedup == INSTANCE Dedup WITH Differ <- lex_states_differ

Renumber(state, new_id) ==
  [state EXCEPT !.eof_action = IF @ = 0 THEN 0 ELSE new_id[@],
                !.advance_actions = [k \in DOMAIN @ |-> [@[k] EXCEPT !.state = new_id[@]]]]

minimize_lex_table(built) ==
  LET states == built.table.states
      groups == LexDedup!SplitAll(states, SignatureGroups(states), 2)
      ids    == LexDedup!GroupOf(groups)
  IN  [states    |-> [k \in DOMAIN groups |-> Renumber(states[groups[k][1]], ids)],
       lex_state |-> [s \in DOMAIN built.lex_state |-> ids[built.lex_state[s]]]]

\* The derived order of LexState: no action first, the end before tokens.
StateKey(state) ==
  <<IF state.accept_action = NoToken THEN 0
    ELSE IF state.accept_action = EndToken THEN 1 ELSE 1 + state.accept_action,
    state.eof_action>>
  \o FlattenSeq([k \in DOMAIN state.advance_actions |->
       LET a == state.advance_actions[k]
       IN  cmp_key(a.chars) \o <<a.state, IF a.in_main_token THEN 1 ELSE 0>>])

RECURSIVE SortIds(_, _)
SortIds(states, ids) ==
  IF ids = {} THEN <<>>
  ELSE LET least == {i \in ids : \A j \in ids : ~KeyLess(StateKey(states[j]), StateKey(states[i]))}
       IN  <<Min(least)>> \o SortIds(states, ids \ {Min(least)})

Reordered(minimal, order, new_id) ==
  [states    |-> [k \in DOMAIN order |-> Renumber(minimal.states[order[k]], new_id)],
   lex_state |-> [s \in DOMAIN minimal.lex_state |-> new_id[minimal.lex_state[s]]]]

InOrderOf(minimal, order) ==
  Reordered(minimal, order,
            [old \in DOMAIN minimal.states |-> CHOOSE k \in DOMAIN order : order[k] = old])

sort_states(minimal) ==
  InOrderOf(minimal, <<1>> \o SortIds(minimal.states, 2 .. Len(minimal.states)))

MainCharacters(state) ==
  FoldLeft(LAMBDA acc, a : IF a.in_main_token THEN add(acc, a.chars) ELSE acc,
           empty, state.advance_actions)

CharacterSetsOf(state) ==
  LET skips == SelectSeq(state.advance_actions, LAMBDA a : ~a.in_main_token)
  IN  [k \in DOMAIN skips |-> skips[k].chars] \o <<MainCharacters(state)>>

TokenSetsOf(states) == FlattenSeq([k \in DOMAIN states |-> CharacterSetsOf(states[k])])

\* Character sets of many ranges that single tokens have: named constants of
\* the generated code.
LargeCharacterSets(g) ==
  FoldLeft(LAMBDA acc, s : IF range_count(s) > LARGE_CHARACTER_RANGE_COUNT /\ s \notin ToSet(acc)
                             THEN Append(acc, s) ELSE acc,
           <<>>,
           FlattenSeq([i \in DOMAIN g.variables |-> TokenSetsOf(
             add_state_for_tokens(g, EmptyTable, [tokens |-> {i}, eof |-> FALSE]).table.states)]))

-----------------------------------------------------------------------------
(* render.rs: add_lex_state as what its conditions select.  At the end of    *)
(* the file lookahead is 0 and eof is TRUE.                                  *)

Eof == -1
Lookahead(c) == IF c = Eof THEN 0 ELSE c
InRange(c, r) == r.start <= Lookahead(c) /\ Lookahead(c) < r.end

Included(chars, c) ==
  \E i \in DOMAIN chars : InRange(c, chars[i]) /\ (chars[i].start = 0 => c # Eof)
Excluded(chars, c) == \A i \in DOMAIN chars : ~InRange(c, chars[i])

\* add_character_range_conditions for the asserted characters: a set that holds
\* the largest character is written as what it leaves out, and the null
\* character is left out with it.
Asserted(chars, c) ==
  IF contains(chars, END - 1) THEN Excluded(add_char(negate(chars), 0), c)
  ELSE Included(chars, c)

\* What remains to be tested beside a large set.
Against(set, ix, chars, ruled_out) ==
  LET cut == remove_intersection(chars, set)
  IN  [ix |-> ix, both |-> cut.both,
       additions |-> simplify_ignoring(cut.left, ruled_out),
       removals  |-> simplify_ignoring(cut.right, ruled_out)]

Cost(candidate) == range_count(candidate.additions) + range_count(candidate.removals)

NoLargeSet == [ix |-> 0, both |-> empty, additions |-> empty, removals |-> empty]

BestOf(candidates) ==
  IF candidates = {} THEN NoLargeSet
  ELSE CHOOSE x \in candidates : \A y \in candidates :
         Cost(x) < Cost(y) \/ (Cost(x) = Cost(y) /\ x.ix >= y.ix)

\* The large set with the fewest additions and removals, if any is worth it.
BestLargeSet(large_sets, chars, ruled_out) ==
  IF range_count(chars) < LARGE_CHARACTER_RANGE_COUNT THEN NoLargeSet
  ELSE BestOf({x \in {Against(large_sets[k], k, chars, ruled_out) : k \in DOMAIN large_sets} :
                 x.both # empty /\ Cost(x) < range_count(chars)})

SetContains(set, c) ==
  (\E i \in DOMAIN set : InRange(c, set[i])) /\ (contains(set, 0) => c # Eof)

ConditionWith(large_sets, best, chars, c) ==
  IF best.ix = 0 THEN chars = empty \/ Asserted(chars, c)
  ELSE /\ \/ SetContains(large_sets[best.ix], c)
          \/ best.additions # empty /\ Asserted(best.additions, c)
       /\ Excluded(best.removals, c)

Condition(large_sets, action, ruled_out, c) ==
  LET chars == simplify_ignoring(action.chars, ruled_out)
  IN  ConditionWith(large_sets, BestLargeSet(large_sets, chars, ruled_out), chars, c)

\* The leading transitions that ADVANCE_MAP implements, if they are many.
LeadingSimple(state) ==
  LET Simple(a) == /\ a.in_main_token
                   /\ \A i \in DOMAIN a.chars :
                        a.chars[i].end <= a.chars[i].start + 2 /\ a.chars[i].end < END
      count == Min({Len(state.advance_actions) + 1} \union
                   {k \in DOMAIN state.advance_actions : ~Simple(state.advance_actions[k])}) - 1
      ranges == MapThenSumSet(LAMBDA k : range_count(state.advance_actions[k].chars), 1 .. count)
  IN  IF ranges >= ADVANCE_MAP_RANGE_COUNT THEN count ELSE 0

NoAction == [state |-> 0, in_main_token |-> TRUE]

RuledOut(actions) == FoldLeft(LAMBDA acc, a : add(acc, a.chars), empty, actions)

\* The first transition whose test succeeds.
FirstTaken(large_sets, actions, lead, c) ==
  LET taken == {k \in DOMAIN actions :
                  IF k <= lead THEN contains(actions[k].chars, Lookahead(c))
                  ELSE Condition(large_sets, actions[k], RuledOut(SubSeq(actions, 1, k - 1)), c)}
      k == Min(taken)
  IN  IF taken = {} THEN NoAction
      ELSE [state |-> actions[k].state, in_main_token |-> actions[k].in_main_token]

RenderedAction(large_sets, state, c) ==
  IF c = Eof /\ state.eof_action # 0
    THEN [state |-> state.eof_action, in_main_token |-> TRUE]
    ELSE FirstTaken(large_sets, state.advance_actions, LeadingSimple(state), c)

\* The transition of the table itself.
TableAction(state, c) ==
  LET hits == {k \in DOMAIN state.advance_actions : contains(state.advance_actions[k].chars, c)}
      k    == CHOOSE k \in hits : TRUE
  IN  IF c = Eof THEN IF state.eof_action = 0 THEN NoAction
                      ELSE [state |-> state.eof_action, in_main_token |-> TRUE]
      ELSE IF hits = {} THEN NoAction
      ELSE [state |-> state.advance_actions[k].state,
            in_main_token |-> state.advance_actions[k].in_main_token]
=============================================================================
