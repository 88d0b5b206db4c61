------------------------- MODULE MinimizeParseTable -------------------------
(***************************************************************************)
(* crates/generate/src/build_tables.rs and minimize_parse_table.rs: the    *)
(* error state, and the states that are merged, bypassed, dropped and      *)
(* sorted.  What token_conflicts.rs finds of the tokens is given with the  *)
(* grammar: lex.conflict, lex.overlap and lex.longer (one matches shorter  *)
(* or longer) are sets of pairs of terminals, lex.keywords a set of        *)
(* terminals.                                                              *)
(***************************************************************************)
EXTENDS ParseTable

Recover == [type |-> "Recover"]

-----------------------------------------------------------------------------
(* build_tables.rs                                                           *)

Coincident(states, i, j) ==
  \E q \in DOMAIN states : {terminal(i), terminal(j)} \subseteq DOMAIN states[q].terminals

\* Tokens that match neither shorter nor longer than another that they do not
\* appear with.
ConflictFree(g, states) ==
  {i \in DOMAIN g.lexical :
     \A j \in DOMAIN g.lexical \ {i} : Coincident(states, i, j) \/ <<i, j>> \notin g.lex.longer}

\* Recovery from an error begins at any token but those that a conflict-free
\* token conflicts with.
RecoverTokens(g, states) ==
  LET free == ConflictFree(g, states)
  IN  {i \in DOMAIN g.lexical :
         \/ i \in free \/ i \in g.lex.keywords \/ g.word = terminal(i)
         \/ \A t \in free : Coincident(states, i, t) \/ <<i, t>> \notin g.lex.conflict}

populate_error_state(g, states) ==
  LET own == {external(k) : k \in {k \in DOMAIN g.externals : g.externals[k].internal = 0}}
      all == {terminal(i) : i \in RecoverTokens(g, states)} \union own
  IN  [states EXCEPT ![1].terminals =
         (end :> <<Recover>>) @@ @ @@ [s \in all |-> <<Recover>>]]

\* The symbols of the language in order; the word token comes right after the end.
populate_used_symbols(g, states) ==
  LET tokens == UNION {DOMAIN states[q].terminals : q \in DOMAIN states}
      rules  == UNION {DOMAIN states[q].nonterminals : q \in DOMAIN states}
      word   == IF g.word \in tokens THEN <<g.word>> ELSE <<>>
  IN  <<end>> \o word
        \o SortedSymbols({s \in tokens : is_terminal(s) /\ s # g.word})
        \o SortedSymbols({s \in tokens : is_external(s)})
        \o SortedSymbols(rules)

\* The tokens of a state that another token of it overlaps: their subtrees are
\* not reused.
mark_fragile_tokens(g, state) ==
  {s \in DOMAIN state.terminals :
     is_terminal(s) /\ \E x \in DOMAIN state.terminals :
                          is_terminal(x) /\ <<x[2], s[2]>> \in g.lex.overlap}

\* For each state the external tokens that are valid, number 1 for none.
populate_external_lex_states(g, states) ==
  LET Of(q) == {s \in DOMAIN states[q].terminals : is_external(s)}
                 \union {external(k) : k \in {k \in DOMAIN g.externals :
                           g.externals[k].internal # 0
                             /\ terminal(g.externals[k].internal) \in DOMAIN states[q].terminals}}
      sets == FoldLeft(LAMBDA acc, q : IF Of(q) \in ToSet(acc) THEN acc ELSE Append(acc, Of(q)),
                       <<{}>>, [q \in DOMAIN states |-> q])
  IN  [sets |-> sets, of |-> [q \in DOMAIN states |-> FirstIndex(sets, Of(q))]]

-----------------------------------------------------------------------------
(* merge_compatible_states                                                   *)

\* Both lists have equal actions, up to the groups of the states they shift to.
entries_conflict(a, b, ids) ==
  \/ Len(a) # Len(b)
  \/ \E k \in DOMAIN a :
       IF IsShift(a[k]) /\ IsShift(b[k])
         THEN ids[a[k].state] # ids[b[k].state] \/ a[k].repetition # b[k].repetition
         ELSE a[k] # b[k]

\* The end has no row of its own and is given the first token's.
RowOf(new) == IF new = end THEN 1 ELSE new[2]

\* Mutant: tokens are added to a state whatever they conflict with.
token_conflicts_Never(g, state, new) == new = end_of_nonterminal_extra \/ is_external(new)

\* The token may not be added to the state.
token_conflicts(g, state, new) ==
  \/ new = end_of_nonterminal_extra
  \/ is_external(new)
  \/ /\ new \notin state.reserved
     /\ \/ is_terminal(new) /\ \E k \in DOMAIN g.externals : g.externals[k].internal = new[2]
        \/ \E s \in DOMAIN state.terminals :
             /\ is_terminal(s)
             /\ <<RowOf(new), s[2]>> \in g.lex.conflict
             /\ ~(g.word # <<>> /\ s = g.word /\ is_terminal(new) /\ new[2] \in g.lex.keywords)
             /\ ~(g.word # <<>> /\ new = g.word /\ s[2] \in g.lex.keywords)

states_conflict(left, right, ids) ==
  LET a == left.state.terminals
      b == right.state.terminals
  IN  \/ \E s \in DOMAIN a \intersect DOMAIN b : entries_conflict(a[s], b[s], ids)
      \/ \E s \in DOMAIN a \ DOMAIN b : token_conflicts(left.g, right.state, s)
      \/ \E s \in DOMAIN b \ DOMAIN a : token_conflicts(left.g, left.state, s)

\* The state a token is shifted to, 0 for none.
ShiftTarget(actions) ==
  IF actions # <<>> /\ IsShift(actions[Len(actions)]) THEN actions[Len(actions)].state ELSE 0

state_successors_differ(left, right, ids) ==
  LET a == left.state
      b == right.state
      T == {s \in DOMAIN a.terminals \intersect DOMAIN b.terminals :
              ShiftTarget(a.terminals[s]) # 0 /\ ShiftTarget(b.terminals[s]) # 0}
      N == DOMAIN a.nonterminals \intersect DOMAIN b.nonterminals
  IN  \/ \E s \in T : ids[ShiftTarget(a.terminals[s])] # ids[ShiftTarget(b.terminals[s])]
      \/ \E s \in N :
           LET x == a.nonterminals[s]
               y == b.nonterminals[s]
           IN  IF x = 0 \/ y = 0 THEN x # y ELSE ids[x] # ids[y]

ByEntries == INSTANCE Dedup WITH Differ <- states_conflict
BySuccessors == INSTANCE Dedup WITH Differ <- state_successors_differ

\* The states grouped by their cores, in the order of the cores.
CoreGroups(states) ==
  LET ids == {states[q].core_id : q \in DOMAIN states}
      Members(c) == SelectSeq([q \in DOMAIN states |-> q], LAMBDA q : states[q].core_id = c)
      Sorted == SelectSeq([c \in DOMAIN states |-> c], LAMBDA c : c \in ids)
  IN  [k \in DOMAIN Sorted |-> Members(Sorted[k])]

Wrapped(g, states) == [q \in DOMAIN states |-> [g |-> g, state |-> states[q]]]

Groups(wrapped, groups) ==
  BySuccessors!SplitAll(wrapped, ByEntries!SplitFrom(wrapped, groups, 1), 1)

RemapActions(actions, F(_)) ==
  [k \in DOMAIN actions |-> IF IsShift(actions[k]) THEN Shift(F(actions[k].state), actions[k].repetition)
                            ELSE actions[k]]

Remap(state, F(_)) ==
  [state EXCEPT !.terminals = [s \in DOMAIN @ |-> RemapActions(@[s], F)],
                !.nonterminals = [s \in DOMAIN @ |-> IF @[s] = 0 THEN 0 ELSE F(@[s])]]

\* The states of a group in one; reserved words that are tokens are not reserved.
MergeStates(states, group) ==
  FoldLeft(LAMBDA acc, q :
             LET terminals == states[q].terminals @@ acc.terminals
             IN  [acc EXCEPT !.terminals = terminals,
                             !.nonterminals = states[q].nonterminals @@ @,
                             !.eof_gated = @ \/ states[q].eof_gated,
                             !.reserved = (@ \union states[q].reserved) \ DOMAIN terminals],
           states[group[1]], Tail(group))

merge_compatible_states(states, groups) ==
  LET ids == ByEntries!GroupOf(groups)
      New(q) == ids[q]
  IN  [k \in DOMAIN groups |-> Remap(MergeStates(states, groups[k]), New)]

-----------------------------------------------------------------------------
(* remove_unit_reductions                                                    *)

AliasedSymbols(g) ==
  UNION {{s.symbol : s \in {s \in ToSet(g.productions[p].steps) : s.alias # <<>>}} :
           p \in UNION {ToSet(g.var_prods[v]) : v \in DOMAIN g.var_prods}}

\* A reduction that leaves no trace in the tree.
IsUnitReduction(g, action) ==
  /\ action.type = "Reduce" /\ action.child_count = 1 /\ action.production_id = 0
  /\ action.symbol \notin DOMAIN g.default_aliases \union ToSet(g.supertypes) \union ToSet(g.extras)
                            \union AliasedSymbols(g)
  /\ g.variables[action.symbol[2]].kind # Named

\* The symbol the state reduces to if it does nothing else, <<>> for none.
UnitReduction(g, state) ==
  LET actions == (UNION {ToSet(state.terminals[s]) : s \in DOMAIN state.terminals}) \ {ShiftExtra}
      symbols == {a.symbol : a \in {a \in actions : IsUnitReduction(g, a)}}
  IN  IF ~state.eof_gated /\ (\A a \in actions : IsUnitReduction(g, a)) /\ Cardinality(symbols) = 1
        THEN CHOOSE s \in symbols : TRUE ELSE <<>>

\* Past the unit reductions, as long as there are any.
RECURSIVE Bypass(_, _)
Bypass(units, state) ==
  LET Goto(q) == IF units[q] = <<>> THEN q
                 ELSE IF units[q] \in DOMAIN state.nonterminals /\ state.nonterminals[units[q]] # 0
                   THEN state.nonterminals[units[q]] ELSE q
      next == Remap(state, Goto)
  IN  IF next = state THEN state ELSE Bypass(units, next)

remove_unit_reductions(states, units) == [q \in DOMAIN states |-> Bypass(units, states[q])]

-----------------------------------------------------------------------------
(* remove_unused_states and reorder_states_by_descending_size                *)

referenced_states(state) ==
  ({state.nonterminals[s] : s \in DOMAIN state.nonterminals} \ {0})
    \union UNION {{a.state : a \in {a \in ToSet(state.terminals[s]) : IsShift(a)}} :
                    s \in DOMAIN state.terminals}

UsedStates(states) == {1, 2} \union UNION {referenced_states(states[q]) : q \in DOMAIN states}

\* The states in the given order, and their references.
Renumber(states, order) ==
  LET New(q) == FirstIndex(order, q) IN [k \in DOMAIN order |-> Remap(states[order[k]], New)]

remove_unused_states(states) ==
  Renumber(states, SelectSeq([q \in DOMAIN states |-> q], LAMBDA q : q \in UsedStates(states)))

Size(state) == Cardinality(DOMAIN state.terminals) + Cardinality(DOMAIN state.nonterminals)

reorder_states_by_descending_size(states) ==
  Renumber(states,
           <<1, 2>> \o SortedBy(3 .. Len(states),
              LAMBDA a, b : Size(states[a]) > Size(states[b])
                              \/ (Size(states[a]) = Size(states[b]) /\ a < b)))
=============================================================================
