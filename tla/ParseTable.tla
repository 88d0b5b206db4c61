----------------------------- MODULE ParseTable -----------------------------
(***************************************************************************)
(* crates/generate/src/build_tables/build_parse_table.rs: the parse states *)
(* of the item sets, and the resolution of conflicts.                      *)
(*                                                                         *)
(* The builder t keeps the states, for each state its kernel and the       *)
(* auxiliary symbols that precede it, the production infos, the states of  *)
(* the extras, and the conflicts that were declared and not met yet.  A    *)
(* state has terminal entries (a sequence of actions for each token),      *)
(* nonterminal entries (a state, 0 for ShiftExtra), a core id and the set  *)
(* of its reserved words.                                                  *)
(***************************************************************************)
EXTENDS ItemSets

Shift(state, repetition) == [type |-> "Shift", state |-> state, repetition |-> repetition]
ShiftExtra == [type |-> "ShiftExtra"]
Accept == [type |-> "Accept"]
Reduce(symbol, count, dyn, id) ==
  [type |-> "Reduce", symbol |-> symbol, child_count |-> count, dynamic_precedence |-> dyn,
   production_id |-> id]

is_auxiliary(g, v) == v # Augmented /\ g.variables[v].kind = Auxiliary
is_hidden(g, v) == g.variables[v].kind \in {Hidden, Auxiliary}

FirstIndex(seq, x) == CHOOSE i \in DOMAIN seq : seq[i] = x /\ \A j \in 1 .. i - 1 : seq[j] # x

-----------------------------------------------------------------------------
(* Precedence                                                                *)

EntryMatches(g, entry, prec_, symbols) ==
  \/ entry[1] = "name" /\ prec_ = NamedPrec(entry[2])
  \/ entry[1] = "symbol" /\ \E s \in symbols : s[2] # Augmented /\ g.variables[s[2]].name = entry[2]

\* The first ordering that has both decides; -1 is Less.
OrderedBy(g, list, left, left_symbols, right, right_symbols) ==
  LET L == {i \in DOMAIN list : EntryMatches(g, list[i], left, left_symbols)}
      R == {i \in DOMAIN list : EntryMatches(g, list[i], right, right_symbols)} \ L
      Less(i)    == i \in L /\ \E j \in R : j < i
      Greater(i) == i \in R /\ \E j \in L : j < i
      D == {i \in DOMAIN list : Less(i) \/ Greater(i)}
  IN  IF D = {} THEN 0
      ELSE IF Less(CHOOSE i \in D : \A j \in D : i <= j) THEN -1 ELSE 1

Compare(a, b) == IF a < b THEN -1 ELSE IF a > b THEN 1 ELSE 0
Integer(prec_) == IF prec_[1] = "Integer" THEN prec_[2] ELSE 0

\* Mutant: an integer precedence is not compared with the default one.
compare_precedence_NoDefault(g, left, left_symbols, right, right_symbols) ==
  IF left[1] = "Integer" /\ right[1] = "Integer" THEN Compare(Integer(left), Integer(right)) ELSE 0

compare_precedence(g, left, left_symbols, right, right_symbols) ==
  IF left[1] # "Name" /\ right[1] # "Name" /\ (Integer(left) # 0 \/ Integer(right) # 0)
    THEN Compare(Integer(left), Integer(right))
  ELSE LET o == [k \in DOMAIN g.precedences |->
                   OrderedBy(g, g.precedences[k], left, left_symbols, right, right_symbols)]
           D == {k \in DOMAIN o : o[k] # 0}
       IN  IF D = {} THEN 0 ELSE o[CHOOSE k \in D : \A j \in D : k <= j]

-----------------------------------------------------------------------------
(* Production infos                                                          *)

RECURSIVE TrimNone(_)
TrimNone(seq) ==
  IF seq # <<>> /\ seq[Len(seq)] = <<>> THEN TrimNone(SubSeq(seq, 1, Len(seq) - 1)) ELSE seq

\* The aliases of the children and where the fields are: <<field, child,
\* inherited>>.
ProductionInfo(g, info, p) ==
  LET steps == g.productions[p].steps
      Fields(s) == IF is_non_terminal(s) /\ is_hidden(g, s[2]) THEN DOMAIN info[s[2]].fields ELSE {}
  IN  [aliases |-> TrimNone([i \in DOMAIN steps |-> steps[i].alias]),
       fields  |-> {<<steps[i].field, i, FALSE>> : i \in {i \in DOMAIN steps : steps[i].field # <<>>}}
                     \union UNION {{<<f, i, TRUE>> : f \in Fields(steps[i].symbol)} : i \in DOMAIN steps}]

NoProductionInfo == [aliases |-> <<>>, fields |-> {}]

AddInfo(infos, info) == IF info \in ToSet(infos) THEN infos ELSE Append(infos, info)

-----------------------------------------------------------------------------
(* States                                                                    *)

NewState(core_id) ==
  [terminals |-> [s \in {} |-> <<>>], nonterminals |-> [s \in {} |-> 0], core_id |-> core_id,
   reserved |-> {}, eof_gated |-> FALSE]

\* A state for a kernel that has none; states are numbered as they are queued.
add_parse_state(t, aux, kernel) ==
  IF kernel \in ToSet(t.kernels) THEN t
  ELSE LET same == {k \in DOMAIN t.kernels : core(t.kernels[k]) = core(kernel)}
           id   == IF same = {} THEN Len(t.kernels) + 1 ELSE t.states[CHOOSE k \in same : TRUE].core_id
       IN  [t EXCEPT !.kernels = Append(@, kernel), !.aux = Append(@, aux),
                     !.states = Append(@, NewState(id))]

StateOf(t, kernel) == FirstIndex(t.kernels, kernel)

\* The item sets of the extras that are rules, by their first tokens.
ExtraSets(g) ==
  LET rules == {v \in DOMAIN g.variables : non_terminal(v) \in ToSet(g.extras)}
      prods == UNION {{<<v, p>> : p \in ToSet(g.var_prods[v])} : v \in rules}
      First(x) == g.productions[x[2]].steps[1].symbol
  IN  [s \in {First(x) : x \in prods} |->
         FoldSet(LAMBDA x, set : insert(set, Item(g, 2, x[1], x[2], FALSE),
                                        Entry({end_of_nonterminal_extra}, 1)),
                 EmptySet, {x \in prods : First(x) = s})]

\* ParseTableBuilder::build up to the queue: the error state 1, the start
\* state 2, the states of the extras.
StartTable(g, extras) ==
  LET t0 == [states |-> <<>>, kernels |-> <<>>, aux |-> <<>>, infos |-> <<NoProductionInfo>>,
             extra_states |-> <<>>, unmet |-> ToSet(g.conflicts),
             refused |-> \E s \in DOMAIN extras : is_non_terminal(s)]
      t2 == add_parse_state(add_parse_state(t0, <<>>, EmptySet), <<>>, StartItem :> Entry({end}, 1))
      Add(t, s) ==
        LET u == add_parse_state(t, <<>>, extras[s])
        IN  [u EXCEPT !.extra_states = Append(@, <<s, StateOf(u, extras[s])>>)]
  IN  FoldLeft(Add, t2, SortedSymbols(DOMAIN extras))

-----------------------------------------------------------------------------
(* add_actions                                                               *)

NoReduction == [prec |-> NoPrec, symbols |-> {}, assocs |-> {}]

\* Reductions of lower precedence give way to those of higher precedence.
AddReduction(g, acc, item, action, symbol, lookahead) ==
  LET actions == IF lookahead \in DOMAIN acc.terminals THEN acc.terminals[lookahead] ELSE <<>>
      info    == IF lookahead \in DOMAIN acc.reductions THEN acc.reductions[lookahead] ELSE NoReduction
      order   == IF actions = <<>> THEN 2
                 ELSE compare_precedence(g, precedence(g, item), {symbol}, info.prec, info.symbols)
      base    == IF order = 1 THEN NoReduction ELSE info
      repeated == order = 0 /\ action \in ToSet(actions)
  IN  IF order = -1 THEN acc
      ELSE [acc EXCEPT
              !.terminals = (lookahead :> (IF order > 0 THEN <<action>>
                                           ELSE IF repeated THEN actions ELSE Append(actions, action))) @@ @,
              !.conflicts = IF order = 1 THEN @ \ {lookahead}
                            ELSE IF order = 0 /\ ~repeated THEN @ \union {lookahead} ELSE @,
              !.reductions = (lookahead :> [prec |-> precedence(g, item),
                                            symbols |-> base.symbols \union {symbol},
                                            assocs |-> base.assocs \union {associativity(g, item)}]) @@ @]

ReduceOn(g, item, entry) ==
  IF requires_eof_lookahead(g, item) THEN entry.lookaheads \intersect {end} ELSE entry.lookaheads

\* A finished item.
AddReduce(g, info, acc, item, entry) ==
  LET infos  == IF item[2] = Augmented THEN acc.infos
                ELSE AddInfo(acc.infos, ProductionInfo(g, info, item[3]))
      action == IF item[2] = Augmented THEN Accept
                ELSE Reduce(non_terminal(item[2]), item[1] - 1,
                            g.productions[item[3]].dynamic_precedence,
                            FirstIndex(infos, ProductionInfo(g, info, item[3])) - 1)
  IN  FoldLeft(LAMBDA a, l : AddReduction(g, a, item, action, non_terminal(item[2]), l),
               [acc EXCEPT !.infos = infos, !.eof_gated = @ \/ requires_eof_lookahead(g, item)],
               SortedSymbols(ReduceOn(g, item, entry)))

\* The rules other than auxiliary ones in which an auxiliary symbol comes next.
get_auxiliary_node_info(g, set, symbol) ==
  [symbol |-> symbol,
   parents |-> {non_terminal(i[2]) : i \in {i \in DOMAIN set : ~is_done(g, i) /\ step(g, i).symbol = symbol
                                                             /\ ~is_auxiliary(g, i[2])}}]

InheritsFields(g, info, symbol) ==
  is_non_terminal(symbol) /\ is_hidden(g, symbol[2]) /\ DOMAIN info[symbol[2]].fields # {}

\* An unfinished item goes into the successor set of its next symbol.
AddSuccessor(g, info, set, acc, item) ==
  LET symbol == step(g, item).symbol
      next   == successor(g, item, InheritsFields(g, info, symbol))
      old    == IF symbol \in DOMAIN acc.successors THEN acc.successors[symbol] ELSE EmptySet
  IN  [acc EXCEPT
        !.successors = (symbol :> insert(old, next, set[item])) @@ @,
        !.aux = IF is_non_terminal(symbol) /\ is_auxiliary(g, symbol[2])
                  THEN Append(@, get_auxiliary_node_info(g, set, symbol)) ELSE @]

Dedup1(seq) ==
  FoldLeft(LAMBDA acc, x : IF acc # <<>> /\ acc[Len(acc)] = x THEN acc ELSE Append(acc, x), <<>>, seq)

\* The reductions, the successor sets and the auxiliary symbols of a state.
Examine(g, info, t, q, set) ==
  LET start == [terminals |-> t.states[q].terminals, reductions |-> <<>>, conflicts |-> {},
                successors |-> <<>>, aux |-> t.aux[q], infos |-> t.infos, eof_gated |-> FALSE]
      acc   == FoldLeft(LAMBDA a, item : IF is_done(g, item) THEN AddReduce(g, info, a, item, set[item])
                                         ELSE AddSuccessor(g, info, set, a, item),
                        start, SortedItems(g, DOMAIN set))
  IN  [acc EXCEPT !.aux = Dedup1(@)]

\* The states of the successor sets: tokens first.
AddSuccessors(t, x) ==
  LET tokens == SortedSymbols({s \in DOMAIN x.successors : ~is_non_terminal(s)})
      rules  == SortedSymbols({s \in DOMAIN x.successors : is_non_terminal(s)})
  IN  FoldLeft(LAMBDA u, s : add_parse_state(u, x.aux, x.successors[s]),
               [t EXCEPT !.infos = x.infos], tokens \o rules)

\* The state with a Shift for every token and a Goto for every rule that comes next.
WithSuccessors(t, q, x) ==
  LET tokens == {s \in DOMAIN x.successors : ~is_non_terminal(s)}
      rules  == DOMAIN x.successors \ tokens
      Old(s) == IF s \in DOMAIN x.terminals THEN x.terminals[s] ELSE <<>>
  IN  [t.states[q] EXCEPT
        !.terminals = [s \in tokens |-> Append(Old(s), Shift(StateOf(t, x.successors[s]), FALSE))]
                        @@ x.terminals,
        !.nonterminals = [s \in rules |-> StateOf(t, x.successors[s])],
        !.eof_gated = x.eof_gated]

ConflictsOf(x) ==
  x.conflicts \union {s \in DOMAIN x.successors \intersect DOMAIN x.terminals : x.terminals[s] # <<>>}

-----------------------------------------------------------------------------
(* handle_conflict                                                           *)

\* The unfinished items that shift the token, past their first symbols.
ShiftItems(g, b, set, lookahead) ==
  {i \in DOMAIN set : ~is_done(g, i) /\ i[1] > 1 /\ lookahead \in first_set(b, step(g, i).symbol)}

ReduceItems(g, set, lookahead) ==
  {i \in DOMAIN set : is_done(g, i) /\ lookahead \in set[i].lookaheads}

NotAugmented(items) == {i \in items : i[2] # Augmented}

IsShift(action) == action.type = "Shift"
KeepLast(actions) == <<actions[Len(actions)]>>
Pop(actions) == SubSeq(actions, 1, Len(actions) - 1)

IsRepetition(g, items) ==
  LET variables == {i[2] : i \in items} IN Cardinality(variables) = 1 /\ \A v \in variables : is_auxiliary(g, v)

\* The Shift wins: by precedence, or at equal precedence where all reductions
\* are right associative.
KeepShift(orders, assocs) ==
  \/ 1 \in orders /\ -1 \notin orders
  \/ -1 \in orders /\ 1 \notin orders /\ 0 \in orders /\ assocs = {"Right"}
  \/ -1 \notin orders /\ 1 \notin orders /\ assocs = {"Right"}

DropShift(orders, assocs) ==
  \/ -1 \in orders /\ 1 \notin orders /\ ~(0 \in orders /\ assocs = {"Right"})
  \/ -1 \notin orders /\ 1 \notin orders /\ assocs = {"Left"}

\* The rules a conflict is between; for an auxiliary one those it is part of.
ConflictSymbols(g, aux, items) ==
  UNION {IF ~is_auxiliary(g, i[2]) THEN {non_terminal(i[2])}
         ELSE LET at == {k \in DOMAIN aux : aux[k].symbol = non_terminal(i[2])}
              IN  IF at = {} THEN {} ELSE aux[CHOOSE k \in at : \A j \in at : j <= k].parents : i \in items}

\* What remains of the actions, and the conflict if it is not resolved.
Resolve(g, b, set, x, lookahead, actions) ==
  LET shifts  == ShiftItems(g, b, set, lookahead)
      items   == NotAugmented(shifts \union ReduceItems(g, set, lookahead))
      red     == x.reductions[lookahead]
      orders  == {compare_precedence(g, precedence(g, i), {non_terminal(i[2])}, red.prec, red.symbols) :
                    i \in shifts}
      last    == actions[Len(actions)]
      Kept(as, its) == [actions |-> as, open |-> Len(as) > 1, conflict |-> ConflictSymbols(g, x.aux, its)]
  IN  IF ~IsShift(last) THEN Kept(actions, items)
      ELSE IF IsRepetition(g, items)
        THEN [actions |-> Append(Pop(actions), Shift(last.state, TRUE)), open |-> FALSE, conflict |-> {}]
      ELSE IF KeepShift(orders, red.assocs) THEN Kept(KeepLast(actions), items)
      ELSE IF DropShift(orders, red.assocs) THEN Kept(Pop(actions), {i \in items : is_done(g, i)})
      ELSE Kept(actions, items)

\* Every conflict of a state: resolved, declared in the grammar, or refused.
Resolutions(g, b, set, x, state) ==
  [l \in ConflictsOf(x) |-> Resolve(g, b, set, x, l, state.terminals[l])]

-----------------------------------------------------------------------------
(* Extras and reserved words                                                 *)

AtEndOfExtra(state) == end_of_nonterminal_extra \in DOMAIN state.terminals

\* Mutant: no extras before a token that can begin one.
AddExtras_None(g, t, state) == state

\* Every state but one at the end of an extra goes on with the extras.
AddExtras(g, t, state) ==
  IF AtEndOfExtra(state) THEN state
  ELSE LET rules  == {s \in ToSet(g.extras) : is_non_terminal(s)}
           tokens == ToSet(g.extras) \ rules
           firsts == {t.extra_states[k][1] : k \in DOMAIN t.extra_states}
           Of(s)  == CHOOSE k \in DOMAIN t.extra_states : t.extra_states[k][1] = s
       IN  [state EXCEPT
              !.terminals = @ @@ [s \in firsts |-> <<Shift(t.extra_states[Of(s)][2], FALSE)>>]
                              @@ [s \in tokens |-> <<ShiftExtra>>],
              !.nonterminals = [s \in rules |-> 0] @@ @]

\* The largest of the reserved word sets of the items that meet the word token.
ReservedOf(g, set) ==
  LET ids == {step(g, i).reserved : i \in {i \in DOMAIN set : ~is_done(g, i) /\ step(g, i).symbol = g.word}}
               \union {set[i].reserved : i \in {i \in DOMAIN set : is_done(g, i) /\ g.word \in set[i].lookaheads}}
  IN  IF g.word = <<>> \/ ids = {} THEN {}
      ELSE g.reserved_sets[CHOOSE r \in ids : \A s \in ids : s <= r]

\* add_actions once the successors have states; r resolves the conflicts.
Finish(g, t, q, set, state, r) ==
  LET conflicts == {r[l].conflict : l \in {l \in DOMAIN r : r[l].open}}
      resolved  == [state EXCEPT !.terminals = [l \in DOMAIN r |-> r[l].actions] @@ @]
      done      == AddExtras(g, t, resolved)
  IN  [t EXCEPT
        !.states[q] = [done EXCEPT !.reserved = ReservedOf(g, set)],
        !.unmet = @ \ conflicts,
        !.refused = \/ @
                    \/ \E c \in conflicts : c \notin ToSet(g.conflicts)
                    \/ AtEndOfExtra(resolved) /\ Cardinality(DOMAIN resolved.terminals) > 1]

FinishState(g, b, t, q, set, x) ==
  LET state == WithSuccessors(t, q, x) IN Finish(g, t, q, set, state, Resolutions(g, b, set, x, state))

ExamineState(g, b, info, t, q, set, x) == FinishState(g, b, AddSuccessors(t, x), q, set, x)

add_actions(g, b, info, t, q, set) ==
  ExamineState(g, b, info, t, q, set, Examine(g, info, t, q, set))
=============================================================================
