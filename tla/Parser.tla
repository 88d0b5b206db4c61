------------------------------- MODULE Parser -------------------------------
(***************************************************************************)
(* The parse loop (lib/src/parser.c): a GLR parser that advances several   *)
(* versions of the stack, prunes them, and recovers from errors.           *)
(*                                                                         *)
(* A parse here has no old tree and no external scanner, and the language  *)
(* has no keywords and no nonterminal extras: node reuse, the token cache, *)
(* ts_parser__breakdown_top_of_stack and keyword capture have no effect.   *)
(* The progress callback may stop the parse whenever it is asked.          *)
(***************************************************************************)
EXTENDS Stack

CONSTANTS
  Languages,                    \* the languages to parse with
  Documents,                    \* the documents of a language
  MAX_VERSION_COUNT,
  MAX_VERSION_COUNT_OVERFLOW,
  MAX_SUMMARY_DEPTH,
  MaxCancellations              \* bound: how often the callback stops a parse

ASSUME ParserLimitsAssumption ==
  /\ MAX_VERSION_COUNT \in Nat \ {0}
  /\ {MAX_VERSION_COUNT_OVERFLOW, MAX_SUMMARY_DEPTH, MaxCancellations} \subseteq Nat

MAX_COST_DIFFERENCE == 18 * ERROR_COST_PER_SKIPPED_TREE

UINT_MAX == 1000000            \* larger than every cost

VARIABLES
  language,        \* the language: see Actions, Goto
  document,        \* the characters: a token, Blank or Unknown each
  parser,          \* stack, finished_tree, accept_count and has_error
  pc,              \* where ts_parser_parse is, or was when it returned
  version,         \* its loop variable, or the argument of ts_parser__advance
  lookahead,       \* the local variable of ts_parser__advance
  last_position,   \* the local variable of ts_parser_parse
  cancellations,   \* how often this parse was stopped
  result,          \* the tree that the last call returned
  reference        \* history: the tree of the same document parsed in one go

vars == <<language, document, parser, pc, version, lookahead, last_position,
          cancellations, result, reference>>

\* idle:      no parse is running or outstanding
\* version:   at the top of the loop over the versions
\* advance:   at the top of an iteration of ts_parser__advance
\* condense:  after the loop over the versions
\* balance:   in ts_parser__balance_subtree
\* canceled:  the callback stopped the parse; balancing_canceled: while balancing
Control ==
  {"idle", "version", "advance", "condense", "balance", "canceled", "balancing_canceled"}

ts_parser_new ==
  [stack |-> ts_stack_new, finished_tree |-> NULL_SUBTREE, accept_count |-> 0,
   has_error |-> FALSE]

-----------------------------------------------------------------------------
(* The parse table.  A language is a record of its token_count, actions    *)
(* (from pairs of a state and a token to sequences), gotos (from pairs of  *)
(* a state and a nonterminal), and the productions of its grammar.         *)

Blank == -1
Unknown == -2

Shift(state) == [type |-> "shift", state |-> state, extra |-> FALSE]
ShiftExtra == [type |-> "shift", state |-> 0, extra |-> TRUE]
Reduce(symbol, count, precedence) ==
  [type |-> "reduce", symbol |-> symbol, count |-> count,
   dynamic_precedence |-> precedence]
Accept == [type |-> "accept"]
Recover == [type |-> "recover"]

ts_language_actions(state, symbol) ==
  IF <<state, symbol>> \in DOMAIN language.actions
    THEN language.actions[<<state, symbol>>] ELSE <<>>

ts_language_has_actions(state, symbol) == ts_language_actions(state, symbol) # <<>>

ts_language_has_reduce_action(state, symbol) ==
  /\ ts_language_has_actions(state, symbol)
  /\ ts_language_actions(state, symbol)[1].type = "reduce"

ts_language_next_state(state, symbol) ==
  LET actions == ts_language_actions(state, symbol)
      last    == Last(actions)
  IN  IF symbol >= language.token_count
        THEN IF <<state, symbol>> \in DOMAIN language.gotos
               THEN language.gotos[<<state, symbol>>] ELSE 0
      ELSE IF actions = <<>> \/ last.type # "shift" THEN 0
      ELSE IF last.extra THEN state ELSE last.state

\* ts_parser__lex at a position (module Lex has its detail): blanks are
\* padding, characters that no token begins with make up one error leaf, and
\* a token is one character.
ts_parser__lex(position) ==
  LET n      == Len(document)
      text   == {i \in (position + 1) .. n : document[i] # Blank}
      start  == Min(text)
      tokens == {i \in start .. n : document[i] \notin {Blank, Unknown}}
      stop   == IF tokens = {} THEN n + 1 ELSE Min(tokens)
      last   == Max({i \in start .. (stop - 1) : document[i] = Unknown})
      padding == start - position - 1
  IN  IF text = {} THEN ts_subtree_new_leaf(ts_builtin_sym_end, n - position, 0)
      ELSE IF document[start] = Unknown
        THEN ts_subtree_new_leaf(ts_builtin_sym_error, padding, last - start + 1)
      ELSE ts_subtree_new_leaf(document[start], padding, 1)

-----------------------------------------------------------------------------
(* Choosing between trees and between versions.                            *)

\* Mutant: the lower precedence wins.
ts_parser__select_tree_LowPrecedence(left, right) ==
  IF left.error_cost # right.error_cost THEN right.error_cost < left.error_cost
  ELSE ts_subtree_dynamic_precedence(right) < ts_subtree_dynamic_precedence(left)

\* Whether the right tree replaces the left one.
ts_parser__select_tree(left, right) ==
  LET precedence(tree) == ts_subtree_dynamic_precedence(tree)
  IN  IF left.error_cost # right.error_cost THEN right.error_cost < left.error_cost
      ELSE IF precedence(left) # precedence(right)
        THEN precedence(right) > precedence(left)
      ELSE left.error_cost > 0 \/ ts_subtree_compare(left, right) = 1

ts_parser__version_status(s, v) ==
  LET paused == ts_stack_is_paused(s, v)
  IN  [cost |-> ts_stack_error_cost(s, v)
                  + (IF paused THEN ERROR_COST_PER_SKIPPED_TREE ELSE 0),
       node_count |-> ts_stack_node_count_since_error(s, v),
       dynamic_precedence |-> ts_stack_dynamic_precedence(s, v),
       is_in_error |-> paused \/ ts_stack_state(s, v) = ERROR_STATE]

ts_parser__compare_versions(a, b) ==
  LET much(better, worse) ==
        (worse.cost - better.cost) * (1 + better.node_count) > MAX_COST_DIFFERENCE
  IN  CASE ~a.is_in_error /\ b.is_in_error ->
             IF a.cost < b.cost THEN "TakeLeft" ELSE "PreferLeft"
        [] a.is_in_error /\ ~b.is_in_error ->
             IF b.cost < a.cost THEN "TakeRight" ELSE "PreferRight"
        [] OTHER ->
             IF a.cost < b.cost THEN IF much(a, b) THEN "TakeLeft" ELSE "PreferLeft"
             ELSE IF b.cost < a.cost THEN IF much(b, a) THEN "TakeRight" ELSE "PreferRight"
             ELSE IF a.dynamic_precedence > b.dynamic_precedence THEN "PreferLeft"
             ELSE IF b.dynamic_precedence > a.dynamic_precedence THEN "PreferRight"
             ELSE "None"

\* Whether a version is clearly better than version v would be with this cost
\* (v is not in error), and the stack after the node counts were taken.
BetterVersionExists(s, v, cost) ==
  LET status == [ts_parser__version_status(s, v) EXCEPT !.cost = cost, !.is_in_error = FALSE]
      rivals == {i \in Versions(s) : /\ i # v
                                     /\ ts_stack_is_active(s, i)
                                     /\ ts_stack_position(s, i) >= ts_stack_position(s, v)}
      order(i) == ts_parser__compare_versions(status, ts_parser__version_status(s, i))
      better == {i \in rivals : \/ order(i) = "TakeRight"
                                \/ order(i) = "PreferRight" /\ ts_stack_can_merge(s, i, v)}
      looked == SelectSeq([i \in Versions(s) |-> i],
                          LAMBDA i : i \in rivals /\ \A j \in better : i <= j)
  IN  [exists |-> better # {}, stack |-> FoldLeft(CountErrors, s, looked)]

ts_parser__better_version_exists(p, v, cost) ==
  IF p.finished_tree # NULL_SUBTREE /\ p.finished_tree.error_cost <= cost
    THEN [exists |-> TRUE, stack |-> p.stack]
    ELSE BetterVersionExists(CountErrors(p.stack, v), v, cost)

-----------------------------------------------------------------------------
(* Reductions.                                                             *)

\* ts_stack_merge of version v into the first of the candidates that it can
\* be merged into, if there is one.
MergeInto(s, candidates, v) ==
  LET found == {j \in candidates : ts_stack_can_merge(s, j, v)}
  IN  IF found = {} THEN s ELSE ts_stack_merge(s, Min(found), v)

\* Mutant: as many versions as there are paths.
TooManyVersions_Never(s, v) == FALSE

TooManyVersions(s, v) ==
  v - 1 > MAX_VERSION_COUNT + MAX_VERSION_COUNT_OVERFLOW + ts_stack_halted_version_count(s)

\* Of the paths that end at the same node, the children to make a parent of.
SelectChildren(symbol, arrays) ==
  LET parent(trees) == ts_subtree_new_node(symbol, WithoutTrailingExtras(trees))
  IN  FoldLeft(LAMBDA best, trees : IF ts_parser__select_tree(parent(best), parent(trees))
                                      THEN trees ELSE best,
               Head(arrays), Tail(arrays))

\* Push the parent of the trees, and the extras after it.
PushParent(s, v, trees, state, action) ==
  FoldLeft(LAMBDA r, tree : ts_stack_push(r, v, tree, FALSE, state), s,
           <<[ts_subtree_new_node(action.symbol, WithoutTrailingExtras(trees)) EXCEPT
                !.dynamic_precedence = @ + action.dynamic_precedence]>> \o TrailingExtras(trees))

\* The paths of a pop that end at the same node share a version: reduce them
\* to one parent, push it, and merge the version.
ReduceSlices(r, slices, v, action) ==
  LET slice == slices[1].version - r.removed
      state == ts_language_next_state(ts_stack_state(r.stack, slice), action.symbol)
      arrays == [i \in 1 .. Len(slices) |-> slices[i].subtrees]
      with(stack) == [r EXCEPT !.stack = stack,
                               !.removed = @ + Len(r.stack.heads) - Len(stack.heads)]
  IN  with(IF TooManyVersions(r.stack, slice)
             THEN ts_stack_remove_version(r.stack, slice)
             ELSE MergeInto(PushParent(r.stack, slice, SelectChildren(action.symbol, arrays),
                                       state, action),
                            (1 .. (slice - 1)) \ {v}, slice))

\* The slices of a pop, those of the versions after the first count in turn.
ReducePaths(pop, v, count, action) ==
  LET added  == Cardinality({pop.slices[j].version : j \in 1 .. Len(pop.slices)})
      groups == [i \in 1 .. added |->
                   SelectSeq(pop.slices, LAMBDA slice : slice.version = count + i)]
  IN  FoldLeft(LAMBDA r, slices : ReduceSlices(r, slices, v, action),
               [stack |-> pop.stack, removed |-> 0], groups).stack

\* The reduction, and the first version it added if there is one.
ts_parser__reduce(s, v, action) ==
  LET count == ts_stack_version_count(s)
      outcome(stack) ==
        [stack |-> stack,
         version |-> IF ts_stack_version_count(stack) > count THEN count + 1
                                                              ELSE STACK_VERSION_NONE]
  IN  outcome(ReducePaths(ts_stack_pop_count(s, v, action.count), v, count, action))

\* ts_parser__process_candidate_recovery_actions: the reductions among the
\* actions, one for each symbol and child count.
CandidateReductions(actions) ==
  LET add(set, action) ==
        IF \/ action.type # "reduce" \/ action.count = 0
           \/ \E i \in 1 .. Len(set) : set[i].symbol = action.symbol /\ set[i].count = action.count
          THEN set ELSE Append(set, action)
  IN  FoldLeft(add, <<>>, actions)

HasShift(actions) ==
  \E i \in 1 .. Len(actions) :
     \/ actions[i].type = "recover"
     \/ actions[i].type = "shift" /\ ~actions[i].extra

\* The actions to consider: those of the symbol or, if it is 0, those of every
\* token but the end, the reductions to larger symbols first.
CandidateActions(state, symbol) ==
  LET all == FoldLeft(LAMBDA seen, token : seen \o ts_language_actions(state, token),
                      <<>>, [i \in 1 .. (language.token_count - 1) |-> i])
  IN  IF symbol # 0 THEN ts_language_actions(state, symbol) ELSE all

SortedReductions(reductions, symbol) ==
  LET insert(sorted, action) ==
        LET i == SelectInSeq(sorted, LAMBDA other : other.symbol < action.symbol)
        IN  IF i = 0 THEN Append(sorted, action) ELSE InsertAt(sorted, i, action)
  IN  IF symbol # 0 THEN reductions ELSE FoldLeft(insert, <<>>, reductions)

\* An iteration, the i-th, of ts_parser__do_all_potential_reductions: first and
\* initial are the version it started with and the number of versions then.
RECURSIVE PotentialReductions(_, _, _, _, _, _)
PotentialReductions(r, v, i, first, initial, symbol) ==
  LET s       == r.stack
      count   == ts_stack_version_count(s)
      actions == CandidateActions(ts_stack_state(s, v), symbol)
      next    == IF v = first THEN count + 1 ELSE v + 1
      again(stack) ==
        PotentialReductions([r EXCEPT !.stack = stack], v, i + 1, first, initial, symbol)
      after(reduced) ==
        IF HasShift(actions)
          THEN PotentialReductions([stack |-> reduced.stack, can_shift |-> TRUE],
                                   next, i + 1, first, initial, symbol)
        ELSE IF reduced.version # STACK_VERSION_NONE /\ i < MAX_VERSION_COUNT
          THEN again(ts_stack_renumber_version(reduced.stack, reduced.version, v))
        ELSE PotentialReductions(
               [r EXCEPT !.stack = IF symbol # 0 THEN ts_stack_remove_version(reduced.stack, v)
                                                 ELSE reduced.stack],
               next, i + 1, first, initial, symbol)
      step(merged, reduced) ==
        IF ts_stack_version_count(merged) < count THEN again(merged) ELSE after(reduced)
  IN  IF v > count THEN r
      ELSE step(MergeInto(s, (initial + 1) .. (v - 1), v),
                FoldLeft(LAMBDA done, action : ts_parser__reduce(done.stack, v, action),
                         [stack |-> s, version |-> STACK_VERSION_NONE],
                         SortedReductions(CandidateReductions(actions), symbol)))

\* Whether some version can shift the symbol after the reductions, and the
\* stack.  The symbol of the end of the file is 0: there it stands for any.
ts_parser__do_all_potential_reductions(s, starting_version, lookahead_symbol) ==
  PotentialReductions([stack |-> s, can_shift |-> FALSE], starting_version, 0,
                      starting_version, ts_stack_version_count(s), lookahead_symbol)

-----------------------------------------------------------------------------
(* Accepting and recovering.                                               *)

\* The root: the last tree that is not an extra, with the others around its
\* children.
Root(trees) ==
  LET j == LastStructural(trees)
  IN  ts_subtree_new_node(trees[j].symbol,
        SubSeq(trees, 1, j - 1) \o trees[j].children \o SubSeq(trees, j + 1, Len(trees)))

ts_parser__accept(p, v, eof) ==
  LET choose(q, root) ==
        [q EXCEPT !.accept_count = @ + 1,
                  !.finished_tree = IF @ = NULL_SUBTREE \/ ts_parser__select_tree(@, root)
                                      THEN root ELSE @]
      finish(q, slice) ==
        IF LastStructural(slice.subtrees) = 0
          THEN [q EXCEPT !.stack = Fault(@, "accept: root.ptr")]
          ELSE choose(q, Root(slice.subtrees))
      finished(pop) ==
        [FoldLeft(finish, [p EXCEPT !.stack = pop.stack], pop.slices) EXCEPT
           !.stack = ts_stack_halt(ts_stack_remove_version(@, pop.slices[1].version), v)]
  IN  finished(ts_stack_pop_all(ts_stack_push(p.stack, v, eof, FALSE, START_STATE), v))

\* Push the trees, wrapped in an ERROR, and the extras after them.
PushError(s, v, trees, goal_state) ==
  LET error(inside) ==
        IF inside = <<>> THEN <<>> ELSE <<ts_subtree_new_error_node(inside, TRUE)>>
  IN  FoldLeft(LAMBDA t, tree : ts_stack_push(t, v, tree, FALSE, goal_state), s,
               error(WithoutTrailingExtras(trees)) \o TrailingExtras(trees))

\* The trees of a popped path become an ERROR in the goal state, together with
\* the ERROR they follow.
RecoverSlice(s, slice, goal_state) ==
  LET nested(errors) ==
        IF errors = <<>> \/ errors[1].children = <<>> THEN <<>>
        ELSE <<ts_subtree_new_node(ts_builtin_sym_error_repeat, errors[1].children)>>
      push(pop) == PushError(pop.stack, slice.version, nested(pop.trees) \o slice.subtrees,
                             goal_state)
  IN  push(ts_stack_pop_error(s, slice.version))

\* The paths that end in the goal state are recovered, the other versions are
\* halted.
RecoverPaths(pop, goal_state) ==
  FoldLeft(LAMBDA r, slice :
             IF slice.version = r.previous THEN r
             ELSE IF ts_stack_state(r.stack, slice.version) # goal_state
               THEN [r EXCEPT !.stack = ts_stack_halt(@, slice.version)]
             ELSE [stack |-> RecoverSlice(r.stack, slice, goal_state),
                   previous |-> slice.version],
           [stack |-> pop.stack, previous |-> STACK_VERSION_NONE], pop.slices)

ts_parser__recover_to_state(s, v, depth, goal_state) ==
  RecoverPaths(ts_stack_pop_count(s, v, depth), goal_state)

\* Strategy 1 of ts_parser__recover: the i-th entry of the summary of states
\* before the error.  context has what was read at the beginning.
RECURSIVE RecoverToPrevious(_, _, _, _, _)
RecoverToPrevious(p, v, tree, context, i) ==
  LET entry  == context.summary[i]
      depth  == entry.depth + (IF context.node_count > 0 THEN 1 ELSE 0)
      useless == \/ entry.state = ERROR_STATE
                 \/ entry.position = context.position
                 \/ \E j \in 1 .. context.version_count :
                       /\ ts_stack_state(p.stack, j) = entry.state
                       /\ ts_stack_position(p.stack, j) = context.position
      cost   == context.error_cost + entry.depth * ERROR_COST_PER_SKIPPED_TREE
                  + (context.position - entry.position) * ERROR_COST_PER_SKIPPED_CHAR
      did(stack, recovered) == [parser |-> [p EXCEPT !.stack = stack], did_recover |-> recovered]
      next(stack) == RecoverToPrevious([p EXCEPT !.stack = stack], v, tree, context, i + 1)
      popped(pop) == IF pop.previous # STACK_VERSION_NONE THEN did(pop.stack, TRUE)
                                                          ELSE next(pop.stack)
      compared(better) ==
        IF better.exists THEN did(better.stack, FALSE)
        ELSE IF ~ts_language_has_actions(entry.state, tree.symbol) THEN next(better.stack)
        ELSE popped(ts_parser__recover_to_state(better.stack, v, depth, entry.state))
  IN  IF i > Len(context.summary) THEN did(p.stack, FALSE)
      ELSE IF useless THEN next(p.stack)
      ELSE compared(ts_parser__better_version_exists(p, v, cost))

\* Remove the versions after the first n that are not active.
RECURSIVE RemoveInactive(_, _)
RemoveInactive(s, n) ==
  LET inactive == {i \in (n + 1) .. ts_stack_version_count(s) : ~ts_stack_is_active(s, i)}
  IN  IF inactive = {} THEN s
      ELSE RemoveInactive(ts_stack_remove_version(s, Min(inactive)), n)

RemoveVersionsAfter(s, n) ==
  FoldLeft(LAMBDA t, i : ts_stack_remove_version(t, n + 1), s,
           [i \in 1 .. (ts_stack_version_count(s) - n) |-> i])

\* Strategy 2 of ts_parser__recover: wrap the token in an ERROR together with
\* the ERROR on top of the stack, and stay in the error state.
SkipToken(p, v, token, node_count) ==
  LET actions == ts_language_actions(START_STATE, token.symbol)
      extra   == /\ actions # <<>>
                 /\ Last(actions).type = "shift"
                 /\ Last(actions).extra
      error(trees) == ts_subtree_new_node(ts_builtin_sym_error_repeat, trees)
      skipped == error(<<IF extra THEN [token EXCEPT !.extra = TRUE] ELSE token>>)
      only(stack, slice) ==
        ts_stack_renumber_version(RemoveVersionsAfter(stack, slice.version), slice.version, v)
      joined(pop) ==
        ts_stack_push(only(pop.stack, pop.slices[1]), v,
                      error(Append(pop.slices[1].subtrees, skipped)), FALSE, ERROR_STATE)
      inError(s, i) == ts_parser__version_status(s, i).is_in_error
      looked(s) == SelectSeq([i \in Versions(s) |-> i],
                             LAMBDA i : \A j \in 1 .. (i - 1) : inError(s, j))
      with(s) == [p EXCEPT !.stack = FoldLeft(CountErrors, s, looked(s)),
                           !.has_error = \A i \in Versions(s) : inError(s, i)]
  IN  with(IF node_count > 0 THEN joined(ts_stack_pop_count(p.stack, v, 1))
           ELSE ts_stack_push(p.stack, v, skipped, FALSE, ERROR_STATE))

\* What ts_parser__recover reads of the version at the beginning.
RecoveryContext(s, v) ==
  [summary |-> s.heads[v].summary,
   position |-> ts_stack_position(s, v),
   node_count |-> ts_stack_node_count_since_error(s, v),
   error_cost |-> ts_stack_error_cost(s, v),
   version_count |-> ts_stack_version_count(s)]

\* The end of ts_parser__recover: accept at the end of the document, or skip
\* the token unless another version is better.
RecoverBySkipping(p, did_recover, v, token, context) ==
  LET cost == context.error_cost + ERROR_COST_PER_SKIPPED_TREE
                + ts_subtree_total_bytes(token) * ERROR_COST_PER_SKIPPED_CHAR
      wrapped(stack) ==
        ts_stack_push(stack, v, ts_subtree_new_error_node(<<>>, FALSE), FALSE, START_STATE)
      halted(stack) == [p EXCEPT !.stack = ts_stack_halt(stack, v)]
      skip(better) ==
        IF better.exists THEN halted(better.stack)
        ELSE SkipToken([p EXCEPT !.stack = better.stack], v, token, context.node_count)
  IN  IF token.symbol = ts_builtin_sym_end
        THEN ts_parser__accept([p EXCEPT !.stack = wrapped(@)], v, token)
      ELSE IF did_recover /\ ts_stack_version_count(p.stack) > MAX_VERSION_COUNT
        THEN halted(p.stack)
      ELSE skip(ts_parser__better_version_exists(p, v, cost))

ts_parser__recover(p, v, token) ==
  LET s       == CountErrors(p.stack, v)
      counted == [p EXCEPT !.stack = s]
      context == RecoveryContext(s, v)
      skip(tried) ==
        RecoverBySkipping(
          [tried.parser EXCEPT !.stack = RemoveInactive(@, context.version_count)],
          tried.did_recover, v, token, context)
  IN  skip(IF ts_subtree_is_error(token)
             THEN [parser |-> counted, did_recover |-> FALSE]
             ELSE RecoverToPrevious(counted, v, token, context, 1))

\* ts_parser__handle_error, for version v of the loop: the missing tokens from
\* m on.  A token is missing if after it the lookahead allows a reduction.
RECURSIVE InsertMissing(_, _, _, _)
InsertMissing(s, v, m, symbol) ==
  LET state == ts_stack_state(s, v)
      after == ts_language_next_state(state, m)
      copy  == ts_stack_copy_version(s, v)
      last  == ts_stack_version_count(copy)
      try(tried) == IF tried.can_shift THEN [stack |-> tried.stack, inserted |-> TRUE]
                    ELSE InsertMissing(tried.stack, v, m + 1, symbol)
  IN  IF m >= language.token_count THEN [stack |-> s, inserted |-> FALSE]
      ELSE IF after \in {0, state} \/ ~ts_language_has_reduce_action(after, symbol)
        THEN InsertMissing(s, v, m + 1, symbol)
      ELSE try(ts_parser__do_all_potential_reductions(
                 ts_stack_push(copy, last, ts_subtree_new_missing_leaf(m, 0), FALSE, after),
                 last, symbol))

\* Merge the n versions after the previous ones into version v: the code
\* asserts that each merge succeeds.
RECURSIVE MergeDiscontinuities(_, _, _, _)
MergeDiscontinuities(s, v, previous, n) ==
  IF n = 0 THEN s
  ELSE IF ~ts_stack_can_merge(s, v, previous + 1) THEN Fault(s, "handle_error: did_merge")
  ELSE MergeDiscontinuities(ts_stack_merge(s, v, previous + 1), v, previous, n - 1)

\* Version v and the versions that the reductions added after the previous
\* ones: try to insert a missing token in one of them, move each to the error
\* state, and merge them.
Discontinue(s, v, previous, symbol) ==
  LET added == ts_stack_version_count(s) - previous
      missing(r, u) == IF r.inserted THEN r ELSE InsertMissing(r.stack, u, 1, symbol)
  IN  MergeDiscontinuities(
        FoldLeft(LAMBDA r, u : [missing(r, u) EXCEPT
                                  !.stack = ts_stack_push(@, u, NULL_SUBTREE, FALSE, ERROR_STATE)],
                 [stack |-> s, inserted |-> FALSE],
                 <<v>> \o [i \in 1 .. added |-> previous + i]).stack,
        v, previous, added)

ts_parser__handle_error(p, v, token) ==
  LET previous == ts_stack_version_count(p.stack)
      reduced  == ts_parser__do_all_potential_reductions(p.stack, v, 0).stack
  IN  ts_parser__recover(
        [p EXCEPT !.stack = ts_stack_record_summary(
                              Discontinue(reduced, v, previous, token.symbol),
                              v, MAX_SUMMARY_DEPTH)],
        v, token)

-----------------------------------------------------------------------------
(* ts_parser__condense_stack.                                              *)

\* The comparison of version i, whose status was taken before, with version j
\* and those after it: the stack and where version i is now, or was.
RECURSIVE CompareWith(_, _, _, _)
CompareWith(s, i, j, status_i) ==
  LET counted == CountErrors(s, j)
      order   == ts_parser__compare_versions(ts_parser__version_status(s, j), status_i)
      mergeable == ts_stack_can_merge(counted, j, i)
  IN  IF j >= i THEN [stack |-> s, i |-> i]
      ELSE IF order = "TakeLeft"
        THEN [stack |-> ts_stack_remove_version(counted, i), i |-> i - 1]
      ELSE IF order = "TakeRight"
        THEN CompareWith(ts_stack_remove_version(counted, j), i - 1, j, status_i)
      ELSE IF mergeable
        THEN [stack |-> ts_stack_merge(counted, j, i), i |-> i - 1]
      ELSE IF order = "PreferRight"
        THEN CompareWith(ts_stack_swap_versions(counted, i, j), i, j + 1, status_i)
      ELSE CompareWith(counted, i, j + 1, status_i)

\* Remove the halted versions and those that are clearly worse than another,
\* and order the others, from version i on.
RECURSIVE PruneVersions(_, _, _)
PruneVersions(s, i, min_error_cost) ==
  LET counted  == CountErrors(s, i)
      status_i == ts_parser__version_status(s, i)
      next(compared) ==
        PruneVersions(compared.stack, compared.i + 1,
                      IF ~status_i.is_in_error /\ status_i.cost < min_error_cost
                        THEN status_i.cost ELSE min_error_cost)
  IN  IF i > ts_stack_version_count(s) THEN [stack |-> s, min_error_cost |-> min_error_cost]
      ELSE IF ts_stack_is_halted(s, i)
        THEN PruneVersions(ts_stack_remove_version(s, i), i, min_error_cost)
      ELSE next(CompareWith(counted, i, 1, status_i))

MayResume(p, has_unpaused_version) ==
  ~has_unpaused_version /\ p.accept_count < MAX_VERSION_COUNT

\* Resume the best version if it is paused, remove the other paused versions:
\* from version i of the first n on.
RECURSIVE ResumePaused(_, _, _, _)
ResumePaused(r, i, n, has_unpaused_version) ==
  LET s       == r.parser.stack
      token   == s.heads[i].lookahead_when_paused
      resumed == [r.parser EXCEPT !.stack = ts_stack_resume(@, i)]
      removed == [r.parser EXCEPT !.stack = ts_stack_remove_version(@, i)]
  IN  IF i > n THEN r
      ELSE IF ~ts_stack_is_paused(s, i) THEN ResumePaused(r, i + 1, n, TRUE)
      ELSE IF MayResume(r.parser, has_unpaused_version)
        THEN ResumePaused([parser |-> ts_parser__handle_error(resumed, i, token),
                           min_error_cost |-> ts_stack_error_cost(s, i)], i + 1, n, TRUE)
      ELSE ResumePaused([r EXCEPT !.parser = removed], i, n - 1, has_unpaused_version)

\* The versions after the pruning: keep the first ones, resume the best.
ResumeBest(p, pruned) ==
  LET s == IF ts_stack_version_count(pruned.stack) > MAX_VERSION_COUNT
             THEN RemoveVersionsAfter(pruned.stack, MAX_VERSION_COUNT) ELSE pruned.stack
  IN  ResumePaused([parser |-> [p EXCEPT !.stack = s],
                    min_error_cost |-> pruned.min_error_cost],
                   1, ts_stack_version_count(s), FALSE)

ts_parser__condense_stack(p) == ResumeBest(p, PruneVersions(p.stack, 1, UINT_MAX))

-----------------------------------------------------------------------------
(* ts_parser__advance.                                                     *)

\* Process an action of the table for a token in a state, unless an earlier
\* one returned.
Act(r, action, v, token, state) ==
  LET leaf      == IF action.extra THEN [token EXCEPT !.extra = TRUE] ELSE token
      after     == IF action.extra THEN state ELSE action.state
      return(p) == [r EXCEPT !.parser = p, !.returned = TRUE]
      reduced(reduction) ==
        [r EXCEPT !.parser.stack = reduction.stack,
                  !.did_reduce = TRUE,
                  !.last_reduction_version =
                     IF reduction.version = STACK_VERSION_NONE THEN @ ELSE reduction.version]
  IN  IF r.returned THEN r
      ELSE CASE action.type = "shift" ->
                  return([r.parser EXCEPT !.stack = ts_stack_push(@, v, leaf, FALSE, after)])
             [] action.type = "reduce" -> reduced(ts_parser__reduce(r.parser.stack, v, action))
             [] action.type = "accept" -> return(ts_parser__accept(r.parser, v, token))
             [] action.type = "recover" -> return(ts_parser__recover(r.parser, v, token))

\* The actions did not return: go on with the last reduction's version, or
\* pause the version.
AfterActions(acted, p, v, token) ==
  LET return(q) == [parser |-> q, returned |-> TRUE]
  IN  IF acted.returned THEN return(acted.parser)
      ELSE IF acted.last_reduction_version # STACK_VERSION_NONE
        THEN [parser |-> [acted.parser EXCEPT
                !.stack = ts_stack_renumber_version(@, acted.last_reduction_version, v)],
              returned |-> FALSE]
      ELSE IF acted.did_reduce THEN return([acted.parser EXCEPT !.stack = ts_stack_halt(@, v)])
      ELSE IF ts_stack_state(p.stack, v) = ERROR_STATE
        THEN return(ts_parser__recover(p, v, token))
      ELSE return([p EXCEPT !.stack = ts_stack_pause(@, v, token)])

\* An iteration of the loop of ts_parser__advance, and whether it returns.
ts_parser__advance(p, v, token) ==
  LET state == ts_stack_state(p.stack, v)
  IN  AfterActions(FoldLeft(LAMBDA r, action : Act(r, action, v, token, state),
                            [parser |-> p, returned |-> FALSE, did_reduce |-> FALSE,
                             last_reduction_version |-> STACK_VERSION_NONE],
                            ts_language_actions(state, token.symbol)),
                   p, v, token)

-----------------------------------------------------------------------------
(* ts_parser_parse, and the calls of the application.                      *)

Running == {"version", "advance", "condense", "balance"}

Init ==
  /\ language \in Languages
  /\ document \in Documents[language.name]
  /\ parser = ts_parser_new
  /\ pc = "idle"
  /\ version = 1
  /\ lookahead = NULL_SUBTREE
  /\ last_position = 0
  /\ cancellations = 0
  /\ result = NULL_SUBTREE
  /\ reference = NULL_SUBTREE

StartLoop ==
  /\ pc' = "version"
  /\ version' = 1
  /\ last_position' = 0

\* ts_parser_parse of the document, for the second time if it was parsed.
Parse ==
  /\ pc = "idle"
  /\ StartLoop
  /\ reference' = IF reference = NULL_SUBTREE THEN result ELSE reference
  /\ cancellations' = 0
  /\ result' = NULL_SUBTREE
  /\ UNCHANGED <<language, document, parser, lookahead>>

\* Take the next version that is active, and lex its lookahead.
NextVersion ==
  /\ pc = "version"
  /\ version <= ts_stack_version_count(parser.stack)
  /\ IF ts_stack_is_active(parser.stack, version)
       THEN /\ lookahead' = ts_parser__lex(ts_stack_position(parser.stack, version))
            /\ pc' = "advance"
            /\ UNCHANGED version
       ELSE version' = version + 1 /\ UNCHANGED <<pc, lookahead>>
  /\ UNCHANGED <<language, document, parser, last_position, cancellations, result, reference>>

\* After the last version.
EndOfVersions ==
  /\ pc = "version"
  /\ version > ts_stack_version_count(parser.stack)
  /\ pc' = "condense"
  /\ UNCHANGED <<language, document, parser, version, lookahead, last_position,
                 cancellations, result, reference>>

\* An iteration of ts_parser__advance.  A version is advanced until it is past
\* the position that the versions before it reached.
AfterAdvance(step) ==
  LET position == ts_stack_position(step.parser.stack, version)
      enough   == position > last_position \/ (version > 1 /\ position = last_position)
  IN  /\ parser' = step.parser
      /\ IF step.returned
           THEN /\ pc' = "version"
                /\ lookahead' = NULL_SUBTREE
                /\ version' = IF enough THEN version + 1 ELSE version
                /\ last_position' = IF enough THEN position ELSE last_position
           ELSE UNCHANGED <<pc, lookahead, version, last_position>>

Advance ==
  /\ pc = "advance"
  /\ AfterAdvance(ts_parser__advance(parser, version, lookahead))
  /\ UNCHANGED <<language, document, cancellations, result, reference>>

\* The end of a round: condense the stack, and stop if the finished tree is
\* better than every version or there was no version left in this round.
AfterCondense(p, min_error_cost) ==
  LET finished == p.finished_tree # NULL_SUBTREE /\ p.finished_tree.error_cost < min_error_cost
      done     == finished \/ ts_stack_version_count(parser.stack) = 0
      checked  == IF done /\ p.finished_tree = NULL_SUBTREE
                    THEN [p EXCEPT !.stack = Fault(@, "parse: finished_tree.ptr")] ELSE p
  IN  /\ parser' = IF finished THEN [p EXCEPT !.stack = ts_stack_clear(@)] ELSE checked
      /\ pc' = IF done THEN "balance" ELSE "version"

Condense ==
  /\ pc = "condense"
  /\ \E condensed \in {ts_parser__condense_stack(parser)} :
        AfterCondense(condensed.parser, condensed.min_error_cost)
  /\ version' = 1
  /\ UNCHANGED <<language, document, lookahead, last_position, cancellations,
                 result, reference>>

ts_parser_reset(p) ==
  [ts_parser_new EXCEPT !.stack = ts_stack_clear(p.stack)]

\* The tree needs no balancing: the languages here have no repetitions.
Finish ==
  /\ pc = "balance"
  /\ parser.finished_tree # NULL_SUBTREE
  /\ result' = parser.finished_tree
  /\ parser' = ts_parser_reset(parser)
  /\ pc' = "idle"
  /\ version' = 1
  /\ last_position' = 0
  /\ UNCHANGED <<language, document, lookahead, cancellations, reference>>

\* The progress callback stops the parse: ts_parser_parse returns NULL.
MayCancel == reference # NULL_SUBTREE /\ cancellations < MaxCancellations

Cancel ==
  /\ pc = "advance"
  /\ MayCancel
  /\ pc' = "canceled"
  /\ lookahead' = NULL_SUBTREE
  /\ cancellations' = cancellations + 1
  /\ UNCHANGED <<language, document, parser, version, last_position, result, reference>>

CancelBalancing ==
  /\ pc = "balance"
  /\ MayCancel
  /\ parser.finished_tree # NULL_SUBTREE
  /\ ts_subtree_child_count(parser.finished_tree) > 0
  /\ pc' = "balancing_canceled"
  /\ cancellations' = cancellations + 1
  /\ UNCHANGED <<language, document, parser, version, lookahead, last_position,
                 result, reference>>

\* ts_parser_parse after a cancellation: the stack is left as it was, and
\* ts_parser_has_outstanding_parse takes the node count of the first version.
Resume ==
  \/ /\ pc = "canceled"
     /\ StartLoop
     /\ parser' = IF ts_stack_state(parser.stack, 1) = START_STATE
                    THEN [parser EXCEPT !.stack = CountErrors(@, 1)] ELSE parser
     /\ UNCHANGED <<language, document, lookahead, cancellations, result, reference>>
  \/ /\ pc = "balancing_canceled"
     /\ pc' = "balance"
     /\ UNCHANGED <<language, document, parser, version, lookahead, last_position,
                    cancellations, result, reference>>

\* ts_parser_reset after a cancellation.
Reset ==
  /\ pc \in {"canceled", "balancing_canceled"}
  /\ parser' = ts_parser_reset(parser)
  /\ pc' = "idle"
  /\ version' = 1
  /\ last_position' = 0
  /\ UNCHANGED <<language, document, lookahead, cancellations, result, reference>>

Step == NextVersion \/ EndOfVersions \/ Advance \/ Condense \/ Finish

Next == Parse \/ Step \/ Cancel \/ CancelBalancing \/ Resume \/ Reset

Spec == Init /\ [][Next]_vars

\* A call of ts_parser_parse does not block: weak fairness of Step, which is
\* enabled exactly in the states of Running.
Fairness == []<>(pc \notin Running) \/ []<><<Step>>_vars

FairSpec == Spec /\ Fairness

-----------------------------------------------------------------------------
(* Properties.                                                             *)

\* The types of the variables: every head and link names a node in use, and no
\* node has more links than it has room for.
TypeOK ==
  /\ language \in Languages
  /\ document \in Documents[language.name]
  /\ pc \in Control
  /\ version \in 1 .. (ts_stack_version_count(parser.stack) + 1)
  /\ \A v \in Versions(parser.stack) : parser.stack.heads[v].node \in Live(parser.stack)
  /\ \A n \in Live(parser.stack) :
        /\ Len(parser.stack.nodes[n].links) \in 0 .. MAX_LINK_COUNT
        /\ \A i \in 1 .. Len(parser.stack.nodes[n].links) :
              parser.stack.nodes[n].links[i].node \in Live(parser.stack)
  /\ last_position \in 0 .. Len(document)
  /\ cancellations \in 0 .. MaxCancellations

References(s, n) ==
  LET heads == {v \in Versions(s) : s.heads[v].node = n}
      links == {l \in Live(s) \X (1 .. MAX_LINK_COUNT) :
                  l[2] <= Len(s.nodes[l[1]].links) /\ s.nodes[l[1]].links[l[2]].node = n}
  IN  Cardinality(heads) + Cardinality(links) + (IF n = BaseNode THEN 1 ELSE 0)

\* Whatever versions were copied, merged, renumbered, popped or dropped, a
\* stack node's count is the number of the heads and links that point to it
\* (stack_node_retain and stack_node_release in stack.c): no node leaks or is
\* freed while it is in use.
RefCountsExact ==
  \A n \in Live(parser.stack) :
     parser.stack.nodes[n].ref_count = References(parser.stack, n)

\* Every path down from a node has the position and the error cost that the
\* node recorded when it was pushed, also the paths that merges added
\* (stack_node_add_link): pruning by cost and lexing at the position do not
\* depend on which path is taken later.
PathsAgree ==
  \A n \in Live(parser.stack) :
    LET node == parser.stack.nodes[n]
    IN  \A i \in 1 .. Len(node.links) :
          LET above == stack_node_new(parser.stack.nodes[node.links[i].node], node.links[i], 0)
          IN  node.position = above.position /\ node.error_cost = above.error_cost

\* No ts_assert of the parser or the stack fails, and no NULL subtree is read
\* (ts_parser__accept, ts_parser__handle_error, ts_stack_renumber_version,
\* ts_parser_parse, stack_node_add_link).
NoFault == parser.stack.fault = "none"

\* The versions that are not halted stay within the limit that
\* ts_parser__reduce and ts_parser__condense_stack enforce, also while errors
\* are handled.
VersionsBounded ==
  ts_stack_version_count(parser.stack) - ts_stack_halted_version_count(parser.stack)
    <= MAX_VERSION_COUNT + MAX_VERSION_COUNT_OVERFLOW + 1

\* After a parse or a reset nothing of it is left in the parser: the stack has
\* its first node only, and no tree, count or flag survives (ts_parser_reset).
CleanWhenIdle ==
  pc = "idle" => /\ Live(parser.stack) = {BaseNode}
                 /\ [parser EXCEPT !.stack.nodes = <<@[BaseNode]>>] = ts_parser_new

\* What a tree says the document is: the padding, tokens and skipped characters
\* of its leaves.
Text(tree) ==
  LET of(leaf) == [i \in 1 .. leaf.padding |-> "padding"]
                    \o [i \in 1 .. leaf.size |->
                          IF ts_subtree_is_error(leaf) THEN "skipped" ELSE ToString(leaf.symbol)]
  IN  FoldLeft(LAMBDA text, leaf : text \o of(leaf), <<>>, Leaves(tree))

\* A tree has every character of the document once and in its place, whatever
\* was skipped, inserted or popped on the way (ts_parser__recover,
\* ts_parser__recover_to_state, ts_parser__accept).
TreeCoversDocument ==
  result # NULL_SUBTREE =>
    LET text == Text(result)
    IN  /\ Len(text) = Len(document)
        /\ \A i \in 1 .. Len(document) :
             CASE document[i] = Unknown -> text[i] = "skipped"
               [] document[i] = Blank -> text[i] \in {"padding", "skipped"}
               [] OTHER -> text[i] = ToString(document[i])

\* A reference for the grammar, apart from the parse table: the precedences of
\* the derivations of a sequence of tokens from a symbol, or from a sequence of
\* symbols.
RECURSIVE Precedences(_, _), PrecedencesOfAll(_, _)
Precedences(symbol, tokens) ==
  IF symbol < language.token_count THEN IF tokens = <<symbol>> THEN {0} ELSE {}
  ELSE UNION {{production.precedence + x : x \in PrecedencesOfAll(production.symbols, tokens)} :
                production \in {q \in language.productions : q.symbol = symbol}}
PrecedencesOfAll(symbols, tokens) ==
  IF symbols = <<>> THEN IF tokens = <<>> THEN {0} ELSE {}
  ELSE UNION {{x + y : x \in Precedences(Head(symbols), SubSeq(tokens, 1, k)),
                       y \in PrecedencesOfAll(Tail(symbols), SubSeq(tokens, k + 1, Len(tokens)))} :
                k \in 1 .. (Len(tokens) - Len(symbols) + 1)}

Tokens == SelectSeq(document, LAMBDA c : c \notin language.extras \union {Blank})

\* The parser reports no error exactly for the sentences of the grammar, and of
\* the derivations of an ambiguous one it keeps one with the highest dynamic
\* precedence: no reduction, merge or pruning of versions loses it.
SentencesParse ==
  result # NULL_SUBTREE =>
    LET all == Precedences(language.root, Tokens)
    IN  /\ (result.error_cost = 0) = (all # {})
        /\ all # {} => result.dynamic_precedence = Max(all)

\* Every node of a tree but an ERROR is an instance of a production, extras
\* aside, with the missing tokens standing for real ones.
RECURSIVE Derived(_)
Derived(tree) ==
  LET inner == SelectSeq(tree.children, LAMBDA child : ~child.extra)
  IN  /\ \A i \in 1 .. Len(tree.children) : Derived(tree.children[i])
      /\ \/ tree.children = <<>>
         \/ tree.symbol \in ErrorSymbols
         \/ \E production \in language.productions :
              /\ production.symbol = tree.symbol
              /\ production.symbols = [i \in 1 .. Len(inner) |-> inner[i].symbol]

TreeDerived == result # NULL_SUBTREE => Derived(result)

\* The parser's own data after any sequence of pushes, merges, pops, prunings,
\* stops and resets: counts are exact, all paths to a node agree, no assertion
\* fails, and nothing is left when a parse has ended (stack.c, ts_parser_reset).
StackSound == RefCountsExact /\ PathsAgree /\ NoFault /\ CleanWhenIdle

\* The tree that ts_parser_parse returns, also when it was stopped on the way:
\* of the whole document, an instance of the grammar, and without error and of
\* the highest precedence for a sentence.
ResultCorrect == TreeCoversDocument /\ TreeDerived /\ SentencesParse

\* The parser at its limits, where links, iterators, versions and summary
\* entries are dropped: what is left is still consistent, within its bounds and
\* a tree of the whole document.
LimitsHold == TypeOK /\ VersionsBounded /\ RefCountsExact /\ NoFault /\ TreeCoversDocument

\* A parse that was stopped and resumed, or reset, returns the tree of a parse
\* that was not: the parser "will resume where it left off" (api.h).
CancelTransparent ==
  pc = "idle" /\ result # NULL_SUBTREE /\ reference # NULL_SUBTREE => result = reference

\* A call of ts_parser_parse returns, whatever the document: error recovery
\* does not go on forever.
ParseReturns == pc \in Running ~> pc \notin Running
=============================================================================
