------------------------------ MODULE Subtree ------------------------------
(***************************************************************************)
(* Syntax nodes (lib/src/subtree.c), as values: what the parse stack and   *)
(* the parser look at when they build, compare and choose between trees.   *)
(* Lengths are bytes: the documents of module Parser have one line.        *)
(***************************************************************************)
EXTENDS Integers, Sequences, SequencesExt

CONSTANT HiddenSymbols        \* the symbols whose metadata says invisible

ts_builtin_sym_end == 0
ts_builtin_sym_error == 65535
ts_builtin_sym_error_repeat == 65534

ERROR_COST_PER_RECOVERY == 500
ERROR_COST_PER_MISSING_TREE == 110
ERROR_COST_PER_SKIPPED_TREE == 100
ERROR_COST_PER_SKIPPED_CHAR == 1

NULL_SUBTREE == [null |-> TRUE]

ErrorSymbols == {ts_builtin_sym_error, ts_builtin_sym_error_repeat}

Visible(symbol) ==
  symbol \notin HiddenSymbols \union {ts_builtin_sym_end, ts_builtin_sym_error_repeat}

-----------------------------------------------------------------------------
ts_subtree_total_bytes(tree) == tree.padding + tree.size

ts_subtree_child_count(tree) == Len(tree.children)

ts_subtree_is_error(tree) == tree.symbol = ts_builtin_sym_error

\* A childless node has no precedence, whatever production made it.
ts_subtree_dynamic_precedence(tree) ==
  IF tree.children = <<>> THEN 0 ELSE tree.dynamic_precedence

ts_subtree_new_leaf(symbol, padding, size) ==
  [symbol |-> symbol, children |-> <<>>, padding |-> padding, size |-> size,
   extra |-> symbol = ts_builtin_sym_end, is_missing |-> FALSE, error_cost |-> 0,
   dynamic_precedence |-> 0, visible_descendant_count |-> 0,
   visible_child_count |-> 0]

ts_subtree_new_missing_leaf(symbol, padding) ==
  [ts_subtree_new_leaf(symbol, padding, 0) EXCEPT
     !.is_missing = TRUE,
     !.error_cost = ERROR_COST_PER_MISSING_TREE + ERROR_COST_PER_RECOVERY]

-----------------------------------------------------------------------------
(* ts_subtree_new_node: a parent and what it summarizes of its children.   *)

SumOver(Of(_), trees) == FoldLeft(LAMBDA sum, tree : sum + Of(tree), 0, trees)

ts_subtree__error_extent_cost(size) ==
  ERROR_COST_PER_RECOVERY + ERROR_COST_PER_SKIPPED_CHAR * size

\* What a child adds to the error cost of a node: in an error every visible
\* tree is a skipped tree, and an _ERROR child's own extent is refunded.
ChildErrorCost(symbol, child) ==
  LET grandchildren == ts_subtree_child_count(child)
      skipped == /\ symbol \in ErrorSymbols
                 /\ ~child.extra
                 /\ ~(ts_subtree_is_error(child) /\ grandchildren = 0)
  IN  IF child.symbol = ts_builtin_sym_error_repeat
        THEN child.error_cost - ts_subtree__error_extent_cost(child.size)
      ELSE IF ~skipped
        THEN child.error_cost
      ELSE IF Visible(child.symbol)
        THEN child.error_cost + ERROR_COST_PER_SKIPPED_TREE
      ELSE child.error_cost + ERROR_COST_PER_SKIPPED_TREE * child.visible_child_count

ts_subtree_new_node(symbol, children) ==
  LET total   == SumOver(ts_subtree_total_bytes, children)
      padding == IF children = <<>> THEN 0 ELSE children[1].padding
      size    == total - padding
      cost(child)     == ChildErrorCost(symbol, child)
      shown(child)    == IF Visible(child.symbol) THEN 1 ELSE 0
      below(child)    == child.visible_descendant_count + shown(child)
      adjacent(child) == IF Visible(child.symbol) THEN 1 ELSE child.visible_child_count
  IN  [symbol |-> symbol, children |-> children, padding |-> padding, size |-> size,
       extra |-> FALSE, is_missing |-> FALSE,
       error_cost |-> SumOver(cost, children)
                      + (IF symbol \in ErrorSymbols
                           THEN ts_subtree__error_extent_cost(size) ELSE 0),
       dynamic_precedence |-> SumOver(ts_subtree_dynamic_precedence, children),
       visible_descendant_count |-> SumOver(below, children),
       visible_child_count |-> SumOver(adjacent, children)]

ts_subtree_new_error_node(children, extra) ==
  [ts_subtree_new_node(ts_builtin_sym_error, children) EXCEPT !.extra = extra]

-----------------------------------------------------------------------------
\* The order of two trees by symbols and child counts, in preorder: -1, 0, 1.
RECURSIVE ts_subtree_compare(_, _)
ts_subtree_compare(left, right) ==
  LET n == ts_subtree_child_count(left)
      m == ts_subtree_child_count(right)
      differ == {i \in 1 .. n :
                   ts_subtree_compare(left.children[i], right.children[i]) # 0}
      first  == CHOOSE i \in differ : \A j \in differ : i <= j
  IN  IF left.symbol # right.symbol
        THEN IF left.symbol < right.symbol THEN -1 ELSE 1
      ELSE IF n # m
        THEN IF n < m THEN -1 ELSE 1
      ELSE IF differ = {}
        THEN 0
      ELSE ts_subtree_compare(left.children[first], right.children[first])

\* ts_subtree_array_remove_trailing_extras: what it leaves and what it moves.
LastStructural(trees) == SelectLastInSeq(trees, LAMBDA tree : ~tree.extra)

WithoutTrailingExtras(trees) == SubSeq(trees, 1, LastStructural(trees))

TrailingExtras(trees) == SubSeq(trees, LastStructural(trees) + 1, Len(trees))

\* The leaves of a tree, left to right.
RECURSIVE Leaves(_)
Leaves(tree) ==
  IF tree.children = <<>> THEN <<tree>>
  ELSE FoldLeft(LAMBDA seen, child : seen \o Leaves(child), <<>>, tree.children)
=============================================================================
