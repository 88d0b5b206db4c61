------------------------------- MODULE Stack -------------------------------
(***************************************************************************)
(* The graph-structured stack of the parser (lib/src/stack.c).             *)
(*                                                                         *)
(* Nodes are shared between versions and counted; two versions in the same *)
(* state at the same position are merged into one whose top node has a     *)
(* link for each way to reach it.  A Stack is a record: nodes is the       *)
(* memory, an address being an index, heads is the array of versions, and  *)
(* fault says which assertion or invalid access was met.                   *)
(* Versions are 1-based and STACK_VERSION_NONE is 0.                       *)
(*                                                                         *)
(* The external scanner is not modelled: last_external_token is left out.  *)
(***************************************************************************)
EXTENDS Subtree, FiniteSets, FiniteSetsExt

CONSTANTS
  MAX_LINK_COUNT,       \* how many links a node has at most
  MAX_ITERATOR_COUNT    \* how many paths a pop follows at most

ASSUME StackLimitsAssumption ==
  MAX_LINK_COUNT \in Nat \ {0} /\ MAX_ITERATOR_COUNT \in Nat \ {0}

ERROR_STATE == 0
START_STATE == 1
STACK_VERSION_NONE == 0

BaseNode == 1

-----------------------------------------------------------------------------
(* Nodes.                                                                  *)

FreeNode == [ref_count |-> 0]

\* The addresses of the nodes in use.
Live(s) == {n \in 1 .. Len(s.nodes) : s.nodes[n] # FreeNode}

Fault(s, what) == [s EXCEPT !.fault = IF @ = "none" THEN what ELSE @]

stack_node_retain(s, n) == [s EXCEPT !.nodes[n].ref_count = @ + 1]

\* Give up a reference; the last one also gives up those of the links.
RECURSIVE stack_node_release(_, _)
stack_node_release(s, n) ==
  LET freed == [s EXCEPT !.nodes[n] = FreeNode]
  IN  IF s.nodes[n].ref_count > 1
        THEN [s EXCEPT !.nodes[n].ref_count = @ - 1]
        ELSE FoldLeft(LAMBDA t, link : stack_node_release(t, link.node),
                      freed, s.nodes[n].links)

stack__subtree_node_count(tree) ==
  tree.visible_descendant_count
    + (IF Visible(tree.symbol) THEN 1 ELSE 0)
    + (IF tree.symbol = ts_builtin_sym_error_repeat THEN 1 ELSE 0)

\* The address that a new node gets.
NewAddress(s) == Min((1 .. Len(s.nodes) + 1) \ Live(s))

Store(s, n, node) ==
  [s EXCEPT !.nodes = IF n > Len(@) THEN Append(@, node) ELSE ReplaceAt(@, n, node)]

\* A node above a node: it takes over the caller's reference to it.
stack_node_new(previous, link, state) ==
  LET tree  == link.subtree
      null  == tree = NULL_SUBTREE
      bytes == IF null THEN 0 ELSE ts_subtree_total_bytes(tree)
      cost  == IF null THEN 0 ELSE tree.error_cost
      count == IF null THEN 0 ELSE stack__subtree_node_count(tree)
      prec  == IF null THEN 0 ELSE ts_subtree_dynamic_precedence(tree)
  IN  [state |-> state, links |-> <<link>>, ref_count |-> 1,
       position |-> previous.position + bytes,
       error_cost |-> previous.error_cost + cost,
       node_count |-> previous.node_count + count,
       dynamic_precedence |-> previous.dynamic_precedence + prec]

stack__subtree_is_equivalent(left, right) ==
  \/ left = right
  \/ /\ left # NULL_SUBTREE /\ right # NULL_SUBTREE
     /\ left.symbol = right.symbol
     /\ \/ left.error_cost > 0 /\ right.error_cost > 0
        \/ /\ left.padding = right.padding
           /\ left.size = right.size
           /\ Len(left.children) = Len(right.children)
           /\ left.extra = right.extra

\* Mutant: nodes of different cost are merged.
Mergeable_AnyCost(a, b) == a.state = b.state /\ a.position = b.position

\* Two nodes stand for the same parse: what can follow does not depend on which.
Mergeable(a, b) ==
  a.state = b.state /\ a.position = b.position /\ a.error_cost = b.error_cost

Larger(a, b) == IF a > b THEN a ELSE b

\* The end of stack_node_add_link: a link to a node that no link reaches.
AppendLink(s, n, link) ==
  LET above == stack_node_new(s.nodes[link.node], link, 0)
  IN  [stack_node_retain(s, link.node) EXCEPT
         !.nodes[n].links = Append(@, link),
         !.nodes[n].node_count = Larger(@, above.node_count),
         !.nodes[n].dynamic_precedence = Larger(@, above.dynamic_precedence)]

LinksFull(links) == Len(links) = MAX_LINK_COUNT

\* Add a link to a node that may be shared.  The precedence of two links to
\* the same node is compared even if their subtrees are NULL.
RECURSIVE stack_node_add_link(_, _, _)
stack_node_add_link(s, n, link) ==
  LET links  == s.nodes[n].links
      same(i) == /\ stack__subtree_is_equivalent(links[i].subtree, link.subtree)
                 /\ \/ links[i].node = link.node
                    \/ Mergeable(s.nodes[links[i].node], s.nodes[link.node])
      known  == {i \in 1 .. Len(links) : same(i)}
      old    == links[Min(known)]
      above  == stack_node_new(s.nodes[link.node], link, 0)
      prec(tree) == ts_subtree_dynamic_precedence(tree)
      merged == FoldLeft(LAMBDA t, l : stack_node_add_link(t, old.node, l),
                         s, s.nodes[link.node].links)
  IN  IF link.node = n THEN s
      ELSE IF known = {}
        THEN IF LinksFull(links) THEN s ELSE AppendLink(s, n, link)
      ELSE IF old.node # link.node
        THEN [merged EXCEPT !.nodes[n].dynamic_precedence =
                               Larger(@, above.dynamic_precedence)]
      ELSE IF link.subtree = NULL_SUBTREE
        THEN Fault(s, "precedence of a NULL subtree")
      ELSE IF prec(link.subtree) > prec(old.subtree)
        THEN [s EXCEPT !.nodes[n].links[Min(known)].subtree = link.subtree,
                       !.nodes[n].dynamic_precedence = above.dynamic_precedence]
      ELSE s

-----------------------------------------------------------------------------
(* Versions.                                                               *)

StackHead(node) ==
  [node |-> node, status |-> "active", summary |-> <<>>,
   node_count_at_last_error |-> 0, lookahead_when_paused |-> NULL_SUBTREE]

ts_stack_version_count(s) == Len(s.heads)

Versions(s) == 1 .. Len(s.heads)

Top(s, v) == s.nodes[s.heads[v].node]

ts_stack_state(s, v) == Top(s, v).state

ts_stack_position(s, v) == Top(s, v).position

ts_stack_dynamic_precedence(s, v) == Top(s, v).dynamic_precedence

ts_stack_is_active(s, v) == s.heads[v].status = "active"
ts_stack_is_paused(s, v) == s.heads[v].status = "paused"
ts_stack_is_halted(s, v) == s.heads[v].status = "halted"

ts_stack_halted_version_count(s) ==
  Cardinality({v \in Versions(s) : ts_stack_is_halted(s, v)})

ts_stack_error_cost(s, v) ==
  LET top == Top(s, v)
      discontinuity == /\ top.state = ERROR_STATE
                       /\ top.links[1].subtree = NULL_SUBTREE
  IN  top.error_cost
        + (IF ts_stack_is_paused(s, v) \/ discontinuity
             THEN ERROR_COST_PER_RECOVERY ELSE 0)

\* ts_stack_node_count_since_error, which also lowers the count of the last
\* error of a version from which nodes were popped.
CountErrors(s, v) ==
  [s EXCEPT !.heads[v].node_count_at_last_error =
     IF Top(s, v).node_count < @ THEN Top(s, v).node_count ELSE @]

ts_stack_node_count_since_error(s, v) ==
  Larger(0, Top(s, v).node_count - s.heads[v].node_count_at_last_error)

ts_stack_push(s, v, tree, pending, state) ==
  LET link == [node |-> s.heads[v].node, subtree |-> tree, is_pending |-> pending]
      n    == NewAddress(s)
      node == stack_node_new(Top(s, v), link, state)
  IN  [Store(s, n, node) EXCEPT
         !.heads[v].node = n,
         !.heads[v].node_count_at_last_error =
            IF tree = NULL_SUBTREE THEN node.node_count ELSE @]

ts_stack_remove_version(s, v) ==
  [stack_node_release(s, s.heads[v].node) EXCEPT !.heads = RemoveAt(@, v)]

\* Version v1 takes the place of v2, and the summary of v2 if it has none.
ts_stack_renumber_version(s, v1, v2) ==
  LET summary == IF s.heads[v1].summary = <<>> THEN s.heads[v2].summary
                                               ELSE s.heads[v1].summary
      head    == [s.heads[v1] EXCEPT !.summary = summary]
  IN  IF v1 = v2 THEN s
      ELSE IF v2 > v1 \/ v1 > ts_stack_version_count(s)
        THEN Fault(s, "renumber_version: v2 < v1")
      ELSE [stack_node_release(s, s.heads[v2].node) EXCEPT
              !.heads = RemoveAt(ReplaceAt(@, v2, head), v1)]

ts_stack_swap_versions(s, v1, v2) ==
  [s EXCEPT !.heads[v1] = s.heads[v2], !.heads[v2] = s.heads[v1]]

\* The copy is the last version.
ts_stack_copy_version(s, v) ==
  [stack_node_retain(s, s.heads[v].node) EXCEPT
     !.heads = Append(@, [s.heads[v] EXCEPT !.summary = <<>>])]

ts_stack_can_merge(s, v1, v2) ==
  /\ ts_stack_is_active(s, v1)
  /\ ts_stack_is_active(s, v2)
  /\ Mergeable(Top(s, v1), Top(s, v2))

\* ts_stack_merge of two versions that can be merged.
Merge(s, v1, v2) ==
  LET n == s.heads[v1].node
      counted(linked) ==
        IF Top(s, v1).state = ERROR_STATE
          THEN [linked EXCEPT !.heads[v1].node_count_at_last_error = linked.nodes[n].node_count]
          ELSE linked
  IN  ts_stack_remove_version(
        counted(FoldLeft(LAMBDA t, link : stack_node_add_link(t, n, link), s, Top(s, v2).links)),
        v2)

ts_stack_merge(s, v1, v2) == IF ts_stack_can_merge(s, v1, v2) THEN Merge(s, v1, v2) ELSE s

ts_stack_halt(s, v) == [s EXCEPT !.heads[v].status = "halted"]

\* Mutant: the version stays active.
ts_stack_pause_Active(s, v, lookahead) ==
  [s EXCEPT !.heads[v].lookahead_when_paused = lookahead,
            !.heads[v].node_count_at_last_error = Top(s, v).node_count]

ts_stack_pause(s, v, lookahead) ==
  [s EXCEPT !.heads[v].status = "paused",
            !.heads[v].lookahead_when_paused = lookahead,
            !.heads[v].node_count_at_last_error = Top(s, v).node_count]

ts_stack_resume(s, v) ==
  [s EXCEPT !.heads[v].status = "active",
            !.heads[v].lookahead_when_paused = NULL_SUBTREE]

ts_stack_clear(s) ==
  LET kept == stack_node_retain(s, BaseNode)
  IN  [FoldLeft(LAMBDA t, head : stack_node_release(t, head.node), kept, s.heads)
         EXCEPT !.heads = <<StackHead(BaseNode)>>]

ts_stack_new ==
  LET base == [state |-> START_STATE, links |-> <<>>, ref_count |-> 2, position |-> 0,
               error_cost |-> 0, node_count |-> 0, dynamic_precedence |-> 0]
  IN  [nodes |-> <<base>>, heads |-> <<StackHead(BaseNode)>>, fault |-> "none"]

-----------------------------------------------------------------------------
(* Popping: stack__iter follows every path down from the top of a version. *)
(* A callback is a record: its kind and its parameter.                     *)

Iterator(node) == [node |-> node, subtrees |-> <<>>, subtree_count |-> 0]

\* An iterator that has followed a link; an extra is not counted, and a
\* discontinuity counts as a tree.
Follow(iterator, link) ==
  LET null    == link.subtree = NULL_SUBTREE
      counted == null \/ ~link.subtree.extra
  IN  [node |-> link.node,
       subtrees |-> IF null THEN iterator.subtrees
                            ELSE Append(iterator.subtrees, link.subtree),
       subtree_count |-> iterator.subtree_count + (IF counted THEN 1 ELSE 0)]

\* The payload after a call of the callback.
AfterCallback(callback, payload, s, iterator) ==
  LET depth  == iterator.subtree_count
      node   == s.nodes[iterator.node]
      entry  == [position |-> node.position, depth |-> depth, state |-> node.state]
      start  == SelectLastInSeq(payload.summary, LAMBDA e : e.depth < depth)
      seen   == \E i \in (start + 1) .. Len(payload.summary) :
                   /\ payload.summary[i].depth = depth
                   /\ payload.summary[i].state = node.state
  IN  CASE callback.kind = "error" /\ iterator.subtrees # <<>> ->
             [payload EXCEPT !.found = @ \/ ts_subtree_is_error(iterator.subtrees[1])]
        [] callback.kind = "summarize" /\ depth <= callback.goal /\ ~seen ->
             [payload EXCEPT !.summary = Append(@, entry)]
        [] OTHER -> payload

ShouldPop(callback, payload, node, iterator) ==
  CASE callback.kind = "count" -> iterator.subtree_count = callback.goal
    [] callback.kind = "all"   -> node.links = <<>>
    [] callback.kind = "error" -> /\ iterator.subtrees # <<>>
                                  /\ ~payload.found
                                  /\ ts_subtree_is_error(iterator.subtrees[1])
    [] OTHER -> FALSE

ShouldStop(callback, node, iterator) ==
  \/ node.links = <<>>
  \/ callback.kind = "count" /\ iterator.subtree_count = callback.goal
  \/ callback.kind = "error" /\ iterator.subtrees # <<>>
  \/ callback.kind = "summarize" /\ iterator.subtree_count > callback.goal

\* ts_stack__add_slice: a path that ends at the same node as an earlier one
\* shares its version, and comes right after it.
AddSlice(it, version, iterator) ==
  LET trees == Reverse(iterator.subtrees)
      i     == SelectLastInSeq(it.slices, LAMBDA slice :
                  it.stack.heads[slice.version].node = iterator.node)
      head  == [StackHead(iterator.node) EXCEPT !.node_count_at_last_error =
                   it.stack.heads[version].node_count_at_last_error]
      new   == Len(it.stack.heads) + 1
  IN  IF i > 0
        THEN [it EXCEPT !.slices =
                InsertAt(@, i + 1, [subtrees |-> trees, version |-> it.slices[i].version])]
        ELSE [it EXCEPT !.slices = Append(@, [subtrees |-> trees, version |-> new]),
                        !.stack = [stack_node_retain(@, iterator.node) EXCEPT
                                     !.heads = Append(@, head)]]

\* Iterator i of the first size ones of a round.
RECURSIVE IterateFrom(_, _, _, _, _)
IterateFrom(it, i, size, version, callback) ==
  LET iterator == it.iterators[i]
      node     == it.stack.nodes[iterator.node]
      called   == [it EXCEPT !.payload = AfterCallback(callback, @, it.stack, iterator)]
      popped   == IF ShouldPop(callback, it.payload, node, iterator)
                    THEN AddSlice(called, version, iterator) ELSE called
      room     == MAX_ITERATOR_COUNT - Len(it.iterators)
      n        == Len(node.links)
      others   == SubSeq(node.links, 2, IF n - 1 <= room THEN n ELSE 1 + room)
      branches == [j \in 1 .. Len(others) |-> Follow(iterator, others[j])]
      moved    == [popped EXCEPT !.iterators =
                     ReplaceAt(@, i, Follow(iterator, node.links[1])) \o branches]
  IN  IF it.iterators = <<>> THEN it
      ELSE IF i > size THEN IterateFrom(it, 1, Len(it.iterators), version, callback)
      ELSE IF ShouldStop(callback, node, iterator)
        THEN IterateFrom([popped EXCEPT !.iterators = RemoveAt(@, i)],
                         i, size - 1, version, callback)
      ELSE IterateFrom(moved, i + 1, size, version, callback)

stack__iter(s, version, callback) ==
  IterateFrom([stack |-> s, iterators |-> <<Iterator(s.heads[version].node)>>,
               slices |-> <<>>, payload |-> [found |-> FALSE, summary |-> <<>>]],
              1, 1, version, callback)

ts_stack_pop_count(s, version, count) ==
  stack__iter(s, version, [kind |-> "count", goal |-> count])

ts_stack_pop_all(s, version) == stack__iter(s, version, [kind |-> "all", goal |-> 0])

\* The error on top of a version, if there is one, and the stack without it.
ts_stack_pop_error(s, version) ==
  LET links == Top(s, version).links
      found == \E i \in 1 .. Len(links) : /\ links[i].subtree # NULL_SUBTREE
                                          /\ ts_subtree_is_error(links[i].subtree)
      popped(pop) ==
        IF pop.slices = <<>> THEN [stack |-> s, trees |-> <<>>]
        ELSE [stack |-> ts_stack_renumber_version(pop.stack, pop.slices[1].version, version),
              trees |-> pop.slices[1].subtrees]
  IN  IF ~found THEN [stack |-> s, trees |-> <<>>]
      ELSE popped(stack__iter(s, version, [kind |-> "error", goal |-> 0]))

ts_stack_record_summary(s, version, max_depth) ==
  LET recorded(pop) == [pop.stack EXCEPT !.heads[version].summary = pop.payload.summary]
  IN  recorded(stack__iter(s, version, [kind |-> "summarize", goal |-> max_depth]))
=============================================================================
