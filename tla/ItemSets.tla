------------------------------ MODULE ItemSets ------------------------------
(***************************************************************************)
(* crates/generate/src/build_tables: item.rs and item_set_builder.rs, the  *)
(* item sets of an LR(1) automaton and their closure.                      *)
(*                                                                         *)
(* An item is <<step, variable, production, inherited>>; production is the *)
(* least of those that are the same to the item, as items are compared, so *)
(* equal items are equal values.  An item set is a function from its items *)
(* to their lookaheads and the reserved word set that follows; StartItem   *)
(* is the augmented item, whose production is 0.                           *)
(*                                                                         *)
(* A prepared grammar is the grammar with productions, var_prods, inlines  *)
(* (the map of process_inlines), reserved_sets and terminals (a count).    *)
(***************************************************************************)
EXTENDS FlattenGrammar

Augmented == 1000

StartItem == <<1, Augmented, 0, FALSE>>
StartStep == [symbol |-> non_terminal(1), prec |-> NoPrec, assoc |-> "None", alias |-> <<>>,
              field |-> <<>>, reserved |-> 1]

StepsOf(g, p) == IF p = 0 THEN <<StartStep>> ELSE g.productions[p].steps
is_done(g, item) == item[1] = Len(StepsOf(g, item[3])) + 1
step(g, item) == StepsOf(g, item[3])[item[1]]
requires_eof_lookahead(g, item) == item[3] # 0 /\ g.productions[item[3]].eof
precedence(g, item) == IF item[1] = 1 THEN NoPrec ELSE StepsOf(g, item[3])[item[1] - 1].prec
associativity(g, item) == IF item[1] = 1 THEN "None" ELSE StepsOf(g, item[3])[item[1] - 1].assoc

\* ItemContent: what tells two productions apart once the dot is at a step.
ItemContent(g, p, dot) ==
  LET q == g.productions[p]
  IN  <<q.dynamic_precedence, q.eof, Len(q.steps),
        IF dot = 1 THEN <<NoPrec, "None">> ELSE <<q.steps[dot - 1].prec, q.steps[dot - 1].assoc>>,
        [i \in 1 .. dot - 1 |-> <<q.steps[i].alias, q.steps[i].field>>],
        SubSeq(q.steps, dot, Len(q.steps))>>

SymbolsBefore(g, p, dot) == [i \in 1 .. dot - 1 |-> g.productions[p].steps[i].symbol]

\* Mutant: the symbols before the dot never tell productions apart.
SameItem_Content(g, p, q, dot, inherited) ==
  /\ Len(g.productions[p].steps) >= dot - 1 /\ Len(g.productions[q].steps) >= dot - 1
  /\ ItemContent(g, p, dot) = ItemContent(g, q, dot)

SameItem(g, p, q, dot, inherited) ==
  /\ Len(g.productions[p].steps) >= dot - 1 /\ Len(g.productions[q].steps) >= dot - 1
  /\ ItemContent(g, p, dot) = ItemContent(g, q, dot)
  /\ inherited => SymbolsBefore(g, p, dot) = SymbolsBefore(g, q, dot)

\* dot_keys: the item with the first of the productions that are the same to it;
\* items are past no inlined symbol.
Item(g, dot, v, p, inherited) ==
  IF p = 0 THEN <<dot, v, p, inherited>>
  ELSE LET same == {q \in DOMAIN g.productions : /\ SameItem(g, p, q, dot, inherited)
                                                  /\ ToSet(SymbolsBefore(g, q, dot)) \intersect ToSet(g.inline) = {}}
       IN  <<dot, v, CHOOSE q \in same : \A r \in same : q <= r, inherited>>

successor(g, item, inherited) == Item(g, item[1] + 1, item[2], item[3], item[4] \/ inherited)
substitute_production(g, item, p) == Item(g, item[1], item[2], p, item[4])

Flag(b) == IF b THEN 1 ELSE 0

\* ItemContent::cmp as numbers, compared from left to right.
PrecKey(p) == CASE p[1] = "None" -> <<0, 0>> [] p[1] = "Integer" -> <<1, p[2]>>
                [] p[1] = "Name" -> <<2, NameRank(p[2])>>
AssocKey(assoc) == CASE assoc = "None" -> 0 [] assoc = "Left" -> 1 [] assoc = "Right" -> 2
NamesKey(s) ==
  (IF s.alias = <<>> THEN <<0, 0>> ELSE <<NameRank(s.alias[1]), Flag(s.alias[2])>>) \o <<NameRank(s.field)>>

ContentKey(g, p, dot) ==
  LET q == g.productions[p]
  IN  <<q.dynamic_precedence, Flag(q.eof), Len(q.steps)>>
        \o (IF dot = 1 THEN <<0, 0, 0>>
            ELSE Append(PrecKey(q.steps[dot - 1].prec), AssocKey(q.steps[dot - 1].assoc)))
        \o FlattenSeq([i \in DOMAIN q.steps |->
             IF i < dot THEN NamesKey(q.steps[i])
             ELSE q.steps[i].symbol \o PrecKey(q.steps[i].prec) \o <<AssocKey(q.steps[i].assoc)>>
                    \o NamesKey(q.steps[i]) \o <<q.steps[i].reserved>>])

LeftToRight(a, b) == \E i \in DOMAIN a : (\A j \in 1 .. i - 1 : a[j] = b[j]) /\ a[i] < b[i]

\* The order of ParseItem: the step, the variable, the content of the production,
\* the flag; items that differ only in the symbols before the dot come in the
\* order of their productions.
ItemLess(g, a, b) ==
  \/ LeftToRight(<<a[1], a[2]>>, <<b[1], b[2]>>)
  \/ /\ a[1] = b[1] /\ a[2] = b[2] /\ a[3] # b[3]
     /\ LeftToRight(ContentKey(g, a[3], a[1]) \o <<Flag(a[4]), a[3]>>,
                    ContentKey(g, b[3], b[1]) \o <<Flag(b[4]), b[3]>>)
  \/ a[1] = b[1] /\ a[2] = b[2] /\ a[3] = b[3] /\ ~a[4] /\ b[4]

SortedItems(g, items) == SortedBy(items, LAMBDA a, b : ItemLess(g, a, b))

Entry(lookaheads, reserved) == [lookaheads |-> lookaheads, reserved |-> reserved]
EmptySet == [i \in {} |-> Entry({}, 1)]
Larger(a, b) == IF a >= b THEN a ELSE b

\* ParseItemSet::insert, then the union of what the entry has and is given.
insert(set, item, entry) ==
  IF item \in DOMAIN set
    THEN [set EXCEPT ![item] = Entry(@.lookaheads \union entry.lookaheads,
                                     Larger(@.reserved, entry.reserved))]
    ELSE set @@ (item :> entry)

-----------------------------------------------------------------------------
(* item_set_builder.rs                                                       *)

ProductionsOf(g, v) == {g.productions[g.var_prods[v][k]] : k \in DOMAIN g.var_prods[v]}

FirstStep(q) == q.steps[1]
LastStep(q) == q.steps[Len(q.steps)]

\* The steps at the given end of the productions of a set of variables, and of
\* those they begin or end with.
RECURSIVE EndSteps(_, _, _)
EndSteps(g, Pick(_), variables) ==
  LET steps == {Pick(q) : q \in {q \in UNION {ProductionsOf(g, v) : v \in variables} : q.steps # <<>>}}
      more  == {s.symbol[2] : s \in {s \in steps : is_non_terminal(s.symbol)}}
  IN  IF more \subseteq variables THEN steps ELSE EndSteps(g, Pick, variables \union more)

TokensOf(steps) == {s.symbol : s \in {s \in steps : ~is_non_terminal(s.symbol)}}

\* FIRST and LAST sets; a rule that matches nothing but the end has none.
first_sets(g) == [v \in DOMAIN g.variables |-> TokensOf(EndSteps(g, FirstStep, {v}))]
last_sets(g) == [v \in DOMAIN g.variables |-> TokensOf(EndSteps(g, LastStep, {v}))]
reserved_first_sets(g) ==
  [v \in DOMAIN g.variables |->
     LET r == {s.reserved : s \in EndSteps(g, FirstStep, {v})}
     IN  IF r = {} THEN 1 ELSE CHOOSE x \in r : \A y \in r : y <= x]

first_set(b, s) == IF is_non_terminal(s) THEN b.first[s[2]] ELSE {s}
last_set(b, s) == IF is_non_terminal(s) THEN b.last[s[2]] ELSE {s}
reserved_first_set(b, s) == IF is_non_terminal(s) THEN b.reserved_first[s[2]] ELSE 1

FollowInfo(look, reserved, propagates) ==
  [lookaheads |-> look, reserved |-> reserved, propagates |-> propagates]

MergeInfo(a, b) ==
  FollowInfo(a.lookaheads \union b.lookaheads, Larger(a.reserved, b.reserved),
             a.propagates \/ b.propagates)

\* What follows the first symbol of a production of a rule with this info.
FollowOf(b, q, info) ==
  IF Len(q.steps) > 1
    THEN FollowInfo(first_set(b, q.steps[2].symbol), reserved_first_set(b, q.steps[2].symbol), FALSE)
  ELSE IF q.eof THEN FollowInfo({end}, 1, FALSE)
  ELSE info

NoFollow == FollowInfo({}, 1, FALSE)

\* The rules a rule can begin with, and what can follow each.  A rule that
\* nothing is found to follow is not looked into.
RECURSIVE FollowSets(_, _, _)
FollowSets(g, b, info) ==
  LET beginning(v) == {q \in ProductionsOf(g, v) : q.steps # <<>> /\ is_non_terminal(q.steps[1].symbol)}
      found == UNION {{<<q.steps[1].symbol[2], FollowOf(b, q, info[v])>> : q \in beginning(v)} :
                        v \in {v \in DOMAIN info : info[v] # NoFollow}}
      Old(v) == IF v \in DOMAIN info THEN {info[v]} ELSE {}
      Of(v)  == {f[2] : f \in {f \in found : f[1] = v}} \union Old(v)
      next   == [v \in DOMAIN info \union {f[1] : f \in found} |->
                   FoldSet(MergeInfo, NoFollow, Of(v))]
  IN  IF next = info THEN info ELSE FollowSets(g, b, next)

Inlined(g, p, dot) == IF <<p, dot>> \in DOMAIN g.inlines THEN g.inlines[<<p, dot>>] ELSE <<p>>

EofInfo(g, p, info) == IF g.productions[p].eof THEN FollowInfo({end}, 1, FALSE) ELSE info

\* The items to add where a rule comes next.
Additions(g, info) ==
  UNION {UNION {{[item |-> Item(g, 1, v, q, FALSE), info |-> EofInfo(g, q, info[v])] :
                   q \in ToSet(Inlined(g, g.var_prods[v][k], 1))} : k \in DOMAIN g.var_prods[v]} :
           v \in {v \in DOMAIN info : non_terminal(v) \notin ToSet(g.inline)}}

FirstAndLast(g) ==
  [first |-> first_sets(g), last |-> last_sets(g), reserved_first |-> reserved_first_sets(g)]

\* ParseItemSetBuilder::new
NewBuilder(g, b) ==
  [first |-> b.first, last |-> b.last, reserved_first |-> b.reserved_first,
   additions |-> [v \in DOMAIN g.variables |->
                    Additions(g, FollowSets(g, b, v :> FollowInfo({}, 1, TRUE)))]]

\* The entry an addition makes where these tokens follow the rule.
AdditionEntry(g, info, following) ==
  LET word == IF g.word = <<>> THEN {} ELSE {g.word}
      own  == IF word # {} /\ word \subseteq info.lookaheads THEN info.reserved ELSE 1
  IN  IF ~info.propagates THEN Entry(info.lookaheads, own)
      ELSE Entry(info.lookaheads \union following.lookaheads,
                 IF word # {} /\ word \subseteq following.lookaheads
                   THEN Larger(own, following.reserved) ELSE own)

\* What follows the symbol after the dot.
Following(g, b, item, entry) ==
  IF item[1] = Len(StepsOf(g, item[3])) THEN entry
  ELSE LET s == StepsOf(g, item[3])[item[1] + 1].symbol
       IN  Entry(first_set(b, s), reserved_first_set(b, s))

add_item(g, b, set, item, entry) ==
  LET expand    == ~is_done(g, item) /\ is_non_terminal(step(g, item).symbol)
      additions == IF expand THEN b.additions[step(g, item).symbol[2]] ELSE {}
      following == IF expand THEN Following(g, b, item, entry) ELSE entry
      expanded  == FoldSet(LAMBDA a, s : insert(s, a.item, AdditionEntry(g, a.info, following)),
                           set, additions)
  IN  insert(expanded, item, entry)

transitive_closure(g, b, kernel) ==
  FoldSet(LAMBDA item, set :
            FoldLeft(LAMBDA s, p : add_item(g, b, s, substitute_production(g, item, p), kernel[item]),
                     set, Inlined(g, item[3], item[1])),
          EmptySet, DOMAIN kernel)

\* The lookaheads left out: states with one core may be merged.
core(set) == DOMAIN set
=============================================================================
