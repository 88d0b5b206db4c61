------------------------------ MODULE LrMachine -----------------------------
(***************************************************************************)
(* How lib/src/parser.c uses a parse table on text without errors, all     *)
(* stack versions at once: ts_parser__advance, __shift, __reduce and       *)
(* __accept; and the nodes that lib/src/node.c shows of the result.        *)
(*                                                                         *)
(* A machine has for each state its actions by token and its gotos by      *)
(* rule; ends are the states at the end of an extra.  A configuration is   *)
(* the text so far and a stack of states and nodes.                        *)
(***************************************************************************)
EXTENDS RenderTables, Derivations

Machine(states) ==
  [actions |-> [q \in DOMAIN states |-> states[q].terminals],
   gotos   |-> [q \in DOMAIN states |-> [s \in DOMAIN states[q].nonterminals |->
                  IF states[q].nonterminals[s] = 0 THEN q ELSE states[q].nonterminals[s]]],
   ends    |-> {q \in DOMAIN states : end_of_nonterminal_extra \in DOMAIN states[q].terminals}]

\* The machine that is read from the rendered tables.
RenderedMachine(lang, symbols) ==
  LET n == Len(lang.tables.large) + Len(lang.tables.map)
      Value(q, s) == ts_language_lookup(lang, q - 1, SymbolId(symbols, s))
      Tokens(q) == {s \in ToSet(symbols) : ~is_non_terminal(s) /\ Value(q, s) # 0}
      Rules(q)  == {s \in ToSet(symbols) : is_non_terminal(s) /\ Value(q, s) # 0}
      Key(q, s) == IF s = end /\ q - 1 \in lang.end_of_extra THEN end_of_nonterminal_extra ELSE s
      Actions(q) == [k \in {Key(q, s) : s \in Tokens(q)} |-> ts_language_table_entry(lang, Value(q, k))[1]]
  IN  [actions |-> [q \in 1 .. n |-> Actions(q)],
       gotos   |-> [q \in 1 .. n |-> [s \in Rules(q) |-> Value(q, s) + 1]],
       ends    |-> {q + 1 : q \in lang.end_of_extra}]

-----------------------------------------------------------------------------
Leaf(s, extra) == [symbol |-> s, prod |-> 0, kids |-> <<>>, extra |-> extra]
Frame(q, node) == [state |-> q, node |-> node]
Config(text, stack) == [text |-> text, stack |-> stack]
StartConfig == Config(<<>>, <<Frame(2, <<>>)>>)

Top(c) == c.stack[Len(c.stack)].state

\* In a state at the end of an extra the lookahead is not read.
ActionsAt(m, c, lookahead) ==
  LET l == IF Top(c) \in m.ends THEN end_of_nonterminal_extra ELSE lookahead
  IN  IF l \in DOMAIN m.actions[Top(c)] THEN ToSet(m.actions[Top(c)][l]) ELSE {}

\* The number of frames at the top that hold extras.
Extras(stack) == Len(stack) - Max({1} \union {k \in 2 .. Len(stack) : ~stack[k].node.extra})

\* The index below the given number of children, extras between them not counted.
RECURSIVE Below_(_, _, _)
Below_(stack, top, count) ==
  IF count = 0 THEN top ELSE Below_(stack, top - 1, IF stack[top].node.extra THEN count ELSE count - 1)

\* Extras on top stay on top of the parent.
ReduceBy(m, c, a) ==
  LET top   == IF Top(c) \in m.ends THEN Len(c.stack) ELSE Len(c.stack) - Extras(c.stack)
      base  == Below_(c.stack, top, a.child_count)
      under == c.stack[base].state
      next  == m.gotos[under][a.symbol]
      node  == [symbol |-> a.symbol, prod |-> a.production_id,
                kids |-> [k \in 1 .. top - base |-> c.stack[base + k].node],
                extra |-> Top(c) \in m.ends /\ next = under]
  IN  [c EXCEPT !.stack = SubSeq(@, 1, base) \o <<Frame(next, node)>>
                            \o [k \in 1 .. Len(@) - top |-> Frame(next, @[top + k].node)]]

Reduce_(m, c, lookahead) ==
  {ReduceBy(m, c, a) : a \in {a \in ActionsAt(m, c, lookahead) : a.type = "Reduce"}}

RECURSIVE Reduced(_, _, _)
Reduced(m, configs, lookahead) ==
  LET next == configs \union UNION {Reduce_(m, c, lookahead) : c \in configs}
  IN  IF next = configs THEN configs ELSE Reduced(m, next, lookahead)

\* A Shift that repeats is left to the reduction beside it.
ShiftBy(c, a, t) ==
  IF a.type = "ShiftExtra" THEN {Config(Append(c.text, t), Append(c.stack, Frame(Top(c), Leaf(t, TRUE))))}
  ELSE IF IsShift(a) /\ ~a.repetition
    THEN {Config(Append(c.text, t), Append(c.stack, Frame(a.state, Leaf(t, FALSE))))}
  ELSE {}

ShiftToken(m, configs, t) ==
  UNION {UNION {ShiftBy(c, a, t) : a \in ActionsAt(m, c, t)} :
           c \in {c \in Reduced(m, configs, t) : Top(c) \notin m.ends}}

\* A state of the root: the node, with the extras around it among its children.
Accepted(m, configs) ==
  {c \in Reduced(m, configs, end) : Top(c) \notin m.ends /\ Accept \in ActionsAt(m, c, end)}

RECURSIVE Configs(_, _, _, _)
Configs(m, tokens, configs, n) ==
  IF n = 0 THEN configs
  ELSE configs \union Configs(m, tokens, UNION {ShiftToken(m, configs, t) : t \in tokens}, n - 1)

-----------------------------------------------------------------------------
(* Nodes                                                                     *)

\* What the nodes show: the names of symbols, and the aliases and fields of the
\* productions (<<field, child, inherited>>).
Language(g, infos) ==
  [aliases |-> [k \in DOMAIN infos |-> infos[k].aliases], fields |-> [k \in DOMAIN infos |-> infos[k].fields],
   shown   |-> [s \in {non_terminal(v) : v \in DOMAIN g.variables}
                        \union {terminal(i) : i \in DOMAIN g.lexical}
                        \union {external(i) : i \in DOMAIN g.externals} |->
                  LET m == ShownAs(g, s)
                  IN  [name |-> m[1], visible |-> m[2] \in {Named, Anonymous}, named |-> m[2] \in {Named, Hidden}]]]

RenderedLanguage(lang, symbols) ==
  LET Named_(id) == <<lang.metadata[id + 1].name, lang.metadata[id + 1].named>>
  IN  [aliases |-> [k \in DOMAIN lang.aliases |-> [i \in DOMAIN lang.aliases[k] |->
                      IF lang.aliases[k][i] = 0 THEN <<>> ELSE Named_(lang.aliases[k][i])]],
       fields  |-> [k \in DOMAIN lang.aliases |->
                      LET slice == lang.field_map.slices[k]
                      IN  {LET e == lang.field_map.entries[slice.index + i]
                           IN  <<lang.field_names[e[1]], e[2] + 1, e[3]>> : i \in 1 .. slice.length}],
       shown   |-> [s \in ToSet(symbols) |-> lang.metadata[SymbolId(symbols, s) + 1]]]

Lost == <<"lost">>

\* The place of a child among those that are no extras.
Place(kids, k) == Cardinality({j \in 1 .. k : ~kids[j].extra})

\* A field inside a hidden child is found where the parent's production says that
\* it inherits it.
Inherited(L, prod, i, kids) ==
  [k \in DOMAIN kids |->
     IF kids[k].field = <<>> \/ <<kids[k].field, i, TRUE>> \in L.fields[prod + 1] THEN kids[k]
     ELSE [kids[k] EXCEPT !.field = Lost]]

RECURSIVE VisibleKids(_, _)
VisibleKids(L, node) ==
  LET Child(k) ==
        LET c == node.kids[k]
            i == Place(node.kids, k)
            a == IF i \in DOMAIN L.aliases[node.prod + 1] THEN L.aliases[node.prod + 1][i] ELSE <<>>
            F == {f[1] : f \in {f \in L.fields[node.prod + 1] : f[2] = i /\ ~f[3]}}
            field_ == IF F = {} THEN <<>> ELSE CHOOSE f \in F : TRUE
            kids == VisibleKids(L, c)
        IN  IF c.extra THEN <<>>
            ELSE IF a # <<>> THEN <<Node(a[1], a[2], field_, kids)>>
            ELSE IF L.shown[c.symbol].visible
              THEN <<Node(L.shown[c.symbol].name, L.shown[c.symbol].named, field_, kids)>>
            ELSE Spliced(Inherited(L, node.prod, i, kids), field_)
  IN  FlattenSeq([k \in DOMAIN node.kids |-> Child(k)])

\* The tokens of a node that are not part of an extra.
RECURSIVE TokensIn(_)
TokensIn(node) ==
  IF node.extra THEN <<>>
  ELSE IF ~is_non_terminal(node.symbol) THEN <<node.symbol>>
  ELSE FlattenSeq([k \in DOMAIN node.kids |-> TokensIn(node.kids[k])])

RootNode(c) == c.stack[CHOOSE k \in 2 .. Len(c.stack) : ~c.stack[k].node.extra].node

\* All texts up to the length that a machine accepts, their tokens and trees.
Parses(m, L, tokens) ==
  {[text |-> c.text, w |-> TokensIn(RootNode(c)), kids |-> VisibleKids(L, RootNode(c))] :
     c \in Accepted(m, Configs(m, tokens, {StartConfig}, MaxLength))}
=============================================================================
