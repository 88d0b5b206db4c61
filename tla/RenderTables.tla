---------------------------- MODULE RenderTables ----------------------------
(***************************************************************************)
(* crates/generate/src/render.rs: the tables of the generated parser.c,    *)
(* and how lib/src/language.h reads them.                                  *)
(*                                                                         *)
(* States and symbols have the numbers of the C tables: state q of the     *)
(* builder is number q - 1, the end is symbol 0.  Identifiers and the      *)
(* layout of the file are left out; of names only equality matters, so     *)
(* sorted lists of names stand in any order.                               *)
(***************************************************************************)
EXTENDS MinimizeParseTable, NodeTypes

SMALL_STATE_THRESHOLD == 64

\* metadata_for_symbol, and the name and kind that a node of the symbol shows.
metadata_for_symbol(g, s) ==
  IF s[1] \in {End, EndOfNonTerminalExtra} THEN <<<<"end">>, Hidden>> ELSE <<NameOf(g, s), KindOf(g, s)>>

AliasKind(a) == IF a[2] THEN Named ELSE Anonymous

ShownAs(g, s) ==
  IF s \in DOMAIN g.default_aliases
    THEN <<g.default_aliases[s][1], AliasKind(g.default_aliases[s])>>
    ELSE metadata_for_symbol(g, s)

\* Every symbol that shows as the alias does.
symbols_for_alias(g, symbols, a) ==
  SelectSeq(symbols, LAMBDA s : ShownAs(g, s) = <<a[1], AliasKind(a)>>)

\* The symbol that stands for this one in the interface.
PublicSymbol(g, symbols, map, s) ==
  IF s \in DOMAIN g.default_aliases
    THEN LET a     == g.default_aliases[s]
             plain == SelectSeq(symbols, LAMBDA o : o \notin DOMAIN g.default_aliases
                                              /\ metadata_for_symbol(g, o) = <<a[1], AliasKind(a)>>)
             same  == {o \in DOMAIN g.default_aliases \intersect ToSet(symbols) : g.default_aliases[o] = a}
         IN  IF plain # <<>> THEN plain[1] ELSE SortedSymbols(same)[1]
  ELSE IF is_terminal(s)
    THEN LET first == SelectSeq(symbols, LAMBDA o :
                                  metadata_for_symbol(g, o) = metadata_for_symbol(g, s))[1]
         IN  IF first \in DOMAIN map /\ map[first] = s THEN s ELSE first
  ELSE s

symbol_map(g, symbols) ==
  FoldLeft(LAMBDA map, s : map @@ (s :> PublicSymbol(g, symbols, map, s)), <<>>, symbols)

SymbolId(symbols, s) == IF s = end_of_nonterminal_extra THEN 0 ELSE FirstIndex(symbols, s) - 1

\* The aliases of productions that are the name of no symbol.
UniqueAliases(g, symbols, infos) ==
  SetToSeq({a \in (UNION {ToSet(infos[k].aliases) : k \in DOMAIN infos}) \ {<<>>} :
              symbols_for_alias(g, symbols, a) = <<>>})

AliasId(g, symbols, map, unique, a) ==
  LET known == symbols_for_alias(g, symbols, a)
  IN  IF known # <<>> THEN SymbolId(symbols, map[known[1]])
      ELSE Len(symbols) + FirstIndex(unique, a) - 1

\* ts_symbol_names and ts_symbol_metadata, for the symbols and then the aliases.
Metadata_(g, symbols, unique) ==
  LET Symbol(s) == LET m == ShownAs(g, s)
                   IN  [name |-> m[1], visible |-> m[2] \in {Named, Anonymous}, named |-> m[2] \in {Named, Hidden}]
  IN  [k \in DOMAIN symbols |-> Symbol(symbols[k])]
        \o [k \in DOMAIN unique |-> [name |-> unique[k][1], visible |-> TRUE, named |-> unique[k][2]]]

-----------------------------------------------------------------------------
(* Fields: the entries of all productions in one list, equal ones once.      *)

FieldNames(infos) == SetToSeq({f[1] : f \in UNION {infos[k].fields : k \in DOMAIN infos}})

FlatFieldMap(names, fields) ==
  SortedBy({<<FirstIndex(names, f[1]), f[2] - 1, f[3]>> : f \in fields},
               LAMBDA x, y : x[1] < y[1] \/ (x[1] = y[1] /\ x[2] < y[2])
                               \/ (x[1] = y[1] /\ x[2] = y[2] /\ x[3] /\ ~y[3]))

get_field_map_id(acc, map) ==
  IF \E s \in DOMAIN acc.rows : acc.rows[s] = map THEN acc
  ELSE [rows |-> acc.rows @@ (Len(acc.flat) :> map), flat |-> acc.flat \o map]

\* The flat list and where the fields of each production are in it.
FieldSequences(names, infos) ==
  LET maps == [k \in DOMAIN infos |-> FlatFieldMap(names, infos[k].fields)]
      all  == FoldLeft(get_field_map_id, [rows |-> <<>>, flat |-> <<>>],
                       SelectSeq(maps, LAMBDA m : m # <<>>))
  IN  [entries |-> all.flat,
       slices  |-> [k \in DOMAIN maps |->
                      IF maps[k] = <<>> THEN [index |-> 0, length |-> 0]
                      ELSE [index |-> CHOOSE s \in DOMAIN all.rows : all.rows[s] = maps[k],
                            length |-> Len(maps[k])]]]

-----------------------------------------------------------------------------
(* add_parse_table                                                           *)

\* An action list and whether its tokens can be reused; that of populate_error_state
\* never is.
ListOf(g, state, s) ==
  <<state.terminals[s], state.terminals[s] # <<Recover>> /\ s \notin mark_fragile_tokens(g, state)>>

AddList(acc, list) ==
  IF list \in DOMAIN acc.at THEN acc
  ELSE [at |-> acc.at @@ (list :> Len(acc.flat)),
        flat |-> Append(acc.flat, [count |-> Len(list[1]), reusable |-> list[2]]) \o list[1]]

\* ts_parse_actions and where each list is; the empty one is first.
ActionLists(g, states, symbols) ==
  LET Tokens(q) == SelectSeq(symbols \o <<end_of_nonterminal_extra>>,
                             LAMBDA s : s \in DOMAIN states[q].terminals)
      lists == FlattenSeq([q \in DOMAIN states |->
                             [k \in DOMAIN Tokens(q) |-> ListOf(g, states[q], Tokens(q)[k])]])
  IN  FoldLeft(AddList, [at |-> <<>>, flat |-> <<>>], <<<<<<>>, FALSE>>>> \o lists)

Entries(state) == Cardinality(DOMAIN state.terminals) + Cardinality(DOMAIN state.nonterminals)

\* The first states, up to one with few entries, and at least two.
LargeStateCount(states, symbols) ==
  LET half      == Len(symbols) \div 2
      threshold == IF half < SMALL_STATE_THRESHOLD THEN half ELSE SMALL_STATE_THRESHOLD
      small     == {q \in DOMAIN states : q > 2 /\ Entries(states[q]) <= threshold}
  IN  IF small = {} THEN Len(states) ELSE (CHOOSE q \in small : \A r \in small : q <= r) - 1

\* Mutant: an extra's goto is taken for one to the first state.
GotoNumber_Zero(states, q, s) == states[q].nonterminals[s] - (IF states[q].nonterminals[s] = 0 THEN 0 ELSE 1)

\* A rule's goto, where an extra stays in the state.
GotoNumber(states, q, s) ==
  IF states[q].nonterminals[s] = 0 THEN q - 1 ELSE states[q].nonterminals[s] - 1

\* One row of ts_parse_table.
LargeRow(g, states, symbols, at, q) ==
  [id \in 0 .. Len(symbols) - 1 |->
     LET s == symbols[id + 1]
         e == IF s = end /\ end_of_nonterminal_extra \in DOMAIN states[q].terminals
                THEN end_of_nonterminal_extra ELSE s
     IN  IF s \in DOMAIN states[q].nonterminals THEN GotoNumber(states, q, s)
         ELSE IF e \in DOMAIN states[q].terminals THEN at[ListOf(g, states[q], e)] ELSE 0]

\* The entries of a small state: symbols with one value side by side.
Sections(g, states, at, q) ==
  LET tokens == {<<at[ListOf(g, states[q], s)], 0, s>> : s \in DOMAIN states[q].terminals}
      rules  == {<<GotoNumber(states, q, s), 1, s>> : s \in DOMAIN states[q].nonterminals}
      all    == tokens \union rules
      Of(k)  == SortedSymbols({e[3] : e \in {e \in all : <<e[1], e[2]>> = k}})
      keys   == {<<e[1], e[2]>> : e \in all}
      Before_(a, b) == \/ Len(Of(a)) < Len(Of(b))
                       \/ Len(Of(a)) = Len(Of(b)) /\ (a[2] < b[2] \/ (a[2] = b[2] /\ a[1] < b[1]))
      sorted == SortedBy(keys, Before_)
  IN  [k \in DOMAIN sorted |-> [value |-> sorted[k][1], symbols |-> Of(sorted[k])]]

SmallRow(symbols, sections) ==
  <<Len(sections)>> \o FlattenSeq([k \in DOMAIN sections |->
     <<sections[k].value, Len(sections[k].symbols)>>
       \o [j \in DOMAIN sections[k].symbols |-> SymbolId(symbols, sections[k].symbols[j])]])

\* ts_parse_table, ts_small_parse_table and its map.
ParseTables(g, states, symbols, lists, large) ==
  LET small == FoldLeft(LAMBDA acc, q :
                          [flat |-> acc.flat \o SmallRow(symbols, Sections(g, states, lists.at, q)),
                           map  |-> Append(acc.map, Len(acc.flat))],
                        [flat |-> <<>>, map |-> <<>>], [k \in 1 .. Len(states) - large |-> large + k])
  IN  [large |-> [q \in 1 .. large |-> LargeRow(g, states, symbols, lists.at, q)],
       small |-> small.flat, map |-> small.map, actions |-> lists.flat]

\* The states at the end of an extra.
EndOfExtra(states) ==
  {q - 1 : q \in {q \in DOMAIN states : end_of_nonterminal_extra \in DOMAIN states[q].terminals}}

\* add_lex_modes: what is written for each state.  One at the end of an extra has
\* no lex state, and neither external tokens nor reserved words.
LexMode(states, ids) == [q \in DOMAIN states |-> IF q - 1 \in EndOfExtra(states) THEN 1 ELSE ids[q]]

\* Reserved word sets, the empty one first; each state's.
ReservedWordSets(states) ==
  FoldLeft(LAMBDA acc, q : IF states[q].reserved \in ToSet(acc) THEN acc ELSE Append(acc, states[q].reserved),
           <<{}>>, [q \in DOMAIN states |-> q])

render_c_code(g, states, symbols, infos, map, unique, fields) ==
  [symbol_count |-> Len(symbols),
   tables       |-> ParseTables(g, states, symbols, ActionLists(g, states, symbols),
                                LargeStateCount(states, symbols)),
   metadata     |-> Metadata_(g, symbols, unique),
   public       |-> [k \in 0 .. Len(symbols) - 1 |-> SymbolId(symbols, map[symbols[k + 1]])],
   aliases      |-> [k \in DOMAIN infos |-> [i \in DOMAIN infos[k].aliases |->
                       IF infos[k].aliases[i] = <<>> THEN 0
                       ELSE AliasId(g, symbols, map, unique, infos[k].aliases[i])]],
   field_names  |-> fields,
   field_map    |-> FieldSequences(fields, infos),
   end_of_extra |-> EndOfExtra(states),
   external     |-> [populate_external_lex_states(g, states) EXCEPT !.of = LexMode(states, @)],
   reserved     |-> ReservedWordSets(states),
   reserved_of  |-> LexMode(states, [q \in DOMAIN states |->
                                       FirstIndex(ReservedWordSets(states), states[q].reserved)])]

render(g, states, symbols, infos) ==
  render_c_code(g, states, symbols, infos, symbol_map(g, symbols),
                UniqueAliases(g, symbols, infos), FieldNames(infos))

-----------------------------------------------------------------------------
(* language.h                                                                *)

RECURSIVE FindInSections(_, _, _, _)
FindInSections(data, at, groups, id) ==
  IF groups = 0 THEN 0
  ELSE IF \E j \in 1 .. data[at + 1] : data[at + 1 + j] = id THEN data[at]
  ELSE FindInSections(data, at + 2 + data[at + 1], groups - 1, id)

ts_language_lookup(lang, state, id) ==
  LET large == Len(lang.tables.large)
      index == lang.tables.map[state - large + 1]
  IN  IF state < large THEN lang.tables.large[state + 1][id]
      ELSE FindInSections(lang.tables.small, index + 2, lang.tables.small[index + 1], id)

\* ts_language_table_entry: the actions at an entry, and whether it is reusable.
ts_language_table_entry(lang, index) ==
  LET header == lang.tables.actions[index + 1]
  IN  <<SubSeq(lang.tables.actions, index + 2, index + 1 + header.count), header.reusable>>
=============================================================================
