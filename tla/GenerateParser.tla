--------------------------- MODULE GenerateParser ---------------------------
(***************************************************************************)
(* The generator's syntactic pipeline, from a grammar.json to the tables   *)
(* of parser.c and the node types, as generate.rs, prepare_grammar.rs and  *)
(* build_tables.rs run it: one action for each stage, one for each parse   *)
(* state that is built.                                                    *)
(*                                                                         *)
(* An input has the grammar (json), what the lexical analysis finds of its *)
(* tokens (lex), and merge, the OptLevel.                                  *)
(***************************************************************************)
EXTENDS LrMachine

CONSTANT Inputs  \* the grammars that are tried

VARIABLES
  stage,    \* what has been computed
  input,
  g,        \* the grammar as the stage left it
  before,   \* the grammar before its tokens were extracted, and after
  trees,    \* the sentences and trees of the rules, before they are rewritten
  info,     \* VariableInfo and the node types
  builder,  \* ParseItemSetBuilder
  t,        \* ParseTableBuilder
  done,     \* the number of states whose actions are complete
  states,   \* the parse table
  symbols,
  parsed,   \* what the table parsed before it was minimized
  lang      \* the generated tables

vars == <<stage, input, g, before, trees, info, builder, t, done, states, symbols, parsed, lang>>

Init ==
  /\ input \in Inputs
  /\ stage = "json"
  /\ g = input.json /\ before = <<>> /\ trees = {} /\ info = <<>> /\ builder = <<>> /\ t = <<>>
  /\ done = 0 /\ states = <<>> /\ symbols = <<>> /\ parsed = {} /\ lang = <<>>

TableVars == <<builder, t, done, states, symbols, parsed, lang>>

Refuse ==
  /\ stage' = "refused"
  /\ UNCHANGED <<input, g, before, trees, info, TableVars>>

-----------------------------------------------------------------------------
(* Preparation                                                               *)

ParseGrammar ==
  /\ stage = "json" /\ ~ParseRefused(g)
  /\ stage' = "parsed"
  /\ g' = parse_grammar(g)
  /\ UNCHANGED <<input, before, trees, info, TableVars>>

InternSymbols ==
  /\ stage = "parsed" /\ ~ValidateRefused(g) /\ ~InternRefused(g)
  /\ stage' = "interned"
  /\ g' = intern_symbols(g)
  /\ UNCHANGED <<input, before, trees, info, TableVars>>

TakeTokens(all, absorbed) ==
  /\ ~ExtractRefused(g, all, absorbed)
  /\ g' = extract_tokens(g, all, absorbed)

ExtractTokens ==
  /\ stage = "interned"
  /\ LET all == ExtractAll(g) IN TakeTokens(all, Absorbed(g, all))
  /\ stage' = "extracted"
  /\ before' = <<g, g'>>
  /\ UNCHANGED <<input, trees, info, TableVars>>

ExpandRepeats ==
  /\ stage = "extracted" /\ ~expand_repeats(g).refused
  /\ stage' = "expanded"
  /\ g' = expand_repeats(g).grammar
  /\ UNCHANGED <<input, before, trees, info, TableVars>>

WithStore(store) ==
  g @@ [productions |-> store.productions, var_prods |-> store.var_prods,
        reserved_sets |-> ReservedSets(g), lex |-> input.lex]

FlattenInto(paths, store) ==
  /\ ~FlattenRefused(g, paths, store)
  /\ g' = WithStore(store)

FlattenGrammar_ ==
  /\ stage = "expanded"
  /\ LET paths == FlattenPaths(g) IN FlattenInto(paths, flatten_grammar(paths))
  /\ stage' = "flat"
  /\ trees' = RuleSentences(before[2])
  /\ UNCHANGED <<input, before, info, TableVars>>

WithAliases(aliases) == (g @@ [default_aliases |-> aliases])

ExtractDefaultAliases ==
  /\ stage = "flat"
  /\ stage' = "aliased"
  /\ g' = [WithAliases(default_aliases(g, g)) EXCEPT
             !.productions = ClearAliases(g, default_aliases(g, g)).productions]
  /\ UNCHANGED <<input, before, trees, info, TableVars>>

StoreOf(g_) == [productions |-> g_.productions, var_prods |-> g_.var_prods]

InlineInto(b) ==
  /\ ~InlinesRefused(g, b)
  /\ g' = [g EXCEPT !.productions = b.store.productions] @@ [inlines |-> b.map]

ProcessInlines ==
  /\ stage = "aliased"
  /\ InlineInto(process_inlines(g, StoreOf(g)))
  /\ stage' = "prepared"
  /\ UNCHANGED <<input, before, trees, info, TableVars>>

PreparationRefused ==
  \/ stage = "json" /\ ParseRefused(g)
  \/ stage = "parsed" /\ (ValidateRefused(g) \/ InternRefused(g))
  \/ stage = "interned" /\ LET all == ExtractAll(g) IN ExtractRefused(g, all, Absorbed(g, all))
  \/ stage = "extracted" /\ expand_repeats(g).refused
  \/ stage = "expanded" /\ LET paths == FlattenPaths(g) IN FlattenRefused(g, paths, flatten_grammar(paths))
  \/ stage = "aliased" /\ InlinesRefused(g, process_inlines(g, StoreOf(g)))

RefuseGrammar == PreparationRefused /\ Refuse

-----------------------------------------------------------------------------
(* Node types                                                                *)

InfoFrom(result, stripped) ==
  /\ ~VariableInfoRefused(g, result)
  /\ ~SupertypeCycle(SubtypeMap(g, stripped))
  /\ info' = [variables |-> stripped,
              types |-> generate_node_types(g, stripped, get_aliases_by_symbol(g), SubtypeMap(g, stripped))]

GetVariableInfo ==
  /\ stage = "prepared"
  /\ LET result == compute_variable_info_fixed_point(g)
     IN  InfoFrom(result, strip_hidden_child_types(g, result))
  /\ stage' = "typed"
  /\ UNCHANGED <<input, g, before, trees, TableVars>>

RefuseSupertypes ==
  /\ stage = "prepared"
  /\ LET result == compute_variable_info_fixed_point(g)
     IN  \/ VariableInfoRefused(g, result)
         \/ SupertypeCycle(SubtypeMap(g, strip_hidden_child_types(g, result)))
  /\ Refuse

-----------------------------------------------------------------------------
(* Tables                                                                    *)

StartTables ==
  /\ stage = "typed"
  /\ stage' = "build"
  /\ builder' = NewBuilder(g, FirstAndLast(g))
  /\ t' = StartTable(g, ExtraSets(g))
  /\ UNCHANGED <<input, g, before, trees, info, done, states, symbols, parsed, lang>>

\* One state of the queue; the error state has no items.
AddActions ==
  /\ stage = "build" /\ ~t.refused /\ done < Len(t.states)
  /\ done' = done + 1
  /\ t' = IF done = 0 THEN t
          ELSE add_actions(g, builder, info.variables, t, done + 1,
                           transitive_closure(g, builder, t.kernels[done + 1]))
  /\ UNCHANGED <<stage, input, g, before, trees, info, builder, states, symbols, parsed, lang>>

RefuseTable ==
  /\ stage = "build" /\ t.refused
  /\ Refuse

AllTokens == {terminal(i) : i \in DOMAIN g.lexical} \union {external(i) : i \in DOMAIN g.externals}

FinishTable ==
  /\ stage = "build" /\ ~t.refused /\ done = Len(t.states)
  /\ stage' = "built"
  /\ states' = populate_error_state(g, t.states)
  /\ symbols' = populate_used_symbols(g, populate_error_state(g, t.states))
  /\ parsed' = Parses(Machine(t.states), Language(g, t.infos), AllTokens)
  /\ UNCHANGED <<input, g, before, trees, info, builder, t, done, lang>>

MergeStates_ ==
  /\ stage = "built"
  /\ stage' = "merged"
  /\ states' = IF input.merge
                 THEN merge_compatible_states(states, Groups(Wrapped(g, states), CoreGroups(states)))
                 ELSE states
  /\ UNCHANGED <<input, g, before, trees, info, builder, t, done, symbols, parsed, lang>>

RemoveUnitReductions ==
  /\ stage = "merged"
  /\ stage' = "short"
  /\ states' = remove_unit_reductions(states, [q \in DOMAIN states |-> UnitReduction(g, states[q])])
  /\ UNCHANGED <<input, g, before, trees, info, builder, t, done, symbols, parsed, lang>>

SortStates ==
  /\ stage = "short"
  /\ stage' = "minimized"
  /\ states' = reorder_states_by_descending_size(remove_unused_states(states))
  /\ UNCHANGED <<input, g, before, trees, info, builder, t, done, symbols, parsed, lang>>

Render ==
  /\ stage = "minimized"
  /\ stage' = "done"
  /\ lang' = render(g, states, symbols, t.infos)
  /\ UNCHANGED <<input, g, before, trees, info, builder, t, done, states, symbols, parsed>>

Next ==
  \/ ParseGrammar \/ InternSymbols \/ ExtractTokens \/ ExpandRepeats \/ FlattenGrammar_
  \/ ExtractDefaultAliases \/ ProcessInlines \/ RefuseGrammar
  \/ GetVariableInfo \/ RefuseSupertypes
  \/ StartTables \/ AddActions \/ RefuseTable \/ FinishTable
  \/ MergeStates_ \/ RemoveUnitReductions \/ SortStates \/ Render

Spec == Init /\ [][Next]_vars

-----------------------------------------------------------------------------
\* extract_tokens: the sentences are the same, and so are their named nodes, as
\* the rules say before their tokens get symbols of their own.
ExtractionKeepsNodes ==
  stage = "flat" =>
    LET Root(s) == IF is_terminal(s) THEN g.lexical[s[2]].root ELSE s
    IN  {<<x[1], NamedOnly(x[2])>> : x \in RuleSentences(before[1])}
          = {<<[k \in DOMAIN x[1] |-> Root(x[1][k])], NamedOnly(x[2])>> : x \in trees}

\* expand_repeats, flatten_grammar, extract_default_aliases and process_inlines:
\* the productions derive the sentences and trees of the rules.
ExpansionKeepsTrees == stage = "prepared" => ProductionSentences(g) = trees

\* prepare_grammar: through all its rewriting the language and the named nodes of
\* its sentences stay those of the grammar that was written.
PreparationKeepsTrees == ExtractionKeepsNodes /\ ExpansionKeepsTrees

Parsed(parses) == {<<p.w, p.kids>> : p \in parses}

\* build_parse_table: the table accepts the sentences of the grammar, and what it
\* builds for each is one of its trees.  Inputs in which a rule that has eof()
\* alone as an alternative comes after another rule are left out: the FIRST set of
\* such a rule lacks the end, so the rule before it is not reduced there and the
\* sentence is refused.
TableParsesGrammar ==
  stage = "built" =>
    /\ Parsed(parsed) \subseteq trees
    /\ {p.w : p \in parsed} = {x[1] : x \in trees}
    /\ input.exact => Parsed(parsed) = trees

\* A tree whose operators are nested as their precedences and associativities say.
Operator(ops, n) == n.type \in DOMAIN ops

RECURSIVE Grouped(_, _)
Grouped(ops, n) ==
  /\ \A k \in DOMAIN n.kids : Grouped(ops, n.kids[k])
  /\ Operator(ops, n) =>
       LET Tighter(k, side) ==
             Operator(ops, k) => \/ ops[k.type].prec > ops[n.type].prec
                                 \/ ops[k.type].prec = ops[n.type].prec /\ ops[n.type].assoc = side
       IN  Tighter(n.kids[1], "Left") /\ Tighter(n.kids[Len(n.kids)], "Right")

\* compare_precedence and handle_conflict: where the operators of an expression
\* have precedences, the one tree that respects them is built.
PrecedenceDecides ==
  stage = "built" /\ DOMAIN input.ops # {} =>
    Parsed(parsed) = {x \in trees : \A k \in DOMAIN x[2] : Grouped(input.ops, x[2][k])}

\* AddExtras: an extra token may stand before, between and after the tokens of
\* any sentence, and changes nothing of its tree.
ExtrasAnywhere ==
  stage = "built" =>
    \A p \in parsed : \A s \in {s \in ToSet(g.extras) : ~is_non_terminal(s)} :
       Len(p.text) < MaxLength =>
         \A k \in 0 .. Len(p.text) :
            [p EXCEPT !.text = SubSeq(@, 1, k) \o <<s>> \o SubSeq(@, k + 1, Len(@))] \in parsed

\* merge_compatible_states: tokens that cannot be told apart meet in a merged state
\* only if they met before, but for keywords and the word token.
MergedStatesLexApart ==
  stage = "merged" =>
    \A q \in DOMAIN states \ {1} : \A i, j \in DOMAIN g.lexical :
       /\ i # j /\ {terminal(i), terminal(j)} \subseteq DOMAIN states[q].terminals
       /\ <<i, j>> \in g.lex.conflict
       => \/ Coincident(t.states, i, j)
          \/ terminal(i) = g.word /\ j \in g.lex.keywords
          \/ terminal(j) = g.word /\ i \in g.lex.keywords

\* minimize_parse_table: the smaller table accepts the same texts with the same trees.
MinimizedParsesAlike ==
  stage = "minimized" => Parses(Machine(states), Language(g, t.infos), AllTokens) = parsed

\* minimize_parse_table: merging states and removing unit reductions changes
\* neither what is parsed nor which tokens a lexer has to tell apart.
MinimizationSafe == MinimizedParsesAlike /\ MergedStatesLexApart

\* render.rs and language.h: what is read from the generated tables is what the
\* builder put there, for every state and symbol and every production; the tokens of
\* the scanner and the reserved words for every state in which the lexer is called.
RenderedTablesAgree ==
  stage = "done" =>
    LET read == RenderedLanguage(lang, symbols)
        own  == Language(g, t.infos)
    IN  /\ RenderedMachine(lang, symbols) = Machine(states)
        /\ read.aliases = own.aliases /\ read.fields = own.fields
        /\ \A s \in ToSet(symbols) \ {end} : read.shown[s] = own.shown[s]
        /\ \A q \in {q \in DOMAIN states : q - 1 \notin lang.end_of_extra} :
             /\ lang.reserved[lang.reserved_of[q]] = states[q].reserved
             /\ {s \in DOMAIN states[q].terminals : is_external(s)}
                  \subseteq lang.external.sets[lang.external.of[q]]

-----------------------------------------------------------------------------
\* What an entry of the node types file says of the children it is about.
Holds(json, kids) ==
  /\ json.required => kids # <<>>
  /\ ~json.multiple => Len(kids) <= 1
  /\ \A k \in DOMAIN kids : <<kids[k].type, kids[k].named>> \in Below(info.types.supertypes, json.types)

RECURSIVE Conforms(_)
Conforms(n) ==
  /\ <<n.type, n.named>> \in DOMAIN info.types.entries
  /\ LET e == info.types.entries[<<n.type, n.named>>]
     IN  /\ \A f \in DOMAIN e.fields : Holds(e.fields[f], SelectSeq(n.kids, LAMBDA k : k.field = f))
         /\ \A k \in DOMAIN n.kids : n.kids[k].field # <<>> => n.kids[k].field \in DOMAIN e.fields
         /\ Holds(e.children, SelectSeq(n.kids, LAMBDA k : k.named /\ k.field = <<>>))
  /\ \A k \in DOMAIN n.kids : Conforms(n.kids[k])

\* node_types.rs: every tree of the grammar has the children and fields that the
\* node types say, and no others.
NodeTypesHold ==
  stage = "typed" =>
    \A x \in trees : Conforms(Node(g.variables[1].name, TRUE, <<>>, x[2]))
=============================================================================
