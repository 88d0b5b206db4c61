--------------------------- MODULE PrepareGrammar ---------------------------
(***************************************************************************)
(* crates/generate/src/parse_grammar.rs, the checks of prepare_grammar.rs, *)
(* and, of prepare_grammar, intern_symbols, extract_tokens and             *)
(* expand_repeats.  A grammar.json becomes an InputGrammar; names become   *)
(* symbols, the rules of tokens move to the lexical grammar, and           *)
(* repetitions become auxiliary rules.                                     *)
(*                                                                         *)
(* A grammar is a record of variables (name and root each), extras,        *)
(* externals, reserved (name and roots each), supertypes, conflicts,       *)
(* inline, word and precedences; a name is <<string>>.                     *)
(***************************************************************************)
EXTENDS Rules

CONSTANTS
  HiddenNames,  \* the names that start with an underscore
  NameOrder     \* the names of precedences, aliases and fields, in the order of their text

\* The place of a name; none comes first.
NameRank(name) == IF name = <<>> THEN 0 ELSE CHOOSE k \in DOMAIN NameOrder : NameOrder[k] = name

-----------------------------------------------------------------------------
(* parse_grammar.rs and prepare_grammar.rs                                   *)

\* The rules a grammar.json has that are not rules of the pool.
RECURSIVE parse_rule(_)
parse_rule(json) ==
  CASE json.type = "ALIAS" -> alias(parse_rule(json.content), json.value, json.named)
    [] json.type = "CHOICE" -> choice([i \in DOMAIN json.members |-> parse_rule(json.members[i])])
    [] json.type = "SEQ" -> Seqn([i \in DOMAIN json.members |-> parse_rule(json.members[i])])
    [] json.type = "FIELD" -> field(json.name, parse_rule(json.content))
    [] json.type = "REPEAT" -> Choice(<<Repeat(parse_rule(json.content)), Blank>>)
    [] json.type = "REPEAT1" -> Repeat(parse_rule(json.content))
    [] json.type = "PREC" -> prec(json.value, parse_rule(json.content))
    [] json.type = "PREC_LEFT" -> prec_assoc("Left", json.value, parse_rule(json.content))
    [] json.type = "PREC_RIGHT" -> prec_assoc("Right", json.value, parse_rule(json.content))
    [] json.type = "PREC_DYNAMIC" -> prec_dynamic(json.value, parse_rule(json.content))
    [] json.type = "RESERVED" -> Reserved(parse_rule(json.content), json.context_name)
    [] json.type = "TOKEN" -> token(parse_rule(json.content))
    [] json.type = "IMMEDIATE_TOKEN" -> immediate_token(parse_rule(json.content))
    [] json.type \in {"BLANK", "STRING", "PATTERN", "SYMBOL", "EOF"} -> json

\* "Unexpected rule in `token()` call": a token refers to a rule.
RECURSIVE UnexpectedRule(_, _)
UnexpectedRule(json, is_token) ==
  CASE json.type = "SYMBOL" -> is_token
    [] json.type \in Group ->
         \E i \in DOMAIN json.members : UnexpectedRule(json.members[i], is_token)
    [] json.type \in {"BLANK", "STRING", "PATTERN", "EOF"} -> FALSE
    [] OTHER -> UnexpectedRule(json.content, is_token \/ json.type \in {"TOKEN", "IMMEDIATE_TOKEN"})

ParseRefused(json) ==
  \/ \E r \in {v.root : v \in ToSet(json.variables)} \union ToSet(json.extras \o json.externals)
             \union UNION {ToSet(set.roots) : set \in ToSet(json.reserved)} : UnexpectedRule(r, FALSE)
  \/ \E i \in DOMAIN json.extras : json.extras[i] = String(<<>>)

-----------------------------------------------------------------------------
Roots(seq) == {seq[i] : i \in DOMAIN seq}
Names(g) == {v.name : v \in ToSet(g.variables)}
RootOf(g, name) == (CHOOSE v \in ToSet(g.variables) : v.name = name).root

RECURSIVE Reachable(_, _)
Reachable(g, names) ==
  LET more == UNION {collect_referenced_ids(RootOf(g, n), FALSE) : n \in names \intersect Names(g)}
  IN  IF more \subseteq names THEN names ELSE Reachable(g, names \union more)

\* The rules reachable from the start rule, the word token, extras, externals
\* and reserved words.
Used(g) ==
  Reachable(g,
    {g.variables[1].name} \union (IF g.word = <<>> THEN {} ELSE {g.word})
      \union UNION {collect_referenced_ids(r, FALSE) : r \in Roots(g.extras)}
      \union UNION {collect_referenced_ids(r, TRUE) : r \in Roots(g.externals)}
      \union UNION {UNION {collect_referenced_ids(r, FALSE) : r \in Roots(g.reserved[k].roots)} :
                      k \in DOMAIN g.reserved})

normalize(g) ==
  LET used    == Used(g)
      dropped == Names(g) \ used
      Keep(roots, is_external_) ==
        SelectSeq(roots, LAMBDA r : \A n \in dropped : ~rule_is_referenced(r, n, is_external_))
  IN  [g EXCEPT
        !.variables   = SelectSeq(@, LAMBDA v : v.name \in used),
        !.conflicts   = SelectSeq(@, LAMBDA c : ToSet(c) \intersect dropped = {}),
        !.supertypes  = SelectSeq(@, LAMBDA n : n \notin dropped),
        !.inline      = SelectSeq(@, LAMBDA n : n \notin dropped),
        !.extras      = Keep(@, TRUE),
        !.externals   = Keep(@, TRUE),
        !.precedences = SelectSeq(@, LAMBDA list :
                          \A k \in DOMAIN list : list[k][1] = "symbol" => list[k][2] \notin dropped),
        !.reserved    = [k \in DOMAIN @ |-> [name |-> @[k].name, roots |-> Keep(@[k].roots, FALSE)]]]

parse_grammar(json) ==
  LET All(roots) == [i \in DOMAIN roots |-> parse_rule(roots[i])]
  IN  normalize([json EXCEPT
        !.variables = [i \in DOMAIN @ |-> [name |-> @[i].name, root |-> parse_rule(@[i].root)]],
        !.extras    = All(@),
        !.externals = All(@),
        !.reserved  = [k \in DOMAIN @ |-> [name |-> @[k].name, roots |-> All(@[k].roots)]]])

-----------------------------------------------------------------------------
(* validate_precedences                                                      *)

EntryLess(x, y) ==
  \/ x[1] = "name" /\ y[1] = "symbol"
  \/ x[1] = y[1] /\ NameRank(x[2]) < NameRank(y[2])

\* The inner loop, for the i-th entry of a list: each pair in order, and whether
\* it was swapped.  An entry that was swapped stays in the place of the i-th, so
\* that one is not compared with the entries after it.
PairsFrom(list, i) ==
  FoldLeft(LAMBDA acc, entry2 :
             IF acc.entry1 = entry2 THEN acc
             ELSE IF EntryLess(entry2, acc.entry1)
               THEN [entry1 |-> entry2, pairs |-> acc.pairs \union {<<entry2, acc.entry1, "Less">>}]
               ELSE [acc EXCEPT !.pairs = @ \union {<<acc.entry1, entry2, "Greater">>}],
           [entry1 |-> list[i], pairs |-> {}], SubSeq(list, i + 1, Len(list))).pairs

ConflictingOrdering(g) ==
  LET pairs == UNION {UNION {PairsFrom(list, i) : i \in DOMAIN list} : list \in ToSet(g.precedences)}
  IN  \E x, y \in pairs : x[1] = y[1] /\ x[2] = y[2] /\ x[3] # y[3]

\* The named precedences of a rule; reserved() is not descended.
RECURSIVE PrecedenceNames(_)
PrecedenceNames(rule) ==
  CASE rule.type \in Group ->
         UNION {PrecedenceNames(rule.members[i]) : i \in DOMAIN rule.members}
    [] rule.type = "REPEAT" -> PrecedenceNames(rule.content)
    [] rule.type = "METADATA" ->
         PrecedenceNames(rule.content)
           \union (IF rule.params.precedence[1] = "Name" THEN {rule.params.precedence[2]} ELSE {})
    [] OTHER -> {}

UndeclaredPrecedence(g) ==
  LET declared == {e[2] : e \in {x \in UNION {ToSet(g.precedences[k]) : k \in DOMAIN g.precedences} :
                                   x[1] = "name"}}
  IN  \E i \in DOMAIN g.variables : ~(PrecedenceNames(g.variables[i].root) \subseteq declared)

-----------------------------------------------------------------------------
(* validate_indirect_recursion                                               *)

\* The other rules that a rule can be, alone.
RECURSIVE SingleSymbols(_)
SingleSymbols(rule) ==
  CASE rule.type = "SYMBOL" -> {rule.name}
    [] rule.type = "CHOICE" -> UNION {SingleSymbols(rule.members[i]) : i \in DOMAIN rule.members}
    [] rule.type = "METADATA" -> SingleSymbols(rule.content)
    [] OTHER -> {}

EpsilonTransitions(g) ==
  [n \in Names(g) |-> SingleSymbols(RootOf(g, n)) \ {n}]

RECURSIVE Closure(_, _)
Closure(transitions, names) ==
  LET more == UNION {transitions[n] : n \in names \intersect DOMAIN transitions}
  IN  IF more \subseteq names THEN names ELSE Closure(transitions, names \union more)

\* get_cycle finds one from some start symbol.
IndirectRecursion(g) ==
  LET t == EpsilonTransitions(g)
  IN  \E n \in Names(g) : n \in Closure(t, t[n])

ValidateRefused(g) ==
  ConflictingOrdering(g) \/ UndeclaredPrecedence(g) \/ IndirectRecursion(g)

-----------------------------------------------------------------------------
(* intern_symbols.rs                                                         *)

Hidden == "Hidden"
Auxiliary == "Auxiliary"
Anonymous == "Anonymous"
Named == "Named"

variable_type_for_name(name) == IF name \in HiddenNames THEN Hidden ELSE Named

\* A rule before an external token of the same name.
SymbolOf(g, name) ==
  LET v == {i \in DOMAIN g.variables : g.variables[i].name = name}
      e == {i \in DOMAIN g.externals : g.externals[i] = NamedSymbol(name)}
      Least(S) == CHOOSE i \in S : \A j \in S : i <= j
  IN  IF v # {} THEN non_terminal(Least(v)) ELSE IF e # {} THEN external(Least(e)) ELSE <<>>

RECURSIVE intern_root(_, _)
intern_root(g, rule) ==
  CASE rule.type = "SYMBOL" -> Sym(SymbolOf(g, rule.name))
    [] rule.type \in Group ->
         [rule EXCEPT !.members = [i \in DOMAIN @ |-> intern_root(g, @[i])]]
    [] rule.type \in Wrapper -> [rule EXCEPT !.content = intern_root(g, @)]
    [] OTHER -> rule

AllRoots(g) ==
  {v.root : v \in ToSet(g.variables)} \union Roots(g.externals) \union Roots(g.extras)
    \union UNION {Roots(g.reserved[k].roots) : k \in DOMAIN g.reserved}

InternRefused(g) ==
  \/ variable_type_for_name(g.variables[1].name) = Hidden
  \/ \E r \in AllRoots(g) : \E n \in collect_referenced_ids(r, FALSE) : SymbolOf(g, n) = <<>>
  \/ \E n \in ToSet(g.supertypes) \union UNION {ToSet(c) : c \in ToSet(g.conflicts)} :
       SymbolOf(g, n) = <<>>
  \/ g.word # <<>> /\ SymbolOf(g, g.word) = <<>>

\* Inlined rules are no supertypes, and supertypes are hidden.
intern_symbols(g) ==
  LET Symbols(names) == [i \in DOMAIN names |-> SymbolOf(g, names[i])]
      inline     == SelectSeq(Symbols(g.inline), LAMBDA s : s # <<>>)
      supertypes == SelectSeq(Symbols(g.supertypes), LAMBDA s : s \notin ToSet(inline))
      Interned(roots) == [i \in DOMAIN roots |-> intern_root(g, roots[i])]
  IN  [variables  |-> [i \in DOMAIN g.variables |->
                         [name |-> g.variables[i].name, root |-> intern_root(g, g.variables[i].root),
                          kind |-> IF non_terminal(i) \in ToSet(supertypes) THEN Hidden
                                   ELSE variable_type_for_name(g.variables[i].name)]],
       externals  |-> [i \in DOMAIN g.externals |->
                         LET r == g.externals[i]
                         IN  [root |-> intern_root(g, r),
                              name |-> IF r.type = "SYMBOL" THEN r.name ELSE <<>>,
                              kind |-> IF r.type = "SYMBOL" THEN variable_type_for_name(r.name)
                                       ELSE Anonymous]],
       extras     |-> Interned(g.extras),
       reserved   |-> [k \in DOMAIN g.reserved |->
                         [name |-> g.reserved[k].name, roots |-> Interned(g.reserved[k].roots)]],
       supertypes |-> supertypes, inline |-> inline,
       conflicts  |-> [k \in DOMAIN g.conflicts |-> ToSet(Symbols(g.conflicts[k]))],
       word       |-> IF g.word = <<>> THEN <<>> ELSE SymbolOf(g, g.word),
       precedences |-> g.precedences]

-----------------------------------------------------------------------------
(* extract_tokens.rs                                                         *)

\* The tokens so far (x.lexical), how often each is used, and the number of
\* unnamed ones of the variable at hand.
NoTokens == [lexical |-> <<>>, usage |-> <<>>, aux |-> 0, refused |-> FALSE]

find(lexical, root) ==
  LET same == {i \in DOMAIN lexical : lexical[i].root = root}
  IN  IF same = {} THEN 0 ELSE CHOOSE i \in same : TRUE

extract_token(x, root, string_name, var_name, is_first) ==
  LET i == find(x.lexical, root)
  IN  IF i # 0 THEN [x EXCEPT !.usage[i] = @ + 1]
      ELSE IF string_name # <<"none">>
        THEN [x EXCEPT !.lexical = Append(@, [name |-> string_name, kind |-> Anonymous, root |-> root]),
                       !.usage = Append(@, 1),
                       !.refused = @ \/ (string_name = <<>> /\ ~is_first)]
        ELSE [x EXCEPT !.lexical = Append(@, [name |-> var_name \o <<"token", x.aux + 1>>,
                                              kind |-> Auxiliary, root |-> root]),
                       !.usage = Append(@, 1), !.aux = @ + 1]

\* A bare token() wrapper is dropped, other metadata stays with the token.
TokenRoot(rule) ==
  IF [rule.params EXCEPT !.is_token = FALSE] = DefaultParams THEN rule.content ELSE rule

NameOfString(rule) == IF rule.type = "STRING" THEN rule.value ELSE <<"none">>

\* The rewritten rule and the tokens with those it adds.
RECURSIVE extract_in_root(_, _, _, _)
extract_in_root(x, rule, var_name, is_first) ==
  LET Extracted(root, string_name) ==
        LET y == extract_token(x, root, string_name, var_name, is_first)
        IN  [x |-> y, rule |-> Sym(terminal(find(y.lexical, root)))]
      Member(acc, m) ==
        LET r == extract_in_root(acc.x, m, var_name, is_first)
        IN  [x |-> r.x, members |-> Append(acc.members, r.rule)]
  IN  CASE rule.type \in {"STRING", "PATTERN"} -> Extracted(rule, NameOfString(rule))
        [] rule.type = "METADATA" /\ rule.params.is_token ->
             Extracted(TokenRoot(rule), NameOfString(rule.content))
        [] rule.type \in Wrapper /\ ~(rule.type = "METADATA" /\ rule.params.is_token) ->
             LET r == extract_in_root(x, rule.content, var_name, is_first)
             IN  [x |-> r.x, rule |-> [rule EXCEPT !.content = r.rule]]
        [] rule.type \in Group ->
             LET r == FoldLeft(Member, [x |-> x, members |-> <<>>], rule.members)
             IN  [x |-> r.x, rule |-> [rule EXCEPT !.members = r.members]]
        [] OTHER -> [x |-> x, rule |-> rule]

\* All variables, then all externals; the roots in order.
ExtractAll(g) ==
  LET Root(acc, v, first) ==
        LET r == extract_in_root([acc.x EXCEPT !.aux = 0], v.root, v.name, first)
        IN  [x |-> r.x, roots |-> Append(acc.roots, r.rule)]
      variables == FoldLeft(LAMBDA acc, v : Root(acc, v, acc.roots = <<>>),
                            [x |-> NoTokens, roots |-> <<>>], g.variables)
      externals == FoldLeft(LAMBDA acc, v : Root(acc, v, FALSE),
                            [x |-> variables.x, roots |-> <<>>], g.externals)
  IN  [x |-> externals.x, variables |-> variables.roots, externals |-> externals.roots]

\* The variables whose whole rule is a token that no other rule has: the token
\* takes their names.
Absorbed(g, all) ==
  {i \in 2 .. Len(g.variables) :
     /\ all.variables[i].type = "SYM" /\ is_terminal(all.variables[i].symbol)
     /\ LET t == all.variables[i].symbol[2]
        IN  /\ all.x.usage[t] = 1
            /\ all.x.lexical[t].kind = Auxiliary \/ g.variables[i].kind # Hidden}

\* replace_symbol
Replace(all, absorbed, s) ==
  IF ~is_non_terminal(s) THEN s
  ELSE IF s[2] \in absorbed THEN all.variables[s[2]].symbol
  ELSE non_terminal(s[2] - Cardinality({i \in absorbed : i < s[2]}))

RECURSIVE renumber_root(_, _, _)
renumber_root(all, absorbed, rule) ==
  CASE rule.type = "SYM" -> Sym(Replace(all, absorbed, rule.symbol))
    [] rule.type \in Group ->
         [rule EXCEPT !.members = [i \in DOMAIN @ |-> renumber_root(all, absorbed, @[i])]]
    [] rule.type \in Wrapper -> [rule EXCEPT !.content = renumber_root(all, absorbed, @)]
    [] OTHER -> rule

\* The symbol an extra, external or reserved root stands for, <<>> for none.
MetadataSymbol(all, absorbed, root) ==
  IF root.type = "SYM" THEN Replace(all, absorbed, root.symbol)
  ELSE IF find(all.x.lexical, root) # 0 THEN terminal(find(all.x.lexical, root)) ELSE <<>>

ExtractRefused(g, all, absorbed) ==
  LET S(root) == MetadataSymbol(all, absorbed, root)
      ext(i)  == LET r == all.externals[i]
                 IN  IF r.type = "SYM" THEN Replace(all, absorbed, r.symbol) ELSE <<>>
  IN  \/ all.x.refused
      \/ \E s \in ToSet(g.supertypes) : is_terminal(Replace(all, absorbed, s))
      \/ \E i \in DOMAIN g.externals :
           ext(i) = <<>> \/ is_non_terminal(ext(i)) \/ (is_external(ext(i)) /\ g.externals[i].name = <<>>)
      \/ g.word # <<>> /\ is_non_terminal(Replace(all, absorbed, g.word))
      \/ \E k \in DOMAIN g.reserved : \E i \in DOMAIN g.reserved[k].roots :
           S(g.reserved[k].roots[i]) = <<>>

extract_tokens(g, all, absorbed) ==
  LET R(s)    == Replace(all, absorbed, s)
      S(root) == MetadataSymbol(all, absorbed, root)
      kept    == SelectSeq([i \in DOMAIN g.variables |-> i], LAMBDA i : i \notin absorbed)
      Absorber(t) == {i \in absorbed : all.variables[i].symbol = terminal(t)}
      lexical == [t \in DOMAIN all.x.lexical |->
                    IF Absorber(t) = {} THEN all.x.lexical[t]
                    ELSE LET i == CHOOSE i \in Absorber(t) : TRUE
                         IN  [all.x.lexical[t] EXCEPT !.name = g.variables[i].name,
                                                      !.kind = g.variables[i].kind]]
  IN  [variables  |-> [k \in DOMAIN kept |->
                         [g.variables[kept[k]] EXCEPT
                            !.root = renumber_root(all, absorbed, all.variables[kept[k]])]],
       lexical    |-> lexical,
       separators |-> SelectSeq(g.extras, LAMBDA r : S(r) = <<>>),
       extras     |-> SelectSeq([i \in DOMAIN g.extras |-> S(g.extras[i])], LAMBDA s : s # <<>>),
       externals  |-> [i \in DOMAIN g.externals |->
                         LET s == R(all.externals[i].symbol)
                         IN  [kind |-> g.externals[i].kind,
                              name |-> IF is_external(s) THEN g.externals[i].name ELSE lexical[s[2]].name,
                              internal |-> IF is_external(s) THEN 0 ELSE s[2]]],
       reserved   |-> [k \in DOMAIN g.reserved |->
                         [name  |-> g.reserved[k].name,
                          words |-> {S(r) : r \in Roots(g.reserved[k].roots)}]],
       supertypes |-> [i \in DOMAIN g.supertypes |-> R(g.supertypes[i])],
       inline     |-> [i \in DOMAIN g.inline |-> R(g.inline[i])],
       conflicts  |-> [k \in DOMAIN g.conflicts |-> {R(s) : s \in g.conflicts[k]}],
       word       |-> IF g.word = <<>> THEN <<>> ELSE R(g.word),
       precedences |-> g.precedences]

-----------------------------------------------------------------------------
(* expand_repeats.rs                                                         *)

Width(nullable, eof_nullable) == [nullable |-> nullable, eof_nullable |-> eof_nullable]

\* Whether a rule can match nothing, without and with eof().
RECURSIVE eval(_, _)
eval(by_variable, rule) ==
  CASE rule.type = "BLANK" -> Width(TRUE, FALSE)
    [] rule.type = "STRING" -> Width(rule.value = <<>>, FALSE)
    [] rule.type = "EOF" -> Width(FALSE, TRUE)
    [] rule.type = "SYM" ->
         IF rule.symbol[1] = End THEN Width(FALSE, TRUE)
         ELSE IF rule.symbol[1] = External THEN Width(TRUE, FALSE)
         ELSE IF is_non_terminal(rule.symbol) /\ rule.symbol[2] \in DOMAIN by_variable
           THEN by_variable[rule.symbol[2]]
         ELSE Width(FALSE, FALSE)
    [] rule.type \in Wrapper -> eval(by_variable, rule.content)
    [] rule.type = "CHOICE" ->
         LET w == {eval(by_variable, rule.members[i]) : i \in DOMAIN rule.members}
         IN  Width(\E x \in w : x.nullable, \E x \in w : x.eof_nullable)
    [] rule.type = "SEQ" ->
         LET w == {eval(by_variable, rule.members[i]) : i \in DOMAIN rule.members}
         IN  Width(\A x \in w : x.nullable,
                   (\A x \in w : x.nullable \/ x.eof_nullable) /\ \E x \in w : x.eof_nullable)

RECURSIVE ZeroWidth(_, _)
ZeroWidth(variables, by_variable) ==
  LET next == [i \in DOMAIN variables |->
                 LET w == eval(by_variable, variables[i].root)
                 IN  Width(w.nullable \/ by_variable[i].nullable,
                           w.eof_nullable \/ by_variable[i].eof_nullable)]
  IN  IF next = by_variable THEN next ELSE ZeroWidth(variables, next)

\* Mutant: the tree cannot grow.
wrap_in_binary_tree_Once(symbol, inner) == FlattenChoice(<<inner>>)

\* The members of choice(seq(symbol, symbol), inner).
wrap_in_binary_tree(symbol, inner) ==
  FlattenChoice(<<Seqn(<<Sym(symbol), Sym(symbol)>>), inner>>)

\* The state of the expander: the auxiliary variables, the contents they stand
\* for, the widths, and the number of repeats of the variable at hand.
RECURSIVE expand_root(_, _, _, _)
expand_root(e, preceding, rule, var_name) ==
  LET Member(acc, m) ==
        LET r == expand_root(acc.e, preceding, m, var_name)
        IN  [e |-> r.e, members |-> Append(acc.members, r.rule)]
      Aux(y, content) ==
        LET known  == {i \in DOMAIN y.contents : y.contents[i] = content}
            width  == eval(y.width, content)
            symbol == non_terminal(preceding + Len(y.aux) + 1)
        IN  IF width.eof_nullable THEN [e |-> [y EXCEPT !.refused = TRUE], rule |-> rule]
            ELSE IF known # {}
              THEN [e |-> y, rule |-> Sym(non_terminal(preceding + CHOOSE i \in known : TRUE))]
            ELSE [e |-> [y EXCEPT
                           !.aux = Append(@, [name |-> var_name \o <<"repeat", y.count + 1>>,
                                              kind |-> Auxiliary,
                                              root |-> Choice(wrap_in_binary_tree(symbol, content))]),
                           !.contents = Append(@, content),
                           !.width = Append(@, width), !.count = @ + 1],
                  rule |-> Sym(symbol)]
  IN  CASE rule.type = "REPEAT" ->
             LET r == expand_root(e, preceding, rule.content, var_name) IN Aux(r.e, r.rule)
        [] rule.type \in Group ->
             LET r == FoldLeft(Member, [e |-> e, members |-> <<>>], rule.members)
             IN  [e |-> r.e, rule |-> [rule EXCEPT !.members = r.members]]
        [] rule.type = "METADATA" ->
             LET r == expand_root(e, preceding, rule.content, var_name)
             IN  [e |-> r.e, rule |-> [rule EXCEPT !.content = r.rule]]
        [] OTHER -> [e |-> e, rule |-> rule]

\* A hidden variable that is a repetition becomes the tree itself, and is no
\* longer inlined.
ExpandVariable(acc, v) ==
  LET i   == Len(acc.variables) + 1
      top == v.kind = Hidden /\ v.root.type = "REPEAT"
      bad == top /\ eval(acc.e.width, v.root.content).eof_nullable
      r   == expand_root([acc.e EXCEPT !.count = 0, !.refused = @ \/ bad], acc.preceding,
                         IF top THEN v.root.content ELSE v.root, v.name)
  IN  [acc EXCEPT
        !.e = r.e,
        !.variables = Append(@, IF top
           THEN [v EXCEPT !.kind = Auxiliary, !.root = Choice(wrap_in_binary_tree(non_terminal(i), r.rule))]
           ELSE [v EXCEPT !.root = r.rule]),
        !.tops = IF top THEN @ \union {non_terminal(i)} ELSE @]

expand_repeats(g) ==
  LET none  == [i \in DOMAIN g.variables |-> Width(FALSE, FALSE)]
      start == [variables |-> <<>>, tops |-> {}, preceding |-> Len(g.variables),
                e |-> [aux |-> <<>>, contents |-> <<>>, count |-> 0, refused |-> FALSE,
                       width |-> ZeroWidth(g.variables, none)]]
      all   == FoldLeft(ExpandVariable, start, g.variables)
  IN  [refused |-> all.e.refused,
       grammar |-> [g EXCEPT !.variables = all.variables \o all.e.aux,
                             !.inline = SelectSeq(@, LAMBDA s : s \notin all.tops)]]
=============================================================================
