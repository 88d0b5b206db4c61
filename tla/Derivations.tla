----------------------------- MODULE Derivations ----------------------------
(***************************************************************************)
(* What a grammar means: the sentences of its rules, up to a length, with  *)
(* their syntax trees as a user of the parser sees them.  It is defined    *)
(* from the rules as they are written and, again, from the productions     *)
(* that the generator makes of them.                                       *)
(*                                                                         *)
(* A node has a type, named, the field it has in its parent, and kids.  A  *)
(* derivation is the tokens it matches, eof if it must be at the end of    *)
(* the input, and the visible nodes it gives its parent.                   *)
(***************************************************************************)
EXTENDS FlattenGrammar

CONSTANT MaxLength  \* the tokens of the longest sentence considered

Node(type, named, f, kids) == [type |-> type, named |-> named, field |-> f, kids |-> kids]
Derivation(w, eof, kids) == [w |-> w, eof |-> eof, kids |-> kids]

Empty == {Derivation(<<>>, FALSE, <<>>)}

Joined(A, B) ==
  {Derivation(p[1].w \o p[2].w, p[1].eof \/ p[2].eof, p[1].kids \o p[2].kids) :
     p \in {p \in A \X B : Len(p[1].w) + Len(p[2].w) <= MaxLength /\ (p[1].eof => p[2].w = <<>>)}}

RECURSIVE OneOrMore(_, _)
OneOrMore(acc, D) ==
  LET next == acc \union Joined(acc, D) IN IF next = acc THEN acc ELSE OneOrMore(next, D)

\* Nodes of a hidden node are its parent's; those without a field have the hidden
\* node's.
Spliced(kids, f) ==
  [k \in DOMAIN kids |-> IF kids[k].field = <<>> THEN [kids[k] EXCEPT !.field = f] ELSE kids[k]]

KindOfSymbol(g, s) ==
  IF is_non_terminal(s) THEN g.variables[s[2]].kind
  ELSE IF is_terminal(s) THEN g.lexical[s[2]].kind ELSE g.externals[s[2]].kind
NameOfSymbol(g, s) ==
  IF is_non_terminal(s) THEN g.variables[s[2]].name
  ELSE IF is_terminal(s) THEN g.lexical[s[2]].name ELSE g.externals[s[2]].name

\* What a symbol gives its parent: a node of its own, or its nodes.
Shown(g, s, a, f, kids) ==
  IF a # <<>> THEN <<Node(a[1], a[2], f, kids)>>
  ELSE IF KindOfSymbol(g, s) \in {Named, Anonymous}
    THEN <<Node(NameOfSymbol(g, s), KindOfSymbol(g, s) = Named, f, kids)>>
  ELSE Spliced(kids, f)

First(a, b) == IF a # <<>> THEN a ELSE b

NoLabel == [alias |-> <<>>, field |-> <<>>]

\* The derivations of a rule; F has those of the variables.  The inner label is
\* the nearest alias and field around the rule, the outer one those that an
\* inlined rule is given, which come first.
RECURSIVE Derive(_, _, _, _, _)
Derive(g, F, rule, inner, outer) ==
  LET label == [alias |-> First(outer.alias, inner.alias), field |-> First(outer.field, inner.field)]
      Token(w, kids) == {Derivation(<<w>>, FALSE, kids)}
      Symbol(s) ==
        IF s \in ToSet(g.inline) THEN Derive(g, F, g.variables[s[2]].root, NoLabel, label)
        ELSE IF is_non_terminal(s)
          THEN {[d EXCEPT !.kids = Shown(g, s, label.alias, label.field, @)] : d \in F[s[2]]}
        ELSE Token(s, Shown(g, s, label.alias, label.field, <<>>))
  IN  CASE rule.type = "SYM" -> Symbol(rule.symbol)
        [] rule.type = "EOF" -> {Derivation(<<>>, TRUE, <<>>)}
        [] rule.type = "BLANK" -> Empty
        [] rule.type \in {"STRING", "PATTERN"} ->
             Token(rule, IF label.alias = <<>> THEN <<>> ELSE <<Node(label.alias[1], label.alias[2], label.field, <<>>)>>)
        [] rule.type = "METADATA" /\ rule.params.is_token ->
             Token(TokenRoot(rule), IF label.alias = <<>> THEN <<>>
                                    ELSE <<Node(label.alias[1], label.alias[2], label.field, <<>>)>>)
        [] rule.type = "METADATA" /\ ~rule.params.is_token ->
             Derive(g, F, rule.content, [alias |-> First(rule.params.alias, inner.alias),
                                         field |-> First(rule.params.field, inner.field)], outer)
        [] rule.type = "RESERVED" -> Derive(g, F, rule.content, inner, outer)
        [] rule.type = "REPEAT" -> LET D == Derive(g, F, rule.content, inner, outer) IN OneOrMore(D, D)
        [] rule.type = "CHOICE" ->
             UNION {Derive(g, F, rule.members[i], inner, outer) : i \in DOMAIN rule.members}
        [] rule.type = "SEQ" ->
             FoldLeft(LAMBDA acc, m : Joined(acc, Derive(g, F, m, inner, outer)), Empty, rule.members)

RECURSIVE RuleForest(_, _)
RuleForest(g, F) ==
  LET next == [v \in DOMAIN g.variables |-> Derive(g, F, g.variables[v].root, NoLabel, NoLabel)]
  IN  IF next = F THEN F ELSE RuleForest(g, next)

None(g) == [v \in DOMAIN g.variables |-> {}]

Sentences(D) == {<<d.w, d.kids>> : d \in D}

\* The sentences of the start rule with the children of the root.
RuleSentences(g) == Sentences(RuleForest(g, None(g))[1])

-----------------------------------------------------------------------------
(* The same from the productions, with the default aliases and with the      *)
(* productions that take the place of inlined ones.                          *)

RECURSIVE Effective(_, _, _)
Effective(g, p, dot) ==
  IF dot > Len(g.productions[p].steps) THEN {p}
  ELSE IF <<p, dot>> \in DOMAIN g.inlines
    THEN UNION {Effective(g, q, dot) : q \in ToSet(g.inlines[<<p, dot>>])}
  ELSE Effective(g, p, dot + 1)

DeriveStep(g, F, s) ==
  LET a == First(s.alias, Lookup(g.default_aliases, s.symbol))
  IN  IF is_non_terminal(s.symbol)
        THEN {[d EXCEPT !.kids = Shown(g, s.symbol, a, s.field, @)] : d \in F[s.symbol[2]]}
        ELSE {Derivation(<<s.symbol>>, FALSE, Shown(g, s.symbol, a, s.field, <<>>))}

DeriveProduction(g, F, production) ==
  LET D == FoldLeft(LAMBDA acc, s : Joined(acc, DeriveStep(g, F, s)), Empty, production.steps)
  IN  IF production.eof THEN {[d EXCEPT !.eof = TRUE] : d \in D} ELSE D

RECURSIVE ProductionForest(_, _, _)
ProductionForest(g, effective, F) ==
  LET next == [v \in DOMAIN effective |->
                 UNION {DeriveProduction(g, F, g.productions[p]) : p \in effective[v]}]
  IN  IF next = F THEN F ELSE ProductionForest(g, effective, next)

EffectiveProductions(g) ==
  [v \in DOMAIN g.variables |-> UNION {Effective(g, p, 1) : p \in ToSet(g.var_prods[v])}]

ProductionSentences(g) == Sentences(ProductionForest(g, EffectiveProductions(g), None(g))[1])

-----------------------------------------------------------------------------
\* Only the named nodes.
RECURSIVE NamedOnly(_)
NamedOnly(kids) ==
  LET named == SelectSeq(kids, LAMBDA k : k.named)
  IN  [k \in DOMAIN named |-> [named[k] EXCEPT !.kids = NamedOnly(@)]]
=============================================================================
