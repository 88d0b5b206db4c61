-------------------------- MODULE MCGenerateParser --------------------------
(***************************************************************************)
(* GenerateParser on small grammars.                                       *)
(***************************************************************************)
EXTENDS GenerateParser

T(c) == String(<<c>>)
P(c) == Pattern(<<c>>)
R(n) == NamedSymbol(<<n>>)
S(members) == Seqn(members)
C(members) == Choice(members)
Opt(rule) == Choice(<<rule, Blank>>)
Rep(rule) == [type |-> "REPEAT", content |-> rule]
Rep1(rule) == [type |-> "REPEAT1", content |-> rule]
F(n, rule) == [type |-> "FIELD", name |-> <<n>>, content |-> rule]
A(rule, n) == [type |-> "ALIAS", content |-> rule, value |-> <<n>>, named |-> TRUE]
Q(rule, n) == [type |-> "ALIAS", content |-> rule, value |-> <<n>>, named |-> FALSE]
Tok(rule) == [type |-> "TOKEN", content |-> rule]
PrecL(v, rule) == [type |-> "PREC_LEFT", value |-> IntPrec(v), content |-> rule]
PrecR(v, rule) == [type |-> "PREC_RIGHT", value |-> IntPrec(v), content |-> rule]
Prec(v, rule) == [type |-> "PREC", value |-> IntPrec(v), content |-> rule]
PrecN(n, rule) == [type |-> "PREC_LEFT", value |-> NamedPrec(<<n>>), content |-> rule]
Dyn(v, rule) == [type |-> "PREC_DYNAMIC", value |-> v, content |-> rule]
Res(c, rule) == [type |-> "RESERVED", content |-> rule, context_name |-> <<c>>]
Var(n, rule) == [name |-> <<n>>, root |-> rule]

MCHidden == {<<n>> : n \in {"_h", "_i", "_e", "_x"}}

MCNames == << "f", "g", "h", "high", "k", "l", "low", "m", "n", "no", "p", "q", "r", "top", "x", "y", "z" >>
MCNameOrder == [k \in DOMAIN MCNames |-> <<MCNames[k]>>]

Json(variables) ==
  [variables |-> variables, extras |-> <<>>, externals |-> <<>>, reserved |-> <<>>,
   supertypes |-> <<>>, conflicts |-> <<>>, inline |-> <<>>, word |-> <<>>, precedences |-> <<>>]

NoLex == [conflict |-> {}, overlap |-> {}, longer |-> {}, keywords |-> {}]

\* exact: no conflict is resolved, so that all trees are built.
Input(json) == [json |-> json, lex |-> NoLex, merge |-> TRUE, exact |-> TRUE, ops |-> <<>>]
Loose(json) == [Input(json) EXCEPT !.exact = FALSE]
Ops(json, ops) == [Loose(json) EXCEPT !.ops = ops]
Lex(json, conflict, overlap, longer, keywords) ==
  [Loose(json) EXCEPT !.lex = [conflict |-> conflict, overlap |-> overlap, longer |-> longer, keywords |-> keywords]]

a == T("a")
b == T("b")
c == T("c")
Left(v) == [prec |-> v, assoc |-> "Left"]
Right(v) == [prec |-> v, assoc |-> "Right"]
Op(n) == <<n>>

\* Repetitions, options, fields, aliases.
Plain == {
  Json(<<Var("s", S(<<Rep(R("x")), b>>)), Var("x", C(<<a, S(<<c, R("x")>>)>>))>>),
  Json(<<Var("s", Rep1(C(<<R("x"), R("y")>>))), Var("x", S(<<F("l", a), F("r", R("_h"))>>)),
         Var("y", R("_h")), Var("_h", C(<<b, A(c, "z")>>))>>),
  Json(<<Var("s", S(<<Opt(R("x")), Opt(F("f", R("x"))), b>>)), Var("x", a)>>),
  Json(<<Var("s", Opt(S(<<R("_h"), R("x")>>))), Var("_h", S(<<F("l", a), Rep(F("m", b))>>)), Var("x", c)>>),
  Json(<<Var("s", Rep(R("x"))), Var("x", S(<<a, Rep1(b)>>))>>),
  Json(<<Var("s", S(<<R("_h"), c>>)), Var("_h", Rep1(C(<<a, S(<<b, R("_h"), b>>)>>)))>>),
  Json(<<Var("s", C(<<S(<<a, R("x")>>), S(<<b, A(R("x"), "y")>>), S(<<c, Q(R("x"), "q")>>)>>)), Var("x", S(<<a, b>>))>>),
  Json(<<Var("s", C(<<S(<<a, A(R("x"), "y")>>), S(<<b, A(R("x"), "y")>>), S(<<c, A(R("x"), "z")>>)>>)),
         Var("x", C(<<S(<<a, b>>), c>>))>>),
  Json(<<Var("s", C(<<S(<<a, A(b, "y")>>), S(<<c, A(b, "y")>>), S(<<a, A(c, "y")>>), S(<<b, c>>)>>))>>),
  Json(<<Var("s", S(<<R("x"), R("x")>>)), Var("x", S(<<R("_h"), F("g", R("_e"))>>)), Var("_e", C(<<b, S(<<c, a>>)>>)),
         Var("_h", C(<<F("f", a), R("_i")>>)), Var("_i", C(<<b, S(<<F("h", c), F("k", b)>>)>>))>>),
  Json(<<Var("s", C(<<R("x"), S(<<a, R("y")>>), S(<<b, a>>)>>)), Var("x", P("p")), Var("y", C(<<a, P("p")>>))>>),
  Json(<<Var("s", S(<<R("x"), Tok(S(<<a, b>>)), Tok(Prec(1, a))>>)), Var("x", C(<<a, Tok(P("p"))>>))>>),
  Json(<<Var("s", S(<<Rep(S(<<a, Rep(b)>>)), Rep(S(<<a, Rep(b)>>)), c>>))>>),
  Json(<<Var("s", S(<<a, F("f", S(<<R("x"), b, R("x")>>))>>)), Var("x", C(<<a, c>>))>>)
}

Inlining == {
  [Json(<<Var("s", S(<<a, R("_h"), c>>)), Var("_h", C(<<b, S(<<c, A(a, "y")>>)>>))>>) EXCEPT !.inline = <<<<"_h">>>>],
  [Json(<<Var("s", S(<<R("_h"), F("f", R("_h"))>>)), Var("_h", C(<<a, S(<<F("g", b), R("x")>>)>>)), Var("x", c)>>)
     EXCEPT !.inline = <<<<"_h">>>>],
  [Json(<<Var("s", C(<<R("x"), S(<<R("x"), b>>)>>)), Var("x", S(<<R("_h"), R("_i")>>)), Var("_h", C(<<a, R("_i")>>)),
          Var("_i", C(<<c, S(<<b, c>>)>>))>>) EXCEPT !.inline = <<<<"_h">>, <<"_i">>, <<"x">>>>],
  [Json(<<Var("s", Rep1(R("x"))), Var("x", S(<<a, R("_h")>>)), Var("_h", Rep1(b))>>) EXCEPT !.inline = <<<<"_h">>>>]
}

\* eof(), at the end of a production and, after a token, alone in a rule.
Ends == {
  Json(<<Var("s", Rep1(R("x"))), Var("x", S(<<a, R("_h")>>)), Var("_h", C(<<c, EndOfFile>>))>>),
  Json(<<Var("s", S(<<Rep(R("x"))>>)), Var("x", C(<<S(<<a, C(<<b, EndOfFile>>)>>), S(<<c, EndOfFile, b>>)>>))>>),
  Json(<<Var("s", C(<<S(<<a, R("x")>>), S(<<R("x"), c>>)>>)), Var("x", C(<<S(<<b, EndOfFile>>), c>>))>>)
}

Supertypes == {
  [Json(<<Var("s", Rep1(R("e"))), Var("e", C(<<R("x"), R("y")>>)), Var("x", S(<<a, F("f", R("e"))>>)), Var("y", b)>>)
     EXCEPT !.supertypes = <<<<"e">>>>],
  [Json(<<Var("s", S(<<R("e"), R("d")>>)), Var("e", C(<<R("d"), R("y")>>)), Var("d", C(<<R("x"), R("z")>>)), Var("x", a),
          Var("y", b), Var("z", S(<<c, Opt(R("e"))>>))>>) EXCEPT !.supertypes = <<<<"e">>, <<"d">>>>]
}

\* Extras, externals, a word token with reserved words.
Surroundings == {
  [Json(<<Var("s", S(<<a, Rep(R("x")), b>>)), Var("x", S(<<a, b>>)), Var("z", c)>>) EXCEPT !.extras = <<R("z"), P("w")>>],
  [Json(<<Var("s", S(<<Rep1(R("x"))>>)), Var("x", C(<<a, b>>)), Var("z", S(<<c, Rep(b), c>>))>>) EXCEPT !.extras = <<R("z")>>],
  [Json(<<Var("s", S(<<R("k"), Opt(R("_x")), R("_h")>>)), Var("_h", C(<<a, b>>))>>) EXCEPT
     !.externals = <<R("k"), R("_x"), a>>],
  [Json(<<Var("s", Rep1(C(<<S(<<a, R("w")>>), S(<<b, Res("r", R("w"))>>)>>))), Var("w", P("w"))>>) EXCEPT
     !.word = <<"w">>, !.reserved = <<[name |-> <<"g">>, roots |-> <<a>>], [name |-> <<"r">>, roots |-> <<>>]>>]
}

\* Conflicts that the grammar declares, and one that repeats.
Conflicting == {
  [Json(<<Var("s", C(<<S(<<R("x"), b>>), S(<<R("y"), c>>), S(<<R("x"), c>>)>>)), Var("x", a), Var("y", S(<<a>>))>>)
     EXCEPT !.conflicts = <<<<<<"x">>, <<"y">>>>>>],
  [Json(<<Var("s", Rep1(C(<<R("x"), R("y")>>))), Var("x", Dyn(1, S(<<a, Opt(a)>>))), Var("y", S(<<b, Rep(a)>>))>>)
     EXCEPT !.conflicts = <<<<<<"x">>>>, <<<<"y">>>>, <<<<"s">>, <<"x">>>>>>]
}

ByName(n) == <<"name", <<n>>>>

Expression(p, m, n) ==
  <<Var("s", R("_e")), Var("_e", C(<<R("p"), R("m"), R("n"), R("v")>>)), Var("v", a),
    Var("p", p), Var("m", m), Var("n", n)>>
Plus == S(<<R("_e"), b, R("_e")>>)
Times == S(<<R("_e"), c, R("_e")>>)
Neg == S(<<T("d"), R("_e")>>)

Operators == {
  Ops(Json(Expression(PrecL(1, Plus), PrecL(2, Times), Prec(3, Neg))),
      Op("p") :> Left(1) @@ Op("m") :> Left(2) @@ Op("n") :> Right(3)),
  Ops(Json(Expression(PrecR(0, Plus), PrecR(1, Times), Prec(2, Neg))),
      Op("p") :> Right(0) @@ Op("m") :> Right(1) @@ Op("n") :> Right(2)),
  Ops(Json(Expression(PrecL(-1, Plus), PrecL(-2, Times), Neg)),
      Op("p") :> Left(-1) @@ Op("m") :> Left(-2) @@ Op("n") :> Right(0)),
  Ops([Json(Expression(PrecN("low", Plus), PrecN("high", Times), PrecN("top", Neg))) EXCEPT
         !.precedences = <<<<ByName("top"), ByName("high")>>,
                           <<ByName("top"), ByName("high"), ByName("low")>>>>],
      Op("p") :> Left(1) @@ Op("m") :> Left(2) @@ Op("n") :> Right(3)),
  Ops([Json(Expression(PrecL(0, Plus), PrecL(0, Times), PrecL(0, Neg))) EXCEPT
         !.precedences = <<<<<<"symbol", <<"n">>>>, <<"symbol", <<"m">>>>, <<"symbol", <<"p">>>>>>>>],
      Op("p") :> Left(1) @@ Op("m") :> Left(2) @@ Op("n") :> Right(3))
}

\* Orderings of precedences that contradict each other and are not refused.
Contradictory ==
  [Json(Expression(PrecN("low", Plus), PrecN("high", Times), PrecN("top", Neg))) EXCEPT
     !.precedences = <<<<ByName("top"), ByName("high"), ByName("low")>>, <<ByName("low"), ByName("top")>>>>]

\* LR(1) states that differ in lookaheads only; unit rules.
Merging ==
  Json(<<Var("s", C(<<S(<<a, R("x"), a>>), S(<<b, R("x"), b>>), S(<<a, R("y"), c>>)>>)),
         Var("x", R("_h")), Var("_h", C(<<c, S(<<c, c>>)>>)), Var("y", S(<<b, R("_i")>>)), Var("_i", R("_h"))>>)

Merges ==
  {Lex(Merging, cs, cs, {x \in cs : x[1] < x[2]}, {}) : cs \in {{}, {<<1, 2>>, <<2, 1>>}, {<<1, 3>>}}}
    \union {[Input(Merging) EXCEPT !.merge = FALSE],
            Lex([Merging EXCEPT !.word = <<"y">>, !.variables[4] = Var("y", P("w"))], {<<1, 4>>, <<4, 1>>}, {}, {}, {1})}

\* Two tokens that follow one rule in different places and may be confused.
Confusing ==
  Lex(Json(<<Var("s", C(<<S(<<c, R("x"), a>>), S(<<T("d"), R("x"), b>>)>>)), Var("x", S(<<c, c>>))>>),
      {<<2, 4>>, <<4, 2>>}, {<<2, 4>>, <<4, 2>>}, {<<2, 4>>}, {})

\* Grammars that are refused, one reason each.
x_is(rule) == Json(<<Var("s", S(<<a, R("x")>>)), Var("x", rule)>>)
Refused == {
  Json(<<Var("s", Tok(R("x"))), Var("x", a)>>),
  [x_is(b) EXCEPT !.extras = <<Tok(R("x"))>>],
  [Json(<<Var("s", a)>>) EXCEPT !.extras = <<String(<<>>)>>],
  x_is(R("s2")),
  Json(<<Var("_h", a)>>),
  Json(<<Var("s", C(<<R("x"), a>>)), Var("x", C(<<R("y"), b>>)), Var("y", C(<<R("x"), c>>))>>),
  x_is(PrecN("no", b)),
  [x_is(b) EXCEPT !.precedences = <<<<ByName("m"), ByName("n")>>, <<ByName("n"), ByName("m")>>>>],
  [x_is(S(<<a, b>>)) EXCEPT !.word = <<"x">>],
  x_is(Rep(EndOfFile)),
  x_is(Opt(b)),
  x_is(Res("no", b)),
  [x_is(S(<<b, Opt(R("x"))>>)) EXCEPT !.inline = <<<<"x">>>>],
  [x_is(S(<<b, c>>)) EXCEPT !.inline = <<<<"s">>>>],
  [x_is(S(<<b, c>>)) EXCEPT !.supertypes = <<<<"x">>>>],
  [Json(<<Var("s", S(<<a, R("x")>>)), Var("x", C(<<R("y"), R("z")>>)), Var("y", S(<<b, c>>)), Var("z", S(<<c, b>>))>>)
     EXCEPT !.supertypes = <<<<"x">>>>, !.variables[1].root = S(<<a, R("x"), A(R("y"), "x")>>)],
  Json(<<Var("s", R("e")), Var("e", C(<<a, S(<<R("e"), b, R("e")>>)>>))>>),
  [x_is(b) EXCEPT !.extras = <<R("y")>>, !.variables = @ \o <<Var("y", S(<<R("z"), c>>)), Var("z", S(<<b, b>>))>>]
}

MCInputs ==
  {Input(j) : j \in Plain \union Inlining \union Ends \union Supertypes \union Surroundings \union Refused}
    \union {Loose(j) : j \in Conflicting \union {Contradictory}} \union Operators \union Merges \union {Confusing}
=============================================================================
