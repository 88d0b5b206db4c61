------------------------------- MODULE MCTags -------------------------------
EXTENDS Tags

Pattern(inherits, nonlocal, adjacent) == [inherits |-> inherits, nonlocal |-> nonlocal, adjacent |-> adjacent]
Plain == Pattern(TRUE, FALSE, 0)

MCQuery ==
  [ names |-> <<<<"local", "scope">>, <<"local", "definition">>, <<"name", "">>, <<"definition", "f">>,
                <<"reference", "f">>, <<"reference", "g">>, <<"ignore", "">>, <<"doc", "">>>>,
    locals |-> <<Plain, Pattern(FALSE, FALSE, 0), Plain>>,
    tags |-> <<Plain, Pattern(TRUE, TRUE, 0), Plain, Plain, Pattern(TRUE, FALSE, 4)>> ]
MCBad == [MCQuery EXCEPT !.names = Append(@, <<"method", "">>)]
MCNoDoc == [MCQuery EXCEPT !.names = SubSeq(@, 1, 7)]
MCQueries == {MCQuery, MCBad, MCNoDoc}

N(start, end) == [start |-> start, end |-> end, error |-> FALSE]
Cap(index, node) == [index |-> index, node |-> node]
M(pattern, captures) == [pattern |-> pattern, captures |-> captures]

Local(role, node) ==
  CASE role = "scope" -> M(1, <<Cap(1, node)>>)
    [] role = "closed" -> M(2, <<Cap(1, node)>>)
    [] role = "def" -> M(3, <<Cap(2, node)>>)
Role(role, node) ==
  CASE role = "def" -> M(4, <<Cap(4, node), Cap(3, node)>>)
    [] role = "ref" -> M(5, <<Cap(5, node), Cap(3, node)>>)  \* not for local variables
    [] role = "ignore" -> M(6, <<Cap(7, node)>>)
    [] role = "call" -> M(7, <<Cap(6, node), Cap(3, node)>>)
    [] role = "none" -> M(7, <<Cap(3, node)>>)
    [] role = "error" -> M(4, <<Cap(4, node), Cap(3, [node EXCEPT !.error = TRUE])>>)

\* a W a / b a, with four bytes for W.
MCText == <<"a", " ", "w4", "c", "c", "c", "a", "nl", " ", "b", " ", "a">>

\* The matches of a node come one after the other; nodes in the order their last
\* character is reached, or a wider one first.
Offers == {<<>>, <<"def">>, <<"ref">>, <<"call", "def">>, <<"ref", "call">>, <<"ignore">>, <<"ref", "ignore">>}
Some == {<<>>, <<"ref">>, <<"call", "ref">>, <<"none">>, <<"error">>}
Named(node, roles) == [i \in DOMAIN roles |-> Role(roles[i], node)]

Locals ==
  { <<>>, <<Local("def", N(0, 1))>>,
    <<Local("scope", N(0, 7)), Local("def", N(0, 1))>>,
    <<Local("def", N(0, 1)), Local("closed", N(2, 7))>>,
    <<Local("closed", N(0, 12)), Local("def", N(0, 1)), Local("scope", N(8, 12)), Local("def", N(9, 10))>>,
    <<Local("def", N(0, 1)), Local("scope", N(2, 12)), Local("closed", N(9, 12))>> }

Doc(bytes, matches) == [text |-> bytes, matches |-> matches]

MCNames ==
  { Doc(MCText, (IF early THEN Named(order[1], r1) \o locals ELSE locals \o Named(order[1], r1))
                  \o Named(order[2], r2) \o Named(order[3], r3)) :
      locals \in Locals, early \in BOOLEAN, r1 \in Offers, r2 \in Offers, r3 \in Some,
      order \in {<<N(0, 1), N(6, 7), N(11, 12)>>, <<N(2, 7), N(6, 7), N(9, 10)>>,
                 <<N(2, 6), N(2, 7), N(11, 12)>>} }

\* Doc comments before a definition, apart from it or not.
Comments == <<N(0, 1), N(2, 3), N(5, 6)>>
Commented(n) ==
  Doc(<<"a", "nl", "a", "nl", "nl", "a", "nl", "a", " ", "b">>,
      <<M(8, [i \in 1..n |-> Cap(8, Comments[i])] \o <<Cap(4, N(7, 10)), Cap(3, N(9, 10))>>)>>)
MCDocs == {Commented(n) : n \in 0..3}

MCInputs(q) == IF q = MCQuery THEN MCNames \cup MCDocs ELSE {Commented(0)}

ASSUME DocumentAssumption ==
  NamesInText /\ NamesOnOneLine /\ MatchesInOrder /\ MatchesOfQuery /\ OneNameEach /\ ScopesNest
=============================================================================
