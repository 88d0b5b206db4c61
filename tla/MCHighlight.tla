---------------------------- MODULE MCHighlight -----------------------------
(***************************************************************************)
(* Documents for module Highlight.  A document is put together from what   *)
(* its captures mean; the streams of matches that a query cursor gives for *)
(* them follow.                                                            *)
(***************************************************************************)
EXTENDS Highlight

-----------------------------------------------------------------------------
(* Queries                                                                   *)

Set(key, value) == <<Lit("set!"), Lit(key), Lit(value)>>
Flag(key) == <<Lit("set!"), Lit(key)>>
Section(predicates) ==
  [len |-> 2 * Len(predicates),
   patterns |-> [i \in DOMAIN predicates |-> [at |-> 2 * (i - 1), predicates |-> predicates[i]]]]

\* Patterns 1 to 6 are injections, 7 is combined, 8 to 11 are for variables, and 12 to 14
\* highlights, of which 13 is disabled for variables.
Standard ==
  [injections |-> Section(<< <<Set("injection.language", <<"a">>)>>,
                             <<Set("injection.language", <<"a">>), Flag("injection.include-children")>>,
                             <<Set("injection.language", <<"b">>)>>,
                             <<Set("injection.language", <<"a">>)>>,
                             <<Flag("injection.self")>>,
                             <<Flag("injection.parent")>>,
                             <<Flag("injection.combined"), Flag("injection.include-children"),
                               Set("injection.language", <<"c">>)>> >>),
   locals |-> Section(<< <<>>, <<Set("local.scope-inherits", <<"false">>)>>, <<>>, <<>> >>),
   highlights |-> Section(<< <<>>, <<<<Lit("is-not?"), Lit("local")>>>>, <<>> >>)]

\* One pattern, with predicates.
Only(predicates) ==
  [injections |-> Section(<<>>), locals |-> Section(<<>>), highlights |-> Section(<<predicates>>)]

x == <<"x">>
Decisive ==
  << <<Lit("eq?"), Capt(<<"color", 1>>), Lit(x)>>, <<Lit("not-eq?"), Capt(<<"color", 1>>), Lit(x)>>,
     <<Lit("eq?"), Capt(<<"color", 1>>), Capt(<<"color", 2>>)>>, <<Lit("match?"), Capt(<<"color", 1>>), Lit({x, <<"z">>})>>,
     <<Lit("not-match?"), Capt(<<"color", 1>>), Lit({x})>>, <<Lit("any-of?"), Capt(<<"color", 1>>), Lit(x), Lit(<<"z">>)>>,
     <<Lit("not-any-of?"), Capt(<<"color", 1>>), Lit(x)>>, <<Lit("other?"), Lit("key")>> >>
Some == << <<Lit("any-eq?"), Capt(<<"color", 1>>), Lit(x)>>, <<Lit("any-not-eq?"), Capt(<<"color", 1>>), Lit(x)>>,
           <<Lit("any-match?"), Capt(<<"color", 1>>), Lit({x})>>, <<Lit("any-not-match?"), Capt(<<"color", 1>>), Lit({x})>>,
           <<Lit("any-eq?"), Capt(<<"color", 1>>), Capt(<<"color", 2>>)>> >>
Invalid ==
  << <<Capt(<<"color", 1>>)>>, <<Lit("eq?"), Capt(<<"color", 1>>)>>, <<Lit("eq?"), Lit(x), Capt(<<"color", 1>>)>>,
     <<Lit("match?"), Capt(<<"color", 1>>), Lit({})>>, <<Lit("match?"), Capt(<<"color", 1>>), Capt(<<"color", 2>>)>>,
     <<Lit("any-of?"), Lit(x)>>, <<Lit("any-of?"), Capt(<<"color", 1>>), Capt(<<"color", 2>>)>>, <<Lit("any-of?")>>,
     <<Lit("set!"), Capt(<<"color", 1>>)>>, <<Lit("set!"), Capt(<<"color", 1>>), Capt(<<"color", 2>>), Lit("key")>>, <<Lit("is?")>>,
     <<Lit("is?"), Lit("key"), Lit(x), Lit(x)>> >>
Both == << <<Decisive[3], Decisive[5]>>, <<Decisive[6], Decisive[2]>> >>
Alone(ps) == [i \in DOMAIN ps |-> <<ps[i]>>]
Predicates == Alone(Decisive) \o Both \o Alone(Some) \o Alone(Invalid)
Deciding == 1..(Len(Decisive) + Len(Both))
Ones == (Len(Decisive) + Len(Both) + 1)..(Len(Predicates) - Len(Invalid))
Refused == (Len(Predicates) - Len(Invalid) + 1)..Len(Predicates)

\* Queries 1, and one for each list of predicates.
MCQueries == <<Standard>> \o [i \in DOMAIN Predicates |-> Only(Predicates[i])]
MCConfigurations == [q \in DOMAIN MCQueries |-> HighlightConfiguration(MCQueries[q])]
MCHighlightIndices == [n \in {<<"color", h>> : h \in 1..45} |-> n[2]]

-----------------------------------------------------------------------------
(* What captures mean, and the matches that give them                        *)

Highlighted(s, e, h, pattern) ==
  [start |-> s, end |-> e, kind |-> "highlight", h |-> h, pattern |-> pattern, nonlocal |-> pattern = 13]
Hl(s, e, h) == Highlighted(s, e, h, 12)
NonLocal(s, e, h) == Highlighted(s, e, h, 13)
HlAfter(s, e, h) == Highlighted(s, e, h, 14)
Inj(s, e, id, language, pattern, children) ==
  [start |-> s, end |-> e, kind |-> "injection", id |-> id, language |-> language, pattern |-> pattern,
   includes_children |-> pattern = 2, content |-> [start |-> s, end |-> e, children |-> children]]
Scope(s, e, inherits) == [start |-> s, end |-> e, kind |-> "scope", inherits |-> inherits]
Def(s, e, value_end) == [start |-> s, end |-> e, kind |-> "def", value_end |-> value_end]
Ref(s, e) == [start |-> s, end |-> e, kind |-> "ref"]

Node1(name, s, e) == [name |-> name, start |-> s, end |-> e, children |-> <<>>]
Match(c) ==
  LET M(pattern, captures) == [pattern |-> pattern, captures |-> captures]
  IN  CASE c.kind = "injection" ->
             M(c.pattern, <<[name |-> <<"injection", "content">>] @@ c.content>>
                            \o IF c.pattern = 4 THEN <<Node1(<<"injection", "language">>, c.end, c.end + 1)>> ELSE <<>>)
        [] c.kind = "scope" -> M(IF c.inherits THEN 8 ELSE 9, <<Node1(<<"local", "scope">>, c.start, c.end)>>)
        [] c.kind = "def" ->
             M(10, <<Node1(<<"local", "definition">>, c.start, c.end)>>
                     \o IF c.value_end = 0 THEN <<>>
                        ELSE <<Node1(<<"local", "definition-value">>, c.end, c.value_end)>>)
        [] c.kind = "ref" -> M(11, <<Node1(<<"local", "reference">>, c.start, c.end)>>)
        [] c.kind = "highlight" ->
             M(c.pattern, <<Node1(<<"color", c.h>>, c.start, c.end)>>)

\* The order in which a query cursor yields captures: by position, then by pattern.
Precedes(a, b) ==
  LET p == a[1].captures[a[2]]  q == b[1].captures[b[2]]
  IN  \/ p.start < q.start
      \/ p.start = q.start /\ p.end > q.end
      \/ p.start = q.start /\ p.end = q.end /\ Less(<<a[1].pattern, a[1].id, a[2]>>, <<b[1].pattern, b[1].id, b[2]>>)
\* Captures in the order of positions, kinds and patterns.
Rank == [injection |-> 1, scope |-> 2, def |-> 3, ref |-> 4, highlight |-> 5]
InOrder(captures) ==
  LET Before(a, b) ==
        \/ a.start < b.start
        \/ a.start = b.start /\ a.end > b.end
        \/ SameNode(a, b) /\ Rank[a.kind] < Rank[b.kind]
        \/ SameNode(a, b) /\ a.kind = "highlight" /\ b.kind = "highlight" /\ a.pattern < b.pattern
  IN  SortSeq(captures, Before)

\* The matches of captures: an injection has its own number.
Matches(captures, base) ==
  LET s == InOrder(captures)
  IN  [i \in DOMAIN s |-> Match(s[i]) @@ [id |-> IF s[i].kind = "injection" THEN s[i].id ELSE base + i]]
Stream(matches) ==
  SortSeq(FlattenSeq([k \in DOMAIN matches |-> [i \in DOMAIN matches[k].captures |-> <<matches[k], i>>]]),
          Precedes)

\* A tree of captures, and of nodes of combined injections.
TreeOf(captures, nodes) ==
  LET combined == [i \in DOMAIN nodes |-> [id |-> 900 + i, pattern |-> 7,
                     captures |-> <<[name |-> <<"injection", "content">>] @@ nodes[i]>>]]
  IN  [queries |-> 1, stream |-> Stream(Matches(captures, 100) \o combined), combined |-> combined]

Root == <<"r">>
Document(text, captures, nodes, injected) ==
  [text |-> text, language |-> Root, valid |-> TRUE, captures |-> InOrder(captures),
   trees |-> (<<Root, 0>> :> TreeOf(captures, nodes)) @@ injected,
   injections |-> {c \in ToSet(captures) : c.kind = "injection"}]

-----------------------------------------------------------------------------
\* Up to n nodes in a range that are nested or apart.
Intervals(s, e) == {r \in (s..e) \X (s..e) : r[1] < r[2]}
Apart(a, b) == a[2] <= b[1] \/ b[2] <= a[1]
Nested(a, b) == (a[1] <= b[1] /\ b[2] <= a[2]) \/ (b[1] <= a[1] /\ a[2] <= b[2])
Trees(s, e, n) ==
  {T \in SUBSET Intervals(s, e) : Cardinality(T) <= n /\ \A a, b \in T : Apart(a, b) \/ Nested(a, b)}
AllIntervals == << <<0, 1>>, <<0, 2>>, <<0, 3>>, <<1, 2>>, <<1, 3>>, <<2, 3>> >>
Painted(T, base) ==
  LET nodes == SelectSeq(AllIntervals, LAMBDA r : r \in T)
  IN  [i \in DOMAIN nodes |-> Hl(nodes[i][1], nodes[i][2], base + 3 * nodes[i][1] + nodes[i][2])]
Only1(language, captures) == <<language, 1>> :> TreeOf(captures, <<>>)

\* Every tree of two nodes with one injection, and every tree in the injection.
MCText == {<<"x", "nl", "y">>, <<"cr", "x", "cr">>}
MCInjecting(len) ==
  UNION { { Document(text, Append(Painted(T, 0), Inj(i[1], i[2], 1, <<"a">>, 1, <<>>)), <<>>,
                     Only1(<<"a">>, Painted(U, 20)))
            : text \in MCText, U \in Trees(i[1], i[2], 2) }
          : T \in Trees(0, len, 2), i \in {r \in Intervals(0, len) : r[2] - r[1] >= 2} }

\* Children that are left out, an injection in an injection, combined injections.
MCSpecial(patterns) ==
  { [ Document(<<"x", "cr", "nl", "y", "z">>,
               <<Hl(0, 5, 1), Inj(p, 5, 1, <<"a">>, pattern, <<[start |-> 2, end |-> 3]>>), Hl(1, 4, 2)>>,
               <<>>,
               (<<<<"a">>, 1>> :> TreeOf(<<Inj(q, 5, 2, <<"b">>, 3, <<[start |-> 3, end |-> 4]>>), Hl(q, 5, 21)>>,
                                         <<[start |-> 1, end |-> 2, children |-> <<>>],
                                           [start |-> c, end |-> 4, children |-> <<>>]>>))
                 @@ (<<<<"c">>, 2>> :> TreeOf(<<Hl(1, 2, 31), Hl(3, 4, 32)>>, <<>>))
                 @@ (<<<<"b">>, 2>> :> TreeOf(<<Hl(q, q + 1, 41), Hl(4, 5, 42)>>, <<>>)))
      EXCEPT !.injections = @ \cup {Inj(q, 5, 2, <<"b">>, 3, <<[start |-> 3, end |-> 4]>>)} ]
    : p \in {0, 1}, q \in {1, 3}, c \in {2, 3}, pattern \in patterns }

\* The ways to name a language: by a capture that comes first, also one that is not
\* known, the language itself, and that of the document.
MCNaming(patterns) ==
  { Document(<<"x", "y", name>>,
             <<Inj(0, 2, 1, IF pattern # 4 THEN Root ELSE IF name = "b" THEN <<"b">> ELSE NoLanguage, pattern, <<>>),
              Hl(0, 1, 1)>>, nodes,
             Only1(<<"a">>, <<Hl(0, 2, 21)>>) @@ Only1(<<"b">>, <<Hl(0, 2, 22)>>) @@ Only1(Root, <<Hl(1, 2, 23)>>)
               @@ Only1(<<"c">>, <<Hl(2, 3, 24)>>))
    : name \in {"b", "q"}, pattern \in patterns, nodes \in {<<>>, <<[start |-> 2, end |-> 3, children |-> <<>>]>>} }

\* Two scopes in a scope, with variables; nothing starts where a scope ends.
Role(pos, role) ==
  CASE role = "def" -> <<Def(pos, pos + 1, 0)>>
    [] role = "defv" -> <<Def(pos, pos + 1, pos + 2)>>
    [] role = "ref" -> <<Ref(pos, pos + 1)>>
    [] role = "none" -> <<>>
Places == <<0, 1, 3, 4>>
MCScopes(flags) ==
  { <<Scope(0, 5, flags[1])>>, <<Scope(0, 2, flags[1])>>, <<Scope(0, 2, TRUE), Scope(3, 5, flags[1])>>,
    <<Scope(0, 5, flags[2]), Scope(3, 5, flags[1])>> }
\* The highlights of a place: a disabled one last, first, alone or between others.
Colors(pos, i, colors) ==
  CASE colors = "last" -> <<Hl(pos, pos + 1, i), NonLocal(pos, pos + 1, i + 10)>>
    [] colors = "first" -> <<NonLocal(pos, pos + 1, i + 10), HlAfter(pos, pos + 1, i + 20)>>
    [] colors = "alone" -> <<NonLocal(pos, pos + 1, i + 10)>>
    [] colors = "between" -> <<Hl(pos, pos + 1, i), NonLocal(pos, pos + 1, i + 10), HlAfter(pos, pos + 1, i + 20)>>
MCRoles == {"none", "def", "defv"} \X {"none", "def", "ref"} \X {"none", "def", "defv"} \X {"ref"}
MCLocals(texts, orders, chosen) ==
  { Document(text, scopes \o FlattenSeq([i \in 1..4 |->
                     Role(Places[i], roles[i]) \o Colors(Places[i], i, colors)]),
             <<>>, <<>>)
    : text \in texts, colors \in orders, roles \in chosen,
      scopes \in UNION {MCScopes(f) : f \in BOOLEAN \X BOOLEAN} }

\* Two matches of two nodes each, of pattern 12 and of a later one: where they meet the first gives
\* way, unless the other is disabled there, and then highlights none of its later nodes.
Before1(m, n) == m.start < n.start \/ (m.start = n.start /\ m.end > n.end)
PairsOfNodes ==
  {p \in ToSet(AllIntervals) \X ToSet(AllIntervals) :
     Before1(Span(p[1][1], p[1][2]), Span(p[2][1], p[2][2]))}
MCPairs(later, defs) ==
  { LET Of(m, i) == m.captures[i]
        first == [id |-> 201, pattern |-> 12,
                  captures |-> [i \in 1..2 |-> Node1(<<"color", i>>, pairs[1][i][1], pairs[1][i][2])]]
        second == [id |-> 202, pattern |-> later,
                   captures |-> [i \in 1..2 |-> Node1(<<"color", i + 2>>, pairs[2][i][1], pairs[2][i][2])]]
        locals == [i \in DOMAIN def |-> Match(def[i]) @@ [id |-> 210 + i]]
        Yields(n) == \/ later # 13
                     \/ \A i \in DOMAIN def : ~SameNode(def[i], n)
        GaveWay(n) == \E i, j \in 1..2 : /\ SameNode(Of(first, i), Of(second, j))
                                         /\ Before1(Of(first, i), n) /\ Yields(Of(first, i))
        Meant(m) == LET all == [i \in 1..2 |-> Highlighted(Of(m, i).start, Of(m, i).end, Of(m, i).name[2], m.pattern)]
                    IN  SelectSeq(all, LAMBDA c : m = first => ~GaveWay(c))
    IN  [text |-> <<"x", "y", "z">>, language |-> Root, valid |-> TRUE, injections |-> {},
         captures |-> InOrder(def \o Meant(first) \o Meant(second)),
         trees |-> (<<Root, 0>> :> [queries |-> 1, stream |-> Stream(locals \o <<first, second>>), combined |-> <<>>])]
    : pairs \in {p \in PairsOfNodes \X PairsOfNodes :
                  \A a, b \in Range(p[1]) \cup Range(p[2]) : Apart(a, b) \/ Nested(a, b)},
      def \in defs }

\* A capture whose name no configured highlight has, and runs of carriage returns.
MCUnknown ==
  { Document(text, <<Hl(0, 2, 0), Hl(1, 2, 5), Hl(2, 3, h)>>, <<>>, <<>>)
    : h \in {0, 6}, text \in {<<"x", "y", "nl">>, <<"cr", "cr", "y">>, <<"cr", "cr", "nl">>} }

-----------------------------------------------------------------------------
\* docs/src/using-parsers/queries/3-predicates-and-directives.md: what a predicate says
\* of the nodes of its first capture.
Means(text, m, p) ==
  LET op == p[1].value
      Of(name) == LET n == nodes_for_capture_index(m, name) IN [i \in DOMAIN n |-> TextOf(text, n[i])]
      nodes == Of(p[2].value)
      Holds(i) == CASE op \in EqOps -> (nodes[i] = p[3].value) = (op \in Positive)
                    [] op \in MatchOps -> (nodes[i] \in p[3].value) = (op \in Positive)
                    [] op \in AnyOfOps ->
                         (\E k \in 3..Len(p) : nodes[i] = p[k].value) = (op \in Positive)
  IN  CASE op = "other?" -> TRUE
        [] op = "eq?" /\ p[3].capture -> nodes = Of(p[3].value)
        [] op = "any-eq?" /\ p[3].capture ->
             \E i \in DOMAIN nodes : i \in DOMAIN Of(p[3].value) /\ nodes[i] = Of(p[3].value)[i]
        [] op \in EqOps \cup MatchOps /\ op \notin MatchAll -> \E i \in DOMAIN nodes : Holds(i)
        [] OTHER -> \A i \in DOMAIN nodes : Holds(i)

\* One match with nodes of the captures that predicates name, and perhaps of another.
MCNames ==
  {n \in [1..3 -> {<<"color", h>> : h \in 1..3}] : <<"color", 1>> \in Range(n)}
MCMatched(texts, queries) ==
  { LET m == [id |-> 1, pattern |-> 1,
              captures |-> [i \in 1..3 |-> Node1(names[i], i - 1, i)]]
        holds == \A i \in DOMAIN Predicates[q] : Means(text, m, Predicates[q][i])
    IN  [text |-> text, language |-> Root, valid |-> q \notin Refused, injections |-> {},
         captures |-> IF q \in Refused \/ ~holds THEN <<>>
                      ELSE [i \in 1..3 |-> Hl(i - 1, i, MCHighlightIndices[names[i]])],
         trees |-> (<<Root, 0>> :> [queries |-> q + 1, stream |-> [i \in 1..3 |-> <<m, i>>], combined |-> <<>>])]
    : text \in texts, names \in MCNames, q \in queries }

\* Of the predicates that ask for one node only those documents that have one.
MCPredicates(texts) ==
  MCMatched(texts, Deciding \cup Refused)
    \cup {d \in MCMatched(texts, Ones) : d.captures # <<>>}

MCDocuments ==
  MCUnknown \cup MCInjecting(3) \cup MCSpecial({1, 2}) \cup MCNaming(4..6)
    \cup MCLocals({<<"a", "a", "_", "a", "a">>}, {"last"}, MCRoles)
    \cup MCLocals({<<"a", "b", "_", "a", "b">>}, {"last"},
                  {"def"} \X {"def", "ref"} \X {"none", "defv"} \X {"ref"})
    \cup MCLocals({<<"a", "b", "_", "a", "b">>}, {"first", "alone", "between"},
                  {"def"} \X {"ref"} \X {"none", "def"} \X {"ref"})
    \cup MCPairs(14, {<<>>}) \cup MCPairs(13, {<<Def(0, 1, 0)>>, <<Def(0, 3, 0)>>})
    \cup MCPredicates([1..3 -> {"x", "y"}] \cup {<<"z", "x", "z">>})

\* Predicates that ask for one node, on any nodes.
MCOnes == MCMatched({<<"y", "y", "y">>}, Ones)

ASSUME DocumentsAssumption == DocumentsGiven
=============================================================================
