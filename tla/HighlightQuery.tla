--------------------------- MODULE HighlightQuery ---------------------------
(***************************************************************************)
(* The queries of a language and what the highlighter makes of their       *)
(* matches: lib/binding_rust/lib.rs, Query (the predicates of a pattern,   *)
(* and whether a match satisfies them), and crates/highlight/src/          *)
(* highlight.rs, HighlightConfiguration::new and injection_for_match.      *)
(*                                                                         *)
(* The C library is not modelled: it gives the patterns of a source, with  *)
(* the offset each is at and its predicates as steps, and the captures of  *)
(* the matches.  A step is a capture's name or a literal.  A literal that  *)
(* is compared with source text is a sequence of characters, and one that  *)
(* is a regular expression the set of the texts it matches.  A capture has *)
(* its name, the sequence of its parts, for an index, and a match is       *)
(* [id, pattern, captures].                                                *)
(***************************************************************************)
EXTENDS Integers, Sequences, SequencesExt, FiniteSets, TLC

CONSTANT highlight_indices   \* of the capture names that are recognized, from 1

\* The elements at some places, in order, and those that pass a test: SelectSeq, as a fold.
KeptAt(s, places) ==
  FoldLeft(LAMBDA kept, i : IF i \in places THEN Append(kept, s[i]) ELSE kept, <<>>, [i \in DOMAIN s |-> i])
Kept(s, Test(_)) == KeptAt(s, {i \in DOMAIN s : Test(s[i])})

Capt(name) == [capture |-> TRUE, value |-> name]
Lit(value) == [capture |-> FALSE, value |-> value]
InvalidRegex == {}
NoValue == <<>>

EqOps == {"eq?", "not-eq?", "any-eq?", "any-not-eq?"}
MatchOps == {"match?", "not-match?", "any-match?", "any-not-match?"}
PropertyOps == {"set!", "is?", "is-not?"}
AnyOfOps == {"any-of?", "not-any-of?"}
Positive == {"eq?", "any-eq?", "match?", "any-match?", "is?", "any-of?"}
MatchAll == {"eq?", "not-eq?", "match?", "not-match?"}

Captures(steps) == SelectSeq(steps, LAMBDA s : s.capture)
Literals(steps) == SelectSeq(steps, LAMBDA s : ~s.capture)

\* parse_property: one key, perhaps a value, perhaps a capture, in any order but that
\* the key comes before the value.
ValidProperty(args) ==
  Len(Captures(args)) <= 1 /\ Len(Literals(args)) \in {1, 2}

parse_property(args) ==
  LET strings == Literals(args)
  IN  [key |-> strings[1].value, value |-> IF Len(strings) = 2 THEN strings[2].value ELSE NoValue]

\* The checks that refuse a query.
ValidPredicate(p) ==
  /\ ~p[1].capture
  /\ p[1].value \in EqOps => Len(p) = 3 /\ p[2].capture
  /\ p[1].value \in MatchOps =>
       Len(p) = 3 /\ p[2].capture /\ ~p[3].capture /\ p[3].value # InvalidRegex
  /\ p[1].value \in PropertyOps => ValidProperty(Tail(p))
  /\ p[1].value \in AnyOfOps =>
       Len(p) >= 2 /\ p[2].capture /\ \A i \in 3..Len(p) : ~p[i].capture

\* TextPredicateCapture
TextPredicate(p) ==
  LET op == p[1].value
      type == CASE op \in EqOps -> IF p[3].capture THEN "EqCapture" ELSE "EqString"
                [] op \in MatchOps -> "MatchString"
                [] op \in AnyOfOps -> "AnyString"
  IN  [type |-> type, of |-> p[2].value,
       args |-> [i \in 1..(Len(p) - 2) |-> p[i + 2].value],
       is_positive |-> op \in Positive, match_all |-> op \in MatchAll]

\* from_raw_parts, the predicates of one pattern.  Those with other operators are kept
\* for the caller, and the highlighter does not use them.
Pattern(predicates) ==
  LET With(ops) == SelectSeq(predicates, LAMBDA p : p[1].value \in ops)
      text == With(EqOps \cup MatchOps \cup AnyOfOps)
      settings == With({"set!"})
      properties == With({"is?", "is-not?"})
  IN  [text_predicates |-> [i \in DOMAIN text |-> TextPredicate(text[i])],
       property_settings |-> [i \in DOMAIN settings |-> parse_property(Tail(settings[i]))],
       property_predicates |-> [i \in DOMAIN properties |->
          <<parse_property(Tail(properties[i])), properties[i][1].value \in Positive>>]]

ValidQuery(patterns) ==
  \A i \in DOMAIN patterns : \A k \in DOMAIN patterns[i].predicates :
    ValidPredicate(patterns[i].predicates[k])

-----------------------------------------------------------------------------
(* Whether a match satisfies its pattern's predicates                        *)

nodes_for_capture_index(m, name) == SelectSeq(m.captures, LAMBDA c : c.name = name)

TextOf(source, node) == SubSeq(source, node.start + 1, node.end)

\* The loop over the nodes: it ends at the first that decides.
Loop(agrees, p, otherwise) ==
  IF \E i \in DOMAIN agrees : (agrees[i] = p.is_positive) # p.match_all
  THEN ~p.match_all ELSE otherwise


Satisfies(source, m, p) ==
  LET nodes == nodes_for_capture_index(m, p.of)
      Where(Test(_)) == [i \in DOMAIN nodes |-> Test(TextOf(source, nodes[i]))]
      others == IF p.type = "EqCapture" THEN nodes_for_capture_index(m, p.args[1]) ELSE <<>>
      pairs == {i \in DOMAIN nodes : i \in DOMAIN others}
  IN  CASE p.type = "EqCapture" ->
             Loop([i \in pairs |-> TextOf(source, nodes[i]) = TextOf(source, others[i])], p,
                  Len(nodes) = Len(others))
        [] p.type = "EqString" -> Loop(Where(LAMBDA t : t = p.args[1]), p, TRUE)
        [] p.type = "MatchString" -> Loop(Where(LAMBDA t : t \in p.args[1]), p, TRUE)
        [] p.type = "AnyString" ->
             \A i \in DOMAIN nodes : (TextOf(source, nodes[i]) \in ToSet(p.args)) = p.is_positive

satisfies_text_predicates(source, query, m) ==
  \A i \in DOMAIN query[m.pattern].text_predicates :
    Satisfies(source, m, query[m.pattern].text_predicates[i])

-----------------------------------------------------------------------------
(* HighlightConfiguration::new                                               *)

PatternsBefore(offsets, offset) ==
  Cardinality({i \in DOMAIN offsets : offsets[i] < offset})

HasSetting(pattern, key) ==
  \E i \in DOMAIN pattern.property_settings : pattern.property_settings[i].key = key

InvalidQuery == [query |-> <<>>]

\* The three sources are concatenated; the injections are also a query of their own,
\* for the combined ones, and a pattern is disabled in one of the two.
HighlightConfiguration(queries) ==
  LET injections == queries.injections
      locals == queries.locals
      highlights == queries.highlights
      locals_offset == injections.len
      highlights_offset == injections.len + locals.len
      patterns == injections.patterns \o locals.patterns \o highlights.patterns
      Offsets(section, from) == [i \in DOMAIN section.patterns |-> from + section.patterns[i].at]
      offsets == Offsets(injections, 0) \o Offsets(locals, locals_offset)
                   \o Offsets(highlights, highlights_offset)
      query == [i \in DOMAIN patterns |-> Pattern(patterns[i].predicates)]
      locals_pattern_index == PatternsBefore(offsets, locals_offset)
  IN  IF ~ValidQuery(patterns) THEN InvalidQuery ELSE
      [query |-> query,
       locals_pattern_index |-> locals_pattern_index,
       highlights_pattern_index |-> PatternsBefore(offsets, highlights_offset),
       combined |-> {i \in 1..locals_pattern_index : HasSetting(query[i], "injection.combined")},
       non_local_variable_patterns |->
         {i \in DOMAIN query : \E k \in DOMAIN query[i].property_predicates :
            /\ ~query[i].property_predicates[k][2]
            /\ query[i].property_predicates[k][1].key = "local"}]

-----------------------------------------------------------------------------
(* The matches of a configuration's query                                    *)

NoLanguage == <<>>
NoNode == [start |-> 0, end |-> 0, children |-> <<>>]

\* The text that was captured, else what the first of the settings says.
Language(config, own, parent, source, m) ==
  LET captured == nodes_for_capture_index(m, <<"injection", "language">>)
      settings == config.query[m.pattern].property_settings
      Set(prop) == CASE prop.key = "injection.language" -> prop.value
                     [] prop.key = "injection.self" -> own
                     [] prop.key = "injection.parent" -> parent
                     [] OTHER -> NoLanguage
      first == SelectInSeq(settings, LAMBDA prop : Set(prop) # NoLanguage)
  IN  IF captured # <<>> THEN TextOf(source, Last(captured))
      ELSE IF first # 0 THEN Set(settings[first]) ELSE NoLanguage

\* injection_for_match: own is the language of the layer, parent the one given for
\* the layer around it.
injection_for_match(config, own, parent, source, m) ==
  LET content == nodes_for_capture_index(m, <<"injection", "content">>)
  IN  [language |-> Language(config, own, parent, source, m),
       content |-> IF content = <<>> THEN NoNode ELSE Last(content),
       includes_children |-> HasSetting(config.query[m.pattern], "injection.include-children")]

\* The combined injections of a pattern: of the languages of its matches the last, and
\* all of their nodes.
Combine(injections) ==
  LET named == SelectLastInSeq(injections, LAMBDA i : i.language # NoLanguage)
  IN  [language |-> IF named = 0 THEN NoLanguage ELSE injections[named].language,
       nodes |-> SelectSeq([k \in DOMAIN injections |-> injections[k].content], LAMBDA n : n # NoNode),
       includes_children |-> injections # <<>> /\ Last(injections).includes_children]

CombinedInjections(config, own, parent, source, matches) ==
  LET Of(i) == SelectSeq(matches, LAMBDA m : m.pattern = i /\ i \in config.combined
                                             /\ satisfies_text_predicates(source, config.query, m))
      Injections(ms) == [k \in DOMAIN ms |-> injection_for_match(config, own, parent, source, ms[k])]
  IN  Kept([i \in 1..config.locals_pattern_index |-> Combine(Injections(Of(i)))],
           LAMBDA e : e.language # NoLanguage /\ e.nodes # <<>>)

ScopeInherits(settings) ==
  LET i == SelectLastInSeq(settings, LAMBDA s : s.key = "local.scope-inherits")
  IN  i = 0 \/ settings[i].value \in {NoValue, <<"true">>}

\* A capture as the highlighter uses it.  An injection's language is found later.
Item(config, m, at) ==
  LET c == m.captures[at]
      values == nodes_for_capture_index(m, <<"local", "definition-value">>)
      base == [start |-> c.start, end |-> c.end, id |-> m.id, kind |-> "local", match |-> m,
               inherits |-> FALSE, value_end |-> 0, h |-> 0, nonlocal |-> FALSE]
  IN  IF m.pattern <= config.locals_pattern_index THEN [base EXCEPT !.kind = "injection"]
      ELSE IF m.pattern <= config.highlights_pattern_index
      THEN CASE c.name = <<"local", "scope">> ->
                  [base EXCEPT !.kind = "scope",
                               !.inherits = ScopeInherits(config.query[m.pattern].property_settings)]
             [] c.name = <<"local", "definition">> ->
                  [base EXCEPT !.kind = "def", !.value_end = IF values = <<>> THEN 0 ELSE Last(values).end]
             [] c.name = <<"local", "reference">> -> [base EXCEPT !.kind = "ref"]
             [] OTHER -> base
      ELSE [base EXCEPT !.kind = "highlight",
                        !.h = IF c.name \in DOMAIN highlight_indices THEN highlight_indices[c.name] ELSE 0,
                        !.nonlocal = m.pattern \in config.non_local_variable_patterns]

\* QueryCaptures: the captures of the matches that satisfy their predicates, of the
\* patterns that are not disabled, in the order of the cursor: stream is a sequence
\* of <<match, index>>.
QueryCaptures(config, source, stream) ==
  FoldLeft(LAMBDA kept, s : IF s[1].pattern \notin config.combined
                               /\ satisfies_text_predicates(source, config.query, s[1])
                            THEN Append(kept, Item(config, s[1], s[2])) ELSE kept,
           <<>>, stream)
=============================================================================
