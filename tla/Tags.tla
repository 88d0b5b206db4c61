-------------------------------- MODULE Tags --------------------------------
(***************************************************************************)
(* crates/tags/src/tags.rs: the definitions and references of a document,  *)
(* found by the matches of a query, and the buffer of c_lib.rs that they   *)
(* are collected in.                                                       *)
(*                                                                         *)
(* Parsing and querying are not modelled: a document has its matches,      *)
(* in the order the cursor yields them.  A match has a pattern and         *)
(* captures, each with an index into the capture names and a node.  The    *)
(* text is a sequence of bytes: " ", "nl", other letters of one byte, or   *)
(* "w4" for the first byte of a character of four, followed by "c"s.  A    *)
(* capture name is the pair of its parts around the dot.  A doc string is  *)
(* the sequence of the nodes it is made of.                                *)
(***************************************************************************)
EXTENDS Integers, Sequences, SequencesExt, FiniteSets

CONSTANTS
  Queries,     \* [names, locals, tags]: capture names, and the patterns of both files
  Inputs(_),   \* the documents [text, matches, failed] for a query
  MaxLineLen   \* MAX_LINE_LEN

VARIABLES
  query, input, config,
  status,      \* "new", "invalid", "running", "cancelled", "finished"
  matched,     \* the number of matches that were looked at
  scopes, tag_queue, prev_line_info,
  buffer       \* the tags that were returned

tagVars == <<query, input, config, status, matched, scopes, tag_queue, prev_line_info, buffer>>

-----------------------------------------------------------------------------
(* TagsConfiguration::new                                                    *)

Special == {<<"name", "">>, <<"ignore", "">>, <<"doc", "">>, <<"local", "scope">>,
            <<"local", "definition">>, <<"local", "reference">>, <<"", "">>}
Valid(name) == name \in Special \/ name[1] \in {"definition", "reference"}

\* The position of a name among the capture names, 0 for none.
IndexOf(names, name) == SelectInSeq(names, LAMBDA n : n = name)

\* The types that follow the dots, each once.
SyntaxTypes(names) ==
  FoldLeft(LAMBDA types, n : IF n \in Special \/ Contains(types, n[2]) THEN types
                             ELSE Append(types, n[2]),
           <<>>, names)

NamedCapture(names, i) ==
  [type |-> IndexOf(SyntaxTypes(names), names[i][2]), is_definition |-> names[i][1] = "definition"]

\* A pattern says of a capture of docs only when there is one.
PatternInfo(names, p) ==
  [ inherits |-> p.inherits, nonlocal |-> p.nonlocal,
    adjacent |-> IF IndexOf(names, <<"doc", "">>) = 0 THEN 0 ELSE p.adjacent ]

NewConfiguration(q) ==
  [ captures |-> [i \in {k \in DOMAIN q.names : q.names[k] \notin Special} |-> NamedCapture(q.names, i)],
    name |-> IndexOf(q.names, <<"name", "">>), ignore |-> IndexOf(q.names, <<"ignore", "">>),
    doc |-> IndexOf(q.names, <<"doc", "">>), scope |-> IndexOf(q.names, <<"local", "scope">>),
    definition |-> IndexOf(q.names, <<"local", "definition">>),
    tags_pattern_index |-> Len(q.locals),
    pattern_info |-> [i \in DOMAIN (q.locals \o q.tags) |-> PatternInfo(q.names, (q.locals \o q.tags)[i])] ]

-----------------------------------------------------------------------------
(* Text                                                                      *)

text == input.text
Bytes(start, end) == SubSeq(text, start + 1, end)
Row(b) == Cardinality({i \in 1..b : text[i] = "nl"})
LineStart(b) == CHOOSE i \in 0..b : (i = 0 \/ text[i] = "nl") /\ \A j \in (i + 1)..b : text[j] # "nl"
Column(b) == b - LineStart(b)
Space(c) == c \in {" ", "nl"}

\* The units of the bytes from one offset to another: two for a character of four bytes.
utf16_len(start, end) ==
  Cardinality({i \in (start + 1)..end : text[i] # "c"}) + Cardinality({i \in (start + 1)..end : text[i] = "w4"})

\* valid_up_to: a character that was cut off at the end is left out.
ValidUpTo(bytes) ==
  LET first == SelectLastInSeq(bytes, LAMBDA c : c # "c")
  IN  IF first # 0 /\ bytes[first] = "w4" /\ first + 3 > Len(bytes) THEN first - 1 ELSE Len(bytes)

\* The line from its first character that is no space, at most max_len bytes of it.
\* A line of spaces goes on in the next one.
LineFrom(source, line_start, max_len) ==
  LET from == SelectInSeq(SubSeq(source, line_start + 1, Len(source)), LAMBDA c : ~Space(c))
      start == IF from = 0 THEN Len(source) ELSE line_start + from - 1
      rest == SubSeq(source, start + 1, IF max_len < Len(source) - start THEN start + max_len ELSE Len(source))
      newline == SelectInSeq(rest, LAMBDA c : c = "nl")
      len == IF newline # 0 THEN newline - 1 ELSE ValidUpTo(rest)
  IN  [start |-> start, end |-> start + SelectLastInSeq(SubSeq(rest, 1, len), LAMBDA c : ~Space(c))]
line_range(source, start_byte, column, max_len) == LineFrom(source, start_byte - column, max_len)

-----------------------------------------------------------------------------
(* generate_tags                                                             *)

RootScope == [start |-> 0, end |-> Len(text), inherits |-> FALSE, defs |-> {}]
NoLine == [row |-> -1, column |-> 0, byte |-> 0, utf16 |-> 0, line |-> [start |-> 0, end |-> 0]]

TagInit ==
  /\ query \in Queries /\ input \in Inputs(query)
  /\ config = <<>> /\ status = "new" /\ matched = 0
  /\ scopes = <<>> /\ tag_queue = <<>> /\ prev_line_info = NoLine /\ buffer = <<>>

\* ts_tagger_add_language refuses a capture of another name, else ts_tagger_tag begins.
Configure ==
  /\ status = "new"
  /\ IF \A i \in DOMAIN query.names : Valid(query.names[i])
     THEN /\ status' = "running"
          /\ config' = NewConfiguration(query)
          /\ scopes' = <<RootScope>>
     ELSE status' = "invalid" /\ UNCHANGED <<config, scopes>>
  /\ UNCHANGED <<query, input, matched, tag_queue, prev_line_info, buffer>>

\* The flag is looked at now and then; the buffer is cleared.
Cancel ==
  /\ status = "running"
  /\ status' = "cancelled" /\ buffer' = <<>>
  /\ UNCHANGED <<query, input, config, matched, scopes, tag_queue, prev_line_info>>

\* A tag at the front of the queue that lies before the last one is returned, or
\* forgotten when it is of an ignored node.
Earlier ==
  /\ status = "running" /\ Len(tag_queue) > 1
  /\ tag_queue[1].tag.name.end < Last(tag_queue).tag.name.start

ReturnEarlier ==
  /\ Earlier
  /\ tag_queue' = Tail(tag_queue)
  /\ buffer' = IF tag_queue[1].tag.ignored THEN buffer ELSE Append(buffer, tag_queue[1].tag)
  /\ UNCHANGED <<query, input, config, status, matched, scopes, prev_line_info>>

MatchDue == status = "running" /\ ~Earlier /\ matched < Len(input.matches)
Match == input.matches[matched + 1]
Info == config.pattern_info[Match.pattern]
Around(s, n) == s.start <= n.start /\ s.end >= n.end

\* A match of the locals query: scopes are never left, a definition goes to the last
\* one around it.
AddLocal(ss, c) ==
  LET i == SelectLastInSeq(ss, LAMBDA s : Around(s, c.node))
  IN  IF c.index = config.scope
      THEN Append(ss, [start |-> c.node.start, end |-> c.node.end, inherits |-> Info.inherits, defs |-> {}])
      ELSE IF c.index = config.definition /\ i # 0
      THEN [ss EXCEPT ![i].defs = @ \cup {Bytes(c.node.start, c.node.end)}]
      ELSE ss

LocalMatch ==
  /\ MatchDue /\ Match.pattern <= config.tags_pattern_index
  /\ scopes' = FoldLeft(AddLocal, scopes, Match.captures)
  /\ matched' = matched + 1
  /\ UNCHANGED <<query, input, config, status, tag_queue, prev_line_info, buffer>>

\* The nodes of the match, by the last capture of a kind; the name is that of the name
\* or the ignored capture, whichever is later.
LastCapture(Test(_)) ==
  LET found == {i \in DOMAIN Match.captures : Test(Match.captures[i])}
  IN  {Match.captures[i] : i \in {k \in found : \A j \in found : j <= k}}
NameCapture == LastCapture(LAMBDA c : c.index \in {config.name, config.ignore})
Ignored == \E c \in ToSet(Match.captures) : c.index = config.ignore
TagCapture == LastCapture(LAMBDA c : c.index \in DOMAIN config.captures)
AdjacentCapture == LastCapture(LAMBDA c : c.index = Info.adjacent)
The(captures) == (CHOOSE c \in captures : TRUE).node

\* The scopes around the name, from the last: up to one with a definition of it, or
\* one that does not inherit.
IsLocal(ss, name) ==
  LET i == SelectLastInSeq(ss, LAMBDA s : Around(s, name) /\
             (Bytes(name.start, name.end) \in s.defs \/ ~s.inherits))
  IN  i # 0 /\ Bytes(name.start, name.end) \in ss[i].defs

\* The doc nodes, from the last one, that follow one another to the adjacent node.
AdjacentDocs(docs, row) ==
  LET next(i) == IF i = Len(docs) THEN row ELSE Row(docs[i + 1].start)
      apart == SelectLastInSeq([i \in DOMAIN docs |-> i], LAMBDA i : Row(docs[i].end) + 1 < next(i))
  IN  SubSeq(docs, apart + 1, Len(docs))
Docs ==
  LET nodes == [i \in DOMAIN Match.captures |-> Match.captures[i]]
      docs == SelectSeq(nodes, LAMBDA c : c.index = config.doc /\ c.index # config.name)
      all == [i \in DOMAIN docs |-> docs[i].node]
  IN  IF AdjacentCapture = {} THEN all ELSE AdjacentDocs(all, Row(The(AdjacentCapture).start))

\* Mutant: the columns go on from the last tag of the line, wherever it is.
Reusable_Any(info, name) == info.row = Row(name.start)

\* What is known of the line is used when the last tag was on it; the column only if
\* that tag lies before.
Reusable(info, name) == info.row = Row(name.start) /\ info.column <= Column(name.start)

LineOf(info, name) ==
  IF info.row = Row(name.start) THEN info.line
  ELSE line_range(text, name.start, Column(name.start), MaxLineLen)
Utf16Start(info, name) ==
  IF Reusable(info, name) THEN info.utf16 + utf16_len(info.byte, name.start)
  ELSE utf16_len(name.start - Column(name.start), name.start)

NewTag(name, tag, line, from) ==
  [ name |-> [start |-> name.start, end |-> name.end], ignored |-> FALSE,
    range |-> [start |-> IF tag.node.start < name.start THEN tag.node.start ELSE name.start,
               end |-> IF tag.node.end > name.end THEN tag.node.end ELSE name.end],
    line |-> line, columns |-> [start |-> from, end |-> from + utf16_len(name.start, name.end)],
    docs |-> Docs, kind |-> config.captures[tag.index] ]
IgnoredTag(name) ==
  [ name |-> [start |-> name.start, end |-> name.end], ignored |-> TRUE,
    range |-> [start |-> -1, end |-> -1], line |-> [start |-> 0, end |-> 0],
    columns |-> [start |-> 0, end |-> 0], docs |-> <<>>, kind |-> [type |-> 0, is_definition |-> FALSE] ]

\* Mutant: a later match of a node replaces an earlier one.
Prefers_Later(new, old) == TRUE

\* Of two patterns for a node the first counts.
Prefers(new, old) == new < old

\* The queue is sorted by the end of the name, then its start.
KeyLess(a, b) == a.end < b.end \/ (a.end = b.end /\ a.start < b.start)

Queued(tag, pattern) ==
  LET i == Cardinality({k \in DOMAIN tag_queue : KeyLess(tag_queue[k].tag.name, tag.name)}) + 1
      entry == [tag |-> tag, pattern |-> pattern]
  IN  IF i <= Len(tag_queue) /\ tag_queue[i].tag.name = tag.name
      THEN IF Prefers(pattern, tag_queue[i].pattern) THEN [tag_queue EXCEPT ![i] = entry] ELSE tag_queue
      ELSE InsertAt(tag_queue, i, entry)

TagsMatch == MatchDue /\ Match.pattern > config.tags_pattern_index

\* The name has an error, or is a local variable, or there is no name or no tag.
Refused ==
  \/ NameCapture = {}
  \/ TagCapture = {} /\ ~Ignored
  \/ TagCapture # {} /\ (The(NameCapture).error \/ (Info.nonlocal /\ IsLocal(scopes, The(NameCapture))))

SkipMatch ==
  /\ TagsMatch /\ Refused
  /\ matched' = matched + 1
  /\ UNCHANGED <<query, input, config, status, scopes, tag_queue, prev_line_info, buffer>>

TagMatch ==
  /\ TagsMatch /\ ~Refused /\ TagCapture # {}
  /\ LET name == The(NameCapture)
         tag == CHOOSE c \in TagCapture : TRUE
         line == LineOf(prev_line_info, name)
         new == NewTag(name, tag, line, Utf16Start(prev_line_info, name))
     IN  /\ prev_line_info' = [row |-> Row(name.end), column |-> Column(name.end), byte |-> name.end,
                               utf16 |-> new.columns.end, line |-> line]
         /\ tag_queue' = Queued(new, Match.pattern)
  /\ matched' = matched + 1
  /\ UNCHANGED <<query, input, config, status, scopes, buffer>>

IgnoreMatch ==
  /\ TagsMatch /\ ~Refused /\ TagCapture = {}
  /\ tag_queue' = Queued(IgnoredTag(The(NameCapture)), Match.pattern)
  /\ matched' = matched + 1
  /\ UNCHANGED <<query, input, config, status, scopes, prev_line_info, buffer>>

\* There are no more matches: the queue is drained, whatever is in it.
Drain ==
  /\ status = "running" /\ ~Earlier /\ matched = Len(input.matches)
  /\ IF tag_queue = <<>> THEN status' = "finished" /\ UNCHANGED <<tag_queue, buffer>>
     ELSE /\ tag_queue' = Tail(tag_queue) /\ buffer' = Append(buffer, tag_queue[1].tag)
          /\ UNCHANGED status
  /\ UNCHANGED <<query, input, config, matched, scopes, prev_line_info>>

TagNext ==
  Configure \/ Cancel \/ ReturnEarlier \/ LocalMatch \/ SkipMatch \/ TagMatch \/ IgnoreMatch \/ Drain

TagSpec == TagInit /\ [][TagNext]_tagVars

-----------------------------------------------------------------------------
(* What the matches of a document mean                                       *)

\* The captures of a match, by their names.
NodesOf(q, m, name) == {c.node : c \in {e \in ToSet(m.captures) : q.names[e.index] = name}}
Roles(q, m) == {c \in ToSet(m.captures) : q.names[c.index] \notin Special}
IsTagsMatch(q, m) == m.pattern > Len(q.locals)
PatternOf(q, m) == (q.locals \o q.tags)[m.pattern]

\* A name is a local variable when a definition of it came before in the innermost
\* scope around that definition, and the scope is visible from the name.
Before(q, d, k) == {j \in 1..(k - 1) : ~IsTagsMatch(q, d.matches[j])}
ScopesOf(q, m) ==
  {[start |-> n.start, end |-> n.end, inherits |-> PatternOf(q, m).inherits] : n \in NodesOf(q, m, <<"local", "scope">>)}
ScopesAt(q, d, k) == UNION {ScopesOf(q, d.matches[j]) : j \in Before(q, d, k)}
DefsOf(q, m) == NodesOf(q, m, <<"local", "definition">>)
Width(n) == n.end - n.start
ScopeOf(q, d, k, n) ==  \* the innermost around a definition, {} for the document
  {s \in ScopesAt(q, d, k) : Around(s, n)
     /\ \A t \in ScopesAt(q, d, k) : Around(t, n) => Width(s) <= Width(t)}
TextOf(d, n) == SubSeq(d.text, n.start + 1, n.end)
LocalAt(q, d, k, name) ==
  \E j \in Before(q, d, k) : \E def \in DefsOf(q, d.matches[j]) :
    /\ TextOf(d, def) = TextOf(d, name)
    /\ \A s \in ScopeOf(q, d, j, def) : Around(s, name)
    /\ \A t \in ScopesAt(q, d, k) :
         /\ Around(t, name)
         /\ \A s \in ScopeOf(q, d, j, def) : Width(t) < Width(s)
         => t.inherits

\* The tags there should be, by the matches: each named node with a role, that has no
\* error and is not local where that is asked for.
Wanted(q, d, k) ==
  LET m == d.matches[k] IN
  /\ IsTagsMatch(q, m)
  /\ NodesOf(q, m, <<"name", "">>) # {} /\ Roles(q, m) # {} /\ NodesOf(q, m, <<"ignore", "">>) = {}
  /\ \A n \in NodesOf(q, m, <<"name", "">>) :
       ~n.error /\ ~(PatternOf(q, m).nonlocal /\ LocalAt(q, d, k, n))
Unwanted(q, d, k) == IsTagsMatch(q, d.matches[k]) /\ NodesOf(q, d.matches[k], <<"ignore", "">>) # {}

\* The nodes of a match that may become the name of a tag.
NamesOf(q, m) ==
  {m.captures[i].node : i \in {k \in DOMAIN m.captures :
     m.captures[k].index \in {IndexOf(q.names, <<"name", "">>), IndexOf(q.names, <<"ignore", "">>)}}}

\* The tag of a match: what it is named by, and its role.
TagName(q, m) == LET n == CHOOSE n \in NamesOf(q, m) : TRUE IN [start |-> n.start, end |-> n.end]
TagKind(q, m) == NamedCapture(q.names, (CHOOSE c \in Roles(q, m) : TRUE).index)

\* Of the first n matches those that decide about a name: of the first pattern and,
\* of that, the first.
Candidates(q, d, n) == {k \in 1..n : Wanted(q, d, k) \/ Unwanted(q, d, k)}
Winners(q, d, n) ==
  {k \in Candidates(q, d, n) : \A j \in Candidates(q, d, n) :
     TagName(q, d.matches[j]) = TagName(q, d.matches[k]) =>
       \/ d.matches[k].pattern < d.matches[j].pattern
       \/ d.matches[k].pattern = d.matches[j].pattern /\ k <= j}

-----------------------------------------------------------------------------
(* What is said of the documents that are given                              *)

\* Names are nodes of the document.
NamesInText ==
  \A q \in Queries : \A d \in Inputs(q) :
    /\ Len(d.text) \in Nat /\ Len(d.matches) \in Nat
    /\ \A k \in 1..Len(d.matches) : \A n \in NamesOf(q, d.matches[k]) :
         n.start \in Nat /\ n.end \in Nat /\ n.start <= n.end /\ n.end <= Len(d.text)

\* No name goes on in the next line.
NamesOnOneLine ==
  \A q \in Queries : \A d \in Inputs(q) : \A k \in 1..Len(d.matches) :
    \A n \in NamesOf(q, d.matches[k]) : \A b \in (n.start + 1)..n.end : d.text[b] # "nl"

\* No match has a name that ends before the name of an earlier match starts.
MatchesInOrder ==
  \A q \in Queries : \A d \in Inputs(q) : \A j, k \in 1..Len(d.matches) :
    j < k /\ IsTagsMatch(q, d.matches[j]) /\ IsTagsMatch(q, d.matches[k]) =>
      \A m \in NamesOf(q, d.matches[j]) : \A n \in NamesOf(q, d.matches[k]) : m.start <= n.end

\* Capture names are different; a match has a pattern of the query and captures of its
\* names, as the C library gives them.
MatchesOfQuery ==
  \A q \in Queries :
    /\ q.names \in Seq(ToSet(q.names)) /\ \A i, j \in DOMAIN q.names : q.names[i] = q.names[j] => i = j
    /\ q.locals \in Seq(ToSet(q.locals)) /\ q.tags \in Seq(ToSet(q.tags))
    /\ \A d \in Inputs(q) : \A k \in 1..Len(d.matches) :
         /\ d.matches[k].pattern \in DOMAIN (q.locals \o q.tags)
         /\ d.matches[k].captures \in Seq(ToSet(d.matches[k].captures))
         /\ \A c \in ToSet(d.matches[k].captures) : c.index \in DOMAIN q.names

\* A match of the tags query has one name with one role, or ignores one name.
OneNameEach ==
  \A q \in Queries : \A d \in Inputs(q) : \A k \in 1..Len(d.matches) :
    LET m == d.matches[k]
        Named(c) == q.names[c.index] \in {<<"name", "">>, <<"ignore", "">>}
    IN  IsTagsMatch(q, m) =>
          /\ \A i, j \in DOMAIN m.captures : Named(m.captures[i]) /\ Named(m.captures[j]) => i = j
          /\ \A a, b \in Roles(q, m) : a = b
          /\ NodesOf(q, m, <<"ignore", "">>) # {} => Roles(q, m) = {}

\* A match of the locals query has one capture, in the text, and of two scopes around a
\* name or a definition the later one is the narrower.
ScopesNest ==
  \A q \in Queries : \A d \in Inputs(q) : \A k \in 1..Len(d.matches) :
    /\ ~IsTagsMatch(q, d.matches[k]) =>
         LET c == d.matches[k].captures[1]
         IN  /\ Len(d.matches[k].captures) = 1
             /\ c.node.start \in Nat /\ c.node.end \in Nat /\ c.node.end <= Len(d.text)
             /\ \A j \in Before(q, d, k), i \in 1..Len(d.matches) :
                  \A s \in ScopesOf(q, d.matches[j]), t \in ScopesOf(q, d.matches[k]) :
                    \A n \in NamesOf(q, d.matches[i]) \cup DefsOf(q, d.matches[i]) :
                      Around(s, n) /\ Around(t, n) => Width(t) < Width(s)

-----------------------------------------------------------------------------
Returned == {i \in DOMAIN buffer : ~buffer[i].ignored}

\* "Only create one tag per node": the tags that were returned so far follow one another
\* in the order of the document, no two of the same node, although they leave the queue
\* before all matches are known.  In the end there is a tag for each node that has one,
\* of the first pattern that matches it; an ignored node has none (the placeholders of
\* ignored nodes that Drain returns are not counted as tags).
TagsInOrder ==
  \A i, j \in DOMAIN buffer : i < j => KeyLess(buffer[i].name, buffer[j].name)
OneTagPerNode ==
  /\ TagsInOrder
  /\ status = "finished" =>
       {[name |-> buffer[i].name, kind |-> buffer[i].kind] : i \in Returned}
       = {[name |-> TagName(query, input.matches[k]), kind |-> TagKind(query, input.matches[k])] :
            k \in {j \in Winners(query, input, Len(input.matches)) : Wanted(query, input, j)}}

\* The line and the columns of a tag, which are taken over from the tag before it, are
\* those of its own name.
LineTrue(t) ==
  LET line_start == LineStart(t.name.start)
  IN  /\ t.columns = [start |-> utf16_len(line_start, t.name.start), end |-> utf16_len(line_start, t.name.end)]
      /\ t.line = line_range(text, t.name.start, Column(t.name.start), MaxLineLen)
LinesTrue == \A i \in Returned : LineTrue(buffer[i])
=============================================================================
