----------------------------- MODULE Highlight ------------------------------
(***************************************************************************)
(* crates/highlight/src/highlight.rs, HighlightIter: the captures of a     *)
(* document's language and of the languages injected into it are merged    *)
(* into one stream of events, which the HTML renderer draws from.          *)
(*                                                                         *)
(* Parsing and querying are not modelled: a tree has the captures of       *)
(* its query's matches, in the order the query cursor guarantees (by       *)
(* start, the longer node first, then by pattern), and the matches of      *)
(* the query for combined injections.  Two captures are of the same node   *)
(* when their ranges are equal.                                            *)
(***************************************************************************)
EXTENDS Integers, Sequences, SequencesExt, FiniteSets, HighlightQuery

CONSTANTS
  Documents,  \* [text, language, trees, captures, injections, valid]: trees maps a language
              \* and a depth to [queries, stream, combined]; the others are what is meant: the
              \* captures of the document's language, the injections of any, and whether the
              \* queries are valid
  Configurations, \* a HighlightConfiguration for each of the trees' queries
  MaxByte,    \* stands for usize::MAX
  MaxLayers   \* bounds the rounds of a loop: more than a language's combined injections give

VARIABLES
  doc, layers, byte_offset, next_event, last_highlight_range,
  status,    \* "running", "finished", "cancelled", or "refused" with an invalid query
  events,    \* those that next has returned
  spans,     \* the ranges that were highlighted
  renderer

hlVars == <<doc, layers, byte_offset, next_event, last_highlight_range, status, events, spans, renderer>>

SourceLen == Len(doc.text)
Text(start, end) == SubSeq(doc.text, start + 1, end)

Start(h) == [type |-> "start", h |-> h, from |-> 0, to |-> 0]
End == [type |-> "end", h |-> 0, from |-> 0, to |-> 0]
Source(from, to) == [type |-> "source", h |-> 0, from |-> from, to |-> to]
NoEvent == [type |-> "none", h |-> 0, from |-> 0, to |-> 0]

-----------------------------------------------------------------------------
(* HtmlRenderer: the events become lines of HTML in which every tag that is  *)
(* open at the end of a line is closed and opened again on the next.  The    *)
(* html is a sequence of items: an opening tag, a closing tag, the mark of a *)
(* lone carriage return, or a character; an escaped character is one item.   *)

Open(h) == [tag |-> "open", of |-> h]
Close == [tag |-> "close", of |-> 0]
Mark == [tag |-> "mark", of |-> 0]
Char(c) == [tag |-> "char", of |-> c]
Newline == "nl"
Return == "cr"

\* HtmlRenderer::new; last_carriage_return is 0 for none, else 1 more than the offset.
NewRenderer ==
  [html |-> <<>>, line_offsets |-> <<0>>, last_carriage_return |-> 0, highlights |-> <<>>]

Put(r, items) == [r EXCEPT !.html = @ \o items]

start_highlight(r, h) == Put([r EXCEPT !.highlights = Append(@, h)], <<Open(h)>>)

end_highlight(r) ==
  Put([r EXCEPT !.highlights = IF @ = <<>> THEN @ ELSE Front(@)], <<Close>>)

\* The mark goes where the carriage return was, before tags that followed it.
add_carriage_return(r) ==
  LET at == r.last_carriage_return - 1
  IN  IF r.last_carriage_return = 0 THEN r
      ELSE [r EXCEPT !.html = SubSeq(@, 1, at) \o <<Mark>> \o SubSeq(@, at + 1, Len(@)),
                     !.last_carriage_return = 0]

\* Mutant: tags that are open at the end of a line stay open.
AddNewline_Open(r) ==
  LET html == r.html \o <<Char(Newline)>>
  IN  [r EXCEPT !.html = html, !.line_offsets = Append(@, Len(html))]

AddNewline(r) ==
  LET html == r.html \o [i \in DOMAIN r.highlights |-> Close] \o <<Char(Newline)>>
  IN  [r EXCEPT !.html = html \o [i \in DOMAIN r.highlights |-> Open(r.highlights[i])],
                !.line_offsets = Append(@, Len(html))]

AddChar(r, c) ==
  IF c = Return THEN [r EXCEPT !.last_carriage_return = Len(r.html) + 1]
  ELSE IF c = Newline THEN AddNewline([r EXCEPT !.last_carriage_return = 0])
  ELSE Put(add_carriage_return(r), <<Char(c)>>)

add_text(r, text) == FoldLeft(AddChar, r, text)

\* The end of render: the last line is ended, and an offset past it dropped.
FinishRender(r) ==
  LET marked == add_carriage_return(r)
      html == IF marked.html # <<>> /\ Last(marked.html) = Char(Newline) THEN marked.html
              ELSE Append(marked.html, Char(Newline))
  IN  [marked EXCEPT !.html = html,
                     !.line_offsets = IF Last(@) = Len(html) THEN Front(@) ELSE @]

\* lines
Line(r, i) ==
  SubSeq(r.html, r.line_offsets[i] + 1,
         IF i = Len(r.line_offsets) THEN Len(r.html) ELSE r.line_offsets[i + 1])

CountTags(items, tag) == Len(Kept(items, LAMBDA x : x.tag = tag))

\* No closing tag before its opening one, and none left open.
Balanced(items) ==
  /\ CountTags(items, "open") = CountTags(items, "close")
  /\ \A n \in 0..Len(items) :
       CountTags(SubSeq(items, 1, n), "close") <= CountTags(SubSeq(items, 1, n), "open")

-----------------------------------------------------------------------------
(* Layers                                                                    *)

Span(start, end) == [start |-> start, end |-> end]

\* Mutant: the part after a child begins where the child does.
Gaps_Last(node, includes_children) ==
  LET cuts == <<Span(0, node.start)>> \o (IF includes_children THEN <<>> ELSE node.children)
              \o <<Span(node.end, MaxByte)>>
  IN  [i \in 1..(Len(cuts) - 1) |-> Span(IF i = 1 THEN node.start ELSE cuts[i].start, cuts[i + 1].start)]

\* intersect_ranges: the parts of the nodes, without their children unless those are
\* included, that lie in the ranges of the layer.
Gaps(node, includes_children) ==
  LET cuts == <<Span(0, node.start)>> \o (IF includes_children THEN <<>> ELSE node.children)
              \o <<Span(node.end, MaxByte)>>
  IN  [i \in 1..(Len(cuts) - 1) |-> Span(cuts[i].end, cuts[i + 1].start)]

\* One part against the ranges: a round of the loop looks at one of them.  The state is
\* what was pushed, the range that is looked at, whether there are no more, what is left
\* of the part, and whether that is done.
ClipStep(st, parents) ==
  LET parent == parents[st.at]
      start == IF st.from < parent.start THEN parent.start ELSE st.from
      Next(result, from) ==
        IF st.at < Len(parents) THEN [st EXCEPT !.result = result, !.at = @ + 1, !.from = from]
        ELSE [st EXCEPT !.result = result, !.over = TRUE]
  IN  IF st.over \/ st.done \/ parent.start > st.to THEN st
      ELSE IF parent.end <= st.from THEN Next(st.result, st.from)
      ELSE IF parent.end < st.to
      THEN Next(IF start < parent.end THEN Append(st.result, Span(start, parent.end))
                ELSE st.result, parent.end)
      ELSE [st EXCEPT !.result = IF start < st.to THEN Append(@, Span(start, st.to)) ELSE @,
                      !.done = TRUE]

Clip(st, parents, part) ==
  FoldLeft(LAMBDA at, range : ClipStep(at, parents),
           [st EXCEPT !.from = part.start, !.to = part.end, !.done = FALSE], parents)

intersect_ranges(parents, nodes, includes_children) ==
  LET parts == FoldLeft(LAMBDA a, n : a \o Gaps(n, includes_children), <<>>, nodes)
  IN  FoldLeft(LAMBDA st, part : Clip(st, parents, part),
               [result |-> <<>>, at |-> 1, over |-> FALSE, from |-> 0, to |-> 0, done |-> FALSE],
               parts).result

RootScope == [inherits |-> FALSE, end |-> MaxByte, defs |-> <<>>]

\* sort_key: the next boundary; at one place ends come before starts, and deeper
\* layers first.
HasKey(l) == l.captures # <<>> \/ l.ends # <<>>
sort_key(l) ==
  LET start == IF l.captures = <<>> THEN MaxByte ELSE Head(l.captures).start
      end == IF l.ends = <<>> THEN MaxByte ELSE Last(l.ends)
  IN  IF start < end THEN <<start, 1, MaxByte - l.depth>> ELSE <<end, 0, MaxByte - l.depth>>

Less(a, b) ==
  \/ a[1] < b[1]
  \/ a[1] = b[1] /\ a[2] < b[2]
  \/ a[1] = b[1] /\ a[2] = b[2] /\ a[3] < b[3]

\* sort_layers: the layers in front that have nothing left are dropped, then the
\* first is moved behind those that come before it.
sort_layers(ls) ==
  LET first == SelectInSeq(ls, HasKey)
      live == IF first = 0 THEN <<>> ELSE SubSeq(ls, first, Len(ls))
      Before(i) == HasKey(live[i]) /\ Less(sort_key(live[i]), sort_key(live[1]))
      behind == {i \in 2..Len(live) : \A j \in 2..i : Before(j)}
      n == Cardinality(behind)
  IN  IF live = <<>> \/ n = 0 THEN live
      ELSE SubSeq(live, 2, n + 1) \o <<live[1]>> \o SubSeq(live, n + 2, Len(live))

\* insert_layer: never in front; the layers that are passed over and have nothing
\* left are dropped.
insert_layer(ls, l) ==
  LET after == {i \in 2..Len(ls) : HasKey(ls[i]) /\ Less(sort_key(l), sort_key(ls[i]))}
      at == IF after = {} THEN Len(ls) + 1 ELSE CHOOSE i \in after : \A j \in after : i <= j
      passed == Kept(SubSeq(ls, 2, at - 1), HasKey)
  IN  IF ~HasKey(l) THEN ls
      ELSE <<ls[1]>> \o passed \o <<l>> \o SubSeq(ls, at, Len(ls))

Tree(language, depth) == doc.trees[<<language, depth>>]
Config(language, depth) == Configurations[Tree(language, depth).queries]

\* The callback finds no configuration for a language that is not known, or that has
\* an invalid query.
injection_callback(language, depth) ==
  <<language, depth>> \in DOMAIN doc.trees /\ Config(language, depth) # InvalidQuery

\* Parser::set_included_ranges fails unless the ranges are in order.
set_included_ranges(ranges) ==
  \A i \in DOMAIN ranges :
    /\ ranges[i].start <= ranges[i].end
    /\ i > 1 => ranges[i - 1].end <= ranges[i].start

NewLayer(e) ==
  [captures |-> QueryCaptures(Config(e.language, e.depth), doc.text, Tree(e.language, e.depth).stream),
   language |-> e.language, depth |-> e.depth, ranges |-> e.ranges, ends |-> <<>>,
   scopes |-> <<RootScope>>]

\* The combined injections found in a layer that have a configuration and some ranges.
Queued(e, found) ==
  Kept([i \in DOMAIN found |->
          [language |-> found[i].language, depth |-> e.depth + 1,
           ranges |-> intersect_ranges(e.ranges, found[i].nodes, found[i].includes_children)]],
       LAMBDA n : injection_callback(n.language, n.depth) /\ n.ranges # <<>>)

\* A round of the loop of HighlightIterLayer::new: the layer of a language in some
\* ranges; the combined injections found in it wait for their rounds.
NextLayer(st, parent) ==
  LET e == Head(st.queue)
      found == CombinedInjections(Config(e.language, e.depth), e.language, parent, doc.text,
                                  Tree(e.language, e.depth).combined)
  IN  IF st.queue = <<>> THEN st
      ELSE IF set_included_ranges(e.ranges)
      THEN [queue |-> Tail(st.queue) \o Queued(e, found), result |-> Append(st.result, NewLayer(e))]
      ELSE [st EXCEPT !.queue = Tail(@)]

NewLayers(e, parent) ==
  FoldLeft(LAMBDA st, n : NextLayer(st, parent), [queue |-> <<e>>, result |-> <<>>],
           [n \in 1..MaxLayers |-> n]).result

\* The layers of an injection.  The name that is given for the parent's language is
\* that of the document, at any depth.
Injected(capture, layer) ==
  LET InRanges(language, ranges) ==
        IF ranges = <<>> THEN <<>>
        ELSE NewLayers([language |-> language, depth |-> layer.depth + 1, ranges |-> ranges],
                       doc.language)
      Found(inj) ==
        IF /\ inj.language # NoLanguage /\ inj.content # NoNode
           /\ injection_callback(inj.language, layer.depth + 1)
        THEN InRanges(inj.language, intersect_ranges(layer.ranges, <<inj.content>>, inj.includes_children))
        ELSE <<>>
  IN  Found(injection_for_match(Config(layer.language, layer.depth), layer.language, doc.language,
                                doc.text, capture.match))

-----------------------------------------------------------------------------
HlInit ==
  /\ doc \in Documents
  /\ status = IF injection_callback(doc.language, 0) THEN "running" ELSE "refused"
  /\ layers = IF status = "refused" THEN <<>>
              ELSE LET all == [language |-> doc.language, depth |-> 0, ranges |-> <<Span(0, MaxByte)>>]
                   IN  sort_layers(NewLayers(all, NoLanguage))
  /\ byte_offset = 0
  /\ next_event = NoEvent
  /\ last_highlight_range = <<>>
  /\ events = <<>> /\ spans = <<>>
  /\ renderer = NewRenderer

\* render: the events in turn.
Render(e) ==
  renderer' = CASE e.type = "start" -> start_highlight(renderer, e.h)
                [] e.type = "end" -> end_highlight(renderer)
                [] e.type = "source" -> add_text(renderer, Text(e.from, e.to))

Return1(e) ==
  /\ events' = Append(events, e)
  /\ Render(e)

\* Mutant: an event that has to wait for the source before it is lost.
emit_event_Lost(ls, offset, e) ==
  /\ IF byte_offset < offset
     THEN /\ Return1(Source(byte_offset, offset))
          /\ byte_offset' = offset /\ UNCHANGED next_event
     ELSE Return1(e) /\ UNCHANGED <<byte_offset, next_event>>
  /\ layers' = sort_layers(ls)

\* emit_event: the source up to the offset comes first.
emit_event(ls, offset, e) ==
  /\ IF byte_offset < offset
     THEN /\ Return1(Source(byte_offset, offset))
          /\ byte_offset' = offset /\ next_event' = e
     ELSE Return1(e) /\ UNCHANGED <<byte_offset, next_event>>
  /\ layers' = sort_layers(ls)

Running == status = "running" /\ next_event = NoEvent
Top == layers[1]
TopIs(l) == [layers EXCEPT ![1] = l]

\* The next event was determined before.
TakeEvent ==
  /\ status = "running" /\ next_event # NoEvent
  /\ Return1(next_event)
  /\ next_event' = NoEvent
  /\ UNCHANGED <<doc, layers, byte_offset, last_highlight_range, status, spans>>

\* No layer has a boundary left: the rest of the source, then the end.
Finish ==
  /\ Running /\ layers = <<>>
  /\ IF byte_offset < SourceLen
     THEN /\ Return1(Source(byte_offset, SourceLen))
          /\ byte_offset' = SourceLen /\ UNCHANGED status
     ELSE /\ status' = "finished"
          /\ renderer' = FinishRender(renderer)
          /\ UNCHANGED <<events, byte_offset>>
  /\ UNCHANGED <<doc, layers, next_event, last_highlight_range, spans>>

\* Periodically, the flag is looked at.
Cancel ==
  /\ Running
  /\ status' = "cancelled"
  /\ UNCHANGED <<doc, layers, byte_offset, next_event, last_highlight_range, events, spans, renderer>>

\* Mutant: a highlight that ends where a node starts is ended after it.
EndsBefore_Strict(end, start) == end < start

EndsBefore(end, start) == end <= start

EndDue ==
  /\ Running /\ layers # <<>> /\ Top.ends # <<>>
  /\ Top.captures # <<>> => EndsBefore(Last(Top.ends), Head(Top.captures).start)

EndHighlight ==
  /\ EndDue
  /\ emit_event(TopIs([Top EXCEPT !.ends = Front(@)]), Last(Top.ends), End)
  /\ UNCHANGED <<doc, last_highlight_range, status, spans>>

CaptureDue == Running /\ layers # <<>> /\ Top.captures # <<>> /\ ~EndDue
Capture == Head(Top.captures)

\* remove: the other captures of matches.
Without(captures, ids) == Kept(captures, LAMBDA c : c.id \notin ids)

\* A capture of an injection: its layers are added, when there is such a language.
Inject ==
  /\ CaptureDue /\ Capture.kind = "injection"
  /\ layers' = sort_layers(FoldLeft(insert_layer, TopIs([Top EXCEPT !.captures = Without(@, {Capture.id})]),
                                    Injected(Capture, Top)))
  /\ UNCHANGED <<doc, byte_offset, next_event, last_highlight_range, status, events, spans, renderer>>

-----------------------------------------------------------------------------
(* Local variables                                                           *)

\* A scope that ends where the node starts stays.
PopScopes(scopes, start) ==
  LET kept == SelectLastInSeq(scopes, LAMBDA s : start <= s.end)
  IN  SubSeq(scopes, 1, kept)

SameNode(a, b) == a.start = b.start /\ a.end = b.end

Name(c) == Text(c.start, c.end)

\* The last definition of a scope that is complete, 0 for none.
FindDef(defs, c) ==
  SelectLastInSeq(defs, LAMBDA d : d.name = Name(c) /\ d.value_end <= c.start)

\* The scopes that are looked through, from the innermost: up to one that does not
\* inherit, or has a definition.
Lookup(scopes, c) ==
  LET Stops(i) == FindDef(scopes[i].defs, c) # 0 \/ ~scopes[i].inherits
      at == SelectLastInSeq([i \in DOMAIN scopes |-> i], Stops)
      def == IF at = 0 THEN 0 ELSE FindDef(scopes[at].defs, c)
  IN  IF def = 0 THEN 0 ELSE scopes[at].defs[def].highlight

\* The scope stack, the highlight of a reference, and whether the node is a
\* definition, the last of its scope, after one local capture of a node.
Local(st, c) ==
  CASE c.kind = "scope" ->
         [st EXCEPT !.isdef = FALSE,
                    !.scopes = Append(@, [inherits |-> c.inherits, end |-> c.end, defs |-> <<>>])]
    [] c.kind = "def" ->
         [st EXCEPT !.isdef = TRUE, !.ref = 0,
                    !.scopes[Len(st.scopes)].defs =
                       Append(@, [name |-> Name(c), value_end |-> c.value_end, highlight |-> 0])]
    [] c.kind = "ref" /\ ~st.isdef -> [st EXCEPT !.ref = Lookup(st.scopes, c)]
    [] OTHER -> st

\* The captures of the first one's node.
AtNode(captures) ==
  LET n == SelectInSeq(captures, LAMBDA c : ~SameNode(c, captures[1]))
  IN  IF n = 0 THEN captures ELSE SubSeq(captures, 1, n - 1)

\* Of the highlights of a node the last counts; one that is disabled for local
\* variables is passed over, unless it is the first.
Tried(highlights, local) ==
  SelectSeq(<<1>> \o [k \in 1..(Len(highlights) - 1) |-> k + 1],
            LAMBDA k : k = 1 \/ ~(local /\ highlights[k].nonlocal))

IsLocal(c) == c.kind \in {"scope", "def", "ref", "local"}

\* A node with local captures and perhaps highlights, or with highlights only.
Node ==
  /\ CaptureDue /\ Capture.kind # "injection"
  /\ LET node == AtNode(Top.captures)
         locals == Kept(node, IsLocal)
         highlights == Kept(node, LAMBDA c : c.kind = "highlight")
         later == SubSeq(Top.captures, Len(node) + 1, Len(Top.captures))
         st == FoldLeft(Local, [scopes |-> PopScopes(Top.scopes, Capture.start), ref |-> 0,
                                isdef |-> FALSE], locals)
         duplicate == /\ last_highlight_range # <<>>
                      /\ <<Capture.start, Capture.end>> = SubSeq(last_highlight_range, 1, 2)
                      /\ Top.depth < last_highlight_range[3]
         tried == Tried(highlights, st.isdef \/ st.ref # 0)
         current == highlights[Last(tried)].h
         rest == Without(later, {highlights[k].id : k \in ToSet(Front(tried))})
         n == Len(st.scopes)
         stored == IF ~st.isdef THEN st.scopes
                   ELSE [st.scopes EXCEPT ![n].defs[Len(st.scopes[n].defs)].highlight = current]
         h == IF st.ref # 0 THEN st.ref ELSE current
         Now(scopes, captures) == [Top EXCEPT !.scopes = scopes, !.captures = captures]
     IN  IF highlights = <<>>
         THEN /\ layers' = sort_layers(TopIs(Now(st.scopes, later)))
              /\ UNCHANGED <<byte_offset, next_event, last_highlight_range, events, spans, renderer>>
         ELSE IF duplicate
         THEN /\ layers' = sort_layers(TopIs(Now(st.scopes,
                              SubSeq(Top.captures, Len(locals) + 2, Len(Top.captures)))))
              /\ UNCHANGED <<byte_offset, next_event, last_highlight_range, events, spans, renderer>>
         ELSE IF h = 0
         THEN /\ layers' = sort_layers(TopIs(Now(stored, rest)))
              /\ UNCHANGED <<byte_offset, next_event, last_highlight_range, events, spans, renderer>>
         ELSE /\ spans' = Append(spans, Span(Capture.start, Capture.end))
              /\ last_highlight_range' = <<Capture.start, Capture.end, Top.depth>>
              /\ emit_event(TopIs([Now(stored, rest) EXCEPT !.ends = Append(@, Capture.end)]),
                            Capture.start, Start(h))
  /\ UNCHANGED <<doc, status>>

HlNext == TakeEvent \/ Finish \/ Cancel \/ EndHighlight \/ Inject \/ Node

HlSpec == HlInit /\ [][HlNext]_hlVars

\* What is said of the documents: the captures of a tree lie in the text.
CaptureIn(c, text) == c.start \in 0..Len(text) /\ c.end \in 0..Len(text)
DocumentsGiven ==
  /\ MaxLayers \in Nat
  /\ \A d \in Documents :
       /\ d.text \in Seq(ToSet(d.text))
       /\ \A k \in DOMAIN d.trees :
            /\ Configurations[d.trees[k].queries] # InvalidQuery =>
                 Configurations[d.trees[k].queries].locals_pattern_index \in Nat
            /\ d.trees[k].stream \in Seq(ToSet(d.trees[k].stream))
            /\ \A s \in ToSet(d.trees[k].stream) : CaptureIn(s[1].captures[s[2]], d.text)

-----------------------------------------------------------------------------
Count(type, n) == Cardinality({i \in 1..n : events[i].type = type})
Sources == {i \in DOMAIN events : events[i].type = "source"}
SourcesBefore(i) == {j \in Sources : j < i}

\* The pieces of source in the stream follow one another without gap or overlap, up
\* to the end of the document, whatever the layers; and no highlight is ended that
\* was not started, nor left open.
EventsWellFormed ==
  /\ \A i \in Sources :
       /\ events[i].from < events[i].to
       /\ events[i].from = IF SourcesBefore(i) = {} THEN 0 ELSE events[Max(SourcesBefore(i))].to
  /\ \A n \in DOMAIN events : Count("end", n) <= Count("start", n)
  /\ status = "finished" =>
       /\ SourceLen = IF Sources = {} THEN 0 ELSE events[Max(Sources)].to
       /\ Count("start", Len(events)) = Count("end", Len(events))

\* Each highlight is open over exactly the source of its node, also when layers were
\* added while others were open: over a piece of source as many highlights are open as
\* there are highlighted nodes around it.
ExtentsExact ==
  status = "finished" =>
    \A i \in DOMAIN events : events[i].type = "source" =>
      \A b \in events[i].from .. (events[i].to - 1) :
        Count("start", i) - Count("end", i) = Len(SelectSeq(spans, LAMBDA r : r.start <= b /\ b < r.end))

\* Parsing an injection is confined to the content's own bytes within the parent's,
\* and is in the language that the document's queries say.
Bytes(ranges) == UNION {r.start .. (r.end - 1) : r \in ToSet(ranges)}
OwnBytes(c) == Bytes(<<c.content>>) \ (IF c.includes_children THEN {} ELSE Bytes(c.content.children))
Confined(new, meant, bytes) ==
  /\ new = <<>> <=> bytes = {} \/ meant.language = NoLanguage
  /\ new # <<>> => Bytes(new[1].ranges) = bytes /\ new[1].language = meant.language
  /\ \A i \in DOMAIN new : set_included_ranges(new[i].ranges)
  /\ \A i \in 2..Len(new) : Bytes(new[i].ranges) \subseteq bytes
InjectionsConfined ==
  CaptureDue /\ Capture.kind = "injection" =>
    \A meant \in {c \in doc.injections : c.id = Capture.id} :
      Confined(Injected(Capture, Top), meant, OwnBytes(meant) \cap Bytes(Top.ranges))

\* The nodes that are colored are those of the highlights whose match satisfies its
\* predicates, and no document is refused for a query that is valid.  Of variables,
\* docs/src/3-syntax-highlighting.md says: "Tree-sitter will ensure that the reference,
\* and the definition are colored the same", where the definition is the last one of
\* the innermost scope around the reference that has one before it, and the search
\* ends at a scope that does not inherit.
\*
\* Of the highlights of a node the last one counts.  The same document lets a pattern
\* be disabled "for nodes, which have been identified as local variables" by
\* (#is-not? local), and a comment of the loop says that such a match is ignored; but the
\* loop looks at the following matches only, so a variable whose first highlight is
\* disabled has it all the same.  This property is of what the loop does: the first
\* highlight always counts (FirstOrEnabled), and the disabled ones after it do not.
\* A match that gives way to another at a node is removed, and highlights none of its
\* later nodes: doc.captures has no such captures.
Nodes == {Span(c.start, c.end) : c \in ToSet(doc.captures)}
At(n) == SelectSeq(doc.captures, LAMBDA c : Span(c.start, c.end) = n)
Has(n, kind) == \E c \in ToSet(At(n)) : c.kind = kind
ScopesAround(n) == {s \in Nodes : Has(s, "scope") /\ s.start <= n.start /\ n.end <= s.end}
               \cup {Span(0, MaxByte)}
Innermost(n) == CHOOSE s \in ScopesAround(n) : \A t \in ScopesAround(n) : s.end - s.start <= t.end - t.start
Inherits(s) == s.end # MaxByte /\ \E c \in ToSet(At(s)) : c.kind = "scope" /\ c.inherits
Searched(n) ==
  {s \in ScopesAround(n) : \A t \in ScopesAround(n) :
     t.end - t.start < s.end - s.start => Inherits(t)}
DefsFor(n, s) ==
  {d \in Nodes : /\ Has(d, "def") /\ Innermost(d) = s /\ d.start < n.start /\ Name(d) = Name(n)
                 /\ \E c \in ToSet(At(d)) : c.kind = "def" /\ c.value_end <= n.start}
Definition(n) ==
  LET found == {s \in Searched(n) : DefsFor(n, s) # {}}
      scope == CHOOSE s \in found : \A t \in found : s.end - s.start <= t.end - t.start
  IN  IF found = {} THEN {} ELSE {d \in DefsFor(n, scope) : \A e \in DefsFor(n, scope) : e.start <= d.start}
IsVariable(n) == Has(n, "def") \/ (Has(n, "ref") /\ Definition(n) # {})
HighlightsAt(n) == SelectSeq(At(n), LAMBDA c : c.kind = "highlight")
FirstOrEnabled(n) ==
  SelectSeq(HighlightsAt(n), LAMBDA c : c = Head(HighlightsAt(n)) \/ ~(IsVariable(n) /\ c.nonlocal))
OwnColor(n) == IF HighlightsAt(n) = <<>> THEN 0 ELSE Last(FirstOrEnabled(n)).h
Color(n) ==
  IF Has(n, "ref") /\ ~Has(n, "def") /\ Definition(n) # {}
  THEN OwnColor(CHOOSE d \in Definition(n) : TRUE) ELSE OwnColor(n)

Colored == {n \in Nodes : Color(n) # 0}
NodesBefore(n) == {m \in Colored : m.start < n.start \/ (m.start = n.start /\ m.end > n.end)}
Injects == \E c \in ToSet(doc.captures) : c.kind = "injection"

NodesColored ==
  /\ status = "refused" <=> ~doc.valid
  /\ status = "finished" /\ ~Injects =>
    LET starts == SelectSeq(events, LAMBDA e : e.type = "start")
    IN  /\ Len(starts) = Cardinality(Colored)
        /\ \A n \in Colored : starts[Cardinality(NodesBefore(n)) + 1].h = Color(n)

\* The lines of HTML stand by themselves, and between the tags is the source without
\* its carriage returns, with one newline more when a tag is open over the last one or
\* there is none; and there is one mark for each run of carriage returns that does not
\* end a line.  (add_text's comment says of each: "allow lone carriage returns (not
\* followed by line feeds) to be styled"; but it remembers one place only, so of several
\* that follow one another the last has the mark and the others leave no trace.)
LoneReturns == {i \in 1..SourceLen : doc.text[i] = "cr" /\ (i = SourceLen \/ doc.text[i + 1] \notin {"cr", "nl"})}
Plain == Kept(doc.text, LAMBDA c : c # "cr")
LinesBalanced ==
  status = "finished" =>
    LET chars == Kept(renderer.html, LAMBDA x : x.tag = "char")
    IN  /\ \A i \in DOMAIN renderer.line_offsets : Balanced(Line(renderer, i))
        /\ \A i \in DOMAIN renderer.line_offsets :
             Line(renderer, i) # <<>> /\ "nl" \in {Line(renderer, i)[k].of : k \in {Len(Line(renderer, i))}}
        /\ [i \in DOMAIN chars |-> chars[i].of] \in {Plain, Append(Plain, "nl")}
        /\ CountTags(renderer.html, "mark") = Cardinality(LoneReturns)
=============================================================================
