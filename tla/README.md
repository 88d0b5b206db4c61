# A TLA+ model of tree-sitter

tree-sitter is a parser generator and an incremental parsing library. The
generator (`crates/generate`, Rust) turns a grammar into a parse table and a lex
function; the runtime (`lib/src`, C) parses documents with them, along several
stack versions at a time where the grammar is ambiguous or the document has
errors; the loader compiles and caches generated parsers; highlighting and
tagging walk the matches of queries over trees. This directory holds TLA+
modules that model these parts, TLC configurations that check them on small
instances, and TLAPS proofs of the lexer, of the loader's cache and of the
generator's token sets.

## The system and its parts

| Part | State | Operations | What makes it correct |
| --- | --- | --- | --- |
| Lexer (`lib/src/lexer.c`) | cursor, included range index, chunk of the text, lookahead, cached column, token bounds | goto, advance (fast and slow), mark_end, get_column, start, finish, set_input, set_included_ranges | the cursor stays in its range and chunk; lookahead, points and columns are those of the document; a token records how far it looked |
| Lexing a token (`ts_parser__lex`) | attempt, error span, lookahead end | external scanner, lex function, error mode, skipping, keyword pass | returns; covers what every attempt examined |
| Parse stack (`stack.c`) | graph of nodes with links and reference counts, versions with a status | push, pop along all paths, merge, copy, renumber, pause, halt, summary | counts exact; all paths below a node agree; limits kept |
| Parser (`parser.c`) | stack, finished tree, accept count, progress of a parse | shift, reduce, accept, handle_error, recover, condense, parse, cancel, resume, reset | accepts the sentences of the grammar; keeps the best derivation; every document gets a tree that covers it; every parse returns; nothing survives a reset |
| Generator: preparation (`prepare_grammar/`) | the grammar as each pass leaves it | parse, intern, extract tokens, expand repeats, flatten, default aliases, inlines | sentences and trees of the grammar stay those of its rules |
| Generator: parse tables (`build_tables/`, `render.rs`) | item sets, parse states, conflicts, tables | add states one by one, resolve conflicts, merge, remove, sort, render | the table builds the trees of the grammar, as precedences say; smaller and rendered tables do the same |
| Generator: lexers (`nfa.rs`, `expand_tokens.rs`, `build_lex_table.rs`, ...) | automaton, token conflicts, lex states | expand, compare tokens, choose keywords, share, minimize, render | each state lexes the longest match of the tokens it expects |
| Generator: token sets (`bitvec.rs`, `rules.rs`) | an arena of words with free lists, bit vectors | alloc, free, resize, insert_all, clone, drop, compare | no block is shared; vectors are sets |
| Generator: node types (`node_types.rs`) | quantities and types of children by variable | iterate, summarize | every tree conforms |
| Loader: cache (`loader.rs`) | files, lock files, the wasm tools | check times, lock, compile, rename, load, wait | one compiler; whole libraries; calls return |
| Loader: configurations (`loader.rs`) | registry of languages, maps from file types and first lines, highlight names | find, select, configure queries | maps agree; the right language; errors located |
| Highlight (`highlight.rs`, predicates in `binding_rust/lib.rs`) | layers of captures, scopes, open highlights, html | events, injections, local variables, render | a well nested stream that covers the source; right colors |
| Tags (`tags.rs`) | scopes, queue of tags, line information | match, replace, return, drain | one tag per node, in order, with its line |
| Subtrees' edits, node reuse, trees, cursors, queries (`lib/src`) | trees shared by threads; cursor stacks; query states | edit, reuse, walk, match | not modelled, see the end |
| Bindings, command line | handles of C objects | wrappers, I/O | not modelled |

The parser calls the lexer through function pointers that it hands to the
generated lex function and to the grammar's external scanner; both call back
into the lexer in an order that only they decide. The application gives a read
callback, included ranges and a progress callback, which may stop a parse at
any check; the next call then resumes it. The generator is a pipeline of total
functions, each of which relies on what the one before guarantees. Only the
loader is concurrent: threads of one process and of others meet in the file
system. Highlight and tags consume streams of matches and keep just enough state
to decide before the stream has ended.

So three things are hard here: **sequence** (one lexer that jumps between
versions with stale chunks, graph nodes that versions share and merge, limits
that drop alternatives, a parse that is stopped anywhere); **meaning kept through
rewriting** (a grammar that passes through some twenty transformations, a bug
in any of which shows only in the trees of a few sentences); and
**interleaving with failure** (compilers that fail, processes that are killed
between two system calls). `PROJECT.json` lists the hazards at their lines.

## Modules

| Module | Models | Proofs |
| --- | --- | --- |
| `Lexer` | `lexer.c`, `length.h`, `point.h`: each function an operator on a Lexer record | |
| `Lex` | `ts_parser__lex`, the calls of scanners, missing tokens, begin/resume/end of a parse | `LexProofs`, `CursorProofs` |
| `Subtree`, `Stack` | the part of `subtree.c` that the parser decides by; `stack.c`, each function an operator on a stack record | |
| `Parser` | the parse loop, actions, error recovery, condensing, cancellation; composes `Stack` and `Subtree` | |
| `Rules` | `rules.rs` | |
| `PrepareGrammar`, `FlattenGrammar` | `parse_grammar.rs`, the checks of `prepare_grammar.rs` and the passes of `prepare_grammar/` | |
| `ItemSets`, `ParseTable` | `item.rs`, `item_set_builder.rs`; `build_parse_table.rs` | |
| `MinimizeParseTable`, `RenderTables` | `minimize_parse_table.rs`; the tables of `render.rs` and how `language.h` reads them | |
| `NodeTypes` | `node_types.rs` | |
| `Derivations` | the reference: sentences and trees of rules, and of productions | |
| `LrMachine` | what `parser.c` does with a table on correct text, with all versions at once | |
| `GenerateParser` | the pipeline from `grammar.json` to `parser.c` and the node types: one action per pass, one per parse state | |
| `Nfa`, `ExpandTokens` | `nfa.rs` with its character sets, `expand_tokens.rs` | |
| `Dedup`, `LexTables` | `dedup.rs`; `token_conflicts.rs`, `build_lex_table.rs`, keywords, error state, generated conditions | |
| `GenerateLexer` | the lexical pipeline of `build_tables.rs` | |
| `BitVec`, `TokenSets` | `bitvec.rs` and `TokenSet`; implements `AbstractTokenSets` | `TokenSetsProofs` |
| `LibraryCache` | `load_language_at_path_with_name`, the compilers, the download of wasm tools; implements `SharedLibrary` | `LibraryCacheProofs` |
| `Configurations` | the registry, `select_language`, query files, highlight names | `ConfigurationsProofs`, with `FoldInduction` |
| `HighlightQuery`, `Highlight` | predicates of the Rust `Query`, `HighlightConfiguration`, `HighlightIter`, the renderer | `HighlightProofs`, with `FoldInduction` |
| `Tags` | `TagsConfiguration`, `TagsIter`, the buffer of `c_lib.rs` | `TagsProofs` |
| `MC*` | instances | |

### Lexer and Lex

`lexer` is the `Lexer` struct. A document is a sequence of byte kinds: a plain
ASCII byte, a newline, the lead byte of a two-byte character, of the byte order
mark, and a continuation byte. That is all the code tells apart, and it is
enough for characters that are cut by chunks, by included ranges or that do not
decode. A read callback is a function from a byte to how many bytes it returns
there. Range indices are 1-based, so the end of the file is the index after the
last.

A scanner is external code: in `pc = "scan"` it may take `Advance`, `MarkEnd`
and `GetColumn` in any order and any number of times and then succeed or fail;
so the model has every behaviour of every lex function and external scanner,
including ones no sane grammar has. `positions` are the positions of the stack
versions; `BeginLex` takes any of them, which is the jumping between versions.
`PlaceMissing` is the use of the lexer by `ts_parser__handle_error`. The loop
of `ts_lexer__get_column` is an action of its own (`GetColumnAdvance`), since
its end is a property. `examined` is a history variable.

Reading `included_ranges` one past its end is undefined; what is found there is
any member of the constant `JunkEnds`. `ColumnAtEof` says whether scanners ask
for the column at the end of the file; the run sets it to FALSE, which keeps the
code well defined. The proofs hold for any values of both. `MinChunk` (3) is an assumption
on the read callback: a chunk that is shorter than a character, and not the end
of the text, makes the lexer see an invalid character, since it retries only
once. What the keyword pass examines is not counted in `examined`, since the
code does not call `ts_lexer_finish` for it: it reads the token's own text again.

Three things the code does with several included ranges are not what its
documentation says, and `CursorTrue` therefore speaks of points and columns only
in documents without them: the cached column is kept when the cursor jumps to
the next range, also when that is on another line (`lexer.c:230`); a missing
token at the start of a later range gets a padding of zero bytes and some
columns (`parser.c:1519`); and `get_column` at the end of the last range loads a
chunk, after which `advance` may show text past it (`lexer.c:337`). A parse that
follows one with ranges finds the cursor where the first of those began, with a
point of the old document, until the first token resets it: the points are
compared from that reset on.

### Subtree, Stack and Parser

The stack is a record of `nodes` (memory: a sequence with freed cells) and
`heads` (the versions). Links, slices and iterators are those of the code, and so
is the order in which versions are numbered, since later code depends on it.
A failed `ts_assert`, or a read of a NULL subtree, sets `fault`.
`ts_stack_node_count_since_error` writes the head it reads, so operators that
call it return a stack. Version numbers are 1-based.

`Parser` takes one step for each iteration of the loop in
`ts_parser__advance`, for the choice of the next version, for
`ts_parser__condense_stack` and for the end. Those are the places between which
the progress callback can stop the parse: the code asks it every 100
operations and in the balancing; the model lets it stop at any of them.

The model lexes at once: a token is one character, blanks are padding, characters
no token begins with form an error leaf, as `ts_parser__lex` returns them; its
detail is the module `Lex`. Trees have one dimension (bytes, not rows), so
the cost of a skipped line, `ERROR_COST_PER_SKIPPED_LINE`, is not added. Since the
trees have no repetitions there is nothing to balance; stopping there and
resuming is modelled. Trees are values, so their reference counts are not
modelled; those of stack nodes are.

Two languages are given as tables. `grouping` is `S -> S S | ( S ) | a` with a
comment token as an extra: ambiguous without end, so that versions fork, merge
and share nodes, and every kind of error can happen in it. `choice` has two
derivations of the same text with different dynamic precedence. The tables have
the conflicts an LR table of such a grammar with declared conflicts has, and
the error state's row of `recover` actions, as generated tables do.

### GenerateParser

Each pass is an operator from a grammar to a grammar, or to a refusal; `stage`
says how far the pipeline is. Rules are records, the pool's indices are replaced
by the parts themselves. The parse table is built state by state
(`AddActions`), since the queue of states and the production infos grow
while they are used.

`Derivations` says twice what a grammar means: by the rules as they are written,
with hidden rules, aliases, fields, inlined rules and `eof()`, and by
productions. The properties compare the two across the passes that rewrite rules
(`PreparationKeepsTrees`), and compare with them what `LrMachine`, driven by the
table, builds (`TableParsesGrammar`, `PrecedenceDecides`); the minimized table
and the rendered one are compared with the table before
(`MinimizationSafe`, `RenderedTablesAgree`). What the lexical analysis finds of
the tokens of a grammar (conflicts, keywords) is part of an input here and is
computed by `GenerateLexer` there. Strings have no
order in TLA+: `NameOrder` lists the names whose order the code uses. The loop of
`validate_precedences` keeps an entry it has swapped in place of the one it began
with, so that contradictory orderings such as `[[c, a, b], [b, c]]` are accepted;
so does the model, and one such grammar is among the inputs.

Left out of the inputs, since the code does not do with them what the property
says or does not end: a field on a hidden rule that has fields itself; a
`reserved` context around a repetition; mutual recursion of inlined rules; an
alias of an inlined rule together with node types; a supertype with an anonymous
subtype; an alias of the start rule; a rule that has `eof()` alone as an
alternative after another rule. The last is the terminator that
`docs/src/creating-parsers/2-the-grammar-dsl.md:103` describes, in a rule of its
own (`seq($.x, $._t)`, `_t: choice('\n', eof())`): `flatten_grammar` accepts it, but
FIRST sets do not have the end (`item_set_builder.rs:126`), so `x` is never reduced
at the end of the input and the table refuses the sentence. After a token, and
where `eof()` is written in the rule that it ends, the inputs have it and it works.

### GenerateLexer

A pattern is the Hir that `regex_syntax` makes of it; its syntax and case folding
are left out. Characters are seven numbers, of which some are letters, one is a
separator and one is the largest, so that complements and ranges end at both
borders. `NfaMatchesRules` compares the automaton with the strings of the rules;
`LongestMatch` with the documented choice (longest, then string before pattern,
then first); `MergedStatesLexAlike` compares the lex state that a parse state
shares with the lexer that it would have alone; `RenderedLexerAgrees` runs the
generated conditions, with their widened ranges, large character sets and
advance maps, against the table first built. A repetition `{n,}` with `n >= 2`
(which matches exactly `n` copies) and an empty member of a token's sequence are
not among the inputs: `expand_rule` wires both wrongly.

The null character is in the texts, and there the generated lexer is not the
table: `lookahead` is 0 at the end of the file too, so a condition that is written
as what it leaves out also leaves out the null character (`render.rs:1049`). A
token such as `/[\s\S]/` therefore stops before one. `RenderedLexerAgrees` allows
this and nothing else: the generated lexer goes as the table does, or stops at a
null character. The opposite case is left out of the inputs: `ADVANCE_MAP`
(`render.rs:926`) has no test of `eof`, so a token that it finds at a short range of
the null character would be taken at the end of the file.

### BitVec and TokenSets

Memory is modelled by its words: a heap has chunks, free blocks, and the data,
length and capacity of each vector, and a word is the set of its bits. An
operation that reads or writes out of place would read or write the words of
another vector. `TokenSetsAreSets` is a refinement: under
`tokens[s] <- TokensOf(s)`, read with `iter`, every call is a call on sets, and
`insert_all` and `remove` report a change exactly if there is one.

### LibraryCache

Each system call of `load_language_at_path_with_name` is a step. Times are those
of a clock that ticks with every write; equal times of a source and an output,
which a coarse file system can give, do not happen. `Kill` ends a process with
all its threads between any two steps and leaves its files; `FailCompile` is a
compiler or rename that fails, or a `wasm-opt` that cannot be started, which alone
leaves the temporary file (`loader.rs:1486`). `wait_for_removal` may time out while the
lock exists. `EditsDuringCompile` is FALSE in the run: a source that is
written while the compiler reads it can be older than an output that lacks it.
`OneInstaller` is TRUE: the lock on the tools is one of the process, and two
processes that install at once can disturb each other. What the code accepts and
the model shows: a thread that waited may load a library older than the sources
it began with if the compiler failed, and none if there was none; two grammars
of the same name share an output.

`SharedLibrary` is the abstract cache: an output is replaced as a whole by one of
sources no older, and each thread gets an answer once.

### Configurations

A file name, a file type and a capture name are the sequences of their parts
between dots. The order in which first-line expressions are tried, that of a
hash map, is a free choice, and each overwrites what the one before found, as
`try_fold` does. The names given to `configure_highlights` are chosen before
the first use. `FileTypeDecides` and `ErrorsLocated` evaluate `select_language`
and the query constructors for all files and query paths in every state.

What a property needs of the directories is stated beside it, and
`DirectoryAssumption` of `MCConfigurations` has TLC evaluate it on the instance of the
run:

* `GrammarsGiven`: a grammar lists a file type once. Otherwise a configuration
  would be twice in the list of that type.
* `ContentsTold`: an expression on the content matches no empty string. The code
  scores a match by its length, so that one would count as much as none.
* `QueriesGiven`: a fault of a query file lies inside that file.
* `CapturesTold`: a capture whose parts are all parts of another one is shorter.
  `configure` compares names as sets of parts and takes the longest that matches,
  so that `a.b` and `b.a`, or `a.a` and `a`, would be taken for each other.

### HighlightQuery and Highlight

A document comes with what its captures mean (nodes, colors, scopes,
definitions, references, injections), and with the streams of captures that a
query cursor gives for them, by language and depth. `NodesColored` computes
the color of each node from the meaning; the iterator computes it from the
stream. The documents keep to these: nothing starts where a scope ends
(the code pops scopes with `>`), a definition is colored, `injection.parent` is in
the document itself (in deeper layers the code gives the document's language too,
`highlight.rs:959`), and an `any-` predicate comes with a node that satisfies it
(the run `query_any` has the others).

Two properties are of what the code does where its comments say otherwise.
`(#is-not? local)` is to disable a pattern for local variables
(`docs/src/3-syntax-highlighting.md:198`), but the loop at `highlight.rs:1112` looks
only at the highlights after the first one of a node: the first colors a variable
though it is disabled. `NodesColored` expects that, and documents with a disabled
highlight first, alone, between others and last are in the run. And `add_text`
means to mark "lone carriage returns (not followed by line feeds)"
(`highlight.rs:1282`) but remembers one place, so of several in a row only the last is
marked: `LinesBalanced` asks for one mark for each run of them. It also allows
one newline more in the last line, which is there when a tag is open over the last
newline of the text.

A match that gives way to another at a node is removed (`highlight.rs:1125`) and
colors none of its later nodes; `MCPairs` has all pairs of matches of two nodes
each, and what they mean leaves such captures out.

`HighlightIterLayer::new` takes combined injections from a queue until it is empty;
`NewLayers` takes up to `MaxLayers`, which is more than the documents of the runs
have (two at most).

### Tags

A document is a text with the matches that the query cursor gives for it, of
the locals query and of the tags query, mixed. What the matches mean is defined
apart from the iterator, by sets: which names are local variables (`LocalAt`, the
innermost scope around a definition and the scopes it is visible through), which
matches ask for a tag (`Wanted`) or for none (`Unwanted`), and which match
decides about a node (`Winners`: of the first pattern, and of that the first).

The documents keep to six conditions, which `MCTags` assumes of its instance and
TLC evaluates:

* `NamesInText`: names are nodes of the text;
* `NamesOnOneLine`: no name has a newline. For one that has, `tags.rs:517-545`
  remembers the row of its end with the line of its start, and gives that line to
  the next tag on the row;
* `MatchesInOrder`: no match has a name that ends before the name of an earlier
  match starts. The queue relies on it when it lets a tag go that ends before the
  last name in the queue starts (`tags.rs:361`); the cursor gives matches in the order of
  their captures;
* `MatchesOfQuery`: patterns and captures are those of the query, whose capture
  names are different, as the C library gives them;
* `OneNameEach`: a match of the tags query has one name and one role, or ignores
  one node. The code takes the last of several;
* `ScopesNest`: a match of the locals query has one capture, and of two scopes
  around a node the later is the narrower, as nodes of a tree are when the cursor
  gives the outer one first. The code searches scopes from the last.

The placeholders of ignored nodes that the final drain returns (`tags.rs:581`,
without the test of line 366) are not counted as tags by `OneTagPerNode`.

## Runs

| Run | Shows |
| --- | --- |
| `lexer` | Ranges that cut a character, are empty, adjacent, or overlap (and are refused), documents without ranges, every cutting into chunks: the cursor is in range over a loaded chunk and both paths of advance agree (`CursorSound`); lookahead, points and column are the document's, and get_column finds its way back (`CursorTrue`); a token's lookahead covers the first byte of every character examined and every byte of a sequence that does not decode (`LookaheadCovered`); advancing moves (`AdvanceProgress`) and each lexing call returns (`LexReturns`) |
| `parser` | On all documents up to 4 characters over tokens, comment, blank and unknown characters, with one stop anywhere followed by a resume or a reset: counts exact, paths agree, no assertion fails, nothing is left when idle (`StackSound`); no error exactly for the sentences, with the highest precedence of a derivation, each node an instance of a production, each character in the tree once and in place (`ResultCorrect`); `ParseReturns` |
| `parser_limits` | Limits of 2 links, 2 iterators, 1+1 versions, summaries of depth 2, documents up to 6 tokens: the limits bite in every place, and nothing breaks (`LimitsHold`) |
| `generator_lex` | All triples of a pool of 13 tokens, with and without separators and a word token, on all texts up to 3 characters, null characters among them |
| `generator_parse` | Some sixty grammars, each for a kind of rule or a reason to be refused, on all sentences up to 5 tokens |
| `library_cache` | Three threads in two processes, a native, a wasm and a given output, two versions of the source, faults everywhere |
| `configurations` | Three directories (shared parsers, a refused entry, a bare grammar), four file names, query files with captures and faults, with and without names |
| `highlight` | Nested and adjacent nodes, scopes that inherit or not, references before and after definitions, injections that are nested, combined, of the parent's language, with and without children; highlights disabled for variables in every place of a node's list, matches of two nodes that meet; texts with newlines and carriage returns, also in runs |
| `token_sets` | Every sequence of calls on two sets with bits in the first and the third word, in an arena of chunks of two words, up to five words |
| `tags` | Three names, nested and side by side, in the order of their ends or wider first, with up to two matches each, before and after the local definitions; six configurations of scopes, doc comments, a query that is refused |
| `parser_resume`, `query_any` | Disagreements of code and documentation, below |

Every property has a mutant in `PROJECT.json`: a version of one definition with
a plausible bug, under which TLC finds the property violated.

*Bounds.* Documents of the lexer have up to 4 bytes: enough for a character
before, across and after a chunk end or a range end, for an empty range between
two others and for a second line. One version is enough since goto's target is
any position the parser was at, and the chunk is left over from the previous
token. Documents of the parser have up to 4 characters of all kinds or 6
tokens: errors need at most 3 tokens (what precedes, what is skipped, what
follows), ambiguities 3; at the real limits four versions exist at most, which
is why `parser_limits` exists. Sentences of 5 tokens nest two binary operators,
or one and a unary one, in each order. Texts of 3 characters are a token, what
may follow it and one more. Two token sets and bits in the words 0 and 2 let
vectors differ in length, be reallocated, freed and handed out to each other.
Three threads let one hold a lock, one wait and one be killed or install tools.

*Fairness.* `Lex` assumes that scanners return and that the loops of the code
go on; nothing is assumed of the parser asking for another token. `LexReturns`
thus says that the loop that skips unrecognized characters ends, not that a
scanner does. `Parser` assumes that a running call of `ts_parser_parse` takes
its next step: it is a sequential program that does not block. The condition is
written out as `[]<>(pc \notin Running) \/ []<><<Step>>_vars`, which is weak
fairness of `Step` because `Step` is enabled exactly in the states of `Running`.
No application is assumed to resume a stopped parse. `LibraryCache` assumes weak
fairness of each thread's own steps: the operating system schedules it, its
compiler ends, and a deadline passes; nothing is assumed of kills, of
writes or of new requests.

`CHECK_DEADLOCK` is on for the lexer and the parser, where the application can
always make the next call. The pipelines, the iterators of highlight and tags,
the threads of the cache and the registry at its bound really end.

## Disagreements found

* `parser_resume`: `api.h` says that a stopped parse resumes where it left off;
  the loop begins at the first version, with another order of turns and prunings,
  and can return another tree. The run `parser` shows that it is still a correct
  one: sentences parse without errors and with the best precedence.
* `query_any`: text predicates with `any-` accept a match none of whose nodes
  satisfies them in the Rust binding, where the documentation says that one has to
  (`any-eq?` of two captures rejects only captures of different lengths of which no
  pair agrees).

The sections above name further places where the code departs from what one
would state. Each is kept out of the inputs of a run, or stated in the property as
the code has it, and is listed in `PROJECT.json` in the note of the hazard it belongs
to.

## Proofs

### LexProofs

For all documents, read callbacks, included ranges, numbers of versions and
values past the range array: `LexTypeCorrect`, `LexInRange`, `LexChunkSpans`,
`LexChunkLoaded`, `LexFastPathAgrees`, together `LexCursorSound`
(`Spec => []CursorSound`), and `LexAdvanceProgress` (`Spec => AdvanceProgress`).

The inductive invariant is `IInv == TypeOK /\ LexerOK(lexer) /\ ChunkLoaded`.
`LexerOK` joins range, chunk and type facts of a Lexer record with there being
at least one range, the ranges being an accepted sequence, the chunk spanning
the cursor at the end of the file too, and a byte order mark being wider than
one byte. None is inductive alone: that the chunk spans the
cursor is kept by goto only if the range search is right, and the range step of
`ts_lexer__do_advance` keeps the cursor in range only if it was in range when
the character was consumed. Each function of `lexer.c` has a lemma that it
preserves `LexerOK` (`GotoOK`, `DoAdvanceOK`, `FastAdvanceOK`, `BackUpOK`, ...), and
`NextIInv` has one step for each action. `ChunkLoaded` is needed by the fast
path, which trusts the lookahead. `AdvanceProgress` follows from `AdvanceOK`: the
next range starts where the one left ends or later, because the ranges were
accepted. `FastPathAgrees` follows from `FastPathSame`, which needs the width of
a byte order mark: `ts_lexer__do_advance` does not count one as a column and the
fast path counts whatever it consumes. The assumptions are those named in the
modules: inputs have their types, `JunkEnds` is a nonempty set of numbers, a
read callback returns text while there is some (part of `TSInput`).

### CursorProofs

Under the hypothesis `DocumentInputs` (the documents are parsed without included
ranges, are shorter than `UINT32_MAX` bytes, and the read callback returns at
least three bytes or all that is left), for any number of documents and versions,
malformed text, any scanners and whatever lies past the range array:

* `LexCursorTrue`: `Spec => []CursorTrue`;
* `LexLookaheadCovered`: `Spec => []LookaheadCovered`, for the first byte of each
  character examined and every byte of a sequence that does not decode.
  `ts_lexer_finish` adds one byte for a character that decodes, however long it
  is, so the property is about edits that replace whole characters: that one
  which begins inside the last character examined invalidates the token is not
  claimed.

The inductive invariant is `CursorInv`. Its core, `Truthful(lexer)`, says that
the cursor is at a byte that no character spans (`Boundary`), with the point of
that byte; that the lookahead, if there is one, is the character there; that the
end of the file is reached only at the end of the text, without a chunk; and that
a valid column counts the characters since the line began. None of it is
inductive alone: advancing keeps the point only if the lookahead is the character
of the text, and decoding finds that character only from a boundary.
`ts_lexer__get_column` goes back a number of bytes that it takes from the point,
and ends where it began because it started at a boundary, which its loop cannot
step over. The positions that `ts_parser__lex` remembers (the start of the call
and of the attempt, the token, the skipped characters) are boundaries in order
(`CallTrue`, `TokenPlaced`), so that adding the padding and the size of a leaf to
the position of its version gives the end of the token (`LengthStep`): the
arithmetic of rows and columns is exact for ordered positions of one text only.
`Examined` bounds what the decoder looked at by what `ts_lexer_finish` will
record; the step of `ReachStep` is that going over a byte that does not decode
never lowers that bound. The lemmas are about the text (characters, lines, points,
counts), then about each function of `lexer.c`, then one for each action.
TLC checked `CursorInv` before, on ten documents of up to four bytes, malformed
ones included, with every cutting into chunks and `ColumnAtEof` TRUE.

The hypothesis is what the code needs. A range end may cut a character, which the
lexer then decodes past it; points of range starts come from the caller; and the
column is wrong after a jump between ranges (see Lexer and Lex). For inputs with
ranges `LookaheadTrue`, `GetColumnRestores` and `LookaheadCovered` are checked by
the run `lexer` only.

### TokenSetsProofs

For any chunk size, any number of sets and tokens and any sequence of calls:

* `TokenArenaSound`: `TokSpec => []ArenaSound`;
* `TokenSetsRefine`: `TokSpec => TokenSetsAreSets`, the refinement of
  `AbstractTokenSets`.

The inductive invariant `TokInv` says of the arena that allocated and free
blocks lie apart, below the bump pointer of their chunk; that the words of free
blocks and all that is above a bump pointer are zero; and of each vector that its
words past those in use and the bits past the last one are zero. That is what
`free`, which clears only the words in use, and a vector that moves to a block
which is not cleared for it rely on, and what makes comparing words comparing
sets: without it a set would gain members that nobody inserted. Each function of
`bitvec.rs` has a lemma that it keeps this and the vectors it is not about, and
one on the members of the vector it changes; each action then maps to a step of
`AbstractTokenSets` or to a stutter. That a last nonzero bit exists, for
`pop_zeros`, comes from the well-foundedness of the numbers. TLC checked `TokInv`
on the instance of the run.

### LibraryCacheProofs

For any sets of threads, processes, outputs, sources, requests and versions,
with and without faults:

* `CacheCompileExclusive`: `CacheSpec => []CompileExclusive`;
* `CacheCompilerLoadsNew`: `CacheSpec => []CompilerLoadsNew`;
* `CacheTimesTellContents`: `CacheSpec => []TimesTellContents` (the property is
  about executions in which sources are not written while a compiler runs);
* `CacheIsAtomic`: `CacheSpec => LibraryIsAtomic`, the refinement of
  `SharedLibrary`;
* `CacheToolchainWhole`: `OneInstaller` implies `CacheSpec => []ToolchainWhole`.

The inductive invariant `CacheInv` joins to the properties: a thread that owns
an output has its lock file (`LocksHeld`), which makes the exclusion inductive
(the lock of a killed thread stays, so nobody else gets it); what a compiler has
read, what its temporary file holds and what a library holds is no newer than
the sources and no older than what the owner's call began with, with times that
do not run ahead of the clock (`InputFresh`, `TempFresh`, `LibraryPast`,
`BeganPast`, `CompiledStays`); and a thread is answered only when it is done
(`Unanswered`). Without the exclusion, a slower compiler of older sources could
replace a newer library; that is why the refinement needs all of it.
`ToolInv` says of the directory of the tools that a version file implies all
parts and that only the one installer leaves them out.

### TagsProofs

For any queries and documents, any number of patterns, matches and scopes and any
`MaxLineLen`:

* `LinesAreTrue`: `NamesInText` and `NamesOnOneLine` imply
  `TagSpec => []LinesTrue`;
* `TagsComeInOrder`: `NamesInText` and `MatchesInOrder` imply
  `TagSpec => []TagsInOrder`;
* `OneTagForEachNode`: these two with `MatchesOfQuery`, `OneNameEach` and
  `ScopesNest` imply `TagSpec => []OneTagPerNode`.

The conditions on documents are the ones of the section on Tags, each theorem
with those it needs only.

`LineInv` says that what `prev_line_info` remembers is true of the byte it was
found at, and each tag's line and columns of its name. It is inductive since a
remembered line is used on the same row only, where lines and the starts of lines
are the same (`SameLine`, `SameRow`), and UTF-16 lengths add up (`Utf16Split`).

`OrderInv` says that the queue is sorted by the keys that `tags.rs` searches by
(`QueuedSorted`, for the insertion at the place that a binary search finds), that
all that was returned comes before the queue, and that while matches are to come
a name was seen that starts after everything returned ends. The last is what
keeps a tag from being returned too early: with `MatchesInOrder` no name to come
can precede it or be its node again.

`ScopeInv` relates the stack of scopes, which the code changes in place, to the
matches so far: its scopes are those of `ScopesAt`, each with the definitions
whose innermost scope it is. `LocalAgrees` then shows that the search from the
last scope, which ends at a scope that does not inherit, finds a definition
exactly when `LocalAt` says so, and `MatchMeaning` that a match is refused,
ignored or queued as its meaning asks. The stack only grows (`tags.rs` never
pops), so that scopes left behind have to be shown not to matter: they are not
around the name.

`TagInv` says that every entry of the queue and of the buffer is the tag of a
match that decides so far, and that each name with a candidate is in the queue,
or lies before all names to come and has its tag returned. A later match may
replace an entry (`WinnersNew`, `WinnersDown`) but, by `OrderInv`, none that was
returned; in the end the queue is empty, and the buffer has the tags of
`Winners`. None of the parts is inductive without those before it. The fold over
the captures of a local match is unfolded once (`FoldOne`), which is enough since
it has one capture. TLC checked the conjunction of all parts on the instance of
the run.

### ConfigurationsProofs

For any directories, with any number of grammars, file types, query files, captures
and names, and any sequence of calls, failures to load included:

* `RegistryIsConsistent`: `GrammarsGiven` implies
  `ConfSpec => []RegistryConsistent`;
* `FileTypesDecide`: with `ContentsTold`, `ConfSpec => []FileTypeDecides`;
* `HighlightNamesResolve`: with `QueriesGiven` and `CapturesTold`,
  `ConfSpec => []HighlightsResolve`;
* `FaultsAreLocated`: with `QueriesGiven`, `ConfSpec => []ErrorsLocated`.

The loops of `loader.rs` are folds over sequences. `FoldInduction` has the
induction for them: the operator that is folded and what is said of the accumulated
value are constants of that module, each with three parameters more, and an instance
of it has the theorems `FoldSteps` (a fold is the last of a sequence of steps) and
`FoldKeeps` (what the first value has and each step keeps, the fold has) for an
operator of its own. The induction is that a set of numbers has a least one. Each
loop is an instance: `TypesFold`, `FindFold`, `LineFold`, `ContentFold`,
`NamesFold`, `IndexFold`, `TextFold` and others.

`RegistryOK` is the inductive invariant of the registry. It joins to
`RegistryConsistent` that every list of a file type has an element, that the
lists are sequences without gaps, and that each configuration has the file types,
expressions and queries of a grammar of its directory (`IsConfig`). It is kept
though a directory is given up in the middle of its grammars, because
`AddGrammar` keeps it with what was found so far (`FindFold`). The list of a type
is sorted because a new configuration has the greatest number (`PushedStep`,
`TypesFold`); without `GrammarsGiven` it would not be.

`FileTypesDecide` follows from `RegistryOK`: `select_language` answers for a
registry that may have been extended by the look-up itself, `LongestKnown` finds
the longest suffix that some configuration has, and the fold over its
configurations keeps the best score so far (`ContentBest`), of which a later one
that is no better takes nothing.

`HighlightInv` joins `RegistryOK`, that names have parts and are names of captures
when all are in use (`NamesOK`), and for each cell that its indices are in the
list and name what they should (`CellsOK`). An index stays true because the list
only goes on at its end (`Grows`, `CellGrows`). With all names in use, the longest
name that matches a capture is the capture (`IndexFold`), which is in the list
(`NamesFold`): that is what `CapturesTold` is for.

`FaultsAreLocated` compares the offset of a fault in the joined source with the
files it is joined of. The first file with a fault lies, in the list of all files,
after those of its section (`TextFold`) and of the sections before; the length of a
joined list is the sum of the lengths (`LengthConcat`), so the sections' lengths
lead to its section (`SectionFound`), the files' lengths there to the file
(`FileFound`), and what is left is the offset in it. A file of no length is never
the one, whether before, after or between others. TLC checked `RegistryOK` and
`HighlightInv` on the instance of the run.

### HighlightProofs

* `EventsAreWellFormed`: `DocumentsGiven` implies `HlSpec => []EventsWellFormed`;
* `LinesAreBalanced`: `DocumentsGiven` implies `HlSpec => []LinesBalanced`.

Both are for any documents, configurations and predicates, any languages that inject
each other, any numbers of captures, scopes and layers, and a cancellation at any
moment. `DocumentsGiven` says that the captures of a tree lie in the text, which is
what parsing the text gives, and that the numbers are numbers; `MCHighlight`
assumes it of its instance and TLC evaluates it. Nothing is asked of the order of the
captures: the stream is well formed though a cursor gave them in any order.

The inductive invariant `HlInv` says that there are as many highlights open in the
events as there are ends on the stacks of all layers, but for the one whose event
waits in `next_event` (`Pending`), because `emit_event` returns the source before it
first; that the events give the source from 0 to `byte_offset`; and that what a layer
still has to give, ends and captures, lies in the text. It rests on these: a layer
that `sort_layers` drops has nothing open and one that it moves keeps all it has
(`LiveOK`, `MovedOK`, `SortOK`); `insert_layer` loses none, wherever it puts the new
one (`InsertOK`); new layers have nothing open (`NewLayersOK`, for combined and
single injections); the captures that the iterator takes of the same node leave the
layer's ends alone until it starts one highlight (`NodeEffect`); and at the end, when
no layer is left, the rest of the source is given (`FinishOK`). How many
ends the layers have is told by a function with their partial sums (`Total`), which
takes the place of a recursion and adds up over parts (`LayersJoin`, `LayersPart`). TLC
checked `HlInv` on the instance of the run.

For the lines, `HlInv` also relates the renderer to the events (`Drawn`): as many tags
are open in the html as highlights in the events, each finished line closes what it
opens, the letters are those of the text up to `byte_offset` without carriage returns, and
`last_carriage_return` is set exactly when the text so far ends in one. That the place
kept there lies in the line being written, where no tag has been closed that was not
opened, makes the late insertion of a mark harmless (`HtmlMarked`). Depth is a function
over the places of the html (`Nests`), which adds up over parts (`NestsJoin`), so that a
newline that closes all tags, ends the line and opens them again keeps both lines
balanced (`HtmlLine`); `FinishDrawn` is the end of `render`, with its extra newline and
dropped offset.

### Only model-checked

Liveness (`LexReturns`, `ParseReturns`, `LoadReturns`), which needs fairness and
ENABLED. What `CursorTrue` and `LookaheadCovered` say of documents with included
ranges. Everything about `Stack`, `Parser` and the generator's pipelines, which
follow graphs, rules and automata with RECURSIVE operators: the prover has no
backend for modules that declare one. The rest of `Highlight` (`ExtentsExact`,
`NodesColored`, `InjectionsConfined`), which compares what an
iteration has produced with what the document means and needs the cursor's order of
captures. Loops that are folds are within reach, through
`FoldInduction`; recursion over trees and graphs is not.
What happens to names of several lines and matches of
several names in `Tags`, which the conditions on documents leave out, is neither
proved nor checked. `TypeOK` of `Lex` does not bound numbers by 32 bits:
positions beyond 2^32 bytes are refused by nothing in the code and not considered
here.

## Not modelled, and the plan

* **Edits and reuse** (`ts_subtree_edit`, `reusable_node.h`,
  `ts_parser__reuse_node`, the token cache, included range differences): an
  incremental parse returns the tree of a full parse; `LookaheadCovered` is what
  it will rest on.
* **Balancing** (`ts_subtree_compress`) and repetitions in the parser; external
  scanner states and keywords there.
* **Tree sharing**: copies and reference counts in threads, `make_mut`.
* **Tree cursor, changed ranges, query parser and cursor** of the C library:
  `Highlight` and `Tags` take the cursor's order of captures as given.
* **The allocator of wasm scanners**.
* Evaluation of `grammar.js`, the syntax of regular expressions, rendering as
  text, messages, the C interfaces, the web binding, the command line and build
  scripts: I/O, wrappers and formatting, which will stay out.
* To prove next: `LookaheadCovered` for documents with included ranges whose
  ends do not cut a character, and the points of rows and columns when the caller
  gives true points for them; `ExtentsExact` of `Highlight`, with the order of
  captures that the query cursor gives.
