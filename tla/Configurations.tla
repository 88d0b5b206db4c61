--------------------------- MODULE Configurations ---------------------------
(***************************************************************************)
(* crates/loader/src/loader.rs: what a Loader knows of the grammars on     *)
(* this machine, and how it picks the language of a file, a scope or an    *)
(* injection; and the highlight configurations that are made of the query  *)
(* files of a language (LanguageConfiguration, with                        *)
(* HighlightConfiguration::configure of crates/highlight).                 *)
(*                                                                         *)
(* Directories, files and regular expressions are constants.  A directory  *)
(* has the grammars of its tree-sitter.json, none when there is no such    *)
(* file or it cannot be read, and perhaps a src/grammar.json.  A file      *)
(* name, a file type and a capture name are the sequences of their parts   *)
(* between dots; a query file is <<its kind, a number>>.  An expression    *)
(* or a scope that is not given is "".                                     *)
(***************************************************************************)
EXTENDS Integers, Sequences, SequencesExt, FiniteSets

CONSTANTS
  Grammars(_), HasGrammarJson(_),  \* of a directory
  ParserDirectories,  \* the directories find_all_languages comes across, in turn
  CurrentDir,
  FileNames, Texts,   \* files have a name and a text
  Scopes, InjectionStrings,
  MatchLength(_, _),  \* of the first match of an expression in a text, -1 for none
  NameLists,          \* the lists given to configure_highlights, <<>> for none
  QueryFile(_, _),    \* a query file of a directory
  QueryPaths,         \* the paths of queries that are passed, each a sequence of files
  MaxConfigurations   \* bound of the registry

VARIABLES
  registry,           \* see ConfInit
  highlight_names, use_all_highlight_names

confVars == <<registry, highlight_names, use_all_highlight_names>>

\* Loader::new, and configure_highlights when names are given.
ConfInit ==
  /\ registry = [ languages |-> <<>>,       \* languages_by_id
                  configurations |-> <<>>,  \* language_configurations
                  types |-> <<>>,           \* language_configuration_ids_by_file_type
                  lines |-> <<>>,           \* language_configuration_ids_by_first_line_regex
                  current |-> 0 ]           \* language_configuration_in_current_path
  /\ highlight_names \in NameLists
  /\ use_all_highlight_names = (highlight_names = <<>>)

-----------------------------------------------------------------------------
(* find_language_configurations_at_path                                      *)

\* entry(key).or_default().push(id)
Pushed(index, key, id) ==
  IF key \in DOMAIN index THEN [index EXCEPT ![key] = Append(@, id)]
  ELSE [k \in DOMAIN index \cup {key} |-> IF k = key THEN <<id>> ELSE index[k]]
PushedAll(index, keys, id) == FoldLeft(LAMBDA a, key : Pushed(a, key, id), index, keys)

\* Mutant: the languages of other directories are looked through too, by name.
LanguageOf_Any(languages, first, path) ==
  SelectLastInSeq(languages, LAMBDA l : l.path[2] = path[2])

\* The language a previous configuration of the same tree-sitter.json uses, 0 for none.
LanguageOf(languages, first, path) ==
  LET i == SelectLastInSeq(languages, LAMBDA l : l.path = path)
  IN  IF i > first THEN i ELSE 0

NewLanguage(path) == [path |-> path, loaded |-> FALSE]
NoConfig == [made |-> FALSE, captures |-> <<>>, indices |-> <<>>]

NewConfiguration(dir, language, g) ==
  [root |-> dir, language |-> language, path |-> g.path, scope |-> g.scope,
   file_types |-> g.file_types, content |-> g.content, first_line |-> g.first_line,
   injection |-> g.injection, queries |-> g.queries, highlight |-> NoConfig, tags |-> NoConfig]

\* One grammar of the file.  An external file outside of the directory is an error,
\* and what was added before it stays.
AddGrammar(found, dir, first, set_current, g) ==
  LET r == found.registry
      path == <<dir, g.path>>
      known == LanguageOf(r.languages, first, path)
      id == IF known = 0 THEN Len(r.languages) + 1 ELSE known
      n == Len(r.configurations) + 1
      added == [
        languages |-> IF known = 0 THEN Append(r.languages, NewLanguage(path)) ELSE r.languages,
        configurations |-> Append(r.configurations, NewConfiguration(dir, id, g)),
        types |-> PushedAll(r.types, g.file_types, n),
        lines |-> IF g.first_line = "" THEN r.lines ELSE Pushed(r.lines, g.first_line, n),
        current |-> IF set_current /\ r.current = 0 THEN n ELSE r.current ]
  IN  IF ~found.ok \/ (known = 0 /\ g.outside) THEN [found EXCEPT !.ok = FALSE]
      ELSE [found EXCEPT !.registry = added]

\* A directory that has no grammars but a grammar.json has a plain configuration,
\* which does not become the current one.
PlainGrammar ==
  [path |-> ".", scope |-> "", file_types |-> <<>>, content |-> "", first_line |-> "",
   injection |-> "", outside |-> FALSE,
   queries |-> [kind \in {"highlights", "injections", "locals", "tags"} |-> {}]]

AddGrammars(r, dir, first, set_current) ==
  FoldLeft(LAMBDA f, g : AddGrammar(f, dir, first, set_current, g),
           [registry |-> r, ok |-> TRUE], Grammars(dir))

FindAt(r, dir, set_current) ==
  LET first == Len(r.languages)
      found == AddGrammars(r, dir, first, set_current)
  IN  IF /\ found.ok /\ HasGrammarJson(dir)
         /\ Len(found.registry.configurations) = Len(r.configurations)
      THEN AddGrammar(found, dir, first, FALSE, PlainGrammar)
      ELSE found

\* find_all_languages: the errors of a directory are ignored.
FindAll(r) ==
  FoldLeft(LAMBDA a, dir : FindAt(a, dir, FALSE).registry, r, ParserDirectories)

-----------------------------------------------------------------------------
(* Lookups: the position of a configuration, 0 for none                      *)

FirstWhere(r, Test(_)) == SelectInSeq(r.configurations, Test)

language_configuration_for_scope(r, scope) == FirstWhere(r, LAMBDA c : c.scope = scope)

\* The first of those with the highest score above a bound.
FirstBest(ids, Score(_), bound) ==
  FoldLeft(LAMBDA best, id : IF Score(id) > best.score THEN [id |-> id, score |-> Score(id)]
                             ELSE best,
           [id |-> 0, score |-> bound], ids).id

\* The file name, then its extensions, the longest first.
Keys(name) == {SubSeq(name, i, Len(name)) : i \in 1..Len(name)}
LongestKnown(r, name) ==
  LET known == Keys(name) \cap DOMAIN r.types
  IN  IF known = {} THEN <<>> ELSE CHOOSE k \in known : \A l \in known : Len(l) <= Len(k)

\* Mutant: an expression that does not match is no worse than none.
ContentScore_NoPenalty(c, text) ==
  IF c.content = "" \/ MatchLength(c.content, text) < 0 THEN 0 ELSE MatchLength(c.content, text)

ContentScore(c, text) == IF c.content = "" THEN 0 ELSE MatchLength(c.content, text)

language_configuration_for_file_name(r, name, text) ==
  LET key == LongestKnown(r, name)
      ids == r.types[key]
  IN  IF key = <<>> THEN 0
      ELSE IF Len(ids) = 1 THEN ids[1]
      ELSE FirstBest(ids, LAMBDA id : ContentScore(r.configurations[id], text), -2)

language_configuration_for_injection_string(r, string) ==
  FirstBest([i \in 1..Len(r.configurations) |-> i],
            LAMBDA id : LET e == r.configurations[id].injection
                        IN  IF e = "" THEN -1 ELSE MatchLength(e, string),
            0)

\* language_for_id: a language that is not loaded yet may fail to.
Load(at, id, fails) ==
  IF ~at.ok \/ at.registry.languages[id].loaded THEN at
  ELSE IF fails THEN [at EXCEPT !.ok = FALSE]
  ELSE [at EXCEPT !.registry.languages[id].loaded = TRUE]

Answer(r, ok, id) == [registry |-> r, ok |-> ok, id |-> id]

\* The configuration that was found, with its language.
Found(r, id, fails) ==
  IF id = 0 THEN Answer(r, TRUE, 0)
  ELSE Load(Answer(r, TRUE, id), r.configurations[id].language, fails)

\* The expressions are tried in the order of a hash map, and each overwrites the
\* outcome of the one before.
FirstLineStep(at, line, text, fails) ==
  LET id == at.registry.lines[line][1]
  IN  IF ~at.ok THEN at
      ELSE IF MatchLength(line, text) < 0 THEN [at EXCEPT !.id = 0]
      ELSE Found(at.registry, id, fails)

language_configuration_for_first_line_regex(r, text, order, fails) ==
  FoldLeft(LAMBDA at, line : FirstLineStep(at, line, text, fails), Answer(r, TRUE, 0), order)

Orders(S) == {o \in [1..Cardinality(S) -> S] : \A i, j \in DOMAIN o : i # j => o[i] # o[j]}

\* languages_at_path: all languages that were found are loaded, the first is used.
LoadEach(r, configurations, fails) ==
  FoldLeft(LAMBDA at, c : [Load(at, c.language, fails) EXCEPT !.id = IF @ = 0 THEN c.language ELSE @],
           Answer(r, TRUE, 0), configurations)
LoadNew(found, old, fails) ==
  LET all == found.registry.configurations
  IN  LoadEach(found.registry, IF found.ok THEN SubSeq(all, old + 1, Len(all)) ELSE <<>>, fails)

LanguagesAtPath(r, dir, fails) == LoadNew(FindAt(r, dir, TRUE), Len(r.configurations), fails)

LanguageFound(at) ==
  IF at.id = 0 THEN at ELSE [at EXCEPT !.id = at.registry.configurations[@].language]
Known(at) == LanguageFound([at EXCEPT !.ok = at.ok /\ at.id # 0])

\* select_language for a scope ("" when none is given) or a file, or neither: the
\* registry, whether it succeeds, and the language.
ByFirstLine(atPath, file, order, fails) ==
  IF ~atPath.ok \/ atPath.id # 0 THEN atPath
  ELSE IF file.name = <<>> THEN [atPath EXCEPT !.ok = FALSE]
  ELSE Known(language_configuration_for_first_line_regex(atPath.registry, file.text, order, fails))

ByCurrentPath(byName, file, order, fails) ==
  IF ~byName.ok \/ byName.id # 0 THEN LanguageFound(byName)
  ELSE IF byName.registry.current # 0
  THEN LanguageFound(Found(byName.registry, byName.registry.current, fails))
  ELSE ByFirstLine(LanguagesAtPath(byName.registry, CurrentDir, fails), file, order, fails)

select_language(r, scope, file, order, fails) ==
  IF scope # "" THEN Known(Found(r, language_configuration_for_scope(r, scope), fails))
  ELSE ByCurrentPath(
         IF file.name = <<>> THEN Answer(r, TRUE, 0)
         ELSE Found(r, language_configuration_for_file_name(r, file.name, file.text), fails),
         file, order, fails)

-----------------------------------------------------------------------------
(* Query files                                                               *)

\* The text of files, or of sections, one after the other, and what is in front of one.
LengthOf(s) == FoldLeft(LAMBDA n, f : n + f.length, 0, s)
LengthBefore(s, i) == LengthOf(SubSeq(s, 1, i - 1))

\* read_queries: the files that are given, which must exist, or the default one if
\* it does.  The contents in turn, each with the file it is from.
read_queries(c, given, kind) ==
  LET files == IF given # {} THEN CHOOSE f \in given : TRUE
               ELSE IF QueryFile(c.root, <<kind, 0>>).exists THEN <<<<kind, 0>>>> ELSE <<>>
      contents == [i \in DOMAIN files |-> QueryFile(c.root, files[i])]
  IN  [ok |-> \A i \in DOMAIN files : contents[i].exists,
       files |-> files, contents |-> contents, length |-> LengthOf(contents)]

Captures(section) == FoldLeft(LAMBDA a, f : a \o f.captures, <<>>, section.contents)

\* Query::new (ts_query_new) stops at the first fault of the text it is given.
ContentsOf(sections) == FoldLeft(LAMBDA a, q : a \o q.contents, <<>>, sections)
Fault(sections) ==
  LET text == ContentsOf(sections)
      i == SelectInSeq(text, LAMBDA f : f.fault >= 0)
  IN  IF i = 0 THEN -1 ELSE LengthBefore(text, i) + text[i].fault

include_path_in_query_error(offset, section, start_offset) ==
  LET within == offset - start_offset
      Before(k) == LengthBefore(section.contents, k)
      n == Len(section.files)
      i == SelectInSeq([k \in 1..n |-> k], LAMBDA k : Before(k) <= within /\ within < Before(k + 1))
      at == IF i = 0 THEN n ELSE i
  IN  [file |-> section.files[at], offset |-> within - Before(at)]

\* The section of the text in which an offset lies, the last one for those past it.
SectionAt(sections, offset) ==
  SelectInSeq([k \in DOMAIN sections |-> k],
              LAMBDA k : offset < LengthBefore(sections, k + 1) \/ k = Len(sections))

\* Mutant: the offset is taken for one in the section.
Located_Section(sections, offset) ==
  include_path_in_query_error(offset, sections[SectionAt(sections, offset)], 0)

Located(sections, offset) ==
  LET k == SectionAt(sections, offset)
  IN  include_path_in_query_error(offset, sections[k], LengthBefore(sections, k))

\* HighlightConfiguration::configure: the first of the longest names of which all
\* parts are parts of the capture's name, 0 for none.
Matches(name, capture) == ToSet(name) \subseteq ToSet(capture)
IndexFor(capture, names) ==
  FirstBest([k \in DOMAIN names |-> k],
            LAMBDA k : IF Matches(names[k], capture) THEN Len(names[k]) ELSE 0, 0)
configure(captures, names) == [i \in DOMAIN captures |-> IndexFor(captures[i], names)]

\* Mutant: the names start over with each configuration.
NamesWith_Fresh(names, captures) ==
  FoldLeft(LAMBDA a, c : IF Contains(a, c) THEN a ELSE Append(a, c), <<>>, captures)

NamesWith(names, captures) ==
  FoldLeft(LAMBDA a, c : IF Contains(a, c) THEN a ELSE Append(a, c), names, captures)

\* Paths that are passed are told apart by their file names; those for injections
\* are looked for under the name of the tag query.
PathsOf(paths, kind) == FoldLeft(LAMBDA a, f : IF f[1] = kind THEN Append(a, f) ELSE a, <<>>, paths)
Passed(c, paths, kind, looked) ==
  IF paths = <<>> THEN c.queries[kind] ELSE {PathsOf(paths, looked)}

highlight_config(c, names, use_all, paths) ==
  LET highlights == read_queries(c, Passed(c, paths, "highlights", "highlights"), "highlights")
      injections == read_queries(c, Passed(c, paths, "injections", "tags"), "injections")
      locals == read_queries(c, Passed(c, paths, "locals", "locals"), "locals")
      sections == <<injections, locals, highlights>>
      captures == NamesWith(<<>>, Captures(injections) \o Captures(locals) \o Captures(highlights))
      all == IF use_all THEN NamesWith(names, captures) ELSE names
      Made(cs, ns) == [made |-> TRUE, captures |-> cs, indices |-> configure(cs, ns)]
      Outcome(ok, cell, ns, error) == [ok |-> ok, cell |-> cell, names |-> ns, error |-> error]
  IN  IF c.highlight.made THEN Outcome(TRUE, c.highlight, names, {})
      ELSE IF ~(highlights.ok /\ injections.ok /\ locals.ok) THEN Outcome(FALSE, NoConfig, names, {})
      ELSE IF highlights.length = 0 THEN Outcome(TRUE, Made(<<>>, <<>>), names, {})
      ELSE IF Fault(sections) >= 0
      THEN Outcome(FALSE, NoConfig, names, {Located(sections, Fault(sections))})
      ELSE Outcome(TRUE, Made(captures, all), all, {})

tags_config(c) ==
  LET tags == read_queries(c, c.queries["tags"], "tags")
      locals == read_queries(c, c.queries["locals"], "locals")
      sections == <<locals, tags>>
      captures == NamesWith(<<>>, Captures(locals) \o Captures(tags))
      Outcome(ok, cell, error) == [ok |-> ok, cell |-> cell, error |-> error]
      Made(cs) == [made |-> TRUE, captures |-> cs, indices |-> <<>>]
  IN  IF c.tags.made THEN Outcome(TRUE, c.tags, {})
      ELSE IF ~(tags.ok /\ locals.ok) THEN Outcome(FALSE, NoConfig, {})
      ELSE IF tags.length = 0 THEN Outcome(TRUE, Made(<<>>), {})
      ELSE IF Fault(sections) >= 0
      THEN Outcome(FALSE, NoConfig, {Located(sections, Fault(sections))})
      ELSE Outcome(TRUE, Made(captures), {})

-----------------------------------------------------------------------------
Discover ==
  /\ registry.configurations = <<>>
  /\ registry' = FindAll(registry)
  /\ UNCHANGED <<highlight_names, use_all_highlight_names>>

NoFileGiven == [name |-> <<>>, text |-> ""]
AllFiles == [name : FileNames, text : Texts]

Select(scope, file, order, fails) ==
  /\ Len(registry.configurations) < MaxConfigurations
  /\ registry' = select_language(registry, scope, file, order, fails).registry
  /\ UNCHANGED <<highlight_names, use_all_highlight_names>>

\* highlight_config_for_injection_string, and highlight_config of a configuration
\* for the paths that are passed; the language is loaded before.
Highlight(id, paths, fails) ==
  LET at == Found(registry, id, fails)
      out == highlight_config(registry.configurations[id], highlight_names,
                              use_all_highlight_names, paths)
  IN  /\ registry' = IF at.ok THEN [at.registry EXCEPT !.configurations[id].highlight = out.cell]
                     ELSE at.registry
      /\ highlight_names' = IF at.ok THEN out.names ELSE highlight_names
      /\ UNCHANGED use_all_highlight_names

Inject(string, fails) ==
  LET id == language_configuration_for_injection_string(registry, string)
  IN  /\ id # 0
      /\ Highlight(id, <<>>, fails)

Tags(id, fails) ==
  LET at == Found(registry, id, fails)
      out == tags_config(registry.configurations[id])
  IN  /\ registry' = IF at.ok THEN [at.registry EXCEPT !.configurations[id].tags = out.cell]
                     ELSE at.registry
      /\ UNCHANGED <<highlight_names, use_all_highlight_names>>

ConfNext ==
  \/ Discover
  \/ \E fails \in BOOLEAN :
       \/ \E scope \in Scopes \cup {""}, file \in AllFiles \cup {NoFileGiven} :
            \E order \in Orders(DOMAIN registry.lines) : Select(scope, file, order, fails)
       \/ \E string \in InjectionStrings : Inject(string, fails)
       \/ \E id \in DOMAIN registry.configurations :
            Tags(id, fails) \/ \E paths \in QueryPaths : Highlight(id, paths, fails)

ConfSpec == ConfInit /\ [][ConfNext]_confVars

-----------------------------------------------------------------------------
(* What is said of the directories that are given                            *)

Directories == ToSet(ParserDirectories) \cup {CurrentDir}
GrammarsAt(dir) == ToSet(Grammars(dir)) \cup {PlainGrammar}

\* No file type is given twice for a grammar.
GrammarsGiven ==
  /\ ParserDirectories \in Seq(Directories)
  /\ \A dir \in Directories :
       /\ Grammars(dir) \in Seq(GrammarsAt(dir))
       /\ \A g \in GrammarsAt(dir) :
            /\ g.file_types \in Seq(ToSet(g.file_types))
            /\ \A i, j \in DOMAIN g.file_types : g.file_types[i] = g.file_types[j] => i = j

\* File names and file types have parts, and an expression on the content does not match
\* an empty string, which would count as much as no expression.
ContentsTold ==
  /\ \A name \in FileNames : name \in Seq(ToSet(name))
  /\ \A dir \in Directories : \A g \in GrammarsAt(dir) :
       g.content # "" =>
         \A text \in Texts : MatchLength(g.content, text) \in Int
           /\ MatchLength(g.content, text) >= -1 /\ MatchLength(g.content, text) # 0

\* The query files that are read for the grammars of a directory.
Kinds == {"highlights", "injections", "locals", "tags"}
FilesOf(g) == UNION {UNION {ToSet(files) : files \in g.queries[kind]} : kind \in Kinds}
QueryFiles(dir) ==
  {<<kind, 0>> : kind \in Kinds}
  \cup (UNION {ToSet(paths) : paths \in QueryPaths})
  \cup UNION {FilesOf(g) : g \in GrammarsAt(dir)}

\* A fault is at a place in its file.
QueriesGiven ==
  /\ \A paths \in QueryPaths : paths \in Seq(ToSet(paths))
  /\ \A dir \in Directories :
       /\ \A g \in GrammarsAt(dir) : \A kind \in Kinds : \A files \in g.queries[kind] :
            files \in Seq(ToSet(files))
       /\ \A f \in QueryFiles(dir) :
            /\ QueryFile(dir, f).length \in Nat
            /\ QueryFile(dir, f).fault \in Int /\ QueryFile(dir, f).fault < QueryFile(dir, f).length
            /\ QueryFile(dir, f).captures \in Seq(ToSet(QueryFile(dir, f).captures))

\* Names have parts; a capture whose parts are all parts of another one is shorter than
\* that one.
CaptureNames == UNION {UNION {ToSet(QueryFile(dir, f).captures) : f \in QueryFiles(dir)} : dir \in Directories}
CapturesTold ==
  /\ \A names \in NameLists : names \in Seq(ToSet(names))
  /\ \A name \in CaptureNames \cup UNION {ToSet(names) : names \in NameLists} : Len(name) \in Nat \ {0}
  /\ \A a, b \in CaptureNames : Matches(a, b) /\ Len(a) >= Len(b) => a = b

-----------------------------------------------------------------------------
Configs == registry.configurations

\* The maps from file types and first lines, and the languages of configurations,
\* are what the configurations say, also after a directory was given up half way: the
\* same directory and path, found once, share a language, others never do.
RegistryConsistent ==
  /\ \A i \in DOMAIN Configs :
       /\ Configs[i].language \in DOMAIN registry.languages
       /\ registry.languages[Configs[i].language].path = <<Configs[i].root, Configs[i].path>>
  /\ \A k \in DOMAIN registry.types :
       /\ ToSet(registry.types[k]) = {i \in DOMAIN Configs : Contains(Configs[i].file_types, k)}
       /\ \A m, n \in DOMAIN registry.types[k] : m < n => registry.types[k][m] < registry.types[k][n]
  /\ \A i \in DOMAIN Configs :
       /\ \A t \in ToSet(Configs[i].file_types) : t \in DOMAIN registry.types
       /\ Configs[i].first_line # "" => Contains(registry.lines[Configs[i].first_line], i)

\* docs/src/cli/init.md: "The grammar will be used for files whose names end with one
\* of these suffixes"; a longer suffix decides before a shorter one, and then the
\* expressions on the content: one that matches, then none, then one that does not.
HasSuffix(c, name) == {k \in ToSet(c.file_types) : k \in Keys(name)}
Rank(c, name, text) ==
  LET length == CHOOSE n \in {Len(k) : k \in HasSuffix(c, name)} :
                  \A k \in HasSuffix(c, name) : Len(k) <= n
      class == IF c.content = "" THEN 1 ELSE IF MatchLength(c.content, text) > 0 THEN 2 ELSE 0
  IN  <<length, class>>
Better(a, b) == a[1] > b[1] \/ (a[1] = b[1] /\ a[2] > b[2])

Selected(file, order) == select_language(registry, "", file, order, FALSE)

IsBest(at, file, claim) ==
  /\ at.ok
  /\ \E i \in claim :
       /\ Configs[i].language = at.id
       /\ \A j \in claim : ~Better(Rank(Configs[j], file.name, file.text),
                                   Rank(Configs[i], file.name, file.text))

FileTypeDecides ==
  \A file \in AllFiles, order \in Orders(DOMAIN registry.lines) :
    LET claim == {i \in DOMAIN Configs : HasSuffix(Configs[i], file.name) # {}}
    IN  claim # {} => IsBest(Selected(file, order), file, claim)

\* The indices of a configuration refer to the list of names as it is now, which has
\* grown since: each is that of a name that matches the capture, and when all names are
\* in use that of the capture itself.
HighlightsResolve ==
  \A i \in DOMAIN Configs :
    LET cell == Configs[i].highlight
    IN  \A k \in DOMAIN cell.indices :
          LET index == cell.indices[k]
          IN  /\ index <= Len(highlight_names)
              /\ index # 0 => Matches(highlight_names[index], cell.captures[k])
              /\ use_all_highlight_names => highlight_names[index] = cell.captures[k]

\* A fault in a query is reported in the file it is in, at its place in that file.
ErrorsLocated ==
  \A i \in DOMAIN Configs :
    \A e \in tags_config(Configs[i]).error
           \cup UNION {highlight_config(Configs[i], highlight_names, use_all_highlight_names, paths).error :
                         paths \in QueryPaths} :
      QueryFile(Configs[i].root, e.file).fault = e.offset
=============================================================================
