-------------------------- MODULE MCConfigurations --------------------------
EXTENDS Configurations

Given(files) == {files}
Default == {}
Queries(h, i, l, t) == [highlights |-> h, injections |-> i, locals |-> l, tags |-> t]
Plain == Queries(Default, Default, Default, Default)

G(path, scope, types, content, line, injection, queries) ==
  [path |-> path, scope |-> scope, file_types |-> types, content |-> content,
   first_line |-> line, injection |-> injection, outside |-> FALSE, queries |-> queries]

\* Two dialects that share a parser, a second language for the same file type, a
\* grammar that is given up at its second entry, and a bare one.
MCGrammars(dir) ==
  CASE dir = "c" ->
         << G("sub", "cpp", <<<<"h">>, <<"x", "h">>>>, "class", "shebang1", "cc", Plain),
            G(".", "c", <<<<"h">>, <<"c">>>>, "", "", "c", Plain),
            G(".", "c2", <<<<"Cfile">>>>, "", "", "", Plain) >>
    [] dir = "objc" ->
         << G(".", "objc", <<<<"h">>>>, "import", "shebang2", "c",
              Queries(Given(<<<<"highlights", 1>>, <<"highlights", 2>>>>), Default,
                      Given(<<<<"locals", 1>>>>), Default)),
            [G("sub", "lost", <<<<"z">>>>, "", "", "", Plain) EXCEPT !.outside = TRUE] >>
    [] OTHER -> <<>>

MCHasGrammarJson(dir) == dir \in {"c", "objc", "bare"}

MCMatchLength(e, text) ==
  CASE e = "class" /\ text = "class" -> 5
    [] e = "import" /\ text = "import" -> 6
    [] e = "shebang1" /\ text = "one" -> 3
    [] e = "shebang2" /\ text = "two" -> 3
    [] e = "c" /\ text = "c" -> 1
    [] e = "c" /\ text = "cc" -> 1
    [] e = "cc" /\ text = "cc" -> 2
    [] OTHER -> -1

Q(length, captures, fault) ==
  [exists |-> TRUE, length |-> length, captures |-> captures, fault |-> fault]

MCQueryFile(dir, f) ==
  CASE dir = "c" /\ f = <<"highlights", 0>> -> Q(3, <<<<"type">>, <<"fn", "call">>>>, -1)
    [] dir = "c" /\ f = <<"injections", 0>> -> Q(2, <<<<"injection">>>>, -1)
    [] dir = "c" /\ f = <<"locals", 0>> -> Q(2, <<<<"fn">>, <<"type">>>>, -1)
    [] dir = "c" /\ f = <<"tags", 0>> -> Q(2, <<<<"name">>>>, 1)
    [] dir = "objc" /\ f = <<"highlights", 1>> -> Q(2, <<<<"fn", "call">>, <<"fn">>>>, -1)
    [] dir = "objc" /\ f = <<"highlights", 2>> -> Q(3, <<<<"fn", "def">>>>, -1)
    [] dir = "objc" /\ f = <<"highlights", 3>> -> Q(3, <<<<"fn", "def">>>>, 1)
    [] dir = "objc" /\ f = <<"locals", 1>> -> Q(2, <<<<"type">>>>, -1)
    [] dir = "bare" /\ f = <<"highlights", 0>> -> Q(2, <<<<"def", "fn", "x">>>>, -1)
    [] OTHER -> [exists |-> FALSE, length |-> 0, captures |-> <<>>, fault |-> -1]

MCDirectories == <<"c", "objc">>
MCFileNames == {<<"a", "h">>, <<"a", "x", "h">>, <<"Cfile">>, <<"other">>}
MCTexts == {"class", "import", "one", "two"}
MCScopes == {"c2", "objc", "none"}
MCNameLists == {<<>>, <<<<"fn">>, <<"fn", "call">>, <<"call", "type">>>>}
MCQueryPaths ==
  { <<>>, <<<<"highlights", 1>>, <<"locals", 1>>, <<"highlights", 3>>>> }

\* The instance is one that the theorems of ConfigurationsProofs are about.
ASSUME DirectoryAssumption == GrammarsGiven /\ ContentsTold /\ QueriesGiven /\ CapturesTold
=============================================================================
