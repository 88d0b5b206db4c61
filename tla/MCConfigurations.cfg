SPECIFICATION ConfSpec
CONSTANTS
  Grammars <- MCGrammars
  HasGrammarJson <- MCHasGrammarJson
  ParserDirectories <- MCDirectories
  CurrentDir = "bare"
  FileNames <- MCFileNames
  Texts <- MCTexts
  Scopes <- MCScopes
  InjectionStrings = {"c", "cc"}
  MatchLength <- MCMatchLength
  NameLists <- MCNameLists
  QueryFile <- MCQueryFile
  QueryPaths <- MCQueryPaths
  MaxConfigurations = 6
INVARIANTS
  RegistryConsistent
  FileTypeDecides
  HighlightsResolve
  ErrorsLocated
CHECK_DEADLOCK FALSE
