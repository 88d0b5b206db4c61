SPECIFICATION Spec
CONSTANTS
  END = 7
  LARGE_CHARACTER_RANGE_COUNT = 1
  ADVANCE_MAP_RANGE_COUNT = 2
  Alphabetic <- MCLetters
  Inputs <- MCInputs
  Texts <- MCTexts
INVARIANTS
  NfaMatchesRules
  LongestMatch
  MergedStatesLexAlike
  KeywordsMatchWord
  RenderedLexerAgrees
CHECK_DEADLOCK FALSE
