SPECIFICATION FairSpec
CONSTANTS
  HiddenSymbols = {4}
  MAX_LINK_COUNT = 8
  MAX_ITERATOR_COUNT = 64
  MAX_VERSION_COUNT = 6
  MAX_VERSION_COUNT_OVERFLOW = 4
  MAX_SUMMARY_DEPTH = 16
  MaxCancellations = 1
  Alphabet <- Everything
  MaxLength = 4
  LanguageNames = {"grouping", "choice"}
  Languages <- MCLanguages
  Documents <- MCDocuments
INVARIANTS StackSound ResultCorrect
PROPERTY ParseReturns
