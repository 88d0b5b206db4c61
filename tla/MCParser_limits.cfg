SPECIFICATION Spec
CONSTANTS
  HiddenSymbols = {}
  MAX_LINK_COUNT = 2
  MAX_ITERATOR_COUNT = 2
  MAX_VERSION_COUNT = 1
  MAX_VERSION_COUNT_OVERFLOW = 1
  MAX_SUMMARY_DEPTH = 2
  MaxCancellations = 0
  Alphabet = {1, 2, 3}
  MaxLength = 6
  LanguageNames = {"grouping", "choice"}
  Languages <- MCLanguages
  Documents <- MCDocuments
INVARIANT LimitsHold
