SPECIFICATION Spec
CONSTANTS
  HiddenNames <- MCHidden
  NameOrder <- MCNameOrder
  MaxLength = 5
  Inputs <- MCInputs
INVARIANTS
  PreparationKeepsTrees
  TableParsesGrammar
  PrecedenceDecides
  ExtrasAnywhere
  MinimizationSafe
  RenderedTablesAgree
  NodeTypesHold
CHECK_DEADLOCK FALSE
