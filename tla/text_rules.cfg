SPECIFICATION Spec
CONSTANTS
  PathToken <- PathTokens
  RefToken <- RefTokens
  PatternChar <- PatternChars
  HostChar <- HostChars
  MaxPrefix = 3
  MaxPath = 5
  MaxRef = 7
  MaxPattern = 4
  MaxHost = 5
  None = None
INVARIANTS
  Contained
  NothingLegalRefused
  AcceptedAgain
  ShownNamesSelector
  CeilingByLabels
CHECK_DEADLOCK FALSE
