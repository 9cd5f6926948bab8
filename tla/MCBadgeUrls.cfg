SPECIFICATION Spec
CONSTANTS
  MaxLength = 10
  BaseLength = 2
  Inputs <- MCInputs
INVARIANTS
  EachOnceInOrder
  FirstSupportedWins
  FewestLinks
CHECK_DEADLOCK FALSE
