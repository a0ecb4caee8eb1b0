SPECIFICATION MCSpec
CONSTANTS
  MaxEntries = 6
  MaxLen = 16
  Inputs <- MCInputs
CHECK_DEADLOCK FALSE
INVARIANTS
  SortedParts
  NothingLost
  StackIsLogarithmic
PROPERTIES
  SortDecidesDuplicates
  ImplementsRotation
