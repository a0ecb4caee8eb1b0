SPECIFICATION MCSpec
CONSTANTS
  SizeMax = 255
  Calls <- MCCalls
  Inputs <- MCInputs
  Bounds <- MCBounds
  Strictness = {TRUE, FALSE}
CHECK_DEADLOCK FALSE
INVARIANTS
  RecursionIsBounded
PROPERTIES
  EquivDecidesMeaning
  AcceptsDistinctKeys
