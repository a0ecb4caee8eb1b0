SPECIFICATION Spec
CONSTANTS
  SizeMax = 255
  Keys <- MCKeys
  Values <- MCValues
  Excluded <- MCExcluded
  Capacities = {0, 5, 9, 16}
  CountMax = 4
CHECK_DEADLOCK FALSE
INVARIANTS
  EntriesStayInOrder
  CursorIsBehindSmallerKeys
  BuiltMapIsDeterministic
  GivesUpForAReason
PROPERTIES
  InsertionReturns
