SPECIFICATION Spec
CONSTANTS
  SizeMax = 255
  Objects <- MCObjects
  Capacities = {0, 1, 2, 3, 5, 7, 8, 9, 12, 16, 26, 40}
CHECK_DEADLOCK FALSE
INVARIANTS
  WritesWhatWasSized
  ParsesBack
  BottomUpAgrees
PROPERTIES
  SerializesIfItFits
