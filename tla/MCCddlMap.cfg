SPECIFICATION Spec
CONSTANTS
  SizeMax = 255
  Formats <- MCFormats
  Objects <- MCObjects
  CountMax = 7
CHECK_DEADLOCK FALSE
INVARIANTS
  RemainingIsUnclaimed
  NextStaysInMap
PROPERTIES
  ValidatesCddl
  ParsesEveryEntryOnce
