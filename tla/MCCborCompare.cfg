SPECIFICATION Spec
CONSTANTS
  SizeMax = 255
  Objects <- MCObjects
CHECK_DEADLOCK FALSE
INVARIANTS
  RestDecides
  StackIsMemoryDepth
PROPERTIES
  ComparesEncodings
