SPECIFICATION Spec
CONSTANTS
  SizeMax = 255
  Objects <- MCObjects
  Indices <- MCIndices
  Keys <- MCKeys
  DetEncoding <- MCDetEncoding
CHECK_DEADLOCK FALSE
INVARIANTS
  ElementsAreReadInOrder
  FindsTheValue
