SPECIFICATION MCSpec
CONSTANTS
  SizeMax = 255
  Strings <- MCStrings
  Texts <- MCTexts
CHECK_DEADLOCK FALSE
INVARIANTS
  ReadsInBounds
  ResultIsLexOrder
PROPERTIES
  DecidesUtf8
