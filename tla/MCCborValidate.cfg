SPECIFICATION MCSpec
CONSTANTS
  SizeMax = 255
  Inputs <- MCInputs
CHECK_DEADLOCK FALSE
INVARIANTS
  TypeOK
  ReturnsDetLength
  RawPassDecidesValidity
  CountsStayInBuffer
  PassesEndTogether
  KeysStayInBuffer
PROPERTIES
  Returns
