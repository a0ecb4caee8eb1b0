SPECIFICATION MCSpec
CONSTANTS
  CountMax = 5
  Types <- MCTypes
  Objects <- MCObjects
  CallerValues <- MCCallerValues
  Rooms = {4, 5, 6, 9, 13, 20}
CHECK_DEADLOCK FALSE
INVARIANTS
  ArraysAreWhatTheCddlSays
  VerifiesWhatWasSigned
