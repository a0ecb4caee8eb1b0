SPECIFICATION Spec
CONSTANTS
  SizeMax = 255
  Types <- GeneratedTypes
  Inputs <- MCInputs
  CallerValues <- MCCallerValues
  Capacities = {0, 1, 2, 3, 4, 6, 64}
CHECK_DEADLOCK FALSE
INVARIANTS
  TypeRoundTrips
