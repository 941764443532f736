SPECIFICATION Spec
CONSTANTS
  Shapes <- MCShapes
  MaxInitial = 2
  MaxDevices = 4
  MaxRemoved = 1
  MaxParts = 4
  Errors <- MCErrors
INVARIANTS
  TypeOK
  MissingBounded
  NoRepeats
  OnlySupported
  Described
CHECK_DEADLOCK FALSE
