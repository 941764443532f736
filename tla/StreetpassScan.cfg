SPECIFICATION Spec
CONSTANTS
  Peers = {alice, bob}
  Filters = {wanted, other}
  Matching = {wanted}
  Target = bob
  None = None
  Timeouts = {0, 2}
  Word = 4
  MaxTicks = 5
  MaxFrames = 3
  Capacity = 2
INVARIANTS
  TypeOK
  FirstAcceptedWins
  ThrowsOnlyOnMalformed
  OneLateFrame
  NotEarly
PROPERTIES
  StopIsFinal
CHECK_DEADLOCK FALSE
