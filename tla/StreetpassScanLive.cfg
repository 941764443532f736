SPECIFICATION FairSpec
CONSTANTS
  Peers = {bob}
  Filters = {wanted}
  Matching = {wanted}
  Target = bob
  None = None
  Timeouts = {0, 2}
  Word = 4
  MaxTicks = 5
  MaxFrames = 2
  Capacity = 2
PROPERTIES
  EndsWithNextFrame
CHECK_DEADLOCK FALSE
