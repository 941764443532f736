SPECIFICATION Spec
CONSTANTS
  Nibble = 5
  Sender = "little"
  Receiver = "big"
  TidWidth = 2
  RawWidth = 2
  KeyWidth = 1
  RawBytes <- MCRawBytes
  RawFilters <- MCRawFilters
  TitleFilters <- MCTitleFilters
  Keys <- MCKeys
  Flags = {1}
  Noise = {20}
  MaxList = 2
  MaxRounds = 1
INVARIANTS
  RawLengthBounded
CHECK_DEADLOCK FALSE
