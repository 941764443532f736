SPECIFICATION Spec
CONSTANTS
  Ids = {1, 2}
  Bits = {0, 1}
  Octets = {0, 1}
  RawSize = 2
  TitleFilters <- MCTitleFilters
  RawFilters <- MCRawFilters
  MaxList = 2
INVARIANTS
  NoMatchReturnsFalse
CHECK_DEADLOCK FALSE
