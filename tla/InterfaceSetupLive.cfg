SPECIFICATION FairSpec
CONSTANTS
  Others = {a, c}
  Own = own
  Foreign = {c}
  Names = {n1, n2, streetpass}
  Streetpass = streetpass
  MaxMoves = 1
PROPERTIES
  NothingLeftBehind
CHECK_DEADLOCK FALSE
