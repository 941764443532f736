SPECIFICATION Spec
CONSTANTS
  a = a
  b = b
  c = c
  n1 = n1
  n2 = n2
  Others = {a, b, c}
  Own = own
  Foreign = {c}
  Names = {n1, n2, streetpass}
  Streetpass = streetpass
  MaxMoves = 2
SYMMETRY Interchangeable
INVARIANTS
  TypeOK
  Bystanders
  RadioIsFree
  ReadyToScan
CHECK_DEADLOCK FALSE
