SPECIFICATION FairSpec
CONSTANTS
  MaxRequests = 3
  MaxEvents = 3
  MaxParts = 3
  Capacity = 2
INVARIANTS
  TypeOK
  OwnAnswers
  ReadyForNext
  CompleteAnswers
  LagBounded
  OneAnswer
  FramesKept
PROPERTIES
  CallReturns
  ImplementsChannel
CHECK_DEADLOCK FALSE
