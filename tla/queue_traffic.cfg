SPECIFICATION Spec
CONSTANTS
  Publishers = {p1, p2}
  PerPublisher = 3
  Messages <- MCMessages
  MaxSize = 2
  NoMessage = NoMessage
INVARIANTS
  EveryMessageAccounted
PROPERTIES
  KeepsChannel
  PublishReturns
CHECK_DEADLOCK FALSE
