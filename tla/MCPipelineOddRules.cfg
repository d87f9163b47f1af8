SPECIFICATION Spec
CONSTANTS
  root <- OddRules
  MsgTypes = {0, 1, 2, 3}
  NoMessage = NoMessage
  Capacity = 2
  ProducerTries = 1
  PushTries = 1
  MaxMessages = 2
  CounterRange = 1000
INVARIANTS
  OddRoutes
  RoutesInOrder
