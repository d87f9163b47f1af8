SPECIFICATION Spec
CONSTANTS
  root <- Single
  MsgTypes = {0, 1}
  NoMessage = NoMessage
  Capacity = 3
  ProducerTries = 1
  PushTries = 1
  MaxMessages = 3
  CounterRange = 1000
INVARIANTS
  ViolationMeansDisorder
