SPECIFICATION Spec
CONSTANTS
  root <- Single
  MsgTypes = {0}
  NoMessage = NoMessage
  Capacity = 2
  ProducerTries = 1
  PushTries = 1
  MaxMessages = 1
  CounterRange = 1000
INVARIANTS
  PassedMeansDelivered
