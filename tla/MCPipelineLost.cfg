SPECIFICATION Spec
CONSTANTS
  root <- Single
  MsgTypes = {0}
  NoMessage = NoMessage
  Capacity = 1
  ProducerTries = 1
  PushTries = 1
  MaxMessages = 2
  CounterRange = 1000
INVARIANTS
  LossIsCounted
