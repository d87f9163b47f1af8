SPECIFICATION FairSpec
CONSTANTS
  root <- OneProcessor
  MsgTypes = {0}
  NoMessage = NoMessage
  Capacity = 1
  ProducerTries = 2
  PushTries = 2
  MaxMessages = 1
  CounterRange = 1000
PROPERTIES
  SettledWhenTrafficEnds
  ProgramEnds
  JoinAdvances
