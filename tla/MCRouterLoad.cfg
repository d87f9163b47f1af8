SPECIFICATION FairSpec
CONSTANTS
  root <- ThreeProducers
  MsgTypes = {0, 1}
  NoMessage = NoMessage
  Capacity = 1
  PushTries = 2
  CounterRange = 2
PROPERTIES
  OnlyAFloodStarves
