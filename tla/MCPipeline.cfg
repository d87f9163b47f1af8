SPECIFICATION Spec
CONSTANTS
  root <- TwoWays
  MsgTypes = {0, 1}
  NoMessage = NoMessage
  Capacity = 1
  ProducerTries = 1
  PushTries = 1
  MaxMessages = 1
  CounterRange = 1000
INVARIANTS
  TypeOK
  Conserved
  CountersBalance
  DrainIsFinite
  FreedConfigUnread
  ReportIsFinal
  ReportAddsUp
