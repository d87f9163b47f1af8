SPECIFICATION Spec
CONSTANTS
  root <- OneProducer
  MsgTypes = {0, 1}
  NoMessage = NoMessage
  Capacity = 2
  ProducerTries = 1
  PushTries = 1
  MaxMessages = 3
  CounterRange = 1000
INVARIANTS
  OrderedDelivery
  RoutedByRules
  CountersAreTrue
  ViolationsAreGaps
PROPERTIES
  ImplementsStreams
