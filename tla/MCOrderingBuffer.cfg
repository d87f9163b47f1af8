SPECIFICATION Spec
CONSTANTS
  Key <- TwoKeys
  MaxSequence = 3
  Capacity = 2
INVARIANTS
  TypeOK
  OutputInOrder
  NothingBuffered
  NoSecondChance
  SentCountsAttempts
