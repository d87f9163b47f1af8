SPECIFICATION FairSpec
CONSTANTS
  Size = 4
  Msg = {m1, m2, m3}
  NoMsg = NoMsg
INVARIANTS
  TypeOK
  NoDataRace
  ReadyIffPublished
  IInv
PROPERTIES
  ImplementsFifo
  ImplementsIndices
  EventuallyPopped
