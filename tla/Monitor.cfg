SPECIFICATION FairSpec
CONSTANTS
  MaxCount = 1
INVARIANTS
  TypeOK
  StatsLagBehind
  LoopWithinLifetime
  FailedIsFounded
PROPERTIES
  WaitReturns
  FiguresOnlyGrow
