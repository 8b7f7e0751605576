CONSTANTS
  Sizes = {3, 4, 5}
  Radixes = {2, 3}
  Programs <- Mixed
SPECIFICATION FairSpec
INVARIANTS
  TypeOK
  BarrierHolds
  ResultRight
  NoCrossTalk
  ReturnsClean
PROPERTIES
  EveryoneReturns
CHECK_DEADLOCK FALSE
