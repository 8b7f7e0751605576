CONSTANTS
  t1 = t1
  t2 = t2
  a = a
  b = b
  c = c
  Probe = Probe
  Null = Null
  Threads = {t1, t2}
  Requests <- MCRequests
  Direct = {b}
  Disciplined = TRUE
SPECIFICATION FairSpec
INVARIANTS
  TypeOK
  FreedOnlyWhenSet
  FinalizeBlocks
PROPERTIES
  AllHandedBack
  FinalizeReturns
CHECK_DEADLOCK FALSE
