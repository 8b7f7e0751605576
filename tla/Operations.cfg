CONSTANTS
  t1 = t1
  t2 = t2
  Threads = {t1, t2}
  MayCall <- EachBody
  InitialOps = 1
  MaxCalls = 3
  MaxQueued = 1
  MaxFailures = 1
SPECIFICATION MCSpec
INVARIANTS
  TypeOK
  Conserved
  NAOwns
  LossBounded
  NoNullWait
SYMMETRY Symmetry
CHECK_DEADLOCK FALSE
