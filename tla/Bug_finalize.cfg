CONSTANTS
  t1 = t1
  t2 = t2
  a = a
  b = b
  c = c
  Probe = Probe
  Null = Null
  Threads = {t1, t2}
  Requests <- MCRequests
  Direct = {b}
  Disciplined = FALSE
SPECIFICATION Spec
INVARIANTS
  FinalizeBlocks
CHECK_DEADLOCK FALSE
