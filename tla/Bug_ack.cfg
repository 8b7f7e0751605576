CONSTANTS
  s1 = s1
  s2 = s2
  r1 = r1
  r2 = r2
  A = A
  B = B
  Threads = {s1, s2, r1, r2}
  Nodes = {A, B}
  Home <- MCHome
  AnyNode = AnyNode
  Plans <- SameTag
  MayDrop = FALSE
SPECIFICATION Spec
INVARIANTS
  ReadBeforeReturn
CHECK_DEADLOCK FALSE
