CONSTANTS
  p1 = p1
  p2 = p2
  p3 = p3
  n1 = n1
  n2 = n2
  Procs = {p1, p2, p3}
  Node <- TwoNodes
  Lists <- SomeLists
  RankLists <- SomeRanks
  MaxCreated = 3
  MaxCopies = 1
  MaxSent = 2
  MaxProbes = 1
  MaxFailures = 1
SPECIFICATION MCSpec
INVARIANTS
  TypeOK
  RefsBalanced
  TeamsAgree
  SourceRight
CHECK_DEADLOCK FALSE
