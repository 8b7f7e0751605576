CONSTANTS
  t1 = t1
  t2 = t2
  t3 = t3
  s1 = s1
  s2 = s2
  a = a
  b = b
  Usages = {"free"}
  Threads = {t1, t2}
  Sources = {s1}
  Tags = {a, b}
  AnySource = AnySource
  AnyTag = AnyTag
  WantSources = {s1}
  WantTags = {a, b}
  Kinds = {"urecv", "uiprobe", "uprobe"}
  MaxMessages = 2
  MaxFailures = 0
SPECIFICATION MCSpec
INVARIANTS
  TypeOK
  MutualExclusion
  OneListener
  ActiveMeansListener
  ExactlyOnce
  ArrivalOrder
PROPERTIES
  ImplementsMailbox
CHECK_DEADLOCK FALSE
