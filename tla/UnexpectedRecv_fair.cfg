CONSTANTS
  t1 = t1
  t2 = t2
  t3 = t3
  s1 = s1
  s2 = s2
  a = a
  b = b
  Usages = {"serial", "alike"}
  Threads = {t1, t2, t3}
  Sources = {s1, s2}
  Tags = {a, b}
  AnySource = AnySource
  AnyTag = AnyTag
  WantSources = {s1, AnySource}
  WantTags = {a, AnyTag}
  Kinds = {"urecv", "uiprobe", "uprobe"}
  MaxMessages = 3
  MaxFailures = 1
SPECIFICATION MCFairSpec
INVARIANTS
  NoOrphanWaiter
PROPERTIES
  MatchedProgress
  ImplementsFifoMailbox
CHECK_DEADLOCK FALSE
