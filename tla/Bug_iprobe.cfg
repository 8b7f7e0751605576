CONSTANTS
  t1 = t1
  t2 = t2
  t3 = t3
  s1 = s1
  s2 = s2
  a = a
  b = b
  Usages = {"free"}
  Threads = {t1, t2}
  Sources = {s1}
  Tags = {a, b}
  AnySource = AnySource
  AnyTag = AnyTag
  WantSources = {s1}
  WantTags = {a, b}
  Kinds = {"uiprobe"}
  MaxMessages = 1
  MaxFailures = 0
SPECIFICATION MCFairSpec
PROPERTIES
  IprobeReturns
CHECK_DEADLOCK FALSE
