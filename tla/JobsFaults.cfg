SPECIFICATION Spec
CONSTANTS
  Jobs = {j1}
  Media = {m1}
  Targets = {t1, t2}
  Movies = {}
  KindOf <- AllHls
  MediaOf <- SameMedia
  ModeOf <- PlaysHls
  Subtitled = {m1}
  Retain = {TRUE, FALSE}
  Workers = {w1}
  Requests = {r1}
  Ops = {"enqueue", "cancel", "retry", "associate", "configure"}
  Faults = {"worker", "db"}
  MaxAttempts = 2
  NFiles = 2
  MaxCrashes = 0
  j1 = j1
  m1 = m1
  Null = Null
  Manual = Manual
INVARIANTS
  NoOrphanOutput
PROPERTIES
  SharedOriginalKept
CHECK_DEADLOCK FALSE
