SPECIFICATION FairSpec
CONSTANTS
  Jobs = {j1}
  Media = {m1}
  Targets = {t1, t2}
  Movies = {t2}
  KindOf <- AllRemux
  MediaOf <- SameMedia
  ModeOf <- PlaysHls
  Subtitled = {}
  Retain = {TRUE, FALSE}
  Workers = {w1}
  Requests = {r1}
  Ops = {"enqueue", "retry", "associate", "configure"}
  Faults = {"worker", "redis", "storage"}
  MaxAttempts = 2
  NFiles = 2
  MaxCrashes = 1
  j1 = j1
  m1 = m1
  Null = Null
  Manual = Manual
INVARIANTS
  ContentLinksRegistered
PROPERTIES
  ImplementsCatalogue
  JobsSettle
  FollowsLifecycle
CHECK_DEADLOCK FALSE
