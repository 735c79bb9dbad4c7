SPECIFICATION Spec
CONSTANTS
  Jobs = {j1}
  Media = {m1}
  Targets = {t1}
  Movies = {}
  KindOf <- AllHls
  MediaOf <- SameMedia
  ModeOf <- PlaysHls
  Subtitled = {}
  Retain = {TRUE, FALSE}
  Workers = {w1, w2}
  Requests = {r1, r2}
  Ops = {"enqueue", "retry", "associate", "configure"}
  Faults = {"worker"}
  MaxAttempts = 2
  NFiles = 2
  MaxCrashes = 0
  j1 = j1
  m1 = m1
  Null = Null
  Manual = Manual
INVARIANTS
  LinkedOutputUsable
  OneRunner
  NoLostAssociation
  FailedKeepsOriginal
  OriginalSettles
PROPERTIES
  OriginalRemovedAfterAssociation
CHECK_DEADLOCK FALSE
