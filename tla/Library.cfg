SPECIFICATION LibrarySpec
CONSTANTS
  Media = {m1, m2, m3}
  Jobs <- TwoJobs
  KindOf <- KindOfTwo
  InputOf <- InputOfTwo
  Direct = {m1, m3}
  Links = {}
  Playlists = {}
  Episodes <- OneEpisode
  Seasons = {s1}
  MaxNumber = 1
  Legacy = {}
  Retained = {}
  Subtitled = {}
  Requests = {r1}
  Ops = {"create", "update", "enqueue"}
  Creates <- Bodies
  Updates = {}
  Batches = {}
  Admins = {a1}
  MediaOps = {"publish", "unpublish", "deleteHls", "deleteRemux", "deleteOriginal", "deleteAsset"}
  Faults = {"network"}
  Filters = {"ALL", "DRAFT"}
  Order <- ByDate
  Limit = 2
  MaxClicks = 1
  MaxMeanwhile = 1
  m1 = m1
  m2 = m2
  m3 = m3
  s1 = s1
  Null = Null
  None = None
INVARIANTS RowsAgreeWithSelector
PROPERTIES AssignedIsDraft EndedJobsLeaveRows
CHECK_DEADLOCK FALSE
