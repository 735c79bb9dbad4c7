SPECIFICATION SerialMediaSpec
CONSTANTS
  Media = {m1}
  Jobs <- TwoJobs
  KindOf <- KindOfTwo
  InputOf <- InputOfAll
  Direct = {m1}
  Links = {web}
  Playlists = {}
  Episodes <- TwoEpisodes
  Seasons = {s1, s2}
  MaxNumber = 2
  Legacy = {}
  Retained = {1}
  Subtitled = {}
  Requests = {r1}
  Ops = {"create", "update", "enqueue"}
  Creates <- Drafts
  Updates <- Edits
  Batches <- Lots
  Admins = {a1}
  MediaOps = {"publish", "unpublish", "deleteHls", "deleteRemux", "deleteOriginal", "deleteAsset"}
  Faults = {"storage", "database"}
  m1 = m1
  s1 = s1
  s2 = s2
  web = web
  Null = Null
  None = None
INVARIANTS DeletedIsForgotten DeletionCanBeRetried SelectorAgrees
PROPERTIES OriginalInUseKept
CHECK_DEADLOCK FALSE
