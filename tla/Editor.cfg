SPECIFICATION EditorSpec
CONSTANTS
  Media = {m1}
  Jobs <- OneJob
  KindOf <- KindOfTwo
  InputOf <- InputOfAll
  Direct = {}
  Links = {web}
  Playlists = {}
  Episodes <- OneEpisode
  Seasons = {s1}
  MaxNumber = 1
  Legacy = {}
  Retained = {1}
  Subtitled = {}
  Requests = {r1}
  Ops = {"create", "update", "enqueue"}
  Creates = {}
  Updates = {}
  Batches = {}
  Admins = {}
  MediaOps = {}
  Faults = {}
  MaxChanges = 2
  MaxEdits = 1
  MaxMeanwhile = 0
  m1 = m1
  web = web
  Null = Null
  None = None
INVARIANTS PatchesWhatItShows
PROPERTIES OtherFieldsKeepVideo
CHECK_DEADLOCK FALSE
