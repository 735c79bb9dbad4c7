SPECIFICATION CatalogueSpec
CONSTANTS
  Media = {m1}
  Jobs <- OneJob
  KindOf <- OneHls
  InputOf <- SameInput
  Direct = {m1}
  Links = {web}
  Playlists = {}
  Episodes <- TwoEpisodes
  Seasons = {s1, s2}
  MaxNumber = 2
  Legacy = {}
  Retained = {1}
  Subtitled = {}
  Requests = {r1, r2}
  Ops = {"create", "update", "remove", "enqueue"}
  Creates <- NewEpisodes
  Updates <- Edits
  Batches <- Lots
  m1 = m1
  s1 = s1
  s2 = s2
  web = web
  Null = Null
  None = None
INVARIANTS ConflictMeansLive
PROPERTIES ImplementsShelf RequestsNeverSteal ChecksBeforePublish
SYMMETRY RequestSymmetry
CHECK_DEADLOCK FALSE
