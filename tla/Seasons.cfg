SPECIFICATION CatalogueSpec
CONSTANTS
  Media = {m1}
  Jobs <- OneJob
  KindOf <- OneHls
  InputOf <- SameInput
  Direct = {m1}
  Links = {web}
  Playlists = {}
  Episodes <- TwoEpisodes
  Seasons = {s1, s2}
  MaxNumber = 2
  Legacy = {}
  Retained = {1}
  Subtitled = {}
  Requests = {r1}
  Ops = {"create", "update", "bulk", "import", "publish", "copy", "remove",
         "season", "renumber", "removeSeason", "removeSeries"}
  Creates <- Drafts
  Updates <- Moves
  Batches <- Lots
  m1 = m1
  s1 = s1
  s2 = s2
  web = web
  Null = Null
  None = None
INVARIANTS RemovedSeasonIsEmpty
CHECK_DEADLOCK FALSE
