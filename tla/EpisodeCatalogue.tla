-------------------------- MODULE EpisodeCatalogue ---------------------------
(***************************************************************************)
(* Seasons and episodes of a series: EpisodesService, EpisodeImportService *)
(* and SeasonsService over the rows they keep in PostgreSQL, with the jobs *)
(* of the processing pipeline as far as these services see them.           *)
(*                                                                         *)
(* A handler that reads before its transaction is two actions: the reads,  *)
(* kept in the request's slot, then the transaction.  The transactions are *)
(* serializable, hence atomic; one that PostgreSQL refuses changes nothing *)
(* (Abort).  The worker's commit, its reading of the destination and its   *)
(* association are those of VideoProcessing.                               *)
(*                                                                         *)
(* Operators whose name ends in "Bug" are plausible mistakes in the        *)
(* definition that follows them; no behaviour uses them.                   *)
(***************************************************************************)
EXTENDS EpisodePlayback, Sequences

CONSTANTS
  Episodes,   \* rows that may be created; numbered in the order of creation
  Seasons,    \* rows of seasons
  MaxNumber,  \* bound on the numbers of episodes and seasons
  Legacy,     \* episodes archived before archiving changed their number
  Retained,   \* jobs created to keep their original
  Subtitled,  \* jobs with an extracted text subtitle
  Requests,   \* administrator requests that can be in flight together
  Ops,        \* operations the administrators call
  Creates,    \* bodies of POST /admin/episodes
  Updates,    \* bodies of PATCH /admin/episodes/:id
  Batches,    \* batches of bulk creation and of CSV import
  None        \* a field sent empty, where Null is a field left out

AllOps == {"create", "update", "bulk", "import", "publish", "copy", "remove",
           "season", "renumber", "removeSeason", "removeSeries", "enqueue"}

Numbers == 1..MaxNumber

\* Every request in flight may archive a row once more.
Floor == -(2 * Cardinality(Episodes) + Cardinality(Requests))

Field(S) == S \cup {Null}

Dto ==
  [season: Field(Seasons), number: Field(Numbers), job: Field(Jobs),
   media: Media \cup {Null, None},
   url: Links \cup Media \cup Jobs \cup {Null, None},   \* videoUrl and originalVideoUrl, sent together
   mode: Field(Modes), published: Field(BOOLEAN)]

BatchItem == [number: Field(Numbers), url: Links, published: BOOLEAN]

ASSUME CatalogueAssumption ==
  /\ Episodes \subseteq Nat /\ IsFiniteSet(Episodes) /\ IsFiniteSet(Requests)
  /\ Seasons # {} /\ MaxNumber \in Nat \ {0}
  /\ Legacy \subseteq Episodes
  /\ Subtitled \subseteq Jobs /\ Retained \subseteq Jobs
  /\ Ops \subseteq AllOps
  /\ Null \notin Episodes /\ Null \notin Seasons /\ Null \notin BOOLEAN /\ Null \notin Int
  /\ Null \notin Modes
  /\ None \notin Media \cup Links \cup {Null}
  /\ Creates \cup Updates \subseteq Dto
  /\ \A d \in Creates : d.number # Null /\ None \notin {d.media, d.url}
  /\ Batches \subseteq Seq(BatchItem)

VARIABLES
  series,   \* the series is live
  season,   \* Season rows
  episode,  \* Episode rows
  media,    \* MediaFile rows of originals
  job,      \* VideoProcessingJob rows
  dest,     \* destination a worker has read and not yet associated
  req       \* requests in flight

catalogueVars == <<series, season, episode, media, job, dest, req>>

EpisodeRow ==
  [state: {"none", "live", "archived"},
   season: Field(Seasons),
   number: Int,                  \* below zero once archived
   media: Field(Media),          \* mediaFileId
   mode: Modes,                  \* playbackMode
   url: Field(Links \cup Media \cup Jobs), \* originalVideoUrl
   hls: Field(Jobs),             \* job whose output is processedVideoUrl
   remux: Field(Jobs),           \* job whose output is remuxedVideoUrl
   published: BOOLEAN,
   def: Field(Jobs)]             \* job the default subtitle track comes from

SeasonRow == [state: {"none", "live", "removed"}, number: 0..MaxNumber, published: BOOLEAN]

Reply == {"ok", "rejected", "missing", "conflict", "taken", "failed"}

Slot ==
  [pc: {"idle", "update", "remove", "publish", "copy", "import", "renumber", "removeSeason"},
   e: Field(Episodes), row: EpisodeRow, dto: Dto, es: SUBSET Episodes,
   batch: Seq(BatchItem), sn: Field(Seasons)]

NoEpisode ==
  [state |-> "none", season |-> Null, number |-> 0, media |-> Null, mode |-> "ORIGINAL",
   url |-> Null, hls |-> Null, remux |-> Null, published |-> FALSE, def |-> Null]

NoDto ==
  [season |-> Null, number |-> Null, job |-> Null, media |-> Null, url |-> Null,
   mode |-> Null, published |-> Null]

Idle ==
  [pc |-> "idle", e |-> Null, row |-> NoEpisode, dto |-> NoDto, es |-> {}, batch |-> <<>>, sn |-> Null]

Live == {e \in Episodes : episode[e].state = "live"}
LiveSeason(s) == s \in Seasons /\ season[s].state = "live"

\* The answer is not kept: nothing the services do later depends on it.
Answer(r, answer) == answer \in Reply /\ req' = [req EXCEPT ![r] = Idle]
Await(r, slot) == req' = [req EXCEPT ![r] = slot]

-----------------------------------------------------------------------------
(* Numbers: the index on (seasonId, number) covers the archived rows too *)

\* The numbers of a season have an index that is not unique.
HolderBug(ep, s, n) == {}

\* The rows that the unique index compares with a new one.
Holder(ep, s, n) == {e \in Episodes : ep[e].state # "none" /\ ep[e].season = s /\ ep[e].number = n}

ArchivedNumber(ep, s) ==
  LET below == {n \in Floor..(-1) : Holder(ep, s, n) # {}} IN
  IF below = {} THEN -1 ELSE (CHOOSE n \in below : \A k \in below : n <= k) - 1

Archived(ep, s, n) == {e \in Holder(ep, s, n) : ep[e].state = "archived"}

\* Creation and edition forget the archived rows.
ReleasedBug(ep, s, n) == ep

\* releaseArchivedNumber, its update of the episode.
Released(ep, s, n) ==
  [e \in Episodes |->
     IF e \in Archived(ep, s, n)
       THEN [ep[e] EXCEPT !.number = ArchivedNumber(ep, s)] ELSE ep[e]]

\* The jobs of the episodes `es` lose their destination.
Freed(jobs, es) ==
  [j \in Jobs |-> IF jobs[j].target \in es
                    THEN [jobs[j] EXCEPT !.target = Null, !.assoc = FALSE] ELSE jobs[j]]

\* releaseArchivedNumber, its update of the jobs.
FreedBy(jobs, ep, s, n) == Freed(jobs, Archived(ep, s, n))

\* A live row holds the number that a row gets.
Clash(ep, e, s, n) == \E o \in Holder(ep, s, n) \ {e} : ep[o].state = "live"

Fresh(ep) == LET free == {e \in Episodes : ep[e].state = "none"} IN
             CHOOSE e \in free : \A k \in free : e <= k

-----------------------------------------------------------------------------
(* Jobs an episode may take *)

\* A job of another episode may be taken.
LinkableBug(j, e) ==
  /\ job[j].status \in {"ACTIVE", "COMPLETED"}
  /\ job[j].status = "COMPLETED" => job[j].output

\* linkableJob and the condition of reserveJob; e is Null for a new episode.
Linkable(j, e) ==
  /\ job[j].status \in {"ACTIVE", "COMPLETED"}
  /\ job[j].target \in {Null, e}
  /\ job[j].status = "COMPLETED" => job[j].output

\* reserveJob
Reserved(jobs, j, e) ==
  IF j = Null THEN jobs
  ELSE [jobs EXCEPT ![j].target = e, ![j].assoc = (jobs[j].status = "COMPLETED")]

\* createJobSubtitles writes the first track as the default one.
Subtitles(j) == j # Null /\ j \in Subtitled /\ job[j].status = "COMPLETED"

\* The episode has a default track already, and it is of another job.
SecondDefault(j, e) == Subtitles(j) /\ episode[e].def \notin {Null, j}

\* The sources of a body exclude each other.
OneSource(d) == Cardinality({d.job, d.media, d.url} \ {Null, None}) <= 1

\* The jobs whose versions count: the one given, or those of the file.
Considered(j, m) == IF j # Null THEN {j} ELSE InputJobs(m)

SourceOf(j, m) == IF j # Null THEN InputOf[j] ELSE m

-----------------------------------------------------------------------------
(* POST /admin/episodes *)

CreateMode(d) ==
  IF d.mode # Null THEN d.mode ELSE DefaultMode(job, d.url, d.job, d.media)

CreateVersions(d) ==
  LET m == SourceOf(d.job, d.media) IN
  IF m # Null THEN Versions(job, m, Considered(d.job, m)) ELSE [NoVersions EXCEPT !.url = d.url]

\* Publishing asks for a source that plays in the selected mode.
CreateReady(d) ==
  LET m == SourceOf(d.job, d.media) IN
  d.published = TRUE =>
    IF m # Null THEN SelectedReason(media, job, CreateMode(d), m, Considered(d.job, m), d.job # Null) = "ready"
                ELSE LegacyReason(media, job, CreateMode(d), d.url) = "ready"

CreateReply(d) ==
  CASE ~OneSource(d) \/ ~series \/ ~LiveSeason(d.season) -> "rejected"
    [] OTHER ->
       CASE d.job # Null /\ ~Linkable(d.job, Null) -> "conflict"
         [] d.media # Null /\ media[d.media].status = "DELETED" -> "missing"
         [] ~CreateReady(d) -> "rejected"
         [] OTHER -> IF Holder(Released(episode, d.season, d.number), d.season, d.number) # {}
                       THEN "taken" ELSE "ok"

NewEpisode(d) ==
  LET v == CreateVersions(d)
      m == SourceOf(d.job, d.media)
  IN
  [state |-> "live", season |-> d.season, number |-> d.number, media |-> m,
   mode |-> CreateMode(d), url |-> v.url, hls |-> v.hls, remux |-> v.remux,
   published |-> d.published = TRUE /\ (m = Null \/ Playing(v, CreateMode(d), m) # Null),
   def |-> IF Subtitles(d.job) THEN d.job ELSE Null]

Create(r, d) ==
  LET e == Fresh(episode) IN
  /\ "create" \in Ops
  /\ req[r].pc = "idle" /\ \E o \in Episodes : episode[o].state = "none"
  /\ Answer(r, CreateReply(d))
  /\ IF CreateReply(d) = "ok"
       THEN /\ episode' = [Released(episode, d.season, d.number) EXCEPT ![e] = NewEpisode(d)]
            /\ job' = Reserved(FreedBy(job, episode, d.season, d.number), d.job, e)
       ELSE UNCHANGED <<episode, job>>
  /\ UNCHANGED <<series, season, media, dest>>

-----------------------------------------------------------------------------
(* PATCH /admin/episodes/:id *)

\* The season the body names or the episode has, read before the transaction.
UpdateSeason(s) == IF s.dto.season # Null THEN s.dto.season ELSE s.row.season

UpdateBegin(r, e, d) ==
  LET slot == [Idle EXCEPT !.pc = "update", !.e = e, !.row = episode[e], !.dto = d] IN
  /\ "update" \in Ops
  /\ req[r].pc = "idle"
  /\ episode[e].state # "none"
  /\ CASE ~OneSource(d) -> Answer(r, "rejected")
       [] OneSource(d) /\ e \notin Live -> Answer(r, "missing")
       [] OneSource(d) /\ e \in Live /\ ~LiveSeason(UpdateSeason(slot)) -> Answer(r, "rejected")
       [] OTHER -> Await(r, slot)
  /\ UNCHANGED <<series, season, episode, media, job, dest>>

\* mediaIdToResolve: a body that sets the mode or publishes brings the current file in.
UpdateMedia(s) ==
  CASE s.dto.media \notin {Null, None} -> s.dto.media
    [] OTHER -> IF s.dto.mode # Null \/ s.dto.published = TRUE THEN s.row.media ELSE Null

MediaChanged(s) ==
  s.dto.media # Null /\ (IF s.dto.media = None THEN Null ELSE s.dto.media) # s.row.media

SubmittedUrl(s) == IF s.dto.url = None THEN Null ELSE s.dto.url

UpdateMode(s) ==
  CASE s.dto.mode # Null -> s.dto.mode
    [] OTHER -> IF s.dto.job # Null \/ MediaChanged(s)
                  THEN DefaultMode(job, SubmittedUrl(s), s.dto.job, UpdateMedia(s)) ELSE s.row.mode

\* processingReferenceChanged and videoReferenceChanged
ProcessingChanged(s) == s.dto.job # Null \/ MediaChanged(s) \/ s.dto.url # Null
ReferenceChanged(s) == ProcessingChanged(s) \/ s.dto.mode # Null

\* The file whose versions the row gets: the job's, or the one resolved.
UpdateSource(s) == SourceOf(s.dto.job, UpdateMedia(s))

\* An edition that leaves the video alone keeps what the row has and `v` has not.
OrCurrent(v, s) ==
  IF ReferenceChanged(s) THEN v
  ELSE [url |-> IF v.url # Null THEN v.url ELSE s.row.url,
        hls |-> IF v.hls # Null THEN v.hls ELSE s.row.hls,
        remux |-> IF v.remux # Null THEN v.remux ELSE s.row.remux]

UpdateVersions(s) ==
  LET m == UpdateSource(s)
      link == SubmittedUrl(s)
  IN
  CASE m # Null -> OrCurrent(Versions(job, m, Considered(s.dto.job, m)), s)
    [] m = Null /\ link # Null -> [NoVersions EXCEPT !.url = link]
    [] OTHER -> OrCurrent(NoVersions, s)

\* nextVideoUrl
UpdatePlaying(s) == Playing(UpdateVersions(s), UpdateMode(s), UpdateSource(s))

\* nextVideoUrl is set; a submitted link is the fallback of an unready file.
HasVideo(s) ==
  IF UpdateSource(s) # Null THEN UpdatePlaying(s) # Null \/ SubmittedUrl(s) # Null
                            ELSE UpdateVersions(s).url # Null

\* A published episode needs an address, which may be that of a file at work.
UpdateReadyBug(s) == s.dto.published = TRUE => HasVideo(s)

\* requireReady, and the two refusals of a publication without video.
UpdateReady(s) ==
  LET m == UpdateSource(s) IN
  /\ m # Null /\ (s.dto.published = TRUE \/ (s.row.published /\ ReferenceChanged(s))) =>
       SelectedReason(media, job, UpdateMode(s), m, Considered(s.dto.job, m), s.dto.job # Null) = "ready"
  /\ m = Null /\ s.dto.published = TRUE =>
       LegacyReason(media, job, UpdateMode(s), UpdateVersions(s).url) = "ready"
  /\ s.dto.published = TRUE => HasVideo(s)

\* The rows after releaseArchivedNumber.
UpdateReleased(s) ==
  IF s.dto.number = Null THEN episode ELSE Released(episode, UpdateSeason(s), s.dto.number)

UpdateNumber(s) == IF s.dto.number = Null THEN UpdateReleased(s)[s.e].number ELSE s.dto.number

UpdateReply(s) ==
  CASE s.dto.job # Null /\ ~Linkable(s.dto.job, s.e) -> "conflict"
    [] UpdateMedia(s) # Null /\ media[UpdateMedia(s)].status = "DELETED" -> "missing"
    [] OTHER ->
       CASE ~UpdateReady(s) -> "rejected"
         [] Holder(UpdateReleased(s), UpdateSeason(s), UpdateNumber(s)) \ {s.e} # {} -> "taken"
         [] OTHER -> IF SecondDefault(s.dto.job, s.e) THEN "taken" ELSE "ok"

UpdatedRow(s) ==
  LET v == UpdateVersions(s) IN
  [UpdateReleased(s)[s.e] EXCEPT
     !.season = UpdateSeason(s), !.number = UpdateNumber(s),
     !.media = CASE s.dto.job # Null -> InputOf[s.dto.job]
                 [] s.dto.job = Null /\ s.dto.media # Null -> UpdateMedia(s)
                 [] OTHER -> s.row.media,
     !.mode = UpdateMode(s), !.url = v.url, !.hls = v.hls, !.remux = v.remux,
     !.published = CASE s.dto.published # Null -> s.dto.published /\ HasVideo(s)
                     [] s.dto.published = Null /\ ReferenceChanged(s) -> s.row.published /\ HasVideo(s)
                     [] OTHER -> @,
     !.def = IF Subtitles(s.dto.job) THEN s.dto.job ELSE @]

\* The jobs of the episode that process another original than the selected one.
UpdateDropped(s) ==
  IF ~ProcessingChanged(s) THEN {}
  ELSE {j \in Jobs : job[j].target = s.e /\ (UpdateSource(s) = Null \/ InputOf[j] # UpdateSource(s))}

UpdateJobs(s) ==
  LET freed == IF s.dto.number = Null THEN job
               ELSE FreedBy(job, episode, UpdateSeason(s), s.dto.number)
  IN
  Reserved([j \in Jobs |-> IF j \in UpdateDropped(s)
                             THEN [freed[j] EXCEPT !.target = Null, !.assoc = FALSE] ELSE freed[j]],
           s.dto.job, s.e)

\* The transaction updates the row by its id: it may have been archived meanwhile.
Update(r) ==
  LET s == req[r] IN
  /\ s.pc = "update"
  /\ Answer(r, UpdateReply(s))
  /\ IF UpdateReply(s) = "ok"
       THEN /\ episode' = [UpdateReleased(s) EXCEPT ![s.e] = UpdatedRow(s)]
            /\ job' = UpdateJobs(s)
       ELSE UNCHANGED <<episode, job>>
  /\ UNCHANGED <<series, season, media, dest>>

\* A transaction that PostgreSQL refuses to serialize, or a lost connection.
Abort(r) ==
  /\ req[r].pc # "idle"
  /\ Answer(r, "failed")
  /\ UNCHANGED <<series, season, episode, media, job, dest>>

-----------------------------------------------------------------------------
(* Batches: POST /admin/episodes/bulk, and the CSV import *)

LiveNumbers(ep, s) == {n \in Numbers : \E e \in Holder(ep, s, n) : ep[e].state = "live"}

HighestLive(s) == IF LiveNumbers(episode, s) = {} THEN 0 ELSE Latest(LiveNumbers(episode, s))

Requested(b) == {b[i].number : i \in DOMAIN b} \ {Null}

BatchEpisode(item, s, n) ==
  [NoEpisode EXCEPT !.state = "live", !.season = s, !.number = n, !.url = item.url,
                    !.mode = DefaultMode(job, item.url, Null, Null), !.published = item.published]

\* No two items of a batch ask for the same number.
Distinct(b) == \A i, k \in DOMAIN b : b[i].number = b[k].number => b[i].number = Null \/ i = k

\* The numbers a batch gets, when no live row or other item has one of them: an
\* automatic number follows the highest so far.
Numberings(s, b) ==
  {f \in [DOMAIN b -> Numbers \ LiveNumbers(episode, s)] :
     /\ \A i, k \in DOMAIN b : f[i] = f[k] => i = k
     /\ \A i \in DOMAIN b :
          f[i] = IF b[i].number # Null THEN b[i].number
                 ELSE Latest({HighestLive(s)} \cup {f[k] : k \in 1..(i - 1)}) + 1}

\* releaseArchivedNumber for the numbers of a batch, one after the other.
BatchReleased(s, f) ==
  LET Before(n) == {k \in DOMAIN f : k < (CHOOSE i \in DOMAIN f : f[i] = n)
                                     /\ Archived(episode, s, f[k]) # {}}
  IN
  [e \in Episodes |->
     IF \E i \in DOMAIN f : e \in Archived(episode, s, f[i])
       THEN [episode[e] EXCEPT !.number = ArchivedNumber(episode, s) - Cardinality(Before(@))]
       ELSE episode[e]]

\* The rows `ep` and those of a batch, created in its order.
Inserted(ep, s, b, f) ==
  LET free == {e \in Episodes : episode[e].state = "none"}
      Turn(e) == Cardinality({k \in free : k <= e})
  IN
  [e \in Episodes |->
     IF e \in free /\ Turn(e) <= Len(b) THEN BatchEpisode(b[Turn(e)], s, f[Turn(e)]) ELSE ep[e]]

BulkReply(s, b) ==
  CASE ~series \/ ~LiveSeason(s) -> "rejected"
    [] OTHER ->
       CASE ~Distinct(b) -> "rejected"
         [] Requested(b) \cap LiveNumbers(episode, s) # {} -> "conflict"
         [] OTHER -> IF Numberings(s, b) = {} THEN "taken" ELSE "ok"

\* The lots are not checked for readiness.
Bulk(r, s, b) ==
  /\ "bulk" \in Ops
  /\ req[r].pc = "idle"
  /\ Cardinality({e \in Episodes : episode[e].state = "none"}) >= Len(b)
  /\ Answer(r, BulkReply(s, b))
  /\ IF BulkReply(s, b) = "ok"
       THEN \E f \in Numberings(s, b) :
              /\ episode' = Inserted(BatchReleased(s, f), s, b, f)
              /\ job' = Freed(job, UNION {Archived(episode, s, f[i]) : i \in DOMAIN f})
       ELSE UNCHANGED <<episode, job>>
  /\ UNCHANGED <<series, season, media, dest>>

\* preview(): the season by its number, and no number twice or held by a live row.
Import(r, s, b) ==
  /\ "import" \in Ops
  /\ req[r].pc = "idle"
  /\ Null \notin {b[i].number : i \in DOMAIN b}
  /\ IF series /\ LiveSeason(s) /\ Distinct(b) /\ Requested(b) \cap LiveNumbers(episode, s) = {}
       THEN Await(r, [Idle EXCEPT !.pc = "import", !.sn = s, !.batch = b])
       ELSE Answer(r, "rejected")
  /\ UNCHANGED <<series, season, episode, media, job, dest>>

\* createMany neither releases archived numbers nor looks at the season again.
ImportCommit(r) ==
  LET s == req[r].sn
      b == req[r].batch
  IN
  /\ req[r].pc = "import"
  /\ Cardinality({e \in Episodes : episode[e].state = "none"}) >= Len(b)
  /\ IF \E n \in Requested(b) : Holder(episode, s, n) # {}
       THEN Answer(r, "conflict") /\ UNCHANGED episode
       ELSE /\ Answer(r, "ok")
            /\ episode' = Inserted(episode, s, b, [i \in DOMAIN b |-> b[i].number])
  /\ UNCHANGED <<series, season, media, job, dest>>

-----------------------------------------------------------------------------
(* PATCH /admin/episodes/publish, copy-settings and DELETE *)

\* All the episodes exist and, to be published, all of them play.
Publish(r, es, to) ==
  /\ "publish" \in Ops
  /\ req[r].pc = "idle"
  /\ CASE ~(es \subseteq Live) -> Answer(r, "rejected")
       [] es \subseteq Live /\ to /\ (\E e \in es : Reason(media, job, episode[e]) # "ready") ->
            Answer(r, "conflict")
       [] OTHER -> Await(r, [Idle EXCEPT !.pc = "publish", !.es = es, !.dto.published = to])
  /\ UNCHANGED <<series, season, episode, media, job, dest>>

PublishCommit(r) ==
  LET es == req[r].es IN
  /\ req[r].pc = "publish"
  /\ IF es \subseteq Live
       THEN /\ Answer(r, "ok")
            /\ episode' = [e \in Episodes |->
                 IF e \in es THEN [episode[e] EXCEPT !.published = req[r].dto.published] ELSE episode[e]]
       ELSE Answer(r, "rejected") /\ UNCHANGED episode
  /\ UNCHANGED <<series, season, media, job, dest>>

Copy(r, e, es) ==
  /\ "copy" \in Ops
  /\ req[r].pc = "idle"
  /\ e \notin es /\ es # {}
  /\ CASE e \notin Live -> Answer(r, "missing")
       [] e \in Live /\ ~(es \subseteq Live) -> Answer(r, "rejected")
       [] OTHER -> Await(r, [Idle EXCEPT !.pc = "copy", !.row = episode[e], !.es = es])
  /\ UNCHANGED <<series, season, episode, media, job, dest>>

\* The video columns alone; published stays, and so do the jobs of the targets.
CopyCommit(r) ==
  LET row == req[r].row IN
  /\ req[r].pc = "copy"
  /\ Answer(r, "ok")
  /\ episode' = [e \in Episodes |->
       IF e \in req[r].es \cap Live
         THEN [episode[e] EXCEPT !.media = row.media, !.mode = row.mode, !.url = row.url,
                                 !.hls = row.hls, !.remux = row.remux]
         ELSE episode[e]]
  /\ UNCHANGED <<series, season, media, job, dest>>

RemoveEpisode(r, e) ==
  /\ "remove" \in Ops
  /\ req[r].pc = "idle"
  /\ episode[e].state # "none"
  /\ IF e \in Live
       THEN Await(r, [Idle EXCEPT !.pc = "remove", !.e = e, !.sn = episode[e].season])
       ELSE Answer(r, "missing")
  /\ UNCHANGED <<series, season, episode, media, job, dest>>

\* The row is archived under a number below those of the season it was read with.
RemoveEpisodeCommit(r) ==
  LET e == req[r].e
      n == ArchivedNumber(episode, req[r].sn)
  IN
  /\ req[r].pc = "remove"
  /\ IF Holder(episode, episode[e].season, n) \ {e} # {}
       THEN Answer(r, "taken") /\ UNCHANGED <<episode, job>>
       ELSE /\ Answer(r, "ok")
            /\ episode' = [episode EXCEPT ![e].state = "archived", ![e].number = n, ![e].published = FALSE]
            /\ job' = Freed(job, {e})
  /\ UNCHANGED <<series, season, media, dest>>

-----------------------------------------------------------------------------
(* Seasons and the series *)

\* A removed season keeps its number: the index does not look at deletedAt.
SeasonHolder(n) == {s \in Seasons : season[s].state # "none" /\ season[s].number = n}

HighestSeason ==
  LET held == {n \in Numbers : SeasonHolder(n) # {}} IN IF held = {} THEN 0 ELSE Latest(held)

CreateSeason(r, s, n) ==
  LET number == IF n = Null THEN HighestSeason + 1 ELSE n IN
  /\ "season" \in Ops
  /\ req[r].pc = "idle" /\ season[s].state = "none" /\ number \in Numbers
  /\ IF series /\ SeasonHolder(number) = {}
       THEN /\ Answer(r, "ok")
            /\ season' = [season EXCEPT ![s] = [state |-> "live", number |-> number, published |-> FALSE]]
       ELSE Answer(r, IF series THEN "conflict" ELSE "missing") /\ UNCHANGED season
  /\ UNCHANGED <<series, episode, media, job, dest>>

Renumber(r, s, n, to) ==
  /\ "renumber" \in Ops
  /\ req[r].pc = "idle" /\ season[s].state # "none"
  /\ CASE ~LiveSeason(s) -> Answer(r, "missing")
       [] LiveSeason(s) /\ n # Null /\ SeasonHolder(n) \ {s} # {} -> Answer(r, "conflict")
       [] OTHER -> Await(r, [Idle EXCEPT !.pc = "renumber", !.sn = s,
                                                 !.dto.number = n, !.dto.published = to])
  /\ UNCHANGED <<series, season, episode, media, job, dest>>

RenumberCommit(r) ==
  LET s == req[r].sn
      n == req[r].dto.number
      to == req[r].dto.published
  IN
  /\ req[r].pc = "renumber"
  /\ IF n # Null /\ SeasonHolder(n) \ {s} # {}
       THEN Answer(r, "conflict") /\ UNCHANGED season
       ELSE /\ Answer(r, "ok")
            /\ season' = [season EXCEPT ![s].number = IF n = Null THEN @ ELSE n,
                                        ![s].published = IF to = Null THEN @ ELSE to]
  /\ UNCHANGED <<series, episode, media, job, dest>>

\* A season is removed whatever it holds.
RemoveSeasonBug(r, s) ==
  /\ "removeSeason" \in Ops
  /\ req[r].pc = "idle" /\ season[s].state # "none"
  /\ IF LiveSeason(s) THEN Await(r, [Idle EXCEPT !.pc = "removeSeason", !.sn = s])
                       ELSE Answer(r, "missing")
  /\ UNCHANGED <<series, season, episode, media, job, dest>>

\* The episodes are counted, and the season removed by a later statement.
RemoveSeason(r, s) ==
  /\ "removeSeason" \in Ops
  /\ req[r].pc = "idle" /\ season[s].state # "none"
  /\ CASE ~LiveSeason(s) -> Answer(r, "missing")
       [] LiveSeason(s) /\ LiveNumbers(episode, s) # {} -> Answer(r, "conflict")
       [] OTHER -> Await(r, [Idle EXCEPT !.pc = "removeSeason", !.sn = s])
  /\ UNCHANGED <<series, season, episode, media, job, dest>>

RemoveSeasonCommit(r) ==
  /\ req[r].pc = "removeSeason"
  /\ Answer(r, "ok")
  /\ season' = [season EXCEPT ![req[r].sn].state = "removed", ![req[r].sn].published = FALSE]
  /\ UNCHANGED <<series, episode, media, job, dest>>

\* SeriesService.remove sets deletedAt; seasons and episodes stay as they are.
RemoveSeries(r) ==
  /\ "removeSeries" \in Ops
  /\ req[r].pc = "idle"
  /\ Answer(r, "ok")
  /\ series' = FALSE
  /\ UNCHANGED <<season, episode, media, job, dest>>

-----------------------------------------------------------------------------
(* The processing pipeline, as far as episodes see it *)

\* A job is created, or an ended one is tried again; the original is busy.
Enqueue(j, e) ==
  LET others == {k \in InputJobs(InputOf[j]) \ {j} : KindOf[k] = KindOf[j]} IN
  /\ "enqueue" \in Ops
  /\ media[InputOf[j]].stored
  /\ job[j].status \in {"ABSENT", "FAILED", "CANCELLED"}
  /\ job[j].status = "ABSENT" =>
       \A k \in others : job[k].status \notin {"ACTIVE", "COMPLETED"} /\ (k > j => job[k].status = "ABSENT")
  /\ job[j].status # "ABSENT" => e = Null
  /\ job' = [job EXCEPT ![j].status = "ACTIVE", ![j].target = IF e = Null THEN @ ELSE e]
  /\ media' = [media EXCEPT ![InputOf[j]].status = "BUSY"]
  /\ UNCHANGED <<series, season, episode, dest, req>>

\* The output is registered, under a path that is unique, and the destination
\* read again; with a destination the original stays busy until the association.
JobCompletes(j) ==
  /\ job[j].status = "ACTIVE" /\ dest[j] = Null /\ ~job[j].output
  /\ job' = [job EXCEPT ![j].status = "COMPLETED", ![j].output = TRUE, ![j].stored = TRUE]
  /\ media' = [media EXCEPT ![InputOf[j]].status = IF job[j].target = Null THEN "READY" ELSE @]
  /\ dest' = [dest EXCEPT ![j] = job[j].target]
  /\ UNCHANGED <<series, season, episode, req>>

JobFails(j) ==
  /\ job[j].status = "ACTIVE"
  /\ \E st \in {"FAILED", "CANCELLED"} : job' = [job EXCEPT ![j].status = st]
  /\ media' = [media EXCEPT ![InputOf[j]].status = "READY"]
  /\ UNCHANGED <<series, season, episode, dest, req>>

Associated(row, j) ==
  [row EXCEPT !.media = InputOf[j], !.url = InputOf[j], !.def = IF Subtitles(j) THEN j ELSE @,
              !.hls = IF KindOf[j] = "HLS" THEN j ELSE @,
              !.remux = IF KindOf[j] = "REMUX" THEN j ELSE @]

\* The live episodes that use an original.
References(ep, m) == {e \in Episodes : ep[e].state = "live" /\ m \in {ep[e].media, ep[e].url}}

\* The original that a job does not keep, once its output is associated.
Retired(ep, j) ==
  LET m == InputOf[j] IN
  IF job[j].retain \/ Cardinality(References(ep, m)) > 1
    THEN [media EXCEPT ![m].status = "READY"]
    ELSE [media EXCEPT ![m] = [status |-> "DELETED", stored |-> FALSE]]

\* associateOutput writes the episode it read, whatever happened to it since;
\* when it fails the output is removed from the storage.
WorkerAssociates(j) ==
  LET e == dest[j]
      ep == [episode EXCEPT ![e] = Associated(@, j)]
  IN
  /\ e # Null
  /\ dest' = [dest EXCEPT ![j] = Null]
  /\ IF SecondDefault(j, e)
       THEN /\ job' = [job EXCEPT ![j].status = "FAILED", ![j].stored = FALSE]
            /\ media' = [media EXCEPT ![InputOf[j]].status = "READY"]
            /\ UNCHANGED episode
       ELSE /\ episode' = ep
            /\ media' = Retired(ep, j)
            /\ job' = [job EXCEPT ![j].assoc = @ \/ job[j].target = e,
                                  ![j].retain = @ \/ Cardinality(References(ep, InputOf[j])) > 1]
  /\ UNCHANGED <<series, season, req>>

-----------------------------------------------------------------------------
(* What the administration reads *)

\* adminById: the newest of the jobs whose destination is the episode.
AdminById(e) == [job |-> Latest({j \in Jobs : job[j].target = e})]

-----------------------------------------------------------------------------
Init ==
  /\ series = TRUE
  /\ season = [s \in Seasons |->
       IF s = CHOOSE o \in Seasons : TRUE
         THEN [state |-> "live", number |-> 1, published |-> TRUE]
         ELSE [state |-> "none", number |-> 0, published |-> FALSE]]
  /\ episode = [e \in Episodes |->
       IF e \in Legacy
         THEN [NoEpisode EXCEPT !.state = "archived", !.season = CHOOSE o \in Seasons : TRUE, !.number = 1]
         ELSE NoEpisode]
  /\ media = [m \in Media |-> [status |-> "READY", stored |-> TRUE]]
  /\ job = [j \in Jobs |->
       [status |-> "ABSENT", output |-> FALSE, stored |-> FALSE, target |-> Null,
        retain |-> j \in Retained, assoc |-> FALSE]]
  /\ dest = [j \in Jobs |-> Null]
  /\ req = [r \in Requests |-> Idle]

EpisodeRequest(r) ==
  \/ \E d \in Creates : Create(r, d)
  \/ \E e \in Episodes, d \in Updates : UpdateBegin(r, e, d)
  \/ Update(r)
  \/ \E s \in Seasons, b \in Batches : Bulk(r, s, b)
  \/ \E s \in Seasons, b \in Batches : Import(r, s, b)
  \/ ImportCommit(r)
  \/ \E es \in (SUBSET Episodes) \ {{}}, to \in BOOLEAN : Publish(r, es, to)
  \/ PublishCommit(r)
  \/ \E e \in Episodes, es \in SUBSET Episodes : Copy(r, e, es)
  \/ CopyCommit(r)
  \/ \E e \in Episodes : RemoveEpisode(r, e)
  \/ RemoveEpisodeCommit(r)

SeasonRequest(r) ==
  \/ \E s \in Seasons, n \in Field(Numbers) : CreateSeason(r, s, n)
  \/ \E s \in Seasons, n \in Field(Numbers), to \in Field(BOOLEAN) : Renumber(r, s, n, to)
  \/ RenumberCommit(r)
  \/ \E s \in Seasons : RemoveSeason(r, s)
  \/ RemoveSeasonCommit(r)
  \/ RemoveSeries(r)

Pipeline ==
  \E j \in Jobs :
    \/ \E e \in Field(Live) : Enqueue(j, e)
    \/ JobCompletes(j) \/ JobFails(j) \/ WorkerAssociates(j)

CatalogueNext ==
  \/ \E r \in Requests : EpisodeRequest(r) \/ SeasonRequest(r) \/ Abort(r)
  \/ Pipeline

CatalogueSpec == Init /\ [][CatalogueNext]_catalogueVars

-----------------------------------------------------------------------------
(* Properties *)

Places == Seasons \X Numbers

Shelf == INSTANCE EpisodeShelf WITH
  Unborn <- <<Null, 0>>, Withdrawn <- <<Null, -1>>,
  place <- [e \in Episodes |->
              CASE episode[e].state = "none" -> <<Null, 0>>
                [] episode[e].state = "live" -> <<episode[e].season, episode[e].number>>
                [] OTHER -> <<Null, -1>>]

\* The live rows are a shelf: two live episodes never share a number of a
\* season, batches appear as a whole, and an archived episode never comes
\* back, in whatever order requests create, renumber, import and archive.
ImplementsShelf == Shelf!Spec

\* An administrator who names a number hears that it is taken only when a live
\* episode holds it, or when the episode was archived or has another default
\* subtitle: an archived row never stands in the way of a creation, nor of an
\* edition that gives the number.  (An edition that changes only the season
\* releases nothing.)
ConflictMeansLive ==
  /\ \A d \in Creates :
       CreateReply(d) = "taken" => d.number \in LiveNumbers(episode, d.season)
  /\ \A r \in Requests :
       LET s == req[r] IN
       s.pc = "update" /\ s.dto.number # Null /\ UpdateReply(s) = "taken" =>
         \/ Clash(UpdateReleased(s), s.e, UpdateSeason(s), UpdateNumber(s))
         \/ s.dto.job # Null /\ SecondDefault(s.dto.job, s.e)
         \/ s.e \notin Live

\* A season that was removed holds no live episode, as long as requests do
\* not overlap: none is created in it, moved into it or imported into it.
RemovedSeasonIsEmpty ==
  \A s \in Seasons : season[s].state = "removed" => \A e \in Live : episode[e].season # s

\* A request never takes a job away from another live episode.
RequestsNeverSteal ==
  [][\A j \in Jobs :
       job[j].target # Null /\ job'[j].target \notin {Null, job[j].target} =>
         episode[job[j].target].state # "live"]_catalogueVars

\* The edition publishes the episode, or gives a published one another file,
\* version or mode.
Vouched(s) ==
  \/ s.dto.published = TRUE
  \/ s.row.published /\ ReferenceChanged(s) /\ UpdateSource(s) # Null

\* What a creation with a stored file or an edition puts on show plays when its
\* transaction commits, whatever the pipeline and the other requests did since
\* the request began.  (PATCH /publish looks before its transaction and says
\* nothing of the commit; batches, imports and copies do not look.)
ChecksBeforePublish ==
  [][\A e \in Episodes :
       /\ episode'[e] # episode[e] /\ episode'[e].published
       /\ \/ episode[e].state = "none" /\ episode'[e].state = "live" /\ episode'[e].media # Null
          \/ \E r \in Requests :
               req[r].pc = "update" /\ req[r].e = e /\ req'[r] # req[r] /\ Vouched(req[r])
       => Reason(media, job, episode'[e]) = "ready"]_catalogueVars
=============================================================================
