---------------------------- MODULE EpisodeEditor ----------------------------
(***************************************************************************)
(* The page that lists, creates and edits episodes: its form, the file it  *)
(* shows with the form, and the requests it has in flight, against the     *)
(* services of EpisodeCatalogue and MediaAdmin.                            *)
(*                                                                         *)
(* The answer to a request finds the page as it is then, not as it was     *)
(* when the request was sent; a handler keeps the form it was called with. *)
(* Text fields are left out; the number is chosen when the form is sent.   *)
(*                                                                         *)
(* Operators whose name ends in "Bug" are plausible mistakes in the        *)
(* definition that follows them; no behaviour uses them.                   *)
(***************************************************************************)
EXTENDS MediaAdmin, JobBoard

CONSTANTS
  MaxChanges,   \* bound on the changes to the form of a new episode
  MaxEdits,     \* the same bound for the form of an episode that exists
  MaxMeanwhile  \* the same bound while a request of the page is in flight

ASSUME EditorAssumption == {MaxChanges, MaxEdits, MaxMeanwhile} \subseteq Nat

VARIABLES
  page,     \* state of EpisodesAdminPage
  loads,    \* GET /admin/episodes/:id in flight: "stale" ones are not the last
  call,     \* other requests of the page in flight
  videoUrl  \* column videoUrl of the episodes

editorVars == <<mediaVars, boardVars, page, loads, call, videoUrl>>

Origins == {"UPLOAD", "AVAILABLE", "URL", "NONE"}
Source == Field(Media \cup Jobs \cup Links)

\* The form; "of" is the episode it was filled from, which the code does not keep.
Form ==
  [of: Field(Episodes), video: Origins, media: Field(Media),
   job: Field(Jobs), url: Source, original: Source, remux: Source, hls: Source,
   mode: Modes, published: BOOLEAN]

\* The file shown with the form, as it was when it was read.
Snapshot ==
  [id: Media, original: BOOLEAN, direct: BOOLEAN, hls: Source, remux: Source,
   hlsJob: Field(Jobs), remuxJob: Field(Jobs),
   hlsStatus: {"ACTIVE", "READY", "FAILED", "NONE"}, remuxStatus: {"ACTIVE", "READY", "FAILED", "NONE"}]

emptyEpisode ==
  [of |-> Null, video |-> "NONE", media |-> Null, job |-> Null, url |-> Null,
   original |-> Null, remux |-> Null, hls |-> Null, mode |-> "ORIGINAL", published |-> FALSE]

Closed ==
  [editing |-> Null, open |-> FALSE, load |-> "idle", season |-> Null, form |-> emptyEpisode,
   media |-> Null, changes |-> 0, saving |-> FALSE, version |-> FALSE]

\* A request: of which form it was sent, and with which file.
NoCall == [kind |-> "none", e |-> Null, of |-> Null, media |-> Null, dto |-> NoDto, mode |-> Null]

Or(a, b) == IF a # Null THEN a ELSE b

-----------------------------------------------------------------------------
(* What the form is filled with *)

\* nextVideoUrl of a row that a request wrote; an episode without file plays its URL.
VideoOf(row) == IF row.media = Null THEN row.url ELSE Playing(row, row.mode, row.media)

\* masterUrl and outputUrl of the job that is shown with an episode.
OutputOf(j, kind) == IF j # Null /\ KindOf[j] = kind /\ job[j].output THEN j ELSE Null

\* resolveEpisodeVideoState and episodeToFormState
Filled(e) ==
  LET row == episode[e]
      j == AdminById(e).job
      direct == videoUrl[e]
      original == Or(row.url, direct)
      processed == Or(row.hls, direct)
      form == [emptyEpisode EXCEPT !.of = e, !.mode = row.mode, !.published = row.published]
  IN
  CASE j # Null \/ row.media # Null ->
         [form EXCEPT !.video = "AVAILABLE", !.media = row.media,
                      !.job = IF j # Null /\ Active(j) THEN j ELSE Null,
                      !.url = Or(direct, CASE row.mode = "HLS" -> OutputOf(j, "HLS")
                                           [] row.mode = "REMUX" -> row.remux
                                           [] OTHER -> original),
                      !.original = original, !.remux = row.remux,
                      !.hls = Or(processed, OutputOf(j, "HLS"))]
    [] j = Null /\ row.media = Null /\ direct # Null ->
         [form EXCEPT !.video = "URL", !.url = direct, !.original = original,
                      !.remux = row.remux, !.hls = processed]
    [] OTHER -> form

StatusOf(j) ==
  CASE Active(j) -> "ACTIVE"
    [] Completed(j) -> "READY"
    [] OTHER -> "FAILED"

\* mediaFromEpisode
FileOf(e) ==
  LET row == episode[e]
      j == AdminById(e).job
      hls == Or(row.hls, OutputOf(j, "HLS"))
      remux == Or(row.remux, OutputOf(j, "REMUX"))
      Job(kind) == IF j # Null /\ KindOf[j] = kind THEN j ELSE Null
      Status(kind, url) == IF Job(kind) # Null THEN StatusOf(j) ELSE IF url # Null THEN "READY" ELSE "NONE"
  IN
  IF row.media = Null THEN Null
  ELSE [id |-> row.media, original |-> row.url # Null, direct |-> row.media \in Direct,
        hls |-> hls, remux |-> remux, hlsJob |-> Job("HLS"), remuxJob |-> Job("REMUX"),
        hlsStatus |-> Status("HLS", hls), remuxStatus |-> Status("REMUX", remux)]

\* listSelectable: the files the selector offers, with the versions that are stored.
Offer(m) ==
  LET Url(kind) == IF Selectable(m, kind) THEN Version(job, kind, InputJobs(m)) ELSE Null
      Of(kind, status) == {j \in InputJobs(m) : KindOf[j] = kind /\ job[j].status \in status}
      Newest(kind) == Or(Latest(Of(kind, {"ACTIVE"})), Or(Url(kind), Latest(Of(kind, {"FAILED", "CANCELLED"}))))
      Status(kind) == CASE Newest(kind) = Null -> "NONE"
                        [] Newest(kind) # Null /\ Newest(kind) = Url(kind) -> "READY"
                        [] OTHER -> IF Active(Newest(kind)) THEN "ACTIVE" ELSE "FAILED"
  IN
  [id |-> m, original |-> media[m].stored, direct |-> m \in Direct /\ media[m].stored,
   hls |-> Url("HLS"), remux |-> Url("REMUX"), hlsJob |-> Newest("HLS"), remuxJob |-> Newest("REMUX"),
   hlsStatus |-> Status("HLS"), remuxStatus |-> Status("REMUX")]

\* The URL of a file that plays in a mode.
UrlIn(file, mode) ==
  CASE mode = "HLS" -> file.hls
    [] mode = "REMUX" -> file.remux
    [] OTHER -> IF file.direct /\ file.original THEN file.id ELSE Null

-----------------------------------------------------------------------------
(* The effects: the shown file follows the list of jobs *)

BoardStatus(j, rows) ==
  CASE rows[j].status = "ACTIVE" -> "ACTIVE"
    [] rows[j].status = "COMPLETED" -> "READY"
    [] OTHER -> "FAILED"

\* applyHlsProcessingJob
WithHls(file, rows) ==
  LET j == file.hlsJob IN
  IF j = Null \/ rows[j] = Null THEN file
  ELSE [file EXCEPT !.hlsStatus = BoardStatus(j, rows), !.hls = IF rows[j].output THEN j ELSE @]

\* applyRemuxProcessingJob
WithRemux(file, rows) ==
  LET j == file.remuxJob IN
  IF j = Null \/ rows[j] = Null THEN file
  ELSE [file EXCEPT !.remuxStatus = BoardStatus(j, rows), !.remux = IF rows[j].output THEN j ELSE @]

\* A job of the form that is listed and no longer at work leaves the form.
WithoutEnded(form, rows) ==
  IF form.job # Null /\ rows[form.job] # Null /\ rows[form.job].status # "ACTIVE"
    THEN [form EXCEPT !.job = Null] ELSE form

\* The page after its effects, given the rows the provider shows.
Settled(p, rows) ==
  [p EXCEPT !.media = IF @ = Null THEN Null ELSE WithRemux(WithHls(@, rows), rows),
            !.form = WithoutEnded(@, rows)]

Shows(p) == page' = Settled(p, board')

-----------------------------------------------------------------------------
(* Opening and closing the form *)

\* reset: requests of the editor that are in flight are no longer the last.
Reset(p) ==
  [p EXCEPT !.editing = Null, !.form = emptyEpisode, !.media = Null, !.load = "idle",
            !.changes = 0, !.open = FALSE, !.saving = FALSE]

Superseded == [e \in Episodes |-> IF loads[e] = "none" THEN "none" ELSE "stale"]

Idles == UNCHANGED <<mediaVars, boardVars, call, videoUrl>>

Close ==
  /\ page.open /\ ~page.saving
  /\ Idles
  /\ Shows(Reset(page))
  /\ loads' = Superseded

\* createEpisode leaves a load that is on its way the last one.
CreateEpisode ==
  /\ page.season # Null
  /\ Idles
  /\ Shows([page EXCEPT !.editing = Null, !.form = emptyEpisode, !.media = Null,
                        !.load = "ready", !.open = TRUE, !.changes = 0])
  /\ UNCHANGED loads

\* The list may still show an episode that was archived.
Edit(e) ==
  /\ episode[e].state # "none"
  /\ Idles
  /\ Shows([page EXCEPT !.editing = e, !.open = TRUE, !.load = "loading"])
  /\ loads' = [Superseded EXCEPT ![e] = "current"]

\* The form of the last request.
FilledWith(e) == [page EXCEPT !.form = Filled(e), !.media = FileOf(e), !.season = episode[e].season,
                              !.load = "ready", !.changes = 0]

\* Every answer fills the form.
LoadedBug(e) ==
  /\ loads[e] # "none" /\ e \in Live
  /\ loads' = [loads EXCEPT ![e] = "none"]
  /\ Idles
  /\ Shows(FilledWith(e))

\* An answer that is not to the last request is dropped.
Loaded(e) ==
  /\ loads[e] # "none" /\ e \in Live
  /\ loads' = [loads EXCEPT ![e] = "none"]
  /\ Idles
  /\ IF loads[e] = "stale" THEN UNCHANGED page ELSE Shows(FilledWith(e))

\* The episode is gone, or the connection.
LoadFails(e) ==
  /\ loads[e] # "none"
  /\ loads' = [loads EXCEPT ![e] = "none"]
  /\ Idles
  /\ IF loads[e] = "stale" THEN UNCHANGED page ELSE Shows([page EXCEPT !.load = "error"])

\* The season of the list, or of the form while it is open.  The page itself
\* chooses the first one when it has none.
ChangeSeason(s) ==
  /\ LiveSeason(s) /\ page.season # s
  /\ Idles
  /\ Shows(IF page.open THEN [page EXCEPT !.season = s] ELSE [Reset(page) EXCEPT !.season = s])
  /\ loads' = IF page.open THEN loads ELSE Superseded

-----------------------------------------------------------------------------
(* Filling the form *)

\* The form is on the screen only when its episode has been read.
Editable == page.open /\ page.load = "ready"

Fills(form, file) ==
  /\ Editable /\ <<form, file>> # <<page.form, page.media>>
  /\ page.changes < CASE \E r \in Requests : call[r] # NoCall -> MaxMeanwhile
                      [] page.editing # Null -> MaxEdits
                      [] OTHER -> MaxChanges
  /\ Idles
  /\ Shows([page EXCEPT !.form = form, !.media = file, !.changes = @ + 1])
  /\ UNCHANGED loads

ChangePublished(to) ==
  /\ ~(page.form.job # Null /\ page.form.url = Null)
  /\ Fills([page.form EXCEPT !.published = to], page.media)

\* changeVideoMode; only an external URL keeps the mark of publication.
ChangeVideoMode(to) ==
  Fills([emptyEpisode EXCEPT !.of = page.form.of, !.video = to,
                             !.published = page.form.published /\ to = "URL"], Null)

\* changeSource; the other types of URL play in the mode of an original.
ChangeSource(hls) ==
  /\ page.form.video = "URL"
  /\ Fills([page.form EXCEPT !.mode = IF hls THEN "HLS" ELSE "ORIGINAL", !.url = Null, !.original = Null,
                             !.remux = Null, !.hls = Null], page.media)

\* The input of the URL.
TypeUrl(to) ==
  /\ page.form.video = "URL"
  /\ Fills([page.form EXCEPT !.url = to, !.original = to, !.hls = Null], page.media)

\* selectMedia: another file is played in the best mode it has.
SelectMedia(m) ==
  LET file == Offer(m)
      mode == CASE page.form.media = m -> page.form.mode
                [] OTHER -> IF file.direct THEN "ORIGINAL"
                            ELSE IF file.remux # Null THEN "REMUX"
                            ELSE IF file.hls # Null THEN "HLS" ELSE "ORIGINAL"
      url == UrlIn(file, mode)
  IN
  /\ page.form.video = "AVAILABLE" /\ media[m].status # "DELETED"
  /\ Fills([page.form EXCEPT !.media = m, !.job = Null, !.mode = mode, !.url = url,
                             !.original = IF file.original THEN m ELSE Null, !.remux = file.remux,
                             !.hls = file.hls, !.published = @ /\ url # Null], file)

\* The radio buttons of the versions that are there.
Enabled(mode) == page.media # Null /\ UrlIn(page.media, mode) # Null

ChangePlaybackMode(mode) ==
  /\ Enabled(mode)
  /\ Fills([page.form EXCEPT !.mode = mode, !.url = UrlIn(page.media, mode)], page.media)

\* onUploaded of a file that is not processed.
Uploaded(m) ==
  LET direct == m \in Direct IN
  /\ page.form.video = "UPLOAD" /\ media[m].stored
  /\ Fills([page.form EXCEPT !.video = "AVAILABLE", !.media = m, !.job = Null, !.mode = "ORIGINAL",
                             !.url = IF direct THEN m ELSE Null, !.original = m, !.remux = Null, !.hls = Null],
           [id |-> m, original |-> TRUE, direct |-> direct, hls |-> Null, remux |-> Null,
            hlsJob |-> Null, remuxJob |-> Null, hlsStatus |-> "NONE", remuxStatus |-> "NONE"])

\* onProcessingJob: the job that the upload was enqueued for.
UploadedToProcess(j) ==
  /\ page.form.video = "UPLOAD" /\ Active(j)
  /\ Fills([page.form EXCEPT !.mode = KindOf[j], !.media = Null, !.job = j, !.url = Null,
                             !.original = Null, !.remux = Null, !.hls = Null, !.published = FALSE], Null)

-----------------------------------------------------------------------------
(* submit *)

\* playbackUrlFor
PlaybackUrl(form, file) ==
  CASE form.video = "URL" \/ file = Null -> form.url
    [] OTHER -> CASE form.mode = "HLS" -> Or(file.hls, form.hls)
                  [] form.mode = "REMUX" -> Or(file.remux, form.remux)
                  [] OTHER -> IF file.direct THEN IF file.original THEN file.id ELSE form.original ELSE Null

\* episodeVideoIsReady: the listed row of the job may be older than the job.
Ready(form, file) ==
  IF PlaybackUrl(form, file) # Null THEN {TRUE}
  ELSE IF form.mode = "HLS" /\ form.job # Null /\ Completed(form.job) THEN BOOLEAN ELSE {FALSE}

\* validateEpisodeBasicInfo and episodeVideoError
Valid(form) ==
  /\ form.video = "AVAILABLE" => form.job # Null \/ form.media # Null
  /\ form.video = "URL" => form.url # Null

\* A stored file is saved to be played as it was uploaded.
PayloadBug(form, file, s, n, ready) ==
  LET stored == form.video \in {"UPLOAD", "AVAILABLE"} IN
  [season |-> s, number |-> n,
   job |-> IF stored /\ form.media = Null THEN form.job ELSE Null,
   media |-> CASE stored /\ form.media # Null -> form.media
               [] form.video \in {"NONE", "URL"} -> None
               [] OTHER -> Null,
   url |-> CASE form.video = "URL" -> form.url
             [] form.video = "NONE" -> None
             [] OTHER -> Null,
   mode |-> IF stored THEN "ORIGINAL" ELSE form.mode, published |-> form.published /\ ready]

\* episodeFormToUpdatePayload of formWithRuntimeMedia: a file goes before a job.
Payload(form, file, s, n, ready) ==
  LET stored == form.video \in {"UPLOAD", "AVAILABLE"} IN
  [season |-> s, number |-> n,
   job |-> IF stored /\ form.media = Null THEN form.job ELSE Null,
   media |-> CASE stored /\ form.media # Null -> form.media
               [] form.video \in {"NONE", "URL"} -> None
               [] OTHER -> Null,
   url |-> CASE form.video = "URL" -> form.url
             [] form.video = "NONE" -> None
             [] OTHER -> Null,
   mode |-> form.mode, published |-> form.published /\ ready]

Idle0(r) == call[r] = NoCall /\ req[r].pc = "idle"

Sends(r, c) ==
  /\ Idle0(r)
  /\ call' = [call EXCEPT ![r] = c]
  /\ UNCHANGED <<mediaVars, boardVars, loads, videoUrl>>

Submit(r) ==
  /\ Editable /\ page.season # Null /\ ~page.saving
  /\ Valid(page.form)
  /\ \E ready \in Ready(page.form, page.media), n \in Numbers :
       /\ page.form.published => ready
       /\ Sends(r, [NoCall EXCEPT !.kind = "save", !.e = page.editing, !.of = page.form.of,
                                  !.media = IF page.media = Null THEN Null ELSE page.form.media,
                                  !.dto = Payload(page.form, page.media, page.season, n, ready)])
  /\ Shows([page EXCEPT !.saving = TRUE])

\* reset, whatever form is open by then.
Saved(r) ==
  /\ call' = [call EXCEPT ![r] = NoCall]
  /\ loads' = Superseded
  /\ UNCHANGED boardVars
  /\ Shows(Reset(page))

\* refreshSelectedMedia, for the form that was sent, then the flag is cleared.
NotSaved(r) ==
  LET sent == call[r] IN
  /\ call' = [call EXCEPT ![r] = NoCall]
  /\ UNCHANGED <<loads, boardVars>>
  /\ IF sent.media # Null /\ media[sent.media].status # "DELETED"
       THEN \E file \in {page.media, Offer(sent.media)} :
              Shows([page EXCEPT !.media = file, !.saving = FALSE])
       ELSE Shows([page EXCEPT !.saving = FALSE])

\* CreateEpisodeDto takes no empty URL; a null file is as one left out.
Accepted(d) == d.url # None
Body(d) == [d EXCEPT !.media = IF @ = None THEN Null ELSE @]

Columns == videoUrl' = [e \in Episodes |-> IF episode'[e] = episode[e] THEN videoUrl[e] ELSE VideoOf(episode'[e])]

ServeCreate(r) ==
  LET d == call[r].dto IN
  /\ call[r].kind = "save" /\ call[r].e = Null
  /\ IF Accepted(d)
       THEN /\ Create(r, Body(d))
            /\ IF CreateReply(Body(d)) = "ok" THEN Saved(r) ELSE NotSaved(r)
            /\ stage' = Restaged
       ELSE NotSaved(r) /\ UNCHANGED <<catalogueVars, stage>>
  /\ Columns
  /\ UNCHANGED adm

\* The service reads first, and commits by a later step.
ServeUpdate(r) ==
  /\ call[r].kind = "save" /\ call[r].e # Null
  /\ \/ /\ UpdateBegin(r, call[r].e, call[r].dto)
        /\ IF req'[r].pc = "idle" THEN NotSaved(r) ELSE UNCHANGED <<call, loads, page, boardVars>>
     \/ /\ Update(r)
        /\ IF UpdateReply(req[r]) = "ok" THEN Saved(r) ELSE NotSaved(r)
  /\ videoUrl' = [e \in Episodes |-> IF episode'[e] = episode[e] /\ ~(req[r].pc = "update" /\ req[r].e = e)
                                       THEN videoUrl[e] ELSE VideoOf(episode'[e])]
  /\ stage' = Restaged
  /\ UNCHANGED adm

SaveFails(r) ==
  /\ call[r].kind = "save"
  /\ IF req[r].pc = "idle" THEN UNCHANGED catalogueVars ELSE Abort(r)
  /\ NotSaved(r)
  /\ UNCHANGED <<adminVars, videoUrl>>

-----------------------------------------------------------------------------
(* transcodeNow and remuxNow *)

\* The buttons of the versions that are neither there nor at work.
Lacks(kind) ==
  /\ page.media # Null
  /\ IF kind = "HLS" THEN page.media.hlsStatus # "ACTIVE" /\ page.media.hls = Null
                     ELSE page.media.remuxStatus # "ACTIVE" /\ page.media.remux = Null

VersionNow(r, kind) ==
  /\ Editable /\ page.form.media # Null /\ ~page.version
  /\ Lacks(kind)
  /\ Sends(r, [NoCall EXCEPT !.kind = "version", !.e = page.editing, !.media = page.form.media, !.mode = kind])
  /\ Shows([page EXCEPT !.version = TRUE])

\* The answer is written into the form and the file that are open by then.
Versioned(j) ==
  LET running == job'[j].status = "ACTIVE"
      form == IF KindOf[j] = "HLS" THEN [page.form EXCEPT !.job = j] ELSE page.form
      status == IF running THEN "ACTIVE" ELSE "READY"
      file == CASE page.media = Null -> Null
                [] page.media # Null /\ KindOf[j] = "HLS" ->
                     [page.media EXCEPT !.hlsStatus = status, !.hlsJob = j, !.hls = IF job'[j].output THEN j ELSE @]
                [] OTHER ->
                     [page.media EXCEPT !.remuxStatus = status, !.remuxJob = j, !.remux = IF job'[j].output THEN j ELSE @]
  IN Shows([page EXCEPT !.form = form, !.media = file, !.version = FALSE])

\* An active or completed job of the kind is returned as it is.
ServeVersion(r) ==
  LET sent == call[r]
      m == sent.media
      js == {j \in InputJobs(m) : KindOf[j] = sent.mode}
  IN
  /\ sent.kind = "version"
  /\ \E j \in js :
       /\ IF With(js, {"ACTIVE", "COMPLETED"}) # {}
            THEN j \in With(js, {"ACTIVE", "COMPLETED"}) /\ UNCHANGED <<catalogueVars, stage>>
            ELSE job[j].status = "ABSENT" /\ Enqueue(j, sent.e) /\ stage' = Restaged
       /\ Track(j)
       /\ Versioned(j)
  /\ call' = [call EXCEPT ![r] = NoCall]
  /\ UNCHANGED <<adm, loads, videoUrl>>

VersionFails(r) ==
  /\ call[r].kind = "version"
  /\ call' = [call EXCEPT ![r] = NoCall]
  /\ Untracked
  /\ Shows([page EXCEPT !.version = FALSE])
  /\ UNCHANGED <<mediaVars, loads, videoUrl>>

-----------------------------------------------------------------------------
EditorInit ==
  /\ MediaInit
  /\ BoardInit
  /\ page = Closed
  /\ loads = [e \in Episodes |-> "none"]
  /\ call = [r \in Requests |-> NoCall]
  /\ videoUrl = [e \in Episodes |-> Null]

Opening ==
  \/ Close
  \/ CreateEpisode
  \/ \E e \in Episodes : Edit(e) \/ Loaded(e) \/ LoadFails(e)
  \/ \E s \in Seasons : ChangeSeason(s)

Filling ==
  \/ \E to \in BOOLEAN : ChangePublished(to)
  \/ \E to \in Origins : ChangeVideoMode(to)
  \/ \E hls \in BOOLEAN : ChangeSource(hls)
  \/ \E to \in Links : TypeUrl(to)
  \/ \E m \in Media : SelectMedia(m) \/ Uploaded(m)
  \/ \E mode \in Modes : ChangePlaybackMode(mode)
  \/ \E j \in Jobs : UploadedToProcess(j)

Asking(r) ==
  \/ Submit(r) \/ ServeCreate(r) \/ ServeUpdate(r) \/ SaveFails(r)
  \/ \E kind \in {KindOf[j] : j \in Jobs} : VersionNow(r, kind)
  \/ ServeVersion(r) \/ VersionFails(r)

\* The version of its mode that an episode has.
Selected(row) == CASE row.mode = "HLS" -> row.hls [] row.mode = "REMUX" -> row.remux [] OTHER -> Null

\* The provider and the pipeline; the page follows the rows.  The worker
\* replaces the column of an episode that plays versions of the job's kind.
Around ==
  /\ \/ BoardNext
     \/ Pipeline /\ Untracked
  /\ Shows(page)
  /\ videoUrl' = [e \in Episodes |->
       IF Selected(episode'[e]) # Selected(episode[e]) THEN Selected(episode'[e]) ELSE videoUrl[e]]
  /\ stage' = Restaged
  /\ UNCHANGED <<adm, loads, call>>

EditorNext == Opening \/ Filling \/ (\E r \in Requests : Asking(r)) \/ Around

EditorSpec == EditorInit /\ [][EditorNext]_editorVars

-----------------------------------------------------------------------------
(* Properties *)

\* A form that says it edits an episode was filled from that episode, and so
\* was every form that is on its way to it: no answer that comes late, and no
\* form that is opened or closed meanwhile, makes a change reach another
\* episode than the one the administrator has seen.
PatchesWhatItShows ==
  /\ page.load = "ready" /\ page.editing # Null => page.form.of = page.editing
  /\ ~page.open => page.form.of = Null
  /\ \A r \in Requests : call[r].kind = "save" /\ call[r].e # Null => call[r].of = call[r].e

\* The fields of a body that choose the video, and those of an untouched form.
Choice(d) == [job |-> d.job, media |-> d.media, url |-> d.url, mode |-> d.mode]
Untouched(e) == Choice(Payload(Filled(e), FileOf(e), episode[e].season, Null, FALSE))

\* The file that an episode is linked to has the version that it plays.
OfItsFile(row) ==
  row.media # Null /\ row.mode # "ORIGINAL" => Version(job, row.mode, InputJobs(row.media)) # Null

\* An edition of other fields leaves the video alone: when the form that was
\* sent names the file or the URL of the episode as it is, an episode that
\* plays a version of its file keeps the file and the mode, still plays when
\* the service has answered, and is as ready as it was.  (A worker that links
\* the episode to another file leaves the version of the former one selected,
\* and that one the next edition takes away.)
OtherFieldsKeepVideo ==
  [][\A r \in Requests :
       /\ req[r].pc = "update" /\ req'[r] # req[r] /\ req[r].e \in Live
       /\ episode[req[r].e] = req[r].row
       /\ Choice(call[r].dto) = Untouched(req[r].e)
       /\ {call[r].dto.media, call[r].dto.url} \ {Null, None} # {}
       => LET old == episode[req[r].e] new == episode'[req[r].e] IN
          VideoOf(old) # Null /\ OfItsFile(old) =>
            /\ new.media = old.media /\ new.mode = old.mode /\ VideoOf(new) # Null
            /\ Reason(media', job', new) = Reason(media, job, old)]_editorVars

=============================================================================
