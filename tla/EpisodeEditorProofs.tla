------------------------- MODULE EpisodeEditorProofs --------------------------
(***************************************************************************)
(* What the page that edits episodes keeps, for any number of episodes,    *)
(* files, jobs and requests of the page in flight: a change reaches the    *)
(* episode whose form was shown, and an edition of other fields leaves the *)
(* video alone.                                                            *)
(*                                                                         *)
(* The form is typed together with what each part of it says of the others *)
(* (PageInv), a request together with the page it was sent from (CallInv), *)
(* and the column of the URL with the row (UrlsOK).                        *)
(***************************************************************************)
EXTENDS EpisodeEditor, EpisodeCatalogueProofs

-----------------------------------------------------------------------------
(* Types *)

Statuses == {"ACTIVE", "READY", "FAILED", "NONE"}

Page ==
  [editing: Field(Episodes), open: BOOLEAN, load: {"idle", "loading", "ready", "error"},
   season: Field(Seasons), form: Form, media: Field(Snapshot), changes: Nat, saving: BOOLEAN,
   version: BOOLEAN]

Call ==
  [kind: {"none", "save", "version"}, e: Field(Episodes), of: Field(Episodes),
   media: Field(Media), dto: Dto, mode: Field(Modes)]

LEMMA EmptyForm == emptyEpisode \in Form
BY DEF emptyEpisode, Form, Field, Origins, Source, Modes

LEMMA NoCallTyped == NoCall \in Call /\ NoCall.kind = "none"
<1>1. NoDto \in Dto
  BY DEF NoDto, Dto, Field
<1>2. QED
  BY <1>1 DEF NoCall, Call, Field

LEMMA ClosedTyped == Closed \in Page
BY EmptyForm DEF Closed, Page, Field

\* The file that is shown stays a file as the list of jobs is followed.
LEMMA FollowsRows ==
  ASSUME NEW file \in Snapshot, NEW rows
  PROVE  WithRemux(WithHls(file, rows), rows) \in Snapshot
<1>1. ASSUME NEW j PROVE BoardStatus(j, rows) \in Statuses
  BY DEF BoardStatus, Statuses
<1>2. ASSUME NEW f \in Snapshot PROVE WithHls(f, rows) \in Snapshot
  <2> DEFINE url == IF rows[f.hlsJob].output THEN f.hlsJob ELSE f.hls
             st == BoardStatus(f.hlsJob, rows)
  <2>1. CASE f.hlsJob = Null \/ rows[f.hlsJob] = Null
    BY <2>1 DEF WithHls
  <2>2. CASE ~(f.hlsJob = Null \/ rows[f.hlsJob] = Null)
    <3>1. url \in Source
      BY <2>2 DEF Snapshot, Source, Field
    <3>2. WithHls(f, rows) = [f EXCEPT !.hlsStatus = st, !.hls = url]
      BY <2>2 DEF WithHls
    <3>3. st \in Statuses
      BY <1>1
    <3> HIDE DEF url, st
    <3>4. QED
      BY <3>1, <3>2, <3>3 DEF Snapshot, Statuses
  <2>3. QED
    BY <2>1, <2>2
<1>3. ASSUME NEW f \in Snapshot PROVE WithRemux(f, rows) \in Snapshot
  <2> DEFINE url == IF rows[f.remuxJob].output THEN f.remuxJob ELSE f.remux
             st == BoardStatus(f.remuxJob, rows)
  <2>1. CASE f.remuxJob = Null \/ rows[f.remuxJob] = Null
    BY <2>1 DEF WithRemux
  <2>2. CASE ~(f.remuxJob = Null \/ rows[f.remuxJob] = Null)
    <3>1. url \in Source
      BY <2>2 DEF Snapshot, Source, Field
    <3>2. WithRemux(f, rows) = [f EXCEPT !.remuxStatus = st, !.remux = url]
      BY <2>2 DEF WithRemux
    <3>3. st \in Statuses
      BY <1>1
    <3> HIDE DEF url, st
    <3>4. QED
      BY <3>1, <3>2, <3>3 DEF Snapshot, Statuses
  <2>3. QED
    BY <2>1, <2>2
<1>4. QED
  BY <1>2, <1>3

\* The effects change the file and the job of the form, and nothing else.
LEMMA Settles ==
  ASSUME NEW p \in Page, NEW rows
  PROVE  /\ Settled(p, rows) \in Page
         /\ Settled(p, rows).editing = p.editing /\ Settled(p, rows).open = p.open
         /\ Settled(p, rows).load = p.load /\ Settled(p, rows).form.of = p.form.of
<1> DEFINE file == IF p.media = Null THEN Null ELSE WithRemux(WithHls(p.media, rows), rows)
           form == WithoutEnded(p.form, rows)
<1>1. file \in Field(Snapshot)
  BY FollowsRows DEF Page, Field
<1>2. form \in Form /\ form.of = p.form.of
  <2>1. p.form \in Form
    BY DEF Page
  <2>2. [p.form EXCEPT !.job = Null] \in Form /\ [p.form EXCEPT !.job = Null].of = p.form.of
    BY <2>1 DEF Form, Field
  <2>3. QED
    BY <2>1, <2>2 DEF WithoutEnded
<1>3. Settled(p, rows) = [p EXCEPT !.media = file, !.form = form]
  BY DEF Settled
<1> HIDE DEF file, form
<1>4. QED
  BY <1>1, <1>2, <1>3 DEF Page

-----------------------------------------------------------------------------
(* What the form and the file are filled with *)

LEMMA OrIn == ASSUME NEW S, NEW a \in S, NEW b \in S PROVE Or(a, b) \in S
BY DEF Or

LEMMA JobIsSource == Field(Jobs) \subseteq Source /\ Field(Media) \subseteq Source
BY DEF Source, Field

LEMMA ShownJob == ASSUME NEW e PROVE AdminById(e).job \in Field(Jobs)
<1> DEFINE S == {j \in Jobs : job[j].target = e}
<1>1. S \in SUBSET Jobs
  OBVIOUS
<1>2. Latest(S) \in Field(Jobs)
  BY <1>1, LatestJob DEF Field
<1>3. QED
  BY <1>2 DEF AdminById

LEMMA OutputIsJob == ASSUME NEW j \in Field(Jobs), NEW kind PROVE OutputOf(j, kind) \in Field(Jobs)
BY DEF OutputOf, Field

LEMMA PlayingIn ==
  ASSUME NEW row \in EpisodeRow, NEW mode, NEW m PROVE Playing(row, mode, m) \in Source
BY DEF Playing, EpisodeRow, Source, Field

LEMMA VideoIn == ASSUME NEW row \in EpisodeRow PROVE VideoOf(row) \in Source
<1>1. row.url \in Source
  BY DEF EpisodeRow, Source, Field
<1>2. QED
  BY <1>1, PlayingIn DEF VideoOf

\* The form of an episode is a form, filled from that episode.
LEMMA FilledForm ==
  ASSUME CatalogueInv, videoUrl \in [Episodes -> Source], NEW e \in Episodes
  PROVE  Filled(e) \in Form /\ Filled(e).of = e
<1> DEFINE row == episode[e]
           j == AdminById(e).job
           direct == videoUrl[e]
           original == Or(row.url, direct)
           processed == Or(row.hls, direct)
           form == [emptyEpisode EXCEPT !.of = e, !.mode = row.mode, !.published = row.published]
           active == IF j # Null /\ Active(j) THEN j ELSE Null
           fallback == CASE row.mode = "HLS" -> OutputOf(j, "HLS")
                         [] row.mode = "REMUX" -> row.remux
                         [] OTHER -> original
           url == Or(direct, fallback)
           hls == Or(processed, OutputOf(j, "HLS"))
<1>1. row \in EpisodeRow /\ row.media \in Field(Media) /\ row.mode \in Modes /\ row.published \in BOOLEAN
  BY DEF CatalogueInv, CatalogueTypeOK, TablesOK, EpisodeRow
<1>2. direct \in Source /\ row.url \in Source /\ row.hls \in Source /\ row.remux \in Source
  BY <1>1, JobIsSource DEF EpisodeRow, Source, Field
<1>3. j \in Field(Jobs) /\ OutputOf(j, "HLS") \in Source /\ active \in Field(Jobs)
  BY ShownJob, OutputIsJob, JobIsSource DEF Field
<1>4. original \in Source /\ processed \in Source
  BY <1>2, OrIn
<1>5. fallback \in Source
  <2> HIDE DEF original
  <2>1. QED
    BY <1>2, <1>3, <1>4
<1>6. url \in Source /\ hls \in Source
  <2> HIDE DEF fallback, processed
  <2>1. QED
    BY <1>2, <1>3, <1>4, <1>5, OrIn
<1>7. /\ form \in Form /\ form.of = e
  BY <1>1, EmptyForm DEF Form, Field
<1> DEFINE available == [form EXCEPT !.video = "AVAILABLE", !.media = row.media, !.job = active,
                                     !.url = url, !.original = original, !.remux = row.remux, !.hls = hls]
           byUrl == [form EXCEPT !.video = "URL", !.url = direct, !.original = original,
                                 !.remux = row.remux, !.hls = processed]
<1>8. Filled(e) \in {available, byUrl, form}
  BY DEF Filled
<1> HIDE DEF row, j, direct, original, processed, active, url, hls, form
<1>9. available \in Form /\ available.of = e
  BY <1>1, <1>2, <1>3, <1>4, <1>6, <1>7 DEF Form, Origins
<1>10. byUrl \in Form /\ byUrl.of = e
  BY <1>2, <1>4, <1>7 DEF Form, Origins
<1>11. QED
  BY <1>7, <1>8, <1>9, <1>10

LEMMA FilledFile ==
  ASSUME CatalogueInv, NEW e \in Episodes PROVE FileOf(e) \in Field(Snapshot)
<1> DEFINE row == episode[e]
           j == AdminById(e).job
           hls == Or(row.hls, OutputOf(j, "HLS"))
           remux == Or(row.remux, OutputOf(j, "REMUX"))
           Job(kind) == IF j # Null /\ KindOf[j] = kind THEN j ELSE Null
           Status(kind, url) == IF Job(kind) # Null THEN StatusOf(j) ELSE IF url # Null THEN "READY" ELSE "NONE"
<1>1. row \in EpisodeRow /\ row.hls \in Source /\ row.remux \in Source /\ row.media \in Field(Media)
  BY DEF CatalogueInv, CatalogueTypeOK, TablesOK, EpisodeRow, Source, Field
<1>2. j \in Field(Jobs)
  BY ShownJob
<1>3. hls \in Source /\ remux \in Source
  BY <1>1, <1>2, OrIn, OutputIsJob, JobIsSource
<1>4. \A kind : Job(kind) \in Field(Jobs)
  BY <1>2 DEF Field
<1>5. \A kind, url : Status(kind, url) \in Statuses
  BY DEF StatusOf, Statuses
<1>6. CASE row.media = Null
  BY <1>6 DEF FileOf, Field
<1>7. CASE row.media # Null
  <2> DEFINE file == [id |-> row.media, original |-> row.url # Null, direct |-> row.media \in Direct,
                      hls |-> hls, remux |-> remux, hlsJob |-> Job("HLS"), remuxJob |-> Job("REMUX"),
                      hlsStatus |-> Status("HLS", hls), remuxStatus |-> Status("REMUX", remux)]
  <2>1. FileOf(e) = file
    BY <1>7 DEF FileOf
  <2>2. Status("HLS", hls) \in Statuses /\ Status("REMUX", remux) \in Statuses
    BY <1>5
  <2>3. Job("HLS") \in Field(Jobs) /\ Job("REMUX") \in Field(Jobs)
    BY <1>4
  <2>4. row.media \in Media
    BY <1>1, <1>7 DEF Field
  <2>5. (row.url # Null) \in BOOLEAN /\ (row.media \in Direct) \in BOOLEAN
    OBVIOUS
  <2> HIDE DEF hls, remux, Job, Status, row
  <2>6. file \in Snapshot
    BY <1>3, <2>2, <2>3, <2>4, <2>5 DEF Snapshot, Statuses
  <2>7. QED
    BY <2>1, <2>6 DEF Field
<1>8. QED
  BY <1>6, <1>7

LEMMA OfferedFile ==
  ASSUME CatalogueInv, NEW m \in Media PROVE Offer(m) \in Snapshot
<1> DEFINE Url(kind) == IF Selectable(m, kind) THEN Version(job, kind, InputJobs(m)) ELSE Null
           Of(kind, status) == {j \in InputJobs(m) : KindOf[j] = kind /\ job[j].status \in status}
           Newest(kind) == Or(Latest(Of(kind, {"ACTIVE"})), Or(Url(kind), Latest(Of(kind, {"FAILED", "CANCELLED"}))))
           Status(kind) == CASE Newest(kind) = Null -> "NONE"
                             [] Newest(kind) # Null /\ Newest(kind) = Url(kind) -> "READY"
                             [] OTHER -> IF Active(Newest(kind)) THEN "ACTIVE" ELSE "FAILED"
<1>1. InputJobs(m) \in SUBSET Jobs
  BY DEF InputJobs
<1>2. ASSUME NEW kind PROVE Url(kind) \in Field(Jobs)
  BY <1>1, VersionIsJob DEF Field
<1>3. ASSUME NEW kind, NEW status PROVE Latest(Of(kind, status)) \in Field(Jobs)
  <2>1. Of(kind, status) \in SUBSET Jobs
    BY <1>1
  <2>2. QED
    BY <2>1, LatestJob DEF Field
<1> HIDE DEF Url, Of
<1>4. ASSUME NEW kind PROVE Newest(kind) \in Field(Jobs)
  BY <1>2, <1>3, OrIn
<1> HIDE DEF Newest
<1>5. ASSUME NEW kind PROVE Status(kind) \in Statuses
  BY DEF Statuses
<1>6. media[m].stored \in BOOLEAN
  BY DEF CatalogueInv, CatalogueTypeOK, TablesOK, MediaRow
<1>7. (m \in Direct /\ media[m].stored) \in BOOLEAN
  OBVIOUS
<1>8. /\ Url("HLS") \in Source /\ Url("REMUX") \in Source
      /\ Newest("HLS") \in Field(Jobs) /\ Newest("REMUX") \in Field(Jobs)
      /\ Status("HLS") \in Statuses /\ Status("REMUX") \in Statuses
  BY <1>2, <1>4, <1>5, JobIsSource
<1>9. Offer(m) =
        [id |-> m, original |-> media[m].stored, direct |-> m \in Direct /\ media[m].stored,
         hls |-> Url("HLS"), remux |-> Url("REMUX"), hlsJob |-> Newest("HLS"), remuxJob |-> Newest("REMUX"),
         hlsStatus |-> Status("HLS"), remuxStatus |-> Status("REMUX")]
  BY DEF Offer, Url, Newest, Of, Status
<1> HIDE DEF Status
<1>10. QED
  BY <1>6, <1>7, <1>8, <1>9 DEF Snapshot, Statuses

LEMMA UrlInSource == ASSUME NEW file \in Snapshot, NEW mode PROVE UrlIn(file, mode) \in Source
BY JobIsSource DEF UrlIn, Snapshot, Source, Field

\* What a form sends is a body of the service.
LEMMA PayloadTyped ==
  ASSUME NEW form \in Form, NEW file, NEW s \in Field(Seasons), NEW n \in Numbers, NEW ready \in BOOLEAN
  PROVE  Payload(form, file, s, n, ready) \in Dto /\ Payload(form, file, s, n, ready).number # Null
<1> DEFINE stored == form.video \in {"UPLOAD", "AVAILABLE"}
           j == IF stored /\ form.media = Null THEN form.job ELSE Null
           m == CASE stored /\ form.media # Null -> form.media
                  [] form.video \in {"NONE", "URL"} -> None
                  [] OTHER -> Null
           url == CASE form.video = "URL" -> form.url
                    [] form.video = "NONE" -> None
                    [] OTHER -> Null
<1>1. j \in Field(Jobs)
  BY DEF Form, Field
<1>2. m \in Media \cup {Null, None}
  BY DEF Form, Field
<1>3. url \in Links \cup Media \cup Jobs \cup {Null, None}
  BY DEF Form, Source, Field
<1>4. form.mode \in Field(Modes) /\ (form.published /\ ready) \in Field(BOOLEAN)
  BY DEF Form, Field
<1>5. n \in Field(Numbers) /\ n # Null
  BY CatalogueAssumption DEF Field, Numbers
<1>6. Payload(form, file, s, n, ready) =
        [season |-> s, number |-> n, job |-> j, media |-> m, url |-> url, mode |-> form.mode,
         published |-> form.published /\ ready]
  BY DEF Payload
<1> HIDE DEF stored, j, m, url
<1>7. QED
  BY <1>1, <1>2, <1>3, <1>4, <1>5, <1>6 DEF Dto

-----------------------------------------------------------------------------
(* The page: which episode its form is of *)

Loads == {"none", "current", "stale"}

\* The last request for an episode is that of the form that waits for it, or of
\* an empty form that was opened meanwhile.
Consistent(p, ls) ==
  /\ p.load = "ready" /\ p.editing # Null => p.form.of = p.editing
  /\ ~p.open => p.form.of = Null
  /\ \A e \in Episodes : ls[e] = "current" => p.open /\ p.editing \in {e, Null}

PageInv ==
  /\ page \in Page /\ loads \in [Episodes -> Loads]
  /\ Consistent(page, loads)
  /\ page.form.of \in Field(Live)

PageNext ==
  /\ page' \in Page /\ loads' \in [Episodes -> Loads]
  /\ Consistent(page', loads')
  /\ page'.form.of \in Field(Live)

LEMMA ShownPage ==
  ASSUME NEW p \in Page, Shows(p), loads' \in [Episodes -> Loads], Consistent(p, loads'),
         p.form.of \in Field(Live)
  PROVE  PageNext
BY Settles DEF Shows, Consistent, PageNext

\* A step that changes neither the form nor which episode it is for.
LEMMA SamePage ==
  ASSUME PageInv, NEW p \in Page, Shows(p), UNCHANGED loads,
         p.editing = page.editing, p.open = page.open, p.load = page.load, p.form.of = page.form.of
  PROVE  PageNext
BY ShownPage DEF PageInv, Consistent

LEMMA ResetPage ==
  ASSUME NEW p \in Page
  PROVE  /\ Reset(p) \in Page /\ Reset(p).editing = Null /\ ~Reset(p).open /\ Reset(p).form.of = Null
         /\ Reset(p).load = "idle"
<1>1. emptyEpisode \in Form /\ emptyEpisode.of = Null /\ 0 \in Nat
  BY EmptyForm DEF emptyEpisode
<1>2. QED
  BY <1>1 DEF Reset, Page, Field

LEMMA SupersededLoads ==
  Superseded \in [Episodes -> Loads] /\ \A e \in Episodes : Superseded[e] # "current"
BY DEF Superseded, Loads

LEMMA ResetShown ==
  ASSUME page \in Page, Shows(Reset(page)), loads' = Superseded PROVE PageNext
<1>1. Consistent(Reset(page), loads')
  BY ResetPage, SupersededLoads DEF Consistent
<1>2. QED
  BY <1>1, ResetPage, SupersededLoads, ShownPage DEF Field

LEMMA OpeningPage ==
  ASSUME CatalogueInv, videoUrl \in [Episodes -> Source], PageInv, Opening PROVE PageNext
<1>0. page \in Page /\ loads \in [Episodes -> Loads] /\ Consistent(page, loads) /\ page.form.of \in Field(Live)
  BY DEF PageInv
<1>1. CASE Close
  BY <1>0, <1>1, ResetShown DEF Close
<1>2. CASE CreateEpisode
  <2> DEFINE p == [page EXCEPT !.editing = Null, !.form = emptyEpisode, !.media = Null,
                               !.load = "ready", !.open = TRUE, !.changes = 0]
  <2>1. p \in Page /\ p.editing = Null /\ p.open /\ p.form = emptyEpisode
    BY <1>0, EmptyForm DEF Page, Field
  <2>2. p.form.of = Null
    BY <2>1 DEF emptyEpisode
  <2>3. Shows(p) /\ loads' = loads
    BY <1>2 DEF CreateEpisode
  <2> HIDE DEF p
  <2>4. Consistent(p, loads')
    BY <2>1, <2>2, <2>3 DEF Consistent
  <2>5. QED
    BY <1>0, <2>1, <2>2, <2>3, <2>4, ShownPage DEF Field
<1>3. ASSUME NEW e \in Episodes, Edit(e) PROVE PageNext
  <2> DEFINE p == [page EXCEPT !.editing = e, !.open = TRUE, !.load = "loading"]
  <2>1. p \in Page /\ p.editing = e /\ p.open /\ p.load = "loading" /\ p.form = page.form
    BY <1>0 DEF Page, Field
  <2>2. Shows(p) /\ loads' = [Superseded EXCEPT ![e] = "current"]
    BY <1>3 DEF Edit
  <2> HIDE DEF p
  <2>3. Consistent(p, loads')
    BY <2>1, <2>2, SupersededLoads DEF Consistent
  <2>4. loads' \in [Episodes -> Loads]
    BY <2>2, SupersededLoads DEF Loads
  <2>5. QED
    BY <1>0, <2>1, <2>2, <2>3, <2>4, ShownPage
<1>4. ASSUME NEW e \in Episodes, loads' = [loads EXCEPT ![e] = "none"]
      PROVE  /\ loads' \in [Episodes -> Loads]
             /\ \A k \in Episodes : loads'[k] = "current" => loads[k] = "current"
  BY <1>0, <1>4 DEF Loads
<1>5. ASSUME NEW e \in Episodes, Loaded(e) PROVE PageNext
  <2>1. loads' = [loads EXCEPT ![e] = "none"] /\ e \in Live /\ loads[e] # "none"
    BY <1>5 DEF Loaded
  <2>2. CASE loads[e] = "stale"
    BY <1>0, <1>4, <1>5, <2>1, <2>2 DEF Loaded, Consistent, PageNext
  <2>3. CASE loads[e] # "stale"
    <3> DEFINE p == FilledWith(e)
    <3>1. loads[e] = "current"
      BY <1>0, <2>1, <2>3 DEF Loads
    <3>2. Filled(e) \in Form /\ Filled(e).of = e /\ FileOf(e) \in Field(Snapshot)
      BY FilledForm, FilledFile
    <3>3. episode[e].season \in Field(Seasons)
      BY DEF CatalogueInv, CatalogueTypeOK, TablesOK, EpisodeRow
    <3>4. p \in Page /\ p.editing = page.editing /\ p.open = page.open /\ p.form = Filled(e)
      BY <1>0, <3>2, <3>3 DEF FilledWith, Page
    <3>5. Shows(p)
      BY <1>5, <2>3 DEF Loaded
    <3> HIDE DEF p
    <3>6. Consistent(p, loads')
      BY <1>0, <1>4, <2>1, <3>1, <3>2, <3>4 DEF Consistent
    <3>7. QED
      BY <1>4, <2>1, <3>2, <3>4, <3>5, <3>6, ShownPage DEF Field
  <2>4. QED
    BY <2>2, <2>3
<1>6. ASSUME NEW e \in Episodes, LoadFails(e) PROVE PageNext
  <2> DEFINE p == [page EXCEPT !.load = "error"]
  <2>1. loads' = [loads EXCEPT ![e] = "none"]
    BY <1>6 DEF LoadFails
  <2>2. p \in Page /\ p.editing = page.editing /\ p.open = page.open /\ p.form = page.form /\ p.load = "error"
    BY <1>0 DEF Page
  <2>3. Consistent(page, loads')
    BY <1>0, <1>4, <2>1 DEF Consistent
  <2>4. CASE loads[e] = "stale"
    BY <1>0, <1>4, <1>6, <2>1, <2>3, <2>4 DEF LoadFails, PageNext
  <2>5. CASE loads[e] # "stale"
    <3>1. Shows(p)
      BY <1>6, <2>5 DEF LoadFails
    <3> HIDE DEF p
    <3>2. Consistent(p, loads')
      BY <2>2, <2>3 DEF Consistent
    <3>3. QED
      BY <1>0, <1>4, <2>1, <2>2, <3>1, <3>2, ShownPage
  <2>6. QED
    BY <2>4, <2>5
<1>7. ASSUME NEW s \in Seasons, ChangeSeason(s) PROVE PageNext
  <2>1. CASE page.open
    <3> DEFINE p == [page EXCEPT !.season = s]
    <3>1. /\ p \in Page /\ p.editing = page.editing /\ p.open = page.open /\ p.form = page.form
          /\ p.load = page.load
      BY <1>0 DEF Page, Field
    <3>2. Shows(p) /\ UNCHANGED loads
      BY <1>7, <2>1 DEF ChangeSeason
    <3> HIDE DEF p
    <3>3. QED
      BY <3>1, <3>2, SamePage
  <2>2. CASE ~page.open
    <3> DEFINE p == [Reset(page) EXCEPT !.season = s]
    <3>1. p \in Page /\ p.editing = Null /\ ~p.open /\ p.form.of = Null /\ p.load = "idle"
      BY <1>0, ResetPage DEF Page, Field
    <3>2. Shows(p) /\ loads' = Superseded
      BY <1>7, <2>2 DEF ChangeSeason
    <3> HIDE DEF p
    <3>3. Consistent(p, loads')
      BY <3>1, <3>2, SupersededLoads DEF Consistent
    <3>4. QED
      BY <3>1, <3>2, <3>3, SupersededLoads, ShownPage DEF Field
  <2>3. QED
    BY <2>1, <2>2
<1>8. QED
  BY <1>1, <1>2, <1>3, <1>5, <1>6, <1>7 DEF Opening

\* What an input of the form changes leaves the episode it is of.
LEMMA FillsPage ==
  ASSUME PageInv, NEW form \in Form, form.of = page.form.of, NEW file \in Field(Snapshot), Fills(form, file)
  PROVE  PageNext
<1> DEFINE p == [page EXCEPT !.form = form, !.media = file, !.changes = @ + 1]
<1>1. page \in Page /\ page.changes + 1 \in Nat
  BY DEF PageInv, Page
<1>2. /\ p \in Page /\ p.editing = page.editing /\ p.open = page.open /\ p.form = form
      /\ p.load = page.load
  BY <1>1 DEF Page
<1>3. Shows(p) /\ UNCHANGED loads
  BY DEF Fills
<1> HIDE DEF p
<1>4. QED
  BY <1>2, <1>3, SamePage

LEMMA FillingPage ==
  ASSUME CatalogueInv, PageInv, Filling PROVE PageNext
<1> DEFINE form == page.form
<1>0. form \in Form /\ page.media \in Field(Snapshot)
  BY DEF PageInv, Page
<1>n. Null \in Source /\ Null \in Field(Jobs) /\ Null \in Field(Media) /\ Null \in Field(Snapshot)
  BY DEF Source, Field
<1>m. \A m \in Media : m \in Source /\ m \in Field(Media)
  BY DEF Source, Field
<1>1. ASSUME NEW to \in BOOLEAN, ChangePublished(to) PROVE PageNext
  <2> DEFINE next == [form EXCEPT !.published = to]
  <2>1. next \in Form /\ next.of = form.of
    BY <1>0 DEF Form
  <2>2. Fills(next, page.media)
    BY <1>1 DEF ChangePublished
  <2> HIDE DEF next
  <2>3. QED
    BY <1>0, <2>1, <2>2, FillsPage
<1>2. ASSUME NEW to \in Origins, ChangeVideoMode(to) PROVE PageNext
  <2> DEFINE next == [emptyEpisode EXCEPT !.of = form.of, !.video = to, !.published = form.published /\ to = "URL"]
  <2>1. form.of \in Field(Episodes) /\ (form.published /\ to = "URL") \in BOOLEAN
    BY <1>0 DEF Form
  <2>2. next \in Form /\ next.of = form.of
    BY <2>1, EmptyForm DEF Form
  <2>3. Fills(next, Null)
    BY <1>2 DEF ChangeVideoMode
  <2> HIDE DEF next
  <2>4. QED
    BY <1>n, <2>2, <2>3, FillsPage
<1>3. ASSUME NEW hls \in BOOLEAN, ChangeSource(hls) PROVE PageNext
  <2> DEFINE mode == IF hls THEN "HLS" ELSE "ORIGINAL"
             next == [form EXCEPT !.mode = mode, !.url = Null, !.original = Null, !.remux = Null, !.hls = Null]
  <2>1. mode \in Modes
    BY DEF Modes
  <2>2. Fills(next, page.media)
    BY <1>3 DEF ChangeSource
  <2> HIDE DEF mode
  <2>3. next \in Form /\ next.of = form.of
    BY <1>0, <1>n, <2>1 DEF Form
  <2> HIDE DEF next
  <2>4. QED
    BY <1>0, <2>2, <2>3, FillsPage
<1>4. ASSUME NEW to \in Links, TypeUrl(to) PROVE PageNext
  <2> DEFINE next == [form EXCEPT !.url = to, !.original = to, !.hls = Null]
  <2>1. to \in Source
    BY DEF Source, Field
  <2>2. next \in Form /\ next.of = form.of
    BY <1>0, <1>n, <2>1 DEF Form
  <2>3. Fills(next, page.media)
    BY <1>4 DEF TypeUrl
  <2> HIDE DEF next
  <2>4. QED
    BY <1>0, <2>2, <2>3, FillsPage
<1>5. ASSUME NEW m \in Media, SelectMedia(m) PROVE PageNext
  <2> DEFINE file == Offer(m)
             mode == CASE page.form.media = m -> page.form.mode
                       [] OTHER -> IF file.direct THEN "ORIGINAL"
                                   ELSE IF file.remux # Null THEN "REMUX"
                                   ELSE IF file.hls # Null THEN "HLS" ELSE "ORIGINAL"
             url == UrlIn(file, mode)
             original == IF file.original THEN m ELSE Null
             next == [form EXCEPT !.media = m, !.job = Null, !.mode = mode, !.url = url,
                                  !.original = original, !.remux = file.remux,
                                  !.hls = file.hls, !.published = @ /\ url # Null]
  <2>1. file \in Snapshot
    BY OfferedFile
  <2>2. mode \in Modes
    <3> HIDE DEF file
    <3>1. page.form.mode \in Modes
      BY <1>0 DEF Form
    <3>2. QED
      BY <3>1 DEF Modes
  <2>3. Fills(next, file)
    BY <1>5 DEF SelectMedia
  <2> HIDE DEF file, mode
  <2>4. url \in Source /\ original \in Source /\ file.remux \in Source /\ file.hls \in Source
    BY <1>n, <1>m, <2>1, UrlInSource DEF Snapshot
  <2> HIDE DEF url, original
  <2>5. (form.published /\ url # Null) \in BOOLEAN /\ m \in Field(Media)
    BY <1>m
  <2>6. next \in Form /\ next.of = form.of
    BY <1>0, <1>n, <2>2, <2>4, <2>5 DEF Form
  <2> HIDE DEF next
  <2>7. QED
    BY <2>1, <2>3, <2>6, FillsPage DEF Field
<1>6. ASSUME NEW mode \in Modes, ChangePlaybackMode(mode) PROVE PageNext
  <2> DEFINE url == UrlIn(page.media, mode)
             next == [form EXCEPT !.mode = mode, !.url = url]
  <2>1. page.media \in Snapshot
    BY <1>0, <1>6 DEF ChangePlaybackMode, Enabled, Field
  <2>2. url \in Source
    BY <2>1, UrlInSource
  <2>3. Fills(next, page.media)
    BY <1>6 DEF ChangePlaybackMode
  <2> HIDE DEF url
  <2>4. next \in Form /\ next.of = form.of
    BY <1>0, <2>2 DEF Form
  <2> HIDE DEF next
  <2>5. QED
    BY <1>0, <2>3, <2>4, FillsPage
<1>7. ASSUME NEW m \in Media, Uploaded(m) PROVE PageNext
  <2> DEFINE direct == m \in Direct
             url == IF direct THEN m ELSE Null
             next == [form EXCEPT !.video = "AVAILABLE", !.media = m, !.job = Null, !.mode = "ORIGINAL",
                                  !.url = url, !.original = m, !.remux = Null, !.hls = Null]
             file == [id |-> m, original |-> TRUE, direct |-> direct, hls |-> Null, remux |-> Null,
                      hlsJob |-> Null, remuxJob |-> Null, hlsStatus |-> "NONE", remuxStatus |-> "NONE"]
  <2>1. direct \in BOOLEAN /\ url \in Source
    BY <1>n, <1>m
  <2>2. Fills(next, file)
    BY <1>7 DEF Uploaded
  <2> HIDE DEF direct, url
  <2>3. next \in Form /\ next.of = form.of
    BY <1>0, <1>n, <1>m, <2>1 DEF Form, Origins, Modes
  <2>4. file \in Snapshot
    BY <1>n, <2>1 DEF Snapshot
  <2> HIDE DEF next, file
  <2>5. QED
    BY <2>2, <2>3, <2>4, FillsPage DEF Field
<1>8. ASSUME NEW j \in Jobs, UploadedToProcess(j) PROVE PageNext
  <2> DEFINE next == [form EXCEPT !.mode = KindOf[j], !.media = Null, !.job = j, !.url = Null,
                                  !.original = Null, !.remux = Null, !.hls = Null, !.published = FALSE]
  <2>1. KindOf[j] \in Modes /\ j \in Field(Jobs)
    BY PlaybackAssumption DEF Modes, Field
  <2>2. next \in Form /\ next.of = form.of
    BY <1>0, <1>n, <2>1 DEF Form
  <2>3. Fills(next, Null)
    BY <1>8 DEF UploadedToProcess
  <2> HIDE DEF next
  <2>4. QED
    BY <1>n, <2>2, <2>3, FillsPage
<1>9. QED
  BY <1>1, <1>2, <1>3, <1>4, <1>5, <1>6, <1>7, <1>8 DEF Filling

-----------------------------------------------------------------------------
(* The page: requests and their answers *)

\* A flag, or the shown file, is all that the page writes.
LEMMA FlaggedPage ==
  ASSUME PageInv, UNCHANGED loads, NEW file \in Field(Snapshot), NEW form \in Form, form.of = page.form.of,
         NEW saving \in BOOLEAN, NEW version \in BOOLEAN,
         Shows([page EXCEPT !.media = file, !.form = form, !.saving = saving, !.version = version])
  PROVE  PageNext
<1> DEFINE p == [page EXCEPT !.media = file, !.form = form, !.saving = saving, !.version = version]
<1>1. page \in Page
  BY DEF PageInv
<1>2. p \in Page /\ p.editing = page.editing /\ p.open = page.open /\ p.load = page.load /\ p.form = form
  BY <1>1 DEF Page
<1>3. Shows(p)
  OBVIOUS
<1> HIDE DEF p
<1>4. QED
  BY <1>2, <1>3, SamePage

LEMMA SavedPage == ASSUME PageInv, NEW r, Saved(r) PROVE PageNext
BY ResetShown DEF Saved, PageInv

LEMMA NotSavedPage ==
  ASSUME CatalogueInv, PageInv, NEW r \in Requests, call[r] \in Call, NotSaved(r) PROVE PageNext
<1>0. page \in Page /\ page.form \in Form /\ page.media \in Field(Snapshot) /\ page.version \in BOOLEAN
  BY DEF PageInv, Page
<1> DEFINE cleared(file) == [page EXCEPT !.media = file, !.saving = FALSE]
<1>1. ASSUME NEW file \in Field(Snapshot), Shows(cleared(file)), UNCHANGED loads PROVE PageNext
  <2>1. cleared(file) = [page EXCEPT !.media = file, !.form = page.form, !.saving = FALSE, !.version = page.version]
    BY <1>0 DEF Page
  <2>2. Shows([page EXCEPT !.media = file, !.form = page.form, !.saving = FALSE, !.version = page.version])
    BY <1>1, <2>1 DEF Shows
  <2>3. FALSE \in BOOLEAN /\ UNCHANGED loads
    BY <1>1
  <2> HIDE DEF cleared
  <2>4. QED
    BY <1>0, <2>2, <2>3, FlaggedPage
<1>2. UNCHANGED loads
  BY DEF NotSaved
<1>3. CASE call[r].media # Null /\ media[call[r].media].status # "DELETED"
  <2>1. PICK file \in {page.media, Offer(call[r].media)} : Shows(cleared(file))
    BY <1>3 DEF NotSaved
  <2>2. call[r].media \in Media
    BY <1>3 DEF Call, Field
  <2>3. file \in Field(Snapshot)
    BY <1>0, <2>2, OfferedFile DEF Field
  <2> HIDE DEF cleared
  <2>4. QED
    BY <1>1, <1>2, <2>1, <2>3
<1>4. CASE ~(call[r].media # Null /\ media[call[r].media].status # "DELETED")
  <2>1. Shows([page EXCEPT !.saving = FALSE])
    BY <1>4 DEF NotSaved
  <2>2. [page EXCEPT !.saving = FALSE] = cleared(page.media)
    BY <1>0 DEF Page
  <2> HIDE DEF cleared
  <2>3. QED
    BY <1>0, <1>1, <1>2, <2>1, <2>2
<1>5. QED
  BY <1>3, <1>4

LEMMA VersionedPage ==
  ASSUME PageInv, NEW j \in Jobs, Versioned(j), UNCHANGED loads PROVE PageNext
<1>0. page \in Page /\ page.form \in Form /\ page.media \in Field(Snapshot) /\ page.saving \in BOOLEAN
  BY DEF PageInv, Page
<1> DEFINE status == IF job'[j].status = "ACTIVE" THEN "ACTIVE" ELSE "READY"
           hls == IF job'[j].output THEN j ELSE page.media.hls
           remux == IF job'[j].output THEN j ELSE page.media.remux
           asHls == [page.media EXCEPT !.hlsStatus = status, !.hlsJob = j, !.hls = hls]
           asRemux == [page.media EXCEPT !.remuxStatus = status, !.remuxJob = j, !.remux = remux]
           form == IF KindOf[j] = "HLS" THEN [page.form EXCEPT !.job = j] ELSE page.form
           file == CASE page.media = Null -> Null
                     [] page.media # Null /\ KindOf[j] = "HLS" -> asHls
                     [] OTHER -> asRemux
<1>1. form \in Form /\ form.of = page.form.of
  <2>1. j \in Field(Jobs)
    BY DEF Field
  <2>2. QED
    BY <1>0, <2>1 DEF Form
<1>2. file \in Field(Snapshot)
  <2>1. CASE page.media = Null
    BY <2>1 DEF Field
  <2>2. CASE page.media # Null
    <3>1. page.media \in Snapshot
      BY <1>0, <2>2 DEF Field
    <3>2. j \in Source /\ j \in Field(Jobs)
      BY JobIsSource DEF Field
    <3>3. hls \in Source /\ remux \in Source /\ status \in Statuses
      BY <3>1, <3>2 DEF Snapshot, Statuses
    <3> HIDE DEF hls, remux, status
    <3>4. asHls \in Snapshot /\ asRemux \in Snapshot
      BY <3>1, <3>2, <3>3 DEF Snapshot, Statuses
    <3> HIDE DEF asHls, asRemux
    <3>5. QED
      BY <2>2, <3>4 DEF Field
  <2>3. QED
    BY <2>1, <2>2
<1>3. Shows([page EXCEPT !.form = form, !.media = file, !.version = FALSE])
  BY DEF Versioned
<1> HIDE DEF form, file
<1>4. [page EXCEPT !.form = form, !.media = file, !.version = FALSE]
        = [page EXCEPT !.media = file, !.form = form, !.saving = page.saving, !.version = FALSE]
  BY <1>0 DEF Page
<1>5. QED
  BY <1>0, <1>1, <1>2, <1>3, <1>4, FlaggedPage

LEMMA AskingPage ==
  ASSUME CatalogueInv, PageInv, NEW r \in Requests, call[r] \in Call, Asking(r) PROVE PageNext
<1>0. page \in Page /\ page.form \in Form /\ page.media \in Field(Snapshot)
      /\ page.saving \in BOOLEAN /\ page.version \in BOOLEAN
  BY DEF PageInv, Page
<1>1. CASE Submit(r)
  <2>1. Shows([page EXCEPT !.saving = TRUE]) /\ UNCHANGED loads
    BY <1>1 DEF Submit, Sends
  <2>2. [page EXCEPT !.saving = TRUE]
          = [page EXCEPT !.media = page.media, !.form = page.form, !.saving = TRUE, !.version = page.version]
    BY <1>0 DEF Page
  <2>3. QED
    BY <1>0, <2>1, <2>2, FlaggedPage
<1>2. CASE ServeCreate(r)
  BY <1>2, SavedPage, NotSavedPage DEF ServeCreate
<1>3. CASE ServeUpdate(r)
  <2>1. CASE Saved(r) \/ NotSaved(r)
    BY <2>1, SavedPage, NotSavedPage
  <2>2. CASE UNCHANGED <<call, loads, page, boardVars>>
    BY <2>2 DEF PageInv, PageNext, Consistent
  <2>3. QED
    BY <1>3, <2>1, <2>2 DEF ServeUpdate
<1>4. CASE SaveFails(r)
  BY <1>4, NotSavedPage DEF SaveFails
<1>5. ASSUME NEW kind, VersionNow(r, kind) PROVE PageNext
  <2>1. Shows([page EXCEPT !.version = TRUE]) /\ UNCHANGED loads
    BY <1>5 DEF VersionNow, Sends
  <2>2. [page EXCEPT !.version = TRUE]
          = [page EXCEPT !.media = page.media, !.form = page.form, !.saving = page.saving, !.version = TRUE]
    BY <1>0 DEF Page
  <2>3. QED
    BY <1>0, <2>1, <2>2, FlaggedPage
<1>6. CASE ServeVersion(r)
  BY <1>6, VersionedPage DEF ServeVersion, InputJobs
<1>7. CASE VersionFails(r)
  <2>1. Shows([page EXCEPT !.version = FALSE]) /\ UNCHANGED loads
    BY <1>7 DEF VersionFails
  <2>2. [page EXCEPT !.version = FALSE]
          = [page EXCEPT !.media = page.media, !.form = page.form, !.saving = page.saving, !.version = FALSE]
    BY <1>0 DEF Page
  <2>3. QED
    BY <1>0, <2>1, <2>2, FlaggedPage
<1>8. QED
  BY <1>1, <1>2, <1>3, <1>4, <1>5, <1>6, <1>7 DEF Asking

LEMMA AroundPage == ASSUME PageInv, Around PROVE PageNext
BY SamePage DEF Around, PageInv

-----------------------------------------------------------------------------
(* The requests of the page, and what they do to the rows *)

\* A request that saves an episode is of the form of that episode; one for a
\* version is of an episode that was read; the services have no other request.
CallInv(r) ==
  /\ call[r] \in Call
  /\ call[r].kind = "save" =>
       call[r].dto.number # Null /\ (call[r].e # Null => call[r].of = call[r].e)
  /\ call[r].kind = "version" => call[r].e \in Field(Live)
  /\ req[r].pc \in {"idle", "update"}
  /\ req[r].pc = "update" =>
       call[r].kind = "save" /\ call[r].e = req[r].e /\ call[r].e # Null /\ call[r].dto = req[r].dto

\* What the services do for a request of the page.
Serves(r) ==
  \/ \E d \in NewBodies : Create(r, d)
  \/ call[r].e # Null /\ UpdateBegin(r, call[r].e, call[r].dto)
  \/ Update(r)
  \/ Abort(r)

\* A step of the page calls a service, is one of the pipeline, or leaves the rows.
LEMMA EditorSteps ==
  ASSUME \A r \in Requests : CallInv(r), EditorNext
  PROVE  \/ \E r \in Requests : call[r].kind = "save" /\ Serves(r)
         \/ Pipeline
         \/ UNCHANGED catalogueVars
<1> DEFINE Goal == \/ \E r \in Requests : call[r].kind = "save" /\ Serves(r)
                   \/ Pipeline
                   \/ UNCHANGED catalogueVars
<1>1. CASE Opening
  BY <1>1 DEF Opening, Close, CreateEpisode, Edit, Loaded, LoadFails, ChangeSeason, Idles, mediaVars
<1>2. CASE Filling
  BY <1>2 DEF Filling, ChangePublished, ChangeVideoMode, ChangeSource, TypeUrl, SelectMedia, Uploaded,
              ChangePlaybackMode, UploadedToProcess, Fills, Idles, mediaVars
<1>3. CASE Around
  <2>1. CASE Pipeline
    BY <2>1
  <2>2. CASE BoardNext
    <3>1. ASSUME NEW j \in Jobs, StartJob(j) \/ RetryJob(j) \/ CancelJob(j) PROVE Pipeline
      BY <3>1 DEF StartJob, RetryJob, CancelJob, Pipeline, Field
    <3>2. QED
      BY <2>2, <3>1 DEF BoardNext
  <2>3. QED
    BY <1>3, <2>1, <2>2 DEF Around
<1>4. ASSUME NEW r \in Requests, Asking(r) PROVE Goal
  <2>0. CallInv(r)
    OBVIOUS
  <2>1. CASE Submit(r) \/ VersionFails(r) \/ \E kind \in {KindOf[j] : j \in Jobs} : VersionNow(r, kind)
    BY <2>1 DEF Submit, VersionFails, VersionNow, Sends, mediaVars
  <2>2. CASE ServeCreate(r)
    <3> DEFINE d == call[r].dto
    <3>1. CASE Accepted(d)
      <4>1. d \in Dto /\ d.number # Null /\ d.url # None
        BY <2>0, <2>2, <3>1 DEF CallInv, Call, ServeCreate, Accepted
      <4>2. Body(d) \in NewBodies
        <5> DEFINE m == IF d.media = None THEN Null ELSE d.media
        <5>1. m \in Field(Media) /\ m # None
          BY <4>1, CatalogueAssumption DEF Dto, Field
        <5>2. Body(d) = [d EXCEPT !.media = m]
          BY DEF Body
        <5> HIDE DEF m, d
        <5>3. Body(d) \in Dto /\ Body(d).number = d.number /\ Body(d).media = m /\ Body(d).url = d.url
          BY <4>1, <5>1, <5>2 DEF Dto, Field
        <5>4. QED
          BY <4>1, <5>1, <5>3 DEF NewBodies
      <4>3. Create(r, Body(d)) /\ call[r].kind = "save"
        BY <2>2, <3>1 DEF ServeCreate
      <4>4. QED
        BY <4>2, <4>3 DEF Serves
    <3>2. CASE ~Accepted(d)
      BY <2>2, <3>2 DEF ServeCreate
    <3>3. QED
      BY <3>1, <3>2
  <2>3. CASE ServeUpdate(r)
    BY <2>3 DEF ServeUpdate, Serves
  <2>4. CASE SaveFails(r)
    BY <2>4 DEF SaveFails, Serves
  <2>5. CASE ServeVersion(r)
    <3>1. PICK j \in InputJobs(call[r].media) : Enqueue(j, call[r].e) \/ UNCHANGED catalogueVars
      BY <2>5 DEF ServeVersion
    <3>2. call[r].e \in Field(Live) /\ j \in Jobs
      BY <2>0, <2>5, <3>1 DEF CallInv, ServeVersion, InputJobs
    <3>3. QED
      BY <3>1, <3>2 DEF Pipeline
  <2>6. QED
    BY <1>4, <2>1, <2>2, <2>3, <2>4, <2>5 DEF Asking
<1>5. QED
  BY <1>1, <1>2, <1>3, <1>4 DEF EditorNext

LEMMA EditorIsAny ==
  ASSUME \A r \in Requests : CallInv(r), EditorNext PROVE [AnyNext]_catalogueVars
<1>1. ASSUME NEW r \in Requests, call[r].kind = "save", Serves(r) PROVE AnyRequest(r)
  <2>1. CASE call[r].e # Null /\ UpdateBegin(r, call[r].e, call[r].dto)
    <3>1. call[r].e \in Episodes /\ call[r].dto \in Dto
      BY <2>1 DEF CallInv, Call, Field
    <3>2. QED
      BY <2>1, <3>1 DEF AnyRequest
  <2>2. QED
    BY <1>1, <2>1 DEF Serves, AnyRequest, EpisodeRequest
<1>2. QED
  BY <1>1, EditorSteps DEF AnyNext

\* The page archives nothing.
LEMMA LiveKept ==
  ASSUME CatalogueInv, \A r \in Requests : CallInv(r), EditorNext PROVE Field(Live) \subseteq Field(Live)'
<1>0. /\ episode \in [Episodes -> EpisodeRow]
      /\ \A r \in Requests : req[r] \in Slot /\ SlotNamed(req[r])
  BY DEF CatalogueInv, CatalogueTypeOK, TablesOK
<1>1. SUFFICES \A e \in Live : e \in Live'
  BY DEF Field
<1>2. ASSUME NEW r \in Requests, Serves(r) PROVE \A e \in Live : e \in Live'
  <2>1. CASE UNCHANGED episode
    BY <2>1 DEF Live
  <2>2. ASSUME NEW d \in NewBodies, Create(r, d), ~UNCHANGED episode PROVE \A e \in Live : e \in Live'
    <3> DEFINE new == Fresh(episode)
    <3>1. new \in Episodes /\ episode[new].state = "none"
      BY <2>2, FreshRow DEF Create
    <3>2. episode' = [Released(episode, d.season, d.number) EXCEPT ![new] = NewEpisode(d)]
      BY <2>2 DEF Create
    <3>3. Keeps(Released(episode, d.season, d.number))
      BY <1>0, ReleasedKeeps
    <3> HIDE DEF new
    <3>4. QED
      BY <3>1, <3>2, <3>3 DEF Keeps, Live
  <2>3. CASE Update(r) /\ ~UNCHANGED episode
    <3> DEFINE s == req[r]
    <3>1. s \in Slot /\ s.e \in Episodes /\ UpdateSeason(s) \in Seasons
      BY <1>0, <2>3 DEF Update, SlotNamed
    <3>2. episode' = [UpdateReleased(s) EXCEPT ![s.e] = UpdatedRow(s)]
      BY <2>3 DEF Update
    <3>3. UpdatedRow(s).state = episode[s.e].state /\ Keeps(UpdateReleased(s))
      BY <3>1, ChangedRow
    <3>4. QED
      BY <3>1, <3>2, <3>3 DEF Keeps, Live
  <2>4. QED
    BY <1>2, <2>1, <2>2, <2>3 DEF Serves, UpdateBegin, Abort
<1>3. CASE Pipeline
  BY <1>3, PipelineStep DEF Stay, Same, Live
<1>4. CASE UNCHANGED catalogueVars
  BY <1>4 DEF catalogueVars, Live
<1>5. QED
  BY <1>2, <1>3, <1>4, EditorSteps

CallsOK == call \in [Requests -> Call] /\ \A r \in Requests : CallInv(r)

LEMMA CallsKept ==
  ASSUME CatalogueInv, PageInv, CallsOK, EditorNext PROVE CallsOK'
<1>0. /\ call \in [Requests -> Call] /\ \A r \in Requests : CallInv(r)
      /\ req \in [Requests -> Slot] /\ Field(Live) \subseteq Field(Live)'
  BY LiveKept DEF CallsOK, CatalogueInv, CatalogueTypeOK
<1>1. page \in Page /\ page.form \in Form /\ page.media \in Field(Snapshot) /\ page.season \in Field(Seasons)
      /\ page.editing \in Field(Episodes) /\ page.form.of \in Field(Live)
      /\ (Editable /\ page.editing # Null => page.form.of = page.editing)
  BY DEF PageInv, Page, Consistent, Editable
<1>2. ASSUME NEW q \in Requests, call'[q] = call[q], req'[q] = req[q] PROVE CallInv(q)'
  BY <1>0, <1>2 DEF CallInv
<1>3. ASSUME NEW q \in Requests, call'[q] = NoCall, req'[q].pc = "idle" PROVE CallInv(q)'
  BY <1>3, NoCallTyped DEF CallInv
<1>4. CASE UNCHANGED <<call, req>>
  BY <1>0, <1>2, <1>4 DEF CallsOK
<1>5. ASSUME NEW r \in Requests, NEW c \in Call, NEW x,
             call' = [call EXCEPT ![r] = c], req' = [req EXCEPT ![r] = x] \/ UNCHANGED req, CallInv(r)'
      PROVE  CallsOK'
  <2>1. call' \in [Requests -> Call]
    BY <1>0, <1>5
  <2>2. ASSUME NEW q \in Requests \ {r} PROVE CallInv(q)'
    BY <1>0, <1>2, <1>5
  <2>3. QED
    BY <1>5, <2>1, <2>2 DEF CallsOK
<1>6. ASSUME NEW r \in Requests, NEW x, call' = [call EXCEPT ![r] = NoCall], x.pc = "idle",
             req' = [req EXCEPT ![r] = x] \/ (UNCHANGED req /\ req[r].pc = "idle")
      PROVE  CallsOK'
  <2>1. call'[r] = NoCall /\ req'[r].pc = "idle"
    BY <1>0, <1>6
  <2>2. QED
    BY <1>3, <1>5, <1>6, <2>1, NoCallTyped
<1>7. Idle.pc = "idle"
  BY DEF Idle
<1>8. CASE Opening \/ Filling
  BY <1>4, <1>8 DEF Opening, Close, CreateEpisode, Edit, Loaded, LoadFails, ChangeSeason, Idles, mediaVars,
     catalogueVars, Filling, ChangePublished, ChangeVideoMode, ChangeSource, TypeUrl, SelectMedia, Uploaded,
     ChangePlaybackMode, UploadedToProcess, Fills
<1>9. CASE Around
  <2>1. UNCHANGED req
    BY <1>9 DEF Around, BoardNext, StartJob, RetryJob, CancelJob, Pipeline, Enqueue, JobCompletes, JobFails,
                WorkerAssociates, catalogueVars
  <2>2. QED
    BY <1>4, <1>9, <2>1 DEF Around
<1>10. ASSUME NEW r \in Requests, Asking(r) PROVE CallsOK'
  <2>0. CallInv(r) /\ call[r] \in Call
    BY <1>0
  <2>1. CASE Submit(r)
    <3>1. PICK ready \in Ready(page.form, page.media), n \in Numbers :
            Sends(r, [NoCall EXCEPT !.kind = "save", !.e = page.editing, !.of = page.form.of,
                                    !.media = IF page.media = Null THEN Null ELSE page.form.media,
                                    !.dto = Payload(page.form, page.media, page.season, n, ready)])
      BY <2>1 DEF Submit
    <3> DEFINE m == IF page.media = Null THEN Null ELSE page.form.media
               dto == Payload(page.form, page.media, page.season, n, ready)
               c == [NoCall EXCEPT !.kind = "save", !.e = page.editing, !.of = page.form.of, !.media = m, !.dto = dto]
    <3>2. dto \in Dto /\ dto.number # Null
      BY <1>1, PayloadTyped DEF Ready
    <3>3. m \in Field(Media) /\ page.form.of \in Field(Episodes)
      BY <1>1 DEF Form, Field
    <3>4. Sends(r, c)
      BY <3>1
    <3> HIDE DEF m, dto
    <3>5. c \in Call /\ c.kind = "save" /\ c.e = page.editing /\ c.of = page.form.of /\ c.dto = dto
      BY <1>1, <3>2, <3>3, NoCallTyped DEF Call
    <3> HIDE DEF c
    <3>6. call' = [call EXCEPT ![r] = c] /\ UNCHANGED req /\ req[r].pc = "idle"
      BY <3>4 DEF Sends, Idle0, mediaVars, catalogueVars
    <3>7. Editable
      BY <2>1 DEF Submit
    <3>8. CallInv(r)'
      BY <1>0, <1>1, <3>2, <3>5, <3>6, <3>7 DEF CallInv
    <3>9. QED
      BY <1>5, <3>5, <3>6, <3>8
  <2>2. ASSUME NEW kind \in {KindOf[j] : j \in Jobs}, VersionNow(r, kind) PROVE CallsOK'
    <3> DEFINE c == [NoCall EXCEPT !.kind = "version", !.e = page.editing, !.media = page.form.media, !.mode = kind]
    <3>1. kind \in Field(Modes) /\ page.form.media \in Field(Media)
      BY <1>1, PlaybackAssumption DEF Modes, Field, Form
    <3>2. c \in Call /\ c.kind = "version" /\ c.e = page.editing
      BY <1>1, <3>1, NoCallTyped DEF Call
    <3>3. Sends(r, c) /\ Editable
      BY <2>2 DEF VersionNow
    <3> HIDE DEF c
    <3>4. call' = [call EXCEPT ![r] = c] /\ UNCHANGED req /\ req[r].pc = "idle"
      BY <3>3 DEF Sends, Idle0, mediaVars, catalogueVars
    <3>5. page.editing \in Field(Live)'
      BY <1>0, <1>1, <3>3 DEF Field
    <3>6. CallInv(r)'
      BY <1>0, <3>2, <3>4, <3>5 DEF CallInv
    <3>7. QED
      BY <1>5, <3>2, <3>4, <3>6
  <2>3. CASE ServeCreate(r)
    <3>1. call' = [call EXCEPT ![r] = NoCall]
      BY <2>3 DEF ServeCreate, Saved, NotSaved
    <3>2. req[r].pc = "idle"
      BY <2>0, <2>3 DEF CallInv, ServeCreate
    <3>3. req' = [req EXCEPT ![r] = Idle] \/ UNCHANGED req
      BY <2>3 DEF ServeCreate, Create, Answer, catalogueVars
    <3>4. QED
      BY <1>6, <1>7, <3>1, <3>2, <3>3
  <2>4. CASE ServeUpdate(r)
    <3> DEFINE d == call[r].dto
               e == call[r].e
               x == [Idle EXCEPT !.pc = "update", !.e = e, !.row = episode[e], !.dto = d]
    <3>1. CASE UpdateBegin(r, e, d)
      <4>1. req' = [req EXCEPT ![r] = Idle] \/ req' = [req EXCEPT ![r] = x]
        BY <3>1 DEF UpdateBegin, Answer, Await
      <4>2. x.pc = "update" /\ x.e = e /\ x.dto = d
        BY DEF Idle
      <4> HIDE DEF x
      <4>3. CASE req' = [req EXCEPT ![r] = Idle]
        <5>1. req'[r].pc = "idle"
          BY <1>0, <1>7, <4>3
        <5>2. ~Update(r)
          BY <3>1 DEF UpdateBegin, Update
        <5>3. call' = [call EXCEPT ![r] = NoCall]
          BY <2>4, <5>1, <5>2 DEF ServeUpdate, NotSaved
        <5>4. QED
          BY <1>6, <1>7, <4>3, <5>3
      <4>4. CASE req' = [req EXCEPT ![r] = x]
        <5>1. req'[r] = x
          BY <1>0, <4>4
        <5>2. ~Update(r)
          BY <3>1 DEF UpdateBegin, Update
        <5>3. UNCHANGED call
          BY <2>4, <4>2, <5>1, <5>2 DEF ServeUpdate
        <5>4. CallInv(r)'
          BY <2>0, <2>4, <4>2, <5>1, <5>3 DEF CallInv, ServeUpdate
        <5>5. call' = [call EXCEPT ![r] = call[r]]
          BY <1>0, <5>3
        <5>6. QED
          BY <1>5, <2>0, <4>4, <5>4, <5>5
      <4>5. QED
        BY <4>1, <4>3, <4>4
    <3>2. CASE Update(r) /\ ~UpdateBegin(r, e, d)
      <4>1. req' = [req EXCEPT ![r] = Idle]
        BY <3>2 DEF Update, Answer
      <4>2. call' = [call EXCEPT ![r] = NoCall]
        BY <2>4, <3>2 DEF ServeUpdate, Saved, NotSaved
      <4>3. QED
        BY <1>6, <1>7, <4>1, <4>2
    <3>3. QED
      BY <2>4, <3>1, <3>2 DEF ServeUpdate
  <2>5. CASE SaveFails(r)
    <3>1. call' = [call EXCEPT ![r] = NoCall]
      BY <2>5 DEF SaveFails, NotSaved
    <3>2. req' = [req EXCEPT ![r] = Idle] \/ (UNCHANGED req /\ req[r].pc = "idle")
      BY <2>5 DEF SaveFails, Abort, Answer, catalogueVars
    <3>3. QED
      BY <1>6, <1>7, <3>1, <3>2
  <2>6. CASE ServeVersion(r) \/ VersionFails(r)
    <3>1. call' = [call EXCEPT ![r] = NoCall] /\ UNCHANGED req
      BY <2>6 DEF ServeVersion, VersionFails, Enqueue, mediaVars, catalogueVars
    <3>2. req[r].pc = "idle"
      BY <2>0, <2>6 DEF CallInv, ServeVersion, VersionFails
    <3>3. QED
      BY <1>6, <1>7, <3>1, <3>2
  <2>7. QED
    BY <1>10, <2>1, <2>2, <2>3, <2>4, <2>5, <2>6 DEF Asking
<1>11. QED
  BY <1>8, <1>9, <1>10 DEF EditorNext

-----------------------------------------------------------------------------
(* The column of the URL, and the invariant *)

\* An episode without a file has in the column the URL it was saved with.
UrlsOK ==
  /\ videoUrl \in [Episodes -> Source]
  /\ \A e \in Episodes : episode[e].media = Null => videoUrl[e] = episode[e].url

\* The worker links an episode to a file, and writes no other row.
LEMMA PipelineLinks ==
  ASSUME CatalogueInv, Pipeline
  PROVE  \A e \in Episodes : episode'[e] = episode[e] \/ episode'[e].media # Null
<1>0. episode \in [Episodes -> EpisodeRow]
  BY DEF CatalogueInv, CatalogueTypeOK, TablesOK
<1>1. CASE UNCHANGED episode
  BY <1>1
<1>2. ASSUME NEW j \in Jobs, WorkerAssociates(j), ~UNCHANGED episode
      PROVE  \A e \in Episodes : episode'[e] = episode[e] \/ episode'[e].media # Null
  <2>1. episode' = [episode EXCEPT ![dest[j]] = Associated(episode[dest[j]], j)]
    BY <1>2 DEF WorkerAssociates
  <2>2. InputOf[j] # Null
    BY PlaybackAssumption
  <2>3. ASSUME NEW row \in EpisodeRow PROVE Associated(row, j).media = InputOf[j]
    BY Zenon DEF Associated, EpisodeRow
  <2>4. QED
    BY <1>0, <2>1, <2>2, <2>3
<1>3. QED
  BY <1>1, <1>2 DEF Pipeline, Enqueue, JobCompletes, JobFails

LEMMA UrlsKept ==
  ASSUME CatalogueInv, CatalogueInv', \A r \in Requests : CallInv(r), UrlsOK, EditorNext PROVE UrlsOK'
<1>0. /\ episode' \in [Episodes -> EpisodeRow]
      /\ videoUrl \in [Episodes -> Source]
      /\ \A e \in Episodes : episode[e].media = Null => videoUrl[e] = episode[e].url
  BY DEF CatalogueInv, CatalogueTypeOK, TablesOK, UrlsOK
<1>1. CASE UNCHANGED <<episode, videoUrl>>
  BY <1>1 DEF UrlsOK
<1>2. CASE Around
  <2>1. videoUrl' = [e \in Episodes |-> IF Selected(episode'[e]) # Selected(episode[e])
                                          THEN Selected(episode'[e]) ELSE videoUrl[e]]
    BY <1>2 DEF Around
  <2>2. \A e \in Episodes : episode'[e] = episode[e] \/ episode'[e].media # Null
    <3>1. CASE Pipeline
      BY <3>1, PipelineLinks
    <3>2. CASE BoardNext
      BY <3>2 DEF BoardNext, StartJob, RetryJob, CancelJob, Enqueue, JobFails, catalogueVars
    <3>3. QED
      BY <1>2, <3>1, <3>2 DEF Around
  <2>3. ASSUME NEW row \in EpisodeRow PROVE Selected(row) \in Source
    BY JobIsSource DEF Selected, EpisodeRow, Source, Field
  <2>4. videoUrl' \in [Episodes -> Source]
    BY <1>0, <2>1, <2>3
  <2>5. ASSUME NEW e \in Episodes, episode'[e].media = Null PROVE videoUrl'[e] = episode'[e].url
    BY <1>0, <2>1, <2>2, <2>5
  <2>6. QED
    BY <2>4, <2>5 DEF UrlsOK
<1>3. CASE Opening \/ Filling
  BY <1>1, <1>3 DEF Opening, Close, CreateEpisode, Edit, Loaded, LoadFails, ChangeSeason, Idles, mediaVars,
     catalogueVars, Filling, ChangePublished, ChangeVideoMode, ChangeSource, TypeUrl, SelectMedia, Uploaded,
     ChangePlaybackMode, UploadedToProcess, Fills
<1>4. ASSUME NEW r \in Requests, Asking(r) PROVE UrlsOK'
  <2>1. CASE Submit(r) \/ VersionFails(r) \/ SaveFails(r) \/ ServeVersion(r)
             \/ \E kind \in {KindOf[j] : j \in Jobs} : VersionNow(r, kind)
    <3>1. UNCHANGED <<episode, videoUrl>>
      BY <2>1 DEF Submit, VersionFails, VersionNow, Sends, mediaVars, catalogueVars, SaveFails, Abort,
                  ServeVersion, Enqueue
    <3>2. QED
      BY <1>1, <3>1
  <2>2. CASE ServeCreate(r)
    <3> DEFINE Kept(e) == episode'[e] = episode[e]
    <3>1. videoUrl' = [e \in Episodes |-> IF Kept(e) THEN videoUrl[e] ELSE VideoOf(episode'[e])]
      BY <2>2 DEF ServeCreate, Columns
    <3>2. videoUrl' \in [Episodes -> Source]
      BY <1>0, <3>1, VideoIn
    <3>3. QED
      BY <1>0, <3>1, <3>2 DEF UrlsOK, VideoOf
  <2>3. CASE ServeUpdate(r)
    <3> DEFINE Kept(e) == episode'[e] = episode[e] /\ ~(req[r].pc = "update" /\ req[r].e = e)
    <3>1. videoUrl' = [e \in Episodes |-> IF Kept(e) THEN videoUrl[e] ELSE VideoOf(episode'[e])]
      BY <2>3 DEF ServeUpdate
    <3>2. videoUrl' \in [Episodes -> Source]
      BY <1>0, <3>1, VideoIn
    <3>3. QED
      BY <1>0, <3>1, <3>2 DEF UrlsOK, VideoOf
  <2>4. QED
    BY <1>4, <2>1, <2>2, <2>3 DEF Asking
<1>5. QED
  BY <1>2, <1>3, <1>4 DEF EditorNext

EditorInv == CatalogueInv /\ PageInv /\ CallsOK /\ UrlsOK

LEMMA InitEditor == EditorInit => EditorInv
<1> SUFFICES ASSUME EditorInit PROVE EditorInv
  OBVIOUS
<1>1. CatalogueInv
  BY InitCatalogue DEF EditorInit, MediaInit
<1>2. page = Closed /\ loads = [e \in Episodes |-> "none"]
  BY DEF EditorInit
<1>3. PageInv
  BY <1>2, ClosedTyped DEF PageInv, Consistent, Closed, emptyEpisode, Loads, Field
<1>4. CallsOK
  <2>1. call = [r \in Requests |-> NoCall] /\ req = [r \in Requests |-> Idle]
    BY DEF EditorInit, MediaInit, Init
  <2>2. Idle.pc = "idle"
    BY DEF Idle
  <2>3. QED
    BY <2>1, <2>2, NoCallTyped DEF CallsOK, CallInv
<1>5. UrlsOK
  <2>1. videoUrl = [e \in Episodes |-> Null] /\ Null \in Source
    BY DEF EditorInit, Source, Field
  <2>2. ASSUME NEW e \in Episodes PROVE episode[e].url = Null
    BY DEF EditorInit, MediaInit, Init, NoEpisode
  <2>3. QED
    BY <2>1, <2>2 DEF UrlsOK
<1>6. QED
  BY <1>1, <1>3, <1>4, <1>5 DEF EditorInv

LEMMA NextEditor == EditorInv /\ [EditorNext]_editorVars => EditorInv'
<1> SUFFICES ASSUME EditorInv, [EditorNext]_editorVars PROVE EditorInv'
  OBVIOUS
<1>0. /\ CatalogueInv /\ PageInv /\ CallsOK /\ UrlsOK
      /\ \A r \in Requests : call[r] \in Call /\ CallInv(r)
  BY DEF EditorInv, CallsOK
<1>1. CASE EditorNext
  <2>1. CatalogueInv'
    BY <1>0, <1>1, EditorIsAny, AnyCatalogue
  <2>2. PageNext
    BY <1>0, <1>1, OpeningPage, FillingPage, AskingPage, AroundPage DEF EditorNext, UrlsOK
  <2>3. PageInv'
    BY <1>0, <1>1, <2>2, LiveKept DEF PageNext, PageInv
  <2>4. QED
    BY <1>0, <1>1, <2>1, <2>3, CallsKept, UrlsKept DEF EditorInv
<1>2. CASE UNCHANGED editorVars
  <2>1. UNCHANGED <<catalogueVars, page, loads, call, videoUrl>>
    BY <1>2 DEF editorVars, mediaVars
  <2>2. CatalogueInv'
    BY <1>0, <2>1, AnyCatalogue
  <2>3. PageInv' /\ CallsOK' /\ UrlsOK'
    BY <1>0, <2>1 DEF catalogueVars, PageInv, Consistent, CallsOK, CallInv, UrlsOK, Live
  <2>4. QED
    BY <2>2, <2>3 DEF EditorInv
<1>3. QED
  BY <1>1, <1>2

LEMMA EditorKept == EditorSpec => []EditorInv
BY InitEditor, NextEditor, PTL DEF EditorSpec

\* Whatever answers come late, and whatever forms are opened and closed while
\* requests are on their way, a form that edits an episode was filled from that
\* episode, and so was every form that is on its way to it.
THEOREM ChangesReachTheirEpisode == EditorSpec => []PatchesWhatItShows
<1>1. EditorInv => PatchesWhatItShows
  BY DEF EditorInv, PageInv, Consistent, CallsOK, CallInv, PatchesWhatItShows
<1>2. QED
  BY <1>1, EditorKept, PTL

-----------------------------------------------------------------------------
(* An edition of other fields *)

\* What the form of an episode sends when nothing of the video was chosen: the
\* file of the episode, or the URL that it plays; or nothing that names a video.
LEMMA UntouchedChoice ==
  ASSUME CatalogueInv, UrlsOK, NEW e \in Episodes, {Untouched(e).media, Untouched(e).url} \ {Null, None} # {}
  PROVE  LET row == episode[e] c == Untouched(e) IN
         /\ c.job = Null /\ c.mode = row.mode
         /\ \/ row.media # Null /\ c.media = row.media /\ c.url = Null
            \/ row.media = Null /\ c.media = None /\ c.url = row.url /\ row.url \notin {Null, None}
<1> DEFINE row == episode[e]
           c == Untouched(e)
           form == Filled(e)
           j == AdminById(e).job
<1>0. form \in Form /\ row \in EpisodeRow
  BY FilledForm DEF UrlsOK, CatalogueInv, CatalogueTypeOK, TablesOK
<1>1. /\ c.job = (IF form.video \in {"UPLOAD", "AVAILABLE"} /\ form.media = Null THEN form.job ELSE Null)
      /\ c.media = (CASE form.video \in {"UPLOAD", "AVAILABLE"} /\ form.media # Null -> form.media
                      [] form.video \in {"NONE", "URL"} -> None
                      [] OTHER -> Null)
      /\ c.url = (CASE form.video = "URL" -> form.url [] form.video = "NONE" -> None [] OTHER -> Null)
      /\ c.mode = form.mode
  BY DEF Untouched, Choice, Payload
<1>2. CASE j # Null \/ row.media # Null
  <2>1. form.video = "AVAILABLE" /\ form.media = row.media /\ form.mode = row.mode
    BY <1>2 DEF Filled, emptyEpisode
  <2>2. QED
    BY <1>1, <2>1
<1>3. CASE j = Null /\ row.media = Null /\ videoUrl[e] # Null
  <2>1. form.video = "URL" /\ form.url = videoUrl[e] /\ form.mode = row.mode
    BY <1>3 DEF Filled, emptyEpisode
  <2>2. videoUrl[e] = row.url
    BY <1>3 DEF UrlsOK
  <2>3. QED
    BY <1>1, <1>3, <2>1, <2>2
<1>4. CASE j = Null /\ row.media = Null /\ videoUrl[e] = Null
  <2>1. form.video = "NONE"
    BY <1>4 DEF Filled, emptyEpisode
  <2>2. QED
    BY <1>1, <2>1
<1>5. QED
  BY <1>2, <1>3, <1>4

\* The readiness of a row is that of its jobs' statuses and outputs.
LEMMA SameReason ==
  ASSUME CatalogueInv, \A j \in Jobs : Owned(job', j), UNCHANGED media, NEW row \in EpisodeRow, NEW old \in EpisodeRow,
         row.media = old.media, row.mode = old.mode, row.media = Null => row.url = old.url
  PROVE  Reason(media', job', row) = Reason(media, job, old)
<1>0. \A j \in Jobs : /\ job'[j].status = job[j].status /\ job'[j].output = job[j].output
                      /\ job'[j].stored = job[j].stored
  BY DEF Owned
<1>1. CASE row.media = Null
  <2>1. LegacyReason(media', job', row.mode, row.url) = LegacyReason(media, job, row.mode, row.url)
    BY <1>0 DEF LegacyReason
  <2>2. QED
    BY <1>1, <2>1 DEF Reason
<1>2. CASE row.media # Null
  <2> DEFINE js == InputJobs(row.media)
             kind == {j \in js : KindOf[j] = row.mode /\ job[j].status # "ABSENT"}
             after == {j \in js : KindOf[j] = row.mode /\ job'[j].status # "ABSENT"}
             In(S) == {j \in kind : job[j].status \in S}
             InAfter(S) == {j \in after : job'[j].status \in S}
  <2>1. js \subseteq Jobs
    BY DEF InputJobs
  <2>2. kind = after
    BY <1>0, <2>1
  <2>3. In({"COMPLETED"}) = InAfter({"COMPLETED"}) /\ In({"ACTIVE"}) = InAfter({"ACTIVE"})
    BY <1>0, <2>1, <2>2
  <2> DEFINE k == Latest(In({"COMPLETED"}))
  <2>4. In({"COMPLETED"}) # {} => OutputReason(job'[k]) = OutputReason(job[k])
    <3>1. ASSUME In({"COMPLETED"}) # {} PROVE k \in Jobs
      <4>1. In({"COMPLETED"}) \in SUBSET Jobs
        BY <2>1
      <4> HIDE DEF In
      <4>2. QED
        BY <3>1, <4>1, LatestJob
    <3> HIDE DEF k, In
    <3>2. QED
      BY <1>0, <3>1 DEF OutputReason
  <2>5. OriginalReason(media', row.media) = OriginalReason(media, row.media)
    BY DEF OriginalReason
  <2>6. ManagedReason(media, job, row.mode, row.media, js) =
          CASE row.mode = "ORIGINAL" -> OriginalReason(media, row.media)
            [] row.mode # "ORIGINAL" /\ In({"COMPLETED"}) # {} -> OutputReason(job[Latest(In({"COMPLETED"}))])
            [] OTHER -> IF In({"ACTIVE"}) # {} THEN "PROCESSING"
                        ELSE IF kind # {} THEN "FAILED" ELSE "NOT_FOUND"
    BY DEF ManagedReason
  <2>7. ManagedReason(media', job', row.mode, row.media, js) =
          CASE row.mode = "ORIGINAL" -> OriginalReason(media', row.media)
            [] row.mode # "ORIGINAL" /\ InAfter({"COMPLETED"}) # {} -> OutputReason(job'[Latest(InAfter({"COMPLETED"}))])
            [] OTHER -> IF InAfter({"ACTIVE"}) # {} THEN "PROCESSING"
                        ELSE IF after # {} THEN "FAILED" ELSE "NOT_FOUND"
    BY DEF ManagedReason
  <2> HIDE DEF kind, after, In, InAfter
  <2>8. ManagedReason(media', job', row.mode, row.media, js) = ManagedReason(media, job, row.mode, row.media, js)
    BY <2>2, <2>3, <2>4, <2>5, <2>6, <2>7
  <2>9. QED
    BY <1>2, <2>8 DEF Reason
<1>3. QED
  BY <1>1, <1>2

\* The row that such an edition writes.
LEMMA EditedRow ==
  ASSUME CatalogueInv, UrlsOK, NEW s \in Slot, s.e \in Episodes, UpdateSeason(s) \in Seasons,
         episode[s.e] = s.row, Choice(s.dto) = Untouched(s.e), {s.dto.media, s.dto.url} \ {Null, None} # {},
         VideoOf(s.row) # Null, OfItsFile(s.row)
  PROVE  LET new == UpdatedRow(s) IN
         /\ new \in EpisodeRow /\ new.media = s.row.media /\ new.mode = s.row.mode
         /\ VideoOf(new) # Null
         /\ new.media = Null => new.url = s.row.url
<1> DEFINE row == s.row
           new == UpdatedRow(s)
           v == UpdateVersions(s)
           c == Untouched(s.e)
<1>1. /\ c.job = s.dto.job /\ c.media = s.dto.media /\ c.url = s.dto.url /\ c.mode = s.dto.mode
  BY DEF Choice
<1>2. /\ s.dto.job = Null /\ s.dto.mode = row.mode
      /\ \/ row.media # Null /\ s.dto.media = row.media /\ s.dto.url = Null
         \/ row.media = Null /\ s.dto.media = None /\ s.dto.url = row.url /\ row.url \notin {Null, None}
  BY <1>1, UntouchedChoice
<1>3. row \in EpisodeRow /\ row.media \in Field(Media) /\ row.mode \in Modes
  BY DEF Slot, EpisodeRow
<1>4. None # Null /\ None \notin Media
  BY CatalogueAssumption
<1>5. new \in EpisodeRow /\ UpdateReleased(s)[s.e] \in EpisodeRow
  BY ChangedRow DEF Keeps
<1>6. /\ new.mode = UpdateMode(s) /\ new.url = v.url /\ new.hls = v.hls /\ new.remux = v.remux
      /\ new.media = CASE s.dto.job # Null -> InputOf[s.dto.job]
                       [] s.dto.job = Null /\ s.dto.media # Null -> UpdateMedia(s)
                       [] OTHER -> row.media
  BY <1>5 DEF UpdatedRow, EpisodeRow
<1>n. new = UpdatedRow(s)
  OBVIOUS
<1> HIDE DEF new, c
<1>7. UpdateMedia(s) = row.media
  BY <1>2, <1>3, <1>4 DEF UpdateMedia, Field
<1>8. new.media = row.media /\ UpdateSource(s) = row.media
  BY <1>2, <1>3, <1>4, <1>6, <1>7 DEF UpdateSource, SourceOf, Field
<1>9. ~MediaChanged(s)
  BY <1>2, <1>3, <1>4 DEF MediaChanged, Field
<1>10. new.mode = row.mode
  BY <1>2, <1>6, <1>9 DEF UpdateMode
<1>11. CASE row.media # Null
  <2> DEFINE js == InputJobs(row.media)
  <2>0. ReferenceChanged(s)
    BY <1>2, <1>3, CatalogueAssumption DEF ReferenceChanged
  <2>1. v = Versions(job, row.media, js)
    BY <1>2, <1>8, <1>11, <2>0 DEF UpdateVersions, OrCurrent, Considered
  <2> HIDE DEF v
  <2>2. new.url = row.media /\ new.hls = Version(job, "HLS", js) /\ new.remux = Version(job, "REMUX", js)
    BY <1>6, <2>1 DEF Versions
  <2>3. row.mode # "ORIGINAL" => Version(job, row.mode, js) # Null
    BY <1>11 DEF OfItsFile
  <2>4. row.mode = "ORIGINAL" => row.media \in Direct \cup {Null}
    BY <1>11 DEF VideoOf, Playing
  <2>5. VideoOf(new) = Playing(new, row.mode, row.media)
    BY <1>8, <1>10, <1>11 DEF VideoOf
  <2>6. Playing(new, row.mode, row.media) # Null
    BY <1>3, <1>11, <2>2, <2>3, <2>4 DEF Playing, Modes
  <2>7. QED
    BY <1>n, <1>5, <1>8, <1>10, <1>11, <2>5, <2>6
<1>12. CASE row.media = Null
  <2>1. SubmittedUrl(s) = row.url /\ row.url # Null
    BY <1>2, <1>12 DEF SubmittedUrl
  <2>2. v = [NoVersions EXCEPT !.url = row.url]
    BY <1>8, <1>12, <2>1 DEF UpdateVersions
  <2> HIDE DEF v
  <2>3. new.url = row.url
    BY <1>6, <2>2 DEF NoVersions
  <2>4. QED
    BY <1>n, <1>5, <1>8, <1>10, <1>12, <2>1, <2>3 DEF VideoOf
<1>13. QED
  BY <1>11, <1>12

\* An edition of other fields, whatever the pipeline and the other requests do
\* while it is under way, leaves the file, the mode, the video and the readiness
\* of an episode that plays a version of its file.
THEOREM EditionsKeepVideo == EditorSpec => OtherFieldsKeepVideo
<1> DEFINE Premise(r) == /\ req[r].pc = "update" /\ req'[r] # req[r] /\ req[r].e \in Live
                         /\ episode[req[r].e] = req[r].row
                         /\ Choice(call[r].dto) = Untouched(req[r].e)
                         /\ {call[r].dto.media, call[r].dto.url} \ {Null, None} # {}
           Conclusion(r) == LET old == episode[req[r].e] new == episode'[req[r].e] IN
                            VideoOf(old) # Null /\ OfItsFile(old) =>
                              /\ new.media = old.media /\ new.mode = old.mode /\ VideoOf(new) # Null
                              /\ Reason(media', job', new) = Reason(media, job, old)
<1>1. ASSUME EditorInv, [EditorNext]_editorVars, NEW r \in Requests, Premise(r) PROVE Conclusion(r)
  <2> DEFINE s == req[r]
             old == episode[s.e]
             new == episode'[s.e]
  <2>0. /\ CatalogueInv /\ UrlsOK /\ \A q \in Requests : CallInv(q)
        /\ req \in [Requests -> Slot] /\ SlotNamed(s) /\ episode \in [Episodes -> EpisodeRow]
    BY <1>1 DEF EditorInv, CallsOK, CatalogueInv, CatalogueTypeOK, TablesOK
  <2>1. s \in Slot /\ s.e \in Episodes /\ UpdateSeason(s) \in Seasons /\ call[r].dto = s.dto
        /\ old = s.row /\ old \in EpisodeRow
    BY <1>1, <2>0 DEF SlotNamed, CallInv, Live
  <2>2. EditorNext
    BY <1>1 DEF editorVars, mediaVars, catalogueVars
  <2>3. Update(r) \/ Abort(r)
    <3>1. ASSUME NEW q \in Requests, Serves(q), q # r PROVE FALSE
      <4>1. \E x : req' = [req EXCEPT ![q] = x]
        BY <3>1 DEF Serves, Create, UpdateBegin, Update, Abort, Answer, Await
      <4>2. req'[r] = req[r]
        BY <2>0, <3>1, <4>1
      <4>3. QED
        BY <1>1, <4>2
    <3>2. ~Pipeline /\ ~UNCHANGED catalogueVars
      BY <1>1, <2>0, PipelineStep DEF catalogueVars
    <3>3. Serves(r)
      BY <2>0, <2>2, <3>1, <3>2, EditorSteps
    <3>4. QED
      BY <1>1, <3>3 DEF Serves, Create, UpdateBegin
  <2>4. UNCHANGED media
    BY <2>3 DEF Update, Abort
  <2>5. \A j \in Jobs : Owned(job', j)
    <3>1. AnyRequest(r)
      BY <2>3 DEF AnyRequest, EpisodeRequest
    <3>2. QED
      BY <2>0, <3>1, RequestOwned
  <2>6. SUFFICES ASSUME VideoOf(old) # Null, OfItsFile(old)
                 PROVE  /\ new.media = old.media /\ new.mode = old.mode /\ VideoOf(new) # Null
                        /\ Reason(media', job', new) = Reason(media, job, old)
    OBVIOUS
  <2>7. CASE new = old
    BY <2>0, <2>1, <2>4, <2>5, <2>6, <2>7, SameReason
  <2>8. CASE new # old
    <3>1. episode' = [UpdateReleased(s) EXCEPT ![s.e] = UpdatedRow(s)]
      BY <2>3, <2>8 DEF Update, Abort
    <3>2. Keeps(UpdateReleased(s))
      BY <2>0, <2>1, ChangedRow
    <3>3. new = UpdatedRow(s)
      BY <2>1, <3>1, <3>2 DEF Keeps
    <3>4. /\ new \in EpisodeRow /\ new.media = old.media /\ new.mode = old.mode
          /\ VideoOf(new) # Null
          /\ (new.media = Null => new.url = old.url)
      <4>1. Choice(s.dto) = Untouched(s.e) /\ {s.dto.media, s.dto.url} \ {Null, None} # {}
        BY <1>1, <2>1
      <4>2. QED
        BY <2>0, <2>1, <2>6, <3>3, <4>1, EditedRow
    <3>5. QED
      BY <2>0, <2>1, <2>4, <2>5, <3>4, SameReason
  <2>9. QED
    BY <2>7, <2>8
<1>2. EditorInv /\ [EditorNext]_editorVars => [\A r \in Requests : Premise(r) => Conclusion(r)]_editorVars
  BY <1>1
<1>3. QED
  BY <1>2, EditorKept, PTL DEF EditorSpec, OtherFieldsKeepVideo
=============================================================================
