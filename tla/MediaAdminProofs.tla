-------------------------- MODULE MediaAdminProofs ---------------------------
(***************************************************************************)
(* What the media library keeps, for any number of originals, jobs,        *)
(* episodes and administrators: the versions it offers are those that      *)
(* play, whatever runs beside it; a deletion that failed can be tried      *)
(* again, and one that ended is forgotten, as long as administrators act   *)
(* one at a time.                                                          *)
(***************************************************************************)
EXTENDS MediaAdmin, EpisodeCatalogueProofs

HlsSteps == {"hls.mark", "hls.files", "hls.rows"}
RemuxSteps == {"remux.mark", "remux.files", "remux.rows"}
OriginalSteps == {"original.rows", "original.files"}
AssetSteps == {"asset.outputs", "asset.original", "asset.rows"}
PublishSteps == {"associate", "retire", "check", "show"}

AdminRow == [pc: Steps, j: Field(Jobs), m: Field(Media \cup Episodes)]

\* A slot names the rows its handler works on.
AdminNamed(x) ==
  /\ x.pc \in HlsSteps \cup RemuxSteps \cup OriginalSteps \cup PublishSteps => x.j \in Jobs
  /\ x.pc \in AssetSteps => x.m \in Media
  /\ x.pc = "show" => x.m \in Episodes

AdminOK ==
  /\ stage \in [Jobs -> Stages]
  /\ adm \in [Admins -> AdminRow]
  /\ \A a \in Admins : AdminNamed(adm[a])

-----------------------------------------------------------------------------
(* What a step of the library does *)

\* An episode loses video columns at most, unless an output is associated.
RowKept(new, old) ==
  /\ new.media = old.media /\ new.mode = old.mode
  /\ new.url = old.url \/ (new.url = Null /\ old.url \in Media)
  /\ new.hls \in {old.hls, Null} /\ new.remux \in {old.remux, Null}

\* A job keeps its status and its output, or loses them with the stage of a deletion.
JobMoves(j) ==
  \/ /\ job'[j].status = job[j].status /\ job'[j].output = job[j].output
     /\ job'[j].target = job[j].target /\ job'[j].assoc \in {job[j].assoc, TRUE}
  \/ /\ job'[j].status = "CANCELLED" /\ ~job'[j].output
     /\ stage'[j] \in {"DELETED", "ASSET_DELETED"}

EpisodesServed(a) ==
  /\ episode' \in [Episodes -> EpisodeRow]
  /\ \A e \in Episodes : SamePlace(episode'[e], episode[e])
  /\ At(a, "associate") \/ \A e \in Episodes : RowKept(episode'[e], episode[e])

JobsServed ==
  job' \in [Jobs -> JobRow(Episodes)] /\ stage' \in [Jobs -> Stages] /\ \A j \in Jobs : JobMoves(j)

MediaServed(a) ==
  /\ media' \in [Media -> MediaRow]
  /\ \A m \in Media : \/ media'[m] = media[m]
                      \/ At(a, "retire")
                      \/ At(a, "original.files") /\ m = InputOf[adm[a].j]
                      \/ adm[a].pc \in AssetSteps /\ m = adm[a].m

SlotServed(a) == \E x \in AdminRow : AdminNamed(x) /\ adm' = [adm EXCEPT ![a] = x]

Serves(a) ==
  /\ UNCHANGED <<series, season, dest, req>>
  /\ EpisodesServed(a) /\ JobsServed /\ MediaServed(a) /\ SlotServed(a)

LEMMA EpisodesKept == ASSUME CatalogueInv, episode' = episode, NEW a PROVE EpisodesServed(a)
BY DEF EpisodesServed, SamePlace, RowKept, CatalogueInv, CatalogueTypeOK, TablesOK

LEMMA RowsServed ==
  ASSUME NEW a, episode' = [e \in Episodes |-> episode'[e]],
         \A e \in Episodes : SamePlace(episode'[e], episode[e]) /\ RowKept(episode'[e], episode[e])
  PROVE  EpisodesServed(a)
BY RowsTyped DEF EpisodesServed

LEMMA JobsKeptServed ==
  ASSUME CatalogueInv, job' = job, stage' \in [Jobs -> Stages] PROVE JobsServed
BY DEF JobsServed, JobMoves, CatalogueInv, CatalogueTypeOK, TablesOK

LEMMA MediaKept == ASSUME CatalogueInv, media' = media, NEW a PROVE MediaServed(a)
BY DEF MediaServed, CatalogueInv, CatalogueTypeOK, TablesOK

\* The slots a handler leaves.
LEMMA SlotsNamed ==
  ASSUME NEW j \in Jobs
  PROVE  /\ Resting \in AdminRow /\ AdminNamed(Resting)
         /\ \A pc \in Steps \ (AssetSteps \cup {"show"}) :
              Serving(pc, j) \in AdminRow /\ AdminNamed(Serving(pc, j))
         /\ \A e \in Episodes : /\ [Serving("show", j) EXCEPT !.m = e] \in AdminRow
                                /\ AdminNamed([Serving("show", j) EXCEPT !.m = e])
<1>1. Resting \in AdminRow /\ AdminNamed(Resting)
  BY DEF Resting, AdminRow, AdminNamed, Steps, Field, HlsSteps, RemuxSteps, OriginalSteps,
         PublishSteps, AssetSteps
<1>2. ASSUME NEW pc \in Steps \ (AssetSteps \cup {"show"})
      PROVE  Serving(pc, j) \in AdminRow /\ AdminNamed(Serving(pc, j))
  BY <1>2 DEF Serving, AdminRow, AdminNamed, Field
<1>3. ASSUME NEW e \in Episodes
      PROVE  /\ [Serving("show", j) EXCEPT !.m = e] \in AdminRow
             /\ AdminNamed([Serving("show", j) EXCEPT !.m = e])
  <2>1. [Serving("show", j) EXCEPT !.m = e] = [pc |-> "show", j |-> j, m |-> e]
    BY DEF Serving
  <2>2. "show" \in Steps /\ "show" \notin AssetSteps
    BY DEF Steps, AssetSteps
  <2>3. QED
    BY <2>1, <2>2 DEF AdminRow, AdminNamed, Field
<1>4. QED
  BY <1>1, <1>2, <1>3

LEMMA AssetSlots ==
  ASSUME NEW m \in Media, NEW pc \in AssetSteps
  PROVE  [pc |-> pc, j |-> Null, m |-> m] \in AdminRow /\ AdminNamed([pc |-> pc, j |-> Null, m |-> m])
BY DEF AdminRow, AdminNamed, Field, Steps, AssetSteps, HlsSteps, RemuxSteps, OriginalSteps, PublishSteps

\* A slot that is done, or goes on with the job it works on.
LEMMA DoneServed == ASSUME NEW a, NEW answer, Done(a, answer) PROVE SlotServed(a) /\ req' = req
BY DEF Done, SlotServed, Resting, AdminRow, AdminNamed, Steps, Field, HlsSteps, RemuxSteps,
       OriginalSteps, PublishSteps, AssetSteps

LEMMA GoServed ==
  ASSUME NEW a, NEW j \in Jobs, NEW pc \in Steps \ (AssetSteps \cup {"show"}), Go(a, Serving(pc, j))
  PROVE  SlotServed(a) /\ req' = req
BY SlotsNamed DEF Go, SlotServed

\* The handlers that only read.
LEMMA ReadersServe ==
  ASSUME CatalogueInv, AdminOK, NEW a \in Admins,
         \/ \E j \in Jobs : PublishMedia(a, j) \/ DeleteHls(a, j) \/ DeleteRemux(a, j) \/ DeleteOriginal(a, j)
         \/ \E m \in Media : DeleteAsset(a, m)
         \/ CheckMedia(a)
  PROVE  Serves(a)
<1>1. UNCHANGED <<series, season, dest, episode, media, job, stage>>
  BY DEF PublishMedia, DeleteHls, DeleteRemux, DeleteOriginal, DeleteAsset, CheckMedia
<1>2. EpisodesServed(a) /\ MediaServed(a)
  BY <1>1, EpisodesKept, MediaKept
<1>3. JobsServed
  BY <1>1, JobsKeptServed DEF AdminOK
<1>4. SlotServed(a) /\ req' = req
  <2>0. {"associate", "retire", "check", "hls.mark", "remux.mark", "original.rows"}
          \subseteq Steps \ (AssetSteps \cup {"show"})
    BY DEF Steps, AssetSteps
  <2>1. ASSUME NEW j \in Jobs, PublishMedia(a, j) PROVE SlotServed(a) /\ req' = req
    BY <2>0, <2>1, DoneServed, GoServed DEF PublishMedia
  <2>2. ASSUME NEW j \in Jobs, DeleteHls(a, j) PROVE SlotServed(a) /\ req' = req
    BY <2>0, <2>2, DoneServed, GoServed DEF DeleteHls
  <2>3. ASSUME NEW j \in Jobs, DeleteRemux(a, j) PROVE SlotServed(a) /\ req' = req
    BY <2>0, <2>3, DoneServed, GoServed DEF DeleteRemux
  <2>4. ASSUME NEW j \in Jobs, DeleteOriginal(a, j) PROVE SlotServed(a) /\ req' = req
    BY <2>0, <2>4, DoneServed, GoServed DEF DeleteOriginal
  <2>5. ASSUME NEW m \in Media, DeleteAsset(a, m) PROVE SlotServed(a) /\ req' = req
    <3>1. [Serving("asset.outputs", Null) EXCEPT !.m = m] = [pc |-> "asset.outputs", j |-> Null, m |-> m]
      BY DEF Serving
    <3>2. "asset.outputs" \in AssetSteps
      BY DEF AssetSteps
    <3>3. QED
      BY <2>5, <3>1, <3>2, DoneServed, AssetSlots DEF DeleteAsset, Go, SlotServed
  <2>6. CASE CheckMedia(a)
    <3>1. CASE \E answer : Done(a, answer)
      BY <3>1, DoneServed
    <3>2. CASE ~\E answer : Done(a, answer)
      <4>1. /\ job[adm[a].j].target \in Live /\ At(a, "check")
            /\ Go(a, [Serving("show", adm[a].j) EXCEPT !.m = job[adm[a].j].target])
        BY <2>6, <3>2 DEF CheckMedia
      <4>2. adm[a].j \in Jobs /\ job[adm[a].j].target \in Episodes
        BY <4>1 DEF AdminOK, AdminNamed, At, PublishSteps, Live
      <4>3. QED
        BY <4>1, <4>2, SlotsNamed DEF Go, SlotServed
    <3>3. QED
      BY <3>1, <3>2
  <2>7. QED
    BY <2>1, <2>2, <2>3, <2>4, <2>5, <2>6
<1>5. QED
  BY <1>1, <1>2, <1>3, <1>4 DEF Serves

\* One row of a job is written.
LEMMA JobServed ==
  ASSUME CatalogueInv, NEW j \in Jobs, NEW row \in JobRow(Episodes), job' = [job EXCEPT ![j] = row],
         stage' \in [Jobs -> Stages],
         \/ /\ row.status = job[j].status /\ row.output = job[j].output
            /\ row.target = job[j].target /\ row.assoc \in {job[j].assoc, TRUE}
         \/ row.status = "CANCELLED" /\ ~row.output /\ stage'[j] \in {"DELETED", "ASSET_DELETED"}
  PROVE  JobsServed
<1>0. job \in [Jobs -> JobRow(Episodes)]
  BY DEF CatalogueInv, CatalogueTypeOK, TablesOK
<1>1. job' \in [Jobs -> JobRow(Episodes)] /\ job'[j] = row /\ \A k \in Jobs \ {j} : job'[k] = job[k]
  BY <1>0
<1>2. \A k \in Jobs : JobMoves(k)
  BY <1>1 DEF JobMoves
<1>3. QED
  BY <1>1, <1>2 DEF JobsServed

\* One row of an episode is written.
LEMMA EpisodeServed ==
  ASSUME CatalogueInv, NEW a, NEW e \in Episodes, NEW row, episode' = [episode EXCEPT ![e] = row],
         SamePlace(row, episode[e]), RowKept(row, episode[e])
  PROVE  EpisodesServed(a)
<1>0. episode \in [Episodes -> EpisodeRow]
  BY DEF CatalogueInv, CatalogueTypeOK, TablesOK
<1>1. episode'[e] = row /\ \A k \in Episodes \ {e} : episode'[k] = episode[k]
  BY <1>0
<1>2. \A k \in Episodes : SamePlace(episode'[k], episode[k]) /\ RowKept(episode'[k], episode[k])
  BY <1>0, <1>1 DEF SamePlace, RowKept
<1>3. episode' = [k \in Episodes |-> episode'[k]]
  BY <1>0
<1>4. QED
  BY <1>2, <1>3, RowsServed

\* publish and unpublish.
LEMMA PublishServes ==
  ASSUME CatalogueInv, AdminOK, NEW a \in Admins,
         \/ AssociateMedia(a) \/ RetireMedia(a) \/ ShowMedia(a)
         \/ \E j \in Jobs : UnpublishMedia(a, j)
  PROVE  Serves(a)
<1>0. /\ episode \in [Episodes -> EpisodeRow] /\ media \in [Media -> MediaRow]
      /\ job \in [Jobs -> JobRow(Episodes)] /\ stage \in [Jobs -> Stages] /\ AdminNamed(adm[a])
  BY DEF CatalogueInv, CatalogueTypeOK, TablesOK, AdminOK
<1>s. {"retire", "check"} \subseteq Steps \ (AssetSteps \cup {"show"})
  BY DEF Steps, AssetSteps
<1>1. CASE AssociateMedia(a)
  <2> DEFINE j == adm[a].j
             e == job[j].target
  <2>1. j \in Jobs /\ UNCHANGED <<series, season, media, dest>> /\ At(a, "associate")
    BY <1>0, <1>1 DEF AssociateMedia, AdminNamed, At, PublishSteps
  <2>2. MediaServed(a)
    BY <2>1, MediaKept
  <2>3. CASE UNCHANGED <<episode, job, stage>> /\ \E answer : Done(a, answer)
    BY <1>0, <2>1, <2>2, <2>3, EpisodesKept, JobsKeptServed, DoneServed DEF Serves
  <2>4. CASE ~(UNCHANGED <<episode, job, stage>> /\ \E answer : Done(a, answer))
    <3>1. /\ e \in Live
          /\ episode' = [episode EXCEPT ![e] = Associated(@, j)]
          /\ job' = [job EXCEPT ![j].assoc = TRUE]
          /\ stage' = [stage EXCEPT ![j] = "none"]
          /\ Go(a, Serving(IF job[j].retain THEN "check" ELSE "retire", j))
      BY <1>1, <2>4 DEF AssociateMedia
    <3>2. e \in Episodes /\ SamePlace(Associated(episode[e], j), episode[e])
      BY <1>0, <2>1, <3>1, AssociatedRow DEF SamePlace, Live
    <3>3. EpisodesServed(a)
      <4>1. episode' = [episode EXCEPT ![e] = Associated(episode[e], j)]
        BY <3>1
      <4>2. \A k \in Episodes : SamePlace(episode'[k], episode[k])
        BY <1>0, <3>2, <4>1 DEF SamePlace
      <4>3. episode' \in [Episodes -> EpisodeRow]
        BY <1>0, <3>2, <4>1 DEF SamePlace
      <4>4. QED
        BY <2>1, <4>2, <4>3 DEF EpisodesServed
    <3>4. JobsServed
      <4> DEFINE row == [job[j] EXCEPT !.assoc = TRUE]
      <4>1. row \in JobRow(Episodes) /\ row.status = job[j].status /\ row.output = job[j].output
            /\ row.target = job[j].target /\ row.assoc = TRUE
        <5>1. job[j] \in JobRow(Episodes) /\ "assoc" \in DOMAIN job[j]
          BY <1>0, <2>1 DEF JobRow
        <5>2. row.assoc = TRUE
          BY <5>1
        <5>3. row \in JobRow(Episodes) /\ row.status = job[j].status /\ row.output = job[j].output
              /\ row.target = job[j].target
          BY <5>1 DEF JobRow
        <5>4. QED
          BY <5>2, <5>3
      <4>2. stage' \in [Jobs -> Stages] /\ job' = [job EXCEPT ![j] = row]
        BY <1>0, <3>1 DEF Stages
      <4> HIDE DEF row
      <4>3. QED
        BY <2>1, <4>1, <4>2, JobServed
    <3>5. SlotServed(a) /\ req' = req
      BY <1>s, <2>1, <3>1, GoServed
    <3>6. QED
      BY <2>1, <2>2, <3>3, <3>4, <3>5 DEF Serves
  <2>5. QED
    BY <2>3, <2>4
<1>2. CASE RetireMedia(a)
  <2> DEFINE j == adm[a].j
             keep == job[j].retain \/ Cardinality(References(episode, InputOf[j])) > 1
             row == [job[j] EXCEPT !.retain = keep]
  <2>1. j \in Jobs /\ InputOf[j] \in Media /\ At(a, "retire")
        /\ UNCHANGED <<series, season, episode, dest, stage>> /\ Go(a, Serving("check", j))
    BY <1>0, <1>2, PlaybackAssumption DEF RetireMedia, AdminNamed, At, PublishSteps
  <2>2. keep \in BOOLEAN
    <3>1. job[j].retain \in BOOLEAN
      BY <1>0, <2>1 DEF JobRow
    <3>2. QED
      BY <3>1
  <2>3. job' = [job EXCEPT ![j] = row]
    BY <1>2 DEF RetireMedia
  <2> HIDE DEF keep
  <2>4. row \in JobRow(Episodes) /\ row.status = job[j].status /\ row.output = job[j].output
        /\ row.target = job[j].target /\ row.assoc = job[j].assoc
    BY <1>0, <2>1, <2>2 DEF JobRow
  <2> HIDE DEF row
  <2>5. JobsServed
    BY <1>0, <2>1, <2>3, <2>4, JobServed
  <2>6. MediaServed(a)
    <3>1. [status |-> "DELETED", stored |-> FALSE] \in MediaRow /\ [media[InputOf[j]] EXCEPT !.status = "READY"] \in MediaRow
      BY <1>0, <2>1 DEF MediaRow
    <3>2. media' \in [Media -> MediaRow]
      BY <1>0, <1>2, <2>1, <3>1 DEF RetireMedia, Retired
    <3>3. QED
      BY <2>1, <3>2 DEF MediaServed
  <2>7. SlotServed(a) /\ req' = req
    BY <1>s, <2>1, GoServed
  <2>8. QED
    BY <2>1, <2>5, <2>6, <2>7, EpisodesKept DEF Serves
<1>3. ASSUME NEW e \in Episodes, NEW p \in BOOLEAN, NEW answer,
             episode' = [episode EXCEPT ![e].published = p], Done(a, answer),
             UNCHANGED <<series, season, media, job, dest, stage>>
      PROVE  Serves(a)
  <2> DEFINE row == [episode[e] EXCEPT !.published = p]
  <2>1. SamePlace(row, episode[e]) /\ RowKept(row, episode[e])
    BY <1>0 DEF SamePlace, RowKept, EpisodeRow
  <2>2. episode' = [episode EXCEPT ![e] = row]
    BY <1>3
  <2> HIDE DEF row
  <2>3. EpisodesServed(a)
    BY <2>1, <2>2, EpisodeServed
  <2>4. QED
    BY <1>0, <1>3, <2>3, MediaKept, JobsKeptServed, DoneServed DEF Serves
<1>4. CASE ShowMedia(a)
  <2>1. adm[a].m \in Episodes
    BY <1>0, <1>4 DEF ShowMedia, AdminNamed, At
  <2>2. QED
    BY <1>3, <1>4, <2>1 DEF ShowMedia
<1>5. ASSUME NEW j \in Jobs, UnpublishMedia(a, j) PROVE Serves(a)
  <2>1. CASE UNCHANGED episode /\ Done(a, "conflict")
    BY <1>0, <1>5, <2>1, EpisodesKept, MediaKept, JobsKeptServed, DoneServed DEF Serves, UnpublishMedia
  <2>2. CASE job[j].target # Null
    <3>1. job[j].target \in Episodes
      BY <1>0, <2>2 DEF JobRow
    <3>2. QED
      BY <1>3, <1>5, <2>2, <3>1 DEF UnpublishMedia
  <2>3. QED
    BY <1>5, <2>1, <2>2 DEF UnpublishMedia
<1>6. QED
  BY <1>1, <1>2, <1>4, <1>5

\* The rows of a job whose files are deleted, and of one that is forgotten.
LEMMA StoredRow ==
  ASSUME job \in [Jobs -> JobRow(Episodes)], NEW j \in Jobs, NEW ok \in BOOLEAN
  PROVE  \E row \in JobRow(Episodes) :
           /\ [job EXCEPT ![j].stored = @ /\ ~ok] = [job EXCEPT ![j] = row]
           /\ row.status = job[j].status /\ row.output = job[j].output
           /\ row.target = job[j].target /\ row.assoc = job[j].assoc
<1> DEFINE kept == job[j].stored /\ ~ok
           row == [job[j] EXCEPT !.stored = kept]
<1>1. kept \in BOOLEAN
  OBVIOUS
<1>2. [job EXCEPT ![j].stored = @ /\ ~ok] = [job EXCEPT ![j] = row]
  OBVIOUS
<1> HIDE DEF kept
<1>3. row \in JobRow(Episodes) /\ row.status = job[j].status /\ row.output = job[j].output
      /\ row.target = job[j].target /\ row.assoc = job[j].assoc
  BY <1>1 DEF JobRow
<1> HIDE DEF row
<1>4. QED
  BY <1>2, <1>3

LEMMA DroppedRow ==
  ASSUME job \in [Jobs -> JobRow(Episodes)], NEW j \in Jobs
  PROVE  \E row \in JobRow(Episodes) :
           Dropped(j) = [job EXCEPT ![j] = row] /\ row.status = "CANCELLED" /\ ~row.output
<1> DEFINE row == [job[j] EXCEPT !.status = "CANCELLED", !.output = FALSE, !.assoc = FALSE]
<1>1. row \in JobRow(Episodes)
  BY DEF JobRow
<1>2. row.status = "CANCELLED" /\ row.output = FALSE
  <2>1. {"status", "output", "assoc"} \subseteq DOMAIN job[j]
    BY DEF JobRow
  <2>2. QED
    BY <2>1
<1>3. Dropped(j) = [job EXCEPT ![j] = row]
  BY DEF Dropped
<1> HIDE DEF row
<1>4. QED
  BY <1>1, <1>2, <1>3

\* deleteHls, deleteRemux and the first half of deleteOriginal after their checks.
LEMMA VersionServes ==
  ASSUME CatalogueInv, AdminOK, NEW a \in Admins,
         \/ MarkHls(a) \/ DeleteHlsFiles(a) \/ DropHlsRows(a)
         \/ MarkRemux(a) \/ DeleteRemuxFile(a) \/ DropRemuxRows(a) \/ ForgetOriginal(a)
  PROVE  Serves(a)
<1> DEFINE j == adm[a].j
<1>0. /\ episode \in [Episodes -> EpisodeRow] /\ media \in [Media -> MediaRow]
      /\ job \in [Jobs -> JobRow(Episodes)] /\ stage \in [Jobs -> Stages]
  BY DEF CatalogueInv, CatalogueTypeOK, TablesOK, AdminOK
<1>1. j \in Jobs
  BY DEF MarkHls, DeleteHlsFiles, DropHlsRows, MarkRemux, DeleteRemuxFile, DropRemuxRows, ForgetOriginal,
         AdminOK, AdminNamed, At, HlsSteps, RemuxSteps, OriginalSteps
<1>s. {"hls.files", "hls.rows", "remux.files", "remux.rows", "original.files"}
        \subseteq Steps \ (AssetSteps \cup {"show"})
  BY DEF Steps, AssetSteps
<1>st. ASSUME NEW st \in {"DELETING", "DELETE_FAILED", "DELETED", "RECONCILE_REQUIRED"}
       PROVE  [stage EXCEPT ![j] = st] \in [Jobs -> Stages] /\ [stage EXCEPT ![j] = st][j] = st
  BY <1>0, <1>1 DEF Stages
<1>2. ASSUME NEW cols \in [Episodes -> {"hls", "remux", "url", "none"}],
             episode' = [e \in Episodes |-> CASE cols[e] = "hls" -> [episode[e] EXCEPT !.hls = Null]
                                              [] cols[e] = "remux" -> [episode[e] EXCEPT !.remux = Null]
                                              [] cols[e] = "url" -> [episode[e] EXCEPT !.url = Null]
                                              [] OTHER -> episode[e]],
             \A e \in Episodes : cols[e] = "url" => episode[e].url \in Media
      PROVE  EpisodesServed(a)
  <2>1. ASSUME NEW e \in Episodes
        PROVE  /\ SamePlace([episode[e] EXCEPT !.hls = Null], episode[e])
               /\ SamePlace([episode[e] EXCEPT !.remux = Null], episode[e])
               /\ SamePlace([episode[e] EXCEPT !.url = Null], episode[e])
               /\ SamePlace(episode[e], episode[e])
    BY <1>0 DEF SamePlace, EpisodeRow, Field
  <2>2. ASSUME NEW e \in Episodes
        PROVE  /\ RowKept([episode[e] EXCEPT !.hls = Null], episode[e])
               /\ RowKept([episode[e] EXCEPT !.remux = Null], episode[e])
               /\ episode[e].url \in Media => RowKept([episode[e] EXCEPT !.url = Null], episode[e])
               /\ RowKept(episode[e], episode[e])
    BY <1>0 DEF RowKept, EpisodeRow, Field
  <2>3. ASSUME NEW e \in Episodes
        PROVE  SamePlace(episode'[e], episode[e]) /\ RowKept(episode'[e], episode[e])
    BY <1>2, <2>1, <2>2
  <2>4. episode' = [e \in Episodes |-> episode'[e]]
    BY <1>2
  <2>5. QED
    BY <2>3, <2>4, RowsServed
<1>3. CASE MarkHls(a)
  <2> DEFINE cols == [e \in Episodes |->
                        IF e \in Live /\ episode[e].mode # "HLS" /\ episode[e].hls = j THEN "hls" ELSE "none"]
  <2>1. EpisodesServed(a)
    <3>1. episode' = [e \in Episodes |-> IF e \in Live /\ episode[e].mode # "HLS" /\ episode[e].hls = j
                                           THEN [episode[e] EXCEPT !.hls = Null] ELSE episode[e]]
      BY <1>3 DEF MarkHls
    <3>2. cols \in [Episodes -> {"hls", "remux", "url", "none"}]
      OBVIOUS
    <3>3. QED
      BY <1>2, <3>1, <3>2
  <2>2. JobsServed
    BY <1>3, <1>st, JobsKeptServed DEF MarkHls
  <2>3. QED
    BY <1>1, <1>3, <1>s, <2>1, <2>2, MediaKept, GoServed DEF MarkHls, Serves
<1>4. CASE MarkRemux(a)
  <2>1. JobsServed
    BY <1>4, <1>st, JobsKeptServed DEF MarkRemux
  <2>2. QED
    BY <1>1, <1>4, <1>s, <2>1, EpisodesKept, MediaKept, GoServed DEF MarkRemux, Serves
<1>5. ASSUME NEW ok \in BOOLEAN, NEW pc \in {"hls.rows", "remux.rows"},
             IF ok THEN Go(a, Serving(pc, j)) ELSE Done(a, "failed"),
             job' = [job EXCEPT ![j].stored = @ /\ ~ok],
             stage' = [stage EXCEPT ![j] = IF ok THEN @ ELSE "DELETE_FAILED"],
             UNCHANGED <<series, season, episode, media, dest>>
      PROVE  Serves(a)
  <2>1. stage' \in [Jobs -> Stages]
    BY <1>0, <1>1, <1>5 DEF Stages
  <2>2. JobsServed
    BY <1>0, <1>1, <1>5, <2>1, StoredRow, JobServed
  <2>3. SlotServed(a) /\ req' = req
    BY <1>1, <1>5, <1>s, DoneServed, GoServed
  <2>4. QED
    BY <1>5, <2>2, <2>3, EpisodesKept, MediaKept DEF Serves
<1>6. CASE DeleteHlsFiles(a) \/ DeleteRemuxFile(a)
  <2>1. \A kind : Outcomes(kind) \subseteq BOOLEAN
    BY DEF Outcomes
  <2>2. QED
    BY <1>5, <1>6, <2>1 DEF DeleteHlsFiles, DeleteRemuxFile
<1>7. ASSUME NEW ok \in BOOLEAN, job' = IF ok THEN Dropped(j) ELSE job,
             stage' = [stage EXCEPT ![j] = IF ok THEN "DELETED" ELSE "RECONCILE_REQUIRED"]
      PROVE  JobsServed
  <2>1. CASE ok
    <3>1. stage' \in [Jobs -> Stages] /\ stage'[j] = "DELETED"
      BY <1>7, <1>st, <2>1
    <3>2. QED
      BY <1>0, <1>1, <1>7, <2>1, <3>1, DroppedRow, JobServed
  <2>2. CASE ~ok
    BY <1>7, <1>st, <2>2, JobsKeptServed
  <2>3. QED
    BY <2>1, <2>2
<1>8. CASE DropHlsRows(a)
  <2>1. PICK ok \in BOOLEAN : /\ Done(a, IF ok THEN "ok" ELSE "failed")
                              /\ job' = IF ok THEN Dropped(j) ELSE job
                              /\ stage' = [stage EXCEPT ![j] = IF ok THEN "DELETED" ELSE "RECONCILE_REQUIRED"]
    BY <1>8 DEF DropHlsRows, Outcomes
  <2>2. JobsServed /\ SlotServed(a) /\ req' = req
    BY <1>7, <2>1, DoneServed
  <2>3. QED
    BY <1>8, <2>2, EpisodesKept, MediaKept DEF DropHlsRows, Serves
<1>9. CASE DropRemuxRows(a)
  <2>1. PICK ok \in BOOLEAN : /\ Done(a, IF ok THEN "ok" ELSE "failed")
                              /\ episode' = [e \in Episodes |->
                                   IF ok /\ e \in Live /\ episode[e].remux = j
                                     THEN [episode[e] EXCEPT !.remux = Null] ELSE episode[e]]
                              /\ job' = IF ok THEN Dropped(j) ELSE job
                              /\ stage' = [stage EXCEPT ![j] = IF ok THEN "DELETED" ELSE "RECONCILE_REQUIRED"]
    BY <1>9 DEF DropRemuxRows, Outcomes
  <2>2. JobsServed /\ SlotServed(a) /\ req' = req
    BY <1>7, <2>1, DoneServed
  <2> DEFINE cols == [e \in Episodes |-> IF ok /\ e \in Live /\ episode[e].remux = j THEN "remux" ELSE "none"]
  <2>3. EpisodesServed(a)
    <3>1. cols \in [Episodes -> {"hls", "remux", "url", "none"}]
      OBVIOUS
    <3>2. QED
      BY <1>2, <2>1, <3>1
  <2>4. QED
    BY <1>9, <2>2, <2>3, MediaKept DEF DropRemuxRows, Serves
<1>10. CASE ForgetOriginal(a)
  <2> DEFINE cols == [e \in Episodes |-> IF e = job[j].target /\ episode[e].url = InputOf[j] THEN "url" ELSE "none"]
  <2>1. EpisodesServed(a)
    <3>1. episode' = [e \in Episodes |-> IF e = job[j].target /\ episode[e].url = InputOf[j]
                                           THEN [episode[e] EXCEPT !.url = Null] ELSE episode[e]]
      BY <1>10 DEF ForgetOriginal
    <3>2. cols \in [Episodes -> {"hls", "remux", "url", "none"}]
      OBVIOUS
    <3>3. InputOf[j] \in Media
      BY <1>1, PlaybackAssumption
    <3>4. QED
      BY <1>2, <3>1, <3>2, <3>3
  <2>2. JobsServed
    BY <1>0, <1>10, JobsKeptServed DEF ForgetOriginal
  <2>3. QED
    BY <1>1, <1>10, <1>s, <2>1, <2>2, MediaKept, GoServed DEF ForgetOriginal, Serves
<1>11. QED
  BY <1>3, <1>4, <1>6, <1>8, <1>9, <1>10

\* The original and the outputs of an asset are deleted.
LEMMA AssetServes ==
  ASSUME CatalogueInv, AdminOK, NEW a \in Admins,
         DeleteOriginalFile(a) \/ DeleteAssetOutputs(a) \/ DeleteAssetOriginal(a) \/ DropAssetRows(a)
  PROVE  Serves(a)
<1>0. /\ episode \in [Episodes -> EpisodeRow] /\ media \in [Media -> MediaRow]
      /\ job \in [Jobs -> JobRow(Episodes)] /\ stage \in [Jobs -> Stages]
      /\ adm[a] \in AdminRow /\ AdminNamed(adm[a])
  BY DEF CatalogueInv, CatalogueTypeOK, TablesOK, AdminOK
<1>1. /\ [status |-> "DELETED", stored |-> FALSE] \in MediaRow
      /\ \A m \in Media, b \in BOOLEAN : [media[m] EXCEPT !.stored = b] \in MediaRow
      /\ \A m \in Media : [media[m] EXCEPT !.status = "DELETED"] \in MediaRow
  BY <1>0 DEF MediaRow
<1>2. CASE DeleteOriginalFile(a)
  <2> DEFINE m == InputOf[adm[a].j]
  <2>1. m \in Media /\ At(a, "original.files")
    BY <1>0, <1>2, PlaybackAssumption DEF DeleteOriginalFile, AdminNamed, At, OriginalSteps
  <2>2. PICK ok \in BOOLEAN :
          /\ Done(a, IF ok THEN "ok" ELSE "failed")
          /\ media' = IF ok THEN [media EXCEPT ![m] = [status |-> "DELETED", stored |-> FALSE]] ELSE media
    BY <1>2 DEF DeleteOriginalFile, Outcomes
  <2>3. MediaServed(a)
    BY <1>0, <1>1, <2>1, <2>2 DEF MediaServed
  <2>4. QED
    BY <1>0, <1>2, <2>2, <2>3, EpisodesKept, JobsKeptServed, DoneServed DEF DeleteOriginalFile, Serves
<1>3. ASSUME adm[a].pc \in AssetSteps, NEW pc \in AssetSteps, Go(a, [adm[a] EXCEPT !.pc = pc])
      PROVE  SlotServed(a) /\ req' = req
  <2>1. [adm[a] EXCEPT !.pc = pc] \in AdminRow
    BY <1>0, <1>3 DEF AdminRow, AssetSteps, Steps
  <2>2. [adm[a] EXCEPT !.pc = pc].pc = pc /\ [adm[a] EXCEPT !.pc = pc].m = adm[a].m
    BY <1>0 DEF AdminRow
  <2>3. AdminNamed([adm[a] EXCEPT !.pc = pc])
    BY <1>0, <1>3, <2>2 DEF AdminNamed, AssetSteps, HlsSteps, RemuxSteps, OriginalSteps, PublishSteps
  <2>4. QED
    BY <1>3, <2>1, <2>3 DEF Go, SlotServed
<1>4. CASE DeleteAssetOutputs(a)
  <2> DEFINE js == {j \in InputJobs(adm[a].m) : job[j].output}
  <2>1. PICK gone \in SUBSET js :
          /\ job' = [j \in Jobs |-> IF j \in gone THEN [job[j] EXCEPT !.stored = FALSE] ELSE job[j]]
          /\ IF gone = js THEN Go(a, [adm[a] EXCEPT !.pc = "asset.original"]) ELSE Done(a, "failed")
    BY <1>4 DEF DeleteAssetOutputs
  <2>2. adm[a].pc \in AssetSteps /\ "asset.original" \in AssetSteps
    BY <1>4 DEF DeleteAssetOutputs, At, AssetSteps
  <2>3. SlotServed(a) /\ req' = req
    BY <1>3, <2>1, <2>2, DoneServed
  <2>4. ASSUME NEW j \in Jobs
        PROVE  /\ [job[j] EXCEPT !.stored = FALSE] \in JobRow(Episodes)
               /\ [job[j] EXCEPT !.stored = FALSE].status = job[j].status
               /\ [job[j] EXCEPT !.stored = FALSE].output = job[j].output
               /\ [job[j] EXCEPT !.stored = FALSE].target = job[j].target
               /\ [job[j] EXCEPT !.stored = FALSE].assoc = job[j].assoc
    BY <1>0 DEF JobRow
  <2>5. JobsServed
    BY <1>0, <1>4, <2>1, <2>4 DEF JobsServed, JobMoves, DeleteAssetOutputs
  <2>6. QED
    BY <1>4, <2>3, <2>5, EpisodesKept, MediaKept DEF DeleteAssetOutputs, Serves
<1>5. CASE DeleteAssetOriginal(a)
  <2>1. PICK ok \in BOOLEAN :
          /\ IF ok THEN Go(a, [adm[a] EXCEPT !.pc = "asset.rows"]) ELSE Done(a, "failed")
          /\ media' = [media EXCEPT ![adm[a].m].stored = @ /\ ~ok]
    BY <1>5 DEF DeleteAssetOriginal, Outcomes
  <2>2. adm[a].pc \in AssetSteps /\ "asset.rows" \in AssetSteps /\ adm[a].m \in Media
    BY <1>0, <1>5 DEF DeleteAssetOriginal, At, AssetSteps, AdminNamed
  <2>3. SlotServed(a) /\ req' = req
    BY <1>3, <2>1, <2>2, DoneServed
  <2> DEFINE kept == media[adm[a].m].stored /\ ~ok
  <2>4. media' = [media EXCEPT ![adm[a].m] = [media[adm[a].m] EXCEPT !.stored = kept]] /\ kept \in BOOLEAN
    BY <2>1
  <2> HIDE DEF kept
  <2>5. MediaServed(a)
    BY <1>0, <1>1, <2>2, <2>4 DEF MediaServed
  <2>6. QED
    BY <1>0, <1>5, <2>3, <2>5, EpisodesKept, JobsKeptServed DEF DeleteAssetOriginal, Serves
<1>6. CASE DropAssetRows(a)
  <2> DEFINE js == {j \in InputJobs(adm[a].m) : job[j].status # "ABSENT"}
  <2>1. PICK ok \in BOOLEAN :
          /\ Done(a, IF ok THEN "ok" ELSE "failed")
          /\ job' = [j \in Jobs |-> IF ok /\ j \in js THEN Dropped(j)[j] ELSE job[j]]
          /\ stage' = [j \in Jobs |-> IF ok /\ j \in js THEN "ASSET_DELETED" ELSE stage[j]]
          /\ media' = IF ok THEN [media EXCEPT ![adm[a].m].status = "DELETED"] ELSE media
    BY <1>6 DEF DropAssetRows, Outcomes
  <2>2. adm[a].pc \in AssetSteps /\ adm[a].m \in Media
    BY <1>0, <1>6 DEF DropAssetRows, At, AssetSteps, AdminNamed
  <2>3. MediaServed(a)
    <3>1. media' = IF ok THEN [media EXCEPT ![adm[a].m] = [media[adm[a].m] EXCEPT !.status = "DELETED"]] ELSE media
      BY <2>1
    <3>2. QED
      BY <1>0, <1>1, <2>2, <3>1 DEF MediaServed
  <2>4. ASSUME NEW j \in Jobs
        PROVE  Dropped(j)[j] \in JobRow(Episodes) /\ Dropped(j)[j].status = "CANCELLED" /\ ~Dropped(j)[j].output
    BY <1>0, DroppedRow
  <2>5. stage' \in [Jobs -> Stages]
    BY <1>0, <2>1 DEF Stages
  <2>6. JobsServed
    BY <1>0, <2>1, <2>4, <2>5 DEF JobsServed, JobMoves
  <2>7. QED
    BY <1>6, <2>1, <2>3, <2>6, EpisodesKept, DoneServed DEF DropAssetRows, Serves
<1>7. QED
  BY <1>2, <1>4, <1>5, <1>6

LEMMA LibraryServes ==
  ASSUME CatalogueInv, AdminOK, NEW a \in Admins, LibraryRequest(a) PROVE Serves(a)
BY ReadersServe, PublishServes, VersionServes, AssetServes DEF LibraryRequest

-----------------------------------------------------------------------------
(* What holds however requests, workers and administrators interleave *)

\* A completed job has an output. One with a destination that no worker is
\* about to write counts as associated.
Registered == \A j \in Jobs : job[j].status = "COMPLETED" => job[j].output

AttachedOK ==
  \A j \in Jobs : job[j].status = "COMPLETED" /\ job[j].target \notin {Null, dest[j]} => job[j].assoc

MediaInv == CatalogueInv /\ AdminOK /\ Registered /\ AttachedOK

MediaSteps == MediaInit /\ [][MediaNext]_mediaVars

LEMMA LibraryInv ==
  ASSUME MediaInv, NEW a \in Admins, Serves(a) PROVE MediaInv'
<1>1. TablesOK' /\ Stay({}) /\ req' = req
  BY RowsStay DEF Serves, EpisodesServed, JobsServed, MediaServed, MediaInv, CatalogueInv,
                  CatalogueTypeOK, TablesOK
<1>2. CatalogueInv'
  <2>1. LivePlaced'
    BY <1>1, PlacesKept DEF MediaInv, CatalogueInv, ShelfStep
  <2>2. ASSUME NEW r \in Requests PROVE SlotNamed(req[r])'
    <3>1. SlotNamed(req[r])
      BY DEF MediaInv, CatalogueInv
    <3>2. \A e \in Episodes : episode'[e].state = episode[e].state
      BY <1>1 DEF Stay, Same
    <3>3. QED
      BY <1>1, <3>1, <3>2 DEF SlotNamed, UpdateSeason
  <2>3. QED
    BY <1>1, <2>1, <2>2 DEF MediaInv, CatalogueInv, CatalogueTypeOK
<1>3. AdminOK'
  <2>1. PICK x \in AdminRow : AdminNamed(x) /\ adm' = [adm EXCEPT ![a] = x]
    BY DEF Serves, SlotServed
  <2>2. \A b \in Admins : adm'[b] \in AdminRow /\ AdminNamed(adm'[b])
    BY <2>1 DEF MediaInv, AdminOK
  <2>3. adm' \in [Admins -> AdminRow]
    BY <2>1 DEF MediaInv, AdminOK
  <2>4. \A b \in Admins : AdminNamed(adm[b])'
    BY <2>2 DEF AdminNamed
  <2>5. QED
    BY <2>3, <2>4 DEF AdminOK, Serves, JobsServed
<1>4. Registered' /\ AttachedOK'
  <2>1. \A j \in Jobs : JobMoves(j) /\ dest'[j] = dest[j] /\ job[j].assoc \in BOOLEAN
    BY DEF Serves, JobsServed, MediaInv, CatalogueInv, CatalogueTypeOK, TablesOK, JobRow
  <2>2. QED
    BY <2>1 DEF JobMoves, MediaInv, Registered, AttachedOK
<1>5. QED
  BY <1>2, <1>3, <1>4 DEF MediaInv

\* What the pipeline does to the row of a job and to what its worker has read.
Pipes(j) ==
  \/ job'[j] = job[j] /\ dest'[j] = dest[j]
  \/ /\ job[j].status \in {"ABSENT", "FAILED", "CANCELLED", "ACTIVE"} /\ job'[j].status \in {"ACTIVE", "FAILED", "CANCELLED"}
     /\ job'[j].status # job[j].status /\ job'[j].output = job[j].output /\ dest'[j] = dest[j]
  \/ /\ job[j].status = "ACTIVE" /\ ~job[j].output /\ dest[j] = Null
     /\ job'[j].status = "COMPLETED" /\ job'[j].output /\ job'[j].target = dest'[j]
  \/ /\ dest[j] # Null /\ dest'[j] = Null /\ job'[j].output = job[j].output
     /\ \/ job'[j].status = "FAILED"
        \/ /\ job'[j].status = job[j].status /\ job'[j].target = job[j].target
           /\ job'[j].assoc = (job[j].assoc \/ job[j].target = dest[j])

LEMMA PipelinePipes == ASSUME CatalogueInv, Pipeline PROVE \A k \in Jobs : Pipes(k)
<1>0. job \in [Jobs -> JobRow(Episodes)] /\ dest \in [Jobs -> Field(Episodes)]
  BY DEF CatalogueInv, CatalogueTypeOK, TablesOK
<1>1. PICK j \in Jobs :
        (\E e \in Field(Live) : Enqueue(j, e)) \/ JobCompletes(j) \/ JobFails(j) \/ WorkerAssociates(j)
  BY DEF Pipeline
<1>2. ASSUME NEW row, job' = [job EXCEPT ![j] = row], NEW d, dest' = [dest EXCEPT ![j] = d], Pipes(j)
      PROVE  \A k \in Jobs : Pipes(k)
  BY <1>0, <1>2 DEF Pipes
<1>d. dest = [dest EXCEPT ![j] = dest[j]]
  BY <1>0
<1>3. ASSUME NEW e \in Field(Live), Enqueue(j, e) PROVE \A k \in Jobs : Pipes(k)
  <2> DEFINE row == [job[j] EXCEPT !.status = "ACTIVE", !.target = IF e = Null THEN @ ELSE e]
  <2>1. job' = [job EXCEPT ![j] = row]
    BY <1>3 DEF Enqueue
  <2>2. row.status = "ACTIVE" /\ row.output = job[j].output
    BY <1>0 DEF JobRow
  <2> HIDE DEF row
  <2>3. Pipes(j)
    BY <1>0, <1>3, <2>1, <2>2 DEF Pipes, Enqueue
  <2>4. QED
    BY <1>2, <1>3, <1>d, <2>1, <2>3 DEF Enqueue
<1>4. CASE JobCompletes(j)
  <2> DEFINE row == [job[j] EXCEPT !.status = "COMPLETED", !.output = TRUE, !.stored = TRUE]
  <2>1. job' = [job EXCEPT ![j] = row] /\ dest' = [dest EXCEPT ![j] = job[j].target]
    BY <1>4 DEF JobCompletes
  <2>2. row.status = "COMPLETED" /\ row.output /\ row.target = job[j].target
    BY <1>0 DEF JobRow
  <2> HIDE DEF row
  <2>3. Pipes(j)
    BY <1>0, <1>4, <2>1, <2>2 DEF Pipes, JobCompletes
  <2>4. QED
    BY <1>2, <2>1, <2>3
<1>5. CASE JobFails(j)
  <2>1. PICK st \in {"FAILED", "CANCELLED"} : job' = [job EXCEPT ![j].status = st]
    BY <1>5 DEF JobFails
  <2> DEFINE row == [job[j] EXCEPT !.status = st]
  <2>2. row.status = st /\ row.output = job[j].output /\ job' = [job EXCEPT ![j] = row]
    BY <1>0, <2>1 DEF JobRow
  <2> HIDE DEF row
  <2>3. Pipes(j)
    BY <1>0, <1>5, <2>2 DEF Pipes, JobFails
  <2>4. QED
    BY <1>2, <1>5, <1>d, <2>2, <2>3 DEF JobFails
<1>6. CASE WorkerAssociates(j)
  <2>1. dest[j] # Null /\ dest' = [dest EXCEPT ![j] = Null]
    BY <1>6 DEF WorkerAssociates
  <2>2. CASE SecondDefault(j, dest[j])
    <3> DEFINE row == [job[j] EXCEPT !.status = "FAILED", !.stored = FALSE]
    <3>1. job' = [job EXCEPT ![j] = row]
      BY <1>6, <2>2 DEF WorkerAssociates
    <3>2. row.status = "FAILED" /\ row.output = job[j].output
      BY <1>0 DEF JobRow
    <3> HIDE DEF row
    <3>3. Pipes(j)
      BY <1>0, <2>1, <3>1, <3>2 DEF Pipes
    <3>4. QED
      BY <1>2, <2>1, <3>1, <3>3
  <2>3. CASE ~SecondDefault(j, dest[j])
    <3> DEFINE ep == [episode EXCEPT ![dest[j]] = Associated(@, j)]
               mark == job[j].assoc \/ job[j].target = dest[j]
               keep == job[j].retain \/ Cardinality(References(ep, InputOf[j])) > 1
               row == [job[j] EXCEPT !.assoc = mark, !.retain = keep]
    <3>1. job' = [job EXCEPT ![j] = row]
      BY <1>6, <2>3 DEF WorkerAssociates
    <3> HIDE DEF keep
    <3>2. row.status = job[j].status /\ row.output = job[j].output /\ row.target = job[j].target
      BY <1>0 DEF JobRow
    <3>3. row.assoc = mark
      <4> HIDE DEF mark
      <4>1. "assoc" \in DOMAIN job[j]
        BY <1>0 DEF JobRow
      <4>2. QED
        BY <4>1
    <3> HIDE DEF row
    <3>4. Pipes(j)
      BY <1>0, <2>1, <3>1, <3>2, <3>3 DEF Pipes
    <3>5. QED
      BY <1>2, <2>1, <3>1, <3>4
  <2>4. QED
    BY <2>2, <2>3
<1>7. QED
  BY <1>1, <1>3, <1>4, <1>5, <1>6

\* A request leaves what workers have read.
LEMMA DestKept ==
  ASSUME NEW r \in Requests, AnyRequest(r) PROVE dest' = dest
BY DEF AnyRequest, EpisodeRequest, SeasonRequest, Abort, Create, UpdateBegin, Update, Bulk, Import,
       ImportCommit, Publish, PublishCommit, Copy, CopyCommit, RemoveEpisode,
       RemoveEpisodeCommit, CreateSeason, Renumber, RenumberCommit, RemoveSeason,
       RemoveSeasonCommit, RemoveSeries

LEMMA AnyMedia ==
  ASSUME MediaInv, AnyNext \/ UNCHANGED catalogueVars, stage' \in [Jobs -> Stages], UNCHANGED adm
  PROVE  MediaInv'
<1>1. CatalogueInv'
  BY AnyCatalogue DEF MediaInv
<1>2. AdminOK'
  BY DEF MediaInv, AdminOK, AdminNamed
<1>3. CASE Pipeline
  <2>1. \A k \in Jobs : Pipes(k)
    BY <1>3, PipelinePipes DEF MediaInv
  <2>2. QED
    BY <1>1, <1>2, <2>1 DEF Pipes, MediaInv, Registered, AttachedOK
<1>4. ASSUME NEW r \in Requests, AnyRequest(r) PROVE MediaInv'
  <2>1. \A j \in Jobs : Owned(job', j)
    BY <1>4, RequestOwned DEF MediaInv
  <2>2. dest' = dest
    BY <1>4, DestKept
  <2>3. QED
    BY <1>1, <1>2, <2>1, <2>2 DEF Owned, MediaInv, Registered, AttachedOK
<1>5. CASE UNCHANGED catalogueVars
  BY <1>1, <1>2, <1>5 DEF catalogueVars, MediaInv, Registered, AttachedOK
<1>6. QED
  BY <1>3, <1>4, <1>5 DEF AnyNext

LEMMA RestagedTyped == ASSUME MediaInv PROVE Restaged \in [Jobs -> Stages]
BY DEF Restaged, MediaInv, AdminOK, Stages

LEMMA ElsewhereInv == ASSUME MediaInv, Elsewhere PROVE MediaInv'
BY AnyMedia, RestagedTyped DEF Elsewhere, AnyNext, AnyRequest

LEMMA NextMedia == MediaInv /\ [MediaNext]_mediaVars => MediaInv'
<1> SUFFICES ASSUME MediaInv, [MediaNext]_mediaVars PROVE MediaInv'
  OBVIOUS
<1>1. ASSUME NEW a \in Admins, LibraryRequest(a) PROVE MediaInv'
  BY <1>1, LibraryServes, LibraryInv DEF MediaInv
<1>2. CASE UNCHANGED mediaVars
  <2>1. UNCHANGED catalogueVars /\ UNCHANGED <<stage, adm>>
    BY <1>2 DEF mediaVars, adminVars
  <2>2. CatalogueInv'
    BY <2>1, NextCatalogue DEF MediaInv
  <2>3. QED
    BY <2>1, <2>2 DEF MediaInv, AdminOK, AdminNamed, Registered, AttachedOK, catalogueVars
<1>3. QED
  BY <1>1, <1>2, ElsewhereInv DEF MediaNext

LEMMA InitMedia == MediaInit => MediaInv
<1> SUFFICES ASSUME MediaInit PROVE MediaInv
  OBVIOUS
<1>1. CatalogueInv
  BY InitCatalogue DEF MediaInit
<1>2. AdminOK
  BY DEF MediaInit, AdminOK, AdminNamed, AdminRow, Resting, Stages, Steps, Field, HlsSteps,
         RemuxSteps, OriginalSteps, PublishSteps, AssetSteps
<1>3. \A j \in Jobs : job[j].status = "ABSENT"
  BY Zenon DEF MediaInit, Init
<1>4. QED
  BY <1>1, <1>2, <1>3 DEF MediaInv, Registered, AttachedOK

LEMMA MediaKeptInv == MediaSteps => []MediaInv
BY InitMedia, NextMedia, PTL DEF MediaSteps

\* Whatever requests, workers and administrators do at once, every row of a
\* job, of an episode and of an original stays one, and every slot names the
\* rows its handler works on.
THEOREM MediaTypes == MediaSteps => [](CatalogueTypeOK /\ MediaTypeOK)
<1>1. MediaInv => CatalogueTypeOK /\ MediaTypeOK
  BY DEF MediaInv, CatalogueInv, AdminOK, MediaTypeOK, AdminRow
<1>2. QED
  BY <1>1, MediaKeptInv, PTL

\* What would play is completed and its output in the storage.
LEMMA ReadyIsStored ==
  ASSUME MediaInv, NEW m \in Media, NEW kind \in {"HLS", "REMUX"}
  PROVE  LET j == Version(job, kind, InputJobs(m)) IN
         ManagedReason(media, job, kind, m, InputJobs(m)) = "ready" <=> j # Null /\ job[j].stored
<1> DEFINE V == {j \in InputJobs(m) : KindOf[j] = kind /\ job[j].status = "COMPLETED" /\ job[j].output}
           K == {j \in InputJobs(m) : KindOf[j] = kind /\ job[j].status # "ABSENT"}
           C == {j \in K : job[j].status \in {"COMPLETED"}}
<1>1. C = V /\ V \in SUBSET Jobs
  BY DEF MediaInv, Registered, InputJobs
<1>2. Version(job, kind, InputJobs(m)) = Latest(V)
  BY DEF Version
<1>3. IF V = {} THEN Latest(V) = Null ELSE Latest(V) \in V
  BY <1>1, LatestJob
<1>4. Null \notin Jobs
  BY PlaybackAssumption
<1>5. CASE V = {}
  <2>1. ManagedReason(media, job, kind, m, InputJobs(m)) \in {"PROCESSING", "FAILED", "NOT_FOUND"}
    BY <1>1, <1>5 DEF ManagedReason
  <2>2. QED
    BY <1>2, <1>3, <1>5, <2>1
<1>6. CASE V # {}
  <2>1. ManagedReason(media, job, kind, m, InputJobs(m)) = OutputReason(job[Latest(V)])
    BY <1>1, <1>6 DEF ManagedReason
  <2>2. job[Latest(V)].output /\ Latest(V) \in Jobs
    BY <1>1, <1>3, <1>6
  <2>3. QED
    BY <1>2, <1>4, <2>1, <2>2 DEF OutputReason
<1>7. QED
  BY <1>5, <1>6

\* What is offered would play, and its original is not deleted.
LEMMA SelectedPlay == MediaInv => SelectorAgrees
BY ReadyIsStored DEF SelectorAgrees, Selectable

\* In every state, also in the middle of deletions that fail, the selector
\* offers the versions that the readiness service would play and no other,
\* except that it hides those of a deleted original.
THEOREM SelectorAgreement == MediaSteps => []SelectorAgrees
BY SelectedPlay, MediaKeptInv, PTL

-----------------------------------------------------------------------------
(* Administrators who act one at a time *)

\* A request to the library is in flight alone.
Alone ==
  \A a \in Admins : ~At(a, "idle") =>
    (\A r \in Requests : req[r].pc = "idle") /\ \A b \in Admins \ {a} : At(b, "idle")

\* Beside a request to the library only workers that end move.
Ends == Pipeline /\ \E j \in Jobs : JobCompletes(j) \/ WorkerAssociates(j)

LEMMA OnlyEnds ==
  ASSUME MediaInv, Alone, NEW a \in Admins, ~At(a, "idle"), MediaNext, OneAtATime
  PROVE  \/ LibraryRequest(a)
         \/ stage' = Restaged /\ adm' = adm /\ req' = req /\ Ends
<1>1. CASE Elsewhere
  <2>1. adm' = adm /\ stage' = Restaged
    BY <1>1 DEF Elsewhere
  <2>2. ASSUME NEW r \in Requests, EpisodeRequest(r) \/ SeasonRequest(r) \/ Abort(r) PROVE FALSE
    <3>1. dest' = dest
      BY <2>2, DestKept DEF AnyRequest
    <3>2. QED
      BY <2>1, <3>1 DEF OneAtATime, Calm, Alone
  <2>3. Pipeline
    BY <1>1, <2>2 DEF Elsewhere
  <2>4. req' = req
    BY <2>3, PipelineStep DEF MediaInv
  <2>5. dest' # dest
    BY <2>1, <2>4 DEF OneAtATime, Calm
  <2>6. \E j \in Jobs : JobCompletes(j) \/ WorkerAssociates(j)
    BY <2>3, <2>5 DEF Pipeline, Enqueue, JobFails
  <2>7. QED
    BY <2>1, <2>3, <2>4, <2>6 DEF Ends
<1>2. ASSUME NEW b \in Admins, LibraryRequest(b) PROVE b = a
  <2>1. Serves(b)
    BY <1>2, LibraryServes DEF MediaInv
  <2>2. req' = req /\ dest' = dest /\ \A c \in Admins \ {b} : adm'[c] = adm[c]
    BY <2>1 DEF Serves, SlotServed, MediaInv, AdminOK
  <2>3. QED
    BY <2>2 DEF OneAtATime, Calm, Alone
<1>3. QED
  BY <1>1, <1>2 DEF MediaNext

\* A request to the library begins when nothing else is in flight.
LEMMA BeginsCalm ==
  ASSUME MediaInv, NEW a \in Admins, At(a, "idle"), LibraryRequest(a), OneAtATime PROVE Calm
<1>1. Serves(a)
  BY LibraryServes DEF MediaInv
<1>2. req' = req /\ dest' = dest /\ \A c \in Admins \ {a} : adm'[c] = adm[c]
  BY <1>1 DEF Serves, SlotServed, MediaInv, AdminOK
<1>3. QED
  BY <1>2 DEF OneAtATime

LEMMA AloneNext == MediaInv /\ Alone /\ [MediaNext /\ OneAtATime]_mediaVars => Alone'
<1> SUFFICES ASSUME MediaInv, Alone, [MediaNext /\ OneAtATime]_mediaVars,
                    NEW a \in Admins, ~At(a, "idle")'
             PROVE  (\A r \in Requests : req'[r].pc = "idle") /\ \A b \in Admins \ {a} : At(b, "idle")'
  BY DEF Alone
<1>1. ASSUME NEW b \in Admins, LibraryRequest(b), OneAtATime
      PROVE  /\ req' = req /\ adm' = [adm EXCEPT ![b] = adm'[b]]
             /\ (\A r \in Requests : req[r].pc = "idle") /\ \A c \in Admins \ {b} : At(c, "idle")
  <2>1. Serves(b)
    BY <1>1, LibraryServes DEF MediaInv
  <2>2. CASE At(b, "idle")
    BY <1>1, <2>1, <2>2, BeginsCalm DEF Calm, Serves, SlotServed, MediaInv, AdminOK
  <2>3. CASE ~At(b, "idle")
    BY <2>1, <2>3 DEF Alone, Serves, SlotServed, MediaInv, AdminOK
  <2>4. QED
    BY <2>2, <2>3
<1>2. ASSUME NEW b \in Admins, LibraryRequest(b), OneAtATime
      PROVE  (\A r \in Requests : req'[r].pc = "idle") /\ \A c \in Admins \ {a} : At(c, "idle")'
  <2>1. a = b
    BY <1>1, <1>2 DEF At, MediaInv, AdminOK
  <2>2. QED
    BY <1>1, <1>2, <2>1 DEF At, MediaInv, AdminOK
<1>3. CASE adm' = adm
  <2>1. ~At(a, "idle") /\ \A b \in Admins \ {a} : At(b, "idle")'
    BY <1>3 DEF At, Alone
  <2>2. req' = req
    BY <1>2, <2>1, OnlyEnds, <1>1 DEF mediaVars, catalogueVars
  <2>3. QED
    BY <2>1, <2>2 DEF Alone
<1>4. QED
  BY <1>2, <1>3 DEF MediaNext, Elsewhere, mediaVars, adminVars

\* The step that leaves a slot in the middle of a deletion or of an association.
LeavesSlot(a) ==
  /\ adm'[a].pc \in HlsSteps =>
       \/ \E j \in Jobs : /\ DeleteHls(a, j) /\ adm'[a] = Serving("hls.mark", j)
                          /\ KindOf[j] = "HLS" /\ job[j].output /\ InUse(j) = {}
       \/ MarkHls(a) /\ adm'[a] = Serving("hls.files", adm[a].j)
       \/ DeleteHlsFiles(a) /\ adm'[a] = Serving("hls.rows", adm[a].j)
  /\ adm'[a].pc \in RemuxSteps =>
       \/ \E j \in Jobs : /\ DeleteRemux(a, j) /\ adm'[a] = Serving("remux.mark", j)
                          /\ KindOf[j] = "REMUX" /\ job[j].output
       \/ MarkRemux(a) /\ adm'[a] = Serving("remux.files", adm[a].j)
       \/ DeleteRemuxFile(a) /\ adm'[a] = Serving("remux.rows", adm[a].j)
  /\ adm'[a].pc \in OriginalSteps =>
       \/ \E j \in Jobs :
            /\ DeleteOriginal(a, j) /\ adm'[a] = Serving("original.rows", j) /\ ~Active(j)
            /\ \A e \in References(episode, InputOf[j]) : episode[e].mode # "ORIGINAL"
       \/ ForgetOriginal(a) /\ adm'[a] = Serving("original.files", adm[a].j)
  /\ adm'[a].pc \in AssetSteps =>
       \/ \E m \in Media : /\ DeleteAsset(a, m) /\ adm'[a].m = m
                           /\ With(InputJobs(m), {"ACTIVE"}) = {}
                           /\ \A e \in Live : episode[e].media # m
       \/ (DeleteAssetOutputs(a) \/ DeleteAssetOriginal(a)) /\ adm'[a].m = adm[a].m
  /\ adm'[a].pc \in {"associate", "retire"} =>
       \/ \E j \in Jobs : /\ PublishMedia(a, j) /\ Completed(j) /\ job[j].target # Null
                          /\ ~job[j].assoc
       \/ AssociateMedia(a)

LEMMA SlotAfter ==
  ASSUME MediaInv, NEW a \in Admins, LibraryRequest(a) PROVE LeavesSlot(a)
<1>0. adm \in [Admins -> AdminRow]
  BY DEF MediaInv, AdminOK
<1>g. ASSUME NEW x, Go(a, x) PROVE adm'[a] = x
  BY <1>0, <1>g DEF Go
<1>d. ASSUME NEW answer, Done(a, answer) PROVE adm'[a].pc = "idle"
  BY <1>0, <1>d DEF Done, Resting
<1>r. ASSUME adm'[a].pc \in {"idle", "check", "show"} PROVE LeavesSlot(a)
  BY <1>r DEF LeavesSlot, HlsSteps, RemuxSteps, OriginalSteps, AssetSteps
<1>1. ASSUME NEW j \in Jobs, PublishMedia(a, j) PROVE LeavesSlot(a)
  <2>1. CASE \E answer : Done(a, answer)
    BY <1>d, <1>r, <2>1
  <2>2. CASE ~\E answer : Done(a, answer)
    <3>1. /\ Completed(j) /\ job[j].target # Null
          /\ Go(a, Serving(IF job[j].assoc THEN "check" ELSE "associate", j))
      BY <1>1, <2>2 DEF PublishMedia
    <3>2. adm'[a].pc = IF job[j].assoc THEN "check" ELSE "associate"
      BY <1>g, <3>1 DEF Serving
    <3>3. QED
      BY <1>1, <1>r, <3>1, <3>2 DEF LeavesSlot, HlsSteps, RemuxSteps, OriginalSteps, AssetSteps
  <2>3. QED
    BY <2>1, <2>2
<1>2. CASE AssociateMedia(a)
  <2>1. adm'[a].pc \in {"idle", "check", "retire"}
    BY <1>2, <1>g, <1>d DEF AssociateMedia, Serving
  <2>2. QED
    BY <1>2, <2>1 DEF LeavesSlot, HlsSteps, RemuxSteps, OriginalSteps, AssetSteps
<1>3. CASE RetireMedia(a)
  <2>1. adm'[a].pc = "check"
    BY <1>3, <1>g DEF RetireMedia, Serving
  <2>2. QED
    BY <1>r, <2>1
<1>4. CASE CheckMedia(a)
  <2>1. \A j, e : [Serving("show", j) EXCEPT !.m = e].pc = "show"
    BY DEF Serving
  <2>2. adm'[a].pc \in {"idle", "show"}
    BY <1>4, <1>g, <1>d, <2>1 DEF CheckMedia
  <2>3. QED
    BY <1>r, <2>2
<1>5. ASSUME NEW answer, Done(a, answer) PROVE LeavesSlot(a)
  BY <1>5, <1>d, <1>r
<1>6. ASSUME NEW j \in Jobs, DeleteHls(a, j) PROVE LeavesSlot(a)
  <2>1. CASE ~(KindOf[j] # "HLS" \/ ~job[j].output \/ InUse(j) # {})
    <3>1. adm'[a] = Serving("hls.mark", j)
      BY <1>6, <1>g, <2>1 DEF DeleteHls
    <3>2. QED
      BY <1>6, <2>1, <3>1 DEF Serving, LeavesSlot, HlsSteps, RemuxSteps, OriginalSteps, AssetSteps
  <2>2. QED
    BY <1>5, <1>6, <2>1 DEF DeleteHls
<1>7. ASSUME NEW j \in Jobs, DeleteRemux(a, j) PROVE LeavesSlot(a)
  <2>1. CASE ~(KindOf[j] # "REMUX" \/ ~job[j].output \/ InUse(j) # {})
    <3>1. adm'[a] = Serving("remux.mark", j)
      BY <1>7, <1>g, <2>1 DEF DeleteRemux
    <3>2. QED
      BY <1>7, <2>1, <3>1 DEF Serving, LeavesSlot, HlsSteps, RemuxSteps, OriginalSteps, AssetSteps
  <2>2. QED
    BY <1>5, <1>7, <2>1 DEF DeleteRemux
<1>8. ASSUME NEW j \in Jobs, DeleteOriginal(a, j) PROVE LeavesSlot(a)
  <2>1. CASE \E answer : Done(a, answer)
    BY <1>5, <2>1
  <2>2. CASE ~\E answer : Done(a, answer)
    <3>1. /\ ~Active(j) /\ \A e \in References(episode, InputOf[j]) : episode[e].mode # "ORIGINAL"
          /\ Go(a, Serving("original.rows", j))
      BY <1>8, <2>2 DEF DeleteOriginal
    <3>2. adm'[a] = Serving("original.rows", j)
      BY <1>g, <3>1
    <3>3. QED
      BY <1>8, <3>1, <3>2 DEF Serving, LeavesSlot, HlsSteps, RemuxSteps, OriginalSteps, AssetSteps
  <2>3. QED
    BY <2>1, <2>2
<1>9. CASE MarkHls(a) \/ DeleteHlsFiles(a)
  <2>1. CASE MarkHls(a)
    <3>1. adm'[a] = Serving("hls.files", adm[a].j)
      BY <1>g, <2>1 DEF MarkHls
    <3>2. QED
      BY <2>1, <3>1 DEF Serving, LeavesSlot, HlsSteps, RemuxSteps, OriginalSteps, AssetSteps
  <2>2. CASE DeleteHlsFiles(a)
    <3>1. Go(a, Serving("hls.rows", adm[a].j)) \/ Done(a, "failed")
      BY <2>2 DEF DeleteHlsFiles
    <3>2. CASE adm'[a] = Serving("hls.rows", adm[a].j)
      BY <2>2, <3>2 DEF Serving, LeavesSlot, HlsSteps, RemuxSteps, OriginalSteps, AssetSteps
    <3>3. QED
      BY <1>5, <1>g, <3>1, <3>2
  <2>3. QED
    BY <1>9, <2>1, <2>2
<1>10. CASE MarkRemux(a) \/ DeleteRemuxFile(a)
  <2>1. CASE MarkRemux(a)
    <3>1. adm'[a] = Serving("remux.files", adm[a].j)
      BY <1>g, <2>1 DEF MarkRemux
    <3>2. QED
      BY <2>1, <3>1 DEF Serving, LeavesSlot, HlsSteps, RemuxSteps, OriginalSteps, AssetSteps
  <2>2. CASE DeleteRemuxFile(a)
    <3>1. Go(a, Serving("remux.rows", adm[a].j)) \/ Done(a, "failed")
      BY <2>2 DEF DeleteRemuxFile
    <3>2. CASE adm'[a] = Serving("remux.rows", adm[a].j)
      BY <2>2, <3>2 DEF Serving, LeavesSlot, HlsSteps, RemuxSteps, OriginalSteps, AssetSteps
    <3>3. QED
      BY <1>5, <1>g, <3>1, <3>2
  <2>3. QED
    BY <1>10, <2>1, <2>2
<1>11. CASE ForgetOriginal(a)
  <2>1. adm'[a] = Serving("original.files", adm[a].j)
    BY <1>11, <1>g DEF ForgetOriginal
  <2>2. QED
    BY <1>11, <2>1 DEF Serving, LeavesSlot, HlsSteps, RemuxSteps, OriginalSteps, AssetSteps
<1>12. ASSUME NEW m \in Media, DeleteAsset(a, m) PROVE LeavesSlot(a)
  <2>1. CASE \E answer : Done(a, answer)
    BY <1>5, <2>1
  <2>2. CASE ~\E answer : Done(a, answer)
    <3>1. /\ With(InputJobs(m), {"ACTIVE"}) = {} /\ \A e \in Live : episode[e].media # m
          /\ Go(a, [Serving("asset.outputs", Null) EXCEPT !.m = m])
      BY <1>12, <2>2 DEF DeleteAsset
    <3>2. adm'[a].pc = "asset.outputs" /\ adm'[a].m = m
      BY <1>g, <3>1 DEF Serving
    <3>3. QED
      BY <1>12, <3>1, <3>2 DEF LeavesSlot, HlsSteps, RemuxSteps, OriginalSteps, AssetSteps
  <2>3. QED
    BY <2>1, <2>2
<1>13. CASE DeleteAssetOutputs(a) \/ DeleteAssetOriginal(a)
  <2>1. ASSUME NEW pc \in AssetSteps, Go(a, [adm[a] EXCEPT !.pc = pc]) PROVE LeavesSlot(a)
    <3>1. adm'[a].pc = pc /\ adm'[a].m = adm[a].m
      BY <1>0, <1>g, <2>1 DEF AdminRow
    <3>2. QED
      BY <1>13, <2>1, <3>1 DEF LeavesSlot, HlsSteps, RemuxSteps, OriginalSteps, AssetSteps
  <2>2. "asset.original" \in AssetSteps /\ "asset.rows" \in AssetSteps
    BY DEF AssetSteps
  <2>3. \/ Go(a, [adm[a] EXCEPT !.pc = "asset.original"])
        \/ Go(a, [adm[a] EXCEPT !.pc = "asset.rows"])
        \/ Done(a, "failed")
    BY <1>13 DEF DeleteAssetOutputs, DeleteAssetOriginal
  <2>4. QED
    BY <1>5, <2>1, <2>2, <2>3
<1>14. CASE ShowMedia(a) \/ DropHlsRows(a) \/ DropRemuxRows(a) \/ DeleteOriginalFile(a) \/ DropAssetRows(a)
  BY <1>5, <1>14 DEF ShowMedia, DropHlsRows, DropRemuxRows, DeleteOriginalFile, DropAssetRows
<1>15. ASSUME NEW j \in Jobs, UnpublishMedia(a, j) PROVE LeavesSlot(a)
  BY <1>5, <1>15 DEF UnpublishMedia
<1>16. QED
  BY <1>1, <1>2, <1>3, <1>4, <1>6, <1>7, <1>8, <1>9, <1>10, <1>11, <1>12, <1>13, <1>14, <1>15
  DEF LibraryRequest

-----------------------------------------------------------------------------
(* A failed deletion can be tried again *)

\* The output that a request deletes is registered, and no worker is about to attach it.
DeletesOutput ==
  \A a \in Admins : LET j == adm[a].j IN
    /\ adm[a].pc \in HlsSteps => job[j].output /\ dest[j] = Null /\ KindOf[j] = "HLS"
    /\ adm[a].pc \in RemuxSteps => job[j].output /\ dest[j] = Null /\ KindOf[j] = "REMUX"

RetryInv == MediaInv /\ Alone /\ DeletesOutput

\* The stage of a failure is that of the job whose deletion failed.
LEMMA FailedStage ==
  ASSUME MediaInv, NEW a \in Admins, LibraryRequest(a), NEW j \in Jobs,
         stage'[j] \in {"DELETE_FAILED", "RECONCILE_REQUIRED"}, stage[j] # stage'[j]
  PROVE  adm[a].pc \in HlsSteps \cup RemuxSteps /\ j = adm[a].j
<1>0. stage \in [Jobs -> Stages]
  BY DEF MediaInv, AdminOK
<1>1. CASE DeleteHlsFiles(a) \/ DropHlsRows(a) \/ DeleteRemuxFile(a) \/ DropRemuxRows(a)
  <2>1. j = adm[a].j
    BY <1>0, <1>1 DEF DeleteHlsFiles, DropHlsRows, DeleteRemuxFile, DropRemuxRows
  <2>2. QED
    BY <1>1, <2>1 DEF DeleteHlsFiles, DropHlsRows, DeleteRemuxFile, DropRemuxRows, At, HlsSteps, RemuxSteps
<1>2. CASE MarkHls(a) \/ MarkRemux(a) \/ AssociateMedia(a)
  <2>1. stage' = stage \/ \E st \in {"DELETING", "none"} : \E k : stage' = [stage EXCEPT ![k] = st]
    BY <1>2 DEF MarkHls, MarkRemux, AssociateMedia
  <2>2. QED
    BY <1>0, <2>1
<1>3. CASE DropAssetRows(a)
  BY <1>0, <1>3 DEF DropAssetRows
<1>4. CASE stage' = stage
  BY <1>4
<1>5. QED
  BY <1>1, <1>2, <1>3, <1>4 DEF LibraryRequest, PublishMedia, UnpublishMedia, RetireMedia, CheckMedia,
     ShowMedia, DeleteHls, DeleteRemux, DeleteOriginal, ForgetOriginal, DeleteOriginalFile,
     DeleteAsset, DeleteAssetOutputs, DeleteAssetOriginal

\* What a step of one handler means for the slots: the others rest.
LEMMA OthersRest ==
  ASSUME MediaInv, Alone, NEW a \in Admins, LibraryRequest(a), OneAtATime
  PROVE  /\ \A b \in Admins \ {a} : At(b, "idle") /\ adm'[b] = adm[b]
         /\ At(a, "idle") => \A j \in Jobs : dest[j] = Null
         /\ \A r \in Requests : req[r].pc = "idle"
         /\ req' = req /\ dest' = dest
<1>1. Serves(a)
  BY LibraryServes DEF MediaInv
<1>2. req' = req /\ dest' = dest /\ \A c \in Admins \ {a} : adm'[c] = adm[c]
  BY <1>1 DEF Serves, SlotServed, MediaInv, AdminOK
<1>3. CASE At(a, "idle")
  BY <1>2, <1>3, BeginsCalm DEF Calm
<1>4. CASE ~At(a, "idle")
  BY <1>2, <1>4 DEF Alone
<1>5. QED
  BY <1>3, <1>4

\* An output that is being deleted stays registered while workers end.
LEMMA EndsKeep ==
  ASSUME MediaInv, Pipeline, NEW j \in Jobs, job[j].output, dest[j] = Null
  PROVE  job'[j].output /\ dest'[j] = Null
<1>1. Pipes(j)
  BY PipelinePipes DEF MediaInv
<1>2. QED
  BY <1>1 DEF Pipes

LEMMA DeletesNext ==
  RetryInv /\ [MediaNext /\ OneAtATime]_mediaVars => DeletesOutput'
<1> SUFFICES ASSUME RetryInv, [MediaNext /\ OneAtATime]_mediaVars PROVE DeletesOutput'
  OBVIOUS
<1>0. MediaInv /\ Alone /\ DeletesOutput
  BY DEF RetryInv
<1>p. AdminNamed(Resting) /\ "idle" \notin HlsSteps \cup RemuxSteps
  BY DEF AdminNamed, Resting, HlsSteps, RemuxSteps, OriginalSteps, PublishSteps, AssetSteps
<1>1. ASSUME NEW a \in Admins, LibraryRequest(a), OneAtATime PROVE DeletesOutput'
  <2>1. /\ \A b \in Admins \ {a} : At(b, "idle") /\ adm'[b] = adm[b]
        /\ At(a, "idle") => \A j \in Jobs : dest[j] = Null
        /\ dest' = dest
    BY <1>0, <1>1, OthersRest
  <2>2. LeavesSlot(a) /\ JobsServed
    BY <1>0, <1>1, SlotAfter, LibraryServes DEF MediaInv, Serves
  <2>3. ASSUME adm'[a].pc \in HlsSteps
        PROVE  job'[adm'[a].j].output /\ dest'[adm'[a].j] = Null /\ KindOf[adm'[a].j] = "HLS"
    <3>1. CASE \E j \in Jobs : /\ DeleteHls(a, j) /\ adm'[a] = Serving("hls.mark", j)
                               /\ KindOf[j] = "HLS" /\ job[j].output
      BY <2>1, <3>1 DEF DeleteHls, Serving
    <3>2. CASE MarkHls(a) /\ adm'[a] = Serving("hls.files", adm[a].j)
      BY <1>0, <2>1, <3>2 DEF MarkHls, Serving, DeletesOutput, At, HlsSteps
    <3>3. CASE DeleteHlsFiles(a) /\ adm'[a] = Serving("hls.rows", adm[a].j)
      <4>1. adm[a].pc \in HlsSteps /\ adm[a].j \in Jobs /\ adm'[a].j = adm[a].j
        BY <1>0, <3>3 DEF DeleteHlsFiles, Serving, At, HlsSteps, MediaInv, AdminOK, AdminNamed
      <4>2. job'[adm[a].j].output = job[adm[a].j].output
        <5>1. job \in [Jobs -> JobRow(Episodes)]
          BY <1>0 DEF MediaInv, CatalogueInv, CatalogueTypeOK, TablesOK
        <5>2. PICK ok \in BOOLEAN : job' = [job EXCEPT ![adm[a].j].stored = @ /\ ~ok]
          BY <3>3 DEF DeleteHlsFiles, Outcomes
        <5>3. QED
          BY <4>1, <5>1, <5>2, StoredRow
      <4>3. QED
        BY <1>0, <2>1, <4>1, <4>2 DEF DeletesOutput
    <3>4. QED
      BY <2>2, <2>3, <3>1, <3>2, <3>3 DEF LeavesSlot
  <2>4. ASSUME adm'[a].pc \in RemuxSteps
        PROVE  job'[adm'[a].j].output /\ dest'[adm'[a].j] = Null /\ KindOf[adm'[a].j] = "REMUX"
    <3>1. CASE \E j \in Jobs : /\ DeleteRemux(a, j) /\ adm'[a] = Serving("remux.mark", j)
                               /\ KindOf[j] = "REMUX" /\ job[j].output
      BY <2>1, <3>1 DEF DeleteRemux, Serving
    <3>2. CASE MarkRemux(a) /\ adm'[a] = Serving("remux.files", adm[a].j)
      BY <1>0, <2>1, <3>2 DEF MarkRemux, Serving, DeletesOutput, At, RemuxSteps
    <3>3. CASE DeleteRemuxFile(a) /\ adm'[a] = Serving("remux.rows", adm[a].j)
      <4>1. adm[a].pc \in RemuxSteps /\ adm[a].j \in Jobs /\ adm'[a].j = adm[a].j
        BY <1>0, <3>3 DEF DeleteRemuxFile, Serving, At, RemuxSteps, MediaInv, AdminOK, AdminNamed
      <4>2. job'[adm[a].j].output = job[adm[a].j].output
        <5>1. job \in [Jobs -> JobRow(Episodes)]
          BY <1>0 DEF MediaInv, CatalogueInv, CatalogueTypeOK, TablesOK
        <5>2. PICK ok \in BOOLEAN : job' = [job EXCEPT ![adm[a].j].stored = @ /\ ~ok]
          BY <3>3 DEF DeleteRemuxFile, Outcomes
        <5>3. QED
          BY <4>1, <5>1, <5>2, StoredRow
      <4>3. QED
        BY <1>0, <2>1, <4>1, <4>2 DEF DeletesOutput
    <3>4. QED
      BY <2>2, <2>4, <3>1, <3>2, <3>3 DEF LeavesSlot
  <2>5. ASSUME NEW b \in Admins \ {a} PROVE adm'[b].pc \notin HlsSteps \cup RemuxSteps
    BY <1>p, <2>1 DEF At
  <2>6. QED
    BY <2>3, <2>4, <2>5 DEF DeletesOutput
<1>2. ASSUME adm' = adm, \A j \in Jobs : job[j].output /\ dest[j] = Null => job'[j].output /\ dest'[j] = Null
      PROVE  DeletesOutput'
  <2>1. \A a \in Admins : adm[a].pc \in HlsSteps \cup RemuxSteps => adm[a].j \in Jobs
    BY <1>0 DEF MediaInv, AdminOK, AdminNamed
  <2>2. QED
    BY <1>0, <1>2, <2>1 DEF DeletesOutput
<1>3. ASSUME Elsewhere, OneAtATime PROVE DeletesOutput'
  <2>1. CASE \A a \in Admins : At(a, "idle")
    BY <1>3, <1>p, <2>1 DEF Elsewhere, DeletesOutput, At
  <2>2. ASSUME NEW a \in Admins, ~At(a, "idle") PROVE DeletesOutput'
    <3>1. CASE LibraryRequest(a)
      BY <1>1, <1>3, <3>1
    <3>2. CASE adm' = adm /\ Ends
      BY <1>0, <1>2, <3>2, EndsKeep DEF Ends
    <3>3. QED
      BY <1>0, <1>3, <2>2, <3>1, <3>2, OnlyEnds DEF MediaNext
  <2>3. QED
    BY <2>1, <2>2
<1>4. CASE UNCHANGED mediaVars
  BY <1>2, <1>4 DEF mediaVars, catalogueVars, adminVars
<1>5. QED
  BY <1>1, <1>3, <1>4 DEF MediaNext

\* No request of a service and no worker takes an output back.
LEMMA OutputsStay ==
  ASSUME MediaInv, Elsewhere, NEW j \in Jobs
  PROVE  /\ job[j].output => job'[j].output
         /\ stage'[j] \in {stage[j], "none"}
<1>1. stage'[j] \in {stage[j], "none"}
  BY DEF Elsewhere, Restaged
<1>2. CASE Pipeline
  <2>1. Pipes(j)
    BY <1>2, PipelinePipes DEF MediaInv
  <2>2. QED
    BY <1>1, <2>1 DEF Pipes
<1>3. ASSUME NEW r \in Requests, EpisodeRequest(r) \/ SeasonRequest(r) \/ Abort(r)
      PROVE  job[j].output => job'[j].output
  BY <1>3, RequestOwned DEF Owned, MediaInv, AnyRequest
<1>4. QED
  BY <1>1, <1>2, <1>3 DEF Elsewhere

LEMMA RetryNext ==
  RetryInv /\ DeletionCanBeRetried /\ [MediaNext /\ OneAtATime]_mediaVars => DeletionCanBeRetried'
<1> SUFFICES ASSUME RetryInv, DeletionCanBeRetried, [MediaNext /\ OneAtATime]_mediaVars, NEW j \in Jobs,
                    stage'[j] \in {"DELETE_FAILED", "RECONCILE_REQUIRED"}
             PROVE  job'[j].output
  BY DEF DeletionCanBeRetried
<1>1. ASSUME NEW a \in Admins, LibraryRequest(a) PROVE job'[j].output
  <2>1. job[j].output
    <3>1. CASE stage[j] = stage'[j]
      BY <3>1 DEF DeletionCanBeRetried
    <3>2. CASE stage[j] # stage'[j]
      BY <1>1, <3>2, FailedStage DEF RetryInv, DeletesOutput
    <3>3. QED
      BY <3>1, <3>2
  <2>2. JobMoves(j)
    BY <1>1, LibraryServes DEF RetryInv, MediaInv, Serves, JobsServed
  <2>3. QED
    BY <2>1, <2>2 DEF JobMoves
<1>2. CASE Elsewhere
  BY <1>2, OutputsStay DEF RetryInv, DeletionCanBeRetried
<1>3. CASE UNCHANGED mediaVars
  BY <1>3 DEF mediaVars, catalogueVars, adminVars, DeletionCanBeRetried
<1>4. QED
  BY <1>1, <1>2, <1>3 DEF MediaNext

LEMMA RetryInit == MediaInit => RetryInv
<1>1. MediaInit => Alone /\ DeletesOutput
  BY DEF MediaInit, Resting, Alone, DeletesOutput, At, HlsSteps, RemuxSteps
<1>2. QED
  BY <1>1, InitMedia DEF RetryInv

LEMMA RetryInvNext == RetryInv /\ [MediaNext /\ OneAtATime]_mediaVars => RetryInv'
<1>1. [MediaNext /\ OneAtATime]_mediaVars => [MediaNext]_mediaVars
  OBVIOUS
<1>2. QED
  BY <1>1, NextMedia, AloneNext, DeletesNext DEF RetryInv

LEMMA SerialKept == SerialMediaSpec => []RetryInv
BY RetryInit, RetryInvNext, PTL DEF SerialMediaSpec

\* Wherever a deletion fails, in the storage or in the database, the version
\* stays registered until a deletion of it ends, whatever its worker does
\* meanwhile: the operation that failed finds it when it is tried again.
THEOREM RetryFindsVersion == SerialMediaSpec => []DeletionCanBeRetried
<1>1. MediaInit => DeletionCanBeRetried
  BY DEF MediaInit, DeletionCanBeRetried
<1>2. QED
  BY <1>1, SerialKept, RetryNext, PTL DEF SerialMediaSpec

-----------------------------------------------------------------------------
(* Where the video columns of an episode come from *)

VersionKinds == {"HLS", "REMUX"}

\* The column of an episode that names a version.
Col(row, kind) == IF kind = "HLS" THEN row.hls ELSE row.remux

\* No body of a request gives the URL of a stored file as a link.
NoLocalUrls == \A d \in Creates \cup Updates : d.url \notin Media \cup Jobs

LinksAgree(row) == row.url \notin Jobs /\ (row.url \in Media => row.media = row.url)

\* A job whose output may be attached: it has one, or its worker is about to attach it.
Attachable(j) == (job[j].status = "COMPLETED" /\ job[j].output) \/ dest[j] # Null

\* A column is empty, as it was, as a request has read it in some row, or new.
VersionFrom(e, kind) ==
  LET j == Col(episode'[e], kind) IN
  \/ j = Null
  \/ j = Col(episode[e], kind) /\ (episode'[e].state = "live" => episode[e].state = "live")
  \/ \E r \in Requests : req[r].pc \in {"update", "copy"} /\ j = Col(req[r].row, kind)
  \/ j \in Jobs /\ KindOf[j] = kind /\ Attachable(j)

LinkFrom(e) ==
  \/ episode'[e].media = episode[e].media /\ episode'[e].url \in {episode[e].url, Null}
  \/ \E r \in Requests : /\ req[r].pc \in {"update", "copy"}
                         /\ episode'[e].media = req[r].row.media /\ episode'[e].url = req[r].row.url
  \/ NoLocalUrls => LinksAgree(episode'[e])

ShowsVideo(e) == LinkFrom(e) /\ \A kind \in VersionKinds : VersionFrom(e, kind)

SameVideo(row, old) ==
  /\ row.media = old.media /\ row.url = old.url /\ row.hls = old.hls /\ row.remux = old.remux
  /\ row.state = old.state

LEMMA SameShows ==
  ASSUME NEW e \in Episodes, SameVideo(episode'[e], episode[e]) PROVE ShowsVideo(e)
BY DEF ShowsVideo, LinkFrom, VersionFrom, SameVideo, Col

LEMMA VersionAttachable ==
  ASSUME NEW kind, NEW js \in SUBSET Jobs
  PROVE  LET j == Version(job, kind, js) IN j # Null => j \in Jobs /\ KindOf[j] = kind /\ Attachable(j)
<1> DEFINE V == {j \in js : KindOf[j] = kind /\ job[j].status = "COMPLETED" /\ job[j].output}
<1>1. V \in SUBSET Jobs /\ Version(job, kind, js) = Latest(V)
  BY DEF Version
<1>2. IF V = {} THEN Latest(V) = Null ELSE Latest(V) \in V
  BY <1>1, LatestJob
<1>3. QED
  BY <1>1, <1>2 DEF Attachable

\* The versions of an original, in the row of an episode that uses it.
LEMMA VersionsShow ==
  ASSUME NEW m \in Media, NEW js \in SUBSET Jobs, NEW e \in Episodes,
         episode'[e].media = m, episode'[e].url = m,
         episode'[e].hls = Version(job, "HLS", js), episode'[e].remux = Version(job, "REMUX", js)
  PROVE  ShowsVideo(e)
<1>1. LinkFrom(e)
  BY PlaybackAssumption DEF LinkFrom, LinksAgree
<1>2. ASSUME NEW kind \in VersionKinds PROVE VersionFrom(e, kind)
  <2>1. Col(episode'[e], kind) = Version(job, kind, js)
    BY DEF Col, VersionKinds
  <2>2. QED
    BY <2>1, VersionAttachable DEF VersionFrom
<1>3. QED
  BY <1>1, <1>2 DEF ShowsVideo

\* A row without versions, with a link or nothing.
LEMMA LinkShows ==
  ASSUME NEW e \in Episodes, episode'[e].hls = Null, episode'[e].remux = Null,
         NoLocalUrls => episode'[e].url \notin Media \cup Jobs
  PROVE  ShowsVideo(e)
BY DEF ShowsVideo, LinkFrom, LinksAgree, VersionFrom, Col

LEMMA ReleasedSame ==
  ASSUME CatalogueInv, NEW e \in Episodes, NEW s, NEW n
  PROVE  SameVideo(Released(episode, s, n)[e], episode[e])
<1>0. episode \in [Episodes -> EpisodeRow]
  BY DEF CatalogueInv, CatalogueTypeOK, TablesOK
<1>1. QED
  BY <1>0 DEF Released, SameVideo, EpisodeRow

LEMMA CreateShows ==
  ASSUME CatalogueInv, NEW r \in Requests, NEW d \in Creates, Create(r, d), NEW e \in Episodes
  PROVE  ShowsVideo(e)
<1>1. CASE UNCHANGED episode
  BY <1>1, SameShows DEF SameVideo
<1>2. CASE ~UNCHANGED episode
  <2> DEFINE n == Fresh(episode)
             m == SourceOf(d.job, d.media)
             row == NewEpisode(d)
             rel == Released(episode, d.season, d.number)
  <2>1. episode' = [rel EXCEPT ![n] = row]
    BY <1>2 DEF Create
  <2>2. d.job \in Field(Jobs) /\ d.media \in Field(Media)
    BY CatalogueAssumption DEF Dto, Field
  <2>3. m \in Field(Media) /\ Considered(d.job, m) \in SUBSET Jobs
    BY <2>2, SourceIsMedia DEF Considered, InputJobs, Field
  <2>4. /\ row.media = m /\ row.url = CreateVersions(d).url
        /\ row.hls = CreateVersions(d).hls /\ row.remux = CreateVersions(d).remux
    BY DEF NewEpisode
  <2>5. episode'[e] = IF e = n THEN row ELSE rel[e]
    BY <2>1 DEF Released
  <2>6. CASE e # n
    BY <2>5, <2>6, ReleasedSame, SameShows
  <2>7. CASE e = n /\ m # Null
    <3>1. m \in Media
      BY <2>3, <2>7 DEF Field
    <3>2. CreateVersions(d) = Versions(job, m, Considered(d.job, m))
      BY <2>7 DEF CreateVersions
    <3> HIDE DEF m, row, n, rel
    <3>3. QED
      BY <2>3, <2>4, <2>5, <2>7, <3>1, <3>2, VersionsShow DEF Versions
  <2>8. CASE e = n /\ m = Null
    <3>1. row.url = d.url /\ row.hls = Null /\ row.remux = Null
      BY <2>4, <2>8 DEF CreateVersions, NoVersions
    <3> HIDE DEF row, n, rel
    <3>2. QED
      BY <2>5, <2>8, <3>1, LinkShows DEF NoLocalUrls
  <2>9. QED
    BY <2>6, <2>7, <2>8
<1>3. QED
  BY <1>1, <1>2

LEMMA UpdateShows ==
  ASSUME CatalogueInv, NEW r \in Requests, Update(r), NEW e \in Episodes, req[r].dto \in Updates
  PROVE  ShowsVideo(e)
<1> DEFINE s == req[r]
           d == s.dto
           m == UpdateSource(s)
           link == SubmittedUrl(s)
           rel == UpdateReleased(s)
           row == UpdatedRow(s)
<1>0. s.pc = "update" /\ s \in Slot /\ s.e \in Episodes
  BY DEF Update, CatalogueInv, CatalogueTypeOK, SlotNamed
<1>1. CASE UNCHANGED episode
  BY <1>1, SameShows DEF SameVideo
<1>2. CASE ~UNCHANGED episode
  <2>1. episode' = [rel EXCEPT ![s.e] = row]
    BY <1>2 DEF Update
  <2>2. SameVideo(rel[e], episode[e]) /\ rel = [k \in Episodes |-> rel[k]]
    BY ReleasedSame DEF UpdateReleased, SameVideo, Released, CatalogueInv, CatalogueTypeOK, TablesOK
  <2>3. /\ d.job \in Field(Jobs) /\ d.media \in Media \cup {Null, None} /\ None # Null
        /\ None \notin Media
    BY CatalogueAssumption DEF Dto
  <2>4. s.row.media \in Field(Media)
    BY <1>0 DEF Slot, EpisodeRow
  <2>5. UpdateMedia(s) \in Field(Media)
    BY <2>3, <2>4 DEF UpdateMedia, Field
  <2>6. m \in Field(Media) /\ Considered(d.job, m) \in SUBSET Jobs
    BY <2>3, <2>5, SourceIsMedia DEF UpdateSource, Considered, InputJobs, Field
  <2>7. /\ row.media = CASE d.job # Null -> InputOf[d.job]
                         [] d.job = Null /\ d.media # Null -> UpdateMedia(s)
                         [] OTHER -> s.row.media
        /\ row.url = UpdateVersions(s).url
        /\ row.hls = UpdateVersions(s).hls /\ row.remux = UpdateVersions(s).remux
    <3>1. rel[s.e] \in EpisodeRow
      BY <1>0, ReleasedKeeps DEF UpdateReleased, Keeps, CatalogueInv, CatalogueTypeOK, TablesOK
    <3>2. QED
      BY <3>1 DEF UpdatedRow, EpisodeRow
  <2>8. episode'[e] = IF e = s.e THEN row ELSE rel[e]
    BY <2>1, <2>2
  <2>9. CASE e # s.e
    BY <2>2, <2>8, <2>9, SameShows
  <2>10. CASE e = s.e /\ m # Null
    <3>1. m \in Media
      BY <2>6, <2>10 DEF Field
    <3> DEFINE js == Considered(d.job, m)
    <3>2. /\ row.url = m
          /\ row.hls \in {Version(job, "HLS", js), s.row.hls}
          /\ row.remux \in {Version(job, "REMUX", js), s.row.remux}
      BY <2>7, <2>10 DEF UpdateVersions, OrCurrent, Versions
    <3>3. row.media = m
      BY <2>3, <2>7, <2>10 DEF UpdateSource, SourceOf, UpdateMedia
    <3>4. js \in SUBSET Jobs /\ episode'[e] = row
      BY <2>6, <2>8, <2>10
    <3> HIDE DEF m, row, rel, js
    <3>5. LinkFrom(e)
      BY <3>1, <3>2, <3>3, <3>4, PlaybackAssumption DEF LinkFrom, LinksAgree
    <3>6. ASSUME NEW kind \in VersionKinds PROVE VersionFrom(e, kind)
      <4>1. \/ Col(episode'[e], kind) = Version(job, kind, js)
            \/ Col(episode'[e], kind) = Col(s.row, kind)
        BY <3>2, <3>4 DEF Col, VersionKinds
      <4>2. QED
        BY <1>0, <3>4, <4>1, VersionAttachable DEF VersionFrom
    <3>7. QED
      BY <3>5, <3>6 DEF ShowsVideo
  <2>11. CASE e = s.e /\ m = Null /\ link # Null
    <3>1. row.url = link /\ row.hls = Null /\ row.remux = Null
      BY <2>7, <2>11 DEF UpdateVersions, NoVersions
    <3>2. link = d.url /\ d \in Updates
      BY <2>11 DEF SubmittedUrl
    <3> HIDE DEF row, rel, s, link
    <3>3. QED
      BY <2>8, <2>11, <3>1, <3>2, LinkShows DEF NoLocalUrls
  <2>12. CASE e = s.e /\ m = Null /\ link = Null /\ ReferenceChanged(s)
    <3>1. row.url = Null /\ row.hls = Null /\ row.remux = Null
      BY <2>7, <2>12 DEF UpdateVersions, OrCurrent, NoVersions
    <3> HIDE DEF row, rel, s
    <3>2. QED
      BY <2>8, <2>12, <3>1, LinkShows, PlaybackAssumption
  <2>13. CASE e = s.e /\ m = Null /\ link = Null /\ ~ReferenceChanged(s)
    <3>1. row.url = s.row.url /\ row.hls = s.row.hls /\ row.remux = s.row.remux
      BY <2>7, <2>13 DEF UpdateVersions, OrCurrent, NoVersions
    <3>2. row.media = s.row.media
      BY <2>3, <2>7, <2>13 DEF ReferenceChanged, ProcessingChanged, MediaChanged, UpdateSource, SourceOf,
                               UpdateMedia
    <3> HIDE DEF row, rel
    <3>3. QED
      BY <1>0, <2>8, <2>13, <3>1, <3>2 DEF ShowsVideo, LinkFrom, VersionFrom, Col
  <2>14. QED
    BY <2>9, <2>10, <2>11, <2>12, <2>13
<1>3. QED
  BY <1>1, <1>2

\* The rows of a batch have a link and no version.
LEMMA InsertedShow ==
  ASSUME CatalogueInv, NEW s, NEW b \in Seq(BatchItem), NEW ep, NEW f,
         episode' = Inserted(ep, s, b, f), NEW e \in Episodes, SameVideo(ep[e], episode[e])
  PROVE  ShowsVideo(e)
<1> DEFINE free == {k \in Episodes : episode[k].state = "none"}
           turn == Cardinality({k \in free : k <= e})
           item == b[turn]
<1>1. episode'[e] = IF e \in free /\ turn <= Len(b) THEN BatchEpisode(item, s, f[turn]) ELSE ep[e]
  BY DEF Inserted
<1>2. CASE e \in free /\ turn <= Len(b)
  <2>1. {k \in free : k <= e} \in SUBSET Episodes /\ e \in {k \in free : k <= e}
    BY <1>2, CatalogueAssumption
  <2>2. turn \in Nat /\ turn # 0
    BY <2>1, FS_Subset, FS_CardinalityType, FS_EmptySet, CatalogueAssumption
  <2> HIDE DEF turn
  <2>3. Len(b) \in Nat /\ turn \in 1..Len(b)
    <3>1. Len(b) \in Nat
      OBVIOUS
    <3>2. QED
      BY <1>2, <2>2, <3>1
  <2>4. item.url \in Links
    <3>1. item \in BatchItem
      BY <2>3
    <3>2. QED
      BY <3>1 DEF BatchItem
  <2> HIDE DEF item
  <2>5. episode'[e].hls = Null /\ episode'[e].remux = Null /\ episode'[e].url = item.url
    BY <1>1, <1>2 DEF BatchEpisode, NoEpisode
  <2>6. episode'[e].url \notin Media \cup Jobs
    BY <2>4, <2>5, PlaybackAssumption
  <2>7. QED
    BY <2>5, <2>6, LinkShows
<1>3. CASE ~(e \in free /\ turn <= Len(b))
  <2>1. episode'[e] = ep[e]
    BY <1>1, <1>3
  <2>2. QED
    BY <2>1, SameShows
<1>4. QED
  BY <1>2, <1>3

LEMMA BatchShows ==
  ASSUME CatalogueInv, NEW r \in Requests,
         ImportCommit(r) \/ \E s \in Seasons, b \in Batches : Bulk(r, s, b),
         NEW e \in Episodes
  PROVE  ShowsVideo(e)
<1>0. episode \in [Episodes -> EpisodeRow]
  BY DEF CatalogueInv, CatalogueTypeOK, TablesOK
<1>1. CASE UNCHANGED episode
  BY <1>1, SameShows DEF SameVideo
<1>2. ASSUME NEW s \in Seasons, NEW b \in Batches, Bulk(r, s, b), ~UNCHANGED episode PROVE ShowsVideo(e)
  <2>1. PICK f : episode' = Inserted(BatchReleased(s, f), s, b, f)
    BY <1>2 DEF Bulk
  <2>2. SameVideo(BatchReleased(s, f)[e], episode[e])
    <3> DEFINE row(n) == [episode[e] EXCEPT !.number = n]
    <3>1. \A n : SameVideo(row(n), episode[e])
      BY <1>0 DEF SameVideo, EpisodeRow
    <3>2. \E n : BatchReleased(s, f)[e] \in {row(n), episode[e]}
      BY DEF BatchReleased
    <3>3. QED
      BY <3>1, <3>2 DEF SameVideo
  <2>3. b \in Seq(BatchItem)
    BY CatalogueAssumption
  <2>4. QED
    BY <2>1, <2>2, <2>3, InsertedShow
<1>3. CASE ImportCommit(r) /\ ~UNCHANGED episode
  <2>1. PICK s, f : episode' = Inserted(episode, s, req[r].batch, f)
    BY <1>3 DEF ImportCommit
  <2>2. req[r].batch \in Seq(BatchItem)
    BY DEF CatalogueInv, CatalogueTypeOK, Slot
  <2>3. QED
    BY <2>1, <2>2, InsertedShow DEF SameVideo
<1>4. QED
  BY <1>1, <1>2, <1>3

\* Publication, copies, removals and the pipeline.
LEMMA SharedShows ==
  ASSUME CatalogueInv, NEW r \in Requests,
         PublishCommit(r) \/ CopyCommit(r) \/ RemoveEpisodeCommit(r), NEW e \in Episodes
  PROVE  ShowsVideo(e)
<1>0. episode \in [Episodes -> EpisodeRow]
  BY DEF CatalogueInv, CatalogueTypeOK, TablesOK
<1>1. CASE UNCHANGED episode
  BY <1>1, SameShows DEF SameVideo
<1>2. CASE PublishCommit(r) /\ ~UNCHANGED episode
  <2>1. \A p : SameVideo([episode[e] EXCEPT !.published = p], episode[e])
    BY <1>0 DEF SameVideo, EpisodeRow
  <2>2. \E p : episode'[e] \in {[episode[e] EXCEPT !.published = p], episode[e]}
    BY <1>2 DEF PublishCommit
  <2>3. QED
    BY <2>1, <2>2, SameShows DEF SameVideo
<1>3. CASE CopyCommit(r)
  <2> DEFINE row == req[r].row
             new == [episode[e] EXCEPT !.media = row.media, !.mode = row.mode, !.url = row.url,
                                       !.hls = row.hls, !.remux = row.remux]
  <2>1. req[r].pc = "copy" /\ episode'[e] \in {new, episode[e]}
    BY <1>3 DEF CopyCommit
  <2>2. /\ new.media = row.media /\ new.url = row.url
        /\ new.hls = row.hls /\ new.remux = row.remux
    BY <1>0 DEF EpisodeRow
  <2> HIDE DEF new
  <2>3. CASE episode'[e] = new
    BY <2>1, <2>2, <2>3 DEF ShowsVideo, LinkFrom, VersionFrom, Col
  <2>4. QED
    BY <2>1, <2>3, SameShows DEF SameVideo
<1>4. CASE RemoveEpisodeCommit(r) /\ ~UNCHANGED episode
  <2> DEFINE gone(n) == [[[episode[e] EXCEPT !.state = "archived"] EXCEPT !.number = n] EXCEPT !.published = FALSE]
  <2>1. \E n : episode'[e] \in {gone(n), episode[e]}
    <3> DEFINE x == req[r].e
               n == ArchivedNumber(episode, req[r].sn)
    <3>1. episode' = [episode EXCEPT ![x].state = "archived", ![x].number = n, ![x].published = FALSE]
      BY <1>4 DEF RemoveEpisodeCommit
    <3> HIDE DEF x, n
    <3>2. episode'[e] = IF e = x THEN gone(n) ELSE episode[e]
      BY <1>0, <3>1
    <3>3. QED
      BY <3>2
  <2>2. ASSUME NEW n
        PROVE  /\ gone(n).media = episode[e].media /\ gone(n).url = episode[e].url
               /\ gone(n).hls = episode[e].hls /\ gone(n).remux = episode[e].remux
               /\ gone(n).state = "archived"
    BY <1>0 DEF EpisodeRow
  <2> HIDE DEF gone
  <2>3. QED
    BY <2>1, <2>2, SameShows DEF ShowsVideo, LinkFrom, VersionFrom, Col, SameVideo
<1>5. QED
  BY <1>1, <1>2, <1>3, <1>4

\* An output that is attached.
LEMMA AssociatedShows ==
  ASSUME CatalogueInv, NEW e \in Episodes, NEW j \in Jobs, episode'[e] = Associated(episode[e], j), Attachable(j)
  PROVE  ShowsVideo(e) /\ episode'[e].mode = episode[e].mode
<1>0. episode[e] \in EpisodeRow
  BY DEF CatalogueInv, CatalogueTypeOK, TablesOK
<1>1. /\ episode'[e].media = InputOf[j] /\ episode'[e].url = InputOf[j]
      /\ episode'[e].hls = IF KindOf[j] = "HLS" THEN j ELSE episode[e].hls
      /\ episode'[e].remux = IF KindOf[j] = "REMUX" THEN j ELSE episode[e].remux
      /\ episode'[e].mode = episode[e].mode /\ episode'[e].state = episode[e].state
  BY <1>0 DEF Associated, EpisodeRow
<1>2. LinkFrom(e)
  BY <1>1, PlaybackAssumption DEF LinkFrom, LinksAgree
<1>3. \A kind \in VersionKinds : VersionFrom(e, kind)
  BY <1>1 DEF VersionFrom, Col, VersionKinds
<1>4. QED
  BY <1>1, <1>2, <1>3 DEF ShowsVideo

LEMMA PipelineShows ==
  ASSUME CatalogueInv, Pipeline, NEW e \in Episodes
  PROVE  ShowsVideo(e) /\ episode'[e].mode = episode[e].mode
<1>1. CASE UNCHANGED episode
  BY <1>1, SameShows DEF SameVideo
<1>2. CASE ~UNCHANGED episode
  <2>1. PICK j \in Jobs : WorkerAssociates(j)
    BY <1>2 DEF Pipeline, Enqueue, JobCompletes, JobFails
  <2>2. dest[j] # Null /\ episode' = [episode EXCEPT ![dest[j]] = Associated(@, j)]
    BY <1>2, <2>1 DEF WorkerAssociates
  <2>3. CASE episode'[e] = Associated(episode[e], j)
    BY <2>2, <2>3, AssociatedShows DEF Attachable
  <2>4. CASE episode'[e] = episode[e]
    BY <2>4, SameShows DEF SameVideo
  <2>5. QED
    BY <2>2, <2>3, <2>4 DEF CatalogueInv, CatalogueTypeOK, TablesOK
<1>3. QED
  BY <1>1, <1>2

\* Bodies of editions are those that administrators send.
BodiesOK == \A r \in Requests : req[r].pc = "update" => req[r].dto \in Updates

LEMMA RequestShows ==
  ASSUME CatalogueInv, BodiesOK, NEW r \in Requests, EpisodeRequest(r) \/ SeasonRequest(r) \/ Abort(r),
         NEW e \in Episodes
  PROVE  ShowsVideo(e)
<1>1. CASE UNCHANGED episode
  BY <1>1, SameShows DEF SameVideo
<1>2. CASE ~UNCHANGED episode
  <2>1. \/ \E d \in Creates : Create(r, d)
        \/ Update(r)
        \/ ImportCommit(r) \/ \E s \in Seasons, b \in Batches : Bulk(r, s, b)
        \/ PublishCommit(r) \/ CopyCommit(r) \/ RemoveEpisodeCommit(r)
    BY <1>2 DEF EpisodeRequest, SeasonRequest, Abort, UpdateBegin, Import, Publish, Copy, RemoveEpisode,
                CreateSeason, Renumber, RenumberCommit, RemoveSeason, RemoveSeasonCommit, RemoveSeries
  <2>2. Update(r) => req[r].dto \in Updates
    BY DEF Update, BodiesOK
  <2>3. QED
    BY <2>1, <2>2, CreateShows, UpdateShows, BatchShows, SharedShows
<1>3. QED
  BY <1>1, <1>2

LEMMA LibraryShows ==
  ASSUME MediaInv, NEW a \in Admins, LibraryRequest(a), NEW e \in Episodes
  PROVE  ShowsVideo(e)
<1>1. EpisodesServed(a)
  BY LibraryServes DEF MediaInv, Serves
<1>2. CASE RowKept(episode'[e], episode[e])
  BY <1>1, <1>2 DEF RowKept, EpisodesServed, SamePlace, ShowsVideo, LinkFrom, VersionFrom, Col
<1>3. CASE At(a, "associate")
  <2>1. AssociateMedia(a)
    BY <1>3 DEF LibraryRequest, PublishMedia, UnpublishMedia, AssociateMedia, RetireMedia, CheckMedia,
                ShowMedia, DeleteHls, DeleteRemux, DeleteOriginal, MarkHls, DeleteHlsFiles, DropHlsRows,
                MarkRemux, DeleteRemuxFile, DropRemuxRows, ForgetOriginal, DeleteOriginalFile, DeleteAsset,
                DeleteAssetOutputs, DeleteAssetOriginal, DropAssetRows, At
  <2>2. CASE UNCHANGED episode
    BY <2>2, SameShows DEF SameVideo
  <2>3. CASE ~UNCHANGED episode
    <3> DEFINE j == adm[a].j
               t == job[j].target
    <3>1. /\ Completed(j) /\ job[j].output /\ t \in Live
          /\ episode' = [episode EXCEPT ![t] = Associated(@, j)]
      BY <2>1, <2>3 DEF AssociateMedia
    <3>2. j \in Jobs
      BY <1>3 DEF MediaInv, AdminOK, AdminNamed, At, PublishSteps
    <3>3. episode'[e] \in {Associated(episode[e], j), episode[e]}
      BY <3>1 DEF MediaInv, CatalogueInv, CatalogueTypeOK, TablesOK
    <3>4. CASE episode'[e] = Associated(episode[e], j)
      BY <3>1, <3>2, <3>4, AssociatedShows DEF Attachable, Completed, MediaInv
    <3>5. CASE episode'[e] = episode[e]
      BY <3>5, SameShows DEF SameVideo
    <3>6. QED
      BY <3>3, <3>4, <3>5
  <2>4. QED
    BY <2>2, <2>3
<1>4. QED
  BY <1>1, <1>2, <1>3 DEF EpisodesServed

-----------------------------------------------------------------------------
(* Versions are of their kind, and links are not those of stored files *)

Sound(row) ==
  /\ \A kind \in VersionKinds : Col(row, kind) # Null => KindOf[Col(row, kind)] = kind
  /\ NoLocalUrls => LinksAgree(row)

Reads(x) == x.pc \in {"update", "copy"}

VideosOK ==
  /\ BodiesOK
  /\ \A e \in Episodes : Sound(episode[e])
  /\ \A r \in Requests : Reads(req[r]) => Sound(req[r].row)

\* A request that will write video columns has read those of a live episode.
LEMMA SlotRead ==
  ASSUME CatalogueInv, NEW r \in Requests, EpisodeRequest(r) \/ SeasonRequest(r) \/ Abort(r),
         NEW q \in Requests, Reads(req'[q])
  PROVE  \/ req'[q] = req[q]
         \/ (\E e \in Live : req'[q].row = episode[e]) /\ (req'[q].pc = "update" => req'[q].dto \in Updates)
<1>0. req \in [Requests -> Slot]
  BY DEF CatalogueInv, CatalogueTypeOK
<1>1. ASSUME NEW x, req' = [req EXCEPT ![r] = x], req'[q] # req[q] PROVE req'[q] = x
  BY <1>0, <1>1
<1>i. \A f, g, h : /\ ~Reads(Idle)
                   /\ ~Reads([Idle EXCEPT !.pc = "remove", !.e = f, !.sn = g])
                   /\ ~Reads([Idle EXCEPT !.pc = "publish", !.es = f, !.dto.published = g])
                   /\ ~Reads([Idle EXCEPT !.pc = "import", !.sn = f, !.batch = g])
                   /\ ~Reads([Idle EXCEPT !.pc = "renumber", !.sn = f, !.dto.number = g, !.dto.published = h])
                   /\ ~Reads([Idle EXCEPT !.pc = "removeSeason", !.sn = f])
  BY DEF Reads, Idle
<1>2. ASSUME NEW answer, Answer(r, answer) PROVE req'[q] = req[q]
  BY <1>1, <1>2, <1>i DEF Answer
<1>3. ASSUME NEW x, Await(r, x), ~Reads(x) PROVE req'[q] = req[q]
  BY <1>1, <1>3 DEF Await
<1>4. ASSUME NEW e \in Episodes, NEW d \in Updates, UpdateBegin(r, e, d), req'[q] # req[q]
      PROVE  (\E k \in Live : req'[q].row = episode[k]) /\ req'[q].dto \in Updates
  <2> DEFINE x == [Idle EXCEPT !.pc = "update", !.e = e, !.row = episode[e], !.dto = d]
  <2>1. e \in Live /\ Await(r, x)
    <3>1. CASE \E answer : Answer(r, answer)
      BY <1>2, <1>4, <3>1
    <3>2. CASE ~\E answer : Answer(r, answer)
      BY <1>4, <3>2 DEF UpdateBegin
    <3>3. QED
      BY <3>1, <3>2
  <2>2. req'[q] = x
    BY <1>1, <1>4, <2>1 DEF Await
  <2>3. x.row = episode[e] /\ x.dto = d
    BY DEF Idle
  <2>4. QED
    BY <2>1, <2>2, <2>3
<1>5. ASSUME NEW e \in Episodes, NEW es, Copy(r, e, es), req'[q] # req[q]
      PROVE  (\E k \in Live : req'[q].row = episode[k]) /\ req'[q].pc = "copy"
  <2> DEFINE x == [Idle EXCEPT !.pc = "copy", !.row = episode[e], !.es = es]
  <2>1. e \in Live /\ Await(r, x)
    <3>1. CASE \E answer : Answer(r, answer)
      BY <1>2, <1>5, <3>1
    <3>2. CASE ~\E answer : Answer(r, answer)
      BY <1>5, <3>2 DEF Copy
    <3>3. QED
      BY <3>1, <3>2
  <2>2. req'[q] = x
    BY <1>1, <1>5, <2>1 DEF Await
  <2>3. x.row = episode[e] /\ x.pc = "copy"
    BY DEF Idle
  <2>4. QED
    BY <2>1, <2>2, <2>3
<1>6. CASE Abort(r)
  BY <1>2, <1>6 DEF Abort
<1>7. CASE SeasonRequest(r)
  BY <1>2, <1>3, <1>7, <1>i DEF SeasonRequest, CreateSeason, Renumber, RenumberCommit, RemoveSeason,
                               RemoveSeasonCommit, RemoveSeries
<1>8. CASE EpisodeRequest(r)
  <2>1. CASE \E d \in Creates : Create(r, d)
    BY <1>2, <2>1 DEF Create
  <2>2. CASE Update(r) \/ ImportCommit(r) \/ PublishCommit(r) \/ CopyCommit(r) \/ RemoveEpisodeCommit(r)
    BY <1>2, <2>2 DEF Update, ImportCommit, PublishCommit, CopyCommit, RemoveEpisodeCommit
  <2>3. CASE \E s \in Seasons, b \in Batches : Bulk(r, s, b) \/ Import(r, s, b)
    BY <1>2, <1>3, <2>3, <1>i DEF Bulk, Import
  <2>4. CASE \E es \in (SUBSET Episodes) \ {{}}, to \in BOOLEAN : Publish(r, es, to)
    BY <1>2, <1>3, <2>4, <1>i DEF Publish
  <2>5. ASSUME NEW e \in Episodes, RemoveEpisode(r, e) PROVE req'[q] = req[q]
    <3> DEFINE x == [Idle EXCEPT !.pc = "remove", !.e = e, !.sn = episode[e].season]
    <3>1. Await(r, x) \/ Answer(r, "missing")
      BY <2>5 DEF RemoveEpisode
    <3>2. ~Reads(x)
      BY <1>i
    <3> HIDE DEF x
    <3>3. QED
      BY <1>2, <1>3, <3>1, <3>2
  <2>6. QED
    BY <1>4, <1>5, <1>8, <2>1, <2>2, <2>3, <2>4, <2>5 DEF EpisodeRequest
<1>9. QED
  BY <1>6, <1>7, <1>8

\* What every step says of the columns.
LEMMA AllShow ==
  ASSUME MediaInv, BodiesOK, MediaNext, NEW e \in Episodes PROVE ShowsVideo(e)
BY RequestShows, PipelineShows, LibraryShows DEF MediaNext, Elsewhere, MediaInv

LEMMA ShownSound == ASSUME VideosOK, NEW e \in Episodes, ShowsVideo(e) PROVE Sound(episode'[e])
<1>1. ASSUME NEW kind \in VersionKinds, Col(episode'[e], kind) # Null
      PROVE  KindOf[Col(episode'[e], kind)] = kind
  <2>1. VersionFrom(e, kind)
    BY DEF ShowsVideo
  <2>2. QED
    BY <1>1, <2>1 DEF VersionFrom, VideosOK, Sound, Reads
<1>2. ASSUME NoLocalUrls PROVE LinksAgree(episode'[e])
  <2>1. LinkFrom(e) /\ \A k \in Episodes : LinksAgree(episode[k])
    BY <1>2 DEF ShowsVideo, VideosOK, Sound
  <2>2. \A r \in Requests : Reads(req[r]) => LinksAgree(req[r].row)
    BY <1>2 DEF VideosOK, Sound
  <2>3. QED
    BY <1>2, <2>1, <2>2, PlaybackAssumption DEF LinkFrom, LinksAgree, Reads
<1>3. QED
  BY <1>1, <1>2 DEF Sound

LEMMA VideosNext == MediaInv /\ VideosOK /\ [MediaNext]_mediaVars => VideosOK'
<1> SUFFICES ASSUME MediaInv, VideosOK, [MediaNext]_mediaVars PROVE VideosOK'
  OBVIOUS
<1>1. CASE MediaNext
  <2>1. \A e \in Episodes : Sound(episode'[e])
    BY <1>1, AllShow, ShownSound DEF VideosOK
  <2>2. CASE req' = req
    BY <2>1, <2>2 DEF VideosOK, BodiesOK, Sound, Reads
  <2>3. ASSUME NEW r \in Requests, EpisodeRequest(r) \/ SeasonRequest(r) \/ Abort(r) PROVE VideosOK'
    <3>1. ASSUME NEW q \in Requests, Reads(req'[q])
          PROVE  Sound(req'[q].row) /\ (req'[q].pc = "update" => req'[q].dto \in Updates)
      BY <2>3, <3>1, SlotRead DEF MediaInv, VideosOK, BodiesOK, Live
    <3>2. QED
      BY <2>1, <3>1 DEF VideosOK, BodiesOK, Reads, Sound
  <2>4. CASE Pipeline
    BY <2>2, <2>4, PipelineStep DEF MediaInv
  <2>5. ASSUME NEW a \in Admins, LibraryRequest(a) PROVE VideosOK'
    BY <2>2, <2>5, LibraryServes DEF MediaInv, Serves
  <2>6. QED
    BY <1>1, <2>3, <2>4, <2>5 DEF MediaNext, Elsewhere
<1>2. CASE UNCHANGED mediaVars
  BY <1>2 DEF mediaVars, catalogueVars, VideosOK, BodiesOK, Sound, Reads
<1>3. QED
  BY <1>1, <1>2

LEMMA VideosInit == MediaInit => VideosOK
<1> SUFFICES ASSUME MediaInit PROVE VideosOK
  OBVIOUS
<1>1. ASSUME NEW e \in Episodes
      PROVE  episode[e].hls = Null /\ episode[e].remux = Null /\ episode[e].url = Null
  BY <1>1 DEF MediaInit, Init, NoEpisode
<1>2. \A r \in Requests : req[r].pc = "idle"
  BY DEF MediaInit, Init, Idle
<1>3. QED
  BY <1>1, <1>2, PlaybackAssumption DEF VideosOK, BodiesOK, Sound, Reads, Col, LinksAgree

-----------------------------------------------------------------------------
(* What was deleted is forgotten *)

DeletedRows ==
  \A j \in Jobs : stage[j] = "DELETED" =>
    job[j].status = "CANCELLED" /\ ~job[j].output /\ dest[j] = Null

Forgets(row) == \A j \in Jobs : stage[j] = "DELETED" => j \notin {row.hls, row.remux}

SlotsForget == \A r \in Requests : Reads(req[r]) => Forgets(req[r].row)

\* While its HLS set is deleted a job leaves the columns: those that select it
\* do not name it, and after the mark no other does.
HlsFree ==
  \A a \in Admins : LET j == adm[a].j IN
    /\ adm[a].pc = "hls.mark" => \A e \in Live : episode[e].mode = "HLS" => episode[e].hls # j
    /\ adm[a].pc \in {"hls.files", "hls.rows"} => \A e \in Live : episode[e].hls # j

ForgetInv == RetryInv /\ VideosOK /\ DeletedRows /\ SlotsForget /\ DeletedIsForgotten /\ HlsFree

\* A live episode does not come to name an output that was deleted before.
LEMMA StillForgotten ==
  ASSUME ForgetInv, MediaNext, NEW e \in Episodes, episode'[e].state = "live",
         NEW j \in Jobs, stage[j] = "DELETED"
  PROVE  j \notin {episode'[e].hls, episode'[e].remux}
<1>1. ShowsVideo(e) /\ ~Attachable(j)
  BY AllShow, PlaybackAssumption DEF ForgetInv, RetryInv, VideosOK, DeletedRows, Attachable
<1>2. ASSUME NEW kind \in VersionKinds, Col(episode'[e], kind) = j PROVE FALSE
  <2>1. VersionFrom(e, kind) /\ j # Null
    BY <1>1, PlaybackAssumption DEF ShowsVideo
  <2>2. \/ e \in Live /\ Col(episode[e], kind) = j
        \/ \E r \in Requests : Reads(req[r]) /\ Col(req[r].row, kind) = j
    BY <1>1, <1>2, <2>1 DEF VersionFrom, Live, Reads
  <2>3. QED
    BY <2>2 DEF ForgetInv, DeletedIsForgotten, SlotsForget, Forgets, Col
<1>3. QED
  BY <1>2 DEF VersionKinds, Col

\* The stage of a deletion that ends is that of the job whose version it deletes.
LEMMA DeletedStage ==
  ASSUME MediaInv, NEW a \in Admins, LibraryRequest(a), NEW j \in Jobs,
         stage'[j] = "DELETED", stage[j] # "DELETED"
  PROVE  (DropHlsRows(a) \/ DropRemuxRows(a)) /\ j = adm[a].j /\ job' = Dropped(j)
<1>0. stage \in [Jobs -> Stages]
  BY DEF MediaInv, AdminOK
<1>1. CASE DropHlsRows(a) \/ DropRemuxRows(a)
  <2>1. PICK ok \in BOOLEAN :
          /\ job' = IF ok THEN Dropped(adm[a].j) ELSE job
          /\ stage' = [stage EXCEPT ![adm[a].j] = IF ok THEN "DELETED" ELSE "RECONCILE_REQUIRED"]
    BY <1>1 DEF DropHlsRows, DropRemuxRows, Outcomes
  <2>2. j = adm[a].j /\ ok
    BY <1>0, <2>1
  <2>3. QED
    BY <1>1, <2>1, <2>2
<1>2. CASE DeleteHlsFiles(a) \/ DeleteRemuxFile(a)
  <2>1. PICK ok \in BOOLEAN : stage' = [stage EXCEPT ![adm[a].j] = IF ok THEN @ ELSE "DELETE_FAILED"]
    BY <1>2 DEF DeleteHlsFiles, DeleteRemuxFile, Outcomes
  <2>2. QED
    BY <1>0, <2>1
<1>3. CASE MarkHls(a) \/ MarkRemux(a) \/ AssociateMedia(a)
  <2>1. stage' = stage \/ \E st \in {"DELETING", "none"} : \E k : stage' = [stage EXCEPT ![k] = st]
    BY <1>3 DEF MarkHls, MarkRemux, AssociateMedia
  <2>2. QED
    BY <1>0, <2>1
<1>4. CASE DropAssetRows(a)
  BY <1>0, <1>4 DEF DropAssetRows
<1>5. CASE stage' = stage
  BY <1>5
<1>6. QED
  BY <1>1, <1>2, <1>3, <1>4, <1>5 DEF LibraryRequest, PublishMedia, UnpublishMedia, RetireMedia, CheckMedia,
     ShowMedia, DeleteHls, DeleteRemux, DeleteOriginal, ForgetOriginal, DeleteOriginalFile,
     DeleteAsset, DeleteAssetOutputs, DeleteAssetOriginal

LEMMA LibraryForgets ==
  ASSUME ForgetInv, NEW a \in Admins, LibraryRequest(a), OneAtATime
  PROVE  DeletedRows' /\ DeletedIsForgotten' /\ SlotsForget'
<1>0. /\ MediaInv /\ Alone /\ DeletesOutput /\ VideosOK /\ DeletedRows /\ DeletedIsForgotten /\ HlsFree
      /\ episode \in [Episodes -> EpisodeRow] /\ job \in [Jobs -> JobRow(Episodes)]
  BY DEF ForgetInv, RetryInv, MediaInv, CatalogueInv, CatalogueTypeOK, TablesOK
<1>1. JobsServed /\ EpisodesServed(a) /\ req' = req /\ dest' = dest
  BY <1>0, LibraryServes DEF MediaInv, Serves
<1>2. ASSUME NEW j \in Jobs, stage'[j] = "DELETED"
      PROVE  job'[j].status = "CANCELLED" /\ ~job'[j].output /\ dest'[j] = Null
  <2>1. CASE stage[j] = "DELETED"
    BY <1>0, <1>1, <2>1 DEF DeletedRows, JobsServed, JobMoves
  <2>2. CASE stage[j] # "DELETED"
    <3>1. (DropHlsRows(a) \/ DropRemuxRows(a)) /\ j = adm[a].j /\ job' = Dropped(j)
      BY <1>0, <1>2, <2>2, DeletedStage
    <3>2. dest[j] = Null
      BY <1>0, <3>1 DEF DeletesOutput, DropHlsRows, DropRemuxRows, At, HlsSteps, RemuxSteps
    <3>3. QED
      BY <1>0, <1>1, <3>1, <3>2, DroppedRow
  <2>3. QED
    BY <2>1, <2>2
<1>3. ASSUME NEW j \in Jobs, stage'[j] = "DELETED", NEW e \in Episodes, episode'[e].state = "live"
      PROVE  j \notin {episode'[e].hls, episode'[e].remux}
  <2>1. CASE stage[j] = "DELETED"
    BY <1>3, <2>1, StillForgotten DEF MediaNext
  <2>2. CASE stage[j] # "DELETED"
    <3>1. (DropHlsRows(a) \/ DropRemuxRows(a)) /\ j = adm[a].j /\ job' = Dropped(j)
      BY <1>0, <1>3, <2>2, DeletedStage
    <3>2. e \in Live /\ j # Null
      BY <1>1, <1>3, PlaybackAssumption DEF EpisodesServed, SamePlace, Live
    <3>3. Sound(episode[e])
      BY <1>0 DEF VideosOK
    <3>4. CASE DropHlsRows(a)
      <4>1. episode[e].hls # j /\ KindOf[j] = "HLS" /\ episode' = episode
        BY <1>0, <3>1, <3>2, <3>4 DEF HlsFree, DeletesOutput, DropHlsRows, At, HlsSteps
      <4>2. episode[e].remux # j
        BY <3>2, <3>3, <4>1 DEF Sound, VersionKinds, Col
      <4>3. QED
        BY <4>1, <4>2
    <3>5. CASE DropRemuxRows(a)
      <4>1. KindOf[j] = "REMUX"
        BY <1>0, <3>1, <3>5 DEF DeletesOutput, DropRemuxRows, At, RemuxSteps
      <4>2. episode[e].hls # j
        BY <3>2, <3>3, <4>1 DEF Sound, VersionKinds, Col
      <4>3. PICK ok \in BOOLEAN :
              /\ episode' = [k \in Episodes |-> IF ok /\ k \in Live /\ episode[k].remux = j
                                                  THEN [episode[k] EXCEPT !.remux = Null] ELSE episode[k]]
              /\ stage' = [stage EXCEPT ![j] = IF ok THEN "DELETED" ELSE "RECONCILE_REQUIRED"]
        BY <3>1, <3>5 DEF DropRemuxRows, Outcomes
      <4>4. ok
        BY <1>0, <1>3, <4>3 DEF MediaInv, AdminOK
      <4>5. [episode[e] EXCEPT !.remux = Null].remux = Null
            /\ [episode[e] EXCEPT !.remux = Null].hls = episode[e].hls
        BY <1>0 DEF EpisodeRow
      <4>6. QED
        BY <3>2, <4>2, <4>3, <4>4, <4>5
    <3>6. QED
      BY <3>1, <3>4, <3>5
  <2>3. QED
    BY <2>1, <2>2
<1>4. \A r \in Requests : req'[r].pc = "idle"
  BY <1>0, <1>1, OthersRest
<1>5. QED
  BY <1>2, <1>3, <1>4 DEF DeletedRows, DeletedIsForgotten, Live, SlotsForget, Reads

LEMMA ElsewhereForgets ==
  ASSUME ForgetInv, Elsewhere
  PROVE  DeletedRows' /\ DeletedIsForgotten' /\ SlotsForget'
<1>0. /\ MediaInv /\ VideosOK /\ DeletedRows /\ DeletedIsForgotten /\ SlotsForget
      /\ job \in [Jobs -> JobRow(Episodes)]
  BY DEF ForgetInv, RetryInv, MediaInv, CatalogueInv, CatalogueTypeOK, TablesOK
<1>1. ASSUME NEW j \in Jobs, stage'[j] = "DELETED"
      PROVE  stage[j] = "DELETED" /\ job'[j].status = job[j].status
  BY <1>1 DEF Elsewhere, Restaged
<1>2. ASSUME NEW j \in Jobs, stage'[j] = "DELETED"
      PROVE  job'[j].status = "CANCELLED" /\ ~job'[j].output /\ dest'[j] = Null
  <2>1. /\ stage[j] = "DELETED" /\ job'[j].status = job[j].status
        /\ job[j].status = "CANCELLED" /\ ~job[j].output /\ dest[j] = Null
    BY <1>0, <1>1, <1>2 DEF DeletedRows
  <2>2. CASE Pipeline
    <3>1. Pipes(j)
      BY <1>0, <2>2, PipelinePipes DEF MediaInv
    <3>2. QED
      BY <2>1, <3>1 DEF Pipes
  <2>3. ASSUME NEW r \in Requests, EpisodeRequest(r) \/ SeasonRequest(r) \/ Abort(r)
        PROVE  ~job'[j].output /\ dest'[j] = Null
    <3>1. Owned(job', j)
      BY <1>0, <2>3, RequestOwned DEF MediaInv, AnyRequest
    <3>2. dest' = dest
      BY <2>3, DestKept DEF AnyRequest
    <3>3. QED
      BY <2>1, <3>1, <3>2 DEF Owned
  <2>4. QED
    BY <2>1, <2>2, <2>3 DEF Elsewhere
<1>3. ASSUME NEW j \in Jobs, stage'[j] = "DELETED", NEW e \in Episodes, episode'[e].state = "live"
      PROVE  j \notin {episode'[e].hls, episode'[e].remux}
  BY <1>1, <1>3, StillForgotten DEF MediaNext
<1>4. ASSUME NEW q \in Requests, Reads(req'[q]), NEW j \in Jobs, stage'[j] = "DELETED"
      PROVE  j \notin {req'[q].row.hls, req'[q].row.remux}
  <2>1. stage[j] = "DELETED"
    BY <1>1, <1>4
  <2>2. CASE req'[q] = req[q]
    BY <1>0, <1>4, <2>1, <2>2 DEF SlotsForget, Forgets
  <2>3. CASE \E e \in Live : req'[q].row = episode[e]
    BY <1>0, <2>1, <2>3 DEF DeletedIsForgotten
  <2>4. CASE Pipeline
    BY <1>0, <2>2, <2>4, PipelineStep DEF MediaInv
  <2>5. QED
    BY <1>0, <1>4, <2>2, <2>3, <2>4, SlotRead DEF Elsewhere, MediaInv
<1>5. QED
  BY <1>2, <1>3, <1>4 DEF DeletedRows, DeletedIsForgotten, Live, SlotsForget, Forgets, Reads

\* What a worker that ends does to the episodes: it attaches an output that it
\* has announced to one of them.
LEMMA EndsAttach ==
  ASSUME CatalogueInv, Ends, NEW e \in Episodes
  PROVE  /\ episode'[e].state = episode[e].state /\ episode'[e].mode = episode[e].mode
         /\ \/ episode'[e] = episode[e]
            \/ \E j \in Jobs : /\ WorkerAssociates(j) /\ dest[j] = e /\ e # Null
                               /\ episode'[e].media = InputOf[j]
                               /\ episode'[e].hls \in {j, episode[e].hls}
<1>0. episode[e] \in EpisodeRow
  BY DEF CatalogueInv, CatalogueTypeOK, TablesOK
<1>1. CASE episode'[e] = episode[e]
  BY <1>1
<1>2. CASE episode'[e] # episode[e]
  <2>1. PICK j \in Jobs : WorkerAssociates(j)
    BY <1>2 DEF Ends, JobCompletes
  <2>2. dest[j] # Null /\ episode' = [episode EXCEPT ![dest[j]] = Associated(@, j)]
    BY <1>2, <2>1 DEF WorkerAssociates
  <2>3. dest[j] = e /\ episode'[e] = Associated(episode[e], j)
    BY <1>2, <2>2 DEF CatalogueInv, CatalogueTypeOK, TablesOK
  <2>4. /\ Associated(episode[e], j).state = episode[e].state
        /\ Associated(episode[e], j).mode = episode[e].mode
        /\ Associated(episode[e], j).media = InputOf[j]
        /\ Associated(episode[e], j).hls \in {j, episode[e].hls}
    BY <1>0 DEF Associated, EpisodeRow
  <2>5. QED
    BY <2>1, <2>2, <2>3, <2>4
<1>3. QED
  BY <1>1, <1>2

LEMMA HlsFreeNext == ForgetInv /\ [MediaNext /\ OneAtATime]_mediaVars => HlsFree'
<1> SUFFICES ASSUME ForgetInv, [MediaNext /\ OneAtATime]_mediaVars PROVE HlsFree'
  OBVIOUS
<1>0. MediaInv /\ CatalogueInv /\ Alone /\ DeletesOutput /\ HlsFree /\ episode \in [Episodes -> EpisodeRow]
  BY DEF ForgetInv, RetryInv, MediaInv, CatalogueInv, CatalogueTypeOK, TablesOK
<1>1. ASSUME NEW a \in Admins, LibraryRequest(a), OneAtATime PROVE HlsFree'
  <2>1. \A b \in Admins \ {a} : adm'[b].pc = "idle"
    BY <1>0, <1>1, OthersRest DEF At
  <2>2. ASSUME adm'[a].pc \in HlsSteps, NEW e \in Episodes, episode'[e].state = "live"
        PROVE  /\ adm'[a].pc = "hls.mark" => (episode'[e].mode = "HLS" => episode'[e].hls # adm'[a].j)
               /\ adm'[a].pc \in {"hls.files", "hls.rows"} => episode'[e].hls # adm'[a].j
    <3>1. CASE \E j \in Jobs : /\ DeleteHls(a, j) /\ adm'[a] = Serving("hls.mark", j)
                               /\ KindOf[j] = "HLS" /\ job[j].output /\ InUse(j) = {}
      <4>1. PICK j \in Jobs : /\ DeleteHls(a, j) /\ adm'[a] = Serving("hls.mark", j)
                              /\ KindOf[j] = "HLS" /\ InUse(j) = {}
        BY <3>1
      <4>2. adm'[a].pc = "hls.mark" /\ adm'[a].j = j /\ episode' = episode
        BY <4>1 DEF Serving, DeleteHls
      <4>3. QED
        BY <2>2, <4>1, <4>2 DEF InUse, Live
    <3>2. CASE MarkHls(a) /\ adm'[a] = Serving("hls.files", adm[a].j)
      <4>1. adm[a].j \in Jobs
        BY <1>0, <3>2 DEF MarkHls, At, MediaInv, AdminOK, AdminNamed, HlsSteps
      <4>2. /\ DeletesOutput /\ adm[a].pc = "hls.mark" /\ adm'[a].pc = "hls.files" /\ adm'[a].j = adm[a].j
            /\ episode'[e] = IF e \in Live /\ episode[e].mode # "HLS" /\ episode[e].hls = adm[a].j
                               THEN [episode[e] EXCEPT !.hls = Null] ELSE episode[e]
        BY <1>0, <3>2 DEF MarkHls, Serving, At
      <4>3. [episode[e] EXCEPT !.hls = Null].hls = Null /\ [episode[e] EXCEPT !.hls = Null].state = episode[e].state
        BY <1>0 DEF EpisodeRow
      <4>4. e \in Live
        BY <2>2, <4>2, <4>3 DEF Live
      <4>5. QED
        BY <1>0, <4>1, <4>2, <4>3, <4>4, PlaybackAssumption DEF HlsFree
    <3>3. CASE DeleteHlsFiles(a) /\ adm'[a] = Serving("hls.rows", adm[a].j)
      <4>1. episode' = episode /\ adm[a].pc = "hls.files" /\ adm'[a].pc = "hls.rows" /\ adm'[a].j = adm[a].j
        BY <3>3 DEF DeleteHlsFiles, At, Serving
      <4>2. QED
        BY <1>0, <2>2, <4>1 DEF HlsFree, Live
    <3>4. QED
      BY <1>0, <1>1, <2>2, <3>1, <3>2, <3>3, SlotAfter DEF LeavesSlot
  <2>3. QED
    BY <2>1, <2>2 DEF HlsFree, Live, HlsSteps
<1>2. ASSUME NEW a \in Admins, ~At(a, "idle"), adm' = adm, Ends PROVE HlsFree'
  <2>1. \A b \in Admins \ {a} : adm[b].pc = "idle"
    BY <1>0, <1>2 DEF Alone, At
  <2>2. ASSUME adm[a].pc \in HlsSteps, NEW e \in Episodes, episode'[e].state = "live"
        PROVE  /\ adm[a].pc = "hls.mark" => (episode'[e].mode = "HLS" => episode'[e].hls # adm[a].j)
               /\ adm[a].pc \in {"hls.files", "hls.rows"} => episode'[e].hls # adm[a].j
    <3>1. /\ e \in Live /\ episode'[e].mode = episode[e].mode
          /\ episode'[e].hls = episode[e].hls \/ dest[episode'[e].hls] # Null
      BY <1>0, <1>2, <2>2, EndsAttach DEF Live
    <3>2. dest[adm[a].j] = Null
      BY <1>0, <2>2 DEF DeletesOutput
    <3>3. QED
      BY <1>0, <3>1, <3>2 DEF HlsFree
  <2>3. QED
    BY <1>2, <2>1, <2>2 DEF HlsFree, Live, HlsSteps
<1>3. CASE Elsewhere /\ OneAtATime
  <2>1. CASE \A a \in Admins : At(a, "idle")
    BY <1>3, <2>1 DEF Elsewhere, HlsFree, At
  <2>2. ASSUME NEW a \in Admins, ~At(a, "idle") PROVE HlsFree'
    BY <1>0, <1>1, <1>2, <1>3, <2>2, OnlyEnds DEF MediaNext
  <2>3. QED
    BY <2>1, <2>2
<1>4. CASE UNCHANGED mediaVars
  BY <1>0, <1>4 DEF mediaVars, catalogueVars, adminVars, HlsFree, Live
<1>5. QED
  BY <1>1, <1>3, <1>4 DEF MediaNext

LEMMA ForgetNext == ForgetInv /\ [MediaNext /\ OneAtATime]_mediaVars => ForgetInv'
<1> SUFFICES ASSUME ForgetInv, [MediaNext /\ OneAtATime]_mediaVars PROVE ForgetInv'
  OBVIOUS
<1>1. RetryInv' /\ VideosOK'
  <2>1. [MediaNext]_mediaVars
    OBVIOUS
  <2>2. QED
    BY <2>1, RetryInvNext, VideosNext DEF ForgetInv, RetryInv
<1>2. HlsFree'
  BY HlsFreeNext
<1>3. DeletedRows' /\ DeletedIsForgotten' /\ SlotsForget'
  <2>1. CASE UNCHANGED mediaVars
    BY <2>1 DEF mediaVars, catalogueVars, adminVars, ForgetInv, DeletedRows, DeletedIsForgotten, Live,
                SlotsForget, Reads, Forgets
  <2>2. QED
    BY <2>1, LibraryForgets, ElsewhereForgets DEF MediaNext
<1>4. QED
  BY <1>1, <1>2, <1>3 DEF ForgetInv

\* When the deletion of a version is over no live episode names it, whether it
\* selects it or not, and no request or worker brings it back: neither a request
\* that read its rows before, nor a worker that ends while the deletion runs.
THEOREM DeletedAreForgotten == SerialMediaSpec => []DeletedIsForgotten
<1>1. MediaInit => ForgetInv
  <2>1. ASSUME MediaInit
        PROVE  DeletedRows /\ SlotsForget /\ DeletedIsForgotten /\ HlsFree
    <3>1. (\A j \in Jobs : stage[j] = "none") /\ \A a \in Admins : adm[a].pc = "idle"
      BY <2>1 DEF MediaInit, Resting
    <3>2. QED
      BY <3>1 DEF DeletedRows, SlotsForget, Forgets, DeletedIsForgotten, HlsFree
  <2>2. QED
    BY <2>1, RetryInit, VideosInit DEF ForgetInv
<1>2. ForgetInv => DeletedIsForgotten
  BY DEF ForgetInv
<1>3. QED
  BY <1>1, <1>2, ForgetNext, PTL DEF SerialMediaSpec

=============================================================================
