----------------------------- MODULE MediaAdmin ------------------------------
(***************************************************************************)
(* AdminMediaService beside the catalogue of episodes: what the library    *)
(* lists, what it lets an administrator select, and the handlers that      *)
(* publish, unpublish and delete versions and originals.  Each handler is  *)
(* cut where it awaits the database or the object storage; a call to       *)
(* either can fail.                                                        *)
(*                                                                         *)
(* Operators whose name ends in "Bug" are plausible mistakes in the        *)
(* definition that follows them; no behaviour uses them.                   *)
(***************************************************************************)
EXTENDS EpisodeCatalogue

CONSTANTS
  Admins,     \* requests to the media library that can be in flight together
  MediaOps,   \* operations of the library that are called
  Faults      \* calls that may fail: "storage", "database", "network"

Stages == {"none", "DELETING", "DELETE_FAILED", "RECONCILE_REQUIRED", "DELETED", "ASSET_DELETED"}

ASSUME MediaAdminAssumption ==
  /\ MediaOps \subseteq {"publish", "unpublish", "deleteHls", "deleteRemux", "deleteOriginal", "deleteAsset"}
  /\ Faults \subseteq {"storage", "database", "network"}

VARIABLES
  stage,   \* processingStage of a job, as far as deletions set it
  adm      \* library requests in flight

adminVars == <<stage, adm>>
mediaVars == <<catalogueVars, adminVars>>

Resting == [pc |-> "idle", j |-> Null, m |-> Null]
Serving(pc, j) == [pc |-> pc, j |-> j, m |-> Null]

Steps == {"idle", "associate", "retire", "check", "show", "hls.mark", "hls.files", "hls.rows",
          "remux.mark", "remux.files", "remux.rows", "original.rows", "original.files",
          "asset.outputs", "asset.original", "asset.rows"}

Go(a, slot) == adm' = [adm EXCEPT ![a] = slot] /\ UNCHANGED req
Done(a, answer) == answer \in Reply /\ adm' = [adm EXCEPT ![a] = Resting] /\ UNCHANGED req
At(a, pc) == adm[a].pc = pc
Outcomes(kind) == IF kind \in Faults THEN BOOLEAN ELSE {TRUE}

Completed(j) == job[j].status = "COMPLETED"
Active(j) == job[j].status = "ACTIVE"

-----------------------------------------------------------------------------
(* What the library lists *)

With(js, status) == {j \in js : job[j].status \in status}

\* A version of an original: an active job first, then an output, then a failure.
VariantJob(m, kind) ==
  LET js == {j \in InputJobs(m) : KindOf[j] = kind /\ job[j].status # "ABSENT"} IN
  CASE With(js, {"ACTIVE"}) # {} -> Latest(With(js, {"ACTIVE"}))
    [] OTHER -> IF Version(job, kind, js) # Null THEN Version(job, kind, js) ELSE Latest(js)

VariantStatus(m, kind) ==
  LET j == VariantJob(m, kind) IN
  CASE Version(job, kind, InputJobs(m)) # Null -> "READY"
    [] OTHER -> CASE j = Null -> "NONE"
                  [] j # Null /\ Active(j) -> "PROCESSING"
                  [] OTHER -> IF Completed(j) THEN "NONE" ELSE "FAILED"

\* The job an item acts on: active, failed, HLS, REMUX.
ActionJob(m) ==
  LET js == InputJobs(m) IN
  CASE With(js, {"ACTIVE"}) # {} -> Latest(With(js, {"ACTIVE"}))
    [] OTHER -> CASE With(js, {"FAILED"}) # {} -> Latest(With(js, {"FAILED"}))
                  [] OTHER -> IF VariantJob(m, "HLS") # Null THEN VariantJob(m, "HLS")
                              ELSE VariantJob(m, "REMUX")

\* The episode an item is shown with: that of the job, or one that uses the file.
ItemEpisode(m) ==
  LET j == ActionJob(m)
      users == {e \in Live : episode[e].media = m}
  IN
  IF j # Null /\ job[j].target # Null
    THEN IF job[j].target \in Live THEN job[j].target ELSE Null
    ELSE Latest(users)

\* presentJob and presentFile: the actions offered with an item.
Offered(m) ==
  LET j == ActionJob(m)
      e == ItemEpisode(m)
      published == e # Null /\ episode[e].published
      hls == Version(job, "HLS", InputJobs(m))
  IN
  IF j = Null THEN {}
  ELSE {op \in {"cancel", "retry", "publish", "unpublish", "deleteHls", "deleteRemux", "deleteOriginal"} :
          CASE op = "cancel" -> Active(j)
            [] op = "retry" -> job[j].status \in {"FAILED", "CANCELLED"} /\ media[m].status # "DELETED"
            [] op = "publish" -> hls # Null /\ e # Null /\ job[hls].target # Null /\ ~published
            [] op = "unpublish" -> job[j].target # Null /\ published
            [] op = "deleteHls" -> hls # Null
            [] op = "deleteRemux" -> Version(job, "REMUX", InputJobs(m)) # Null
            [] OTHER -> media[m].status # "DELETED" /\ With(InputJobs(m), {"ACTIVE"}) = {}}

\* list: an item and the versions that are registered and not in the storage.
Missing(m) ==
  {mode \in Modes :
     CASE mode = "ORIGINAL" -> ~media[m].stored
       [] OTHER -> LET j == Version(job, mode, InputJobs(m)) IN j # Null /\ ~job[j].stored}

\* A version is offered although its file is gone.
SelectableBug(m, kind) ==
  media[m].status # "DELETED" /\ Version(job, kind, InputJobs(m)) # Null

\* listSelectable: a version is offered when its file is there, and the row of
\* the original it was made from is not deleted.
Selectable(m, kind) ==
  /\ media[m].status # "DELETED"
  /\ LET j == Version(job, kind, InputJobs(m)) IN j # Null /\ job[j].stored

-----------------------------------------------------------------------------
(* publish and unpublish *)

PublishMedia(a, j) ==
  /\ "publish" \in MediaOps /\ At(a, "idle")
  /\ CASE ~(KindOf[j] = "HLS" /\ Completed(j) /\ job[j].output /\ job[j].target # Null /\ job[j].stored) ->
            Done(a, "conflict")
       [] OTHER -> Go(a, Serving(IF job[j].assoc THEN "check" ELSE "associate", j))
  /\ UNCHANGED <<series, season, episode, media, job, dest, stage>>

\* associateAsAdmin: the transaction of associateInternal, read again before.
AssociateMedia(a) ==
  LET j == adm[a].j
      e == job[j].target
  IN
  /\ At(a, "associate")
  /\ IF ~Completed(j) \/ ~job[j].output \/ e \notin Live
       THEN Done(a, IF e \in Live THEN "conflict" ELSE "missing") /\ UNCHANGED <<episode, job, stage>>
       ELSE IF SecondDefault(j, e)
              THEN Done(a, "failed") /\ UNCHANGED <<episode, job, stage>>
              ELSE /\ episode' = [episode EXCEPT ![e] = Associated(@, j)]
                   /\ job' = [job EXCEPT ![j].assoc = TRUE]
                   /\ stage' = [stage EXCEPT ![j] = "none"]
                   /\ Go(a, Serving(IF job[j].retain THEN "check" ELSE "retire", j))
  /\ UNCHANGED <<series, season, media, dest>>

\* removeOriginalAfterAssociation
RetireMedia(a) ==
  LET j == adm[a].j IN
  /\ At(a, "retire")
  /\ media' = IF Cardinality(References(episode, InputOf[j])) > 1 THEN media ELSE Retired(episode, j)
  /\ job' = [job EXCEPT ![j].retain = @ \/ Cardinality(References(episode, InputOf[j])) > 1]
  /\ Go(a, Serving("check", j))
  /\ UNCHANGED <<series, season, episode, dest, stage>>

CheckMedia(a) ==
  LET j == adm[a].j
      e == job[j].target
  IN
  /\ At(a, "check")
  /\ IF e \in Live /\ Reason(media, job, episode[e]) = "ready"
       THEN Go(a, [Serving("show", j) EXCEPT !.m = e])
       ELSE Done(a, "conflict")
  /\ UNCHANGED <<series, season, episode, media, job, dest, stage>>

\* The row is published by its id.
ShowMedia(a) ==
  /\ At(a, "show")
  /\ episode' = [episode EXCEPT ![adm[a].m].published = TRUE]
  /\ Done(a, "ok")
  /\ UNCHANGED <<series, season, media, job, dest, stage>>

\* The destination is read, and unpublished by its id.
UnpublishMedia(a, j) ==
  LET e == job[j].target IN
  /\ "unpublish" \in MediaOps /\ At(a, "idle") /\ job[j].status # "ABSENT"
  /\ IF e = Null THEN Done(a, "conflict") /\ UNCHANGED episode
     ELSE Done(a, "ok") /\ episode' = [episode EXCEPT ![e].published = FALSE]
  /\ UNCHANGED <<series, season, media, job, dest, stage>>

-----------------------------------------------------------------------------
(* deleteHls and deleteRemux: check, mark, delete the files, drop the rows *)

\* The live episodes whose selected version is the output of a job.
InUse(j) ==
  {e \in Live : episode[e].mode = KindOf[j] /\ j \in {episode[e].hls, episode[e].remux, episode[e].url}}

DeleteHls(a, j) ==
  /\ "deleteHls" \in MediaOps /\ At(a, "idle") /\ job[j].status # "ABSENT"
  /\ IF KindOf[j] # "HLS" \/ ~job[j].output \/ InUse(j) # {}
       THEN Done(a, "conflict") ELSE Go(a, Serving("hls.mark", j))
  /\ UNCHANGED <<series, season, episode, media, job, dest, stage>>

\* The columns that name the output stay as they are.
MarkHlsBug(a) ==
  /\ At(a, "hls.mark")
  /\ stage' = [stage EXCEPT ![adm[a].j] = "DELETING"]
  /\ Go(a, Serving("hls.files", adm[a].j))
  /\ UNCHANGED <<series, season, episode, media, job, dest>>

\* One transaction: the unselected columns that name the output, and the stage.
MarkHls(a) ==
  LET j == adm[a].j IN
  /\ At(a, "hls.mark")
  /\ episode' = [e \in Episodes |->
       IF e \in Live /\ episode[e].mode # "HLS" /\ episode[e].hls = j
         THEN [episode[e] EXCEPT !.hls = Null] ELSE episode[e]]
  /\ stage' = [stage EXCEPT ![j] = "DELETING"]
  /\ Go(a, Serving("hls.files", j))
  /\ UNCHANGED <<series, season, media, job, dest>>

DeleteHlsFiles(a) ==
  LET j == adm[a].j IN
  /\ At(a, "hls.files")
  /\ \E ok \in Outcomes("storage") :
       /\ IF ok THEN Go(a, Serving("hls.rows", j)) ELSE Done(a, "failed")
       /\ job' = [job EXCEPT ![j].stored = @ /\ ~ok]
       /\ stage' = [stage EXCEPT ![j] = IF ok THEN @ ELSE "DELETE_FAILED"]
  /\ UNCHANGED <<series, season, episode, media, dest>>

\* The row of the job forgets its output.
Dropped(j) == [job EXCEPT ![j].status = "CANCELLED", ![j].output = FALSE, ![j].assoc = FALSE]

DropHlsRows(a) ==
  LET j == adm[a].j IN
  /\ At(a, "hls.rows")
  /\ \E ok \in Outcomes("database") :
       /\ Done(a, IF ok THEN "ok" ELSE "failed")
       /\ job' = IF ok THEN Dropped(j) ELSE job
       /\ stage' = [stage EXCEPT ![j] = IF ok THEN "DELETED" ELSE "RECONCILE_REQUIRED"]
  /\ UNCHANGED <<series, season, episode, media, dest>>

DeleteRemux(a, j) ==
  /\ "deleteRemux" \in MediaOps /\ At(a, "idle") /\ job[j].status # "ABSENT"
  /\ IF KindOf[j] # "REMUX" \/ ~job[j].output \/ InUse(j) # {}
       THEN Done(a, "conflict") ELSE Go(a, Serving("remux.mark", j))
  /\ UNCHANGED <<series, season, episode, media, job, dest, stage>>

\* The rows are dropped before the file is deleted.
MarkRemuxBug(a) ==
  LET j == adm[a].j IN
  /\ At(a, "remux.mark")
  /\ stage' = [stage EXCEPT ![j] = "DELETING"]
  /\ job' = Dropped(j)
  /\ Go(a, Serving("remux.files", j))
  /\ UNCHANGED <<series, season, episode, media, dest>>

MarkRemux(a) ==
  LET j == adm[a].j IN
  /\ At(a, "remux.mark")
  /\ stage' = [stage EXCEPT ![j] = "DELETING"]
  /\ Go(a, Serving("remux.files", j))
  /\ UNCHANGED <<series, season, episode, media, job, dest>>

DeleteRemuxFile(a) ==
  LET j == adm[a].j IN
  /\ At(a, "remux.files")
  /\ \E ok \in Outcomes("storage") :
       /\ IF ok THEN Go(a, Serving("remux.rows", j)) ELSE Done(a, "failed")
       /\ job' = [job EXCEPT ![j].stored = @ /\ ~ok]
       /\ stage' = [stage EXCEPT ![j] = IF ok THEN @ ELSE "DELETE_FAILED"]
  /\ UNCHANGED <<series, season, episode, media, dest>>

\* One transaction: the columns of every live episode, and the row of the job.
DropRemuxRows(a) ==
  LET j == adm[a].j IN
  /\ At(a, "remux.rows")
  /\ \E ok \in Outcomes("database") :
       /\ Done(a, IF ok THEN "ok" ELSE "failed")
       /\ episode' = [e \in Episodes |->
            IF ok /\ e \in Live /\ episode[e].remux = j
              THEN [episode[e] EXCEPT !.remux = Null] ELSE episode[e]]
       /\ job' = IF ok THEN Dropped(j) ELSE job
       /\ stage' = [stage EXCEPT ![j] = IF ok THEN "DELETED" ELSE "RECONCILE_REQUIRED"]
  /\ UNCHANGED <<series, season, media, dest>>

-----------------------------------------------------------------------------
(* deleteOriginal and deleteAsset *)

\* The mode of the episodes that use the original is not looked at.
DeleteOriginalBug(a, j) ==
  LET m == InputOf[j] IN
  /\ "deleteOriginal" \in MediaOps /\ At(a, "idle") /\ job[j].status # "ABSENT"
  /\ IF job[j].retain \/ Active(j) \/ media[m].status = "DELETED" \/ Cardinality(References(episode, m)) > 1
       THEN Done(a, "conflict") ELSE Go(a, Serving("original.rows", j))
  /\ UNCHANGED <<series, season, episode, media, job, dest, stage>>

DeleteOriginal(a, j) ==
  LET m == InputOf[j]
      users == References(episode, m)
  IN
  /\ "deleteOriginal" \in MediaOps /\ At(a, "idle") /\ job[j].status # "ABSENT"
  /\ IF \/ job[j].retain
        \/ Active(j)
        \/ media[m].status = "DELETED"
        \/ \E e \in users : episode[e].mode = "ORIGINAL"
        \/ Cardinality(users) > 1
       THEN Done(a, "conflict") ELSE Go(a, Serving("original.rows", j))
  /\ UNCHANGED <<series, season, episode, media, job, dest, stage>>

\* The destination of the job forgets the URL of its original.
ForgetOriginal(a) ==
  LET j == adm[a].j IN
  /\ At(a, "original.rows")
  /\ episode' = [e \in Episodes |->
       IF e = job[j].target /\ episode[e].url = InputOf[j] THEN [episode[e] EXCEPT !.url = Null] ELSE episode[e]]
  /\ Go(a, Serving("original.files", j))
  /\ UNCHANGED <<series, season, media, job, dest, stage>>

DeleteOriginalFile(a) ==
  LET m == InputOf[adm[a].j] IN
  /\ At(a, "original.files")
  /\ \E ok \in Outcomes("storage") :
       /\ Done(a, IF ok THEN "ok" ELSE "failed")
       /\ media' = IF ok THEN [media EXCEPT ![m] = [status |-> "DELETED", stored |-> FALSE]] ELSE media
  /\ UNCHANGED <<series, season, episode, job, dest, stage>>

\* Only the link of an episode to the file counts, whatever its URLs are.
DeleteAsset(a, m) ==
  /\ "deleteAsset" \in MediaOps /\ At(a, "idle")
  /\ IF With(InputJobs(m), {"ACTIVE"}) # {} \/ (\E e \in Live : episode[e].media = m)
       THEN Done(a, "conflict") ELSE Go(a, [Serving("asset.outputs", Null) EXCEPT !.m = m])
  /\ UNCHANGED <<series, season, episode, media, job, dest, stage>>

\* The files of the outputs, one after the other: a failure leaves the rest.
DeleteAssetOutputs(a) ==
  LET js == {j \in InputJobs(adm[a].m) : job[j].output} IN
  /\ At(a, "asset.outputs")
  /\ \E gone \in SUBSET js :
       /\ gone = js \/ FALSE \in Outcomes("storage")
       /\ job' = [j \in Jobs |-> IF j \in gone THEN [job[j] EXCEPT !.stored = FALSE] ELSE job[j]]
       /\ IF gone = js THEN Go(a, [adm[a] EXCEPT !.pc = "asset.original"]) ELSE Done(a, "failed")
  /\ UNCHANGED <<series, season, episode, media, dest, stage>>

DeleteAssetOriginal(a) ==
  /\ At(a, "asset.original")
  /\ \E ok \in Outcomes("storage") :
       /\ IF ok THEN Go(a, [adm[a] EXCEPT !.pc = "asset.rows"]) ELSE Done(a, "failed")
       /\ media' = [media EXCEPT ![adm[a].m].stored = @ /\ ~ok]
  /\ UNCHANGED <<series, season, episode, job, dest, stage>>

\* One transaction: every job of the file, and the file.
DropAssetRows(a) ==
  LET js == {j \in InputJobs(adm[a].m) : job[j].status # "ABSENT"} IN
  /\ At(a, "asset.rows")
  /\ \E ok \in Outcomes("database") :
       /\ Done(a, IF ok THEN "ok" ELSE "failed")
       /\ job' = [j \in Jobs |-> IF ok /\ j \in js THEN Dropped(j)[j] ELSE job[j]]
       /\ stage' = [j \in Jobs |-> IF ok /\ j \in js THEN "ASSET_DELETED" ELSE stage[j]]
       /\ media' = IF ok THEN [media EXCEPT ![adm[a].m].status = "DELETED"] ELSE media
  /\ UNCHANGED <<series, season, episode, dest>>

-----------------------------------------------------------------------------
MediaInit ==
  /\ Init
  /\ stage = [j \in Jobs |-> "none"]
  /\ adm = [a \in Admins |-> Resting]

LibraryRequest(a) ==
  \/ \E j \in Jobs : PublishMedia(a, j) \/ UnpublishMedia(a, j)
  \/ AssociateMedia(a) \/ RetireMedia(a) \/ CheckMedia(a) \/ ShowMedia(a)
  \/ \E j \in Jobs : DeleteHls(a, j) \/ DeleteRemux(a, j) \/ DeleteOriginal(a, j)
  \/ MarkHls(a) \/ DeleteHlsFiles(a) \/ DropHlsRows(a)
  \/ MarkRemux(a) \/ DeleteRemuxFile(a) \/ DropRemuxRows(a)
  \/ ForgetOriginal(a) \/ DeleteOriginalFile(a)
  \/ \E m \in Media : DeleteAsset(a, m)
  \/ DeleteAssetOutputs(a) \/ DeleteAssetOriginal(a) \/ DropAssetRows(a)

\* A job that is reserved, retried or ended leaves the stage of a deletion.
Restaged ==
  [j \in Jobs |->
     IF \/ job'[j].status # job[j].status
        \/ job'[j].target # Null /\ job'[j] # job[j]
        \/ \E r \in Requests : req[r].pc = "update" /\ req[r].dto.job = j /\ req'[r] # req[r] /\ episode' # episode
       THEN "none" ELSE stage[j]]

Elsewhere ==
  /\ \/ \E r \in Requests : EpisodeRequest(r) \/ SeasonRequest(r) \/ Abort(r)
     \/ Pipeline
  /\ stage' = Restaged
  /\ UNCHANGED adm

\* Nothing is in flight: no request, and no association of a worker.
Calm == /\ \A r \in Requests : req[r].pc = "idle"
        /\ \A a \in Admins : At(a, "idle")
        /\ \A j \in Jobs : dest[j] = Null

\* Administrators wait for an answer before the next click.
OneAtATime ==
  \/ Calm
  \/ \E r \in Requests : req[r].pc # "idle" /\ req'[r] # req[r]
  \/ \E a \in Admins : ~At(a, "idle") /\ adm'[a] # adm[a]
  \/ dest' # dest

MediaNext == Elsewhere \/ \E a \in Admins : LibraryRequest(a)

SerialMediaSpec == MediaInit /\ [][MediaNext /\ OneAtATime]_mediaVars

-----------------------------------------------------------------------------
(* Properties *)

MediaTypeOK ==
  /\ stage \in [Jobs -> Stages]
  /\ \A a \in Admins : adm[a].pc \in Steps /\ adm[a].j \in Field(Jobs)

\* An output whose deletion is over is named by no live episode, selected or not.
DeletedIsForgotten ==
  \A j \in Jobs : stage[j] = "DELETED" =>
    \A e \in Live : j \notin {episode[e].hls, episode[e].remux}

\* After a failed deletion the version is still registered: the code promises
\* that the operation can be tried again.
DeletionCanBeRetried ==
  \A j \in Jobs : stage[j] \in {"DELETE_FAILED", "RECONCILE_REQUIRED"} => job[j].output

\* What the selector offers is what the readiness service would play, and it
\* leaves out nothing of that but the versions of a deleted original: these go on
\* playing and cannot be chosen for an episode any more.
SelectorAgrees ==
  \A m \in Media, kind \in {"HLS", "REMUX"} :
    Selectable(m, kind) <=>
      /\ media[m].status # "DELETED"
      /\ ManagedReason(media, job, kind, m, InputJobs(m)) = "ready"

\* Administrators who act one at a time never take the original away from an
\* episode that plays it, as long as no other job of that original attaches it
\* to the episode after the check.
OriginalInUseKept ==
  [][\A e \in Live :
       /\ episode[e].mode = "ORIGINAL" /\ Reason(media, job, episode[e]) = "ready"
       /\ \E a \in Admins : adm'[a] # adm[a]
       => Reason(media', job', episode'[e]) = "ready"]_mediaVars

\* A version in use is not deleted under an episode that plays it: "blocks
\* deleting HLS while it is the active episode source".
ActiveHlsKept ==
  [][\A e \in Live :
       /\ episode[e].mode = "HLS" /\ Reason(media, job, episode[e]) = "ready"
       /\ \E a \in Admins : adm'[a] # adm[a]
       => Reason(media', job', episode'[e]) = "ready"]_mediaVars
=============================================================================
