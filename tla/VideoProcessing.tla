--------------------------- MODULE VideoProcessing ---------------------------
(***************************************************************************)
(* The video processing pipeline: administrator requests served by         *)
(* VideoProcessingService, the BullMQ queue between the API and the FFmpeg *)
(* worker, and VideoProcessingProcessor, which turns an uploaded original  *)
(* into an HLS set or an MP4 remux and attaches it to an episode or movie. *)
(*                                                                         *)
(* Every handler is split where the code awaits PostgreSQL, Redis or the   *)
(* object storage, so requests and workers interleave as they do in the    *)
(* program.  A worker's or request's `pc` names the statement it runs      *)
(* next; the other fields hold what the handler has read so far.           *)
(*                                                                         *)
(* Operators whose name ends in "Bug" are plausible mistakes in the        *)
(* definition that follows them; no behaviour uses them.                   *)
(***************************************************************************)
EXTENDS Naturals, FiniteSets

CONSTANTS
  Jobs,        \* rows VideoProcessingJob may get (bounds the jobs created)
  Media,       \* uploaded originals
  Targets,     \* episodes and movies an output can be attached to
  Movies,      \* the targets that are movies
  KindOf,      \* kind of the job a row is created for: "HLS" or "REMUX"
  MediaOf,     \* original the job of a row processes
  ModeOf,      \* playbackMode of a target: "HLS", "REMUX" or "ORIGINAL"
  Subtitled,   \* originals with embedded text subtitles
  Retain,      \* values of retainOriginal that administrators ask for
  Workers,     \* concurrency slots of the worker process
  Requests,    \* administrator requests that can be in flight together
  Ops,         \* operations the administrators call
  Faults,      \* faults the environment injects
  MaxAttempts, \* VIDEO_MAX_RETRIES
  NFiles,      \* stored files of an HLS set; the last is the thumbnail
  MaxCrashes,  \* bound on process crashes
  Null, Manual

AllOps == {"enqueue", "retry", "cancel", "configure", "associate"}
AllFaults == {"worker", "redis", "storage", "db"}

ASSUME PoolAssumption ==
  /\ KindOf \in [Jobs -> {"HLS", "REMUX"}]
  /\ MediaOf \in [Jobs -> Media]
  /\ ModeOf \in [Targets -> {"HLS", "REMUX", "ORIGINAL"}]
  /\ Movies \subseteq Targets
  /\ Subtitled \subseteq Media
  /\ Retain \subseteq BOOLEAN
  /\ Ops \subseteq AllOps
  /\ Faults \subseteq AllFaults

ASSUME BoundAssumption ==
  /\ MaxAttempts \in 1..10
  /\ NFiles \in Nat \ {0}
  /\ MaxCrashes \in Nat

ASSUME NullAssumption ==
  /\ Null \notin Jobs \cup Media \cup Targets \cup BOOLEAN
  /\ Manual \notin Jobs \cup {Null}

VARIABLES
  job,       \* VideoProcessingJob rows
  media,     \* status of the MediaFile row of an original
  outRow,    \* MediaFile row of a job's output; its storageName is unique
  target,    \* the video columns of an episode or movie
  original,  \* originals present in the object storage
  output,    \* output files of a job present in the object storage
  torn,      \* files of a job whose putFile has not returned: perhaps cut short
  bull,      \* BullMQ entries, one per job and attempt
  worker,    \* the worker's slots
  req,       \* requests in flight
  crashes    \* process crashes so far

vars == <<job, media, outRow, target, original, output, torn, bull, worker, req, crashes>>

-----------------------------------------------------------------------------
(* Rows and their values *)

JobStatus == {"ABSENT", "QUEUED", "PROCESSING", "COMPLETED", "FAILED", "CANCELLED"}
Active == {"QUEUED", "PROCESSING"}
Retryable == {"FAILED", "CANCELLED"}

JobRow ==
  [status: JobStatus,
   attempts: 0..MaxAttempts,
   cancel: BOOLEAN,                \* cancelRequested
   qid: 0..MaxAttempts,            \* attempt named by queueJobId, 0 for null
   retain: BOOLEAN,                \* retainOriginal
   target: Targets \cup {Null},    \* targetType and targetId
   assoc: BOOLEAN,                 \* associatedAt is set
   output: BOOLEAN]                \* outputMediaFileId is set

TargetRow ==
  [src: Media \cup {Null},         \* mediaFileId and originalVideoUrl
   hls: Jobs \cup {Null},          \* job whose output is processedVideoUrl
   remux: Jobs \cup {Null},        \* job whose output is remuxedVideoUrl
   def: Jobs \cup {Null, Manual}]  \* who provided the default subtitle track

BullState == {"none", "waiting", "active", "done"}

WorkerPC == {"idle", "load", "start", "probe", "encode", "upload", "put",
             "commit", "reread", "associate", "mark", "settle", "delete", "deleted",
             "finish", "clean", "record"}

WorkerSlot ==
  [pc: WorkerPC, job: Jobs \cup {Null}, att: 0..MaxAttempts,
   up: 0..NFiles,                  \* files uploaded and recorded by this run
   keep: BOOLEAN,                  \* retainOriginal read by the commit
   dest: Targets \cup {Null},      \* destination read after the commit
   outcome: Retryable]             \* what the catch block will record

RequestPC == {"idle", "requeue", "add", "link", "addFailed", "addFailedMedia",
              "remove", "mark", "flag", "configure", "assocRead", "assoc",
              "after", "count", "delete", "deleted"}

RequestSlot ==
  [pc: RequestPC, job: Jobs \cup {Null}, att: 0..MaxAttempts,
   target: Targets \cup {Null}, keep: BOOLEAN \cup {Null}]

NoJob ==
  [status |-> "ABSENT", attempts |-> 0, cancel |-> FALSE, qid |-> 0,
   retain |-> TRUE, target |-> Null, assoc |-> FALSE, output |-> FALSE]

NewJob(t, keep) ==
  [status |-> "QUEUED", attempts |-> 1, cancel |-> FALSE, qid |-> 0,
   retain |-> keep, target |-> t, assoc |-> FALSE, output |-> FALSE]

Slot(pc, j, a) ==
  [pc |-> pc, job |-> j, att |-> a, up |-> 0,
   keep |-> TRUE, dest |-> Null, outcome |-> "FAILED"]

Pending(pc, j, a, t, keep) ==
  [pc |-> pc, job |-> j, att |-> a, target |-> t, keep |-> keep]

IdleWorker == Slot("idle", Null, 0)
IdleRequest == Pending("idle", Null, 0, Null, Null)

Files(j) == IF KindOf[j] = "HLS" THEN NFiles ELSE 1

\* The episodes whose mediaFileId or originalVideoUrl names the original.
References(m) == {t \in Targets : target[t].src = m}
SharedOriginal(m) == \E t, u \in References(m) : t # u

\* SubtitleTrack has a unique index on the default track of a content: the
\* first extracted track is created as the default one and is refused when
\* another track already is.
DefaultTaken(t, j) ==
  /\ KindOf[j] = "HLS"
  /\ MediaOf[j] \in Subtitled
  /\ target[t].def \notin {Null, j}

\* The columns of t once the output of j is attached to it.  A movie has no
\* column for a remux: the service writes every output to the same one.
Linked(t, j) ==
  [src   |-> IF t \in Movies THEN target[t].src ELSE MediaOf[j],
   hls   |-> IF t \in Movies \/ KindOf[j] = "HLS" THEN j ELSE target[t].hls,
   remux |-> IF t \notin Movies /\ KindOf[j] = "REMUX" THEN j ELSE target[t].remux,
   def   |-> IF KindOf[j] = "HLS" /\ MediaOf[j] \in Subtitled THEN j ELSE target[t].def]

\* A content may already play the original and have a subtitle of its own.
Init ==
  /\ job = [j \in Jobs |-> NoJob]
  /\ media = [m \in Media |-> "READY"]
  /\ outRow = [j \in Jobs |-> "NONE"]
  /\ target \in [Targets -> [src: Media \cup {Null}, hls: {Null}, remux: {Null},
                            def: {Null, Manual}]]
  /\ original = Media
  /\ output = [j \in Jobs |-> {}]
  /\ torn = [j \in Jobs |-> {}]
  /\ bull = [j \in Jobs |-> [a \in 1..MaxAttempts |-> "none"]]
  /\ worker = [w \in Workers |-> IdleWorker]
  /\ req = [r \in Requests |-> IdleRequest]
  /\ crashes = 0

-----------------------------------------------------------------------------
(* Administrator requests.  An action that begins a request folds the      *)
(* handler's reads and refusals into its guard: a refused request changes  *)
(* nothing.                                                                *)

Reply(r) == req' = [req EXCEPT ![r] = IdleRequest]
Goto(r, pc) == req' = [req EXCEPT ![r].pc = pc]

RowsOnly == UNCHANGED <<outRow, target, original, output, torn, bull, worker, crashes>>
JobOnly == RowsOnly /\ UNCHANGED media

\* enqueueKind: under the advisory lock of (media, kind), no active job and no
\* completed output exist, and a new QUEUED job is created.
Enqueue(r, j, t, keep) ==
  LET rivals == {i \in Jobs : MediaOf[i] = MediaOf[j] /\ KindOf[i] = KindOf[j]}
  IN
  /\ "enqueue" \in Ops
  /\ req[r].pc = "idle"
  /\ job[j].status = "ABSENT"
  /\ \A i \in rivals : /\ job[i].status \notin Active
                       /\ ~(job[i].status = "COMPLETED" /\ job[i].output)
  /\ job' = [job EXCEPT ![j] = NewJob(t, keep)]
  /\ media' = [media EXCEPT ![MediaOf[j]] = "QUEUED"]
  /\ req' = [req EXCEPT ![r] = Pending("add", j, 1, Null, Null)]
  /\ RowsOnly

\* The status of the job is not looked at.
RetryCheckAnyStatusBug(r, j) ==
  /\ "retry" \in Ops
  /\ req[r].pc = "idle"
  /\ job[j].attempts \in 1..(MaxAttempts - 1)
  /\ MediaOf[j] \in original
  /\ req' = [req EXCEPT ![r] = Pending("requeue", j, job[j].attempts + 1, Null, Null)]
  /\ JobOnly /\ UNCHANGED job

\* retry: what the handler reads before its transaction.
RetryCheck(r, j) ==
  /\ "retry" \in Ops
  /\ req[r].pc = "idle"
  /\ job[j].status \in Retryable
  /\ MediaOf[j] \in original
  /\ job[j].attempts + 1 <= MaxAttempts
  /\ req' = [req EXCEPT ![r] = Pending("requeue", j, job[j].attempts + 1, Null, Null)]
  /\ JobOnly /\ UNCHANGED job

\* retry: the transaction, which does not look at the row again.
Requeue(r) ==
  LET j == req[r].job IN
  /\ req[r].pc = "requeue"
  /\ job' = [job EXCEPT ![j].status = "QUEUED", ![j].attempts = req[r].att,
                        ![j].cancel = FALSE, ![j].qid = 0]
  /\ media' = [media EXCEPT ![MediaOf[j]] = "QUEUED"]
  /\ Goto(r, "add")
  /\ RowsOnly

\* The queue's job id does not name the attempt.
QueueAddOneIdBug(r) ==
  LET j == req[r].job IN
  /\ req[r].pc = "add"
  /\ bull' = IF bull[j][1] = "none" THEN [bull EXCEPT ![j][1] = "waiting"] ELSE bull
  /\ Goto(r, "link")
  /\ UNCHANGED <<job, media, outRow, target, original, output, torn, worker, crashes>>

\* addToQueue: BullMQ ignores an add whose job id it still knows.
QueueAdd(r) ==
  LET j == req[r].job IN
  /\ req[r].pc = "add"
  /\ bull' = IF bull[j][req[r].att] = "none"
               THEN [bull EXCEPT ![j][req[r].att] = "waiting"] ELSE bull
  /\ Goto(r, "link")
  /\ UNCHANGED <<job, media, outRow, target, original, output, torn, worker, crashes>>

QueueLink(r) ==
  /\ req[r].pc = "link"
  /\ job' = [job EXCEPT ![req[r].job].qid = req[r].att]
  /\ Reply(r)
  /\ JobOnly

\* addToQueue: Redis refuses the add, or PostgreSQL the update after it.
QueueAddFails(r) ==
  /\ \/ req[r].pc = "add" /\ "redis" \in Faults
     \/ req[r].pc = "link" /\ "db" \in Faults
  /\ Goto(r, "addFailed")
  /\ JobOnly /\ UNCHANGED job

QueueAddFailedJob(r) ==
  /\ req[r].pc = "addFailed"
  /\ job' = [job EXCEPT ![req[r].job].status = "FAILED"]
  /\ Goto(r, "addFailedMedia")
  /\ JobOnly

QueueAddFailedMedia(r) ==
  /\ req[r].pc = "addFailedMedia"
  /\ media' = [media EXCEPT ![MediaOf[req[r].job]] = "FAILED"]
  /\ Reply(r)
  /\ RowsOnly /\ UNCHANGED job

\* cancel: the branch is chosen on the row read first.
CancelCheck(r, j) ==
  /\ "cancel" \in Ops
  /\ req[r].pc = "idle"
  /\ job[j].status \in Active
  /\ req' = [req EXCEPT ![r] =
       Pending(IF job[j].status = "QUEUED" /\ job[j].qid # 0 THEN "remove" ELSE "flag",
               j, job[j].qid, Null, Null)]
  /\ JobOnly /\ UNCHANGED job

\* An entry a worker holds is locked; the refusal is ignored.
CancelRemove(r) ==
  LET j == req[r].job IN
  /\ req[r].pc = "remove"
  /\ bull' = IF bull[j][req[r].att] = "active"
               THEN bull ELSE [bull EXCEPT ![j][req[r].att] = "none"]
  /\ Goto(r, "mark")
  /\ UNCHANGED <<job, media, outRow, target, original, output, torn, worker, crashes>>

CancelMark(r) ==
  LET j == req[r].job IN
  /\ req[r].pc = "mark"
  /\ job' = [job EXCEPT ![j].status = "CANCELLED", ![j].cancel = TRUE]
  /\ media' = [media EXCEPT ![MediaOf[j]] = "READY"]
  /\ Reply(r)
  /\ RowsOnly

CancelFlag(r) ==
  /\ req[r].pc = "flag"
  /\ job' = [job EXCEPT ![req[r].job].cancel = TRUE]
  /\ Reply(r)
  /\ JobOnly

\* configure: the checks on the row read first.
ConfigureCheck(r, j, t, keep) ==
  /\ "configure" \in Ops
  /\ req[r].pc = "idle"
  /\ job[j].status # "ABSENT"
  /\ ~(t = Null /\ keep = Null)
  /\ t # Null => job[j].target \in {Null, t}
  /\ req' = [req EXCEPT ![r] = Pending("configure", j, 0, t, keep)]
  /\ JobOnly /\ UNCHANGED job

\* A destination given to a completed job is stored and nothing else.
ConfigureWriteOnlyBug(r) ==
  LET j == req[r].job IN
  /\ req[r].pc = "configure"
  /\ job' = [job EXCEPT ![j].target = IF req[r].target # Null THEN req[r].target ELSE @,
                        ![j].retain = IF req[r].keep # Null THEN req[r].keep ELSE @]
  /\ Reply(r)
  /\ JobOnly

\* configure: the update, then the decision on the row it returned.
ConfigureWrite(r) ==
  LET j == req[r].job IN
  /\ req[r].pc = "configure"
  /\ job' = [job EXCEPT ![j].target = IF req[r].target # Null THEN req[r].target ELSE @,
                        ![j].retain = IF req[r].keep # Null THEN req[r].keep ELSE @]
  /\ IF job[j].status = "COMPLETED" /\ req[r].target # Null /\ ~job[j].assoc
       THEN Goto(r, "assocRead")
     ELSE IF job[j].status = "COMPLETED" /\ req[r].keep = FALSE /\ job[j].assoc
       THEN Goto(r, "count")
     ELSE Reply(r)
  /\ JobOnly

\* An output that does not exist may be attached.
MayAssociateBug(j, t) == job[j].status # "ABSENT" /\ job[j].target \in {Null, t}

MayAssociate(j, t) ==
  /\ job[j].status = "COMPLETED"
  /\ job[j].output
  /\ job[j].target \in {Null, t}

AssociateCheck(r, j, t) ==
  /\ "associate" \in Ops
  /\ req[r].pc = "idle"
  /\ MayAssociate(j, t)
  /\ req' = [req EXCEPT ![r] = Pending("assoc", j, 0, t, Null)]
  /\ JobOnly /\ UNCHANGED job

\* configure calls associate, which reads the row again.
AssociateRead(r) ==
  /\ req[r].pc = "assocRead"
  /\ IF MayAssociate(req[r].job, req[r].target) THEN Goto(r, "assoc") ELSE Reply(r)
  /\ JobOnly /\ UNCHANGED job

Associate(r) ==
  LET j == req[r].job
      t == req[r].target
  IN
  /\ req[r].pc = "assoc"
  /\ ~DefaultTaken(t, j)
  /\ target' = [target EXCEPT ![t] = Linked(t, j)]
  /\ job' = [job EXCEPT ![j].target = t, ![j].assoc = TRUE]
  /\ Goto(r, "after")
  /\ UNCHANGED <<media, outRow, original, output, torn, bull, worker, crashes>>

\* The unique index aborts the transaction and the request fails.
AssociateRefused(r) ==
  /\ req[r].pc = "assoc"
  /\ DefaultTaken(req[r].target, req[r].job)
  /\ Reply(r)
  /\ JobOnly /\ UNCHANGED job

\* removeOriginalAfterAssociation up to the count of references.  After an
\* association the row is read again; configure uses the row it updated.
CountReferences(r) ==
  LET j == req[r].job IN
  \/ /\ req[r].pc = "after"
     /\ job[j].retain \/ ~job[j].assoc
     /\ Reply(r)
     /\ JobOnly /\ UNCHANGED job
  \/ /\ \/ req[r].pc = "count"
        \/ req[r].pc = "after" /\ ~job[j].retain /\ job[j].assoc
     /\ SharedOriginal(MediaOf[j])
     /\ job' = [job EXCEPT ![j].retain = TRUE]
     /\ Reply(r)
     /\ JobOnly
  \/ /\ \/ req[r].pc = "count"
        \/ req[r].pc = "after" /\ ~job[j].retain /\ job[j].assoc
     /\ ~SharedOriginal(MediaOf[j])
     /\ Goto(r, "delete")
     /\ JobOnly /\ UNCHANGED job

RemoveOriginal(r) ==
  /\ req[r].pc = "delete"
  /\ original' = original \ {MediaOf[req[r].job]}
  /\ Goto(r, "deleted")
  /\ UNCHANGED <<job, media, outRow, target, output, torn, bull, worker, crashes>>

RemoveOriginalFails(r) ==
  /\ req[r].pc = "delete"
  /\ "storage" \in Faults
  /\ Reply(r)
  /\ JobOnly /\ UNCHANGED job

RemovedOriginal(r) ==
  /\ req[r].pc = "deleted"
  /\ media' = [media EXCEPT ![MediaOf[req[r].job]] = "DELETED"]
  /\ Reply(r)
  /\ RowsOnly /\ UNCHANGED job

\* The API process dies with the request in it.
RequestLost(r) ==
  /\ req[r].pc # "idle"
  /\ crashes < MaxCrashes
  /\ crashes' = crashes + 1
  /\ Reply(r)
  /\ UNCHANGED <<job, media, outRow, target, original, output, torn, bull, worker>>

RequestBegins(r) ==
  \E j \in Jobs :
    \/ \E t \in Targets \cup {Null}, keep \in Retain : Enqueue(r, j, t, keep)
    \/ RetryCheck(r, j)
    \/ CancelCheck(r, j)
    \/ \E t \in Targets \cup {Null}, keep \in Retain \cup {Null} : ConfigureCheck(r, j, t, keep)
    \/ \E t \in Targets : AssociateCheck(r, j, t)

RequestStep(r) ==
  \/ Requeue(r) \/ QueueAdd(r) \/ QueueLink(r)
  \/ QueueAddFails(r) \/ QueueAddFailedJob(r) \/ QueueAddFailedMedia(r)
  \/ CancelRemove(r) \/ CancelMark(r) \/ CancelFlag(r)
  \/ ConfigureWrite(r) \/ AssociateRead(r) \/ Associate(r) \/ AssociateRefused(r)
  \/ CountReferences(r) \/ RemoveOriginal(r) \/ RemoveOriginalFails(r) \/ RemovedOriginal(r)

-----------------------------------------------------------------------------
(* The worker: VideoProcessingProcessor.process and processRemux.          *)

At(w, pc) == worker' = [worker EXCEPT ![w].pc = pc]
ToCatch(w, outcome) ==
  worker' = [worker EXCEPT ![w].pc = "clean", ![w].outcome = outcome]

\* process returns or throws: BullMQ releases the entry and keeps its id.
Release(w) ==
  /\ worker' = [worker EXCEPT ![w] = IdleWorker]
  /\ bull' = [bull EXCEPT ![worker[w].job][worker[w].att] = "done"]

Take(w, j, a) ==
  /\ worker[w].pc = "idle"
  /\ bull[j][a] = "waiting"
  /\ bull' = [bull EXCEPT ![j][a] = "active"]
  /\ worker' = [worker EXCEPT ![w] = Slot("load", j, a)]
  /\ UNCHANGED <<job, media, outRow, target, original, output, torn, req, crashes>>

\* Every delivery is processed, a repeated one too.
LoadAgainBug(w) ==
  /\ worker[w].pc = "load"
  /\ At(w, "start")
  /\ UNCHANGED <<job, media, outRow, target, original, output, torn, bull, req, crashes>>

\* A job that is not QUEUED is none of this delivery's business.
Load(w) ==
  /\ worker[w].pc = "load"
  /\ IF job[worker[w].job].status = "QUEUED"
       THEN At(w, "start") /\ UNCHANGED bull
       ELSE Release(w)
  /\ UNCHANGED <<job, media, outRow, target, original, output, torn, req, crashes>>

Start(w) ==
  /\ worker[w].pc = "start"
  /\ job' = [job EXCEPT ![worker[w].job].status = "PROCESSING"]
  /\ At(w, "probe")
  /\ UNCHANGED <<media, outRow, target, original, output, torn, bull, req, crashes>>

Probe(w) ==
  LET j == worker[w].job IN
  /\ worker[w].pc = "probe"
  /\ MediaOf[j] \in original
  /\ media' = IF KindOf[j] = "HLS" THEN [media EXCEPT ![MediaOf[j]] = "PROCESSING"] ELSE media
  /\ At(w, "encode")
  /\ UNCHANGED <<job, outRow, target, original, output, torn, bull, req, crashes>>

\* FFmpeg and the validation of its output, up to the last look at the
\* cancellation flag before the transfer.
Encode(w) ==
  /\ worker[w].pc = "encode"
  /\ ~job[worker[w].job].cancel
  /\ At(w, "upload")
  /\ UNCHANGED <<job, media, outRow, target, original, output, torn, bull, req, crashes>>

\* putFile of the next file: the object appears under its key while it is
\* copied.  An HLS transfer looks at the flag before each file but the
\* thumbnail, which is the last; a remux has a single file.
Upload(w) ==
  LET j == worker[w].job
      n == worker[w].up + 1
  IN
  /\ worker[w].pc = "upload"
  /\ n < Files(j) => ~job[j].cancel
  /\ output' = [output EXCEPT ![j] = @ \cup {n}]
  /\ torn' = [torn EXCEPT ![j] = @ \cup {n}]
  /\ At(w, "put")
  /\ UNCHANGED <<job, media, outRow, target, original, bull, req, crashes>>

\* The loop over the files ends one file early.
UploadedShortBug(w) ==
  LET j == worker[w].job
      n == worker[w].up + 1
  IN
  /\ worker[w].pc = "put"
  /\ torn' = [torn EXCEPT ![j] = @ \ {n}]
  /\ worker' = [worker EXCEPT ![w].up = n,
                              ![w].pc = IF n + 1 >= Files(j) THEN "commit" ELSE "upload"]
  /\ UNCHANGED <<job, media, outRow, target, original, output, bull, req, crashes>>

\* putFile has copied the file and removed its source; only now is its key
\* recorded among those that the catch block deletes.
Uploaded(w) ==
  LET j == worker[w].job
      n == worker[w].up + 1
  IN
  /\ worker[w].pc = "put"
  /\ torn' = [torn EXCEPT ![j] = @ \ {n}]
  /\ worker' = [worker EXCEPT ![w].up = n,
                              ![w].pc = IF n = Files(j) THEN "commit" ELSE "upload"]
  /\ UNCHANGED <<job, media, outRow, target, original, output, bull, req, crashes>>

Cancelled(w) ==
  LET j == worker[w].job IN
  /\ \/ worker[w].pc = "encode"
     \/ worker[w].pc = "upload" /\ worker[w].up + 1 < Files(j)
  /\ job[j].cancel
  /\ ToCatch(w, "CANCELLED")
  /\ UNCHANGED <<job, media, outRow, target, original, output, torn, bull, req, crashes>>

\* An exception before the output is registered: FFmpeg, the disk, the
\* storage, in a putFile whose object exists already too.  A removed original is missed by the download from S3 or, when
\* originals are local, by the probe.
Fails(w) ==
  /\ \/ worker[w].pc \in {"start", "probe", "encode", "upload", "put", "commit"} /\ "worker" \in Faults
     \/ worker[w].pc \in {"start", "probe"} /\ MediaOf[worker[w].job] \notin original
  /\ ToCatch(w, "FAILED")
  /\ UNCHANGED <<job, media, outRow, target, original, output, torn, bull, req, crashes>>

\* The transaction that registers the output and completes the job.
Commit(w) ==
  LET j == worker[w].job IN
  /\ worker[w].pc = "commit"
  /\ outRow[j] = "NONE"
  /\ outRow' = [outRow EXCEPT ![j] = "READY"]
  /\ job' = [job EXCEPT ![j].output = TRUE, ![j].status = "COMPLETED", ![j].cancel = FALSE]
  /\ worker' = [worker EXCEPT ![w].pc = "reread", ![w].keep = job[j].retain]
  /\ UNCHANGED <<media, target, original, output, torn, bull, req, crashes>>

\* MediaFile.storageName is unique: an output is registered once.
CommitRefused(w) ==
  /\ worker[w].pc = "commit"
  /\ outRow[worker[w].job] # "NONE"
  /\ ToCatch(w, "FAILED")
  /\ UNCHANGED <<job, media, outRow, target, original, output, torn, bull, req, crashes>>

\* The destination is read again; a remux is only attached to an episode.
Reread(w) ==
  LET j == worker[w].job
      t == job[j].target
      dest == IF KindOf[j] = "REMUX" /\ t \in Movies THEN Null ELSE t
  IN
  /\ worker[w].pc = "reread"
  /\ worker' = [worker EXCEPT ![w].dest = dest,
                              ![w].pc = IF dest = Null THEN "settle" ELSE "associate"]
  /\ UNCHANGED <<job, media, outRow, target, original, output, torn, bull, req, crashes>>

\* associateOutput: one transaction for HLS.  A remux updates the episode
\* first and the job in a later statement.
AssociateOutput(w) ==
  LET j == worker[w].job
      t == worker[w].dest
  IN
  /\ worker[w].pc = "associate"
  /\ ~DefaultTaken(t, j)
  /\ target' = [target EXCEPT ![t] = Linked(t, j)]
  /\ IF KindOf[j] = "HLS"
       THEN /\ job' = [job EXCEPT ![j].assoc = @ \/ job[j].target = t]
            /\ At(w, "settle")
       ELSE At(w, "mark") /\ UNCHANGED job
  /\ UNCHANGED <<media, outRow, original, output, torn, bull, req, crashes>>

MarkAssociated(w) ==
  /\ worker[w].pc = "mark"
  /\ job' = [job EXCEPT ![worker[w].job].assoc = TRUE]
  /\ At(w, "settle")
  /\ UNCHANGED <<media, outRow, target, original, output, torn, bull, req, crashes>>

\* The original goes though the output has no destination yet.
MustDeleteBug(w) == KindOf[worker[w].job] = "HLS" /\ ~worker[w].keep

MustDelete(w) ==
  /\ KindOf[worker[w].job] = "HLS"
  /\ ~worker[w].keep
  /\ worker[w].dest # Null

\* An exception after the output is registered reaches the same catch block,
\* one of deleteOriginal's own catch block too.
FailsLate(w) ==
  /\ \/ worker[w].pc = "associate" /\ DefaultTaken(worker[w].dest, worker[w].job)
     \/ /\ worker[w].pc \in {"reread", "associate", "mark", "settle", "deleted", "finish"}
                         \cup (IF "storage" \in Faults THEN {"delete"} ELSE {})
        /\ "db" \in Faults
  /\ ToCatch(w, "FAILED")
  /\ UNCHANGED <<job, media, outRow, target, original, output, torn, bull, req, crashes>>

\* deleteOriginal does not count the references.
SettleUncountedBug(w) ==
  LET j == worker[w].job IN
  /\ worker[w].pc = "settle"
  /\ media' = IF MustDelete(w) THEN media ELSE [media EXCEPT ![MediaOf[j]] = "READY"]
  /\ IF KindOf[j] = "REMUX" THEN Release(w)
       ELSE At(w, IF MustDelete(w) THEN "delete" ELSE "finish") /\ UNCHANGED bull
  /\ UNCHANGED <<job, outRow, target, original, output, torn, req, crashes>>

\* The row of the original is left as the processing set it.
SettleForgottenBug(w) ==
  /\ worker[w].pc = "settle"
  /\ IF KindOf[worker[w].job] = "REMUX" THEN Release(w) ELSE At(w, "finish") /\ UNCHANGED bull
  /\ UNCHANGED <<job, media, outRow, target, original, output, torn, req, crashes>>

\* The original goes back to READY, or deleteOriginal counts its references.
\* A remux has nothing left to do.
Settle(w) ==
  LET j == worker[w].job
      next == IF KindOf[j] = "REMUX" THEN "idle"
              ELSE IF MustDelete(w) /\ ~SharedOriginal(MediaOf[j]) THEN "delete"
              ELSE "finish"
  IN
  /\ worker[w].pc = "settle"
  /\ media' = IF next = "delete" THEN media ELSE [media EXCEPT ![MediaOf[j]] = "READY"]
  /\ job' = IF MustDelete(w) /\ next = "finish" THEN [job EXCEPT ![j].retain = TRUE] ELSE job
  /\ IF next = "idle" THEN Release(w) ELSE At(w, next) /\ UNCHANGED bull
  /\ UNCHANGED <<outRow, target, original, output, torn, req, crashes>>

DeleteOriginal(w) ==
  /\ worker[w].pc = "delete"
  /\ original' = original \ {MediaOf[worker[w].job]}
  /\ At(w, "deleted")
  /\ UNCHANGED <<job, media, outRow, target, output, torn, bull, req, crashes>>

DeletedOriginal(w) ==
  /\ worker[w].pc = "deleted"
  /\ media' = [media EXCEPT ![MediaOf[worker[w].job]] = "DELETED"]
  /\ At(w, "finish")
  /\ UNCHANGED <<job, outRow, target, original, output, torn, bull, req, crashes>>

\* deleteOriginal catches its errors: of the count, the deletion, the update.
DeleteOriginalFails(w) ==
  LET j == worker[w].job IN
  /\ \/ worker[w].pc = "settle" /\ MustDelete(w) /\ "db" \in Faults
     \/ worker[w].pc = "delete" /\ "storage" \in Faults
     \/ worker[w].pc = "deleted" /\ "db" \in Faults
  /\ job' = [job EXCEPT ![j].retain = TRUE]
  /\ media' = [media EXCEPT ![MediaOf[j]] = "READY"]
  /\ At(w, "finish")
  /\ UNCHANGED <<outRow, target, original, output, torn, bull, req, crashes>>

\* The last update of an HLS run writes the stage and the progress only.
Finish(w) ==
  /\ worker[w].pc = "finish"
  /\ Release(w)
  /\ UNCHANGED <<job, media, outRow, target, original, output, torn, req, crashes>>

\* The file uploaded last is not among the deleted keys.
CleanUpShortBug(w) ==
  /\ worker[w].pc = "clean"
  /\ output' = [output EXCEPT ![worker[w].job] = @ \ (1..(worker[w].up - 1))]
  /\ At(w, "record")
  /\ UNCHANGED <<job, media, outRow, target, original, torn, bull, req, crashes>>

\* The input goes with the temporary files, though a local one is the original.
CleanUpInputBug(w) ==
  /\ worker[w].pc = "clean"
  /\ output' = [output EXCEPT ![worker[w].job] = @ \ (1..worker[w].up)]
  /\ original' = original \ {MediaOf[worker[w].job]}
  /\ At(w, "record")
  /\ UNCHANGED <<job, media, outRow, target, torn, bull, req, crashes>>

\* The catch block: the keys this run uploaded are deleted, then the outcome
\* is recorded; the errors of either are swallowed.
CleanUp(w) ==
  /\ worker[w].pc = "clean"
  /\ \E gone \in SUBSET (1..worker[w].up) :
       /\ gone = 1..worker[w].up \/ "storage" \in Faults
       /\ output' = [output EXCEPT ![worker[w].job] = @ \ gone]
  /\ At(w, "record")
  /\ UNCHANGED <<job, media, outRow, target, original, torn, bull, req, crashes>>

\* The row of the original is left as the processing set it.
RecordForgottenBug(w) ==
  /\ worker[w].pc = "record"
  /\ job' = [job EXCEPT ![worker[w].job].status = worker[w].outcome,
                        ![worker[w].job].cancel = (worker[w].outcome = "CANCELLED")]
  /\ Release(w)
  /\ UNCHANGED <<media, outRow, target, original, output, torn, req, crashes>>

Record(w) ==
  LET j == worker[w].job IN
  /\ worker[w].pc = "record"
  /\ \/ /\ job' = [job EXCEPT ![j].status = worker[w].outcome,
                              ![j].cancel = (worker[w].outcome = "CANCELLED")]
        /\ media' = [media EXCEPT ![MediaOf[j]] = "READY"]
     \/ "db" \in Faults /\ UNCHANGED <<job, media>>
  /\ Release(w)
  /\ UNCHANGED <<outRow, target, original, output, torn, req, crashes>>

\* The worker process dies: BullMQ finds the entry stalled and delivers it again.
WorkerLost(w) ==
  /\ worker[w].pc # "idle"
  /\ crashes < MaxCrashes
  /\ crashes' = crashes + 1
  /\ bull' = [bull EXCEPT ![worker[w].job][worker[w].att] = "waiting"]
  /\ worker' = [worker EXCEPT ![w] = IdleWorker]
  /\ UNCHANGED <<job, media, outRow, target, original, output, torn, req>>

WorkerStep(w) ==
  \/ \E j \in Jobs, a \in 1..MaxAttempts : Take(w, j, a)
  \/ Load(w) \/ Start(w) \/ Probe(w) \/ Encode(w) \/ Upload(w) \/ Uploaded(w)
  \/ Cancelled(w) \/ Fails(w) \/ Commit(w) \/ CommitRefused(w)
  \/ Reread(w) \/ AssociateOutput(w) \/ MarkAssociated(w) \/ FailsLate(w)
  \/ Settle(w) \/ DeleteOriginal(w) \/ DeleteOriginalFails(w) \/ DeletedOriginal(w)
  \/ Finish(w) \/ CleanUp(w) \/ Record(w)

Next ==
  \/ \E r \in Requests : RequestBegins(r) \/ RequestStep(r) \/ RequestLost(r)
  \/ \E w \in Workers : WorkerStep(w) \/ WorkerLost(w)

Spec == Init /\ [][Next]_vars

\* A request in progress and a running worker go on; administrators need not act.
Fairness ==
  /\ \A r \in Requests : WF_vars(RequestStep(r))
  /\ \A w \in Workers : WF_vars(WorkerStep(w))

FairSpec == Spec /\ Fairness

-----------------------------------------------------------------------------
(* Properties *)

\* Every variable keeps its type.
TypeOK ==
  /\ job \in [Jobs -> JobRow]
  /\ media \in [Media -> {"READY", "QUEUED", "PROCESSING", "FAILED", "DELETED"}]
  /\ outRow \in [Jobs -> {"NONE", "READY"}]
  /\ target \in [Targets -> TargetRow]
  /\ original \subseteq Media
  /\ output \in [Jobs -> SUBSET (1..NFiles)]
  /\ torn \in [Jobs -> SUBSET (1..NFiles)]
  /\ bull \in [Jobs -> [1..MaxAttempts -> BullState]]
  /\ worker \in [Workers -> WorkerSlot]
  /\ req \in [Requests -> RequestSlot]
  /\ crashes \in 0..MaxCrashes

\* A slot or a request in progress names a job, and an upload in progress
\* has a file left.
SlotsNamed ==
  /\ \A w \in Workers :
        /\ worker[w].pc # "idle" => worker[w].job \in Jobs
        /\ worker[w].pc \in {"load", "start", "probe", "encode"} => worker[w].up = 0
        /\ worker[w].pc \in {"upload", "put"} => worker[w].up < Files(worker[w].job)
  /\ \A r \in Requests : req[r].pc # "idle" => req[r].job \in Jobs

TypeInv == TypeOK /\ SlotsNamed

Links(t, j) == target[t].hls = j \/ target[t].remux = j
Running(w, j) == worker[w].job = j /\ worker[w].pc \notin {"idle", "load"}
Handling(r, j) == req[r].job = j /\ req[r].pc # "idle"

\* A content never names an output that was not registered: whichever of the
\* worker, associate and configure attaches it, and however they interleave,
\* they do so only after the transaction that created its MediaFile row.
ContentLinksRegistered ==
  \A t \in Targets, j \in Jobs :
    Links(t, j) => job[j].output /\ outRow[j] = "READY"

\* Why ContentLinksRegistered holds: a request or a worker that attaches an
\* output, or gives up its original, has seen the output registered, and
\* nothing that names a job runs before the job's row exists.
PastCommit == {"reread", "associate", "mark", "settle", "delete", "deleted", "finish"}
PastOutputCheck == {"assoc", "after", "count", "delete", "deleted"}

RowsAgree ==
  /\ \A j \in Jobs : job[j].output <=> outRow[j] = "READY"
  /\ \A j \in Jobs : job[j].assoc => job[j].output
  /\ \A j \in Jobs : job[j].status = "ABSENT" =>
        ~job[j].output /\ \A a \in 1..MaxAttempts : bull[j][a] = "none"

WorkersSaw ==
  \A w \in Workers :
    /\ worker[w].pc # "idle" => job[worker[w].job].status # "ABSENT"
    /\ worker[w].pc \in PastCommit => job[worker[w].job].output

RequestsSaw ==
  \A r \in Requests :
    /\ req[r].pc # "idle" => job[req[r].job].status # "ABSENT"
    /\ req[r].pc \in PastOutputCheck => job[req[r].job].output

OutputInv == RowsAgree /\ WorkersSaw /\ RequestsSaw /\ ContentLinksRegistered

\* The files behind a link are all stored and none is cut short, as long as
\* the job is shown as completed and no catch block is at it: a retried job
\* writes the same keys again, and an error after the registration deletes the
\* files that a content plays, but not behind a job that still says COMPLETED.
LinkedOutputUsable ==
  \A t \in Targets, j \in Jobs :
    Links(t, j) /\ job[j].status = "COMPLETED"
      => \/ output[j] = 1..Files(j) /\ torn[j] = {}
         \/ \E w \in Workers : worker[w].job = j /\ worker[w].pc \in {"clean", "record"}

\* Two slots never process one job: they would share tmp/processing/<id> and
\* the output keys, and each would delete the files of the other.
OneRunner ==
  \A j \in Jobs, v, w \in Workers : Running(v, j) /\ Running(w, j) => v = w

\* A failed or cancelled run deletes what it uploaded: once nobody works on a
\* job whose output is not registered, the only files of it in the storage are
\* those whose own transfer broke off.  These stay: a key is recorded for the
\* catch block when its putFile returns.
NoOrphanOutput ==
  \A j \in Jobs :
    outRow[j] = "NONE" /\ (\A w \in Workers : ~Running(w, j)) => output[j] \subseteq torn[j]

\* A destination set while the job completes is not forgotten: either the
\* worker's second read or configure's returned row sees it.
NoLostAssociation ==
  \A j \in Jobs :
    job[j].status = "COMPLETED" /\ job[j].target # Null
      => \/ job[j].assoc
         \/ \E w \in Workers : Running(w, j)
         \/ \E r \in Requests : Handling(r, j)

\* Jobs that share an original leave its row in a resting state when the last
\* of them ends and nobody works on them any more.
OriginalSettles ==
  \A m \in Media :
    (\A j \in Jobs : MediaOf[j] = m =>
        /\ job[j].status \notin Active
        /\ \A w \in Workers : ~Running(w, j)
        /\ \A r \in Requests : ~Handling(r, j))
      => media[m] \notin {"QUEUED", "PROCESSING"}

\* A job that failed or was cancelled can be retried: its original is still
\* stored, whether the run asked for its removal or not.  Another job of the
\* same original can take it away.
FailedKeepsOriginal ==
  \A j \in Jobs :
    job[j].status \in Retryable /\ ~job[j].output => MediaOf[j] \in original

\* An original is removed only when an output of it is registered and the job
\* that produced the output was attached to a content.
OriginalRemovedAfterAssociation ==
  [][\A m \in original \ original' :
       \E j \in Jobs : MediaOf[j] = m /\ job[j].output /\ job[j].assoc]_vars

\* The automatic removal never takes an original that two contents refer to.
SharedOriginalKept ==
  [][\A m \in original \ original' : ~SharedOriginal(m)]_vars

\* A job that was accepted comes to an end, unless a process dies.
JobsSettle ==
  \A j \in Jobs : job[j].status \in Active ~> job[j].status \notin Active \/ crashes > 0

\* The status and the attempts of a job, as an administrator sees them.
Lifecycle == INSTANCE JobLifecycle WITH
  phase <- [j \in Jobs |-> job[j].status],
  tries <- [j \in Jobs |-> job[j].attempts]

\* One administrator at a time, who does not cancel, sees the promised
\* lifecycle, though BullMQ delivers an entry again after a worker's crash.
FollowsLifecycle == Lifecycle!LifecycleSpec

\* The rows that the rest of the program reads of an output.
Catalogue == INSTANCE OutputCatalogue WITH
  registered <- {j \in Jobs : outRow[j] = "READY"},
  link <- [t \in Targets |-> [k \in {"processed", "remuxed"} |->
             IF k = "processed" THEN target[t].hls ELSE target[t].remux]],
  kept <- original

\* Whatever fails and however requests and workers interleave, outputs and
\* originals change only as OutputCatalogue allows.
ImplementsCatalogue == Catalogue!CatalogueSpec

\* What the documents say and the code does not do.

\* A cancellation flagged while the job is processed ends it.
CancelHonoured ==
  \A j \in Jobs :
    job[j].status = "PROCESSING" /\ job[j].cancel ~> job[j].status # "PROCESSING"

=============================================================================
