--------------------------- MODULE ResumableUpload ---------------------------
(***************************************************************************)
(* A resumable upload, as ResumableUploadService keeps it: a row with the  *)
(* confirmed parts, a session directory with the part files, the assembled *)
(* file, and the video that MediaValidationService stores and registers.   *)
(*                                                                         *)
(* Uploads share nothing but the table, so the module follows one of them. *)
(* Each handler is split where it awaits the database, the disk or the     *)
(* object storage; a request's `pc` names the statement it runs next and   *)
(* `seen` holds the confirmed parts it read.  The client, another tab of   *)
(* it and the hourly timer are the slots of `Requests`.                    *)
(*                                                                         *)
(* Operators whose name ends in "Bug" are plausible mistakes in the        *)
(* definition that follows them; no behaviour uses them.                   *)
(***************************************************************************)
EXTENDS Naturals, Sequences

CONSTANTS
  NParts,     \* totalChunks; the parts are taken to be of equal size
  Versions,   \* contents that a client may send for a part
  Checksum,   \* version the final checksum was computed of, or Null
  Requests,   \* handlers that can be in progress together
  OpsOf,      \* operations each of them serves
  Faults,     \* faults the environment injects
  HlsRefused, \* HLS is disabled and the file is an MKV
  MaxCrashes, \* bound on the crashes of the API process
  Null

AllOps == {"part", "complete", "cancel", "cleanup"}
AllFaults == {"db", "storage", "disk", "media"}

ASSUME UploadAssumption ==
  /\ NParts \in Nat \ {0}
  /\ Checksum \in Versions \cup {Null}
  /\ OpsOf \in [Requests -> SUBSET AllOps]
  /\ Faults \subseteq AllFaults
  /\ HlsRefused \in BOOLEAN
  /\ MaxCrashes \in Nat
  /\ Null \notin Versions

Parts == 0..(NParts - 1)

VARIABLES
  upload,     \* the ResumableUpload row
  part,       \* the part files, by index
  session,    \* the session directory exists
  assembled,  \* the assembled file: part indexes and versions in file order
  video,      \* the stored object, likewise; an absent file is empty
  partial,    \* the stored object holds only the beginning of it
  registered, \* the MediaFile row of the video exists; storageName is unique
  marked,     \* cancelledUploads, in memory, has the upload
  req,        \* handlers in progress
  crashes     \* process crashes so far

vars == <<upload, part, session, assembled, video, partial, registered, marked, req, crashes>>

-----------------------------------------------------------------------------

UploadStatus == {"NONE", "INITIATED", "UPLOADING", "ASSEMBLING",
                 "COMPLETED", "CANCELLED", "EXPIRED"}
Open == {"INITIATED", "UPLOADING"}
ActiveStatuses == Open \cup {"ASSEMBLING"}

UploadRow == [status: UploadStatus, parts: SUBSET Parts, expired: BOOLEAN]

File == Seq(Parts \X Versions)

RequestPC == {"idle", "mkdir", "remove", "rename", "confirm",
              "claim", "clear", "append", "check", "validate", "put", "copy",
              "source", "register", "unput", "enqueue", "finish", "purge", "catch", "recover",
              "removeFiles", "removeParts", "removeAssembled", "record"}

RequestSlot ==
  [pc: RequestPC,
   index: 0..NParts,               \* part received, or number of parts appended
   version: Versions \cup {Null},  \* its content
   seen: SUBSET Parts,             \* uploadedParts read at the beginning
   ending: {"NONE", "CANCELLED", "EXPIRED"}] \* status a removal will record

Slot(pc, i, v, seen) ==
  [pc |-> pc, index |-> i, version |-> v, seen |-> seen, ending |-> "NONE"]
IdleRequest == Slot("idle", 0, Null, {})

NoParts == [i \in Parts |-> Null]

Init ==
  /\ upload = [status |-> "NONE", parts |-> {}, expired |-> FALSE]
  /\ part = NoParts
  /\ session = FALSE
  /\ assembled = <<>>
  /\ video = <<>>
  /\ partial = FALSE
  /\ registered = FALSE
  /\ marked = FALSE
  /\ req = [r \in Requests |-> IdleRequest]
  /\ crashes = 0

Begin(r, op) == op \in OpsOf[r] /\ req[r].pc = "idle" /\ upload.status # "NONE"
Goto(r, pc) == req' = [req EXCEPT ![r].pc = pc]
Removal(status) ==
  [pc |-> "removeFiles", index |-> 0, version |-> Null, seen |-> {}, ending |-> status]
BeginRemoval(r, status) == req' = [req EXCEPT ![r] = Removal(status)]
Reply(r) == req' = [req EXCEPT ![r] = IdleRequest]

FilesStay == UNCHANGED <<part, session, assembled>>
MediaStays == UNCHANGED <<video, partial, registered>>

Initiate ==
  /\ upload.status = "NONE"
  /\ upload' = [upload EXCEPT !.status = "INITIATED"]
  /\ session' = TRUE
  /\ MediaStays /\ UNCHANGED <<part, assembled, marked, req, crashes>>

\* Time passes: expiresAt of an active upload goes by.
Expire ==
  /\ upload.status \in ActiveStatuses
  /\ ~upload.expired
  /\ upload' = [upload EXCEPT !.expired = TRUE]
  /\ FilesStay /\ MediaStays /\ UNCHANGED <<marked, req, crashes>>

Writable == upload.status \in Open /\ ~upload.expired

-----------------------------------------------------------------------------
(* uploadPart *)

\* The row is read and the received bytes match the checksum sent with them.
PartCheck(r, i, v) ==
  /\ Begin(r, "part")
  /\ Writable
  /\ req' = [req EXCEPT ![r] = Slot("mkdir", i, v, upload.parts)]
  /\ FilesStay /\ MediaStays /\ UNCHANGED <<upload, marked, crashes>>

\* A confirmed part is received as if it were new.
PartMkdirBug(r) ==
  /\ req[r].pc = "mkdir"
  /\ session' = TRUE
  /\ Goto(r, "remove")
  /\ MediaStays /\ UNCHANGED <<upload, part, assembled, marked, crashes>>

\* The session directory is made again.  A part that was confirmed when the
\* row was read is compared with its file and, equal or not, not written.
PartMkdir(r) ==
  /\ req[r].pc = "mkdir"
  /\ session' = TRUE
  /\ IF req[r].index \in req[r].seen THEN Reply(r) ELSE Goto(r, "remove")
  /\ MediaStays /\ UNCHANGED <<upload, part, assembled, marked, crashes>>

\* The part is confirmed before its file is written.
PartRemoveBug(r) ==
  /\ req[r].pc = "remove"
  /\ part' = [part EXCEPT ![req[r].index] = Null]
  /\ upload' = [status |-> "UPLOADING", parts |-> req[r].seen \cup {req[r].index},
                expired |-> FALSE]
  /\ Reply(r)
  /\ MediaStays /\ UNCHANGED <<session, assembled, marked, crashes>>

PartRemove(r) ==
  /\ req[r].pc = "remove"
  /\ part' = [part EXCEPT ![req[r].index] = Null]
  /\ Goto(r, "rename")
  /\ MediaStays /\ UNCHANGED <<upload, session, assembled, marked, crashes>>

\* The rename fails when the session directory is gone.
PartRename(r) ==
  /\ req[r].pc = "rename"
  /\ IF session
       THEN part' = [part EXCEPT ![req[r].index] = req[r].version] /\ Goto(r, "confirm")
       ELSE UNCHANGED part /\ Reply(r)
  /\ MediaStays /\ UNCHANGED <<upload, session, assembled, marked, crashes>>

\* uploadedParts is what was read at the beginning and the new part.
PartConfirm(r) ==
  /\ req[r].pc = "confirm"
  /\ upload' = [status |-> "UPLOADING", parts |-> req[r].seen \cup {req[r].index},
                expired |-> FALSE]
  /\ Reply(r)
  /\ FilesStay /\ MediaStays /\ UNCHANGED <<marked, crashes>>

PartFails(r) ==
  /\ \/ req[r].pc \in {"mkdir", "remove", "rename"} /\ "disk" \in Faults
     \/ req[r].pc = "confirm" /\ "db" \in Faults
  /\ Reply(r)
  /\ FilesStay /\ MediaStays /\ UNCHANGED <<upload, marked, crashes>>

-----------------------------------------------------------------------------
(* complete *)

CompleteCheck(r) ==
  /\ Begin(r, "complete")
  /\ Writable
  /\ upload.parts = Parts
  /\ req' = [req EXCEPT ![r] = Slot("claim", 0, Null, Parts)]
  /\ FilesStay /\ MediaStays /\ UNCHANGED <<upload, marked, crashes>>

\* The conditional update: only one request finds the row open.
Claim(r) ==
  /\ req[r].pc = "claim"
  /\ IF upload.status \in Open
       THEN upload' = [upload EXCEPT !.status = "ASSEMBLING"] /\ Goto(r, "clear")
       ELSE UNCHANGED upload /\ Reply(r)
  /\ FilesStay /\ MediaStays /\ UNCHANGED <<marked, crashes>>

ClearAssembled(r) ==
  /\ req[r].pc = "clear"
  /\ assembled' = <<>>
  /\ Goto(r, "append")
  /\ MediaStays /\ UNCHANGED <<upload, part, session, marked, crashes>>

AppendPart(r) ==
  LET i == req[r].index IN
  /\ req[r].pc = "append"
  /\ ~marked
  /\ part[i] # Null
  /\ assembled' = Append(assembled, <<i, part[i]>>)
  /\ req' = [req EXCEPT ![r].index = i + 1,
                        ![r].pc = IF i + 1 = NParts THEN "check" ELSE "append"]
  /\ MediaStays /\ UNCHANGED <<upload, part, session, marked, crashes>>

RightSize == Len(assembled) = NParts

\* Only the size is looked at.
RightChecksumBug == Checksum # Null => RightSize

RightChecksum ==
  Checksum # Null =>
    /\ RightSize
    /\ \A k \in 1..NParts : assembled[k] = <<k - 1, Checksum>>

\* Size, checksum and the mark of a cancellation.
CheckAssembled(r) ==
  /\ req[r].pc = "check"
  /\ RightSize
  /\ RightChecksum
  /\ ~marked
  /\ Goto(r, "validate")
  /\ FilesStay /\ MediaStays /\ UNCHANGED <<upload, marked, crashes>>

\* FFprobe and the container signature: the model does not say which contents
\* they accept, so nothing may rest on them.
Validate(r) ==
  /\ req[r].pc = "validate"
  /\ assembled # <<>>
  /\ Goto(r, "put")
  /\ FilesStay /\ MediaStays /\ UNCHANGED <<upload, marked, crashes>>

\* putFile copies the file over the object of an earlier attempt, which has
\* the same key; an upload to S3 that does not end leaves that object alone.
Put(r) ==
  /\ req[r].pc = "put"
  /\ assembled # <<>>
  /\ video' = assembled
  /\ partial' = TRUE
  /\ Goto(r, "copy")
  /\ FilesStay /\ UNCHANGED <<upload, registered, marked, crashes>>

\* The error of a copy that ended early is not thrown.
CopyEndsBug(r) ==
  /\ req[r].pc = "copy"
  /\ \/ partial' = FALSE
     \/ "storage" \in Faults /\ UNCHANGED partial
  /\ Goto(r, "source")
  /\ FilesStay /\ UNCHANGED <<upload, video, registered, marked, crashes>>

CopyEnds(r) ==
  /\ req[r].pc = "copy"
  /\ partial' = FALSE
  /\ Goto(r, "source")
  /\ FilesStay /\ UNCHANGED <<upload, video, registered, marked, crashes>>

RemoveSource(r) ==
  /\ req[r].pc = "source"
  /\ assembled' = <<>>
  /\ Goto(r, "register")
  /\ MediaStays /\ UNCHANGED <<upload, part, session, marked, crashes>>

\* A second row is created for the same storageName.
RegisterBug(r) ==
  /\ req[r].pc = "register"
  /\ registered' = TRUE
  /\ Goto(r, "enqueue")
  /\ FilesStay /\ UNCHANGED <<upload, video, partial, marked, crashes>>

Register(r) ==
  /\ req[r].pc = "register"
  /\ ~registered
  /\ registered' = TRUE
  /\ Goto(r, "enqueue")
  /\ FilesStay /\ UNCHANGED <<upload, video, partial, marked, crashes>>

\* The row is not created, so the object is removed.
RegisterRefused(r) ==
  /\ req[r].pc = "register"
  /\ registered \/ "db" \in Faults
  /\ Goto(r, "unput")
  /\ FilesStay /\ MediaStays /\ UNCHANGED <<upload, marked, crashes>>

\* The error is not thrown again.
UnputBug(r) ==
  /\ req[r].pc = "unput"
  /\ video' = <<>>
  /\ partial' = FALSE
  /\ Goto(r, "enqueue")
  /\ FilesStay /\ UNCHANGED <<upload, registered, marked, crashes>>

\* An error of the removal is swallowed.
Unput(r) ==
  /\ req[r].pc = "unput"
  /\ \/ video' = <<>> /\ partial' = FALSE
     \/ "storage" \in Faults /\ UNCHANGED <<video, partial>>
  /\ Goto(r, "catch")
  /\ FilesStay /\ UNCHANGED <<upload, registered, marked, crashes>>

\* enqueue or enqueueRemux, or nothing in ORIGINAL mode: VideoProcessing's part.
EnqueueProcessing(r) ==
  /\ req[r].pc = "enqueue"
  /\ Goto(r, "finish")
  /\ FilesStay /\ MediaStays /\ UNCHANGED <<upload, marked, crashes>>

Finish(r) ==
  /\ req[r].pc = "finish"
  /\ upload' = [upload EXCEPT !.status = "COMPLETED", !.expired = TRUE]
  /\ Goto(r, "purge")
  /\ FilesStay /\ MediaStays /\ UNCHANGED <<marked, crashes>>

Purge(r) ==
  /\ req[r].pc = "purge"
  /\ part' = NoParts
  /\ session' = FALSE
  /\ Reply(r)
  /\ MediaStays /\ UNCHANGED <<upload, assembled, marked, crashes>>

\* The removal stops somewhere, after the upload was completed.
PurgeFails(r) ==
  /\ req[r].pc = "purge"
  /\ "disk" \in Faults
  /\ \E gone \in SUBSET Parts : part' = [i \in Parts |-> IF i \in gone THEN Null ELSE part[i]]
  /\ Goto(r, "catch")
  /\ MediaStays /\ UNCHANGED <<upload, session, assembled, marked, crashes>>

\* Everything after the claim that throws reaches the catch block: also an
\* error of putFile, whose object, begun or whole, stays.
AssemblyFails(r) ==
  /\ \/ req[r].pc \in {"clear", "append", "check", "source"} /\ "disk" \in Faults
     \/ req[r].pc = "append" /\ (marked \/ part[req[r].index] = Null)
     \/ req[r].pc = "check" /\ ~(RightSize /\ RightChecksum /\ ~marked)
     \/ req[r].pc = "validate" /\ (assembled = <<>> \/ "media" \in Faults)
     \/ req[r].pc = "put" /\ (assembled = <<>> \/ "storage" \in Faults)
     \/ req[r].pc = "copy" /\ "storage" \in Faults
     \/ req[r].pc = "enqueue" /\ (HlsRefused \/ "db" \in Faults)
     \/ req[r].pc = "finish" /\ "db" \in Faults
  /\ Goto(r, "catch")
  /\ FilesStay /\ MediaStays /\ UNCHANGED <<upload, marked, crashes>>

\* An error of the removal is swallowed.
Catch(r) ==
  /\ req[r].pc = "catch"
  /\ \/ assembled' = <<>>
     \/ "disk" \in Faults /\ UNCHANGED assembled
  /\ Goto(r, "recover")
  /\ MediaStays /\ UNCHANGED <<upload, part, session, marked, crashes>>

\* The upload is open again, also a completed one, unless a cancellation had
\* marked it; an error of this update is swallowed.
Recover(r) ==
  /\ req[r].pc = "recover"
  /\ marked' = FALSE
  /\ \/ ~marked /\ upload' = [upload EXCEPT !.status = "UPLOADING", !.expired = FALSE]
     \/ (marked \/ "db" \in Faults) /\ UNCHANGED upload
  /\ Reply(r)
  /\ FilesStay /\ MediaStays /\ UNCHANGED crashes

-----------------------------------------------------------------------------
(* cancel and cleanupExpired *)

CancelCheck(r) ==
  /\ Begin(r, "cancel")
  /\ upload.status # "COMPLETED"
  /\ marked' = (marked \/ upload.status = "ASSEMBLING")
  /\ BeginRemoval(r, "CANCELLED")
  /\ FilesStay /\ MediaStays /\ UNCHANGED <<upload, crashes>>

\* Assemblies are left to their handlers, which a crash may have ended.
CleanupCheckBug(r) ==
  /\ Begin(r, "cleanup")
  /\ upload.expired
  /\ upload.status \in Open
  /\ BeginRemoval(r, "EXPIRED")
  /\ FilesStay /\ MediaStays /\ UNCHANGED <<upload, marked, crashes>>

\* The timer, initiate and list look for expired uploads.
CleanupCheck(r) ==
  /\ Begin(r, "cleanup")
  /\ upload.expired
  /\ upload.status \in ActiveStatuses
  /\ BeginRemoval(r, "EXPIRED")
  /\ FilesStay /\ MediaStays /\ UNCHANGED <<upload, marked, crashes>>

\* The session directory and the assembled file are removed side by side.
RemoveParts(r) ==
  /\ req[r].pc \in {"removeFiles", "removeParts"}
  /\ part' = NoParts
  /\ session' = FALSE
  /\ Goto(r, IF req[r].pc = "removeFiles" THEN "removeAssembled" ELSE "record")
  /\ MediaStays /\ UNCHANGED <<upload, assembled, marked, crashes>>

RemoveAssembled(r) ==
  /\ req[r].pc \in {"removeFiles", "removeAssembled"}
  /\ assembled' = <<>>
  /\ Goto(r, IF req[r].pc = "removeFiles" THEN "removeParts" ELSE "record")
  /\ MediaStays /\ UNCHANGED <<upload, part, session, marked, crashes>>

\* A cancellation also sets expiresAt.
RecordEnd(r) ==
  /\ req[r].pc = "record"
  /\ upload' = [upload EXCEPT !.status = req[r].ending,
                             !.expired = @ \/ req[r].ending = "CANCELLED"]
  /\ Reply(r)
  /\ FilesStay /\ MediaStays /\ UNCHANGED <<marked, crashes>>

\* The API process dies with its requests and its memory.
Crash ==
  /\ crashes < MaxCrashes
  /\ \E r \in Requests : req[r].pc # "idle"
  /\ crashes' = crashes + 1
  /\ req' = [r \in Requests |-> IdleRequest]
  /\ marked' = FALSE
  /\ FilesStay /\ MediaStays /\ UNCHANGED upload

-----------------------------------------------------------------------------

Begins(r) ==
  \/ \E i \in Parts, v \in Versions : PartCheck(r, i, v)
  \/ CompleteCheck(r)
  \/ CancelCheck(r)

PartStep(r) == PartMkdir(r) \/ PartRemove(r) \/ PartRename(r) \/ PartConfirm(r) \/ PartFails(r)

CompleteStep(r) ==
  \/ Claim(r) \/ ClearAssembled(r) \/ AppendPart(r) \/ CheckAssembled(r)
  \/ Validate(r) \/ Put(r) \/ CopyEnds(r) \/ RemoveSource(r)
  \/ Register(r) \/ RegisterRefused(r) \/ Unput(r)
  \/ EnqueueProcessing(r) \/ Finish(r) \/ Purge(r) \/ PurgeFails(r)
  \/ AssemblyFails(r) \/ Catch(r) \/ Recover(r)

RemovalStep(r) == RemoveParts(r) \/ RemoveAssembled(r) \/ RecordEnd(r)

RequestStep(r) == PartStep(r) \/ CompleteStep(r) \/ RemovalStep(r)

Next ==
  \/ Initiate \/ Expire \/ Crash
  \/ \E r \in Requests : Begins(r) \/ CleanupCheck(r) \/ RequestStep(r)

Spec == Init /\ [][Next]_vars

\* A handler goes on, time passes and the hourly timer fires; no client has
\* to act.
Fairness ==
  /\ WF_vars(Expire)
  /\ \A r \in Requests : WF_vars(RequestStep(r) \/ CleanupCheck(r))

FairSpec == Spec /\ Fairness

-----------------------------------------------------------------------------
(* Properties *)

\* Every variable keeps its type.
UploadTypeOK ==
  /\ upload \in UploadRow
  /\ part \in [Parts -> Versions \cup {Null}]
  /\ session \in BOOLEAN
  /\ assembled \in File
  /\ video \in File
  /\ partial \in BOOLEAN
  /\ registered \in BOOLEAN
  /\ marked \in BOOLEAN
  /\ req \in [Requests -> RequestSlot]
  /\ crashes \in 0..MaxCrashes

\* A video has every part, in order.
InOrder(f) == \A k \in 1..Len(f) : f[k][1] = k - 1
Whole(f) == Len(f) = NParts /\ InOrder(f)

\* The video of a row is whole when the row is created, though a cancellation,
\* a cleanup or a late part changes the files while they are appended, and a
\* copy breaks off: the size check sees it, the file is missed, or no row is
\* created.  It takes that assemblies of the upload do not overlap.
RegisteredWhole ==
  [][~registered /\ registered' => ~partial' /\ Whole(video')]_vars

\* With a final checksum what is stored is the declared video or the beginning
\* of it, though parts of another file were confirmed under it.
StoredAsDeclared ==
  Checksum # Null /\ video # <<>> => \A k \in 1..Len(video) : video[k][2] = Checksum

\* A completed upload has its registered, whole video; a retry after a failure
\* past the registration, which copies over that video and which the unique
\* storageName refuses, never completes.
CompletedRegistered ==
  upload.status = "COMPLETED" => registered /\ ~partial /\ Whole(video)

\* The handler of a part does not touch the file of a confirmed one, equal or
\* not: it goes with the session directory or not at all.
ConfirmedUnchanged ==
  [][\A r \in Requests : req[r].pc \in {"remove", "rename"} /\ req'[r] # req[r] =>
       \A i \in upload.parts : part'[i] = part[i]]_vars

\* An assembly ends: it completes, fails, is cancelled, or, when the process
\* died under it, expires.
AssemblySettles == upload.status = "ASSEMBLING" ~> upload.status # "ASSEMBLING"

\* The status an administrator sees, and whether the video is registered: by an
\* assembly that may still complete the upload, or by one that is over.
Session == INSTANCE UploadSession WITH
  phase <- IF upload.status \in Open THEN "OPEN" ELSE upload.status,
  published <- CASE ~registered -> "NO"
                 [] registered /\ (\E r \in Requests : req[r].pc \in {"enqueue", "finish"}) -> "NOW"
                 [] OTHER -> "BEFORE"

\* However requests overlap, fail or die with the process, an upload is
\* completed at most once, by the assembly that registered its video.
ImplementsSession == Session!SessionSpec

=============================================================================
