----------------------- MODULE VideoProcessingOutputs ------------------------
(***************************************************************************)
(* The types of VideoProcessing and what the pipeline promises of an       *)
(* output, for every value of the constants.                               *)
(*                                                                         *)
(* TypeOK is not inductive as it stands: a slot that is not idle must also *)
(* name a job, and an upload must have a file left (SlotsNamed).  The      *)
(* proof treats the rows, the worker's slots and the requests apart,       *)
(* because most actions touch only one of them.                            *)
(*                                                                         *)
(* ContentLinksRegistered is not inductive either: that a content names a  *)
(* registered output follows from what the worker or request that attached *)
(* it had seen, so OutputInv adds what each program counter implies of the *)
(* rows.  No row of a job and no output is ever taken back (Grows), so     *)
(* what a slot or request saw stays true while others run between its      *)
(* statements.                                                             *)
(***************************************************************************)
EXTENDS VideoProcessing, TLAPS

RowsOK ==
  /\ job \in [Jobs -> JobRow]
  /\ media \in [Media -> {"READY", "QUEUED", "PROCESSING", "FAILED", "DELETED"}]
  /\ outRow \in [Jobs -> {"NONE", "READY"}]
  /\ target \in [Targets -> TargetRow]
  /\ original \subseteq Media
  /\ output \in [Jobs -> SUBSET (1..NFiles)]
  /\ torn \in [Jobs -> SUBSET (1..NFiles)]
  /\ bull \in [Jobs -> [1..MaxAttempts -> BullState]]
  /\ crashes \in 0..MaxCrashes

SlotNamed(s) ==
  /\ s.pc # "idle" => s.job \in Jobs
  /\ s.pc \in {"load", "start", "probe", "encode"} => s.up = 0
  /\ s.pc \in {"upload", "put"} => s.up < Files(s.job)

WorkersOK ==
  /\ worker \in [Workers -> WorkerSlot]
  /\ \A w \in Workers : SlotNamed(worker[w])

RequestsOK ==
  /\ req \in [Requests -> RequestSlot]
  /\ \A r \in Requests : req[r].pc # "idle" => req[r].job \in Jobs

\* The inductive invariant.
TypeParts == RowsOK /\ WorkersOK /\ RequestsOK

\* TypeInv is the conjunction of what is said of the rows, of the slots and
\* of the requests.
LEMMA TypeInvParts == TypeInv <=> TypeParts
  BY DEF TypeInv, TypeOK, SlotsNamed, TypeParts, RowsOK, WorkersOK, RequestsOK, SlotNamed

\* A job row stays a job row when one of its columns is assigned.
LEMMA JobColumns ==
  ASSUME NEW f \in [Jobs -> JobRow], NEW j \in Jobs
  PROVE  /\ \A x \in JobStatus : [f EXCEPT ![j].status = x] \in [Jobs -> JobRow]
         /\ \A x \in 0..MaxAttempts : /\ [f EXCEPT ![j].attempts = x] \in [Jobs -> JobRow]
                                      /\ [f EXCEPT ![j].qid = x] \in [Jobs -> JobRow]
         /\ \A x \in BOOLEAN : /\ [f EXCEPT ![j].cancel = x] \in [Jobs -> JobRow]
                               /\ [f EXCEPT ![j].retain = x] \in [Jobs -> JobRow]
                               /\ [f EXCEPT ![j].assoc = x] \in [Jobs -> JobRow]
                               /\ [f EXCEPT ![j].output = x] \in [Jobs -> JobRow]
         /\ \A x \in Targets \cup {Null} : [f EXCEPT ![j].target = x] \in [Jobs -> JobRow]
<1>1. \A x \in JobStatus : [f EXCEPT ![j].status = x] \in [Jobs -> JobRow]
  BY DEF JobRow
<1>2. \A x \in 0..MaxAttempts : [f EXCEPT ![j].attempts = x] \in [Jobs -> JobRow]
  BY DEF JobRow
<1>3. \A x \in 0..MaxAttempts : [f EXCEPT ![j].qid = x] \in [Jobs -> JobRow]
  BY DEF JobRow
<1>4. \A x \in BOOLEAN : [f EXCEPT ![j].cancel = x] \in [Jobs -> JobRow]
  BY DEF JobRow
<1>5. \A x \in BOOLEAN : [f EXCEPT ![j].retain = x] \in [Jobs -> JobRow]
  BY DEF JobRow
<1>6. \A x \in BOOLEAN : [f EXCEPT ![j].assoc = x] \in [Jobs -> JobRow]
  BY DEF JobRow
<1>7. \A x \in BOOLEAN : [f EXCEPT ![j].output = x] \in [Jobs -> JobRow]
  BY DEF JobRow
<1>8. \A x \in Targets \cup {Null} : [f EXCEPT ![j].target = x] \in [Jobs -> JobRow]
  BY DEF JobRow
<1>9. QED
  BY <1>1, <1>2, <1>3, <1>4, <1>5, <1>6, <1>7, <1>8

\* The row enqueueKind creates is a job row.
LEMMA NewJobType ==
  ASSUME NEW t \in Targets \cup {Null}, NEW keep \in BOOLEAN
  PROVE  NewJob(t, keep) \in JobRow
  BY BoundAssumption DEF JobRow, JobStatus, NewJob

\* The columns written by an association are columns of a content.
LEMMA LinkedType ==
  ASSUME RowsOK, NEW t \in Targets, NEW j \in Jobs
  PROVE  Linked(t, j) \in TargetRow
  BY PoolAssumption DEF RowsOK, TargetRow, Linked

\* A slot that a delivery has just filled is a slot.
LEMMA SlotType ==
  ASSUME NEW pc \in WorkerPC, NEW j \in Jobs \cup {Null}, NEW a \in 0..MaxAttempts
  PROVE  Slot(pc, j, a) \in WorkerSlot
<1>1. 0 \in 0..NFiles
  BY BoundAssumption
<1>2. QED
  BY <1>1 DEF Slot, WorkerSlot, Retryable

\* A request as its first statements leave it is a request.
LEMMA PendingType ==
  ASSUME NEW pc \in RequestPC, NEW j \in Jobs \cup {Null}, NEW a \in 0..MaxAttempts,
         NEW t \in Targets \cup {Null}, NEW keep \in BOOLEAN \cup {Null}
  PROVE  Pending(pc, j, a, t, keep) \in RequestSlot
  BY DEF Pending, RequestSlot

\* The idle slot and the idle request are typed and idle.
LEMMA IdleTypes ==
  /\ IdleWorker \in WorkerSlot /\ IdleWorker.pc = "idle"
  /\ IdleRequest \in RequestSlot /\ IdleRequest.pc = "idle"
<1>1. /\ "idle" \in WorkerPC /\ "idle" \in RequestPC /\ 0 \in 0..MaxAttempts
  BY BoundAssumption DEF WorkerPC, RequestPC
<1>2. IdleWorker \in WorkerSlot /\ IdleRequest \in RequestSlot
  BY <1>1, SlotType, PendingType DEF IdleWorker, IdleRequest
<1>3. QED
  BY <1>2 DEF IdleWorker, IdleRequest, Slot, Pending

-----------------------------------------------------------------------------
(* How the program counters move. *)

\* A slot that moves to its next statement keeps its type.
LEMMA AtTypes ==
  ASSUME WorkersOK, NEW w \in Workers, worker[w].pc # "idle",
         NEW pc \in WorkerPC, At(w, pc),
         pc \in {"load", "start", "probe", "encode"} => worker[w].up = 0,
         pc \in {"upload", "put"} => worker[w].up < Files(worker[w].job)
  PROVE  WorkersOK'
<1>1. worker' \in [Workers -> WorkerSlot]
  BY DEF WorkersOK, At, WorkerSlot
<1>2. ASSUME NEW v \in Workers PROVE SlotNamed(worker[v])'
  <2>1. CASE v = w
    BY <2>1 DEF WorkersOK, At, WorkerSlot, SlotNamed, Files
  <2>2. CASE v # w
    BY <2>2 DEF WorkersOK, At, WorkerSlot, SlotNamed, Files
  <2>3. QED
    BY <2>1, <2>2
<1>3. QED
  BY <1>1, <1>2 DEF WorkersOK

\* So does a slot that falls into the catch block.
LEMMA CatchTypes ==
  ASSUME WorkersOK, NEW w \in Workers, worker[w].pc # "idle",
         NEW outcome \in Retryable, ToCatch(w, outcome)
  PROVE  WorkersOK'
<1>1. "clean" \in WorkerPC
  BY DEF WorkerPC
<1>2. worker' \in [Workers -> WorkerSlot]
  BY <1>1 DEF WorkersOK, ToCatch, WorkerSlot
<1>3. ASSUME NEW v \in Workers PROVE SlotNamed(worker[v])'
  <2>1. CASE v = w
    BY <2>1 DEF WorkersOK, ToCatch, WorkerSlot, SlotNamed, Files
  <2>2. CASE v # w
    BY <2>2 DEF WorkersOK, ToCatch, WorkerSlot, SlotNamed, Files
  <2>3. QED
    BY <2>1, <2>2
<1>4. QED
  BY <1>2, <1>3 DEF WorkersOK

\* So do the slot and the queue entry when process returns or throws.
LEMMA ReleaseTypes ==
  ASSUME RowsOK, WorkersOK, NEW w \in Workers, Release(w)
  PROVE  WorkersOK' /\ bull' \in [Jobs -> [1..MaxAttempts -> BullState]]
<1>1. WorkersOK'
  BY IdleTypes DEF WorkersOK, Release, SlotNamed, Files
<1>2. bull' \in [Jobs -> [1..MaxAttempts -> BullState]]
  BY DEF RowsOK, Release, BullState
<1>3. QED
  BY <1>1, <1>2

\* A request that moves to its next statement keeps its type.
LEMMA GotoTypes ==
  ASSUME RequestsOK, NEW r \in Requests, req[r].pc # "idle",
         NEW pc \in RequestPC, Goto(r, pc)
  PROVE  RequestsOK'
  BY DEF RequestsOK, Goto, RequestSlot

\* So does a request that is answered.
LEMMA ReplyTypes ==
  ASSUME RequestsOK, NEW r \in Requests, Reply(r)
  PROVE  RequestsOK'
  BY IdleTypes DEF RequestsOK, Reply

-----------------------------------------------------------------------------
(* The worker's steps. *)

\* A statement of a worker, or its crash, keeps every type.
LEMMA WorkerTypes ==
  ASSUME TypeParts, NEW w \in Workers, WorkerStep(w) \/ WorkerLost(w)
  PROVE  TypeParts'
<1>0. /\ RowsOK /\ WorkersOK /\ RequestsOK
      /\ worker[w] \in WorkerSlot /\ SlotNamed(worker[w])
  BY DEF TypeParts, WorkersOK
<1>1. CASE \E j \in Jobs, a \in 1..MaxAttempts : Take(w, j, a)
  <2>1. PICK j \in Jobs, a \in 1..MaxAttempts : Take(w, j, a)
    BY <1>1
  <2>2. Slot("load", j, a) \in WorkerSlot /\ SlotNamed(Slot("load", j, a))
    BY SlotType, BoundAssumption DEF WorkerPC, Slot, SlotNamed
  <2>3. WorkersOK'
    BY <1>0, <2>1, <2>2 DEF WorkersOK, Take, SlotNamed, Files
  <2>4. RowsOK' /\ RequestsOK'
    BY <1>0, <2>1 DEF RowsOK, RequestsOK, Take, BullState
  <2>5. QED
    BY <2>3, <2>4 DEF TypeParts
<1>2. CASE Load(w)
  <2>1. RowsOK'
    BY <1>0, <1>2, ReleaseTypes DEF RowsOK, Load, WorkerSlot, SlotNamed
  <2>2. WorkersOK'
    BY <1>0, <1>2, AtTypes, ReleaseTypes DEF Load, WorkerPC, SlotNamed
  <2>3. RequestsOK'
    BY <1>0, <1>2 DEF RequestsOK, Load
  <2>4. QED
    BY <2>1, <2>2, <2>3 DEF TypeParts
<1>3. CASE Start(w)
  <2>1. RowsOK'
    <3>1. job' \in [Jobs -> JobRow]
      BY <1>0, <1>3, JobColumns DEF RowsOK, Start, JobStatus, WorkerSlot, SlotNamed
    <3>2. QED
      BY <1>0, <1>3, <3>1 DEF RowsOK, Start, WorkerSlot, SlotNamed
  <2>2. WorkersOK'
    BY <1>0, <1>3, AtTypes DEF Start, WorkerPC, SlotNamed
  <2>3. RequestsOK'
    BY <1>0, <1>3 DEF RequestsOK, Start
  <2>4. QED
    BY <2>1, <2>2, <2>3 DEF TypeParts
<1>4. CASE Probe(w)
  <2>1. RowsOK'
    BY <1>0, <1>4 DEF RowsOK, Probe, WorkerSlot, SlotNamed
  <2>2. WorkersOK'
    BY <1>0, <1>4, AtTypes DEF Probe, WorkerPC, SlotNamed
  <2>3. RequestsOK'
    BY <1>0, <1>4 DEF RequestsOK, Probe
  <2>4. QED
    BY <2>1, <2>2, <2>3 DEF TypeParts
<1>5. CASE Encode(w)
  <2>1. RowsOK'
    BY <1>0, <1>5 DEF RowsOK, Encode, WorkerSlot, SlotNamed
  <2>2. WorkersOK'
    BY <1>0, <1>5, AtTypes, BoundAssumption DEF Encode, WorkerPC, Files, SlotNamed
  <2>3. RequestsOK'
    BY <1>0, <1>5 DEF RequestsOK, Encode
  <2>4. QED
    BY <2>1, <2>2, <2>3 DEF TypeParts
<1>6. CASE Upload(w) \/ Uploaded(w)
  <2>0. /\ worker[w].up + 1 \in 1..NFiles
        /\ worker[w].up + 1 # Files(worker[w].job) => worker[w].up + 1 < Files(worker[w].job)
    BY <1>0, <1>6, BoundAssumption DEF Upload, Uploaded, SlotNamed, Files, WorkerSlot
  <2>1. RowsOK'
    <3>1. worker[w].job \in Jobs /\ UNCHANGED <<job, media, outRow, target, original, bull, crashes>>
      BY <1>0, <1>6 DEF Upload, Uploaded, SlotNamed
    <3>2. /\ output' \in [Jobs -> SUBSET (1..NFiles)]
          /\ torn' \in [Jobs -> SUBSET (1..NFiles)]
      <4>1. CASE Upload(w)
        BY <1>0, <2>0, <3>1, <4>1 DEF RowsOK, Upload
      <4>2. CASE Uploaded(w)
        BY <1>0, <2>0, <3>1, <4>2 DEF RowsOK, Uploaded
      <4>3. QED
        BY <1>6, <4>1, <4>2
    <3>3. QED
      BY <1>0, <3>1, <3>2 DEF RowsOK
  <2>2. WorkersOK'
    <3>1. CASE Upload(w)
      BY <1>0, <3>1, AtTypes DEF Upload, WorkerPC, SlotNamed
    <3>2. CASE Uploaded(w)
      <4>1. worker' \in [Workers -> WorkerSlot]
        BY <1>0, <2>0, <3>2 DEF WorkersOK, Uploaded, WorkerSlot, WorkerPC
      <4>2. ASSUME NEW v \in Workers PROVE SlotNamed(worker[v])'
        <5>1. CASE v = w
          BY <1>0, <2>0, <3>2, <5>1 DEF WorkersOK, Uploaded, WorkerSlot, SlotNamed, Files
        <5>2. CASE v # w
          BY <1>0, <3>2, <5>2 DEF WorkersOK, Uploaded, WorkerSlot, SlotNamed, Files
        <5>3. QED
          BY <5>1, <5>2
      <4>3. QED
        BY <4>1, <4>2 DEF WorkersOK
    <3>3. QED
      BY <1>6, <3>1, <3>2
  <2>3. RequestsOK'
    BY <1>0, <1>6 DEF RequestsOK, Upload, Uploaded
  <2>4. QED
    BY <2>1, <2>2, <2>3 DEF TypeParts
<1>7. CASE Cancelled(w)
  <2>1. RowsOK'
    BY <1>0, <1>7 DEF RowsOK, Cancelled, WorkerSlot, SlotNamed
  <2>2. WorkersOK'
    BY <1>0, <1>7, CatchTypes DEF Cancelled, Retryable, SlotNamed
  <2>3. RequestsOK'
    BY <1>0, <1>7 DEF RequestsOK, Cancelled
  <2>4. QED
    BY <2>1, <2>2, <2>3 DEF TypeParts
<1>8. CASE Fails(w)
  <2>1. RowsOK'
    BY <1>0, <1>8 DEF RowsOK, Fails, WorkerSlot, SlotNamed
  <2>2. WorkersOK'
    BY <1>0, <1>8, CatchTypes DEF Fails, Retryable, SlotNamed
  <2>3. RequestsOK'
    BY <1>0, <1>8 DEF RequestsOK, Fails
  <2>4. QED
    BY <2>1, <2>2, <2>3 DEF TypeParts
<1>9. CASE Commit(w)
  <2>1. RowsOK'
    <3>1. job' \in [Jobs -> JobRow]
      BY <1>0, <1>9, JobColumns DEF RowsOK, Commit, JobStatus, WorkerSlot, SlotNamed
    <3>2. QED
      BY <1>0, <1>9, <3>1 DEF RowsOK, Commit, WorkerSlot, SlotNamed
  <2>2. WorkersOK'
    <3>1. worker' \in [Workers -> WorkerSlot]
      BY <1>0, <1>9 DEF WorkersOK, RowsOK, JobRow, Commit, WorkerSlot, WorkerPC, SlotNamed
    <3>2. ASSUME NEW v \in Workers PROVE SlotNamed(worker[v])'
      BY <1>0, <1>9 DEF WorkersOK, Commit, WorkerSlot, SlotNamed, Files
    <3>3. QED
      BY <3>1, <3>2 DEF WorkersOK
  <2>3. RequestsOK'
    BY <1>0, <1>9 DEF RequestsOK, Commit
  <2>4. QED
    BY <2>1, <2>2, <2>3 DEF TypeParts
<1>10. CASE CommitRefused(w)
  <2>1. RowsOK'
    BY <1>0, <1>10 DEF RowsOK, CommitRefused, WorkerSlot, SlotNamed
  <2>2. WorkersOK'
    BY <1>0, <1>10, CatchTypes DEF CommitRefused, Retryable, SlotNamed
  <2>3. RequestsOK'
    BY <1>0, <1>10 DEF RequestsOK, CommitRefused
  <2>4. QED
    BY <2>1, <2>2, <2>3 DEF TypeParts
<1>11. CASE Reread(w)
  <2>1. RowsOK'
    BY <1>0, <1>11 DEF RowsOK, Reread, WorkerSlot, SlotNamed
  <2>2. WorkersOK'
    <3>1. worker' \in [Workers -> WorkerSlot]
      BY <1>0, <1>11 DEF WorkersOK, RowsOK, JobRow, Reread, WorkerSlot, WorkerPC, SlotNamed
    <3>2. ASSUME NEW v \in Workers PROVE SlotNamed(worker[v])'
      BY <1>0, <1>11 DEF WorkersOK, Reread, WorkerSlot, SlotNamed, Files
    <3>3. QED
      BY <3>1, <3>2 DEF WorkersOK
  <2>3. RequestsOK'
    BY <1>0, <1>11 DEF RequestsOK, Reread
  <2>4. QED
    BY <2>1, <2>2, <2>3 DEF TypeParts
<1>12. CASE AssociateOutput(w)
  <2>1. RowsOK'
    <3>1. job' \in [Jobs -> JobRow]
      <4>1. /\ worker[w].job \in Jobs /\ job \in [Jobs -> JobRow]
            /\ (job[worker[w].job].assoc \/ job[worker[w].job].target = worker[w].dest) \in BOOLEAN
        BY <1>0, <1>12 DEF RowsOK, AssociateOutput, SlotNamed
      <4>2. CASE KindOf[worker[w].job] = "HLS"
        <5>1. job' = [job EXCEPT ![worker[w].job].assoc =
                        job[worker[w].job].assoc \/ job[worker[w].job].target = worker[w].dest]
          BY <1>12, <4>1, <4>2 DEF AssociateOutput
        <5>2. QED
          BY <4>1, <5>1, JobColumns, Zenon
      <4>3. CASE KindOf[worker[w].job] # "HLS"
        BY <1>12, <4>1, <4>3 DEF AssociateOutput
      <4>4. QED
        BY <4>2, <4>3
    <3>2. QED
      BY <1>0, <1>12, <3>1, LinkedType DEF RowsOK, AssociateOutput, WorkerSlot, SlotNamed
  <2>2. WorkersOK'
    BY <1>0, <1>12, AtTypes DEF AssociateOutput, WorkerPC, SlotNamed
  <2>3. RequestsOK'
    BY <1>0, <1>12 DEF RequestsOK, AssociateOutput
  <2>4. QED
    BY <2>1, <2>2, <2>3 DEF TypeParts
<1>13. CASE MarkAssociated(w)
  <2>1. RowsOK'
    <3>1. job' \in [Jobs -> JobRow]
      BY <1>0, <1>13, JobColumns DEF RowsOK, MarkAssociated, WorkerSlot, SlotNamed
    <3>2. QED
      BY <1>0, <1>13, <3>1 DEF RowsOK, MarkAssociated, WorkerSlot, SlotNamed
  <2>2. WorkersOK'
    BY <1>0, <1>13, AtTypes DEF MarkAssociated, WorkerPC, SlotNamed
  <2>3. RequestsOK'
    BY <1>0, <1>13 DEF RequestsOK, MarkAssociated
  <2>4. QED
    BY <2>1, <2>2, <2>3 DEF TypeParts
<1>14. CASE FailsLate(w)
  <2>1. RowsOK'
    BY <1>0, <1>14 DEF RowsOK, FailsLate, WorkerSlot, SlotNamed
  <2>2. WorkersOK'
    BY <1>0, <1>14, CatchTypes DEF FailsLate, Retryable, SlotNamed
  <2>3. RequestsOK'
    BY <1>0, <1>14 DEF RequestsOK, FailsLate
  <2>4. QED
    BY <2>1, <2>2, <2>3 DEF TypeParts
<1>15. CASE Settle(w)
  <2>1. RowsOK'
    <3>1. job' \in [Jobs -> JobRow]
      BY <1>0, <1>15, JobColumns DEF RowsOK, Settle, WorkerSlot, SlotNamed
    <3>2. QED
      BY <1>0, <1>15, <3>1, ReleaseTypes DEF RowsOK, Settle, WorkerSlot, SlotNamed
  <2>2. WorkersOK'
    BY <1>0, <1>15, AtTypes, ReleaseTypes DEF Settle, WorkerPC, SlotNamed
  <2>3. RequestsOK'
    BY <1>0, <1>15 DEF RequestsOK, Settle
  <2>4. QED
    BY <2>1, <2>2, <2>3 DEF TypeParts
<1>16. CASE DeleteOriginal(w)
  <2>1. RowsOK'
    BY <1>0, <1>16 DEF RowsOK, DeleteOriginal, WorkerSlot, SlotNamed
  <2>2. WorkersOK'
    BY <1>0, <1>16, AtTypes DEF DeleteOriginal, WorkerPC, SlotNamed
  <2>3. RequestsOK'
    BY <1>0, <1>16 DEF RequestsOK, DeleteOriginal
  <2>4. QED
    BY <2>1, <2>2, <2>3 DEF TypeParts
<1>17. CASE DeletedOriginal(w)
  <2>1. RowsOK'
    BY <1>0, <1>17 DEF RowsOK, DeletedOriginal, WorkerSlot, SlotNamed
  <2>2. WorkersOK'
    BY <1>0, <1>17, AtTypes DEF DeletedOriginal, WorkerPC, SlotNamed
  <2>3. RequestsOK'
    BY <1>0, <1>17 DEF RequestsOK, DeletedOriginal
  <2>4. QED
    BY <2>1, <2>2, <2>3 DEF TypeParts
<1>18. CASE DeleteOriginalFails(w)
  <2>1. RowsOK'
    <3>1. job' \in [Jobs -> JobRow]
      BY <1>0, <1>18, JobColumns DEF RowsOK, DeleteOriginalFails, WorkerSlot, SlotNamed
    <3>2. QED
      BY <1>0, <1>18, <3>1 DEF RowsOK, DeleteOriginalFails, WorkerSlot, SlotNamed
  <2>2. WorkersOK'
    BY <1>0, <1>18, AtTypes DEF DeleteOriginalFails, WorkerPC, SlotNamed
  <2>3. RequestsOK'
    BY <1>0, <1>18 DEF RequestsOK, DeleteOriginalFails
  <2>4. QED
    BY <2>1, <2>2, <2>3 DEF TypeParts
<1>19. CASE Finish(w)
  <2>1. RowsOK'
    BY <1>0, <1>19, ReleaseTypes DEF RowsOK, Finish, WorkerSlot, SlotNamed
  <2>2. WorkersOK'
    BY <1>0, <1>19, ReleaseTypes DEF Finish, SlotNamed
  <2>3. RequestsOK'
    BY <1>0, <1>19 DEF RequestsOK, Finish
  <2>4. QED
    BY <2>1, <2>2, <2>3 DEF TypeParts
<1>20. CASE CleanUp(w)
  <2>1. RowsOK'
    BY <1>0, <1>20 DEF RowsOK, CleanUp, WorkerSlot, SlotNamed
  <2>2. WorkersOK'
    BY <1>0, <1>20, AtTypes DEF CleanUp, WorkerPC, SlotNamed
  <2>3. RequestsOK'
    BY <1>0, <1>20 DEF RequestsOK, CleanUp
  <2>4. QED
    BY <2>1, <2>2, <2>3 DEF TypeParts
<1>21. CASE Record(w)
  <2>1. RowsOK'
    <3>1. job' \in [Jobs -> JobRow]
      <4>1. CASE UNCHANGED job
        BY <1>0, <4>1 DEF RowsOK
      <4>2. CASE job' = [job EXCEPT ![worker[w].job].status = worker[w].outcome,
                                    ![worker[w].job].cancel = (worker[w].outcome = "CANCELLED")]
        <5>1. /\ worker[w].job \in Jobs /\ job \in [Jobs -> JobRow]
              /\ worker[w].outcome \in JobStatus
              /\ (worker[w].outcome = "CANCELLED") \in BOOLEAN
          BY <1>0, <1>21 DEF RowsOK, Record, SlotNamed, WorkerSlot, Retryable, JobStatus
        <5>2. QED
          BY <4>2, <5>1, JobColumns, Zenon
      <4>3. QED
        BY <1>21, <4>1, <4>2 DEF Record
    <3>2. QED
      BY <1>0, <1>21, <3>1, ReleaseTypes DEF RowsOK, Record, WorkerSlot, SlotNamed
  <2>2. WorkersOK'
    BY <1>0, <1>21, ReleaseTypes DEF Record, SlotNamed
  <2>3. RequestsOK'
    BY <1>0, <1>21 DEF RequestsOK, Record
  <2>4. QED
    BY <2>1, <2>2, <2>3 DEF TypeParts
<1>22. CASE WorkerLost(w)
  <2>1. RowsOK'
    <3>1. crashes' \in 0..MaxCrashes
      BY <1>0, <1>22, BoundAssumption DEF RowsOK, WorkerLost
    <3>2. bull' \in [Jobs -> [1..MaxAttempts -> BullState]]
      BY <1>0, <1>22 DEF RowsOK, WorkerLost, BullState
    <3>3. QED
      BY <1>0, <1>22, <3>1, <3>2 DEF RowsOK, WorkerLost
  <2>2. WorkersOK'
    BY <1>0, <1>22, IdleTypes DEF WorkersOK, WorkerLost, SlotNamed, Files
  <2>3. RequestsOK'
    BY <1>0, <1>22 DEF RequestsOK, WorkerLost
  <2>4. QED
    BY <2>1, <2>2, <2>3 DEF TypeParts
<1>23. QED
  BY <1>1, <1>2, <1>3, <1>4, <1>5, <1>6, <1>7, <1>8, <1>9, <1>10, <1>11, <1>12, <1>13, <1>14, <1>15, <1>16, <1>17, <1>18, <1>19, <1>20, <1>21, <1>22 DEF WorkerStep

-----------------------------------------------------------------------------
(* The requests' steps. *)

\* A statement of a request, or its loss, keeps every type.
LEMMA RequestTypes ==
  ASSUME TypeParts, NEW r \in Requests, RequestStep(r) \/ RequestLost(r)
  PROVE  TypeParts'
<1>0. /\ RowsOK /\ WorkersOK /\ RequestsOK
      /\ req[r] \in RequestSlot /\ (req[r].pc # "idle" => req[r].job \in Jobs)
  BY DEF TypeParts, RequestsOK
<1>1. CASE Requeue(r)
  <2>1. RowsOK'
    <3>1. job' \in [Jobs -> JobRow]
      <4>1. /\ req[r].job \in Jobs /\ job \in [Jobs -> JobRow] /\ req[r].att \in 0..MaxAttempts
            /\ "QUEUED" \in JobStatus /\ FALSE \in BOOLEAN /\ 0 \in 0..MaxAttempts
        BY <1>0, <1>1, BoundAssumption DEF RowsOK, Requeue, RequestSlot, JobStatus
      <4>2. [job EXCEPT ![req[r].job].status = "QUEUED"] \in [Jobs -> JobRow]
        BY <4>1, JobColumns, Zenon
      <4>3. [job EXCEPT ![req[r].job].status = "QUEUED",
                        ![req[r].job].attempts = req[r].att] \in [Jobs -> JobRow]
        BY <4>1, <4>2, JobColumns, Zenon
      <4>4. [job EXCEPT ![req[r].job].status = "QUEUED", ![req[r].job].attempts = req[r].att,
                        ![req[r].job].cancel = FALSE] \in [Jobs -> JobRow]
        BY <4>1, <4>3, JobColumns, Zenon
      <4>5. [job EXCEPT ![req[r].job].status = "QUEUED", ![req[r].job].attempts = req[r].att,
                        ![req[r].job].cancel = FALSE, ![req[r].job].qid = 0] \in [Jobs -> JobRow]
        BY <4>1, <4>4, JobColumns, Zenon
      <4>6. QED
        BY <1>1, <4>5 DEF Requeue
    <3>2. QED
      BY <1>0, <1>1, <3>1, BoundAssumption DEF RowsOK, Requeue, Goto, RowsOnly, RequestSlot
  <2>2. RequestsOK'
    BY <1>0, <1>1, GotoTypes DEF Requeue, RequestPC
  <2>3. WorkersOK'
    BY <1>0, <1>1 DEF WorkersOK, SlotNamed, Files, Requeue, Goto, RowsOnly
  <2>4. QED
    BY <2>1, <2>2, <2>3 DEF TypeParts
<1>2. CASE QueueAdd(r)
  <2>1. RowsOK'
    BY <1>0, <1>2 DEF RowsOK, QueueAdd, BullState, RequestSlot
  <2>2. RequestsOK'
    BY <1>0, <1>2, GotoTypes DEF QueueAdd, RequestPC
  <2>3. WorkersOK'
    BY <1>0, <1>2 DEF WorkersOK, SlotNamed, Files, QueueAdd, Goto
  <2>4. QED
    BY <2>1, <2>2, <2>3 DEF TypeParts
<1>3. CASE QueueLink(r)
  <2>1. RowsOK'
    <3>1. job' \in [Jobs -> JobRow]
      BY <1>0, <1>3, JobColumns DEF RowsOK, QueueLink, JobOnly, RowsOnly, RequestSlot
    <3>2. QED
      BY <1>0, <1>3, <3>1 DEF RowsOK, QueueLink, JobOnly, RowsOnly, RequestSlot
  <2>2. RequestsOK'
    BY <1>0, <1>3, ReplyTypes DEF QueueLink
  <2>3. WorkersOK'
    BY <1>0, <1>3 DEF WorkersOK, SlotNamed, Files, QueueLink, JobOnly, RowsOnly
  <2>4. QED
    BY <2>1, <2>2, <2>3 DEF TypeParts
<1>4. CASE QueueAddFails(r)
  <2>1. RowsOK'
    BY <1>0, <1>4 DEF RowsOK, QueueAddFails, JobOnly, RowsOnly, RequestSlot
  <2>2. RequestsOK'
    BY <1>0, <1>4, GotoTypes DEF QueueAddFails, RequestPC
  <2>3. WorkersOK'
    BY <1>0, <1>4 DEF WorkersOK, SlotNamed, Files, QueueAddFails, JobOnly, RowsOnly
  <2>4. QED
    BY <2>1, <2>2, <2>3 DEF TypeParts
<1>5. CASE QueueAddFailedJob(r)
  <2>1. RowsOK'
    <3>1. job' \in [Jobs -> JobRow]
      BY <1>0, <1>5, JobColumns DEF RowsOK, QueueAddFailedJob, JobStatus, JobOnly, RowsOnly, RequestSlot
    <3>2. QED
      BY <1>0, <1>5, <3>1 DEF RowsOK, QueueAddFailedJob, JobOnly, RowsOnly, RequestSlot
  <2>2. RequestsOK'
    BY <1>0, <1>5, GotoTypes DEF QueueAddFailedJob, RequestPC
  <2>3. WorkersOK'
    BY <1>0, <1>5 DEF WorkersOK, SlotNamed, Files, QueueAddFailedJob, JobOnly, RowsOnly
  <2>4. QED
    BY <2>1, <2>2, <2>3 DEF TypeParts
<1>6. CASE QueueAddFailedMedia(r)
  <2>1. RowsOK'
    BY <1>0, <1>6 DEF RowsOK, QueueAddFailedMedia, RowsOnly, RequestSlot
  <2>2. RequestsOK'
    BY <1>0, <1>6, ReplyTypes DEF QueueAddFailedMedia
  <2>3. WorkersOK'
    BY <1>0, <1>6 DEF WorkersOK, SlotNamed, Files, QueueAddFailedMedia, RowsOnly
  <2>4. QED
    BY <2>1, <2>2, <2>3 DEF TypeParts
<1>7. CASE CancelRemove(r)
  <2>1. RowsOK'
    BY <1>0, <1>7 DEF RowsOK, CancelRemove, BullState, RequestSlot
  <2>2. RequestsOK'
    BY <1>0, <1>7, GotoTypes DEF CancelRemove, RequestPC
  <2>3. WorkersOK'
    BY <1>0, <1>7 DEF WorkersOK, SlotNamed, Files, CancelRemove
  <2>4. QED
    BY <2>1, <2>2, <2>3 DEF TypeParts
<1>8. CASE CancelMark(r)
  <2>1. RowsOK'
    <3>1. job' \in [Jobs -> JobRow]
      BY <1>0, <1>8, JobColumns DEF RowsOK, CancelMark, JobStatus, RowsOnly, RequestSlot
    <3>2. QED
      BY <1>0, <1>8, <3>1 DEF RowsOK, CancelMark, RowsOnly, RequestSlot
  <2>2. RequestsOK'
    BY <1>0, <1>8, ReplyTypes DEF CancelMark
  <2>3. WorkersOK'
    BY <1>0, <1>8 DEF WorkersOK, SlotNamed, Files, CancelMark, RowsOnly
  <2>4. QED
    BY <2>1, <2>2, <2>3 DEF TypeParts
<1>9. CASE CancelFlag(r)
  <2>1. RowsOK'
    <3>1. job' \in [Jobs -> JobRow]
      BY <1>0, <1>9, JobColumns DEF RowsOK, CancelFlag, JobOnly, RowsOnly, RequestSlot
    <3>2. QED
      BY <1>0, <1>9, <3>1 DEF RowsOK, CancelFlag, JobOnly, RowsOnly, RequestSlot
  <2>2. RequestsOK'
    BY <1>0, <1>9, ReplyTypes DEF CancelFlag
  <2>3. WorkersOK'
    BY <1>0, <1>9 DEF WorkersOK, SlotNamed, Files, CancelFlag, JobOnly, RowsOnly
  <2>4. QED
    BY <2>1, <2>2, <2>3 DEF TypeParts
<1>10. CASE ConfigureWrite(r)
  <2>1. RowsOK'
    <3>1. job' \in [Jobs -> JobRow]
      <4>1. /\ req[r].job \in Jobs /\ job \in [Jobs -> JobRow] /\ job[req[r].job] \in JobRow
            /\ req[r].target \in Targets \cup {Null} /\ req[r].keep \in BOOLEAN \cup {Null}
        BY <1>0, <1>10 DEF RowsOK, ConfigureWrite, RequestSlot
      <4>2. /\ (IF req[r].target # Null THEN req[r].target ELSE job[req[r].job].target) \in Targets \cup {Null}
            /\ (IF req[r].keep # Null THEN req[r].keep ELSE job[req[r].job].retain) \in BOOLEAN
        BY <4>1 DEF JobRow
      <4>3. [job EXCEPT ![req[r].job].target =
               IF req[r].target # Null THEN req[r].target ELSE @] \in [Jobs -> JobRow]
        BY <4>1, <4>2, JobColumns, Zenon
      <4>4. job' = [[job EXCEPT ![req[r].job].target = IF req[r].target # Null THEN req[r].target ELSE @]
                     EXCEPT ![req[r].job].retain =
                       IF req[r].keep # Null THEN req[r].keep ELSE job[req[r].job].retain]
        BY <1>10, <4>1 DEF ConfigureWrite
      <4>5. QED
        BY <4>1, <4>2, <4>3, <4>4, JobColumns, Zenon
    <3>2. QED
      BY <1>0, <1>10, <3>1 DEF RowsOK, ConfigureWrite, JobOnly, RowsOnly, RequestSlot
  <2>2. RequestsOK'
    BY <1>0, <1>10, GotoTypes, ReplyTypes DEF ConfigureWrite, RequestPC
  <2>3. WorkersOK'
    BY <1>0, <1>10 DEF WorkersOK, SlotNamed, Files, ConfigureWrite, JobOnly, RowsOnly
  <2>4. QED
    BY <2>1, <2>2, <2>3 DEF TypeParts
<1>11. CASE AssociateRead(r)
  <2>1. RowsOK'
    BY <1>0, <1>11 DEF RowsOK, AssociateRead, JobOnly, RowsOnly, RequestSlot
  <2>2. RequestsOK'
    BY <1>0, <1>11, GotoTypes, ReplyTypes DEF AssociateRead, RequestPC
  <2>3. WorkersOK'
    BY <1>0, <1>11 DEF WorkersOK, SlotNamed, Files, AssociateRead, JobOnly, RowsOnly
  <2>4. QED
    BY <2>1, <2>2, <2>3 DEF TypeParts
<1>12. CASE Associate(r)
  <2>1. RowsOK'
    <3>1. job' \in [Jobs -> JobRow]
      BY <1>0, <1>12, JobColumns, LinkedType DEF RowsOK, Associate, RequestSlot
    <3>2. target' \in [Targets -> TargetRow]
      <4>1. target' = [target EXCEPT ![req[r].target] = Linked(req[r].target, req[r].job)]
        BY <1>12 DEF Associate
      <4>2. target \in [Targets -> TargetRow] /\ req[r].job \in Jobs
        BY <1>0, <1>12 DEF RowsOK, Associate
      <4>3. req[r].target \in Targets => Linked(req[r].target, req[r].job) \in TargetRow
        BY <1>0, <4>2, LinkedType DEF RowsOK
      <4>4. QED
        BY <4>1, <4>2, <4>3
    <3>3. QED
      BY <1>0, <1>12, <3>1, <3>2 DEF RowsOK, Associate
  <2>2. RequestsOK'
    BY <1>0, <1>12, GotoTypes DEF Associate, RequestPC
  <2>3. WorkersOK'
    BY <1>0, <1>12 DEF WorkersOK, SlotNamed, Files, Associate
  <2>4. QED
    BY <2>1, <2>2, <2>3 DEF TypeParts
<1>13. CASE AssociateRefused(r)
  <2>1. RowsOK'
    BY <1>0, <1>13 DEF RowsOK, AssociateRefused, JobOnly, RowsOnly, RequestSlot
  <2>2. RequestsOK'
    BY <1>0, <1>13, ReplyTypes DEF AssociateRefused
  <2>3. WorkersOK'
    BY <1>0, <1>13 DEF WorkersOK, SlotNamed, Files, AssociateRefused, JobOnly, RowsOnly
  <2>4. QED
    BY <2>1, <2>2, <2>3 DEF TypeParts
<1>14. CASE CountReferences(r)
  <2>1. RowsOK'
    <3>1. job' \in [Jobs -> JobRow]
      <4>1. req[r].job \in Jobs /\ job \in [Jobs -> JobRow] /\ TRUE \in BOOLEAN
        BY <1>0, <1>14 DEF RowsOK, CountReferences
      <4>2. CASE UNCHANGED job
        BY <4>1, <4>2
      <4>3. CASE job' = [job EXCEPT ![req[r].job].retain = TRUE]
        BY <4>1, <4>3, JobColumns, Zenon
      <4>4. QED
        BY <1>14, <4>2, <4>3 DEF CountReferences
    <3>2. QED
      BY <1>0, <1>14, <3>1 DEF RowsOK, CountReferences, JobOnly, RowsOnly, RequestSlot
  <2>2. RequestsOK'
    BY <1>0, <1>14, GotoTypes, ReplyTypes DEF CountReferences, RequestPC
  <2>3. WorkersOK'
    BY <1>0, <1>14 DEF WorkersOK, SlotNamed, Files, CountReferences, JobOnly, RowsOnly
  <2>4. QED
    BY <2>1, <2>2, <2>3 DEF TypeParts
<1>15. CASE RemoveOriginal(r)
  <2>1. RowsOK'
    BY <1>0, <1>15 DEF RowsOK, RemoveOriginal, RequestSlot
  <2>2. RequestsOK'
    BY <1>0, <1>15, GotoTypes DEF RemoveOriginal, RequestPC
  <2>3. WorkersOK'
    BY <1>0, <1>15 DEF WorkersOK, SlotNamed, Files, RemoveOriginal
  <2>4. QED
    BY <2>1, <2>2, <2>3 DEF TypeParts
<1>16. CASE RemoveOriginalFails(r)
  <2>1. RowsOK'
    BY <1>0, <1>16 DEF RowsOK, RemoveOriginalFails, JobOnly, RowsOnly, RequestSlot
  <2>2. RequestsOK'
    BY <1>0, <1>16, ReplyTypes DEF RemoveOriginalFails
  <2>3. WorkersOK'
    BY <1>0, <1>16 DEF WorkersOK, SlotNamed, Files, RemoveOriginalFails, JobOnly, RowsOnly
  <2>4. QED
    BY <2>1, <2>2, <2>3 DEF TypeParts
<1>17. CASE RemovedOriginal(r)
  <2>1. RowsOK'
    BY <1>0, <1>17 DEF RowsOK, RemovedOriginal, RowsOnly, RequestSlot
  <2>2. RequestsOK'
    BY <1>0, <1>17, ReplyTypes DEF RemovedOriginal
  <2>3. WorkersOK'
    BY <1>0, <1>17 DEF WorkersOK, SlotNamed, Files, RemovedOriginal, RowsOnly
  <2>4. QED
    BY <2>1, <2>2, <2>3 DEF TypeParts
<1>18. CASE RequestLost(r)
  <2>1. RowsOK'
    BY <1>0, <1>18, BoundAssumption DEF RowsOK, RequestLost, RequestSlot
  <2>2. RequestsOK'
    BY <1>0, <1>18, ReplyTypes DEF RequestLost
  <2>3. WorkersOK'
    BY <1>0, <1>18 DEF WorkersOK, SlotNamed, Files, RequestLost
  <2>4. QED
    BY <2>1, <2>2, <2>3 DEF TypeParts
<1>19. QED
  BY <1>1, <1>2, <1>3, <1>4, <1>5, <1>6, <1>7, <1>8, <1>9, <1>10, <1>11, <1>12, <1>13, <1>14, <1>15, <1>16, <1>17, <1>18 DEF RequestStep

\* The beginning of a request keeps every type.
LEMMA RequestBeginsTypes ==
  ASSUME TypeParts, NEW r \in Requests, RequestBegins(r)
  PROVE  TypeParts'
<1>0. RowsOK /\ WorkersOK /\ RequestsOK
  BY DEF TypeParts
<1>1. PICK j \in Jobs : RequestBegins(r)!(j)
  BY DEF RequestBegins
<1>2. ASSUME NEW pc \in RequestPC \ {"idle"}, NEW a \in 0..MaxAttempts,
             NEW t \in Targets \cup {Null}, NEW keep \in BOOLEAN \cup {Null},
             req' = [req EXCEPT ![r] = Pending(pc, j, a, t, keep)]
      PROVE  RequestsOK'
  <2>1. Pending(pc, j, a, t, keep) \in RequestSlot /\ Pending(pc, j, a, t, keep).job = j
    BY PendingType DEF Pending
  <2>2. QED
    BY <1>0, <1>2, <2>1 DEF RequestsOK
<1>3. CASE \E t \in Targets \cup {Null}, keep \in Retain : Enqueue(r, j, t, keep)
  <2>1. PICK t \in Targets \cup {Null}, keep \in Retain : Enqueue(r, j, t, keep)
    BY <1>3
  <2>2. RowsOK'
    BY <1>0, <2>1, NewJobType, PoolAssumption DEF RowsOK, Enqueue, RowsOnly
  <2>3. RequestsOK'
    <3>1. /\ "add" \in RequestPC \ {"idle"} /\ 1 \in 0..MaxAttempts
          /\ Null \in Targets \cup {Null} /\ Null \in BOOLEAN \cup {Null}
      BY BoundAssumption DEF RequestPC
    <3>2. req' = [req EXCEPT ![r] = Pending("add", j, 1, Null, Null)]
      BY <2>1 DEF Enqueue
    <3>3. QED
      BY <1>2, <3>1, <3>2
  <2>4. WorkersOK'
    BY <1>0, <2>1 DEF WorkersOK, SlotNamed, Files, Enqueue, RowsOnly
  <2>5. QED
    BY <2>2, <2>3, <2>4 DEF TypeParts
<1>4. CASE RetryCheck(r, j)
  <2>1. RetryCheck(r, j)
    BY <1>4
  <2>2. RowsOK' /\ WorkersOK'
    BY <1>0, <2>1 DEF RowsOK, WorkersOK, SlotNamed, Files, RetryCheck, JobOnly, RowsOnly
  <2>3. RequestsOK'
    <3>1. /\ ("requeue") \in RequestPC \ {"idle"}
          /\ job[j].attempts + 1 \in 0..MaxAttempts
          /\ Null \in Targets \cup {Null} /\ Null \in BOOLEAN \cup {Null}
      BY <1>0, <2>1, BoundAssumption, PoolAssumption DEF RetryCheck, RequestPC, RowsOK, JobRow
    <3>2. req' = [req EXCEPT ![r] = Pending("requeue", j, job[j].attempts + 1, Null, Null)]
      BY <2>1 DEF RetryCheck
    <3>3. QED
      BY <1>2, <3>1, <3>2
  <2>5. QED
    BY <2>2, <2>3 DEF TypeParts
<1>5. CASE CancelCheck(r, j)
  <2>1. CancelCheck(r, j)
    BY <1>5
  <2>2. RowsOK' /\ WorkersOK'
    BY <1>0, <2>1 DEF RowsOK, WorkersOK, SlotNamed, Files, CancelCheck, JobOnly, RowsOnly
  <2>3. RequestsOK'
    <3>1. /\ (IF job[j].status = "QUEUED" /\ job[j].qid # 0 THEN "remove" ELSE "flag") \in RequestPC \ {"idle"}
          /\ job[j].qid \in 0..MaxAttempts
          /\ Null \in Targets \cup {Null} /\ Null \in BOOLEAN \cup {Null}
      BY <1>0, <2>1, BoundAssumption, PoolAssumption DEF CancelCheck, RequestPC, RowsOK, JobRow
    <3>2. req' = [req EXCEPT ![r] = Pending(IF job[j].status = "QUEUED" /\ job[j].qid # 0 THEN "remove" ELSE "flag", j, job[j].qid, Null, Null)]
      BY <2>1 DEF CancelCheck
    <3>3. QED
      BY <1>2, <3>1, <3>2
  <2>5. QED
    BY <2>2, <2>3 DEF TypeParts
<1>6. CASE \E t \in Targets \cup {Null}, keep \in Retain \cup {Null} : ConfigureCheck(r, j, t, keep)
  <2>1. PICK t \in Targets \cup {Null}, keep \in Retain \cup {Null} : ConfigureCheck(r, j, t, keep)
    BY <1>6
  <2>2. RowsOK' /\ WorkersOK'
    BY <1>0, <2>1 DEF RowsOK, WorkersOK, SlotNamed, Files, ConfigureCheck, JobOnly, RowsOnly
  <2>3. RequestsOK'
    <3>1. /\ ("configure") \in RequestPC \ {"idle"}
          /\ 0 \in 0..MaxAttempts
          /\ t \in Targets \cup {Null} /\ keep \in BOOLEAN \cup {Null}
      BY <1>0, <2>1, BoundAssumption, PoolAssumption DEF ConfigureCheck, RequestPC, RowsOK, JobRow
    <3>2. req' = [req EXCEPT ![r] = Pending("configure", j, 0, t, keep)]
      BY <2>1 DEF ConfigureCheck
    <3>3. QED
      BY <1>2, <3>1, <3>2
  <2>5. QED
    BY <2>2, <2>3 DEF TypeParts
<1>7. CASE \E t \in Targets : AssociateCheck(r, j, t)
  <2>1. PICK t \in Targets : AssociateCheck(r, j, t)
    BY <1>7
  <2>2. RowsOK' /\ WorkersOK'
    BY <1>0, <2>1 DEF RowsOK, WorkersOK, SlotNamed, Files, AssociateCheck, JobOnly, RowsOnly
  <2>3. RequestsOK'
    <3>1. /\ ("assoc") \in RequestPC \ {"idle"}
          /\ 0 \in 0..MaxAttempts
          /\ t \in Targets \cup {Null} /\ Null \in BOOLEAN \cup {Null}
      BY <1>0, <2>1, BoundAssumption, PoolAssumption DEF AssociateCheck, RequestPC, RowsOK, JobRow
    <3>2. req' = [req EXCEPT ![r] = Pending("assoc", j, 0, t, Null)]
      BY <2>1 DEF AssociateCheck
    <3>3. QED
      BY <1>2, <3>1, <3>2
  <2>5. QED
    BY <2>2, <2>3 DEF TypeParts
<1>8. QED
  BY <1>1, <1>3, <1>4, <1>5, <1>6, <1>7

-----------------------------------------------------------------------------

\* The inductive invariant holds at the start.
LEMMA InitTypes == Init => TypeParts
<1>1. SUFFICES ASSUME Init PROVE TypeParts
  OBVIOUS
<1>2. job \in [Jobs -> JobRow]
  BY <1>1, BoundAssumption DEF Init, NoJob, JobRow, JobStatus
<1>3. RowsOK
  BY <1>1, <1>2, BoundAssumption DEF Init, RowsOK, BullState, TargetRow
<1>4. WorkersOK /\ RequestsOK
  BY <1>1, IdleTypes DEF Init, WorkersOK, RequestsOK, SlotNamed
<1>5. QED
  BY <1>3, <1>4 DEF TypeParts

\* Every step keeps it.
LEMMA StepTypes == TypeParts /\ [Next]_vars => TypeParts'
<1>1. ASSUME TypeParts, Next PROVE TypeParts'
  BY <1>1, RequestTypes, RequestBeginsTypes, WorkerTypes DEF Next
<1>2. ASSUME TypeParts, UNCHANGED vars PROVE TypeParts'
  BY <1>2 DEF vars, TypeParts, RowsOK, WorkersOK, RequestsOK, SlotNamed, Files
<1>3. QED
  BY <1>1, <1>2

\* The inductive form: every variable keeps its type, and a slot or a request
\* in progress names a job and has what its next statement needs.
THEOREM TypeInvariance == Spec => []TypeInv
  BY InitTypes, StepTypes, TypeInvParts, PTL DEF Spec

\* Every variable keeps its type: no attempt is numbered above the limit and
\* no upload counts more files than its output has.
THEOREM TypeCorrectness == Spec => []TypeOK
<1>1. TypeInv => TypeOK
  BY DEF TypeInv
<1>2. QED
  BY <1>1, TypeInvariance, PTL

-----------------------------------------------------------------------------
(* Outputs *)

\* No step takes back an output or a row.
Grows ==
  \A i \in Jobs : /\ job[i].output => job'[i].output
                  /\ job[i].status # "ABSENT" => job'[i].status # "ABSENT"

\* A slot moves past the commit only if the output of its job is registered.
LEMMA AtSaw ==
  ASSUME TypeParts, WorkersSaw, Grows, NEW w \in Workers, worker[w].pc # "idle",
         NEW pc, At(w, pc), pc \in PastCommit => job[worker[w].job].output
  PROVE  WorkersSaw'
<1>1. ASSUME NEW v \in Workers
      PROVE  /\ worker'[v].pc # "idle" => job'[worker'[v].job].status # "ABSENT"
             /\ worker'[v].pc \in PastCommit => job'[worker'[v].job].output
  <2>1. worker'[v].job = worker[v].job /\ worker'[v].pc = IF v = w THEN pc ELSE worker[v].pc
    BY DEF At, TypeParts, WorkersOK, WorkerSlot
  <2>2. QED
    BY <2>1 DEF WorkersSaw, Grows, TypeParts, WorkersOK, SlotNamed, PastCommit
<1>2. QED
  BY <1>1 DEF WorkersSaw

\* A slot that is released says nothing of any job any more.
LEMMA ReleaseSaw ==
  ASSUME TypeParts, WorkersSaw, Grows, NEW w \in Workers, Release(w)
  PROVE  WorkersSaw'
  BY DEF Release, WorkersSaw, Grows, TypeParts, WorkersOK, SlotNamed, PastCommit, IdleWorker, Slot

\* An entry released by a slot is not an entry of a job that has no row.
LEMMA ReleaseRows ==
  ASSUME TypeParts, RowsAgree, WorkersSaw, NEW w \in Workers, worker[w].pc # "idle", Release(w),
         NEW j \in Jobs, job[j].status = "ABSENT", NEW a \in 1..MaxAttempts
  PROVE  bull'[j][a] = "none"
  BY DEF Release, RowsAgree, WorkersSaw, TypeParts, RowsOK, WorkersOK, SlotNamed

\* A statement of a worker, or its crash, keeps OutputInv and takes no output back.
LEMMA WorkerOutputs ==
  ASSUME TypeParts, OutputInv, NEW w \in Workers, WorkerStep(w) \/ WorkerLost(w)
  PROVE  OutputInv' /\ Grows
<1>0. /\ job \in [Jobs -> JobRow] /\ worker \in [Workers -> WorkerSlot]
      /\ bull \in [Jobs -> [1..MaxAttempts -> BullState]] /\ outRow \in [Jobs -> {"NONE", "READY"}]
      /\ req \in [Requests -> RequestSlot] /\ target \in [Targets -> TargetRow]
      /\ \A v \in Workers : SlotNamed(worker[v])
      /\ \A r \in Requests : req[r].pc # "idle" => req[r].job \in Jobs
  BY DEF TypeParts, RowsOK, WorkersOK, RequestsOK
<1>1. CASE Load(w)
  <2>1. Grows
    BY <1>0, <1>1 DEF Grows, Load, At, Release, SlotNamed, JobRow
  <2>2. RowsAgree'
    <3>1. CASE Release(w)
      BY <1>0, <1>1, <2>1, <3>1, ReleaseRows DEF OutputInv, RowsAgree, Load
    <3>2. CASE UNCHANGED bull
      BY <1>0, <1>1, <2>1, <3>2 DEF OutputInv, RowsAgree, Load
    <3>3. QED
      BY <1>1, <3>1, <3>2 DEF Load
  <2>3. WorkersSaw'
    BY <1>1, <2>1, AtSaw, ReleaseSaw DEF OutputInv, Load, PastCommit
  <2>4. RequestsSaw'
    BY <1>0, <1>1, <2>1 DEF OutputInv, RequestsSaw, PastOutputCheck, Grows, Load
  <2>5. ContentLinksRegistered'
    BY <1>0, <1>1, <2>1, <2>2 DEF OutputInv, ContentLinksRegistered, Links, RowsAgree, Grows, Load
  <2>6. QED
    BY <2>1, <2>2, <2>3, <2>4, <2>5 DEF OutputInv
<1>2. CASE Start(w)
  <2>1. Grows
    BY <1>0, <1>2 DEF Grows, Start, At, SlotNamed, JobRow
  <2>2. RowsAgree'
    BY <1>0, <1>2, <2>1 DEF OutputInv, RowsAgree, WorkersSaw, PastCommit, Grows, Start, At, SlotNamed, JobRow, BullState
  <2>3. WorkersSaw'
    BY <1>0, <1>2, <2>1 DEF OutputInv, WorkersSaw, PastCommit, Grows, Start, At, SlotNamed, IdleWorker, Slot, WorkerSlot, JobRow
  <2>4. RequestsSaw'
    BY <1>0, <1>2, <2>1 DEF OutputInv, RequestsSaw, PastOutputCheck, Grows, Start
  <2>5. ContentLinksRegistered'
    BY <1>0, <1>2, <2>1, <2>2 DEF OutputInv, ContentLinksRegistered, Links, RowsAgree, Grows, Start
  <2>6. QED
    BY <2>1, <2>2, <2>3, <2>4, <2>5 DEF OutputInv
<1>3. CASE Probe(w)
  <2>1. Grows
    BY <1>0, <1>3 DEF Grows, Probe, At, SlotNamed, JobRow
  <2>2. RowsAgree'
    BY <1>0, <1>3, <2>1 DEF OutputInv, RowsAgree, WorkersSaw, PastCommit, Grows, Probe, At, SlotNamed, JobRow, BullState
  <2>3. WorkersSaw'
    BY <1>0, <1>3, <2>1 DEF OutputInv, WorkersSaw, PastCommit, Grows, Probe, At, SlotNamed, IdleWorker, Slot, WorkerSlot, JobRow
  <2>4. RequestsSaw'
    BY <1>0, <1>3, <2>1 DEF OutputInv, RequestsSaw, PastOutputCheck, Grows, Probe
  <2>5. ContentLinksRegistered'
    BY <1>0, <1>3, <2>1, <2>2 DEF OutputInv, ContentLinksRegistered, Links, RowsAgree, Grows, Probe
  <2>6. QED
    BY <2>1, <2>2, <2>3, <2>4, <2>5 DEF OutputInv
<1>4. CASE Encode(w)
  <2>1. Grows
    BY <1>0, <1>4 DEF Grows, Encode, At, SlotNamed, JobRow
  <2>2. RowsAgree'
    BY <1>0, <1>4, <2>1 DEF OutputInv, RowsAgree, WorkersSaw, PastCommit, Grows, Encode, At, SlotNamed, JobRow, BullState
  <2>3. WorkersSaw'
    BY <1>0, <1>4, <2>1 DEF OutputInv, WorkersSaw, PastCommit, Grows, Encode, At, SlotNamed, IdleWorker, Slot, WorkerSlot, JobRow
  <2>4. RequestsSaw'
    BY <1>0, <1>4, <2>1 DEF OutputInv, RequestsSaw, PastOutputCheck, Grows, Encode
  <2>5. ContentLinksRegistered'
    BY <1>0, <1>4, <2>1, <2>2 DEF OutputInv, ContentLinksRegistered, Links, RowsAgree, Grows, Encode
  <2>6. QED
    BY <2>1, <2>2, <2>3, <2>4, <2>5 DEF OutputInv
<1>5. CASE Upload(w) \/ Uploaded(w)
  <2>1. Grows
    BY <1>0, <1>5 DEF Grows, Upload, Uploaded, At, SlotNamed, JobRow
  <2>2. RowsAgree'
    BY <1>0, <1>5, <2>1 DEF OutputInv, RowsAgree, WorkersSaw, PastCommit, Grows, Upload, Uploaded, At, SlotNamed, JobRow, BullState
  <2>3. WorkersSaw'
    <3>1. CASE Upload(w)
      BY <1>0, <2>1, <3>1
         DEF OutputInv, WorkersSaw, PastCommit, Grows, Upload, At, SlotNamed, WorkerSlot, JobRow
    <3>2. CASE Uploaded(w)
      BY <1>0, <2>1, <3>2
         DEF OutputInv, WorkersSaw, PastCommit, Grows, Uploaded, SlotNamed, WorkerSlot, JobRow
    <3>3. QED
      BY <1>5, <3>1, <3>2
  <2>4. RequestsSaw'
    BY <1>0, <1>5, <2>1 DEF OutputInv, RequestsSaw, PastOutputCheck, Grows, Upload, Uploaded, At
  <2>5. ContentLinksRegistered'
    BY <1>0, <1>5, <2>1, <2>2 DEF OutputInv, ContentLinksRegistered, Links, RowsAgree, Grows, Upload, Uploaded, At
  <2>6. QED
    BY <2>1, <2>2, <2>3, <2>4, <2>5 DEF OutputInv
<1>6. CASE Cancelled(w)
  <2>1. Grows
    BY <1>0, <1>6 DEF Grows, Cancelled, ToCatch, SlotNamed, JobRow
  <2>2. RowsAgree'
    BY <1>0, <1>6, <2>1 DEF OutputInv, RowsAgree, WorkersSaw, PastCommit, Grows, Cancelled, ToCatch, SlotNamed, JobRow, BullState
  <2>3. WorkersSaw'
    BY <1>0, <1>6, <2>1 DEF OutputInv, WorkersSaw, PastCommit, Grows, Cancelled, ToCatch, SlotNamed, IdleWorker, Slot, WorkerSlot, JobRow
  <2>4. RequestsSaw'
    BY <1>0, <1>6, <2>1 DEF OutputInv, RequestsSaw, PastOutputCheck, Grows, Cancelled
  <2>5. ContentLinksRegistered'
    BY <1>0, <1>6, <2>1, <2>2 DEF OutputInv, ContentLinksRegistered, Links, RowsAgree, Grows, Cancelled
  <2>6. QED
    BY <2>1, <2>2, <2>3, <2>4, <2>5 DEF OutputInv
<1>7. CASE Fails(w)
  <2>1. Grows
    BY <1>0, <1>7 DEF Grows, Fails, ToCatch, SlotNamed, JobRow
  <2>2. RowsAgree'
    BY <1>0, <1>7, <2>1 DEF OutputInv, RowsAgree, WorkersSaw, PastCommit, Grows, Fails, ToCatch, SlotNamed, JobRow, BullState
  <2>3. WorkersSaw'
    BY <1>0, <1>7, <2>1 DEF OutputInv, WorkersSaw, PastCommit, Grows, Fails, ToCatch, SlotNamed, IdleWorker, Slot, WorkerSlot, JobRow
  <2>4. RequestsSaw'
    BY <1>0, <1>7, <2>1 DEF OutputInv, RequestsSaw, PastOutputCheck, Grows, Fails
  <2>5. ContentLinksRegistered'
    BY <1>0, <1>7, <2>1, <2>2 DEF OutputInv, ContentLinksRegistered, Links, RowsAgree, Grows, Fails
  <2>6. QED
    BY <2>1, <2>2, <2>3, <2>4, <2>5 DEF OutputInv
<1>8. CASE Commit(w)
  <2>1. Grows
    BY <1>0, <1>8 DEF Grows, Commit, SlotNamed, JobRow
  <2>2. RowsAgree'
    <3>1. worker[w].job \in Jobs /\ job[worker[w].job].status # "ABSENT"
      BY <1>0, <1>8 DEF OutputInv, WorkersSaw, Commit, SlotNamed
    <3>2. \A j \in Jobs \ {worker[w].job} : job'[j] = job[j] /\ outRow'[j] = outRow[j]
      BY <1>0, <1>8, <3>1 DEF Commit
    <3>3. /\ job'[worker[w].job].output /\ outRow'[worker[w].job] = "READY"
          /\ job'[worker[w].job].status # "ABSENT"
      BY <1>0, <1>8, <3>1 DEF Commit, JobRow
    <3>4. bull' = bull
      BY <1>8 DEF Commit
    <3>5. QED
      BY <3>2, <3>3, <3>4 DEF OutputInv, RowsAgree
  <2>3. WorkersSaw'
    BY <1>0, <1>8, <2>1 DEF OutputInv, WorkersSaw, PastCommit, Grows, Commit, SlotNamed, IdleWorker, Slot, WorkerSlot, JobRow
  <2>4. RequestsSaw'
    BY <1>0, <1>8, <2>1 DEF OutputInv, RequestsSaw, PastOutputCheck, Grows, Commit
  <2>5. ContentLinksRegistered'
    BY <1>0, <1>8, <2>1, <2>2 DEF OutputInv, ContentLinksRegistered, Links, RowsAgree, Grows, Commit
  <2>6. QED
    BY <2>1, <2>2, <2>3, <2>4, <2>5 DEF OutputInv
<1>9. CASE CommitRefused(w)
  <2>1. Grows
    BY <1>0, <1>9 DEF Grows, CommitRefused, ToCatch, SlotNamed, JobRow
  <2>2. RowsAgree'
    BY <1>0, <1>9, <2>1 DEF OutputInv, RowsAgree, WorkersSaw, PastCommit, Grows, CommitRefused, ToCatch, SlotNamed, JobRow, BullState
  <2>3. WorkersSaw'
    BY <1>0, <1>9, <2>1 DEF OutputInv, WorkersSaw, PastCommit, Grows, CommitRefused, ToCatch, SlotNamed, IdleWorker, Slot, WorkerSlot, JobRow
  <2>4. RequestsSaw'
    BY <1>0, <1>9, <2>1 DEF OutputInv, RequestsSaw, PastOutputCheck, Grows, CommitRefused
  <2>5. ContentLinksRegistered'
    BY <1>0, <1>9, <2>1, <2>2 DEF OutputInv, ContentLinksRegistered, Links, RowsAgree, Grows, CommitRefused
  <2>6. QED
    BY <2>1, <2>2, <2>3, <2>4, <2>5 DEF OutputInv
<1>10. CASE Reread(w)
  <2>1. Grows
    BY <1>0, <1>10 DEF Grows, Reread, SlotNamed, JobRow
  <2>2. RowsAgree'
    BY <1>0, <1>10, <2>1 DEF OutputInv, RowsAgree, WorkersSaw, PastCommit, Grows, Reread, SlotNamed, JobRow, BullState
  <2>3. WorkersSaw'
    <3>1. ASSUME NEW v \in Workers
          PROVE  /\ worker'[v].job = worker[v].job
                 /\ worker'[v].pc = "idle" => worker[v].pc = "idle"
                 /\ worker'[v].pc \in PastCommit => worker[v].pc \in PastCommit
      BY <1>0, <1>10 DEF Reread, WorkerSlot, PastCommit
    <3>2. QED
      BY <1>0, <1>10, <3>1 DEF OutputInv, WorkersSaw, Reread
  <2>4. RequestsSaw'
    BY <1>0, <1>10, <2>1 DEF OutputInv, RequestsSaw, PastOutputCheck, Grows, Reread
  <2>5. ContentLinksRegistered'
    BY <1>0, <1>10, <2>1, <2>2 DEF OutputInv, ContentLinksRegistered, Links, RowsAgree, Grows, Reread
  <2>6. QED
    BY <2>1, <2>2, <2>3, <2>4, <2>5 DEF OutputInv
<1>11. CASE AssociateOutput(w)
  <2>1. Grows
    <3>1. CASE UNCHANGED job
      BY <3>1 DEF Grows
    <3>2. CASE job' = [job EXCEPT ![worker[w].job].assoc =
                         @ \/ job[worker[w].job].target = worker[w].dest]
      BY <1>0, <3>2 DEF Grows, JobRow
    <3>3. QED
      BY <1>11, <3>1, <3>2 DEF AssociateOutput
  <2>2. RowsAgree'
    <3>1. CASE UNCHANGED job
      BY <1>11, <3>1 DEF OutputInv, RowsAgree, AssociateOutput
    <3>2. CASE job' = [job EXCEPT ![worker[w].job].assoc =
                         @ \/ job[worker[w].job].target = worker[w].dest]
      <4>1. job[worker[w].job].output /\ worker[w].job \in Jobs
        BY <1>0, <1>11 DEF OutputInv, WorkersSaw, PastCommit, AssociateOutput, SlotNamed
      <4>2. ASSUME NEW j \in Jobs
            PROVE  /\ job'[j].output = job[j].output /\ job'[j].status = job[j].status
                   /\ j # worker[w].job => job'[j].assoc = job[j].assoc
        BY <1>0, <3>2 DEF JobRow
      <4>3. QED
        BY <1>11, <4>1, <4>2 DEF OutputInv, RowsAgree, AssociateOutput
    <3>3. QED
      BY <1>11, <3>1, <3>2 DEF AssociateOutput
  <2>3. WorkersSaw'
    BY <1>11, <2>1, AtSaw DEF OutputInv, WorkersSaw, AssociateOutput, PastCommit
  <2>4. RequestsSaw'
    BY <1>0, <1>11, <2>1 DEF OutputInv, RequestsSaw, PastOutputCheck, Grows, AssociateOutput
  <2>5. ContentLinksRegistered'
    <3>1. job[worker[w].job].output /\ worker[w].job \in Jobs
      BY <1>0, <1>11 DEF OutputInv, WorkersSaw, PastCommit, AssociateOutput, SlotNamed
    <3>2. ASSUME NEW t \in Targets, NEW j \in Jobs, Links(t, j)'
          PROVE  Links(t, j) \/ j = worker[w].job
      BY <1>0, <1>11, <3>2 DEF Links, AssociateOutput, Linked, TargetRow
    <3>3. QED
      BY <1>11, <2>1, <2>2, <3>1, <3>2
         DEF OutputInv, ContentLinksRegistered, RowsAgree, Grows, AssociateOutput
  <2>6. QED
    BY <2>1, <2>2, <2>3, <2>4, <2>5 DEF OutputInv
<1>12. CASE MarkAssociated(w)
  <2>1. Grows
    BY <1>0, <1>12 DEF Grows, MarkAssociated, At, SlotNamed, JobRow
  <2>2. RowsAgree'
    BY <1>0, <1>12, <2>1 DEF OutputInv, RowsAgree, WorkersSaw, PastCommit, Grows, MarkAssociated, At, SlotNamed, JobRow, BullState
  <2>3. WorkersSaw'
    BY <1>0, <1>12, <2>1 DEF OutputInv, WorkersSaw, PastCommit, Grows, MarkAssociated, At, SlotNamed, IdleWorker, Slot, WorkerSlot, JobRow
  <2>4. RequestsSaw'
    BY <1>0, <1>12, <2>1 DEF OutputInv, RequestsSaw, PastOutputCheck, Grows, MarkAssociated
  <2>5. ContentLinksRegistered'
    BY <1>0, <1>12, <2>1, <2>2 DEF OutputInv, ContentLinksRegistered, Links, RowsAgree, Grows, MarkAssociated
  <2>6. QED
    BY <2>1, <2>2, <2>3, <2>4, <2>5 DEF OutputInv
<1>13. CASE FailsLate(w)
  <2>1. Grows
    BY <1>0, <1>13 DEF Grows, FailsLate, ToCatch, SlotNamed, JobRow
  <2>2. RowsAgree'
    BY <1>0, <1>13, <2>1 DEF OutputInv, RowsAgree, WorkersSaw, PastCommit, Grows, FailsLate, ToCatch, SlotNamed, JobRow, BullState
  <2>3. WorkersSaw'
    BY <1>0, <1>13, <2>1 DEF OutputInv, WorkersSaw, PastCommit, Grows, FailsLate, ToCatch, SlotNamed, IdleWorker, Slot, WorkerSlot, JobRow
  <2>4. RequestsSaw'
    BY <1>0, <1>13, <2>1 DEF OutputInv, RequestsSaw, PastOutputCheck, Grows, FailsLate
  <2>5. ContentLinksRegistered'
    BY <1>0, <1>13, <2>1, <2>2 DEF OutputInv, ContentLinksRegistered, Links, RowsAgree, Grows, FailsLate
  <2>6. QED
    BY <2>1, <2>2, <2>3, <2>4, <2>5 DEF OutputInv
<1>14. CASE Settle(w)
  <2>1. Grows
    BY <1>0, <1>14 DEF Grows, Settle, At, Release, SlotNamed, JobRow
  <2>2. RowsAgree'
    BY <1>0, <1>14, <2>1 DEF OutputInv, RowsAgree, WorkersSaw, PastCommit, Grows, Settle, At, Release, SlotNamed, JobRow, BullState
  <2>3. WorkersSaw'
    BY <1>14, <2>1, AtSaw, ReleaseSaw DEF OutputInv, WorkersSaw, Settle, PastCommit
  <2>4. RequestsSaw'
    BY <1>0, <1>14, <2>1 DEF OutputInv, RequestsSaw, PastOutputCheck, Grows, Settle
  <2>5. ContentLinksRegistered'
    BY <1>0, <1>14, <2>1, <2>2 DEF OutputInv, ContentLinksRegistered, Links, RowsAgree, Grows, Settle
  <2>6. QED
    BY <2>1, <2>2, <2>3, <2>4, <2>5 DEF OutputInv
<1>15. CASE DeleteOriginal(w)
  <2>1. Grows
    BY <1>0, <1>15 DEF Grows, DeleteOriginal, At, SlotNamed, JobRow
  <2>2. RowsAgree'
    BY <1>0, <1>15, <2>1 DEF OutputInv, RowsAgree, WorkersSaw, PastCommit, Grows, DeleteOriginal, At, SlotNamed, JobRow, BullState
  <2>3. WorkersSaw'
    BY <1>0, <1>15, <2>1 DEF OutputInv, WorkersSaw, PastCommit, Grows, DeleteOriginal, At, SlotNamed, IdleWorker, Slot, WorkerSlot, JobRow
  <2>4. RequestsSaw'
    BY <1>0, <1>15, <2>1 DEF OutputInv, RequestsSaw, PastOutputCheck, Grows, DeleteOriginal
  <2>5. ContentLinksRegistered'
    BY <1>0, <1>15, <2>1, <2>2 DEF OutputInv, ContentLinksRegistered, Links, RowsAgree, Grows, DeleteOriginal
  <2>6. QED
    BY <2>1, <2>2, <2>3, <2>4, <2>5 DEF OutputInv
<1>16. CASE DeletedOriginal(w)
  <2>1. Grows
    BY <1>0, <1>16 DEF Grows, DeletedOriginal, At, SlotNamed, JobRow
  <2>2. RowsAgree'
    BY <1>0, <1>16, <2>1 DEF OutputInv, RowsAgree, WorkersSaw, PastCommit, Grows, DeletedOriginal, At, SlotNamed, JobRow, BullState
  <2>3. WorkersSaw'
    BY <1>0, <1>16, <2>1 DEF OutputInv, WorkersSaw, PastCommit, Grows, DeletedOriginal, At, SlotNamed, IdleWorker, Slot, WorkerSlot, JobRow
  <2>4. RequestsSaw'
    BY <1>0, <1>16, <2>1 DEF OutputInv, RequestsSaw, PastOutputCheck, Grows, DeletedOriginal
  <2>5. ContentLinksRegistered'
    BY <1>0, <1>16, <2>1, <2>2 DEF OutputInv, ContentLinksRegistered, Links, RowsAgree, Grows, DeletedOriginal
  <2>6. QED
    BY <2>1, <2>2, <2>3, <2>4, <2>5 DEF OutputInv
<1>17. CASE DeleteOriginalFails(w)
  <2>1. Grows
    BY <1>0, <1>17 DEF Grows, DeleteOriginalFails, At, SlotNamed, JobRow
  <2>2. RowsAgree'
    BY <1>0, <1>17, <2>1 DEF OutputInv, RowsAgree, WorkersSaw, PastCommit, Grows, DeleteOriginalFails, At, SlotNamed, JobRow, BullState
  <2>3. WorkersSaw'
    BY <1>0, <1>17, <2>1 DEF OutputInv, WorkersSaw, PastCommit, Grows, DeleteOriginalFails, At, SlotNamed, IdleWorker, Slot, WorkerSlot, JobRow
  <2>4. RequestsSaw'
    BY <1>0, <1>17, <2>1 DEF OutputInv, RequestsSaw, PastOutputCheck, Grows, DeleteOriginalFails
  <2>5. ContentLinksRegistered'
    BY <1>0, <1>17, <2>1, <2>2 DEF OutputInv, ContentLinksRegistered, Links, RowsAgree, Grows, DeleteOriginalFails
  <2>6. QED
    BY <2>1, <2>2, <2>3, <2>4, <2>5 DEF OutputInv
<1>18. CASE Finish(w)
  <2>1. Grows
    BY <1>0, <1>18 DEF Grows, Finish, Release, SlotNamed, JobRow
  <2>2. RowsAgree'
    BY <1>0, <1>18, <2>1 DEF OutputInv, RowsAgree, WorkersSaw, PastCommit, Grows, Finish, Release, SlotNamed, JobRow, BullState
  <2>3. WorkersSaw'
    BY <1>0, <1>18, <2>1 DEF OutputInv, WorkersSaw, PastCommit, Grows, Finish, Release, SlotNamed, IdleWorker, Slot, WorkerSlot, JobRow
  <2>4. RequestsSaw'
    BY <1>0, <1>18, <2>1 DEF OutputInv, RequestsSaw, PastOutputCheck, Grows, Finish
  <2>5. ContentLinksRegistered'
    BY <1>0, <1>18, <2>1, <2>2 DEF OutputInv, ContentLinksRegistered, Links, RowsAgree, Grows, Finish
  <2>6. QED
    BY <2>1, <2>2, <2>3, <2>4, <2>5 DEF OutputInv
<1>19. CASE CleanUp(w)
  <2>1. Grows
    BY <1>0, <1>19 DEF Grows, CleanUp, At, SlotNamed, JobRow
  <2>2. RowsAgree'
    BY <1>0, <1>19, <2>1 DEF OutputInv, RowsAgree, WorkersSaw, PastCommit, Grows, CleanUp, At, SlotNamed, JobRow, BullState
  <2>3. WorkersSaw'
    BY <1>0, <1>19, <2>1 DEF OutputInv, WorkersSaw, PastCommit, Grows, CleanUp, At, SlotNamed, IdleWorker, Slot, WorkerSlot, JobRow
  <2>4. RequestsSaw'
    BY <1>0, <1>19, <2>1 DEF OutputInv, RequestsSaw, PastOutputCheck, Grows, CleanUp
  <2>5. ContentLinksRegistered'
    BY <1>0, <1>19, <2>1, <2>2 DEF OutputInv, ContentLinksRegistered, Links, RowsAgree, Grows, CleanUp
  <2>6. QED
    BY <2>1, <2>2, <2>3, <2>4, <2>5 DEF OutputInv
<1>20. CASE Record(w)
  <2>1. Grows
    <3>1. CASE UNCHANGED job
      BY <3>1 DEF Grows
    <3>2. CASE job' = [job EXCEPT ![worker[w].job].status = worker[w].outcome,
                                  ![worker[w].job].cancel = (worker[w].outcome = "CANCELLED")]
      <4>1. worker[w].outcome # "ABSENT"
        BY <1>0 DEF WorkerSlot, Retryable
      <4>2. QED
        BY <1>0, <3>2, <4>1 DEF Grows, JobRow
    <3>3. QED
      BY <1>20, <3>1, <3>2 DEF Record
  <2>2. RowsAgree'
    <3>1. CASE UNCHANGED job
      BY <1>0, <1>20, <3>1, ReleaseRows DEF OutputInv, RowsAgree, Record
    <3>2. CASE job' = [job EXCEPT ![worker[w].job].status = worker[w].outcome,
                                  ![worker[w].job].cancel = (worker[w].outcome = "CANCELLED")]
      <4>1. ASSUME NEW j \in Jobs
            PROVE  /\ job'[j].output = job[j].output /\ job'[j].assoc = job[j].assoc
                   /\ job'[j].status = "ABSENT" => job[j].status = "ABSENT"
        BY <1>0, <2>1, <3>2 DEF JobRow, Grows
      <4>2. QED
        BY <1>20, <4>1, ReleaseRows DEF OutputInv, RowsAgree, Record
    <3>3. QED
      BY <1>20, <3>1, <3>2 DEF Record
  <2>3. WorkersSaw'
    BY <1>0, <1>20, <2>1 DEF OutputInv, WorkersSaw, PastCommit, Grows, Record, Release, SlotNamed, IdleWorker, Slot, WorkerSlot, JobRow
  <2>4. RequestsSaw'
    BY <1>0, <1>20, <2>1 DEF OutputInv, RequestsSaw, PastOutputCheck, Grows, Record
  <2>5. ContentLinksRegistered'
    BY <1>0, <1>20, <2>1, <2>2 DEF OutputInv, ContentLinksRegistered, Links, RowsAgree, Grows, Record
  <2>6. QED
    BY <2>1, <2>2, <2>3, <2>4, <2>5 DEF OutputInv
<1>21. CASE WorkerLost(w)
  <2>1. Grows
    BY <1>0, <1>21 DEF Grows, WorkerLost, SlotNamed, JobRow
  <2>2. RowsAgree'
    BY <1>0, <1>21, <2>1 DEF OutputInv, RowsAgree, WorkersSaw, PastCommit, Grows, WorkerLost, SlotNamed, JobRow, BullState
  <2>3. WorkersSaw'
    BY <1>0, <1>21, <2>1 DEF OutputInv, WorkersSaw, PastCommit, Grows, WorkerLost, SlotNamed, IdleWorker, Slot, WorkerSlot, JobRow
  <2>4. RequestsSaw'
    BY <1>0, <1>21, <2>1 DEF OutputInv, RequestsSaw, PastOutputCheck, Grows, WorkerLost
  <2>5. ContentLinksRegistered'
    BY <1>0, <1>21, <2>1, <2>2 DEF OutputInv, ContentLinksRegistered, Links, RowsAgree, Grows, WorkerLost
  <2>6. QED
    BY <2>1, <2>2, <2>3, <2>4, <2>5 DEF OutputInv
<1>22. CASE \E j \in Jobs, a \in 1..MaxAttempts : Take(w, j, a)
  <2>0. PICK j \in Jobs, a \in 1..MaxAttempts : Take(w, j, a)
    BY <1>22
  <2>1. Grows
    BY <2>0 DEF Grows, Take
  <2>2. RowsAgree'
    BY <1>0, <2>0 DEF OutputInv, RowsAgree, Take
  <2>3. WorkersSaw'
    <3>1. job[j].status # "ABSENT"
      BY <2>0 DEF OutputInv, RowsAgree, Take
    <3>2. QED
      BY <1>0, <2>0, <3>1 DEF OutputInv, WorkersSaw, PastCommit, Take, Slot
  <2>4. RequestsSaw' /\ ContentLinksRegistered'
    BY <2>0 DEF OutputInv, RequestsSaw, ContentLinksRegistered, Links, Take
  <2>5. QED
    BY <2>1, <2>2, <2>3, <2>4 DEF OutputInv
<1>23. QED
  BY <1>1, <1>2, <1>3, <1>4, <1>5, <1>6, <1>7, <1>8, <1>9, <1>10, <1>11, <1>12, <1>13, <1>14, <1>15, <1>16, <1>17, <1>18, <1>19, <1>20, <1>21, <1>22 DEF WorkerStep

\* A request moves past the output check only if the output is registered.
LEMMA GotoSaw ==
  ASSUME TypeParts, RequestsSaw, Grows, NEW r \in Requests, req[r].pc # "idle",
         NEW pc, Goto(r, pc), pc \in PastOutputCheck => job[req[r].job].output
  PROVE  RequestsSaw'
<1>1. ASSUME NEW q \in Requests
      PROVE  /\ req'[q].pc # "idle" => job'[req'[q].job].status # "ABSENT"
             /\ req'[q].pc \in PastOutputCheck => job'[req'[q].job].output
  <2>1. req'[q].job = req[q].job /\ req'[q].pc = IF q = r THEN pc ELSE req[q].pc
    BY DEF Goto, TypeParts, RequestsOK, RequestSlot
  <2>2. QED
    BY <2>1 DEF RequestsSaw, Grows, TypeParts, RequestsOK, PastOutputCheck
<1>2. QED
  BY <1>1 DEF RequestsSaw

\* A request that is answered says nothing of any job any more.
LEMMA ReplySaw ==
  ASSUME TypeParts, RequestsSaw, Grows, NEW r \in Requests, Reply(r)
  PROVE  RequestsSaw'
  BY DEF Reply, RequestsSaw, Grows, TypeParts, RequestsOK, PastOutputCheck, IdleRequest, Pending

\* A statement of a request, or its loss, keeps OutputInv and takes no output
\* back.
LEMMA RequestOutputs ==
  ASSUME TypeParts, OutputInv, NEW r \in Requests, RequestStep(r) \/ RequestLost(r)
  PROVE  OutputInv' /\ Grows
<1>0. /\ job \in [Jobs -> JobRow] /\ worker \in [Workers -> WorkerSlot]
      /\ bull \in [Jobs -> [1..MaxAttempts -> BullState]] /\ outRow \in [Jobs -> {"NONE", "READY"}]
      /\ req \in [Requests -> RequestSlot] /\ target \in [Targets -> TargetRow]
      /\ \A v \in Workers : SlotNamed(worker[v])
      /\ \A q \in Requests : req[q].pc # "idle" => req[q].job \in Jobs
  BY DEF TypeParts, RowsOK, WorkersOK, RequestsOK
<1>1. CASE Requeue(r)
  <2>1. Grows
    BY <1>0, <1>1 DEF Grows, Requeue, JobOnly, RowsOnly, JobRow
  <2>2. RowsAgree'
    <3>1. \A j \in Jobs : job'[j].output = job[j].output /\ job'[j].assoc = job[j].assoc
      BY <1>0, <1>1 DEF Requeue, JobRow
    <3>2. outRow' = outRow /\ bull' = bull
      BY <1>1 DEF Requeue, RowsOnly
    <3>3. ASSUME NEW j \in Jobs, job'[j].status = "ABSENT" PROVE job[j].status = "ABSENT"
      BY <2>1, <3>3 DEF Grows
    <3>4. QED
      BY <3>1, <3>2, <3>3 DEF OutputInv, RowsAgree
  <2>3. WorkersSaw'
    BY <1>0, <1>1, <2>1 DEF OutputInv, WorkersSaw, PastCommit, SlotNamed, Grows, Requeue, JobOnly, RowsOnly
  <2>4. RequestsSaw'
    BY <1>1, <2>1, GotoSaw, ReplySaw DEF OutputInv, RowsAgree, RequestsSaw, PastOutputCheck, Requeue
  <2>5. ContentLinksRegistered'
    BY <1>0, <1>1, <2>1, <2>2 DEF OutputInv, ContentLinksRegistered, Links, RowsAgree, Grows, Requeue, JobOnly, RowsOnly
  <2>6. QED
    BY <2>1, <2>2, <2>3, <2>4, <2>5 DEF OutputInv
<1>2. CASE QueueAdd(r)
  <2>1. Grows
    BY <1>0, <1>2 DEF Grows, QueueAdd, JobOnly, RowsOnly, JobRow
  <2>2. RowsAgree'
    BY <1>0, <1>2, <2>1 DEF OutputInv, RowsAgree, RequestsSaw, PastOutputCheck, Grows, QueueAdd, JobOnly, RowsOnly, JobRow, BullState
  <2>3. WorkersSaw'
    BY <1>0, <1>2, <2>1 DEF OutputInv, WorkersSaw, PastCommit, SlotNamed, Grows, QueueAdd, JobOnly, RowsOnly
  <2>4. RequestsSaw'
    BY <1>2, <2>1, GotoSaw, ReplySaw DEF OutputInv, RowsAgree, RequestsSaw, PastOutputCheck, QueueAdd
  <2>5. ContentLinksRegistered'
    BY <1>0, <1>2, <2>1, <2>2 DEF OutputInv, ContentLinksRegistered, Links, RowsAgree, Grows, QueueAdd, JobOnly, RowsOnly
  <2>6. QED
    BY <2>1, <2>2, <2>3, <2>4, <2>5 DEF OutputInv
<1>3. CASE QueueLink(r)
  <2>1. Grows
    BY <1>0, <1>3 DEF Grows, QueueLink, JobOnly, RowsOnly, JobRow
  <2>2. RowsAgree'
    BY <1>0, <1>3, <2>1 DEF OutputInv, RowsAgree, RequestsSaw, PastOutputCheck, Grows, QueueLink, JobOnly, RowsOnly, JobRow, BullState
  <2>3. WorkersSaw'
    BY <1>0, <1>3, <2>1 DEF OutputInv, WorkersSaw, PastCommit, SlotNamed, Grows, QueueLink, JobOnly, RowsOnly
  <2>4. RequestsSaw'
    BY <1>3, <2>1, GotoSaw, ReplySaw DEF OutputInv, RowsAgree, RequestsSaw, PastOutputCheck, QueueLink
  <2>5. ContentLinksRegistered'
    BY <1>0, <1>3, <2>1, <2>2 DEF OutputInv, ContentLinksRegistered, Links, RowsAgree, Grows, QueueLink, JobOnly, RowsOnly
  <2>6. QED
    BY <2>1, <2>2, <2>3, <2>4, <2>5 DEF OutputInv
<1>4. CASE QueueAddFails(r)
  <2>1. Grows
    BY <1>0, <1>4 DEF Grows, QueueAddFails, JobOnly, RowsOnly, JobRow
  <2>2. RowsAgree'
    BY <1>0, <1>4, <2>1 DEF OutputInv, RowsAgree, RequestsSaw, PastOutputCheck, Grows, QueueAddFails, JobOnly, RowsOnly, JobRow, BullState
  <2>3. WorkersSaw'
    BY <1>0, <1>4, <2>1 DEF OutputInv, WorkersSaw, PastCommit, SlotNamed, Grows, QueueAddFails, JobOnly, RowsOnly
  <2>4. RequestsSaw'
    BY <1>4, <2>1, GotoSaw, ReplySaw DEF OutputInv, RowsAgree, RequestsSaw, PastOutputCheck, QueueAddFails
  <2>5. ContentLinksRegistered'
    BY <1>0, <1>4, <2>1, <2>2 DEF OutputInv, ContentLinksRegistered, Links, RowsAgree, Grows, QueueAddFails, JobOnly, RowsOnly
  <2>6. QED
    BY <2>1, <2>2, <2>3, <2>4, <2>5 DEF OutputInv
<1>5. CASE QueueAddFailedJob(r)
  <2>1. Grows
    BY <1>0, <1>5 DEF Grows, QueueAddFailedJob, JobOnly, RowsOnly, JobRow
  <2>2. RowsAgree'
    BY <1>0, <1>5, <2>1 DEF OutputInv, RowsAgree, RequestsSaw, PastOutputCheck, Grows, QueueAddFailedJob, JobOnly, RowsOnly, JobRow, BullState
  <2>3. WorkersSaw'
    BY <1>0, <1>5, <2>1 DEF OutputInv, WorkersSaw, PastCommit, SlotNamed, Grows, QueueAddFailedJob, JobOnly, RowsOnly
  <2>4. RequestsSaw'
    BY <1>5, <2>1, GotoSaw, ReplySaw DEF OutputInv, RowsAgree, RequestsSaw, PastOutputCheck, QueueAddFailedJob
  <2>5. ContentLinksRegistered'
    BY <1>0, <1>5, <2>1, <2>2 DEF OutputInv, ContentLinksRegistered, Links, RowsAgree, Grows, QueueAddFailedJob, JobOnly, RowsOnly
  <2>6. QED
    BY <2>1, <2>2, <2>3, <2>4, <2>5 DEF OutputInv
<1>6. CASE QueueAddFailedMedia(r)
  <2>1. Grows
    BY <1>0, <1>6 DEF Grows, QueueAddFailedMedia, JobOnly, RowsOnly, JobRow
  <2>2. RowsAgree'
    BY <1>0, <1>6, <2>1 DEF OutputInv, RowsAgree, RequestsSaw, PastOutputCheck, Grows, QueueAddFailedMedia, JobOnly, RowsOnly, JobRow, BullState
  <2>3. WorkersSaw'
    BY <1>0, <1>6, <2>1 DEF OutputInv, WorkersSaw, PastCommit, SlotNamed, Grows, QueueAddFailedMedia, JobOnly, RowsOnly
  <2>4. RequestsSaw'
    BY <1>6, <2>1, GotoSaw, ReplySaw DEF OutputInv, RowsAgree, RequestsSaw, PastOutputCheck, QueueAddFailedMedia
  <2>5. ContentLinksRegistered'
    BY <1>0, <1>6, <2>1, <2>2 DEF OutputInv, ContentLinksRegistered, Links, RowsAgree, Grows, QueueAddFailedMedia, JobOnly, RowsOnly
  <2>6. QED
    BY <2>1, <2>2, <2>3, <2>4, <2>5 DEF OutputInv
<1>7. CASE CancelRemove(r)
  <2>1. Grows
    BY <1>0, <1>7 DEF Grows, CancelRemove, JobOnly, RowsOnly, JobRow
  <2>2. RowsAgree'
    BY <1>0, <1>7, <2>1 DEF OutputInv, RowsAgree, RequestsSaw, PastOutputCheck, Grows, CancelRemove, JobOnly, RowsOnly, JobRow, BullState
  <2>3. WorkersSaw'
    BY <1>0, <1>7, <2>1 DEF OutputInv, WorkersSaw, PastCommit, SlotNamed, Grows, CancelRemove, JobOnly, RowsOnly
  <2>4. RequestsSaw'
    BY <1>7, <2>1, GotoSaw, ReplySaw DEF OutputInv, RowsAgree, RequestsSaw, PastOutputCheck, CancelRemove
  <2>5. ContentLinksRegistered'
    BY <1>0, <1>7, <2>1, <2>2 DEF OutputInv, ContentLinksRegistered, Links, RowsAgree, Grows, CancelRemove, JobOnly, RowsOnly
  <2>6. QED
    BY <2>1, <2>2, <2>3, <2>4, <2>5 DEF OutputInv
<1>8. CASE CancelMark(r)
  <2>1. Grows
    BY <1>0, <1>8 DEF Grows, CancelMark, JobOnly, RowsOnly, JobRow
  <2>2. RowsAgree'
    BY <1>0, <1>8, <2>1 DEF OutputInv, RowsAgree, RequestsSaw, PastOutputCheck, Grows, CancelMark, JobOnly, RowsOnly, JobRow, BullState
  <2>3. WorkersSaw'
    BY <1>0, <1>8, <2>1 DEF OutputInv, WorkersSaw, PastCommit, SlotNamed, Grows, CancelMark, JobOnly, RowsOnly
  <2>4. RequestsSaw'
    BY <1>8, <2>1, GotoSaw, ReplySaw DEF OutputInv, RowsAgree, RequestsSaw, PastOutputCheck, CancelMark
  <2>5. ContentLinksRegistered'
    BY <1>0, <1>8, <2>1, <2>2 DEF OutputInv, ContentLinksRegistered, Links, RowsAgree, Grows, CancelMark, JobOnly, RowsOnly
  <2>6. QED
    BY <2>1, <2>2, <2>3, <2>4, <2>5 DEF OutputInv
<1>9. CASE CancelFlag(r)
  <2>1. Grows
    BY <1>0, <1>9 DEF Grows, CancelFlag, JobOnly, RowsOnly, JobRow
  <2>2. RowsAgree'
    BY <1>0, <1>9, <2>1 DEF OutputInv, RowsAgree, RequestsSaw, PastOutputCheck, Grows, CancelFlag, JobOnly, RowsOnly, JobRow, BullState
  <2>3. WorkersSaw'
    BY <1>0, <1>9, <2>1 DEF OutputInv, WorkersSaw, PastCommit, SlotNamed, Grows, CancelFlag, JobOnly, RowsOnly
  <2>4. RequestsSaw'
    BY <1>9, <2>1, GotoSaw, ReplySaw DEF OutputInv, RowsAgree, RequestsSaw, PastOutputCheck, CancelFlag
  <2>5. ContentLinksRegistered'
    BY <1>0, <1>9, <2>1, <2>2 DEF OutputInv, ContentLinksRegistered, Links, RowsAgree, Grows, CancelFlag, JobOnly, RowsOnly
  <2>6. QED
    BY <2>1, <2>2, <2>3, <2>4, <2>5 DEF OutputInv
<1>10. CASE ConfigureWrite(r)
  <2>1. Grows
    BY <1>0, <1>10 DEF Grows, ConfigureWrite, JobOnly, RowsOnly, JobRow
  <2>2. RowsAgree'
    BY <1>0, <1>10, <2>1 DEF OutputInv, RowsAgree, RequestsSaw, PastOutputCheck, Grows, ConfigureWrite, JobOnly, RowsOnly, JobRow, BullState
  <2>3. WorkersSaw'
    BY <1>0, <1>10, <2>1 DEF OutputInv, WorkersSaw, PastCommit, SlotNamed, Grows, ConfigureWrite, JobOnly, RowsOnly
  <2>4. RequestsSaw'
    <3>1. req[r].job \in Jobs /\ job[req[r].job] \in JobRow
      BY <1>0, <1>10 DEF ConfigureWrite
    <3>2. \/ Goto(r, "assocRead")
          \/ Goto(r, "count") /\ job[req[r].job].assoc
          \/ Reply(r)
      BY <1>10 DEF ConfigureWrite
    <3>3. QED
      BY <1>10, <2>1, <3>1, <3>2, GotoSaw, ReplySaw
         DEF OutputInv, RowsAgree, PastOutputCheck, ConfigureWrite
  <2>5. ContentLinksRegistered'
    BY <1>0, <1>10, <2>1, <2>2 DEF OutputInv, ContentLinksRegistered, Links, RowsAgree, Grows, ConfigureWrite, JobOnly, RowsOnly
  <2>6. QED
    BY <2>1, <2>2, <2>3, <2>4, <2>5 DEF OutputInv
<1>11. CASE AssociateRead(r)
  <2>1. Grows
    BY <1>0, <1>11 DEF Grows, AssociateRead, JobOnly, RowsOnly, JobRow
  <2>2. RowsAgree'
    BY <1>0, <1>11, <2>1 DEF OutputInv, RowsAgree, RequestsSaw, PastOutputCheck, Grows, AssociateRead, JobOnly, RowsOnly, JobRow, BullState
  <2>3. WorkersSaw'
    BY <1>0, <1>11, <2>1 DEF OutputInv, WorkersSaw, PastCommit, SlotNamed, Grows, AssociateRead, JobOnly, RowsOnly
  <2>4. RequestsSaw'
    BY <1>11, <2>1, GotoSaw, ReplySaw DEF OutputInv, AssociateRead, MayAssociate
  <2>5. ContentLinksRegistered'
    BY <1>0, <1>11, <2>1, <2>2 DEF OutputInv, ContentLinksRegistered, Links, RowsAgree, Grows, AssociateRead, JobOnly, RowsOnly
  <2>6. QED
    BY <2>1, <2>2, <2>3, <2>4, <2>5 DEF OutputInv
<1>12. CASE Associate(r)
  <2>1. Grows
    BY <1>0, <1>12 DEF Grows, Associate, JobRow
  <2>2. RowsAgree'
    BY <1>0, <1>12, <2>1 DEF OutputInv, RowsAgree, RequestsSaw, PastOutputCheck, Grows, Associate, JobRow, BullState
  <2>3. WorkersSaw'
    BY <1>0, <1>12, <2>1 DEF OutputInv, WorkersSaw, PastCommit, SlotNamed, Grows, Associate
  <2>4. RequestsSaw'
    BY <1>12, <2>1, GotoSaw, ReplySaw DEF OutputInv, RowsAgree, RequestsSaw, PastOutputCheck, Associate
  <2>5. ContentLinksRegistered'
    <3>1. job[req[r].job].output /\ req[r].job \in Jobs
      BY <1>0, <1>12 DEF OutputInv, RequestsSaw, PastOutputCheck, Associate
    <3>2. ASSUME NEW t \in Targets, NEW j \in Jobs, Links(t, j)'
          PROVE  Links(t, j) \/ j = req[r].job
      BY <1>0, <1>12, <3>2 DEF Links, Associate, Linked, TargetRow
    <3>3. QED
      BY <1>12, <2>1, <2>2, <3>1, <3>2
         DEF OutputInv, ContentLinksRegistered, RowsAgree, Grows, Associate
  <2>6. QED
    BY <2>1, <2>2, <2>3, <2>4, <2>5 DEF OutputInv
<1>13. CASE AssociateRefused(r)
  <2>1. Grows
    BY <1>0, <1>13 DEF Grows, AssociateRefused, JobOnly, RowsOnly, JobRow
  <2>2. RowsAgree'
    BY <1>0, <1>13, <2>1 DEF OutputInv, RowsAgree, RequestsSaw, PastOutputCheck, Grows, AssociateRefused, JobOnly, RowsOnly, JobRow, BullState
  <2>3. WorkersSaw'
    BY <1>0, <1>13, <2>1 DEF OutputInv, WorkersSaw, PastCommit, SlotNamed, Grows, AssociateRefused, JobOnly, RowsOnly
  <2>4. RequestsSaw'
    BY <1>13, <2>1, GotoSaw, ReplySaw DEF OutputInv, RowsAgree, RequestsSaw, PastOutputCheck, AssociateRefused
  <2>5. ContentLinksRegistered'
    BY <1>0, <1>13, <2>1, <2>2 DEF OutputInv, ContentLinksRegistered, Links, RowsAgree, Grows, AssociateRefused, JobOnly, RowsOnly
  <2>6. QED
    BY <2>1, <2>2, <2>3, <2>4, <2>5 DEF OutputInv
<1>14. CASE CountReferences(r)
  <2>1. Grows
    <3>1. CASE UNCHANGED job
      BY <3>1 DEF Grows
    <3>2. CASE job' = [job EXCEPT ![req[r].job].retain = TRUE]
      BY <1>0, <3>2 DEF Grows, JobRow
    <3>3. QED
      BY <1>14, <3>1, <3>2 DEF CountReferences
  <2>2. RowsAgree'
    <3>1. CASE UNCHANGED job
      BY <1>14, <3>1 DEF OutputInv, RowsAgree, CountReferences, JobOnly, RowsOnly
    <3>2. CASE job' = [job EXCEPT ![req[r].job].retain = TRUE]
      <4>1. ASSUME NEW j \in Jobs
            PROVE  /\ job'[j].output = job[j].output /\ job'[j].assoc = job[j].assoc
                   /\ job'[j].status = job[j].status
        BY <1>0, <3>2 DEF JobRow
      <4>2. QED
        BY <1>14, <4>1 DEF OutputInv, RowsAgree, CountReferences, JobOnly, RowsOnly
    <3>3. QED
      BY <1>14, <3>1, <3>2 DEF CountReferences
  <2>3. WorkersSaw'
    BY <1>0, <1>14, <2>1 DEF OutputInv, WorkersSaw, PastCommit, SlotNamed, Grows, CountReferences, JobOnly, RowsOnly
  <2>4. RequestsSaw'
    BY <1>14, <2>1, GotoSaw, ReplySaw DEF OutputInv, RowsAgree, RequestsSaw, PastOutputCheck, CountReferences
  <2>5. ContentLinksRegistered'
    BY <1>0, <1>14, <2>1, <2>2 DEF OutputInv, ContentLinksRegistered, Links, RowsAgree, Grows, CountReferences, JobOnly, RowsOnly
  <2>6. QED
    BY <2>1, <2>2, <2>3, <2>4, <2>5 DEF OutputInv
<1>15. CASE RemoveOriginal(r)
  <2>1. Grows
    BY <1>0, <1>15 DEF Grows, RemoveOriginal, JobOnly, RowsOnly, JobRow
  <2>2. RowsAgree'
    BY <1>0, <1>15, <2>1 DEF OutputInv, RowsAgree, RequestsSaw, PastOutputCheck, Grows, RemoveOriginal, JobOnly, RowsOnly, JobRow, BullState
  <2>3. WorkersSaw'
    BY <1>0, <1>15, <2>1 DEF OutputInv, WorkersSaw, PastCommit, SlotNamed, Grows, RemoveOriginal, JobOnly, RowsOnly
  <2>4. RequestsSaw'
    BY <1>15, <2>1, GotoSaw, ReplySaw DEF OutputInv, RowsAgree, RequestsSaw, PastOutputCheck, RemoveOriginal
  <2>5. ContentLinksRegistered'
    BY <1>0, <1>15, <2>1, <2>2 DEF OutputInv, ContentLinksRegistered, Links, RowsAgree, Grows, RemoveOriginal, JobOnly, RowsOnly
  <2>6. QED
    BY <2>1, <2>2, <2>3, <2>4, <2>5 DEF OutputInv
<1>16. CASE RemoveOriginalFails(r)
  <2>1. Grows
    BY <1>0, <1>16 DEF Grows, RemoveOriginalFails, JobOnly, RowsOnly, JobRow
  <2>2. RowsAgree'
    BY <1>0, <1>16, <2>1 DEF OutputInv, RowsAgree, RequestsSaw, PastOutputCheck, Grows, RemoveOriginalFails, JobOnly, RowsOnly, JobRow, BullState
  <2>3. WorkersSaw'
    BY <1>0, <1>16, <2>1 DEF OutputInv, WorkersSaw, PastCommit, SlotNamed, Grows, RemoveOriginalFails, JobOnly, RowsOnly
  <2>4. RequestsSaw'
    BY <1>16, <2>1, GotoSaw, ReplySaw DEF OutputInv, RowsAgree, RequestsSaw, PastOutputCheck, RemoveOriginalFails
  <2>5. ContentLinksRegistered'
    BY <1>0, <1>16, <2>1, <2>2 DEF OutputInv, ContentLinksRegistered, Links, RowsAgree, Grows, RemoveOriginalFails, JobOnly, RowsOnly
  <2>6. QED
    BY <2>1, <2>2, <2>3, <2>4, <2>5 DEF OutputInv
<1>17. CASE RemovedOriginal(r)
  <2>1. Grows
    BY <1>0, <1>17 DEF Grows, RemovedOriginal, JobOnly, RowsOnly, JobRow
  <2>2. RowsAgree'
    BY <1>0, <1>17, <2>1 DEF OutputInv, RowsAgree, RequestsSaw, PastOutputCheck, Grows, RemovedOriginal, JobOnly, RowsOnly, JobRow, BullState
  <2>3. WorkersSaw'
    BY <1>0, <1>17, <2>1 DEF OutputInv, WorkersSaw, PastCommit, SlotNamed, Grows, RemovedOriginal, JobOnly, RowsOnly
  <2>4. RequestsSaw'
    BY <1>17, <2>1, GotoSaw, ReplySaw DEF OutputInv, RowsAgree, RequestsSaw, PastOutputCheck, RemovedOriginal
  <2>5. ContentLinksRegistered'
    BY <1>0, <1>17, <2>1, <2>2 DEF OutputInv, ContentLinksRegistered, Links, RowsAgree, Grows, RemovedOriginal, JobOnly, RowsOnly
  <2>6. QED
    BY <2>1, <2>2, <2>3, <2>4, <2>5 DEF OutputInv
<1>18. CASE RequestLost(r)
  <2>1. Grows
    BY <1>0, <1>18 DEF Grows, RequestLost, JobOnly, RowsOnly, JobRow
  <2>2. RowsAgree'
    BY <1>0, <1>18, <2>1 DEF OutputInv, RowsAgree, RequestsSaw, PastOutputCheck, Grows, RequestLost, JobOnly, RowsOnly, JobRow, BullState
  <2>3. WorkersSaw'
    BY <1>0, <1>18, <2>1 DEF OutputInv, WorkersSaw, PastCommit, SlotNamed, Grows, RequestLost, JobOnly, RowsOnly
  <2>4. RequestsSaw'
    BY <1>18, <2>1, GotoSaw, ReplySaw DEF OutputInv, RowsAgree, RequestsSaw, PastOutputCheck, RequestLost
  <2>5. ContentLinksRegistered'
    BY <1>0, <1>18, <2>1, <2>2 DEF OutputInv, ContentLinksRegistered, Links, RowsAgree, Grows, RequestLost, JobOnly, RowsOnly
  <2>6. QED
    BY <2>1, <2>2, <2>3, <2>4, <2>5 DEF OutputInv
<1>19. QED
  BY <1>1, <1>2, <1>3, <1>4, <1>5, <1>6, <1>7, <1>8, <1>9, <1>10, <1>11, <1>12, <1>13, <1>14, <1>15, <1>16, <1>17, <1>18 DEF RequestStep

\* So does the beginning of a request.
LEMMA RequestBeginsOutputs ==
  ASSUME TypeParts, OutputInv, NEW r \in Requests, RequestBegins(r)
  PROVE  OutputInv' /\ Grows
<1>0. /\ job \in [Jobs -> JobRow] /\ worker \in [Workers -> WorkerSlot]
      /\ req \in [Requests -> RequestSlot]
      /\ \A v \in Workers : SlotNamed(worker[v])
      /\ \A q \in Requests : req[q].pc # "idle" => req[q].job \in Jobs
  BY DEF TypeParts, RowsOK, WorkersOK, RequestsOK
<1>1. PICK j \in Jobs : RequestBegins(r)!(j)
  BY DEF RequestBegins
<1>2. CASE \E t \in Targets \cup {Null}, keep \in Retain : Enqueue(r, j, t, keep)
  <2>0. PICK t \in Targets \cup {Null}, keep \in Retain : Enqueue(r, j, t, keep)
    BY <1>2
  <2>1. Grows
    BY <1>0, <2>0 DEF OutputInv, RowsAgree, Grows, Enqueue, NewJob
  <2>2. RowsAgree'
    BY <1>0, <2>0 DEF OutputInv, RowsAgree, Enqueue, NewJob, RowsOnly
  <2>3. WorkersSaw'
    BY <1>0, <2>0, <2>1 DEF OutputInv, WorkersSaw, PastCommit, SlotNamed, Grows, Enqueue, RowsOnly
  <2>4. RequestsSaw'
    BY <1>0, <2>0, <2>1 DEF OutputInv, RequestsSaw, PastOutputCheck, Grows, Enqueue, NewJob, Pending
  <2>5. ContentLinksRegistered'
    BY <1>0, <2>0, <2>1 DEF OutputInv, ContentLinksRegistered, Links, RowsAgree, Grows, Enqueue, RowsOnly
  <2>6. QED
    BY <2>1, <2>2, <2>3, <2>4, <2>5 DEF OutputInv
<1>3. ASSUME NEW pc, NEW a, NEW t, NEW keep, JobOnly, UNCHANGED job,
             req' = [req EXCEPT ![r] = Pending(pc, j, a, t, keep)],
             job[j].status # "ABSENT", pc \in PastOutputCheck => job[j].output
      PROVE  OutputInv' /\ Grows
  <2>1. RequestsSaw'
    BY <1>0, <1>3 DEF OutputInv, RequestsSaw, Pending
  <2>2. QED
    BY <1>3, <2>1 DEF OutputInv, Grows, RowsAgree, WorkersSaw, ContentLinksRegistered, Links,
                      JobOnly, RowsOnly
<1>4. CASE RetryCheck(r, j)
  BY <1>3, <1>4 DEF RetryCheck, Retryable, PastOutputCheck
<1>5. CASE CancelCheck(r, j)
  BY <1>3, <1>5 DEF CancelCheck, Active, PastOutputCheck
<1>6. CASE \E t \in Targets \cup {Null}, keep \in Retain \cup {Null} : ConfigureCheck(r, j, t, keep)
  <2>1. PICK t \in Targets \cup {Null}, keep \in Retain \cup {Null} : ConfigureCheck(r, j, t, keep)
    BY <1>6
  <2>2. QED
    BY <1>3, <2>1 DEF ConfigureCheck, PastOutputCheck
<1>7. CASE \E t \in Targets : AssociateCheck(r, j, t)
  <2>1. PICK t \in Targets : AssociateCheck(r, j, t)
    BY <1>7
  <2>2. job[j].output /\ job[j].status # "ABSENT"
    BY <2>1 DEF AssociateCheck, MayAssociate
  <2>3. QED
    BY <1>3, <2>1, <2>2 DEF AssociateCheck
<1>8. QED
  BY <1>1, <1>2, <1>4, <1>5, <1>6, <1>7

\* OutputInv holds at the start: there is no output and nobody works.
LEMMA InitOutputs == Init => OutputInv
  BY NullAssumption DEF Init, OutputInv, RowsAgree, WorkersSaw, RequestsSaw, PastCommit, PastOutputCheck,
         ContentLinksRegistered, Links, NoJob, IdleWorker, IdleRequest, Slot, Pending

\* Every step keeps OutputInv, given the types.
LEMMA StepOutputs ==
  ASSUME TypeInv, OutputInv, Next
  PROVE  OutputInv' /\ Grows
  BY TypeInvParts, WorkerOutputs, RequestOutputs, RequestBeginsOutputs DEF Next

\* OutputInv is inductive relative to TypeInv.
LEMMA NextOutputs == TypeInv /\ OutputInv /\ [Next]_vars => OutputInv'
<1>1. ASSUME OutputInv, UNCHANGED vars PROVE OutputInv'
  BY <1>1 DEF vars, OutputInv, RowsAgree, WorkersSaw, RequestsSaw, PastCommit, PastOutputCheck,
              ContentLinksRegistered, Links
<1>2. QED
  BY <1>1, StepOutputs

\* An output column, associatedAt, a worker past the commit and a request past
\* the output check all imply a registered output, however requests, workers,
\* faults and crashes interleave.
THEOREM OutputInvariance == Spec => []OutputInv
  BY InitOutputs, NextOutputs, TypeInvariance, PTL DEF Spec

\* A content never names an output whose MediaFile row was not created.
THEOREM LinksRegistered == Spec => []ContentLinksRegistered
<1>1. OutputInv => ContentLinksRegistered
  BY DEF OutputInv
<1>2. QED
  BY <1>1, OutputInvariance, PTL

-----------------------------------------------------------------------------
(* VideoProcessing implements OutputCatalogue: only five actions touch the *)
(* rows and objects the catalogue is made of; OutputInv gives each of them *)
(* the registered output that the catalogue asks for, and every other      *)
(* action is a stutter.                                                    *)

\* The rows and objects the catalogue is made of.
Shown == <<outRow, target, original>>

Registers ==
  \E j \in Jobs : /\ outRow[j] = "NONE" /\ outRow' = [outRow EXCEPT ![j] = "READY"]
                  /\ UNCHANGED <<target, original>>

Attaches ==
  \E j \in Jobs, t \in Targets : /\ outRow[j] = "READY"
                                 /\ target' = [target EXCEPT ![t] = Linked(t, j)]
                                 /\ UNCHANGED <<outRow, original>>

GivesUp ==
  \E j \in Jobs : /\ outRow[j] = "READY" /\ original' = original \ {MediaOf[j]}
                  /\ UNCHANGED <<outRow, target>>

\* A statement of a worker registers an output, attaches a registered one, gives
\* up an original whose output is registered, or shows nothing.
LEMMA WorkerShows ==
  ASSUME TypeParts, OutputInv, NEW w \in Workers, WorkerStep(w) \/ WorkerLost(w)
  PROVE  UNCHANGED Shown \/ Registers \/ Attaches \/ GivesUp
<1>0. worker[w].pc # "idle" => worker[w].job \in Jobs
  BY DEF TypeParts, WorkersOK, SlotNamed
<1>1. CASE Commit(w)
  BY <1>0, <1>1 DEF Commit, Registers
<1>2. CASE AssociateOutput(w)
  <2>1. worker[w].job \in Jobs /\ outRow[worker[w].job] = "READY"
    BY <1>0, <1>2 DEF AssociateOutput, OutputInv, WorkersSaw, RowsAgree, PastCommit
  <2>2. CASE worker[w].dest \in Targets
    BY <1>2, <2>1, <2>2 DEF AssociateOutput, Attaches
  <2>3. CASE worker[w].dest \notin Targets
    BY <1>2, <2>3 DEF AssociateOutput, Shown, TypeParts, RowsOK
  <2>4. QED
    BY <2>2, <2>3
<1>3. CASE DeleteOriginal(w)
  BY <1>0, <1>3 DEF DeleteOriginal, GivesUp, OutputInv, WorkersSaw, RowsAgree, PastCommit
<1>4. ASSUME ~Commit(w), ~AssociateOutput(w), ~DeleteOriginal(w)
      PROVE  UNCHANGED Shown
  BY <1>4 DEF WorkerStep, WorkerLost, Shown, Take, Load, Start, Probe, Encode, Upload, Uploaded, Cancelled,
              Fails, CommitRefused, Reread, MarkAssociated, FailsLate, Settle,
              DeleteOriginalFails, DeletedOriginal, Finish, CleanUp, Record
<1>5. QED
  BY <1>1, <1>2, <1>3, <1>4

\* A statement of a request attaches a registered output, gives up an original
\* whose output is registered, or shows nothing.
LEMMA RequestShows ==
  ASSUME TypeParts, OutputInv, NEW r \in Requests,
         RequestBegins(r) \/ RequestStep(r) \/ RequestLost(r)
  PROVE  UNCHANGED Shown \/ Attaches \/ GivesUp
<1>0. req[r].pc # "idle" => req[r].job \in Jobs
  BY DEF TypeParts, RequestsOK
<1>1. CASE Associate(r)
  <2>1. req[r].job \in Jobs /\ outRow[req[r].job] = "READY"
    BY <1>0, <1>1 DEF Associate, OutputInv, RequestsSaw, RowsAgree, PastOutputCheck
  <2>2. CASE req[r].target \in Targets
    BY <1>1, <2>1, <2>2 DEF Associate, Attaches
  <2>3. CASE req[r].target \notin Targets
    BY <1>1, <2>3 DEF Associate, Shown, TypeParts, RowsOK
  <2>4. QED
    BY <2>2, <2>3
<1>2. CASE RemoveOriginal(r)
  BY <1>0, <1>2 DEF RemoveOriginal, GivesUp, OutputInv, RequestsSaw, RowsAgree, PastOutputCheck
<1>3. ASSUME ~Associate(r), ~RemoveOriginal(r), RequestStep(r) \/ RequestLost(r)
      PROVE  UNCHANGED Shown
  BY <1>3 DEF RequestStep, RequestLost, Shown, JobOnly, RowsOnly, Requeue, QueueAdd, QueueLink,
              QueueAddFails, QueueAddFailedJob, QueueAddFailedMedia, CancelRemove, CancelMark,
              CancelFlag, ConfigureWrite, AssociateRead, AssociateRefused, CountReferences,
              RemoveOriginalFails, RemovedOriginal
<1>4. CASE RequestBegins(r)
  BY <1>4 DEF RequestBegins, Shown, JobOnly, RowsOnly, Enqueue, RetryCheck, CancelCheck,
              ConfigureCheck, AssociateCheck
<1>5. QED
  BY <1>1, <1>2, <1>3, <1>4

\* To register an output is a step of the catalogue.
LEMMA RegistersStep ==
  ASSUME TypeParts, Registers
  PROVE Catalogue!CatalogueNext
<1>1. PICK j \in Jobs : /\ outRow[j] = "NONE" /\ outRow' = [outRow EXCEPT ![j] = "READY"]
                        /\ UNCHANGED <<target, original>>
  BY DEF Registers
<1>2. Catalogue!Register(j)
  BY <1>1 DEF Catalogue!Register, TypeParts, RowsOK
<1>3. QED
  BY <1>2 DEF Catalogue!CatalogueNext

\* To give up an original of a registered output is a step of the catalogue.
LEMMA GivesUpStep ==
  ASSUME TypeParts, GivesUp
  PROVE Catalogue!CatalogueNext
<1>1. PICK j \in Jobs : /\ outRow[j] = "READY" /\ original' = original \ {MediaOf[j]}
                        /\ UNCHANGED <<outRow, target>>
  BY DEF GivesUp
<1>2. MediaOf[j] \in Media /\ Catalogue!GiveUp(MediaOf[j])
  BY <1>1, PoolAssumption DEF Catalogue!GiveUp, TypeParts, RowsOK
<1>3. QED
  BY <1>2 DEF Catalogue!CatalogueNext

\* To attach a registered output writes one column, which the kind of the job and
\* of the content select: a step of the catalogue.
LEMMA AttachesStep ==
  ASSUME TypeParts, Attaches
  PROVE Catalogue!CatalogueNext
<1>1. PICK j \in Jobs, t \in Targets :
         /\ outRow[j] = "READY"
         /\ target' = [target EXCEPT ![t] = Linked(t, j)]
         /\ UNCHANGED <<outRow, original>>
  BY DEF Attaches
<1>2. target \in [Targets -> TargetRow]
  BY DEF TypeParts, RowsOK
<1>3. CASE t \in Movies \/ KindOf[j] = "HLS"
  <2>1. Catalogue!Attach(j, t, "processed")
    BY <1>1, <1>2, <1>3 DEF Catalogue!Attach, Linked
  <2>2. QED
    BY <2>1 DEF Catalogue!CatalogueNext, Catalogue!Columns
<1>4. CASE ~(t \in Movies \/ KindOf[j] = "HLS")
  <2>1. KindOf[j] = "REMUX" /\ t \notin Movies
    BY <1>4, PoolAssumption
  <2>2. Catalogue!Attach(j, t, "remuxed")
    BY <1>1, <1>2, <2>1 DEF Catalogue!Attach, Linked
  <2>3. QED
    BY <2>2 DEF Catalogue!CatalogueNext, Catalogue!Columns
<1>5. QED
  BY <1>3, <1>4

\* Every step of the pipeline is a step of the catalogue or shows nothing.
LEMMA NextCatalogue ==
  TypeInv /\ OutputInv /\ [Next]_vars => [Catalogue!CatalogueNext]_(Catalogue!catalogueVars)
<1>1. ASSUME TypeInv, OutputInv, Next PROVE UNCHANGED Shown \/ Catalogue!CatalogueNext
  BY <1>1, TypeInvParts, WorkerShows, RequestShows, RegistersStep, AttachesStep, GivesUpStep DEF Next
<1>2. ASSUME UNCHANGED Shown PROVE UNCHANGED Catalogue!catalogueVars
  BY <1>2 DEF Shown, Catalogue!catalogueVars
<1>3. UNCHANGED vars => UNCHANGED Shown
  BY DEF vars, Shown
<1>4. QED
  BY <1>1, <1>2, <1>3

\* The pipeline starts as the catalogue does.
LEMMA InitCatalogue == Init => Catalogue!CatalogueInit
<1>1. SUFFICES ASSUME Init PROVE Catalogue!CatalogueInit
  OBVIOUS
<1>2. {j \in Jobs : outRow[j] = "READY"} = {}
  BY <1>1 DEF Init
<1>3. \A t \in Targets : target[t].hls = Null /\ target[t].remux = Null
  BY <1>1 DEF Init
<1>4. QED
  BY <1>1, <1>2, <1>3 DEF Init, Catalogue!CatalogueInit, Catalogue!Columns

\* The pipeline implements OutputCatalogue: outputs are registered once, only
\* registered outputs are attached, and an original is given up only when an
\* output of it is registered.
THEOREM CatalogueRefinement == Spec => ImplementsCatalogue
  BY InitCatalogue, NextCatalogue, TypeInvariance, OutputInvariance, PTL
     DEF Spec, ImplementsCatalogue, Catalogue!CatalogueSpec
=============================================================================
