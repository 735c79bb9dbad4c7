----------------------- MODULE VideoProcessingSafety -------------------------
(***************************************************************************)
(* What the pipeline keeps safe while requests and workers interleave, for *)
(* any number of jobs, slots, requests and attempts.  Each promise holds   *)
(* under the conditions its theorem names: the code breaks it without      *)
(* them, and each is met by a run.                                         *)
(*                                                                         *)
(* One slot at a time works on a job, and what a content plays is whole:   *)
(* the queue keeps an entry for every attempt and delivers an entry again  *)
(* when a worker dies, so the runs of a job are kept apart by the order in *)
(* which its entries come to be, not by a lock.                            *)
(***************************************************************************)
EXTENDS VideoProcessingOutputs

\* The conditions.
NoCrash == MaxCrashes = 0
DatabaseWorks == "db" \notin Faults
StorageWorks == "storage" \notin Faults

-----------------------------------------------------------------------------
(* Who changes what *)

\* A request leaves the outputs and the slots alone.
LEMMA RequestFrame ==
  ASSUME NEW r \in Requests, RequestBegins(r) \/ RequestStep(r) \/ RequestLost(r)
  PROVE  UNCHANGED <<outRow, output, torn, worker>>
<1>1. CASE RequestBegins(r)
  BY <1>1 DEF RequestBegins, Enqueue, RetryCheck, CancelCheck, ConfigureCheck, AssociateCheck,
              JobOnly, RowsOnly
<1>2. CASE RequestStep(r)
  <2>1. CASE Requeue(r) \/ QueueAdd(r) \/ QueueLink(r) \/ QueueAddFails(r)
             \/ QueueAddFailedJob(r) \/ QueueAddFailedMedia(r)
    BY <2>1 DEF Requeue, QueueAdd, QueueLink, QueueAddFails, QueueAddFailedJob,
                QueueAddFailedMedia, JobOnly, RowsOnly
  <2>2. CASE CancelRemove(r) \/ CancelMark(r) \/ CancelFlag(r)
    BY <2>2 DEF CancelRemove, CancelMark, CancelFlag, JobOnly, RowsOnly
  <2>3. CASE ConfigureWrite(r) \/ AssociateRead(r) \/ Associate(r) \/ AssociateRefused(r)
    BY <2>3 DEF ConfigureWrite, AssociateRead, Associate, AssociateRefused, JobOnly, RowsOnly
  <2>4. CASE CountReferences(r)
    BY <2>4 DEF CountReferences, JobOnly, RowsOnly
  <2>5. CASE RemoveOriginal(r) \/ RemoveOriginalFails(r) \/ RemovedOriginal(r)
    BY <2>5 DEF RemoveOriginal, RemoveOriginalFails, RemovedOriginal, JobOnly, RowsOnly
  <2>6. QED
    BY <1>2, <2>1, <2>2, <2>3, <2>4, <2>5 DEF RequestStep
<1>3. CASE RequestLost(r)
  BY <1>3 DEF RequestLost
<1>4. QED
  BY <1>1, <1>2, <1>3

-----------------------------------------------------------------------------
(* A failed or cancelled run deletes what it uploaded *)

\* The slots whose run may still delete what it uploaded.
Uploads(w, j) == worker[w].job = j /\ worker[w].pc \in {"upload", "put", "commit", "clean"}

\* A whole file of an output that is not registered belongs to such a run.  Two
\* runs of one job may share a file: each deletes what it uploaded itself.
FilesOwned ==
  \A j \in Jobs, x \in 1..NFiles :
    outRow[j] = "NONE" /\ x \in output[j] \ torn[j] => \E w \in Workers : Uploads(w, j) /\ x <= worker[w].up

\* A step that registers and stores nothing keeps FilesOwned when the slot it
\* moves keeps its files, or had none.
LEMMA OwnedKept ==
  ASSUME WorkersOK, FilesOwned, NEW w \in Workers, UNCHANGED <<outRow, output, torn>>,
         \A v \in Workers \ {w} : worker'[v] = worker[v],
         \A j \in Jobs : Uploads(w, j) => Uploads(w, j)' /\ worker'[w].up = worker[w].up
  PROVE  FilesOwned'
<1>1. SUFFICES ASSUME NEW j \in Jobs, NEW x \in 1..NFiles, outRow[j] = "NONE", x \in output[j] \ torn[j]
               PROVE  \E v \in Workers : Uploads(v, j)' /\ x <= worker'[v].up
  BY DEF FilesOwned
<1>2. PICK v \in Workers : Uploads(v, j) /\ x <= worker[v].up
  BY <1>1 DEF FilesOwned
<1>3. Uploads(v, j)' /\ x <= worker'[v].up
  BY <1>2 DEF Uploads
<1>4. QED
  BY <1>3

\* A worker's step keeps FilesOwned.
LEMMA WorkerOwned ==
  ASSUME TypeParts, OutputInv, FilesOwned, NoCrash, StorageWorks,
         NEW w \in Workers, WorkerStep(w) \/ WorkerLost(w)
  PROVE  FilesOwned'
<1>0. /\ job \in [Jobs -> JobRow] /\ worker \in [Workers -> WorkerSlot] /\ WorkersOK
      /\ worker[w] \in WorkerSlot /\ SlotNamed(worker[w])
      /\ outRow \in [Jobs -> {"NONE", "READY"}] /\ output \in [Jobs -> SUBSET (1..NFiles)]
      /\ torn \in [Jobs -> SUBSET (1..NFiles)]
  BY DEF TypeParts, RowsOK, WorkersOK
<1>1. CASE \E j \in Jobs, a \in 1..MaxAttempts : Take(w, j, a)
  BY <1>0, <1>1, OwnedKept DEF Take, Uploads
<1>2. CASE Load(w) \/ Start(w) \/ Probe(w) \/ Encode(w)
  BY <1>0, <1>2, OwnedKept DEF Load, Start, Probe, Encode, At, Release, Uploads
<1>3. CASE Upload(w) \/ Uploaded(w)
  <2>1. SUFFICES ASSUME NEW j \in Jobs, NEW x \in 1..NFiles, outRow[j] = "NONE", x \in output'[j] \ torn'[j]
                 PROVE  \E v \in Workers : Uploads(v, j)' /\ x <= worker'[v].up
    BY <1>3 DEF FilesOwned, Upload, Uploaded
  <2>2. CASE x \in output[j] \ torn[j]
    <3>1. PICK v \in Workers : Uploads(v, j) /\ x <= worker[v].up
      BY <2>1, <2>2 DEF FilesOwned
    <3>2. Uploads(v, j)' /\ x <= worker'[v].up
      <4>1. CASE Upload(w)
        BY <1>0, <3>1, <4>1 DEF Uploads, Upload, At, WorkerSlot
      <4>2. CASE Uploaded(w)
        BY <1>0, <3>1, <4>2 DEF Uploads, Uploaded, WorkerSlot
      <4>3. QED
        BY <1>3, <4>1, <4>2
    <3>3. QED
      BY <3>2
  <2>3. CASE x \notin output[j] \ torn[j]
    <3>1. ~Upload(w)
      BY <1>0, <2>1, <2>3 DEF Upload
    <3>2. worker[w].job = j /\ x = worker[w].up + 1
      BY <1>0, <1>3, <2>1, <2>3, <3>1 DEF Uploaded
    <3>3. Uploads(w, j)' /\ x <= worker'[w].up
      BY <1>0, <1>3, <3>1, <3>2 DEF Uploads, Uploaded, WorkerSlot
    <3>4. QED
      BY <3>3
  <2>4. QED
    BY <2>2, <2>3
<1>4. CASE Cancelled(w) \/ Fails(w) \/ CommitRefused(w)
  <2>1. /\ UNCHANGED <<outRow, output, torn>>
        /\ \E outcome \in Retryable : ToCatch(w, outcome)
    BY <1>4 DEF Cancelled, Fails, CommitRefused, Retryable
  <2>2. QED
    BY <1>0, <2>1, OwnedKept DEF ToCatch, Uploads, WorkerSlot
<1>5. CASE Commit(w)
  <2>1. SUFFICES ASSUME NEW j \in Jobs, NEW x \in 1..NFiles, outRow'[j] = "NONE", x \in output[j] \ torn[j]
                 PROVE  \E v \in Workers : Uploads(v, j)' /\ x <= worker'[v].up
    BY <1>5 DEF FilesOwned, Commit
  <2>2. j # worker[w].job /\ outRow[j] = "NONE"
    BY <1>0, <1>5, <2>1 DEF Commit
  <2>3. PICK v \in Workers : Uploads(v, j) /\ x <= worker[v].up
    BY <2>1, <2>2 DEF FilesOwned
  <2>4. Uploads(v, j)' /\ x <= worker'[v].up
    BY <1>0, <1>5, <2>2, <2>3 DEF Uploads, Commit, WorkerSlot
  <2>5. QED
    BY <2>4
<1>6. CASE Reread(w) \/ AssociateOutput(w) \/ MarkAssociated(w) \/ FailsLate(w) \/ Settle(w)
  BY <1>0, <1>6, OwnedKept
     DEF Reread, AssociateOutput, MarkAssociated, FailsLate, Settle, ToCatch, At, Release, Uploads
<1>7. CASE DeleteOriginal(w) \/ DeleteOriginalFails(w) \/ DeletedOriginal(w) \/ Finish(w) \/ Record(w)
  BY <1>0, <1>7, OwnedKept
     DEF DeleteOriginal, DeleteOriginalFails, DeletedOriginal, Finish, Record, At, Release, Uploads
<1>8. CASE CleanUp(w)
  <2>1. SUFFICES ASSUME NEW j \in Jobs, NEW x \in 1..NFiles, outRow[j] = "NONE", x \in output'[j] \ torn'[j]
                 PROVE  \E v \in Workers : Uploads(v, j)' /\ x <= worker'[v].up
    BY <1>8 DEF FilesOwned, CleanUp
  <2>2. x \in output[j] \ torn[j] /\ (j = worker[w].job => x \notin 1..worker[w].up)
    BY <1>0, <1>8, <2>1 DEF CleanUp, StorageWorks
  <2>3. PICK v \in Workers : Uploads(v, j) /\ x <= worker[v].up
    BY <2>1, <2>2 DEF FilesOwned
  <2>4. v # w
    BY <1>0, <2>2, <2>3 DEF Uploads, WorkerSlot
  <2>5. Uploads(v, j)' /\ x <= worker'[v].up
    BY <1>0, <1>8, <2>3, <2>4 DEF Uploads, CleanUp, At
  <2>6. QED
    BY <2>5
<1>9. CASE WorkerLost(w)
  BY <1>9 DEF WorkerLost, NoCrash, TypeParts, RowsOK
<1>10. QED
  BY <1>1, <1>2, <1>3, <1>4, <1>5, <1>6, <1>7, <1>8, <1>9 DEF WorkerStep

\* FilesOwned is inductive: requests do not touch what it speaks of.
LEMMA NextOwned ==
  NoCrash /\ StorageWorks /\ TypeInv /\ OutputInv /\ FilesOwned /\ [Next]_vars => FilesOwned'
<1>1. ASSUME FilesOwned, UNCHANGED <<outRow, output, torn, worker>> PROVE FilesOwned'
  BY <1>1 DEF FilesOwned, Uploads
<1>2. ASSUME NoCrash, StorageWorks, TypeInv, OutputInv, FilesOwned, Next PROVE FilesOwned'
  BY <1>1, <1>2, TypeInvParts, RequestFrame, WorkerOwned DEF Next
<1>3. QED
  BY <1>1, <1>2 DEF vars

\* Of a run that did not register its output nothing is left but a file whose
\* own transfer broke off, however many runs of a job overlap and whatever else
\* fails, unless the process dies or the storage refuses the deletion.
THEOREM NothingOrphaned == NoCrash /\ StorageWorks /\ Spec => []NoOrphanOutput
<1>1. Init => FilesOwned
  BY DEF Init, FilesOwned
<1>2. TypeInv /\ FilesOwned => NoOrphanOutput
  BY DEF FilesOwned, Uploads, NoOrphanOutput, Running, TypeInv, TypeOK
<1>3. ASSUME NoCrash, StorageWorks PROVE Spec => []NoOrphanOutput
  <2>1. TypeInv /\ OutputInv /\ FilesOwned /\ [Next]_vars => FilesOwned'
    BY <1>3, NextOwned
  <2>2. QED
    BY <1>1, <1>2, <2>1, TypeInvariance, OutputInvariance, PTL DEF Spec
<1>4. QED
  BY <1>3

-----------------------------------------------------------------------------
(* A failed job keeps its original *)

OneJobPerOriginal == \A i, j \in Jobs : MediaOf[i] = MediaOf[j] => i = j

\* A removed original is the input of a registered output.
RemovedIsProcessed == \A m \in Media \ original : \E j \in Jobs : MediaOf[j] = m /\ job[j].output

\* RemovedIsProcessed is inductive: only a worker or a request that has seen the
\* output removes its original, and an output stays registered.
LEMMA NextRemoved ==
  TypeInv /\ OutputInv /\ RemovedIsProcessed /\ [Next]_vars => RemovedIsProcessed'
<1>1. ASSUME RemovedIsProcessed, UNCHANGED <<job, original>> PROVE RemovedIsProcessed'
  BY <1>1 DEF RemovedIsProcessed
<1>2. ASSUME TypeInv, OutputInv, RemovedIsProcessed, Next PROVE RemovedIsProcessed'
  <2>1. Grows /\ TypeParts
    BY <1>2, StepOutputs, TypeInvParts
  <2>2. UNCHANGED original \/ GivesUp
    BY <1>2, <2>1, WorkerShows, RequestShows DEF Next, Shown, Registers, Attaches
  <2>3. CASE UNCHANGED original
    BY <1>2, <2>1, <2>3 DEF RemovedIsProcessed, Grows
  <2>4. CASE GivesUp
    <3>1. PICK j \in Jobs : outRow[j] = "READY" /\ original' = original \ {MediaOf[j]}
      BY <2>4 DEF GivesUp
    <3>2. job'[j].output
      BY <1>2, <2>1, <3>1 DEF OutputInv, RowsAgree, Grows
    <3>3. QED
      BY <1>2, <2>1, <3>1, <3>2 DEF RemovedIsProcessed, Grows
  <2>5. QED
    BY <2>2, <2>3, <2>4
<1>3. QED
  BY <1>1, <1>2 DEF vars

\* A failed or cancelled job without an output can be retried: its original is
\* still stored, when no other job was created for it.
THEOREM RetryPossible == OneJobPerOriginal /\ Spec => []FailedKeepsOriginal
<1>1. Init => RemovedIsProcessed
  BY DEF Init, RemovedIsProcessed
<1>2. ASSUME OneJobPerOriginal PROVE Spec => []FailedKeepsOriginal
  <2>1. RemovedIsProcessed => FailedKeepsOriginal
    BY <1>2, PoolAssumption DEF OneJobPerOriginal, RemovedIsProcessed, FailedKeepsOriginal
  <2>2. QED
    BY <1>1, <2>1, NextRemoved, TypeInvariance, OutputInvariance, PTL DEF Spec
<1>3. QED
  BY <1>2

-----------------------------------------------------------------------------
(* The row of an original comes to rest *)

Unsettled == {"QUEUED", "PROCESSING"}
Working == {"probe", "encode", "upload", "put", "commit", "reread", "associate", "mark",
            "settle", "delete", "deleted", "clean", "record"}

\* A job that is queued or processed, that a slot has not settled yet, or whose
\* refused entry a request is about to record.
Occupied(j) ==
  \/ job[j].status \in Active
  \/ \E w \in Workers : worker[w].job = j /\ worker[w].pc \in Working
  \/ \E r \in Requests : req[r].job = j /\ req[r].pc = "addFailedMedia"

\* An original whose row is not at rest has such a job.
UnsettledIsOccupied ==
  \A m \in Media : media[m] \in Unsettled => \E j \in Jobs : MediaOf[j] = m /\ Occupied(j)

\* A step keeps UnsettledIsOccupied when it unsettles an original only for a job
\* that is occupied then, and frees a job only as it settles its original.
LEMMA UnsettledKept ==
  ASSUME UnsettledIsOccupied,
         \A m \in Media : media'[m] \in Unsettled =>
           media[m] \in Unsettled \/ \E j \in Jobs : MediaOf[j] = m /\ Occupied(j)',
         \A j \in Jobs : Occupied(j) => Occupied(j)' \/ media'[MediaOf[j]] \notin Unsettled
  PROVE  UnsettledIsOccupied'
  BY DEF UnsettledIsOccupied

\* What a step of a slot must show of its own job.
LEMMA WorkerOccupies ==
  ASSUME UnsettledIsOccupied, NEW w \in Workers, UNCHANGED req,
         \A v \in Workers \ {w} : worker'[v] = worker[v],
         \A m \in Media : media'[m] \in Unsettled => media[m] \in Unsettled
            \/ (worker'[w].job \in Jobs /\ MediaOf[worker'[w].job] = m /\ worker'[w].pc \in Working),
         \A j \in Jobs : job[j].status \in Active =>
            \/ job'[j].status \in Active
            \/ worker'[w].job = j /\ worker'[w].pc \in Working
            \/ media'[MediaOf[j]] \notin Unsettled,
         worker[w].pc \in Working =>
            \/ worker'[w].job = worker[w].job /\ worker'[w].pc \in Working
            \/ media'[MediaOf[worker[w].job]] \notin Unsettled
  PROVE  UnsettledIsOccupied'
<1>1. ASSUME NEW j \in Jobs, Occupied(j) PROVE Occupied(j)' \/ media'[MediaOf[j]] \notin Unsettled
  BY <1>1 DEF Occupied
<1>2. \A m \in Media : media'[m] \in Unsettled =>
        media[m] \in Unsettled \/ \E j \in Jobs : MediaOf[j] = m /\ Occupied(j)'
  BY DEF Occupied
<1>3. QED
  BY <1>1, <1>2, UnsettledKept

\* What a step of a request must show of its own job.
LEMMA RequestOccupies ==
  ASSUME UnsettledIsOccupied, NEW r \in Requests, UNCHANGED worker,
         \A q \in Requests \ {r} : req'[q] = req[q],
         \A m \in Media : media'[m] \in Unsettled => media[m] \in Unsettled
            \/ \E j \in Jobs : MediaOf[j] = m /\ job'[j].status \in Active,
         \A j \in Jobs : job[j].status \in Active =>
            \/ job'[j].status \in Active
            \/ req'[r].job = j /\ req'[r].pc = "addFailedMedia"
            \/ media'[MediaOf[j]] \notin Unsettled,
         req[r].pc = "addFailedMedia" => media'[MediaOf[req[r].job]] \notin Unsettled
  PROVE  UnsettledIsOccupied'
<1>1. ASSUME NEW j \in Jobs, Occupied(j) PROVE Occupied(j)' \/ media'[MediaOf[j]] \notin Unsettled
  BY <1>1 DEF Occupied
<1>2. \A m \in Media : media'[m] \in Unsettled =>
        media[m] \in Unsettled \/ \E j \in Jobs : MediaOf[j] = m /\ Occupied(j)'
  BY DEF Occupied
<1>3. QED
  BY <1>1, <1>2, UnsettledKept

LEMMA WorkerSettles ==
  ASSUME TypeParts, UnsettledIsOccupied, NoCrash, DatabaseWorks,
         NEW w \in Workers, WorkerStep(w) \/ WorkerLost(w)
  PROVE  UnsettledIsOccupied'
<1>0. /\ job \in [Jobs -> JobRow] /\ worker \in [Workers -> WorkerSlot]
      /\ worker[w] \in WorkerSlot /\ SlotNamed(worker[w])
      /\ media \in [Media -> {"READY", "QUEUED", "PROCESSING", "FAILED", "DELETED"}]
      /\ MediaOf \in [Jobs -> Media]
  BY PoolAssumption DEF TypeParts, RowsOK, WorkersOK
<1>1. CASE \E j \in Jobs, a \in 1..MaxAttempts : Take(w, j, a)
  <2>1. PICK j \in Jobs, a \in 1..MaxAttempts : Take(w, j, a)
    BY <1>1
  <2>2. worker[w].pc = "idle" /\ worker'[w].pc = "load"
    BY <1>0, <2>1 DEF Take, Slot
  <2>3. QED
    BY <1>0, <2>1, <2>2, WorkerOccupies DEF Take, Working
<1>2. CASE Load(w)
  <2>1. worker[w].pc = "load" /\ UNCHANGED <<job, media, req>>
    BY <1>2 DEF Load
  <2>2. \A v \in Workers \ {w} : worker'[v] = worker[v]
    BY <1>0, <1>2 DEF Load, At, Release
  <2>3. QED
    BY <1>0, <2>1, <2>2, WorkerOccupies DEF Working
<1>3. CASE Start(w)
  BY <1>0, <1>3, WorkerOccupies DEF Start, At, Working, JobRow, Active, SlotNamed
<1>4. CASE Probe(w)
  BY <1>0, <1>4, WorkerOccupies DEF Probe, At, Working, SlotNamed, WorkerSlot
<1>5. CASE Encode(w)
  BY <1>0, <1>5, WorkerOccupies DEF Encode, At, Working, WorkerSlot
<1>6. CASE Upload(w) \/ Uploaded(w)
  BY <1>0, <1>6, WorkerOccupies DEF Upload, Uploaded, At, Working, WorkerSlot
<1>7. CASE Cancelled(w) \/ Fails(w) \/ CommitRefused(w) \/ FailsLate(w)
  <2>1. UNCHANGED <<job, media, req>> /\ \E outcome \in Retryable : ToCatch(w, outcome)
    BY <1>7 DEF Cancelled, Fails, CommitRefused, FailsLate, Retryable
  <2>2. QED
    BY <1>0, <2>1, WorkerOccupies DEF ToCatch, Working, WorkerSlot
<1>8. CASE Commit(w)
  BY <1>0, <1>8, WorkerOccupies DEF Commit, Working, WorkerSlot, JobRow, SlotNamed
<1>9. CASE Reread(w)
  BY <1>0, <1>9, WorkerOccupies DEF Reread, Working, WorkerSlot
<1>10. CASE AssociateOutput(w)
  BY <1>0, <1>10, WorkerOccupies, SMTT(30) DEF AssociateOutput, At, Working, WorkerSlot, JobRow, SlotNamed
<1>11. CASE MarkAssociated(w)
  BY <1>0, <1>11, WorkerOccupies DEF MarkAssociated, At, Working, WorkerSlot, JobRow, SlotNamed
<1>12. CASE Settle(w)
  <2>1. /\ worker[w].job \in Jobs /\ UNCHANGED req
        /\ \A i \in Jobs : job'[i].status = job[i].status
        /\ \A v \in Workers \ {w} : worker'[v] = worker[v]
    BY <1>0, <1>12 DEF Settle, At, Release, JobRow, SlotNamed
  <2>2. CASE media' = [media EXCEPT ![MediaOf[worker[w].job]] = "READY"]
    <3>1. /\ media'[MediaOf[worker[w].job]] \notin Unsettled
          /\ \A m \in Media : media'[m] \in Unsettled => media[m] \in Unsettled
      BY <1>0, <2>1, <2>2 DEF Unsettled
    <3>2. QED
      BY <2>1, <3>1, WorkerOccupies
  <2>3. CASE media' = media /\ At(w, "delete")
    BY <1>0, <2>1, <2>3, WorkerOccupies DEF At, Working, WorkerSlot
  <2>4. QED
    BY <1>12, <2>2, <2>3 DEF Settle
<1>13. CASE DeleteOriginal(w)
  BY <1>0, <1>13, WorkerOccupies DEF DeleteOriginal, At, Working, WorkerSlot
<1>14. CASE DeleteOriginalFails(w) \/ DeletedOriginal(w)
  <2>1. /\ worker[w].job \in Jobs /\ UNCHANGED req
        /\ \A i \in Jobs : job'[i].status = job[i].status
        /\ \A v \in Workers \ {w} : worker'[v] = worker[v]
    BY <1>0, <1>14 DEF DeleteOriginalFails, DeletedOriginal, At, JobRow, SlotNamed
  <2>2. /\ media'[MediaOf[worker[w].job]] \notin Unsettled
        /\ \A m \in Media : media'[m] \in Unsettled => media[m] \in Unsettled
    BY <1>0, <1>14, <2>1 DEF DeleteOriginalFails, DeletedOriginal, Unsettled
  <2>3. QED
    BY <2>1, <2>2, WorkerOccupies
<1>15. CASE Finish(w)
  <2>1. worker[w].pc = "finish" /\ UNCHANGED <<job, media, req>>
    BY <1>15 DEF Finish
  <2>2. \A v \in Workers \ {w} : worker'[v] = worker[v]
    BY <1>0, <1>15 DEF Finish, Release
  <2>3. QED
    BY <1>0, <2>1, <2>2, WorkerOccupies DEF Working
<1>16. CASE CleanUp(w)
  BY <1>0, <1>16, WorkerOccupies DEF CleanUp, At, Working, WorkerSlot
<1>17. CASE Record(w)
  <2>1. /\ worker[w].job \in Jobs /\ UNCHANGED req
        /\ \A i \in Jobs \ {worker[w].job} : job'[i] = job[i]
        /\ \A v \in Workers \ {w} : worker'[v] = worker[v]
    BY <1>0, <1>17 DEF Record, Release, SlotNamed
  <2>2. /\ media'[MediaOf[worker[w].job]] \notin Unsettled
        /\ \A m \in Media : media'[m] \in Unsettled => media[m] \in Unsettled
    BY <1>0, <1>17, <2>1 DEF Record, DatabaseWorks, Unsettled
  <2>3. QED
    BY <2>1, <2>2, WorkerOccupies
<1>18. CASE WorkerLost(w)
  BY <1>18 DEF WorkerLost, NoCrash, TypeParts, RowsOK
<1>19. QED
  BY <1>1, <1>2, <1>3, <1>4, <1>5, <1>6, <1>7, <1>8, <1>9, <1>10, <1>11, <1>12, <1>13, <1>14,
     <1>15, <1>16, <1>17, <1>18 DEF WorkerStep

LEMMA RequestSettles ==
  ASSUME TypeParts, UnsettledIsOccupied, NoCrash, DatabaseWorks,
         NEW r \in Requests, RequestBegins(r) \/ RequestStep(r) \/ RequestLost(r)
  PROVE  UnsettledIsOccupied'
<1>0. /\ job \in [Jobs -> JobRow] /\ req \in [Requests -> RequestSlot]
      /\ req[r].pc # "idle" => req[r].job \in Jobs
      /\ media \in [Media -> {"READY", "QUEUED", "PROCESSING", "FAILED", "DELETED"}]
      /\ MediaOf \in [Jobs -> Media]
      /\ UNCHANGED worker
  BY PoolAssumption, RequestFrame DEF TypeParts, RowsOK, RequestsOK
<1>1. ASSUME \A q \in Requests \ {r} : req'[q] = req[q], UNCHANGED media,
             \A j \in Jobs : job[j].status \in Active => job'[j].status \in Active,
             req[r].pc # "addFailedMedia"
      PROVE  UnsettledIsOccupied'
  BY <1>0, <1>1, RequestOccupies
<1>2. CASE RequestBegins(r)
  <2>1. PICK j \in Jobs : RequestBegins(r)!(j)
    BY <1>2 DEF RequestBegins
  <2>2. CASE \E t \in Targets \cup {Null}, keep \in Retain : Enqueue(r, j, t, keep)
    <3>1. PICK t \in Targets \cup {Null}, keep \in Retain : Enqueue(r, j, t, keep)
      BY <2>2
    <3>2. job'[j].status \in Active /\ \A i \in Jobs \ {j} : job'[i] = job[i]
      BY <1>0, <3>1 DEF Enqueue, NewJob, Active
    <3>3. /\ req[r].pc = "idle"
          /\ \A q \in Requests \ {r} : req'[q] = req[q]
          /\ \A m \in Media : m # MediaOf[j] => media'[m] = media[m]
      BY <1>0, <3>1 DEF Enqueue
    <3>4. QED
      BY <1>0, <3>2, <3>3, RequestOccupies
  <2>3. CASE ~\E t \in Targets \cup {Null}, keep \in Retain : Enqueue(r, j, t, keep)
    <3>1. UNCHANGED <<job, media>> /\ req[r].pc = "idle"
      BY <2>1, <2>3 DEF RetryCheck, CancelCheck, ConfigureCheck, AssociateCheck, JobOnly
    <3>2. \A q \in Requests \ {r} : req'[q] = req[q]
      BY <1>0, <2>1, <2>3 DEF RetryCheck, CancelCheck, ConfigureCheck, AssociateCheck
    <3>3. QED
      BY <1>1, <3>1, <3>2
  <2>4. QED
    BY <2>2, <2>3
<1>3. CASE Requeue(r)
  <2>1. /\ req[r].pc = "requeue" /\ req[r].job \in Jobs
        /\ job'[req[r].job].status \in Active
        /\ \A i \in Jobs \ {req[r].job} : job'[i] = job[i]
        /\ \A q \in Requests \ {r} : req'[q] = req[q]
        /\ \A m \in Media : m # MediaOf[req[r].job] => media'[m] = media[m]
    BY <1>0, <1>3 DEF Requeue, Goto, JobRow, Active
  <2>2. QED
    BY <1>0, <2>1, RequestOccupies
<1>4. CASE QueueAdd(r) \/ CancelRemove(r)
  BY <1>0, <1>1, <1>4 DEF QueueAdd, CancelRemove, Goto
<1>5. CASE QueueLink(r) \/ CancelFlag(r)
  BY <1>0, <1>1, <1>5 DEF QueueLink, CancelFlag, Reply, JobOnly, JobRow
<1>6. CASE QueueAddFails(r)
  BY <1>0, <1>1, <1>6 DEF QueueAddFails, Goto, JobOnly
<1>7. CASE QueueAddFailedJob(r)
  <2>1. /\ req[r].job \in Jobs /\ req[r].pc = "addFailed" /\ UNCHANGED media
        /\ \A i \in Jobs \ {req[r].job} : job'[i] = job[i]
        /\ \A q \in Requests \ {r} : req'[q] = req[q]
        /\ req'[r].job = req[r].job /\ req'[r].pc = "addFailedMedia"
    BY <1>0, <1>7 DEF QueueAddFailedJob, Goto, JobOnly, RequestSlot
  <2>2. QED
    BY <1>0, <2>1, RequestOccupies
<1>8. CASE QueueAddFailedMedia(r) \/ CancelMark(r)
  <2>1. /\ req[r].job \in Jobs
        /\ media'[MediaOf[req[r].job]] \notin Unsettled
        /\ \A m \in Media : m # MediaOf[req[r].job] => media'[m] = media[m]
    BY <1>0, <1>8 DEF QueueAddFailedMedia, CancelMark, Unsettled
  <2>2. /\ \A i \in Jobs \ {req[r].job} : job'[i] = job[i]
        /\ \A q \in Requests \ {r} : req'[q] = req[q]
    BY <1>0, <1>8 DEF QueueAddFailedMedia, CancelMark, Reply
  <2>3. QED
    BY <1>0, <2>1, <2>2, RequestOccupies
<1>9. CASE ConfigureWrite(r)
  <2>1. \A i \in Jobs : job'[i].status = job[i].status
    BY <1>0, <1>9 DEF ConfigureWrite, JobRow
  <2>2. QED
    BY <1>0, <1>1, <1>9, <2>1 DEF ConfigureWrite, Goto, Reply, JobOnly
<1>10. CASE AssociateRead(r) \/ AssociateRefused(r) \/ RemoveOriginalFails(r)
  BY <1>0, <1>1, <1>10 DEF AssociateRead, AssociateRefused, RemoveOriginalFails, Goto, Reply, JobOnly
<1>11. CASE Associate(r)
  BY <1>0, <1>1, <1>11 DEF Associate, Goto, JobRow
<1>12. CASE CountReferences(r)
  <2>1. \A i \in Jobs : job'[i].status = job[i].status
    BY <1>0, <1>12 DEF CountReferences, JobRow
  <2>2. QED
    BY <1>0, <1>1, <1>12, <2>1 DEF CountReferences, Goto, Reply, JobOnly
<1>13. CASE RemoveOriginal(r)
  BY <1>0, <1>1, <1>13 DEF RemoveOriginal, Goto
<1>14. CASE RemovedOriginal(r)
  <2>1. /\ req[r].pc = "deleted" /\ UNCHANGED job
        /\ \A m \in Media : media'[m] \in Unsettled => media[m] \in Unsettled
        /\ \A q \in Requests \ {r} : req'[q] = req[q]
    BY <1>0, <1>14 DEF RemovedOriginal, Reply, Unsettled
  <2>2. QED
    BY <1>0, <2>1, RequestOccupies
<1>15. CASE RequestLost(r)
  BY <1>15 DEF RequestLost, NoCrash, TypeParts, RowsOK
<1>16. QED
  BY <1>2, <1>3, <1>4, <1>5, <1>6, <1>7, <1>8, <1>9, <1>10, <1>11, <1>12, <1>13, <1>14, <1>15
     DEF RequestStep

\* UnsettledIsOccupied is inductive.
LEMMA NextSettled ==
  NoCrash /\ DatabaseWorks /\ TypeInv /\ UnsettledIsOccupied /\ [Next]_vars => UnsettledIsOccupied'
<1>1. ASSUME UnsettledIsOccupied, UNCHANGED vars PROVE UnsettledIsOccupied'
  BY <1>1 DEF vars, UnsettledIsOccupied, Occupied
<1>2. ASSUME NoCrash, DatabaseWorks, TypeInv, UnsettledIsOccupied, Next PROVE UnsettledIsOccupied'
  BY <1>2, TypeInvParts, RequestSettles, WorkerSettles DEF Next
<1>3. QED
  BY <1>1, <1>2

\* When the last job of an original ends and nobody works on it any more, the
\* row of the original is at rest, whichever of its jobs ran together and
\* whatever failed, unless a process dies or the database refuses a write.
THEOREM OriginalComesToRest == NoCrash /\ DatabaseWorks /\ Spec => []OriginalSettles
<1>1. Init => UnsettledIsOccupied
  BY DEF Init, UnsettledIsOccupied, Unsettled
<1>2. UnsettledIsOccupied => OriginalSettles
  BY DEF UnsettledIsOccupied, Occupied, OriginalSettles, Unsettled, Working, Running, Handling
<1>3. ASSUME NoCrash, DatabaseWorks PROVE Spec => []OriginalSettles
  <2>1. TypeInv /\ UnsettledIsOccupied /\ [Next]_vars => UnsettledIsOccupied'
    BY <1>3, NextSettled
  <2>2. QED
    BY <1>1, <1>2, <2>1, TypeInvariance, PTL DEF Spec
<1>4. QED
  BY <1>3

-----------------------------------------------------------------------------
(* A destination is not forgotten *)

NoSubtitles == Subtitled = {}
RemuxesForEpisodes == Movies = {} \/ \A j \in Jobs : KindOf[j] = "HLS"

\* The job has ended with an output and a destination that are not attached yet.
Promised(j) == job[j].status = "COMPLETED" /\ job[j].target # Null /\ ~job[j].assoc

\* A slot that will read the destination, or has read the one the job has.
Carries(w, j) ==
  /\ worker[w].job = j
  /\ \/ worker[w].pc \in {"reread", "mark"}
     \/ worker[w].pc = "associate" /\ (KindOf[j] = "REMUX" \/ worker[w].dest = job[j].target)

\* A request that will attach the output to the destination the job has.
Brings(r, j) ==
  /\ req[r].job = j
  /\ \/ req[r].pc = "assoc"
     \/ req[r].pc = "assocRead" /\ req[r].target = job[j].target

CompletedHasOutput == \A j \in Jobs : job[j].status = "COMPLETED" => job[j].output

\* Somebody who knows the destination is always on the way to it.
PromiseCarried ==
  \A j \in Jobs : Promised(j) => \/ \E w \in Workers : Carries(w, j)
                                 \/ \E r \in Requests : Brings(r, j)

PromiseInv == CompletedHasOutput /\ PromiseCarried

\* What a step of a slot must show.
LEMMA WorkerCarries ==
  ASSUME PromiseCarried, NEW w \in Workers, UNCHANGED req,
         \A v \in Workers \ {w} : worker'[v] = worker[v],
         \A j \in Jobs : Promised(j)' => /\ job'[j].target = job[j].target
                                         /\ Promised(j) \/ Carries(w, j)'
                                         /\ Carries(w, j) => Carries(w, j)'
  PROVE  PromiseCarried'
<1>1. SUFFICES ASSUME NEW j \in Jobs, Promised(j)'
               PROVE  \/ \E v \in Workers : Carries(v, j)'
                      \/ \E r \in Requests : Brings(r, j)'
  BY DEF PromiseCarried
<1>2. CASE Carries(w, j)'
  BY <1>2
<1>3. CASE ~Carries(w, j)' /\ \E v \in Workers : Carries(v, j)
  <2>1. PICK v \in Workers : Carries(v, j)
    BY <1>3
  <2>2. Carries(v, j)'
    BY <1>1, <1>3, <2>1 DEF Carries
  <2>3. QED
    BY <2>2
<1>4. CASE ~Carries(w, j)' /\ \E r \in Requests : Brings(r, j)
  <2>1. PICK r \in Requests : Brings(r, j)
    BY <1>4
  <2>2. Brings(r, j)'
    BY <1>1, <2>1 DEF Brings
  <2>3. QED
    BY <2>2
<1>5. QED
  BY <1>1, <1>2, <1>3, <1>4 DEF PromiseCarried

\* The same, when the step writes only the row of the slot's job.
LEMMA WorkerCarriesOwn ==
  ASSUME PromiseCarried, NEW w \in Workers, UNCHANGED req,
         \A v \in Workers \ {w} : worker'[v] = worker[v],
         NEW i \in Jobs, worker[w].job = i, job'[i].target = job[i].target,
         \A j \in Jobs \ {i} : job'[j] = job[j],
         Promised(i)' => Promised(i) \/ Carries(w, i)',
         Promised(i)' /\ Carries(w, i) => Carries(w, i)'
  PROVE  PromiseCarried'
<1>1. ASSUME NEW j \in Jobs, Promised(j)'
      PROVE  /\ job'[j].target = job[j].target
             /\ Promised(j) \/ Carries(w, j)'
             /\ Carries(w, j) => Carries(w, j)'
  <2>1. CASE j = i
    BY <1>1, <2>1
  <2>2. CASE j # i
    BY <1>1, <2>2 DEF Promised, Carries
  <2>3. QED
    BY <2>1, <2>2
<1>2. QED
  BY <1>1, WorkerCarries

\* What a step of a request must show.
LEMMA RequestCarries ==
  ASSUME PromiseCarried, NEW r \in Requests, UNCHANGED worker,
         \A q \in Requests \ {r} : req'[q] = req[q],
         \A j \in Jobs : Promised(j)' => \/ Brings(r, j)'
                                         \/ /\ job'[j].target = job[j].target
                                            /\ Promised(j) /\ ~Brings(r, j)
  PROVE  PromiseCarried'
<1>1. SUFFICES ASSUME NEW j \in Jobs, Promised(j)'
               PROVE  \/ \E v \in Workers : Carries(v, j)'
                      \/ \E q \in Requests : Brings(q, j)'
  BY DEF PromiseCarried
<1>2. CASE Brings(r, j)'
  BY <1>2
<1>3. CASE ~Brings(r, j)' /\ \E v \in Workers : Carries(v, j)
  <2>1. PICK v \in Workers : Carries(v, j)
    BY <1>3
  <2>2. Carries(v, j)'
    BY <1>1, <1>3, <2>1 DEF Carries
  <2>3. QED
    BY <2>2
<1>4. CASE ~Brings(r, j)' /\ \E q \in Requests : Brings(q, j)
  <2>1. PICK q \in Requests : Brings(q, j)
    BY <1>4
  <2>2. q # r /\ Brings(q, j)'
    BY <1>1, <1>4, <2>1 DEF Brings
  <2>3. QED
    BY <2>2
<1>5. QED
  BY <1>1, <1>2, <1>3, <1>4 DEF PromiseCarried

LEMMA WorkerPromises ==
  ASSUME TypeParts, OutputInv, PromiseInv, NoCrash, DatabaseWorks, NoSubtitles, RemuxesForEpisodes,
         NEW w \in Workers, WorkerStep(w) \/ WorkerLost(w)
  PROVE  PromiseInv'
<1>0. /\ job \in [Jobs -> JobRow] /\ worker \in [Workers -> WorkerSlot]
      /\ worker[w] \in WorkerSlot /\ SlotNamed(worker[w])
      /\ \A j \in Jobs : KindOf[j] \in {"HLS", "REMUX"}
      /\ CompletedHasOutput /\ PromiseCarried
  BY PoolAssumption DEF TypeParts, RowsOK, WorkersOK, PromiseInv
<1>1. ASSUME UNCHANGED req, \A v \in Workers \ {w} : worker'[v] = worker[v],
             \A j \in Jobs : /\ job'[j].target = job[j].target /\ job'[j].output = job[j].output
                             /\ job'[j].assoc = job[j].assoc
                             /\ job'[j].status = "COMPLETED" => job[j].status = "COMPLETED",
             worker[w].pc \notin {"reread", "mark", "associate"}
      PROVE  PromiseInv'
  <2>1. CompletedHasOutput'
    BY <1>0, <1>1 DEF CompletedHasOutput
  <2>2. PromiseCarried'
    BY <1>0, <1>1, WorkerCarries DEF Promised, Carries
  <2>3. QED
    BY <2>1, <2>2 DEF PromiseInv
<1>2. CASE \E j \in Jobs, a \in 1..MaxAttempts : Take(w, j, a)
  BY <1>0, <1>1, <1>2 DEF Take
<1>3. CASE Load(w) \/ Probe(w) \/ Encode(w) \/ Upload(w) \/ Uploaded(w)
           \/ DeleteOriginal(w) \/ DeletedOriginal(w) \/ Finish(w) \/ CleanUp(w)
  BY <1>0, <1>1, <1>3 DEF Load, Probe, Encode, Upload, Uploaded, DeleteOriginal, DeletedOriginal, Finish,
                          CleanUp, At, Release
<1>4. CASE Cancelled(w) \/ Fails(w) \/ CommitRefused(w)
  BY <1>0, <1>1, <1>4 DEF Cancelled, Fails, CommitRefused, ToCatch
<1>5. CASE Start(w)
  BY <1>0, <1>1, <1>5 DEF Start, At, JobRow
<1>6. CASE Settle(w)
  <2>1. \A j \in Jobs : /\ job'[j].target = job[j].target /\ job'[j].output = job[j].output
                        /\ job'[j].assoc = job[j].assoc /\ job'[j].status = job[j].status
    BY <1>0, <1>6 DEF Settle, JobRow
  <2>2. /\ worker[w].pc = "settle" /\ UNCHANGED req
        /\ \A v \in Workers \ {w} : worker'[v] = worker[v]
    BY <1>0, <1>6 DEF Settle, At, Release
  <2>3. QED
    BY <1>1, <2>1, <2>2
<1>7. CASE DeleteOriginalFails(w)
  BY <1>0, <1>1, <1>7 DEF DeleteOriginalFails, At, JobRow
<1>8. CASE Record(w)
  BY <1>0, <1>1, <1>8 DEF Record, DatabaseWorks, Release, JobRow, WorkerSlot, Retryable
<1>9. CASE Commit(w)
  <2>1. PICK i \in Jobs : i = worker[w].job
    BY <1>0, <1>9 DEF Commit, SlotNamed
  <2>2. /\ UNCHANGED req /\ job'[i].output /\ job'[i].target = job[i].target
        /\ \A v \in Workers \ {w} : worker'[v] = worker[v]
        /\ \A j \in Jobs \ {i} : job'[j] = job[j]
    BY <1>0, <1>9, <2>1 DEF Commit, JobRow
  <2>3. ~Carries(w, i) /\ Carries(w, i)'
    BY <1>0, <1>9, <2>1 DEF Commit, Carries, WorkerSlot
  <2>4. CompletedHasOutput'
    BY <1>0, <2>2 DEF CompletedHasOutput
  <2>5. PromiseCarried'
    BY <1>0, <2>1, <2>2, <2>3, WorkerCarriesOwn
  <2>6. QED
    BY <2>4, <2>5 DEF PromiseInv
<1>10. CASE Reread(w)
  <2>1. PICK i \in Jobs : i = worker[w].job
    BY <1>0, <1>10 DEF Reread, SlotNamed
  <2>2. UNCHANGED <<job, req>> /\ \A v \in Workers \ {w} : worker'[v] = worker[v]
    BY <1>0, <1>10 DEF Reread
  <2>3. Promised(i) => Carries(w, i)'
    BY <1>0, <1>10, <2>1, PoolAssumption DEF Reread, Promised, Carries, RemuxesForEpisodes, WorkerSlot
  <2>4. PromiseCarried'
    BY <1>0, <2>1, <2>2, <2>3, WorkerCarriesOwn DEF Promised
  <2>5. QED
    BY <1>0, <2>2, <2>4 DEF PromiseInv, CompletedHasOutput
<1>11. CASE AssociateOutput(w)
  <2>1. PICK i \in Jobs : i = worker[w].job
    BY <1>0, <1>11 DEF AssociateOutput, SlotNamed
  <2>2. /\ worker[w].pc = "associate" /\ UNCHANGED req
        /\ \A v \in Workers \ {w} : worker'[v] = worker[v]
        /\ \A j \in Jobs \ {i} : job'[j] = job[j]
        /\ \A j \in Jobs : /\ job'[j].target = job[j].target /\ job'[j].status = job[j].status
                           /\ job'[j].output = job[j].output
    BY <1>0, <1>11, <2>1 DEF AssociateOutput, At, JobRow
  <2>3. CompletedHasOutput'
    BY <1>0, <2>2 DEF CompletedHasOutput
  <2>4. CASE KindOf[i] = "HLS"
    <3>1. job'[i].assoc = (job[i].assoc \/ job[i].target = worker[w].dest)
      BY <1>0, <1>11, <2>1, <2>4 DEF AssociateOutput, JobRow
    <3>2. Carries(w, i) => job'[i].assoc
      BY <2>2, <2>4, <3>1 DEF Carries
    <3>3. Promised(i)' => Promised(i)
      BY <2>2, <3>1 DEF Promised
    <3>4. PromiseCarried'
      BY <1>0, <2>1, <2>2, <3>2, <3>3, WorkerCarriesOwn DEF Promised
    <3>5. QED
      BY <2>3, <3>4 DEF PromiseInv
  <2>5. CASE KindOf[i] # "HLS"
    <3>1. UNCHANGED job /\ Carries(w, i)'
      BY <1>0, <1>11, <2>1, <2>5 DEF AssociateOutput, At, Carries, WorkerSlot
    <3>2. PromiseCarried'
      BY <1>0, <2>1, <2>2, <3>1, WorkerCarriesOwn
    <3>3. QED
      BY <2>3, <3>2 DEF PromiseInv
  <2>6. QED
    BY <2>4, <2>5
<1>12. CASE MarkAssociated(w)
  <2>1. PICK i \in Jobs : i = worker[w].job
    BY <1>0, <1>12 DEF MarkAssociated, SlotNamed
  <2>2. /\ UNCHANGED req /\ job'[i].assoc
        /\ \A v \in Workers \ {w} : worker'[v] = worker[v]
        /\ \A j \in Jobs \ {i} : job'[j] = job[j]
        /\ \A j \in Jobs : /\ job'[j].target = job[j].target /\ job'[j].status = job[j].status
                           /\ job'[j].output = job[j].output
    BY <1>0, <1>12, <2>1 DEF MarkAssociated, At, JobRow
  <2>3. PromiseCarried'
    BY <1>0, <2>1, <2>2, WorkerCarriesOwn DEF Promised
  <2>4. QED
    BY <1>0, <2>2, <2>3 DEF PromiseInv, CompletedHasOutput
<1>13. ~FailsLate(w)
  <2>1. worker[w].pc = "associate" => worker[w].job \in Jobs
    BY <1>0 DEF SlotNamed
  <2>2. QED
    BY <2>1 DEF FailsLate, DatabaseWorks, DefaultTaken, NoSubtitles
<1>14. CASE WorkerLost(w)
  BY <1>14 DEF WorkerLost, NoCrash, TypeParts, RowsOK
<1>15. QED
  BY <1>2, <1>3, <1>4, <1>5, <1>6, <1>7, <1>8, <1>9, <1>10, <1>11, <1>12, <1>13, <1>14 DEF WorkerStep

LEMMA RequestPromises ==
  ASSUME TypeParts, OutputInv, PromiseInv, NoCrash, NoSubtitles,
         NEW r \in Requests, RequestBegins(r) \/ RequestStep(r) \/ RequestLost(r)
  PROVE  PromiseInv'
<1>0. /\ job \in [Jobs -> JobRow] /\ req \in [Requests -> RequestSlot]
      /\ req[r] \in RequestSlot
      /\ req[r].pc # "idle" => req[r].job \in Jobs
      /\ CompletedHasOutput /\ PromiseCarried /\ UNCHANGED worker
  BY RequestFrame DEF TypeParts, RowsOK, RequestsOK, PromiseInv
<1>1. ASSUME \A q \in Requests \ {r} : req'[q] = req[q],
             \A j \in Jobs : /\ job'[j].status = "COMPLETED" => job[j].status = "COMPLETED"
                             /\ job'[j].output = job[j].output /\ job'[j].assoc = job[j].assoc
                             /\ job'[j].status = "COMPLETED" => job'[j].target = job[j].target,
             req[r].pc \notin {"assocRead", "assoc"}
      PROVE  PromiseInv'
  <2>1. CompletedHasOutput'
    BY <1>0, <1>1 DEF CompletedHasOutput
  <2>2. PromiseCarried'
    BY <1>0, <1>1, RequestCarries DEF Promised, Brings
  <2>3. QED
    BY <2>1, <2>2 DEF PromiseInv
<1>2. CASE RequestBegins(r)
  <2>1. PICK j \in Jobs : RequestBegins(r)!(j)
    BY <1>2 DEF RequestBegins
  <2>2. CASE \E t \in Targets \cup {Null}, keep \in Retain : Enqueue(r, j, t, keep)
    <3>1. PICK t \in Targets \cup {Null}, keep \in Retain : Enqueue(r, j, t, keep)
      BY <2>2
    <3>2. ~job[j].output /\ ~job[j].assoc
      BY <3>1 DEF OutputInv, RowsAgree, Enqueue
    <3>3. /\ \A i \in Jobs \ {j} : job'[i] = job[i]
          /\ job'[j].status = "QUEUED" /\ job'[j].output = FALSE /\ job'[j].assoc = FALSE
          /\ job[j].output = FALSE /\ job[j].assoc = FALSE
      BY <1>0, <3>1, <3>2 DEF Enqueue, NewJob, JobRow
    <3>4. req[r].pc = "idle" /\ \A q \in Requests \ {r} : req'[q] = req[q]
      BY <1>0, <3>1 DEF Enqueue
    <3>5. QED
      BY <1>1, <3>3, <3>4
  <2>3. CASE ~\E t \in Targets \cup {Null}, keep \in Retain : Enqueue(r, j, t, keep)
    <3>1. UNCHANGED job /\ req[r].pc = "idle"
      BY <2>1, <2>3 DEF RetryCheck, CancelCheck, ConfigureCheck, AssociateCheck
    <3>2. \A q \in Requests \ {r} : req'[q] = req[q]
      BY <1>0, <2>1, <2>3 DEF RetryCheck, CancelCheck, ConfigureCheck, AssociateCheck
    <3>3. QED
      BY <1>1, <3>1, <3>2
  <2>4. QED
    BY <2>2, <2>3
<1>3. CASE Requeue(r)
  BY <1>0, <1>1, <1>3 DEF Requeue, Goto, JobRow
<1>4. CASE QueueAdd(r) \/ QueueAddFails(r) \/ QueueAddFailedMedia(r) \/ CancelRemove(r)
  BY <1>0, <1>1, <1>4
     DEF QueueAdd, QueueAddFails, QueueAddFailedMedia, CancelRemove, Goto, Reply, JobOnly
<1>5. CASE QueueLink(r) \/ CancelFlag(r)
  BY <1>0, <1>1, <1>5 DEF QueueLink, CancelFlag, Reply, JobRow
<1>6. CASE QueueAddFailedJob(r) \/ CancelMark(r)
  BY <1>0, <1>1, <1>6 DEF QueueAddFailedJob, CancelMark, Goto, Reply, JobRow
<1>7. CASE ConfigureWrite(r)
  <2>1. PICK i \in Jobs : i = req[r].job
    BY <1>0, <1>7 DEF ConfigureWrite
  <2>2. /\ req[r].pc = "configure"
        /\ \A q \in Requests \ {r} : req'[q] = req[q]
        /\ \A j \in Jobs \ {i} : job'[j] = job[j]
        /\ job'[i].status = job[i].status /\ job'[i].output = job[i].output
        /\ job'[i].assoc = job[i].assoc
        /\ job'[i].target = IF req[r].target # Null THEN req[r].target ELSE job[i].target
    BY <1>0, <1>7, <2>1 DEF ConfigureWrite, Goto, Reply, JobRow
  <2>3. CASE req[r].target # Null /\ Promised(i)'
    <3>1. Goto(r, "assocRead")
      BY <1>7, <2>1, <2>2, <2>3 DEF ConfigureWrite, Promised
    <3>2. Brings(r, i)'
      BY <1>0, <2>1, <2>2, <2>3, <3>1 DEF Brings, Goto, RequestSlot
    <3>3. PromiseCarried'
      BY <1>0, <2>2, <3>2, RequestCarries DEF Promised, Brings
    <3>4. QED
      BY <1>0, <2>2, <3>3 DEF PromiseInv, CompletedHasOutput
  <2>4. CASE ~(req[r].target # Null /\ Promised(i)')
    <3>1. PromiseCarried'
      BY <1>0, <2>2, <2>4, RequestCarries DEF Promised, Brings
    <3>2. QED
      BY <1>0, <2>2, <3>1 DEF PromiseInv, CompletedHasOutput
  <2>5. QED
    BY <2>3, <2>4
<1>8. CASE AssociateRead(r)
  <2>1. PICK i \in Jobs : i = req[r].job
    BY <1>0, <1>8 DEF AssociateRead
  <2>2. UNCHANGED job /\ \A q \in Requests \ {r} : req'[q] = req[q]
    BY <1>0, <1>8 DEF AssociateRead, Goto, Reply
  <2>3. Promised(i) /\ Brings(r, i) => Brings(r, i)'
    <3>1. HAVE Promised(i) /\ Brings(r, i)
    <3>2. MayAssociate(i, req[r].target)
      BY <1>0, <1>8, <2>1, <3>1 DEF AssociateRead, MayAssociate, Promised, Brings, CompletedHasOutput
    <3>3. Goto(r, "assoc")
      BY <1>8, <2>1, <3>2 DEF AssociateRead
    <3>4. QED
      BY <1>0, <2>1, <3>3 DEF Goto, Brings, RequestSlot
  <2>4. PromiseCarried'
    <3>1. ASSUME NEW j \in Jobs, Promised(j)'
          PROVE  \/ Brings(r, j)'
                 \/ job'[j].target = job[j].target /\ Promised(j) /\ ~Brings(r, j)
      BY <2>1, <2>2, <2>3, <3>1 DEF Promised, Brings
    <3>2. QED
      BY <1>0, <2>2, <3>1, RequestCarries
  <2>5. QED
    BY <1>0, <2>2, <2>4 DEF PromiseInv, CompletedHasOutput
<1>9. CASE Associate(r)
  <2>1. PICK i \in Jobs : i = req[r].job
    BY <1>0, <1>9 DEF Associate
  <2>2. /\ \A q \in Requests \ {r} : req'[q] = req[q]
        /\ \A j \in Jobs \ {i} : job'[j] = job[j]
        /\ job'[i].status = job[i].status /\ job'[i].output = job[i].output /\ job'[i].assoc
    BY <1>0, <1>9, <2>1 DEF Associate, Goto, JobRow
  <2>3. PromiseCarried'
    BY <1>0, <2>1, <2>2, RequestCarries DEF Promised, Brings
  <2>4. QED
    BY <1>0, <2>2, <2>3 DEF PromiseInv, CompletedHasOutput
<1>10. ~AssociateRefused(r)
  BY <1>0 DEF AssociateRefused, DefaultTaken, NoSubtitles
<1>11. CASE CountReferences(r)
  <2>1. \A j \in Jobs : /\ job'[j].status = job[j].status /\ job'[j].output = job[j].output
                        /\ job'[j].assoc = job[j].assoc /\ job'[j].target = job[j].target
    BY <1>0, <1>11 DEF CountReferences, JobRow
  <2>2. QED
    BY <1>0, <1>1, <1>11, <2>1 DEF CountReferences, Goto, Reply
<1>12. CASE RemoveOriginal(r) \/ RemoveOriginalFails(r) \/ RemovedOriginal(r)
  BY <1>0, <1>1, <1>12 DEF RemoveOriginal, RemoveOriginalFails, RemovedOriginal, Goto, Reply, JobOnly
<1>13. CASE RequestLost(r)
  BY <1>13 DEF RequestLost, NoCrash, TypeParts, RowsOK
<1>14. QED
  BY <1>2, <1>3, <1>4, <1>5, <1>6, <1>7, <1>8, <1>9, <1>10, <1>11, <1>12, <1>13 DEF RequestStep

\* PromiseInv is inductive.
LEMMA NextPromised ==
  ASSUME NoCrash, DatabaseWorks, NoSubtitles, RemuxesForEpisodes
  PROVE  TypeInv /\ OutputInv /\ PromiseInv /\ [Next]_vars => PromiseInv'
<1>1. ASSUME PromiseInv, UNCHANGED vars PROVE PromiseInv'
  BY <1>1 DEF vars, PromiseInv, CompletedHasOutput, PromiseCarried, Promised, Carries, Brings
<1>2. ASSUME TypeInv, OutputInv, PromiseInv, Next PROVE PromiseInv'
  BY <1>2, TypeInvParts, RequestPromises, WorkerPromises DEF Next
<1>3. QED
  BY <1>1, <1>2

\* A destination given to a job while it ends is attached, or somebody who
\* knows of it is still at work: whichever of the worker's second read and of
\* configure's returned row comes first, and however many requests overlap.
\* The second read gives up a remux that is destined to a movie, and a refused
\* subtitle, a refused write or a dead process ends who was at work.
THEOREM DestinationKept ==
  NoCrash /\ DatabaseWorks /\ NoSubtitles /\ RemuxesForEpisodes /\ Spec => []NoLostAssociation
<1>1. Init => PromiseInv
  BY DEF Init, NoJob, PromiseInv, CompletedHasOutput, PromiseCarried, Promised
<1>2. TypeInv /\ PromiseInv => NoLostAssociation
  BY DEF TypeInv, TypeOK, PromiseInv, PromiseCarried, Promised, Carries, Brings, NoLostAssociation,
         Running, Handling
<1>3. ASSUME NoCrash, DatabaseWorks, NoSubtitles, RemuxesForEpisodes
      PROVE  Spec => []NoLostAssociation
  <2>1. TypeInv /\ OutputInv /\ PromiseInv /\ [Next]_vars => PromiseInv'
    BY <1>3, NextPromised
  <2>2. QED
    BY <1>1, <1>2, <2>1, TypeInvariance, OutputInvariance, PTL DEF Spec
<1>4. QED
  BY <1>3

-----------------------------------------------------------------------------
(* An original goes after an association *)

\* Two requests cannot give a job two destinations.
OneDestination == (\A r, s \in Requests : r = s) \/ (\A t, u \in Targets : t = u)

\* The destination a request was called with does not contradict the row, and
\* a request that gives the original up has seen the association.
RequestDestined(r) ==
  /\ req[r].pc \in {"configure", "assocRead", "assoc"} /\ req[r].target # Null
       => job[req[r].job].target \in {Null, req[r].target}
  /\ req[r].pc \in {"assocRead", "assoc"} => req[r].target # Null
  /\ req[r].pc \in {"count", "delete", "deleted"} => job[req[r].job].assoc

\* The destination a slot has read is still the one of the row, and the job is
\* associated when the slot comes to give the original up.
WorkerDestined(w) ==
  /\ worker[w].pc = "associate" => /\ worker[w].dest # Null
                                   /\ job[worker[w].job].target = worker[w].dest
  /\ worker[w].pc = "settle" /\ MustDelete(w) => job[worker[w].job].assoc
  /\ worker[w].pc \in {"delete", "deleted"} => job[worker[w].job].assoc

DestinedInv ==
  /\ \A r \in Requests : RequestDestined(r)
  /\ \A w \in Workers : WorkerDestined(w)

\* What a step of a slot must show.
LEMMA WorkerStaysDestined ==
  ASSUME TypeParts, DestinedInv, NEW w \in Workers, UNCHANGED req,
         \A v \in Workers \ {w} : worker'[v] = worker[v],
         \A j \in Jobs : job'[j].target = job[j].target /\ (job[j].assoc => job'[j].assoc),
         WorkerDestined(w)'
  PROVE  DestinedInv'
<1>1. ASSUME NEW r \in Requests PROVE RequestDestined(r)'
  BY <1>1 DEF DestinedInv, RequestDestined, TypeParts, RequestsOK
<1>2. ASSUME NEW v \in Workers \ {w} PROVE WorkerDestined(v)'
  BY <1>2 DEF DestinedInv, WorkerDestined, MustDelete, TypeParts, WorkersOK, SlotNamed
<1>3. QED
  BY <1>1, <1>2 DEF DestinedInv

LEMMA WorkerDestines ==
  ASSUME TypeParts, OutputInv, DestinedInv, NEW w \in Workers, WorkerStep(w) \/ WorkerLost(w)
  PROVE  DestinedInv'
<1>0. /\ job \in [Jobs -> JobRow] /\ worker \in [Workers -> WorkerSlot]
      /\ worker[w] \in WorkerSlot /\ SlotNamed(worker[w]) /\ WorkerDestined(w)
  BY DEF TypeParts, RowsOK, WorkersOK, DestinedInv
<1>1. CASE \E j \in Jobs, a \in 1..MaxAttempts : Take(w, j, a)
  <2>1. worker'[w].pc = "load" /\ UNCHANGED <<job, req>>
    BY <1>0, <1>1 DEF Take, Slot
  <2>2. \A v \in Workers \ {w} : worker'[v] = worker[v]
    BY <1>0, <1>1 DEF Take
  <2>3. QED
    BY <2>1, <2>2, WorkerStaysDestined DEF WorkerDestined
<1>2. CASE Load(w) \/ Finish(w) \/ WorkerLost(w)
  <2>1. worker'[w].pc \in {"start", "idle"} /\ UNCHANGED <<job, req>>
    BY <1>0, <1>2, IdleTypes DEF Load, Finish, WorkerLost, At, Release, WorkerSlot
  <2>2. \A v \in Workers \ {w} : worker'[v] = worker[v]
    BY <1>0, <1>2 DEF Load, Finish, WorkerLost, At, Release
  <2>3. QED
    BY <2>1, <2>2, WorkerStaysDestined DEF WorkerDestined
<1>3. CASE Start(w)
  BY <1>0, <1>3, WorkerStaysDestined DEF Start, At, WorkerDestined, WorkerSlot, JobRow
<1>4. CASE Probe(w) \/ Encode(w) \/ Upload(w) \/ Uploaded(w) \/ CleanUp(w)
  BY <1>0, <1>4, WorkerStaysDestined DEF Probe, Encode, Upload, Uploaded, CleanUp, At, WorkerDestined, WorkerSlot
<1>5. CASE Cancelled(w) \/ Fails(w) \/ CommitRefused(w) \/ FailsLate(w)
  <2>1. UNCHANGED <<job, req>> /\ \E outcome \in Retryable : ToCatch(w, outcome)
    BY <1>5 DEF Cancelled, Fails, CommitRefused, FailsLate, Retryable
  <2>2. QED
    BY <1>0, <2>1, WorkerStaysDestined DEF ToCatch, WorkerDestined, WorkerSlot
<1>6. CASE Commit(w)
  BY <1>0, <1>6, WorkerStaysDestined DEF Commit, WorkerDestined, WorkerSlot, JobRow
<1>7. CASE Reread(w)
  <2>1. WorkerDestined(w)'
    BY <1>0, <1>7 DEF Reread, WorkerDestined, MustDelete, WorkerSlot
  <2>2. QED
    BY <1>0, <1>7, <2>1, WorkerStaysDestined DEF Reread
<1>8. CASE AssociateOutput(w)
  <2>1. PICK i \in Jobs : i = worker[w].job
    BY <1>0, <1>8 DEF AssociateOutput, SlotNamed
  <2>2. /\ worker[w].pc = "associate" /\ job[i].target = worker[w].dest /\ UNCHANGED req
        /\ \A v \in Workers \ {w} : worker'[v] = worker[v]
        /\ worker'[w].job = i
        /\ \A j \in Jobs : j # i => job'[j] = job[j]
        /\ job'[i].target = job[i].target
    BY <1>0, <1>8, <2>1 DEF AssociateOutput, At, WorkerSlot, JobRow, WorkerDestined
  <2>3. CASE KindOf[i] = "HLS"
    <3>1. job'[i].assoc = (job[i].assoc \/ job[i].target = worker[w].dest)
      BY <1>0, <1>8, <2>1, <2>3 DEF AssociateOutput, JobRow
    <3>2. job'[i].assoc
      BY <2>2, <3>1
    <3>3. worker'[w].pc = "settle"
      BY <1>0, <1>8, <2>1, <2>3 DEF AssociateOutput, At, WorkerSlot
    <3>4. QED
      BY <2>2, <3>2, <3>3, WorkerStaysDestined DEF WorkerDestined
  <2>4. CASE KindOf[i] # "HLS"
    <3>1. UNCHANGED job /\ worker'[w].pc = "mark"
      BY <1>0, <1>8, <2>1, <2>4 DEF AssociateOutput, At, WorkerSlot
    <3>2. QED
      BY <2>2, <3>1, WorkerStaysDestined DEF WorkerDestined
  <2>5. QED
    BY <2>3, <2>4
<1>9. CASE MarkAssociated(w)
  BY <1>0, <1>9, WorkerStaysDestined DEF MarkAssociated, At, WorkerDestined, WorkerSlot, JobRow, SlotNamed
<1>10. CASE Settle(w)
  <2>1. PICK i \in Jobs : i = worker[w].job
    BY <1>0, <1>10 DEF Settle, SlotNamed
  <2>2. /\ UNCHANGED req /\ \A v \in Workers \ {w} : worker'[v] = worker[v]
        /\ \A j \in Jobs : job'[j].target = job[j].target /\ job'[j].assoc = job[j].assoc
    BY <1>0, <1>10 DEF Settle, At, Release, JobRow
  <2>3. WorkerDestined(w)'
    <3>1. CASE worker'[w].pc = "delete"
      <4>1. MustDelete(w) /\ worker'[w].job = i
        BY <1>0, <1>10, <2>1, <3>1, IdleTypes DEF Settle, At, Release, WorkerSlot
      <4>2. job[i].assoc
        BY <1>0, <1>10, <2>1, <4>1 DEF Settle, WorkerDestined
      <4>3. QED
        BY <2>2, <3>1, <4>1, <4>2 DEF WorkerDestined
    <3>2. CASE worker'[w].pc # "delete"
      <4>1. worker'[w].pc \in {"idle", "finish"}
        BY <1>0, <1>10, <3>2, IdleTypes DEF Settle, At, Release, WorkerSlot
      <4>2. QED
        BY <4>1 DEF WorkerDestined
    <3>3. QED
      BY <3>1, <3>2
  <2>4. QED
    BY <2>2, <2>3, WorkerStaysDestined
<1>11. CASE DeleteOriginal(w) \/ DeletedOriginal(w)
  BY <1>0, <1>11, WorkerStaysDestined DEF DeleteOriginal, DeletedOriginal, At, WorkerDestined, WorkerSlot
<1>12. CASE DeleteOriginalFails(w)
  BY <1>0, <1>12, WorkerStaysDestined DEF DeleteOriginalFails, At, WorkerDestined, WorkerSlot, JobRow
<1>13. CASE Record(w)
  <2>1. worker'[w].pc = "idle" /\ UNCHANGED req
    BY <1>0, <1>13, IdleTypes DEF Record, Release
  <2>2. /\ \A v \in Workers \ {w} : worker'[v] = worker[v]
        /\ \A j \in Jobs : job'[j].target = job[j].target /\ job'[j].assoc = job[j].assoc
    BY <1>0, <1>13 DEF Record, Release, JobRow
  <2>3. QED
    BY <2>1, <2>2, WorkerStaysDestined DEF WorkerDestined
<1>14. QED
  BY <1>1, <1>2, <1>3, <1>4, <1>5, <1>6, <1>7, <1>8, <1>9, <1>10, <1>11, <1>12, <1>13 DEF WorkerStep

\* What a step of a request must show.
LEMMA RequestStaysDestined ==
  ASSUME TypeParts, OutputInv, DestinedInv, OneDestination, NEW r \in Requests, UNCHANGED worker,
         \A q \in Requests \ {r} : req'[q] = req[q],
         \A j \in Jobs : job[j].assoc => job'[j].assoc,
         \A j \in Jobs : job[j].status # "ABSENT" =>
            \/ job'[j].target = job[j].target
            \/ job[j].target = Null /\ job'[j].target \in Targets,
         RequestDestined(r)'
  PROVE  DestinedInv'
<1>1. ASSUME NEW w \in Workers PROVE WorkerDestined(w)'
  BY <1>1 DEF DestinedInv, WorkerDestined, MustDelete, TypeParts, WorkersOK, SlotNamed,
              OutputInv, WorkersSaw
<1>2. ASSUME NEW q \in Requests \ {r} PROVE RequestDestined(q)'
  <2>1. \A t, u \in Targets : t = u
    BY <1>2 DEF OneDestination
  <2>2. /\ req[q] \in RequestSlot /\ req'[q] = req[q]
        /\ req[q].pc # "idle" => req[q].job \in Jobs /\ job[req[q].job].status # "ABSENT"
        /\ RequestDestined(q)
    BY <1>2 DEF TypeParts, RequestsOK, OutputInv, RequestsSaw, DestinedInv
  <2>3. job \in [Jobs -> JobRow]
    BY DEF TypeParts, RowsOK
  <2>4. req[q].pc \in {"configure", "assocRead", "assoc"} /\ req[q].target # Null
          => job'[req[q].job].target \in {Null, req[q].target}
    BY <2>1, <2>2, <2>3, NullAssumption DEF RequestDestined, RequestSlot, JobRow
  <2>5. QED
    BY <2>2, <2>4 DEF RequestDestined
<1>3. QED
  BY <1>1, <1>2 DEF DestinedInv

LEMMA RequestDestines ==
  ASSUME TypeParts, OutputInv, DestinedInv, OneDestination,
         NEW r \in Requests, RequestBegins(r) \/ RequestStep(r) \/ RequestLost(r)
  PROVE  DestinedInv'
<1>0. /\ job \in [Jobs -> JobRow] /\ req \in [Requests -> RequestSlot]
      /\ req[r] \in RequestSlot
      /\ req[r].pc # "idle" => req[r].job \in Jobs
      /\ RequestDestined(r) /\ UNCHANGED worker
  BY RequestFrame DEF TypeParts, RowsOK, RequestsOK, DestinedInv
<1>1. ASSUME \A q \in Requests \ {r} : req'[q] = req[q],
             \A j \in Jobs : job'[j].target = job[j].target /\ (job[j].assoc => job'[j].assoc),
             RequestDestined(r)'
      PROVE  DestinedInv'
  BY <1>0, <1>1, RequestStaysDestined
<1>2. CASE RequestBegins(r)
  <2>1. PICK j \in Jobs : RequestBegins(r)!(j)
    BY <1>2 DEF RequestBegins
  <2>2. CASE \E t \in Targets \cup {Null}, keep \in Retain : Enqueue(r, j, t, keep)
    <3>1. PICK t \in Targets \cup {Null}, keep \in Retain : Enqueue(r, j, t, keep)
      BY <2>2
    <3>2. /\ ~job[j].assoc /\ job[j].status = "ABSENT"
          /\ \A i \in Jobs \ {j} : job'[i] = job[i]
          /\ \A q \in Requests \ {r} : req'[q] = req[q]
          /\ req'[r].pc = "add"
      BY <1>0, <3>1 DEF Enqueue, Pending, OutputInv, RowsAgree
    <3>3. QED
      BY <1>0, <3>2, RequestStaysDestined DEF RequestDestined
  <2>3. CASE RetryCheck(r, j) \/ CancelCheck(r, j)
    BY <1>0, <1>1, <2>3 DEF RetryCheck, CancelCheck, Pending, RequestDestined
  <2>4. CASE \E t \in Targets \cup {Null}, keep \in Retain \cup {Null} : ConfigureCheck(r, j, t, keep)
    BY <1>0, <1>1, <2>4 DEF ConfigureCheck, Pending, RequestDestined
  <2>5. CASE \E t \in Targets : AssociateCheck(r, j, t)
    <3>1. PICK t \in Targets : AssociateCheck(r, j, t)
      BY <2>5
    <3>2. t # Null
      BY NullAssumption
    <3>3. QED
      BY <1>0, <1>1, <3>1, <3>2 DEF AssociateCheck, MayAssociate, Pending, RequestDestined
  <2>6. QED
    BY <2>1, <2>2, <2>3, <2>4, <2>5
<1>3. CASE Requeue(r)
  BY <1>0, <1>1, <1>3 DEF Requeue, Goto, JobRow, RequestSlot, RequestDestined
<1>4. CASE QueueAdd(r) \/ QueueAddFails(r) \/ CancelRemove(r)
  BY <1>0, <1>1, <1>4 DEF QueueAdd, QueueAddFails, CancelRemove, Goto, RequestSlot, RequestDestined
<1>5. CASE QueueAddFailedJob(r)
  BY <1>0, <1>1, <1>5 DEF QueueAddFailedJob, Goto, JobRow, RequestSlot, RequestDestined
<1>6. CASE Reply(r) /\ \A j \in Jobs : job'[j].target = job[j].target /\ job'[j].assoc = job[j].assoc
  <2>1. req'[r].pc = "idle" /\ \A q \in Requests \ {r} : req'[q] = req[q]
    BY <1>0, <1>6, IdleTypes DEF Reply
  <2>2. QED
    BY <1>1, <1>6, <2>1 DEF RequestDestined
<1>7. CASE QueueLink(r) \/ CancelMark(r) \/ CancelFlag(r)
  BY <1>0, <1>6, <1>7 DEF QueueLink, CancelMark, CancelFlag, JobRow
<1>8. CASE QueueAddFailedMedia(r) \/ AssociateRefused(r) \/ RemoveOriginalFails(r) \/ RemovedOriginal(r)
           \/ RequestLost(r)
  BY <1>6, <1>8
     DEF QueueAddFailedMedia, AssociateRefused, RemoveOriginalFails, RemovedOriginal, RequestLost
<1>9. CASE ConfigureWrite(r)
  <2>1. PICK i \in Jobs : i = req[r].job
    BY <1>0, <1>9 DEF ConfigureWrite
  <2>2. /\ req[r].pc = "configure"
        /\ \A q \in Requests \ {r} : req'[q] = req[q]
        /\ \A j \in Jobs \ {i} : job'[j] = job[j]
        /\ job'[i].assoc = job[i].assoc
        /\ job'[i].target = IF req[r].target # Null THEN req[r].target ELSE job[i].target
    BY <1>0, <1>9, <2>1 DEF ConfigureWrite, Goto, Reply, JobRow
  <2>3. RequestDestined(r)'
    <3>1. CASE Goto(r, "assocRead") /\ req[r].target # Null
      BY <1>0, <2>1, <2>2, <3>1 DEF Goto, RequestDestined, RequestSlot
    <3>2. CASE Goto(r, "count") /\ job[i].assoc
      BY <1>0, <2>1, <2>2, <3>2 DEF Goto, RequestDestined, RequestSlot
    <3>3. CASE Reply(r)
      BY <1>0, <3>3, IdleTypes DEF Reply, RequestDestined
    <3>4. QED
      BY <1>9, <2>1, <3>1, <3>2, <3>3 DEF ConfigureWrite
  <2>4. \/ job'[i].target = job[i].target
        \/ job[i].target = Null /\ job'[i].target \in Targets
    BY <1>0, <2>1, <2>2 DEF RequestDestined, RequestSlot
  <2>5. QED
    BY <1>0, <2>2, <2>3, <2>4, RequestStaysDestined
<1>10. CASE AssociateRead(r)
  <2>1. Goto(r, "assoc") \/ Reply(r)
    BY <1>10 DEF AssociateRead
  <2>2. CASE Goto(r, "assoc")
    BY <1>0, <1>1, <1>10, <2>2 DEF AssociateRead, Goto, RequestDestined, RequestSlot
  <2>3. QED
    BY <1>6, <1>10, <2>1, <2>2 DEF AssociateRead
<1>11. CASE Associate(r)
  <2>1. PICK i \in Jobs : i = req[r].job
    BY <1>0, <1>11 DEF Associate
  <2>2. /\ req[r].pc = "assoc" /\ req'[r].pc = "after"
        /\ \A q \in Requests \ {r} : req'[q] = req[q]
        /\ \A j \in Jobs \ {i} : job'[j] = job[j]
        /\ job'[i].assoc /\ job'[i].target = req[r].target
    BY <1>0, <1>11, <2>1 DEF Associate, Goto, JobRow, RequestSlot
  <2>3. \/ job'[i].target = job[i].target
        \/ job[i].target = Null /\ job'[i].target \in Targets
    BY <1>0, <2>1, <2>2 DEF RequestDestined, RequestSlot
  <2>4. QED
    BY <1>0, <2>2, <2>3, RequestStaysDestined DEF RequestDestined
<1>12. CASE CountReferences(r)
  <2>1. \A j \in Jobs : job'[j].target = job[j].target /\ job'[j].assoc = job[j].assoc
    BY <1>0, <1>12 DEF CountReferences, JobRow
  <2>2. \/ Reply(r)
        \/ /\ Goto(r, "delete") /\ UNCHANGED job
           /\ req[r].pc = "count" \/ job[req[r].job].assoc
    BY <1>12 DEF CountReferences
  <2>3. CASE Goto(r, "delete") /\ UNCHANGED job /\ (req[r].pc = "count" \/ job[req[r].job].assoc)
    BY <1>0, <1>1, <2>1, <2>3 DEF Goto, RequestDestined, RequestSlot
  <2>4. QED
    BY <1>6, <2>1, <2>2, <2>3
<1>13. CASE RemoveOriginal(r)
  BY <1>0, <1>1, <1>13 DEF RemoveOriginal, Goto, RequestDestined, RequestSlot
<1>14. QED
  BY <1>2, <1>3, <1>4, <1>5, <1>7, <1>8, <1>9, <1>10, <1>11, <1>12, <1>13 DEF RequestStep

\* DestinedInv is inductive.
LEMMA NextDestined ==
  OneDestination /\ TypeInv /\ OutputInv /\ DestinedInv /\ [Next]_vars => DestinedInv'
<1>1. ASSUME DestinedInv, UNCHANGED vars PROVE DestinedInv'
  BY <1>1 DEF vars, DestinedInv, RequestDestined, WorkerDestined, MustDelete
<1>2. ASSUME OneDestination, TypeInv, OutputInv, DestinedInv, Next PROVE DestinedInv'
  BY <1>2, TypeInvParts, RequestDestines, WorkerDestines DEF Next
<1>3. QED
  BY <1>1, <1>2

\* Nothing is destined at the start.
LEMMA InitDestined == Init => DestinedInv
  BY DEF Init, DestinedInv, RequestDestined, WorkerDestined, IdleWorker, IdleRequest, Slot, Pending

\* Who removes an original.
LEMMA WhoRemoves ==
  ASSUME Next, NEW m \in original \ original'
  PROVE  \/ \E w \in Workers : DeleteOriginal(w) /\ MediaOf[worker[w].job] = m
         \/ \E r \in Requests : RemoveOriginal(r) /\ MediaOf[req[r].job] = m
<1>1. CASE \E w \in Workers : DeleteOriginal(w)
  BY <1>1 DEF DeleteOriginal
<1>2. CASE \E r \in Requests : RemoveOriginal(r)
  BY <1>2 DEF RemoveOriginal
<1>3. ASSUME NEW w \in Workers, WorkerStep(w) \/ WorkerLost(w), ~DeleteOriginal(w)
      PROVE  FALSE
  BY <1>3 DEF WorkerStep, WorkerLost, Take, Load, Start, Probe, Encode, Upload, Uploaded, Cancelled,
              Fails, Commit, CommitRefused, Reread, AssociateOutput, MarkAssociated, FailsLate,
              Settle, DeleteOriginalFails, DeletedOriginal, Finish, CleanUp, Record
<1>4. ASSUME NEW r \in Requests, RequestStep(r) \/ RequestLost(r), ~RemoveOriginal(r)
      PROVE  FALSE
  BY <1>4 DEF RequestStep, RequestLost, JobOnly, RowsOnly, Requeue, QueueAdd, QueueLink,
              QueueAddFails, QueueAddFailedJob, QueueAddFailedMedia, CancelRemove, CancelMark,
              CancelFlag, ConfigureWrite, AssociateRead, Associate, AssociateRefused,
              CountReferences, RemoveOriginalFails, RemovedOriginal
<1>5. ASSUME NEW r \in Requests, RequestBegins(r) PROVE FALSE
  BY <1>5 DEF RequestBegins, JobOnly, RowsOnly, Enqueue, RetryCheck, CancelCheck,
              ConfigureCheck, AssociateCheck
<1>6. QED
  BY <1>1, <1>2, <1>3, <1>4, <1>5 DEF Next

\* An original is removed only when an output of it is registered and attached,
\* as long as a job cannot be given two destinations: a worker that has read
\* one may otherwise attach the output there, find another in the row, leave
\* the job unassociated and remove the original.
THEOREM RemovalFollowsAssociation == OneDestination /\ Spec => OriginalRemovedAfterAssociation
<1>1. ASSUME TypeInv, OutputInv, DestinedInv, [Next]_vars
      PROVE  \A m \in original \ original' :
               \E j \in Jobs : MediaOf[j] = m /\ job[j].output /\ job[j].assoc
  <2>1. SUFFICES ASSUME NEW m \in original \ original'
                 PROVE  \E j \in Jobs : MediaOf[j] = m /\ job[j].output /\ job[j].assoc
    OBVIOUS
  <2>2. Next
    BY <1>1, <2>1 DEF vars
  <2>3. CASE \E w \in Workers : DeleteOriginal(w) /\ MediaOf[worker[w].job] = m
    BY <1>1, <2>3 DEF DeleteOriginal, DestinedInv, WorkerDestined, OutputInv, WorkersSaw, PastCommit,
                      TypeInv, SlotsNamed
  <2>4. CASE \E r \in Requests : RemoveOriginal(r) /\ MediaOf[req[r].job] = m
    BY <1>1, <2>4 DEF RemoveOriginal, DestinedInv, RequestDestined, OutputInv, RequestsSaw,
                      PastOutputCheck, TypeInv, SlotsNamed
  <2>5. QED
    BY <2>1, <2>2, <2>3, <2>4, WhoRemoves
<1>2. TypeInv /\ OutputInv /\ DestinedInv /\ [Next]_vars
        => [\A m \in original \ original' :
              \E j \in Jobs : MediaOf[j] = m /\ job[j].output /\ job[j].assoc]_vars
  BY <1>1
<1>3. ASSUME OneDestination PROVE Spec => OriginalRemovedAfterAssociation
  <2>1. TypeInv /\ OutputInv /\ DestinedInv /\ [Next]_vars => DestinedInv'
    BY <1>3, NextDestined
  <2>2. QED
    BY <1>2, <2>1, InitDestined, TypeInvariance, OutputInvariance, PTL
       DEF Spec, OriginalRemovedAfterAssociation
<1>4. QED
  BY <1>3

-----------------------------------------------------------------------------
(* A shared original stays *)

\* A single slot attaches outputs and removes originals.
OneAttacher == (\A v, w \in Workers : v = w) /\ Ops \cap {"associate", "configure"} = {}

Attaching == {"configure", "assocRead", "assoc", "after", "count", "delete", "deleted"}

\* Requests attach and remove nothing, and what the slot has counted still holds.
CountHolds ==
  /\ \A r \in Requests : req[r].pc \notin Attaching
  /\ \A w \in Workers : worker[w].pc = "delete" => ~SharedOriginal(MediaOf[worker[w].job])

\* CountHolds is inductive.
LEMMA NextCounts == OneAttacher /\ TypeInv /\ CountHolds /\ [Next]_vars => CountHolds'
<1>1. ASSUME CountHolds, UNCHANGED vars PROVE CountHolds'
  BY <1>1 DEF vars, CountHolds, SharedOriginal, References
<1>2. ASSUME OneAttacher, TypeInv, CountHolds,
             NEW r \in Requests, RequestBegins(r) \/ RequestStep(r) \/ RequestLost(r)
      PROVE  CountHolds'
  <2>1. req \in [Requests -> RequestSlot] /\ req[r].pc \notin Attaching
    BY <1>2 DEF TypeInv, TypeOK, CountHolds
  <2>2. UNCHANGED <<target, worker>> /\ \A q \in Requests : req'[q].pc \notin Attaching
    <3>1. CASE RequestBegins(r)
      BY <1>2, <2>1, <3>1 DEF RequestBegins, JobOnly, RowsOnly, Enqueue, RetryCheck, CancelCheck,
              ConfigureCheck, AssociateCheck, OneAttacher, Pending, CountHolds, Attaching
    <3>2. CASE RequestLost(r)
      BY <1>2, <2>1, <3>2, IdleTypes DEF RequestLost, Reply, CountHolds, Attaching
    <3>3. CASE Requeue(r) \/ QueueAdd(r) \/ QueueAddFails(r) \/ QueueAddFailedJob(r) \/ CancelRemove(r)
      BY <1>2, <2>1, <3>3 DEF Requeue, QueueAdd, QueueAddFails, QueueAddFailedJob, CancelRemove,
              Goto, JobOnly, RowsOnly, CountHolds, Attaching, RequestSlot
    <3>4. CASE QueueLink(r) \/ QueueAddFailedMedia(r) \/ CancelMark(r) \/ CancelFlag(r)
      BY <1>2, <2>1, <3>4, IdleTypes DEF QueueLink, QueueAddFailedMedia, CancelMark, CancelFlag,
              Reply, JobOnly, RowsOnly, CountHolds, Attaching
    <3>5. QED
      BY <1>2, <2>1, <3>1, <3>2, <3>3, <3>4
         DEF RequestStep, Attaching, ConfigureWrite, AssociateRead, Associate, AssociateRefused,
             CountReferences, RemoveOriginal, RemoveOriginalFails, RemovedOriginal
  <2>3. QED
    BY <1>2, <2>2 DEF CountHolds, SharedOriginal, References
<1>3. ASSUME OneAttacher, TypeInv, CountHolds, NEW w \in Workers, WorkerStep(w) \/ WorkerLost(w)
      PROVE  CountHolds'
  <2>1. UNCHANGED req
    BY <1>3 DEF WorkerStep, WorkerLost, Take, Load, Start, Probe, Encode, Upload, Uploaded, Cancelled,
              Fails, Commit, CommitRefused, Reread, AssociateOutput, MarkAssociated, FailsLate,
              Settle, DeleteOriginal, DeleteOriginalFails, DeletedOriginal, Finish, CleanUp, Record
  <2>2. worker \in [Workers -> WorkerSlot] /\ \A v \in Workers : v = w
    BY <1>3 DEF TypeInv, TypeOK, OneAttacher
  <2>3. (worker[w].pc = "delete" => ~SharedOriginal(MediaOf[worker[w].job]))'
    <3>1. CASE Settle(w) /\ worker'[w].pc = "delete"
      <4>1. At(w, "delete") /\ ~SharedOriginal(MediaOf[worker[w].job]) /\ UNCHANGED target
        BY <2>2, <3>1, IdleTypes DEF Settle, At, Release, WorkerSlot
      <4>2. worker'[w].job = worker[w].job
        BY <2>2, <4>1 DEF At, WorkerSlot
      <4>3. QED
        BY <4>1, <4>2 DEF SharedOriginal, References
    <3>2. CASE Settle(w) /\ worker'[w].pc # "delete"
      BY <3>2
    <3>3. CASE ~Settle(w)
      <4>1. CASE Finish(w) \/ Record(w) \/ WorkerLost(w)
        BY <2>2, <4>1, IdleTypes DEF Finish, Record, WorkerLost, Release
      <4>2. CASE Cancelled(w) \/ Fails(w) \/ CommitRefused(w) \/ FailsLate(w)
        BY <2>2, <4>2 DEF Cancelled, Fails, CommitRefused, FailsLate, ToCatch, WorkerSlot
      <4>3. CASE \/ \E j \in Jobs, a \in 1..MaxAttempts : Take(w, j, a)
                \/ Load(w) \/ Start(w) \/ Probe(w) \/ Encode(w) \/ Upload(w) \/ Uploaded(w)
        BY <2>2, <4>3, IdleTypes
           DEF Take, Load, Start, Probe, Encode, Upload, Uploaded, At, Release, Slot, WorkerSlot
      <4>4. CASE \/ Commit(w) \/ Reread(w) \/ AssociateOutput(w) \/ MarkAssociated(w)
                \/ DeleteOriginal(w) \/ DeleteOriginalFails(w) \/ DeletedOriginal(w) \/ CleanUp(w)
        BY <2>2, <4>4
           DEF Commit, Reread, AssociateOutput, MarkAssociated, DeleteOriginal,
               DeleteOriginalFails, DeletedOriginal, CleanUp, At, WorkerSlot
      <4>5. QED
        BY <1>3, <3>3, <4>1, <4>2, <4>3, <4>4 DEF WorkerStep
    <3>4. QED
      BY <3>1, <3>2, <3>3
  <2>4. (\A v \in Workers : worker[v].pc = "delete" => ~SharedOriginal(MediaOf[worker[v].job]))'
    BY <2>2, <2>3
  <2>5. QED
    BY <1>3, <2>1, <2>4 DEF CountHolds

<1>4. QED
  BY <1>1, <1>2, <1>3 DEF Next

\* The automatic removal leaves an original that two contents refer to, when
\* only one slot attaches outputs: the references are counted in one statement
\* and the original is deleted in a later one, and whoever attaches an output
\* between them is not seen.
THEOREM SharedOriginalStays == OneAttacher /\ Spec => SharedOriginalKept
<1>1. Init => CountHolds
  BY DEF Init, CountHolds, Attaching, IdleRequest, IdleWorker, Pending, Slot
<1>2. ASSUME CountHolds, [Next]_vars
      PROVE  \A m \in original \ original' : ~SharedOriginal(m)
  <2>1. SUFFICES ASSUME NEW m \in original \ original' PROVE ~SharedOriginal(m)
    OBVIOUS
  <2>2. Next
    BY <1>2, <2>1 DEF vars
  <2>3. QED
    BY <1>2, <2>1, <2>2, WhoRemoves DEF CountHolds, Attaching, DeleteOriginal, RemoveOriginal
<1>3. CountHolds /\ [Next]_vars => [\A m \in original \ original' : ~SharedOriginal(m)]_vars
  BY <1>2
<1>4. ASSUME OneAttacher PROVE Spec => SharedOriginalKept
  <2>1. TypeInv /\ CountHolds /\ [Next]_vars => CountHolds'
    BY <1>4, NextCounts
  <2>2. QED
    BY <1>1, <1>3, <2>1, TypeInvariance, PTL DEF Spec, SharedOriginalKept
<1>5. QED
  BY <1>4

\* Nothing takes a job back while its entry is in the queue: cancel does, and
\* so does an update that fails after the queue has accepted the entry.
EntriesFollowed == "cancel" \notin Ops /\ Faults \cap {"redis", "db"} = {}

-----------------------------------------------------------------------------
(* The entries of a job *)

Held(w) == worker[w].pc # "idle"

\* The requests that come to add an entry, and those the conditions exclude.
Queueing == {"requeue", "add"}
TakingBack == {"addFailed", "addFailedMedia", "remove", "mark", "flag"}

\* An attempt is queued when every earlier one has ended.
EntriesInOrder ==
  \A j \in Jobs, a, b \in 1..MaxAttempts :
    a < b /\ bull[j][b] # "none" => bull[j][a] = "done"

\* A slot at work holds its entry, alone.
EntriesHeld ==
  /\ \A w \in Workers : Held(w) =>
       worker[w].att \in 1..MaxAttempts /\ bull[worker[w].job][worker[w].att] = "active"
  /\ \A v, w \in Workers :
       /\ Held(v) /\ Held(w)
       /\ worker[v].job = worker[w].job /\ worker[v].att = worker[w].att
       => v = w

\* The attempts before the one a row counts have ended; all of those it counts
\* have when it can be retried, and no other is under way.
RowFollows(j, a) ==
  /\ a < job[j].attempts => bull[j][a] = "done"
  /\ job[j].status \in Retryable => bull[j][a] \in {"none", "done"}
  /\ job[j].status \in Retryable /\ a <= job[j].attempts => bull[j][a] = "done"

RowsFollowEntries == \A j \in Jobs, a \in 1..MaxAttempts : RowFollows(j, a)

\* A request adds the attempt after those that have ended, and the job it adds
\* a new entry for is still QUEUED.
RetryInOrder(r) ==
  /\ req[r].pc \notin TakingBack
  /\ req[r].pc \in Queueing =>
       /\ req[r].att \in 1..MaxAttempts
       /\ \A a \in 1..MaxAttempts : a < req[r].att => bull[req[r].job][a] = "done"
  /\ req[r].pc = "add" /\ bull[req[r].job][req[r].att] = "none"
       => job[req[r].job].status = "QUEUED"

RetriesInOrder == \A r \in Requests : RetryInOrder(r)

EntriesInv == EntriesInOrder /\ EntriesHeld /\ RowsFollowEntries /\ RetriesInOrder

\* The entry of a slot at work is the last one of its job: those before it have
\* ended, and nobody is about to add another.
LEMMA HeldIsLast ==
  ASSUME TypeParts, EntriesInv, NEW w \in Workers, Held(w)
  PROVE  /\ worker[w].job \in Jobs /\ worker[w].att \in 1..MaxAttempts
         /\ bull[worker[w].job][worker[w].att] = "active"
         /\ \A a \in 1..MaxAttempts : a < worker[w].att => bull[worker[w].job][a] = "done"
         /\ \A a \in 1..MaxAttempts : worker[w].att < a => bull[worker[w].job][a] = "none"
         /\ job[worker[w].job].attempts <= worker[w].att
         /\ job[worker[w].job].status \notin Retryable
         /\ \A r \in Requests : req[r].pc \in Queueing /\ req[r].job = worker[w].job
              => bull[req[r].job][req[r].att] # "none"
<1>1. /\ worker[w].job \in Jobs /\ worker[w].att \in 1..MaxAttempts
      /\ bull[worker[w].job][worker[w].att] = "active"
      /\ job[worker[w].job].attempts \in 0..MaxAttempts
  BY DEF TypeParts, RowsOK, WorkersOK, SlotNamed, EntriesInv, EntriesHeld, Held, JobRow
<1>2. PICK j \in Jobs : j = worker[w].job
  BY <1>1
<1>3. PICK c \in 1..MaxAttempts : c = worker[w].att
  BY <1>1
<1>4. \A a \in 1..MaxAttempts : a < c => bull[j][a] = "done"
  BY <1>1, <1>2, <1>3 DEF EntriesInv, EntriesInOrder
<1>5. \A a \in 1..MaxAttempts : c < a => bull[j][a] = "none"
  BY <1>1, <1>2, <1>3 DEF EntriesInv, EntriesInOrder
<1>6. job[j].attempts <= c /\ job[j].status \notin Retryable
  BY <1>1, <1>2, <1>3 DEF EntriesInv, RowsFollowEntries, RowFollows
<1>7. ASSUME NEW r \in Requests, req[r].pc \in Queueing, req[r].job = j
      PROVE  bull[j][req[r].att] # "none"
  <2>1. /\ req[r].att \in 1..MaxAttempts
        /\ \A a \in 1..MaxAttempts : a < req[r].att => bull[j][a] = "done"
    BY <1>7 DEF EntriesInv, RetriesInOrder, RetryInOrder
  <2>2. ~(c < req[r].att)
    BY <1>1, <1>2, <1>3, <2>1
  <2>3. req[r].att = c \/ req[r].att < c
    BY <2>1, <2>2
  <2>4. QED
    BY <1>1, <1>2, <1>3, <1>4, <2>1, <2>3
<1>8. QED
  BY <1>1, <1>2, <1>3, <1>4, <1>5, <1>6, <1>7

\* Two slots never hold entries of one job.
LEMMA HeldOnce ==
  ASSUME TypeParts, EntriesInv, NEW v \in Workers, NEW w \in Workers,
         Held(v), Held(w), worker[v].job = worker[w].job
  PROVE  v = w
<1>1. /\ worker[v].att \in 1..MaxAttempts /\ worker[w].att \in 1..MaxAttempts
      /\ bull[worker[w].job][worker[v].att] = "active"
      /\ ~(worker[v].att < worker[w].att) /\ ~(worker[w].att < worker[v].att)
  BY HeldIsLast
<1>2. worker[v].att = worker[w].att
  BY <1>1
<1>3. QED
  BY <1>2 DEF EntriesInv, EntriesHeld

-----------------------------------------------------------------------------
(* What a slot does to them *)

Others(w) == req' = req /\ \A v \in Workers \ {w} : worker'[v] = worker[v]
RowsStay(w) ==
  \A j \in Jobs : /\ job'[j].attempts = job[j].attempts
                  /\ j # worker[w].job => job'[j].status = job[j].status

\* The slot goes on with its entry.
Goes(w) ==
  /\ Held(w) /\ bull' = bull
  /\ worker'[w].pc # "idle" /\ worker'[w].job = worker[w].job /\ worker'[w].att = worker[w].att
  /\ job'[worker[w].job].status \notin Retryable

\* The slot gives its entry back: "done" or, when it dies, "waiting".
GivesBack(w, how) ==
  /\ Held(w) /\ worker'[w].pc = "idle"
  /\ bull' = [bull EXCEPT ![worker[w].job][worker[w].att] = how]
  /\ how = "waiting" => job' = job

LEMMA WorkerMoves ==
  ASSUME TypeParts, EntriesInv, NEW w \in Workers, WorkerStep(w) \/ WorkerLost(w)
  PROVE  /\ Others(w) /\ RowsStay(w)
         /\ \/ Goes(w)
            \/ GivesBack(w, "done")
            \/ GivesBack(w, "waiting") /\ WorkerLost(w)
            \/ \E j \in Jobs, a \in 1..MaxAttempts : Take(w, j, a)
<1>0. /\ worker \in [Workers -> WorkerSlot] /\ job \in [Jobs -> JobRow]
      /\ Held(w) => worker[w].job \in Jobs /\ job[worker[w].job].status \notin Retryable
  BY HeldIsLast DEF TypeParts, RowsOK, WorkersOK
<1>1. CASE \E j \in Jobs, a \in 1..MaxAttempts : Take(w, j, a)
  BY <1>0, <1>1 DEF Take, Others, RowsStay
<1>2. CASE Load(w) \/ Probe(w) \/ Encode(w)
  BY <1>0, <1>2, IdleTypes
     DEF Load, Probe, Encode, At, Release, Others, RowsStay, Goes, GivesBack, Held, WorkerSlot
<1>3. CASE Start(w) \/ Upload(w) \/ Uploaded(w)
  <2>1. CASE Start(w)
    BY <1>0, <2>1 DEF Start, At, Others, RowsStay, Goes, Held, WorkerSlot, JobRow, Retryable
  <2>2. CASE Upload(w) \/ Uploaded(w)
    BY <1>0, <2>2 DEF Upload, Uploaded, At, Others, RowsStay, Goes, Held, WorkerSlot, Retryable
  <2>3. QED
    BY <1>3, <2>1, <2>2
<1>4. CASE Cancelled(w) \/ Fails(w) \/ CommitRefused(w) \/ FailsLate(w)
  <2>1. Held(w) /\ UNCHANGED <<job, bull, req>> /\ \E outcome \in Retryable : ToCatch(w, outcome)
    BY <1>4 DEF Cancelled, Fails, CommitRefused, FailsLate, Held, Retryable
  <2>2. QED
    BY <1>0, <2>1 DEF ToCatch, Others, RowsStay, Goes, WorkerSlot
<1>5. CASE Commit(w)
  BY <1>0, <1>5 DEF Commit, Others, RowsStay, Goes, Held, WorkerSlot, JobRow, Retryable
<1>6. CASE Reread(w) \/ AssociateOutput(w) \/ MarkAssociated(w)
  <2>1. CASE Reread(w)
    BY <1>0, <2>1 DEF Reread, Others, RowsStay, Goes, Held, WorkerSlot
  <2>2. CASE AssociateOutput(w)
    BY <1>0, <2>2 DEF AssociateOutput, At, Others, RowsStay, Goes, Held, WorkerSlot, JobRow
  <2>3. CASE MarkAssociated(w)
    BY <1>0, <2>3 DEF MarkAssociated, At, Others, RowsStay, Goes, Held, WorkerSlot, JobRow
  <2>4. QED
    BY <1>6, <2>1, <2>2, <2>3
<1>7. CASE Settle(w)
  <2>1. /\ Held(w) /\ req' = req /\ RowsStay(w)
        /\ job'[worker[w].job].status = job[worker[w].job].status
    BY <1>0, <1>7 DEF Settle, RowsStay, Held, JobRow
  <2>2. \/ Release(w)
        \/ \E pc \in {"delete", "finish"} : At(w, pc) /\ bull' = bull
    BY <1>7 DEF Settle
  <2>3. QED
    BY <1>0, <2>1, <2>2, IdleTypes DEF Release, At, Others, Goes, GivesBack, WorkerSlot
<1>8. CASE DeleteOriginal(w) \/ DeleteOriginalFails(w) \/ DeletedOriginal(w) \/ CleanUp(w)
  <2>1. /\ Held(w) /\ bull' = bull /\ req' = req
        /\ \E pc \in WorkerPC \ {"idle"} : At(w, pc)
    BY <1>8 DEF DeleteOriginal, DeleteOriginalFails, DeletedOriginal, CleanUp, Held, WorkerPC
  <2>2. RowsStay(w) /\ job'[worker[w].job].status = job[worker[w].job].status
    BY <1>0, <1>8
       DEF DeleteOriginal, DeleteOriginalFails, DeletedOriginal, CleanUp, RowsStay, Held, JobRow
  <2>3. QED
    BY <1>0, <2>1, <2>2 DEF At, Others, Goes, WorkerSlot
<1>9. CASE Finish(w) \/ Record(w) \/ WorkerLost(w)
  BY <1>0, <1>9, IdleTypes
     DEF Finish, Record, WorkerLost, Release, Others, RowsStay, GivesBack, Held, JobRow
<1>10. QED
  BY <1>1, <1>2, <1>3, <1>4, <1>5, <1>6, <1>7, <1>8, <1>9 DEF WorkerStep

\* A slot that gives its entry back disturbs nobody's.
LEMMA GivesBackEntries ==
  ASSUME TypeParts, EntriesInv, NEW w \in Workers, Others(w), RowsStay(w),
         NEW how \in {"done", "waiting"}, GivesBack(w, how)
  PROVE  EntriesInv'
<1>0. PICK j \in Jobs, c \in 1..MaxAttempts :
        /\ j = worker[w].job /\ c = worker[w].att /\ bull[j][c] = "active"
        /\ \A a \in 1..MaxAttempts : a < c => bull[j][a] = "done"
        /\ \A a \in 1..MaxAttempts : c < a => bull[j][a] = "none"
        /\ job[j].attempts <= c /\ job[j].status \notin Retryable
  BY HeldIsLast DEF GivesBack
<1>1. /\ bull \in [Jobs -> [1..MaxAttempts -> BullState]]
      /\ job[j].attempts \in 0..MaxAttempts
      /\ \A r \in Requests : req[r].pc # "idle" => req[r].job \in Jobs
  BY DEF TypeParts, RowsOK, RequestsOK, JobRow
<1>2. /\ bull'[j][c] = how
      /\ \A i \in Jobs, a \in 1..MaxAttempts : i # j \/ a # c => bull'[i][a] = bull[i][a]
  BY <1>0, <1>1 DEF GivesBack
<1>3. EntriesInOrder'
  <2>1. SUFFICES ASSUME NEW i \in Jobs, NEW a \in 1..MaxAttempts, NEW b \in 1..MaxAttempts,
                        a < b, bull'[i][b] # "none"
                 PROVE  bull'[i][a] = "done"
    BY DEF EntriesInOrder
  <2>2. bull[i][b] # "none"
    BY <1>0, <1>2, <2>1
  <2>3. bull[i][a] = "done"
    BY <2>1, <2>2 DEF EntriesInv, EntriesInOrder
  <2>4. QED
    BY <1>0, <1>2, <2>3
<1>4. EntriesHeld'
  <2>1. ASSUME NEW v \in Workers, Held(v)'
        PROVE  /\ v # w /\ worker'[v] = worker[v] /\ Held(v)
               /\ worker[v].job \in Jobs /\ worker[v].att \in 1..MaxAttempts
               /\ bull'[worker[v].job][worker[v].att] = "active"
    <3>1. v # w /\ worker'[v] = worker[v] /\ Held(v)
      BY <2>1 DEF Held, GivesBack, Others
    <3>2. /\ worker[v].job \in Jobs /\ worker[v].att \in 1..MaxAttempts
          /\ bull[worker[v].job][worker[v].att] = "active"
      BY <3>1, HeldIsLast
    <3>3. worker[v].job # j
      BY <1>0, <3>1, HeldOnce DEF GivesBack
    <3>4. QED
      BY <1>2, <3>1, <3>2, <3>3
  <2>2. QED
    BY <2>1 DEF EntriesHeld, EntriesInv
<1>5. RowsFollowEntries'
  <2>1. SUFFICES ASSUME NEW i \in Jobs, NEW a \in 1..MaxAttempts PROVE RowFollows(i, a)'
    BY DEF RowsFollowEntries
  <2>2. RowFollows(i, a)
    BY DEF EntriesInv, RowsFollowEntries
  <2>3. CASE i # j
    BY <1>0, <1>2, <2>2, <2>3 DEF RowFollows, RowsStay
  <2>4. CASE i = j /\ how = "done"
    <3>1. bull'[j][a] \in {"none", "done"} /\ (a <= c => bull'[j][a] = "done")
      BY <1>0, <1>2, <2>4
    <3>2. job'[j].attempts = job[j].attempts
      BY DEF RowsStay
    <3>3. QED
      BY <1>0, <1>1, <2>4, <3>1, <3>2 DEF RowFollows
  <2>5. CASE i = j /\ how = "waiting"
    <3>1. a < job[j].attempts => a < c
      BY <1>0, <1>1
    <3>2. QED
      BY <1>0, <1>2, <2>5, <3>1 DEF RowFollows, GivesBack
  <2>6. QED
    BY <2>3, <2>4, <2>5
<1>6. RetriesInOrder'
  <2>1. SUFFICES ASSUME NEW r \in Requests PROVE RetryInOrder(r)'
    BY DEF RetriesInOrder
  <2>2. req'[r] = req[r] /\ RetryInOrder(r)
    BY DEF Others, EntriesInv, RetriesInOrder
  <2>3. CASE req[r].pc \notin Queueing
    BY <2>2, <2>3 DEF RetryInOrder, Queueing
  <2>4. CASE req[r].pc \in Queueing
    <3>1. req[r].job \in Jobs /\ req[r].att \in 1..MaxAttempts
      BY <1>1, <2>2, <2>4 DEF RetryInOrder, Queueing
    <3>2. \A a \in 1..MaxAttempts : a < req[r].att => bull'[req[r].job][a] = "done"
      BY <1>0, <1>2, <2>2, <2>4, <3>1 DEF RetryInOrder
    <3>3. CASE req[r].job = j
      <4>1. bull'[req[r].job][req[r].att] # "none"
        BY <1>0, <1>2, <2>4, <3>1, <3>3, HeldIsLast DEF GivesBack
      <4>2. QED
        BY <2>2, <2>4, <3>1, <3>2, <4>1 DEF RetryInOrder
    <3>4. CASE req[r].job # j
      BY <1>0, <1>2, <2>2, <2>4, <3>1, <3>2, <3>4 DEF RetryInOrder, RowsStay
    <3>5. QED
      BY <3>3, <3>4
  <2>5. QED
    BY <2>3, <2>4
<1>7. QED
  BY <1>3, <1>4, <1>5, <1>6 DEF EntriesInv

\* So does one that goes on with its entry.
LEMMA GoesEntries ==
  ASSUME TypeParts, EntriesInv, NEW w \in Workers, Others(w), RowsStay(w), Goes(w)
  PROVE  EntriesInv'
<1>1. EntriesInOrder'
  BY DEF EntriesInv, EntriesInOrder, Goes
<1>2. EntriesHeld'
  <2>1. \A v \in Workers : /\ Held(v)' <=> Held(v)
                           /\ worker'[v].job = worker[v].job /\ worker'[v].att = worker[v].att
    BY DEF Goes, Others, Held
  <2>2. QED
    BY <2>1 DEF EntriesInv, EntriesHeld, Goes
<1>3. RowsFollowEntries'
  <2>1. SUFFICES ASSUME NEW i \in Jobs, NEW a \in 1..MaxAttempts PROVE RowFollows(i, a)'
    BY DEF RowsFollowEntries
  <2>2. RowFollows(i, a) /\ job'[i].attempts = job[i].attempts /\ bull' = bull
    BY DEF EntriesInv, RowsFollowEntries, RowsStay, Goes
  <2>3. job'[i].status \in Retryable => job'[i].status = job[i].status
    BY DEF RowsStay, Goes
  <2>4. QED
    BY <2>2, <2>3 DEF RowFollows
<1>4. RetriesInOrder'
  <2>1. SUFFICES ASSUME NEW r \in Requests PROVE RetryInOrder(r)'
    BY DEF RetriesInOrder
  <2>2. req'[r] = req[r] /\ RetryInOrder(r) /\ bull' = bull
    BY DEF Others, EntriesInv, RetriesInOrder, Goes
  <2>3. CASE req[r].pc = "add" /\ req[r].job = worker[w].job
    BY <2>2, <2>3, HeldIsLast DEF RetryInOrder, Queueing, Goes
  <2>4. CASE req[r].pc = "add" /\ req[r].job # worker[w].job
    BY <2>2, <2>4 DEF RetryInOrder, RowsStay, TypeParts, RequestsOK
  <2>5. CASE req[r].pc # "add"
    BY <2>2, <2>5 DEF RetryInOrder
  <2>6. QED
    BY <2>3, <2>4, <2>5
<1>5. QED
  BY <1>1, <1>2, <1>3, <1>4 DEF EntriesInv

\* So does one that takes a waiting entry.
LEMMA TakeEntries ==
  ASSUME TypeParts, EntriesInv, NEW w \in Workers, NEW j \in Jobs, NEW c \in 1..MaxAttempts,
         Take(w, j, c)
  PROVE  EntriesInv'
<1>1. /\ bull \in [Jobs -> [1..MaxAttempts -> BullState]] /\ worker \in [Workers -> WorkerSlot]
      /\ \A r \in Requests : req[r].pc # "idle" => req[r].job \in Jobs
  BY DEF TypeParts, RowsOK, WorkersOK, RequestsOK
<1>2. /\ bull[j][c] = "waiting" /\ bull'[j][c] = "active" /\ UNCHANGED <<job, req>>
      /\ \A i \in Jobs, a \in 1..MaxAttempts : i # j \/ a # c => bull'[i][a] = bull[i][a]
  BY <1>1 DEF Take
<1>3. \A i \in Jobs, a \in 1..MaxAttempts :
        /\ bull'[i][a] = "done" <=> bull[i][a] = "done"
        /\ bull'[i][a] = "none" <=> bull[i][a] = "none"
  BY <1>2
<1>4. EntriesInOrder'
  BY <1>3 DEF EntriesInv, EntriesInOrder
<1>5. EntriesHeld'
  <2>1. /\ worker'[w].pc = "load" /\ worker'[w].job = j /\ worker'[w].att = c
        /\ \A v \in Workers \ {w} : worker'[v] = worker[v]
    BY <1>1 DEF Take, Slot
  <2>2. ASSUME NEW v \in Workers, v # w, Held(v)
        PROVE  /\ worker[v].job \in Jobs /\ worker[v].att \in 1..MaxAttempts
               /\ ~(worker[v].job = j /\ worker[v].att = c)
               /\ bull'[worker[v].job][worker[v].att] = "active"
    BY <1>2, <2>2, HeldIsLast
  <2>3. QED
    BY <1>2, <2>1, <2>2 DEF EntriesInv, EntriesHeld, Held
<1>6. RowsFollowEntries'
  <2>1. job[j].status \notin Retryable
    BY <1>2 DEF EntriesInv, RowsFollowEntries, RowFollows
  <2>2. SUFFICES ASSUME NEW i \in Jobs, NEW a \in 1..MaxAttempts PROVE RowFollows(i, a)'
    BY DEF RowsFollowEntries
  <2>3. RowFollows(i, a)
    BY DEF EntriesInv, RowsFollowEntries
  <2>4. QED
    BY <1>2, <1>3, <2>1, <2>3 DEF RowFollows
<1>7. RetriesInOrder'
  <2>1. SUFFICES ASSUME NEW r \in Requests PROVE RetryInOrder(r)'
    BY DEF RetriesInOrder
  <2>2. RetryInOrder(r) /\ UNCHANGED <<job, req>>
    BY <1>2 DEF EntriesInv, RetriesInOrder
  <2>3. QED
    BY <1>1, <1>3, <2>2 DEF RetryInOrder, Queueing
<1>8. QED
  BY <1>4, <1>5, <1>6, <1>7 DEF EntriesInv

-----------------------------------------------------------------------------
(* What a request does to them *)

\* A request that neither adds an entry nor queues a job has its own next
\* statement to account for.
LEMMA RequestKeepsEntries ==
  ASSUME TypeParts, EntriesInv, NEW r \in Requests, UNCHANGED <<bull, worker>>,
         \A q \in Requests \ {r} : req'[q] = req[q],
         \A j \in Jobs : job'[j].attempts = job[j].attempts /\ job'[j].status = job[j].status,
         RetryInOrder(r)'
  PROVE  EntriesInv'
<1>1. EntriesInOrder' /\ EntriesHeld' /\ RowsFollowEntries'
  BY DEF EntriesInv, EntriesInOrder, EntriesHeld, Held, RowsFollowEntries, RowFollows
<1>2. ASSUME NEW q \in Requests, q # r PROVE RetryInOrder(q)'
  <2>1. /\ RetryInOrder(q) /\ req'[q] = req[q]
        /\ req[q].pc # "idle" => req[q].job \in Jobs
    BY <1>2 DEF EntriesInv, RetriesInOrder, TypeParts, RequestsOK
  <2>2. QED
    BY <2>1 DEF RetryInOrder
<1>3. QED
  BY <1>1, <1>2 DEF EntriesInv, RetriesInOrder

\* A job that is queued has no entry of a later attempt: its row is new, or
\* the attempts before the one it now counts have ended.
LEMMA RequestQueues ==
  ASSUME TypeParts, EntriesInv, NEW r \in Requests, NEW j \in Jobs, NEW c \in 1..MaxAttempts,
         UNCHANGED <<bull, worker>>,
         \A q \in Requests \ {r} : req'[q] = req[q],
         req'[r].pc = "add", req'[r].job = j, req'[r].att = c,
         \A a \in 1..MaxAttempts : a < c => bull[j][a] = "done",
         job'[j].status = "QUEUED", job'[j].attempts = c,
         \A i \in Jobs \ {j} : job'[i] = job[i]
  PROVE  EntriesInv'
<1>1. EntriesInOrder' /\ EntriesHeld'
  BY DEF EntriesInv, EntriesInOrder, EntriesHeld, Held
<1>2. RowsFollowEntries'
  <2>1. SUFFICES ASSUME NEW i \in Jobs, NEW a \in 1..MaxAttempts PROVE RowFollows(i, a)'
    BY DEF RowsFollowEntries
  <2>2. RowFollows(i, a)
    BY DEF EntriesInv, RowsFollowEntries
  <2>3. QED
    BY <2>2 DEF RowFollows, Retryable
<1>3. ASSUME NEW q \in Requests, q # r PROVE RetryInOrder(q)'
  <2>1. /\ RetryInOrder(q) /\ req'[q] = req[q]
        /\ req[q].pc # "idle" => req[q].job \in Jobs
    BY <1>3 DEF EntriesInv, RetriesInOrder, TypeParts, RequestsOK
  <2>2. QED
    BY <2>1 DEF RetryInOrder
<1>4. RetryInOrder(r)'
  BY DEF RetryInOrder, TakingBack
<1>5. QED
  BY <1>1, <1>2, <1>3, <1>4 DEF EntriesInv, RetriesInOrder

\* A request's step keeps the entries in order.
LEMMA RequestEntries ==
  ASSUME EntriesFollowed, TypeParts, OutputInv, EntriesInv,
         NEW r \in Requests, RequestBegins(r) \/ RequestStep(r) \/ RequestLost(r)
  PROVE  EntriesInv'
<1>0. /\ job \in [Jobs -> JobRow] /\ req \in [Requests -> RequestSlot]
      /\ bull \in [Jobs -> [1..MaxAttempts -> BullState]]
      /\ req[r].pc # "idle" => req[r].job \in Jobs
      /\ RetryInOrder(r) /\ worker' = worker /\ 1 \in 1..MaxAttempts
  BY RequestFrame, BoundAssumption DEF TypeParts, RowsOK, RequestsOK, EntriesInv, RetriesInOrder
<1>1. ASSUME UNCHANGED bull, \A q \in Requests \ {r} : req'[q] = req[q],
             \A j \in Jobs : job'[j].attempts = job[j].attempts /\ job'[j].status = job[j].status,
             req'[r].pc \notin TakingBack \cup Queueing
      PROVE  EntriesInv'
  <2>1. RetryInOrder(r)'
    BY <1>1 DEF RetryInOrder, Queueing
  <2>2. QED
    BY <1>0, <1>1, <2>1, RequestKeepsEntries
<1>2. CASE RequestBegins(r)
  <2>1. PICK j \in Jobs : RequestBegins(r)!(j)
    BY <1>2 DEF RequestBegins
  <2>2. CASE \E t \in Targets \cup {Null}, keep \in Retain : Enqueue(r, j, t, keep)
    <3>1. /\ UNCHANGED bull /\ \A q \in Requests \ {r} : req'[q] = req[q]
          /\ req'[r].pc = "add" /\ req'[r].job = j /\ req'[r].att = 1
          /\ job'[j].status = "QUEUED" /\ job'[j].attempts = 1
          /\ \A i \in Jobs \ {j} : job'[i] = job[i]
      BY <1>0, <2>2 DEF Enqueue, Pending, NewJob, RowsOnly
    <3>2. \A a \in 1..MaxAttempts : a < 1 => bull[j][a] = "done"
      OBVIOUS
    <3>3. QED
      BY <1>0, <3>1, <3>2, RequestQueues
  <2>3. CASE RetryCheck(r, j)
    <3>1. /\ UNCHANGED <<bull, job>> /\ \A q \in Requests \ {r} : req'[q] = req[q]
          /\ req'[r].pc = "requeue" /\ req'[r].job = j /\ req'[r].att = job[j].attempts + 1
          /\ job[j].status \in Retryable /\ job[j].attempts + 1 <= MaxAttempts
          /\ job[j].attempts \in 0..MaxAttempts
      BY <1>0, <2>3 DEF RetryCheck, Pending, JobOnly, RowsOnly, JobRow
    <3>2. job[j].attempts + 1 \in 1..MaxAttempts
      BY <3>1, BoundAssumption
    <3>3. \A a \in 1..MaxAttempts : a < job[j].attempts + 1 => bull[j][a] = "done"
      BY <3>1 DEF EntriesInv, RowsFollowEntries, RowFollows
    <3>4. RetryInOrder(r)'
      BY <3>1, <3>2, <3>3 DEF RetryInOrder, TakingBack
    <3>5. QED
      BY <1>0, <3>1, <3>4, RequestKeepsEntries
  <2>4. CASE CancelCheck(r, j)
    BY <2>4 DEF CancelCheck, EntriesFollowed
  <2>5. CASE \/ \E t \in Targets \cup {Null}, keep \in Retain \cup {Null} : ConfigureCheck(r, j, t, keep)
             \/ \E t \in Targets : AssociateCheck(r, j, t)
    BY <1>0, <1>1, <2>5
       DEF ConfigureCheck, AssociateCheck, Pending, JobOnly, RowsOnly, TakingBack, Queueing
  <2>6. QED
    BY <2>1, <2>2, <2>3, <2>4, <2>5
<1>3. CASE Requeue(r)
  <2>1. PICK j \in Jobs : j = req[r].job
    BY <1>0, <1>3 DEF Requeue
  <2>2. /\ req[r].att \in 1..MaxAttempts
        /\ \A a \in 1..MaxAttempts : a < req[r].att => bull[j][a] = "done"
    BY <1>0, <1>3, <2>1 DEF Requeue, RetryInOrder, Queueing
  <2>3. /\ UNCHANGED bull /\ \A q \in Requests \ {r} : req'[q] = req[q]
        /\ req'[r].pc = "add" /\ req'[r].job = j /\ req'[r].att = req[r].att
        /\ job'[j].status = "QUEUED" /\ job'[j].attempts = req[r].att
        /\ \A i \in Jobs \ {j} : job'[i] = job[i]
    BY <1>0, <1>3, <2>1 DEF Requeue, Goto, RowsOnly, JobRow, RequestSlot
  <2>4. QED
    BY <1>0, <2>2, <2>3, RequestQueues
<1>4. CASE QueueAdd(r)
  <2>1. PICK j \in Jobs, c \in 1..MaxAttempts :
          /\ j = req[r].job /\ c = req[r].att
          /\ \A a \in 1..MaxAttempts : a < c => bull[j][a] = "done"
          /\ bull[j][c] = "none" => job[j].status = "QUEUED"
    BY <1>0, <1>4 DEF QueueAdd, RetryInOrder, Queueing
  <2>2. /\ UNCHANGED <<job, worker>> /\ \A q \in Requests \ {r} : req'[q] = req[q]
        /\ req'[r].pc = "link"
        /\ bull' = IF bull[j][c] = "none" THEN [bull EXCEPT ![j][c] = "waiting"] ELSE bull
    BY <1>0, <1>4, <2>1 DEF QueueAdd, Goto, RequestSlot
  <2>3. CASE bull[j][c] # "none"
    BY <1>1, <2>2, <2>3 DEF TakingBack, Queueing
  <2>4. CASE bull[j][c] = "none"
    <3>1. /\ bull'[j][c] = "waiting"
          /\ \A i \in Jobs, a \in 1..MaxAttempts : i # j \/ a # c => bull'[i][a] = bull[i][a]
      BY <1>0, <2>2, <2>4
    <3>2. \A i \in Jobs, a \in 1..MaxAttempts :
            /\ bull'[i][a] = "done" <=> bull[i][a] = "done"
            /\ bull'[i][a] = "active" <=> bull[i][a] = "active"
            /\ bull'[i][a] = "none" => bull[i][a] = "none"
      BY <2>4, <3>1
    <3>3. EntriesInOrder'
      <4>1. SUFFICES ASSUME NEW i \in Jobs, NEW a \in 1..MaxAttempts, NEW b \in 1..MaxAttempts,
                            a < b, bull'[i][b] # "none"
                     PROVE  bull[i][a] = "done"
        BY <3>2 DEF EntriesInOrder
      <4>2. CASE i = j /\ b = c
        BY <2>1, <4>1, <4>2
      <4>3. CASE i # j \/ b # c
        BY <3>1, <4>1, <4>3 DEF EntriesInv, EntriesInOrder
      <4>4. QED
        BY <4>2, <4>3
    <3>4. EntriesHeld'
      <4>1. \A w \in Workers : Held(w) => worker[w].job \in Jobs /\ worker[w].att \in 1..MaxAttempts
        BY HeldIsLast
      <4>2. QED
        BY <2>2, <3>2, <4>1 DEF EntriesInv, EntriesHeld, Held
    <3>5. RowsFollowEntries'
      <4>1. SUFFICES ASSUME NEW i \in Jobs, NEW a \in 1..MaxAttempts PROVE RowFollows(i, a)'
        BY DEF RowsFollowEntries
      <4>2. RowFollows(i, a) /\ job' = job
        BY <2>2 DEF EntriesInv, RowsFollowEntries
      <4>3. job[j].status \notin Retryable
        BY <2>1, <2>4 DEF Retryable
      <4>4. QED
        BY <3>1, <3>2, <4>2, <4>3 DEF RowFollows
    <3>6. RetriesInOrder'
      <4>1. SUFFICES ASSUME NEW q \in Requests PROVE RetryInOrder(q)'
        BY DEF RetriesInOrder
      <4>2. RetryInOrder(q) /\ (req[q].pc # "idle" => req[q].job \in Jobs)
        BY DEF EntriesInv, RetriesInOrder, TypeParts, RequestsOK
      <4>3. CASE q = r
        BY <2>2, <4>3 DEF RetryInOrder, TakingBack, Queueing
      <4>4. CASE q # r
        BY <2>2, <3>2, <4>2, <4>4 DEF RetryInOrder, Queueing
      <4>5. QED
        BY <4>3, <4>4
    <3>7. QED
      BY <3>3, <3>4, <3>5, <3>6 DEF EntriesInv
  <2>5. QED
    BY <2>3, <2>4
<1>5. CASE QueueLink(r)
  BY <1>0, <1>1, <1>5, IdleTypes
     DEF QueueLink, Reply, JobOnly, RowsOnly, JobRow, TakingBack, Queueing
<1>6. CASE QueueAddFails(r)
  BY <1>6 DEF QueueAddFails, EntriesFollowed
<1>7. CASE \/ QueueAddFailedJob(r) \/ QueueAddFailedMedia(r)
           \/ CancelRemove(r) \/ CancelMark(r) \/ CancelFlag(r)
  BY <1>0, <1>7
     DEF QueueAddFailedJob, QueueAddFailedMedia, CancelRemove, CancelMark, CancelFlag,
         RetryInOrder, TakingBack
<1>8. CASE ConfigureWrite(r) \/ CountReferences(r)
  <2>1. /\ UNCHANGED bull
        /\ \A j \in Jobs : job'[j].attempts = job[j].attempts /\ job'[j].status = job[j].status
    BY <1>0, <1>8 DEF ConfigureWrite, CountReferences, JobOnly, RowsOnly, JobRow
  <2>2. Reply(r) \/ \E pc \in {"assocRead", "count", "delete"} : Goto(r, pc)
    BY <1>8 DEF ConfigureWrite, CountReferences
  <2>3. /\ \A q \in Requests \ {r} : req'[q] = req[q]
        /\ req'[r].pc \notin TakingBack \cup Queueing
    BY <1>0, <2>2, IdleTypes DEF Reply, Goto, RequestSlot, TakingBack, Queueing
  <2>4. QED
    BY <1>1, <2>1, <2>3
<1>9. CASE AssociateRead(r) \/ AssociateRefused(r) \/ Associate(r)
  <2>1. /\ UNCHANGED bull
        /\ \A j \in Jobs : job'[j].attempts = job[j].attempts /\ job'[j].status = job[j].status
    <3>1. CASE AssociateRead(r) \/ AssociateRefused(r)
      BY <3>1 DEF AssociateRead, AssociateRefused, JobOnly, RowsOnly
    <3>2. CASE Associate(r)
      BY <1>0, <3>2 DEF Associate, JobRow
    <3>3. QED
      BY <1>9, <3>1, <3>2
  <2>2. Reply(r) \/ \E pc \in {"assoc", "after"} : Goto(r, pc)
    BY <1>9 DEF AssociateRead, AssociateRefused, Associate
  <2>3. /\ \A q \in Requests \ {r} : req'[q] = req[q]
        /\ req'[r].pc \notin TakingBack \cup Queueing
    BY <1>0, <2>2, IdleTypes DEF Reply, Goto, RequestSlot, TakingBack, Queueing
  <2>4. QED
    BY <1>1, <2>1, <2>3
<1>10. CASE RemoveOriginal(r) \/ RemoveOriginalFails(r) \/ RemovedOriginal(r) \/ RequestLost(r)
  BY <1>0, <1>1, <1>10, IdleTypes
     DEF RemoveOriginal, RemoveOriginalFails, RemovedOriginal, RequestLost, Reply, Goto,
         JobOnly, RowsOnly, RequestSlot, TakingBack, Queueing
<1>11. QED
  BY <1>2, <1>3, <1>4, <1>5, <1>6, <1>7, <1>8, <1>9, <1>10 DEF RequestStep

\* EntriesInv is inductive.
LEMMA NextEntries ==
  EntriesFollowed /\ TypeInv /\ OutputInv /\ EntriesInv /\ [Next]_vars => EntriesInv'
<1>1. ASSUME EntriesInv, UNCHANGED vars PROVE EntriesInv'
  BY <1>1 DEF vars, EntriesInv, EntriesInOrder, EntriesHeld, Held, RowsFollowEntries, RowFollows,
              RetriesInOrder, RetryInOrder
<1>2. ASSUME TypeParts, EntriesInv, NEW w \in Workers, WorkerStep(w) \/ WorkerLost(w)
      PROVE  EntriesInv'
  BY <1>2, WorkerMoves, GoesEntries, GivesBackEntries, TakeEntries
<1>3. ASSUME EntriesFollowed, TypeInv, OutputInv, EntriesInv, Next PROVE EntriesInv'
  BY <1>2, <1>3, TypeInvParts, RequestEntries DEF Next
<1>4. QED
  BY <1>1, <1>3

LEMMA InitEntries == Init => EntriesInv
  BY DEF Init, EntriesInv, EntriesInOrder, EntriesHeld, Held, RowsFollowEntries, RowFollows,
         RetriesInOrder, RetryInOrder, IdleWorker, IdleRequest, Slot, Pending, NoJob,
         Retryable, Queueing, TakingBack

\* Two slots never process one job, though a worker that dies has its entry
\* delivered to another, unless an administrator cancels it or the queue loses
\* what it has accepted: then a retry adds an entry beside one that is still
\* in the queue.
THEOREM RunnersApart == EntriesFollowed /\ Spec => []OneRunner
<1>1. TypeInv /\ EntriesInv => OneRunner
  BY TypeInvParts, HeldOnce DEF OneRunner, Running, Held
<1>2. ASSUME EntriesFollowed PROVE Spec => []OneRunner
  <2>1. TypeInv /\ OutputInv /\ EntriesInv /\ [Next]_vars => EntriesInv'
    BY <1>2, NextEntries
  <2>2. QED
    BY <1>1, <2>1, InitEntries, TypeInvariance, OutputInvariance, PTL DEF Spec
<1>3. QED
  BY <1>2

-----------------------------------------------------------------------------
(* What a content plays is whole *)

\* A job is done when its output is registered and it is shown as completed.
Done(j) == job[j].output /\ job[j].status = "COMPLETED"

Whole(j) == output[j] = 1..Files(j) /\ torn[j] = {}

Catch == {"clean", "record"}
Caught(j) == \E w \in Workers : worker[w].job = j /\ worker[w].pc \in Catch

\* A job is Complete when its files are whole, unless its run has failed after
\* the registration, and no run of it is to come.
Complete(j) ==
  /\ Whole(j) \/ Caught(j)
  /\ \A a \in 1..MaxAttempts : bull[j][a] # "waiting"
  /\ \A r \in Requests : req[r].pc \in Queueing /\ req[r].job = j => bull[j][req[r].att] # "none"
  /\ \A w \in Workers : Held(w) /\ worker[w].job = j => worker[w].pc \in PastCommit \cup Catch

FilesNamed == \A j \in Jobs : output[j] \subseteq 1..Files(j) /\ torn[j] \subseteq 1..Files(j)

\* A run has stored what it counts, and all of it when it registers the output.
RunStored(w) ==
  /\ worker[w].pc \in {"upload", "put", "commit"}
       => 1..worker[w].up \subseteq output[worker[w].job] \ torn[worker[w].job]
  /\ worker[w].pc = "put" => worker[w].up + 1 \in output[worker[w].job]
  /\ worker[w].pc = "commit" => worker[w].up = Files(worker[w].job)

FilesInv ==
  /\ FilesNamed
  /\ \A w \in Workers : RunStored(w)
  /\ \A j \in Jobs : Done(j) => Complete(j)

\* A slot that stores and removes nothing, and completes no job, keeps FilesInv
\* when it does not come to upload, and stays past the registration once it is,
\* be it in the catch block, which it leaves only with the job failed.
LEMMA KeepsFiles ==
  ASSUME TypeParts, EntriesInv, FilesInv, NEW w \in Workers, Held(w),
         Others(w), UNCHANGED <<output, torn>>,
         \A j \in Jobs : Done(j)' => Done(j),
         \/ Goes(w) /\ RunStored(w)'
            /\ (worker[w].pc \in PastCommit => worker'[w].pc \in PastCommit \cup Catch)
            /\ (worker[w].pc \in Catch => worker'[w].pc \in Catch)
         \/ GivesBack(w, "done")
            /\ (worker[w].pc \in Catch => \A j \in Jobs : j = worker[w].job => ~Done(j)')
  PROVE  FilesInv'
<1>1. PICK i \in Jobs : i = worker[w].job
  BY HeldIsLast
<1>2. /\ bull \in [Jobs -> [1..MaxAttempts -> BullState]]
      /\ \A r \in Requests : req[r].pc # "idle" => req[r].job \in Jobs
  BY DEF TypeParts, RowsOK, RequestsOK
<1>3. \A j \in Jobs, a \in 1..MaxAttempts : bull'[j][a] = bull[j][a] \/ bull'[j][a] = "done"
  <2>1. bull' = bull \/ bull' = [bull EXCEPT ![worker[w].job][worker[w].att] = "done"]
    BY DEF Goes, GivesBack
  <2>2. PICK c \in 1..MaxAttempts : c = worker[w].att
    BY HeldIsLast
  <2>3. bull' = bull \/ bull' = [bull EXCEPT ![i][c] = "done"]
    BY <1>1, <2>1, <2>2
  <2>4. CASE bull' = bull
    BY <2>4
  <2>5. CASE bull' = [bull EXCEPT ![i][c] = "done"]
    BY <1>2, <2>5
  <2>6. QED
    BY <2>3, <2>4, <2>5
<1>4. FilesNamed'
  BY DEF FilesInv, FilesNamed, Files
<1>5. ASSUME NEW v \in Workers PROVE RunStored(v)'
  <2>1. CASE v = w
    BY <2>1 DEF GivesBack, RunStored
  <2>2. CASE v # w
    BY <2>2 DEF Others, FilesInv, RunStored, Files
  <2>3. QED
    BY <2>1, <2>2
<1>6. ASSUME NEW j \in Jobs, Done(j)' PROVE Complete(j)'
  <2>1. Complete(j)
    BY <1>6 DEF FilesInv
  <2>2. Whole(j)' \/ Caught(j)'
    <3>1. CASE Whole(j)
      BY <3>1 DEF Whole, Files
    <3>2. CASE Caught(j)
      <4>1. PICK v \in Workers : worker[v].job = j /\ worker[v].pc \in Catch
        BY <3>2 DEF Caught
      <4>2. CASE v = w
        <5>1. worker'[w].job = j /\ worker'[w].pc \in Catch
          BY <1>6, <4>1, <4>2 DEF Goes
        <5>2. QED
          BY <5>1 DEF Caught
      <4>3. CASE v # w
        BY <4>1, <4>3 DEF Others, Caught
      <4>4. QED
        BY <4>2, <4>3
    <3>3. QED
      BY <2>1, <3>1, <3>2 DEF Complete
  <2>3. \A a \in 1..MaxAttempts : bull'[j][a] # "waiting"
    BY <1>3, <2>1 DEF Complete
  <2>4. \A r \in Requests : req'[r].pc \in Queueing /\ req'[r].job = j => bull'[j][req'[r].att] # "none"
    <3>1. \A r \in Requests : req[r].pc \in Queueing => req[r].att \in 1..MaxAttempts
      BY DEF EntriesInv, RetriesInOrder, RetryInOrder
    <3>2. QED
      BY <1>3, <2>1, <3>1 DEF Complete, Others
  <2>5. \A v \in Workers : Held(v)' /\ worker'[v].job = j => worker'[v].pc \in PastCommit \cup Catch
    BY <2>1 DEF Complete, Others, Held, Goes, GivesBack
  <2>6. QED
    BY <2>2, <2>3, <2>4, <2>5 DEF Complete
<1>7. QED
  BY <1>4, <1>5, <1>6 DEF FilesInv

\* A worker's step keeps FilesInv.
LEMMA WorkerFiles ==
  ASSUME NoCrash, EntriesFollowed, TypeParts, OutputInv, EntriesInv, FilesInv,
         NEW w \in Workers, WorkerStep(w) \/ WorkerLost(w)
  PROVE  FilesInv'
<1>0. /\ worker \in [Workers -> WorkerSlot] /\ job \in [Jobs -> JobRow]
      /\ output \in [Jobs -> SUBSET (1..NFiles)] /\ torn \in [Jobs -> SUBSET (1..NFiles)]
      /\ SlotNamed(worker[w]) /\ RunStored(w) /\ WorkerStep(w)
  BY DEF TypeParts, RowsOK, WorkersOK, FilesInv, WorkerLost, NoCrash
<1>1. CASE \E j \in Jobs, a \in 1..MaxAttempts : Take(w, j, a)
  <2>1. PICK j \in Jobs, a \in 1..MaxAttempts : Take(w, j, a)
    BY <1>1
  <2>2. /\ UNCHANGED <<job, output, torn, req>> /\ worker'[w].pc = "load" /\ worker'[w].job = j
        /\ \A v \in Workers \ {w} : worker'[v] = worker[v]
        /\ bull[j][a] = "waiting" /\ bull' = [bull EXCEPT ![j][a] = "active"]
    BY <1>0, <2>1 DEF Take, Slot
  <2>3. ~Done(j)
    BY <2>2 DEF FilesInv, Complete
  <2>4. \A i \in Jobs : i # j => bull'[i] = bull[i]
    BY <2>2 DEF TypeParts, RowsOK
  <2>5. \A v \in Workers : RunStored(v)'
    BY <2>2 DEF FilesInv, RunStored, Files
  <2>6. ASSUME NEW i \in Jobs, Done(i)' PROVE Complete(i)'
    <3>1. i # j /\ Complete(i) /\ bull'[i] = bull[i]
      BY <2>2, <2>3, <2>4, <2>6 DEF FilesInv, Done
    <3>2. Whole(i)' \/ Caught(i)'
      <4>1. worker[w].pc = "idle"
        BY <2>1 DEF Take
      <4>2. QED
        BY <2>2, <3>1, <4>1 DEF Complete, Whole, Caught, Catch, Files
    <3>3. QED
      BY <2>2, <3>1, <3>2 DEF Complete, Held
  <2>7. QED
    BY <2>2, <2>5, <2>6 DEF FilesInv, FilesNamed, Files
<1>2. CASE Held(w)
  <2>0. PICK i \in Jobs : i = worker[w].job
    BY <1>2, HeldIsLast
  <2>1. /\ Others(w) /\ RowsStay(w)
        /\ Goes(w) \/ GivesBack(w, "done")
    BY <1>0, <1>2, WorkerMoves DEF Held, Take, WorkerLost, NoCrash, TypeParts, RowsOK
  <2>2. worker[w].pc \notin PastCommit \cup Catch => ~Done(i)
    BY <1>2, <2>0 DEF FilesInv, Complete
  <2>3. CASE \/ Load(w) \/ Start(w) \/ Probe(w) \/ Encode(w)
             \/ Cancelled(w) \/ Fails(w) \/ CommitRefused(w)
    <3>1. /\ worker[w].pc \notin PastCommit \cup Catch /\ UNCHANGED <<output, torn>>
          /\ \A j \in Jobs : Done(j)' => Done(j)
      <4>1. CASE Load(w) \/ Start(w) \/ Probe(w) \/ Encode(w)
        BY <1>0, <4>1 DEF Load, Start, Probe, Encode, PastCommit, Catch, JobRow, Done
      <4>2. CASE Cancelled(w) \/ Fails(w) \/ CommitRefused(w)
        BY <1>0, <4>2 DEF Cancelled, Fails, CommitRefused, PastCommit, Catch, JobRow, Done
      <4>3. QED
        BY <2>3, <4>1, <4>2
    <3>2. /\ worker'[w].pc \notin {"upload", "put", "commit"} \/ Encode(w)
      BY <1>0, <2>3, IdleTypes
         DEF Load, Start, Probe, Cancelled, Fails, CommitRefused,
             At, ToCatch, Release, WorkerSlot
    <3>3. RunStored(w)'
      <4>1. CASE Encode(w)
        <5>1. worker'[w].pc = "upload" /\ worker'[w].up = 0
          BY <1>0, <4>1 DEF Encode, At, SlotNamed, WorkerSlot
        <5>2. QED
          BY <5>1 DEF RunStored
      <4>2. CASE worker'[w].pc \notin {"upload", "put", "commit"}
        BY <4>2 DEF RunStored
      <4>3. QED
        BY <3>2, <4>1, <4>2
    <3>4. QED
      BY <1>2, <2>1, <3>1, <3>3, KeepsFiles
  <2>4. CASE \/ Reread(w) \/ AssociateOutput(w) \/ MarkAssociated(w) \/ FailsLate(w) \/ Settle(w)
             \/ DeleteOriginal(w) \/ DeleteOriginalFails(w) \/ DeletedOriginal(w) \/ Finish(w)
    <3>1. worker[w].pc \in PastCommit
      BY <2>4 DEF Reread, AssociateOutput, MarkAssociated, FailsLate, Settle, DeleteOriginal,
                  DeleteOriginalFails, DeletedOriginal, Finish, PastCommit
    <3>2. /\ worker'[w].pc \in PastCommit \cup {"clean", "idle"} /\ UNCHANGED <<output, torn>>
      <4>1. CASE Reread(w) \/ AssociateOutput(w) \/ MarkAssociated(w) \/ FailsLate(w)
        BY <1>0, <4>1
           DEF Reread, AssociateOutput, MarkAssociated, FailsLate, ToCatch, At, WorkerSlot, PastCommit
      <4>2. CASE Settle(w) \/ Finish(w)
        BY <1>0, <4>2, IdleTypes DEF Settle, Finish, At, Release, WorkerSlot, PastCommit
      <4>3. CASE DeleteOriginal(w) \/ DeleteOriginalFails(w) \/ DeletedOriginal(w)
        BY <1>0, <4>3
           DEF DeleteOriginal, DeleteOriginalFails, DeletedOriginal, At, WorkerSlot, PastCommit
      <4>4. QED
        BY <2>4, <4>1, <4>2, <4>3
    <3>3. \A j \in Jobs : Done(j)' => Done(j)
      <4>1. CASE Reread(w) \/ AssociateOutput(w) \/ MarkAssociated(w) \/ FailsLate(w)
        BY <1>0, <4>1 DEF Reread, AssociateOutput, MarkAssociated, FailsLate, JobRow, Done
      <4>2. CASE Settle(w) \/ Finish(w)
        BY <1>0, <4>2 DEF Settle, Finish, JobRow, Done
      <4>3. CASE DeleteOriginal(w) \/ DeleteOriginalFails(w) \/ DeletedOriginal(w)
        BY <1>0, <4>3 DEF DeleteOriginal, DeleteOriginalFails, DeletedOriginal, JobRow, Done
      <4>4. QED
        BY <2>4, <4>1, <4>2, <4>3
    <3>4. RunStored(w)'
      BY <3>2 DEF RunStored, PastCommit
    <3>5. \/ Goes(w) /\ worker'[w].pc \in PastCommit \cup Catch
          \/ GivesBack(w, "done")
      BY <2>1, <3>2 DEF Goes, Catch
    <3>6. QED
      BY <1>2, <2>1, <3>1, <3>2, <3>3, <3>4, <3>5, KeepsFiles DEF PastCommit, Catch
  <2>5. CASE Upload(w) \/ Uploaded(w)
    <3>1. /\ worker[w].pc \in {"upload", "put"} /\ UNCHANGED <<job, bull>>
          /\ worker[w].up \in Nat /\ worker[w].up < Files(i) /\ Files(i) \in Nat
          /\ worker'[w].job = i
      BY <1>0, <2>0, <2>5, BoundAssumption DEF Upload, Uploaded, At, WorkerSlot, SlotNamed, Files
    <3>2. ~Done(i)
      BY <2>2, <3>1 DEF PastCommit, Catch
    <3>3. \A j \in Jobs \ {i} : output'[j] = output[j] /\ torn'[j] = torn[j]
      BY <1>0, <2>0, <2>5 DEF Upload, Uploaded
    <3>4. FilesNamed' /\ RunStored(w)'
      <4>1. CASE Upload(w)
        <5>1. /\ worker[w].pc = "upload"
              /\ output'[i] = output[i] \cup {worker[w].up + 1}
              /\ torn'[i] = torn[i] \cup {worker[w].up + 1}
              /\ worker'[w].up = worker[w].up /\ worker'[w].pc = "put"
          BY <1>0, <2>0, <4>1 DEF Upload, At, WorkerSlot
        <5>2. FilesNamed'
          BY <3>1, <3>3, <5>1 DEF FilesInv, FilesNamed, Files
        <5>3. 1..worker[w].up \subseteq output'[i] \ torn'[i]
          <6>1. 1..worker[w].up \subseteq output[i] \ torn[i]
            BY <1>0, <2>0, <5>1 DEF RunStored
          <6>2. worker[w].up + 1 \notin 1..worker[w].up
            BY <3>1
          <6>3. QED
            BY <5>1, <6>1, <6>2
        <5>4. QED
          BY <3>1, <5>1, <5>2, <5>3 DEF RunStored, Files
      <4>2. CASE Uploaded(w)
        <5>1. /\ output'[i] = output[i] /\ torn'[i] = torn[i] \ {worker[w].up + 1}
              /\ worker[w].pc = "put"
              /\ worker'[w].up = worker[w].up + 1
              /\ worker'[w].pc = IF worker[w].up + 1 = Files(i) THEN "commit" ELSE "upload"
          BY <1>0, <2>0, <4>2 DEF Uploaded, WorkerSlot
        <5>2. FilesNamed'
          BY <3>3, <5>1 DEF FilesInv, FilesNamed, Files
        <5>3. worker[w].up + 1 \in output[i]
          BY <1>0, <2>0, <5>1 DEF RunStored
        <5>4. 1..(worker[w].up + 1) \subseteq output'[i] \ torn'[i]
          BY <1>0, <2>0, <3>1, <5>1, <5>3 DEF RunStored
        <5>5. QED
          BY <3>1, <5>1, <5>2, <5>4 DEF RunStored, Files
      <4>3. QED
        BY <2>5, <4>1, <4>2
    <3>5. ASSUME NEW v \in Workers, v # w PROVE RunStored(v)'
      <4>1. worker'[v] = worker[v] /\ RunStored(v)
        BY <2>1, <3>5 DEF Others, FilesInv
      <4>2. CASE Held(v)
        <5>1. worker[v].job \in Jobs \ {i}
          BY <1>2, <2>0, <3>5, <4>2, HeldIsLast, HeldOnce
        <5>2. QED
          BY <3>3, <4>1, <5>1 DEF RunStored, Files
      <4>3. CASE ~Held(v)
        BY <4>1, <4>3 DEF RunStored, Held
      <4>4. QED
        BY <4>2, <4>3
    <3>6. ASSUME NEW j \in Jobs, Done(j)' PROVE Complete(j)'
      <4>1. j # i /\ Complete(j) /\ UNCHANGED <<job, bull, req>>
            /\ output'[j] = output[j] /\ torn'[j] = torn[j]
        BY <2>1, <3>1, <3>2, <3>3, <3>6 DEF FilesInv, Others, Done
      <4>2. Whole(j)' \/ Caught(j)'
        BY <2>0, <2>1, <4>1 DEF Complete, Whole, Caught, Others, Files
      <4>3. \A v \in Workers : Held(v)' /\ worker'[v].job = j => worker'[v].pc \in PastCommit \cup Catch
        BY <2>1, <3>1, <4>1 DEF Complete, Others, Held
      <4>4. QED
        BY <4>1, <4>2, <4>3 DEF Complete
    <3>7. QED
      BY <3>4, <3>5, <3>6 DEF FilesInv
  <2>6. CASE Commit(w)
    <3>1. /\ worker[w].pc = "commit" /\ UNCHANGED <<bull, output, torn>>
          /\ \A j \in Jobs \ {i} : job'[j] = job[j]
          /\ worker'[w].pc = "reread" /\ worker'[w].job = i
      BY <1>0, <2>0, <2>6 DEF Commit, WorkerSlot, JobRow
    <3>2. ASSUME NEW v \in Workers PROVE RunStored(v)'
      <4>1. CASE v = w
        BY <3>1, <4>1 DEF RunStored
      <4>2. CASE v # w
        BY <2>1, <3>1, <4>2 DEF RunStored, Others, FilesInv, Files
      <4>3. QED
        BY <4>1, <4>2
    <3>3. Complete(i)'
      <4>1. Whole(i)'
        <5>1. 1..Files(i) \subseteq output[i] \ torn[i]
          BY <1>0, <2>0, <3>1 DEF RunStored
        <5>2. output[i] \subseteq 1..Files(i) /\ torn[i] \subseteq 1..Files(i)
          BY DEF FilesInv, FilesNamed
        <5>3. QED
          BY <3>1, <5>1, <5>2 DEF Whole, Files
      <4>2. \A a \in 1..MaxAttempts : bull'[i][a] # "waiting"
        BY <1>2, <2>0, <3>1, HeldIsLast
      <4>3. \A r \in Requests : req'[r].pc \in Queueing /\ req'[r].job = i
              => bull'[i][req'[r].att] # "none"
        BY <1>2, <2>0, <2>1, <3>1, HeldIsLast DEF Others
      <4>4. \A v \in Workers : Held(v)' /\ worker'[v].job = i => worker'[v].pc \in PastCommit \cup Catch
        BY <1>2, <2>0, <2>1, <3>1, HeldOnce DEF Others, Held, PastCommit
      <4>5. QED
        BY <4>1, <4>2, <4>3, <4>4 DEF Complete
    <3>4. ASSUME NEW j \in Jobs, j # i, Done(j)' PROVE Complete(j)'
      <4>1. Complete(j) /\ job'[j] = job[j] /\ UNCHANGED <<bull, output, torn, req>>
        BY <2>1, <3>1, <3>4 DEF FilesInv, Others, Done
      <4>2. Whole(j)' \/ Caught(j)'
        BY <2>0, <2>1, <3>4, <4>1 DEF Complete, Whole, Caught, Others, Files
      <4>3. \A v \in Workers : Held(v)' /\ worker'[v].job = j => worker'[v].pc \in PastCommit \cup Catch
        BY <2>1, <3>1, <3>4, <4>1 DEF Complete, Others, Held
      <4>4. QED
        BY <4>1, <4>2, <4>3 DEF Complete
    <3>5. FilesNamed'
      BY <3>1 DEF FilesInv, FilesNamed, Files
    <3>6. QED
      BY <3>2, <3>3, <3>4, <3>5 DEF FilesInv
  <2>7. CASE CleanUp(w)
    <3>1. /\ worker[w].pc = "clean" /\ UNCHANGED <<job, bull, torn>>
          /\ worker'[w].pc = "record" /\ worker'[w].job = i
          /\ \A j \in Jobs : output'[j] \subseteq output[j]
          /\ \A j \in Jobs \ {i} : output'[j] = output[j]
      BY <1>0, <2>0, <2>7 DEF CleanUp, At, WorkerSlot
    <3>2. FilesNamed'
      BY <3>1 DEF FilesInv, FilesNamed, Files
    <3>3. RunStored(w)'
      BY <3>1 DEF RunStored
    <3>4. ASSUME NEW v \in Workers, v # w PROVE RunStored(v)'
      <4>1. worker'[v] = worker[v] /\ RunStored(v)
        BY <2>1, <3>4 DEF Others, FilesInv
      <4>2. CASE Held(v)
        <5>1. worker[v].job \in Jobs \ {i}
          BY <1>2, <2>0, <3>4, <4>2, HeldIsLast, HeldOnce
        <5>2. QED
          BY <3>1, <4>1, <5>1 DEF RunStored, Files
      <4>3. CASE ~Held(v)
        BY <4>1, <4>3 DEF RunStored, Held
      <4>4. QED
        BY <4>2, <4>3
    <3>5. ASSUME NEW j \in Jobs, Done(j)' PROVE Complete(j)'
      <4>1. Complete(j) /\ UNCHANGED <<job, bull, torn, req>>
        BY <2>1, <3>1, <3>5 DEF FilesInv, Others, Done
      <4>2. Whole(j)' \/ Caught(j)'
        <5>1. CASE j = i
          BY <3>1, <5>1 DEF Caught, Catch
        <5>2. CASE j # i
          BY <2>0, <2>1, <3>1, <4>1, <5>2 DEF Complete, Whole, Caught, Others, Files
        <5>3. QED
          BY <5>1, <5>2
      <4>3. \A v \in Workers : Held(v)' /\ worker'[v].job = j => worker'[v].pc \in PastCommit \cup Catch
        BY <2>1, <3>1, <4>1 DEF Complete, Others, Held, Catch
      <4>4. QED
        BY <4>1, <4>2, <4>3 DEF Complete
    <3>6. QED
      BY <3>2, <3>3, <3>4, <3>5 DEF FilesInv
  <2>8. CASE Record(w)
    <3>1. /\ worker[w].pc = "record" /\ UNCHANGED <<output, torn>> /\ worker'[w] = IdleWorker
          /\ job'[i].status \in Retryable
          /\ \A j \in Jobs \ {i} : job'[j] = job[j]
      BY <1>0, <2>0, <2>8 DEF Record, Release, JobRow, WorkerSlot, EntriesFollowed
    <3>2. ~Done(i)'
      BY <3>1 DEF Done, Retryable
    <3>3. \A j \in Jobs : Done(j)' => Done(j)
      BY <3>1, <3>2 DEF Done
    <3>4. GivesBack(w, "done")
      BY <2>1, <3>1 DEF Goes, IdleWorker, Slot
    <3>5. QED
      BY <1>2, <2>0, <2>1, <3>1, <3>2, <3>3, <3>4, KeepsFiles
  <2>9. QED
    BY <1>0, <1>2, <2>3, <2>4, <2>5, <2>6, <2>7, <2>8 DEF WorkerStep, Held, Take
<1>3. QED
  BY <1>0, <1>1, <1>2
     DEF WorkerStep, Held, Load, Start, Probe, Encode, Upload, Uploaded, Cancelled, Fails, Commit,
         CommitRefused, Reread, AssociateOutput, MarkAssociated, FailsLate, Settle,
         DeleteOriginal, DeleteOriginalFails, DeletedOriginal, Finish, CleanUp, Record

\* A request stores and removes nothing, registers nothing and does not bring
\* a complete job back: it adds the entries it comes to add before.
LEMMA RequestFiles ==
  ASSUME EntriesFollowed, TypeParts, OutputInv, EntriesInv, FilesInv,
         NEW r \in Requests, RequestBegins(r) \/ RequestStep(r) \/ RequestLost(r)
  PROVE  FilesInv'
<1>0. /\ job \in [Jobs -> JobRow] /\ req \in [Requests -> RequestSlot]
      /\ bull \in [Jobs -> [1..MaxAttempts -> BullState]]
      /\ req[r].pc # "idle" => req[r].job \in Jobs
      /\ RetryInOrder(r) /\ UNCHANGED <<output, torn, worker>>
  BY RequestFrame DEF TypeParts, RowsOK, RequestsOK, EntriesInv, RetriesInOrder
<1>1. FilesNamed' /\ \A w \in Workers : RunStored(w)'
  BY <1>0 DEF FilesInv, FilesNamed, RunStored, Files
<1>2. ASSUME UNCHANGED bull, \A q \in Requests \ {r} : req'[q] = req[q],
             \A j \in Jobs : Done(j)' => Done(j),
             req'[r].pc \in Queueing =>
               \/ req[r].pc \in Queueing /\ req'[r].job = req[r].job /\ req'[r].att = req[r].att
               \/ req'[r].job \in Jobs /\ ~Done(req'[r].job)
      PROVE  FilesInv'
  <2>1. ASSUME NEW j \in Jobs, Done(j)' PROVE Complete(j)'
    <3>1. Complete(j) /\ Done(j)
      BY <1>2, <2>1 DEF FilesInv
    <3>2. \A q \in Requests : req'[q].pc \in Queueing /\ req'[q].job = j => bull'[j][req'[q].att] # "none"
      BY <1>2, <3>1 DEF Complete
    <3>3. QED
      BY <1>0, <1>2, <3>1, <3>2 DEF Complete, Whole, Caught, Files, Held
  <2>2. QED
    BY <1>1, <2>1 DEF FilesInv
<1>3. CASE RequestBegins(r)
  <2>1. PICK j \in Jobs : RequestBegins(r)!(j)
    BY <1>3 DEF RequestBegins
  <2>2. CASE \E t \in Targets \cup {Null}, keep \in Retain : Enqueue(r, j, t, keep)
    <3>1. /\ UNCHANGED bull /\ \A q \in Requests \ {r} : req'[q] = req[q]
          /\ req'[r].job = j /\ job[j].status = "ABSENT"
          /\ job'[j].status = "QUEUED"
          /\ \A i \in Jobs \ {j} : job'[i] = job[i]
      BY <1>0, <2>2 DEF Enqueue, Pending, NewJob, RowsOnly
    <3>2. QED
      BY <1>2, <3>1 DEF Done
  <2>3. CASE RetryCheck(r, j)
    <3>1. /\ UNCHANGED <<bull, job>> /\ \A q \in Requests \ {r} : req'[q] = req[q]
          /\ req'[r].job = j /\ job[j].status \in Retryable
      BY <1>0, <2>3 DEF RetryCheck, Pending, JobOnly, RowsOnly
    <3>2. QED
      BY <1>2, <3>1 DEF Done, Retryable
  <2>4. CASE CancelCheck(r, j)
    BY <2>4 DEF CancelCheck, EntriesFollowed
  <2>5. CASE \/ \E t \in Targets \cup {Null}, keep \in Retain \cup {Null} : ConfigureCheck(r, j, t, keep)
             \/ \E t \in Targets : AssociateCheck(r, j, t)
    BY <1>0, <1>2, <2>5
       DEF ConfigureCheck, AssociateCheck, Pending, JobOnly, RowsOnly, Queueing, Done
  <2>6. QED
    BY <2>1, <2>2, <2>3, <2>4, <2>5
<1>4. CASE Requeue(r)
  <2>1. /\ UNCHANGED bull /\ \A q \in Requests \ {r} : req'[q] = req[q]
        /\ \A j \in Jobs : Done(j)' => Done(j)
        /\ req[r].pc = "requeue" /\ req'[r].job = req[r].job /\ req'[r].att = req[r].att
    BY <1>0, <1>4 DEF Requeue, Goto, RowsOnly, JobRow, RequestSlot, Done
  <2>2. QED
    BY <1>2, <2>1 DEF Queueing
<1>5. CASE QueueAdd(r)
  <2>1. PICK i \in Jobs, c \in 1..MaxAttempts : i = req[r].job /\ c = req[r].att
    BY <1>0, <1>5 DEF QueueAdd, RetryInOrder, Queueing
  <2>2. /\ UNCHANGED job /\ \A q \in Requests \ {r} : req'[q] = req[q]
        /\ req'[r].pc = "link" /\ req[r].pc = "add"
        /\ bull' = IF bull[i][c] = "none" THEN [bull EXCEPT ![i][c] = "waiting"] ELSE bull
    BY <1>0, <1>5, <2>1 DEF QueueAdd, Goto, RequestSlot
  <2>3. ASSUME NEW j \in Jobs, Done(j)' PROVE Complete(j)'
    <3>1. Complete(j)
      BY <2>2, <2>3 DEF FilesInv, Done
    <3>2. bull'[j] = bull[j]
      BY <1>0, <2>1, <2>2, <3>1 DEF Complete, Queueing
    <3>3. QED
      BY <1>0, <2>2, <3>1, <3>2 DEF Complete, Whole, Caught, Files, Held, Queueing
  <2>4. QED
    BY <1>1, <2>3 DEF FilesInv
<1>6. CASE QueueLink(r)
  BY <1>0, <1>2, <1>6, IdleTypes DEF QueueLink, Reply, JobOnly, RowsOnly, JobRow, Queueing, Done
<1>7. CASE QueueAddFails(r)
  BY <1>7 DEF QueueAddFails, EntriesFollowed
<1>8. CASE \/ QueueAddFailedJob(r) \/ QueueAddFailedMedia(r)
           \/ CancelRemove(r) \/ CancelMark(r) \/ CancelFlag(r)
  BY <1>0, <1>8
     DEF QueueAddFailedJob, QueueAddFailedMedia, CancelRemove, CancelMark, CancelFlag,
         RetryInOrder, TakingBack
<1>9. CASE ConfigureWrite(r) \/ CountReferences(r)
  <2>1. /\ UNCHANGED bull
        /\ \A j \in Jobs : job'[j].output = job[j].output /\ job'[j].status = job[j].status
    <3>1. CASE ConfigureWrite(r)
      BY <1>0, <3>1 DEF ConfigureWrite, JobOnly, RowsOnly, JobRow
    <3>2. CASE CountReferences(r)
      <4>1. bull' = bull /\ (job' = job \/ job' = [job EXCEPT ![req[r].job].retain = TRUE])
        BY <3>2 DEF CountReferences, JobOnly, RowsOnly
      <4>2. CASE job' = job
        BY <4>1, <4>2
      <4>3. CASE job' = [job EXCEPT ![req[r].job].retain = TRUE]
        BY <1>0, <4>1, <4>3 DEF JobRow
      <4>4. QED
        BY <4>1, <4>2, <4>3
    <3>3. QED
      BY <1>9, <3>1, <3>2
  <2>2. Reply(r) \/ \E pc \in {"assocRead", "count", "delete"} : Goto(r, pc)
    BY <1>9 DEF ConfigureWrite, CountReferences
  <2>3. /\ \A q \in Requests \ {r} : req'[q] = req[q]
        /\ req'[r].pc \notin Queueing
    BY <1>0, <2>2, IdleTypes DEF Reply, Goto, RequestSlot, Queueing
  <2>4. QED
    BY <1>2, <2>1, <2>3 DEF Done
<1>10. CASE AssociateRead(r) \/ AssociateRefused(r) \/ Associate(r)
  <2>1. /\ UNCHANGED bull
        /\ \A j \in Jobs : job'[j].output = job[j].output /\ job'[j].status = job[j].status
    <3>1. CASE AssociateRead(r) \/ AssociateRefused(r)
      BY <3>1 DEF AssociateRead, AssociateRefused, JobOnly, RowsOnly
    <3>2. CASE Associate(r)
      BY <1>0, <3>2 DEF Associate, JobRow
    <3>3. QED
      BY <1>10, <3>1, <3>2
  <2>2. Reply(r) \/ \E pc \in {"assoc", "after"} : Goto(r, pc)
    BY <1>10 DEF AssociateRead, AssociateRefused, Associate
  <2>3. /\ \A q \in Requests \ {r} : req'[q] = req[q]
        /\ req'[r].pc \notin Queueing
    BY <1>0, <2>2, IdleTypes DEF Reply, Goto, RequestSlot, Queueing
  <2>4. QED
    BY <1>2, <2>1, <2>3 DEF Done
<1>11. CASE RemoveOriginal(r) \/ RemoveOriginalFails(r) \/ RemovedOriginal(r) \/ RequestLost(r)
  BY <1>0, <1>2, <1>11, IdleTypes
     DEF RemoveOriginal, RemoveOriginalFails, RemovedOriginal, RequestLost, Reply, Goto,
         JobOnly, RowsOnly, RequestSlot, Queueing, Done
<1>12. QED
  BY <1>3, <1>4, <1>5, <1>6, <1>7, <1>8, <1>9, <1>10, <1>11 DEF RequestStep

\* FilesInv is inductive.
LEMMA NextFiles ==
  NoCrash /\ EntriesFollowed
    /\ TypeInv /\ OutputInv /\ EntriesInv /\ FilesInv /\ [Next]_vars => FilesInv'
<1>1. ASSUME FilesInv, UNCHANGED vars PROVE FilesInv'
  BY <1>1 DEF vars, FilesInv, FilesNamed, RunStored, Done, Complete, Whole, Caught, Files, Held
<1>2. ASSUME NoCrash, EntriesFollowed, TypeInv, OutputInv, EntriesInv, FilesInv, Next
      PROVE  FilesInv'
  BY <1>2, TypeInvParts, WorkerFiles, RequestFiles DEF Next
<1>3. QED
  BY <1>1, <1>2

LEMMA InitFiles == Init => FilesInv
<1>1. \A j \in Jobs : Files(j) \in Nat
  BY BoundAssumption DEF Files
<1>2. QED
  BY <1>1 DEF Init, FilesInv, FilesNamed, RunStored, Done, IdleWorker, Slot, NoJob

\* The files behind a link are all stored and whole as long as the job is shown
\* as completed and its run has not failed, whatever FFmpeg, the storage, another
\* run or the content's own subtitles do to it: an association refused after the
\* registration deletes the files of a linked output, and fails the job.  A
\* process that dies, or a database that refuses the last update, in that catch
\* block leaves the job completed without its files.
THEOREM WhatIsLinkedIsWhole ==
  NoCrash /\ EntriesFollowed /\ Spec => []LinkedOutputUsable
<1>1. OutputInv /\ FilesInv => LinkedOutputUsable
  BY DEF OutputInv, ContentLinksRegistered, FilesInv, Done, Complete, Whole, Caught, Catch,
         LinkedOutputUsable
<1>2. ASSUME NoCrash, EntriesFollowed PROVE Spec => []LinkedOutputUsable
  <2>1. TypeInv /\ OutputInv /\ EntriesInv /\ [Next]_vars => EntriesInv'
    BY <1>2, NextEntries
  <2>2. TypeInv /\ OutputInv /\ EntriesInv /\ FilesInv /\ [Next]_vars => FilesInv'
    BY <1>2, NextFiles
  <2>3. QED
    BY <1>1, <2>1, <2>2, InitEntries, InitFiles, TypeInvariance, OutputInvariance, PTL DEF Spec
<1>3. QED
  BY <1>2

-----------------------------------------------------------------------------
(* The life of a job *)

OneRequest == \A q, r \in Requests : q = r

\* The status of a job is the one its slot has seen, and a request that queues
\* a job again has seen how it ended.
WorkerLives(w) ==
  /\ worker[w].pc = "start" => job[worker[w].job].status = "QUEUED"
  /\ worker[w].pc \in {"probe", "encode", "upload", "put", "commit"}
       => job[worker[w].job].status = "PROCESSING"
  /\ worker[w].pc \in {"clean", "record"} => job[worker[w].job].status \in Active

RequestLives(r) ==
  req[r].pc = "requeue" =>
    /\ job[req[r].job].status \in Retryable
    /\ req[r].att = job[req[r].job].attempts + 1

LifeInv == (\A w \in Workers : WorkerLives(w)) /\ \A r \in Requests : RequestLives(r)

\* What the abstract job does when the status of one row changes.
Lives(i, from, to, n) ==
  /\ job[i].status \in from /\ job'[i].status = to /\ job'[i].attempts = n
  /\ \A j \in Jobs \ {i} : job'[j].status = job[j].status /\ job'[j].attempts = job[j].attempts

Rests == \A j \in Jobs : job'[j].status = job[j].status /\ job'[j].attempts = job[j].attempts

LifeStep ==
  \/ Rests
  \/ \E i \in Jobs :
       \/ Lives(i, {"ABSENT"}, "QUEUED", 1)
       \/ Lives(i, {"QUEUED"}, "PROCESSING", job[i].attempts)
       \/ Lives(i, {"PROCESSING"}, "COMPLETED", job[i].attempts)
       \/ \E to \in Retryable : Lives(i, Active, to, job[i].attempts)
       \/ Lives(i, Retryable, "QUEUED", job[i].attempts + 1) /\ job[i].attempts < MaxAttempts

LEMMA LifeSteps == LifeStep => [Lifecycle!LifecycleNext]_(Lifecycle!lifecycleVars)
<1>1. ASSUME Rests PROVE UNCHANGED Lifecycle!lifecycleVars
  BY <1>1 DEF Rests, Lifecycle!lifecycleVars
<1>3. ASSUME NEW i \in Jobs, Lives(i, {"ABSENT"}, "QUEUED", 1) PROVE Lifecycle!LifecycleNext
  <2>1. /\ [j \in Jobs |-> job[j].status][i] \in {"ABSENT"}
        /\ [j \in Jobs |-> job'[j].status]
              = [[j \in Jobs |-> job[j].status] EXCEPT ![i] = "QUEUED"]
        /\ [j \in Jobs |-> job'[j].attempts]
              = [[j \in Jobs |-> job[j].attempts] EXCEPT ![i] = 1]
    BY <1>3 DEF Lives
  <2>2. Lifecycle!Accept(i)
    BY <2>1 DEF Lifecycle!Accept, Lifecycle!Move
  <2>3. QED
    BY <2>2 DEF Lifecycle!LifecycleNext
<1>4. ASSUME NEW i \in Jobs, Lives(i, {"QUEUED"}, "PROCESSING", job[i].attempts)
      PROVE  Lifecycle!LifecycleNext
  <2>1. /\ [j \in Jobs |-> job[j].status][i] \in {"QUEUED"}
        /\ [j \in Jobs |-> job'[j].status]
              = [[j \in Jobs |-> job[j].status] EXCEPT ![i] = "PROCESSING"]
        /\ [j \in Jobs |-> job'[j].attempts] = [j \in Jobs |-> job[j].attempts]
    BY <1>4 DEF Lives
  <2>2. Lifecycle!Begin(i)
    BY <2>1 DEF Lifecycle!Begin, Lifecycle!Move
  <2>3. QED
    BY <2>2 DEF Lifecycle!LifecycleNext
<1>5. ASSUME NEW i \in Jobs, Lives(i, {"PROCESSING"}, "COMPLETED", job[i].attempts)
      PROVE  Lifecycle!LifecycleNext
  <2>1. /\ [j \in Jobs |-> job[j].status][i] \in {"PROCESSING"}
        /\ [j \in Jobs |-> job'[j].status]
              = [[j \in Jobs |-> job[j].status] EXCEPT ![i] = "COMPLETED"]
        /\ [j \in Jobs |-> job'[j].attempts] = [j \in Jobs |-> job[j].attempts]
    BY <1>5 DEF Lives
  <2>2. Lifecycle!Complete(i)
    BY <2>1 DEF Lifecycle!Complete, Lifecycle!Move
  <2>3. QED
    BY <2>2 DEF Lifecycle!LifecycleNext
<1>6. ASSUME NEW i \in Jobs, NEW to \in Retryable, Lives(i, Active, to, job[i].attempts)
      PROVE  Lifecycle!LifecycleNext
  <2>1. CASE to = "FAILED"
    <3>1. /\ [j \in Jobs |-> job[j].status][i] \in {"QUEUED", "PROCESSING"}
          /\ [j \in Jobs |-> job'[j].status]
                = [[j \in Jobs |-> job[j].status] EXCEPT ![i] = "FAILED"]
          /\ [j \in Jobs |-> job'[j].attempts] = [j \in Jobs |-> job[j].attempts]
      BY <1>6, <2>1 DEF Active, Lives
    <3>2. Lifecycle!Fail(i)
      BY <3>1 DEF Lifecycle!Fail, Lifecycle!Move
    <3>3. QED
      BY <3>2 DEF Lifecycle!LifecycleNext
  <2>2. CASE to = "CANCELLED"
    <3>1. /\ [j \in Jobs |-> job[j].status][i] \in {"QUEUED", "PROCESSING"}
          /\ [j \in Jobs |-> job'[j].status]
                = [[j \in Jobs |-> job[j].status] EXCEPT ![i] = "CANCELLED"]
          /\ [j \in Jobs |-> job'[j].attempts] = [j \in Jobs |-> job[j].attempts]
      BY <1>6, <2>2 DEF Active, Lives
    <3>2. Lifecycle!Cancel(i)
      BY <3>1 DEF Lifecycle!Cancel, Lifecycle!Move
    <3>3. QED
      BY <3>2 DEF Lifecycle!LifecycleNext
  <2>3. QED
    BY <1>6, <2>1, <2>2 DEF Retryable
<1>7. ASSUME NEW i \in Jobs, Lives(i, Retryable, "QUEUED", job[i].attempts + 1),
             job[i].attempts < MaxAttempts
      PROVE  Lifecycle!LifecycleNext
  <2>1. [j \in Jobs |-> job[j].attempts][i] = job[i].attempts
    OBVIOUS
  <2>2. /\ [j \in Jobs |-> job[j].status][i] \in {"FAILED", "CANCELLED"}
        /\ [j \in Jobs |-> job'[j].status]
              = [[j \in Jobs |-> job[j].status] EXCEPT ![i] = "QUEUED"]
        /\ [j \in Jobs |-> job'[j].attempts]
              = [[j \in Jobs |-> job[j].attempts] EXCEPT ![i] = job[i].attempts + 1]
    <3> DEFINE again == job[i].attempts + 1
    <3>1. Lives(i, Retryable, "QUEUED", again)
      BY <1>7
    <3>2. [j \in Jobs |-> job[j].status][i] \in Retryable
      BY <3>1 DEF Lives
    <3>3. [j \in Jobs |-> job'[j].status]
            = [[j \in Jobs |-> job[j].status] EXCEPT ![i] = "QUEUED"]
      BY <3>1 DEF Lives
    <3>4. [j \in Jobs |-> job'[j].attempts]
            = [[j \in Jobs |-> job[j].attempts] EXCEPT ![i] = again]
      BY <3>1 DEF Lives
    <3>5. QED
      BY <3>2, <3>3, <3>4 DEF Retryable
  <2>3. Lifecycle!Again(i)
    BY <1>7, <2>1, <2>2 DEF Lifecycle!Again, Lifecycle!Move
  <2>4. QED
    BY <2>3 DEF Lifecycle!LifecycleNext
<1>8. QED
  BY <1>1, <1>3, <1>4, <1>5, <1>6, <1>7 DEF LifeStep

\* A worker's step is one of the life of its job.
LEMMA WorkerLifeStep ==
  ASSUME TypeParts, EntriesInv, LifeInv, EntriesFollowed, NoSubtitles,
         NEW w \in Workers, WorkerStep(w) \/ WorkerLost(w)
  PROVE  LifeInv' /\ LifeStep
<1>0. /\ worker \in [Workers -> WorkerSlot] /\ job \in [Jobs -> JobRow]
      /\ SlotNamed(worker[w]) /\ WorkerLives(w)
      /\ Others(w) /\ RowsStay(w)
  BY WorkerMoves DEF TypeParts, RowsOK, WorkersOK, LifeInv
<1>1. ASSUME WorkerLives(w)',
             \A j \in Jobs : job'[j].status # job[j].status => Held(w) /\ j = worker[w].job
      PROVE  LifeInv'
  <2>1. ASSUME NEW v \in Workers, v # w PROVE WorkerLives(v)'
    <3>1. worker'[v] = worker[v] /\ WorkerLives(v)
      BY <1>0, <2>1 DEF Others, LifeInv
    <3>2. Held(v) => job'[worker[v].job].status = job[worker[v].job].status
      BY <1>1, <2>1, HeldOnce, HeldIsLast
    <3>3. QED
      BY <3>1, <3>2 DEF WorkerLives, Held
  <2>2. ASSUME NEW r \in Requests PROVE RequestLives(r)'
    <3>1. req'[r] = req[r] /\ RequestLives(r) /\ (req[r].pc # "idle" => req[r].job \in Jobs)
      BY <1>0 DEF Others, LifeInv, TypeParts, RequestsOK
    <3>2. req[r].pc = "requeue" => /\ job'[req[r].job].status = job[req[r].job].status
                                   /\ job'[req[r].job].attempts = job[req[r].job].attempts
      BY <1>0, <1>1, <3>1, HeldIsLast DEF RequestLives, RowsStay
    <3>3. QED
      BY <3>1, <3>2 DEF RequestLives
  <2>3. QED
    BY <1>1, <2>1, <2>2 DEF LifeInv
<1>2. ASSUME \A j \in Jobs : job'[j].status = job[j].status, WorkerLives(w)'
      PROVE  LifeInv' /\ LifeStep
  BY <1>0, <1>1, <1>2 DEF LifeStep, Rests, RowsStay
<1>3. CASE \E j \in Jobs, a \in 1..MaxAttempts : Take(w, j, a)
  <2>1. worker'[w].pc = "load" /\ job' = job
    BY <1>0, <1>3 DEF Take, Slot
  <2>2. QED
    BY <1>2, <2>1 DEF WorkerLives
<1>4. CASE Load(w) \/ Probe(w) \/ Encode(w)
  <2>1. job' = job /\ worker[w].pc # "idle"
    BY <1>4 DEF Load, Probe, Encode
  <2>2. WorkerLives(w)'
    BY <1>0, <1>4, <2>1, IdleTypes DEF Load, Probe, Encode, At, Release, WorkerLives, WorkerSlot
  <2>3. QED
    BY <1>2, <2>1, <2>2
<1>5. CASE Start(w)
  <2>1. PICK i \in Jobs : i = worker[w].job
    BY <1>0, <1>5 DEF Start, SlotNamed
  <2>2. /\ Held(w) /\ worker'[w].pc = "probe" /\ worker'[w].job = i
        /\ \A j \in Jobs \ {i} : job'[j] = job[j]
        /\ job[i].status = "QUEUED" /\ job'[i].status = "PROCESSING"
        /\ job'[i].attempts = job[i].attempts
    BY <1>0, <1>5, <2>1 DEF Start, At, Held, WorkerLives, WorkerSlot, JobRow
  <2>3. LifeInv'
    BY <1>1, <2>1, <2>2 DEF WorkerLives
  <2>4. Lives(i, {"QUEUED"}, "PROCESSING", job[i].attempts)
    BY <2>2 DEF Lives
  <2>5. QED
    BY <2>3, <2>4 DEF LifeStep
<1>6. CASE Upload(w) \/ Uploaded(w)
  BY <1>0, <1>2, <1>6 DEF Upload, Uploaded, At, WorkerLives, WorkerSlot
<1>7. CASE Cancelled(w) \/ Fails(w) \/ CommitRefused(w)
  <2>1. /\ job' = job /\ worker[w].pc \in {"start", "probe", "encode", "upload", "put", "commit"}
        /\ \E outcome \in Retryable : ToCatch(w, outcome)
    BY <1>7 DEF Cancelled, Fails, CommitRefused, Retryable
  <2>2. worker'[w].pc = "clean" /\ worker'[w].job = worker[w].job
    BY <1>0, <2>1 DEF ToCatch, WorkerSlot
  <2>3. QED
    BY <1>0, <1>2, <2>1, <2>2 DEF WorkerLives, Active
<1>8. CASE Commit(w)
  <2>1. PICK i \in Jobs : i = worker[w].job
    BY <1>0, <1>8 DEF Commit, SlotNamed
  <2>2. /\ Held(w) /\ worker'[w].pc = "reread"
        /\ \A j \in Jobs \ {i} : job'[j] = job[j]
        /\ job[i].status = "PROCESSING" /\ job'[i].status = "COMPLETED"
        /\ job'[i].attempts = job[i].attempts
    BY <1>0, <1>8, <2>1 DEF Commit, Held, WorkerLives, WorkerSlot, JobRow
  <2>3. LifeInv'
    BY <1>1, <2>1, <2>2 DEF WorkerLives
  <2>4. Lives(i, {"PROCESSING"}, "COMPLETED", job[i].attempts)
    BY <2>2 DEF Lives
  <2>5. QED
    BY <2>3, <2>4 DEF LifeStep
<1>9. CASE Record(w)
  <2>1. PICK i \in Jobs : i = worker[w].job
    BY <1>0, <1>9 DEF Record, SlotNamed
  <2>2. Held(w) /\ worker'[w].pc = "idle" /\ WorkerLives(w)'
    BY <1>0, <1>9, IdleTypes DEF Record, Release, Held, WorkerLives
  <2>3. PICK to \in Retryable : to = worker[w].outcome
    BY <1>0 DEF WorkerSlot
  <2>4. /\ \A j \in Jobs \ {i} : job'[j] = job[j]
        /\ job'[i].attempts = job[i].attempts
        /\ job'[i].status = to
    BY <1>0, <1>9, <2>1, <2>3 DEF Record, JobRow, EntriesFollowed
  <2>5. LifeInv'
    BY <1>1, <2>1, <2>2, <2>4
  <2>6. Lives(i, Active, to, job[i].attempts)
    BY <1>0, <1>9, <2>1, <2>4 DEF Record, WorkerLives, Lives
  <2>7. QED
    BY <2>5, <2>6 DEF LifeStep
<1>10. CASE Reread(w) \/ AssociateOutput(w) \/ MarkAssociated(w)
  <2>1. \A j \in Jobs : job'[j].status = job[j].status
    BY <1>0, <1>10 DEF Reread, AssociateOutput, MarkAssociated, JobRow
  <2>2. WorkerLives(w)'
    BY <1>0, <1>10 DEF Reread, AssociateOutput, MarkAssociated, At, WorkerLives, WorkerSlot
  <2>3. QED
    BY <1>2, <2>1, <2>2
<1>11. CASE FailsLate(w)
  BY <1>11 DEF FailsLate, DefaultTaken, EntriesFollowed, NoSubtitles
<1>12. CASE Settle(w) \/ Finish(w) \/ WorkerLost(w)
  <2>1. \A j \in Jobs : job'[j].status = job[j].status
    BY <1>0, <1>12 DEF Settle, Finish, WorkerLost, JobRow
  <2>2. worker'[w].pc \in {"idle", "delete", "finish"}
    BY <1>0, <1>12, IdleTypes DEF Settle, Finish, WorkerLost, At, Release, WorkerSlot
  <2>3. QED
    BY <1>2, <2>1, <2>2 DEF WorkerLives
<1>13. CASE DeleteOriginal(w) \/ DeleteOriginalFails(w) \/ DeletedOriginal(w)
  <2>1. \A j \in Jobs : job'[j].status = job[j].status
    BY <1>0, <1>13 DEF DeleteOriginal, DeleteOriginalFails, DeletedOriginal, JobRow
  <2>2. worker'[w].pc \in {"deleted", "finish"}
    BY <1>0, <1>13 DEF DeleteOriginal, DeleteOriginalFails, DeletedOriginal, At, WorkerSlot
  <2>3. QED
    BY <1>2, <2>1, <2>2 DEF WorkerLives
<1>14. CASE CleanUp(w)
  <2>1. job' = job /\ worker'[w].pc = "record" /\ worker'[w].job = worker[w].job /\ worker[w].pc = "clean"
    BY <1>0, <1>14 DEF CleanUp, At, WorkerSlot
  <2>2. QED
    BY <1>0, <1>2, <2>1 DEF WorkerLives
<1>15. QED
  BY <1>3, <1>4, <1>5, <1>6, <1>7, <1>8, <1>9, <1>10, <1>11, <1>12, <1>13, <1>14 DEF WorkerStep

\* So is a request's, when it is the only one.
LEMMA RequestLifeStep ==
  ASSUME TypeParts, OutputInv, EntriesInv, LifeInv, EntriesFollowed, OneRequest,
         NEW r \in Requests, RequestBegins(r) \/ RequestStep(r) \/ RequestLost(r)
  PROVE  LifeInv' /\ LifeStep
<1>0. /\ job \in [Jobs -> JobRow] /\ req \in [Requests -> RequestSlot]
      /\ req[r].pc # "idle" => req[r].job \in Jobs
      /\ RetryInOrder(r) /\ RequestLives(r) /\ worker' = worker
      /\ \A q \in Requests : q = r
  BY RequestFrame DEF TypeParts, RowsOK, RequestsOK, EntriesInv, RetriesInOrder, LifeInv, OneRequest
<1>1. ASSUME NEW i \in Jobs, \A w \in Workers : Held(w) => worker[w].job # i,
             \A j \in Jobs \ {i} : job'[j] = job[j]
      PROVE  \A w \in Workers : WorkerLives(w)'
  <2>1. SUFFICES ASSUME NEW w \in Workers, Held(w) PROVE WorkerLives(w)'
    BY <1>0 DEF WorkerLives, Held
  <2>2. WorkerLives(w) /\ worker[w].job \in Jobs \ {i}
    BY <1>1, <2>1, HeldIsLast DEF LifeInv
  <2>3. QED
    BY <1>0, <1>1, <2>2 DEF WorkerLives
<1>2. ASSUME \A j \in Jobs : job'[j].status = job[j].status /\ job'[j].attempts = job[j].attempts,
             req'[r].pc # "requeue"
      PROVE  LifeInv' /\ LifeStep
  <2>1. ASSUME NEW w \in Workers PROVE WorkerLives(w)'
    BY <1>0, <1>2, HeldIsLast DEF LifeInv, WorkerLives, Held
  <2>2. QED
    BY <1>0, <1>2, <2>1 DEF LifeInv, RequestLives, LifeStep, Rests
<1>3. CASE RequestBegins(r)
  <2>1. PICK j \in Jobs : RequestBegins(r)!(j)
    BY <1>3 DEF RequestBegins
  <2>2. CASE \E t \in Targets \cup {Null}, keep \in Retain : Enqueue(r, j, t, keep)
    <3>1. /\ req'[r].pc = "add" /\ job[j].status = "ABSENT"
          /\ job'[j].status = "QUEUED" /\ job'[j].attempts = 1
          /\ \A i \in Jobs \ {j} : job'[i] = job[i]
      BY <1>0, <2>2 DEF Enqueue, Pending, NewJob, RowsOnly
    <3>2. \A w \in Workers : Held(w) => worker[w].job # j
      BY <3>1 DEF OutputInv, WorkersSaw, Held
    <3>3. LifeInv'
      BY <1>0, <1>1, <3>1, <3>2 DEF LifeInv, RequestLives
    <3>4. QED
      BY <3>1, <3>3 DEF LifeStep, Lives
  <2>3. CASE RetryCheck(r, j)
    <3>1. /\ UNCHANGED job
          /\ req'[r].job = j /\ req'[r].att = job[j].attempts + 1
          /\ job[j].status \in Retryable
      BY <1>0, <2>3 DEF RetryCheck, Pending, JobOnly, RowsOnly
    <3>2. QED
      BY <1>0, <3>1 DEF LifeInv, WorkerLives, RequestLives, LifeStep, Rests
  <2>4. CASE CancelCheck(r, j)
    BY <2>4 DEF CancelCheck, EntriesFollowed
  <2>5. CASE \/ \E t \in Targets \cup {Null}, keep \in Retain \cup {Null} : ConfigureCheck(r, j, t, keep)
             \/ \E t \in Targets : AssociateCheck(r, j, t)
    BY <1>0, <1>2, <2>5 DEF ConfigureCheck, AssociateCheck, Pending, JobOnly, RowsOnly
  <2>6. QED
    BY <2>1, <2>2, <2>3, <2>4, <2>5
<1>4. CASE Requeue(r)
  <2>1. PICK i \in Jobs : i = req[r].job
    BY <1>0, <1>4 DEF Requeue
  <2>2. /\ req'[r].pc = "add" /\ job[i].status \in Retryable
        /\ job'[i].status = "QUEUED" /\ job'[i].attempts = job[i].attempts + 1
        /\ job[i].attempts + 1 \in 1..MaxAttempts
        /\ \A j \in Jobs \ {i} : job'[j] = job[j]
    BY <1>0, <1>4, <2>1
       DEF Requeue, Goto, JobRow, RequestSlot, RequestLives, RetryInOrder, Queueing
  <2>3. job[i].attempts \in Nat
    BY <1>0 DEF JobRow
  <2>4. job[i].attempts < MaxAttempts
    BY <2>2, <2>3, BoundAssumption
  <2>5. \A w \in Workers : Held(w) => worker[w].job # i
    BY <2>2, HeldIsLast
  <2>6. LifeInv'
    BY <1>0, <1>1, <2>2, <2>5 DEF LifeInv, RequestLives
  <2>7. QED
    BY <2>2, <2>4, <2>6 DEF LifeStep, Lives
<1>5. CASE QueueAdd(r) \/ QueueLink(r)
  <2>1. /\ \A j \in Jobs : job'[j].status = job[j].status /\ job'[j].attempts = job[j].attempts
        /\ Goto(r, "link") \/ Reply(r)
    BY <1>0, <1>5 DEF QueueAdd, QueueLink, JobRow
  <2>2. QED
    BY <1>0, <1>2, <2>1, IdleTypes DEF Goto, Reply, RequestSlot
<1>6. CASE QueueAddFails(r)
  BY <1>6 DEF QueueAddFails, EntriesFollowed
<1>7. CASE \/ QueueAddFailedJob(r) \/ QueueAddFailedMedia(r)
           \/ CancelRemove(r) \/ CancelMark(r) \/ CancelFlag(r)
  BY <1>0, <1>7
     DEF QueueAddFailedJob, QueueAddFailedMedia, CancelRemove, CancelMark, CancelFlag,
         RetryInOrder, TakingBack
<1>8. CASE ConfigureWrite(r)
  <2>1. \A j \in Jobs : job'[j].status = job[j].status /\ job'[j].attempts = job[j].attempts
    BY <1>0, <1>8 DEF ConfigureWrite, JobRow
  <2>2. Reply(r) \/ \E pc \in {"assocRead", "count"} : Goto(r, pc)
    BY <1>8 DEF ConfigureWrite
  <2>3. QED
    BY <1>0, <1>2, <2>1, <2>2, IdleTypes DEF Reply, Goto, RequestSlot
<1>9. CASE CountReferences(r)
  <2>1. job' = job \/ job' = [job EXCEPT ![req[r].job].retain = TRUE]
    BY <1>9 DEF CountReferences
  <2>2. \A j \in Jobs : job'[j].status = job[j].status /\ job'[j].attempts = job[j].attempts
    <3>1. CASE job' = job
      BY <3>1
    <3>2. CASE job' = [job EXCEPT ![req[r].job].retain = TRUE]
      BY <1>0, <3>2 DEF JobRow
    <3>3. QED
      BY <2>1, <3>1, <3>2
  <2>3. Reply(r) \/ Goto(r, "delete")
    BY <1>9 DEF CountReferences
  <2>4. QED
    BY <1>0, <1>2, <2>2, <2>3, IdleTypes DEF Reply, Goto, RequestSlot
<1>10. CASE AssociateRead(r) \/ AssociateRefused(r)
  <2>1. job' = job /\ (Reply(r) \/ Goto(r, "assoc"))
    BY <1>10 DEF AssociateRead, AssociateRefused
  <2>2. QED
    BY <1>0, <1>2, <2>1, IdleTypes DEF Reply, Goto, RequestSlot
<1>11. CASE Associate(r)
  <2>1. \A j \in Jobs : job'[j].status = job[j].status /\ job'[j].attempts = job[j].attempts
    BY <1>0, <1>11 DEF Associate, JobRow
  <2>2. req'[r].pc = "after"
    BY <1>0, <1>11 DEF Associate, Goto, RequestSlot
  <2>3. QED
    BY <1>2, <2>1, <2>2
<1>12. CASE RemoveOriginal(r) \/ RemoveOriginalFails(r) \/ RemovedOriginal(r) \/ RequestLost(r)
  <2>1. job' = job /\ (Reply(r) \/ Goto(r, "deleted"))
    BY <1>12 DEF RemoveOriginal, RemoveOriginalFails, RemovedOriginal, RequestLost, JobOnly, RowsOnly
  <2>2. QED
    BY <1>0, <1>2, <2>1, IdleTypes DEF Reply, Goto, RequestSlot
<1>13. QED
  BY <1>3, <1>4, <1>5, <1>6, <1>7, <1>8, <1>9, <1>10, <1>11, <1>12 DEF RequestStep

\* LifeInv is inductive, and a step under it is one of the life of a job.
LEMMA NextLives ==
  EntriesFollowed /\ NoSubtitles /\ OneRequest
    /\ TypeInv /\ OutputInv /\ EntriesInv /\ LifeInv /\ [Next]_vars
    => LifeInv' /\ [Lifecycle!LifecycleNext]_(Lifecycle!lifecycleVars)
<1>1. ASSUME LifeInv, UNCHANGED vars PROVE LifeInv' /\ LifeStep
  BY <1>1 DEF vars, LifeInv, WorkerLives, RequestLives, LifeStep, Rests
<1>2. ASSUME EntriesFollowed, NoSubtitles, OneRequest, TypeInv, OutputInv, EntriesInv, LifeInv, Next
      PROVE  LifeInv' /\ LifeStep
  BY <1>2, TypeInvParts, WorkerLifeStep, RequestLifeStep DEF Next
<1>3. QED
  BY <1>1, <1>2, LifeSteps

LEMMA InitLives == Init => LifeInv /\ Lifecycle!LifecycleInit
  BY DEF Init, LifeInv, WorkerLives, RequestLives, IdleWorker, IdleRequest, Slot, Pending, NoJob,
         Lifecycle!LifecycleInit

\* With one request at a time a job lives as JobLifecycle says, for any number
\* of slots that may die: it is processed once per attempt, ends, and goes back
\* to the queue only as a retry within the limit.  Two retries of one job both
\* pass the check that precedes the transaction and may queue it when the first
\* has completed; a refused subtitle ends a completed job as FAILED.
THEOREM LifecycleRefinement ==
  EntriesFollowed /\ NoSubtitles /\ OneRequest /\ Spec => FollowsLifecycle
<1>1. ASSUME EntriesFollowed, NoSubtitles, OneRequest PROVE Spec => FollowsLifecycle
  <2>1. TypeInv /\ OutputInv /\ EntriesInv /\ [Next]_vars => EntriesInv'
    BY <1>1, NextEntries
  <2>2. TypeInv /\ OutputInv /\ EntriesInv /\ LifeInv /\ [Next]_vars
          => LifeInv' /\ [Lifecycle!LifecycleNext]_(Lifecycle!lifecycleVars)
    BY <1>1, NextLives
  <2>3. QED
    BY <2>1, <2>2, InitEntries, InitLives, TypeInvariance, OutputInvariance, PTL
       DEF Spec, FollowsLifecycle, Lifecycle!LifecycleSpec
<1>2. QED
  BY <1>1
=============================================================================
