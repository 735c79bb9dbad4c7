------------------------ MODULE ResumableUploadProofs ------------------------
(***************************************************************************)
(* Theorems about a resumable upload, for any number of parts, contents    *)
(* and overlapping requests.                                               *)
(*                                                                         *)
(* That a registered video is whole is not inductive.  What is: an         *)
(* assembler that has appended n parts holds a file of at most n parts,    *)
(* and a file of n parts is in order; past the copy the object is that     *)
(* file.  A cancellation or a cleanup that removes the file makes it       *)
(* shorter for good, and the size check tells.                             *)
(***************************************************************************)
EXTENDS ResumableUpload, TLAPS

SlotReady(s) ==
  /\ s.pc \in {"mkdir", "remove", "rename", "confirm", "append"} => s.index \in Parts
  /\ s.pc \in {"claim", "clear"} => s.index = 0

SlotsReady == \A r \in Requests : SlotReady(req[r])

\* The inductive form of the type invariant.
UploadTypeInv == UploadTypeOK /\ SlotsReady

\* A request that moves to its next statement keeps its type.
LEMMA GotoReady ==
  ASSUME UploadTypeInv, NEW r \in Requests, NEW pc \in RequestPC, Goto(r, pc),
         pc \in {"mkdir", "remove", "rename", "confirm", "append"} => req[r].index \in Parts,
         pc \in {"claim", "clear"} => req[r].index = 0
  PROVE  req' \in [Requests -> RequestSlot] /\ SlotsReady'
<1>1. req' \in [Requests -> RequestSlot]
  BY DEF UploadTypeInv, UploadTypeOK, Goto, RequestSlot
<1>2. \A q \in Requests : SlotReady(req'[q])
  BY DEF UploadTypeInv, UploadTypeOK, SlotsReady, SlotReady, Goto, RequestSlot, Parts
<1>3. QED
  BY <1>1, <1>2 DEF SlotsReady, SlotReady, Parts

\* A request that is answered, begins or is lost is typed.
LEMMA SlotsTyped ==
  /\ \A pc \in RequestPC, i \in 0..NParts, v \in Versions \cup {Null}, seen \in SUBSET Parts :
       Slot(pc, i, v, seen) \in RequestSlot
  /\ IdleRequest \in RequestSlot /\ SlotReady(IdleRequest)
<1>1. 0 \in 0..NParts /\ "idle" \in RequestPC
  BY UploadAssumption DEF RequestPC
<1>2. QED
  BY <1>1 DEF Slot, RequestSlot, IdleRequest, SlotReady

\* A request that is answered keeps the types.
LEMMA ReplyReady ==
  ASSUME UploadTypeInv, NEW r \in Requests, Reply(r)
  PROVE  req' \in [Requests -> RequestSlot] /\ SlotsReady'
<1>1. req' \in [Requests -> RequestSlot]
  BY SlotsTyped DEF UploadTypeInv, UploadTypeOK, Reply
<1>2. \A q \in Requests : SlotReady(req'[q])
  BY SlotsTyped DEF UploadTypeInv, UploadTypeOK, SlotsReady, Reply
<1>3. QED
  BY <1>1, <1>2 DEF SlotsReady, SlotReady, Parts

\* The beginning of a request keeps the types.
LEMMA BeginsTypes ==
  ASSUME UploadTypeInv, NEW r \in Requests, Begins(r) \/ CleanupCheck(r)
  PROVE  UploadTypeInv'
<1>1. UploadTypeOK /\ SlotsReady
  BY DEF UploadTypeInv
<1>2. CASE \E i \in Parts, v \in Versions : PartCheck(r, i, v)
  <2>1. PICK i \in Parts, v \in Versions : PartCheck(r, i, v)
    BY <1>2
  <2>2. i \in 0..NParts /\ "mkdir" \in RequestPC /\ upload.parts \in SUBSET Parts
    BY <1>1, UploadAssumption DEF Parts, RequestPC, UploadTypeOK, UploadRow
  <2>3. Slot("mkdir", i, v, upload.parts) \in RequestSlot
    BY <2>2, SlotsTyped
  <2>4. req' \in [Requests -> RequestSlot]
    BY <1>1, <2>1, <2>3 DEF PartCheck, UploadTypeOK
  <2>5. \A q \in Requests : SlotReady(req'[q])
    BY <1>1, <2>1 DEF PartCheck, SlotsReady, SlotReady, Slot, UploadTypeOK
  <2>6. QED
    BY <1>1, <2>1, <2>4, <2>5
       DEF UploadTypeInv, UploadTypeOK, SlotsReady, SlotReady, PartCheck, FilesStay, MediaStays, Parts
<1>3. CASE CompleteCheck(r)
  <2>1. 0 \in 0..NParts /\ "claim" \in RequestPC /\ Parts \in SUBSET Parts
    BY UploadAssumption DEF RequestPC
  <2>2. Slot("claim", 0, Null, Parts) \in RequestSlot
    BY <2>1, SlotsTyped
  <2>3. req' \in [Requests -> RequestSlot]
    BY <1>1, <1>3, <2>2 DEF CompleteCheck, UploadTypeOK
  <2>4. \A q \in Requests : SlotReady(req'[q])
    BY <1>1, <1>3 DEF CompleteCheck, SlotsReady, SlotReady, Slot, UploadTypeOK
  <2>5. QED
    BY <1>1, <1>3, <2>3, <2>4
       DEF UploadTypeInv, UploadTypeOK, SlotsReady, SlotReady, CompleteCheck, FilesStay, MediaStays, Parts
<1>4. ASSUME NEW status \in {"CANCELLED", "EXPIRED"}, BeginRemoval(r, status)
      PROVE  req' \in [Requests -> RequestSlot] /\ SlotsReady'
  <2>1. Removal(status) \in RequestSlot
    BY UploadAssumption DEF Removal, RequestSlot, RequestPC
  <2>2. Removal(status).pc = "removeFiles"
    BY DEF Removal
  <2>3. req' \in [Requests -> RequestSlot]
    BY <1>1, <1>4, <2>1 DEF BeginRemoval, UploadTypeOK
  <2>4. \A q \in Requests : SlotReady(req'[q])
    BY <1>1, <1>4, <2>2 DEF BeginRemoval, SlotsReady, SlotReady, UploadTypeOK
  <2>5. QED
    BY <2>3, <2>4 DEF SlotsReady, SlotReady, Parts
<1>5. CASE CancelCheck(r)
  BY <1>1, <1>4, <1>5 DEF UploadTypeInv, UploadTypeOK, CancelCheck, FilesStay, MediaStays, Parts
<1>6. CASE CleanupCheck(r)
  BY <1>1, <1>4, <1>6 DEF UploadTypeInv, UploadTypeOK, CleanupCheck, FilesStay, MediaStays, Parts
<1>7. QED
  BY <1>2, <1>3, <1>5, <1>6 DEF Begins

\* A statement that receives a part keeps the types.
LEMMA PartTypes ==
  ASSUME UploadTypeInv, NEW r \in Requests, PartStep(r)
  PROVE  UploadTypeInv'
<1>1. UploadTypeOK /\ SlotsReady /\ SlotReady(req[r]) /\ req[r] \in RequestSlot
  BY DEF UploadTypeInv, SlotsReady, UploadTypeOK
<1>2. CASE PartMkdir(r)
  <2>1. req' \in [Requests -> RequestSlot] /\ SlotsReady'
    BY <1>1, <1>2, GotoReady, ReplyReady DEF PartMkdir, RequestPC, SlotReady
  <2>2. QED
    BY <1>1, <1>2, <2>1 DEF UploadTypeInv, UploadTypeOK, PartMkdir, MediaStays, Parts
<1>3. CASE PartRemove(r)
  <2>1. req' \in [Requests -> RequestSlot] /\ SlotsReady'
    BY <1>1, <1>3, GotoReady DEF PartRemove, RequestPC, SlotReady
  <2>2. QED
    BY <1>1, <1>3, <2>1 DEF UploadTypeInv, UploadTypeOK, PartRemove, MediaStays, Parts
<1>4. CASE PartRename(r)
  <2>1. req' \in [Requests -> RequestSlot] /\ SlotsReady'
    BY <1>1, <1>4, GotoReady, ReplyReady DEF PartRename, RequestPC, SlotReady
  <2>2. part' \in [Parts -> Versions \cup {Null}]
    BY <1>1, <1>4 DEF PartRename, UploadTypeOK, RequestSlot
  <2>3. QED
    BY <1>1, <1>4, <2>1, <2>2 DEF UploadTypeInv, UploadTypeOK, PartRename, MediaStays, Parts
<1>5. CASE PartConfirm(r)
  <2>1. req' \in [Requests -> RequestSlot] /\ SlotsReady'
    BY <1>1, <1>5, ReplyReady DEF PartConfirm
  <2>2. upload' \in UploadRow
    BY <1>1, <1>5 DEF PartConfirm, UploadRow, UploadStatus, RequestSlot, SlotReady
  <2>3. QED
    BY <1>1, <1>5, <2>1, <2>2 DEF UploadTypeInv, UploadTypeOK, PartConfirm, FilesStay, MediaStays, Parts
<1>6. CASE PartFails(r)
  BY <1>1, <1>6, ReplyReady DEF UploadTypeInv, UploadTypeOK, PartFails, FilesStay, MediaStays, Parts
<1>7. QED
  BY <1>2, <1>3, <1>4, <1>5, <1>6 DEF PartStep

\* A statement of an assembly keeps the types.
LEMMA CompleteTypes ==
  ASSUME UploadTypeInv, NEW r \in Requests, CompleteStep(r)
  PROVE  UploadTypeInv'
<1>1. UploadTypeOK /\ SlotsReady /\ SlotReady(req[r]) /\ req[r] \in RequestSlot
  BY DEF UploadTypeInv, SlotsReady, UploadTypeOK
<1>2. CASE Claim(r)
  <2>1. req' \in [Requests -> RequestSlot] /\ SlotsReady'
    BY <1>1, <1>2, GotoReady, ReplyReady DEF Claim, RequestPC, SlotReady
  <2>2. upload' \in UploadRow
    BY <1>1, <1>2 DEF Claim, UploadTypeOK, UploadRow, UploadStatus
  <2>3. QED
    BY <1>1, <1>2, <2>1, <2>2 DEF UploadTypeInv, UploadTypeOK, Claim, FilesStay, MediaStays, Parts
<1>3. CASE ClearAssembled(r)
  <2>1. 0 \in Parts
    BY UploadAssumption DEF Parts
  <2>2. req' \in [Requests -> RequestSlot] /\ SlotsReady'
    BY <1>1, <1>3, <2>1, GotoReady DEF ClearAssembled, RequestPC, SlotReady
  <2>3. assembled' \in File
    BY <1>3 DEF ClearAssembled, File
  <2>4. QED
    BY <1>1, <1>3, <2>2, <2>3 DEF UploadTypeInv, UploadTypeOK, ClearAssembled, MediaStays, Parts
<1>4. CASE AppendPart(r)
  <2>1. req[r].index \in Parts /\ part[req[r].index] \in Versions
    BY <1>1, <1>4 DEF AppendPart, SlotReady, UploadTypeOK
  <2>2. assembled' \in File
    BY <1>1, <1>4, <2>1 DEF AppendPart, UploadTypeOK, File
  <2>3. /\ req[r].index + 1 \in 0..NParts
        /\ req[r].index + 1 # NParts => req[r].index + 1 \in Parts
    BY <2>1, UploadAssumption DEF Parts
  <2>4. req' \in [Requests -> RequestSlot]
    BY <1>1, <1>4, <2>3 DEF AppendPart, UploadTypeOK, RequestSlot, RequestPC
  <2>5. \A q \in Requests : SlotReady(req'[q])
    BY <1>1, <1>4, <2>3 DEF AppendPart, UploadTypeOK, RequestSlot, SlotsReady, SlotReady
  <2>6. QED
    BY <1>1, <1>4, <2>2, <2>4, <2>5
       DEF UploadTypeInv, UploadTypeOK, SlotsReady, SlotReady, AppendPart, MediaStays, Parts
<1>5. CASE Put(r) \/ CopyEnds(r) \/ RemoveSource(r)
  <2>1. req' \in [Requests -> RequestSlot] /\ SlotsReady'
    BY <1>1, <1>5, GotoReady DEF Put, CopyEnds, RemoveSource, RequestPC, SlotReady
  <2>2. video' \in File /\ assembled' \in File /\ partial' \in BOOLEAN
    <3>1. <<>> \in File
      BY DEF File
    <3>2. QED
      BY <1>1, <1>5, <3>1
         DEF Put, CopyEnds, RemoveSource, UploadTypeOK, FilesStay, MediaStays
  <2>3. QED
    BY <1>1, <1>5, <2>1, <2>2
       DEF UploadTypeInv, UploadTypeOK, Put, CopyEnds, RemoveSource, FilesStay, MediaStays, Parts
<1>6. CASE Finish(r)
  <2>1. req' \in [Requests -> RequestSlot] /\ SlotsReady'
    BY <1>1, <1>6, GotoReady DEF Finish, RequestPC, SlotReady
  <2>2. upload' \in UploadRow
    BY <1>1, <1>6 DEF Finish, UploadTypeOK, UploadRow, UploadStatus
  <2>3. QED
    BY <1>1, <1>6, <2>1, <2>2 DEF UploadTypeInv, UploadTypeOK, Finish, FilesStay, MediaStays, Parts
<1>7. CASE Purge(r) \/ PurgeFails(r)
  <2>1. req' \in [Requests -> RequestSlot] /\ SlotsReady'
    BY <1>1, <1>7, GotoReady, ReplyReady DEF Purge, PurgeFails, RequestPC
  <2>2. part' \in [Parts -> Versions \cup {Null}]
    <3>1. CASE Purge(r)
      BY <3>1 DEF Purge, NoParts
    <3>2. CASE PurgeFails(r)
      BY <1>1, <3>2 DEF PurgeFails, UploadTypeOK
    <3>3. QED
      BY <1>7, <3>1, <3>2
  <2>3. QED
    BY <1>1, <1>7, <2>1, <2>2
       DEF UploadTypeInv, UploadTypeOK, Purge, PurgeFails, MediaStays, Parts
<1>8. CASE Catch(r)
  <2>1. req' \in [Requests -> RequestSlot] /\ SlotsReady'
    BY <1>1, <1>8, GotoReady DEF Catch, RequestPC, SlotReady
  <2>2. assembled' \in File
    <3>1. <<>> \in File
      BY DEF File
    <3>2. QED
      BY <1>1, <1>8, <3>1 DEF Catch, UploadTypeOK
  <2>3. QED
    BY <1>1, <1>8, <2>1, <2>2 DEF UploadTypeInv, UploadTypeOK, Catch, MediaStays, Parts
<1>9. CASE Recover(r)
  <2>1. req' \in [Requests -> RequestSlot] /\ SlotsReady'
    BY <1>1, <1>9, ReplyReady DEF Recover
  <2>2. upload' \in UploadRow
    BY <1>1, <1>9 DEF Recover, UploadTypeOK, UploadRow, UploadStatus
  <2>3. QED
    BY <1>1, <1>9, <2>1, <2>2 DEF UploadTypeInv, UploadTypeOK, Recover, FilesStay, MediaStays, Parts
<1>10. CASE Unput(r)
  <2>1. req' \in [Requests -> RequestSlot] /\ SlotsReady'
    BY <1>1, <1>10, GotoReady DEF Unput, RequestPC, SlotReady
  <2>2. video' \in File /\ partial' \in BOOLEAN
    <3>1. <<>> \in File
      BY DEF File
    <3>2. QED
      BY <1>1, <1>10, <3>1 DEF Unput, UploadTypeOK
  <2>3. QED
    BY <1>1, <1>10, <2>1, <2>2 DEF UploadTypeInv, UploadTypeOK, Unput, FilesStay, Parts
<1>11. CASE Register(r)
  <2>1. req' \in [Requests -> RequestSlot] /\ SlotsReady'
    BY <1>1, <1>11, GotoReady DEF Register, RequestPC, SlotReady
  <2>2. QED
    BY <1>1, <1>11, <2>1 DEF UploadTypeInv, UploadTypeOK, Register, FilesStay, Parts
<1>12. CASE \/ CheckAssembled(r) \/ Validate(r) \/ RegisterRefused(r) \/ EnqueueProcessing(r)
            \/ AssemblyFails(r)
  <2>1. req' \in [Requests -> RequestSlot] /\ SlotsReady'
    BY <1>1, <1>12, GotoReady
       DEF CheckAssembled, Validate, RegisterRefused, EnqueueProcessing, AssemblyFails,
           RequestPC, SlotReady
  <2>2. QED
    BY <1>1, <1>12, <2>1
       DEF UploadTypeInv, UploadTypeOK, CheckAssembled, Validate, RegisterRefused,
           EnqueueProcessing, AssemblyFails, FilesStay, MediaStays, Parts
<1>13. QED
  BY <1>2, <1>3, <1>4, <1>5, <1>6, <1>7, <1>8, <1>9, <1>10, <1>11, <1>12 DEF CompleteStep

\* A statement of a cancellation or of a cleanup keeps the types.
LEMMA RemovalTypes ==
  ASSUME UploadTypeInv, NEW r \in Requests, RemovalStep(r)
  PROVE  UploadTypeInv'
<1>1. UploadTypeOK /\ SlotsReady /\ SlotReady(req[r]) /\ req[r] \in RequestSlot
  BY DEF UploadTypeInv, SlotsReady, UploadTypeOK
<1>2. CASE RemoveParts(r)
  <2>1. req' \in [Requests -> RequestSlot] /\ SlotsReady'
    BY <1>1, <1>2, GotoReady DEF RemoveParts, RequestPC, SlotReady
  <2>2. part' \in [Parts -> Versions \cup {Null}]
    BY <1>2 DEF RemoveParts, NoParts
  <2>3. QED
    BY <1>1, <1>2, <2>1, <2>2 DEF UploadTypeInv, UploadTypeOK, RemoveParts, MediaStays, Parts
<1>3. CASE RemoveAssembled(r)
  <2>1. req' \in [Requests -> RequestSlot] /\ SlotsReady'
    BY <1>1, <1>3, GotoReady DEF RemoveAssembled, RequestPC, SlotReady
  <2>2. assembled' \in File
    BY <1>3 DEF RemoveAssembled, File
  <2>3. QED
    BY <1>1, <1>3, <2>1, <2>2 DEF UploadTypeInv, UploadTypeOK, RemoveAssembled, MediaStays, Parts
<1>4. CASE RecordEnd(r)
  <2>1. req' \in [Requests -> RequestSlot] /\ SlotsReady'
    BY <1>1, <1>4, ReplyReady DEF RecordEnd
  <2>2. upload' \in UploadRow
    BY <1>1, <1>4 DEF RecordEnd, UploadTypeOK, UploadRow, UploadStatus, RequestSlot
  <2>3. QED
    BY <1>1, <1>4, <2>1, <2>2 DEF UploadTypeInv, UploadTypeOK, RecordEnd, FilesStay, MediaStays, Parts
<1>5. QED
  BY <1>2, <1>3, <1>4 DEF RemovalStep

\* The inductive form holds at the start.
LEMMA InitTypes == Init => UploadTypeInv
<1>1. SUFFICES ASSUME Init PROVE UploadTypeInv
  OBVIOUS
<1>2. upload \in UploadRow /\ part \in [Parts -> Versions \cup {Null}] /\ crashes \in 0..MaxCrashes
  BY <1>1, UploadAssumption DEF Init, UploadRow, UploadStatus, NoParts
<1>3. assembled \in File /\ video \in File
  BY <1>1 DEF Init, File
<1>4. req \in [Requests -> RequestSlot] /\ SlotsReady
  BY <1>1, SlotsTyped DEF Init, SlotsReady
<1>5. QED
  BY <1>1, <1>2, <1>3, <1>4 DEF Init, UploadTypeInv, UploadTypeOK

\* Every step keeps the inductive form.
LEMMA StepTypes == UploadTypeInv /\ [Next]_vars => UploadTypeInv'
<1>1. ASSUME UploadTypeInv, Initiate \/ Expire PROVE UploadTypeInv'
  BY <1>1 DEF UploadTypeInv, UploadTypeOK, SlotsReady, SlotReady, Initiate, Expire, FilesStay,
              MediaStays, UploadRow, UploadStatus, Parts
<1>2. ASSUME UploadTypeInv, Crash PROVE UploadTypeInv'
  <2>1. req' \in [Requests -> RequestSlot] /\ \A q \in Requests : SlotReady(req'[q])
    BY <1>2, SlotsTyped DEF Crash
  <2>2. crashes' \in 0..MaxCrashes
    BY <1>2, UploadAssumption DEF Crash, UploadTypeInv, UploadTypeOK
  <2>3. QED
    BY <1>2, <2>1, <2>2 DEF UploadTypeInv, UploadTypeOK, SlotsReady, SlotReady, Crash, FilesStay,
                            MediaStays, Parts
<1>3. ASSUME UploadTypeInv, UNCHANGED vars PROVE UploadTypeInv'
  BY <1>3 DEF UploadTypeInv, UploadTypeOK, SlotsReady, SlotReady, vars, Parts
<1>4. QED
  BY <1>1, <1>2, <1>3, BeginsTypes, PartTypes, CompleteTypes, RemovalTypes DEF Next, RequestStep

\* Every variable keeps its type: an assembler never appends past the last
\* part and no part outside 0..NParts-1 is ever confirmed.
THEOREM UploadTypeInvariance == Spec => []UploadTypeOK
<1>1. UploadTypeInv => UploadTypeOK
  BY DEF UploadTypeInv
<1>2. QED
  BY <1>1, InitTypes, StepTypes, PTL DEF Spec
-----------------------------------------------------------------------------
(* The stored video. *)

\* At most one of the overlapping requests completes the upload.
OneCompleter ==
  \A r, s \in Requests : "complete" \in OpsOf[r] /\ "complete" \in OpsOf[s] => r = s

BeforePut == {"append", "check", "validate", "put"}
Stored == {"copy", "source", "register", "enqueue", "finish"}
CompletePC == BeforePut \cup Stored \cup {"claim", "clear", "unput", "purge", "catch", "recover"}

\* What an assembler that has appended s.index parts knows of the file, and one
\* that is past the beginning of the copy of the object.
KnowsFile(s) ==
  /\ s.pc \in {"append", "check"} =>
       /\ Len(assembled) <= s.index
       /\ Len(assembled) = s.index => InOrder(assembled)
  /\ s.pc \in {"validate", "put"} => assembled = <<>> \/ Whole(assembled)
  /\ s.pc \in Stored => Whole(video)
  /\ s.pc \in Stored \ {"copy"} => ~partial

\* The inductive form of RegisteredWhole.
AssemblyInv ==
  /\ OneCompleter
  /\ \A r \in Requests : req[r].pc \in CompletePC => "complete" \in OpsOf[r]
  /\ \A r \in Requests : KnowsFile(req[r])

\* What the two ways of moving a request do to the requests.
LEMMA RequestMoves ==
  ASSUME UploadTypeInv, NEW r \in Requests
  PROVE  /\ \A pc \in RequestPC :
              Goto(r, pc) => /\ \A q \in Requests \ {r} : req'[q] = req[q]
                             /\ req'[r].pc = pc /\ req'[r].index = req[r].index
                             /\ req'[r].ending = req[r].ending
         /\ Reply(r) => /\ \A q \in Requests \ {r} : req'[q] = req[q]
                        /\ req'[r].pc = "idle"
  BY DEF UploadTypeInv, UploadTypeOK, RequestSlot, Goto, Reply, IdleRequest, Slot

\* A step of another request that leaves the assembled file alone or removes it.
LEMMA QuietStep ==
  ASSUME UploadTypeInv, AssemblyInv, NEW r \in Requests,
         assembled' = assembled \/ assembled' = <<>>,
         video' = video, partial' = partial,
         \A q \in Requests \ {r} : req'[q] = req[q],
         \/ req'[r].pc \notin CompletePC
         \/ req'[r].pc = "claim" /\ "complete" \in OpsOf[r]
  PROVE  AssemblyInv'
<1>1. \A q \in Requests : req[q].index \in Nat
  BY UploadAssumption DEF UploadTypeInv, UploadTypeOK, RequestSlot
<1>2. \A q \in Requests : req'[q].pc \in CompletePC => "complete" \in OpsOf[q]
  BY DEF AssemblyInv
<1>3. ASSUME NEW q \in Requests PROVE KnowsFile(req[q])'
  <2>1. CASE q = r
    BY <2>1 DEF KnowsFile, BeforePut, Stored, CompletePC
  <2>2. CASE q # r /\ assembled' = assembled
    BY <2>2 DEF AssemblyInv, KnowsFile, Whole, InOrder
  <2>3. CASE q # r /\ assembled' = <<>>
    BY <1>1, <2>3 DEF AssemblyInv, KnowsFile, Whole, InOrder
  <2>4. QED
    BY <2>1, <2>2, <2>3
<1>4. QED
  BY <1>2, <1>3 DEF AssemblyInv, OneCompleter

\* The requests that are not the completer are at no statement of an assembly.
LEMMA OthersElsewhere ==
  ASSUME AssemblyInv, NEW r \in Requests, req[r].pc \in CompletePC
  PROVE  \A q \in Requests \ {r} : req[q].pc \notin CompletePC
  BY DEF AssemblyInv, OneCompleter

\* The completer is the only one that knows the files.
LEMMA CompleterStep ==
  ASSUME AssemblyInv, NEW r \in Requests, req[r].pc \in CompletePC,
         \A q \in Requests \ {r} : req'[q] = req[q], KnowsFile(req[r])'
  PROVE  AssemblyInv'
<1>1. \A q \in Requests : KnowsFile(req[q])'
  BY OthersElsewhere DEF KnowsFile, CompletePC, BeforePut, Stored
<1>2. \A q \in Requests : req'[q].pc \in CompletePC => "complete" \in OpsOf[q]
  BY DEF AssemblyInv
<1>3. QED
  BY <1>1, <1>2 DEF AssemblyInv, OneCompleter

\* A statement of an assembly keeps the inductive form.
LEMMA AssemblyStep ==
  ASSUME UploadTypeInv, AssemblyInv, NEW r \in Requests, CompleteStep(r)
  PROVE  AssemblyInv'
<1>1. /\ assembled \in File /\ req[r] \in RequestSlot
      /\ SlotReady(req[r]) /\ KnowsFile(req[r])
  BY DEF UploadTypeInv, UploadTypeOK, SlotsReady, AssemblyInv
<1>2. req[r].pc \in CompletePC
  BY DEF CompletePC, BeforePut, Stored, CompleteStep, Claim, ClearAssembled, AppendPart,
         CheckAssembled, Validate, Put, CopyEnds, RemoveSource, Register, RegisterRefused, Unput,
         EnqueueProcessing, Finish, Purge, PurgeFails, AssemblyFails, Catch, Recover
<1>3. \A q \in Requests \ {r} : req'[q] = req[q]
  BY RequestMoves
     DEF CompleteStep, Claim, ClearAssembled, AppendPart, CheckAssembled, Validate, Put, CopyEnds,
         RemoveSource, Register, RegisterRefused, Unput, EnqueueProcessing, Finish, Purge,
         PurgeFails, AssemblyFails, Catch, Recover, RequestPC, UploadTypeInv, UploadTypeOK
<1>4. SUFFICES KnowsFile(req[r])'
  BY <1>2, <1>3, CompleterStep
<1>5. CASE ClearAssembled(r)
  <2>1. req'[r].pc = "append" /\ req'[r].index = 0
    BY <1>1, <1>5, RequestMoves DEF ClearAssembled, RequestPC, SlotReady
  <2>2. QED
    BY <1>5, <2>1 DEF ClearAssembled, KnowsFile, InOrder, Stored
<1>6. CASE AppendPart(r)
  <2> DEFINE i == req[r].index
  <2>1. i \in Parts /\ part[i] \in Versions /\ i \in Nat
    BY <1>1, <1>6 DEF AppendPart, SlotReady, UploadTypeInv, UploadTypeOK, Parts
  <2>2. /\ Len(assembled') = Len(assembled) + 1
        /\ \A k \in 1..Len(assembled) : assembled'[k] = assembled[k]
        /\ assembled'[Len(assembled) + 1] = <<i, part[i]>>
        /\ Len(assembled) \in Nat
    BY <1>1, <1>6, <2>1 DEF AppendPart, File
  <2>3. /\ Len(assembled) <= i
        /\ Len(assembled) = i => InOrder(assembled)
    BY <1>1, <1>6 DEF AppendPart, KnowsFile
  <2>4. Len(assembled') = i + 1 => InOrder(assembled)'
    BY <2>1, <2>2, <2>3 DEF InOrder
  <2>5. req'[r].pc \in {"append", "check"} /\ req'[r].index = i + 1
    BY <1>1, <1>6 DEF AppendPart, UploadTypeInv, UploadTypeOK, RequestSlot
  <2>6. QED
    BY <2>1, <2>2, <2>3, <2>4, <2>5 DEF KnowsFile, Stored
<1>7. CASE CheckAssembled(r)
  <2>1. req'[r].pc = "validate"
    BY <1>7, RequestMoves DEF CheckAssembled, RequestPC
  <2>2. Whole(assembled)
    BY <1>1, <1>7, UploadAssumption DEF CheckAssembled, RightSize, KnowsFile, RequestSlot, Whole
  <2>3. QED
    BY <1>7, <2>1, <2>2 DEF CheckAssembled, FilesStay, KnowsFile, Whole, InOrder, Stored
<1>8. CASE Validate(r)
  <2>1. req'[r].pc = "put"
    BY <1>8, RequestMoves DEF Validate, RequestPC
  <2>2. QED
    BY <1>1, <1>8, <2>1 DEF Validate, FilesStay, KnowsFile, Whole, InOrder, Stored
<1>9. CASE Put(r)
  <2>1. req'[r].pc = "copy"
    BY <1>9, RequestMoves DEF Put, RequestPC
  <2>2. Whole(video)'
    BY <1>1, <1>9 DEF Put, KnowsFile, Whole, InOrder
  <2>3. QED
    BY <2>1, <2>2 DEF KnowsFile, Stored
<1>10. CASE CopyEnds(r)
  <2>1. req'[r].pc = "source"
    BY <1>10, RequestMoves DEF CopyEnds, RequestPC
  <2>2. QED
    BY <1>1, <1>10, <2>1 DEF CopyEnds, KnowsFile, Whole, InOrder, Stored
<1>11. CASE RemoveSource(r) \/ Register(r) \/ EnqueueProcessing(r)
  <2>1. req[r].pc \in Stored \ {"copy"} /\ req'[r].pc \in {"register", "enqueue", "finish"}
    BY <1>11, RequestMoves DEF RemoveSource, Register, EnqueueProcessing, RequestPC, Stored
  <2>2. video' = video /\ partial' = partial
    BY <1>11 DEF RemoveSource, Register, EnqueueProcessing, MediaStays
  <2>3. QED
    BY <1>1, <2>1, <2>2 DEF KnowsFile, Whole, InOrder, Stored
<1>12. CASE \/ Claim(r) \/ RegisterRefused(r) \/ Unput(r) \/ Finish(r) \/ Purge(r)
            \/ PurgeFails(r) \/ AssemblyFails(r) \/ Catch(r) \/ Recover(r)
  <2>1. req'[r].pc \in {"idle", "clear", "unput", "catch", "purge", "recover"}
    BY <1>12, RequestMoves
       DEF Claim, RegisterRefused, Unput, Finish, Purge, PurgeFails, AssemblyFails, Catch,
           Recover, RequestPC
  <2>2. QED
    BY <2>1 DEF KnowsFile, Stored
<1>13. QED
  BY <1>5, <1>6, <1>7, <1>8, <1>9, <1>10, <1>11, <1>12 DEF CompleteStep

\* Every step keeps the inductive form.
LEMMA StepAssembly == UploadTypeInv /\ AssemblyInv /\ [Next]_vars => AssemblyInv'
<1> SUFFICES ASSUME UploadTypeInv, AssemblyInv, [Next]_vars PROVE AssemblyInv'
  OBVIOUS
<1>1. ASSUME assembled' = assembled, video' = video, partial' = partial,
             \A r \in Requests : req'[r] = req[r] \/ req'[r].pc = "idle"
      PROVE  AssemblyInv'
  <2>1. \A r \in Requests : KnowsFile(req[r])'
    BY <1>1 DEF AssemblyInv, KnowsFile, Whole, InOrder, Stored
  <2>2. \A r \in Requests : req'[r].pc \in CompletePC => "complete" \in OpsOf[r]
    BY <1>1 DEF AssemblyInv, CompletePC, BeforePut, Stored
  <2>3. QED
    BY <2>1, <2>2 DEF AssemblyInv, OneCompleter
<1>2. CASE Initiate \/ Expire \/ Crash \/ UNCHANGED vars
  BY <1>1, <1>2 DEF Initiate, Expire, Crash, vars, FilesStay, MediaStays, IdleRequest, Slot
<1>3. ASSUME NEW r \in Requests, Begins(r) \/ CleanupCheck(r) PROVE AssemblyInv'
  <2>1. /\ assembled' = assembled /\ video' = video /\ partial' = partial
        /\ \A q \in Requests \ {r} : req'[q] = req[q]
    BY <1>3 DEF Begins, CleanupCheck, PartCheck, CompleteCheck, CancelCheck, BeginRemoval,
                FilesStay, MediaStays, UploadTypeInv, UploadTypeOK
  <2>2. \/ req'[r].pc \in {"mkdir", "removeFiles"}
        \/ req'[r].pc = "claim" /\ "complete" \in OpsOf[r]
    BY <1>3 DEF Begins, CleanupCheck, PartCheck, CompleteCheck, CancelCheck, BeginRemoval, Begin,
                Removal, Slot, UploadTypeInv, UploadTypeOK
  <2>3. QED
    BY <2>1, <2>2, QuietStep DEF BeforePut, Stored, CompletePC
<1>4. ASSUME NEW r \in Requests, PartStep(r) PROVE AssemblyInv'
  <2>1. assembled' = assembled /\ video' = video /\ partial' = partial
    BY <1>4 DEF PartStep, PartMkdir, PartRemove, PartRename, PartConfirm, PartFails, FilesStay,
                MediaStays
  <2>2. /\ \A q \in Requests \ {r} : req'[q] = req[q]
        /\ req'[r].pc \in {"idle", "remove", "rename", "confirm"}
    BY <1>4, RequestMoves DEF PartStep, PartMkdir, PartRemove, PartRename, PartConfirm,
                              PartFails, RequestPC
  <2>3. QED
    BY <2>1, <2>2, QuietStep DEF BeforePut, Stored, CompletePC
<1>5. ASSUME NEW r \in Requests, RemovalStep(r) PROVE AssemblyInv'
  <2>1. (assembled' = assembled \/ assembled' = <<>>) /\ video' = video /\ partial' = partial
    BY <1>5 DEF RemovalStep, RemoveParts, RemoveAssembled, RecordEnd, FilesStay, MediaStays
  <2>2. /\ \A q \in Requests \ {r} : req'[q] = req[q]
        /\ req'[r].pc \in {"idle", "removeParts", "removeAssembled", "record"}
    BY <1>5, RequestMoves DEF RemovalStep, RemoveParts, RemoveAssembled, RecordEnd, RequestPC
  <2>3. QED
    BY <2>1, <2>2, QuietStep DEF BeforePut, Stored, CompletePC
<1>6. QED
  BY <1>2, <1>3, <1>4, <1>5, AssemblyStep DEF Next, RequestStep

\* The inductive forms of the files hold at the start.
LEMMA InitAssembly == OneCompleter /\ Init => AssemblyInv
<1>1. ASSUME Init, NEW r \in Requests PROVE req[r].pc = "idle"
  BY <1>1 DEF Init, IdleRequest, Slot
<1>2. QED
  BY <1>1 DEF AssemblyInv, KnowsFile, CompletePC, BeforePut, Stored

\* Only a whole object gets a row, whatever cancellations, cleanups, late parts,
\* copies that break off and crashes happen while the upload is assembled, as
\* long as its assemblies do not overlap.
THEOREM WholeVideo == OneCompleter /\ Spec => RegisteredWhole
<1> DEFINE WholeWhenRegistered == ~registered /\ registered' => ~partial' /\ Whole(video')
<1>1. ASSUME UploadTypeInv, AssemblyInv, Next PROVE WholeWhenRegistered
  <2>1. ASSUME NEW r \in Requests, Register(r) PROVE WholeWhenRegistered
    BY <1>1, <2>1 DEF Register, AssemblyInv, KnowsFile, Stored
  <2>2. ASSUME NEW r \in Requests, Begins(r) \/ CleanupCheck(r) \/ RequestStep(r), ~Register(r)
        PROVE  registered' = registered
    BY <2>2 DEF Begins, CleanupCheck, PartCheck, CompleteCheck, CancelCheck, RequestStep, PartStep,
                CompleteStep, RemovalStep, PartMkdir, PartRemove, PartRename, PartConfirm,
                PartFails, Claim, ClearAssembled, AppendPart, CheckAssembled, Validate, Put,
                CopyEnds, RemoveSource, RegisterRefused, Unput, EnqueueProcessing, Finish, Purge,
                PurgeFails, AssemblyFails, Catch, Recover, RemoveParts, RemoveAssembled, RecordEnd,
                MediaStays
  <2>3. QED
    BY <1>1, <2>1, <2>2 DEF Next, Initiate, Expire, Crash, MediaStays
<1>2. UploadTypeInv /\ AssemblyInv /\ [Next]_vars => [WholeWhenRegistered]_vars
  BY <1>1
<1>3. QED
  BY <1>2, InitAssembly, InitTypes, StepTypes, StepAssembly, PTL DEF Spec, RegisteredWhole

-----------------------------------------------------------------------------
(* The completed upload. *)

\* The statements whose successors write the object.
Writing == CompletePC \ {"claim", "purge", "catch", "recover"}

\* What a completer knows of the row.
KnowsRow(s) ==
  /\ s.pc \in Writing => upload.status # "COMPLETED"
  /\ s.pc \in {"enqueue", "finish"} => registered

\* The inductive form of CompletedRegistered.
CompletionInv == CompletedRegistered /\ \A r \in Requests : KnowsRow(req[r])

\* A step that changes neither the video nor its row nor completes the upload,
\* and does not take a request to a statement of an assembly.
LEMMA UnrelatedStep ==
  ASSUME CompletionInv, NEW r \in Requests, MediaStays,
         upload'.status = upload.status \/ upload'.status # "COMPLETED",
         \A q \in Requests \ {r} : req'[q] = req[q],
         req'[r].pc \notin Writing
  PROVE  CompletionInv'
  BY DEF CompletionInv, CompletedRegistered, KnowsRow, Writing, CompletePC, BeforePut, Stored,
         MediaStays, Whole, InOrder

\* A statement of an assembly keeps the inductive form.
LEMMA CompletionStep ==
  ASSUME UploadTypeInv, AssemblyInv, CompletionInv, NEW r \in Requests, CompleteStep(r)
  PROVE  CompletionInv'
<1>1. req[r].pc \in CompletePC /\ KnowsRow(req[r]) /\ KnowsFile(req[r]) /\ CompletedRegistered
  BY DEF CompletionInv, AssemblyInv, CompletePC, BeforePut, Stored, CompleteStep, Claim,
         ClearAssembled, AppendPart, CheckAssembled, Validate, Put, CopyEnds, RemoveSource,
         Register, RegisterRefused, Unput, EnqueueProcessing, Finish, Purge, PurgeFails,
         AssemblyFails, Catch, Recover
<1>2. \A q \in Requests \ {r} : req[q].pc \notin CompletePC
  BY <1>1, OthersElsewhere
<1>3. \A q \in Requests \ {r} : req'[q] = req[q]
  BY RequestMoves
     DEF CompleteStep, Claim, ClearAssembled, AppendPart, CheckAssembled, Validate, Put, CopyEnds,
         RemoveSource, Register, RegisterRefused, Unput, EnqueueProcessing, Finish, Purge,
         PurgeFails, AssemblyFails, Catch, Recover, RequestPC, UploadTypeInv, UploadTypeOK
<1>4. ASSUME KnowsRow(req[r])', CompletedRegistered' PROVE CompletionInv'
  BY <1>2, <1>3, <1>4 DEF CompletionInv, KnowsRow, Writing, CompletePC, BeforePut, Stored
<1>5. ASSUME req[r].pc \in Writing, upload' = upload, req'[r].pc \notin {"enqueue", "finish"}
      PROVE  CompletionInv'
  BY <1>1, <1>4, <1>5 DEF KnowsRow, CompletedRegistered
<1>6. CASE Claim(r)
  <2>1. CASE upload.status \in Open
    <3>1. upload'.status = "ASSEMBLING" /\ req'[r].pc = "clear"
      BY <1>6, <2>1, RequestMoves DEF Claim, RequestPC, UploadTypeInv, UploadTypeOK, UploadRow
    <3>2. QED
      BY <1>4, <3>1 DEF KnowsRow, CompletedRegistered
  <2>2. CASE upload.status \notin Open
    <3>1. req'[r].pc = "idle" /\ upload' = upload /\ MediaStays
      BY <1>6, <2>2, RequestMoves DEF Claim
    <3>2. QED
      BY <1>3, <3>1, UnrelatedStep DEF Writing, CompletePC, BeforePut, Stored
  <2>3. QED
    BY <2>1, <2>2
<1>7. CASE \/ ClearAssembled(r) \/ AppendPart(r) \/ CheckAssembled(r) \/ Validate(r) \/ Put(r)
           \/ CopyEnds(r) \/ RemoveSource(r) \/ RegisterRefused(r) \/ Unput(r) \/ AssemblyFails(r)
  <2>1. req'[r].pc \in {"append", "check", "validate", "put", "copy", "source", "register",
                        "unput", "catch"}
    BY <1>7, RequestMoves
       DEF ClearAssembled, AppendPart, CheckAssembled, Validate, Put, CopyEnds, RemoveSource,
           RegisterRefused, Unput, AssemblyFails, RequestPC, UploadTypeInv, UploadTypeOK,
           RequestSlot
  <2>2. req[r].pc \in Writing /\ upload' = upload
    BY <1>7 DEF ClearAssembled, AppendPart, CheckAssembled, Validate, Put, CopyEnds, RemoveSource,
                RegisterRefused, Unput, AssemblyFails, Writing, CompletePC, BeforePut, Stored,
                FilesStay
  <2>3. QED
    BY <1>5, <2>1, <2>2
<1>8. CASE Register(r) \/ EnqueueProcessing(r)
  <2>1. req[r].pc \in {"register", "enqueue"} /\ upload' = upload /\ registered'
    BY <1>1, <1>8 DEF Register, EnqueueProcessing, KnowsRow, MediaStays
  <2>2. upload.status # "COMPLETED"
    BY <1>1, <2>1 DEF KnowsRow, Writing, CompletePC, Stored
  <2>3. QED
    BY <1>4, <2>1, <2>2 DEF KnowsRow, CompletedRegistered
<1>9. CASE Finish(r)
  <2>1. /\ req'[r].pc = "purge" /\ registered /\ MediaStays
        /\ Whole(video) /\ ~partial
    BY <1>1, <1>9, RequestMoves DEF Finish, RequestPC, KnowsRow, KnowsFile, Stored
  <2>2. registered' /\ Whole(video)' /\ ~partial'
    BY <2>1 DEF MediaStays, Whole, InOrder
  <2>3. QED
    BY <1>4, <2>1, <2>2 DEF KnowsRow, Writing, CompletedRegistered
<1>10. CASE Purge(r) \/ PurgeFails(r) \/ Catch(r) \/ Recover(r)
  <2>1. req'[r].pc \in {"idle", "catch", "recover"} /\ MediaStays
    BY <1>10, RequestMoves DEF Purge, PurgeFails, Catch, Recover, RequestPC
  <2>2. upload' = upload \/ upload'.status # "COMPLETED"
    BY <1>10 DEF Purge, PurgeFails, Catch, Recover, UploadTypeInv, UploadTypeOK, UploadRow
  <2>3. QED
    BY <1>3, <2>1, <2>2, UnrelatedStep DEF Writing, CompletePC, BeforePut, Stored
<1>11. QED
  BY <1>6, <1>7, <1>8, <1>9, <1>10 DEF CompleteStep

\* Every step keeps the inductive form.
LEMMA StepCompletion ==
  UploadTypeInv /\ AssemblyInv /\ CompletionInv /\ [Next]_vars => CompletionInv'
<1> SUFFICES ASSUME UploadTypeInv, AssemblyInv, CompletionInv, [Next]_vars PROVE CompletionInv'
  OBVIOUS
<1>1. ASSUME NEW r \in Requests, Begins(r) \/ CleanupCheck(r) PROVE CompletionInv'
  <2>1. /\ upload' = upload /\ MediaStays
        /\ \A q \in Requests \ {r} : req'[q] = req[q]
        /\ req'[r].pc \in {"mkdir", "removeFiles", "claim"}
    BY <1>1 DEF Begins, CleanupCheck, PartCheck, CompleteCheck, CancelCheck, BeginRemoval,
                Removal, Slot, UploadTypeInv, UploadTypeOK
  <2>2. QED
    BY <2>1, UnrelatedStep DEF Writing, CompletePC, BeforePut, Stored
<1>2. ASSUME NEW r \in Requests, PartStep(r) \/ RemovalStep(r) PROVE CompletionInv'
  <2>0. ASSUME RecordEnd(r) PROVE upload'.status # "COMPLETED"
    <3>1. req[r].ending # "COMPLETED"
      BY DEF UploadTypeInv, UploadTypeOK, RequestSlot
    <3>2. upload'.status = req[r].ending
      BY <2>0 DEF RecordEnd, UploadTypeInv, UploadTypeOK, UploadRow
    <3>3. QED
      BY <3>1, <3>2
  <2>1. /\ MediaStays
        /\ upload' = upload \/ upload'.status # "COMPLETED"
    BY <1>2, <2>0 DEF PartStep, PartMkdir, PartRemove, PartRename, PartConfirm, PartFails,
                      FilesStay, RemovalStep, RemoveParts, RemoveAssembled, RecordEnd
  <2>2. /\ \A q \in Requests \ {r} : req'[q] = req[q]
        /\ req'[r].pc \in {"idle", "remove", "rename", "confirm", "removeParts",
                           "removeAssembled", "record"}
    BY <1>2, RequestMoves
       DEF PartStep, PartMkdir, PartRemove, PartRename, PartConfirm, PartFails,
           RemovalStep, RemoveParts, RemoveAssembled, RecordEnd, RequestPC
  <2>3. QED
    BY <2>1, <2>2, UnrelatedStep DEF Writing, CompletePC, BeforePut, Stored
<1>3. CASE Initiate \/ Expire \/ UNCHANGED vars
  <2>1. MediaStays /\ req' = req /\ (upload'.status = upload.status \/ upload'.status = "INITIATED")
    BY <1>3 DEF Initiate, Expire, vars, MediaStays, UploadTypeInv, UploadTypeOK, UploadRow
  <2>2. QED
    BY <2>1 DEF MediaStays, CompletionInv, CompletedRegistered, KnowsRow, Whole, InOrder
<1>4. CASE Crash
  BY <1>4 DEF Crash, MediaStays, CompletionInv, CompletedRegistered, KnowsRow, Writing,
              CompletePC, BeforePut, Stored, IdleRequest, Slot, Whole, InOrder
<1>5. QED
  BY <1>1, <1>2, <1>3, <1>4, CompletionStep DEF Next, RequestStep

\* A completed upload has its registered, whole video: a completion that
\* repeats one which failed past the registration copies over the object, is
\* refused its row and is not recorded as completed.
THEOREM CompletedUpload == OneCompleter /\ Spec => []CompletedRegistered
<1>1. Init => CompletionInv
  BY DEF Init, CompletionInv, CompletedRegistered, KnowsRow, Writing, CompletePC, BeforePut,
         Stored, IdleRequest, Slot
<1>2. CompletionInv => CompletedRegistered
  BY DEF CompletionInv
<1>3. QED
  BY <1>1, <1>2, InitAssembly, InitTypes, StepTypes, StepAssembly, StepCompletion, PTL DEF Spec

-----------------------------------------------------------------------------
(* The declared content. *)

Declared(f) == \A k \in 1..Len(f) : f[k][2] = Checksum

\* The inductive form of StoredAsDeclared: past the check the assembled file is
\* the declared one, or was removed; nobody appends to it again.
DeclaredInv ==
  /\ StoredAsDeclared
  /\ \A r \in Requests :
       Checksum # Null /\ req[r].pc \in {"validate", "put"} => Declared(assembled)

\* A statement that neither checks the assembled file nor appends to it.
LEMMA DeclaredQuiet ==
  ASSUME DeclaredInv, NEW r \in Requests,
         assembled' = assembled \/ assembled' = <<>>,
         video' = video \/ video' = <<>>,
         \A q \in Requests \ {r} : req'[q] = req[q],
         req'[r].pc \in {"validate", "put"} => req[r].pc \in {"validate", "put"}
  PROVE  DeclaredInv'
<1>1. ASSUME NEW f, f = <<>> PROVE Declared(f)
  BY <1>1 DEF Declared
<1>2. StoredAsDeclared'
  BY DEF DeclaredInv, StoredAsDeclared
<1>3. ASSUME NEW q \in Requests, Checksum # Null, req'[q].pc \in {"validate", "put"}
      PROVE  Declared(assembled')
  BY <1>1, <1>3 DEF DeclaredInv
<1>4. QED
  BY <1>2, <1>3 DEF DeclaredInv, Declared

\* Every step keeps the inductive form.
LEMMA StepDeclared ==
  UploadTypeInv /\ AssemblyInv /\ DeclaredInv /\ [Next]_vars => DeclaredInv'
<1> SUFFICES ASSUME UploadTypeInv, AssemblyInv, DeclaredInv, [Next]_vars PROVE DeclaredInv'
  OBVIOUS
<1>1. CASE Initiate \/ Expire \/ Crash \/ UNCHANGED vars
  BY <1>1 DEF Initiate, Expire, Crash, vars, FilesStay, MediaStays, IdleRequest, Slot,
              DeclaredInv, StoredAsDeclared, Declared
<1>2. ASSUME NEW r \in Requests, Begins(r) \/ CleanupCheck(r) PROVE DeclaredInv'
  <2>1. /\ assembled' = assembled /\ video' = video
        /\ \A q \in Requests \ {r} : req'[q] = req[q]
        /\ req'[r].pc \in {"mkdir", "removeFiles", "claim"}
    BY <1>2 DEF Begins, CleanupCheck, PartCheck, CompleteCheck, CancelCheck, BeginRemoval,
                Removal, Slot, FilesStay, MediaStays, UploadTypeInv, UploadTypeOK
  <2>2. QED
    BY <2>1, DeclaredQuiet
<1>3. ASSUME NEW r \in Requests, PartStep(r) \/ RemovalStep(r) PROVE DeclaredInv'
  <2>1. (assembled' = assembled \/ assembled' = <<>>) /\ video' = video
    BY <1>3 DEF PartStep, PartMkdir, PartRemove, PartRename, PartConfirm, PartFails, FilesStay,
                MediaStays, RemovalStep, RemoveParts, RemoveAssembled, RecordEnd
  <2>2. /\ \A q \in Requests \ {r} : req'[q] = req[q]
        /\ req'[r].pc \in {"idle", "remove", "rename", "confirm", "removeParts",
                           "removeAssembled", "record"}
    BY <1>3, RequestMoves
       DEF PartStep, PartMkdir, PartRemove, PartRename, PartConfirm, PartFails,
           RemovalStep, RemoveParts, RemoveAssembled, RecordEnd, RequestPC
  <2>3. QED
    BY <2>1, <2>2, DeclaredQuiet
<1>4. ASSUME NEW r \in Requests,
             \/ Claim(r) \/ ClearAssembled(r) \/ Register(r) \/ RegisterRefused(r) \/ Unput(r)
             \/ CopyEnds(r) \/ RemoveSource(r) \/ EnqueueProcessing(r) \/ Finish(r) \/ Purge(r)
             \/ PurgeFails(r) \/ AssemblyFails(r) \/ Catch(r) \/ Recover(r)
      PROVE  DeclaredInv'
  <2>1. /\ assembled' = assembled \/ assembled' = <<>>
        /\ video' = video \/ video' = <<>>
    BY <1>4 DEF Claim, ClearAssembled, CopyEnds, RemoveSource, Register, RegisterRefused, Unput,
                EnqueueProcessing, Finish, Purge, PurgeFails, AssemblyFails, Catch, Recover,
                FilesStay, MediaStays
  <2>2. /\ \A q \in Requests \ {r} : req'[q] = req[q]
        /\ req'[r].pc \in {"idle", "clear", "append", "source", "register", "enqueue",
                           "unput", "catch", "finish", "purge", "recover"}
    BY <1>4, RequestMoves
       DEF Claim, ClearAssembled, CopyEnds, RemoveSource, Register, RegisterRefused, Unput,
           EnqueueProcessing, Finish, Purge, PurgeFails, AssemblyFails, Catch, Recover, RequestPC
  <2>3. QED
    BY <2>1, <2>2, DeclaredQuiet
<1>5. ASSUME NEW r \in Requests, AppendPart(r) PROVE DeclaredInv'
  <2>1. \A q \in Requests \ {r} : req[q].pc \notin BeforePut
    BY <1>5, OthersElsewhere DEF AppendPart, CompletePC, BeforePut, Stored
  <2>2. /\ \A q \in Requests \ {r} : req'[q] = req[q]
        /\ req'[r].pc \in {"append", "check"}
        /\ video' = video
    BY <1>5 DEF AppendPart, MediaStays, UploadTypeInv, UploadTypeOK, RequestSlot
  <2>3. QED
    BY <2>1, <2>2 DEF DeclaredInv, StoredAsDeclared, BeforePut
<1>6. ASSUME NEW r \in Requests, CheckAssembled(r) PROVE DeclaredInv'
  <2>1. ASSUME Checksum # Null PROVE Declared(assembled)
    <3>1. Len(assembled) = NParts /\ \A k \in 1..NParts : assembled[k] = <<k - 1, Checksum>>
      BY <1>6, <2>1 DEF CheckAssembled, RightChecksum, RightSize
    <3>2. QED
      BY <3>1 DEF Declared
  <2>2. assembled' = assembled /\ video' = video
    BY <1>6 DEF CheckAssembled, FilesStay, MediaStays
  <2>3. QED
    BY <2>1, <2>2 DEF DeclaredInv, StoredAsDeclared, Declared
<1>7. ASSUME NEW r \in Requests, Validate(r) PROVE DeclaredInv'
  <2>1. /\ \A q \in Requests \ {r} : req'[q] = req[q]
        /\ req[r].pc = "validate" /\ assembled' = assembled /\ video' = video
    BY <1>7, RequestMoves DEF Validate, RequestPC, FilesStay, MediaStays
  <2>2. QED
    BY <2>1, DeclaredQuiet
<1>8. ASSUME NEW r \in Requests, Put(r) PROVE DeclaredInv'
  <2>1. /\ \A q \in Requests \ {r} : req'[q] = req[q]
        /\ req'[r].pc = "copy" /\ req[r].pc = "put"
        /\ video' = assembled /\ assembled' = assembled
    BY <1>8, RequestMoves DEF Put, FilesStay, RequestPC
  <2>2. QED
    BY <2>1 DEF DeclaredInv, StoredAsDeclared, Declared
<1>9. QED
  BY <1>1, <1>2, <1>3, <1>4, <1>5, <1>6, <1>7, <1>8 DEF Next, RequestStep, CompleteStep

\* What is stored under a declared checksum, whole or the beginning of a copy that
\* broke off, is what it was computed of, though
\* parts of another file are confirmed, or exchanged while the file is appended.
THEOREM DeclaredVideo == OneCompleter /\ Spec => []StoredAsDeclared
<1>1. Init => DeclaredInv
  BY DEF Init, IdleRequest, Slot, DeclaredInv, StoredAsDeclared
<1>2. DeclaredInv => StoredAsDeclared
  BY DEF DeclaredInv
<1>3. QED
  BY <1>1, <1>2, InitAssembly, InitTypes, StepTypes, StepAssembly, StepDeclared, PTL DEF Spec

-----------------------------------------------------------------------------
(* The upload as a session, however many requests overlap. *)

\* The requests of the assembly that has registered the video and may complete.
Publishing == {r \in Requests : req[r].pc \in {"enqueue", "finish"}}

RemovalPC == {"removeFiles", "removeParts", "removeAssembled", "record"}

\* The inductive form of ImplementsSession.
SessionInv ==
  /\ \A r, s \in Publishing : r = s
  /\ Publishing # {} => registered /\ upload.status # "COMPLETED"
  /\ upload.status = "COMPLETED" => registered
  /\ \A r \in Requests : req[r].pc # "idle" => upload.status # "NONE"
  /\ \A r \in Requests : req[r].pc \in RemovalPC => req[r].ending # "NONE"

\* What the administrator sees, as Session is given it.
Phase == IF upload.status \in Open THEN "OPEN" ELSE upload.status
Published == CASE ~registered -> "NO"
               [] registered /\ (\E r \in Requests : req[r].pc \in {"enqueue", "finish"}) -> "NOW"
               [] OTHER -> "BEFORE"

LEMMA PublishedAs ==
  /\ ~registered => Published = "NO"
  /\ registered /\ Publishing # {} => Published = "NOW"
  /\ registered /\ Publishing = {} => Published = "BEFORE"
  BY DEF Published, Publishing

\* The status is one of seven.
LEMMA StatusTyped ==
  ASSUME UploadTypeInv
  PROVE  upload \in UploadRow /\ upload.status \in UploadStatus
  BY DEF UploadTypeInv, UploadTypeOK, UploadRow

\* A step that neither publishes, completes nor gives up a publication.
LEMMA SilentStep ==
  ASSUME SessionInv, NEW r \in Requests, registered' = registered,
         \A q \in Requests \ {r} : req'[q] = req[q],
         (req'[r].pc \in {"enqueue", "finish"}) <=> (req[r].pc \in {"enqueue", "finish"}),
         upload.status # "NONE", upload'.status # "NONE",
         upload'.status = "COMPLETED" => upload.status = "COMPLETED",
         req'[r].pc \in RemovalPC => req'[r].ending # "NONE"
  PROVE  SessionInv' /\ Published' = Published
<1>1. Publishing' = Publishing
  BY DEF Publishing
<1>2. SessionInv'
  BY <1>1 DEF SessionInv
<1>3. Published' = Published
  BY <1>1 DEF Published, Publishing
<1>4. QED
  BY <1>2, <1>3

SessionStep == Session!SessionNext \/ UNCHANGED <<Phase, Published>>

\* The step that opens the session, the passing of time and a crash.
LEMMA EnvironmentSession ==
  ASSUME UploadTypeInv, SessionInv, Initiate \/ Expire \/ Crash
  PROVE  SessionInv' /\ SessionStep
<1>1. CASE Initiate
  <2>1. /\ upload.status = "NONE" /\ upload'.status = "INITIATED"
        /\ req' = req /\ registered' = registered
    BY <1>1, StatusTyped DEF Initiate, MediaStays, UploadRow
  <2>2. Publishing' = Publishing /\ Published' = Published
    BY <2>1 DEF Publishing, Published
  <2>3. SessionInv'
    BY <2>1, <2>2 DEF SessionInv
  <2>4. Session!Open
    BY <2>1, <2>2 DEF Session!Open, Open, Published
  <2>5. QED
    BY <2>3, <2>4 DEF SessionStep, Session!SessionNext
<1>2. CASE Expire
  <2>1. upload'.status = upload.status /\ req' = req /\ registered' = registered
    BY <1>2, StatusTyped DEF Expire, MediaStays, UploadRow
  <2>2. QED
    BY <2>1 DEF SessionInv, SessionStep, Publishing, Phase, Published
<1>3. CASE Crash
  <2>1. /\ upload' = upload /\ registered' = registered
        /\ \A r \in Requests : req'[r].pc = "idle"
    BY <1>3 DEF Crash, IdleRequest, Slot, MediaStays
  <2>2. Publishing' = {}
    BY <2>1 DEF Publishing
  <2>3. SessionInv'
    BY <2>1, <2>2 DEF SessionInv, RemovalPC
  <2>4. CASE Published = "NOW"
    <3>1. registered
      BY <2>4, PublishedAs
    <3>2. Published' = "BEFORE"
      BY <2>1, <2>2, <3>1 DEF Published, Publishing
    <3>3. Session!Abandon
      BY <2>1, <2>4, <3>2 DEF Session!Abandon, Published, Phase
    <3>4. QED
      BY <2>3, <3>3 DEF SessionStep, Session!SessionNext
  <2>5. CASE Published # "NOW"
    <3>1. Published' = Published
      BY <2>1, <2>2, <2>5 DEF Published, Publishing
    <3>2. QED
      BY <2>1, <2>3, <3>1 DEF SessionStep, Phase
  <2>6. QED
    BY <2>4, <2>5
<1>4. QED
  BY <1>1, <1>2, <1>3

\* The statements that write the row or register the video are the steps of a
\* session; the others show nothing of it.
LEMMA RequestSession ==
  ASSUME UploadTypeInv, SessionInv, NEW r \in Requests,
         Begins(r) \/ CleanupCheck(r) \/ RequestStep(r)
  PROVE  SessionInv' /\ SessionStep
<1>0. upload \in UploadRow /\ upload.status \in UploadStatus
  BY StatusTyped
<1>1. ASSUME SessionInv' /\ Published' = Published, upload' = upload
      PROVE  SessionInv' /\ SessionStep
  BY <1>1 DEF SessionStep, Phase
<1>2. CASE Begins(r) \/ CleanupCheck(r)
  <2>1. /\ upload' = upload /\ registered' = registered /\ upload.status # "NONE"
        /\ \A q \in Requests \ {r} : req'[q] = req[q]
        /\ req[r].pc = "idle" /\ req'[r].pc \in {"mkdir", "removeFiles", "claim"}
        /\ req'[r].pc = "removeFiles" => req'[r].ending \in {"CANCELLED", "EXPIRED"}
    BY <1>2 DEF Begins, CleanupCheck, PartCheck, CompleteCheck, CancelCheck, BeginRemoval, Begin,
                Removal, Slot, MediaStays, UploadTypeInv, UploadTypeOK
  <2>2. QED
    BY <1>1, <2>1, SilentStep DEF RemovalPC
<1>3. ASSUME RequestStep(r) PROVE upload.status # "NONE" /\ \A q \in Requests \ {r} : req'[q] = req[q]
  <2>1. req[r].pc # "idle"
    BY <1>3 DEF RequestStep, PartStep, CompleteStep, RemovalStep, PartMkdir, PartRemove,
                PartRename, PartConfirm, PartFails, Claim, ClearAssembled, AppendPart,
                CheckAssembled, Validate, Put, CopyEnds, RemoveSource, Register, RegisterRefused,
                Unput, EnqueueProcessing, Finish, Purge, PurgeFails, AssemblyFails, Catch, Recover,
                RemoveParts, RemoveAssembled, RecordEnd
  <2>2. \A q \in Requests \ {r} : req'[q] = req[q]
    BY <1>3, RequestMoves
       DEF RequestStep, PartStep, CompleteStep, RemovalStep, PartMkdir, PartRemove,
           PartRename, PartConfirm, PartFails, Claim, ClearAssembled, AppendPart,
           CheckAssembled, Validate, Put, CopyEnds, RemoveSource, Register, RegisterRefused,
           Unput, EnqueueProcessing, Finish, Purge, PurgeFails, AssemblyFails, Catch, Recover,
           RemoveParts, RemoveAssembled, RecordEnd, RequestPC, UploadTypeInv, UploadTypeOK
  <2>3. QED
    BY <2>1, <2>2 DEF SessionInv
<1>4. CASE PartConfirm(r) \/ Recover(r)
  <2>1. /\ req[r].pc \in {"confirm", "recover"} /\ req'[r].pc = "idle"
        /\ registered' = registered /\ upload.status # "NONE"
        /\ \A q \in Requests \ {r} : req'[q] = req[q]
    BY <1>3, <1>4, RequestMoves DEF PartConfirm, Recover, MediaStays, RequestStep, PartStep, CompleteStep
  <2>2. upload' = upload \/ upload'.status = "UPLOADING"
    <3>1. CASE PartConfirm(r)
      BY <3>1 DEF PartConfirm
    <3>2. CASE Recover(r)
      BY <1>0, <3>2 DEF Recover, UploadRow
    <3>3. QED
      BY <1>4, <3>1, <3>2
  <2>3. SessionInv' /\ Published' = Published
    BY <2>1, <2>2, SilentStep DEF RemovalPC
  <2>4. CASE upload'.status = "UPLOADING"
    <3>1. Session!Reopen
      BY <2>1, <2>3, <2>4 DEF Session!Reopen, Session!Begun, Open, Published
    <3>2. QED
      BY <2>3, <3>1 DEF SessionStep, Session!SessionNext
  <2>5. QED
    BY <1>1, <2>2, <2>3, <2>4
<1>5. CASE Claim(r)
  <2>1. /\ req[r].pc = "claim" /\ req'[r].pc \in {"clear", "idle"}
        /\ registered' = registered /\ upload.status # "NONE"
        /\ \A q \in Requests \ {r} : req'[q] = req[q]
    BY <1>3, <1>5, RequestMoves DEF Claim, MediaStays, RequestStep, CompleteStep, RequestPC
  <2>2. \/ upload' = upload
        \/ upload.status \in Open /\ upload'.status = "ASSEMBLING"
    BY <1>0, <1>5 DEF Claim, UploadRow
  <2>3. SessionInv' /\ Published' = Published
    BY <2>1, <2>2, SilentStep DEF RemovalPC
  <2>4. CASE upload.status \in Open /\ upload'.status = "ASSEMBLING"
    <3>1. Session!Assemble
      BY <2>3, <2>4 DEF Session!Assemble, Open, Published
    <3>2. QED
      BY <2>3, <3>1 DEF SessionStep, Session!SessionNext
  <2>5. QED
    BY <1>1, <2>2, <2>3, <2>4
<1>6. CASE RecordEnd(r)
  <2>1. /\ req[r].pc = "record" /\ req'[r].pc = "idle"
        /\ registered' = registered /\ upload.status # "NONE"
        /\ \A q \in Requests \ {r} : req'[q] = req[q]
    BY <1>3, <1>6, RequestMoves DEF RecordEnd, MediaStays, RequestStep, RemovalStep
  <2>2. upload'.status = req[r].ending /\ req[r].ending \in {"NONE", "CANCELLED", "EXPIRED"}
    BY <1>0, <1>6 DEF RecordEnd, UploadRow, UploadTypeInv, UploadTypeOK, RequestSlot
  <2>3. req[r].ending # "NONE"
    BY <1>6, <2>1 DEF SessionInv, RemovalPC
  <2>4. SessionInv' /\ Published' = Published
    BY <2>1, <2>2, <2>3, SilentStep DEF RemovalPC
  <2>5. Session!End
    BY <2>1, <2>2, <2>3, <2>4 DEF Session!End, Session!Begun, Open, Published
  <2>6. QED
    BY <2>4, <2>5 DEF SessionStep, Session!SessionNext
<1>7. CASE Register(r)
  <2>1. /\ ~registered /\ registered' /\ upload' = upload
        /\ req'[r].pc = "enqueue" /\ upload.status \notin {"NONE", "COMPLETED"}
        /\ \A q \in Requests \ {r} : req'[q] = req[q]
    BY <1>3, <1>7, RequestMoves DEF Register, SessionInv, RequestStep, CompleteStep, RequestPC
  <2>2. Publishing = {} /\ Publishing' = {r}
    BY <2>1 DEF SessionInv, Publishing
  <2>3. SessionInv'
    BY <2>1, <2>2 DEF SessionInv, RemovalPC
  <2>4. Published = "NO" /\ Published' = "NOW"
    BY <2>1, <2>2 DEF Published, Publishing
  <2>5. Session!Publish
    BY <2>1, <2>4 DEF Session!Publish, Session!Begun, Open, Published
  <2>6. QED
    BY <2>3, <2>5 DEF SessionStep, Session!SessionNext
<1>8. CASE Finish(r) \/ (AssemblyFails(r) /\ r \in Publishing)
  <2>1. /\ r \in Publishing /\ registered /\ registered' = registered
        /\ req'[r].pc \in {"purge", "catch"} /\ upload.status \notin {"NONE", "COMPLETED"}
        /\ \A q \in Requests \ {r} : req'[q] = req[q]
    BY <1>3, <1>8, RequestMoves
       DEF Finish, AssemblyFails, SessionInv, Publishing, RequestStep, CompleteStep, RequestPC,
           MediaStays
  <2>2. Publishing' = {}
    BY <2>1 DEF SessionInv, Publishing
  <2>3. Published = "NOW" /\ Published' = "BEFORE"
    BY <2>1, <2>2 DEF Published, Publishing
  <2>4. upload' = upload \/ upload'.status = "COMPLETED"
    <3>1. CASE Finish(r)
      BY <1>0, <3>1 DEF Finish, UploadRow
    <3>2. CASE AssemblyFails(r)
      BY <3>2 DEF AssemblyFails
    <3>3. QED
      BY <1>8, <3>1, <3>2
  <2>5. SessionInv'
    BY <2>1, <2>2, <2>4 DEF SessionInv, RemovalPC
  <2>6. CASE upload' = upload
    <3>1. Session!Abandon
      BY <2>3, <2>6 DEF Session!Abandon, Published
    <3>2. QED
      BY <2>5, <3>1 DEF SessionStep, Session!SessionNext
  <2>7. CASE upload'.status = "COMPLETED"
    <3>1. Session!Complete
      BY <2>1, <2>3, <2>7 DEF Session!Complete, Session!Begun, Open, Published
    <3>2. QED
      BY <2>5, <3>1 DEF SessionStep, Session!SessionNext
  <2>8. QED
    BY <2>4, <2>6, <2>7
<1>9. CASE EnqueueProcessing(r)
  <2>1. /\ req[r].pc = "enqueue" /\ req'[r].pc = "finish"
        /\ registered' = registered /\ upload' = upload
    BY <1>9, RequestMoves DEF EnqueueProcessing, MediaStays, RequestPC
  <2>2. QED
    BY <1>1, <1>3, <1>9, <2>1, SilentStep DEF RequestStep, CompleteStep, RemovalPC
<1>10. ASSUME RequestStep(r), ~PartConfirm(r), ~Recover(r), ~Claim(r), ~RecordEnd(r), ~Register(r),
              ~Finish(r), ~EnqueueProcessing(r), AssemblyFails(r) => r \notin Publishing
       PROVE  SessionInv' /\ SessionStep
  <2>1. upload' = upload /\ registered' = registered
    BY <1>10
       DEF RequestStep, PartStep, CompleteStep, RemovalStep, PartMkdir, PartRemove, PartRename,
           PartFails, ClearAssembled, AppendPart, CheckAssembled, Validate, Put, CopyEnds,
           RemoveSource, RegisterRefused, Unput, Purge, PurgeFails, AssemblyFails, Catch,
           RemoveParts, RemoveAssembled, FilesStay, MediaStays
  <2>2. req[r].pc \notin {"enqueue", "finish"}
    BY <1>10
       DEF RequestStep, PartStep, CompleteStep, RemovalStep, PartMkdir, PartRemove, PartRename,
           PartFails, ClearAssembled, AppendPart, CheckAssembled, Validate, Put, CopyEnds,
           RemoveSource, RegisterRefused, Unput, Purge, PurgeFails, AssemblyFails, Catch,
           RemoveParts, RemoveAssembled, Publishing
  <2>3. req'[r].pc \notin {"enqueue", "finish"}
    BY <1>10, RequestMoves
       DEF RequestStep, PartStep, CompleteStep, RemovalStep, PartMkdir, PartRemove, PartRename,
           PartFails, ClearAssembled, AppendPart, CheckAssembled, Validate, Put, CopyEnds,
           RemoveSource, RegisterRefused, Unput, Purge, PurgeFails, AssemblyFails, Catch,
           RemoveParts, RemoveAssembled, RequestPC, UploadTypeInv, UploadTypeOK, RequestSlot
  <2>4. req'[r].pc \in RemovalPC => req'[r].ending # "NONE"
    <3>1. ASSUME RemovalStep(r) PROVE req[r].pc \in RemovalPC /\ req'[r].ending = req[r].ending
      BY <1>10, <3>1, RequestMoves
         DEF RemovalStep, RemoveParts, RemoveAssembled, RemovalPC, RequestPC
    <3>2. ASSUME ~RemovalStep(r) PROVE req'[r].pc \notin RemovalPC
      BY <1>10, <3>2, RequestMoves
         DEF RequestStep, PartStep, CompleteStep, PartMkdir, PartRemove, PartRename,
             PartFails, ClearAssembled, AppendPart, CheckAssembled, Validate, Put, CopyEnds,
             RemoveSource, RegisterRefused, Unput, Purge, PurgeFails, AssemblyFails, Catch,
             RequestPC, RemovalPC, UploadTypeInv, UploadTypeOK, RequestSlot
    <3>3. QED
      BY <3>1, <3>2 DEF SessionInv
  <2>5. QED
    BY <1>1, <1>3, <1>10, <2>1, <2>2, <2>3, <2>4, SilentStep
<1>11. QED
  BY <1>2, <1>4, <1>5, <1>6, <1>7, <1>8, <1>9, <1>10

\* However requests overlap, fail or die with the process: an upload is
\* completed at most once, by the assembly that registered its video.
THEOREM SessionRefinement == Spec => ImplementsSession
<1>1. Init => SessionInv /\ Session!SessionInit
  <2>1. SUFFICES ASSUME Init PROVE SessionInv /\ Session!SessionInit
    OBVIOUS
  <2>2. (\A r \in Requests : req[r].pc = "idle") /\ upload.status = "NONE" /\ ~registered
    BY <2>1 DEF Init, IdleRequest, Slot
  <2>3. QED
    BY <2>2 DEF SessionInv, RemovalPC, Publishing, Session!SessionInit, Open
<1>2. UploadTypeInv /\ SessionInv /\ [Next]_vars
        => SessionInv' /\ [Session!SessionNext]_(Session!sessionVars)
  <2>1. SUFFICES ASSUME UploadTypeInv, SessionInv, [Next]_vars
                 PROVE  SessionInv' /\ [Session!SessionNext]_(Session!sessionVars)
    OBVIOUS
  <2>2. ASSUME UNCHANGED vars PROVE SessionInv' /\ UNCHANGED <<Phase, Published>>
    BY <2>1, <2>2 DEF vars, SessionInv, Publishing, Phase, Published
  <2>3. UNCHANGED <<Phase, Published>> => UNCHANGED Session!sessionVars
    BY DEF Phase, Published, Session!sessionVars
  <2>4. QED
    BY <2>1, <2>2, <2>3, EnvironmentSession, RequestSession DEF Next, SessionStep
<1>3. QED
  BY <1>1, <1>2, InitTypes, StepTypes, PTL DEF Spec, ImplementsSession, Session!SessionSpec
=============================================================================
