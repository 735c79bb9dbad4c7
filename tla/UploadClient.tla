---------------------------- MODULE UploadClient -----------------------------
(***************************************************************************)
(* The upload field of the administration beside the service of            *)
(* ResumableUpload: the page that selects a file, pauses, continues and    *)
(* cancels, and the loop that sends the parts the session does not name,   *)
(* repeats a part after a failure, and completes.                          *)
(*                                                                         *)
(* Each call of startVideo is one of `Runs`; a paused run that has not     *)
(* ended and the one that continues it are in progress together.  A        *)
(* request that the client gives up goes on at the server.                 *)
(*                                                                         *)
(* Operators whose name ends in "Bug" are plausible mistakes in the        *)
(* definition that follows them; no behaviour uses them.                   *)
(***************************************************************************)
EXTENDS ResumableUpload, FiniteSets

CONSTANTS
  MaxRuns,      \* bound on the calls of startVideo
  MaxAttempts,  \* maxRetryAttempts of the session
  Lossy         \* requests may time out or lose their connection

ASSUME ClientAssumption ==
  /\ MaxRuns \in Nat \ {0}
  /\ MaxAttempts \in Nat \ {0}
  /\ Lossy \in BOOLEAN

Runs == 1..MaxRuns

VARIABLES
  run,   \* calls of startVideo, in order
  page   \* state of the upload field

clientVars == <<vars, run, page>>

RunPC == {"unused", "loop", "try", "sent", "delay", "completing", "refresh", "over"}

\* A call: the request it waits for, the parts its session names, the part it
\* is at, the failures of that part, and its control object.
Unused == [pc |-> "unused", slot |-> Null, version |-> Null, known |-> {}, index |-> 0,
           attempt |-> 1, paused |-> FALSE, cancelled |-> FALSE]

\* The field: file, session (the parts it names) and pending as of the mount.
Blank == [file |-> Null, session |-> Null, pending |-> Null, uploading |-> FALSE,
          paused |-> FALSE, completed |-> FALSE, cancelling |-> Null]

Stopped(k) == run[k].paused \/ run[k].cancelled
Used == {k \in Runs : run[k].pc # "unused"}
Current == Cardinality(Used)
Active(k) == run[k].pc \notin {"unused", "over"}

Owner(r) == {k \in Runs : run[k].slot = r}
Free(r) == req[r].pc = "idle" /\ Owner(r) = {} /\ page.cancelling # r

Become(k, state) == run' = [run EXCEPT ![k] = state]
Over(k) == [run[k] EXCEPT !.pc = "over", !.slot = Null]

\* The `finally` of startVideo: any call that ends hides the progress.
Hidden == [page EXCEPT !.uploading = FALSE]

-----------------------------------------------------------------------------
(* What a call does with the end of a request *)

\* Failures are not counted.
FailedBug(k) ==
  CASE run[k].pc = "completing" \/ Stopped(k) -> Over(k)
    [] OTHER -> [run[k] EXCEPT !.pc = "delay", !.slot = Null]

\* A part is sent again unless it was the last attempt or the call is stopped.
Failed(k) ==
  CASE run[k].pc = "completing" \/ Stopped(k) \/ run[k].attempt = MaxAttempts -> Over(k)
    [] OTHER -> [run[k] EXCEPT !.pc = "delay", !.slot = Null, !.attempt = @ + 1]

\* The answer to a part is the session, which names what the server confirmed.
Confirmed(k, parts) ==
  [run[k] EXCEPT !.pc = "loop", !.slot = Null, !.known = parts, !.index = @ + 1, !.attempt = 1]

\* The answer reaches the call that waits for it, if one still does.
Receive(r, state) ==
  /\ run' = [k \in Runs |-> IF run[k].slot = r THEN state[k] ELSE run[k]]
  /\ page' = IF \E k \in Owner(r) : run'[k].pc = "over" THEN Hidden ELSE page

AnswerSession(r, parts) == Receive(r, [k \in Runs |-> Confirmed(k, parts)])
AnswerError(r) == Receive(r, [k \in Runs |-> Failed(k)])
AnswerRefused(r) == Receive(r, [k \in Runs |-> Over(k)])
AnswerVideo(r) ==
  /\ run' = [k \in Runs |-> IF run[k].slot = r THEN Over(k) ELSE run[k]]
  /\ page' = IF Owner(r) = {} THEN page
             ELSE [Hidden EXCEPT !.session = Null, !.file = Null, !.pending = Null, !.completed = TRUE]
NoAnswer == UNCHANGED <<run, page>>

\* cancel clears the field when its answer is there, whatever it is.
Cleared == [page EXCEPT !.session = Null, !.file = Null, !.pending = Null,
                        !.paused = FALSE, !.uploading = FALSE, !.cancelling = Null]
AnswerCancel(r) ==
  /\ page' = IF page.cancelling = r THEN Cleared ELSE page
  /\ UNCHANGED run

-----------------------------------------------------------------------------
(* The service answers *)

\* The file of a confirmed part is compared with the received one.
ServeMkdir(r) ==
  /\ PartMkdir(r)
  /\ CASE req[r].index \notin req[r].seen -> NoAnswer
       [] OTHER -> IF part[req[r].index] = req[r].version THEN AnswerSession(r, req[r].seen)
                   ELSE AnswerRefused(r)

ServePart(r) ==
  \/ ServeMkdir(r)
  \/ PartRemove(r) /\ NoAnswer
  \/ PartRename(r) /\ IF req'[r].pc = "idle" THEN AnswerError(r) ELSE NoAnswer
  \/ PartConfirm(r) /\ AnswerSession(r, upload'.parts)
  \/ PartFails(r) /\ AnswerError(r)

\* The video that the answer names is in the storage when the answer is sent.
Assembles(r) ==
  \/ ClearAssembled(r) \/ AppendPart(r) \/ CheckAssembled(r) \/ Validate(r)
  \/ Put(r) \/ CopyEnds(r) \/ RemoveSource(r) \/ Register(r) \/ RegisterRefused(r) \/ Unput(r)
  \/ EnqueueProcessing(r) \/ Finish(r) \/ PurgeFails(r) \/ AssemblyFails(r) \/ Catch(r)

ServeComplete(r) ==
  \/ Claim(r) /\ IF req'[r].pc = "idle" THEN AnswerRefused(r) ELSE NoAnswer
  \/ Assembles(r) /\ NoAnswer
  \/ Purge(r) /\ AnswerVideo(r)
  \/ Recover(r) /\ AnswerRefused(r)

ServeRemoval(r) ==
  \/ (RemoveParts(r) \/ RemoveAssembled(r)) /\ NoAnswer
  \/ RecordEnd(r) /\ AnswerCancel(r)

Serve(r) == ServePart(r) \/ ServeComplete(r) \/ ServeRemoval(r)

\* Every call that waits fails with its connection.
Dies ==
  /\ Crash
  /\ run' = [k \in Runs |-> IF run[k].slot # Null THEN Failed(k) ELSE run[k]]
  /\ page' = IF page.cancelling # Null THEN Cleared
             ELSE IF \E k \in Runs : Active(k) /\ run'[k].pc = "over" THEN Hidden ELSE page

-----------------------------------------------------------------------------
(* uploadResumableVideo and uploadPartWithRetry *)

Missing(k) == {i \in Parts : i >= run[k].index /\ i \notin run[k].known}
NextPart(k) == CHOOSE i \in Missing(k) : \A j \in Missing(k) : i <= j

\* A stopped call returns its session, which the field takes over.
Return(k) ==
  /\ run[k].pc = "loop" /\ Stopped(k)
  /\ Become(k, Over(k))
  /\ page' = [Hidden EXCEPT !.session = run[k].known]
  /\ UNCHANGED vars

\* The checksum of the next part is computed; parts before it are not looked at again.
Advance(k) ==
  /\ run[k].pc = "loop" /\ ~Stopped(k) /\ Missing(k) # {}
  /\ Become(k, [run[k] EXCEPT !.pc = "try", !.index = NextPart(k)])
  /\ UNCHANGED <<vars, page>>

\* UPLOAD_PAUSED is thrown before the part is sent.
GiveUp(k) ==
  /\ run[k].pc = "try" /\ Stopped(k)
  /\ Become(k, IF run[k].cancelled THEN Over(k) ELSE [run[k] EXCEPT !.pc = "refresh"])
  /\ page' = IF run[k].cancelled THEN Hidden ELSE page
  /\ UNCHANGED vars

SendPart(k, r) ==
  /\ run[k].pc = "try" /\ ~Stopped(k)
  /\ Free(r)
  /\ PartCheck(r, run[k].index, run[k].version)
  /\ Become(k, [run[k] EXCEPT !.pc = "sent", !.slot = r])
  /\ UNCHANGED page

\* assertWritable refuses, or the request does not reach the service.
PartRefused(k) ==
  /\ run[k].pc = "try" /\ ~Stopped(k)
  /\ ~Writable
  /\ Become(k, Over(k))
  /\ page' = Hidden
  /\ UNCHANGED vars

\* A timeout or a lost connection; the handler knows nothing of it.
Lose(k) ==
  /\ Lossy
  /\ run[k].pc \in {"sent", "completing"}
  /\ Become(k, Failed(k))
  /\ page' = IF Failed(k).pc = "over" THEN Hidden ELSE page
  /\ UNCHANGED vars

Delay(k) ==
  /\ run[k].pc = "delay"
  /\ Become(k, [run[k] EXCEPT !.pc = "try"])
  /\ UNCHANGED <<vars, page>>

Complete(k, r) ==
  /\ run[k].pc = "loop" /\ ~Stopped(k) /\ Missing(k) = {}
  /\ Free(r)
  /\ CompleteCheck(r)
  /\ Become(k, [run[k] EXCEPT !.pc = "completing", !.slot = r])
  /\ UNCHANGED page

CompleteRefused(k) ==
  /\ run[k].pc = "loop" /\ ~Stopped(k) /\ Missing(k) = {}
  /\ ~(Writable /\ upload.parts = Parts)
  /\ Become(k, Over(k))
  /\ page' = Hidden
  /\ UNCHANGED vars

\* After UPLOAD_PAUSED the session is read again, or the first one is kept.
Refresh(k) ==
  /\ run[k].pc = "refresh"
  /\ Become(k, Over(k))
  /\ page' \in {[Hidden EXCEPT !.session = upload.parts], Hidden}
  /\ UNCHANGED vars

-----------------------------------------------------------------------------
(* UploadField *)

Starts(v, parts) ==
  /\ Current < MaxRuns
  /\ Become(Current + 1, [Unused EXCEPT !.pc = "loop", !.version = v, !.known = parts])
  /\ page' = [page EXCEPT !.file = v, !.session = parts, !.uploading = TRUE,
                          !.paused = FALSE, !.completed = FALSE]

\* A new file begins an upload; one that matches a pending session goes on
\* with it as it was when the field was mounted.
SelectFile(v) ==
  /\ ~page.uploading
  /\ \/ Initiate /\ Starts(v, {})
     \/ page.pending # Null /\ Starts(v, page.pending) /\ UNCHANGED vars

\* The request of the current call is aborted, and its delay; a completion is not.
Stop(cancelled) ==
  Become(Current,
    LET k == Current IN
    [run[k] EXCEPT !.paused = @ \/ ~cancelled, !.cancelled = @ \/ cancelled,
                   !.slot = IF run[k].pc = "sent" THEN Null ELSE @,
                   !.pc = CASE @ \in {"sent", "delay"} -> IF cancelled THEN "over" ELSE "refresh"
                            [] OTHER -> @])

Pause ==
  /\ page.session # Null /\ page.uploading
  /\ Stop(FALSE)
  /\ page' = [Hidden EXCEPT !.paused = TRUE]
  /\ UNCHANGED vars

\* The session the field has need not be what the server confirmed by now.
Resume ==
  /\ page.session # Null /\ ~page.uploading /\ page.paused /\ page.file # Null
  /\ Starts(page.file, page.session)
  /\ UNCHANGED vars

Cancel(r) ==
  /\ page.session # Null /\ page.cancelling = Null
  /\ Free(r)
  /\ Stop(TRUE)
  /\ \/ CancelCheck(r) /\ page' = [page EXCEPT !.cancelling = r]
     \/ upload.status = "COMPLETED" /\ page' = Cleared /\ UNCHANGED vars

\* The page is left and opened again: what is in flight goes on without it.
Reload ==
  /\ upload.status # "NONE" /\ page # Blank
  /\ run' = [k \in Runs |-> IF run[k].pc = "unused" THEN run[k] ELSE Over(k)]
  /\ page' = [Blank EXCEPT !.pending = IF upload.status \in ActiveStatuses THEN upload.parts ELSE Null]
  /\ UNCHANGED vars

-----------------------------------------------------------------------------
ClientInit ==
  /\ Init
  /\ run = [k \in Runs |-> Unused]
  /\ page = Blank

Works(k) ==
  \/ Return(k) \/ Advance(k) \/ GiveUp(k) \/ PartRefused(k) \/ Delay(k) \/ CompleteRefused(k) \/ Refresh(k)
  \/ \E r \in Requests : SendPart(k, r) \/ Complete(k, r)

User ==
  \/ \E v \in Versions : SelectFile(v)
  \/ Pause \/ Resume \/ Reload
  \/ \E r \in Requests : Cancel(r)

ClientNext ==
  \/ \E r \in Requests : Serve(r)
  \/ \E r \in Requests : CleanupCheck(r) /\ NoAnswer
  \/ Expire /\ NoAnswer
  \/ Dies
  \/ \E k \in Runs : Works(k) \/ Lose(k)
  \/ User

ClientSpec == ClientInit /\ [][ClientNext]_clientVars

\* Handlers go on and the loop does; nobody has to click.
ClientFairSpec ==
  /\ ClientSpec
  /\ \A r \in Requests : WF_clientVars(Serve(r))
  /\ \A k \in Runs : WF_clientVars(Works(k))

-----------------------------------------------------------------------------
(* Properties *)

\* A call of startVideo ends: it stores, pauses, is refused, or runs out of
\* attempts.
CallsEnd == \A k \in Runs : Active(k) ~> ~Active(k)

=============================================================================
