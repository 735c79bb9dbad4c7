---------------------------- MODULE UploadSession ----------------------------
(***************************************************************************)
(* What is left of an upload as a session, whatever overlaps or fails: it  *)
(* may be opened again out of any end, but its video is published once,    *)
(* and only the assembly that publishes it may complete the upload.        *)
(***************************************************************************)

VARIABLES
  phase,      \* NONE, OPEN, ASSEMBLING, COMPLETED, CANCELLED or EXPIRED
  published   \* the video: NO; NOW, by an assembly in progress; or BEFORE

sessionVars == <<phase, published>>

SessionInit == phase = "NONE" /\ published = "NO"

Begun == phase # "NONE"

Open == phase = "NONE" /\ phase' = "OPEN" /\ UNCHANGED published
Assemble == phase = "OPEN" /\ phase' = "ASSEMBLING" /\ UNCHANGED published

\* A part that arrives late, or a completion that failed.
Reopen == Begun /\ phase' = "OPEN" /\ UNCHANGED published

\* A cancellation, or the timer.
End == Begun /\ phase' \in {"CANCELLED", "EXPIRED"} /\ UNCHANGED published

Publish ==
  /\ Begun /\ phase # "COMPLETED"
  /\ published = "NO" /\ published' = "NOW"
  /\ UNCHANGED phase

Complete ==
  /\ Begun /\ phase # "COMPLETED" /\ phase' = "COMPLETED"
  /\ published = "NOW" /\ published' = "BEFORE"

\* The assembly fails, or dies, after the publication.
Abandon == published = "NOW" /\ published' = "BEFORE" /\ UNCHANGED phase

SessionNext ==
  Open \/ Assemble \/ Reopen \/ End \/ Publish \/ Complete \/ Abandon

SessionSpec == SessionInit /\ [][SessionNext]_sessionVars
=============================================================================
