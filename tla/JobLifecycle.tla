---------------------------- MODULE JobLifecycle ----------------------------
(***************************************************************************)
(* What an administrator expects of a processing job: it is queued, it is  *)
(* processed at most once at a time, it ends, and only a job that failed   *)
(* or was cancelled goes back to the queue, as often as the limit allows.  *)
(* A completed job stays completed.                                        *)
(***************************************************************************)
EXTENDS Naturals

CONSTANTS Jobs, MaxAttempts

VARIABLES phase, tries

lifecycleVars == <<phase, tries>>

Phases == {"ABSENT", "QUEUED", "PROCESSING", "COMPLETED", "FAILED", "CANCELLED"}

LifecycleInit ==
  /\ phase = [j \in Jobs |-> "ABSENT"]
  /\ tries = [j \in Jobs |-> 0]

Move(j, from, to) == phase[j] \in from /\ phase' = [phase EXCEPT ![j] = to]

Accept(j) == Move(j, {"ABSENT"}, "QUEUED") /\ tries' = [tries EXCEPT ![j] = 1]
Begin(j) == Move(j, {"QUEUED"}, "PROCESSING") /\ UNCHANGED tries
Complete(j) == Move(j, {"PROCESSING"}, "COMPLETED") /\ UNCHANGED tries
Fail(j) == Move(j, {"QUEUED", "PROCESSING"}, "FAILED") /\ UNCHANGED tries
Cancel(j) == Move(j, {"QUEUED", "PROCESSING"}, "CANCELLED") /\ UNCHANGED tries

Again(j) ==
  /\ Move(j, {"FAILED", "CANCELLED"}, "QUEUED")
  /\ tries[j] < MaxAttempts
  /\ tries' = [tries EXCEPT ![j] = @ + 1]

LifecycleNext ==
  \E j \in Jobs :
    Accept(j) \/ Begin(j) \/ Complete(j) \/ Fail(j) \/ Cancel(j) \/ Again(j)

LifecycleSpec == LifecycleInit /\ [][LifecycleNext]_lifecycleVars
=============================================================================
