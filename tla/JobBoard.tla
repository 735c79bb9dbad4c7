------------------------------ MODULE JobBoard -------------------------------
(***************************************************************************)
(* VideoProcessingJobsProvider: the rows of processing jobs that the       *)
(* administration shows, beside the rows of EpisodeCatalogue.  The list is *)
(* read once, then again while it shows a job at work; a job that the page *)
(* starts, repeats or cancels is put into the list by its answer.          *)
(***************************************************************************)
EXTENDS EpisodeCatalogue

VARIABLES
  board,   \* rows the provider shows, Null for a job it does not list
  asked    \* the answer of a request for the list that is on its way

boardVars == <<board, asked>>

\* A row of the list; "FAILED" stands for "CANCELLED" too.
RowOf(jobs, j) ==
  IF jobs[j].status = "ABSENT" THEN Null
  ELSE [status |-> IF jobs[j].status = "CANCELLED" THEN "FAILED" ELSE jobs[j].status,
        output |-> jobs[j].output]

ProcessingJobs == [j \in Jobs |-> RowOf(job, j)]

Unlisted == [j \in Jobs |-> Null]

\* A row that is listed as waiting or at work.
Busy(j) == board[j] # Null /\ board[j].status = "ACTIVE"

ActiveJobs == {j \in Jobs : Busy(j)}

\* The list is read once when an administrator enters; the pages are opened
\* when that first list, still empty, has been answered.
BoardInit == board = Unlisted /\ asked = Null

\* One request at a time; the timer runs while an active job is shown.
Poll ==
  /\ ActiveJobs # {} /\ asked = Null
  /\ asked' = ProcessingJobs
  /\ UNCHANGED board

\* The answer takes the place of the rows, also of those put in meanwhile.
Listed ==
  /\ asked # Null
  /\ board' = asked
  /\ asked' = Null

ListFails ==
  /\ asked # Null
  /\ asked' = Null
  /\ UNCHANGED board

\* mergeProcessingJobs; the id goes into the local storage, which nothing reads.
Track(j) ==
  /\ board' = [board EXCEPT ![j] = RowOf(job', j)]
  /\ UNCHANGED asked

Untracked == UNCHANGED boardVars

\* An upload ends with a job that this browser has started.
StartJob(j) ==
  /\ job[j].status = "ABSENT"
  /\ Enqueue(j, Null)
  /\ Track(j)

\* The panel of jobs: retry and cancel answer with the row.
RetryJob(j) ==
  /\ board[j] # Null /\ board[j].status = "FAILED"
  /\ job[j].status \in {"FAILED", "CANCELLED"}
  /\ Enqueue(j, Null)
  /\ Track(j)

CancelJob(j) ==
  /\ Busy(j)
  /\ JobFails(j) /\ job'[j].status = "CANCELLED"
  /\ Track(j)

BoardNext ==
  \/ (Poll \/ Listed \/ ListFails) /\ UNCHANGED catalogueVars
  \/ \E j \in Jobs : StartJob(j) \/ RetryJob(j) \/ CancelJob(j)

=============================================================================
