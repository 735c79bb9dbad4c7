---------------------------- MODULE MediaLibrary -----------------------------
(***************************************************************************)
(* The page "Biblioteca multimedia" against the handlers of MediaAdmin and *)
(* the jobs the provider of JobBoard shows: rows that are as old as their  *)
(* list, operations on one row or on the selected ones, confirmations, and *)
(* the assignment of a file to an episode.                                 *)
(*                                                                         *)
(* The order of the table (by date, title, size) is a constant.  Uploads   *)
(* in progress are rows without operations and are left out.               *)
(***************************************************************************)
EXTENDS MediaAdmin, JobBoard, SequencesExt

CONSTANTS
  Filters,      \* values of the selects above the table
  Order,        \* the files in the order of the table
  Limit,        \* rows of a page of the list
  MaxClicks,    \* bound on what the administrator starts on the page
  MaxMeanwhile  \* bound on the steps of others while the page is open

ASSUME LibraryAssumption ==
  /\ Filters \subseteq {"ALL", "UNASSIGNED", "FAILED", "DRAFT", "HLS", "PROCESSING"}
  /\ Order \in Seq(Media) /\ IsInjective(Order) /\ ToSet(Order) = Media
  /\ Limit \in Nat \ {0} /\ {MaxClicks, MaxMeanwhile} \subseteq Nat

VARIABLES
  library,  \* state of MediaLibraryAdminPage
  sent      \* operations of the page in flight, by administrator slot

libraryVars == <<mediaVars, boardVars, library, sent>>

Or(a, b) == IF a # Null THEN a ELSE b

-----------------------------------------------------------------------------
(* Rows: presentJob and presentFile of the service *)

\* A file is listed by its jobs, or by itself until it is deleted.
Groups == {m \in Media : media[m].status # "DELETED" \/ \E j \in InputJobs(m) : job[j].status # "ABSENT"}

Item(m) ==
  LET j == ActionJob(m)
      e == ItemEpisode(m)
      Newest(kind) == Or(Version(job, kind, InputJobs(m)), VariantJob(m, kind))
  IN
  [act |-> j, content |-> e,
   status |-> IF j # Null THEN job[j].status ELSE "ORIGINAL",
   published |-> e # Null /\ episode[e].published,
   original |-> media[m].status # "DELETED",
   hls |-> Version(job, "HLS", InputJobs(m)), remux |-> Version(job, "REMUX", InputJobs(m)),
   hlsJob |-> Newest("HLS"), remuxJob |-> Newest("REMUX"),
   missing |-> Missing(m), actions |-> Offered(m)]

\* matches
Matches(item, filter) ==
  CASE filter = "UNASSIGNED" -> item.content = Null
    [] filter = "FAILED" -> item.status = "FAILED"
    [] filter = "DRAFT" -> ~item.published
    [] filter = "HLS" -> item.hls # Null
    [] filter = "PROCESSING" -> item.status = "ACTIVE"
    [] OTHER -> TRUE

\* The rows that match, in the order of the table.
Found(filter) == SelectSeq(Order, LAMBDA m : m \in Groups /\ Matches(Item(m), filter))

\* The rows of a page of the list: none past the last page.
PageRows(filter, p) ==
  LET found == Found(filter) IN
  {found[k] : k \in ((p - 1) * Limit + 1 .. p * Limit) \cap DOMAIN found}

\* A version whose file is missing is shown as available.
ProcessedBug(url, status, missing) ==
  CASE url # Null -> "AVAILABLE"
    [] OTHER -> IF status \in {"PROCESSING", "FAILED"} THEN status ELSE "NOT_GENERATED"

\* processedVersion
Processed(url, status, missing) ==
  CASE missing -> "MISSING"
    [] ~missing /\ url # Null -> "AVAILABLE"
    [] OTHER -> IF status \in {"PROCESSING", "FAILED"} THEN status ELSE "NOT_GENERATED"

\* getMediaVersions
MediaVersions(m) ==
  LET item == Item(m) IN
  [mode \in Modes |->
     CASE mode = "HLS" -> Processed(item.hls, VariantStatus(m, "HLS"), "HLS" \in item.missing)
       [] mode = "REMUX" -> Processed(item.remux, VariantStatus(m, "REMUX"), "REMUX" \in item.missing)
       [] OTHER -> IF item.original /\ "ORIGINAL" \notin item.missing THEN "AVAILABLE" ELSE "MISSING"]

-----------------------------------------------------------------------------
(* The list the page shows *)

NoRows == [m \in Media |-> Null]
NoDialog == [kind |-> "none", m |-> Null, item |-> Null, to |-> Null, mode |-> "ORIGINAL"]

Entered ==
  [open |-> FALSE, filter |-> "ALL", page |-> 1, rows |-> NoRows, total |-> 0, asking |-> FALSE, error |-> FALSE,
   meanwhile |-> 0, clicks |-> 0, chosen |-> {}, busy |-> Null, dialog |-> NoDialog, assigning |-> "no"]

\* A new request takes the place of the one in flight, whose answer is dropped.
Reloads(p) == library' = [p EXCEPT !.asking = TRUE]

\* The dialogs cover the page, and the bound ends what the administrator starts.
Uncovered == library.open /\ library.dialog = NoDialog /\ library.clicks < MaxClicks

Clicked == [library EXCEPT !.clicks = @ + 1]

\* The key of a row of the table.
Id(m, item) == Or(item.act, m)

Aside == UNCHANGED <<mediaVars, boardVars, sent>>

\* The provider is older than the page and has read its list; requests that are
\* in flight by then are left out, as they can begin while the page is open.
Enter ==
  /\ ~library.open /\ Calm
  /\ Reloads([Entered EXCEPT !.open = TRUE])
  /\ board' = ProcessingJobs
  /\ UNCHANGED <<mediaVars, asked, sent>>

\* The answer to GET /admin/media: one that waits on its way and one whose rows
\* have aged on the page are alike.
RowsShown ==
  /\ library.asking
  /\ \/ /\ FALSE \in Outcomes("network")
        /\ library' = [library EXCEPT !.error = TRUE, !.asking = FALSE]
     \/ LET ms == PageRows(library.filter, library.page) IN
        library' = [library EXCEPT !.rows = [m \in Media |-> IF m \in ms THEN Item(m) ELSE Null],
                      !.total = Len(Found(library.filter)), !.error = FALSE, !.asking = FALSE]
  /\ Aside

\* updateFilter goes back to the first page; the selection stays.
UpdateFilter(filter) ==
  /\ Uncovered /\ filter # library.filter
  /\ Reloads([Clicked EXCEPT !.filter = filter, !.page = 1])
  /\ Aside

TurnPage(step) ==
  /\ Uncovered /\ library.total > Limit
  /\ IF step = 1 THEN library.page * Limit < library.total ELSE library.page > 1
  /\ Reloads([Clicked EXCEPT !.page = @ + step])
  /\ Aside

\* The button "Actualizar": both lists are read again.
Refresh ==
  /\ Uncovered
  /\ Reloads(Clicked)
  /\ asked' = IF asked = Null THEN ProcessingJobs ELSE asked
  /\ UNCHANGED <<mediaVars, board, sent>>

-----------------------------------------------------------------------------
(* Operations *)

NoOperation == [kind |-> "none", m |-> Null, j |-> Null, rest |-> {}, reply |-> "none"]

Kinds == {"cancel", "retry", "publish", "unpublish", "deleteHls", "deleteRemux", "deleteOriginal", "deleteAsset"}

\* The job whose id is in the path.
TargetJob(item, kind) ==
  CASE kind = "deleteHls" -> item.hlsJob
    [] kind = "deleteRemux" -> item.remuxJob
    [] OTHER -> item.act

\* mutate: an operation on a row, whose buttons wait for it.
Mutates(a, m, item, kind, p) ==
  /\ sent[a] = NoOperation
  /\ sent' = [sent EXCEPT ![a] = [NoOperation EXCEPT !.kind = kind, !.m = m, !.j = TargetJob(item, kind)]]
  /\ library' = [p EXCEPT !.busy = Id(m, item)]
  /\ UNCHANGED <<mediaVars, boardVars>>

Press(a, m, kind) ==
  LET item == library.rows[m] IN
  /\ Uncovered /\ item # Null
  /\ kind \in {"publish", "unpublish", "retry"} \cap item.actions
  /\ library.busy # Id(m, item)
  /\ Mutates(a, m, item, kind, Clicked)

Opens(d) ==
  /\ Uncovered
  /\ library' = [Clicked EXCEPT !.dialog = d]
  /\ Aside

\* The other operations ask first; the row is kept as it was shown.
AskFirst(m, kind) ==
  LET item == library.rows[m] IN
  /\ item # Null
  /\ IF kind = "deleteAsset" THEN item.content = Null
     ELSE kind \in item.actions \ {"publish", "unpublish", "retry"}
  /\ Opens([NoDialog EXCEPT !.kind = kind, !.m = m, !.item = item])

Confirm(a) ==
  LET d == library.dialog IN
  /\ d.kind \in Kinds /\ library.busy # Id(d.m, d.item)
  /\ Mutates(a, d.m, d.item, d.kind, library)

Dismiss ==
  LET d == library.dialog IN
  /\ d.kind \in Kinds /\ library.busy # Id(d.m, d.item)
  /\ library' = [library EXCEPT !.dialog = NoDialog]
  /\ Aside

\* The boxes of the rows, and the one above them, which forgets other pages.
Ids == {Id(m, library.rows[m]) : m \in {k \in Media : library.rows[k] # Null}}

Choose(ids) ==
  /\ Uncovered /\ ids # library.chosen
  /\ \/ \E id \in Ids : ids \in {library.chosen \cup {id}, library.chosen \ {id}}
     \/ ids \in {{}, Ids}
  /\ library' = [Clicked EXCEPT !.chosen = ids]
  /\ Aside

\* bulkMutate: the rows that are shown, selected and offer the operation, one
\* after the other.
BulkMutate(a, kind) ==
  LET js == library.chosen \cap
              {library.rows[m].act : m \in {k \in Media : library.rows[k] # Null /\ kind \in library.rows[k].actions}}
  IN
  /\ library.dialog = NoDialog /\ sent[a] = NoOperation /\ library.busy # None
  /\ \E j \in js :
       sent' = [sent EXCEPT ![a] = [NoOperation EXCEPT !.kind = kind, !.j = j, !.rest = js \ {j}]]
  /\ library' = [library EXCEPT !.busy = None]
  /\ UNCHANGED <<mediaVars, boardVars>>

NextOfBulk(a) ==
  /\ sent[a].reply = "ok"
  /\ \E j \in sent[a].rest :
       sent' = [sent EXCEPT ![a].j = j, ![a].rest = @ \ {j}, ![a].reply = "none"]
  /\ UNCHANGED <<mediaVars, boardVars, library>>

\* The handler of the service, one step of it.
RetryMedia(a) ==
  LET j == sent[a].j IN
  /\ sent[a].kind = "retry" /\ sent[a].reply = "none"
  /\ \/ /\ job[j].status \in {"FAILED", "CANCELLED"} /\ Enqueue(j, Null)
        /\ stage' = [stage EXCEPT ![j] = "none"]
        /\ sent' = [sent EXCEPT ![a].reply = "ok"]
     \/ /\ job[j].status \notin {"FAILED", "CANCELLED"} \/ ~media[InputOf[j]].stored
        /\ sent' = [sent EXCEPT ![a].reply = "error"]
        /\ UNCHANGED <<catalogueVars, stage>>
  /\ UNCHANGED <<adm, boardVars, library>>

\* A job at work is only asked to stop.
CancelMedia(a) ==
  LET j == sent[a].j IN
  /\ sent[a].kind = "cancel" /\ sent[a].reply = "none"
  /\ sent' = [sent EXCEPT ![a].reply = IF Active(j) THEN "ok" ELSE "error"]
  /\ \/ Active(j) /\ JobFails(j) /\ job'[j].status = "CANCELLED" /\ stage' = Restaged
     \/ UNCHANGED <<catalogueVars, stage>>
  /\ UNCHANGED <<adm, boardVars, library>>

Handler(a) ==
  LET j == sent[a].j IN
  \/ sent[a].kind = "publish" /\ PublishMedia(a, j)
  \/ AssociateMedia(a) \/ RetireMedia(a) \/ CheckMedia(a) \/ ShowMedia(a)
  \/ sent[a].kind = "unpublish" /\ UnpublishMedia(a, j)
  \/ sent[a].kind = "deleteHls" /\ DeleteHls(a, j)
  \/ MarkHls(a) \/ DeleteHlsFiles(a) \/ DropHlsRows(a)
  \/ sent[a].kind = "deleteRemux" /\ DeleteRemux(a, j)
  \/ MarkRemux(a) \/ DeleteRemuxFile(a) \/ DropRemuxRows(a)
  \/ sent[a].kind = "deleteOriginal" /\ DeleteOriginal(a, j)
  \/ ForgetOriginal(a) \/ DeleteOriginalFile(a)
  \/ sent[a].kind = "deleteAsset" /\ DeleteAsset(a, sent[a].m)
  \/ DeleteAssetOutputs(a) \/ DeleteAssetOriginal(a) \/ DropAssetRows(a)

\* The handler has changed what it is there to change.
Worked(a) ==
  \/ At(a, "idle") /\ sent[a].kind = "unpublish" /\ job[sent[a].j].target # Null
  \/ At(a, "show")
  \/ (At(a, "hls.rows") \/ At(a, "remux.rows")) /\ stage'[adm[a].j] = "DELETED"
  \/ At(a, "original.files") /\ media'[InputOf[adm[a].j]].status = "DELETED"
  \/ At(a, "asset.rows") /\ media'[adm[a].m].status = "DELETED"

Serve(a) ==
  /\ sent[a].kind \notin {"none", "retry", "cancel"} /\ sent[a].reply = "none"
  /\ Handler(a)
  /\ sent' = [sent EXCEPT ![a].reply =
       IF adm'[a].pc # "idle" THEN "none" ELSE IF Worked(a) THEN "ok" ELSE "error"]
  /\ UNCHANGED <<boardVars, library>>

\* The rest of a bulk operation is given up; a confirmation stays open.
Failed(a) ==
  /\ sent[a].reply = "error"
  /\ sent' = [sent EXCEPT ![a] = NoOperation]
  /\ library' = [library EXCEPT !.busy = Null]
  /\ UNCHANGED <<mediaVars, boardVars>>

\* A confirmation is closed, of whichever row it is by now; processing.refresh
\* waits for the list that is on its way, if there is one.
Succeeded(a) ==
  /\ sent[a].reply = "ok" /\ sent[a].rest = {}
  /\ sent' = [sent EXCEPT ![a].reply = "refresh"]
  /\ library' = IF sent[a].m = Null THEN [library EXCEPT !.chosen = {}]
                ELSE [library EXCEPT !.dialog = IF @.kind = "assign" THEN @ ELSE NoDialog]
  /\ asked' = IF asked = Null THEN ProcessingJobs ELSE asked
  /\ UNCHANGED <<mediaVars, board>>

\* The list of jobs is read only when it starts to be awaited.
FollowsBoardBug ==
  LET waiting == {a \in Admins : sent[a].reply = "refresh"} IN
  /\ sent' = [a \in Admins |-> IF a \in waiting THEN NoOperation ELSE sent[a]]
  /\ IF library.open /\ waiting # {}
       THEN Reloads([library EXCEPT !.busy = Null]) ELSE UNCHANGED library

\* Another revision of the jobs reloads the rows, and so does an operation
\* whose refresh is over; the buttons are free again.
FollowsBoard ==
  LET waiting == {a \in Admins : sent[a].reply = "refresh"} IN
  /\ sent' = [a \in Admins |-> IF a \in waiting THEN NoOperation ELSE sent[a]]
  /\ IF library.open /\ (waiting # {} \/ board' # board)
       THEN Reloads([library EXCEPT !.busy = IF waiting # {} THEN Null ELSE @]) ELSE UNCHANGED library

Board ==
  /\ \/ Poll /\ UNCHANGED <<library, sent>>
     \/ (Listed \/ ListFails) /\ FollowsBoard
  /\ UNCHANGED mediaVars

-----------------------------------------------------------------------------
(* "Asignar a episodio" *)

\* The newest version that was made, whether its file is there or not.
OpenAssignment(m) ==
  LET item == library.rows[m] IN
  /\ item # Null /\ item.content = Null
  /\ Opens([kind |-> "assign", m |-> m, item |-> item, to |-> Null,
            mode |-> IF item.remux # Null THEN "REMUX" ELSE IF item.hls # Null THEN "HLS" ELSE "ORIGINAL"])

\* The select offers the episodes there are; the buttons, the versions that are there.
ChooseEpisode(e) ==
  /\ library.dialog.kind = "assign" /\ e \in Live /\ library.dialog.to # e
  /\ library' = [library EXCEPT !.dialog.to = e]
  /\ Aside

ChooseVersion(mode) ==
  LET item == library.dialog.item IN
  /\ library.dialog.kind = "assign" /\ library.dialog.mode # mode
  /\ CASE mode = "HLS" -> item.hls # Null
       [] mode = "REMUX" -> item.remux # Null
       [] OTHER -> TRUE
  /\ mode \notin item.missing
  /\ library' = [library EXCEPT !.dialog.mode = mode]
  /\ Aside

CloseAssignment ==
  /\ library.dialog.kind = "assign" /\ library.assigning = "no"
  /\ library' = [library EXCEPT !.dialog = NoDialog]
  /\ Aside

\* The body leaves the publication as it is.
AssignmentBug == [NoDto EXCEPT !.media = library.dialog.m, !.mode = library.dialog.mode]

\* The body of the request.
Assignment == [NoDto EXCEPT !.media = library.dialog.m, !.mode = library.dialog.mode, !.published = FALSE]

\* assignToEpisode: the service reads the episode, and commits by a later step.
Assign(r) ==
  /\ library.dialog.kind = "assign" /\ library.assigning = "no" /\ library.dialog.to # Null
  /\ UpdateBegin(r, library.dialog.to, Assignment)
  /\ library' = [library EXCEPT !.assigning = IF req'[r].pc = "idle" THEN "no" ELSE "sent"]
  /\ UNCHANGED <<adminVars, boardVars, sent>>

ServeAssignment(r) ==
  /\ library.assigning = "sent" /\ req[r].pc = "update"
  /\ Update(r)
  /\ stage' = Restaged
  /\ library' = [library EXCEPT !.assigning = IF UpdateReply(req[r]) = "ok" THEN "done" ELSE "no"]
  /\ UNCHANGED <<adm, boardVars, sent>>

\* The dialog is closed and the rows are read again.
Assigned ==
  /\ library.assigning = "done"
  /\ Reloads([library EXCEPT !.dialog = NoDialog, !.assigning = "no"])
  /\ Aside

-----------------------------------------------------------------------------
LibraryInit ==
  /\ MediaInit /\ BoardInit
  /\ library = Entered
  /\ sent = [a \in Admins |-> NoOperation]

\* The worker; the episodes are there when the page is opened.
Others ==
  /\ library.open => library.meanwhile < MaxMeanwhile
  /\ \/ Pipeline
     \/ ~library.open /\ \E r \in Requests, d \in Creates : Create(r, d)
  /\ stage' = Restaged
  /\ library' = IF library.open THEN [library EXCEPT !.meanwhile = @ + 1] ELSE library
  /\ UNCHANGED <<adm, boardVars, sent>>

Clicks ==
  \/ Enter \/ Refresh \/ Dismiss \/ CloseAssignment
  \/ \E filter \in Filters : UpdateFilter(filter)
  \/ \E step \in {1, -1} : TurnPage(step)
  \/ \E m \in Media, kind \in Kinds : AskFirst(m, kind)
  \/ \E ids \in SUBSET (Jobs \cup Media) : Choose(ids)
  \/ \E m \in Media : OpenAssignment(m)
  \/ \E e \in Episodes : ChooseEpisode(e)
  \/ \E mode \in Modes : ChooseVersion(mode)

Operates(a) ==
  \/ \E m \in Media, kind \in Kinds : Press(a, m, kind)
  \/ Confirm(a)
  \/ \E kind \in {"retry", "unpublish"} : BulkMutate(a, kind)

Answers(a) ==
  \/ RetryMedia(a) \/ CancelMedia(a) \/ Serve(a)
  \/ NextOfBulk(a) \/ Failed(a) \/ Succeeded(a)

Assigns(r) == Assign(r) \/ ServeAssignment(r)

LibraryNext ==
  \/ Clicks \/ RowsShown \/ Assigned \/ Board \/ Others
  \/ \E a \in Admins : Operates(a) \/ Answers(a)
  \/ \E r \in Requests : Assigns(r)

\* The list of rows is answered, the timer of the provider fires, and a list of
\* jobs that is asked for again and again is read; administrators owe nothing.
LibrarySpec ==
  /\ LibraryInit /\ [][LibraryNext]_libraryVars
  /\ WF_library(RowsShown)
  /\ WF_boardVars(Poll)
  /\ SF_boardVars(Listed)

-----------------------------------------------------------------------------
(* Properties *)

\* A row that is read now calls a version available exactly when the readiness
\* service would play it, and the selector of the editor offers it then unless
\* the original is deleted, which the row shows as well: three places compute
\* it, from the job, from its output and from the storage.
RowsAgreeWithSelector ==
  \A m \in Groups, kind \in {"HLS", "REMUX"} :
    LET available == MediaVersions(m)[kind] = "AVAILABLE" IN
    /\ Selectable(m, kind) <=> available /\ Item(m).original
    /\ available <=> ManagedReason(media, job, kind, m, InputJobs(m)) = "ready"

\* What the dialog assigns is a draft with the file and the version that the
\* administrator chose, whatever the worker did since the dialog was opened.
AssignedIsDraft ==
  [][\A r \in Requests :
       library.assigning = "sent" /\ library'.assigning = "done" /\ req'[r] # req[r] =>
         LET row == episode'[req[r].e] IN
         /\ row.state = "live" /\ ~row.published
         /\ row.media = library.dialog.m /\ row.mode = req[r].dto.mode]_libraryVars

\* A row that is shown at work, of a job that the provider lists at work, does
\* not stay so when the job has ended: the page shows what became of it, or
\* that the list could not be read.
EndedJobsLeaveRows ==
  \A j \in Jobs :
    LET row == library.rows[InputOf[j]]
        Working == row # Null /\ row.act = j /\ row.status = "ACTIVE"
    IN (Working /\ Busy(j) /\ ~Active(j)) ~> (~Working \/ Active(j) \/ library.error)
=============================================================================
