------------------------- MODULE MediaLibraryProofs --------------------------
(***************************************************************************)
(* What the page of the media library keeps, for any number of files,      *)
(* jobs, episodes, administrators and requests: a row agrees with the      *)
(* selector of the editor and with what plays, and a file is assigned as a *)
(* draft.                                                                  *)
(*                                                                         *)
(* The page is as old as its rows, so that what it sends rests on what it  *)
(* keeps (PageOK, OpOK): a row or a dialog that offers an operation names  *)
(* the job or the file the operation is about.  With that every step of    *)
(* the page is a step of the service, of a request, of the pipeline or of  *)
(* neither (LibrarySteps), and the invariant of the service is kept.          *)
(***************************************************************************)
EXTENDS MediaLibrary, MediaAdminProofs

PageFields == DOMAIN Entered

\* A row that offers an operation names its job.
RowOK(item) ==
  item # Null =>
    /\ item.act \in Field(Jobs)
    /\ item.actions \subseteq Kinds /\ \A kind \in item.actions : TargetJob(item, kind) \in Jobs

\* A confirmation names what it is about, an assignment its file and what is chosen.
DialogOK(d) ==
  /\ DOMAIN d = DOMAIN NoDialog
  /\ d.kind \in Kinds =>
       /\ d.m \in Media /\ TargetJob(d.item, d.kind) \in Field(Jobs)
       /\ d.kind # "deleteAsset" => TargetJob(d.item, d.kind) \in Jobs
  /\ d.kind = "assign" => d.m \in Media /\ d.to \in Field(Episodes) /\ d.mode \in Modes

\* While a file is being assigned its dialog stays.
PageOK(p) ==
  /\ DOMAIN p = PageFields
  /\ \A m \in Media : RowOK(p.rows[m])
  /\ DialogOK(p.dialog)
  /\ p.assigning \in {"no", "sent", "done"}
  /\ p.dialog.kind = "assign" => p.open
  /\ p.assigning # "no" => p.dialog.kind = "assign"

Op == [kind: Kinds \cup {"none"}, m: Field(Media), j: Field(Jobs), rest: SUBSET Jobs,
       reply: {"none", "ok", "error", "refresh"}]

OpOK(o) ==
  /\ o \in Op
  /\ o.kind \notin {"none", "deleteAsset"} => o.j \in Jobs
  /\ o.kind = "deleteAsset" => o.m \in Media

SentOK == sent \in [Admins -> Op] /\ \A a \in Admins : OpOK(sent[a])

\* The request that is in flight is the assignment of the file of the dialog.
Assigning(r) ==
  LET s == req[r] IN
  s.pc = "update" =>
    /\ library.assigning = "sent" /\ s.e \in Live
    /\ s.dto.media = library.dialog.m /\ s.dto.mode \in Modes /\ s.dto.published = FALSE
    /\ s.dto.job = Null /\ s.dto.url = Null

AssigningOK ==
  /\ \A r \in Requests : Assigning(r)
  /\ \A r, q \in Requests : req[r].pc = "update" /\ req[q].pc = "update" => r = q

LibraryOK == MediaInv /\ PageOK(library) /\ SentOK /\ AssigningOK

-----------------------------------------------------------------------------
(* Rows *)

LEMMA ActionIsJob == ASSUME NEW m PROVE ActionJob(m) \in Field(Jobs)
<1>1. \A status : With(InputJobs(m), status) \in SUBSET Jobs
  BY DEF With, InputJobs
<1>2. \A kind : VariantJob(m, kind) \in Field(Jobs)
  <2>1. ASSUME NEW kind PROVE VariantJob(m, kind) \in Field(Jobs)
    <3> DEFINE js == {j \in InputJobs(m) : KindOf[j] = kind /\ job[j].status # "ABSENT"}
    <3>1. js \in SUBSET Jobs /\ \A status : With(js, status) \in SUBSET Jobs
      BY DEF With, InputJobs
    <3>2. Latest(js) \in Field(Jobs) /\ \A status : Latest(With(js, status)) \in Field(Jobs)
      BY <3>1, LatestJob DEF Field
    <3>3. Version(job, kind, js) \in Field(Jobs)
      BY <3>1, VersionIsJob
    <3> HIDE DEF js
    <3>4. VariantJob(m, kind) = CASE With(js, {"ACTIVE"}) # {} -> Latest(With(js, {"ACTIVE"}))
             [] OTHER -> IF Version(job, kind, js) # Null THEN Version(job, kind, js) ELSE Latest(js)
      BY DEF VariantJob, js
    <3>5. QED
      BY <3>2, <3>3, <3>4
  <2>2. QED
    BY <2>1
<1>3. \A status : Latest(With(InputJobs(m), status)) \in Field(Jobs)
  BY <1>1, LatestJob DEF Field
<1>4. QED
  BY <1>2, <1>3 DEF ActionJob

\* An item offers the operations of jobs that it names.
LEMMA ItemRow == ASSUME NEW m \in Media PROVE RowOK(Item(m))
<1> DEFINE j == ActionJob(m)
           js == InputJobs(m)
           item == Item(m)
<1>1. j \in Field(Jobs) /\ js \in SUBSET Jobs
  BY ActionIsJob DEF InputJobs
<1>2. \A kind : Version(job, kind, js) \in Field(Jobs)
  BY <1>1, VersionIsJob
<1>3. /\ item.act = j /\ item.actions = Offered(m)
      /\ item.hlsJob = Or(Version(job, "HLS", js), VariantJob(m, "HLS"))
      /\ item.remuxJob = Or(Version(job, "REMUX", js), VariantJob(m, "REMUX"))
  BY DEF Item
<1>4. Offered(m) \subseteq Kinds
  BY DEF Offered, Kinds
<1>5. ASSUME NEW kind \in Offered(m)
      PROVE  /\ j # Null
             /\ kind = "deleteHls" => Version(job, "HLS", js) # Null
             /\ kind = "deleteRemux" => Version(job, "REMUX", js) # Null
  BY <1>5 DEF Offered
<1>6. ASSUME NEW kind \in Offered(m) PROVE TargetJob(item, kind) \in Jobs
  <2> HIDE DEF j, js, item
  <2>1. CASE kind = "deleteHls"
    BY <1>2, <1>3, <1>5, <2>1 DEF TargetJob, Or, Field
  <2>2. CASE kind = "deleteRemux"
    BY <1>2, <1>3, <1>5, <2>2 DEF TargetJob, Or, Field
  <2>3. CASE kind \notin {"deleteHls", "deleteRemux"}
    BY <1>1, <1>3, <1>5, <2>3 DEF TargetJob, Field
  <2>4. QED
    BY <2>1, <2>2, <2>3
<1>7. QED
  BY <1>1, <1>3, <1>4, <1>6 DEF RowOK

\* What an item calls available is what the selector offers.
LEMMA RowsAgree == MediaInv => RowsAgreeWithSelector
<1>1. ASSUME MediaInv, NEW m \in Groups, NEW kind \in {"HLS", "REMUX"}
      PROVE  /\ Selectable(m, kind) <=> MediaVersions(m)[kind] = "AVAILABLE" /\ Item(m).original
             /\ MediaVersions(m)[kind] = "AVAILABLE" <=> ManagedReason(media, job, kind, m, InputJobs(m)) = "ready"
  <2> DEFINE j == Version(job, kind, InputJobs(m))
             missing == kind \in Item(m).missing
  <2>1. m \in Media
    BY <1>1 DEF Groups
  <2>2. MediaVersions(m)[kind] = Processed(j, VariantStatus(m, kind), missing)
    <3>1. Item(m).hls = Version(job, "HLS", InputJobs(m)) /\ Item(m).remux = Version(job, "REMUX", InputJobs(m))
      BY DEF Item
    <3>2. MediaVersions(m)[kind] =
            CASE kind = "HLS" -> Processed(Item(m).hls, VariantStatus(m, "HLS"), "HLS" \in Item(m).missing)
              [] kind = "REMUX" -> Processed(Item(m).remux, VariantStatus(m, "REMUX"), "REMUX" \in Item(m).missing)
              [] OTHER -> IF Item(m).original /\ "ORIGINAL" \notin Item(m).missing THEN "AVAILABLE" ELSE "MISSING"
      BY DEF MediaVersions, Modes
    <3>3. QED
      BY <3>1, <3>2
  <2>3. missing <=> j # Null /\ ~job[j].stored
    <3>1. Item(m).missing = Missing(m)
      BY DEF Item
    <3>2. QED
      BY <3>1 DEF Missing, Modes
  <2>4. Processed(j, VariantStatus(m, kind), missing) = "AVAILABLE" <=> j # Null /\ ~missing
    <3> HIDE DEF j, missing
    <3>1. QED
      BY DEF Processed
  <2>5. MediaVersions(m)[kind] = "AVAILABLE" <=> j # Null /\ job[j].stored
    <3> HIDE DEF j, missing
    <3>1. QED
      BY <2>2, <2>3, <2>4
  <2>6. Selectable(m, kind) <=> MediaVersions(m)[kind] = "AVAILABLE" /\ Item(m).original
    <3>1. Item(m).original <=> media[m].status # "DELETED"
      BY DEF Item
    <3>2. QED
      BY <2>5, <3>1 DEF Selectable
  <2>7. MediaVersions(m)[kind] = "AVAILABLE" <=> ManagedReason(media, job, kind, m, InputJobs(m)) = "ready"
    BY <1>1, <2>1, <2>5, ReadyIsStored
  <2>8. QED
    BY <2>6, <2>7
<1>2. QED
  BY <1>1 DEF RowsAgreeWithSelector

-----------------------------------------------------------------------------
(* The page *)

\* A step of the page that assigns nothing.
PageKeeps(p) ==
  /\ PageOK(p) /\ p.assigning = library.assigning
  /\ library.assigning # "no" => p.dialog.m = library.dialog.m

\* Fields that the invariant does not read.
LEMMA OtherFields ==
  ASSUME PageOK(library), NEW p, DOMAIN p = PageFields,
         p.rows = library.rows, p.dialog = library.dialog, p.assigning = library.assigning, p.open = library.open
  PROVE  PageKeeps(p)
BY DEF PageOK, PageKeeps

LEMMA OtherDialog ==
  ASSUME PageOK(library), NEW p, DOMAIN p = PageFields,
         p.rows = library.rows, p.assigning = library.assigning, p.open = library.open,
         DialogOK(p.dialog), p.dialog.kind = "assign" => library.open,
         library.assigning # "no" => p.dialog.kind = "assign" /\ p.dialog.m = library.dialog.m
  PROVE  PageKeeps(p)
BY DEF PageOK, PageKeeps

LEMMA ClosedDialog == DialogOK(NoDialog) /\ NoDialog.kind # "assign"
BY DEF DialogOK, NoDialog, Kinds

LEMMA ClicksKeep ==
  ASSUME PageOK(library), Clicks PROVE PageKeeps(library') /\ UNCHANGED <<mediaVars, sent>>
<1> USE DEF Aside, Reloads, Clicked
<1>0. DOMAIN library = PageFields
  BY DEF PageOK
<1>1. CASE Enter
  <2>1. library.assigning = "no"
    BY <1>1 DEF Enter, PageOK
  <2>2. library' = [[Entered EXCEPT !.open = TRUE] EXCEPT !.asking = TRUE] /\ UNCHANGED <<mediaVars, sent>>
    BY <1>1 DEF Enter
  <2>3. /\ DOMAIN library' = PageFields /\ library'.rows = NoRows /\ library'.dialog = NoDialog
        /\ library'.assigning = "no"
    BY <2>2 DEF Entered, PageFields
  <2>4. DialogOK(NoDialog) /\ \A m \in Media : RowOK(NoRows[m])
    BY ClosedDialog DEF RowOK, NoRows
  <2>5. QED
    BY <2>1, <2>2, <2>3, <2>4 DEF PageKeeps, PageOK
<1>2. CASE Refresh
  <2>1. QED
    BY <1>0, <1>2, OtherFields DEF Refresh, PageFields, Entered
<1>3. ASSUME NEW filter \in Filters, UpdateFilter(filter) PROVE PageKeeps(library') /\ UNCHANGED <<mediaVars, sent>>
  BY <1>0, <1>3, OtherFields DEF UpdateFilter, PageFields, Entered
<1>4. ASSUME NEW step \in {1, -1}, TurnPage(step) PROVE PageKeeps(library') /\ UNCHANGED <<mediaVars, sent>>
  BY <1>0, <1>4, OtherFields DEF TurnPage, PageFields, Entered
<1>5. ASSUME NEW ids, Choose(ids) PROVE PageKeeps(library') /\ UNCHANGED <<mediaVars, sent>>
  BY <1>0, <1>5, OtherFields DEF Choose, PageFields, Entered
\* A dialog opens when there is none, and none is open while a file is assigned.
<1>6. ASSUME NEW d, Opens(d), DialogOK(d) PROVE PageKeeps(library') /\ UNCHANGED <<mediaVars, sent>>
  <2>1. library.assigning = "no"
    <3>1. library.dialog = NoDialog
      BY <1>6 DEF Opens, Uncovered
    <3>2. NoDialog.kind # "assign"
      BY DEF NoDialog
    <3>3. QED
      BY <3>1, <3>2 DEF PageOK
  <2>2. QED
    BY <1>0, <1>6, <2>1, OtherDialog DEF Opens, Uncovered, PageFields, Entered
<1>7. ASSUME NEW m \in Media, NEW kind \in Kinds, AskFirst(m, kind)
      PROVE  PageKeeps(library') /\ UNCHANGED <<mediaVars, sent>>
  <2> DEFINE item == library.rows[m]
             d == [NoDialog EXCEPT !.kind = kind, !.m = m, !.item = item]
  <2>1. d.kind = kind /\ d.m = m /\ d.item = item /\ DOMAIN d = DOMAIN NoDialog
    BY DEF NoDialog
  <2>2. RowOK(item) /\ item # Null
    BY <1>7 DEF PageOK, AskFirst
  <2>3. kind # "deleteAsset" => TargetJob(item, kind) \in Jobs
    BY <1>7, <2>2 DEF AskFirst, RowOK
  <2>4. TargetJob(item, kind) \in Field(Jobs)
    BY <2>2, <2>3 DEF RowOK, TargetJob, Field
  <2>5. kind # "assign" /\ Opens(d)
    BY <1>7 DEF AskFirst, Kinds
  <2> HIDE DEF d, item
  <2>6. DialogOK(d)
    BY <2>1, <2>3, <2>4, <2>5 DEF DialogOK
  <2>7. QED
    BY <1>6, <2>5, <2>6
<1>8. ASSUME NEW m \in Media, OpenAssignment(m) PROVE PageKeeps(library') /\ UNCHANGED <<mediaVars, sent>>
  <2>1. PICK mode \in Modes :
          Opens([kind |-> "assign", m |-> m, item |-> library.rows[m], to |-> Null, mode |-> mode])
    BY <1>8 DEF OpenAssignment, Modes
  <2>2. DialogOK([kind |-> "assign", m |-> m, item |-> library.rows[m], to |-> Null, mode |-> mode])
    BY DEF DialogOK, NoDialog, Kinds, Field
  <2>3. QED
    BY <1>6, <2>1, <2>2
<1>9. CASE Dismiss
  <2>1. library.assigning = "no" /\ library' = [library EXCEPT !.dialog = NoDialog]
    BY <1>9 DEF Dismiss, PageOK, Kinds
  <2>2. QED
    BY <1>0, <1>9, <2>1, OtherDialog, ClosedDialog DEF Dismiss, PageFields, Entered
<1>10. CASE CloseAssignment
  BY <1>0, <1>10, OtherDialog, ClosedDialog DEF CloseAssignment, PageFields, Entered
\* What is chosen in the dialog of an assignment.
<1>11. ASSUME NEW d, library' = [library EXCEPT !.dialog = d], DialogOK(d), d.kind = "assign", d.m = library.dialog.m
       PROVE  library.dialog.kind = "assign" => PageKeeps(library')
  BY <1>0, <1>11, OtherDialog DEF PageOK, PageFields, Entered
<1>12. ASSUME NEW e \in Episodes, ChooseEpisode(e) PROVE PageKeeps(library') /\ UNCHANGED <<mediaVars, sent>>
  <2> DEFINE d == [library.dialog EXCEPT !.to = e]
  <2>1. DialogOK(library.dialog) /\ library.dialog.kind = "assign"
    BY <1>12 DEF PageOK, ChooseEpisode
  <2>2. DialogOK(d) /\ d.kind = "assign" /\ d.m = library.dialog.m
    BY <2>1 DEF DialogOK, NoDialog, Field, Kinds
  <2>3. library' = [library EXCEPT !.dialog = d]
    BY <1>0, <1>12 DEF ChooseEpisode
  <2>4. QED
    BY <1>11, <1>12, <2>2, <2>3 DEF ChooseEpisode
<1>13. ASSUME NEW mode \in Modes, ChooseVersion(mode) PROVE PageKeeps(library') /\ UNCHANGED <<mediaVars, sent>>
  <2> DEFINE d == [library.dialog EXCEPT !.mode = mode]
  <2>1. DialogOK(library.dialog) /\ library.dialog.kind = "assign"
    BY <1>13 DEF PageOK, ChooseVersion
  <2>2. DialogOK(d) /\ d.kind = "assign" /\ d.m = library.dialog.m
    BY <2>1 DEF DialogOK, NoDialog, Kinds
  <2>3. library' = [library EXCEPT !.dialog = d]
    BY <1>0, <1>13 DEF ChooseVersion
  <2>4. QED
    BY <1>11, <1>13, <2>2, <2>3 DEF ChooseVersion
<1>14. QED
  BY <1>1, <1>2, <1>3, <1>4, <1>5, <1>7, <1>8, <1>9, <1>10, <1>12, <1>13 DEF Clicks

\* Rows that are read, and lists of jobs that arrive.
LEMMA ListsKeep ==
  ASSUME PageOK(library), SentOK, RowsShown \/ Board
  PROVE  PageKeeps(library') /\ UNCHANGED mediaVars /\ SentOK'
<1>0. DOMAIN library = PageFields
  BY DEF PageOK
<1>1. CASE RowsShown
  <2>1. UNCHANGED <<mediaVars, sent>>
    BY <1>1 DEF RowsShown, Aside
  <2>2. SentOK'
    BY <2>1 DEF SentOK
  <2>3. CASE library' = [library EXCEPT !.error = TRUE, !.asking = FALSE]
    BY <1>0, <2>1, <2>2, <2>3, OtherFields DEF PageFields, Entered
  <2>4. ASSUME NEW rows, NEW total, \A m \in Media : RowOK(rows[m]),
               library' = [library EXCEPT !.rows = rows, !.total = total, !.error = FALSE, !.asking = FALSE]
        PROVE  PageKeeps(library')
    <3>1. /\ DOMAIN library' = PageFields /\ library'.rows = rows /\ library'.dialog = library.dialog
          /\ library'.assigning = library.assigning /\ library'.open = library.open
      BY <1>0, <2>4 DEF PageFields, Entered
    <3>2. QED
      BY <2>4, <3>1 DEF PageOK, PageKeeps
  <2> DEFINE rows == [m \in Media |-> IF m \in PageRows(library.filter, library.page) THEN Item(m) ELSE Null]
             total == Len(Found(library.filter))
  <2>5. \A m \in Media : RowOK(rows[m])
    BY ItemRow DEF RowOK
  <2>6. \/ library' = [library EXCEPT !.error = TRUE, !.asking = FALSE]
        \/ library' = [library EXCEPT !.rows = rows, !.total = total, !.error = FALSE, !.asking = FALSE]
    BY <1>1, Zenon DEF RowsShown
  <2> HIDE DEF rows, total
  <2>7. QED
    BY <2>1, <2>2, <2>3, <2>4, <2>5, <2>6
<1>2. CASE Board
  <2>1. UNCHANGED mediaVars
    BY <1>2 DEF Board
  <2>2. CASE UNCHANGED <<library, sent>>
    BY <2>1, <2>2 DEF SentOK, PageKeeps
  <2>3. CASE FollowsBoard
    <3>1. PageKeeps(library')
      BY <1>0, <2>3, OtherFields DEF FollowsBoard, Reloads, PageFields, Entered
    <3>2. SentOK'
      <4>1. NoOperation \in Op /\ OpOK(NoOperation)
        BY DEF NoOperation, Op, OpOK, Field
      <4>2. \A a \in Admins : sent'[a] \in {sent[a], NoOperation}
        BY <2>3 DEF FollowsBoard
      <4>3. sent' = [a \in Admins |-> sent'[a]]
        BY <2>3 DEF FollowsBoard
      <4>4. QED
        BY <4>1, <4>2, <4>3 DEF SentOK
    <3>3. QED
      BY <2>1, <3>1, <3>2
  <2>4. QED
    BY <1>2, <2>2, <2>3 DEF Board
<1>3. QED
  BY <1>1, <1>2

-----------------------------------------------------------------------------
(* Operations *)

LEMMA OneSent ==
  ASSUME SentOK, NEW a \in Admins, NEW o, OpOK(o), sent' = [sent EXCEPT ![a] = o] PROVE SentOK'
<1>1. o \in Op
  BY DEF OpOK
<1>2. sent' \in [Admins -> Op] /\ \A b \in Admins : OpOK(sent'[b])
  BY <1>1 DEF SentOK
<1>3. QED
  BY <1>2 DEF SentOK, OpOK

\* The answer to an operation that is in flight.
LEMMA Replied ==
  ASSUME SentOK, NEW a \in Admins, NEW reply \in {"none", "ok", "error", "refresh"},
         sent' = [sent EXCEPT ![a].reply = reply]
  PROVE  SentOK'
<1> DEFINE o == [sent[a] EXCEPT !.reply = reply]
<1>1. OpOK(sent[a])
  BY DEF SentOK
<1>2. OpOK(o)
  BY <1>1 DEF OpOK, Op
<1>3. sent' = [sent EXCEPT ![a] = o]
  BY DEF SentOK
<1>4. QED
  BY <1>2, <1>3, OneSent

\* What is sent names the job or the file of its row.
LEMMA OperatesKeep ==
  ASSUME PageOK(library), SentOK, NEW a \in Admins, Operates(a)
  PROVE  PageKeeps(library') /\ UNCHANGED mediaVars /\ SentOK'
<1>0. DOMAIN library = PageFields
  BY DEF PageOK
<1>1. ASSUME NEW m \in Media, NEW item, NEW kind \in Kinds, NEW p, Mutates(a, m, item, kind, p),
             TargetJob(item, kind) \in Field(Jobs), kind # "deleteAsset" => TargetJob(item, kind) \in Jobs
      PROVE  SentOK' /\ UNCHANGED mediaVars
  <2> DEFINE o == [NoOperation EXCEPT !.kind = kind, !.m = m, !.j = TargetJob(item, kind)]
  <2>1. o.kind = kind /\ o.m = m /\ o.j = TargetJob(item, kind) /\ o \in Op
    BY <1>1 DEF NoOperation, Op, Field
  <2>2. sent' = [sent EXCEPT ![a] = o]
    BY <1>1 DEF Mutates
  <2> HIDE DEF o
  <2>3. OpOK(o)
    BY <1>1, <2>1 DEF OpOK, Kinds
  <2>4. QED
    BY <1>1, <2>2, <2>3, OneSent DEF Mutates
<1>2. ASSUME NEW m \in Media, NEW kind \in Kinds, Press(a, m, kind)
      PROVE  PageKeeps(library') /\ UNCHANGED mediaVars /\ SentOK'
  <2> DEFINE item == library.rows[m]
  <2>1. RowOK(item) /\ item # Null /\ kind \in item.actions /\ Mutates(a, m, item, kind, Clicked)
    BY <1>2 DEF Press, PageOK
  <2>2. TargetJob(item, kind) \in Jobs
    BY <2>1 DEF RowOK
  <2>3. PageKeeps(library')
    BY <1>0, <2>1, OtherFields DEF Mutates, Clicked, PageFields, Entered
  <2>4. QED
    BY <1>1, <2>1, <2>2, <2>3 DEF Field
<1>3. CASE Confirm(a)
  <2> DEFINE d == library.dialog
  <2>1. DialogOK(d) /\ d.kind \in Kinds /\ Mutates(a, d.m, d.item, d.kind, library)
    BY <1>3 DEF Confirm, PageOK
  <2>2. PageKeeps(library')
    BY <1>0, <2>1, OtherFields DEF Mutates, PageFields, Entered
  <2>3. QED
    BY <1>1, <2>1, <2>2 DEF DialogOK
<1>4. ASSUME NEW kind \in {"retry", "unpublish"}, BulkMutate(a, kind)
      PROVE  PageKeeps(library') /\ UNCHANGED mediaVars /\ SentOK'
  <2> DEFINE js == library.chosen \cap
                     {library.rows[m].act : m \in {k \in Media : library.rows[k] # Null /\ kind \in library.rows[k].actions}}
  <2>1. js \subseteq Jobs
    BY DEF PageOK, RowOK, TargetJob
  <2>2. PICK j \in js : sent' = [sent EXCEPT ![a] = [NoOperation EXCEPT !.kind = kind, !.j = j, !.rest = js \ {j}]]
    BY <1>4 DEF BulkMutate
  <2> HIDE DEF js
  <2> DEFINE o == [NoOperation EXCEPT !.kind = kind, !.j = j, !.rest = js \ {j}]
  <2>3. o \in Op /\ o.kind = kind /\ o.j = j
    BY <2>1 DEF NoOperation, Op, Field, Kinds
  <2>4. OpOK(o)
    BY <2>1, <2>3 DEF OpOK
  <2>5. PageKeeps(library') /\ UNCHANGED mediaVars
    BY <1>0, <1>4, OtherFields DEF BulkMutate, PageFields, Entered
  <2>6. QED
    BY <2>2, <2>4, <2>5, OneSent
<1>5. QED
  BY <1>2, <1>3, <1>4 DEF Operates

\* An operation that is over, or goes on with its next row.
LEMMA AfterwardsKeep ==
  ASSUME PageOK(library), SentOK, NEW a \in Admins, NextOfBulk(a) \/ Failed(a) \/ Succeeded(a)
  PROVE  PageKeeps(library') /\ UNCHANGED mediaVars /\ SentOK'
<1>0. DOMAIN library = PageFields
  BY DEF PageOK
<1>1. CASE NextOfBulk(a)
  <2>1. PICK j \in sent[a].rest : sent' = [sent EXCEPT ![a].j = j, ![a].rest = @ \ {j}, ![a].reply = "none"]
    BY <1>1 DEF NextOfBulk
  <2> DEFINE o == [sent[a] EXCEPT !.j = j, !.rest = @ \ {j}, !.reply = "none"]
  <2>2. OpOK(sent[a])
    BY DEF SentOK
  <2>3. j \in Jobs
    BY <2>2 DEF OpOK, Op
  <2>4. o \in Op /\ o.kind = sent[a].kind /\ o.m = sent[a].m /\ o.j = j
    BY <2>2, <2>3 DEF OpOK, Op, Field
  <2>5. sent' = [sent EXCEPT ![a] = o]
    BY <2>1 DEF SentOK
  <2> HIDE DEF o
  <2>6. OpOK(o)
    BY <2>2, <2>3, <2>4 DEF OpOK
  <2>7. PageKeeps(library') /\ UNCHANGED mediaVars
    BY <1>1 DEF NextOfBulk, PageKeeps
  <2>8. QED
    BY <2>5, <2>6, <2>7, OneSent
<1>2. CASE Failed(a)
  <2>1. OpOK(NoOperation)
    BY DEF NoOperation, OpOK, Op, Field
  <2>2. QED
    BY <1>0, <1>2, <2>1, OneSent, OtherFields DEF Failed, PageFields, Entered
<1>3. CASE Succeeded(a)
  <2>1. SentOK' /\ UNCHANGED mediaVars
    BY <1>3, Replied DEF Succeeded
  <2>2. CASE sent[a].m = Null
    BY <1>0, <1>3, <2>1, <2>2, OtherFields DEF Succeeded, PageFields, Entered
  <2>3. CASE sent[a].m # Null
    <3> DEFINE d == IF library.dialog.kind = "assign" THEN library.dialog ELSE NoDialog
    <3>1. library' = [library EXCEPT !.dialog = d]
      BY <1>0, <1>3, <2>3 DEF Succeeded
    <3>2. /\ DialogOK(d) /\ (d.kind = "assign" => library.open)
          /\ library.assigning # "no" => d.kind = "assign" /\ d.m = library.dialog.m
      BY ClosedDialog DEF PageOK
    <3> HIDE DEF d
    <3>3. QED
      BY <1>0, <2>1, <3>1, <3>2, OtherDialog DEF PageFields, Entered
  <2>4. QED
    BY <2>2, <2>3
<1>4. QED
  BY <1>1, <1>2, <1>3

-----------------------------------------------------------------------------
(* Steps *)

\* A step beside the assignment: the service keeps its invariant, and the
\* request of an assignment waits, for an episode that stays live.
Beside ==
  /\ MediaInv' /\ PageKeeps(library') /\ SentOK'
  /\ \A r \in Requests : req'[r] = req[r] \/ req'[r].pc = "idle"
  /\ library.assigning # "no" => \A e \in Live : e \in Live'

LEMMA StillBeside ==
  ASSUME LibraryOK, PageKeeps(library'), SentOK', UNCHANGED mediaVars PROVE Beside
<1>1. UNCHANGED catalogueVars /\ UNCHANGED <<stage, adm>>
  BY DEF mediaVars, adminVars
<1>2. MediaInv'
  <2>1. stage' \in [Jobs -> Stages]
    BY <1>1 DEF LibraryOK, MediaInv, AdminOK
  <2>2. QED
    BY <1>1, <2>1, AnyMedia DEF LibraryOK
<1>3. QED
  BY <1>1, <1>2 DEF Beside, catalogueVars, Live

LEMMA PipelineBeside ==
  ASSUME LibraryOK, PageKeeps(library'), SentOK', Pipeline \/ UNCHANGED catalogueVars,
         stage' \in [Jobs -> Stages], UNCHANGED adm
  PROVE  Beside
<1>1. MediaInv'
  BY AnyMedia DEF LibraryOK, AnyNext
<1>2. CASE Pipeline
  <2>1. Stay({}) /\ req' = req
    BY <1>2, PipelineStep DEF LibraryOK, MediaInv
  <2>2. QED
    BY <1>1, <2>1 DEF Beside, Stay, Same, Live
<1>3. CASE UNCHANGED catalogueVars
  BY <1>1, <1>3 DEF Beside, catalogueVars, Live
<1>4. QED
  BY <1>2, <1>3

\* The handlers of the service.
LEMMA ServiceBeside ==
  ASSUME LibraryOK, NEW a \in Admins, RetryMedia(a) \/ CancelMedia(a) \/ Serve(a) PROVE Beside
<1>0. MediaInv /\ SentOK /\ OpOK(sent[a]) /\ stage \in [Jobs -> Stages]
  BY DEF LibraryOK, SentOK, MediaInv, AdminOK
<1>1. PageKeeps(library')
  <2>1. library' = library
    BY DEF RetryMedia, CancelMedia, Serve
  <2>2. QED
    BY <2>1 DEF LibraryOK, PageKeeps
<1>2. CASE RetryMedia(a)
  <2>1. sent[a].j \in Jobs
    BY <1>0, <1>2 DEF RetryMedia, OpOK
  <2>2. SentOK' /\ UNCHANGED adm
    BY <1>0, <1>2, Replied DEF RetryMedia
  <2>3. stage' \in [Jobs -> Stages]
    BY <1>0, <1>2 DEF RetryMedia, Stages
  <2>4. Pipeline \/ UNCHANGED catalogueVars
    BY <1>2, <2>1 DEF RetryMedia, Pipeline, Field
  <2>5. QED
    BY <1>1, <2>2, <2>3, <2>4, PipelineBeside
<1>3. CASE CancelMedia(a)
  <2>1. sent[a].j \in Jobs
    BY <1>0, <1>3 DEF CancelMedia, OpOK
  <2>2. SentOK' /\ UNCHANGED adm
    BY <1>0, <1>3, Replied DEF CancelMedia
  <2>3. stage' \in [Jobs -> Stages]
    BY <1>0, <1>3, RestagedTyped DEF CancelMedia
  <2>4. Pipeline \/ UNCHANGED catalogueVars
    BY <1>3, <2>1 DEF CancelMedia, Pipeline
  <2>5. QED
    BY <1>1, <2>2, <2>3, <2>4, PipelineBeside
<1>4. CASE Serve(a)
  <2>1. sent[a].kind # "deleteAsset" => sent[a].j \in Jobs
    BY <1>0, <1>4 DEF Serve, OpOK
  <2>2. sent[a].kind = "deleteAsset" => sent[a].m \in Media
    BY <1>0 DEF OpOK
  <2>3. LibraryRequest(a)
    BY <1>4, <2>1, <2>2 DEF Serve, Handler, LibraryRequest
  <2>4. Serves(a)
    BY <1>0, <2>3, LibraryServes DEF MediaInv
  <2>5. MediaInv'
    BY <1>0, <2>4, LibraryInv
  <2>6. SentOK'
    <3>1. PICK reply \in {"none", "ok", "error"} : sent' = [sent EXCEPT ![a].reply = reply]
      BY <1>4 DEF Serve
    <3>2. QED
      BY <1>0, <3>1, Replied
  <2>7. req' = req /\ \A e \in Live : e \in Live'
    BY <2>4 DEF Serves, EpisodesServed, SamePlace, Live
  <2>8. QED
    BY <1>1, <2>5, <2>6, <2>7 DEF Beside
<1>5. QED
  BY <1>2, <1>3, <1>4

\* The worker; an episode is created only before the page is opened.
LEMMA OthersBeside == ASSUME LibraryOK, Others PROVE Beside
<1>0. DOMAIN library = PageFields /\ PageOK(library)
  BY DEF LibraryOK, PageOK
<1>1. PageKeeps(library') /\ SentOK'
  <2>1. PageKeeps(library')
    <3>1. CASE library.open
      BY <1>0, <3>1, OtherFields DEF Others, PageFields, Entered
    <3>2. CASE ~library.open
      BY <1>0, <3>2 DEF Others, PageKeeps
    <3>3. QED
      BY <3>1, <3>2
  <2>2. QED
    BY <2>1 DEF Others, LibraryOK, SentOK
<1>2. stage' \in [Jobs -> Stages] /\ UNCHANGED adm
  BY RestagedTyped DEF Others, LibraryOK
<1>3. CASE Pipeline
  BY <1>1, <1>2, <1>3, PipelineBeside
<1>4. ASSUME ~library.open, NEW r \in Requests, NEW d \in Creates, Create(r, d) PROVE Beside
  <2>1. AnyNext
    BY <1>4 DEF AnyNext, AnyRequest, EpisodeRequest
  <2>2. MediaInv'
    BY <1>2, <2>1, AnyMedia DEF LibraryOK
  <2>3. library.assigning = "no"
    BY <1>0, <1>4 DEF PageOK
  <2>4. req \in [Requests -> Slot] /\ req' = [req EXCEPT ![r] = Idle] /\ Idle.pc = "idle"
    BY <1>4 DEF Create, Answer, Idle, LibraryOK, MediaInv, CatalogueInv, CatalogueTypeOK
  <2>5. QED
    BY <1>1, <2>2, <2>3, <2>4 DEF Beside
<1>5. QED
  BY <1>3, <1>4 DEF Others

LEMMA LibrarySteps ==
  ASSUME LibraryOK, LibraryNext
  PROVE  Beside \/ Assigned \/ \E r \in Requests : Assigns(r)
<1>0. PageOK(library) /\ SentOK
  BY DEF LibraryOK
<1>1. CASE Clicks
  <2>1. PageKeeps(library') /\ UNCHANGED <<mediaVars, sent>>
    BY <1>0, <1>1, ClicksKeep
  <2>2. SentOK'
    BY <1>0, <2>1 DEF SentOK
  <2>3. QED
    BY <2>1, <2>2, StillBeside
<1>2. CASE RowsShown \/ Board
  BY <1>0, <1>2, ListsKeep, StillBeside
<1>3. ASSUME NEW a \in Admins, Operates(a) PROVE Beside
  BY <1>0, <1>3, OperatesKeep, StillBeside
<1>4. ASSUME NEW a \in Admins, Answers(a) PROVE Beside
  BY <1>0, <1>4, AfterwardsKeep, ServiceBeside, StillBeside DEF Answers
<1>5. QED
  BY <1>1, <1>2, <1>3, <1>4, OthersBeside DEF LibraryNext

-----------------------------------------------------------------------------
(* The assignment *)

\* The body names the file and the version of the dialog.
LEMMA AssignmentBody ==
  ASSUME PageOK(library), library.dialog.kind = "assign"
  PROVE  /\ Assignment \in Dto
         /\ Assignment.media = library.dialog.m /\ Assignment.mode \in Modes
         /\ Assignment.published = FALSE /\ Assignment.job = Null /\ Assignment.url = Null
<1>1. library.dialog.m \in Media /\ library.dialog.mode \in Modes
  BY DEF PageOK, DialogOK
<1>2. QED
  BY <1>1 DEF Assignment, NoDto, Dto, Field

LEMMA AssignKeeps ==
  ASSUME LibraryOK, NEW r \in Requests, Assign(r) PROVE LibraryOK'
<1>0. /\ MediaInv /\ PageOK(library) /\ SentOK /\ AssigningOK /\ req \in [Requests -> Slot]
      /\ DOMAIN library = PageFields
  BY DEF LibraryOK, PageOK, MediaInv, CatalogueInv, CatalogueTypeOK
<1> DEFINE e == library.dialog.to
           d == Assignment
           slot == [Idle EXCEPT !.pc = "update", !.e = e, !.row = episode[e], !.dto = d]
<1>1. /\ library.dialog.kind = "assign" /\ library.assigning = "no" /\ e \in Episodes
      /\ UpdateBegin(r, e, d) /\ UNCHANGED <<adminVars, boardVars, sent>>
      /\ library' = [library EXCEPT !.assigning = IF req'[r].pc = "idle" THEN "no" ELSE "sent"]
  BY <1>0 DEF Assign, PageOK, DialogOK, Field
<1>2. /\ d \in Dto /\ d.media = library.dialog.m /\ d.mode \in Modes
      /\ d.published = FALSE /\ d.job = Null /\ d.url = Null
  BY <1>0, <1>1, AssignmentBody
<1>d. d = Assignment
  OBVIOUS
<1> HIDE DEF d
<1>3. MediaInv'
  <2>1. AnyNext
    BY <1>1, <1>2 DEF AnyNext, AnyRequest
  <2>2. stage' \in [Jobs -> Stages] /\ UNCHANGED adm
    BY <1>0, <1>1 DEF adminVars, MediaInv, AdminOK
  <2>3. QED
    BY <1>0, <2>1, <2>2, AnyMedia
<1>4. UNCHANGED episode /\ \/ req' = [req EXCEPT ![r] = Idle]
                           \/ e \in Live /\ req' = [req EXCEPT ![r] = slot]
  BY <1>1 DEF UpdateBegin, Answer, Await
<1>5. SentOK'
  BY <1>0, <1>1 DEF SentOK
<1>6. /\ DOMAIN library' = PageFields /\ library'.rows = library.rows /\ library'.dialog = library.dialog
      /\ library'.open = library.open
      /\ library'.assigning = IF req'[r].pc = "idle" THEN "no" ELSE "sent"
  BY <1>0, <1>1 DEF PageFields, Entered
<1>7. PageOK(library')
  BY <1>0, <1>1, <1>6 DEF PageOK
<1>8. AssigningOK'
  <2>1. \A q \in Requests : req[q].pc # "update"
    BY <1>0, <1>1 DEF AssigningOK, Assigning
  <2>2. CASE req' = [req EXCEPT ![r] = Idle]
    <3>1. \A q \in Requests : req'[q].pc # "update"
      BY <1>0, <2>1, <2>2 DEF Idle
    <3>2. QED
      BY <3>1 DEF AssigningOK, Assigning
  <2>3. CASE e \in Live /\ req' = [req EXCEPT ![r] = slot]
    <3>1. slot.pc = "update" /\ slot.e = e /\ slot.dto = d
      BY DEF Idle
    <3>2. req'[r] = slot /\ \A q \in Requests \ {r} : req'[q].pc # "update"
      BY <1>0, <2>1, <2>3
    <3> HIDE DEF slot, e
    <3>3. library'.assigning = "sent" /\ e \in Live'
      BY <1>4, <1>6, <2>3, <3>1, <3>2 DEF Live
    <3>4. QED
      BY <1>2, <1>6, <3>1, <3>2, <3>3 DEF AssigningOK, Assigning
  <2>4. QED
    BY <1>4, <2>2, <2>3
<1>9. QED
  BY <1>3, <1>5, <1>7, <1>8 DEF LibraryOK

LEMMA ServeKeeps ==
  ASSUME LibraryOK, NEW r \in Requests, ServeAssignment(r) PROVE LibraryOK'
<1>0. /\ MediaInv /\ PageOK(library) /\ SentOK /\ AssigningOK /\ req \in [Requests -> Slot]
      /\ DOMAIN library = PageFields
  BY DEF LibraryOK, PageOK, MediaInv, CatalogueInv, CatalogueTypeOK
<1>1. MediaInv'
  <2>1. AnyNext /\ stage' = Restaged /\ UNCHANGED adm
    BY DEF ServeAssignment, AnyNext, AnyRequest, EpisodeRequest
  <2>2. QED
    BY <1>0, <2>1, AnyMedia, RestagedTyped
<1>2. SentOK'
  BY <1>0 DEF ServeAssignment, SentOK
<1>3. PageOK(library')
  <2>1. PICK assigning \in {"no", "done"} : library' = [library EXCEPT !.assigning = assigning]
    BY DEF ServeAssignment
  <2>2. /\ DOMAIN library' = PageFields /\ library'.rows = library.rows /\ library'.dialog = library.dialog
        /\ library'.open = library.open /\ library'.assigning = assigning
    BY <1>0, <2>1 DEF PageFields, Entered
  <2>3. library.dialog.kind = "assign"
    BY <1>0 DEF ServeAssignment, PageOK
  <2>4. QED
    BY <1>0, <2>2, <2>3 DEF PageOK
<1>4. AssigningOK'
  <2>1. req' = [req EXCEPT ![r] = Idle] /\ req[r].pc = "update" /\ Idle.pc = "idle"
    BY DEF ServeAssignment, Update, Answer, Idle
  <2>2. \A q \in Requests : req'[q].pc # "update"
    BY <1>0, <2>1 DEF AssigningOK
  <2>3. QED
    BY <2>2 DEF AssigningOK, Assigning
<1>5. QED
  BY <1>1, <1>2, <1>3, <1>4 DEF LibraryOK

LEMMA AssignedKeeps == ASSUME LibraryOK, Assigned PROVE LibraryOK'
<1>0. PageOK(library) /\ AssigningOK /\ DOMAIN library = PageFields
  BY DEF LibraryOK, PageOK
<1>1. UNCHANGED catalogueVars /\ UNCHANGED <<stage, adm, sent>>
  BY DEF Assigned, Aside, mediaVars, adminVars
<1>2. MediaInv' /\ SentOK'
  <2>1. stage' \in [Jobs -> Stages]
    BY <1>1 DEF LibraryOK, MediaInv, AdminOK
  <2>2. QED
    BY <1>1, <2>1, AnyMedia DEF LibraryOK, SentOK
<1>3. PageOK(library')
  <2>1. /\ DOMAIN library' = PageFields /\ library'.rows = library.rows /\ library'.dialog = NoDialog
        /\ library'.assigning = "no"
    BY <1>0 DEF Assigned, Reloads, PageFields, Entered
  <2>2. QED
    BY <1>0, <2>1, ClosedDialog DEF PageOK
<1>4. AssigningOK'
  <2>1. \A q \in Requests : req'[q].pc # "update"
    BY <1>0, <1>1 DEF Assigned, AssigningOK, Assigning, catalogueVars
  <2>2. QED
    BY <2>1 DEF AssigningOK, Assigning
<1>5. QED
  BY <1>2, <1>3, <1>4 DEF LibraryOK

LEMMA BesideKeeps == ASSUME LibraryOK, Beside PROVE LibraryOK'
<1>1. ASSUME NEW r \in Requests, req'[r].pc = "update" PROVE req'[r] = req[r]
  BY <1>1 DEF Beside
<1>2. AssigningOK'
  <2>1. ASSUME NEW r \in Requests PROVE Assigning(r)'
    <3>1. SUFFICES ASSUME req'[r].pc = "update" PROVE Assigning(r)'
      BY DEF Assigning
    <3>2. req'[r] = req[r]
      BY <1>1, <3>1
    <3>3. Assigning(r)
      BY DEF LibraryOK, AssigningOK
    <3>4. library.assigning = "sent" /\ req[r].e \in Live
      BY <3>1, <3>2, <3>3 DEF Assigning
    <3>5. library'.assigning = "sent" /\ library'.dialog.m = library.dialog.m /\ req[r].e \in Live'
      BY <3>4 DEF Beside, PageKeeps
    <3>6. QED
      BY <3>1, <3>2, <3>3, <3>5 DEF Assigning
  <2>2. QED
    BY <1>1, <2>1 DEF LibraryOK, AssigningOK
<1>3. QED
  BY <1>2 DEF Beside, PageKeeps, LibraryOK

LEMMA NextLibrary == LibraryOK /\ [LibraryNext]_libraryVars => LibraryOK'
<1> SUFFICES ASSUME LibraryOK, [LibraryNext]_libraryVars PROVE LibraryOK'
  OBVIOUS
<1>1. CASE LibraryNext
  BY <1>1, LibrarySteps, BesideKeeps, AssignedKeeps, AssignKeeps, ServeKeeps DEF Assigns
<1>2. CASE UNCHANGED libraryVars
  <2>1. UNCHANGED <<mediaVars, library, sent>>
    BY <1>2 DEF libraryVars
  <2>2. PageKeeps(library') /\ SentOK'
    BY <2>1 DEF LibraryOK, PageKeeps, SentOK
  <2>3. QED
    BY <2>1, <2>2, StillBeside, BesideKeeps
<1>3. QED
  BY <1>1, <1>2

LEMMA InitLibrary == LibraryInit => LibraryOK
<1> SUFFICES ASSUME LibraryInit PROVE LibraryOK
  OBVIOUS
<1>1. MediaInv
  BY InitMedia DEF LibraryInit
<1>2. PageOK(library)
  <2>1. /\ library.rows = NoRows /\ library.dialog = NoDialog /\ library.assigning = "no"
        /\ DOMAIN library = PageFields
    BY DEF LibraryInit, Entered, PageFields
  <2>2. \A m \in Media : RowOK(NoRows[m])
    BY DEF RowOK, NoRows
  <2>3. QED
    BY <2>1, <2>2, ClosedDialog DEF PageOK
<1>3. SentOK
  <2>1. NoOperation \in Op /\ OpOK(NoOperation)
    BY DEF NoOperation, Op, OpOK, Field
  <2>2. QED
    BY <2>1 DEF LibraryInit, SentOK
<1>4. AssigningOK
  <2>1. \A r \in Requests : req[r].pc # "update"
    BY DEF LibraryInit, MediaInit, Init, Idle
  <2>2. QED
    BY <2>1 DEF AssigningOK, Assigning
<1>5. QED
  BY <1>1, <1>2, <1>3, <1>4 DEF LibraryOK

LEMMA LibraryKept == LibrarySpec => []LibraryOK
BY InitLibrary, NextLibrary, PTL DEF LibrarySpec

\* Whatever the page, its requests and the worker do, a row that is read calls a
\* version available exactly when the readiness service would play it, and the
\* selector of the editor offers it exactly when the row shows the original too.
THEOREM RowsAgreeAlways == LibrarySpec => []RowsAgreeWithSelector
<1>1. LibraryOK => RowsAgreeWithSelector
  BY RowsAgree DEF LibraryOK
<1>2. QED
  BY <1>1, LibraryKept, PTL

\* The row that the transaction of an assignment writes.
LEMMA DraftRow ==
  ASSUME CatalogueInv, NEW s \in Slot, s.e \in Live, UpdateSeason(s) \in Seasons,
         s.dto.media \in Media, s.dto.mode \in Modes, s.dto.published = FALSE, s.dto.job = Null
  PROVE  LET row == UpdatedRow(s) IN
         row.state = "live" /\ ~row.published /\ row.media = s.dto.media /\ row.mode = s.dto.mode
<1> DEFINE row == UpdatedRow(s)
<1>1. s.e \in Episodes /\ episode[s.e].state = "live"
  BY DEF Live
<1>2. row \in EpisodeRow /\ row.state = "live" /\ UpdateReleased(s)[s.e] \in EpisodeRow
  BY <1>1, ChangedRow DEF Keeps
<1>3. Null \notin Modes /\ Null \notin Media /\ None \notin Media /\ Null \notin BOOLEAN
  BY CatalogueAssumption, PlaybackAssumption
<1>4. /\ row.mode = UpdateMode(s)
      /\ row.media = (CASE s.dto.job # Null -> InputOf[s.dto.job]
                        [] s.dto.job = Null /\ s.dto.media # Null -> UpdateMedia(s)
                        [] OTHER -> s.row.media)
  BY <1>2 DEF UpdatedRow, EpisodeRow
<1>5. row.published = FALSE
  <2>1. s.dto.published # Null
    BY <1>3
  <2>2. row.published = (CASE s.dto.published # Null -> s.dto.published /\ HasVideo(s)
                           [] s.dto.published = Null /\ ReferenceChanged(s) -> s.row.published /\ HasVideo(s)
                           [] OTHER -> UpdateReleased(s)[s.e].published)
    BY <1>2 DEF UpdatedRow, EpisodeRow
  <2>3. row.published = (s.dto.published /\ HasVideo(s))
    BY <2>1, <2>2
  <2>4. QED
    BY <2>3
<1>6. row.mode = s.dto.mode
  BY <1>3, <1>4 DEF UpdateMode
<1>7. row.media = s.dto.media
  BY <1>3, <1>4 DEF UpdateMedia
<1>8. QED
  BY <1>2, <1>5, <1>6, <1>7

\* What the dialog assigns is a draft with the file and the version that were
\* chosen, whatever the worker and the service do between the reads of the
\* request and its transaction.
THEOREM AssignmentsAreDrafts == LibrarySpec => AssignedIsDraft
<1> DEFINE Premise(r) == library.assigning = "sent" /\ library'.assigning = "done" /\ req'[r] # req[r]
           Conclusion(r) == LET row == episode'[req[r].e] IN
                            /\ row.state = "live" /\ ~row.published
                            /\ row.media = library.dialog.m /\ row.mode = req[r].dto.mode
<1>1. ASSUME LibraryOK, [LibraryNext]_libraryVars, NEW r \in Requests, Premise(r) PROVE Conclusion(r)
  <2> DEFINE s == req[r]
  <2>0. /\ CatalogueInv /\ AssigningOK /\ req \in [Requests -> Slot] /\ SlotNamed(s)
        /\ PageOK(library) /\ DOMAIN library = PageFields
    BY <1>1 DEF LibraryOK, MediaInv, CatalogueInv, CatalogueTypeOK, PageOK
  <2>1. LibraryNext
    BY <1>1 DEF libraryVars
  <2>2. PICK q \in Requests : ServeAssignment(q)
    <3>1. ~Beside
      BY <1>1 DEF Beside, PageKeeps
    <3>2. ~Assigned /\ \A q \in Requests : ~Assign(q)
      BY <1>1 DEF Assigned, Assign
    <3>3. QED
      BY <1>1, <2>1, <3>1, <3>2, LibrarySteps DEF Assigns
  <2>3. q = r /\ Update(r) /\ s.pc = "update"
    <3>1. Update(q) /\ req' = [req EXCEPT ![q] = Idle]
      BY <2>2 DEF ServeAssignment, Update, Answer
    <3>2. q = r
      BY <1>1, <2>0, <3>1
    <3>3. QED
      BY <3>1, <3>2 DEF Update
  <2>4. UpdateReply(s) = "ok"
    <3>1. library' = [library EXCEPT !.assigning = IF UpdateReply(s) = "ok" THEN "done" ELSE "no"]
      BY <2>2, <2>3 DEF ServeAssignment
    <3>2. library'.assigning = IF UpdateReply(s) = "ok" THEN "done" ELSE "no"
      BY <2>0, <3>1 DEF PageFields, Entered
    <3>3. QED
      BY <1>1, <3>2
  <2>5. /\ s.e \in Live /\ s.dto.media = library.dialog.m /\ s.dto.mode \in Modes
        /\ s.dto.published = FALSE /\ s.dto.job = Null
        /\ library.dialog.m \in Media /\ UpdateSeason(s) \in Seasons /\ s \in Slot
    BY <1>1, <2>0, <2>3 DEF AssigningOK, Assigning, PageOK, DialogOK, SlotNamed
  <2>6. episode' = [UpdateReleased(s) EXCEPT ![s.e] = UpdatedRow(s)]
    BY <2>3, <2>4 DEF Update
  <2>7. episode'[s.e] = UpdatedRow(s)
    <3>1. s.e \in Episodes
      BY <2>5 DEF Live
    <3>2. QED
      BY <2>0, <2>5, <2>6, <3>1, ChangedRow DEF Keeps
  <2>8. QED
    BY <2>0, <2>5, <2>7, DraftRow
<1>2. LibraryOK /\ [LibraryNext]_libraryVars => [\A r \in Requests : Premise(r) => Conclusion(r)]_libraryVars
  BY <1>1
<1>3. QED
  BY <1>2, LibraryKept, PTL DEF LibrarySpec, AssignedIsDraft
=============================================================================
