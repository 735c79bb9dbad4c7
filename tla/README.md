# MasMax (NovaStream): verification of the media pipeline

TLA+ models of the program, the TLC runs that check them on small instances and
the theorems that TLAPS proves for all of them. Paths below are relative to the
repository unless they end in `.tla` or `.cfg`; `apps/backend/src` is written
`~`, `apps/frontend/src` is written `@`.

## 1. The system

MasMax is a streaming site. A NestJS API keeps its state in PostgreSQL
(Prisma), a separate process transcodes videos with FFmpeg, BullMQ on Redis
stands between the two, and files live on a local disk or in S3. Administrators
upload a video in parts, have it turned into an HLS set or an MP4 remux, attach
the result to an episode or a movie and publish that. Visitors play it and the
player records how far they came.

| Component | State it keeps | Operations | Hard behaviour |
|---|---|---|---|
| Video processing service (`~/video-processing/video-processing.service.ts`) | `VideoProcessingJob` rows, status of the original's `MediaFile` | enqueue, retry, cancel, configure, associate | rows read before an await and used after it; the queue and the database change in two steps |
| Worker (`video-processing.processor.ts`, `worker.ts`) | job rows, output files, output `MediaFile` rows, video columns of contents | one run per delivery, HLS or remux | crash and repeated delivery, cancellation while FFmpeg runs, transfers that break off, errors after the output is registered, removal of shared originals |
| Resumable uploads (`~/uploads`) | `ResumableUpload` row, part files, assembled file, stored video, an in-memory set of marks | initiate, part, complete, cancel, timer | overlapping parts, late parts, cancellation and expiry under an assembly, crash or full disk in the middle of a copy, repeated completion |
| Upload client (`@/lib/resumable-upload.ts`, the upload field) | progress of one upload | start, pause, resume, cancel | retries with back-off, requests that go on after they were given up |
| Episodes, readiness, seasons (`~/episodes`, `~/playback`, `~/seasons`, `~/series`) | episodes, their reservation of a job, seasons | create, update, bulk create, import, publish, copy, remove | check-then-act publication, numbering of removed episodes |
| Media administration (`~/video-processing/admin-media.service.ts`) | outputs, originals, publication | publish, unpublish, delete of HLS, remux, original, asset | checks and removals in separate steps, reconciliation when one fails |
| Administration pages (`@/admin/episodes`, `@/admin/media`) | a form, a list, the polled jobs | open, edit, save, assign, bulk operations | answers that arrive when another form is shown, rows older than the server's |
| Player and history (`@/components/VideoPlayer.tsx`, `~/history`) | position in the local storage, history rows | record, list, remove | calls that overtake each other or are lost |
| Probe and delivery (`media-probe.ts`, `remux-policy.ts`, `~/media`, `~/movies`, the movie form) | none | box scan, compatibility, links, playlists | boundaries of a binary scan, one link read by four functions |
| Subtitles, storage administration, users, profiles, authentication, audit, comments, lists, favorites, settings, search | rows | create, read, update, remove | a default track, the last administrator, a clean-up of unreferenced objects |

Uploads hand a finished video to the processing service (a call inside
`complete`); the service hands a job to the worker through BullMQ; service,
worker, episodes and media administration share the job rows, the `MediaFile`
rows, the stored objects and the columns of episodes and movies. Nothing locks
these between two awaits, except the advisory lock of `enqueueKind` and
PostgreSQL's transactions, so the interleaving of requests, worker and timer is
what the models are about.

What makes the parts correct:

- processing: a content never names an output that is not registered or whose
  files are gone; a failed run leaves no files; no destination is forgotten; the
  original goes only after its output was attached and never while shared; jobs
  end; the original's row returns to rest;
- uploads: only a whole file gets a row, and what is stored is the declared file
  or its beginning when a checksum was given; confirmed parts do not change; a
  completed upload has its video and is completed by the assembly that registered
  it; assemblies and the client's calls end;
- catalogue: an episode has its place alone; a job belongs to one episode; what
  a creation with a file or an edition puts on show plays when it is written;
- media: no deletion leaves a live reference or becomes impossible to repeat; the
  selector offers what plays, except of deleted originals;
- pages: a change goes to the episode that was shown; rows catch up;
- viewing: one row per content, no position is dropped before it is recorded.

## 2. Modules

| Module | What it is |
|---|---|
| `VideoProcessing` | service, queue and worker: the job rows, BullMQ entries, worker slots, requests in flight, outputs, originals and contents |
| `JobLifecycle`, `OutputCatalogue` | abstract: the life of a job as an administrator sees it; which outputs are registered, what contents name, which originals are kept |
| `ResumableUpload` | one upload: row, part files, assembled file, stored video, requests in flight |
| `UploadSession` | abstract: what is left of an upload as a session: it may be opened again out of any end, but is published once and completed only by the assembly that published it |
| `UploadClient` | the browser's side of `ResumableUpload`: the loop over parts and the field around it |
| `EpisodePlayback` | readiness of a source and selection of a version, operators over media and job rows |
| `EpisodeCatalogue` | episodes, seasons and imports of a series with their requests; extends `EpisodePlayback` |
| `EpisodeShelf` | abstract: the places of episodes |
| `MediaAdmin` | the media library's services, beside `EpisodeCatalogue`, which it extends |
| `JobBoard` | the provider that polls the jobs; extends `EpisodeCatalogue` |
| `EpisodeEditor`, `MediaLibrary` | the two administration pages; each composes `MediaAdmin` and `JobBoard` |
| `Viewer` | players, local storage, `HistoryService` |
| `MediaProbe`, `VideoDelivery` | what is read in a file and decided from it; from a typed link to what a visitor is shown |
| `MC...` | definitions of the constants for TLC |
| `VideoProcessingOutputs`, `VideoProcessingSafety`, `ResumableUploadProofs`, `VisitorProofs`, `EpisodeCatalogueProofs`, `MediaAdminProofs`, `EpisodeEditorProofs`, `MediaLibraryProofs` | proofs, section 4 |

### How a handler becomes actions

A handler is cut where it awaits PostgreSQL, Redis, the disk or the object
storage. A slot of `req` (a request the API serves) or `worker` (a concurrency
slot of the worker) has a `pc` that names the next statement; its other fields
are the handler's local values, so a value that the code reads and uses later
is stale in the model exactly when it is in the code. A transaction is one
action. The reads and refusals at the head of a handler are the guard of the
action that begins it: a refused request changes nothing.

`VideoProcessing`: `Enqueue`, `RetryCheck`/`Requeue`, `CancelCheck`/
`CancelRemove`/`CancelMark`/`CancelFlag`, `ConfigureCheck`/`ConfigureWrite`,
`AssociateCheck`/`AssociateRead`/`Associate` and `CountReferences`/
`RemoveOriginal`/`RemovedOriginal` are the service; `QueueAdd`/`QueueLink` and
their failures are `addToQueue`; `Take` to `Record` are `process` and
`processRemux`, `ToCatch` the jump to their catch block. `bull` has one entry per
job and attempt, as the ids `video-<job>-<attempt>` have: an entry that is still
known makes the next `add` a no-op. The transfer of a file is `Upload`, which puts
it, and `Uploaded`, which records its key when `putFile` has returned; `torn` has the
files whose transfer broke off before that.

`ResumableUpload`: `PartCheck` to `PartFails` are `uploadPart`; `CompleteCheck`
to `Recover` are `complete` and the part of `validateVideo` that changes state.
`putFile` is three steps, as `LocalStorageDriver` has it: `Put` begins the copy to
the final key (`partial`), `CopyEnds` ends it, `RemoveSource` removes the assembled
file; each can fail, and a process can die between them. `PurgeFails` is the removal
of the session directory that throws inside the `try` of `complete`;
`CancelCheck`, `CleanupCheck` and the `Remove...` and `RecordEnd` steps are
`cancel` and `cleanupExpired`, which remove files side by side. `UploadClient`
adds a call of the client to each request: the client may give it up while the
server goes on with it (`late`).

`EpisodeCatalogue`: a handler that reads before its transaction is two actions,
the reads kept in the slot and then the transaction, which is serializable.
`MediaAdmin` cuts its handlers at every await; the pages keep the form a handler
was called with and let its answer find the page as it is then. `Viewer` cuts a
call at the read of the row and at its write.

Operators whose names end in `Bug` are mutated forms of the definition that
follows them. No behaviour uses them; they document which mistake each property
catches.

### What is abstracted

- Processing: stages, progress, qualities, sizes and messages; owners (requests
  come from owners and administrators); the request validation of DTOs;
  `ENABLE_HLS=false`; how much of a broken transfer was written (`torn` says that
  one broke off, and the file may be there or not); eviction of old BullMQ entries. The thumbnail and the segments of an HLS set are the
  numbers `1..NFiles`, transferred in that order; subtitle files are counted
  with them. A crash kills one slot, or one request, and BullMQ delivers the
  entry again (`WorkerLost`). Whether originals are local or in S3 decides where
  a missing one is noticed; both are allowed (`Fails`).
- `Settle` reads the reference count of `deleteOriginal` and writes the
  `retainOriginal` and `READY` updates that follow in one step. The count and
  the deletion after it are separate steps.
- Uploads: one upload, because uploads share only the table; parts of equal
  size, so a size is a number of parts; contents are members of `Versions`; a
  matching part checksum is the identity of the content that was sent. Which
  contents FFprobe and the container signature accept is left open, so nothing
  rests on them. Creating the row and its directory is one step; so are the
  size, checksum and mark checks of the assembled file. The time of expiry is
  arbitrary (`Expire`). The enqueueing of a job in `complete` is
  `VideoProcessing`'s `Enqueue`; here it succeeds or throws. The removals of a
  cancellation and of the timer do not fail in the model.
- Catalogue and media: one series; a job is a number, the larger the later; the
  pipeline is reduced to the steps the services see (a job ends, is attached);
  texts, markers, posters and durations are left out, and so are the lists and pages
  that visitors read: they filter the rows that are modelled.
- Pages: text fields; the number of an episode is chosen when the form is sent.
  Viewing: positions are parts of a duration, one browser. Delivery: local
  storage, addresses as records of what the four functions test.

## 3. Runs

Every run whose configuration says `CHECK_DEADLOCK FALSE` may stop: all requests
are answered and no work is left. Only `Delivery` never stops.

| Run | Instance | Question |
|---|---|---|
| `JobsConcurrent` | 1 HLS job, 2 slots, 2 requests that retry, configure and associate, 2 attempts, 2 files, worker faults, either `retainOriginal` | is a job run once at a time, are the files behind the link of a completed job whole, is no association forgotten, is the original there for a retry, given up only after an association and its row at rest |
| `JobsFaults` | 1 HLS job of an original with embedded subtitles, 2 contents that may have a default subtitle already, 1 slot, 1 request at a time, all five operations with 2 attempts, worker and database faults | is no file of an unregistered output left but one whose own transfer broke off, is a shared original kept, also by a run that a cancellation and a retry doubled |
| `JobsLifecycle` | 1 REMUX job, an episode and a movie, 1 slot and 1 request, worker, Redis and storage faults, a crash, fairness | links, the refinements of `OutputCatalogue` and `JobLifecycle`, do jobs end |
| `UploadClient` | 2 parts, 2 calls of `startVideo`, 2 attempts, lossy network, all faults, a crash, fairness | confirmed parts do not change as long as a request ends before the next, calls end |
| `UploadAssembly` | a client that sends parts and completes, a tab whose parts may end late and which cancels, the timer; a checksum, all faults, in the middle of a copy too, a crash, fairness | does only a whole video get a row, is what is stored the declared one or its beginning, has a completed upload its video, the refinement of `UploadSession`, do assemblies end |
| `Episodes` | 2 episodes, 2 seasons, 1 file, 1 job, 2 overlapping requests | the refinement of `EpisodeShelf`, jobs are not taken away, what a creation with a file or an edition puts on show plays, refusals are right |
| `Seasons` | the same with 1 request and every operation of seasons, series, imports and copies | removed seasons are empty |
| `MediaSerial` | 1 file with 2 jobs, 2 episodes, an administrator and a request, one operation at a time, storage and database faults | deletions are complete and can be repeated, an original that is played is kept, the selector agrees with the readiness check except of deleted originals |
| `Editor` | 1 episode, 1 file with 1 job, a page with 2 changes to the form of a new episode and 1 to the form of an old one | does a change reach the episode whose form was shown |
| `Library` | 3 files, 2 jobs, 2 filters, pages of 2 rows, 1 click, 1 step of others, lossy network, fairness | do rows agree with the server and catch up with ended jobs |
| `Viewer` | 1 player, 3 contents of which one is refused, 3 saves, 2 calls in flight | what is kept, recorded and listed |
| `Delivery` | all typed links, all files of up to 3 boxes, as originals, HLS sets and remuxes | is a movie delivered as the player its type needs, is fast start detected exactly, where do panel and server agree that a version plays |

### Bounds

The bounds are small but every case the properties speak of happens within
them. Two slots or requests are enough for any two steps of different handlers
to interleave; two files (`NFiles`) for a transfer to stop between them; two
parts (`NParts`) for an order and two contents (`Versions`) for a mixture; two
attempts (`MaxAttempts`) for a retry after a failure; one crash (`MaxCrashes`) at
every statement. For a part to end late two requests must send the same part:
the one that was not confirmed when the upload was completed had read its row
before the other confirmed it. `MaxRuns` of 2 lets a paused call and the one that
continues it overlap. `MaxNumber` of 2 gives two places; removed episodes take
negative numbers down to `Floor`, low enough that it is never reached.
`MaxChanges` of 2 chooses where the video of a new episode comes from and then the
video, `MaxEdits` of 1 changes one field of an episode that exists, `MaxMeanwhile`
bounds what happens while a request of the page is in flight; `Editor` has
`Direct = {}`, so originals of that run need a job to play. `Limit` of 2 over
3 files makes two pages; `MaxClicks` and `MaxMeanwhile` of 1 let one operation and
one change elsewhere meet. `MaxSaves` of 3 lets two calls overtake each other
and a third follow, `MaxRows` of 2 leaves room for the second row that must not
appear; `Duration` 3 and `Gap` 2 have a position below and one above the gap
between saves, `ContinueMax` 50 and `Completion` 80 one that is listed, one between
the two thresholds and one that completes.
`BoxLimit` of 2 with `MaxBoxes` of 3 reaches the limit of the scan, 256 in the
code. Every file of `Delivery` is sent and judged. What becomes of it in a movie depends on
its extension, picture codec and first track only, so the constraint `Followed`
explores it for the files without boxes that are 1080 high and have at most one track.

### What the properties need

The passing properties hold within limits that the code sets; `PROJECT.json` lists
each with the hazard at its line, and section 4 says for the proved ones why the
limit is there.

- `RegisteredWhole`, `StoredAsDeclared` and `CompletedRegistered` need that one client
  completes the upload (`OneCompleter`; the run's `OpsOf` has one). A late part
  that sets `UPLOADING` over `ASSEMBLING` lets a second completion in. The first speaks
  of the moment of the row: a copy that breaks off leaves part of a video without one,
  and a retry after the row exists copies over the object.
- `ConfirmedUnchanged` needs that a request ends at the server before the next
  arrives. `ImplementsSession` needs nothing: `UploadSession` has the reopening of
  an upload that ended, by a late part or by a failed removal.
- `LinkedOutputUsable` speaks of jobs that are shown as `COMPLETED`, unless a catch
  block is at one: a run that fails after the registration deletes the files of a
  linked output and then fails its job.
- `OneRunner` is checked without cancellations: a cancellation between delivery
  and start, followed by a retry, does start a second run. A cancellation decided
  on an old row may also overwrite `COMPLETED`.
- `JobsSettle` needs requests that do not overlap and processes that do not die.
- `OriginalRemovedAfterAssociation` and `NoLostAssociation` are checked with one
  content per job: two overlapping `configure` requests with different contents
  both pass the check, and the later one replaces the destination.
- `FailedKeepsOriginal` is checked with one job per original: an HLS job that may
  remove the original does so under a REMUX job of it that still waits. Nor does
  the worker ask whether an episode plays the original.
- `SharedOriginalKept` needs that nobody associates between the count of the
  references and the removal.
- `NoOrphanOutput` needs a storage that deletes when it is asked to: the code
  ignores an error of the deletion. It excepts a file whose own transfer broke off:
  its key is recorded when `putFile` returns (`video-processing.processor.ts:96`).
- `RemovedSeasonIsEmpty` needs requests that do not overlap: a creation that has
  read the season may land in it after the removal.
- `ChecksBeforePublish` speaks of creations with a stored file and of editions, whose
  transactions check. `PATCH /admin/episodes/publish` checks before its transaction
  (`episodes.service.ts:263`), a creation with the address of a stored file too, and
  batches, imports and copies do not check.
- `SelectorAgrees` excepts deleted originals, which `listSelectable` leaves out
  (`admin-media.service.ts:110`) and the readiness service does not look at.
- `StartedIsListed` says that what was started is listed, completed, or between
  `CONTINUE_WATCHING_MAX_PERCENT` and `PLAYBACK_COMPLETION_PERCENT`: nothing orders
  the two (`history.service.ts:19`), and when the second is larger what lies between is
  in neither state.
- `ConflictMeansLive` speaks of bodies that give a number. An edition that changes
  only the season releases nothing (`episodes.service.ts:184`), so a row archived
  under a positive number can refuse it.
- `OriginalInUseKept`, `DeletionCanBeRetried` and `DeletedIsForgotten` need one
  operation at a time: an edit between the check of a deletion and the deletion
  makes an episode play what is then removed. Workers go on meanwhile. For
  `OriginalInUseKept` the run has one original and one destination: a running
  sibling job that attaches the original to an episode of another file, which
  plays its own original, after the check of `deleteOriginal`
  (`admin-media.service.ts:292`), makes that episode play what is then removed.
- `OtherFieldsKeepVideo` speaks of episodes whose columns name outputs of their
  own file (`OfItsFile`). A version requested while another file is selected but
  not saved makes the worker attach it (`video-processing.service.ts:157`) beside
  the HLS version of the file before, which the next edition then leaves out.
- `LinkPlaysAsSubmitted` says what is shown, and this is nothing for exactly one kind
  of movie: the one whose address is an uploaded original that browsers do not
  decode, see below.
- `OneRowPerContent` is enforced by the unique index of the history.

### Where code, documents and tests differ

Met while modelling; no property claims them.

- An association that fails deletes the files of an output that is registered
  (`video-processing.processor.ts:118`). It does when a second default subtitle
  is refused, though `docs/VIDEO_PROCESSING.md:80` calls the creation of
  subtitles idempotent.
- A part that is confirmed after the completion was claimed lets a second
  assembly append to the same file (`resumable-upload.service.ts:76` and `:90`),
  after the first has checked what `docs/RESUMABLE_UPLOADS.md:39` lists. Repeating
  a completion that failed after the video was registered deletes the stored
  object (`media-validation.service.ts:33`) and never succeeds, though line 31 of
  that document says that a completion creates or recovers the job. The removal of the
  session directory is such a failure: it is inside the `try`
  (`resumable-upload.service.ts:110`), so that its error sets `UPLOADING` over
  `COMPLETED`, and the next completion copies over the registered object and deletes it.
- A copy or transfer that breaks off leaves a file that nobody removes: `putFile` copies
  and then removes the source (`local-storage.driver.ts:15-16`), the worker records the
  key after it (`video-processing.processor.ts:96-97`), and `validateVideo` deletes the
  object only when the row is refused (`media-validation.service.ts:33`).
- A worker that dies in its catch block, or whose last update the database refuses,
  leaves a job `COMPLETED` whose files it has deleted
  (`video-processing.processor.ts:118-119`).
- `deleteHls` does not see an episode that resolves its HLS version from its file
  and has no URL of it (`admin-media.service.ts:258`, compare
  `admin-media.service.spec.ts:51`, "while it is the active episode source").
- A movie saved with its remux plays the original: the form keeps both addresses
  (`MoviesAdminPage.tsx:44`) and delivery reads a remux of episodes only
  (`media.service.ts:22`), though the field calls it "MP4 remux compatible para
  reproduccion nativa" (`UploadField.tsx:57`). Of an MP4 with an AC-3 track nothing
  plays.
- An uploaded MP4 that browsers do not decode (HEVC, AC-3) can be saved as the video
  of a movie: the field calls `onUploaded` for every original (`UploadField.tsx:94`) and
  the form ignores `directlyPlayable` (`MoviesAdminPage.tsx:44`). It is stored and
  delivered, and shows nothing.
- The panel says of an uploaded `.mov` with H.264 and AAC that it plays
  (`UploadField.tsx:142` reads the type `video/mp4` of its row), and the server says
  that it does not (`direct-playback.ts:21` reads the extension).
- The HLS set and the remux of a deleted original go on playing but cannot be selected
  for an episode any more (`admin-media.service.ts:110`).
- "Desvincular video" sends a null file that the API treats as not sent
  (`EpisodesAdminPage.tsx:837`, compare `episode-editor.spec.ts:208`).
- Leaving the player inside the application saves nothing, since the element is
  gone when the effect is cleaned up (`VideoPlayer.tsx:146`), though `README.md:57`
  says that progress is saved on leaving.
- A job whose worker died stays `PROCESSING`; no code reads the flag that a
  cancellation of it sets. With S3 the worker writes absolute URLs into its
  playlists, which `deliverHls` refuses.

So three statements one might expect are not among the properties: that an upload
which has ended stays ended, that an active HLS version is never deleted, and that a
cancellation is honoured in the end.

### Fairness

`VideoProcessing`: a request in progress goes on (its promises settle, and
PostgreSQL and Redis answer or fail) and a worker slot takes waiting entries and goes
on (FFmpeg ends, and is killed when the flag is set). Weak fairness per slot is
enough, since no step of a handler is disabled by another slot for ever.
Administrators never have to act. `ResumableUpload`: time passes (`WF` of `Expire`), and per slot a
handler goes on or the hourly timer begins the cleanup of what has expired (`WF` of
`RequestStep \/ CleanupCheck`); clients never have to act.
`UploadClient`: the server serves what it received and the loop of a call goes
on; its timers end its waits. The network may lose every request.
`MediaLibrary`: the browser shows the rows it was sent (`WF` of `RowsShown`), the
interval asks for the list of jobs (`WF` of `Poll`), and a list that is asked for
again and again is answered in the end (`SF` of `Listed`).

## 4. Proofs

Eight modules hold theorems. They assume only the named `ASSUME`s of the
constants, which TLC evaluates in every run, and the conditions a theorem names;
each condition is a formula over the constants that a run meets.

**Types.** `TypeInvariance`, `UploadTypeInvariance`, `ViewerTypeCorrect`. The
types alone are not inductive: a row is updated at `worker[w].job`, which is a
job only because the slot is busy, and a transfer stays within `NFiles` only
because a slot that uploads has a file left (`SlotsNamed`, `SlotsReady`). The
proofs split the state into rows, slots and requests and go through the actions
once for each.

**Links and the catalogue of outputs.** `VideoProcessingOutputs` proves
`LinksRegistered`. A step that attaches an output relies on what its slot or
request saw some awaits ago; `OutputInv` adds that (`WorkersSaw`, `RequestsSaw`)
and that registration and the job's row agree (`RowsAgree`). Nothing
un-registers an output, so what was seen stays true.
`CatalogueRefinement` maps each action to `Register`, `Attach`, `GiveUp` or a
stutter of `OutputCatalogue`, with `OutputInv` for the guards.

**What fails, and what it leaves** (`VideoProcessingSafety`):

| Theorem | Conditions | Inductive invariant | Why the condition |
|---|---|---|---|
| `NothingOrphaned` | no crash, the storage works | `FilesOwned`: a file of an unregistered output, unless its own transfer broke off, belongs to a run that has recorded it and will delete it | a dead slot forgets what it uploaded; an error of the deletion is ignored |
| `RetryPossible` | one job per original | `RemovedIsProcessed` | a sibling job may remove the original |
| `OriginalComesToRest` | no crash, the database works | `UnsettledIsOccupied`: who made a row `PROCESSING` is at work | the write that would settle it is not repeated |
| `DestinationKept` | no crash, the database works, no embedded subtitles, remuxes for episodes only | `PromiseInv`: a completed job with a destination that is not attached has a slot or request that knows the destination | a refused subtitle fails a completed job; the worker's second read gives up a remux for a movie |
| `RemovalFollowsAssociation` | one request, or one content | `DestinedInv`: no request or slot contradicts the destination of the row | two `configure` calls replace each other's destination |
| `SharedOriginalStays` | one slot attaches | `CountHolds`: the references counted are those that are | the count is older than the deletion |

**The entries of a job** (`VideoProcessingSafety`). Nothing in the code locks a
job against a second run: its entries in BullMQ do. `EntriesInv` says that an
attempt is queued when every earlier one has ended, that a slot at work holds an
active entry alone, that a row counts its attempts, and that a request about to
add an entry adds the next one. It is inductive as long as nothing takes a job
back while its entry waits (`EntriesFollowed`: no cancellation, and neither Redis
nor the database refuses a statement after the queue has accepted). With it:

- `RunnersApart`: two slots never process one job, crashes and repeated deliveries
  included;
- `WhatIsLinkedIsWhole`: the files behind a link of a completed job are stored and
  whole (`FilesInv`: a run that has registered has stored every file, and a completed
  job that no catch block is at has all of them), refused subtitles and every error of
  FFmpeg, storage and worker included. It needs that no process dies: one that does
  in the catch block leaves the job completed without its files (section 3);
- `LifecycleRefinement`: a job follows `JobLifecycle` with one request at a time,
  crashes included, of originals without embedded subtitles. `LifeInv` says that the
  status of a row is the one its slot has seen. Two overlapping retries of one job
  break it: both pass the check, and the second queues the job when the first may
  have completed.

**Uploads** (`ResumableUploadProofs`). That an object which gets a row is whole
needs to know what was copied. `AssemblyInv` says that an assembler that appended n
parts holds a file of at most n parts, that a file of exactly n is in order, and that a
request whose copy has ended has left a whole object. A concurrent removal
empties the file and makes it shorter for good, so a file with all the parts was
never removed. `CompletionInv` adds what the completer knows of the row and the
object between the store and the last update, `DeclaredInv` that what passed the
check is the declared content. Late parts, cancellations, cleanups, faults, copies
that break off and crashes are all in `WholeVideo`, `CompletedUpload` and
`DeclaredVideo`; overlapping completions are excluded by `OneCompleter`.
`SessionRefinement` has no condition. `SessionInv` says that at most one request is
between the registration and the answer, since the row is unique, that an upload is
not `COMPLETED` then, and that a completed one is registered; whatever else sets a
status, a late part or the catch block after the directory could not be removed,
is a `Reopen` of `UploadSession`.

**The visitor's side** (`VisitorProofs`, of `Viewer` and `VideoDelivery`, which
share no state). `RowsUnique`, `KeptPosition` and `StartedListed` hold without
conditions, for any number of players, contents and calls and any two thresholds. `LinksPlay` proves
`LinkPlaysAsSubmitted` for any links and uploads: `MovieOK` says that the columns of
a movie come from one link, from one upload or from the worker, and `FormOK` that
the open form holds such columns too, which the worker may overtake. It has one
condition, `PlainLinks`: the page of a Drive file has the path of a page, and a query ends in
`.m3u8` only when the path does; `authorize` and the import test the query with the
path (`media.service.ts:43`), so another address is taken for a playlist.
`OriginalsAndRemuxesPlay` proves the first two parts of `VersionsPlay` for every
upload that is accepted, the `.mov` and `.webm` for which panel and server differ
among them.

**Episodes** (`EpisodeCatalogueProofs`). `CatalogueInv` is the invariant: the
tables and slots keep their types, a live episode has a season and a number above
zero (`LivePlaced`), and a slot names what its handler has read (`SlotNamed`).
Every action is shown to do one of four things to the places (`ShelfStep`): leave
them, put new rows into free ones, move one row to a place no other live row has,
or archive one. The argument rests on the numbers: an archived row goes below zero
(`ArchivedNumberBelow`, from the least of a finite set of integers), the rows that
make room for a batch stay below zero (`BatchReleasedKeeps`), and the items of a
batch get rows of their own (`InsertedRows`, by the turn of a free row).

- `CatalogueTypes` and `ShelfImplemented` hold for any number of overlapping
  requests and any rows archived before.
- `ConflictsAreLive`: an archived row never refuses a number that was given.
- `NothingStolen` and `CheckedWhenPublished` need `JobsSound`: a job without a row
  has no destination, and the output of a completed one is registered and stored.
  What an edition checks of one job, or of the versions it selects, is therefore
  true of the newest version of the file, which is what the readiness service asks.
  A creation with a stored file is checked the same way (`OnlyCreated`,
  `SelectedByAll`).

**The media library** (`MediaAdminProofs`). `MediaInv` adds to `CatalogueInv` that
the slots of the library name what their handlers work on (`AdminOK`), that a
completed job has a registered output (`Registered`), and that it is associated
with its destination unless its worker is about to (`AttachedOK`). The actions are not gone through
again for each theorem: `LibraryServes` says once what a step of the library may
change (`Serves`), `PipelinePipes` and `RequestOwned` the same of the workers and
of the requests to episodes.

- `MediaTypes` and `SelectorAgreement` hold whatever overlaps: the newest
  registered output of a file, which the selector offers unless the original is
  deleted, is the newest completed one, which the readiness service asks for.
- `RetryFindsVersion` needs one operation at a time (`SerialMediaSpec`). `Alone`
  says that then at most one slot is busy and only workers that attach an output
  move beside it (`OnlyEnds`); `DeletesOutput` that the output a deletion has
  checked is still registered at each of its later statements.
- `DeletedAreForgotten` needs to know where the video columns of an episode come
  from. `Shows` says it of every step: a column is empty, as it was, as a request
  has read it in some row, or a version that may be attached (`VersionFrom`).
  `ForgetInv` then adds that a deleted output is registered nowhere and about to
  be attached by no worker (`DeletedRows`), that no row a request has read names
  it (`SlotsForget`), and that no live episode names what `deleteHls` deletes once
  its columns are cleared (`HlsFree`).

**The page that edits episodes** (`EpisodeEditorProofs`). The page composes
`MediaAdmin` and `JobBoard`, and answers of its requests find whichever form is
open by then. `EditorInv` is `CatalogueInv` and three more parts. `PageInv` says
that a form that has loaded is the form of the episode being edited, and that the
last read asked for is of the form that waits for it, which is why an older answer
changes nothing. `CallsOK` ties a request in flight to the episode it was sent for,
not to the page. `UrlsOK` says that an episode without a file has in its URL column
what it was saved with. `EditorSteps` makes each step of the page a call of a
service, a step of the pipeline or neither. Both theorems hold for any number of
episodes, files, requests in flight and changes.

- `ChangesReachTheirEpisode`: what is sent goes to the episode whose form was shown.
- `EditionsKeepVideo`: an edition of other fields, sent with the video as the row
  has it, leaves file and mode, and the episode plays and is as ready as before.
  It is about episodes whose columns are of their own file (`OfItsFile`, section 3):
  without that it is false with two originals, and the run has one.

**The page of the media library** (`MediaLibraryProofs`). The rows of the page are
as old as its last list, and its operations act on what they show. `PageOK` and
`OpOK` say that a row or a dialog that offers an operation names a job or file to
operate on, `SentOK` the same of the operations being served. Every step is then a
step of the service, of a request, of the pipeline or of neither (`LibrarySteps`),
so that `MediaInv` is kept by the lemmas of `MediaAdminProofs` and not proved again.

- `RowsAgreeAlways`: a row that is read now calls a version available exactly when
  the readiness service plays it, and the selector of the editor offers it exactly when
  the row also shows the original. `RowsAgree` derives it from `Registered`: the
  newest registered output of a file is its newest completed one.
- `AssignmentsAreDrafts`: what an assignment writes is a draft with the file and the
  version that were chosen. `AssigningOK` says that there is one assignment in
  flight, of the file of the dialog and not published, `DraftRow` what its
  transaction makes of any row.

**Only model-checked.**

- Liveness under fairness (`JobsSettle`, `CallsEnd`, `AssemblySettles`,
  `EndedJobsLeaveRows`), which this prover cannot express.
- `FastStartExact`, and the ladders of `VersionsPlay`: `MediaProbe` folds over the
  boxes of a file and sorts the qualities of a ladder, and what a fold returns for
  every sequence needs induction over data.
- `ConfirmedUnchanged`, `RemovedSeasonIsEmpty` and `OriginalInUseKept`: with
  requests that overlap they are false (section 3), so nothing is claimed of them
  beyond the serial instance of the run.
- `FollowsLifecycle` when Redis or the storage refuses a statement, which the run
  `JobsLifecycle` has beyond the conditions of the theorem.

## 5. Not modelled

| Part | Why |
|---|---|
| Movies, genres, comments, lists, favorites, settings, search, profiles | single statements on one row, refused by a unique index or not; movies take part in `VideoProcessing` as destinations |
| Authentication, users, audit | cryptography and tokens of a library; the roles are guards of the requests the models start from |
| Subtitle files, storage administration | conversions and listings of files; the default track is in `EpisodeCatalogue`, the objects of outputs in `VideoProcessing` |
| Legacy media records | read only by a migration |
| FFmpeg, PostgreSQL, Redis, S3 | external: what they may answer, from how the code uses them |
| Other pages and providers | forms without state that outlives an answer |
