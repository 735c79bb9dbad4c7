--------------------------- MODULE EpisodePlayback ---------------------------
(***************************************************************************)
(* EpisodePlaybackReadinessService and the selection of a video version by *)
(* EpisodesService, as operators over the rows of media files and of their *)
(* processing jobs.  A job is a natural number: the larger was created     *)
(* later.  A reason is the code's EpisodePlaybackReason; "ready" stands    *)
(* for a null reason.                                                      *)
(***************************************************************************)
EXTENDS Integers, FiniteSets

CONSTANTS
  Media,      \* uploaded originals; also names the stored path of one
  Jobs,       \* VideoProcessingJob rows
  KindOf,     \* kind of a job
  InputOf,    \* original a job processes
  Direct,     \* originals a browser plays: MP4 with H.264 and AAC or MP3
  Links,      \* external video URLs
  Playlists,  \* the links that are HLS playlists
  Null

ASSUME PlaybackAssumption ==
  /\ Jobs \subseteq Nat /\ \E last \in Jobs \cup {0} : \A j \in Jobs : j <= last
  /\ KindOf \in [Jobs -> {"HLS", "REMUX"}]
  /\ InputOf \in [Jobs -> Media]
  /\ Direct \subseteq Media
  /\ Playlists \subseteq Links
  /\ Media \cap Links = {} /\ Jobs \cap (Media \cup Links) = {}
  /\ Null \notin Media \cup Jobs \cup Links

Modes == {"ORIGINAL", "REMUX", "HLS"}

MediaRow == [status: {"READY", "BUSY", "DELETED"}, stored: BOOLEAN]

JobRow(Targets) ==
  [status: {"ABSENT", "ACTIVE", "COMPLETED", "FAILED", "CANCELLED"},
   output: BOOLEAN,                \* outputMediaFileId, and masterPath for HLS
   stored: BOOLEAN,                \* the output is in the object storage
   target: Targets \cup {Null},
   retain: BOOLEAN,                \* retainOriginal
   assoc: BOOLEAN]                 \* associatedAt is set

Latest(S) == IF S = {} THEN Null ELSE CHOOSE j \in S : \A k \in S : k <= j

InputJobs(m) == {j \in Jobs : InputOf[j] = m}

OriginalReason(media, m) ==
  CASE media[m].status # "READY" -> "MEDIA_FILE_NOT_READY"
    [] m \notin Direct -> "ORIGINAL_NOT_BROWSER_COMPATIBLE"
    [] ~media[m].stored -> "ORIGINAL_FILE_NOT_FOUND"
    [] OTHER -> "ready"

OutputReason(row) ==
  CASE ~row.output -> "OUTPUT_INVALID"
    [] ~row.stored -> "OUTPUT_NOT_FOUND"
    [] OTHER -> "ready"

\* evaluateManaged given the jobs `js` of the media file.
ManagedReason(media, job, mode, m, js) ==
  LET kind == {j \in js : KindOf[j] = mode /\ job[j].status # "ABSENT"}
      In(states) == {j \in kind : job[j].status \in states}
  IN
  CASE mode = "ORIGINAL" -> OriginalReason(media, m)
    [] mode # "ORIGINAL" /\ In({"COMPLETED"}) # {} -> OutputReason(job[Latest(In({"COMPLETED"}))])
    [] OTHER -> IF In({"ACTIVE"}) # {} THEN "PROCESSING"
                ELSE IF kind # {} THEN "FAILED" ELSE "NOT_FOUND"

\* evaluateLegacy: an episode without media file plays its URL, which may be
\* that of a stored file.
LegacyReason(media, job, mode, url) ==
  CASE url = Null \/ mode = "REMUX" -> "SOURCE_NOT_CONFIGURED"
    [] url \in Media /\ ~media[url].stored -> "LOCAL_SOURCE_NOT_FOUND"
    [] url \in Jobs /\ ~job[url].stored -> "LOCAL_SOURCE_NOT_FOUND"
    [] OTHER -> "ready"

\* The reason of an episode row: its media file decides when it has one.
Reason(media, job, row) ==
  IF row.media # Null
    THEN ManagedReason(media, job, row.mode, row.media, InputJobs(row.media))
    ELSE LegacyReason(media, job, row.mode, row.url)

-----------------------------------------------------------------------------
(* The versions an episode gets when it is linked to a job or to a file *)

\* The newest completed output of a kind among `js`.
Version(job, kind, js) ==
  Latest({j \in js : KindOf[j] = kind /\ job[j].status = "COMPLETED" /\ job[j].output})

Versions(job, m, js) ==
  [url |-> m, hls |-> Version(job, "HLS", js), remux |-> Version(job, "REMUX", js)]

NoVersions == [url |-> Null, hls |-> Null, remux |-> Null]

\* The source that plays in a mode; Null when there is none yet.
Playing(v, mode, m) ==
  CASE mode = "HLS" -> v.hls
    [] mode = "REMUX" -> v.remux
    [] OTHER -> IF m \in Direct \cup {Null} THEN v.url ELSE Null

\* assertSelectedVersion evaluates the selected job, or the file's completed jobs.
SelectedReason(media, job, mode, m, js, linked) ==
  LET v == Versions(job, m, js) IN
  ManagedReason(media, job, mode, m, IF linked THEN js ELSE {v.hls, v.remux} \ {Null})

DefaultMode(job, url, j, m) ==
  CASE url # Null -> IF url \in Playlists \cup {k \in Jobs : KindOf[k] = "HLS"} THEN "HLS" ELSE "ORIGINAL"
    [] url = Null /\ j # Null -> KindOf[j]
    [] OTHER -> IF m # Null /\ Version(job, "HLS", InputJobs(m)) # Null THEN "HLS" ELSE "ORIGINAL"

\* findMissingEpisodeNumbers
Gaps(numbers) ==
  LET valid == {n \in numbers : n > 0} IN
  IF valid = {} THEN {} ELSE (1..Latest(valid)) \ valid
=============================================================================
