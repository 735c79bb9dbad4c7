------------------------------ MODULE MediaProbe ------------------------------
(***************************************************************************)
(* What the API and the worker read in a video file and decide from it: the *)
(* checks of an upload (media-probe.ts, media-validation.service.ts), where  *)
(* the index of an MP4 file is, the policy of remuxing, the ladder of HLS    *)
(* qualities and how the streams of each version are obtained.  They are     *)
(* pure; VideoDelivery applies them to the uploads it receives.              *)
(***************************************************************************)
EXTENDS Integers, Sequences, FiniteSets, SequencesExt, FiniteSetsExt

CONSTANTS
  BoxLimit,      \* boxes of an MP4 file that are looked at; 256 in the code
  MaxSourceHeight,  \* VIDEO_MAX_SOURCE_HEIGHT
  Refusal        \* answer to a file that is not accepted

ASSUME ProbeAssumption ==
  /\ BoxLimit \in Nat \ {0}
  /\ MaxSourceHeight \in Nat

Extensions == {".mp4", ".mkv", ".mov", ".webm"}
MimeTypes == {"video/mp4", "video/quicktime", "video/x-matroska", "video/webm", "application/octet-stream", ""}

AllowedIdentity(extension, mime) == extension \in Extensions /\ mime \in MimeTypes

\* assertContainerSignature: the first bytes of the file.
Signed(extension, head) == head = IF extension \in {".mp4", ".mov"} THEN "ftyp" ELSE "ebml"

\* detectContainer; ffprobe names a family of formats.
Container(formats) ==
  CASE formats \cap {"mov", "mp4", "m4a", "3gp", "3g2", "mj2"} # {} -> "mp4"
    [] formats \cap {"mov", "mp4", "m4a", "3gp", "3g2", "mj2"} = {}
       /\ formats \cap {"matroska", "webm"} # {} -> "matroska"
    [] OTHER -> "none"

Expected(extension) == IF extension \in {".mp4", ".mov"} THEN "mp4" ELSE "matroska"

-----------------------------------------------------------------------------
(* Where the index of an MP4 file is *)

\* A box says its length in 32 bits, in 64 bits after them, or not at all when
\* it reaches the end of the file.
HeaderSize(box) == IF box.form = "long" THEN 16 ELSE 8
BoxSize(box, rest) == IF box.form = "toEnd" THEN rest ELSE box.size

\* As ReadBox, and a box that the file does not hold whole is read too.
ReadBoxBug(size, s, box) ==
  LET length == BoxSize(box, size - s.offset) IN
  IF s.answer # "reading" \/ s.boxes = BoxLimit THEN s
  ELSE IF length < HeaderSize(box) THEN [s EXCEPT !.answer = "unknown"]
  ELSE IF box.type = "moov" THEN [s EXCEPT !.answer = IF s.mdat THEN "slow" ELSE "fast"]
  ELSE [s EXCEPT !.offset = @ + length, !.boxes = @ + 1, !.mdat = @ \/ box.type = "mdat"]

\* One turn of the loop of detectMp4FastStart.
ReadBox(size, s, box) ==
  LET length == BoxSize(box, size - s.offset) IN
  CASE s.answer # "reading" \/ s.boxes = BoxLimit -> s
    [] s.answer = "reading" /\ s.boxes < BoxLimit
       /\ (length < HeaderSize(box) \/ s.offset + length > size) -> [s EXCEPT !.answer = "unknown"]
    [] OTHER ->
         IF box.type = "moov" THEN [s EXCEPT !.answer = IF s.mdat THEN "slow" ELSE "fast"]
         ELSE [s EXCEPT !.offset = @ + length, !.boxes = @ + 1, !.mdat = @ \/ box.type = "mdat"]

FastStart(file) ==
  LET start == [offset |-> 0, boxes |-> 0, mdat |-> FALSE, answer |-> "reading"]
      end == FoldLeft(LAMBDA s, box : ReadBox(file.size, s, box), start, file.boxes)
  IN IF end.answer = "reading" THEN "unknown" ELSE end.answer

-----------------------------------------------------------------------------
(* The metadata of a file, and the uploads that are accepted *)

OfKind(streams, kind) == SelectSeq(streams, LAMBDA s : s.kind = kind)

\* probeMedia given the answer of ffprobe.
Probe(raw, file, extension) ==
  LET videos == OfKind(raw.streams, "video") IN
  IF \/ Len(raw.streams) \notin 1..64
     \/ videos = <<>>
     \/ raw.duration \notin 1..86400
     \/ Container(raw.formats) # Expected(extension)
  THEN Refusal
  ELSE LET v == Head(videos) IN
       IF v.width \notin 16..7680 \/ v.height \notin 16..4320 THEN Refusal
       ELSE [container |-> Expected(extension), width |-> v.width, height |-> v.height,
             video |-> v.codec, profile |-> v.profile, pixels |-> v.pixels,
             audio |-> OfKind(raw.streams, "audio"),
             fastStart |-> IF Expected(extension) = "mp4" THEN FastStart(file) ELSE "unknown"]

\* codec of the first audio track, which is the one of the MediaFile row
FirstCodec(meta) == IF meta.audio = <<>> THEN "" ELSE Head(meta.audio).codec

\* validateVideo: the row of an accepted upload.
Validate(upload) ==
  LET meta == Probe(upload.raw, upload.file, upload.extension) IN
  IF \/ ~AllowedIdentity(upload.extension, upload.mime)
     \/ ~Signed(upload.extension, upload.head)
     \/ meta = Refusal
  THEN Refusal
  ELSE IF meta.height > MaxSourceHeight THEN Refusal
  ELSE [extension |-> upload.extension, video |-> meta.video, audio |-> FirstCodec(meta), meta |-> meta,
        mime |-> IF upload.extension = ".mkv" THEN "video/x-matroska" ELSE "video/mp4"]

-----------------------------------------------------------------------------
(* The versions of a file and what plays *)

\* directPlaybackCompatibility
Compatible(row) ==
  /\ row.extension = ".mp4"
  /\ row.video \in {"h264", "avc1"}
  /\ row.audio \in {"", "aac", "mp3"}

\* directlyPlayableOriginal: the panel judges the answer of the upload itself.
PanelPlays(row) ==
  /\ row.mime = "video/mp4"
  /\ row.video \in {"h264", "avc1"}
  /\ row.audio \in {"", "aac", "mp3"}

Copyable(track) == track.codec = "aac" /\ track.channels \in 1..6

CanCopyVideo(meta, height) ==
  /\ meta.video = "h264"
  /\ meta.height = height
  /\ meta.profile \in {"", "baseline", "constrained baseline", "main", "high"}
  /\ meta.pixels \in {"yuv420p", "yuvj420p"}

CanCopyPrimaryAudio(meta) == meta.audio # <<>> /\ Copyable(Head(meta.audio))

\* As RemuxPlan, and the first track decides for all.
RemuxPlanBug(meta) ==
  [allowed |-> meta.video \in {"h264", "avc1"},
   copyAudio |-> meta.video \in {"h264", "avc1"} /\ CanCopyPrimaryAudio(meta)]

\* planMp4Remux
RemuxPlan(meta) ==
  LET allowed == meta.video \in {"h264", "avc1"} IN
  [allowed |-> allowed,
   copyAudio |-> allowed /\ \A i \in DOMAIN meta.audio : Copyable(meta.audio[i])]

\* processRemux maps every audio track; it copies all of them or converts all.
RemuxTracks(meta) ==
  IF RemuxPlan(meta).copyAudio THEN {meta.audio[i].codec : i \in DOMAIN meta.audio}
  ELSE {"aac" : i \in DOMAIN meta.audio}

StandardProfiles == {360, 480, 720, 1080}
Larger(a, b) == IF a > b THEN a ELSE b

\* selectVideoProfiles; `configured` lists HLS_PROFILES.
Profiles(height, configured) ==
  LET fit == {h \in ToSet(configured) \cap StandardProfiles : h <= height} IN
  IF fit # {} THEN SetToSortSeq(fit, <) ELSE <<Larger(2, 2 * (height \div 2))>>

ScaledWidth(width, height, target) == Larger(2, 2 * ((width * target) \div (2 * height)))

ProfileBandwidth(height) ==
  CASE height >= 1080 -> 5500000
    [] height \in 720..1079 -> 3000000
    [] height \in 480..719 -> 1500000
    [] OTHER -> 800000

\* generateVariant, and its repetition without copies when the first one fails.
Variants(meta, height) ==
  LET Streams(copyVideo, copyAudio) ==
        [video |-> IF copyVideo THEN meta.video ELSE "h264",
         height |-> IF copyVideo THEN meta.height ELSE height,
         audio |-> IF meta.audio = <<>> THEN "" ELSE IF copyAudio THEN FirstCodec(meta) ELSE "aac"]
      copyVideo == CanCopyVideo(meta, height)
      copyAudio == CanCopyPrimaryAudio(meta)
  IN {Streams(copyVideo, copyAudio)}
     \cup (IF copyVideo \/ copyAudio THEN {Streams(FALSE, FALSE)} ELSE {})

\* masterPlaylist
MasterEntries(meta, ladder) ==
  [i \in DOMAIN ladder |->
     [dir |-> ladder[i], width |-> ScaledWidth(meta.width, meta.height, ladder[i]),
      bandwidth |-> ProfileBandwidth(ladder[i])]]

=============================================================================
