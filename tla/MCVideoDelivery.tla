--------------------------- MODULE MCVideoDelivery ----------------------------
(* A small instance of VideoDelivery for TLC. *)
EXTENDS VideoDelivery

CONSTANT MaxBoxes \* boxes of the files that are sent

\* No query ends in ".m3u8" when the path does not: authorize and the import
\* would take such an address for a playlist.
Link(host, secure, path, query, id) ==
  [at |-> "web", host |-> host, secure |-> secure, path |-> path, query |-> query, id |-> id]
Typed ==
  {Link("cdn", TRUE, "mp4", "", FALSE), Link("cdn", FALSE, "mp4", "", FALSE),
   Link("cdn", TRUE, "m3u8", "m3u8", FALSE), Link("tube", TRUE, "page", "", FALSE),
   Link("docs", TRUE, "page", "", TRUE), Link("drive", TRUE, "page", "", FALSE)}

Stream(kind, codec, channels, width, height, profile, pixels) ==
  [kind |-> kind, codec |-> codec, channels |-> channels, width |-> width, height |-> height,
   profile |-> profile, pixels |-> pixels]
Track(codec, channels) == Stream("audio", codec, channels, 0, 0, "", "")
Picture(codec, width, height, profile, pixels) == Stream("video", codec, 0, width, height, profile, pixels)

Sent(extension, streams, boxes, size) ==
  [extension |-> extension, mime |-> "", file |-> [boxes |-> boxes, size |-> size],
   head |-> IF extension \in {".mp4", ".mov"} THEN "ftyp" ELSE "ebml",
   raw |-> [formats |-> IF extension \in {".mp4", ".mov"} THEN {"mov", "mp4"} ELSE {"matroska", "webm"},
            duration |-> 60, streams |-> streams]]

Plain == Picture("h264", 1920, 1080, "high", "yuv420p")

\* Files by their pictures, by their tracks and by their boxes; the last box of
\* a file may be cut, as after an interrupted copy.
ByPicture ==
  {Sent(e, <<Picture(c, w, h, f, x), Track("aac", 2)>>, <<>>, 0) :
     e \in {".mp4", ".mkv"}, c \in {"h264", "avc1", "hevc"}, w \in {8, 853}, h \in {16, 241, 480, 1080, 2160},
     f \in {"high", "high 10"}, x \in {"yuv420p", "yuv420p10le"}}
ByTracks ==
  {Sent(e, <<Plain>> \o tracks, <<>>, 0) :
     e \in {".mp4", ".mkv"}, tracks \in BoundedSeq({Track(c, n) : c \in {"aac", "mp3", "ac3"}, n \in {2, 8}}, 2)}
  \cup {Sent(e, <<Plain, Track(c, 2)>>, <<>>, 0) : e \in {".mov", ".webm"}, c \in {"aac", "ac3"}}

Boxes == [type: {"moov", "mdat", "other"}, form: {"short"}, size: {4, 8}]
         \cup [type: {"moov", "mdat", "other"}, form: {"long"}, size: {8, 24}]
ToTheEnd == [type: {"moov", "mdat", "other"}, form: {"toEnd"}, size: {8}]
ByBoxes ==
  UNION {{Sent(".mp4", <<Plain>>, b, size) : size \in {Total(b, Len(b)), Larger(0, Total(b, Len(b)) - 4)}} :
         b \in BoundedSeq(Boxes, MaxBoxes - 1)
               \cup {Append(b, x) : b \in BoundedSeq({y \in Boxes : y.form = "short" /\ y.size = 8}, MaxBoxes - 1),
                                    x \in {y \in Boxes : y.size = 24} \cup ToTheEnd}}

Files == ByPicture \cup ByTracks \cup ByBoxes

\* Every file is sent and judged.  What becomes of it in a movie depends on its
\* extension, picture codec and first track only, and is explored for the files
\* without boxes that are 1080 high and have at most one track.
Followed ==
  upload # Nowhere =>
    upload.file.boxes = <<>> /\ upload.row.meta.height = 1080 /\ Len(upload.row.meta.audio) <= 1
=============================================================================
