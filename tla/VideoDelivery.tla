---------------------------- MODULE VideoDelivery -----------------------------
(***************************************************************************)
(* From what an administrator enters in the movie form to what a visitor is *)
(* shown: the accepted uploads, normalizeVideo, MoviesService, the HLS       *)
(* output the worker attaches, MediaService.authorize and the choices of     *)
(* VideoPlayer; and from the playlists of the worker to the paths deliverHls *)
(* serves.                                                                   *)
(*                                                                           *)
(* An address is a record.  "stored" is an object of the storage, and "web"  *)
(* an absolute URL: its host, whether it is https without user, how its path *)
(* and its query end, and whether it holds a Drive file id.                  *)
(***************************************************************************)
EXTENDS MediaProbe

CONSTANTS
  Uploads,     \* files sent to the API, with what FFprobe says of them
  Links,       \* addresses the administrator types
  Modes,       \* versions asked for: "ORIGINAL", "HLS", "REMUX"
  EmbedHosts,  \* ALLOWED_EMBED_DOMAINS and VITE_ALLOWED_EMBED_DOMAINS
  Nowhere      \* no address, no upload, no movie

Hosts == {"cdn", "tube", "drive", "docs"}

ASSUME DeliveryAssumption ==
  /\ "drive" \in EmbedHosts /\ EmbedHosts \subseteq Hosts
  /\ Modes \subseteq {"ORIGINAL", "HLS", "REMUX"}

VARIABLES
  upload,  \* the upload that was accepted and its MediaFile row
  stored,  \* keys of the objects with a READY row
  movie,   \* the Movie row
  form     \* the movie form of the panel, while it is open

deliveryVars == <<upload, stored, movie, form>>

StoredAt(key) == [at |-> "stored", key |-> key]
Sources == {"LOCAL", "URL", "DRIVE", "HLS", "EMBED"}
VideoTypes == {"MP4", "HLS", "DRIVE", "EMBED"}
Secure(address) == address.at = "web" /\ address.secure
DriveId(address) == /\ Secure(address)
                    /\ address.host \in {"drive", "docs"}
                    /\ address.id
Download(address) == [address EXCEPT !.host = "drive", !.path = "page", !.query = ""]

\* What stands for no address is no address, and a refusal is not a row.
ASSUME NowhereAssumption ==
  /\ Nowhere \notin Links /\ Nowhere \notin Sources /\ Nowhere \notin VideoTypes
  /\ \A key \in Extensions \cup {"master", "remux"} : StoredAt(key) # Nowhere
  /\ LET played == Links \cup {Download(l) : l \in Links} IN
     Refusal \notin [source: Sources, type: VideoTypes, url: played, processed: played, original: Links]

\* The address of a link is the original one when both are given.
Submitted(url, original) == IF original # Nowhere THEN original ELSE url

\* What each source accepts.
Acceptable(source, type, url, link) ==
  CASE source = "LOCAL" ->
         \/ type = "MP4" /\ url \in {StoredAt(".mp4"), StoredAt("remux")}
         \/ type = "HLS" /\ url = StoredAt("master")
    [] source = "DRIVE" -> DriveId(link)
    [] source = "HLS" -> Secure(link) /\ type = "HLS" /\ link.path = "m3u8"
    [] source = "URL" -> Secure(link) /\ type = "MP4" /\ link.path = "mp4"
    [] OTHER -> Secure(link) /\ type = "EMBED" /\ link.host \in EmbedHosts

\* As Normalize, and the address that plays is taken for the one that was given.
NormalizeBug(source, type, url, original) ==
  LET link == Submitted(original, url)
      plays == CASE source = "LOCAL" -> url [] source = "DRIVE" -> Download(link) [] OTHER -> link
  IN IF link = Nowhere \/ ~Acceptable(source, type, url, link) THEN Refusal
     ELSE [source |-> source, type |-> IF source = "DRIVE" THEN "DRIVE" ELSE type,
           url |-> plays, processed |-> plays, original |-> link]

\* normalizeVideo
Normalize(source, type, url, original) ==
  LET link == Submitted(url, original)
      plays == CASE source = "LOCAL" -> url [] source = "DRIVE" -> Download(link) [] OTHER -> link
  IN IF link = Nowhere \/ ~Acceptable(source, type, url, link) THEN Refusal
     ELSE [source |-> source, type |-> IF source = "DRIVE" THEN "DRIVE" ELSE type,
           url |-> plays, processed |-> plays, original |-> link]

\* inferVideoConfiguration, for a row of an import that names neither.
Inferred(address) ==
  CASE address = StoredAt(".mp4") -> <<"LOCAL", "MP4">>
    [] Secure(address) /\ address.host \in {"drive", "docs"} -> <<"DRIVE", "DRIVE">>
    [] address = StoredAt("master") -> <<"HLS", "HLS">>
    [] OTHER ->
         IF address.at = "web" /\ (address.query = "m3u8" \/ address.path = "m3u8")
           THEN <<"HLS", "HLS">> ELSE <<"URL", "MP4">>

\* MoviesService.update fills what the request leaves out with the stored row.
EditedVideo(row, change) ==
  LET Or(f) == IF change[f] = Nowhere THEN row[f] ELSE change[f] IN
  Normalize(Or("source"), Or("type"), Or("url"), Or("original"))

-----------------------------------------------------------------------------
(* The form *)

\* videoTypeForSource
TypeForSource(source) == IF source \in {"HLS", "DRIVE", "EMBED"} THEN source ELSE "MP4"

\* emptyMovie, and edit(item).
EmptyForm ==
  [new |-> TRUE, source |-> "URL", type |-> "MP4", url |-> Nowhere, original |-> Nowhere]
FormOf(row) ==
  [new |-> FALSE, source |-> row.source, type |-> row.type, url |-> row.url, original |-> row.original]

\* The list shows live movies.  Bound: one movie at a time, so another one is
\* created when it has been removed.
Listed == movie # Nowhere /\ movie.live

OpenForm ==
  /\ form = Nowhere
  /\ form' = IF Listed THEN FormOf(movie) ELSE EmptyForm
  /\ UNCHANGED <<upload, stored, movie>>

CloseForm == form # Nowhere /\ form' = Nowhere /\ UNCHANGED <<upload, stored, movie>>

ChangeSource ==
  /\ form # Nowhere
  /\ \E source \in Sources :
       form' = [form EXCEPT !.source = source, !.type = TypeForSource(source),
                            !.url = Nowhere, !.original = Nowhere]
  /\ UNCHANGED <<upload, stored, movie>>

TypeLink ==
  /\ form # Nowhere /\ form.source # "LOCAL"
  /\ \E link \in Links : form' = [form EXCEPT !.url = link, !.original = link]
  /\ UNCHANGED <<upload, stored, movie>>

\* The upload field of the form: the API refuses the file or keeps it.
\* Bound: one upload, and it precedes the movie.
Receive ==
  /\ form # Nowhere /\ form.source = "LOCAL"
  /\ upload = Nowhere /\ movie = Nowhere
  /\ \E u \in Uploads :
       /\ Validate(u) # Refusal
       /\ upload' = [file |-> u.file, row |-> Validate(u)]
       /\ stored' = {u.extension}
  /\ UNCHANGED <<movie, form>>

\* What the job of the upload adds to the storage; see VideoProcessing.
Process(mode) ==
  /\ upload # Nowhere /\ mode \in Modes
  /\ stored' = stored \cup (CASE mode = "HLS" -> {"master"}
                             [] mode = "REMUX" /\ RemuxPlan(upload.row.meta).allowed -> {"remux"}
                             [] OTHER -> {})
  /\ stored' # stored
  /\ UNCHANGED <<upload, movie, form>>

\* onUploaded: the field puts the original or the finished version in the form,
\* also an original that it says browsers may not play.  A job it finds again by
\* the movie comes without the address of its original.
Uploaded(mode) ==
  /\ form # Nowhere /\ form.source = "LOCAL" /\ upload # Nowhere /\ mode \in Modes
  /\ LET original == StoredAt(upload.row.extension)
         key == CASE mode = "ORIGINAL" -> upload.row.extension
                  [] mode = "HLS" -> "master"
                  [] OTHER -> "remux"
     IN /\ key \in stored
        /\ \E first \in {original, StoredAt(key)} :
             form' = [form EXCEPT !.type = IF mode = "HLS" THEN "HLS" ELSE "MP4",
                                  !.url = StoredAt(key), !.original = first]
  /\ UNCHANGED <<upload, stored, movie>>

\* assertLocalReady
LocalReady(row) == row.source = "LOCAL" => row.url.key \in stored

\* The columns of a Movie row that this module is about.
MovieRow(video, live) ==
  [source |-> video.source, type |-> video.type, url |-> video.url,
   processed |-> video.processed, original |-> video.original, live |-> live]

\* submit, and create or update of MoviesService.
Save ==
  /\ form # Nowhere /\ form.url # Nowhere
  /\ LET row == IF form.new THEN Normalize(form.source, form.type, form.url, form.original)
                ELSE EditedVideo(movie, form)
     IN /\ row # Refusal
        /\ LocalReady(row)
        /\ movie' = MovieRow(row, form.new \/ movie.live)
  /\ form' = Nowhere
  /\ UNCHANGED <<upload, stored>>

RemoveMovie ==
  /\ Listed
  /\ movie' = [movie EXCEPT !.live = FALSE]
  /\ UNCHANGED <<upload, stored, form>>

\* associateOutput and associateInternal for a movie, whatever the form shows: the
\* worker attaches the HLS output, and the service attaches any output as if it
\* were HLS, to a movie that is not removed.
Attach(version) ==
  /\ movie # Nowhere /\ version \in stored
  /\ version = "remux" => movie.live
  /\ movie' = [movie EXCEPT !.source = "HLS", !.type = "HLS", !.url = StoredAt(version),
                            !.processed = StoredAt(version)]
  /\ movie' # movie
  /\ UNCHANGED <<upload, stored, form>>

DeliveryInit == upload = Nowhere /\ stored = {} /\ movie = Nowhere /\ form = Nowhere

DeliveryNext ==
  \/ OpenForm \/ CloseForm \/ ChangeSource \/ TypeLink \/ Receive
  \/ \E mode \in Modes : Process(mode) \/ Uploaded(mode)
  \/ \E version \in {"master", "remux"} : Attach(version)
  \/ Save \/ RemoveMovie

DeliverySpec == DeliveryInit /\ [][DeliveryNext]_deliveryVars

-----------------------------------------------------------------------------
(* What the player shows *)

\* MediaService.authorize for a movie: HLS plays the processed address, any
\* other the original one.
Selected(row) ==
  LET first == IF row.type = "HLS" THEN row.processed ELSE row.original IN
  IF first # Nowhere THEN first ELSE row.url

\* The answer names a type by the ending of the address, query included.
Authorize(row) ==
  LET media == Selected(row)
      playlist == CASE media.at = "stored" -> media.key = "master"
                    [] OTHER -> media.path = "m3u8" \/ media.query = "m3u8"
  IN [type |-> IF playlist THEN "HLS" ELSE "MP4",
      protected |-> media \in {StoredAt(".mp4"), StoredAt("remux"), StoredAt("master")},
      url |-> media, original |-> row.original]

\* The preview of a Drive file needs the id of the link it was given.
Preview(address) == address.at = "web" /\ address.id

\* The video element plays an MP4 of another host, and a stored one whose
\* streams browsers decode.
Decodes(address) ==
  IF address.at = "web" THEN address.path = "mp4"
  ELSE /\ address.key \in stored
       /\ address.key = "remux" \/ (address.key = ".mp4" /\ Compatible(upload.row))

\* VideoPlayer: an embedded page, Hls.js, or the video element, which falls
\* back to the preview of Drive when what it is given is not a video.
Screen(row) ==
  LET answer == Authorize(row)
      drive == row.type = "DRIVE" \/ row.source = "DRIVE"
      Playlist(a) == IF a.at = "stored" THEN a.key = "master" /\ a.key \in stored ELSE a.path = "m3u8"
  IN
  CASE row.type = "EMBED" -> IF answer.url.host \in EmbedHosts THEN "page" ELSE "nothing"
    [] row.type # "EMBED" /\ answer.type = "HLS" -> IF Playlist(answer.url) THEN "playlist" ELSE "nothing"
    [] OTHER -> IF Decodes(answer.url) THEN "video"
                ELSE IF drive /\ Preview(answer.original) THEN "page" ELSE "nothing"

-----------------------------------------------------------------------------
(* What the worker's playlists name *)

\* deliverHls takes two to four digits for a quality.
ServedDir(dir) == dir \in 10..9999

\* rewriteManifest resolves an entry against the playlist it stands in; an
\* absolute path, which S3 makes the worker write, is taken for a relative one.
Rewritten(dir, entry, driver) == IF driver = "s3" THEN Refusal ELSE [dir |-> dir, file |-> entry]

\* deliverHls of a path of a signed playlist
DeliverHls(path) ==
  /\ path # Refusal
  /\ path.file \in {"index.m3u8", "segment"}
  /\ ServedDir(path.dir)

-----------------------------------------------------------------------------
(* Properties *)

\* The element that the type of a row asks for; a remux that the service attached
\* is an MP4 under the type of a playlist.
Wanted(row) ==
  CASE row.type = "MP4" -> "video"
    [] row.type = "HLS" -> IF row.url = StoredAt("remux") THEN "video" ELSE "playlist"
    [] OTHER -> "page"

\* Delivered is the original as it was uploaded, and not every browser decodes it.
Undecoded(row) ==
  /\ row.source = "LOCAL" /\ row.type = "MP4"
  /\ row.original = StoredAt(upload.row.extension)
  /\ ~Compatible(upload.row)

\* However a movie got its video - a link, an upload, a version that the form or
\* the worker put in while another was shown - visitors are shown the element its
\* type needs, save exactly when what is delivered is an uploaded original that
\* browsers do not decode: then nothing plays.  Saving a movie again as it is
\* keeps its video, except a stored version that was attached, which the form
\* cannot save; and an import finds the source of the link of every movie that is
\* not an embedded page.
LinkPlaysAsSubmitted ==
  movie # Nowhere =>
    /\ Screen(movie) = IF Undecoded(movie) THEN "nothing" ELSE Wanted(movie)
    /\ LET attached == movie.source = "HLS" /\ movie.url.at = "stored"
           video == [f \in DOMAIN movie \ {"live"} |-> movie[f]]
       IN ~attached => EditedVideo(movie, FormOf(movie)) = video
    /\ movie.source \in {"URL", "DRIVE"} \/ (movie.source = "HLS" /\ movie.url.at = "web")
         => LET link == movie.original
                found == Inferred(link)
            IN Normalize(found[1], found[2], link, link) # Refusal

Total(boxes, n) == FoldLeft(LAMBDA sum, box : sum + box.size, 0, SubSeq(boxes, 1, n))

\* detectMp4FastStart answers of an accepted upload only when the boxes up to
\* the index lie whole in the file, and then "fast" says exactly that no media
\* data precedes the index.
FastStartExact ==
  upload # Nowhere /\ upload.row.meta.container = "mp4" =>
    LET b == upload.file.boxes
        Whole(i) == b[i].size >= HeaderSize(b[i]) /\ Total(b, i) <= upload.file.size
        Index == {i \in DOMAIN b : b[i].type = "moov"}
        Reached(i) == i <= BoxLimit /\ \A k \in 1..i : Whole(k)
        first == IF Index = {} THEN 0 ELSE Min(Index)
    IN upload.row.meta.fastStart =
         IF first = 0 \/ ~Reached(first) THEN "unknown"
         ELSE IF \E k \in 1..(first - 1) : b[k].type = "mdat" THEN "slow" ELSE "fast"

\* HLS_PROFILES as an operator may set it, in any order.
Ladders == {<<360, 480, 720, 1080>>, <<1080, 360>>, <<500>>}

\* Every quality of the ladder fits in the source, is served by deliverHls, and
\* has streams every browser decodes, whether they are copied or not; the
\* bandwidths that players choose by grow with the quality.
LadderPlays(meta, ladder) ==
  LET entries == MasterEntries(meta, ladder) IN
  /\ ladder # <<>>
  /\ \A i \in DOMAIN ladder :
       /\ ladder[i] <= meta.height /\ ladder[i] % 2 = 0 /\ entries[i].width % 2 = 0
       /\ \A k \in 1..(i - 1) : ladder[k] < ladder[i] /\ entries[k].bandwidth <= entries[i].bandwidth
       /\ \A file \in {"index.m3u8", "segment"} : DeliverHls(Rewritten(entries[i].dir, file, "local"))
       /\ \A v \in Variants(meta, ladder[i]) :
            v.height = ladder[i] /\ v.video = "h264" /\ v.audio \in {"", "aac"}

\* What the server offers as a direct version the panel says plays, whatever file
\* was accepted.  Of an .mp4 or .mkv, which the field asks for by name, they say
\* the same; of a .mov or .webm, which both accept too and the row stores as an
\* MP4, the panel says that it plays when its streams do, and the server never.
OriginalAgrees(row) ==
  /\ Compatible(row) => PanelPlays(row)
  /\ row.extension \in {".mp4", ".mkv"} => (PanelPlays(row) <=> Compatible(row))
  /\ row.extension \in {".mov", ".webm"} =>
       /\ ~Compatible(row)
       /\ PanelPlays(row) <=> Compatible([extension |-> ".mp4", video |-> row.video, audio |-> row.audio])

\* A remux that is allowed plays directly with each of its tracks.
RemuxPlays(row) ==
  RemuxPlan(row.meta).allowed =>
    \A audio \in RemuxTracks(row.meta) \cup {""} :
      Compatible([extension |-> ".mp4", video |-> row.video, audio |-> audio])

\* Of every upload that is accepted: panel and server agree on whether the
\* original plays, except that of a .mov or .webm the panel says of its streams
\* what the server denies; a remux that is allowed plays; and every ladder that
\* can be configured plays.
VersionsPlay ==
  upload # Nowhere =>
    /\ OriginalAgrees(upload.row) /\ RemuxPlays(upload.row)
    /\ \A configured \in Ladders :
         LadderPlays(upload.row.meta, Profiles(upload.row.meta.height, configured))
=============================================================================
