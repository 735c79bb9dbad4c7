--------------------------- MODULE MCUploadClient ----------------------------
(* Small instances of UploadClient for TLC: which requests overlap. *)
EXTENDS UploadClient

CONSTANTS A, client, late

\* A request ends at the server before the next one arrives.
OneByOne == [r \in Requests |-> AllOps]

\* Requests the client gave up go on beside those that repeat them.
Overlapping == [r \in Requests |-> {"part", "complete", "cancel"}]
=============================================================================
