-------------------------- MODULE MCResumableUpload --------------------------
(* A small instance of ResumableUpload for TLC: which requests overlap. *)
EXTENDS ResumableUpload

CONSTANTS client, timer

\* The client completes; the parts are sent, and the upload is cancelled, from
\* tabs whose requests may end after the completion began; the timer cleans up.
OneCompletes ==
  [r \in Requests |-> CASE r = client -> {"complete"}
                        [] r = timer -> {"cleanup"}
                        [] OTHER -> {"part", "cancel"}]
=============================================================================
