---------------------------- MODULE MCEpisodeEditor ----------------------------
(* A small instance of EpisodeEditor for TLC. *)
EXTENDS EpisodeEditor

CONSTANTS m1, web

KindOfTwo == [j \in Jobs |-> IF j = 1 THEN "HLS" ELSE "REMUX"]
InputOfAll == [j \in Jobs |-> m1]
OneJob == {1}
OneEpisode == {1}
=============================================================================
