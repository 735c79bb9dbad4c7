---------------------------- MODULE MCMediaLibrary ----------------------------
(* A small instance of MediaLibrary for TLC. *)
EXTENDS MediaLibrary

CONSTANTS m1, m2, m3, s1

KindOfTwo == [j \in Jobs |-> IF j = 1 THEN "HLS" ELSE "REMUX"]
InputOfTwo == [j \in Jobs |-> IF j = 1 THEN m1 ELSE m2]
ByDate == <<m1, m2, m3>>
TwoJobs == {1, 2}
OneEpisode == {1}

Body == [NoDto EXCEPT !.season = s1, !.number = 1, !.media = m1]
Bodies == {[Body EXCEPT !.published = TRUE]}
=============================================================================
