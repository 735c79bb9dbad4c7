---------------------------- MODULE MCMediaAdmin -----------------------------
(* A small instance of MediaAdmin for TLC. *)
EXTENDS MediaAdmin

CONSTANTS m1, s1, s2, web

KindOfTwo == [j \in Jobs |-> IF j = 1 THEN "HLS" ELSE "REMUX"]
InputOfAll == [j \in Jobs |-> m1]
TwoEpisodes == 1..2
TwoJobs == {1, 2}
OneJob == {1}

Body == [NoDto EXCEPT !.season = s1, !.number = 1]
Drafts == {[Body EXCEPT !.media = m1, !.mode = "HLS"],
           [Body EXCEPT !.media = m1, !.number = 2, !.published = TRUE]}
Edits == {[NoDto EXCEPT !.mode = "ORIGINAL"], [NoDto EXCEPT !.mode = "REMUX"],
          [NoDto EXCEPT !.media = None, !.mode = "ORIGINAL"]}
Lots == {<<[number |-> Null, url |-> web, published |-> TRUE]>>,
         <<[number |-> 2, url |-> web, published |-> FALSE]>>}
=============================================================================
