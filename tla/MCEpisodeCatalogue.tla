------------------------- MODULE MCEpisodeCatalogue --------------------------
(* Small instances of EpisodeCatalogue for TLC. *)
EXTENDS EpisodeCatalogue, TLC

CONSTANTS m1, s1, s2, web

OneHls == [j \in Jobs |-> IF j = 1 THEN "HLS" ELSE "REMUX"]
SameInput == [j \in Jobs |-> m1]

ThreeEpisodes == 1..3
TwoEpisodes == 1..2
OneJob == {1}
TwoJobs == {1, 2}

In(s, n) == [NoDto EXCEPT !.season = s, !.number = n]

NewEpisodes ==
  {In(s1, 1), [In(s1, 1) EXCEPT !.job = 1], [In(s1, 2) EXCEPT !.media = m1, !.published = TRUE]}

Edits ==
  {[NoDto EXCEPT !.number = 2], [NoDto EXCEPT !.job = 1],
   [NoDto EXCEPT !.mode = "ORIGINAL"], [NoDto EXCEPT !.published = TRUE]}

Item(n, p) == [number |-> n, url |-> web, published |-> p]

Lots == {<<Item(Null, TRUE)>>, <<Item(2, TRUE)>>, <<Item(1, FALSE), Item(Null, TRUE)>>}

Drafts == {In(s1, 1), [In(s2, 1) EXCEPT !.url = web, !.published = TRUE]}
Moves == {[NoDto EXCEPT !.season = s2], [NoDto EXCEPT !.number = 2], [NoDto EXCEPT !.url = web],
          [NoDto EXCEPT !.published = TRUE]}

RequestSymmetry == Permutations(Requests)
=============================================================================
