---------------------------- MODULE EpisodeShelf -----------------------------
(***************************************************************************)
(* What the catalogue promises about the places of episodes: an episode is *)
(* put in a free place of a season, may be moved to another free place,    *)
(* and once withdrawn is never put back.                                   *)
(***************************************************************************)
CONSTANTS Episodes, Places, Unborn, Withdrawn

VARIABLE place   \* the place of every episode

Free(p) == \A e \in Episodes : place[e] # p

\* A batch is put on the shelf as a whole, one episode to a place.
Put(E) ==
  /\ \A e \in E : place[e] = Unborn
  /\ \E f \in [E -> Places] :
       /\ \A d, e \in E : f[d] = f[e] => d = e
       /\ \A e \in E : Free(f[e])
       /\ place' = [e \in Episodes |-> IF e \in E THEN f[e] ELSE place[e]]

Move(e) ==
  /\ place[e] \in Places
  /\ \E p \in Places : Free(p) /\ place' = [place EXCEPT ![e] = p]

Withdraw(e) ==
  /\ place[e] \in Places
  /\ place' = [place EXCEPT ![e] = Withdrawn]

\* Some episodes may have been withdrawn before.
Init == place \in [Episodes -> {Unborn, Withdrawn}]

Next ==
  \/ \E E \in (SUBSET Episodes) \ {{}} : Put(E)
  \/ \E e \in Episodes : Move(e) \/ Withdraw(e)

Spec == Init /\ [][Next]_place
=============================================================================
