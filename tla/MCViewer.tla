-------------------------------- MODULE MCViewer ------------------------------
(* A small instance of Viewer for TLC.  Of the positions between 0 and the end   *)
(* one is listed, one lies between the two thresholds, and the end completes.    *)
EXTENDS Viewer, TLC

CONSTANTS c1, c2, c3, k1, k2

Series == [c \in Contents |-> IF c = c1 THEN c2 ELSE Null]

\* Nothing orders the calls.
CallSymmetry == Permutations({k1, k2})
=============================================================================
