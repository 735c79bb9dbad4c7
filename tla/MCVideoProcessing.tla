-------------------------- MODULE MCVideoProcessing --------------------------
(* Small instances of VideoProcessing for TLC. *)
EXTENDS VideoProcessing

CONSTANTS j1, m1

AllHls == [j \in Jobs |-> "HLS"]
AllRemux == [j \in Jobs |-> "REMUX"]

SameMedia == [j \in Jobs |-> m1]

PlaysHls == [t \in Targets |-> "HLS"]
=============================================================================
