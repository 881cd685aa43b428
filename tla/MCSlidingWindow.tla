-------------------------- MODULE MCSlidingWindow ---------------------------
(* Small instance of SlidingWindow for TLC: the timestamps are 1..LastTime. *)
EXTENDS SlidingWindow, TLC

CONSTANT LastTime

MCTimes == 1 .. LastTime
FeatSymmetry == Permutations(Feats)
=============================================================================
