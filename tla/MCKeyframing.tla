---------------------------- MODULE MCKeyframing ----------------------------
(* Small instance of Keyframing for TLC: five images, two disparities. *)
EXTENDS Keyframing

MCImages      == 1 .. 5
MCDisparities == {1, 2}
=============================================================================
