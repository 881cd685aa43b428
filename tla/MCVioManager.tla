---------------------------- MODULE MCVioManager ----------------------------
(* Small instance of VioManager for TLC: two features, one per camera.      *)
EXTENDS VioManager

CONSTANTS f0, f1

MCFeats == {f0, f1}
MCCamOf == [f \in MCFeats |-> IF f = f0 THEN 0 ELSE 1]
=============================================================================
