--------------------------- MODULE MCDynamicInit ---------------------------
(* Small instance of DynamicInit for TLC. *)
EXTENDS DynamicInit, TLC

MCSymmetry == Permutations(Feats)
=============================================================================
