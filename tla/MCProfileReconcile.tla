------------------------- MODULE MCProfileReconcile -------------------------
(* Instances of ProfileReconcile for TLC: the constants are in the .cfg.   *)
EXTENDS ProfileReconcile
=============================================================================
