-------------------------- MODULE MCListNotebooks --------------------------
(* Instances of ListNotebooks for TLC: the constants are in the .cfg.      *)
EXTENDS ListNotebooks
=============================================================================
