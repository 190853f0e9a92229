---------------------------- MODULE MCCreditSync ----------------------------
(* Instances of CreditSync for TLC: the constants are in the .cfg files.   *)
EXTENDS CreditSync
=============================================================================
