---------------------------- MODULE MCSpendLedger ----------------------------
(* Small instances of SpendLedger for TLC. *)
EXTENDS SpendLedger
=============================================================================
