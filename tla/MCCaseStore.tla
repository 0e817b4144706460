---------------------------- MODULE MCCaseStore ----------------------------
(* Model values for the runs of CaseStore. *)
EXTENDS CaseStore
=============================================================================
