--------------------------- MODULE MCCaseService ---------------------------
(* Model values for the runs of CaseService. *)
EXTENDS CaseService, TLC

\* Transactions and ids are used only through equality and membership.
Symmetry == Permutations(Txns) \cup Permutations(CaseIds)
=============================================================================
