-------------------------- MODULE MCInvestigation --------------------------
(* Model values for the runs of Investigation. *)
EXTENDS Investigation

CONSTANTS n1

MCNumbers == {n1}

\* No evidence, a tool result, the case with another, and one that only a retry may gather.
MCCitations == {{}, {1}, {0, 2}, {4}}
=============================================================================
