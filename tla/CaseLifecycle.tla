--------------------------- MODULE CaseLifecycle ---------------------------
(***************************************************************************)
(* What the case service promises about the cases of a set of flagged      *)
(* transactions: a case is opened once, the agent's report moves it in one *)
(* step and only when no human has, and an analyst moves it in two: she    *)
(* decides while it is open, and her move is made later, whatever became   *)
(* of the case by then.  CaseStore implements this specification.          *)
(***************************************************************************)
CONSTANTS Txns, Analysts

VARIABLES
    status,    \* status of the transaction's case, "NONE" before there is one
    reported,  \* whether a report is attached to it
    decided    \* per analyst: the move decided on, <<transaction, next>>, or <<>>

vars == <<status, reported, decided>>

Closed == {"CLOSED_FRAUD", "CLOSED_FP"}
Status == {"OPEN", "INVESTIGATING", "REPORTED"} \cup Closed

Init ==
    /\ status   = [t \in Txns |-> "NONE"]
    /\ reported = [t \in Txns |-> FALSE]
    /\ decided  = [a \in Analysts |-> <<>>]

\* The first flagged decision about t.  Every later copy changes nothing.
Open(t) ==
    /\ status[t] = "NONE"
    /\ status' = [status EXCEPT ![t] = "OPEN"]
    /\ UNCHANGED <<reported, decided>>

\* Only about an open case.
Decide(a, t, next) ==
    /\ decided[a] = <<>>
    /\ status[t] \in Status \ Closed
    /\ next # status[t]
    /\ decided' = [decided EXCEPT ![a] = <<t, next>>]
    /\ UNCHANGED <<status, reported>>

\* Of two who decided while the case was open the later one is right.
Move(a, t, next) ==
    /\ decided[a] = <<t, next>>
    /\ status[t] \in Status
    /\ status' = [status EXCEPT ![t] = next]
    /\ decided' = [decided EXCEPT ![a] = <<>>]
    /\ UNCHANGED reported

\* The move comes to nothing.
GiveUp(a) ==
    /\ decided' = [decided EXCEPT ![a] = <<>>]
    /\ UNCHANGED <<status, reported>>

Report(t) ==
    /\ status[t] \in Status
    /\ reported' = [reported EXCEPT ![t] = TRUE]
    /\ status'   = [status EXCEPT ![t] = IF @ \in {"OPEN", "INVESTIGATING"} THEN "REPORTED" ELSE @]
    /\ UNCHANGED decided

Next ==
    \/ \E t \in Txns : Open(t) \/ Report(t)
    \/ \E a \in Analysts, t \in Txns, next \in Status : Decide(a, t, next) \/ Move(a, t, next)
    \/ \E a \in Analysts : GiveUp(a)

Spec == Init /\ [][Next]_vars
=============================================================================
