-------------------------- MODULE MCStreamEngine --------------------------
(* Model values for the runs of StreamEngine: three transactions in two places *)
(* and one without a user. *)
EXTENDS StreamEngine
CONSTANTS t1, t2, t3, t4
MCIds == {t1, t2, t3, t4}
MCFatal == {t4}
MCPlace == (t1 :> "home") @@ (t2 :> "abroad") @@ (t3 :> "home") @@ (t4 :> "home")

\* t1 and t3 are alike: of two logs that differ in them alone, one is enough.
FirstIsT1 ==
    \A i \in DOMAIN raw : raw[i].id = t3 => \E j \in 1 .. i - 1 : raw[j].id = t1
=============================================================================
