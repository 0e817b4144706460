-------------------------- MODULE MCModelRegistry --------------------------
(* Model values for the run of ModelRegistry: the registry ships with version 9, so that two *)
(* more trainings reach a version whose name sorts before it.                                *)
EXTENDS ModelRegistry

\* A build that knows one feature more, in the middle of the proto.
MCBuilds == {<<"amount", "degree">>, <<"amount", "velocity", "degree">>}
MCNameOrder == (9 :> 3) @@ (10 :> 1) @@ (11 :> 2)

Symmetry == Permutations(Reloads) \cup Permutations(Scores)

Decision(txn, ts, complete, p) == [txn |-> txn, ts |-> ts, complete |-> complete, p |-> p]

\* Read from two partitions, one after the other; fraud is a, c, e.
TwoPartitions ==
    <<Decision("a", 1, TRUE, 90), Decision("b", 2, TRUE, 10), Decision("c", 6, TRUE, 97), Decision("d", 8, TRUE, 60),
      Decision("old", 1, FALSE, 50), Decision("e", 3, TRUE, 50), Decision("f", 4, TRUE, 5)>>

\* The same with the fraud at the front: nothing to test on.
MCWindows == {[decisions |-> TwoPartitions, labelled |-> fraud] : fraud \in {{"a", "c", "e"}, {"a", "e"}, {"a", "d", "old"}}}
=============================================================================
