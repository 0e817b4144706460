------------------------- MODULE MCProductionRecall -------------------------
(***************************************************************************)
(* A reduction of ProductionRecall for its run.                            *)
(* Nothing the generator does depends on the brokers or the reader, and    *)
(* these depend on the generator only through queues it appends to: a step *)
(* of theirs that comes before one of the generator's may as well come     *)
(* after it.  So the run lets the generator stop and the scenario end      *)
(* first; every history of the topics and every reading of them is left.   *)
(* A generator that stops sooner publishes the beginning of a history only.*)
(***************************************************************************)
EXTENDS ProductionRecall

Published == pc = "done" /\ script = <<>>

MCNext ==
    \/ ~Published /\ GenNext /\ UNCHANGED <<logs, readVars>>
       /\ (Stop => LimitReached \/ now = MaxClock)
    \/ Published /\ (Broker \/ Reader)

MCSpec == RecallInit /\ [][MCNext]_recallVars

\* Of an instant only its place in the window matters once all is published; the one a label tells
\* is read only where the labels of a ring do not count its hops.
Older == \E i \in DOMAIN sent : sent[i].label # NoLabel /\ sent[i].label.pattern = "RING" /\ sent[i].label.hops = NoHop

Blurred(record, since) ==
    [f \in DOMAIN record |->
        CASE f \in {"ts", "created", "stamp"} -> <<record[f] >= since, record[f] < Until>>
          [] f = "label" -> IF Older THEN record.label ELSE [record.label EXCEPT !.ts = 0]
          [] OTHER -> record[f]]

InPartitions(log, topic) ==
    [p \in Partitions |-> [i \in DOMAIN log[p] |-> Blurred(log[p][i], SinceOf(topic))]]
InSet(records, topic) == {Blurred(record, SinceOf(topic)) : record \in records}

LabelsView  == <<InPartitions(outbox.labels, "labels"), InPartitions(logs.labels, "labels")>>
TxnsView    == <<InPartitions(outbox.raw, "decisions"), InPartitions(logs.decisions, "decisions")>>
KeptView    == <<InSet(kept.decisions, "decisions"), InSet(kept.labels, "labels")>>
ReadingView == <<stage, reading, start, high, next, pending, InSet(yielded, reading), KeptView>>

\* Then only what the producers still hold matters of the generator, and of a topic that is
\* read only what was kept of it.
MCView ==
    CASE ~Published             -> <<recallVars>>
      [] Published /\ stage < 2 -> <<LabelsView, TxnsView, ReadingView>>
      [] Published /\ stage = 2 -> <<LabelsView, ReadingView>>
      [] OTHER                  -> KeptView
=============================================================================
