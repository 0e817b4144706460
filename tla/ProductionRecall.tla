-------------------------- MODULE ProductionRecall --------------------------
(***************************************************************************)
(* What the labels are used for, end to end: the generator (Generator)     *)
(* publishes transactions and labels, the engine's decisions on the former *)
(* reach fraud.decisions, and train.py or production_recall.py reads both  *)
(* topics (TopicReader), the decisions first, and joins them while traffic *)
(* goes on.  The engine stands here for what it puts out: one decision per *)
(* transaction it gets, stamped with the event time, in transactions.      *)
(***************************************************************************)
EXTENDS Generator, TopicReader

CONSTANTS
    Since,      \* start of the window
    Until,      \* its end, past the last instant when it is not given
    Margin,     \* how much earlier labels are read from
    RingMax,    \* RING_MAX_SECS
    MaxCommits  \* bound: markers

ASSUME RecallAssumption ==
    /\ Topics = {"decisions", "labels"} /\ NoTopic \notin Topics /\ TopicPartitions = Partitions
    /\ Since \in Nat /\ Until \in Nat /\ Margin \in Nat /\ RingMax \in Nat /\ MaxCommits \in Nat

VARIABLES
    stage,      \* of the reading: 0, then the topic in InOrder that it reads, then 3
    kept        \* topic -> what it read of it

readVars   == <<stage, kept, readerVars>>
recallVars == <<genVars, logs, readVars>>

-----------------------------------------------------------------------------
(* The brokers and the engine *)

Delivers(topic, p) ==
    /\ outbox[topic][p] # <<>>
    /\ outbox' = [outbox EXCEPT ![topic][p] = Tail(@)]
    /\ UNCHANGED <<now, runnerVars, playVars, readVars>>

\* A label is stamped with the wall clock of its record.
DeliverLabel(p) ==
    /\ Delivers("labels", p)
    /\ LET l == Head(outbox.labels[p])
       IN  logs' = [logs EXCEPT !.labels[p] =
                      Append(@, [kind |-> "data", stamp |-> l.created, id |-> l.id, label |-> l.label])]

\* Delivered and decided; the record of an open transaction is seen when it commits, which is a
\* Poll that comes later.  known is history: by then the label was on its topic, and not from
\* before what is read of the labels.
Decide(p) ==
    /\ Delivers("raw", p)
    /\ LET t == Head(outbox.raw[p])
           known == \E q \in Partitions : \E l \in ToSet(logs.labels[q]) : l.id = t.id /\ l.stamp >= Since - Margin
       IN  logs' = [logs EXCEPT !.decisions[p] =
                      Append(@, [kind |-> "data", stamp |-> t.ts, id |-> t.id, known |-> known])]

Markers ==
    UNION {{<<p, i>> : i \in {j \in DOMAIN logs.decisions[p] : ~IsData(logs.decisions[p][j])}} : p \in Partitions}

\* The engine commits its transaction, which leaves a marker in the partition.
Commit(p) ==
    /\ logs.decisions[p] # <<>> /\ IsData(Last(logs.decisions[p]))
    /\ Cardinality(Markers) < MaxCommits
    /\ logs' = [logs EXCEPT !.decisions[p] = Append(@, [kind |-> "marker", stamp |-> Last(@).stamp])]
    /\ UNCHANGED <<genVars, readVars>>

-----------------------------------------------------------------------------
(* The readers *)

\* Mutant of InOrder: the labels are read first.
LabelsFirst == <<"labels", "decisions">>

InOrder == <<"decisions", "labels">>

SinceOf(topic) == IF topic = "labels" THEN Since - Margin ELSE Since

\* Records and labels are the topic's at the time: the ends are noted when a topic is opened.
Begin ==
    /\ stage = 0 /\ stage' = 1
    /\ Open(InOrder[1], SinceOf(InOrder[1]))
    /\ UNCHANGED <<genVars, logs, kept>>

Read(p) ==
    /\ stage \in {1, 2}
    /\ Poll(p)
    /\ UNCHANGED <<genVars, logs, stage, kept>>

\* The first topic is read; the second is opened only now.
GoOn ==
    /\ stage \in {1, 2} /\ ReadingEnds
    /\ stage' = stage + 1
    /\ kept' = [kept EXCEPT ![reading] = yielded]
    /\ IF stage = 1 THEN Open(InOrder[2], SinceOf(InOrder[2]))
       ELSE reading' = NoTopic /\ UNCHANGED <<start, high, next, pending, yielded>>
    /\ UNCHANGED <<genVars, logs>>

\* What a tool ("train" or "recall") keeps: offsets_for_times seeks per partition, recall trims
\* exactly, training takes what comes.
Decisions(tool) == {d \in kept.decisions : tool = "train" \/ d.stamp \in Since .. Until - 1}
Labels(tool)    == {l \in kept.labels : tool = "train" \/ l.stamp < Until}

\* drop_scenarios, for recall alone: staged fraud leaves both sides.
Staged(tool) == {l.id : l \in {k \in Labels(tool) : tool = "recall" /\ k.label.source = "scenario"}}

\* What is taken for fraud, with its label, and what is taken for legitimate.
Fraud(tool) == {p \in Decisions(tool) \X Labels(tool) : p[1].id = p[2].id /\ p[1].id \notin Staged(tool)}
Legitimate(tool) ==
    {d \in Decisions(tool) : \A l \in Labels(tool) : l.id # d.id}

RingHops == {p \in Fraud("recall") : p[2].label.pattern = "RING"}

HopsOf(episode) == {p \in RingHops : p[2].label.episode = episode}

\* Mutant of Complete: what was seen of a ring is taken for all of it.
SeenAtAll(episode) == HopsOf(episode) # {}

Counted(episode) == \E p \in HopsOf(episode) : p[2].label.hops # NoHop

\* The newest label that has a decision.
NewestLabel == Max({p[2].label.ts : p \in Fraud("recall")})

\* As many hops as the labels, which agree, declare; where they declare nothing, three or more, the
\* first of them RingMax old.
Complete(episode) ==
    LET hops == HopsOf(episode)
    IN  IF Counted(episode) THEN \A p \in hops : Cardinality(hops) = p[2].label.hops
        ELSE Cardinality(hops) >= 3 /\ \E p \in hops : NewestLabel - p[2].label.ts >= RingMax

\* By what the label says, or else by its place among those that were seen.
Slot(p) ==
    LET hops   == HopsOf(p[2].label.episode)
        before == Cardinality({q \in hops : q[2].label.ts < p[2].label.ts})
        hop    == IF Counted(p[2].label.episode) THEN p[2].label.hop ELSE before
        last   == IF Counted(p[2].label.episode) THEN p[2].label.hops - 1 ELSE Cardinality(hops) - 1
    IN  IF hop = 0 THEN "first" ELSE IF hop = last THEN "closing" ELSE "middle"

\* The hops recall by position is measured on.
AtSlot(slot) == {p \in RingHops : Complete(p[2].label.episode) /\ Slot(p) = slot}

-----------------------------------------------------------------------------
RecallInit ==
    /\ GenInit /\ ReaderInit
    /\ logs = [decisions |-> [p \in Partitions |-> <<>>], labels |-> [p \in Partitions |-> <<>>]]
    /\ stage = 0
    /\ kept = [decisions |-> {}, labels |-> {}]

Broker == \E p \in Partitions : DeliverLabel(p) \/ Decide(p) \/ Commit(p)

Reader ==
    \/ Begin
    \/ \E p \in Partitions : Read(p)
    \/ GoOn

RecallNext == (GenNext /\ UNCHANGED <<logs, readVars>>) \/ Broker \/ Reader

RecallSpec == RecallInit /\ [][RecallNext]_recallVars

-----------------------------------------------------------------------------
(* Properties *)

\* However traffic, decisions and labels overtake each other while the topics are read: a
\* transaction whose label was there before it was decided, and no longer than the margin before
\* the window, is never taken for legitimate traffic, and staged fraud is in no measurement.
FraudIsNotLegitimate ==
    stage = 3 =>
        /\ \A tool \in {"train", "recall"} : \A d \in Legitimate(tool) : ~d.known
        /\ \A p \in Fraud("recall") : p[2].label.source # "scenario"

\* Recall by hop is measured on every transaction of a ring whose labels count the hops, from its
\* first to the one that closes it, or on none of them, whatever of it lies outside the window or is
\* still to come.  Of an older ring it is not: its first hop in the window is taken for its first,
\* and its last one read for its closing one.
RingsAreWhole ==
    stage = 3 =>
        \A slot \in {"first", "middle", "closing"} : \A p \in AtSlot(slot) :
            p[2].label.hops # NoHop =>
                /\ {q[1].id[2] : q \in HopsOf(p[2].label.episode)} = 1 .. p[2].label.hops
                /\ slot = "first" <=> p[1].id[2] = 1
                /\ slot = "closing" <=> p[1].id[2] = p[2].label.hops
=============================================================================
