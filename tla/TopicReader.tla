---------------------------- MODULE TopicReader ----------------------------
(***************************************************************************)
(* kafka_source.read_topic: a bounded read of a topic that is written all  *)
(* the while.  It starts in every partition at the first record stamped    *)
(* since or later and is done with a partition once it has seen the last   *)
(* offset below the end it noted at the start.  Where a transaction's      *)
(* commit marker is at that offset it never sees it, and the reading ends  *)
(* when nothing has come for ten seconds.  The broker answers, and a       *)
(* consumer that is told of an error reads on.                             *)
(***************************************************************************)
EXTENDS Integers, FiniteSetsExt, SequencesExt

CONSTANTS Topics, TopicPartitions, NoTopic

VARIABLES
    logs,     \* topic -> partition -> its records; a marker is a record of kind "marker"
    reading,  \* the topic that is read
    start,    \* per partition: how many records lie before the first that is read
    high,     \* per partition: the end offset when the reading began
    next,     \* per partition: records behind the consumer
    pending,  \* partitions that are not read to their end
    yielded   \* the records that came, without their markers

readerVars == <<reading, start, high, next, pending, yielded>>

IsData(record) == record.kind = "data"

\* offsets_for_times: before the first record stamped since or later, or at the end.
StartOf(log, since) ==
    LET later == {i \in DOMAIN log : log[i].stamp >= since}
    IN  IF later = {} THEN Len(log) ELSE Min(later) - 1

Open(topic, since) ==
    /\ reading' = topic
    /\ high' = [p \in TopicPartitions |-> Len(logs[topic][p])]
    /\ start' = [p \in TopicPartitions |-> StartOf(logs[topic][p], since)]
    /\ next' = start'
    /\ pending' = {p \in TopicPartitions : start'[p] < high'[p]}
    /\ yielded' = {}

\* Mutant of ReadToEnd: a partition is left before its last record.
ReadToEndEarly(p, offset) == offset + 2 >= high[p]

\* The record at this offset (counted from 0) is the last that is waited for.
ReadToEnd(p, offset) == offset + 1 >= high[p]

\* poll: a record of any partition; records past the noted end come as well while others wait.
Poll(p) ==
    /\ pending # {}
    /\ next[p] < Len(logs[reading][p])
    /\ next' = [next EXCEPT ![p] = @ + 1]
    /\ LET record == logs[reading][p][next[p] + 1]
       IN  IF IsData(record)
           THEN /\ yielded' = yielded \cup {record}
                /\ pending' = IF ReadToEnd(p, next[p]) THEN pending \ {p} ELSE pending
           ELSE UNCHANGED <<yielded, pending>>
    /\ UNCHANGED <<reading, start, high>>

\* Every partition is at its noted end, or nothing came for idle_timeout_s.
ReadingEnds == pending = {} \/ \A p \in TopicPartitions : next[p] = Len(logs[reading][p])

ReaderInit ==
    /\ reading = NoTopic /\ pending = {} /\ yielded = {}
    /\ start \in [TopicPartitions -> {0}] /\ high \in [TopicPartitions -> {0}]
    /\ next \in [TopicPartitions -> {0}]

-----------------------------------------------------------------------------
(* Property *)

\* A reading that ends has every record below the noted ends, however the partitions and the
\* writers took turns and wherever commit markers lie.
ReadingComplete ==
    reading # NoTopic /\ ReadingEnds =>
        \A p \in TopicPartitions : \A i \in start[p] + 1 .. high[p] :
            IsData(logs[reading][p][i]) => logs[reading][p][i] \in yielded
=============================================================================
