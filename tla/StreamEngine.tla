---------------------------- MODULE StreamEngine ----------------------------
(***************************************************************************)
(* The stream engine on one partition of transactions.raw: the topology    *)
(* dedup -> enrich -> check -> decision of one task under exactly_once_v2. *)
(* The local stores, the consumed offset and the outputs are committed in  *)
(* one Kafka transaction; the transfer graph lives in the JVM's heap and   *)
(* is in no transaction.  An exception kills the stream thread, which is   *)
(* replaced and reads on from the last commit, so that a record no stage   *)
(* gets through is read for ever; the JVM may die as well.                 *)
(*                                                                         *)
(* A record is named by its offset.  A store entry, an output and a graph  *)
(* edge stand for the record they were made from, so the dedup store is a  *)
(* set of offsets and a profile is the set of records it counts; the window*)
(* stores hold the same records by bucket, and of the three, which differ  *)
(* in length only, one is modelled.  All of this is kept per user: there is*)
(* one here, who makes transfers only.  Amounts and their mean are left    *)
(* out; TransactionGraph has what the graph check computes.                *)
(***************************************************************************)
EXTENDS Integers, FiniteSetsExt, SequencesExt

CONSTANTS
    Ids,         \* transaction ids of this partition
    Poison,      \* the id of a record that does not parse or has no txnId
    Fatal,       \* ids of records that parse and make a processor throw: they have no userId
    Ttl,         \* fraudgraph.dedup.ttlHours
    EvictEvery,  \* fraudgraph.dedup.evictEveryMinutes
    Place,       \* id -> where the transaction was made
    BucketSize,  \* VelocityWindows.bucketSize
    Window,      \* length of the velocity window
    Grace,       \* fraudgraph.velocity.graceSecs
    MinGap,      \* fraudgraph.geo.minGapSecs
    TravelTime,  \* what a journey between two places takes at geo.maxSpeedKmh
    Times,       \* bound: timestamps
    MaxRaw,      \* bound: records produced
    MaxCrashes   \* bound: deaths of the thread or the JVM

ASSUME EngineAssumption ==
    /\ Ttl \in Nat /\ EvictEvery \in Nat \ {0} /\ Times \subseteq Nat /\ MaxRaw \in Nat
    /\ MaxCrashes \in Nat
    /\ Poison \notin Ids /\ Fatal \subseteq Ids
    /\ BucketSize \in Nat \ {0} /\ Window \in Nat \ {0} /\ Grace \in Nat
    /\ MinGap \in Nat \ {0} /\ TravelTime \in Nat

VARIABLES
    raw,         \* the partition of transactions.raw: records [id, ts]
    committed,   \* the committed offset
    hasOffset,   \* FALSE before the first commit: there is no committed offset to resume from
    first,       \* where the engine joined the log
    changelog,   \* the stores as of the last commit, and the partition time
    visible,     \* committed outputs, in the order of fraud.decisions and transactions.dlq
    position,    \* records the task is done with
    store,       \* the task's dedup-store, profile-store (with the windows) and
                 \* last-location-store (an offset or 0), and its stream time
    nextEvict,   \* stream time of the next punctuation
    stage,       \* "idle" between two records, "checked" between CheckProcessor and the sink
    features,    \* of the CheckedTransaction on its way to the sink
    open,        \* outputs of the open transaction
    edges,       \* records whose edge is in the TransactionGraph, in whatever number of copies
    forgot,      \* offsets up to which the graph died with the JVM
    crashes

logVars  == <<raw, first>>
kafkaVars == <<committed, hasOffset, changelog, visible>>
taskVars == <<position, store, nextEvict, stage, features, open>>
heapVars == <<edges, forgot>>
vars == <<logVars, kafkaVars, taskVars, heapVars, crashes>>

Record == [id : Ids \cup {Poison}, ts : Times]
Sinks  == {"decisions", "dlq"}

Later(a, b) == IF a > b THEN a ELSE b

\* The record being processed.
Current == raw[position + 1]

\* DedupProcessor: store.get(txnId) # null.
Seen(id) == \E o \in store.dedup : raw[o].id = id

\* Stream time follows the timestamps of the records, TransactionTimestampExtractor.
Advanced == Later(store.time, Current.ts)

Produce ==
    /\ Len(raw) < MaxRaw
    /\ \E r \in Record : raw' = Append(raw, r)
    /\ UNCHANGED <<first, kafkaVars, taskVars, heapVars, crashes>>

\* The task takes the next record of the log.
Takes ==
    /\ stage = "idle"
    /\ position < Len(raw)

\* Mutant of SkipPoison: the handler answers FAIL, and the record is read again.
StallOnPoison ==
    /\ Takes
    /\ Current.id = Poison
    /\ UNCHANGED vars

\* DlqDeserializationExceptionHandler answers CONTINUE to what does not parse, and DedupProcessor
\* returns at once from what has no txnId: only the latter moves stream time.  What the handler
\* sends to the DLQ is in no transaction.
SkipPoison ==
    /\ Takes
    /\ Current.id = Poison
    /\ position' = position + 1
    /\ \E time \in {store.time, Advanced} : store' = [store EXCEPT !.time = time]
    /\ UNCHANGED <<logVars, kafkaVars, nextEvict, stage, features, open, heapVars, crashes>>

DropDuplicate ==
    /\ Takes
    /\ Current.id # Poison
    /\ Seen(Current.id)
    /\ position' = position + 1
    /\ store' = [store EXCEPT !.time = Advanced]
    /\ UNCHANGED <<logVars, kafkaVars, nextEvict, stage, features, open, heapVars, crashes>>

\* DedupProcessor puts the id with its timestamp.
Remembered == store.dedup \cup {position + 1}

\* CheckProcessor makes the transaction history, after the checks have read the profile.
Counted == store.profile \cup {position + 1}

\* The window store keeps what is not older than its retention, by the newest bucket of any record.
Retention == Window + Grace

\* Mutant of WindowCount: the store is read before the transaction is written to it.
CountBefore(counted, ts) ==
    Cardinality({o \in counted \ {position + 1} : raw[o].ts \in ts - Window + 1 .. ts})

Bucket(ts) == ts - (ts % BucketSize)

\* VelocityWindows.aggregate at the instant of the transaction, which counts itself.
WindowCount(counted, ts) ==
    LET newest == Max({Bucket(raw[o].ts) : o \in counted})
    IN  Cardinality({o \in counted : LET b == Bucket(raw[o].ts)
                                     IN  b \in ts - Window + 1 .. ts /\ b > newest - Retention})

\* GeoCheck: elsewhere, too soon, and not so soon that it is skipped.
Impossible(last) ==
    /\ last # 0 /\ Place[raw[last].id] # Place[Current.id]
    /\ Current.ts - raw[last].ts \in MinGap .. TravelTime - 1

\* Mutant of LastLocation: a late transaction takes the user back.
LatestRecord == position + 1

\* A record that is out of order does not take the user back in time.
LastLocation ==
    IF store.last = 0 \/ Current.ts >= raw[store.last].ts THEN position + 1 ELSE store.last

\* TransactionGraph.addEdge, which never throws; a record read again adds a copy.
Linked == edges \cup {position + 1}

NoFeatures == [count |-> 0, impossible |-> FALSE]

\* Everything a new transaction goes through before its decision: three stages, one call stack.
Check ==
    /\ Takes
    /\ Current.id # Poison
    /\ ~Seen(Current.id)
    /\ Current.id \notin Fatal
    /\ features' = [count |-> WindowCount(Counted, Current.ts), impossible |-> Impossible(store.last)]
    /\ store' = [dedup |-> Remembered, profile |-> Counted, last |-> LastLocation, time |-> Advanced]
    /\ edges' = Linked
    /\ stage' = "checked"
    /\ UNCHANGED <<logVars, kafkaVars, position, nextEvict, open, forgot, crashes>>

\* DecisionProcessor: the scorer has answered, failed or was not asked, and the decision goes
\* to its sink; an exception sends the transaction to the DLQ instead.
Decide(sink) ==
    /\ stage = "checked"
    /\ open' = Append(open, [offset |-> position + 1, sink |-> sink,
                             count |-> features.count, impossible |-> features.impossible])
    /\ position' = position + 1
    /\ stage' = "idle" /\ features' = NoFeatures
    /\ UNCHANGED <<logVars, kafkaVars, store, nextEvict, heapVars, crashes>>

\* Mutant of Kept: <= instead of <.
KeptLess(o) == raw[o].ts + Ttl > store.time

\* DedupProcessor.evict keeps what is not older than the cutoff.
Kept(o) == raw[o].ts + Ttl >= store.time

\* The first punctuation after time in the schedule that was due at due.
NextMultiple(due, time) == due + ((time - due) \div EvictEvery + 1) * EvictEvery

\* The STREAM_TIME punctuator, between two records; the first is due at once.
Evict ==
    /\ stage = "idle"
    /\ store.time >= nextEvict
    /\ position > 0
    /\ store' = [store EXCEPT !.dedup = {o \in @ : Kept(o)}]
    /\ nextEvict' = NextMultiple(nextEvict, store.time)
    /\ UNCHANGED <<logVars, kafkaVars, position, stage, features, open, heapVars, crashes>>

\* The commit interval has passed: one Kafka transaction for stores, outputs and offset.
Commit ==
    /\ stage = "idle"
    /\ <<position, store, open>> # <<committed, changelog, <<>>>>
    /\ committed' = position
    /\ hasOffset' = TRUE
    /\ changelog' = store
    /\ visible' = visible \o open
    /\ open' = <<>>
    /\ UNCHANGED <<logVars, position, store, nextEvict, stage, features, heapVars, crashes>>

-----------------------------------------------------------------------------
(* Crashes *)

\* Mutant of Restore: the task reopens its local files instead of the changelog.
RestoreLocal ==
    /\ store' = store
    /\ nextEvict' = 0
    /\ stage' = "idle" /\ features' = NoFeatures
    /\ open' = <<>>
    /\ IF hasOffset
       THEN position' = committed /\ UNCHANGED <<first, committed>>
       ELSE position' = Len(raw) /\ first' = Len(raw) /\ committed' = Len(raw)

\* The open transaction is aborted, the stores are rebuilt from their changelogs, and the task
\* resumes at the committed offset, or at the end of the log if there is none.
Restore ==
    /\ store' = changelog
    /\ nextEvict' = 0
    /\ stage' = "idle" /\ features' = NoFeatures
    /\ open' = <<>>
    /\ IF hasOffset
       THEN position' = committed /\ UNCHANGED <<first, committed>>
       ELSE position' = Len(raw) /\ first' = Len(raw) /\ committed' = Len(raw)

\* An exception reaches the stream thread: REPLACE_THREAD.  The graph is a bean and stays.
ThreadReplaced == Restore /\ UNCHANGED <<raw, hasOffset, changelog, visible, heapVars>>

ThreadDies ==
    /\ crashes < MaxCrashes
    /\ crashes' = crashes + 1
    /\ ThreadReplaced

\* EnrichProcessor asks the profile store for a user that is null: an exception of this record on
\* every attempt, before the graph has seen it, and nothing between it and the thread.
Throw ==
    /\ Takes
    /\ Current.id \in Fatal
    /\ ~Seen(Current.id)
    /\ ThreadReplaced
    /\ UNCHANGED crashes

EngineDies ==
    /\ crashes < MaxCrashes
    /\ crashes' = crashes + 1
    /\ Restore
    /\ edges' = {}
    /\ forgot' = committed
    /\ UNCHANGED <<raw, hasOffset, changelog, visible>>

-----------------------------------------------------------------------------
Init ==
    /\ raw = <<>> /\ first = 0
    /\ committed = 0 /\ hasOffset = FALSE /\ visible = <<>>
    /\ changelog = [dedup |-> {}, profile |-> {}, last |-> 0, time |-> 0]
    /\ position = 0 /\ store = changelog /\ nextEvict = 0 /\ stage = "idle" /\ features = NoFeatures /\ open = <<>>
    /\ edges = {} /\ forgot = 0 /\ crashes = 0

Process == SkipPoison \/ DropDuplicate \/ Check \/ Throw \/ \E sink \in Sinks : Decide(sink)

Next ==
    \/ Produce
    \/ Process \/ Evict \/ Commit
    \/ ThreadDies \/ EngineDies

Spec == Init /\ [][Next]_vars

\* Stream threads keep running, replaced when they die, and commit every commitIntervalMs.
FairSpec == Spec /\ WF_vars(Process) /\ WF_vars(Commit)

-----------------------------------------------------------------------------
(* Properties *)

OffsetsOf(out) == [k \in 1 .. Len(out) |-> out[k].offset]

\* What a read_committed consumer sees is the promise of ExactlyOnce: one output per new
\* transaction and none lost, whatever crashes (docs/DESIGN.md, "Exactly-once").
Promise == INSTANCE ExactlyOnce WITH consumed <- committed, emitted <- OffsetsOf(visible)
ImplementsExactlyOnce == Promise!Spec

Outputs == visible \o open

ProfileMatches ==
    /\ changelog.profile = ToSet(OffsetsOf(visible))
    /\ store.profile = ToSet(OffsetsOf(Outputs)) \cup (IF stage = "checked" THEN {position + 1} ELSE {})

GraphMatches == \A o \in ToSet(OffsetsOf(visible)) : o > forgot => o \in edges

\* The newest of some transactions by event time, the later one of two as new.
NewestOf(offsets) ==
    CHOOSE o \in offsets : \A i \in offsets : raw[i].ts < raw[o].ts \/ (raw[i].ts = raw[o].ts /\ i <= o)

\* The transactions decided up to the k-th output whose event time is in an interval.
DecidedIn(k, from, to) == {i \in 1 .. k : raw[Outputs[i].offset].ts \in from .. to}

SignalsMatch ==
    \A k \in DOMAIN Outputs :
        LET out  == Outputs[k]
            ts   == raw[out.offset].ts
            last == NewestOf(ToSet(OffsetsOf(SubSeq(Outputs, 1, k - 1))))
        IN  /\ out.impossible <=>
                 /\ k > 1 /\ Place[raw[last].id] # Place[raw[out.offset].id]
                 /\ ts - raw[last].ts \in MinGap .. TravelTime - 1
            /\ k = 1 \/ raw[last].ts - ts <= Grace =>
                 out.count \in Cardinality(DecidedIn(k, ts - Window + BucketSize, ts))
                               .. Cardinality(DecidedIn(k, ts - Window + 1, ts + BucketSize - 1))

\* State changes and outputs agree.  The committed profile counts exactly the transactions with
\* a committed output, the task's profile those of the open transaction too.  The transfer of
\* a visible decision is in the graph, which no Kafka transaction covers, unless the JVM died
\* since (TransactionGraph: shared by every stream thread, not restored on restart).  And what
\* was signalled is what the outputs before it say: travel is impossible from the newest place
\* known, however late records come, and a transaction that is late by no more than the grace
\* period finds all of its window, to a bucket at either end.
StateMatchesOutputs == ProfileMatches /\ GraphMatches /\ SignalsMatch

\* "The stream never stalls": every record is done with in the end.  It does not hold, for Throw.
StreamNeverStalls ==
    \A i \in 1 .. MaxRaw : i <= Len(raw) ~> i <= committed

\* A record without a userId that is still to be committed.
FatalAhead == \E j \in committed + 1 .. Len(raw) : raw[j].id \in Fatal

\* What the stages keep of that: a record is done with in the end, even a poisoned one and
\* whatever the sinks and the crashes, unless one that kills every thread is in the log ahead.
StallsOnlyOnFatal ==
    \A i \in 1 .. MaxRaw : i <= Len(raw) ~> (i <= committed \/ FatalAhead)
=============================================================================
