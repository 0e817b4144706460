----------------------------- MODULE Generator -----------------------------
(***************************************************************************)
(* The transaction generator: the loop of runner.py, which merges base     *)
(* traffic with scheduled fraud episodes, a scenario (scenario.py) played  *)
(* next to it by another process, and their Kafka producers.               *)
(*                                                                         *)
(* The wall clock ticks between any two steps, as often as it likes: a host*)
(* that sleeps, or a loop that cannot keep up.  An arrival or an episode   *)
(* comes a random gap after the last one.  Users, amounts and places are   *)
(* left out; an event is its identity, the instant it is due, the event    *)
(* time of its transaction, and its label.                                 *)
(***************************************************************************)
EXTENDS Integers, FiniteSetsExt, SequencesExt

CONSTANTS
    Injectors,    \* the patterns the runner injects, of "RING", "GEO", "VELOCITY"
    Kinds,        \* the patterns a scenario may be of, "POLICY" besides
    Accounts,     \* numbers of accounts a ring may have
    FarTxns,      \* numbers of transactions from a far city
    BurstTxns,    \* numbers of transactions of a burst
    Spread,       \* mean gap between the transactions of an episode
    BaseGaps,     \* gaps between base arrivals
    EpisodeGaps,  \* gaps between the episodes of an injector
    MaxBehind,    \* MAX_BEHIND_SECS
    CountsHops,   \* whether a ring's labels count its hops: those of an older generator do not
    MaxEvents,    \* --max-events
    MaxEpisodes,  \* bound: episodes the runner plans
    MaxClock,     \* bound: last instant
    Partitions,
    NoLabel

ASSUME GeneratorAssumption ==
    /\ Injectors \subseteq {"RING", "GEO", "VELOCITY"} /\ Kinds \subseteq {"RING", "GEO", "VELOCITY", "POLICY"}
    /\ \A k \in Accounts : k \in Nat /\ k >= 3
    /\ FarTxns \subseteq Nat /\ BurstTxns \subseteq Nat \ {0}
    /\ Spread \in Nat \ {0} /\ BaseGaps \subseteq Nat \ {0} /\ EpisodeGaps \subseteq Nat \ {0}
    /\ CountsHops \subseteq BOOLEAN
    /\ MaxBehind \in Nat /\ MaxEvents \in Nat \ {0} /\ MaxEpisodes \in Nat /\ MaxClock \in Nat

VARIABLES
    now,          \* the wall clock
    pc,           \* of the runner: "head", "spawn", "body", "publish", "label" or "done"
    nextBase,     \* when the next base arrival is due
    nextEpisode,  \* per injector
    episodes,     \* episodes planned
    queue,        \* events of the planned episodes
    hand,         \* the event the runner publishes, if any, and when it looked at the clock
    sent,         \* history: what the runner published, in order
    script,       \* events the scenario has still to play, in order
    halfPlayed,   \* is the transaction of the first of them published?
    outbox        \* per topic and partition: what the producers have not delivered

runnerVars == <<pc, nextBase, nextEpisode, episodes, queue, hand, sent>>
playVars   == <<script, halfPlayed>>
genVars    == <<now, runnerVars, playVars, outbox>>

-----------------------------------------------------------------------------
(* Episodes *)

\* The k hops keep their order, each up to half a gap late.
RingOffsets ==
    UNION {{o \in [1 .. k -> 0 .. k * Spread] :
              \A i \in 1 .. k : o[i] \in (i - 1) * Spread .. (i - 1) * Spread + Spread \div 2} : k \in Accounts}

\* Once at home, then from a far city.
GeoOffsets == {[i \in 1 .. n + 1 |-> (i - 1) * Spread] : n \in FarTxns}

\* About evenly spaced, and sorted.
BurstOffsets == {[i \in 1 .. n |-> (i - 1) * Spread] : n \in BurstTxns}

Offsets(pattern) ==
    CASE pattern = "RING" -> RingOffsets
      [] pattern = "GEO" -> GeoOffsets
      [] pattern = "VELOCITY" -> BurstOffsets
      [] pattern = "POLICY" -> {<<0>>}

NoHop == -1

\* What is at home in a geo episode is no fraud, a policy breach no planted pattern; only a
\* ring's labels count their hops.
LabelOf(pattern, i, offsets, at, n, counted) ==
    LET counts == pattern = "RING" /\ counted
    IN  IF (pattern = "GEO" /\ i = 1) \/ pattern = "POLICY" THEN NoLabel
        ELSE [ts |-> at, pattern |-> pattern, episode |-> n, source |-> "generator",
              hop  |-> IF counts THEN i - 1 ELSE NoHop,
              hops |-> IF counts THEN Len(offsets) ELSE NoHop]

\* The events of episode n, from start on.
Episode(pattern, offsets, start, n, counted) ==
    [i \in DOMAIN offsets |->
        [id |-> <<n, i>>, at |-> start + offsets[i], ts |-> start + offsets[i], planned |-> offsets[i],
         label |-> LabelOf(pattern, i, offsets, start + offsets[i], n, counted)]]

\* tag: left out of recall measurements.
Tagged(episode) ==
    [i \in DOMAIN episode |-> IF episode[i].label = NoLabel THEN episode[i]
                              ELSE [episode[i] EXCEPT !.label = [@ EXCEPT !.source = "scenario"]]]

\* Mutant of Shifted: the event is published later under its old event time.
ShiftedLate(ev, behind) == [ev EXCEPT !.at = @ + behind]

Shifted(ev, behind) ==
    LET label == IF ev.label = NoLabel THEN NoLabel ELSE [ev.label EXCEPT !.ts = @ + behind]
    IN  [ev EXCEPT !.at = @ + behind, !.ts = @ + behind, !.label = label]

-----------------------------------------------------------------------------
(* The producers *)

Partition(id)      == CHOOSE p \in Partitions : p = id[2] % Cardinality(Partitions)
LabelPartition(id) == CHOOSE p \in Partitions : p = id[1] % Cardinality(Partitions)

PublishTxn(ev) ==
    outbox' = [outbox EXCEPT !.raw[Partition(ev.id)] = Append(@, [id |-> ev.id, ts |-> ev.ts])]

\* The label, if the event has one, is stamped with the wall clock.
PublishLabel(ev) ==
    outbox' = IF ev.label = NoLabel THEN outbox
              ELSE [outbox EXCEPT !.labels[LabelPartition(ev.id)] =
                      Append(@, [id |-> ev.id, created |-> now, label |-> ev.label])]

-----------------------------------------------------------------------------
(* Runner.run *)

Behind(at)   == now - at > MaxBehind
LimitReached == Len(sent) >= MaxEvents

\* The loop ends: max_events, the deadline or a signal.
Stop ==
    /\ pc = "head"
    /\ pc' = "done"
    /\ UNCHANGED <<now, nextBase, nextEpisode, episodes, queue, hand, sent, playVars, outbox>>

\* The schedule jumps to the wall clock when it has fallen too far behind.
LoopHead ==
    /\ pc = "head" /\ ~LimitReached
    /\ LET behind == IF Behind(nextBase) THEN now - nextBase ELSE 0
       IN  /\ nextBase' = nextBase + behind
           /\ nextEpisode' = [i \in Injectors |-> nextEpisode[i] + behind]
           /\ queue' = {Shifted(ev, behind) : ev \in queue}
    /\ pc' = "spawn"
    /\ UNCHANGED <<now, episodes, hand, sent, playVars, outbox>>

Due == {i \in Injectors : nextEpisode[i] <= nextBase /\ episodes < MaxEpisodes}

\* An episode is queued from the instant it was due on.
Spawn(i) ==
    /\ pc = "spawn" /\ i \in Due
    /\ episodes' = episodes + 1
    /\ \E offsets \in Offsets(i), counted \in CountsHops :
         queue' = queue \cup Range(Episode(i, offsets, nextEpisode[i], episodes + 1, counted))
    /\ \E gap \in EpisodeGaps : nextEpisode' = [nextEpisode EXCEPT ![i] = @ + gap]
    /\ UNCHANGED <<now, pc, nextBase, hand, sent, playVars, outbox>>

Spawned ==
    /\ pc = "spawn" /\ Due = {}
    /\ pc' = "body"
    /\ UNCHANGED <<now, nextBase, nextEpisode, episodes, queue, hand, sent, playVars, outbox>>

InTime == {ev \in queue : ev.at <= nextBase}
First(evs) == {ev \in evs : \A e \in evs : ev.at <= e.at}

\* The loop looks at the clock, and what it takes is not too late: it will be published, however
\* long the host sleeps or the producer's queue is full from here on.
Take(ev) ==
    /\ pc = "body" /\ ~LimitReached
    /\ now >= ev.at /\ ~Behind(ev.at)
    /\ hand' = <<[checked |-> now, id |-> ev.id, ts |-> ev.ts, planned |-> ev.planned, label |-> ev.label]>>
    /\ pc' = "publish"
    /\ UNCHANGED <<now, nextBase, nextEpisode, episodes, sent, playVars, outbox>>

\* An injected event that is due before the next base arrival.
TakeQueued(ev) ==
    /\ ev \in First(InTime)
    /\ Take(ev)
    /\ queue' = queue \ {ev}

TakeBase ==
    /\ InTime = {}
    /\ Take([id |-> <<0, Len(sent)>>, at |-> nextBase, ts |-> nextBase, planned |-> 0, label |-> NoLabel])
    /\ UNCHANGED queue

\* publish_txn of what is in hand.
SendTxn ==
    /\ pc = "publish"
    /\ PublishTxn(Head(hand))
    /\ sent' = Append(sent, Head(hand))
    /\ pc' = "label"
    /\ UNCHANGED <<now, nextBase, nextEpisode, episodes, queue, hand, playVars>>

\* Then its label; after a base arrival the next is planned.
SendLabel ==
    /\ pc = "label"
    /\ PublishLabel(Head(hand))
    /\ \/ Head(hand).id[1] > 0 /\ pc' = "body" /\ UNCHANGED nextBase
       \/ Head(hand).id[1] = 0 /\ pc' = "head" /\ \E gap \in BaseGaps : nextBase' = nextBase + gap
    /\ hand' = <<>>
    /\ UNCHANGED <<now, nextEpisode, episodes, queue, sent, playVars>>

\* The host slept while the loop waited, or enough is published: back to the head.
Resync ==
    /\ pc = "body"
    /\ \/ LimitReached
       \/ \E ev \in First(InTime) : Behind(ev.at)
       \/ InTime = {} /\ Behind(nextBase)
    /\ pc' = "head"
    /\ UNCHANGED <<now, nextBase, nextEpisode, episodes, queue, hand, sent, playVars, outbox>>

-----------------------------------------------------------------------------
\* play: at its time or later, under the time it was scheduled for.
PlayTxn ==
    /\ script # <<>> /\ ~halfPlayed
    /\ now >= Head(script).at
    /\ PublishTxn(Head(script))
    /\ halfPlayed' = TRUE
    /\ UNCHANGED <<now, runnerVars, script>>

PlayLabel ==
    /\ halfPlayed
    /\ PublishLabel(Head(script))
    /\ halfPlayed' = FALSE /\ script' = Tail(script)
    /\ UNCHANGED <<now, runnerVars>>

Tick ==
    /\ now < MaxClock
    /\ now' = now + 1
    /\ UNCHANGED <<runnerVars, playVars, outbox>>

\* What main of scenario.py plays: one episode, an instant from now.
Scripts ==
    UNION {{Tagged(Episode(pattern, offsets, 1, MaxEpisodes + 1, TRUE)) : offsets \in Offsets(pattern)} :
              pattern \in Kinds}

GenInit ==
    /\ now = 0 /\ pc = "head" /\ nextBase = 0
    /\ nextEpisode \in [Injectors -> EpisodeGaps]
    /\ episodes = 0 /\ queue = {} /\ hand = <<>> /\ sent = <<>>
    /\ script \in Scripts /\ halfPlayed = FALSE
    /\ outbox = [raw |-> [p \in Partitions |-> <<>>], labels |-> [p \in Partitions |-> <<>>]]

Runner ==
    \/ Stop \/ LoopHead \/ Spawned \/ TakeBase \/ SendTxn \/ SendLabel \/ Resync
    \/ \E i \in Injectors : Spawn(i)
    \/ \E ev \in queue : TakeQueued(ev)

GenNext == Tick \/ PlayTxn \/ PlayLabel \/ Runner

-----------------------------------------------------------------------------
(* Properties *)

\* However often the host sleeps and the schedule is shifted: event times never go back, the label
\* tells the time of its transaction, an episode keeps its order and is never squeezed together, and
\* when the loop last looked at the clock before it published a transaction the event time was
\* reached and at most MaxBehind past.  Of a sleep after this look nothing is promised: what is in
\* hand then is published as late as the host wakes up.
PublishedOnTime ==
    \A i \in DOMAIN sent :
        /\ sent[i].checked - sent[i].ts \in 0 .. MaxBehind
        /\ sent[i].label # NoLabel => sent[i].label.ts = sent[i].ts
        /\ \A j \in 1 .. i - 1 :
             /\ sent[j].ts <= sent[i].ts
             /\ sent[j].id[1] = sent[i].id[1] /\ sent[i].id[1] > 0 =>
                  /\ sent[j].id[2] < sent[i].id[2]
                  /\ sent[i].ts - sent[j].ts >= sent[i].planned - sent[j].planned
=============================================================================
