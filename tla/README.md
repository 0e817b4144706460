# TLA+ models of fraudgraph

fraudgraph scores transactions as they happen: a generator produces payments and transfers into
Kafka, a Kafka Streams engine decides each one (ALLOW, REVIEW, BLOCK), a case service stores a
case for every flagged decision and fans all decisions out to a dashboard, an analyst agent
investigates the cases, writes a report for each and answers questions about them, and a scorer
serves a model that is trained on the recorded decisions.

This directory holds TLA+ models of the parts of that system whose correctness depends on the
order in which things happen or on an algorithm that is hard to test, the TLC runs that check
them on small instances, and theorems about them with proofs that TLAPS checks for every
instance.

    tlc -workers 2 -config CaseStore.cfg MCCaseStore.tla     # one run; PROJECT.json lists them
    tlapm CaseStore_proofs.tla                               # the proofs of one component

`PROJECT.json` maps each definition to the lines of source it stands for, each property to the
mutated definition that breaks it, and each hazard to the properties that cover it.

## 1. Inventory

| Part | State | Operations | What is hard about it | What makes it correct |
|---|---|---|---|---|
| case store (`CaseService`, `CaseRepository`, Postgres) | tables `cases`, `case_events`, open transactions | recordFlagged, changeStatus, attachReport | transactions of listener, analyst and agent interleave at READ COMMITTED; check-then-update | one case per transaction, audit trail and table agree, a verdict is not overturned, reports are kept |
| decision consumer (`DecisionConsumer`) | position and committed offset | onDecision for each record | at-least-once, acknowledgement per batch, a failed store is skipped | every flagged decision below the committed offset has a case or a counted failure |
| agent hand-off (`AnalystAgentClient`) | bounded queue in memory, attempts | investigate, drain | time-outs after the request arrived, full queue, crash | every case is accounted for, bounded attempts |
| live feed (`FeedBroadcaster`) | queue, counter, history, recent ids, sessions | publish, flush, register, unregister | a listener, a scheduler and web threads share it with no common lock | bounded queue, no gap, flagged ticks kept |
| stream topology (`TopologyBuilder`, processors) | dedup and profile stores, transfer graph, open Kafka transaction | process, evict, commit, restart | exactly-once transactions with a graph outside them | one visible output per new transaction |
| decision policy and breaker (`ThresholdPolicy`, `RuleEngine`, `ResilientScoringClient`) | breaker, calls under way | process, answer, wait over | threads share the breaker; answers come late; missing scores | fails safe, blocks with cause, recovers |
| transfer graph (`TransactionGraph`, `CycleDetector`, `UnionFind`) | adjacency, arrivals, disjoint sets | addEdge, look, neighborhood | event time out of order, lazy expiry, caps, two clocks | rings and forwarding are found, and are real |
| velocity, geo, profile checks | window buckets, last location, running mean | process | late transactions; the store forgets by the newest bucket | counts are of the window, travel is from the newest place |
| investigation (`agent/graph.py`, `verify.py`) | per-case run | triage, investigate, similar_cases, draft, verify, finalize | nested loops driven by what a model answers | ends, keeps its budget, publishes only what evidence holds |
| agent server (`server.py`) | semaphore, thread pool | investigate, ask, sync | background runs share a pool with the blocking endpoints; all of it is in memory | an accepted case is investigated, or lost in a restart and nowhere else |
| ask, rate limiter, answer cache (`ask.py`, `ratelimit.py`) | windows, LRU | ask | the clock is read outside the lock; concurrent misses; what a model may reply | limits hold in real time, kept answers rest on evidence |
| memory and indexer | vector index | index, search | paging over a moving list | every closed case is indexed once |
| ml scorer (`Registry`, `ModelHolder`, `/reload`) | registry directory, loaded model | Score, reload, start | two processes share a directory without a lock; reload while scoring | a score comes from the model it names; a start finds the newest model it can serve |
| ml training, evaluation (`train.py`, `kafka_source.py`, `production_recall.py`) | files, two topics | train, measure | topics are written while they are read; commit markers; late events | fraud is not counted as legitimate, the test is later than the training |
| dashboard (`feedStore`, live and replay sources) | rows, counters, subscription | onBatch, onReset, start | reconnect, backfill overlapping frames | no row twice, no stale answer |
| generator (`runner.py`, `scenario.py`) | schedule, queue of planned events, producers' queues | run, play | the host sleeps in the middle of the loop | events on time and in order, labels tell the time of their transaction |
| web controllers, read API | none of their own | HTTP | – | – |
| deployment, showcase, protocol files | – | – | – | – |

How they interact. Kafka topic `transactions.raw` → stream engine → `fraud.decisions` (and
`transactions.dlq`) → case service → in one listener thread: Postgres (case), the hand-off queue
(agent), Redis (recent decisions), the feed. A scheduler thread drains the hand-off queue with
`POST /investigate` and another task flushes the feed. The agent answers 202, investigates in
the background with read calls to the case service and the stream engine, and `PUT`s its report
to the case service, where it meets the analyst's `PATCH`es on the same rows. The stream engine
calls the ml scorer by gRPC behind a circuit breaker. The generator also writes `fraud.labels`; training
and the recall report read decisions and labels, and a new version gets to the scorer through the
registry directory and `POST /reload`.

## 2. Modules

| Module | Models | Extends / instantiates | Run | Proofs |
|---|---|---|---|---|
| `CaseLifecycle` | abstract: what the cases promise | | | |
| `CaseStore` | the case tables and their transactions | implements `CaseLifecycle` | `CaseStore` | `CaseStore_proofs` |
| `AnalystAgentClient` | the hand-off queue | | (`AgentHandoff`) | `AnalystAgent_proofs` |
| `AgentServer` | the agent's process behind that queue | extends `AnalystAgentClient` | `AgentHandoff` | `AnalystAgent_proofs` |
| `CaseService` | consumer + store + hand-off + crash | instances of `CaseStore`, `AnalystAgentClient` | `CaseService` | `CaseService_proofs` |
| `FeedBroadcaster` | the live feed | | `FeedBroadcaster` | `FeedBroadcaster_proofs` |
| `ExactlyOnce` | abstract: what the engine promises | | | |
| `StreamEngine` | one task of the topology with its window and location stores | implements `ExactlyOnce` | `StreamEngine` | `StreamEngine_proofs` |
| `Scoring` | policy, hard rules, breaker | | `Scoring` | `Scoring_proofs` |
| `UnionFind`, `TransactionGraph` | transfer graph and graph check | | `TransactionGraph`, `RingMasked` | `TransactionGraph_proofs` |
| `Investigation` | one run of the agent's graph | | `Investigation` | `AnalystAgent_proofs` |
| `RateLimiter` | the sliding windows of the ask endpoint | | (`Ask`) | `AnalystAgent_proofs` |
| `Quantities` | numbers of a claim against numbers of the evidence | | (`Ask`) | `AnalystAgent_proofs` |
| `Ask` | the ask endpoint: cache, limiter, `ask_case` | extends `RateLimiter`, `Quantities` | `Ask` | `AnalystAgent_proofs` |
| `Training` | join, split, checks, thresholds (functions) | | (`ModelRegistry`) | `ModelTraining_proofs` |
| `ModelRegistry` | training, registry directory, start, reload, Score | extends `Training` | `ModelRegistry` | `ModelTraining_proofs` |
| `Generator` | runner, scenario, producers | | (`ProductionRecall`) | `ModelTraining_proofs` |
| `TopicReader` | a bounded read of a topic that grows | | (`ProductionRecall`) | `ModelTraining_proofs` |
| `ProductionRecall` | generator → topics → training and recall | extends `Generator`, `TopicReader` | `ProductionRecall` | `ModelTraining_proofs` |

A run in brackets is that of the composition the module is part of.
Definitions keep the source's names (`recordFlagged` is `RecordFlagged`, `makeRoom` the steps of
`MakeRoom`...). A comment *Mutant of X* marks an operator that is not part of the specification:
it is X with a plausible bug, and shows that the property that goes with it can fail.

### CaseStore

A *session* is a thread running one transaction. Each statement that reads or locks the database
is one action; what a transaction wrote appears in its commit action or vanishes in `Rollback`.
`InsertIfAbsent` is `INSERT ... ON CONFLICT DO NOTHING`: it waits while another transaction holds
an uncommitted row of the same `txn_id`. `CheckTransition` is the read and the check of
`changeStatus`, `UpdateStatus` its UPDATE (which waits for the row lock and, under READ
COMMITTED, sees the row that was committed meanwhile), `AttachReport` the single UPDATE whose CASE
expression reads the status under the lock. Postgres itself (locks, unique index) is external.
A case keeps status, transaction and whether it has a report; an audit row keeps its kind.
`CaseLifecycle` promises what that keeps with any number of analysts: a case is opened once, the agent's report moves
it in one step and never over a verdict, and an analyst's move comes in two, `Decide` while the case is open and
`Move` whenever her UPDATE comes. Two who decided while it was open both move it, so a closed case is not
terminal (section 3). The refinement maps `decided` to the PATCHes that are past their check.

### AnalystAgentClient

`investigate` offers to the bounded queue or counts a drop; `drain` is bound to the queue length
at its start and runs one POST at a time. A POST's fate is split in two steps, what happens to the
request (`Send`: lost or received) and what the caller sees (`Answered`, `Failed`), so a time-out after the
agent accepted is a behaviour. `Crash` loses queue and hand.

### AgentServer

Extends `AnalystAgentClient`: `Post` is the client's `Send`, by which the POST gets to the server. Its
endpoint is not `async`, so it is a task that needs a thread like every other: with the pool full it waits, and may be accepted
(202 and a background task) after the client has timed out and tried again. The k-th POST of a case is a task of its own, which takes
a thread of the pool (`TakeThread`), waits on that thread for the semaphore (`TakePermit`), runs
the graph (`Finish`: a report or a caught exception). The blocking endpoints take threads of the same pool
(`Call`). `Restart` loses every task; `Startup` may end without a model, and then every
request is refused with 503. What a run and a question do is in `Investigation` and `Ask`.

### RateLimiter, Quantities, Ask

`check` reads the clock (`ReadClock`) and then takes the lock (`Admit`, `Refuse`), so readings are
recorded out of order; `Kept` pops at the head only, as the code does, and `Pause` rounds to
whole seconds. `MaxStall` bounds how long a thread lies between its reading and the lock.
`Quantities` is the comparison of numbers in `verify.py`, in integers of a ten-thousandth: four
decimals, and two of a percentage, whose ratio (`value / 100.0`) is exact then, as its shortest
decimal form is in the code; `NumbersOf` walks a payload level by level, down to `MaxNesting`.
In `Ask` every access to the cache and to the limiter is a step; `ask_case` is one step, since it
touches nothing that is shared: `AskCase` is a function of what case service, tools and model
reply, and `Answers` the set of its results for all replies of the instance. A reply is a sequence of
pieces (prose, fence, JSON object), from which `ParsedObject` takes what `parse_json_object` takes;
evidence from the history tool goes through `HistoryView`,
which leaves out the live window counts. They can be asked for all the same: `get_window_counts` is a tool
that the model may name and that a report may have called, and an answer that quotes the counts of
the moment of asking is kept and cached like any other (`test_ask.py:62-76`). Requests for a question that is not cached yet
all go to the model: the code has no lock per question.

### Training, ModelRegistry

`Training` has the functions of `train.py` and `evaluate.py` that decide what is learned from and
what is reported: the stable sort by event time, the cut, `check_trainable`, the sweep and the suggested thresholds.
`ModelRegistry` has the two processes. A version's files are written one after the other, each
empty before it is full, and a training can be killed between any two writes; the scorer's start
tries versions from the newest on, one per step; a reload finds, reads and swaps in three steps;
a Score call captures the bundle and predicts later. A booster is the run that fitted it and the
columns it was fitted on, a score is the booster and the columns it was given. Builds differ in their
features, so a start can be an upgrade or a rollback.

### Generator, TopicReader, ProductionRecall

`Generator` is the loop of `runner.py` between its waits: `LoopHead` (with the jump of the
schedule), `Spawn`, `TakeQueued` and `TakeBase` (the last look at the clock), `SendTxn`, `SendLabel`, and `Resync`, the way back to the head when
the host slept while the loop waited. The clock ticks between any two of them: a host that sleeps, or a producer's queue that stays full, between
the look and the publication publishes later than `MAX_BEHIND_SECS`, which `PublishedOnTime` leaves out: it
is about the last look. The labels of a ring count its hops or, those of an older generator, do not (`CountsHops`). A scenario plays its events
next to it. `TopicReader` is `read_topic`; a commit marker is a record that is never delivered.
`ProductionRecall` puts both together with the brokers and an engine that decides everything: the decisions
are read first, then the labels, and joined as `train.py` and `production_recall.py` join them.

### CaseService

The listener's `onDecision` as a sequence of steps: decide and insert, offer to the agent *inside*
the transaction, commit, publish the tick, push to the recent list, acknowledge the batch. The
transaction's steps are the actions of the `CaseStore` instance, the queue's those of the
`AnalystAgentClient` instance. A crash ends listener, drain and open transactions together, and
delivery restarts at the committed offset; `AcknowledgeRefused` is a rebalance during the batch.
Reports return for cases the agent received. Three simplifications: the whole group is one partition; a `txnId`
that is not a UUID is one of the ways `StoreFails` happens; Spring's commit of the initial position
on assignment means that no record before it is ever skipped.

### FeedBroadcaster

Every access to the queue, its counter, the history and the session set is a step of its own: the
listener in `publish`/`makeRoom`, the scheduler in `flush`, web threads in `register`,
`unregister`. A tick is its transaction; a frame is a set.

### StreamEngine and ExactlyOnce

One partition, one task. A record is named by its offset; the dedup store and the profile are
sets of offsets; committed state, outputs and offset change in one action (`Commit`), the graph's
edges at once. `ThreadDies` aborts the Kafka transaction and restores the stores from the
changelog but keeps the graph, which is the JVM's; `EngineDies` loses that too. `Throw` is the same
death by a record that no stage gets through: it parses and has a `txnId` but no `userId`, for which
`EnrichProcessor` asks the profile store (line 43). Nothing between it and the thread catches that, the
replacement reads the record again, and no bound is put on how often. The stream time
of the punctuator is restored with the stores. An engine with no committed offset joins at the end of
the log (`auto.offset.reset=latest`). All stores are kept per user, so there is one user, who makes transfers only.
Of the three window stores, which differ in length, there is one: `WindowCount` sums the buckets
that the store still keeps (`Retention`, by the newest bucket of *any* record, as Kafka Streams
does), after the transaction has been written. `LastLocation` and `Impossible` are the geo check, with
places instead of coordinates and a travel time instead of a speed. The running mean and the severities
are left out; the graph's cap and TTL and the verdict are in `TransactionGraph` and `Scoring`. The case service reads the decisions topic
at Kafka's default isolation, `read_uncommitted`: the promise here is that of a committed reader.

### Scoring

`Process` decides at once, or takes a permit and calls the scorer (`CallScorer`); `Answer`
records the result in the state the breaker has *then*. Between the two anything happens on
the other threads. The breaker (Resilience4j) is external: ring of results, permits while half
open, judgement when the ring holds `min(minCalls, size)` results. Late answers counted in a
later round are a superset of what the deadline and waiting times of `application.yml` permit.
Scores and amounts are integers on either side of their thresholds. When building the decision
throws, the record goes to the DLQ; whether it does is left open. `enabled` is chosen at the start.

### TransactionGraph

The graph's methods are synchronized, so each call is an action; what threads and the read API do
to each other is time, so every call takes any time of `Times` (lagging partitions, the wall
clock). Cycle search follows the code's depth first order over the edges kept, the first cycle
wins. Union-find has ranks, sizes and path compression. `history` and `newest` are read by
properties only. Ratios are percents of integers.

### Investigation

The nodes and edges of `agent/graph.py`. The model may answer anything: any tool calls, any draft
or none; it may fail. Evidence is a failure or a set of numbers, a finding cites indices and
quotes numbers. How numbers are read out of prose and compared is equality here; wording, the
summary and the confidence are left out because `verify` does not look at them. `ToolRaises` is the
`ValueError` that `investigate` does not catch.

## 3. Runs

| Run | Instance | What it shows |
|---|---|---|
| `CaseStore` | 1 transaction, 2 ids, 2 listeners, 2 analysts, 1 agent call | `AuditMatchesCases`: audit trail and table agree. `ImplementsLifecycle`: the interleaved transactions are the atomic life cycle, in particular one case per transaction. `VerdictStands`: an agent's report never overturns a verdict. `PatchEnds` |
| `AgentHandoff` (`MCAgentServer`) | 2 cases, queue of 1, 2 attempts, pool of 2 threads, 1 place, 1 blocking call, 1 restart | `EveryCaseAccountedFor`, `EveryCaseSettled` (the client's promises, now against a real agent), `HandoffAgrees`: both sides agree on what was handed over and no place is lost. `AcceptedIsServed` |
| `CaseService` | flagged, allowed, unreadable record, log of 2, one setback | `CommittedRecordsHandled`, `TicksLinkTheirCase`, `FlaggedGetsCase` |
| `FeedBroadcaster` | 1 dashboard, 3 ticks, 4 publishes, queue of 2 | `QueueBounded`, `NoGap`, `QueuedFlaggedKept`, `TickLeavesQueue` |
| `StreamEngine` | 3 transactions in 2 places, 1 without a user + poison, log of 3, 3 instants, 1 death | `ImplementsExactlyOnce`, `StallsOnlyOnFatal`. `StateMatchesOutputs`: profile, graph, window counts and travel agree with the outputs before them, late records and crashes included |
| `Scoring` | 2 threads, 6 kinds of payment, 3 scores, ring of 4, 2 probes | `FailSafe`, `BlocksWithCause`, `HalfOpenCanFinish`, `BreakerRecovers` |
| `TransactionGraph` | 3 accounts, 4 transfers, 2 amounts, 2 times, cap 2 | `CycleIsReal`, `FreshRingFound`, `ComponentsExact`, `ChainDepthIsRight` |
| `RingMasked` | the same | **violation** of `RingRaisesSignal` |
| `Investigation` | 2 tool calls, 2 attempts, drafts of ≤ 2 findings | `BudgetKept`, `PublishedClaimsHold`, `PublishedHonestly`, `InvestigationEnds` |
| `Ask` | 3 requests, 2 clients, 2 questions, 1 answer kept | `RateHolds`: no stretch of real time sees more calls than a limit, however readings and lock interleave. `RetryAfterIsEnough`. `AnswersHold`: what is kept for others rests on evidence of its own answer |
| `ModelRegistry` | version 9 shipped, 10 trained, 2 builds, 2 starts, 2 reloads, 1 call, 1 kill | `ScoredByItsModel`, `StartsOnNewest`, `RegisteredHonestly` |
| `ProductionRecall` | a ring of 3 with or without counted hops and base traffic, a burst as scenario, 4 events, 2 partitions, 1 marker | `PublishedOnTime`, `ReadingComplete`, `FraudIsNotLegitimate`, `RingsAreWhole` |

`CaseStore`'s and `AgentHandoff`'s type invariants and the action properties `ReportKept` and
`AttemptsBounded` are proved and not checked again.

### Where the code does not keep what it says

* `RingRaisesSignal` (`CycleDetector.java:38`, run `RingMasked`): the search returns the first cycle it
  meets. A repayment between two of the accounts is a cycle of two, which raises no signal, and
  hides the ring of three that the same transfer closes.

Ten more came up while modelling. No run states them; where a definition is named, adding it to the cfg
shows the counterexample.

* "A closed case is terminal" (`CaseStatus.java:18`): `changeStatus` (`CaseService.java:83`) checks the
  status it read and then updates by id alone. Two PATCHes that both saw an open case both succeed, and
  the second moves the case the first closed. `CaseLifecycle` therefore has the decision and the move of an analyst as two steps.
* `InvestigatesExistingCases` (`CaseService.java:66`): the case is offered to the agent inside the
  transaction that creates it, so the drain can POST it before the commit, or although it is rolled
  back.
* `StreamNeverStalls` (`EnrichProcessor.java:43`): "anything that blows up here goes to
  transactions.dlq ... the stream never stalls" (`DecisionProcessor.java:28`) is kept for what blows up in that
  stage. A record without a `userId` blows up two stages earlier, in front of every thread that replaces
  the last one: put `StreamNeverStalls` into `StreamEngine.cfg`. `StallsOnlyOnFatal` says what is left.
* `FlaggedOutliveAllows` (`FeedBroadcaster.java:116`): `makeRoom` looks at the head only; with a
  flagged head a new flagged tick is dropped although ALLOW ticks wait behind it. Put two flagged ticks and
  one ALLOW into `FeedBroadcaster.cfg`.
* The feed counts what it drops, but not a frame whose send fails with anything but an I/O error
  (`FeedBroadcaster.java:164-166`): it is logged, the session stays open with a gap, and `flush` has counted the
  batch as sent (line 143). `NoGap` names these frames (`failed`) apart.
* `FraudIsNotLegitimate` with `Until = 4` (`production_recall.py:70`): a decision is placed in the
  window by its event time, a label by the instant it was produced, up to `MAX_BEHIND_SECS` later. At
  the end of an explicit window planted fraud loses its label and counts as a false alarm, where
  line 51 promises to "pin the window exactly".
* `production_recall.py:119-124`: recall by position is "over COMPLETE episodes only", which of a ring whose labels do not count its
  hops is told by age alone (lines 139-145): one that began before the window, three of whose
  hops are in it, counts, and its first hop in the window is measured as its first. (The comment there has "every hop" old
  enough, the code looks at the oldest.) `RingsAreWhole` is about labels that count; without that condition it fails, for instance with
  `CountsHops = {FALSE}`, `Accounts = {4}`, `BaseGaps = {4}`, `MaxEvents = 5`, `Since = 2`, `MaxClock = 4` and
  `MaxCommits = 0`.
* `train.py:141-142` reads the labels an hour earlier than the decisions, "so a label is never missed
  for a decision at its edge". If a partition of the decisions holds nothing stamped in the window
  yet, it is read from its end (`kafka_source.py:46`), and what the engine then decides late comes along,
  however old: a decision whose label is stamped before that hour is trained on as
  legitimate. (`production_recall.py:59` trims such decisions, training does not.) `known` in
  `Decide` therefore counts a label from `Since - Margin` on; without that conjunct
  `FraudIsNotLegitimate` fails.
* `ask.py:313-314` has a repeated question cost nothing; identical questions that are asked at the
  same time all miss the cache and all spend model calls.
* `ask.py:193-194` promises "never an exception"; JSON of an unexpected shape makes `parse_draft`
  raise, and the request ends as a 500 (`NoCase` in `Ask`).

A remark on `RegisteredHonestly`: the sweep rounds a precision to four decimals before it is compared with
98 % (`evaluate.py:32-37`), so the block threshold promises 97.995 %, which is what the property says and
what is proved.

### Bounds, and why they are enough

The bounds are constants named in each module's header (`Max...`). The protocols have no counting
beyond their own caps, so caps of 1–3 put every boundary (full queue, last attempt, last probe,
last tool call, a full list) next to every other event. Two transactions or records are what an
order or a duplicate needs; a third appears where a cap of two must overflow (three ticks; three requests
against a limit of one for a client and two for all). `CaseStore` has two analysts and two listeners on one transaction,
since cases of different transactions share neither a row nor a lock; `ImplementsLifecycle` and the other safety properties are proved for any number of all of them. `FeedBroadcaster` has
one dashboard, sessions not touching each other; `NothingMissed` is proved for any number.
`CaseService` has one flagged transaction in several copies because its properties are about one
record at a time. `TransactionGraph` uses three accounts, the smallest ring that signals, with
four transfers so that a repayment or a copy can come first, and with amounts 8 and 10 on either
side of the ratio band (80–102 %): 8 forwards 10, but 10 does not forward 8. `EdgeTtl` and
`PassWindow` are 0 with two times, so that a transfer is exactly as old as the limit or one past it.
Symmetry is used in the runs without liveness (`TransactionGraph`, `Ask`, `ModelRegistry`).
`AgentHandoff` has a pool of two threads and one place to run, so investigations that wait for the place can
fill the pool while a question needs a thread. `StreamEngine` has a window of one bucket of two instants
and a grace period of one, with records at 1, 2 and 4: one can be late by no more than the grace
period, by more, and by more than the store keeps. Two of its three transactions are alike, and
`CONSTRAINT FirstIsT1` leaves out logs that differ from another only in those two. `ModelRegistry` ships
version 9 and trains 10, because as names they sort the other way. `ProductionRecall` may publish four events within
five instants, may fall one instant behind, and reads from instant 3 on, so a ring can begin before
the window, its labels may lie in the margin before it or further back, be cut off by the end of what is published, and wait for a host that slept.

The run of `ProductionRecall` is a reduction (`MCProductionRecall`). The generator depends on nothing the
brokers or the reader do, and the brokers' steps need a producer's queue to be non-empty and nothing else of
it; so a step of theirs that comes before one of the generator's may as well come after it, and the
run lets the generator finish first. Its `VIEW` keeps of an instant only its place in the window, and forgets
parts of the state that no later step or property reads: the generator's once it has published,
the decisions topic once it is read. With about 1.2 million states it is the largest.

`CHECK_DEADLOCK FALSE` stands in runs whose environment is bounded (records, publishes, transfers): a
behaviour that has used them up stops, which the service does not.

### Fairness

| Run | Assumed | Why the code justifies it |
|---|---|---|
| `CaseStore` | WF of commits, SF of a PATCH's UPDATE | a thread inside a transaction goes on; Postgres queues waiters for a row lock in order |
| `AgentHandoff` | WF of the drain, of the startup, of *some* step of the pool's work, of *some* blocking call | `@Scheduled(fixedDelay = 1000)` on `drain`; the POST has connect and read time-outs; `_startup` returns; the pool serves what waits, the semaphore hands a free place to some waiter, and runs and questions end because HTTP and model calls time out. Nothing says which waiter is next |
| `CaseService` | WF of the listener | the Kafka container polls for ever; nothing is assumed of crashes, agent or drain |
| `FeedBroadcaster` | WF of the flush | `FeedScheduler`: a fixed delay between flushes |
| `StreamEngine` | WF of processing and of commit | dead threads are replaced, commit interval; deaths are bounded |
| `Scoring` | WF of each answer, of the scheduled move to half open, of *some* call | gRPC deadline; `automaticTransitionFromOpenToHalfOpen`; without traffic a half-open breaker has nothing to judge by, so traffic is an assumption about the environment |
| `Investigation` | WF of the next node | HTTP and model clients have time-outs |

`BreakerRecovers` is moreover conditional: *if* the scorer is healthy for good.

## 4. Proofs

All are for arbitrary constants under the `ASSUME`s of the module.

* `CaseStore_proofs`. The inductive invariant `IInv` is `TypeOK`, `TransactionsCoherent`,
  `OneCasePerTxn` and `AuditMatchesCases`. `TransactionsCoherent` is what makes it inductive: it
  says what an open transaction has established and still relies on (the row it inserts is nobody
  else's, the row it updates exists and is locked by it alone, the status a report computed is
  still right). The action properties follow from it by a lemma on who may change a row
  (`RowChanges`). `ReportNeverLost` is among them, and the refinement
  `StoreImplementsLifecycle`: every step is a step of `CaseLifecycle` or a stutter, with any number of analysts.
* `AnalystAgent_proofs`, the hand-off. `EveryCaseAccountedFor` is split into *placed*, *distinct* and *one
  end*; the strengthening ties the number of POSTs to the attempts of the entry in the queue or in
  hand. With the server behind the queue, `ServerImplementsClient` shows that every step of
  `AgentServer` is a step of `AnalystAgentClient` or a stutter, so what was proved of the queue
  carries over (`NoCaseDisappearsWithServer`). `HandoffAgrees` follows from that and three parts of
  its own: the types of the stages, that every POST received was accepted or refused in one place
  (`Accepted`), and that each place of the semaphore is free or held by one run (`Places`).
* `CaseService_proofs`. `ServiceInvariant` says what the listener, the rows and the agent know of
  each other between any two steps and crashes: what the listener has inserted for the record it
  is handling, whose report is under way, that case ids are not reused, that a transaction has one
  case, that records below the committed offset are handled, and that a tick names its case. The
  composition is shown to use its parts as they are specified: `ServiceImplementsClient` and
  `ServiceUsesStore`. For the second, a crash ends all open transactions at once, and the store
  rolls back one at a time: the lemma `AllRolledBack` says that the order makes no difference.
* `FeedBroadcaster_proofs`. `QueueBounded` is inductive with `Room`: what the listener learned of
  the queue's size is still true at its `add`, because only the scheduler can have changed it, and
  only downwards. `NoGap` needs `Joined`, the state of a session against the session set.
  A frame that fails with the session open is kept apart in `failed`: all else that is missing was dropped and counted.
* `AnalystAgent_proofs`, the investigation (about `RunSpec`). `Paced` bounds `steps` by what budget and attempts have been spent, per
  node; `Judged` ties the violations to the draft and evidence they were computed from, so that
  `finalize` removes the right findings.
* `Scoring_proofs`. `Probing`: in a half-open round the permits left, the results in the ring and
  the threads waiting are together at least the size of the round, and the ring is not yet
  judgeable. So with no permit left somebody is still waiting.
* `AnalystAgent_proofs`, the rate limiter, about `LimiterSpec` alone; `QuestionsAreLimited` has it for
  `AskSpec`, whose every step is one of `LimiterSpec` or changes nothing of it, a question going through `check` once. `RateHolds` speaks of calls let through and the code only of its
  deques, so the strengthening `LInv` ties them: `Present` says that what a window let through of
  late is still in its deque, because a pop by a reading at most `MaxStall` old takes nothing
  recent; `Full` that no deque outgrows its limit. Recent calls are then an injection into the
  places of the deque. `WaitingIsEnough` (`RetryAfterIsEnough`) needs `Full` too: a full deque has
  room as soon as one hit is gone, and `KeptLater` says that the pop for which the caller was told
  to wait takes at least one.
* `AnalystAgent_proofs`, questions (about `AskSpec`). *What `AskCase` computes*, for all replies: `DraftTyped` (of any
  text, sentences with a text and indices from 0 and names of tools are left), `FetchKeeps` (`Fetching`: the
  evidence that was there, the calls and the budget left add up, and no tool is called that has succeeded),
  `ExhibitFacts` (every piece of evidence is shaped as the code shapes it), `CitedIsNear` (each way
  `_matches` accepts a number is within the bounds of `Near`), `VerifiedHolds`; together
  `AskCaseRight`. *What the cache holds*: `AskInv`, every entry is such a result with at least one
  sentence, whatever lookups, expiries and evictions have left of it; a request past `new` has its client
  and question until it is answered. Hence `AnswersRestOnEvidence`.
* `StreamEngine_proofs`. `EngineInvariant`: at every moment the stores and the graph of the open
  transaction are a function of the outputs and the part of the log that has been read, the
  committed ones of the outputs and log committed; outputs come in ascending order of
  offset, and each was judged by exactly those before it. The bounds of a window need the sizes of
  its buckets. A commit is then `Promise!Consume`, a death that leaves no offset `Promise!Join`,
  and every other step a stutter (`EngineIsExactlyOnce`, the safety part of the refinement).
* `TransactionGraph_proofs`, the edges, in three layers. *What the operators do*: expiry drops a prefix that
  is stale and stops at a live edge; the search is a well-founded recursion (`SearchUnfolds`, by
  the length of the path), everything it reports is a path over edges it may follow
  (`SearchIsSound`), and it reports something if such a ring exists (`SearchIsComplete`); the
  window keeps exactly the arrivals inside it. *What the state is*: `GraphInvariant` relates
  adjacency and inbound to the history of all transfers. The edges of an account are its last
  transfers in the order of insertion, and a transfer that is missing was stale by the latest time
  any call has used, or pushed out by the cap; arrivals likewise. It is inductive because every
  call expires by a time not after that clock, whatever order the times come in. *What a check
  sees*: an edge that is followed is a usable transfer (`HopIsUsable`) and a fresh transfer is an
  edge that is there to follow (`FreshIsHop`), hence `CycleIsReal` and `FreshRingFound`;
  `ChainDepthIsRight` follows in the same way from the arrivals. The library proves no induction
  that these provers can use; both recursions are unfolded by the lemma `AllNumbers` (a set of
  numbers with 0 and all successors is everything), itself from the well-founded order of the
  numbers. `GraphInvariant` was first checked by TLC with three accounts and three transfers.
* `TransactionGraph_proofs`, the disjoint sets. `find` rewires what it passes and recurses on parents, so nothing
  about it follows from the shape of the parents alone. `DisjointSets` says that ranks grow from every
  account to its parent, that a root is its own parent, and that the size kept at a root is the number
  of accounts below it. Ranks make the parents a forest: what lies above an account is finite, and
  the recursions of `find` are unfolded because the walk to the root solves them (`RootUnfolds`,
  `FromTheRoots`). A find leaves every set as it was, compressed or not (`FindJoinsNone`); a union
  joins exactly two, under the root of the larger rank, and adds their sizes (`Unites`).
  `ComponentsInv` then relates the sets to the history of transfers without a recursion: two accounts are in one
  set exactly when no set of accounts that transfers never leave has one and not the other. It is
  inductive (`SetsFollowHistory`), and since the bounded walk of the reference definition
  reaches its end (`ComponentIsLeast`, by counting), the component sizes the checks read are right
  (`ComponentsAreRight`).

* `ModelTraining_proofs`, the registry. *What a training says*: `ByTimeSorts` and `FrameSorted` (the stable
  sort is a sort, whatever order the partitions were read in), `SplitByTime` (no test row is older than
  a row that was learned from), `SuggestsSoundly` (the block threshold is as precise on the test rows as
  it promises). *What the directory holds*: `DiskInv`, every version whose two files are whole is of
  its number and, unless shipped, honest, and a `meta.json` is there only after its `model.json`; it is
  inductive with `TrainerInv`, which says for each of the four writes what is on disk already and
  that the version was nobody's before. *What is served*: `ServingInv`, wherever the process holds a
  bundle (served, read by a reload, captured by a call) it was written whole and fits the build;
  `AnsweredInv` follows with `ColumnsByName`. `StartingInv` has the start: what it owes is among
  the versions it has not tried, and what it tried and refused was newer.
* `ModelTraining_proofs`, the generator. `GenInv` is `PublishedOnTime` with `QueueInv` (the hops of an
  episode are queued in order), `FloorInv` (nothing that is still to come lies before what was
  published, and a base arrival is waited for only when every episode due before it is queued) and
  `EpisodeInv` (what was published of an episode keeps its distance from what is queued of it).
  A jump of the schedule moves all three together, which is why they survive it. What is in hand between the look at the
  clock and the publication is part of each. `NothingIsLate` therefore bounds the lateness at the last look
  (`checked`), and says of order, labels and spacing that they hold however long the host sleeps anywhere.
* `ModelTraining_proofs`, from the producers to the reader. `PipeInv`: a transaction is at one place at most between
  its producer's queue and the topic (`OnceInv`, which needs `UsedInv`: what is still to be published is
  new), and a label says which hop of which episode it is (`TellInv`). `ReadInv`: the consumer is
  between its start and the end of the log, and past the noted end of each partition it no longer waits
  for (`PlaceInv`); what lies between came (`SeenInv`). That gives `NothingIsMissed`, commit markers
  included. `LabelInv` is why the order of the two readings matters: a label that was there when its
  transaction was decided was there when the labels were opened, so it lies below the end noted
  then (`KnownFraudCounts`). `WholeRing`: in a ring that is counted the hops seen are an injection into
  its places and as many as these, so first and closing hop are among them (`WholeRingsCount`, for labels that count their hops).
  `KnownFraudCounts` has the hypothesis `MaxClock < Until`, a window that ends after the last instant of
  the behaviour: that is what a reading without `--until` is, and with an earlier end the
  property is false (section 3).

Assumptions on constants made for the proofs, each as the code has it: `LimiterAssumption` says that
there are finitely many spans (two), `ServerAssumption` that a blocking call of a question is not
the run of a case, `ServiceAssumption` that records to store, allowed and unreadable ones are different records, and a poll returns at least one, `GraphAssumption` that
there are finitely many accounts and the bound on transfers is a number. `TrainingAssumption` wants at least one threshold to sweep and thresholds between 0 and 1,
`RegistryAssumption` decisions with a time and a probability and a directory with finitely many versions
numbered from 1, `GeneratorAssumption` rings of at least three accounts and positive gaps (the
runner draws exponential waits), `RecallAssumption` as many partitions for decisions and labels as for the transactions, `AskAssumption` that
limits are numbers, that a call without a result has no payload, that payloads hold numbers without a sign (which is how they are
read), and that a reply is any sequence of pieces. Some operators were written so that a proof can unfold them: the
search of `TransactionGraph` (one operator per step), `WithinWindow` (a recursive function), the update of a map in
`UnionFind` (`With`, since the provers see nothing in `@@`), and the filters and calls of `Ask` (`Only`, `Fetch`:
the provers see nothing in `SelectSeq` either).

Only model-checked: all liveness properties, and what needs ENABLED. Every safety invariant the runs check is
stated by a theorem. Where a property follows a recursion (`find`, the search for rings, the filters and
calls of a question), the recursion is unfolded for every input by an induction over sets of numbers (`AllNumbers`); what
`NumbersOf` finds in a payload is not, and need not be: verifier and property read the same numbers.

## 5. Not modelled

Numerics (XGBoost, SHAP, Welford, z-scores, distances on the sphere), the comparison of models, prompts and provider
adapters, evaluation scripts, rendering, deployment, the recorded showcase. Of the generator, who pays whom, where and how much.

Parts that matter but are still to come are in the plan below. Known abstractions that hide behaviour:

* case-service replicas share the store (several listeners in `CaseStore`), but the composition has one;
* `TransactionGraph`'s cap and the stream engine's crashes are not composed;
* the scheduler thread that drains the queue also flushes the feed, so a slow agent delays the feed,
  which neither module shows;
* the agent's similar-case memory and its indexer: best effort, and rebuilt from the cases;
* two trainings at once, which would take the same version number;
* records the producers give up on for good;
* a reading that stops at `max_rows` (`kafka_source.py:55`), which is off unless it is asked for;
* whether the runner's loop makes progress: a queued event more than `MAX_BEHIND_SECS` before the next base arrival
  sends it back to a head that sees no reason to jump. No liveness of the generator is claimed.

## 6. Plan

Done: the modules above. Next, in order:

1. **Indexer**: paging over a case list that moves while it is read (a count and a page are separate
   queries), on top of `CaseLifecycle`: a pass can miss a case at the edge of a page, the next pass
   catches up.
2. **Dashboard**: `feedStore` and `live.ts` composed with `FeedBroadcaster`, from publish to row;
   `useAsync` and stale answers.
3. **Read API**: window and profile queries by the wall clock against the stores of an open transaction.
