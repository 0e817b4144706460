---------------------------- MODULE CaseService ----------------------------
(***************************************************************************)
(* The case service as a whole, for one partition of fraud.decisions: the  *)
(* Kafka listener (DecisionConsumer.onDecision, acknowledged per batch),   *)
(* the case tables it writes (CaseStore), the hand-off to the analyst      *)
(* agent (AnalystAgentClient, filled inside the listener's transaction and *)
(* drained on the scheduler thread), the agent's reports coming back, and  *)
(* the crash that ends all threads at once.                                *)
(*                                                                         *)
(* The live feed is here only what the listener does to it: the set of     *)
(* transaction ids it has seen and the ticks it took (FeedBroadcaster      *)
(* models the rest).  Recent decisions are kept for one user.              *)
(***************************************************************************)
EXTENDS Naturals, Sequences

CONSTANTS
    Txns,        \* transactions with a flagged decision (REVIEW or BLOCK)
    Allowed,     \* transactions with an ALLOW decision
    Unreadable,  \* records that do not parse or lack a field
    CaseIds,
    Listener,    \* the one listener thread
    Caller,      \* the web thread serving the agent's PUT
    NoRow,
    Nobody,
    MaxQueued,
    MaxAttempts,
    MaxPoll,     \* spring.kafka.consumer.max-poll-records
    PerUser,     \* fraudgraph.recent.perUser
    MaxLog,      \* bound: records produced
    MaxSetbacks  \* bound: crashes of the JVM and refused acknowledgements

VARIABLES
    cases, events, issued, tx,                                \* CaseStore
    queue, left, hand, http, asked, posts, received,          \* AnalystAgentClient
    handedOff, gaveUp, dropped, lost,
    started,      \* cases with an AGENT_STARTED row in the audit trail
    log,          \* the records of the partition
    position,     \* records the listener is done with since it was assigned the partition
    batchEnd,     \* end of the polled batch
    committed,    \* the committed offset
    stage,        \* where the listener is
    caseId,       \* its local variable caseId: a set of at most one id
    storeFailed,  \* records counted in fraudgraph_decisions_rejected_total
    seen,         \* FeedBroadcaster.recentIds
    ticks,        \* the ticks the feed took in this life of the JVM
    recent,       \* the user's list in Redis, the last push first; a tick is its record's index
    finished,     \* per case the POSTs whose investigation the agent has finished
    setbacks

storeVars  == <<cases, events, issued, tx>>
clientVars == <<queue, left, hand, http, asked, posts, received, handedOff, gaveUp, dropped, lost>>
kafkaVars  == <<log, committed>>
feedVars   == <<seen, ticks, recent>>
listenerVars == <<position, batchEnd, stage, caseId, storeFailed>>
vars == <<storeVars, clientVars, kafkaVars, feedVars, listenerVars, started, finished, setbacks>>

Store  == INSTANCE CaseStore WITH Listeners <- {Listener}, Analysts <- {}, AgentCalls <- {Caller}
Client == INSTANCE AnalystAgentClient

ASSUME ServiceAssumption ==
    /\ Txns \cap Allowed = {} /\ Txns \cap Unreadable = {}
    /\ Listener # Caller
    /\ NoRow \notin Store!Row
    /\ MaxPoll \in Nat \ {0}

Records == Txns \cup Allowed \cup Unreadable
Tick    == [txn : Txns \cup Allowed, cases : SUBSET CaseIds]

Smaller(a, b) == IF a < b THEN a ELSE b
Current == log[position + 1]

-----------------------------------------------------------------------------
(* The listener *)

\* The stream engine appends a decision.  The service reads without isolation.level, so a
\* decision of an aborted transaction and its retry are two records here.
Produce(r) ==
    /\ Len(log) < MaxLog
    /\ log' = Append(log, r)
    /\ UNCHANGED <<storeVars, clientVars, feedVars, listenerVars, committed, started, finished, setbacks>>

Poll ==
    /\ stage = "poll"
    /\ position < Len(log)
    /\ batchEnd' = Smaller(position + MaxPoll, Len(log))
    /\ stage' = "decide"
    /\ UNCHANGED <<storeVars, clientVars, kafkaVars, feedVars, started, finished, setbacks,
                   position, caseId, storeFailed>>

EndRecord ==
    /\ position' = position + 1
    /\ stage' = IF position + 1 = batchEnd THEN "ack" ELSE "decide"
    /\ caseId' = {}

\* The record is counted and skipped.
SkipUnreadable ==
    /\ stage = "decide"
    /\ Current \in Unreadable
    /\ EndRecord
    /\ UNCHANGED <<storeVars, clientVars, kafkaVars, feedVars, started, finished, setbacks,
                   batchEnd, storeFailed>>

PassAllowed ==
    /\ stage = "decide"
    /\ Current \in Allowed
    /\ stage' = "publish"
    /\ UNCHANGED <<storeVars, clientVars, kafkaVars, feedVars, started, finished, setbacks,
                   position, batchEnd, caseId, storeFailed>>

\* recordFlagged up to insertIfAbsent, a row inserted.
InsertCase(c) ==
    /\ stage = "decide"
    /\ Current \in Txns
    /\ Store!InsertIfAbsent(Listener, Current, c)
    /\ stage' = "offer"
    /\ UNCHANGED <<clientVars, kafkaVars, feedVars, started, finished, setbacks,
                   position, batchEnd, caseId, storeFailed>>

\* recordFlagged, no row inserted: findIdByTxnId.
FindDuplicate ==
    /\ stage = "decide"
    /\ Current \in Txns
    /\ Store!CasesOf(Current) # {}
    /\ caseId' = Store!CasesOf(Current)
    /\ stage' = "publish"
    /\ UNCHANGED <<storeVars, clientVars, kafkaVars, feedVars, started, finished, setbacks,
                   position, batchEnd, storeFailed>>

\* recordFlagged: agent.investigate, inside the transaction.
OfferToAgent ==
    /\ stage = "offer"
    /\ Client!Investigate(tx[Listener].case)
    /\ stage' = "commit"
    /\ UNCHANGED <<storeVars, kafkaVars, feedVars, started, finished, setbacks,
                   position, batchEnd, caseId, storeFailed>>

\* The commit behind recordFlagged's return.
CommitCase ==
    /\ stage = "commit"
    /\ Store!CommitCreated(Listener)
    /\ caseId' = {tx[Listener].case}
    /\ stage' = "publish"
    /\ UNCHANGED <<clientVars, kafkaVars, feedVars, started, finished, setbacks,
                   position, batchEnd, storeFailed>>

\* Mutant of StoreFails: a failed insert leaves onDecision without being counted.
StoreFailsUncounted ==
    /\ stage \in {"decide", "offer", "commit"}
    /\ Current \in Txns
    /\ IF stage = "decide" THEN UNCHANGED storeVars ELSE Store!Rollback(Listener)
    /\ caseId' = {}
    /\ stage'  = "publish"
    /\ UNCHANGED <<clientVars, kafkaVars, feedVars, started, finished, setbacks, position, batchEnd,
                   storeFailed>>

\* Mutant of StoreFails: the transaction fails, the caller keeps the id it was given.
StoreFailsWithId ==
    /\ stage \in {"decide", "offer", "commit"}
    /\ Current \in Txns
    /\ IF stage = "decide" THEN UNCHANGED storeVars ELSE Store!Rollback(Listener)
    /\ storeFailed' = storeFailed \cup {position + 1}
    /\ caseId' = IF stage = "decide" THEN {} ELSE {tx[Listener].case}
    /\ stage'  = "publish"
    /\ UNCHANGED <<clientVars, kafkaVars, feedVars, started, finished, setbacks, position, batchEnd>>

\* The catch clauses of onDecision: a malformed txnId, or Postgres fails at any statement or
\* at the commit.  The record is counted and the listener goes on without a case.
StoreFails ==
    /\ stage \in {"decide", "offer", "commit"}
    /\ Current \in Txns
    /\ IF stage = "decide" THEN UNCHANGED storeVars ELSE Store!Rollback(Listener)
    /\ storeFailed' = storeFailed \cup {position + 1}
    /\ caseId' = {}
    /\ stage'  = "publish"
    /\ UNCHANGED <<clientVars, kafkaVars, feedVars, started, finished, setbacks, position, batchEnd>>

\* FeedBroadcaster.publish: a transaction seen before is dropped.
PublishTick ==
    /\ stage = "publish"
    /\ ticks' = IF Current \in seen THEN ticks ELSE Append(ticks, [txn |-> Current, cases |-> caseId])
    /\ seen'  = seen \cup {Current}
    /\ stage' = "remember"
    /\ UNCHANGED <<storeVars, clientVars, kafkaVars, recent, started, finished, setbacks,
                   position, batchEnd, caseId, storeFailed>>

\* RecentDecisionStore.record: LPUSH and LTRIM, or nothing when Redis fails.
RememberTick ==
    /\ stage = "remember"
    /\ \/ recent' = SubSeq(<<position + 1>> \o recent, 1, Smaller(PerUser, Len(recent) + 1))
       \/ UNCHANGED recent
    /\ EndRecord
    /\ UNCHANGED <<storeVars, clientVars, kafkaVars, seen, ticks, started, finished, setbacks,
                   batchEnd, storeFailed>>

\* ack-mode batch: the offset moves when every record of the batch has been through onDecision.
Acknowledge ==
    /\ stage = "ack"
    /\ committed' = position
    /\ stage' = "poll"
    /\ UNCHANGED <<storeVars, clientVars, log, feedVars, started, finished, setbacks,
                   position, batchEnd, caseId, storeFailed>>

\* The group has given the partition away while the batch was worked on: the commit is
\* refused, and once the partition comes back the batch is read again.
AcknowledgeRefused ==
    /\ stage = "ack"
    /\ setbacks < MaxSetbacks
    /\ setbacks' = setbacks + 1
    /\ position' = committed
    /\ batchEnd' = committed
    /\ stage' = "poll"
    /\ UNCHANGED <<storeVars, clientVars, kafkaVars, feedVars, started, finished,
                   caseId, storeFailed>>

-----------------------------------------------------------------------------
(* The scheduler thread and the agent *)

\* The agent takes a POST, in time or after the drain gave it up, before or after a crash here.
AgentAccepts(c, k) ==
    /\ Client!Accept(c, k)
    /\ UNCHANGED <<storeVars, kafkaVars, feedVars, listenerVars, started, finished, setbacks>>

\* AnalystAgentClient.drain up to the POST's answer, and its catch clause.
DrainStep ==
    /\ Client!StartDrain \/ Client!Poll \/ Client!Send \/ Client!Failed
    /\ UNCHANGED <<storeVars, kafkaVars, feedVars, listenerVars, started, finished, setbacks>>

\* The POST was answered: onHandoff is CaseService.recordAgentStarted, whose insert fails and
\* is swallowed when the foreign key finds no committed case.
HandedOff ==
    /\ Client!Answered
    /\ started' = IF Store!Exists(hand.case) THEN started \cup {hand.case} ELSE started
    /\ UNCHANGED <<storeVars, kafkaVars, feedVars, listenerVars, finished, setbacks>>

\* A run of the agent ends with PUT /internal/cases/{id}/report; it reads the case over HTTP
\* first but goes on without it.
ReportArrives(c) ==
    /\ \E k \in received[c] \ finished[c] : finished' = [finished EXCEPT ![c] = @ \cup {k}]
    /\ IF Store!Exists(c) THEN Store!AttachReport(Caller, c) ELSE UNCHANGED storeVars
    /\ UNCHANGED <<clientVars, kafkaVars, feedVars, listenerVars, started, setbacks>>

ReportCommits ==
    /\ Store!CommitReport(Caller) \/ Store!Rollback(Caller)
    /\ UNCHANGED <<clientVars, kafkaVars, feedVars, listenerVars, started, finished, setbacks>>

-----------------------------------------------------------------------------
\* The JVM ends and another takes over from the committed offset: open transactions are
\* rolled back; queue, feed and the batch in progress are gone.
Crash ==
    /\ setbacks < MaxSetbacks
    /\ setbacks' = setbacks + 1
    /\ tx' = [s \in Store!Sessions |-> Store!Idle]
    /\ Client!Crash
    /\ position' = committed
    /\ batchEnd' = committed
    /\ stage'  = "poll"
    /\ caseId' = {}
    /\ seen'   = {}
    /\ ticks'  = <<>>
    /\ UNCHANGED <<cases, events, issued, kafkaVars, recent, storeFailed, started, finished>>

Init ==
    /\ Store!Init
    /\ Client!Init
    /\ log = <<>> /\ position = 0 /\ batchEnd = 0 /\ committed = 0
    /\ stage = "poll" /\ caseId = {} /\ storeFailed = {}
    /\ seen = {} /\ ticks = <<>> /\ recent = <<>> /\ started = {}
    /\ finished = [c \in CaseIds |-> {}]
    /\ setbacks = 0

Listen ==
    \/ Poll \/ SkipUnreadable \/ PassAllowed
    \/ \E c \in CaseIds : InsertCase(c)
    \/ FindDuplicate \/ OfferToAgent \/ CommitCase \/ StoreFails
    \/ PublishTick \/ RememberTick \/ Acknowledge \/ AcknowledgeRefused

Next ==
    \/ \E r \in Records : Produce(r)
    \/ Listen
    \/ DrainStep \/ HandedOff
    \/ \E c \in CaseIds : ReportArrives(c) \/ \E k \in 1 .. MaxAttempts : AgentAccepts(c, k)
    \/ ReportCommits
    \/ Crash

Spec == Init /\ [][Next]_vars

\* The listener thread keeps polling and a record it has begun is finished.
FairSpec == Spec /\ WF_vars(Listen)

-----------------------------------------------------------------------------
(* Properties *)

\* At-least-once: a flagged decision the service will not read again has a case, or its
\* failure was counted, whatever crashed in between (DecisionConsumer, ack-mode batch).
CommittedRecordsHandled ==
    \A i \in 1 .. committed :
        log[i] \in Txns => Store!CasesOf(log[i]) # {} \/ i \in storeFailed

\* A row on the dashboard links to the case of its own transaction, and a flagged row without
\* a link is one whose store failed (DecisionConsumer: the tick is built after the commit).
\* Redelivery does not show a decision twice (FeedBroadcaster.recentIds).
TicksLinkTheirCase ==
    /\ \A j, k \in 1 .. Len(ticks) : ticks[j].txn = ticks[k].txn => j = k
    /\ \A k \in 1 .. Len(ticks) :
         /\ ticks[k].cases \subseteq Store!CasesOf(ticks[k].txn)
         /\ ticks[k].txn \in Txns /\ ticks[k].cases = {} =>
              \E i \in storeFailed : log[i] = ticks[k].txn

\* Every flagged decision gets its case, or a counted failure, in the end.
FlaggedGetsCase ==
    \A i \in 1 .. MaxLog :
        (i <= Len(log) /\ log[i] \in Txns) ~>
            (i <= Len(log) /\ (Store!CasesOf(log[i]) # {} \/ i \in storeFailed))

\* The agent investigates only cases that exist (README: "it runs after a case exists").
\* It does not hold, so no run states it: the hand-off is queued before the commit.
InvestigatesExistingCases == \A c \in CaseIds : received[c] # {} => Store!Exists(c)
=============================================================================
