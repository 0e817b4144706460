----------------------------- MODULE CaseStore -----------------------------
(***************************************************************************)
(* The case tables of the case service and the three @Transactional        *)
(* methods of CaseService that write them, over Postgres at READ COMMITTED *)
(* (no isolation level is set anywhere in the service).                    *)
(*                                                                         *)
(* A session is a thread that runs one transaction at a time: a Kafka      *)
(* listener thread (recordFlagged), a web thread serving PATCH             *)
(* /cases/{id}/status (changeStatus), or one serving the analyst agent's   *)
(* PUT /internal/cases/{id}/report (attachReport).  Each statement that    *)
(* reads or locks the database is a step of its own; what a transaction    *)
(* wrote becomes visible in its commit step or disappears in its rollback. *)
(*                                                                         *)
(* Abstractions: a case keeps the columns the methods branch on or that a  *)
(* report changes; an audit row keeps its kind and, for STATUS_CHANGED,    *)
(* the new status.  The audit table is a set: its order is not used.       *)
(***************************************************************************)
CONSTANTS
    Txns,        \* transaction ids of the flagged decisions
    CaseIds,     \* the UUIDs gen_random_uuid() can still produce (bounds the inserts)
    Listeners,   \* Kafka listener threads, over all instances of the service
    Analysts,    \* web threads serving PATCH requests
    AgentCalls,  \* web threads serving the agent's PUT requests
    NoRow        \* stands for an id without a row in table cases

Sessions == Listeners \cup Analysts \cup AgentCalls

Closed == {"CLOSED_FRAUD", "CLOSED_FP"}
Status == {"OPEN", "INVESTIGATING", "REPORTED"} \cup Closed

\* CaseStatus.canMoveTo
CanMoveTo(from, to) == to # from /\ from \notin Closed

\* Mutant of AfterReport: the report always moves the case.
AlwaysReported(status) == "REPORTED"

\* The status an attached report leaves behind.
AfterReport(status) == IF status \in {"OPEN", "INVESTIGATING"} THEN "REPORTED" ELSE status

Row   == [txn : Txns, status : Status, report : BOOLEAN]
Event ==      [type : {"CREATED", "REPORT_ATTACHED"}, case : CaseIds]
         \cup [type : {"STATUS_CHANGED"}, case : CaseIds, to : Status]

Idle    == [op |-> "idle"]
TxState ==      {Idle}
           \cup [op : {"insert"}, case : CaseIds, txn : Txns]
           \cup [op : {"checked", "status"}, case : CaseIds, seen : Status, next : Status]
           \cup [op : {"report"}, case : CaseIds, next : Status]

ASSUME StoreAssumption ==
    /\ NoRow \notin Row
    /\ Listeners \cap Analysts = {}
    /\ Listeners \cap AgentCalls = {}
    /\ Analysts \cap AgentCalls = {}

VARIABLES
    cases,   \* table cases as committed: a row or NoRow for every id
    events,  \* table case_events as committed
    issued,  \* the ids generated so far, those of rolled-back inserts included
    tx       \* what each session's open transaction has done

vars == <<cases, events, issued, tx>>

Exists(c)    == cases[c] # NoRow
CasesOf(t)   == {c \in CaseIds : Exists(c) /\ cases[c].txn = t}
Created(c)   == [type |-> "CREATED", case |-> c]
Attached(c)  == [type |-> "REPORT_ATTACHED", case |-> c]
Changed(c, to) == [type |-> "STATUS_CHANGED", case |-> c, to |-> to]

\* An UPDATE keeps the row locked until its transaction ends.
HoldsRow(s) == tx[s].op \in {"status", "report"}

Locked(c) == \E s \in Sessions : HoldsRow(s) /\ tx[s].case = c

Inserters(t) == {s \in Sessions : tx[s].op = "insert" /\ tx[s].txn = t}

\* Mutant of Inserting: the duplicate test sees committed rows only.
InsertingUnseen(t) == FALSE

\* An INSERT that meets an uncommitted row of the same txn_id waits for that transaction.
Inserting(t) == Inserters(t) # {}

\* UPDATE cases SET status = ?: one column of the row.
WithStatus(row, next) == [txn |-> row.txn, status |-> next, report |-> row.report]

\* UPDATE cases SET report_doc = ?, status = CASE ...
WithReport(row, next) == [txn |-> row.txn, status |-> next, report |-> TRUE]

Begin(s, state) == tx[s] = Idle /\ tx' = [tx EXCEPT ![s] = state]
End(s)          == tx' = [tx EXCEPT ![s] = Idle]

-----------------------------------------------------------------------------
(* CaseService.recordFlagged *)

\* INSERT ... ON CONFLICT (txn_id) DO NOTHING RETURNING case_id, a row returned.
InsertIfAbsent(l, t, c) ==
    /\ ~Inserting(t)
    /\ CasesOf(t) = {}
    /\ c \notin issued
    /\ issued' = issued \cup {c}
    /\ Begin(l, [op |-> "insert", case |-> c, txn |-> t])
    /\ UNCHANGED <<cases, events>>

\* The commit after appendEvent(CREATED) and agent.investigate.
CommitCreated(l) ==
    /\ tx[l].op = "insert"
    /\ LET c == tx[l].case IN
         /\ cases'  = [cases EXCEPT ![c] =
                         [txn |-> tx[l].txn, status |-> "OPEN", report |-> FALSE]]
         /\ events' = events \cup {Created(c)}
    /\ End(l)
    /\ UNCHANGED issued

-----------------------------------------------------------------------------
(* CaseService.changeStatus *)

\* findById finds no row (404) or canMoveTo refuses the move (409): nothing is written.
RefuseTransition(a, c) ==
    /\ tx[a] = Idle
    /\ Exists(c) => cases[c].status \in Closed
    /\ UNCHANGED vars

\* findById and canMoveTo, the move being allowed.
CheckTransition(a, c, next) ==
    /\ Exists(c)
    /\ CanMoveTo(cases[c].status, next)
    /\ Begin(a, [op |-> "checked", case |-> c, seen |-> cases[c].status, next |-> next])
    /\ UNCHANGED <<cases, events, issued>>

\* appendEvent and UPDATE cases SET status = ? WHERE case_id = ?: waits for the row, does
\* not look at the status again.
UpdateStatus(a) ==
    /\ tx[a].op = "checked"
    /\ ~Locked(tx[a].case)
    /\ tx' = [tx EXCEPT ![a] = [op   |-> "status", case |-> tx[a].case,
                                seen |-> tx[a].seen, next |-> tx[a].next]]
    /\ UNCHANGED <<cases, events, issued>>

CommitStatus(a) ==
    /\ tx[a].op = "status"
    /\ LET c == tx[a].case IN
         /\ cases'  = [cases EXCEPT ![c] = WithStatus(cases[c], tx[a].next)]
         /\ events' = events \cup {Changed(c, tx[a].next)}
    /\ End(a)
    /\ UNCHANGED issued

-----------------------------------------------------------------------------
(* CaseService.attachReport *)

\* UPDATE cases SET report_doc = ?, status = CASE WHEN status IN (...): the row is read
\* under the lock the statement takes.  No row (404) writes nothing.
AttachReport(g, c) ==
    /\ Exists(c)
    /\ ~Locked(c)
    /\ Begin(g, [op |-> "report", case |-> c, next |-> AfterReport(cases[c].status)])
    /\ UNCHANGED <<cases, events, issued>>

\* Mutant of CommitReport: the connection goes back to the pool with its lock.
CommitReportKeepsLock(g) ==
    /\ tx[g].op = "report"
    /\ cases'  = [cases EXCEPT ![tx[g].case].report = TRUE]
    /\ events' = events \cup {Attached(tx[g].case)}
    /\ UNCHANGED <<issued, tx>>

\* Mutant of CommitReport: only a report that moves the case is put on record.
CommitReportUnaudited(g) ==
    /\ tx[g].op = "report"
    /\ LET c == tx[g].case IN
         /\ cases'  = [cases EXCEPT ![c] = WithReport(cases[c], tx[g].next)]
         /\ events' = IF cases[c].status = tx[g].next THEN events ELSE events \cup {Attached(c)}
    /\ End(g)
    /\ UNCHANGED issued

\* The commit after appendEvent(REPORT_ATTACHED).
CommitReport(g) ==
    /\ tx[g].op = "report"
    /\ LET c == tx[g].case IN
         /\ cases'  = [cases EXCEPT ![c] = WithReport(cases[c], tx[g].next)]
         /\ events' = events \cup {Attached(c)}
    /\ End(g)
    /\ UNCHANGED issued

-----------------------------------------------------------------------------
\* An exception, a lost connection or the end of the JVM: nothing the transaction wrote
\* remains, except the id it drew.
Rollback(s) ==
    /\ tx[s] # Idle
    /\ End(s)
    /\ UNCHANGED <<cases, events, issued>>

Init ==
    /\ cases  = [c \in CaseIds |-> NoRow]
    /\ events = {}
    /\ issued = {}
    /\ tx     = [s \in Sessions |-> Idle]

RecordFlagged(l) ==
    \/ \E t \in Txns, c \in CaseIds : InsertIfAbsent(l, t, c)
    \/ CommitCreated(l)

ChangeStatus(a) ==
    \/ \E c \in CaseIds : RefuseTransition(a, c)
    \/ \E c \in CaseIds, next \in Status : CheckTransition(a, c, next)
    \/ UpdateStatus(a)
    \/ CommitStatus(a)

StoreReport(g) ==
    \/ \E c \in CaseIds : AttachReport(g, c)
    \/ CommitReport(g)

Next ==
    \/ \E l \in Listeners  : RecordFlagged(l)
    \/ \E a \in Analysts   : ChangeStatus(a)
    \/ \E g \in AgentCalls : StoreReport(g)
    \/ \E s \in Sessions   : Rollback(s)

Spec == Init /\ [][Next]_vars

\* A thread inside a transaction goes on with it, and Postgres grants a row lock to its
\* waiters in turn, so a waiter is not overtaken for ever (strong fairness of UpdateStatus).
\* Nobody has to send a request, and nothing has to fail.
FairSpec ==
    /\ Spec
    /\ \A l \in Listeners  : WF_vars(CommitCreated(l))
    /\ \A a \in Analysts   : SF_vars(UpdateStatus(a)) /\ WF_vars(CommitStatus(a))
    /\ \A g \in AgentCalls : WF_vars(CommitReport(g))

-----------------------------------------------------------------------------
(* Properties *)

\* Every variable keeps its type.
TypeOK ==
    /\ cases \in [CaseIds -> Row \cup {NoRow}]
    /\ events \in SUBSET Event
    /\ issued \in SUBSET CaseIds
    /\ tx \in [Sessions -> TxState]

\* However often a decision is redelivered and however many listeners hold a copy of it,
\* its transaction has at most one case, and no second one is about to be committed
\* (CaseRepository.insertIfAbsent, UNIQUE (txn_id)).
OneCasePerTxn ==
    \A t \in Txns :
        /\ \A c, d \in CasesOf(t) : c = d
        /\ \A s \in Inserters(t) : CasesOf(t) = {} /\ \A r \in Inserters(t) : r = s

\* The audit trail tells no less and no more than the table: a case has its CREATED row, a
\* report its REPORT_ATTACHED row and a status its cause, and no audit row outlives a
\* transaction that was rolled back (CaseService: one transaction around each pair of writes).
AuditMatchesCases ==
    /\ \A e \in events : Exists(e.case)
    /\ \A c \in CaseIds : Exists(c) =>
         /\ Created(c) \in events
         /\ cases[c].report <=> Attached(c) \in events
         /\ \/ cases[c].status = "OPEN"
            \/ cases[c].status = "REPORTED" /\ Attached(c) \in events
            \/ Changed(c, cases[c].status) \in events

\* What an open transaction relies on stays true until it ends: the row an INSERT holds back
\* is still nobody else's, the case a PATCH checked still exists, and the status a report is
\* about to leave is the one its row calls for, because nobody else holds that row.
TransactionsCoherent ==
    /\ \A c \in CaseIds : Exists(c) => c \in issued
    /\ \A s \in Sessions :
         /\ tx[s].op = "insert" =>
              /\ s \in Listeners
              /\ tx[s].case \in issued
              /\ ~Exists(tx[s].case)
              /\ \A r \in Sessions :
                   (tx[r].op = "insert" /\ tx[r].case = tx[s].case) => r = s
         /\ tx[s].op \in {"checked", "status"} =>
              /\ s \in Analysts
              /\ Exists(tx[s].case)
              /\ CanMoveTo(tx[s].seen, tx[s].next)
         /\ tx[s].op = "report" =>
              /\ s \in AgentCalls
              /\ Exists(tx[s].case)
              /\ tx[s].next = AfterReport(cases[tx[s].case].status)
         /\ \A r \in Sessions : HoldsRow(s) /\ HoldsRow(r) /\ tx[r].case = tx[s].case => r = s

\* Only a PATCH that had found the case still open can overwrite the verdict of a closed
\* one: an agent's report never does, whatever it waited for (CaseRepository.attachReport:
\* "if a human already closed the case, the report still attaches but their verdict stands").
VerdictStands ==
    [][\A c \in CaseIds :
         (Exists(c) /\ cases[c].status \in Closed /\ cases'[c].status # cases[c].status)
           => \E a \in Analysts : /\ tx[a].op = "status"
                                  /\ tx[a].case = c
                                  /\ tx[a].seen \notin Closed
                                  /\ tx'[a] = Idle]_vars

\* A PATCH that read the row before the report was attached and commits after it does not
\* take the report away: the case keeps its report and its transaction for ever.
ReportKept ==
    [][\A c \in CaseIds :
         Exists(c) => /\ cases'[c] # NoRow
                      /\ cases'[c].txn = cases[c].txn
                      /\ cases[c].report => cases'[c].report]_vars

\* What a reader of the case table sees of each transaction, and what an analyst has decided on and
\* not written yet, without ids, locks or other threads.
CaseOf(t) == CHOOSE c \in CasesOf(t) : TRUE

StatusOf(t) == IF CasesOf(t) = {} THEN "NONE" ELSE cases[CaseOf(t)].status

ReportedOf(t) == \E c \in CasesOf(t) : cases[c].report

DecisionOf(a) == IF tx[a].op \in {"checked", "status"} THEN <<cases[tx[a].case].txn, tx[a].next>> ELSE <<>>

Lifecycle == INSTANCE CaseLifecycle WITH
    status   <- [t \in Txns |-> StatusOf(t)],
    reported <- [t \in Txns |-> ReportedOf(t)],
    decided  <- [a \in Analysts |-> DecisionOf(a)]

\* However listeners, analysts and agent interleave, their transactions are the life cycle of
\* CaseLifecycle: one case per transaction, a report that moves it in one step, a verdict that only
\* an analyst changes who decided while the case was open.
ImplementsLifecycle == Lifecycle!Spec

\* A PATCH that passed its check is answered: it cannot wait for the row for ever.
PatchEnds ==
    \A a \in Analysts : (tx[a].op = "checked") ~> (tx[a] = Idle)
=============================================================================
