-------------------------- MODULE CaseStore_proofs --------------------------
(***************************************************************************)
(* Theorems about CaseStore for every set of transactions, ids, listeners, *)
(* analysts and agent calls.  The inductive invariant is type correctness, *)
(* what open transactions rely on, uniqueness and the audit relation.      *)
(***************************************************************************)
EXTENDS CaseStore, TLAPS

IInv ==
    /\ TypeOK
    /\ TransactionsCoherent
    /\ OneCasePerTxn
    /\ AuditMatchesCases

-----------------------------------------------------------------------------
\* Sessions of different kinds are different threads, and the idle record is no open one.
LEMMA SessionFacts ==
    /\ Listeners \subseteq Sessions
    /\ Analysts \subseteq Sessions
    /\ AgentCalls \subseteq Sessions
    /\ Idle \in TxState
    /\ Idle.op = "idle"
BY DEF Sessions, Idle, TxState

\* The status a report leaves is a status.
LEMMA AfterReportType == ASSUME NEW s \in Status PROVE AfterReport(s) \in Status
BY DEF AfterReport, Status, Closed

LEMMA InitInv == Init => IInv
<1> SUFFICES ASSUME Init PROVE IInv
    OBVIOUS
<1>1. TypeOK
    BY SessionFacts DEF Init, TypeOK
<1>2. \A c \in CaseIds : ~Exists(c)
    BY DEF Init, Exists
<1>3. \A s \in Sessions : tx[s].op = "idle"
    BY SessionFacts DEF Init
<1>4. TransactionsCoherent
    BY <1>2, <1>3 DEF TransactionsCoherent, HoldsRow
<1>5. OneCasePerTxn
    BY <1>2, <1>3 DEF OneCasePerTxn, CasesOf, Inserters
<1>6. AuditMatchesCases
    BY <1>2 DEF AuditMatchesCases, Init
<1> QED BY <1>1, <1>4, <1>5, <1>6 DEF IInv
-----------------------------------------------------------------------------
\* Each step keeps the types.  A commit needs the row its transaction found to exist still.
LEMMA TypeStep == TypeOK /\ TransactionsCoherent /\ [Next]_vars => TypeOK'
<1> SUFFICES ASSUME TypeOK, TransactionsCoherent, [Next]_vars PROVE TypeOK'
    OBVIOUS
<1> USE SessionFacts DEF TypeOK, Begin, End
<1>1. ASSUME NEW l \in Listeners, NEW t \in Txns, NEW c \in CaseIds, InsertIfAbsent(l, t, c)
      PROVE  TypeOK'
    <2>1. [op |-> "insert", case |-> c, txn |-> t] \in TxState
        BY DEF TxState
    <2> QED BY <1>1, <2>1 DEF InsertIfAbsent
<1>2. ASSUME NEW l \in Listeners, CommitCreated(l)
      PROVE  TypeOK'
    <2>1. tx[l].case \in CaseIds /\ tx[l].txn \in Txns
        BY <1>2 DEF CommitCreated, TxState, Idle
    <2>2. [txn |-> tx[l].txn, status |-> "OPEN", report |-> FALSE] \in Row
        BY <2>1 DEF Row, Status
    <2>3. Created(tx[l].case) \in Event
        BY <2>1 DEF Created, Event
    <2> QED BY <1>2, <2>1, <2>2, <2>3 DEF CommitCreated
<1>3. ASSUME NEW a \in Analysts, NEW c \in CaseIds, NEW next \in Status, CheckTransition(a, c, next)
      PROVE  TypeOK'
    <2>1. cases[c].status \in Status
        BY <1>3 DEF CheckTransition, Exists, Row
    <2>2. [op |-> "checked", case |-> c, seen |-> cases[c].status, next |-> next] \in TxState
        BY <2>1 DEF TxState
    <2> QED BY <1>3, <2>2 DEF CheckTransition
<1>4. ASSUME NEW a \in Analysts, UpdateStatus(a)
      PROVE  TypeOK'
    <2>1. tx[a].case \in CaseIds /\ tx[a].seen \in Status /\ tx[a].next \in Status
        BY <1>4 DEF UpdateStatus, TxState, Idle
    <2>2. [op |-> "status", case |-> tx[a].case, seen |-> tx[a].seen, next |-> tx[a].next] \in TxState
        BY <2>1 DEF TxState
    <2> QED BY <1>4, <2>2 DEF UpdateStatus
<1>5. ASSUME NEW a \in Analysts, CommitStatus(a)
      PROVE  TypeOK'
    <2>1. tx[a].case \in CaseIds /\ tx[a].next \in Status
        BY <1>5 DEF CommitStatus, TxState, Idle
    <2>2. Changed(tx[a].case, tx[a].next) \in Event
        BY <2>1 DEF Changed, Event
    <2>3. cases[tx[a].case] \in Row
        BY <1>5, <2>1 DEF CommitStatus, TransactionsCoherent, Exists
    <2>4. WithStatus(cases[tx[a].case], tx[a].next) \in Row
        BY <2>1, <2>3 DEF WithStatus, Row
    <2> QED BY <1>5, <2>1, <2>2, <2>4 DEF CommitStatus
<1>6. ASSUME NEW g \in AgentCalls, NEW c \in CaseIds, AttachReport(g, c)
      PROVE  TypeOK'
    <2>1. cases[c].status \in Status
        BY <1>6 DEF AttachReport, Exists, Row
    <2>2. [op |-> "report", case |-> c, next |-> AfterReport(cases[c].status)] \in TxState
        BY <2>1, AfterReportType DEF TxState
    <2> QED BY <1>6, <2>2 DEF AttachReport
<1>7. ASSUME NEW g \in AgentCalls, CommitReport(g)
      PROVE  TypeOK'
    <2>1. tx[g].case \in CaseIds /\ tx[g].next \in Status
        BY <1>7 DEF CommitReport, TxState, Idle
    <2>2. Attached(tx[g].case) \in Event
        BY <2>1 DEF Attached, Event
    <2>3. cases[tx[g].case] \in Row
        BY <1>7, <2>1 DEF CommitReport, TransactionsCoherent, Exists
    <2>4. WithReport(cases[tx[g].case], tx[g].next) \in Row
        BY <2>1, <2>3 DEF WithReport, Row
    <2> QED BY <1>7, <2>1, <2>2, <2>4 DEF CommitReport
<1>8. ASSUME NEW s \in Sessions, Rollback(s)
      PROVE  TypeOK'
    BY <1>8 DEF Rollback
<1>9. CASE UNCHANGED vars
    BY <1>9 DEF vars
<1> QED
    BY <1>1, <1>2, <1>3, <1>4, <1>5, <1>6, <1>7, <1>8, <1>9
    DEF Next, RecordFlagged, ChangeStatus, StoreReport, RefuseTransition
-----------------------------------------------------------------------------
\* The row every open transaction works on, for the steps that follow.
LEMMA OpenTransactions ==
    ASSUME TypeOK, TransactionsCoherent, NEW s \in Sessions
    PROVE  /\ tx[s].op \in {"idle", "insert", "checked", "status", "report"}
           /\ tx[s].op = "idle" <=> tx[s] = Idle
           /\ tx[s].op # "idle" => tx[s].case \in CaseIds
           /\ tx[s].op = "insert" => tx[s].txn \in Txns
           /\ tx[s].op \in {"checked", "status"} =>
                /\ tx[s].seen \in Status
                /\ tx[s].next \in Status
           /\ tx[s].op = "report" => tx[s].next \in Status
           /\ tx[s].op \in {"checked", "status", "report"} => cases[tx[s].case] \in Row
<1>1. tx[s] \in TxState
    BY DEF TypeOK
<1> QED BY <1>1 DEF TxState, Idle, TransactionsCoherent, Exists, TypeOK

\* Each step keeps what the open transactions rely on.
LEMMA CoherentStep == TypeOK /\ TransactionsCoherent /\ [Next]_vars => TransactionsCoherent'
<1> SUFFICES ASSUME TypeOK, TransactionsCoherent, [Next]_vars PROVE TransactionsCoherent'
    OBVIOUS
<1> USE SessionFacts, OpenTransactions DEF TypeOK, TransactionsCoherent, Begin, End, Exists, HoldsRow, Idle
<1>1. ASSUME NEW l \in Listeners, NEW t \in Txns, NEW c \in CaseIds, InsertIfAbsent(l, t, c)
      PROVE  TransactionsCoherent'
    BY <1>1 DEF InsertIfAbsent
<1>2. ASSUME NEW l \in Listeners, CommitCreated(l)
      PROVE  TransactionsCoherent'
    BY <1>2, StoreAssumption DEF CommitCreated, Row, Status
<1>3. ASSUME NEW a \in Analysts, NEW c \in CaseIds, NEW next \in Status, CheckTransition(a, c, next)
      PROVE  TransactionsCoherent'
    BY <1>3 DEF CheckTransition
<1>4. ASSUME NEW a \in Analysts, UpdateStatus(a)
      PROVE  TransactionsCoherent'
    BY <1>4 DEF UpdateStatus, Locked
<1>5. ASSUME NEW a \in Analysts, CommitStatus(a)
      PROVE  TransactionsCoherent'
    <2> DEFINE c == tx[a].case
    <2>1. c \in CaseIds /\ Exists(c) /\ cases[c] \in Row /\ tx[a].next \in Status
        BY <1>5 DEF CommitStatus
    <2>2. WithStatus(cases[c], tx[a].next) # NoRow
        <3>1. WithStatus(cases[c], tx[a].next) \in Row
            BY <2>1 DEF WithStatus, Row
        <3> QED BY <3>1, StoreAssumption
    <2>3. \A d \in CaseIds : Exists(d)' <=> Exists(d)
        BY <1>5, <2>1, <2>2 DEF CommitStatus
    <2>4. \A d \in CaseIds : d # c => cases'[d] = cases[d]
        BY <1>5 DEF CommitStatus
    <2>5. \A s \in Sessions : tx[s].op = "report" => tx[s].case # c
        BY <1>5 DEF CommitStatus
    <2>6. \A s \in Sessions : s # a => tx'[s] = tx[s]
        BY <1>5 DEF CommitStatus
    <2>7. tx'[a] = Idle /\ issued' = issued
        BY <1>5 DEF CommitStatus
    <2> QED BY <2>1, <2>3, <2>4, <2>5, <2>6, <2>7
<1>6. ASSUME NEW g \in AgentCalls, NEW c \in CaseIds, AttachReport(g, c)
      PROVE  TransactionsCoherent'
    BY <1>6 DEF AttachReport, Locked
<1>7. ASSUME NEW g \in AgentCalls, CommitReport(g)
      PROVE  TransactionsCoherent'
    <2> DEFINE c == tx[g].case
    <2>1. c \in CaseIds /\ Exists(c) /\ cases[c] \in Row /\ tx[g].next \in Status
        BY <1>7 DEF CommitReport
    <2>2. WithReport(cases[c], tx[g].next) # NoRow
        <3>1. WithReport(cases[c], tx[g].next) \in Row
            BY <2>1 DEF WithReport, Row
        <3> QED BY <3>1, StoreAssumption
    <2>3. \A d \in CaseIds : Exists(d)' <=> Exists(d)
        BY <1>7, <2>1, <2>2 DEF CommitReport
    <2>4. \A d \in CaseIds : d # c => cases'[d] = cases[d]
        BY <1>7 DEF CommitReport
    <2>5. \A s \in Sessions : tx[s].op = "report" /\ tx[s].case = c => s = g
        BY <1>7 DEF CommitReport
    <2>6. \A s \in Sessions : s # g => tx'[s] = tx[s]
        BY <1>7 DEF CommitReport
    <2>7. tx'[g] = Idle /\ issued' = issued
        BY <1>7 DEF CommitReport
    <2> QED BY <2>1, <2>3, <2>4, <2>5, <2>6, <2>7
<1>8. ASSUME NEW s \in Sessions, Rollback(s)
      PROVE  TransactionsCoherent'
    BY <1>8 DEF Rollback
<1>9. CASE UNCHANGED vars
    BY <1>9 DEF vars
<1> QED
    BY <1>1, <1>2, <1>3, <1>4, <1>5, <1>6, <1>7, <1>8, <1>9
    DEF Next, RecordFlagged, ChangeStatus, StoreReport, RefuseTransition
-----------------------------------------------------------------------------
\* What a commit of an existing case leaves alone: which rows exist and whose they are.
LEMMA CommitKeepsRows ==
    ASSUME TypeOK, TransactionsCoherent,
           \/ \E a \in Analysts : CommitStatus(a)
           \/ \E g \in AgentCalls : CommitReport(g),
           NEW c \in CaseIds
    PROVE  /\ Exists(c)' <=> Exists(c)
           /\ Exists(c) => cases'[c].txn = cases[c].txn
<1> USE SessionFacts, OpenTransactions DEF TypeOK, Exists
<1>1. ASSUME NEW a \in Analysts, CommitStatus(a)
      PROVE  /\ Exists(c)' <=> Exists(c)
             /\ Exists(c) => cases'[c].txn = cases[c].txn
    <2>1. tx[a].case \in CaseIds /\ cases[tx[a].case] \in Row /\ tx[a].next \in Status
        BY <1>1 DEF CommitStatus
    <2>2. WithStatus(cases[tx[a].case], tx[a].next) \in Row
        BY <2>1 DEF WithStatus, Row
    <2>3. cases' = [cases EXCEPT ![tx[a].case] = WithStatus(cases[tx[a].case], tx[a].next)]
        BY <1>1 DEF CommitStatus
    <2> QED BY <2>1, <2>2, <2>3, StoreAssumption DEF WithStatus
<1>2. ASSUME NEW g \in AgentCalls, CommitReport(g)
      PROVE  /\ Exists(c)' <=> Exists(c)
             /\ Exists(c) => cases'[c].txn = cases[c].txn
    <2>1. tx[g].case \in CaseIds /\ cases[tx[g].case] \in Row /\ tx[g].next \in Status
        BY <1>2 DEF CommitReport
    <2>2. WithReport(cases[tx[g].case], tx[g].next) \in Row
        BY <2>1 DEF WithReport, Row
    <2>3. cases' = [cases EXCEPT ![tx[g].case] = WithReport(cases[tx[g].case], tx[g].next)]
        BY <1>2 DEF CommitReport
    <2> QED BY <2>1, <2>2, <2>3, StoreAssumption DEF WithReport
<1> QED BY <1>1, <1>2

\* Each step keeps at most one case, committed or about to be, per transaction.
LEMMA OneCaseStep ==
    TypeOK /\ TransactionsCoherent /\ OneCasePerTxn /\ [Next]_vars => OneCasePerTxn'
<1> SUFFICES ASSUME TypeOK, TransactionsCoherent, OneCasePerTxn, [Next]_vars, NEW t \in Txns
             PROVE  /\ \A c, d \in CasesOf(t)' : c = d
                    /\ \A s \in Inserters(t)' :
                         CasesOf(t)' = {} /\ \A r \in Inserters(t)' : r = s
    BY DEF OneCasePerTxn
<1> DEFINE Goal == /\ \A c, d \in CasesOf(t)' : c = d
                   /\ \A s \in Inserters(t)' :
                        CasesOf(t)' = {} /\ \A r \in Inserters(t)' : r = s
<1>0. /\ \A c, d \in CasesOf(t) : c = d
      /\ \A s \in Inserters(t) : CasesOf(t) = {} /\ \A r \in Inserters(t) : r = s
    BY DEF OneCasePerTxn
\* A step that inserts nothing and commits no new row keeps both sets from growing.
<1>a. ASSUME CasesOf(t)' = CasesOf(t), Inserters(t)' \subseteq Inserters(t)
      PROVE  Goal
    BY <1>0, <1>a
<1> USE SessionFacts, OpenTransactions DEF TypeOK, Begin, End, Idle, Inserters, CasesOf, Exists
<1>1. ASSUME NEW l \in Listeners, NEW u \in Txns, NEW c \in CaseIds, InsertIfAbsent(l, u, c)
      PROVE  Goal
    BY <1>0, <1>1 DEF InsertIfAbsent, Inserting
<1>2. ASSUME NEW l \in Listeners, CommitCreated(l)
      PROVE  Goal
    BY <1>0, <1>2 DEF CommitCreated
<1>3. ASSUME NEW a \in Analysts, NEW c \in CaseIds, NEW next \in Status, CheckTransition(a, c, next)
      PROVE  Goal
    BY <1>a, <1>3 DEF CheckTransition
<1>4. ASSUME NEW a \in Analysts, UpdateStatus(a)
      PROVE  Goal
    BY <1>a, <1>4 DEF UpdateStatus
<1>5. ASSUME NEW a \in Analysts, CommitStatus(a)
      PROVE  Goal
    <2>1. CasesOf(t)' = CasesOf(t)
        BY <1>5, CommitKeepsRows
    <2>2. Inserters(t)' \subseteq Inserters(t)
        BY <1>5 DEF CommitStatus
    <2> QED BY <1>a, <2>1, <2>2
<1>6. ASSUME NEW g \in AgentCalls, NEW c \in CaseIds, AttachReport(g, c)
      PROVE  Goal
    BY <1>a, <1>6 DEF AttachReport
<1>7. ASSUME NEW g \in AgentCalls, CommitReport(g)
      PROVE  Goal
    <2>1. CasesOf(t)' = CasesOf(t)
        BY <1>7, CommitKeepsRows
    <2>2. Inserters(t)' \subseteq Inserters(t)
        BY <1>7 DEF CommitReport
    <2> QED BY <1>a, <2>1, <2>2
<1>8. ASSUME NEW s \in Sessions, Rollback(s)
      PROVE  Goal
    BY <1>a, <1>8 DEF Rollback
<1>9. CASE UNCHANGED vars
    BY <1>a, <1>9 DEF vars
<1> QED
    BY <1>1, <1>2, <1>3, <1>4, <1>5, <1>6, <1>7, <1>8, <1>9
    DEF Next, RecordFlagged, ChangeStatus, StoreReport, RefuseTransition
-----------------------------------------------------------------------------
\* Audit rows of different kinds or cases are different rows.
LEMMA EventFacts ==
    ASSUME NEW c \in CaseIds, NEW d \in CaseIds, NEW p \in Status, NEW q \in Status
    PROVE  /\ Created(c) # Attached(d)
           /\ Created(c) # Changed(d, q)
           /\ Attached(c) # Changed(d, q)
           /\ Created(c) = Created(d) => c = d
           /\ Attached(c) = Attached(d) => c = d
           /\ Changed(c, p) = Changed(d, q) => c = d /\ p = q
           /\ Created(c).case = c /\ Attached(c).case = c /\ Changed(c, p).case = c
BY DEF Created, Attached, Changed

\* What AuditMatchesCases says of one case.
Explained(c) ==
    /\ Created(c) \in events
    /\ cases[c].report <=> Attached(c) \in events
    /\ \/ cases[c].status = "OPEN"
       \/ cases[c].status = "REPORTED" /\ Attached(c) \in events
       \/ Changed(c, cases[c].status) \in events

\* Each step keeps the audit trail in agreement with the table.
LEMMA AuditStep ==
    TypeOK /\ TransactionsCoherent /\ AuditMatchesCases /\ [Next]_vars => AuditMatchesCases'
<1> SUFFICES ASSUME TypeOK, TransactionsCoherent, AuditMatchesCases, [Next]_vars
             PROVE  AuditMatchesCases'
    OBVIOUS
<1>0. /\ \A e \in events : e.case \in CaseIds /\ Exists(e.case)
      /\ \A c \in CaseIds : Exists(c) => Explained(c)
    BY DEF AuditMatchesCases, Explained, TypeOK, Event
<1>a. ASSUME UNCHANGED <<cases, events>> PROVE AuditMatchesCases'
    BY <1>a DEF AuditMatchesCases, Exists
<1> USE SessionFacts, OpenTransactions
<1>1. ASSUME NEW l \in Listeners, CommitCreated(l)
      PROVE  AuditMatchesCases'
    <2>0. PICK c \in CaseIds : c = tx[l].case
        BY <1>1 DEF CommitCreated
    <2>1. tx[l].txn \in Txns /\ ~Exists(c)
        BY <1>1, <2>0 DEF CommitCreated, TransactionsCoherent
    <2>2. [txn |-> tx[l].txn, status |-> "OPEN", report |-> FALSE] \in Row
        BY <2>1 DEF Row, Status
    <2>3. /\ cases' = [cases EXCEPT ![c] =
                          [txn |-> tx[l].txn, status |-> "OPEN", report |-> FALSE]]
          /\ events' = events \cup {Created(c)}
        BY <1>1, <2>0 DEF CommitCreated
    <2>4. /\ \A d \in CaseIds \ {c} : cases'[d] = cases[d]
          /\ cases'[c] = [txn |-> tx[l].txn, status |-> "OPEN", report |-> FALSE]
        BY <2>1, <2>3 DEF TypeOK
    <2>8. cases'[c].status = "OPEN" /\ cases'[c].report = FALSE /\ Exists(c)'
        <3>1. cases'[c] \in Row
            BY <2>2, <2>4
        <3>2. Exists(c)'
            BY <3>1, StoreAssumption DEF Exists
        <3> QED BY <2>4, <3>2
    <2>9. Attached(c) \notin events
        BY <1>0, <2>1 DEF Attached
    <2>5. Attached(c) \notin events'
        BY <2>1, <2>3, <2>9, EventFacts DEF Status
    <2>6. \A e \in events' : Exists(e.case)'
        BY <1>0, <2>1, <2>3, <2>4, <2>8, EventFacts DEF Exists, Status
    <2>7. \A d \in CaseIds : Exists(d)' => Explained(d)'
        <3> SUFFICES ASSUME NEW d \in CaseIds, Exists(d)' PROVE Explained(d)'
            OBVIOUS
        <3>1. CASE d = c
            BY <2>3, <2>8, <2>5, <3>1 DEF Explained
        <3>2. CASE d # c
            <4>1. Explained(d) /\ cases'[d] = cases[d]
                BY <1>0, <2>4, <3>2 DEF Exists
            <4>2. Attached(d) \in events' <=> Attached(d) \in events
                BY <2>1, <2>3, EventFacts DEF Status
            <4> QED BY <2>3, <4>1, <4>2 DEF Explained
        <3> QED BY <3>1, <3>2
    <2> QED BY <2>6, <2>7 DEF AuditMatchesCases, Explained
<1>2. ASSUME NEW a \in Analysts, CommitStatus(a)
      PROVE  AuditMatchesCases'
    <2> DEFINE c == tx[a].case
    <2>1. c \in CaseIds /\ cases[c] \in Row /\ Exists(c) /\ tx[a].next \in Status
        BY <1>2 DEF CommitStatus, TransactionsCoherent
    <2>2. /\ cases' = [cases EXCEPT ![c] = WithStatus(cases[c], tx[a].next)]
          /\ events' = events \cup {Changed(c, tx[a].next)}
        BY <1>2 DEF CommitStatus
    <2>3. /\ \A d \in CaseIds \ {c} : cases'[d] = cases[d]
          /\ cases'[c].status = tx[a].next /\ cases'[c].report = cases[c].report
        BY <2>1, <2>2 DEF TypeOK, WithStatus
    <2>4. \A d \in CaseIds : Exists(d)' <=> Exists(d)
        BY <1>2, CommitKeepsRows
    <2>5. \A d \in CaseIds : Attached(d) \in events' <=> Attached(d) \in events
        BY <2>1, <2>2, EventFacts
    <2>6. \A e \in events' : Exists(e.case)'
        BY <1>0, <2>1, <2>2, <2>4, EventFacts
    <2>7. \A d \in CaseIds : Exists(d)' => Explained(d)'
        <3> SUFFICES ASSUME NEW d \in CaseIds, Exists(d) PROVE Explained(d)'
            BY <2>4
        <3>1. CASE d = c
            BY <1>0, <2>2, <2>3, <2>5, <3>1 DEF Explained
        <3>2. CASE d # c
            BY <1>0, <2>2, <2>3, <2>5, <3>2 DEF Explained
        <3> QED BY <3>1, <3>2
    <2> QED BY <2>6, <2>7 DEF AuditMatchesCases, Explained
<1>3. ASSUME NEW g \in AgentCalls, CommitReport(g)
      PROVE  AuditMatchesCases'
    <2> DEFINE c == tx[g].case
    <2>1. /\ c \in CaseIds /\ cases[c] \in Row /\ Exists(c)
          /\ tx[g].next = AfterReport(cases[c].status)
        BY <1>3 DEF CommitReport, TransactionsCoherent
    <2>2. /\ cases' = [cases EXCEPT ![c] = WithReport(cases[c], tx[g].next)]
          /\ events' = events \cup {Attached(c)}
        BY <1>3 DEF CommitReport
    <2>3. /\ \A d \in CaseIds \ {c} : cases'[d] = cases[d]
          /\ cases'[c].status = AfterReport(cases[c].status) /\ cases'[c].report = TRUE
        BY <2>1, <2>2 DEF TypeOK, WithReport
    <2>4. \A d \in CaseIds : Exists(d)' <=> Exists(d)
        BY <1>3, CommitKeepsRows
    <2>5. \A d \in CaseIds \ {c} : Attached(d) \in events' <=> Attached(d) \in events
        BY <2>1, <2>2, EventFacts DEF Status
    <2>6. \A e \in events' : Exists(e.case)'
        BY <1>0, <2>1, <2>2, <2>4, EventFacts DEF Status
    <2>7. \A d \in CaseIds : Exists(d)' => Explained(d)'
        <3> SUFFICES ASSUME NEW d \in CaseIds, Exists(d) PROVE Explained(d)'
            BY <2>4
        <3>1. CASE d = c
            BY <1>0, <2>2, <2>3, <3>1 DEF Explained, AfterReport
        <3>2. CASE d # c
            BY <1>0, <2>2, <2>3, <2>5, <3>2 DEF Explained
        <3> QED BY <3>1, <3>2
    <2> QED BY <2>6, <2>7 DEF AuditMatchesCases, Explained
<1> QED
    BY <1>1, <1>2, <1>3, <1>a
    DEF Next, RecordFlagged, ChangeStatus, StoreReport, RefuseTransition,
        InsertIfAbsent, CheckTransition, UpdateStatus, AttachReport, Rollback, vars
-----------------------------------------------------------------------------
LEMMA StepInv == IInv /\ [Next]_vars => IInv'
BY TypeStep, CoherentStep, OneCaseStep, AuditStep DEF IInv

\* The inductive invariant holds in every reachable state.
LEMMA Inductive == Spec => []IInv
<1>1. Init => IInv
    BY InitInv
<1>2. IInv /\ [Next]_vars => IInv'
    BY StepInv
<1> QED BY <1>1, <1>2, PTL DEF Spec

\* Every variable keeps its type, whatever the sets of threads and transactions.
THEOREM TypeCorrect == Spec => []TypeOK
<1>1. IInv => TypeOK
    BY DEF IInv
<1> QED BY <1>1, Inductive, PTL

\* A transaction never has two cases, however many listeners redeliver its decision.
THEOREM AtMostOneCase == Spec => []OneCasePerTxn
<1>1. IInv => OneCasePerTxn
    BY DEF IInv
<1> QED BY <1>1, Inductive, PTL

\* Audit trail and table agree after every commit and every rollback.
THEOREM AuditComplete == Spec => []AuditMatchesCases
<1>1. IInv => AuditMatchesCases
    BY DEF IInv
<1> QED BY <1>1, Inductive, PTL

\* What an open transaction relies on stays true until it ends.
THEOREM TransactionsStayCoherent == Spec => []TransactionsCoherent
<1>1. IInv => TransactionsCoherent
    BY DEF IInv
<1> QED BY <1>1, Inductive, PTL
-----------------------------------------------------------------------------
\* Only the three commits change the table, and each changes one row.
LEMMA RowChanges ==
    ASSUME TypeOK, TransactionsCoherent, [Next]_vars, NEW c \in CaseIds, Exists(c)
    PROVE  \/ cases'[c] = cases[c]
           \/ \E a \in Analysts :
                /\ CommitStatus(a)
                /\ tx[a].case = c
                /\ cases'[c] = WithStatus(cases[c], tx[a].next)
           \/ \E g \in AgentCalls :
                /\ CommitReport(g)
                /\ tx[g].case = c
                /\ cases'[c] = WithReport(cases[c], AfterReport(cases[c].status))
<1> USE SessionFacts, OpenTransactions DEF TypeOK
<1>1. ASSUME NEW l \in Listeners, CommitCreated(l)
      PROVE  cases'[c] = cases[c]
    BY <1>1 DEF CommitCreated, TransactionsCoherent
<1>2. ASSUME NEW a \in Analysts, CommitStatus(a)
      PROVE  \/ cases'[c] = cases[c]
             \/ tx[a].case = c /\ cases'[c] = WithStatus(cases[c], tx[a].next)
    BY <1>2 DEF CommitStatus
<1>3. ASSUME NEW g \in AgentCalls, CommitReport(g)
      PROVE  \/ cases'[c] = cases[c]
             \/ /\ tx[g].case = c
                /\ cases'[c] = WithReport(cases[c], AfterReport(cases[c].status))
    BY <1>3 DEF CommitReport, TransactionsCoherent
<1> QED
    BY <1>1, <1>2, <1>3
    DEF Next, RecordFlagged, ChangeStatus, StoreReport, RefuseTransition,
        InsertIfAbsent, CheckTransition, UpdateStatus, AttachReport, Rollback, vars

\* A closed case's verdict changes only in the commit of a PATCH that had seen it open.
THEOREM VerdictOnlyOverturnedByStalePatch == Spec => VerdictStands
<1> DEFINE Step ==
      \A c \in CaseIds :
         (Exists(c) /\ cases[c].status \in Closed /\ cases'[c].status # cases[c].status)
           => \E a \in Analysts : /\ tx[a].op = "status"
                                  /\ tx[a].case = c
                                  /\ tx[a].seen \notin Closed
                                  /\ tx'[a] = Idle
<1>1. IInv /\ [Next]_vars => [Step]_vars
    <2> SUFFICES ASSUME IInv, [Next]_vars, NEW c \in CaseIds,
                        Exists(c), cases[c].status \in Closed, cases'[c].status # cases[c].status
                 PROVE  \E a \in Analysts : /\ tx[a].op = "status"
                                            /\ tx[a].case = c
                                            /\ tx[a].seen \notin Closed
                                            /\ tx'[a] = Idle
        OBVIOUS
    <2>1. TypeOK /\ TransactionsCoherent
        BY DEF IInv
    <2>2. WithReport(cases[c], AfterReport(cases[c].status)).status = cases[c].status
        BY DEF WithReport, AfterReport, Closed
    <2>3. PICK a \in Analysts : CommitStatus(a) /\ tx[a].case = c
        BY <2>1, <2>2, RowChanges
    <2>4. tx[a].op = "status" /\ tx'[a] = Idle
        BY <2>1, <2>3, SessionFacts DEF CommitStatus, End, TypeOK
    <2>5. tx[a].seen \notin Closed
        BY <2>1, <2>4, SessionFacts DEF TransactionsCoherent, CanMoveTo
    <2> QED BY <2>3, <2>4, <2>5
<1> QED BY <1>1, Inductive, PTL DEF Spec, VerdictStands

\* No interleaving of a PATCH with a report loses the report or the case.
THEOREM ReportNeverLost == Spec => ReportKept
<1> DEFINE Step ==
      \A c \in CaseIds :
         Exists(c) => /\ cases'[c] # NoRow
                      /\ cases'[c].txn = cases[c].txn
                      /\ cases[c].report => cases'[c].report
<1>1. IInv /\ [Next]_vars => [Step]_vars
    <2> SUFFICES ASSUME IInv, [Next]_vars, NEW c \in CaseIds, Exists(c)
                 PROVE  /\ cases'[c] # NoRow
                        /\ cases'[c].txn = cases[c].txn
                        /\ cases[c].report => cases'[c].report
        OBVIOUS
    <2>1. TypeOK /\ TransactionsCoherent
        BY DEF IInv
    <2>2. CASE cases'[c] = cases[c]
        BY <2>2 DEF Exists
    <2>3. CASE \E a \in Analysts : /\ CommitStatus(a)
                                   /\ tx[a].case = c
                                   /\ cases'[c] = WithStatus(cases[c], tx[a].next)
        BY <2>1, <2>3, CommitKeepsRows DEF WithStatus, Exists
    <2>4. CASE \E g \in AgentCalls :
                 /\ CommitReport(g)
                 /\ tx[g].case = c
                 /\ cases'[c] = WithReport(cases[c], AfterReport(cases[c].status))
        <3>1. cases'[c] # NoRow /\ cases'[c].txn = cases[c].txn
            BY <2>1, <2>4, CommitKeepsRows DEF Exists
        <3>2. cases'[c].report
            BY <2>4 DEF WithReport
        <3> QED BY <3>1, <3>2
    <2> QED BY <2>1, <2>2, <2>3, <2>4, RowChanges
<1> QED BY <1>1, Inductive, PTL DEF Spec, ReportKept
-----------------------------------------------------------------------------
\* What an analyst has decided on lasts as long as her PATCH is as it was.
LEMMA DecisionStays ==
    ASSUME TypeOK, TransactionsCoherent, [Next]_vars, NEW a \in Analysts,
           \/ tx'[a] = tx[a]
           \/ /\ {tx[a].op, tx'[a].op} \subseteq {"checked", "status"}
              /\ tx'[a].case = tx[a].case /\ tx'[a].next = tx[a].next
    PROVE  DecisionOf(a)' = DecisionOf(a)
<1>1. CASE tx[a].op \notin {"checked", "status"}
    BY <1>1 DEF DecisionOf
<1>2. CASE tx[a].op \in {"checked", "status"}
    <2> DEFINE c == tx[a].case
    <2>1. c \in CaseIds /\ Exists(c)
        BY <1>2, SessionFacts, OpenTransactions DEF TransactionsCoherent
    <2>2. tx'[a].op \in {"checked", "status"} /\ tx'[a].case = c /\ tx'[a].next = tx[a].next
        BY <1>2
    <2>3. cases'[c].txn = cases[c].txn
        <3>1. \A row, next : WithStatus(row, next).txn = row.txn /\ WithReport(row, next).txn = row.txn
            BY DEF WithStatus, WithReport
        <3> HIDE DEF c
        <3> QED BY <2>1, <3>1, RowChanges
    <2> HIDE DEF c
    <2> QED BY <1>2, <2>2, <2>3 DEF DecisionOf, c
<1> QED BY <1>1, <1>2
-----------------------------------------------------------------------------
\* The refinement mapping reads the one row of a transaction, when it has one.
LEMMA ViewOfCase ==
    TypeOK /\ OneCasePerTxn =>
      \A c \in CaseIds : Exists(c) =>
        /\ cases[c].txn \in Txns
        /\ StatusOf(cases[c].txn) = cases[c].status
        /\ ReportedOf(cases[c].txn) = cases[c].report
<1> SUFFICES ASSUME TypeOK, OneCasePerTxn, NEW c \in CaseIds, Exists(c)
             PROVE  /\ cases[c].txn \in Txns
                    /\ StatusOf(cases[c].txn) = cases[c].status
                    /\ ReportedOf(cases[c].txn) = cases[c].report
    OBVIOUS
<1> DEFINE t == cases[c].txn
<1>1. cases[c] \in Row
    BY DEF TypeOK, Exists
<1>2. t \in Txns /\ cases[c].report \in BOOLEAN
    BY <1>1 DEF Row
<1>3. CasesOf(t) = {c}
    BY <1>2 DEF OneCasePerTxn, CasesOf
<1>4. StatusOf(t) = cases[c].status
    BY <1>3 DEF StatusOf, CaseOf
<1>5. ReportedOf(t) = cases[c].report
    BY <1>2, <1>3 DEF ReportedOf
<1> QED BY <1>2, <1>4, <1>5

LEMMA ViewOfCaseNext ==
    (TypeOK /\ OneCasePerTxn =>
      \A c \in CaseIds : Exists(c) =>
        /\ cases[c].txn \in Txns
        /\ StatusOf(cases[c].txn) = cases[c].status
        /\ ReportedOf(cases[c].txn) = cases[c].report)'
BY ViewOfCase, PTL

\* A transaction keeps its place in the abstract state when no row of its changes.
LEMMA ViewUnchanged ==
    ASSUME NEW t \in Txns, CasesOf(t)' = CasesOf(t),
           \A c \in CasesOf(t) : cases'[c] = cases[c]
    PROVE  StatusOf(t)' = StatusOf(t) /\ ReportedOf(t)' = ReportedOf(t)
<1>1. CaseOf(t)' = CaseOf(t) /\ (CasesOf(t) # {} => CaseOf(t) \in CasesOf(t))
    BY DEF CaseOf
<1> QED BY <1>1 DEF StatusOf, ReportedOf

\* Commits of an existing case: every other transaction keeps its place.
LEMMA CommitView ==
    ASSUME IInv, IInv', NEW c \in CaseIds, Exists(c), Exists(c)',
           cases'[c].txn = cases[c].txn,
           \A d \in CaseIds \ {c} : cases'[d] = cases[d],
           NEW t \in Txns
    PROVE  IF t = cases[c].txn
           THEN /\ StatusOf(t) = cases[c].status /\ StatusOf(t)' = cases'[c].status
                /\ ReportedOf(t) = cases[c].report /\ ReportedOf(t)' = cases'[c].report
           ELSE StatusOf(t)' = StatusOf(t) /\ ReportedOf(t)' = ReportedOf(t)
<1>1. CASE t = cases[c].txn
    <2>1. StatusOf(t) = cases[c].status /\ ReportedOf(t) = cases[c].report
        BY <1>1, ViewOfCase DEF IInv
    <2>2. StatusOf(cases[c].txn)' = cases'[c].status /\ ReportedOf(cases[c].txn)' = cases'[c].report
        BY ViewOfCaseNext DEF IInv
    <2> QED BY <1>1, <2>1, <2>2
<1>2. CASE t # cases[c].txn
    <2>1. CasesOf(t)' = CasesOf(t)
        BY <1>2 DEF CasesOf, Exists
    <2>2. \A d \in CasesOf(t) : cases'[d] = cases[d]
        BY <1>2 DEF CasesOf
    <2> QED BY <1>2, <2>1, <2>2, ViewUnchanged
<1> QED BY <1>1, <1>2

\* Every step of the interleaved transactions is one step of the abstract life cycle or none.
LEMMA LifecycleStep ==
    ASSUME IInv, IInv', [Next]_vars
    PROVE  [Lifecycle!Next]_Lifecycle!vars
<1> DEFINE st == [t \in Txns |-> StatusOf(t)]
           rp == [t \in Txns |-> ReportedOf(t)]
           dc == [a \in Analysts |-> DecisionOf(a)]
<1>0. TypeOK /\ TransactionsCoherent /\ OneCasePerTxn
    BY DEF IInv
<1>s. ASSUME UNCHANGED cases PROVE st' = st /\ rp' = rp
    <2>1. ASSUME NEW t \in Txns
          PROVE  StatusOf(t)' = StatusOf(t) /\ ReportedOf(t)' = ReportedOf(t)
        BY <1>s, ViewUnchanged DEF CasesOf, Exists
    <2> QED BY <2>1
<1>d. ASSUME NEW A \in SUBSET Analysts, \A a \in Analysts \ A : tx'[a] = tx[a]
      PROVE  \A a \in Analysts \ A : DecisionOf(a)' = DecisionOf(a)
    BY <1>0, <1>d, DecisionStays
<1>e. ASSUME \A a \in Analysts : tx'[a] = tx[a] PROVE dc' = dc
    <2>1. \A a \in Analysts : DecisionOf(a)' = DecisionOf(a)
        BY <1>0, <1>e, DecisionStays
    <2> QED BY <2>1
<1>u. ASSUME st' = st, rp' = rp, dc' = dc PROVE UNCHANGED Lifecycle!vars
    BY <1>u DEF Lifecycle!vars
<1> USE SessionFacts, OpenTransactions
<1>1. ASSUME NEW l \in Listeners, CommitCreated(l)
      PROVE  Lifecycle!Next
    <2>0. PICK c \in CaseIds, u \in Txns : c = tx[l].case /\ u = tx[l].txn
        BY <1>0, <1>1 DEF CommitCreated
    <2>1. /\ ~Exists(c) /\ CasesOf(u) = {}
        BY <1>0, <1>1, <2>0 DEF CommitCreated, TransactionsCoherent, OneCasePerTxn, Inserters
    <2>2. [txn |-> u, status |-> "OPEN", report |-> FALSE] \in Row
        BY DEF Row, Status
    <2>3. cases' = [cases EXCEPT ![c] = [txn |-> u, status |-> "OPEN", report |-> FALSE]]
        BY <1>1, <2>0 DEF CommitCreated
    <2>4. /\ \A d \in CaseIds \ {c} : cases'[d] = cases[d]
          /\ cases'[c] = [txn |-> u, status |-> "OPEN", report |-> FALSE]
        BY <1>0, <2>3 DEF TypeOK
    <2>5. Exists(c)'
        BY <2>2, <2>4, StoreAssumption DEF Exists
    <2>6. /\ StatusOf(u) = "NONE" /\ ReportedOf(u) = FALSE
          /\ StatusOf(u)' = "OPEN" /\ ReportedOf(u)' = FALSE
        <3>1. StatusOf(u) = "NONE" /\ ReportedOf(u) = FALSE
            BY <2>1 DEF StatusOf, ReportedOf
        <3>2. cases'[c].txn = u /\ cases'[c].status = "OPEN" /\ cases'[c].report = FALSE
            BY <2>4
        <3> QED BY <2>5, <3>1, <3>2, ViewOfCaseNext DEF IInv
    <2>7. ASSUME NEW t \in Txns, t # u
          PROVE  StatusOf(t)' = StatusOf(t) /\ ReportedOf(t)' = ReportedOf(t)
        <3>1. CasesOf(t)' = CasesOf(t) /\ \A d \in CasesOf(t) : cases'[d] = cases[d]
            BY <2>1, <2>4, <2>7 DEF CasesOf, Exists
        <3> QED BY <3>1, ViewUnchanged
    <2>8. st' = [st EXCEPT ![u] = "OPEN"] /\ rp' = rp
        BY <2>6, <2>7
    <2>9. dc' = dc
        <3>1. \A a \in Analysts : tx'[a] = tx[a]
            BY <1>0, <1>1, StoreAssumption DEF CommitCreated, End, TypeOK
        <3> QED BY <1>e, <3>1
    <2> QED BY <2>6, <2>8, <2>9 DEF Lifecycle!Next, Lifecycle!Open
<1>2. ASSUME NEW a \in Analysts, CommitStatus(a)
      PROVE  Lifecycle!Next
    <2>0. PICK c \in CaseIds, n \in Status : c = tx[a].case /\ n = tx[a].next
        BY <1>0, <1>2 DEF CommitStatus
    <2>1. cases[c] \in Row /\ Exists(c)
        BY <1>0, <1>2, <2>0 DEF CommitStatus, TransactionsCoherent
    <2>2. /\ \A d \in CaseIds \ {c} : cases'[d] = cases[d]
          /\ cases'[c].status = n /\ cases'[c].report = cases[c].report
        BY <1>0, <1>2, <2>0 DEF CommitStatus, TypeOK, WithStatus
    <2>3. Exists(c)' /\ cases'[c].txn = cases[c].txn
        BY <1>0, <1>2, <2>1, CommitKeepsRows
    <2> DEFINE u == cases[c].txn
    <2>4. u \in Txns /\ cases[c].status \in Status
        BY <2>1 DEF Row
    <2>5. \A t \in Txns : IF t = u
                         THEN /\ StatusOf(t) = cases[c].status /\ StatusOf(t)' = n
                              /\ ReportedOf(t)' = ReportedOf(t)
                         ELSE StatusOf(t)' = StatusOf(t) /\ ReportedOf(t)' = ReportedOf(t)
        BY <2>1, <2>2, <2>3, CommitView
    <2>6. st' = [st EXCEPT ![u] = n] /\ rp' = rp
        BY <2>5
    <2>7. dc' = [dc EXCEPT ![a] = <<>>] /\ dc[a] = <<u, n>>
        <3>1. tx[a].op = "status" /\ tx' = [tx EXCEPT ![a] = Idle]
            BY <1>2 DEF CommitStatus, End
        <3>2. tx'[a] = Idle /\ \A b \in Analysts \ {a} : tx'[b] = tx[b]
            BY <1>0, <3>1 DEF TypeOK
        <3>3. DecisionOf(a)' = <<>> /\ DecisionOf(a) = <<u, n>>
            BY <2>0, <3>1, <3>2 DEF DecisionOf, Idle
        <3>4. \A b \in Analysts \ {a} : DecisionOf(b)' = DecisionOf(b)
            BY <1>d, <3>2
        <3> QED BY <3>3, <3>4
    <2>8. st[u] \in Lifecycle!Status /\ n \in Lifecycle!Status
        BY <2>4, <2>5 DEF Lifecycle!Status, Lifecycle!Closed, Status, Closed
    <2>9. Lifecycle!Move(a, u, n)
        BY <2>6, <2>7, <2>8 DEF Lifecycle!Move
    <2> QED BY <2>4, <2>8, <2>9 DEF Lifecycle!Next
<1>3. ASSUME NEW g \in AgentCalls, CommitReport(g)
      PROVE  Lifecycle!Next
    <2>0. PICK c \in CaseIds : c = tx[g].case
        BY <1>0, <1>3 DEF CommitReport
    <2>1. cases[c] \in Row /\ Exists(c) /\ tx[g].next = AfterReport(cases[c].status)
        BY <1>0, <1>3, <2>0 DEF CommitReport, TransactionsCoherent
    <2>2. /\ \A d \in CaseIds \ {c} : cases'[d] = cases[d]
          /\ cases'[c].status = AfterReport(cases[c].status) /\ cases'[c].report = TRUE
        BY <1>0, <1>3, <2>0, <2>1 DEF CommitReport, TypeOK, WithReport
    <2>3. Exists(c)' /\ cases'[c].txn = cases[c].txn
        BY <1>0, <1>3, <2>1, CommitKeepsRows
    <2> DEFINE u == cases[c].txn
    <2>4. u \in Txns /\ cases[c].status \in Status
        BY <2>1 DEF Row
    <2>5. \A t \in Txns : IF t = u
                         THEN /\ StatusOf(t) = cases[c].status
                              /\ StatusOf(t)' = AfterReport(cases[c].status)
                              /\ ReportedOf(t)' = TRUE
                         ELSE StatusOf(t)' = StatusOf(t) /\ ReportedOf(t)' = ReportedOf(t)
        BY <2>1, <2>2, <2>3, CommitView
    <2>6. /\ st' = [st EXCEPT ![u] = IF @ \in {"OPEN", "INVESTIGATING"} THEN "REPORTED" ELSE @]
          /\ rp' = [rp EXCEPT ![u] = TRUE]
        BY <2>4, <2>5 DEF AfterReport
    <2>7. st[u] \in Lifecycle!Status
        BY <2>4, <2>5 DEF Lifecycle!Status, Lifecycle!Closed, Status, Closed
    <2>8. dc' = dc
        <3>1. \A a \in Analysts : tx'[a] = tx[a]
            BY <1>0, <1>3, StoreAssumption DEF CommitReport, End, TypeOK
        <3> QED BY <1>e, <3>1
    <2> QED BY <2>4, <2>6, <2>7, <2>8 DEF Lifecycle!Next, Lifecycle!Report
<1>4. ASSUME NEW a \in Analysts, NEW c \in CaseIds, NEW next \in Status, CheckTransition(a, c, next)
      PROVE  Lifecycle!Next
    <2> DEFINE u == cases[c].txn
    <2>1. /\ Exists(c) /\ next # cases[c].status /\ cases[c].status \notin Closed /\ UNCHANGED cases
          /\ tx[a] = Idle
          /\ tx' = [tx EXCEPT ![a] = [op |-> "checked", case |-> c, seen |-> cases[c].status, next |-> next]]
        BY <1>4 DEF CheckTransition, Begin, CanMoveTo
    <2>2. u \in Txns /\ StatusOf(u) = cases[c].status /\ cases[c].status \in Status
        BY <1>0, <2>1, ViewOfCase DEF TypeOK, Exists, Row
    <2>3. tx'[a] = [op |-> "checked", case |-> c, seen |-> cases[c].status, next |-> next]
        BY <1>0, <2>1 DEF TypeOK
    <2>4. DecisionOf(a) = <<>> /\ DecisionOf(a)' = <<u, next>>
        BY <2>1, <2>3 DEF DecisionOf, Idle
    <2>5. \A b \in Analysts \ {a} : DecisionOf(b)' = DecisionOf(b)
        <3>1. \A b \in Analysts \ {a} : tx'[b] = tx[b]
            BY <1>0, <2>1 DEF TypeOK
        <3> QED BY <1>d, <3>1
    <2>6. dc' = [dc EXCEPT ![a] = <<u, next>>] /\ dc[a] = <<>>
        BY <2>4, <2>5
    <2>7. st[u] \in Lifecycle!Status \ Lifecycle!Closed /\ st[u] # next /\ next \in Lifecycle!Status
        BY <2>1, <2>2 DEF Lifecycle!Status, Lifecycle!Closed, Status, Closed
    <2>8. st' = st /\ rp' = rp
        BY <1>s, <2>1
    <2> HIDE DEF u
    <2>9. Lifecycle!Decide(a, u, next)
        BY <2>6, <2>7, <2>8 DEF Lifecycle!Decide
    <2> QED BY <2>2, <2>7, <2>9 DEF Lifecycle!Next, u
<1>5. ASSUME NEW a \in Analysts, UpdateStatus(a)
      PROVE  UNCHANGED Lifecycle!vars
    <2>1. /\ {tx[a].op, tx'[a].op} \subseteq {"checked", "status"}
          /\ tx'[a].case = tx[a].case /\ tx'[a].next = tx[a].next
          /\ \A b \in Analysts \ {a} : tx'[b] = tx[b]
        BY <1>0, <1>5 DEF UpdateStatus, TypeOK
    <2>2. \A b \in Analysts : DecisionOf(b)' = DecisionOf(b)
        BY <1>0, <2>1, DecisionStays
    <2>3. dc' = dc /\ st' = st /\ rp' = rp
        BY <1>5, <1>s, <2>2 DEF UpdateStatus
    <2> QED BY <1>u, <2>3
<1>6. ASSUME NEW s \in Sessions, Rollback(s)
      PROVE  [Lifecycle!Next]_Lifecycle!vars
    <2>1. /\ UNCHANGED cases /\ tx' = [tx EXCEPT ![s] = Idle]
          /\ tx'[s] = Idle /\ \A r \in Sessions \ {s} : tx'[r] = tx[r]
        BY <1>0, <1>6 DEF Rollback, End, TypeOK
    <2>2. st' = st /\ rp' = rp
        BY <1>s, <2>1
    <2>3. CASE s \in Analysts
        <3>1. DecisionOf(s)' = <<>>
            BY <2>1 DEF DecisionOf, Idle
        <3>2. \A b \in Analysts \ {s} : DecisionOf(b)' = DecisionOf(b)
            BY <1>d, <2>1, <2>3
        <3>3. dc' = [dc EXCEPT ![s] = <<>>]
            BY <2>3, <3>1, <3>2
        <3>4. Lifecycle!GiveUp(s)
            BY <2>2, <3>3 DEF Lifecycle!GiveUp
        <3> QED BY <2>3, <3>4 DEF Lifecycle!Next
    <2>4. CASE s \notin Analysts
        <3>1. \A a \in Analysts : tx'[a] = tx[a]
            BY <2>1, <2>4
        <3>2. dc' = dc
            BY <1>e, <3>1
        <3> QED BY <1>u, <2>2, <3>2
    <2> QED BY <2>3, <2>4
<1>7. ASSUME UNCHANGED cases, \A a \in Analysts : tx'[a] = tx[a]
      PROVE  UNCHANGED Lifecycle!vars
    BY <1>e, <1>s, <1>u, <1>7
<1>8. ASSUME NEW l \in Listeners, NEW t \in Txns, NEW c \in CaseIds, InsertIfAbsent(l, t, c)
      PROVE  UNCHANGED Lifecycle!vars
    <2>1. UNCHANGED cases /\ \A a \in Analysts : tx'[a] = tx[a]
        BY <1>0, <1>8, StoreAssumption DEF InsertIfAbsent, Begin, TypeOK
    <2> QED BY <1>7, <2>1
<1>9. ASSUME NEW g \in AgentCalls, NEW c \in CaseIds, AttachReport(g, c)
      PROVE  UNCHANGED Lifecycle!vars
    <2>1. UNCHANGED cases /\ \A a \in Analysts : tx'[a] = tx[a]
        BY <1>0, <1>9, StoreAssumption DEF AttachReport, Begin, TypeOK
    <2> QED BY <1>7, <2>1
<1>10. CASE UNCHANGED vars
    BY <1>7, <1>10 DEF vars
<1> HIDE DEF st, rp, dc
<1> QED
    BY <1>1, <1>2, <1>3, <1>4, <1>5, <1>6, <1>8, <1>9, <1>10
    DEF Next, RecordFlagged, ChangeStatus, StoreReport, RefuseTransition

\* For any numbers of listeners, analysts and agent calls the case service implements the life cycle:
\* its interleaved transactions are the steps of CaseLifecycle, in which a verdict is changed only by
\* an analyst who decided while the case was open.
THEOREM StoreImplementsLifecycle == Spec => ImplementsLifecycle
<1>1. Init => Lifecycle!Init
    <2> SUFFICES ASSUME Init PROVE Lifecycle!Init
        OBVIOUS
    <2>1. \A a \in Analysts : DecisionOf(a) = <<>>
        BY SessionFacts DEF Init, DecisionOf, Idle
    <2>2. \A t \in Txns : StatusOf(t) = "NONE" /\ ReportedOf(t) = FALSE
        BY DEF Init, StatusOf, ReportedOf, CasesOf, Exists
    <2> QED BY <2>1, <2>2 DEF Lifecycle!Init
<1>2. IInv /\ IInv' /\ [Next]_vars => [Lifecycle!Next]_Lifecycle!vars
    BY LifecycleStep
<1> QED BY <1>1, <1>2, Inductive, PTL DEF Spec, ImplementsLifecycle, Lifecycle!Spec
=============================================================================
