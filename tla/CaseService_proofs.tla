------------------------- MODULE CaseService_proofs -------------------------
(***************************************************************************)
(* Proofs about the case service as a whole: for every log, any number of  *)
(* crashes and refused acknowledgements, and whatever the agent and its    *)
(* reports do meanwhile, a committed record was handled, a tick links to   *)
(* the case of its own transaction and the agent is asked about a case     *)
(* once.                                                                   *)
(***************************************************************************)
EXTENDS CaseService, SequenceTheorems, TLAPS

InRecord == {"decide", "offer", "commit", "publish", "remember"}

ServiceTypes ==
    /\ log \in Seq(Records)
    /\ position \in Nat /\ batchEnd \in Nat /\ committed \in Nat
    /\ stage \in InRecord \cup {"poll", "ack"}
    /\ caseId \in SUBSET CaseIds /\ storeFailed \in SUBSET Nat
    /\ cases \in [CaseIds -> Store!Row \cup {NoRow}]
    /\ issued \in SUBSET CaseIds
    /\ tx \in [Store!Sessions -> Store!TxState]
    /\ asked \in SUBSET CaseIds
    /\ seen \in SUBSET (Txns \cup Allowed)
    /\ ticks \in Seq(Tick)

\* Where the listener is.
Listening ==
    /\ committed <= position /\ position <= batchEnd /\ batchEnd <= Len(log)
    /\ stage \in InRecord => position < batchEnd
    /\ stage \in {"offer", "commit"} => Current \in Txns
    /\ stage \in {"publish", "remember"} => Current \in Txns \cup Allowed
    /\ stage \notin {"publish", "remember"} => caseId = {}
    /\ storeFailed \subseteq 1 .. Len(log)

\* The cases of a transaction in a case table.
CasesIn(rows, t) == {c \in CaseIds : rows[c] # NoRow /\ rows[c].txn = t}

\* The listener's transaction is the one recordFlagged has open, and nobody else inserts.
Inserted ==
    IF stage \in {"offer", "commit"}
    THEN /\ tx[Listener].op = "insert" /\ tx[Listener].txn = Current
         /\ tx[Listener].case \in issued /\ cases[tx[Listener].case] = NoRow
         /\ CasesIn(cases, Current) = {}
    ELSE tx[Listener] = Store!Idle

\* The agent's report is for a case that is there.
Reporting == tx[Caller] = Store!Idle \/ (tx[Caller].op = "report" /\ cases[tx[Caller].case] # NoRow)

\* Ids are not used twice, neither for a case nor in a question to the agent.
IdsFresh ==
    /\ \A c \in CaseIds : cases[c] # NoRow => c \in issued
    /\ asked \subseteq issued
    /\ stage = "offer" => tx[Listener].case \notin asked

\* A transaction has one case.
OneCase == \A c, d \in CaseIds :
    cases[c] # NoRow /\ cases[d] # NoRow /\ cases[c].txn = cases[d].txn => c = d

\* What onDecision owes the flagged record i by the time it returns.
Handled(rows, entries, failed, i) == CasesIn(rows, entries[i]) # {} \/ i \in failed

RecordsHandled ==
    /\ \A i \in 1 .. position : log[i] \in Txns => Handled(cases, log, storeFailed, i)
    /\ stage \in {"publish", "remember"} =>
         /\ caseId \subseteq CasesIn(cases, Current)
         /\ Current \in Txns => caseId # {} \/ position + 1 \in storeFailed

Linked(rows, entries, failed, tick) ==
    /\ tick.cases \subseteq CasesIn(rows, tick.txn)
    /\ tick.txn \in Txns /\ tick.cases = {} => \E i \in failed : entries[i] = tick.txn

TicksLinked ==
    /\ \A k \in 1 .. Len(ticks) : ticks[k].txn \in seen /\ Linked(cases, log, storeFailed, ticks[k])
    /\ \A j, k \in 1 .. Len(ticks) : ticks[j].txn = ticks[k].txn => j = k

ServiceInv ==
    /\ ServiceTypes /\ Listening /\ Inserted /\ Reporting
    /\ IdsFresh /\ OneCase
    /\ RecordsHandled /\ TicksLinked

-----------------------------------------------------------------------------
(* Rows, records and ticks *)

LEMMA StoreFacts ==
  /\ Listener \in Store!Sessions /\ Caller \in Store!Sessions /\ Listener # Caller
  /\ Store!Idle \in Store!TxState /\ Store!Idle.op = "idle"
  /\ \A t : Store!CasesOf(t) = CasesIn(cases, t)
  /\ \A c : Store!Exists(c) <=> cases[c] # NoRow
  /\ NoRow \notin Store!Row
<1>1. Listener \in Store!Sessions /\ Caller \in Store!Sessions /\ Listener # Caller
  BY ServiceAssumption DEF Store!Sessions
<1>2. Store!Idle \in Store!TxState /\ Store!Idle.op = "idle"
  BY DEF Store!Idle, Store!TxState
<1>3. \A c : Store!Exists(c) <=> cases[c] # NoRow
  BY DEF Store!Exists
<1>4. \A t : Store!CasesOf(t) = CasesIn(cases, t)
  BY DEF Store!CasesOf, Store!Exists, CasesIn
<1> QED BY <1>1, <1>2, <1>3, <1>4, ServiceAssumption

\* No row goes away and none changes its transaction.
RowsKept(rows, more) ==
    \A c \in CaseIds : rows[c] # NoRow => more[c] # NoRow /\ more[c].txn = rows[c].txn

\* What was handled stays handled and what is linked stays linked as the log, the case table and the count of
\* failures grow.
LEMMA PastKept ==
  ASSUME NEW rows, NEW more, RowsKept(rows, more),
         NEW entries, NEW longer, NEW n \in Nat, \A i \in 1 .. n : longer[i] = entries[i],
         NEW failed \in SUBSET (1 .. n), NEW counted, failed \subseteq counted
  PROVE  /\ \A t : CasesIn(rows, t) \subseteq CasesIn(more, t)
         /\ \A i \in 1 .. n : Handled(rows, entries, failed, i) => Handled(more, longer, counted, i)
         /\ \A tick : Linked(rows, entries, failed, tick) => Linked(more, longer, counted, tick)
<1>1. \A t : CasesIn(rows, t) \subseteq CasesIn(more, t)
  BY DEF RowsKept, CasesIn
<1>2. ASSUME NEW i \in 1 .. n, Handled(rows, entries, failed, i)
      PROVE  Handled(more, longer, counted, i)
  <2>1. longer[i] = entries[i]
    OBVIOUS
  <2>2. CasesIn(rows, entries[i]) \subseteq CasesIn(more, entries[i])
    BY <1>1
  <2> QED BY <1>2, <2>1, <2>2 DEF Handled
<1>3. ASSUME NEW tick, Linked(rows, entries, failed, tick)
      PROVE  Linked(more, longer, counted, tick)
  <2>1. tick.cases \subseteq CasesIn(more, tick.txn)
    BY <1>1, <1>3 DEF Linked
  <2>2. ASSUME tick.txn \in Txns, tick.cases = {}
        PROVE  \E i \in counted : longer[i] = tick.txn
    <3>1. PICK i \in failed : entries[i] = tick.txn
      BY <1>3, <2>2 DEF Linked
    <3>2. i \in 1 .. n /\ i \in counted
      BY <3>1
    <3> QED BY <3>1, <3>2
  <2> QED BY <2>1, <2>2 DEF Linked
<1> QED BY <1>1, <1>2, <1>3

\* The past, seen from a step: nothing handled or linked comes undone.
LEMMA StepKeepsPast ==
  ASSUME ServiceInv, RowsKept(cases, cases'), \A i \in 1 .. Len(log) : log'[i] = log[i],
         storeFailed \subseteq storeFailed'
  PROVE  /\ Len(log) \in Nat /\ position \in Nat
         /\ \A t : CasesIn(cases, t) \subseteq CasesIn(cases', t)
         /\ \A i \in 1 .. Len(log) : Handled(cases, log, storeFailed, i) => Handled(cases', log', storeFailed', i)
         /\ \A i \in 1 .. position : log[i] \in Txns => log'[i] \in Txns /\ Handled(cases', log', storeFailed', i)
         /\ \A i \in 1 .. position : log'[i] \in Txns => log[i] \in Txns
         /\ \A tick : Linked(cases, log, storeFailed, tick) => Linked(cases', log', storeFailed', tick)
<1>1. /\ Len(log) \in Nat /\ position \in Nat /\ batchEnd \in Nat
      /\ position <= batchEnd /\ batchEnd <= Len(log)
      /\ storeFailed \in SUBSET (1 .. Len(log))
  BY LenProperties DEF ServiceInv, ServiceTypes, Listening
<1>2. /\ \A t : CasesIn(cases, t) \subseteq CasesIn(cases', t)
      /\ \A i \in 1 .. Len(log) : Handled(cases, log, storeFailed, i) => Handled(cases', log', storeFailed', i)
      /\ \A tick : Linked(cases, log, storeFailed, tick) => Linked(cases', log', storeFailed', tick)
  BY <1>1, PastKept
<1>3. \A i \in 1 .. position : i \in 1 .. Len(log)
  BY <1>1
<1>4. \A i \in 1 .. position : log[i] \in Txns => Handled(cases, log, storeFailed, i)
  BY DEF ServiceInv, RecordsHandled
<1> QED BY <1>1, <1>2, <1>3, <1>4

-----------------------------------------------------------------------------
(* The steps *)

LEMMA InitServiceInv == Init => ServiceInv
<1> SUFFICES ASSUME Init PROVE ServiceInv
  OBVIOUS
<1>1. /\ cases = [c \in CaseIds |-> NoRow] /\ issued = {} /\ tx = [s \in Store!Sessions |-> Store!Idle]
      /\ asked = {}
      /\ log = <<>> /\ position = 0 /\ batchEnd = 0 /\ committed = 0
      /\ stage = "poll" /\ caseId = {} /\ storeFailed = {} /\ seen = {} /\ ticks = <<>>
  BY DEF Init, Store!Init, Client!Init
<1>2. ServiceTypes
  <2>1. <<>> \in Seq(Records) /\ <<>> \in Seq(Tick)
    OBVIOUS
  <2>2. cases \in [CaseIds -> Store!Row \cup {NoRow}] /\ tx \in [Store!Sessions -> Store!TxState]
    BY <1>1, StoreFacts
  <2> QED BY <1>1, <2>1, <2>2 DEF ServiceTypes
<1>3. Listening
  BY <1>1 DEF Listening, InRecord
<1>4. Inserted /\ Reporting
  BY <1>1, StoreFacts DEF Inserted, Reporting
<1>5. IdsFresh /\ OneCase
  BY <1>1 DEF IdsFresh, OneCase
<1>6. RecordsHandled /\ TicksLinked
  BY <1>1 DEF RecordsHandled, TicksLinked
<1> QED BY <1>2, <1>3, <1>4, <1>5, <1>6 DEF ServiceInv

\* Steps the listener and the tables take no part in.
LEMMA AsideStep ==
  ASSUME ServiceInv,
         UNCHANGED <<cases, issued, tx, asked, seen, ticks, log, position, batchEnd, committed, stage, caseId,
                     storeFailed>>
  PROVE  ServiceInv'
<1>1. ServiceTypes'
  BY DEF ServiceInv, ServiceTypes
<1>2. Listening' /\ Inserted' /\ Reporting'
  BY DEF ServiceInv, Listening, Inserted, Reporting, Current
<1>3. IdsFresh' /\ OneCase' /\ RecordsHandled' /\ TicksLinked'
  BY DEF ServiceInv, IdsFresh, OneCase, RecordsHandled, TicksLinked, Current
<1> QED BY <1>1, <1>2, <1>3 DEF ServiceInv

LEMMA ProduceStep ==
  ASSUME ServiceInv, NEW r \in Records, Produce(r)
  PROVE  ServiceInv'
<1>1. /\ log' = Append(log, r)
      /\ cases' = cases /\ issued' = issued /\ tx' = tx /\ asked' = asked /\ seen' = seen /\ ticks' = ticks
      /\ position' = position /\ batchEnd' = batchEnd /\ committed' = committed /\ stage' = stage
      /\ caseId' = caseId /\ storeFailed' = storeFailed
  BY DEF Produce, storeVars, clientVars, feedVars, listenerVars
<1>2. ServiceTypes /\ Listening /\ log \in Seq(Records) /\ position \in Nat /\ batchEnd \in Nat
  BY DEF ServiceInv, ServiceTypes
<1>3. /\ log' \in Seq(Records) /\ Len(log') = Len(log) + 1 /\ Len(log) \in Nat
      /\ \A i \in 1 .. Len(log) : log'[i] = log[i]
  BY <1>1, <1>2, AppendProperties, LenProperties
<1>4. RowsKept(cases, cases') /\ storeFailed \subseteq storeFailed'
  BY <1>1 DEF RowsKept
<1>5. /\ \A i \in 1 .. position : log[i] \in Txns => log'[i] \in Txns /\ Handled(cases', log', storeFailed', i)
      /\ \A i \in 1 .. position : log'[i] \in Txns => log[i] \in Txns
      /\ \A tick : Linked(cases, log, storeFailed, tick) => Linked(cases', log', storeFailed', tick)
  BY <1>3, <1>4, StepKeepsPast
<1>6. stage \in InRecord => Current' = Current
  <2>1. stage \in InRecord => position + 1 \in 1 .. Len(log)
    BY <1>2, <1>3 DEF Listening
  <2> QED BY <1>1, <1>3, <2>1 DEF Current
<1>7. ServiceTypes'
  BY <1>1, <1>2, <1>3 DEF ServiceTypes
<1>8. Listening'
  <2>1. storeFailed \subseteq 1 .. Len(log')
    BY <1>2, <1>3 DEF Listening
  <2>2. batchEnd <= Len(log')
    BY <1>2, <1>3 DEF Listening
  <2> QED BY <1>1, <1>2, <1>6, <2>1, <2>2 DEF Listening, InRecord
<1>9. Inserted' /\ Reporting' /\ IdsFresh' /\ OneCase'
  BY <1>1, <1>6 DEF ServiceInv, Inserted, Reporting, IdsFresh, OneCase, InRecord
<1>10. RecordsHandled'
  BY <1>1, <1>5, <1>6 DEF ServiceInv, RecordsHandled, InRecord
<1>11. TicksLinked'
  BY <1>1, <1>5 DEF ServiceInv, TicksLinked
<1> QED BY <1>7, <1>8, <1>9, <1>10, <1>11 DEF ServiceInv

\* The listener moves on and leaves the tables alone.
LEMMA PollStep ==
  ASSUME ServiceInv, Poll
  PROVE  ServiceInv'
<1>1. /\ stage = "poll" /\ position < Len(log) /\ batchEnd' = Smaller(position + MaxPoll, Len(log))
      /\ stage' = "decide"
      /\ cases' = cases /\ issued' = issued /\ tx' = tx /\ asked' = asked /\ seen' = seen /\ ticks' = ticks
      /\ log' = log /\ position' = position /\ committed' = committed
      /\ caseId' = caseId /\ storeFailed' = storeFailed
  BY DEF Poll, storeVars, clientVars, kafkaVars, feedVars
<1>2. ServiceTypes /\ Listening
  BY DEF ServiceInv
<1>3. batchEnd' \in Nat /\ position < batchEnd' /\ batchEnd' <= Len(log) /\ position <= batchEnd'
  <2>1. position \in Nat /\ Len(log) \in Nat /\ MaxPoll \in Nat /\ MaxPoll > 0
    BY <1>2, LenProperties, ServiceAssumption DEF ServiceTypes
  <2> QED BY <1>1, <2>1 DEF Smaller
<1>4. ServiceTypes'
  BY <1>1, <1>2, <1>3 DEF ServiceTypes, InRecord
<1>5. Listening'
  BY <1>1, <1>2, <1>3 DEF Listening, InRecord
<1>6. Inserted' /\ Reporting' /\ IdsFresh' /\ OneCase'
  BY <1>1 DEF ServiceInv, Inserted, Reporting, IdsFresh, OneCase
<1>7. RecordsHandled' /\ TicksLinked'
  BY <1>1 DEF ServiceInv, RecordsHandled, TicksLinked
<1> QED BY <1>4, <1>5, <1>6, <1>7 DEF ServiceInv

LEMMA EndRecordStep ==
  ASSUME ServiceInv, EndRecord, stage \in {"decide", "remember"},
         Current \in Txns => Handled(cases, log, storeFailed, position + 1),
         UNCHANGED <<cases, issued, tx, asked, seen, ticks, log, batchEnd, committed, storeFailed>>
  PROVE  ServiceInv'
<1>1. /\ position' = position + 1 /\ stage' = (IF position + 1 = batchEnd THEN "ack" ELSE "decide") /\ caseId' = {}
      /\ cases' = cases /\ issued' = issued /\ tx' = tx /\ asked' = asked /\ seen' = seen /\ ticks' = ticks
      /\ log' = log /\ batchEnd' = batchEnd /\ committed' = committed /\ storeFailed' = storeFailed
  BY DEF EndRecord
<1>2. /\ ServiceTypes /\ Listening /\ position \in Nat /\ batchEnd \in Nat /\ committed \in Nat
      /\ position < batchEnd /\ committed <= position
  BY DEF ServiceInv, ServiceTypes, Listening, InRecord
<1>3. stage' \in {"ack", "decide"} /\ (stage' = "decide" => position + 1 < batchEnd)
  BY <1>1, <1>2
<1>4. ServiceTypes'
  BY <1>1, <1>2, <1>3 DEF ServiceTypes, InRecord
<1>5. Listening'
  <2>1. committed <= position + 1 /\ position + 1 <= batchEnd
    BY <1>2
  <2>2. stage' \in InRecord => position + 1 < batchEnd
    BY <1>3 DEF InRecord
  <2> QED BY <1>1, <1>2, <1>3, <2>1, <2>2 DEF Listening
<1>6. Inserted' /\ Reporting' /\ IdsFresh' /\ OneCase'
  BY <1>1, <1>3 DEF ServiceInv, Inserted, Reporting, IdsFresh, OneCase
<1>7. RecordsHandled'
  <2>1. ASSUME NEW i \in 1 .. position + 1, log[i] \in Txns
        PROVE  Handled(cases, log, storeFailed, i)
    <3>1. i \in 1 .. position \/ i = position + 1
      BY <1>2
    <3> QED BY <2>1, <3>1 DEF ServiceInv, RecordsHandled, Current
  <2> QED BY <1>1, <1>3, <2>1 DEF RecordsHandled
<1>8. TicksLinked'
  BY <1>1 DEF ServiceInv, TicksLinked
<1> QED BY <1>4, <1>5, <1>6, <1>7, <1>8 DEF ServiceInv

LEMMA SkipUnreadableStep ==
  ASSUME ServiceInv, SkipUnreadable
  PROVE  ServiceInv'
<1>1. /\ EndRecord /\ stage = "decide" /\ Current \in Unreadable
      /\ UNCHANGED <<cases, issued, tx, asked, seen, ticks, log, batchEnd, committed, storeFailed>>
  BY DEF SkipUnreadable, storeVars, clientVars, kafkaVars, feedVars
<1>2. Current \notin Txns
  BY <1>1, ServiceAssumption
<1> QED BY <1>1, <1>2, EndRecordStep

LEMMA RememberTickStep ==
  ASSUME ServiceInv, RememberTick
  PROVE  ServiceInv'
<1>1. /\ EndRecord /\ stage = "remember"
      /\ UNCHANGED <<cases, issued, tx, asked, seen, ticks, log, batchEnd, committed, storeFailed>>
  BY DEF RememberTick, storeVars, clientVars, kafkaVars
<1>2. Current \in Txns => Handled(cases, log, storeFailed, position + 1)
  BY <1>1 DEF ServiceInv, RecordsHandled, Handled, Current
<1> QED BY <1>1, <1>2, EndRecordStep

\* From the store to the feed, with the cases that onDecision has for the tick.
LEMMA ToPublishStep ==
  ASSUME ServiceInv, stage \in InRecord, stage' = "publish",
         Current \in Txns \cup Allowed,
         caseId' \subseteq CasesIn(cases, Current), storeFailed' \in SUBSET (storeFailed \cup {position + 1}),
         storeFailed \subseteq storeFailed',
         Current \in Txns => caseId' # {} \/ position + 1 \in storeFailed',
         tx' \in [Store!Sessions -> Store!TxState], tx'[Listener] = Store!Idle, tx'[Caller] = tx[Caller],
         UNCHANGED <<cases, issued, asked, seen, ticks, log, position, batchEnd, committed>>
  PROVE  ServiceInv'
<1>1. /\ cases' = cases /\ issued' = issued /\ asked' = asked /\ seen' = seen /\ ticks' = ticks
      /\ log' = log /\ position' = position /\ batchEnd' = batchEnd /\ committed' = committed
      /\ Current' = Current
  BY DEF Current
<1>2. /\ ServiceTypes /\ Listening /\ position \in Nat /\ batchEnd \in Nat /\ position < batchEnd
      /\ batchEnd <= Len(log) /\ Len(log) \in Nat
  BY LenProperties DEF ServiceInv, ServiceTypes, Listening
<1>3. RowsKept(cases, cases') /\ \A i \in 1 .. Len(log) : log'[i] = log[i]
  BY <1>1 DEF RowsKept
<1>4. /\ \A i \in 1 .. position : log[i] \in Txns => log'[i] \in Txns /\ Handled(cases', log', storeFailed', i)
      /\ \A i \in 1 .. position : log'[i] \in Txns => log[i] \in Txns
      /\ \A tick : Linked(cases, log, storeFailed, tick) => Linked(cases', log', storeFailed', tick)
  BY <1>3, StepKeepsPast
<1>5. storeFailed' \in SUBSET (1 .. Len(log)) /\ storeFailed' \in SUBSET Nat
  <2>1. position + 1 \in 1 .. Len(log) /\ storeFailed \subseteq 1 .. Len(log)
    BY <1>2 DEF Listening
  <2>2. storeFailed' \in SUBSET (1 .. Len(log))
    BY <2>1
  <2> QED BY <2>2
<1>6. ServiceTypes'
  <2>1. caseId' \in SUBSET CaseIds
    BY DEF CasesIn
  <2> QED BY <1>1, <1>2, <1>5, <2>1 DEF ServiceTypes, InRecord
<1>7. Listening'
  BY <1>1, <1>2, <1>5 DEF Listening
<1>8. Inserted' /\ Reporting' /\ IdsFresh' /\ OneCase'
  BY <1>1 DEF ServiceInv, Inserted, Reporting, IdsFresh, OneCase
<1>9. RecordsHandled'
  BY <1>1, <1>4 DEF RecordsHandled
<1>10. TicksLinked'
  BY <1>1, <1>4 DEF ServiceInv, TicksLinked
<1> QED BY <1>6, <1>7, <1>8, <1>9, <1>10 DEF ServiceInv

LEMMA PassAllowedStep ==
  ASSUME ServiceInv, PassAllowed
  PROVE  ServiceInv'
<1>1. /\ stage = "decide" /\ stage' = "publish" /\ Current \in Allowed /\ caseId' = caseId
      /\ storeFailed' = storeFailed /\ tx' = tx
      /\ UNCHANGED <<cases, issued, asked, seen, ticks, log, position, batchEnd, committed>>
  BY DEF PassAllowed, storeVars, clientVars, kafkaVars, feedVars
<1>2. Current \notin Txns /\ stage \in InRecord
  BY <1>1, ServiceAssumption DEF InRecord
<1>3. caseId = {} /\ tx[Listener] = Store!Idle /\ tx \in [Store!Sessions -> Store!TxState]
  BY <1>1 DEF ServiceInv, Listening, Inserted, ServiceTypes
<1> QED BY <1>1, <1>2, <1>3, ToPublishStep

LEMMA FindDuplicateStep ==
  ASSUME ServiceInv, FindDuplicate
  PROVE  ServiceInv'
<1>1. /\ stage = "decide" /\ stage' = "publish" /\ Current \in Txns
      /\ Store!CasesOf(Current) # {} /\ caseId' = Store!CasesOf(Current)
      /\ storeFailed' = storeFailed /\ tx' = tx
      /\ UNCHANGED <<cases, issued, asked, seen, ticks, log, position, batchEnd, committed>>
  BY DEF FindDuplicate, storeVars, clientVars, kafkaVars, feedVars
<1>2. tx[Listener] = Store!Idle /\ tx \in [Store!Sessions -> Store!TxState] /\ stage \in InRecord
  BY <1>1 DEF ServiceInv, Inserted, ServiceTypes, InRecord
<1>3. caseId' = CasesIn(cases, Current) /\ caseId' # {}
  BY <1>1, StoreFacts
<1> QED BY <1>1, <1>2, <1>3, ToPublishStep

LEMMA StoreFailsStep ==
  ASSUME ServiceInv, StoreFails
  PROVE  ServiceInv'
<1>1. /\ stage \in {"decide", "offer", "commit"} /\ stage' = "publish" /\ Current \in Txns
      /\ caseId' = {} /\ storeFailed' = storeFailed \cup {position + 1}
      /\ UNCHANGED <<asked, seen, ticks, log, position, batchEnd, committed>>
      /\ IF stage = "decide" THEN UNCHANGED storeVars ELSE Store!Rollback(Listener)
  BY DEF StoreFails, clientVars, kafkaVars, feedVars
<1>2. tx \in [Store!Sessions -> Store!TxState] /\ stage \in InRecord
  BY <1>1 DEF ServiceInv, ServiceTypes, InRecord
<1>3. /\ cases' = cases /\ issued' = issued
      /\ tx' \in [Store!Sessions -> Store!TxState] /\ tx'[Listener] = Store!Idle /\ tx'[Caller] = tx[Caller]
  <2>1. CASE stage = "decide"
    BY <1>1, <1>2, <2>1 DEF ServiceInv, Inserted, storeVars
  <2>2. CASE stage # "decide"
    <3>1. cases' = cases /\ issued' = issued /\ tx' = [tx EXCEPT ![Listener] = Store!Idle]
      BY <1>1, <2>2 DEF Store!Rollback, Store!End
    <3> QED BY <1>2, <3>1, StoreFacts
  <2> QED BY <2>1, <2>2
<1> QED BY <1>1, <1>2, <1>3, ToPublishStep

LEMMA InsertCaseStep ==
  ASSUME ServiceInv, NEW c \in CaseIds, InsertCase(c)
  PROVE  ServiceInv'
<1> DEFINE inserting == [op |-> "insert", case |-> c, txn |-> Current]
<1>1. /\ stage = "decide" /\ stage' = "offer" /\ Current \in Txns /\ caseId' = caseId
      /\ storeFailed' = storeFailed /\ cases' = cases /\ asked' = asked /\ seen' = seen /\ ticks' = ticks
      /\ log' = log /\ position' = position /\ batchEnd' = batchEnd /\ committed' = committed
      /\ c \notin issued /\ issued' = issued \cup {c} /\ Store!CasesOf(Current) = {}
      /\ tx' = [tx EXCEPT ![Listener] = inserting]
  BY DEF InsertCase, Store!InsertIfAbsent, Store!Begin, clientVars, kafkaVars, feedVars
<1>2. Current' = Current
  BY <1>1 DEF Current
<1>3. ServiceTypes /\ Listening /\ tx \in [Store!Sessions -> Store!TxState] /\ issued \in SUBSET CaseIds
  BY DEF ServiceInv, ServiceTypes
<1>4. CasesIn(cases, Current) = {} /\ cases[c] = NoRow /\ c \notin asked
  BY <1>1, StoreFacts DEF ServiceInv, IdsFresh
<1>5. tx' \in [Store!Sessions -> Store!TxState] /\ tx'[Listener] = inserting /\ tx'[Caller] = tx[Caller]
  <2>1. inserting \in Store!TxState
    BY <1>1 DEF Store!TxState
  <2> HIDE DEF inserting
  <2> QED BY <1>1, <1>3, <2>1, StoreFacts
<1>6. tx'[Listener].op = "insert" /\ tx'[Listener].case = c /\ tx'[Listener].txn = Current
  BY <1>5
<1>7. ServiceTypes'
  BY <1>1, <1>3, <1>5 DEF ServiceTypes, InRecord
<1>8. Listening'
  BY <1>1, <1>2, <1>3 DEF Listening, InRecord
<1>9. Inserted' /\ Reporting'
  BY <1>1, <1>2, <1>4, <1>5, <1>6 DEF ServiceInv, Inserted, Reporting
<1>10. IdsFresh' /\ OneCase'
  BY <1>1, <1>4, <1>6 DEF ServiceInv, IdsFresh, OneCase
<1>11. RecordsHandled' /\ TicksLinked'
  BY <1>1 DEF ServiceInv, RecordsHandled, TicksLinked
<1> QED BY <1>7, <1>8, <1>9, <1>10, <1>11 DEF ServiceInv

\* What the transaction of recordFlagged is about.
LEMMA OpenInsert ==
  ASSUME ServiceInv, stage \in {"offer", "commit"}
  PROVE  /\ tx[Listener].op = "insert" /\ tx[Listener].txn = Current /\ Current \in Txns
         /\ tx[Listener].case \in CaseIds /\ tx[Listener].case \in issued
         /\ cases[tx[Listener].case] = NoRow
         /\ CasesIn(cases, Current) = {}
BY DEF ServiceInv, ServiceTypes, Inserted, Listening

LEMMA OfferToAgentStep ==
  ASSUME ServiceInv, OfferToAgent
  PROVE  ServiceInv'
<1>1. /\ stage = "offer" /\ stage' = "commit" /\ caseId' = caseId
      /\ storeFailed' = storeFailed /\ cases' = cases /\ issued' = issued /\ tx' = tx
      /\ asked' = asked \cup {tx[Listener].case} /\ seen' = seen /\ ticks' = ticks
      /\ log' = log /\ position' = position /\ batchEnd' = batchEnd /\ committed' = committed
  BY DEF OfferToAgent, Client!Investigate, storeVars, kafkaVars, feedVars
<1>2. Current' = Current
  BY <1>1 DEF Current
<1>3. tx[Listener].case \in CaseIds /\ tx[Listener].case \in issued
  BY <1>1, OpenInsert
<1>4. ServiceTypes'
  BY <1>1, <1>3 DEF ServiceInv, ServiceTypes, InRecord
<1>5. Listening' /\ Inserted' /\ Reporting'
  BY <1>1, <1>2 DEF ServiceInv, Listening, Inserted, Reporting, InRecord
<1>6. IdsFresh' /\ OneCase'
  BY <1>1, <1>3 DEF ServiceInv, IdsFresh, OneCase
<1>7. RecordsHandled' /\ TicksLinked'
  BY <1>1 DEF ServiceInv, RecordsHandled, TicksLinked
<1> QED BY <1>4, <1>5, <1>6, <1>7 DEF ServiceInv

LEMMA CommitCaseStep ==
  ASSUME ServiceInv, CommitCase
  PROVE  ServiceInv'
<1> DEFINE c   == tx[Listener].case
           row == [txn |-> tx[Listener].txn, status |-> "OPEN", report |-> FALSE]
<1>1. /\ stage = "commit" /\ stage' = "publish" /\ caseId' = {c}
      /\ storeFailed' = storeFailed /\ issued' = issued /\ asked' = asked /\ seen' = seen /\ ticks' = ticks
      /\ log' = log /\ position' = position /\ batchEnd' = batchEnd /\ committed' = committed
      /\ cases' = [cases EXCEPT ![c] = row] /\ tx' = [tx EXCEPT ![Listener] = Store!Idle]
  BY DEF CommitCase, Store!CommitCreated, Store!End, clientVars, kafkaVars, feedVars
<1>2. Current' = Current
  BY <1>1 DEF Current
<1>3. /\ ServiceTypes /\ Listening /\ tx \in [Store!Sessions -> Store!TxState]
      /\ cases \in [CaseIds -> Store!Row \cup {NoRow}]
  BY DEF ServiceInv, ServiceTypes
<1>4. /\ tx[Listener].txn = Current /\ Current \in Txns /\ c \in CaseIds /\ c \in issued /\ cases[c] = NoRow
      /\ CasesIn(cases, Current) = {}
  BY <1>1, OpenInsert
<1>5. row \in Store!Row /\ row # NoRow /\ row.txn = Current
  <2>1. row \in Store!Row
    BY <1>4 DEF Store!Row, Store!Status
  <2> QED BY <1>4, <2>1, StoreFacts
<1> HIDE DEF row
<1>6. /\ cases' \in [CaseIds -> Store!Row \cup {NoRow}]
      /\ cases'[c] = row /\ \A d \in CaseIds : d # c => cases'[d] = cases[d]
  BY <1>1, <1>3, <1>4, <1>5
<1>7. tx' \in [Store!Sessions -> Store!TxState] /\ tx'[Listener] = Store!Idle /\ tx'[Caller] = tx[Caller]
  BY <1>1, <1>3, StoreFacts
<1> HIDE DEF c
<1>8. RowsKept(cases, cases') /\ \A i \in 1 .. Len(log) : log'[i] = log[i]
  BY <1>1, <1>4, <1>6 DEF RowsKept
<1>9. /\ \A i \in 1 .. position : log[i] \in Txns => log'[i] \in Txns /\ Handled(cases', log', storeFailed', i)
      /\ \A i \in 1 .. position : log'[i] \in Txns => log[i] \in Txns
      /\ \A tick : Linked(cases, log, storeFailed, tick) => Linked(cases', log', storeFailed', tick)
  BY <1>1, <1>8, StepKeepsPast
<1>10. c \in CasesIn(cases', Current)
  BY <1>4, <1>5, <1>6 DEF CasesIn
<1>11. ServiceTypes'
  BY <1>1, <1>3, <1>4, <1>6, <1>7 DEF ServiceTypes, InRecord
<1>12. Listening' /\ Inserted'
  BY <1>1, <1>2, <1>3, <1>4, <1>7 DEF Listening, Inserted, InRecord
<1>13. Reporting'
  <2>1. ASSUME tx[Caller].op = "report", cases[tx[Caller].case] # NoRow
        PROVE  cases'[tx[Caller].case] # NoRow
    <3>1. tx[Caller].case \in CaseIds
      BY <1>3, <2>1, StoreFacts DEF Store!TxState, Store!Idle
    <3> QED BY <1>8, <2>1, <3>1 DEF RowsKept
  <2> QED BY <1>7, <2>1 DEF ServiceInv, Reporting
<1>14. IdsFresh'
  BY <1>1, <1>4, <1>6 DEF ServiceInv, IdsFresh
<1>15. OneCase'
  <2>1. ASSUME NEW d \in CaseIds, d # c, cases'[d] # NoRow
        PROVE  cases'[d].txn # Current
    BY <1>4, <1>6, <2>1 DEF CasesIn
  <2>2. ASSUME NEW d \in CaseIds, NEW e \in CaseIds, cases'[d] # NoRow, cases'[e] # NoRow,
               cases'[d].txn = cases'[e].txn
        PROVE  d = e
    <3>1. CASE d = c \/ e = c
      BY <1>5, <1>6, <2>1, <2>2, <3>1
    <3>2. CASE d # c /\ e # c
      BY <1>6, <2>2, <3>2 DEF ServiceInv, OneCase
    <3> QED BY <3>1, <3>2
  <2> QED BY <2>2 DEF OneCase
<1>16. RecordsHandled'
  BY <1>1, <1>2, <1>9, <1>10 DEF RecordsHandled
<1>17. TicksLinked'
  BY <1>1, <1>9 DEF ServiceInv, TicksLinked
<1> QED BY <1>11, <1>12, <1>13, <1>14, <1>15, <1>16, <1>17 DEF ServiceInv

LEMMA PublishTickStep ==
  ASSUME ServiceInv, PublishTick
  PROVE  ServiceInv'
<1> DEFINE tick == [txn |-> Current, cases |-> caseId]
<1>1. /\ stage = "publish" /\ stage' = "remember" /\ caseId' = caseId
      /\ storeFailed' = storeFailed /\ cases' = cases /\ issued' = issued /\ tx' = tx /\ asked' = asked
      /\ seen' = seen \cup {Current} /\ ticks' = (IF Current \in seen THEN ticks ELSE Append(ticks, tick))
      /\ log' = log /\ position' = position /\ batchEnd' = batchEnd /\ committed' = committed
  BY DEF PublishTick, storeVars, clientVars, kafkaVars
<1>2. Current' = Current
  BY <1>1 DEF Current
<1>3. /\ ServiceTypes /\ Listening /\ ticks \in Seq(Tick) /\ caseId \in SUBSET CaseIds
      /\ Current \in Txns \cup Allowed /\ position \in Nat /\ Len(ticks) \in Nat
  BY <1>1, LenProperties DEF ServiceInv, ServiceTypes, Listening
<1>4. tick \in Tick /\ tick.txn = Current /\ tick.cases = caseId
  BY <1>3 DEF Tick
<1>5. Linked(cases, log, storeFailed, tick)
  <2>1. /\ caseId \subseteq CasesIn(cases, Current)
        /\ Current \in Txns => caseId # {} \/ position + 1 \in storeFailed
    BY <1>1 DEF ServiceInv, RecordsHandled
  <2>2. log[position + 1] = Current
    BY DEF Current
  <2> QED BY <1>4, <2>1, <2>2 DEF Linked
<1> HIDE DEF tick
<1>6. /\ ticks' \in Seq(Tick)
      /\ \A k \in 1 .. Len(ticks') : ticks'[k].txn \in seen \cup {Current} /\ Linked(cases, log, storeFailed, ticks'[k])
      /\ \A j, k \in 1 .. Len(ticks') : ticks'[j].txn = ticks'[k].txn => j = k
  <2>1. CASE Current \in seen
    BY <1>1, <1>3, <2>1 DEF ServiceInv, TicksLinked
  <2>2. CASE Current \notin seen
    <3>1. /\ ticks' \in Seq(Tick) /\ Len(ticks') = Len(ticks) + 1
          /\ (\A k \in 1 .. Len(ticks) : ticks'[k] = ticks[k]) /\ ticks'[Len(ticks) + 1] = tick
      BY <1>1, <1>3, <1>4, <2>2, AppendProperties
    <3>2. \A k \in 1 .. Len(ticks') : k \in 1 .. Len(ticks) \/ k = Len(ticks) + 1
      BY <1>3, <3>1
    <3>3. \A k \in 1 .. Len(ticks) : /\ ticks'[k].txn \in seen /\ ticks'[k].txn # Current
                                     /\ Linked(cases, log, storeFailed, ticks'[k])
      BY <2>2, <3>1 DEF ServiceInv, TicksLinked
    <3>4. \A k \in 1 .. Len(ticks') : /\ ticks'[k].txn \in seen \cup {Current}
                                      /\ Linked(cases, log, storeFailed, ticks'[k])
      BY <1>4, <1>5, <3>1, <3>2, <3>3
    <3>5. \A j, k \in 1 .. Len(ticks) : ticks'[j].txn = ticks'[k].txn => j = k
      BY <3>1 DEF ServiceInv, TicksLinked
    <3>6. \A j, k \in 1 .. Len(ticks') : ticks'[j].txn = ticks'[k].txn => j = k
      BY <1>4, <3>1, <3>2, <3>3, <3>5
    <3> QED BY <3>1, <3>4, <3>6
  <2> QED BY <2>1, <2>2
<1>7. ServiceTypes'
  BY <1>1, <1>3, <1>6 DEF ServiceTypes, InRecord
<1>8. Listening' /\ Inserted' /\ Reporting'
  BY <1>1, <1>2 DEF ServiceInv, Listening, Inserted, Reporting, InRecord
<1>9. IdsFresh' /\ OneCase' /\ RecordsHandled'
  BY <1>1, <1>2 DEF ServiceInv, IdsFresh, OneCase, RecordsHandled
<1>10. TicksLinked'
  BY <1>1, <1>6 DEF TicksLinked
<1> QED BY <1>7, <1>8, <1>9, <1>10 DEF ServiceInv

\* The listener goes back, or stays, where its batch ends: what it passed stays handled.
LEMMA BackToPollStep ==
  ASSUME ServiceInv, stage' = "poll", caseId' = {}, storeFailed' = storeFailed,
         position' \in Nat, batchEnd' \in Nat, committed' \in Nat,
         committed' <= position', position' <= batchEnd', position' <= position, batchEnd' <= Len(log),
         tx' \in [Store!Sessions -> Store!TxState], tx'[Listener] = Store!Idle,
         tx'[Caller] \in {tx[Caller], Store!Idle},
         (seen' = seen /\ ticks' = ticks) \/ (seen' = {} /\ ticks' = <<>>),
         UNCHANGED <<cases, issued, asked, log>>
  PROVE  ServiceInv'
<1>1. cases' = cases /\ issued' = issued /\ asked' = asked /\ log' = log
  OBVIOUS
<1>2. ServiceTypes'
  <2>1. <<>> \in Seq(Tick)
    OBVIOUS
  <2>2. seen' \in SUBSET (Txns \cup Allowed) /\ ticks' \in Seq(Tick)
    BY <2>1 DEF ServiceInv, ServiceTypes
  <2> QED BY <1>1, <2>2 DEF ServiceInv, ServiceTypes
<1>3. Listening'
  BY <1>1 DEF ServiceInv, Listening, InRecord
<1>4. Inserted' /\ Reporting' /\ IdsFresh' /\ OneCase'
  BY <1>1 DEF ServiceInv, Inserted, Reporting, IdsFresh, OneCase
<1>5. RecordsHandled'
  <2>1. position \in Nat
    BY DEF ServiceInv, ServiceTypes
  <2>2. \A i \in 1 .. position' : i \in 1 .. position
    BY <2>1
  <2> QED BY <1>1, <2>2 DEF ServiceInv, RecordsHandled
<1>6. TicksLinked'
  <2>1. CASE seen' = seen /\ ticks' = ticks
    BY <1>1, <2>1 DEF ServiceInv, TicksLinked
  <2>2. CASE seen' = {} /\ ticks' = <<>>
    BY <2>2 DEF TicksLinked
  <2> QED BY <2>1, <2>2
<1> QED BY <1>2, <1>3, <1>4, <1>5, <1>6 DEF ServiceInv

LEMMA BatchEndsStep ==
  ASSUME ServiceInv, Acknowledge \/ AcknowledgeRefused \/ Crash
  PROVE  ServiceInv'
<1>1. /\ position \in Nat /\ batchEnd \in Nat /\ committed \in Nat /\ Len(log) \in Nat
      /\ committed <= position /\ position <= batchEnd /\ batchEnd <= Len(log)
      /\ tx \in [Store!Sessions -> Store!TxState]
  BY LenProperties DEF ServiceInv, ServiceTypes, Listening
<1>2. CASE Acknowledge
  <2>1. /\ stage = "ack" /\ stage' = "poll" /\ committed' = position /\ position' = position /\ batchEnd' = batchEnd
        /\ caseId' = caseId /\ storeFailed' = storeFailed /\ seen' = seen /\ ticks' = ticks /\ tx' = tx
        /\ UNCHANGED <<cases, issued, asked, log>>
    BY <1>2 DEF Acknowledge, storeVars, clientVars, feedVars
  <2>2. caseId = {} /\ tx[Listener] = Store!Idle
    BY <2>1 DEF ServiceInv, Listening, Inserted
  <2> QED BY <1>1, <2>1, <2>2, BackToPollStep
<1>3. CASE AcknowledgeRefused
  <2>1. /\ stage = "ack" /\ stage' = "poll" /\ committed' = committed /\ position' = committed /\ batchEnd' = committed
        /\ caseId' = caseId /\ storeFailed' = storeFailed /\ seen' = seen /\ ticks' = ticks /\ tx' = tx
        /\ UNCHANGED <<cases, issued, asked, log>>
    BY <1>3 DEF AcknowledgeRefused, storeVars, clientVars, kafkaVars, feedVars
  <2>2. caseId = {} /\ tx[Listener] = Store!Idle
    BY <2>1 DEF ServiceInv, Listening, Inserted
  <2>3. committed <= Len(log)
    BY <1>1
  <2> QED BY <1>1, <2>1, <2>2, <2>3, BackToPollStep
<1>4. CASE Crash
  <2>1. /\ stage' = "poll" /\ committed' = committed /\ position' = committed /\ batchEnd' = committed
        /\ caseId' = {} /\ storeFailed' = storeFailed /\ seen' = {} /\ ticks' = <<>>
        /\ tx' = [s \in Store!Sessions |-> Store!Idle]
        /\ UNCHANGED <<cases, issued, asked, log>>
    BY <1>4 DEF Crash, Client!Crash, kafkaVars
  <2>2. /\ tx' \in [Store!Sessions -> Store!TxState] /\ tx'[Listener] = Store!Idle /\ tx'[Caller] = Store!Idle
    BY <2>1, StoreFacts
  <2>3. committed <= Len(log)
    BY <1>1
  <2> QED BY <1>1, <2>1, <2>2, <2>3, BackToPollStep
<1> QED BY <1>2, <1>3, <1>4

\* The agent's report comes back on a web thread.
LEMMA ReportStep ==
  ASSUME ServiceInv, (\E c \in CaseIds : ReportArrives(c)) \/ ReportCommits
  PROVE  ServiceInv'
<1>1. /\ asked' = asked /\ seen' = seen /\ ticks' = ticks /\ log' = log /\ position' = position
      /\ batchEnd' = batchEnd /\ committed' = committed /\ stage' = stage /\ caseId' = caseId
      /\ storeFailed' = storeFailed /\ issued' = issued
  BY DEF ReportArrives, ReportCommits, clientVars, kafkaVars, feedVars, listenerVars, storeVars,
         Store!AttachReport, Store!CommitReport, Store!Rollback
<1>2. Current' = Current
  BY <1>1 DEF Current
<1>3. /\ tx \in [Store!Sessions -> Store!TxState] /\ cases \in [CaseIds -> Store!Row \cup {NoRow}]
  BY DEF ServiceInv, ServiceTypes
<1>4. /\ tx' \in [Store!Sessions -> Store!TxState] /\ tx'[Listener] = tx[Listener]
      /\ cases' \in [CaseIds -> Store!Row \cup {NoRow}]
      /\ \A c \in CaseIds : /\ cases'[c] # NoRow <=> cases[c] # NoRow
                            /\ cases[c] # NoRow => cases'[c].txn = cases[c].txn
      /\ Reporting'
  <2>1. ASSUME NEW c \in CaseIds, ReportArrives(c), ~Store!Exists(c)
        PROVE  tx' = tx /\ cases' = cases
    BY <2>1 DEF ReportArrives, storeVars
  <2>2. ASSUME NEW c \in CaseIds, ReportArrives(c), Store!Exists(c)
        PROVE  /\ cases' = cases /\ cases[c] # NoRow
               /\ tx' = [tx EXCEPT ![Caller] = [op |-> "report", case |-> c, next |-> Store!AfterReport(cases[c].status)]]
               /\ tx' \in [Store!Sessions -> Store!TxState]
    <3>1. /\ cases' = cases /\ cases[c] # NoRow
          /\ tx' = [tx EXCEPT ![Caller] = [op |-> "report", case |-> c, next |-> Store!AfterReport(cases[c].status)]]
      BY <2>2, StoreFacts DEF ReportArrives, Store!AttachReport, Store!Begin
    <3>2. cases[c].status \in Store!Status
      BY <1>3, <3>1 DEF Store!Row
    <3>3. Store!AfterReport(cases[c].status) \in Store!Status
      BY <3>2 DEF Store!AfterReport, Store!Status
    <3>4. [op |-> "report", case |-> c, next |-> Store!AfterReport(cases[c].status)] \in Store!TxState
      BY <3>3 DEF Store!TxState
    <3> QED BY <1>3, <3>1, <3>4
  <2>3. ASSUME Store!CommitReport(Caller)
        PROVE  /\ tx' = [tx EXCEPT ![Caller] = Store!Idle]
               /\ cases' \in [CaseIds -> Store!Row \cup {NoRow}]
               /\ \A c \in CaseIds : /\ cases'[c] # NoRow <=> cases[c] # NoRow
                                     /\ cases[c] # NoRow => cases'[c].txn = cases[c].txn
    <3> DEFINE c   == tx[Caller].case
               row == Store!WithReport(cases[c], tx[Caller].next)
    <3>1. /\ tx[Caller].op = "report" /\ tx' = [tx EXCEPT ![Caller] = Store!Idle]
          /\ cases' = [cases EXCEPT ![c] = row]
      BY <2>3 DEF Store!CommitReport, Store!End
    <3>2. c \in CaseIds /\ tx[Caller].next \in Store!Status /\ cases[c] # NoRow
      <4>1. tx[Caller] \in Store!TxState /\ tx[Caller] # Store!Idle
        BY <1>3, <3>1, StoreFacts
      <4>2. c \in CaseIds /\ tx[Caller].next \in Store!Status
        BY <3>1, <4>1 DEF Store!TxState, Store!Idle
      <4> QED BY <4>1, <4>2 DEF ServiceInv, Reporting
    <3>3. row \in Store!Row /\ row.txn = cases[c].txn /\ row # NoRow
      <4>1. cases[c] \in Store!Row
        BY <1>3, <3>2
      <4>2. row \in Store!Row /\ row.txn = cases[c].txn
        BY <3>2, <4>1 DEF Store!WithReport, Store!Row
      <4> QED BY <4>2, StoreFacts
    <3> HIDE DEF row, c
    <3> QED BY <1>3, <3>1, <3>2, <3>3
  <2>4. ASSUME Store!Rollback(Caller)
        PROVE  tx' = [tx EXCEPT ![Caller] = Store!Idle] /\ cases' = cases
    BY <2>4 DEF Store!Rollback, Store!End
  <2>5. CASE \E c \in CaseIds : ReportArrives(c)
    <3>1. PICK c \in CaseIds : ReportArrives(c)
      BY <2>5
    <3>2. CASE ~Store!Exists(c)
      BY <1>3, <2>1, <3>1, <3>2 DEF ServiceInv, Reporting
    <3>3. CASE Store!Exists(c)
      <4>1. tx'[Listener] = tx[Listener] /\ tx'[Caller].op = "report" /\ tx'[Caller].case = c
        BY <1>3, <2>2, <3>1, <3>3, StoreFacts
      <4> QED BY <1>3, <2>2, <3>1, <3>3, <4>1 DEF Reporting
    <3> QED BY <3>2, <3>3
  <2>6. CASE ReportCommits
    <3>1. CASE Store!CommitReport(Caller)
      BY <1>3, <2>3, <3>1, StoreFacts DEF Reporting
    <3>2. CASE Store!Rollback(Caller)
      BY <1>3, <2>4, <3>2, StoreFacts DEF Reporting
    <3> QED BY <2>6, <3>1, <3>2 DEF ReportCommits
  <2> QED BY <2>5, <2>6
<1>5. RowsKept(cases, cases') /\ \A i \in 1 .. Len(log) : log'[i] = log[i]
  BY <1>1, <1>4 DEF RowsKept
<1>6. /\ \A i \in 1 .. position : log[i] \in Txns => log'[i] \in Txns /\ Handled(cases', log', storeFailed', i)
      /\ \A tick : Linked(cases, log, storeFailed, tick) => Linked(cases', log', storeFailed', tick)
      /\ \A t : CasesIn(cases, t) \subseteq CasesIn(cases', t)
  BY <1>1, <1>5, StepKeepsPast
<1>7. \A t : CasesIn(cases', t) = CasesIn(cases, t)
  BY <1>4 DEF CasesIn
<1>8. ServiceTypes'
  BY <1>1, <1>4 DEF ServiceInv, ServiceTypes
<1>9. Listening'
  BY <1>1, <1>2 DEF ServiceInv, Listening
<1>10. Inserted'
  <2>1. ASSUME stage \in {"offer", "commit"}
        PROVE  cases'[tx[Listener].case] = NoRow
    BY <1>4, <2>1, OpenInsert
  <2> QED BY <1>1, <1>2, <1>4, <1>7, <2>1 DEF ServiceInv, Inserted
<1>11. IdsFresh' /\ OneCase'
  BY <1>1, <1>4 DEF ServiceInv, IdsFresh, OneCase
<1>12. RecordsHandled'
  BY <1>1, <1>2, <1>6, <1>7 DEF ServiceInv, RecordsHandled
<1>13. TicksLinked'
  BY <1>1, <1>6 DEF ServiceInv, TicksLinked
<1> QED BY <1>4, <1>8, <1>9, <1>10, <1>11, <1>12, <1>13 DEF ServiceInv

\* Every step of the service keeps the invariant.
LEMMA StepServiceInv == ServiceInv /\ [Next]_vars => ServiceInv'
<1> SUFFICES ASSUME ServiceInv, [Next]_vars PROVE ServiceInv'
  OBVIOUS
<1>1. CASE \E r \in Records : Produce(r)
  BY <1>1, ProduceStep
<1>2. CASE Listen
  <2>1. CASE Poll
    BY <2>1, PollStep
  <2>2. CASE SkipUnreadable
    BY <2>2, SkipUnreadableStep
  <2>3. CASE PassAllowed
    BY <2>3, PassAllowedStep
  <2>4. CASE \E c \in CaseIds : InsertCase(c)
    BY <2>4, InsertCaseStep
  <2>5. CASE FindDuplicate
    BY <2>5, FindDuplicateStep
  <2>6. CASE OfferToAgent
    BY <2>6, OfferToAgentStep
  <2>7. CASE CommitCase
    BY <2>7, CommitCaseStep
  <2>8. CASE StoreFails
    BY <2>8, StoreFailsStep
  <2>9. CASE PublishTick
    BY <2>9, PublishTickStep
  <2>10. CASE RememberTick
    BY <2>10, RememberTickStep
  <2>11. CASE Acknowledge \/ AcknowledgeRefused
    BY <2>11, BatchEndsStep
  <2> QED BY <1>2, <2>1, <2>2, <2>3, <2>4, <2>5, <2>6, <2>7, <2>8, <2>9, <2>10, <2>11 DEF Listen
<1>3. CASE DrainStep \/ HandedOff \/ (\E c \in CaseIds : \E k \in 1 .. MaxAttempts : AgentAccepts(c, k))
  <2>1. asked' = asked
    BY <1>3 DEF AgentAccepts, Client!Accept, DrainStep, HandedOff, Client!StartDrain, Client!Poll, Client!Send, Client!Failed, Client!Answered
  <2>2. UNCHANGED <<storeVars, kafkaVars, feedVars, listenerVars>>
    BY <1>3 DEF AgentAccepts, DrainStep, HandedOff
  <2> QED BY <2>1, <2>2, AsideStep DEF storeVars, kafkaVars, feedVars, listenerVars
<1>4. CASE (\E c \in CaseIds : ReportArrives(c)) \/ ReportCommits
  BY <1>4, ReportStep
<1>5. CASE Crash
  BY <1>5, BatchEndsStep
<1>6. CASE UNCHANGED vars
  BY <1>6, AsideStep DEF vars, storeVars, clientVars, kafkaVars, feedVars, listenerVars
<1> QED BY <1>1, <1>2, <1>3, <1>4, <1>5, <1>6 DEF Next

-----------------------------------------------------------------------------
(* What the service promises *)

\* The invariant behind the theorems below: where the listener is in its batch, the transaction it has open, the
\* ids already drawn, and what every record it passed and every tick it published has left in the case table.
THEOREM ServiceInvariant == Spec => []ServiceInv
BY InitServiceInv, StepServiceInv, PTL DEF Spec

\* At-least-once: whatever crashed and however often the acknowledgement was refused, a flagged decision the
\* service will not read again has its case or a counted failure (DecisionConsumer.onDecision, ack-mode batch).
THEOREM CommittedAreHandled == Spec => []CommittedRecordsHandled
<1>1. ServiceInv => CommittedRecordsHandled
  <2> SUFFICES ASSUME ServiceInv, NEW i \in 1 .. committed, log[i] \in Txns
               PROVE  Store!CasesOf(log[i]) # {} \/ i \in storeFailed
    BY DEF CommittedRecordsHandled
  <2>1. i \in 1 .. position
    BY DEF ServiceInv, ServiceTypes, Listening
  <2>2. Handled(cases, log, storeFailed, i)
    BY <2>1 DEF ServiceInv, RecordsHandled
  <2> QED BY <2>2, StoreFacts DEF Handled
<1> QED BY <1>1, ServiceInvariant, PTL

\* A row on the dashboard links to the committed case of its own transaction, a flagged row without a link is one
\* whose store failed, and redelivery shows no decision twice (DecisionConsumer, FeedBroadcaster.recentIds).
THEOREM TicksLinkToTheirCase == Spec => []TicksLinkTheirCase
<1>1. ServiceInv => TicksLinkTheirCase
  <2> SUFFICES ASSUME ServiceInv PROVE TicksLinkTheirCase
    OBVIOUS
  <2>1. \A j, k \in 1 .. Len(ticks) : ticks[j].txn = ticks[k].txn => j = k
    BY DEF ServiceInv, TicksLinked
  <2>2. ASSUME NEW k \in 1 .. Len(ticks)
        PROVE  /\ ticks[k].cases \subseteq Store!CasesOf(ticks[k].txn)
               /\ ticks[k].txn \in Txns /\ ticks[k].cases = {} =>
                    \E i \in storeFailed : log[i] = ticks[k].txn
    <3>1. Linked(cases, log, storeFailed, ticks[k])
      BY DEF ServiceInv, TicksLinked
    <3> QED BY <3>1, StoreFacts DEF Linked
  <2> QED BY <2>1, <2>2 DEF TicksLinkTheirCase
<1> QED BY <1>1, ServiceInvariant, PTL

\* Redelivery after a crash or a refused acknowledgement, with the agent's reports and the hand-off in between,
\* still leaves one case per transaction, and none is being inserted beside one (CaseRepository.insertIfAbsent).
THEOREM OneCaseInService == Spec => []Store!OneCasePerTxn
<1>1. ServiceInv => Store!OneCasePerTxn
  <2> SUFFICES ASSUME ServiceInv, NEW t \in Txns
               PROVE  /\ \A c, d \in Store!CasesOf(t) : c = d
                      /\ \A s \in Store!Inserters(t) :
                           Store!CasesOf(t) = {} /\ \A r \in Store!Inserters(t) : r = s
    BY DEF Store!OneCasePerTxn
  <2>1. \A c, d \in CasesIn(cases, t) : c = d
    BY DEF ServiceInv, OneCase, CasesIn
  <2>2. ASSUME NEW s \in Store!Inserters(t)
        PROVE  s = Listener /\ CasesIn(cases, t) = {}
    <3>1. s \in Store!Sessions /\ tx[s].op = "insert" /\ tx[s].txn = t
      BY DEF Store!Inserters
    <3>2. s # Caller
      BY <3>1, StoreFacts DEF ServiceInv, Reporting
    <3>3. s = Listener
      BY <3>1, <3>2 DEF Store!Sessions
    <3>4. stage \in {"offer", "commit"}
      BY <3>1, <3>3, StoreFacts DEF ServiceInv, Inserted
    <3> QED BY <3>1, <3>3, <3>4 DEF ServiceInv, Inserted
  <2> QED BY <2>1, <2>2, StoreFacts
<1> QED BY <1>1, ServiceInvariant, PTL

-----------------------------------------------------------------------------
(* The service and its parts *)

\* The id recordFlagged has drawn is new to the agent's client.
LEMMA OfferIsFresh ==
  ASSUME ServiceInv, stage = "offer"
  PROVE  tx[Listener].case \in CaseIds \ asked
BY OpenInsert DEF ServiceInv, IdsFresh

\* With the listener offering cases from inside its transactions and the JVM going down under it, the hand-off is
\* still the one AnalystAgentClient describes: what is proved about its queue holds in the service.
THEOREM ServiceImplementsClient == Spec => Client!Spec
<1>1. Init => Client!Init
  BY DEF Init
<1>2. ServiceInv /\ [Next]_vars => [Client!Next]_(Client!vars)
  <2> SUFFICES ASSUME ServiceInv, [Next]_vars PROVE Client!Next \/ UNCHANGED clientVars
    BY DEF Client!vars, clientVars
  <2>1. CASE OfferToAgent
    <3>1. stage = "offer" /\ Client!Investigate(tx[Listener].case)
      BY <2>1 DEF OfferToAgent
    <3>2. tx[Listener].case \in CaseIds
      BY <3>1, OfferIsFresh
    <3> QED BY <3>1, <3>2 DEF Client!Next
  <2>2. CASE DrainStep \/ HandedOff \/ (\E c \in CaseIds : \E k \in 1 .. MaxAttempts : AgentAccepts(c, k))
    BY <2>2 DEF AgentAccepts, DrainStep, HandedOff, Client!Next, Client!Drain
  <2>3. CASE Crash
    BY <2>3 DEF Crash, Client!Next
  <2>4. CASE Listen /\ ~OfferToAgent
    BY <2>4 DEF Listen, Poll, SkipUnreadable, PassAllowed, InsertCase, FindDuplicate, CommitCase, StoreFails,
                PublishTick, RememberTick, Acknowledge, AcknowledgeRefused
  <2>5. CASE (\E r \in Records : Produce(r)) \/ (\E c \in CaseIds : ReportArrives(c)) \/ ReportCommits
    BY <2>5 DEF Produce, ReportArrives, ReportCommits
  <2>6. CASE UNCHANGED vars
    BY <2>6 DEF vars
  <2> QED BY <2>1, <2>2, <2>3, <2>4, <2>5, <2>6 DEF Next
<1> QED BY <1>1, <1>2, ServiceInvariant, PTL DEF Spec, Client!Spec

\* The end of the JVM as the case tables see it: every open transaction is rolled back at once.
AllRolledBack ==
    /\ \A s \in Store!Sessions : tx'[s] = Store!Idle
    /\ UNCHANGED <<cases, events, issued>>

\* The case tables change only by the statements, commits and rollbacks of CaseStore, or by all of its open
\* transactions ending together when the JVM does: no other code of the service writes them.
THEOREM ServiceUsesStore == Spec => Store!Init /\ [][Store!Next \/ AllRolledBack]_storeVars
<1>1. Init => Store!Init
  BY DEF Init
<1>2. ServiceInv /\ [Next]_vars => [Store!Next \/ AllRolledBack]_storeVars
  <2> SUFFICES ASSUME ServiceInv, [Next]_vars PROVE Store!Next \/ AllRolledBack \/ UNCHANGED storeVars
    OBVIOUS
  <2>1. ASSUME NEW c \in CaseIds, InsertCase(c)
        PROVE  Store!Next
    <3>1. Current \in Txns /\ Store!InsertIfAbsent(Listener, Current, c)
      BY <2>1 DEF InsertCase
    <3> QED BY <3>1 DEF Store!Next, Store!RecordFlagged
  <2>2. CASE CommitCase
    BY <2>2 DEF CommitCase, Store!Next, Store!RecordFlagged
  <2>3. CASE StoreFails
    BY <2>3, StoreFacts DEF StoreFails, Store!Next
  <2>4. CASE Listen /\ ~CommitCase /\ ~StoreFails /\ ~(\E c \in CaseIds : InsertCase(c))
    BY <2>4 DEF Listen, Poll, SkipUnreadable, PassAllowed, FindDuplicate, OfferToAgent,
                PublishTick, RememberTick, Acknowledge, AcknowledgeRefused
  <2>5. ASSUME NEW c \in CaseIds, ReportArrives(c)
        PROVE  Store!Next \/ UNCHANGED storeVars
    BY <2>5 DEF ReportArrives, Store!Next, Store!StoreReport
  <2>6. CASE ReportCommits
    BY <2>6, StoreFacts DEF ReportCommits, Store!Next, Store!StoreReport
  <2>7. CASE Crash
    BY <2>7 DEF Crash, AllRolledBack
  <2>8. CASE (\E r \in Records : Produce(r)) \/ DrainStep \/ HandedOff \/ (\E c \in CaseIds : \E k \in 1 .. MaxAttempts : AgentAccepts(c, k))
    BY <2>8 DEF AgentAccepts, Produce, DrainStep, HandedOff
  <2>9. CASE UNCHANGED vars
    BY <2>9 DEF vars
  <2> QED BY <2>1, <2>2, <2>3, <2>4, <2>5, <2>6, <2>7, <2>8, <2>9 DEF Next, Listen
<1> QED BY <1>1, <1>2, ServiceInvariant, PTL DEF Spec

=============================================================================
