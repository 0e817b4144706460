------------------------- MODULE AnalystAgentClient -------------------------
(***************************************************************************)
(* The hand-off of new cases to the analyst agent: AnalystAgentClient of   *)
(* the case service.  The Kafka listener offers a case to a bounded queue  *)
(* in memory; the scheduler thread drains it with one POST /investigate    *)
(* per entry, a failed POST goes back to the end of the queue until its    *)
(* attempts are used up.  An exception does not say whether the agent got  *)
(* the request: a read timeout looks like a refused connection, and the    *)
(* agent may still take a request the drain no longer waits for.           *)
(***************************************************************************)
EXTENDS Naturals, Sequences

CONSTANTS
    CaseIds,      \* the cases that can be handed off
    MaxQueued,    \* fraudgraph.agent.maxQueued, at least 1
    MaxAttempts,  \* fraudgraph.agent.maxAttempts
    Nobody        \* stands for "no attempt polled"

ASSUME ClientAssumption ==
    /\ MaxQueued \in Nat \ {0}
    /\ MaxAttempts \in Nat \ {0}

Attempt == [case : CaseIds, attempts : 0 .. MaxAttempts - 1]

ASSUME NobodyAssumption == Nobody \notin Attempt

VARIABLES
    queue,     \* the ArrayBlockingQueue of attempts
    left,      \* iterations left in the running drain, 0 between two drains
    hand,      \* the attempt drain polled and has not finished with
    http,      \* its POST: "unsent", "sent", or "accepted" with the 202 under way
    asked,     \* cases investigate was called for
    posts,     \* POSTs sent per case
    received,  \* per case which of its POSTs the agent accepted: each starts an investigation
    handedOff, \* cases whose POST was answered (outcome ok)
    gaveUp,    \* cases given up after MaxAttempts (outcome gave_up)
    dropped,   \* cases dropped from a full queue (fraudgraph_agent_dropped_total)
    lost       \* cases whose attempt died with the JVM

vars == <<queue, left, hand, http, asked, posts, received, handedOff, gaveUp, dropped, lost>>
counters == <<posts, received>>
outcomes == <<handedOff, gaveUp, dropped, lost>>

Queued(c) == \E i \in 1 .. Len(queue) : queue[i].case = c
InHand(c) == hand # Nobody /\ hand.case = c
Settled   == handedOff \cup gaveUp \cup dropped \cup lost

\* queue.offer succeeds.
Fits(q) == Len(q) < MaxQueued

\* AnalystAgentClient.investigate, called once for a case: by the transaction that made it.
Investigate(c) ==
    /\ c \notin asked
    /\ asked' = asked \cup {c}
    /\ \/ /\ Fits(queue)
          /\ queue' = Append(queue, [case |-> c, attempts |-> 0])
          /\ UNCHANGED dropped
       \/ /\ ~Fits(queue)
          /\ dropped' = dropped \cup {c}
          /\ UNCHANGED queue
    /\ UNCHANGED <<left, hand, http, counters, handedOff, gaveUp, lost>>

-----------------------------------------------------------------------------
(* AnalystAgentClient.drain, on the scheduler thread *)

\* Mutant of StartDrain: the pass is one entry short.
DrainStopsShort ==
    /\ left = 0
    /\ queue # <<>>
    /\ left' = Len(queue) - 1
    /\ UNCHANGED <<queue, hand, http, asked, counters, outcomes>>

\* One pass is as long as the queue was when it started: what it puts back waits for the next.
StartDrain ==
    /\ left = 0
    /\ queue # <<>>
    /\ left' = Len(queue)
    /\ UNCHANGED <<queue, hand, http, asked, counters, outcomes>>

Poll ==
    /\ left > 0
    /\ hand = Nobody
    /\ hand'  = Head(queue)
    /\ queue' = Tail(queue)
    /\ http'  = "unsent"
    /\ UNCHANGED <<left, asked, counters, outcomes>>

\* The request leaves, and the drain waits for its answer.
Send ==
    /\ hand # Nobody
    /\ http = "unsent"
    /\ posts' = [posts EXCEPT ![hand.case] = @ + 1]
    /\ http' = "sent"
    /\ UNCHANGED <<queue, left, hand, asked, received, outcomes>>

\* The agent answers 202 to the k-th POST about a case, whether or not anyone waits for it still.
Accept(c, k) ==
    /\ k \in 1 .. posts[c]
    /\ k \notin received[c]
    /\ received' = [received EXCEPT ![c] = @ \cup {k}]
    /\ http' = IF http = "sent" /\ hand.case = c /\ k = posts[c] THEN "accepted" ELSE http
    /\ UNCHANGED <<queue, left, hand, asked, posts, outcomes>>

NextIteration ==
    /\ left' = left - 1
    /\ hand' = Nobody
    /\ http' = "unsent"

\* The 202 arrived: count it, tell onHandoff.
Answered ==
    /\ http = "accepted"
    /\ handedOff' = handedOff \cup {hand.case}
    /\ NextIteration
    /\ UNCHANGED <<queue, asked, counters, gaveUp, dropped, lost>>

\* Mutant of Failed: the result of offer is ignored.
FailedSilently ==
    /\ hand # Nobody /\ http # "unsent"
    /\ IF hand.attempts + 1 < MaxAttempts /\ Fits(queue)
       THEN queue' = Append(queue, [case |-> hand.case, attempts |-> hand.attempts + 1])
       ELSE UNCHANGED queue
    /\ NextIteration
    /\ UNCHANGED <<asked, counters, outcomes>>

\* An exception, whether or not the agent has the case by now.
Failed ==
    /\ hand # Nobody
    /\ http # "unsent"
    /\ \/ /\ hand.attempts + 1 >= MaxAttempts
          /\ gaveUp' = gaveUp \cup {hand.case}
          /\ UNCHANGED <<queue, dropped>>
       \/ /\ hand.attempts + 1 < MaxAttempts
          /\ Fits(queue)
          /\ queue' = Append(queue, [case |-> hand.case, attempts |-> hand.attempts + 1])
          /\ UNCHANGED <<gaveUp, dropped>>
       \/ /\ hand.attempts + 1 < MaxAttempts
          /\ ~Fits(queue)
          /\ dropped' = dropped \cup {hand.case}
          /\ UNCHANGED <<queue, gaveUp>>
    /\ NextIteration
    /\ UNCHANGED <<asked, counters, handedOff, lost>>

-----------------------------------------------------------------------------
\* The JVM ends: the queue was in memory only.
Crash ==
    /\ lost'  = lost \cup {c \in CaseIds : Queued(c) \/ InHand(c)}
    /\ queue' = <<>>
    /\ left'  = 0
    /\ hand'  = Nobody
    /\ http'  = "unsent"
    /\ UNCHANGED <<asked, counters, handedOff, gaveUp, dropped>>

Init ==
    /\ queue = <<>> /\ left = 0 /\ hand = Nobody /\ http = "unsent"
    /\ asked = {} /\ handedOff = {} /\ gaveUp = {} /\ dropped = {} /\ lost = {}
    /\ posts    = [c \in CaseIds |-> 0]
    /\ received = [c \in CaseIds |-> {}]

Drain == StartDrain \/ Poll \/ Send \/ Answered \/ Failed

Next ==
    \/ \E c \in CaseIds : Investigate(c) \/ \E k \in 1 .. MaxAttempts : Accept(c, k)
    \/ Drain
    \/ Crash

Spec == Init /\ [][Next]_vars

\* The scheduler thread keeps running; nothing else has to happen.
FairSpec == Spec /\ WF_vars(Drain)

-----------------------------------------------------------------------------
(* Properties *)

\* Every variable keeps its type, the queue its bound, and the running drain never polls an
\* empty queue (AnalystAgentClient.drain tests for it all the same).
TypeOK ==
    /\ queue \in Seq(Attempt)
    /\ Len(queue) <= MaxQueued
    /\ hand \in Attempt \cup {Nobody}
    /\ left \in Nat
    /\ left <= Len(queue) + (IF hand = Nobody THEN 0 ELSE 1)
    /\ hand # Nobody => left > 0
    /\ http \in {"unsent", "sent", "accepted"}
    /\ (hand = Nobody) => http = "unsent"
    /\ asked \in SUBSET CaseIds /\ handedOff \in SUBSET CaseIds /\ gaveUp \in SUBSET CaseIds
    /\ dropped \in SUBSET CaseIds /\ lost \in SUBSET CaseIds
    /\ posts \in [CaseIds -> Nat] /\ received \in [CaseIds -> SUBSET Nat]

\* The agent is asked at most maxAttempts times about a case, and a POST that did not count
\* as answered may still start an investigation, late: never more of them than POSTs.
AttemptsBounded ==
    \A c \in CaseIds : received[c] \subseteq 1 .. posts[c] /\ posts[c] <= MaxAttempts

\* No case disappears: one that was to be investigated is in the queue, in the drain's hand,
\* handed off, given up, counted as dropped, or went down with the JVM, and only one of these.
EveryCaseAccountedFor ==
    /\ \A c \in asked :
         Queued(c) \/ InHand(c) \/ c \in Settled
    /\ \A c \in CaseIds : Queued(c) \/ InHand(c) => c \in asked \ Settled
    /\ \A i, j \in 1 .. Len(queue) : queue[i].case = queue[j].case => i = j
    /\ \A c \in CaseIds : InHand(c) => ~Queued(c)
    /\ handedOff \cap gaveUp = {} /\ handedOff \cap dropped = {} /\ handedOff \cap lost = {}
    /\ gaveUp \cap dropped = {} /\ gaveUp \cap lost = {} /\ dropped \cap lost = {}

\* A case counted as handed off did reach the agent.
HandedOffIsReceived == \A c \in handedOff : received[c] # {}

\* With the scheduler running, every case comes to one of its ends: the agent being away
\* for ever does not keep an attempt in the queue for ever.
EveryCaseSettled ==
    \A c \in CaseIds :
        c \in asked ~> c \in Settled
=============================================================================
