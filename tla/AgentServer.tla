---------------------------- MODULE AgentServer ----------------------------
(***************************************************************************)
(* The analyst agent's process (agent/server.py) behind the case service's *)
(* hand-off queue (AnalystAgentClient).  Every endpoint, /investigate too, *)
(* runs on a thread of one pool.  That one answers 202 at once and leaves  *)
(* a background task: it takes a thread of the same pool, waits there for  *)
(* the run semaphore, runs the graph and never raises.  Nothing of it is   *)
(* written down: a restart loses what was accepted.  What the graph does   *)
(* is in Investigation, what a question does is in Ask.                    *)
(***************************************************************************)
EXTENDS AnalystAgentClient, FiniteSets

CONSTANTS
    Threads,        \* size of the pool
    MaxConcurrent,  \* settings.max_concurrent
    Blocking,       \* calls of the blocking endpoints, /investigate/sync, /ask, /reindex
    MaxRestarts     \* bound: restarts of the agent

ASSUME ServerAssumption ==
    /\ Threads \in Nat \ {0} /\ MaxConcurrent \in Nat \ {0}
    /\ MaxRestarts \in Nat
    /\ Blocking \cap (CaseIds \X (1 .. MaxAttempts)) = {}

\* The k-th POST about a case, or a blocking call.
Tasks == (CaseIds \X (1 .. MaxAttempts)) \cup Blocking

VARIABLES
    agent,    \* the state _startup left, "ready" or "no_model"; "starting" while it runs
    stage,    \* per task: "none", "sent" and waiting for a thread, "accepted", "waiting" for
              \* the semaphore, "running" the graph, "asking", and its end: "done" (a report,
              \* an error or an answer), "refused", or "lost"
    permits,  \* free places of _RUN_LOCK
    restarts

serverVars == <<agent, stage, permits, restarts>>
allVars == <<vars, serverVars>>

Ends == {"done", "refused", "lost"}
OnThread(t) == stage[t] \in {"waiting", "running", "asking"}
ThreadFree  == Cardinality({t \in Tasks : OnThread(t)}) < Threads

Moves(t, from, to) == stage[t] = from /\ stage' = [stage EXCEPT ![t] = to]

-----------------------------------------------------------------------------
(* Start and restart *)

\* _startup: build_llm and build_graph may raise.
Startup ==
    /\ agent = "starting"
    /\ agent' \in {"ready", "no_model"}
    /\ UNCHANGED <<vars, stage, permits, restarts>>

\* The process ends and another starts: tasks and semaphore were in memory.
Restart ==
    /\ restarts < MaxRestarts
    /\ agent # "starting"
    /\ restarts' = restarts + 1
    /\ agent' = "starting" /\ permits' = MaxConcurrent
    /\ stage' = [t \in Tasks |-> IF stage[t] = "none" \/ stage[t] \in Ends THEN stage[t] ELSE "lost"]
    /\ UNCHANGED vars

-----------------------------------------------------------------------------
(* Requests *)

\* The client's POST reaches the server, or nobody: the connection is refused, the request lost.
Post ==
    /\ Send
    /\ LET t == <<hand.case, posts'[hand.case]>>
       IN  /\ t \in Tasks
           /\ Moves(t, "none", "lost") \/ (agent # "starting" /\ Moves(t, "none", "sent"))
    /\ UNCHANGED <<agent, permits, restarts>>

\* The endpoint has got a thread, for as long as it takes to queue the background task or to
\* answer 503.  The client may have timed out long ago.
Endpoint(t) ==
    /\ t \notin Blocking
    /\ ThreadFree
    /\ \/ agent = "ready" /\ Moves(t, "sent", "accepted") /\ Accept(t[1], t[2])
       \/ agent = "no_model" /\ Moves(t, "sent", "refused") /\ UNCHANGED vars
    /\ UNCHANGED <<agent, permits, restarts>>

\* A blocking call takes its thread at once or waits for one.  A question is also refused when
\* check_model found the model's id unusable, or by the limiter.
Call(b) ==
    /\ agent # "starting"
    /\ ThreadFree
    /\ \/ agent = "ready" /\ (Moves(b, "none", "waiting") \/ Moves(b, "none", "asking"))
       \/ Moves(b, "none", "refused")
    /\ UNCHANGED <<vars, agent, permits, restarts>>

\* The question is answered, whatever became of it.
AskReturns(b) ==
    /\ b \in Blocking
    /\ Moves(b, "asking", "done")
    /\ UNCHANGED <<vars, agent, permits, restarts>>

\* The background task starts on a thread of the pool.
TakeThread(t) ==
    /\ t \notin Blocking
    /\ ThreadFree
    /\ Moves(t, "accepted", "waiting")
    /\ UNCHANGED <<vars, agent, permits, restarts>>

\* with _RUN_LOCK: the semaphore picks any of its waiters.
TakePermit(t) ==
    /\ permits > 0
    /\ permits' = permits - 1
    /\ Moves(t, "waiting", "running")
    /\ UNCHANGED <<vars, agent, restarts>>

\* Mutant of Finish: a run that raises keeps its place.
FinishUnlessError(t) ==
    /\ Moves(t, "running", "done")
    /\ permits' \in {permits, permits + 1}
    /\ UNCHANGED <<vars, agent, restarts>>

\* Mutant of Finish: the graph's tools take a thread of the same pool.
FinishOnSecondThread(t) ==
    /\ ThreadFree
    /\ Moves(t, "running", "done")
    /\ permits' = permits + 1
    /\ UNCHANGED <<vars, agent, restarts>>

\* _run has its report or caught an exception, and the semaphore is given back.
Finish(t) ==
    /\ Moves(t, "running", "done")
    /\ permits' = permits + 1
    /\ UNCHANGED <<vars, agent, restarts>>

-----------------------------------------------------------------------------
ServerInit ==
    /\ Init
    /\ agent = "starting" /\ permits = MaxConcurrent /\ restarts = 0
    /\ stage = [t \in Tasks |-> "none"]

ClientStep ==
    /\ (StartDrain \/ Poll \/ Answered \/ Failed) \/ Crash \/ \E c \in CaseIds : Investigate(c)
    /\ UNCHANGED serverVars

Work(t) == Endpoint(t) \/ TakeThread(t) \/ TakePermit(t) \/ Finish(t) \/ AskReturns(t)

ServerNext ==
    \/ ClientStep \/ Post
    \/ Startup \/ Restart
    \/ \E b \in Blocking : Call(b)
    \/ \E t \in Tasks : Work(t)

ServerSpec == ServerInit /\ [][ServerNext]_allVars

\* The scheduler thread of the case service goes on draining, and the pool goes on working: it
\* serves what waits for a thread, hands a free place to some waiter, and every run and question
\* ends, its HTTP and model calls having timeouts.
FairServerSpec ==
    /\ ServerSpec
    /\ WF_allVars(Post \/ ((StartDrain \/ Poll \/ Answered \/ Failed) /\ UNCHANGED serverVars))
    /\ WF_allVars(Startup \/ (\E t \in Tasks : Work(t)) \/ \E b \in Blocking : Call(b))

-----------------------------------------------------------------------------
(* Properties *)

\* The hand-off and the agent agree on who has a case: the agent works only on POSTs that were
\* sent and that it accepted, once for each, a case counted as handed off is one of them, no more
\* graphs run than there are places, and every place is free or held by a run - through late
\* acceptances, errors, crashes of the case service and restarts.
HandoffAgrees ==
    /\ \A c \in CaseIds : \A k \in 1 .. MaxAttempts :
         /\ stage[<<c, k>>] # "none" <=> k <= posts[c]
         /\ stage[<<c, k>>] \in {"accepted", "waiting", "running", "done"} => k \in received[c]
         /\ stage[<<c, k>>] \in {"none", "sent", "refused"} => k \notin received[c]
    /\ \A c \in handedOff : received[c] # {}
    /\ permits + Cardinality({t \in Tasks : stage[t] = "running"}) = MaxConcurrent

\* Every POST that reached the agent is answered, and what was accepted comes to its end or is lost
\* in a restart: investigations that wait for the semaphore on the pool's threads keep neither
\* each other nor a question nor the next POST, which needs a thread too, waiting for ever.
AcceptedIsServed ==
    <>[](\A t \in Tasks : stage[t] \in Ends \/ (t \notin Blocking /\ stage[t] = "none"))
=============================================================================
