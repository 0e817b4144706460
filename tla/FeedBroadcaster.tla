-------------------------- MODULE FeedBroadcaster --------------------------
(***************************************************************************)
(* The live feed of the case service: the Kafka listener publishes ticks   *)
(* into a bounded queue, the scheduler thread flushes the queue as one     *)
(* frame per interval to every session, web threads register and close     *)
(* sessions.  The three share the queue, its counter, the history and the  *)
(* set of sessions with no lock over more than one of them, so each access *)
(* to one of them is a step.                                               *)
(*                                                                         *)
(* A tick is identified with its transaction.  A frame is the set of its   *)
(* ticks: flush sorts it by decision time, which is a function of the tick.*)
(***************************************************************************)
EXTENDS Integers, SequencesExt

CONSTANTS
    Flagged,      \* ticks with a verdict that creates a case
    Allows,       \* ALLOW ticks
    Sessions,     \* dashboards that may connect, each once
    MaxQueued,    \* fraudgraph.feed.maxQueued
    MaxHistory,   \* fraudgraph.feed.maxHistory
    RecentIds,    \* FeedBroadcaster.RECENT_IDS
    NoTick,       \* stands for a null DecisionTick
    MaxPublishes  \* bound: calls of publish

ASSUME FeedAssumption ==
    /\ MaxQueued \in Nat \ {0}
    /\ MaxHistory \in Nat
    /\ RecentIds \in Nat \ {0}
    /\ MaxPublishes \in Nat
    /\ Flagged \cap Allows = {}
    /\ NoTick \notin Flagged \cup Allows

Ticks == Flagged \cup Allows

VARIABLES
    sessions, pending, pendingCount, history, recentIds,  \* fields of FeedBroadcaster
    stage, tick, head,           \* the listener thread in publish and makeRoom
    flushing, batch, targets,    \* the scheduler thread in flush
    joining, backfill,           \* web threads in register
    open,                        \* sessions whose socket is open
    got,                         \* ticks each session was sent
    failed,                      \* ticks each session was to be sent when the send only logged why not
    due,                         \* ticks that entered the feed since the session registered
    dropped,                     \* ticks counted in fraudgraph_feed_dropped_total
    published

listenerVars  == <<stage, tick, head>>
schedulerVars == <<flushing, batch, targets>>
webVars       == <<joining, backfill, open>>
outcome       == <<got, failed>>
seenVars      == <<history, recentIds, due, published>>
vars == <<sessions, pending, pendingCount, outcome, dropped,
          listenerVars, schedulerVars, webVars, seenVars>>

\* Appends and forgets the eldest beyond n.
Push(seq, e, n) == IF Len(seq) < n THEN Append(seq, e) ELSE Tail(Append(seq, e))

-----------------------------------------------------------------------------
(* FeedBroadcaster.publish and makeRoom, on the listener thread *)

\* The synchronized block: a redelivered decision ends here, another enters the history.
Enter(t) ==
    /\ stage = "idle"
    /\ published < MaxPublishes
    /\ published' = published + 1
    /\ \/ /\ t \in ToSet(recentIds)
          /\ UNCHANGED <<history, recentIds, due, tick, stage>>
       \/ /\ t \notin ToSet(recentIds)
          /\ recentIds' = Push(recentIds, t, RecentIds)
          /\ history' = Push(history, t, MaxHistory)
          /\ due' = [s \in Sessions |-> IF joining[s] = "out" THEN due[s] ELSE due[s] \cup {t}]
          /\ tick' = t
          /\ stage' = "watch"
    /\ UNCHANGED <<sessions, pending, pendingCount, outcome, dropped, head, schedulerVars, webVars>>

IsAnyoneWatching ==
    /\ stage = "watch"
    /\ stage' = IF sessions = {} THEN "idle" ELSE "size"
    /\ UNCHANGED <<sessions, pending, pendingCount, outcome, dropped, tick, head,
                   schedulerVars, webVars, seenVars>>

\* Mutant of IsThereRoom: > instead of >=.
IsThereRoomForOneMore ==
    /\ stage = "size"
    /\ stage' = IF pendingCount > MaxQueued THEN "peek" ELSE "add"
    /\ UNCHANGED <<sessions, pending, pendingCount, outcome, dropped, tick, head,
                   schedulerVars, webVars, seenVars>>

IsThereRoom ==
    /\ stage = "size"
    /\ stage' = IF pendingCount >= MaxQueued THEN "peek" ELSE "add"
    /\ UNCHANGED <<sessions, pending, pendingCount, outcome, dropped, tick, head,
                   schedulerVars, webVars, seenVars>>

DropIncoming ==
    /\ dropped' = dropped \cup {tick}
    /\ stage' = "idle"

\* makeRoom: an empty queue has room, a flagged head stays and the new tick is dropped.
Peek ==
    /\ stage = "peek"
    /\ \/ /\ pending = <<>>
          /\ stage' = "add"
          /\ UNCHANGED <<head, dropped>>
       \/ /\ pending # <<>>
          /\ Head(pending) \in Flagged
          /\ DropIncoming
          /\ UNCHANGED head
       \/ /\ pending # <<>>
          /\ Head(pending) \notin Flagged
          /\ head' = Head(pending)
          /\ stage' = "remove"
          /\ UNCHANGED dropped
    /\ UNCHANGED <<sessions, pending, pendingCount, outcome, tick, schedulerVars, webVars, seenVars>>

\* Mutant of RemoveHead: poll() instead of remove(head).
RemoveWhateverIsFirst ==
    /\ stage = "remove"
    /\ IF pending = <<>>
       THEN DropIncoming /\ UNCHANGED pending
       ELSE /\ pending' = Tail(pending)
            /\ stage' = "decrement"
            /\ UNCHANGED dropped
    /\ UNCHANGED <<sessions, pendingCount, outcome, tick, head, schedulerVars, webVars, seenVars>>

\* makeRoom, pending.remove(head): the head it looked at may have been flushed since, then the new tick is dropped.
RemoveHead ==
    /\ stage = "remove"
    /\ \/ /\ head \in ToSet(pending)
          /\ pending' = RemoveFirst(pending, head)
          /\ stage' = "decrement"
          /\ UNCHANGED dropped
       \/ /\ head \notin ToSet(pending)
          /\ DropIncoming
          /\ UNCHANGED pending
    /\ UNCHANGED <<sessions, pendingCount, outcome, tick, head, schedulerVars, webVars, seenVars>>

CountRemoved ==
    /\ stage = "decrement"
    /\ pendingCount' = pendingCount - 1
    /\ dropped' = dropped \cup {head}
    /\ stage' = "add"
    /\ UNCHANGED <<sessions, pending, outcome, tick, head, schedulerVars, webVars, seenVars>>

Add ==
    /\ stage = "add"
    /\ pending' = Append(pending, tick)
    /\ stage' = "increment"
    /\ UNCHANGED <<sessions, pendingCount, outcome, dropped, tick, head, schedulerVars, webVars, seenVars>>

CountAdded ==
    /\ stage = "increment"
    /\ pendingCount' = pendingCount + 1
    /\ stage' = "idle"
    /\ UNCHANGED <<sessions, pending, outcome, dropped, tick, head, schedulerVars, webVars, seenVars>>

-----------------------------------------------------------------------------
(* FeedBroadcaster.flush, on the scheduler thread *)

\* Mutant of StartFlush: a frame is sent once the queue is full.
StartFullFlush ==
    /\ flushing = "idle"
    /\ sessions # {}
    /\ Len(pending) = MaxQueued
    /\ flushing' = "poll"
    /\ UNCHANGED <<sessions, pending, pendingCount, outcome, dropped, batch, targets,
                   listenerVars, webVars, seenVars>>

StartFlush ==
    /\ flushing = "idle"
    /\ sessions # {}
    /\ pending # <<>>
    /\ flushing' = "poll"
    /\ UNCHANGED <<sessions, pending, pendingCount, outcome, dropped, batch, targets,
                   listenerVars, webVars, seenVars>>

PollTick ==
    /\ flushing = "poll"
    /\ pending # <<>>
    /\ batch' = batch \cup {Head(pending)}
    /\ pending' = Tail(pending)
    /\ flushing' = "decrement"
    /\ UNCHANGED <<sessions, pendingCount, outcome, dropped, targets, listenerVars, webVars, seenVars>>

CountPolled ==
    /\ flushing = "decrement"
    /\ pendingCount' = pendingCount - 1
    /\ flushing' = "poll"
    /\ UNCHANGED <<sessions, pending, outcome, dropped, batch, targets, listenerVars, webVars, seenVars>>

\* The queue is empty: the loop over the sessions iterates over a snapshot of them.
StartSending ==
    /\ flushing = "poll"
    /\ pending = <<>>
    /\ IF batch = {}
       THEN flushing' = "idle" /\ UNCHANGED targets
       ELSE flushing' = "send" /\ targets' = sessions
    /\ UNCHANGED <<sessions, pending, pendingCount, outcome, dropped, batch,
                   listenerVars, webVars, seenVars>>

\* FeedBroadcaster.send: a socket that is closed, or fails, takes its session with it.  Any other
\* exception, of the mapper or of the socket, is logged: the session stays, the frame is lost.
Deliver(s, frame) ==
    \/ /\ s \in open
       /\ got' = [got EXCEPT ![s] = @ \cup frame]
       /\ UNCHANGED <<sessions, open, failed>>
    \/ /\ s \in open
       /\ failed' = [failed EXCEPT ![s] = @ \cup frame]
       /\ UNCHANGED <<sessions, open, got>>
    \/ /\ sessions' = sessions \ {s}
       /\ open' = open \ {s}
       /\ UNCHANGED outcome

SendFrame(s) ==
    /\ flushing = "send"
    /\ s \in targets
    /\ targets' = targets \ {s}
    /\ Deliver(s, batch)
    /\ UNCHANGED <<pending, pendingCount, dropped, flushing, batch, joining, backfill,
                   listenerVars, seenVars>>

EndFlush ==
    /\ flushing = "send"
    /\ targets = {}
    /\ flushing' = "idle"
    /\ batch' = {}
    /\ UNCHANGED <<sessions, pending, pendingCount, outcome, dropped, targets,
                   listenerVars, webVars, seenVars>>

-----------------------------------------------------------------------------
(* FeedBroadcaster.register and unregister, on the session's web thread *)

\* Mutant of AddSession: the history is copied before the session is added.
CopyThenAdd(s) ==
    /\ \/ /\ joining[s] = "out"
          /\ backfill' = [backfill EXCEPT ![s] = ToSet(history)]
          /\ joining' = [joining EXCEPT ![s] = "early"]
          /\ open' = open \cup {s}
          /\ UNCHANGED sessions
       \/ /\ joining[s] = "early"
          /\ sessions' = sessions \cup {s}
          /\ joining' = [joining EXCEPT ![s] = "copied"]
          /\ UNCHANGED <<backfill, open>>
    /\ UNCHANGED <<pending, pendingCount, outcome, dropped, listenerVars, schedulerVars, seenVars>>

AddSession(s) ==
    /\ joining[s] = "out"
    /\ sessions' = sessions \cup {s}
    /\ open' = open \cup {s}
    /\ joining' = [joining EXCEPT ![s] = "added"]
    /\ UNCHANGED <<pending, pendingCount, outcome, dropped, backfill, listenerVars, schedulerVars, seenVars>>

CopyHistory(s) ==
    /\ joining[s] = "added"
    /\ backfill' = [backfill EXCEPT ![s] = ToSet(history)]
    /\ joining' = [joining EXCEPT ![s] = "copied"]
    /\ UNCHANGED <<sessions, pending, pendingCount, outcome, dropped, open,
                   listenerVars, schedulerVars, seenVars>>

SendBackfill(s) ==
    /\ joining[s] = "copied"
    /\ joining' = [joining EXCEPT ![s] = "in"]
    /\ IF backfill[s] = {} THEN UNCHANGED <<outcome, sessions, open>> ELSE Deliver(s, backfill[s])
    /\ UNCHANGED <<pending, pendingCount, dropped, backfill, listenerVars, schedulerVars, seenVars>>

\* The browser goes away.
Close(s) ==
    /\ s \in open
    /\ open' = open \ {s}
    /\ UNCHANGED <<sessions, pending, pendingCount, outcome, dropped, joining, backfill,
                   listenerVars, schedulerVars, seenVars>>

Unregister(s) ==
    /\ joining[s] = "in"
    /\ s \in sessions \ open
    /\ sessions' = sessions \ {s}
    /\ UNCHANGED <<pending, pendingCount, outcome, dropped, listenerVars, schedulerVars, webVars, seenVars>>

-----------------------------------------------------------------------------
Init ==
    /\ sessions = {} /\ pending = <<>> /\ pendingCount = 0 /\ history = <<>> /\ recentIds = <<>>
    /\ stage = "idle" /\ tick = NoTick /\ head = NoTick
    /\ flushing = "idle" /\ batch = {} /\ targets = {}
    /\ joining  = [s \in Sessions |-> "out"]
    /\ backfill = [s \in Sessions |-> {}]
    /\ open = {}
    /\ got = [s \in Sessions |-> {}]
    /\ failed = [s \in Sessions |-> {}]
    /\ due = [s \in Sessions |-> {}]
    /\ dropped = {} /\ published = 0

Publish ==
    \/ \E t \in Ticks : Enter(t)
    \/ IsAnyoneWatching \/ IsThereRoom \/ Peek \/ RemoveHead \/ CountRemoved \/ Add \/ CountAdded

Flush ==
    \/ StartFlush \/ PollTick \/ CountPolled \/ StartSending
    \/ \E s \in Sessions : SendFrame(s)
    \/ EndFlush

Next ==
    \/ Publish
    \/ Flush
    \/ \E s \in Sessions : AddSession(s) \/ CopyHistory(s) \/ SendBackfill(s) \/ Close(s) \/ Unregister(s)

Spec == Init /\ [][Next]_vars

\* The scheduler thread keeps running.
FairSpec == Spec /\ WF_vars(Flush)

-----------------------------------------------------------------------------
(* Properties *)

\* Every variable keeps its type.
TypeOK ==
    /\ sessions \in SUBSET Sessions /\ open \in SUBSET Sessions /\ targets \in SUBSET Sessions
    /\ pending \in Seq(Ticks)
    /\ pendingCount \in Int
    /\ history \in Seq(Ticks) /\ recentIds \in Seq(Ticks)
    /\ stage \in {"idle", "watch", "size", "peek", "remove", "decrement", "add", "increment"}
    /\ tick \in Ticks \cup {NoTick} /\ head \in Ticks \cup {NoTick}
    /\ stage # "idle" => tick \in Ticks
    /\ stage \in {"remove", "decrement"} => head \in Allows
    /\ flushing \in {"idle", "poll", "decrement", "send"}
    /\ batch \in SUBSET Ticks
    /\ joining \in [Sessions -> {"out", "added", "copied", "in"}]
    /\ backfill \in [Sessions -> SUBSET Ticks]
    /\ got \in [Sessions -> SUBSET Ticks] /\ failed \in [Sessions -> SUBSET Ticks]
    /\ due \in [Sessions -> SUBSET Ticks]
    /\ dropped \in SUBSET Ticks
    /\ published \in 0 .. MaxPublishes
    /\ Len(history) <= MaxHistory /\ Len(recentIds) <= RecentIds

\* Updates of the counter the two threads still owe the queue.
OwedByFlush   == IF flushing = "decrement" THEN -1 ELSE 0
OwedByPublish == IF stage = "decrement" THEN -1 ELSE IF stage = "increment" THEN 1 ELSE 0

\* The queue never outgrows its cap although the cap is tested against a counter two threads
\* move at other moments than the queue, and the counter never drifts: it is off by exactly
\* the updates the two threads still owe it (FeedBroadcaster.pendingCount).
QueueBounded ==
    /\ Len(pending) <= MaxQueued
    /\ pendingCount + OwedByFlush + OwedByPublish = Len(pending)

\* Where a tick on its way to session s can be.
InFlight(s, t) ==
    \/ t \in ToSet(pending)
    \/ t \in batch /\ (flushing = "send" => s \in targets)
    \/ stage \notin {"idle", "increment"} /\ t = tick
    \/ stage = "decrement" /\ t = head
    \/ joining[s] = "copied" /\ t \in backfill[s]

\* What a dashboard that stays open misses of what entered the feed since it connected was dropped
\* and counted, or was in a frame whose send failed and was logged (FeedBroadcaster.send catches
\* what is no I/O error, counts nothing and keeps the session): the backfill and the frames leave
\* no gap between them, whatever publisher, scheduler and web threads do to each other.
NoGap ==
    \A s \in open : \A t \in due[s] : t \in got[s] \cup failed[s] \cup dropped \/ InFlight(s, t)

\* A flagged tick that made it into the queue leaves it only into a frame: makeRoom never
\* takes it, even when the head it chose was flushed under its hands.
QueuedFlaggedKept ==
    [][\A t \in Flagged :
         t \in ToSet(pending) => t \in ToSet(pending') \/ t \in batch']_vars

\* Past the cap ALLOW ticks are dropped first and flagged ones are kept (FeedBroadcaster: "the
\* oldest ALLOW ticks are dropped first and flagged ones are kept").  It does not hold, so no run
\* states it: makeRoom looks at the head only.
FlaggedOutliveAllows ==
    [][\A t \in Flagged :
         t \in dropped' \ dropped => ToSet(pending) \cap Allows = {}]_vars

\* A tick does not wait in the queue for ever while somebody watches.
TickLeavesQueue ==
    \A t \in Ticks :
        t \in ToSet(pending) ~> (t \notin ToSet(pending) \/ sessions = {})
=============================================================================
