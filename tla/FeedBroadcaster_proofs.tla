----------------------- MODULE FeedBroadcaster_proofs -----------------------
(***************************************************************************)
(* Proofs about the live feed: the queue keeps its bound, no flagged tick  *)
(* is taken out of it, and what an open dashboard misses was dropped and   *)
(* counted or was in a frame whose send failed.                            *)
(***************************************************************************)
EXTENDS FeedBroadcaster, SequenceTheorems, WellFoundedInduction, TLAPS

-----------------------------------------------------------------------------
(* Sequences as queues *)

\* A nonempty set of naturals has a least element.
LEMMA Smallest ==
  ASSUME NEW T, T \subseteq Nat, T # {}
  PROVE  \E x \in T : \A y \in T : x <= y
<1>1. PICK x \in T : \A y \in T : ~ (<<y, x>> \in OpToRel(<, Nat))
  BY WFMin, NatLessThanWellFounded
<1>2. ASSUME NEW y \in T, y < x PROVE FALSE
  <2>1. <<y, x>> \in Nat \X Nat
    OBVIOUS
  <2> QED BY <1>1, <1>2, <2>1, Zenon DEF OpToRel
<1> QED BY <1>2

\* Removing the first occurrence of an element is removing the element at some place.
LEMMA RemovesOne ==
  ASSUME NEW S, NEW seq \in Seq(S), NEW e \in ToSet(seq)
  PROVE  \E i \in 1 .. Len(seq) : seq[i] = e /\ RemoveFirst(seq, e) = RemoveAt(seq, i)
<1> DEFINE I == {i \in 1 .. Len(seq) : seq[i] = e}
<1>1. I # {} /\ I \subseteq Nat
  BY DEF ToSet
<1>2. PICK x \in I : \A y \in I : x <= y
  <2> HIDE DEF I
  <2> QED BY Smallest, <1>1
<1>3. Min(I) \in I
  BY <1>2 DEF Min
<1>4. SelectInSeq(seq, LAMBDA v : v = e) = Min(I)
  BY <1>2 DEF SelectInSeq
<1> QED BY <1>3, <1>4 DEF RemoveFirst

\* ConcurrentLinkedQueue.remove(e): the queue is one shorter and only e can be missing.
LEMMA RemoveProperties ==
  ASSUME NEW S, NEW seq \in Seq(S), NEW e \in ToSet(seq)
  PROVE  /\ RemoveFirst(seq, e) \in Seq(S)
         /\ Len(RemoveFirst(seq, e)) = Len(seq) - 1
         /\ \A t \in ToSet(seq) : t = e \/ t \in ToSet(RemoveFirst(seq, e))
<1>1. PICK i \in 1 .. Len(seq) : seq[i] = e /\ RemoveFirst(seq, e) = RemoveAt(seq, i)
  BY RemovesOne
<1> DEFINE a == SubSeq(seq, 1, i - 1)
           b == SubSeq(seq, i + 1, Len(seq))
<1>2. Len(seq) \in Nat /\ \A j \in 1 .. Len(seq) : seq[j] \in S
  BY ElementOfSeq, LenProperties
<1>3. /\ a \in Seq(S) /\ Len(a) = i - 1
      /\ \A j \in 1 .. i - 1 : a[j] = seq[j]
  BY <1>2, SubSeqProperties
<1>4. /\ b \in Seq(S) /\ Len(b) = Len(seq) - i
      /\ \A j \in 1 .. Len(seq) - i : b[j] = seq[i + j]
  <2>1. /\ b \in Seq(S) /\ Len(b) = Len(seq) - i
        /\ \A j \in 1 .. Len(seq) - (i + 1) + 1 : b[j] = seq[(i + 1) + j - 1]
    BY <1>2, SubSeqProperties
  <2> QED BY <2>1, <1>2
<1>5. RemoveFirst(seq, e) = a \o b
  BY <1>1 DEF RemoveAt
<1> HIDE DEF a, b
<1>6. /\ a \o b \in Seq(S)
      /\ Len(a \o b) = Len(seq) - 1
      /\ \A j \in 1 .. Len(seq) - 1 :
           (a \o b)[j] = IF j <= i - 1 THEN seq[j] ELSE seq[j + 1]
  <2>1. /\ a \o b \in Seq(S)
        /\ Len(a \o b) = Len(a) + Len(b)
        /\ \A j \in 1 .. Len(a) + Len(b) :
             (a \o b)[j] = IF j <= Len(a) THEN a[j] ELSE b[j - Len(a)]
    BY <1>3, <1>4, ConcatProperties
  <2>2. Len(a) + Len(b) = Len(seq) - 1
    BY <1>2, <1>3, <1>4
  <2>3. ASSUME NEW j \in 1 .. Len(seq) - 1
        PROVE  (a \o b)[j] = IF j <= i - 1 THEN seq[j] ELSE seq[j + 1]
    <3>1. CASE j <= i - 1
      BY <3>1, <2>1, <2>2, <1>3
    <3>2. CASE j > i - 1
      <4>1. j - (i - 1) \in 1 .. Len(seq) - i
        BY <3>2, <1>2
      <4>2. b[j - (i - 1)] = seq[i + (j - (i - 1))]
        BY <4>1, <1>4
      <4>3. i + (j - (i - 1)) = j + 1
        BY <1>2
      <4> QED BY <3>2, <4>2, <4>3, <2>1, <2>2, <1>3
    <3>3. j <= i - 1 \/ j > i - 1
      BY <1>2
    <3> QED BY <3>1, <3>2, <3>3
  <2> QED BY <2>1, <2>2, <2>3
<1>7. DOMAIN (a \o b) = 1 .. Len(a \o b) /\ DOMAIN seq = 1 .. Len(seq)
  BY <1>6, LenProperties
<1>8. ASSUME NEW t \in ToSet(seq), t # e
      PROVE  t \in ToSet(a \o b)
  <2>1. PICK k \in 1 .. Len(seq) : seq[k] = t
    BY <1>7 DEF ToSet
  <2>2. k # i
    BY <1>1, <1>8, <2>1
  <2>3. CASE k < i
    <3>1. k \in 1 .. Len(seq) - 1 /\ k <= i - 1
      BY <2>3, <1>2
    <3>2. k \in 1 .. Len(a \o b) /\ (a \o b)[k] = t
      BY <2>1, <3>1, <1>6
    <3> QED BY <3>2, <1>7 DEF ToSet
  <2>4. CASE k > i
    <3>1. k - 1 \in 1 .. Len(seq) - 1 /\ ~(k - 1 <= i - 1) /\ (k - 1) + 1 = k
      BY <2>4, <1>2
    <3>2. k - 1 \in 1 .. Len(a \o b) /\ (a \o b)[k - 1] = t
      BY <2>1, <3>1, <1>6
    <3> QED BY <3>2, <1>7 DEF ToSet
  <2> QED BY <2>2, <2>3, <2>4, <1>2
<1> QED BY <1>5, <1>6, <1>8

\* add: one longer, and one element more.
LEMMA AppendElements ==
  ASSUME NEW S, NEW seq \in Seq(S), NEW e \in S
  PROVE  /\ Append(seq, e) \in Seq(S)
         /\ Len(Append(seq, e)) = Len(seq) + 1
         /\ Len(seq) \in Nat
         /\ e \in ToSet(Append(seq, e))
         /\ \A t \in ToSet(seq) : t \in ToSet(Append(seq, e))
BY AppendProperties, LenProperties DEF ToSet

\* poll: the head goes, the others stay.
LEMMA TailElements ==
  ASSUME NEW S, NEW seq \in Seq(S), seq # <<>>
  PROVE  /\ Head(seq) \in S
         /\ Tail(seq) \in Seq(S)
         /\ Len(Tail(seq)) = Len(seq) - 1
         /\ Len(seq) \in Nat \ {0}
         /\ \A t \in ToSet(seq) : t = Head(seq) \/ t \in ToSet(Tail(seq))
<1>1. /\ Head(seq) \in S /\ Tail(seq) \in Seq(S)
      /\ Len(Tail(seq)) = Len(seq) - 1 /\ Len(seq) \in Nat \ {0}
  BY HeadTailProperties, EmptySeq
<1>2. Head(seq) = seq[1]
  OBVIOUS
<1>3. ASSUME NEW t \in ToSet(seq), t # Head(seq)
      PROVE  t \in ToSet(Tail(seq))
  <2>1. PICK k \in 1 .. Len(seq) : seq[k] = t
    BY DEF ToSet
  <2>2. k # 1
    BY <2>1, <1>2, <1>3
  <2>3. k - 1 \in 1 .. Len(Tail(seq)) /\ (k - 1) + 1 = k
    BY <2>2, <1>1
  <2>4. Tail(seq)[k - 1] = seq[(k - 1) + 1]
    BY <2>3, HeadTailProperties
  <2>5. DOMAIN Tail(seq) = 1 .. Len(Tail(seq))
    BY <1>1, LenProperties
  <2> QED BY <2>1, <2>3, <2>4, <2>5 DEF ToSet
<1> QED BY <1>1, <1>3

\* history and recentIds: as long as before or one longer, never beyond n.
LEMMA PushProperties ==
  ASSUME NEW S, NEW seq \in Seq(S), NEW e \in S, NEW n \in Nat, Len(seq) <= n
  PROVE  Push(seq, e, n) \in Seq(S) /\ Len(Push(seq, e, n)) <= n
<1> DEFINE longer == Append(seq, e)
<1>1. /\ longer \in Seq(S) /\ Len(longer) = Len(seq) + 1 /\ Len(seq) \in Nat
      /\ longer # <<>>
  BY AppendProperties, LenProperties
<1>2. Tail(longer) \in Seq(S) /\ Len(Tail(longer)) = Len(longer) - 1
  <2> HIDE DEF longer
  <2> QED BY <1>1, TailElements
<1> QED BY <1>1, <1>2 DEF Push

-----------------------------------------------------------------------------
(* Types *)

LEMMA InitType == Init => TypeOK
BY FeedAssumption DEF Init, TypeOK, Ticks

\* What leaves the queue and the history untouched cannot hurt their types.
LEMMA PublishType ==
  ASSUME TypeOK, Publish
  PROVE  TypeOK'
<1> USE DEF TypeOK, listenerVars, schedulerVars, webVars, seenVars, outcome
<1>1. ASSUME NEW t \in Ticks, Enter(t) PROVE TypeOK'
  <2>1. CASE UNCHANGED <<history, recentIds, due, tick, stage>>
    BY <1>1, <2>1, FeedAssumption DEF Enter
  <2>2. CASE stage' = "watch" /\ t \notin ToSet(recentIds)
    <3>1. /\ recentIds' = Push(recentIds, t, RecentIds)
          /\ history' = Push(history, t, MaxHistory)
          /\ due' = [s \in Sessions |-> IF joining[s] = "out" THEN due[s] ELSE due[s] \cup {t}]
          /\ tick' = t
      BY <1>1, <2>2 DEF Enter
    <3>2. /\ history' \in Seq(Ticks) /\ Len(history') <= MaxHistory
          /\ recentIds' \in Seq(Ticks) /\ Len(recentIds') <= RecentIds
      <4>1. Push(history, t, MaxHistory) \in Seq(Ticks) /\ Len(Push(history, t, MaxHistory)) <= MaxHistory
        BY PushProperties, FeedAssumption
      <4>2. Push(recentIds, t, RecentIds) \in Seq(Ticks) /\ Len(Push(recentIds, t, RecentIds)) <= RecentIds
        BY PushProperties, FeedAssumption
      <4> QED BY <3>1, <4>1, <4>2
    <3>3. published' \in 0 .. MaxPublishes
      BY <1>1, FeedAssumption DEF Enter
    <3>4. due' \in [Sessions -> SUBSET Ticks]
      BY <3>1
    <3>5. UNCHANGED <<sessions, pending, pendingCount, got, failed, dropped, head, flushing, batch,
                      targets, joining, backfill, open>>
      BY <1>1 DEF Enter
    <3> QED BY <2>2, <3>1, <3>2, <3>3, <3>4, <3>5
  <2> QED BY <1>1, <2>1, <2>2 DEF Enter
<1>2. ASSUME IsAnyoneWatching \/ IsThereRoom PROVE TypeOK'
  BY <1>2 DEF IsAnyoneWatching, IsThereRoom
<1>3. ASSUME Peek PROVE TypeOK'
  <2>1. pending # <<>> => Head(pending) \in Ticks
    BY TailElements
  <2> QED BY <1>3, <2>1 DEF Peek, DropIncoming, Ticks
<1>4. ASSUME RemoveHead PROVE TypeOK'
  <2>1. head \in ToSet(pending) => RemoveFirst(pending, head) \in Seq(Ticks)
    BY RemoveProperties
  <2> QED BY <1>4, <2>1 DEF RemoveHead, DropIncoming
<1>5. ASSUME CountRemoved PROVE TypeOK'
  BY <1>5 DEF CountRemoved, Ticks
<1>6. ASSUME Add PROVE TypeOK'
  <2>1. stage = "add" => Append(pending, tick) \in Seq(Ticks)
    BY AppendElements
  <2> QED BY <1>6, <2>1 DEF Add
<1>7. ASSUME CountAdded PROVE TypeOK'
  BY <1>7 DEF CountAdded
<1> QED BY <1>1, <1>2, <1>3, <1>4, <1>5, <1>6, <1>7 DEF Publish

LEMMA FlushType ==
  ASSUME TypeOK, Flush
  PROVE  TypeOK'
<1> USE DEF TypeOK, listenerVars, schedulerVars, webVars, seenVars, outcome
<1>1. ASSUME StartFlush \/ CountPolled \/ StartSending \/ EndFlush PROVE TypeOK'
  BY <1>1 DEF StartFlush, CountPolled, StartSending, EndFlush
<1>2. ASSUME PollTick PROVE TypeOK'
  <2>1. pending # <<>> => Head(pending) \in Ticks /\ Tail(pending) \in Seq(Ticks)
    BY TailElements
  <2> QED BY <1>2, <2>1 DEF PollTick
<1>3. ASSUME NEW s \in Sessions, SendFrame(s) PROVE TypeOK'
  BY <1>3 DEF SendFrame, Deliver
<1> QED BY <1>1, <1>2, <1>3 DEF Flush

LEMMA SessionType ==
  ASSUME TypeOK, NEW s \in Sessions,
         AddSession(s) \/ CopyHistory(s) \/ SendBackfill(s) \/ Close(s) \/ Unregister(s)
  PROVE  TypeOK'
<1> USE DEF TypeOK, listenerVars, schedulerVars, webVars, seenVars, outcome
<1>1. ToSet(history) \in SUBSET Ticks
  BY ElementOfSeq, LenProperties DEF ToSet
<1>2. ASSUME AddSession(s) \/ Close(s) \/ Unregister(s) PROVE TypeOK'
  BY <1>2 DEF AddSession, Close, Unregister
<1>3. ASSUME CopyHistory(s) PROVE TypeOK'
  BY <1>1, <1>3 DEF CopyHistory
<1>4. ASSUME SendBackfill(s) PROVE TypeOK'
  <2>1. /\ got' \in [Sessions -> SUBSET Ticks] /\ failed' \in [Sessions -> SUBSET Ticks]
        /\ sessions' \in SUBSET Sessions /\ open' \in SUBSET Sessions
    BY <1>4 DEF SendBackfill, Deliver
  <2> QED BY <1>4, <2>1 DEF SendBackfill
<1> QED BY <1>2, <1>3, <1>4

LEMMA TypeStep ==
  ASSUME TypeOK, [Next]_vars
  PROVE  TypeOK'
<1>1. CASE UNCHANGED vars
  BY <1>1 DEF vars, listenerVars, schedulerVars, webVars, seenVars, outcome, TypeOK
<1> QED BY <1>1, PublishType, FlushType, SessionType DEF Next

\* Every variable keeps its type, in every instance of the feed.
THEOREM FeedTypes == Spec => []TypeOK
<1>1. TypeOK /\ [Next]_vars => TypeOK'
  BY TypeStep
<1> QED BY InitType, <1>1, PTL DEF Spec

-----------------------------------------------------------------------------
(* The queue and its counter *)

\* The publisher has room for its tick once it is about to add it.
Room == stage \in {"add", "decrement"} => Len(pending) < MaxQueued

QueueInv == QueueBounded /\ Room

LEMMA InitQueue == Init => QueueInv
BY FeedAssumption, EmptySeq DEF Init, QueueInv, QueueBounded, Room, OwedByFlush, OwedByPublish

LEMMA QueueStep ==
  ASSUME TypeOK, QueueInv, [Next]_vars
  PROVE  QueueInv'
<1>0. /\ pending \in Seq(Ticks) /\ Len(pending) \in Nat
      /\ pendingCount \in Int /\ MaxQueued \in Nat \ {0}
  BY LenProperties, FeedAssumption DEF TypeOK
<1>a. stage = "add" => tick \in Ticks
  BY DEF TypeOK
<1> USE DEF QueueInv, QueueBounded, Room, OwedByFlush, OwedByPublish
<1>1. ASSUME NEW t \in Ticks, Enter(t) PROVE QueueInv'
  BY <1>0, <1>1 DEF Enter, schedulerVars
<1>2. ASSUME IsAnyoneWatching PROVE QueueInv'
  BY <1>0, <1>2 DEF IsAnyoneWatching, schedulerVars
<1>13. ASSUME IsThereRoom PROVE QueueInv'
  <2>1. UNCHANGED <<pending, pendingCount, flushing>> /\ stage = "size"
    BY <1>13 DEF IsThereRoom, schedulerVars
  <2>2. stage' = "peek" \/ (stage' = "add" /\ pendingCount < MaxQueued)
    BY <1>0, <1>13 DEF IsThereRoom
  <2> QED BY <1>0, <2>1, <2>2
<1>3. ASSUME Peek PROVE QueueInv'
  <2>1. UNCHANGED <<pending, pendingCount, flushing>> /\ stage = "peek"
    BY <1>3 DEF Peek, schedulerVars
  <2>2. stage' \in {"idle", "remove"} \/ (stage' = "add" /\ pending = <<>>)
    BY <1>3 DEF Peek, DropIncoming
  <2>3. pending = <<>> => Len(pending) = 0
    OBVIOUS
  <2> QED BY <1>0, <2>1, <2>2, <2>3
<1>4. ASSUME RemoveHead PROVE QueueInv'
  <2>1. head \in ToSet(pending) => Len(RemoveFirst(pending, head)) = Len(pending) - 1
    BY <1>0, RemoveProperties
  <2>2. UNCHANGED <<pendingCount, flushing>> /\ stage = "remove"
    BY <1>4 DEF RemoveHead, schedulerVars
  <2>3. \/ stage' = "idle" /\ pending' = pending
        \/ stage' = "decrement" /\ Len(pending') = Len(pending) - 1
    BY <1>4, <2>1 DEF RemoveHead, DropIncoming
  <2> QED BY <1>0, <2>2, <2>3
<1>5. ASSUME CountRemoved PROVE QueueInv'
  BY <1>0, <1>5 DEF CountRemoved, schedulerVars
<1>6. ASSUME Add PROVE QueueInv'
  <2>1. stage = "add" => Len(Append(pending, tick)) = Len(pending) + 1
    BY <1>0, <1>a, AppendElements
  <2> QED BY <1>0, <1>6, <2>1 DEF Add, schedulerVars
<1>7. ASSUME CountAdded PROVE QueueInv'
  BY <1>0, <1>7 DEF CountAdded, schedulerVars
<1>8. ASSUME StartFlush \/ CountPolled \/ StartSending \/ EndFlush PROVE QueueInv'
  <2>1. UNCHANGED <<pending, stage>>
    BY <1>8 DEF StartFlush, CountPolled, StartSending, EndFlush, listenerVars
  <2>2. \/ flushing # "decrement" /\ flushing' # "decrement" /\ pendingCount' = pendingCount
        \/ flushing = "decrement" /\ flushing' = "poll" /\ pendingCount' = pendingCount - 1
    BY <1>8 DEF StartFlush, CountPolled, StartSending, EndFlush
  <2> QED BY <1>0, <2>1, <2>2
<1>9. ASSUME PollTick PROVE QueueInv'
  <2>1. pending # <<>> => Len(Tail(pending)) = Len(pending) - 1
    BY <1>0, TailElements
  <2>2. /\ UNCHANGED <<pendingCount, stage>> /\ pending # <<>> /\ pending' = Tail(pending)
        /\ flushing = "poll" /\ flushing' = "decrement"
    BY <1>9 DEF PollTick, listenerVars
  <2> QED BY <1>0, <2>1, <2>2
<1>10. ASSUME NEW s \in Sessions, SendFrame(s) PROVE QueueInv'
  BY <1>0, <1>10 DEF SendFrame, listenerVars
<1>11. ASSUME NEW s \in Sessions,
              AddSession(s) \/ CopyHistory(s) \/ SendBackfill(s) \/ Close(s) \/ Unregister(s)
       PROVE  QueueInv'
  BY <1>0, <1>11 DEF AddSession, CopyHistory, SendBackfill, Close, Unregister,
                     listenerVars, schedulerVars
<1>12. CASE UNCHANGED vars
  BY <1>0, <1>12 DEF vars, listenerVars, schedulerVars
<1> QED BY <1>1, <1>2, <1>3, <1>4, <1>5, <1>6, <1>7, <1>8, <1>9, <1>10, <1>11, <1>12, <1>13
        DEF Next, Publish, Flush

\* The queue keeps its cap and the counter never drifts, whatever the cap and however
\* publish and flush interleave.
THEOREM QueueStaysBounded == Spec => []QueueBounded
<1>1. TypeOK /\ QueueInv /\ [Next]_vars => QueueInv'
  BY QueueStep
<1>2. QueueInv => QueueBounded
  BY DEF QueueInv
<1> QED BY InitQueue, FeedTypes, <1>1, <1>2, PTL DEF Spec

-----------------------------------------------------------------------------
(* What leaves the queue *)

\* An element the queue loses in a step has gone into the batch, or is the head that makeRoom
\* has chosen.
LEMMA QueueLosses ==
  ASSUME TypeOK, [Next]_vars, NEW t \in ToSet(pending), t \notin ToSet(pending')
  PROVE  \/ PollTick /\ t \in batch'
         \/ RemoveHead /\ t = head /\ stage' = "decrement"
<1> USE DEF TypeOK
<1>1. CASE PollTick
  BY <1>1, TailElements DEF PollTick
<1>2. CASE RemoveHead
  BY <1>2, RemoveProperties DEF RemoveHead
<1>3. CASE Add
  <2>1. stage = "add" => t \in ToSet(Append(pending, tick))
    BY AppendElements
  <2> QED BY <1>3, <2>1 DEF Add
<1>4. CASE UNCHANGED pending
  BY <1>4
<1>5. \/ PollTick \/ RemoveHead \/ Add
      \/ UNCHANGED pending
  BY DEF Next, Publish, Flush, vars, Enter, IsAnyoneWatching, IsThereRoom, Peek, CountRemoved,
         CountAdded, StartFlush, CountPolled, StartSending, SendFrame, EndFlush,
         AddSession, CopyHistory, SendBackfill, Close, Unregister
<1> QED BY <1>1, <1>2, <1>3, <1>4, <1>5

\* A flagged tick leaves the queue only into a frame: makeRoom never takes it.
THEOREM FlaggedStayQueued == Spec => QueuedFlaggedKept
<1> DEFINE Kept == \A t \in Flagged :
                     t \in ToSet(pending) => t \in ToSet(pending') \/ t \in batch'
<1>1. TypeOK /\ [Next]_vars => [Kept]_vars
  <2> SUFFICES ASSUME TypeOK, [Next]_vars, NEW t \in Flagged,
                      t \in ToSet(pending), t \notin ToSet(pending')
               PROVE  t \in batch'
    OBVIOUS
  <2>1. CASE RemoveHead /\ t = head
    BY <2>1, FeedAssumption DEF RemoveHead, TypeOK
  <2> QED BY <2>1, QueueLosses
<1> QED BY FeedTypes, <1>1, PTL DEF Spec, QueuedFlaggedKept

-----------------------------------------------------------------------------
(* What an open dashboard receives *)

\* An open session is one flush sends to, and nothing is due to one that never registered.
Joined ==
    /\ open \subseteq sessions
    /\ \A s \in Sessions : joining[s] = "out" => due[s] = {}

GapInv == NoGap /\ Joined

LEMMA InitGap == Init => GapInv
BY DEF Init, GapInv, NoGap, Joined

LEMMA JoinedStep ==
  ASSUME TypeOK, Joined, [Next]_vars
  PROVE  Joined'
<1> USE DEF Joined, listenerVars, schedulerVars, webVars, seenVars, outcome
<1>1. ASSUME NEW t \in Ticks, Enter(t) PROVE Joined'
  <2>1. UNCHANGED <<open, sessions, joining>>
    BY <1>1 DEF Enter
  <2>2. ASSUME NEW s \in Sessions, joining[s] = "out" PROVE due'[s] = due[s]
    BY <1>1, <2>2 DEF Enter, TypeOK
  <2> QED BY <2>1, <2>2
<1>2. ASSUME NEW s \in Sessions,
             AddSession(s) \/ CopyHistory(s) \/ SendBackfill(s) \/ Close(s) \/ Unregister(s)
      PROVE  Joined'
  BY <1>2 DEF AddSession, CopyHistory, SendBackfill, Deliver, Close, Unregister, TypeOK
<1>3. ASSUME NEW s \in Sessions, SendFrame(s) PROVE Joined'
  BY <1>3 DEF SendFrame, Deliver
<1>4. CASE UNCHANGED <<open, sessions, joining, due>>
  BY <1>4
<1>5. \/ \E t \in Ticks : Enter(t)
      \/ \E s \in Sessions :
           \/ SendFrame(s) \/ AddSession(s) \/ CopyHistory(s) \/ SendBackfill(s)
           \/ Close(s) \/ Unregister(s)
      \/ UNCHANGED <<open, sessions, joining, due>>
  BY DEF Next, Publish, Flush, vars, IsAnyoneWatching, IsThereRoom, Peek, RemoveHead,
         CountRemoved, Add, CountAdded, StartFlush, PollTick, CountPolled, StartSending, EndFlush
<1> QED BY <1>1, <1>2, <1>3, <1>4, <1>5

\* A tick that is due to an open session stays on its way, is dropped, fails or arrives.
LEMMA GapStep ==
  ASSUME TypeOK, TypeOK', GapInv, Joined', [Next]_vars
  PROVE  NoGap'
<1> SUFFICES ASSUME NEW s \in Sessions, s \in open', NEW t \in due'[s]
             PROVE  t \in got'[s] \cup failed'[s] \cup dropped' \/ InFlight(s, t)'
  BY DEF NoGap, TypeOK
<1> USE DEF listenerVars, schedulerVars, webVars, seenVars, outcome
<1> DEFINE Before == s \in open /\ t \in due[s]
<1>1. Before => t \in got[s] \cup failed[s] \cup dropped \/ InFlight(s, t)
  BY DEF GapInv, NoGap
<1>2. s \in sessions'
  BY DEF Joined
<1>3. ASSUME NEW u \in Ticks, Enter(u) PROVE t \in got'[s] \cup failed'[s] \cup dropped' \/ InFlight(s, t)'
  <2>1. CASE t \in due[s]
    BY <1>1, <1>3, <2>1 DEF Enter, InFlight
  <2>2. CASE t \notin due[s]
    <3>1. due' # due
      BY <2>2
    <3>2. tick' = u /\ stage' = "watch"
      BY <1>3, <3>1 DEF Enter
    <3>3. due'[s] \subseteq due[s] \cup {u}
      BY <1>3 DEF Enter, TypeOK
    <3> QED BY <2>2, <3>2, <3>3 DEF InFlight
  <2> QED BY <2>1, <2>2
<1>4. ASSUME IsAnyoneWatching PROVE t \in got'[s] \cup failed'[s] \cup dropped' \/ InFlight(s, t)'
  BY <1>1, <1>2, <1>4 DEF IsAnyoneWatching, InFlight
<1>5. ASSUME IsThereRoom PROVE t \in got'[s] \cup failed'[s] \cup dropped' \/ InFlight(s, t)'
  BY <1>1, <1>5 DEF IsThereRoom, InFlight
<1>6. ASSUME Peek PROVE t \in got'[s] \cup failed'[s] \cup dropped' \/ InFlight(s, t)'
  BY <1>1, <1>6 DEF Peek, DropIncoming, InFlight
<1>7. ASSUME RemoveHead PROVE t \in got'[s] \cup failed'[s] \cup dropped' \/ InFlight(s, t)'
  <2>1. t \in ToSet(pending) /\ t \notin ToSet(pending') => t = head /\ stage' = "decrement"
    BY <1>7, RemoveProperties DEF RemoveHead, TypeOK
  <2> QED BY <1>1, <1>7, <2>1 DEF RemoveHead, DropIncoming, InFlight
<1>8. ASSUME CountRemoved PROVE t \in got'[s] \cup failed'[s] \cup dropped' \/ InFlight(s, t)'
  BY <1>1, <1>8 DEF CountRemoved, InFlight
<1>9. ASSUME Add PROVE t \in got'[s] \cup failed'[s] \cup dropped' \/ InFlight(s, t)'
  <2>1. t \in ToSet(pending) \/ t = tick => t \in ToSet(pending')
    BY <1>9, AppendElements DEF Add, TypeOK
  <2> QED BY <1>1, <1>9, <2>1 DEF Add, InFlight
<1>10. ASSUME CountAdded PROVE t \in got'[s] \cup failed'[s] \cup dropped' \/ InFlight(s, t)'
  BY <1>1, <1>10 DEF CountAdded, InFlight
<1>11. ASSUME StartFlush \/ CountPolled \/ StartSending \/ EndFlush
       PROVE  t \in got'[s] \cup failed'[s] \cup dropped' \/ InFlight(s, t)'
  BY <1>1, <1>2, <1>11 DEF StartFlush, CountPolled, StartSending, EndFlush, InFlight
<1>12. ASSUME PollTick PROVE t \in got'[s] \cup failed'[s] \cup dropped' \/ InFlight(s, t)'
  <2>1. t \in ToSet(pending) => t \in batch' \/ t \in ToSet(pending')
    BY <1>12, TailElements DEF PollTick, TypeOK
  <2> QED BY <1>1, <1>12, <2>1 DEF PollTick, InFlight
<1>13. ASSUME NEW r \in Sessions, SendFrame(r)
       PROVE  t \in got'[s] \cup failed'[s] \cup dropped' \/ InFlight(s, t)'
  BY <1>1, <1>13 DEF SendFrame, Deliver, InFlight, TypeOK
<1>14. ASSUME NEW r \in Sessions, AddSession(r)
       PROVE  t \in got'[s] \cup failed'[s] \cup dropped' \/ InFlight(s, t)'
  <2>1. r # s
    BY <1>14 DEF AddSession, GapInv, Joined
  <2> QED BY <1>1, <1>14, <2>1 DEF AddSession, InFlight, TypeOK
<1>15. ASSUME NEW r \in Sessions, CopyHistory(r) \/ Close(r) \/ Unregister(r)
       PROVE  t \in got'[s] \cup failed'[s] \cup dropped' \/ InFlight(s, t)'
  BY <1>1, <1>15 DEF CopyHistory, Close, Unregister, InFlight, TypeOK
<1>16. ASSUME NEW r \in Sessions, SendBackfill(r)
       PROVE  t \in got'[s] \cup failed'[s] \cup dropped' \/ InFlight(s, t)'
  BY <1>1, <1>16 DEF SendBackfill, Deliver, InFlight, TypeOK
<1>17. CASE UNCHANGED vars
  BY <1>1, <1>17 DEF vars, InFlight
<1> QED BY <1>3, <1>4, <1>5, <1>6, <1>7, <1>8, <1>9, <1>10, <1>11, <1>12, <1>13, <1>14, <1>15,
           <1>16, <1>17
        DEF Next, Publish, Flush

\* An open dashboard misses nothing but counted drops and frames whose send failed, for every
\* number of dashboards, ticks and places in the queue and the history.
THEOREM NothingMissed == Spec => []NoGap
<1>1. TypeOK /\ TypeOK' /\ GapInv /\ [Next]_vars => GapInv'
  BY JoinedStep, GapStep DEF GapInv
<1>2. GapInv => NoGap
  BY DEF GapInv
<1> QED BY InitGap, FeedTypes, <1>1, <1>2, PTL DEF Spec
=============================================================================
