------------------------- MODULE AnalystAgent_proofs -------------------------
(***************************************************************************)
(* Proofs about the analyst agent as others meet it.  First the hand-off:  *)
(* of the queue (AnalystAgentClient) its bound, the bound on attempts, and *)
(* that no case disappears between the table and the agent; of the queue   *)
(* with the agent's server behind it (AgentServer) that the two agree on   *)
(* which case the agent has.  Then the rate limiter: whatever order the    *)
(* threads read the clock and take the lock in, the calls a window let     *)
(* through of late are all still in its deque, the deque holds no more     *)
(* than the limit, and a caller that waits as told is let through.  Then   *)
(* one investigation: its budget and its length are bounded for every      *)
(* setting, and nothing is published without its evidence.  Last a         *)
(* question: it meets the limiter once, and an answer that is kept for     *)
(* others rests on evidence, whatever model and tools have replied.        *)
(***************************************************************************)
EXTENDS AgentServer, Investigation, Ask, SequenceTheorems, FiniteSetTheorems, WellFoundedInduction, TLAPS

-----------------------------------------------------------------------------
(* EveryCaseAccountedFor in three parts: where a case is, the queue, the ends *)

\* A case that was asked about is open or settled, and never in the queue and in hand at once.
Placed ==
    /\ \A c \in asked : Queued(c) \/ InHand(c) \/ c \in Settled
    /\ \A c \in CaseIds : (Queued(c) \/ InHand(c)) => c \in asked /\ c \notin Settled
    /\ \A c \in CaseIds : InHand(c) => ~Queued(c)

\* A case waits in one place of the queue.
Distinct == \A i, j \in 1 .. Len(queue) : queue[i].case = queue[j].case => i = j

\* A case has one end.
OneEnd ==
    /\ handedOff \cap gaveUp = {} /\ handedOff \cap dropped = {} /\ handedOff \cap lost = {}
    /\ gaveUp \cap dropped = {} /\ gaveUp \cap lost = {} /\ dropped \cap lost = {}

LEMMA Parts == EveryCaseAccountedFor <=> (Placed /\ Distinct /\ OneEnd)
BY DEF EveryCaseAccountedFor, Placed, Distinct, OneEnd

\* The number of POSTs about a waiting case is its number of attempts.
PostsOfQueue == \A i \in 1 .. Len(queue) : posts[queue[i].case] = queue[i].attempts

\* It is one more than that while the drain waits for the answer.
PostsOfHand ==
    hand # Nobody =>
        posts[hand.case] = IF http = "unsent" THEN hand.attempts ELSE hand.attempts + 1

\* A case nobody asked about has no end, nothing is sent about it, and a request that arrived
\* was counted.
PostsOfOthers ==
    /\ Settled \subseteq asked
    /\ \A c \in CaseIds : c \notin asked => posts[c] = 0 /\ received[c] = {}
    /\ http = "accepted" => received[hand.case] # {}

CInv ==
    /\ TypeOK
    /\ Placed /\ Distinct /\ OneEnd
    /\ PostsOfQueue /\ PostsOfHand /\ PostsOfOthers
    /\ AttemptsBounded
    /\ HandedOffIsReceived

-----------------------------------------------------------------------------
(* The queue as the set of cases that wait in it *)

\* offer, room left.
LEMMA OfferQueue ==
  ASSUME queue \in Seq(Attempt), NEW a \in Attempt, queue' = Append(queue, a)
  PROVE  /\ queue' \in Seq(Attempt)
         /\ Len(queue') = Len(queue) + 1
         /\ Len(queue) \in Nat
         /\ \A i \in 1 .. Len(queue) : queue'[i] = queue[i]
         /\ queue'[Len(queue) + 1] = a
         /\ \A i \in 1 .. Len(queue') : i \in 1 .. Len(queue) \/ i = Len(queue) + 1
         /\ \A c : Queued(c)' <=> (Queued(c) \/ c = a.case)
         /\ (Distinct /\ ~Queued(a.case)) => Distinct'
<1>1. /\ queue' \in Seq(Attempt) /\ Len(queue') = Len(queue) + 1 /\ Len(queue) \in Nat
      /\ \A i \in 1 .. Len(queue) : queue'[i] = queue[i]
      /\ queue'[Len(queue) + 1] = a
  BY AppendProperties, LenProperties
<1>2. \A i \in 1 .. Len(queue') : i \in 1 .. Len(queue) \/ i = Len(queue) + 1
  BY <1>1
<1>3. \A c : Queued(c)' => (Queued(c) \/ c = a.case)
  BY <1>1, <1>2 DEF Queued
<1>4. \A c : Queued(c) => Queued(c)'
  BY <1>1 DEF Queued
<1>5. Queued(a.case)'
  <2>1. Len(queue) + 1 \in 1 .. Len(queue')
    BY <1>1
  <2> QED BY <1>1, <2>1 DEF Queued
<1>6. ASSUME Distinct, ~Queued(a.case) PROVE Distinct'
  <2>1. \A i \in 1 .. Len(queue) : queue[i].case # a.case
    BY <1>6 DEF Queued
  <2> QED BY <1>1, <1>2, <1>6, <2>1 DEF Distinct
<1> QED BY <1>1, <1>2, <1>3, <1>4, <1>5, <1>6

\* poll, the queue not being empty.
LEMMA PollQueue ==
  ASSUME queue \in Seq(Attempt), queue # <<>>, queue' = Tail(queue)
  PROVE  /\ queue' \in Seq(Attempt)
         /\ Head(queue) \in Attempt
         /\ Len(queue) \in Nat \ {0}
         /\ Len(queue') = Len(queue) - 1
         /\ Head(queue) = queue[1] /\ 1 \in 1 .. Len(queue)
         /\ \A i \in 1 .. Len(queue') : i + 1 \in 1 .. Len(queue) /\ queue'[i] = queue[i + 1]
         /\ \A c : Queued(c) <=> (Queued(c)' \/ c = Head(queue).case)
         /\ Distinct => (Distinct' /\ \A c : c = Head(queue).case => ~Queued(c)')
<1>1. /\ queue' \in Seq(Attempt) /\ Head(queue) \in Attempt /\ Len(queue) \in Nat \ {0}
      /\ Len(queue') = Len(queue) - 1 /\ Head(queue) = queue[1]
      /\ \A i \in 1 .. Len(queue') : queue'[i] = queue[i + 1]
  BY HeadTailProperties, EmptySeq
<1>2. \A i \in 1 .. Len(queue') : i \in Nat \ {0} /\ i + 1 \in 1 .. Len(queue)
  BY <1>1
<1>3. \A c : Queued(c)' => Queued(c)
  BY <1>1, <1>2 DEF Queued
<1>4. 1 \in 1 .. Len(queue)
  BY <1>1
<1>5. Queued(Head(queue).case)
  BY <1>1, <1>4 DEF Queued
<1>6. ASSUME NEW c, Queued(c), c # Head(queue).case PROVE Queued(c)'
  <2>1. PICK k \in 1 .. Len(queue) : queue[k].case = c
    BY <1>6 DEF Queued
  <2>2. k # 1
    BY <2>1, <1>1, <1>6
  <2>3. k - 1 \in 1 .. Len(queue') /\ (k - 1) + 1 = k
    BY <2>2, <1>1
  <2>4. queue'[k - 1].case = c
    BY <2>1, <2>3, <1>1
  <2> QED BY <2>3, <2>4 DEF Queued
<1>7. ASSUME Distinct PROVE Distinct' /\ \A c : c = Head(queue).case => ~Queued(c)'
  <2>1. \A i, j \in 1 .. Len(queue') : queue'[i].case = queue'[j].case => i + 1 = j + 1
    BY <1>1, <1>2, <1>7 DEF Distinct
  <2>2. \A i \in 1 .. Len(queue') : queue'[i].case = queue[1].case => i + 1 = 1
    BY <1>1, <1>2, <1>4, <1>7 DEF Distinct
  <2>3. Distinct'
    BY <1>2, <2>1 DEF Distinct
  <2>4. \A i \in 1 .. Len(queue') : queue'[i].case # Head(queue).case
    BY <1>1, <1>2, <2>2
  <2>5. \A c : c = Head(queue).case => ~Queued(c)'
    BY <2>4 DEF Queued
  <2> QED BY <2>3, <2>5
<1> QED BY <1>1, <1>2, <1>3, <1>4, <1>5, <1>6, <1>7

\* What is in hand is an attempt, and Nobody is none.
LEMMA HandFacts ==
  ASSUME TypeOK
  PROVE  /\ hand # Nobody => (hand \in Attempt /\ hand.case \in CaseIds
                              /\ hand.attempts \in Nat /\ hand.attempts < MaxAttempts)
         /\ http # "unsent" => hand # Nobody
         /\ Len(queue) \in Nat
         /\ \A i \in 1 .. Len(queue) : queue[i] \in Attempt /\ queue[i].case \in CaseIds
<1>1. \A i \in 1 .. Len(queue) : queue[i] \in Attempt
  BY ElementOfSeq, Zenon DEF TypeOK
<1>2. \A a \in Attempt : a.case \in CaseIds /\ a.attempts \in Nat /\ a.attempts < MaxAttempts
  BY ClientAssumption DEF Attempt
<1>3. hand # Nobody => hand \in Attempt
  BY DEF TypeOK
<1>4. Len(queue) \in Nat
  BY LenProperties DEF TypeOK
<1>5. http # "unsent" => hand # Nobody
  BY DEF TypeOK
<1> QED BY <1>1, <1>2, <1>3, <1>4, <1>5

LEMMA InitCInv == Init => CInv
<1> SUFFICES ASSUME Init PROVE CInv
  OBVIOUS
<1>1. queue \in Seq(Attempt) /\ Len(queue) = 0 /\ 1 .. Len(queue) = {}
  BY EmptySeq DEF Init
<1>2. \A c : ~Queued(c) /\ ~InHand(c)
  BY <1>1, Zenon DEF Init, Queued, InHand
<1>3. TypeOK
  BY <1>1, ClientAssumption DEF Init, TypeOK
<1>4. Placed /\ Distinct /\ OneEnd
  BY <1>1, <1>2 DEF Init, Placed, Distinct, OneEnd
<1>5. PostsOfQueue /\ PostsOfHand /\ PostsOfOthers
  BY <1>1 DEF Init, PostsOfQueue, PostsOfHand, PostsOfOthers, Settled
<1>6. AttemptsBounded /\ HandedOffIsReceived
  BY ClientAssumption DEF Init, AttemptsBounded, HandedOffIsReceived
<1> QED BY <1>3, <1>4, <1>5, <1>6 DEF CInv

-----------------------------------------------------------------------------
(* The steps *)

LEMMA InvestigateStep ==
  ASSUME CInv, NEW c \in CaseIds, Investigate(c)
  PROVE  CInv'
<1> DEFINE a == [case |-> c, attempts |-> 0]
<1>1. a \in Attempt /\ a.case = c /\ a.attempts = 0
  BY ClientAssumption DEF Attempt
<1>2. /\ c \notin asked /\ asked' = asked \cup {c}
      /\ left' = left /\ hand' = hand /\ http' = http /\ posts' = posts /\ received' = received
      /\ handedOff' = handedOff /\ gaveUp' = gaveUp /\ lost' = lost
      /\ \/ Fits(queue) /\ queue' = Append(queue, a) /\ dropped' = dropped
         \/ ~Fits(queue) /\ queue' = queue /\ dropped' = dropped \cup {c}
  BY DEF Investigate, counters
<1> HIDE DEF a
<1>3. ~Queued(c) /\ ~InHand(c)
  BY <1>2 DEF CInv, Placed
<1>4. posts[c] = 0 /\ received[c] = {}
  BY <1>2 DEF CInv, PostsOfOthers
<1>5. c \notin Settled
  BY <1>2 DEF CInv, PostsOfOthers
<1>6. AttemptsBounded' /\ HandedOffIsReceived' /\ PostsOfOthers' /\ PostsOfHand'
  <2>1. Settled' \subseteq Settled \cup {c}
    BY <1>2 DEF Settled
  <2> QED BY <1>2, <2>1 DEF CInv, AttemptsBounded, HandedOffIsReceived, PostsOfOthers, PostsOfHand
<1>7. CASE Fits(queue) /\ queue' = Append(queue, a) /\ dropped' = dropped
  <2>1. /\ queue \in Seq(Attempt) /\ Len(queue) < MaxQueued
        /\ Distinct /\ ~Queued(a.case)
    BY <1>1, <1>3, <1>7 DEF CInv, TypeOK, Fits
  <2>2. /\ queue' \in Seq(Attempt) /\ Len(queue') = Len(queue) + 1 /\ Len(queue) \in Nat
        /\ \A d : Queued(d)' <=> (Queued(d) \/ d = c)
        /\ Distinct'
    BY <1>1, <1>7, <2>1, OfferQueue
  <2>3. TypeOK'
    <3>1. Len(queue') <= MaxQueued
      BY <2>1, <2>2, ClientAssumption
    <3>2. left <= Len(queue') + (IF hand = Nobody THEN 0 ELSE 1)
      BY <2>2 DEF CInv, TypeOK
    <3> QED BY <1>2, <1>7, <2>2, <3>1, <3>2 DEF CInv, TypeOK
  <2>4. Settled' = Settled /\ \A d : InHand(d)' <=> InHand(d)
    BY <1>2, <1>7 DEF Settled, InHand
  <2>5. Placed' /\ OneEnd'
    BY <1>2, <1>3, <1>5, <1>7, <2>2, <2>4 DEF CInv, Placed, OneEnd
  <2>6. PostsOfQueue'
    BY <1>1, <1>2, <1>4, <1>7, <2>1, OfferQueue DEF CInv, PostsOfQueue
  <2> QED BY <1>6, <2>2, <2>3, <2>5, <2>6 DEF CInv
<1>8. CASE ~Fits(queue) /\ queue' = queue /\ dropped' = dropped \cup {c}
  <2>1. TypeOK'
    BY <1>2, <1>8 DEF CInv, TypeOK
  <2>2. (\A d : (Queued(d)' <=> Queued(d)) /\ (InHand(d)' <=> InHand(d))) /\ Settled' = Settled \cup {c}
    BY <1>2, <1>8 DEF Settled, InHand, Queued
  <2>3. Placed'
    BY <1>2, <1>3, <1>5, <2>2 DEF CInv, Placed
  <2>4. OneEnd'
    BY <1>2, <1>5, <1>8 DEF CInv, OneEnd, Settled
  <2>5. Distinct' /\ PostsOfQueue'
    BY <1>2, <1>8 DEF CInv, Distinct, PostsOfQueue
  <2> QED BY <1>6, <2>1, <2>3, <2>4, <2>5 DEF CInv
<1> QED BY <1>2, <1>7, <1>8

LEMMA StartDrainStep ==
  ASSUME CInv, StartDrain
  PROVE  CInv'
<1>1. /\ left = 0 /\ queue # <<>> /\ left' = Len(queue)
      /\ queue' = queue /\ hand' = hand /\ http' = http /\ asked' = asked
      /\ posts' = posts /\ received' = received
      /\ handedOff' = handedOff /\ gaveUp' = gaveUp /\ dropped' = dropped /\ lost' = lost
  BY DEF StartDrain, counters, outcomes
<1>2. hand = Nobody
  BY <1>1 DEF CInv, TypeOK
<1>3. left' \in Nat /\ left' <= Len(queue')
  BY <1>1, LenProperties DEF CInv, TypeOK
<1>4. TypeOK'
  BY <1>1, <1>2, <1>3 DEF CInv, TypeOK
<1> QED BY <1>1, <1>4 DEF CInv, Placed, Queued, InHand, Settled, Distinct, OneEnd, PostsOfQueue,
           PostsOfHand, PostsOfOthers, AttemptsBounded, HandedOffIsReceived

LEMMA PollStep ==
  ASSUME CInv, Poll
  PROVE  CInv'
<1>1. /\ left > 0 /\ hand = Nobody
      /\ hand' = Head(queue) /\ queue' = Tail(queue) /\ http' = "unsent"
      /\ left' = left /\ asked' = asked /\ posts' = posts /\ received' = received
      /\ handedOff' = handedOff /\ gaveUp' = gaveUp /\ dropped' = dropped /\ lost' = lost
  BY DEF Poll, counters, outcomes
<1>2. queue \in Seq(Attempt) /\ left \in Nat /\ left <= Len(queue) /\ Len(queue) <= MaxQueued
  BY <1>1 DEF CInv, TypeOK
<1>3. queue # <<>>
  BY <1>1, <1>2, EmptySeq
<1>4. /\ queue' \in Seq(Attempt) /\ Head(queue) \in Attempt
      /\ Len(queue) \in Nat \ {0} /\ Len(queue') = Len(queue) - 1
      /\ Head(queue) = queue[1] /\ 1 \in 1 .. Len(queue)
      /\ \A i \in 1 .. Len(queue') : i + 1 \in 1 .. Len(queue) /\ queue'[i] = queue[i + 1]
      /\ \A c : Queued(c) <=> (Queued(c)' \/ c = Head(queue).case)
      /\ Distinct' /\ \A c : c = Head(queue).case => ~Queued(c)'
  BY <1>1, <1>2, <1>3, PollQueue DEF CInv
<1>5. hand' \in Attempt /\ hand' # Nobody
  BY <1>1, <1>4, NobodyAssumption
<1>6. TypeOK'
  <2>1. Len(queue') <= MaxQueued /\ left <= Len(queue') + 1
    BY <1>2, <1>4, ClientAssumption
  <2> QED BY <1>1, <1>2, <1>4, <1>5, <2>1 DEF CInv, TypeOK
<1>7. Settled' = Settled /\ \A c : ~InHand(c) /\ (InHand(c)' <=> c = Head(queue).case)
  BY <1>1, <1>5 DEF Settled, InHand
<1>8. Placed' /\ OneEnd'
  BY <1>1, <1>4, <1>7 DEF CInv, Placed, OneEnd
<1>9. PostsOfQueue' /\ PostsOfHand'
  BY <1>1, <1>4 DEF CInv, PostsOfQueue, PostsOfHand
<1>10. PostsOfOthers' /\ AttemptsBounded' /\ HandedOffIsReceived'
  BY <1>1, <1>7 DEF CInv, PostsOfOthers, AttemptsBounded, HandedOffIsReceived
<1> QED BY <1>4, <1>6, <1>8, <1>9, <1>10 DEF CInv

LEMMA SendStep ==
  ASSUME CInv, Send
  PROVE  CInv'
<1> DEFINE h == hand.case
<1>1. /\ hand # Nobody /\ http = "unsent" /\ http' = "sent"
      /\ posts' = [posts EXCEPT ![h] = @ + 1] /\ received' = received
      /\ queue' = queue /\ left' = left /\ hand' = hand /\ asked' = asked
      /\ handedOff' = handedOff /\ gaveUp' = gaveUp /\ dropped' = dropped /\ lost' = lost
  BY DEF Send, outcomes
<1>2. h \in CaseIds /\ hand.attempts \in Nat /\ hand.attempts < MaxAttempts
  BY <1>1, HandFacts DEF CInv
<1>3. posts \in [CaseIds -> Nat]
  BY DEF CInv, TypeOK
<1>4. posts[h] = hand.attempts /\ received[h] \subseteq 1 .. posts[h]
  BY <1>1, <1>2 DEF CInv, PostsOfHand, AttemptsBounded
<1>5. ~Queued(h) /\ h \in asked
  BY <1>1, <1>2 DEF CInv, Placed, InHand
<1> HIDE DEF h
<1>6. /\ posts' \in [CaseIds -> Nat] /\ posts'[h] = posts[h] + 1
      /\ \A c \in CaseIds : c # h => posts'[c] = posts[c]
  BY <1>1, <1>2, <1>3
<1>7. TypeOK'
  BY <1>1, <1>6 DEF CInv, TypeOK
<1>8. AttemptsBounded'
  <2>1. received'[h] \subseteq 1 .. posts'[h] /\ posts'[h] <= MaxAttempts
    BY <1>1, <1>2, <1>3, <1>4, <1>6, ClientAssumption
  <2> QED BY <1>1, <1>6, <2>1 DEF CInv, AttemptsBounded
<1>9. HandedOffIsReceived'
  BY <1>1 DEF CInv, HandedOffIsReceived
<1>10. Placed' /\ Distinct' /\ OneEnd' /\ Settled' = Settled
  BY <1>1 DEF CInv, Placed, Distinct, OneEnd, Queued, InHand, Settled
<1>11. PostsOfQueue'
  <2>1. \A i \in 1 .. Len(queue) : queue[i].case \in CaseIds /\ queue[i].case # h
    BY <1>5, HandFacts DEF CInv, Queued
  <2> QED BY <1>1, <1>6, <2>1 DEF CInv, PostsOfQueue
<1>12. PostsOfHand'
  BY <1>1, <1>4, <1>6 DEF PostsOfHand, h
<1>13. PostsOfOthers'
  <2>1. \A c \in CaseIds : c \notin asked => posts'[c] = 0
    BY <1>5, <1>6 DEF CInv, PostsOfOthers
  <2> QED BY <1>1, <1>10, <2>1 DEF CInv, PostsOfOthers
<1> QED BY <1>7, <1>8, <1>9, <1>10, <1>11, <1>12, <1>13 DEF CInv

\* A late acceptance adds to what the agent has of a case and moves nothing on this side.
LEMMA AcceptStep ==
  ASSUME CInv, NEW c \in CaseIds, NEW k \in 1 .. MaxAttempts, Accept(c, k)
  PROVE  CInv'
<1>1. /\ k \in 1 .. posts[c] /\ received' = [received EXCEPT ![c] = @ \cup {k}]
      /\ http' = (IF http = "sent" /\ hand.case = c /\ k = posts[c] THEN "accepted" ELSE http)
      /\ queue' = queue /\ left' = left /\ hand' = hand /\ asked' = asked /\ posts' = posts
      /\ handedOff' = handedOff /\ gaveUp' = gaveUp /\ dropped' = dropped /\ lost' = lost
  BY DEF Accept, outcomes
<1>2. received \in [CaseIds -> SUBSET Nat] /\ k \in Nat
  BY ClientAssumption DEF CInv, TypeOK
<1>3. /\ received' \in [CaseIds -> SUBSET Nat] /\ received'[c] = received[c] \cup {k}
      /\ \A d \in CaseIds : d # c => received'[d] = received[d]
  BY <1>1, <1>2
<1>4. TypeOK'
  <2>1. http' \in {"unsent", "sent", "accepted"} /\ (hand' = Nobody => http' = "unsent")
    BY <1>1 DEF CInv, TypeOK
  <2> QED BY <1>1, <1>3, <2>1 DEF CInv, TypeOK
<1>5. AttemptsBounded'
  BY <1>1, <1>3 DEF CInv, AttemptsBounded
<1>6. HandedOffIsReceived'
  BY <1>1, <1>3 DEF CInv, HandedOffIsReceived, TypeOK
<1>7. Placed' /\ Distinct' /\ OneEnd' /\ Settled' = Settled /\ PostsOfQueue'
  BY <1>1 DEF CInv, Placed, Distinct, OneEnd, Queued, InHand, Settled, PostsOfQueue
<1>8. PostsOfHand'
  <2>1. (http' = "unsent") <=> (http = "unsent")
    BY <1>1
  <2> QED BY <1>1, <2>1 DEF CInv, PostsOfHand
<1>9. PostsOfOthers'
  <2>1. http' = "accepted" => received'[hand'.case] # {}
    <3>1. CASE http = "accepted"
      <4>1. hand.case \in CaseIds /\ received[hand.case] # {}
        BY <3>1, HandFacts DEF CInv, PostsOfOthers
      <4> QED BY <1>1, <1>3, <4>1
    <3>2. CASE http # "accepted"
      BY <1>1, <1>3, <3>2
    <3> QED BY <3>1, <3>2
  <2>2. c \in asked
    BY <1>1, <1>2 DEF CInv, PostsOfOthers
  <2> QED BY <1>1, <1>3, <1>7, <2>1, <2>2 DEF CInv, PostsOfOthers
<1> QED BY <1>4, <1>5, <1>6, <1>7, <1>8, <1>9 DEF CInv

\* An iteration that ends with one of the outcomes for the case in hand.
LEMMA SettleStep ==
  ASSUME CInv, NextIteration, http # "unsent",
         queue' = queue, asked' = asked, posts' = posts, received' = received,
         Settled' = Settled \cup {hand.case},
         handedOff' \in SUBSET CaseIds, gaveUp' \in SUBSET CaseIds,
         dropped' \in SUBSET CaseIds, lost' \in SUBSET CaseIds,
         OneEnd', HandedOffIsReceived'
  PROVE  CInv'
<1>1. hand # Nobody /\ hand.case \in CaseIds /\ hand' = Nobody /\ http' = "unsent" /\ left' = left - 1
  BY HandFacts DEF CInv, NextIteration
<1>2. ~Queued(hand.case) /\ hand.case \in asked
  BY <1>1 DEF CInv, Placed, InHand
<1>3. (\A c : (Queued(c)' <=> Queued(c)) /\ ~InHand(c)' /\ (InHand(c) <=> c = hand.case))
  BY <1>1 DEF Queued, InHand
<1>4. Placed'
  BY <1>2, <1>3 DEF CInv, Placed
<1>5. TypeOK'
  <2>1. left \in Nat /\ left > 0 /\ left <= Len(queue) + 1 /\ Len(queue) \in Nat
    BY <1>1, HandFacts DEF CInv, TypeOK
  <2>2. left' \in Nat /\ left' <= Len(queue)
    BY <1>1, <2>1
  <2> QED BY <1>1, <2>2 DEF CInv, TypeOK
<1>6. Distinct' /\ PostsOfQueue' /\ AttemptsBounded'
  BY DEF CInv, Distinct, PostsOfQueue, AttemptsBounded
<1>7. PostsOfHand' /\ PostsOfOthers'
  BY <1>1, <1>2 DEF CInv, PostsOfHand, PostsOfOthers
<1> QED BY <1>4, <1>5, <1>6, <1>7 DEF CInv

LEMMA AnsweredStep ==
  ASSUME CInv, Answered
  PROVE  CInv'
<1>1. /\ http = "accepted" /\ handedOff' = handedOff \cup {hand.case} /\ NextIteration
      /\ queue' = queue /\ asked' = asked /\ posts' = posts /\ received' = received
      /\ gaveUp' = gaveUp /\ dropped' = dropped /\ lost' = lost
  BY DEF Answered, counters
<1>2. hand # Nobody /\ hand.case \in CaseIds /\ received[hand.case] # {}
  BY <1>1, HandFacts DEF CInv, PostsOfOthers
<1>3. hand.case \notin Settled
  BY <1>2 DEF CInv, Placed, InHand
<1>4. Settled' = Settled \cup {hand.case} /\ OneEnd'
  BY <1>1, <1>3 DEF CInv, Settled, OneEnd
<1>5. HandedOffIsReceived'
  BY <1>1, <1>2 DEF CInv, HandedOffIsReceived
<1>6. /\ handedOff' \in SUBSET CaseIds /\ gaveUp' \in SUBSET CaseIds
      /\ dropped' \in SUBSET CaseIds /\ lost' \in SUBSET CaseIds
  BY <1>1, <1>2 DEF CInv, TypeOK
<1> QED BY <1>1, <1>4, <1>5, <1>6, SettleStep

LEMMA FailedStep ==
  ASSUME CInv, Failed
  PROVE  CInv'
<1> DEFINE a == [case |-> hand.case, attempts |-> hand.attempts + 1]
<1>1. /\ hand # Nobody /\ http # "unsent" /\ NextIteration
      /\ asked' = asked /\ posts' = posts /\ received' = received
      /\ handedOff' = handedOff /\ lost' = lost
      /\ \/ gaveUp' = gaveUp \cup {hand.case} /\ queue' = queue /\ dropped' = dropped
         \/ /\ hand.attempts + 1 < MaxAttempts /\ Fits(queue)
            /\ queue' = Append(queue, a) /\ gaveUp' = gaveUp /\ dropped' = dropped
         \/ dropped' = dropped \cup {hand.case} /\ queue' = queue /\ gaveUp' = gaveUp
  BY DEF Failed, counters
<1>2. hand.case \in CaseIds /\ hand.attempts \in Nat
  BY <1>1, HandFacts DEF CInv
<1>3. hand.case \notin Settled /\ ~Queued(hand.case) /\ hand.case \in asked
  BY <1>1, <1>2 DEF CInv, Placed, InHand
<1>4. HandedOffIsReceived'
  BY <1>1 DEF CInv, HandedOffIsReceived
<1>5. CASE gaveUp' = gaveUp \cup {hand.case} /\ queue' = queue /\ dropped' = dropped
  <2>1. Settled' = Settled \cup {hand.case} /\ OneEnd'
    BY <1>1, <1>3, <1>5 DEF CInv, Settled, OneEnd
  <2>2. /\ handedOff' \in SUBSET CaseIds /\ gaveUp' \in SUBSET CaseIds
        /\ dropped' \in SUBSET CaseIds /\ lost' \in SUBSET CaseIds
    BY <1>1, <1>2, <1>5 DEF CInv, TypeOK
  <2> QED BY <1>1, <1>4, <1>5, <2>1, <2>2, SettleStep
<1>6. CASE dropped' = dropped \cup {hand.case} /\ queue' = queue /\ gaveUp' = gaveUp
  <2>1. Settled' = Settled \cup {hand.case} /\ OneEnd'
    BY <1>1, <1>3, <1>6 DEF CInv, Settled, OneEnd
  <2>2. /\ handedOff' \in SUBSET CaseIds /\ gaveUp' \in SUBSET CaseIds
        /\ dropped' \in SUBSET CaseIds /\ lost' \in SUBSET CaseIds
    BY <1>1, <1>2, <1>6 DEF CInv, TypeOK
  <2> QED BY <1>1, <1>4, <1>6, <2>1, <2>2, SettleStep
<1>7. CASE /\ hand.attempts + 1 < MaxAttempts /\ Fits(queue)
           /\ queue' = Append(queue, a) /\ gaveUp' = gaveUp /\ dropped' = dropped
  <2>1. a \in Attempt /\ a.case = hand.case /\ a.attempts = hand.attempts + 1
    BY <1>2, <1>7, ClientAssumption DEF Attempt
  <2>2. posts[hand.case] = hand.attempts + 1
    BY <1>1 DEF CInv, PostsOfHand
  <2> HIDE DEF a
  <2>3. queue \in Seq(Attempt) /\ Len(queue) < MaxQueued /\ Distinct /\ ~Queued(a.case)
    BY <1>3, <1>7, <2>1 DEF CInv, TypeOK, Fits
  <2>4. /\ queue' \in Seq(Attempt) /\ Len(queue') = Len(queue) + 1 /\ Len(queue) \in Nat
        /\ \A i \in 1 .. Len(queue) : queue'[i] = queue[i]
        /\ queue'[Len(queue) + 1] = a
        /\ \A i \in 1 .. Len(queue') : i \in 1 .. Len(queue) \/ i = Len(queue) + 1
        /\ \A d : Queued(d)' <=> (Queued(d) \/ d = hand.case)
        /\ Distinct'
    BY <1>7, <2>1, <2>3, OfferQueue
  <2>5. hand' = Nobody /\ http' = "unsent" /\ left' = left - 1
    BY <1>1 DEF NextIteration
  <2>6. TypeOK'
    <3>1. left \in Nat /\ left > 0 /\ left <= Len(queue) + 1
      BY <1>1 DEF CInv, TypeOK
    <3>2. left' \in Nat /\ left' <= Len(queue') /\ Len(queue') <= MaxQueued
      BY <2>3, <2>4, <2>5, <3>1, ClientAssumption
    <3> QED BY <1>1, <1>7, <2>4, <2>5, <3>2 DEF CInv, TypeOK
  <2>7. Settled' = Settled /\ \A c : ~InHand(c)' /\ (InHand(c) <=> c = hand.case)
    BY <1>1, <1>7, <2>5 DEF Settled, InHand
  <2>8. Placed' /\ OneEnd'
    BY <1>1, <1>3, <1>7, <2>4, <2>7 DEF CInv, Placed, OneEnd
  <2>9. PostsOfQueue'
    BY <1>1, <2>1, <2>2, <2>4 DEF CInv, PostsOfQueue
  <2>10. PostsOfHand' /\ PostsOfOthers' /\ AttemptsBounded'
    BY <1>1, <2>5, <2>7 DEF CInv, PostsOfHand, PostsOfOthers, AttemptsBounded
  <2> QED BY <1>4, <2>4, <2>6, <2>8, <2>9, <2>10 DEF CInv
<1> QED BY <1>1, <1>5, <1>6, <1>7

LEMMA CrashStep ==
  ASSUME CInv, Crash
  PROVE  CInv'
<1>1. /\ lost' = lost \cup {c \in CaseIds : Queued(c) \/ InHand(c)}
      /\ queue' = <<>> /\ left' = 0 /\ hand' = Nobody /\ http' = "unsent"
      /\ asked' = asked /\ posts' = posts /\ received' = received
      /\ handedOff' = handedOff /\ gaveUp' = gaveUp /\ dropped' = dropped
  BY DEF Crash, counters
<1>2. queue' \in Seq(Attempt) /\ Len(queue') = 0 /\ 1 .. Len(queue') = {}
  BY <1>1, EmptySeq
<1>3. \A c : ~Queued(c)' /\ ~InHand(c)'
  BY <1>1, <1>2, Zenon DEF Queued, InHand
<1>4. TypeOK'
  BY <1>1, <1>2, ClientAssumption DEF CInv, TypeOK
<1>5. Settled' = Settled \cup {c \in CaseIds : Queued(c) \/ InHand(c)}
  BY <1>1 DEF Settled
<1>6. asked \subseteq CaseIds
  BY DEF CInv, TypeOK
<1>7. Placed' /\ Settled' \subseteq asked
  BY <1>1, <1>3, <1>5, <1>6 DEF CInv, Placed, PostsOfOthers
<1>8. OneEnd'
  <2>1. \A c \in CaseIds : (Queued(c) \/ InHand(c)) => c \notin Settled
    BY DEF CInv, Placed
  <2> QED BY <1>1, <2>1 DEF CInv, OneEnd, Settled
<1>9. Distinct' /\ PostsOfQueue' /\ PostsOfHand'
  BY <1>1, <1>2 DEF Distinct, PostsOfQueue, PostsOfHand
<1>10. PostsOfOthers' /\ AttemptsBounded' /\ HandedOffIsReceived'
  BY <1>1, <1>7 DEF CInv, PostsOfOthers, AttemptsBounded, HandedOffIsReceived
<1> QED BY <1>4, <1>7, <1>8, <1>9, <1>10 DEF CInv

-----------------------------------------------------------------------------
(* The theorems *)

LEMMA NextCInv == CInv /\ [Next]_vars => CInv'
<1> SUFFICES ASSUME CInv, [Next]_vars PROVE CInv'
  OBVIOUS
<1>0. ASSUME NEW c \in CaseIds, NEW k \in 1 .. MaxAttempts, Accept(c, k) PROVE CInv'
  BY <1>0, AcceptStep
<1>1. ASSUME NEW c \in CaseIds, Investigate(c) PROVE CInv'
  BY <1>1, InvestigateStep
<1>2. CASE StartDrain
  BY <1>2, StartDrainStep
<1>3. CASE Poll
  BY <1>3, PollStep
<1>4. CASE Send
  BY <1>4, SendStep
<1>5. CASE Answered
  BY <1>5, AnsweredStep
<1>6. CASE Failed
  BY <1>6, FailedStep
<1>7. CASE Crash
  BY <1>7, CrashStep
<1>8. CASE UNCHANGED vars
  BY <1>8 DEF CInv, TypeOK, Placed, Distinct, OneEnd, PostsOfQueue, PostsOfHand, PostsOfOthers,
     AttemptsBounded, HandedOffIsReceived, Queued, InHand, Settled, vars, counters, outcomes
<1> QED BY <1>0, <1>1, <1>2, <1>3, <1>4, <1>5, <1>6, <1>7, <1>8 DEF Next, Drain

LEMMA CInvHolds == Spec => []CInv
<1>1. Init => CInv
  BY InitCInv
<1>2. CInv /\ [Next]_vars => CInv'
  BY NextCInv
<1> QED BY <1>1, <1>2, PTL DEF Spec

\* The queue keeps its bound and every variable its type, for every number of cases, every
\* queue length and every number of attempts.
THEOREM HandoffTypes == Spec => []TypeOK
<1>1. CInv => TypeOK
  BY DEF CInv
<1> QED BY <1>1, CInvHolds, PTL

\* The agent is asked at most maxAttempts times about a case, whatever becomes of the POSTs.
THEOREM AttemptsStayBounded == Spec => []AttemptsBounded
<1>1. CInv => AttemptsBounded
  BY DEF CInv
<1> QED BY <1>1, CInvHolds, PTL

\* A case that investigate was called for waits, is in hand, or has exactly one of its ends.
THEOREM NoCaseDisappears == Spec => []EveryCaseAccountedFor
<1>1. CInv => EveryCaseAccountedFor
  BY Parts DEF CInv
<1> QED BY <1>1, CInvHolds, PTL

\* A case counted as handed off has reached the agent.
THEOREM HandedOffReachesAgent == Spec => []HandedOffIsReceived
<1>1. CInv => HandedOffIsReceived
  BY DEF CInv
<1> QED BY <1>1, CInvHolds, PTL
-----------------------------------------------------------------------------
(* The agent's server behind the queue *)

\* The agent takes no part in what the client does: each step of the two is one of the client or
\* leaves it alone.
THEOREM ServerImplementsClient == ServerSpec => Spec
<1>1. ServerInit => Init
  BY DEF ServerInit
<1>2. [ServerNext]_allVars => [Next]_vars
  <2> SUFFICES ASSUME [ServerNext]_allVars PROVE [Next]_vars
    OBVIOUS
  <2>1. CASE ClientStep
    BY <2>1 DEF ClientStep, Next, Drain
  <2>2. CASE Post
    BY <2>2 DEF Post, Next, Drain
  <2>3. CASE Startup \/ Restart
    BY <2>3 DEF Startup, Restart
  <2>4. CASE \E b \in Blocking : Call(b)
    BY <2>4 DEF Call
  <2>5. ASSUME NEW t \in Tasks, Endpoint(t)
        PROVE  [Next]_vars
    <3>1. t[1] \in CaseIds /\ t[2] \in 1 .. MaxAttempts
      BY <2>5 DEF Endpoint, Tasks
    <3> QED BY <2>5, <3>1 DEF Endpoint, Next
  <2>6. ASSUME NEW t \in Tasks, Work(t), ~Endpoint(t)
        PROVE  [Next]_vars
    BY <2>6 DEF Work, TakeThread, TakePermit, Finish, AskReturns
  <2>7. CASE UNCHANGED allVars
    BY <2>7 DEF allVars
  <2> QED BY <2>1, <2>2, <2>3, <2>4, <2>5, <2>6, <2>7 DEF ServerNext
<1> QED BY <1>1, <1>2, PTL DEF ServerSpec, Spec

Running == {t \in Tasks : stage[t] = "running"}

Stages == {"none", "sent", "accepted", "waiting", "running", "asking"} \cup Ends
StageTypes == stage \in [Tasks -> Stages]

\* What the agent can be doing about a POST that was not sent, and about one it took or did not.
AtWork == {"accepted", "waiting", "running", "done"}
NotYet == {"none", "sent", "refused"}
Agreed(c, k) ==
    /\ (stage[<<c, k>>] # "none") <=> (k <= posts[c])
    /\ stage[<<c, k>>] \in AtWork => k \in received[c]
    /\ stage[<<c, k>>] \in NotYet => k \notin received[c]
Accepted == \A c \in CaseIds : \A k \in 1 .. MaxAttempts : Agreed(c, k)

\* Every place of the semaphore is free or taken by a run.
Places ==
    /\ permits \in Nat /\ IsFiniteSet(Running)
    /\ permits + Cardinality(Running) = MaxConcurrent

SInv == StageTypes /\ Accepted /\ Places

LEMMA TaskKinds ==
  /\ \A c \in CaseIds, k \in 1 .. MaxAttempts : <<c, k>> \in Tasks /\ <<c, k>> \notin Blocking
  /\ Blocking \subseteq Tasks
BY ServerAssumption DEF Tasks

LEMMA InitSInv == ServerInit => SInv
<1> SUFFICES ASSUME ServerInit PROVE SInv
  OBVIOUS
<1>1. /\ stage = [t \in Tasks |-> "none"] /\ permits = MaxConcurrent
      /\ received = [c \in CaseIds |-> {}] /\ posts = [c \in CaseIds |-> 0]
  BY DEF ServerInit, Init
<1>2. StageTypes
  BY <1>1 DEF StageTypes, Stages
<1>3. Accepted
  <2> SUFFICES ASSUME NEW c \in CaseIds, NEW k \in 1 .. MaxAttempts
               PROVE  Agreed(c, k)
    BY DEF Accepted
  <2>1. stage[<<c, k>>] = "none" /\ received[c] = {}
    BY <1>1, TaskKinds
  <2>2. posts[c] = 0 /\ ~(k <= 0)
    BY <1>1, ClientAssumption
  <2> QED BY <2>1, <2>2 DEF Agreed, AtWork
<1>4. Running = {}
  BY <1>1 DEF Running
<1>5. Places
  BY <1>1, <1>4, FS_EmptySet, ServerAssumption DEF Places
<1> QED BY <1>2, <1>3, <1>5 DEF SInv

\* What a task does once it is accepted changes nothing between the two.
LEMMA MoveAccepted ==
  ASSUME StageTypes, Accepted, NEW t \in Tasks, NEW from, NEW to, Moves(t, from, to),
         t \in Blocking \/ (from \in AtWork /\ to \in AtWork) \/ (from = "sent" /\ to = "refused"),
         received' = received, posts' = posts
  PROVE  Accepted'
<1> SUFFICES ASSUME NEW c \in CaseIds, NEW k \in 1 .. MaxAttempts
             PROVE  Agreed(c, k)'
  BY DEF Accepted
<1>1. /\ stage[t] = from /\ stage' = [stage EXCEPT ![t] = to] /\ DOMAIN stage = Tasks
      /\ <<c, k>> \in Tasks /\ <<c, k>> \notin Blocking
  BY TaskKinds DEF Moves, StageTypes
<1>2. CASE t = <<c, k>>
  <2>1. stage[<<c, k>>] = from /\ stage'[<<c, k>>] = to
    BY <1>1, <1>2
  <2>2. Agreed(c, k)
    BY DEF Accepted
  <2> QED BY <1>1, <1>2, <2>1, <2>2 DEF Agreed, AtWork, NotYet
<1>3. CASE t # <<c, k>>
  <2>1. stage'[<<c, k>>] = stage[<<c, k>>]
    BY <1>1, <1>3
  <2> QED BY <2>1 DEF Accepted, Agreed
<1> QED BY <1>2, <1>3

\* A move between two stages that are not running leaves the runs alone.
LEMMA MoveRunning ==
  ASSUME StageTypes, NEW t \in Tasks, NEW from, NEW to, Moves(t, from, to),
         from # "running", to # "running"
  PROVE  Running' = Running
BY DEF StageTypes, Moves, Running

LEMMA MoveTypes ==
  ASSUME StageTypes, NEW t \in Tasks, NEW from, NEW to \in Stages, Moves(t, from, to)
  PROVE  StageTypes'
BY DEF StageTypes, Moves

LEMMA PlainMove ==
  ASSUME SInv, NEW t \in Tasks, NEW from, NEW to \in Stages \ {"running"},
         Moves(t, from, to), from # "running", permits' = permits
  PROVE  StageTypes' /\ Places'
<1>1. StageTypes'
  BY MoveTypes DEF SInv
<1>2. Running' = Running
  BY MoveRunning DEF SInv
<1> QED BY <1>1, <1>2 DEF SInv, Places

LEMMA TakePermitStep ==
  ASSUME SInv, NEW t \in Tasks, TakePermit(t)
  PROVE  SInv'
<1>1. /\ Moves(t, "waiting", "running") /\ permits > 0 /\ permits' = permits - 1
      /\ received' = received /\ posts' = posts
  BY DEF TakePermit, vars, counters
<1>2. StageTypes' /\ Accepted'
  BY <1>1, MoveTypes, MoveAccepted DEF SInv, Stages, AtWork
<1>3. t \notin Running /\ Running' = Running \cup {t}
  BY <1>1 DEF SInv, StageTypes, Moves, Running
<1>4. IsFiniteSet(Running') /\ Cardinality(Running') = Cardinality(Running) + 1
  BY <1>3, FS_AddElement DEF SInv, Places
<1>5. Cardinality(Running) \in Nat
  BY FS_CardinalityType DEF SInv, Places
<1>6. Places'
  BY <1>1, <1>4, <1>5, ServerAssumption DEF SInv, Places
<1> QED BY <1>2, <1>6 DEF SInv

LEMMA FinishStep ==
  ASSUME SInv, NEW t \in Tasks, Finish(t)
  PROVE  SInv'
<1>1. /\ Moves(t, "running", "done") /\ permits' = permits + 1
      /\ received' = received /\ posts' = posts
  BY DEF Finish, vars, counters
<1>2. StageTypes' /\ Accepted'
  BY <1>1, MoveTypes, MoveAccepted DEF SInv, Stages, Ends, AtWork
<1>3. t \in Running /\ Running' = Running \ {t}
  BY <1>1 DEF SInv, StageTypes, Moves, Running
<1>4. IsFiniteSet(Running') /\ Cardinality(Running') = Cardinality(Running) - 1
  BY <1>3, FS_RemoveElement DEF SInv, Places
<1>5. Cardinality(Running) \in Nat
  BY FS_CardinalityType DEF SInv, Places
<1>6. Places'
  BY <1>1, <1>4, <1>5, ServerAssumption DEF SInv, Places
<1> QED BY <1>2, <1>6 DEF SInv

\* The POST is the next one about its case.
LEMMA PostStep ==
  ASSUME CInv, SInv, Post
  PROVE  SInv'
<1> DEFINE h == hand.case
           t == <<h, posts'[h]>>
<1>1. /\ h \in CaseIds /\ permits' = permits /\ received' = received
      /\ posts \in [CaseIds -> Nat] /\ posts' = [posts EXCEPT ![h] = @ + 1]
      /\ received[h] \subseteq 1 .. posts[h]
  BY HandFacts DEF CInv, TypeOK, AttemptsBounded, Post, Send
<1>2. t \in Tasks
  BY DEF Post
<1>3. PICK to \in {"lost", "sent"} : Moves(t, "none", to)
  BY DEF Post
<1>4. StageTypes' /\ Places'
  BY <1>1, <1>2, <1>3, PlainMove DEF Stages, Ends
<1>5. Accepted'
  <2> SUFFICES ASSUME NEW c \in CaseIds, NEW k \in 1 .. MaxAttempts
               PROVE  Agreed(c, k)'
    BY DEF Accepted
  <2>1. /\ <<c, k>> \in Tasks /\ Agreed(c, k)
        /\ stage' = [stage EXCEPT ![t] = to] /\ DOMAIN stage = Tasks
    BY <1>3, TaskKinds DEF SInv, Accepted, StageTypes, Moves
  <2>2. posts'[h] = posts[h] + 1 /\ posts[h] \in Nat /\ (c # h => posts'[c] = posts[c])
    BY <1>1
  <2>3. CASE t = <<c, k>>
    <3>1. c = h /\ k = posts[h] + 1
      BY <2>2, <2>3
    <3>2. stage'[<<c, k>>] = to /\ k \notin received[c] /\ k <= posts'[c]
      BY <1>1, <2>1, <2>2, <2>3, <3>1
    <3> QED BY <1>1, <3>2 DEF Agreed, AtWork
  <2>4. CASE t # <<c, k>>
    <3>1. stage'[<<c, k>>] = stage[<<c, k>>]
      BY <2>1, <2>4
    <3>2. (k <= posts'[c]) <=> (k <= posts[c])
      <4>1. CASE c = h
        <5>1. k # posts[h] + 1
          BY <2>2, <2>4, <4>1
        <5> QED BY <2>2, <4>1, <5>1
      <4> QED BY <2>2, <4>1
    <3> QED BY <1>1, <2>1, <3>1, <3>2 DEF Agreed
  <2> QED BY <2>3, <2>4
<1> QED BY <1>4, <1>5 DEF SInv

\* The request that had waited for a thread is accepted or refused.
LEMMA EndpointStep ==
  ASSUME CInv, SInv, NEW t \in Tasks, Endpoint(t)
  PROVE  SInv'
<1>1. t \notin Blocking /\ permits' = permits
  BY DEF Endpoint
<1>2. CASE Moves(t, "sent", "refused") /\ UNCHANGED vars
  <2>1. received' = received /\ posts' = posts
    BY <1>2 DEF vars, counters
  <2>2. Accepted'
    BY <1>2, <2>1, MoveAccepted DEF SInv
  <2> QED BY <1>1, <1>2, <2>2, PlainMove DEF SInv, Stages, Ends
<1>3. CASE Moves(t, "sent", "accepted") /\ Accept(t[1], t[2])
  <2>1. PICK h \in CaseIds, n \in 1 .. MaxAttempts : t = <<h, n>>
    BY <1>1 DEF Tasks
  <2>2. /\ received \in [CaseIds -> SUBSET Nat] /\ posts' = posts
        /\ received' = [received EXCEPT ![h] = @ \cup {n}]
    BY <1>3, <2>1 DEF CInv, TypeOK, Accept
  <2>3. StageTypes' /\ Places'
    BY <1>1, <1>3, PlainMove DEF Stages
  <2>4. Accepted'
    <3> SUFFICES ASSUME NEW c \in CaseIds, NEW k \in 1 .. MaxAttempts
                 PROVE  Agreed(c, k)'
      BY DEF Accepted
    <3>1. /\ <<c, k>> \in Tasks /\ Agreed(c, k)
          /\ stage[t] = "sent" /\ stage' = [stage EXCEPT ![t] = "accepted"] /\ DOMAIN stage = Tasks
      BY <1>3, TaskKinds DEF SInv, Accepted, StageTypes, Moves
    <3>2. CASE c = h /\ k = n
      <4>1. stage[<<c, k>>] = "sent" /\ stage'[<<c, k>>] = "accepted" /\ k \in received'[c]
        BY <2>1, <2>2, <3>1, <3>2
      <4> QED BY <2>2, <3>1, <4>1 DEF Agreed, NotYet
    <3>3. CASE ~(c = h /\ k = n)
      <4>1. stage'[<<c, k>>] = stage[<<c, k>>]
        BY <2>1, <3>1, <3>3
      <4>2. (k \in received'[c]) <=> (k \in received[c])
        BY <2>2, <3>3
      <4> QED BY <2>2, <3>1, <4>1, <4>2 DEF Agreed
    <3> QED BY <3>2, <3>3
  <2> QED BY <2>3, <2>4 DEF SInv
<1> QED BY <1>2, <1>3 DEF Endpoint

LEMMA RestartStep ==
  ASSUME SInv, Restart
  PROVE  SInv'
<1>1. /\ permits' = MaxConcurrent /\ received' = received /\ posts' = posts
      /\ stage' = [t \in Tasks |-> IF stage[t] = "none" \/ stage[t] \in Ends THEN stage[t] ELSE "lost"]
  BY DEF Restart, vars, counters
<1>2. StageTypes'
  BY <1>1 DEF SInv, StageTypes, Stages, Ends
<1>3. Running' = {}
  BY <1>1 DEF Running, Ends
<1>4. Places'
  BY <1>1, <1>3, FS_EmptySet, ServerAssumption DEF Places
<1>5. Accepted'
  <2>1. \A t \in Tasks : stage'[t] = stage[t] \/ (stage[t] # "none" /\ stage'[t] = "lost")
    BY <1>1
  <2> QED BY <1>1, <2>1, TaskKinds DEF SInv, Accepted, Agreed, AtWork, NotYet
<1> QED BY <1>2, <1>4, <1>5 DEF SInv

LEMMA CallStep ==
  ASSUME SInv, NEW b \in Blocking, Call(b)
  PROVE  SInv'
<1>1. permits' = permits /\ received' = received /\ posts' = posts /\ b \in Tasks
  BY TaskKinds DEF Call, vars, counters
<1>2. PICK to \in {"waiting", "asking"} \cup {"refused"} : Moves(b, "none", to)
  BY DEF Call
<1>3. StageTypes' /\ Places'
  BY <1>1, <1>2, PlainMove DEF Stages, Ends
<1>4. Accepted'
  BY <1>1, <1>2, MoveAccepted DEF SInv
<1> QED BY <1>3, <1>4 DEF SInv

LEMMA NextSInv == CInv /\ SInv /\ [ServerNext]_allVars => SInv'
<1> SUFFICES ASSUME CInv, SInv, [ServerNext]_allVars PROVE SInv'
  OBVIOUS
<1>1. ASSUME received' = received, posts' = posts, stage' = stage, permits' = permits PROVE SInv'
  BY <1>1 DEF SInv, StageTypes, Accepted, Agreed, Places, Running
<1>2. CASE ClientStep
  <2>1. received' = received /\ posts' = posts /\ stage' = stage /\ permits' = permits
    BY <1>2 DEF ClientStep, StartDrain, Poll, Answered, Failed, Crash, Investigate, counters, serverVars
  <2> QED BY <1>1, <2>1
<1>3. CASE Post
  BY <1>3, PostStep
<1>4. CASE Startup
  BY <1>1, <1>4 DEF Startup, vars, counters
<1>5. CASE Restart
  BY <1>5, RestartStep
<1>6. CASE \E b \in Blocking : Call(b)
  BY <1>6, CallStep
<1>7. ASSUME NEW t \in Tasks, Work(t) PROVE SInv'
  <2>1. CASE TakeThread(t)
    <3>1. Moves(t, "accepted", "waiting") /\ received' = received /\ posts' = posts /\ permits' = permits
      BY <2>1 DEF TakeThread, vars, counters
    <3>2. StageTypes' /\ Places'
      BY <3>1, PlainMove DEF Stages
    <3>3. Accepted'
      BY <3>1, MoveAccepted DEF SInv, AtWork
    <3> QED BY <3>2, <3>3 DEF SInv
  <2>2. CASE AskReturns(t)
    <3>1. Moves(t, "asking", "done") /\ received' = received /\ posts' = posts /\ permits' = permits
      BY <2>2 DEF AskReturns, vars, counters
    <3>2. t \in Blocking
      BY <2>2 DEF AskReturns
    <3>3. StageTypes' /\ Places'
      BY <3>1, PlainMove DEF Stages, Ends
    <3>4. Accepted'
      BY <3>1, <3>2, MoveAccepted DEF SInv
    <3> QED BY <3>3, <3>4 DEF SInv
  <2> QED BY <1>7, <2>1, <2>2, EndpointStep, TakePermitStep, FinishStep DEF Work
<1>8. CASE UNCHANGED allVars
  BY <1>1, <1>8 DEF allVars, vars, serverVars, counters
<1> QED BY <1>2, <1>3, <1>4, <1>5, <1>6, <1>7, <1>8 DEF ServerNext

\* For any pool, semaphore, cases and blocking calls, through lost answers, errors, crashes of the
\* client and restarts of the agent, and however late it answers: the agent works only on POSTs that
\* were sent and that it accepted, a case counted as handed off is one of them, and every place of
\* the semaphore is free or held by a run.
THEOREM ServerAndClientAgree == ServerSpec => []HandoffAgrees
<1>1. ServerInit => SInv
  BY InitSInv
<1>2. CInv /\ SInv /\ [ServerNext]_allVars => SInv'
  BY NextSInv
<1>3. CInv /\ SInv => HandoffAgrees
  BY DEF SInv, Accepted, Agreed, AtWork, NotYet, Places, Running, HandoffAgrees, CInv, HandedOffIsReceived
<1> QED BY <1>1, <1>2, <1>3, ServerImplementsClient, CInvHolds, PTL DEF ServerSpec

\* The same of the two together: no case disappears between them.
THEOREM NoCaseDisappearsWithServer == ServerSpec => []EveryCaseAccountedFor
BY ServerImplementsClient, NoCaseDisappears, PTL

-----------------------------------------------------------------------------
(* The rate limiter *)

LimiterTypes ==
    /\ clock \in Nat
    /\ now \in [Callers -> Nat \cup {NotRead}]
    /\ hits \in [Windows -> Seq(Hit)]
    /\ admitted \subseteq [by : Callers, client : Clients, at : Nat]

\* No thread lies longer than MaxStall between its reading and the lock.
Stalls ==
    \A c \in Callers : now[c] # NotRead => now[c] <= clock /\ clock - now[c] <= MaxStall

\* A call is let through once.
Once ==
    /\ \A c \in Callers : now[c] # NotRead => CallerIsNew(c)
    /\ \A a, b \in admitted : a.by = b.by => a = b

\* No deque outgrows its limit.
Full == \A w \in Windows : Limit(w) > 0 => Len(hits[w]) <= Limit(w)

\* The deque of window w has the call a.
Has(w, a) == \E i \in 1 .. Len(hits[w]) : hits[w][i].by = a.by /\ a.at - hits[w][i].at <= MaxStall

\* What was let through of late has not left any deque it counts in.
Present ==
    \A w \in Windows : Limit(w) > 0 =>
        \A a \in admitted : CountsIn(a, w) /\ Recent(a, w) => Has(w, a)

LInv == LimiterTypes /\ Stalls /\ Once /\ Full /\ Present

-----------------------------------------------------------------------------
(* Windows and their deques *)

LEMMA NatMin ==
  ASSUME NEW T \in SUBSET Nat, T # {}
  PROVE  \E x \in T : \A y \in T : x <= y
<1>1. PICK x \in T : \A y \in T : ~(<<y, x>> \in OpToRel(<, Nat))
  BY NatLessThanWellFounded, WFMin
<1>2. \A y \in T : ~(y < x)
  BY <1>1 DEF OpToRel
<1> QED BY <1>2

LEMMA WindowTypes ==
  ASSUME NEW w \in Windows
  PROVE  Limit(w) \in Nat /\ Length(w) \in Nat
<1>1. w[2] \in Spans /\ (w[1] \in Clients \/ w[1] = Everyone)
  BY DEF Windows
<1>2. Limit(w) \in Nat
  BY <1>1, LimiterAssumption DEF Limit
<1>3. Seconds[w[2]] \in Nat /\ PerSecond \in Nat
  BY <1>1, LimiterAssumption
<1> QED BY <1>2, <1>3 DEF Length

\* The pops keep the order and take no hit that is young.
LEMMA KeptFrom ==
  ASSUME LimiterTypes, NEW w \in Windows, NEW n \in Nat
  PROVE  \/ /\ Kept(w, n) = <<>>
            /\ \A i \in 1 .. Len(hits[w]) : ~Young(w, n, hits[w][i])
         \/ \E first \in 1 .. Len(hits[w]) :
              /\ Young(w, n, hits[w][first])
              /\ \A i \in 1 .. Len(hits[w]) : Young(w, n, hits[w][i]) => first <= i
              /\ Kept(w, n) \in Seq(Hit)
              /\ Len(Kept(w, n)) = Len(hits[w]) - first + 1
              /\ \A j \in 1 .. Len(hits[w]) - first + 1 : Kept(w, n)[j] = hits[w][first + j - 1]
<1> DEFINE h     == hits[w]
           young == {i \in 1 .. Len(h) : Young(w, n, h[i])}
           first == CHOOSE i \in young : \A j \in young : i <= j
<1>1. h \in Seq(Hit) /\ Len(h) \in Nat /\ \A i \in 1 .. Len(h) : h[i] \in Hit
  BY LenProperties DEF LimiterTypes
<1>2. Kept(w, n) = IF young = {} THEN <<>> ELSE SubSeq(h, first, Len(h))
  BY DEF Kept
<1>3. CASE young = {}
  <2>1. \A i \in 1 .. Len(h) : ~Young(w, n, h[i])
    BY <1>3
  <2> QED BY <1>2, <1>3, <2>1
<1>4. CASE young # {}
  <2>1. first \in young /\ \A j \in young : first <= j
    <3>1. young \in SUBSET Nat
      BY <1>1
    <3> HIDE DEF young
    <3>2. \E i \in young : \A j \in young : i <= j
      BY <1>4, <3>1, NatMin
    <3> QED BY <3>2
  <2>2. /\ first \in 1 .. Len(h) /\ Young(w, n, h[first])
        /\ \A i \in 1 .. Len(h) : Young(w, n, h[i]) => first <= i
    BY <2>1
  <2>3. first \in 1 .. Len(h)
    BY <2>1
  <2> HIDE DEF first
  <2>4. Kept(w, n) = SubSeq(h, first, Len(h))
    BY <1>2, <1>4
  <2>5. /\ Kept(w, n) \in Seq(Hit)
        /\ Len(Kept(w, n)) = Len(h) - first + 1
        /\ \A j \in 1 .. Len(h) - first + 1 : Kept(w, n)[j] = h[first + j - 1]
    BY <1>1, <2>3, <2>4, SubSeqProperties
  <2> QED BY <2>2, <2>5
<1> QED BY <1>3, <1>4

LEMMA KeptProperties ==
  ASSUME LimiterTypes, NEW w \in Windows, NEW n \in Nat
  PROVE  /\ Kept(w, n) \in Seq(Hit)
         /\ Len(Kept(w, n)) <= Len(hits[w])
         /\ \A i \in 1 .. Len(hits[w]) :
              Young(w, n, hits[w][i]) => \E j \in 1 .. Len(Kept(w, n)) : Kept(w, n)[j] = hits[w][i]
<1> DEFINE h == hits[w]
<1>1. h \in Seq(Hit) /\ Len(h) \in Nat /\ \A i \in 1 .. Len(h) : h[i] \in Hit
  BY LenProperties DEF LimiterTypes
<1>2. CASE Kept(w, n) = <<>> /\ \A i \in 1 .. Len(h) : ~Young(w, n, h[i])
  BY <1>1, <1>2
<1>3. CASE ~(Kept(w, n) = <<>> /\ \A i \in 1 .. Len(h) : ~Young(w, n, h[i]))
  <2>1. PICK first \in 1 .. Len(h) :
             /\ \A i \in 1 .. Len(h) : Young(w, n, h[i]) => first <= i
             /\ Kept(w, n) \in Seq(Hit)
             /\ Len(Kept(w, n)) = Len(h) - first + 1
             /\ \A j \in 1 .. Len(h) - first + 1 : Kept(w, n)[j] = h[first + j - 1]
    BY <1>3, KeptFrom
  <2>2. ASSUME NEW i \in 1 .. Len(h), Young(w, n, h[i])
        PROVE  \E j \in 1 .. Len(Kept(w, n)) : Kept(w, n)[j] = h[i]
    <3>1. first <= i
      BY <2>1, <2>2
    <3>2. i - first + 1 \in 1 .. Len(Kept(w, n)) /\ first + (i - first + 1) - 1 = i
      BY <1>1, <2>1, <3>1
    <3> QED BY <2>1, <3>2
  <2> QED BY <1>1, <2>1, <2>2
<1> QED BY <1>2, <1>3

\* A later reading keeps no more, and less if it does not keep the first that an earlier one kept.
LEMMA KeptLater ==
  ASSUME LimiterTypes, NEW w \in Windows, NEW n \in Nat, NEW m \in Nat, n <= m
  PROVE  /\ Len(Kept(w, m)) <= Len(Kept(w, n))
         /\ Kept(w, n) # <<>> /\ ~Young(w, m, Head(Kept(w, n))) => Len(Kept(w, m)) < Len(Kept(w, n))
<1> DEFINE h == hits[w]
<1>1. h \in Seq(Hit) /\ Len(h) \in Nat /\ (\A i \in 1 .. Len(h) : h[i].at \in Nat) /\ Length(w) \in Nat
  <2>1. h \in Seq(Hit) /\ Len(h) \in Nat /\ \A i \in 1 .. Len(h) : h[i] \in Hit
    BY LenProperties DEF LimiterTypes
  <2>2. \A x \in Hit : x.at \in Nat
    BY DEF Hit
  <2> HIDE DEF h
  <2> QED BY <2>1, <2>2, WindowTypes
<1>2. \A i \in 1 .. Len(h) : Young(w, m, h[i]) => Young(w, n, h[i])
  BY <1>1 DEF Young
<1>3. CASE \A i \in 1 .. Len(h) : ~Young(w, m, h[i])
  <2>1. Kept(w, m) = <<>>
    BY <1>3, KeptFrom
  <2>2. Kept(w, n) \in Seq(Hit)
    BY KeptProperties
  <2> QED BY <2>1, <2>2
<1>4. ASSUME NEW k \in 1 .. Len(h), Young(w, m, h[k]),
             Kept(w, m) \in Seq(Hit), Len(Kept(w, m)) = Len(h) - k + 1
      PROVE  /\ Len(Kept(w, m)) <= Len(Kept(w, n))
             /\ ~Young(w, m, Head(Kept(w, n))) => Len(Kept(w, m)) < Len(Kept(w, n))
  <2>1. Young(w, n, h[k])
    BY <1>2, <1>4
  <2>2. PICK first \in 1 .. Len(h) :
             /\ \A i \in 1 .. Len(h) : Young(w, n, h[i]) => first <= i
             /\ Kept(w, n) \in Seq(Hit)
             /\ Len(Kept(w, n)) = Len(h) - first + 1
             /\ \A j \in 1 .. Len(h) - first + 1 : Kept(w, n)[j] = h[first + j - 1]
    BY <2>1, KeptFrom
  <2>3. first <= k
    BY <2>1, <2>2
  <2>4. Head(Kept(w, n)) = h[first]
    <3>1. 1 \in 1 .. Len(h) - first + 1 /\ first + 1 - 1 = first
      BY <1>1, <2>2
    <3>2. Kept(w, n)[1] = h[first]
      BY <2>2, <3>1
    <3> QED BY <3>2
  <2>5. ASSUME ~Young(w, m, Head(Kept(w, n))) PROVE first # k
    BY <1>4, <2>4, <2>5
  <2>6. Len(h) - k + 1 <= Len(h) - first + 1 /\ (first # k => Len(h) - k + 1 < Len(h) - first + 1)
    <3> HIDE DEF h
    <3> QED BY <1>1, <2>3
  <2>7. Len(Kept(w, m)) = Len(h) - k + 1 /\ Len(Kept(w, n)) = Len(h) - first + 1
    BY <1>4, <2>2
  <2> HIDE DEF h
  <2> QED BY <2>5, <2>6, <2>7
<1> QED BY <1>3, <1>4, KeptFrom

\* A window that asks nobody to wait has room.
LEMMA PauseMeansFull ==
  ASSUME LimiterTypes, NEW w \in Windows, NEW n \in Nat, Limit(w) > 0, Pause(w, n) = 0
  PROVE  Len(Kept(w, n)) < Limit(w)
<1>1. Limit(w) \in Nat /\ Length(w) \in Nat /\ PerSecond \in Nat \ {0}
  BY WindowTypes, LimiterAssumption
<1>2. Kept(w, n) \in Seq(Hit) /\ Len(Kept(w, n)) \in Nat
  BY KeptProperties, LenProperties
<1> SUFFICES ASSUME ~(Len(Kept(w, n)) < Limit(w)) PROVE FALSE
  OBVIOUS
<1>3. Kept(w, n) # <<>> /\ Head(Kept(w, n)) \in Hit
  BY <1>1, <1>2
<1>4. Head(Kept(w, n)).at \in Nat
  BY <1>3 DEF Hit
<1> DEFINE s == (Length(w) - (n - Head(Kept(w, n)).at)) \div PerSecond + 1
<1>5. s \in Int
  BY <1>1, <1>4
<1>6. Pause(w, n) = IF s > 1 THEN s ELSE 1
  BY <1>1 DEF Pause
<1> HIDE DEF s
<1> QED BY <1>5, <1>6

-----------------------------------------------------------------------------
(* The steps *)

LEMMA InitInv == LimiterInit => LInv
<1> SUFFICES ASSUME LimiterInit PROVE LInv
  OBVIOUS
<1>1. LimiterTypes
  BY DEF LimiterInit, LimiterTypes
<1>2. Stalls /\ Once /\ Present
  BY LimiterAssumption DEF LimiterInit, Stalls, Once, Present
<1>3. Full
  <2> SUFFICES ASSUME NEW w \in Windows PROVE Len(hits[w]) <= Limit(w) \/ ~(Limit(w) > 0)
    BY DEF Full
  <2> QED BY WindowTypes DEF LimiterInit
<1> QED BY <1>1, <1>2, <1>3 DEF LInv

\* A call that is no longer recent does not become so again.
LEMMA RecentShrinks ==
  ASSUME LimiterTypes, NEW w \in Windows, NEW a \in admitted, clock' \in Nat, clock' >= clock, Recent(a, w)'
  PROVE  Recent(a, w)
<1>1. a.at \in Nat /\ Length(w) \in Nat /\ MaxStall \in Nat /\ clock \in Nat
  BY WindowTypes, LimiterAssumption DEF LimiterTypes
<1> QED BY <1>1 DEF Recent

LEMMA TickInv == LInv /\ Tick => LInv'
<1> SUFFICES ASSUME LInv, Tick PROVE LInv'
  OBVIOUS
<1>1. clock \in Nat /\ clock' = clock + 1 /\ now' = now /\ hits' = hits /\ admitted' = admitted
  BY DEF LInv, LimiterTypes, Tick
<1>2. LimiterTypes'
  BY <1>1 DEF LInv, LimiterTypes
<1>3. Stalls'
  <2> SUFFICES ASSUME NEW c \in Callers, now'[c] # NotRead
               PROVE  now'[c] <= clock' /\ clock' - now'[c] <= MaxStall
    BY DEF Stalls
  <2>1. now[c] \in Nat
    BY <1>1 DEF LInv, LimiterTypes
  <2>2. clock - now[c] < MaxStall /\ now[c] <= clock
    BY <1>1 DEF LInv, Stalls, Tick
  <2> QED BY <1>1, <2>1, <2>2, LimiterAssumption
<1>4. Once' /\ Full'
  BY <1>1 DEF LInv, Once, Full, CallerIsNew, Limit
<1>5. Present'
  <2> SUFFICES ASSUME NEW w \in Windows, Limit(w) > 0, NEW a \in admitted, CountsIn(a, w), Recent(a, w)'
               PROVE  Has(w, a)'
    BY <1>1 DEF Present, Limit, CountsIn, Windows
  <2>1. Recent(a, w)
    BY <1>1, RecentShrinks DEF LInv
  <2> QED BY <1>1, <2>1 DEF LInv, Present, Has
<1> QED BY <1>2, <1>3, <1>4, <1>5 DEF LInv

LEMMA ReadInv == ASSUME NEW c \in Callers PROVE LInv /\ ReadClock(c) /\ CallerIsNew(c) => LInv'
<1> SUFFICES ASSUME LInv, ReadClock(c), CallerIsNew(c) PROVE LInv'
  OBVIOUS
<1>1. /\ clock \in Nat /\ clock' = clock /\ hits' = hits /\ admitted' = admitted
      /\ now' = [now EXCEPT ![c] = clock]
  BY DEF LInv, LimiterTypes, ReadClock
<1>2. LimiterTypes'
  BY <1>1 DEF LInv, LimiterTypes
<1>3. Stalls'
  BY <1>1, LimiterAssumption DEF LInv, Stalls, LimiterTypes
<1>4. Once' /\ Full'
  BY <1>1 DEF LInv, Once, Full, CallerIsNew, Limit, LimiterTypes
<1>5. Present'
  BY <1>1 DEF LInv, Present, Has, Limit, CountsIn, Recent, Length, Windows
<1> QED BY <1>2, <1>3, <1>4, <1>5 DEF LInv

\* Popping by whatever reading a thread still holds takes no call that is recent by the clock.
LEMMA PopsKeepRecent ==
  ASSUME LInv, NEW c \in Callers, now[c] # NotRead, NEW w \in Windows, Limit(w) > 0,
         NEW a \in admitted, CountsIn(a, w), Recent(a, w)
  PROVE  \E j \in 1 .. Len(Kept(w, now[c])) :
            /\ Kept(w, now[c])[j].by = a.by
            /\ a.at - Kept(w, now[c])[j].at <= MaxStall
<1>1. PICK i \in 1 .. Len(hits[w]) : hits[w][i].by = a.by /\ a.at - hits[w][i].at <= MaxStall
  BY DEF LInv, Present, Has
<1>2. now[c] \in Nat /\ clock \in Nat /\ now[c] <= clock /\ a.at \in Nat /\ MaxStall \in Nat
  BY LimiterAssumption DEF LInv, LimiterTypes, Stalls
<1>3. hits[w] \in Seq(Hit)
  BY DEF LInv, LimiterTypes
<1>4. hits[w][i] \in Hit
  BY <1>1, <1>3
<1>5. hits[w][i].at \in Nat
  BY <1>4 DEF Hit
<1>6. Young(w, now[c], hits[w][i])
  <2>1. Length(w) \in Nat
    BY WindowTypes
  <2>2. clock < a.at + Length(w) - MaxStall
    BY DEF Recent
  <2> QED BY <1>1, <1>2, <1>5, <2>1, <2>2 DEF Young
<1>7. \E j \in 1 .. Len(Kept(w, now[c])) : Kept(w, now[c])[j] = hits[w][i]
  BY <1>1, <1>2, <1>6, KeptProperties DEF LInv
<1> QED BY <1>1, <1>7

LEMMA RefuseInv == ASSUME NEW c \in Callers, NEW cl \in Clients PROVE LInv /\ Refuse(c, cl) => LInv'
<1> SUFFICES ASSUME LInv, Refuse(c, cl) PROVE LInv'
  OBVIOUS
<1> DEFINE n == now[c]
<1>1. /\ n # NotRead /\ n \in Nat /\ clock \in Nat /\ clock' = clock /\ admitted' = admitted
      /\ now' = [now EXCEPT ![c] = NotRead]
      /\ hits' = Popped(cl, n)
  BY DEF LInv, LimiterTypes, Refuse
<1>2. \A w \in Windows : hits'[w] = hits[w] \/ hits'[w] = Kept(w, n)
  BY <1>1 DEF Popped
<1>3. LimiterTypes'
  <2>1. hits' \in [Windows -> Seq(Hit)]
    BY <1>1, KeptProperties DEF Popped, LInv, LimiterTypes
  <2> QED BY <1>1, <2>1 DEF LInv, LimiterTypes
<1>4. Stalls' /\ Once'
  BY <1>1 DEF LInv, Stalls, Once, CallerIsNew, LimiterTypes
<1>5. Full'
  <2> SUFFICES ASSUME NEW w \in Windows, Limit(w) > 0 PROVE Len(hits'[w]) <= Limit(w)
    BY DEF Full, Limit, Windows
  <2>1. Len(Kept(w, n)) <= Len(hits[w]) /\ Kept(w, n) \in Seq(Hit) /\ hits[w] \in Seq(Hit)
    BY <1>1, KeptProperties DEF LInv, LimiterTypes
  <2>2. Len(Kept(w, n)) \in Nat /\ Len(hits[w]) \in Nat /\ Limit(w) \in Nat
    BY <2>1, LenProperties, WindowTypes
  <2> QED BY <1>2, <2>1, <2>2 DEF LInv, Full
<1>6. Present'
  <2> SUFFICES ASSUME NEW w \in Windows, Limit(w) > 0, NEW a \in admitted, CountsIn(a, w), Recent(a, w)
               PROVE  Has(w, a)'
    BY <1>1 DEF Present, Limit, CountsIn, Windows, Recent, Length
  <2>1. CASE hits'[w] = hits[w]
    BY <2>1 DEF LInv, Present, Has
  <2>2. CASE hits'[w] = Kept(w, n)
    BY <1>1, <2>2, PopsKeepRecent DEF Has
  <2> QED BY <1>2, <2>1, <2>2
<1> QED BY <1>3, <1>4, <1>5, <1>6 DEF LInv

LEMMA AdmitInv == ASSUME NEW c \in Callers, NEW cl \in Clients PROVE LInv /\ Admit(c, cl) => LInv'
<1> SUFFICES ASSUME LInv, Admit(c, cl) PROVE LInv'
  OBVIOUS
<1> DEFINE n   == now[c]
           new == [by |-> c, client |-> cl, at |-> clock]
           hit == [at |-> n, by |-> c]
<1>1. /\ n # NotRead /\ n \in Nat /\ clock \in Nat /\ clock' = clock
      /\ admitted' = admitted \cup {new}
      /\ now' = [now EXCEPT ![c] = NotRead]
      /\ hits' = Recorded(cl, n, c)
  BY DEF LInv, LimiterTypes, Admit
<1>2. new \in [by : Callers, client : Clients, at : Nat] /\ hit \in Hit
  BY <1>1 DEF Hit
<1>3. ASSUME NEW w \in Windows
      PROVE  \/ hits'[w] = hits[w] /\ ~(w \in WindowsOf(cl) /\ Limit(w) > 0)
             \/ hits'[w] = Append(Kept(w, n), hit) /\ w \in WindowsOf(cl) /\ Limit(w) > 0
  BY <1>1 DEF Recorded
<1>4. ASSUME NEW w \in Windows
      PROVE  /\ Kept(w, n) \in Seq(Hit) /\ Len(Kept(w, n)) \in Nat
             /\ Append(Kept(w, n), hit) \in Seq(Hit)
             /\ Len(Append(Kept(w, n), hit)) = Len(Kept(w, n)) + 1
             /\ \A j \in 1 .. Len(Kept(w, n)) : Append(Kept(w, n), hit)[j] = Kept(w, n)[j]
             /\ Append(Kept(w, n), hit)[Len(Kept(w, n)) + 1] = hit
  BY <1>1, <1>2, KeptProperties, AppendProperties, LenProperties DEF LInv
<1>5. LimiterTypes'
  <2>1. hits' \in [Windows -> Seq(Hit)]
    BY <1>1, <1>4 DEF Recorded, LInv, LimiterTypes
  <2> QED BY <1>1, <1>2, <2>1 DEF LInv, LimiterTypes
<1>6. Stalls'
  BY <1>1 DEF LInv, Stalls, LimiterTypes
<1>7. Once'
  <2>1. \A d \in Callers : now'[d] # NotRead => now[d] # NotRead /\ d # c
    BY <1>1 DEF LInv, LimiterTypes
  <2>2. CallerIsNew(c)
    BY <1>1 DEF LInv, Once
  <2> QED BY <1>1, <2>1, <2>2 DEF LInv, Once, CallerIsNew
<1>8. Full'
  <2> SUFFICES ASSUME NEW w \in Windows, Limit(w) > 0 PROVE Len(hits'[w]) <= Limit(w)
    BY DEF Full, Limit, Windows
  <2>1. CASE hits'[w] = hits[w]
    BY <2>1 DEF LInv, Full
  <2>2. CASE hits'[w] = Append(Kept(w, n), hit) /\ w \in WindowsOf(cl)
    <3>1. Pause(w, n) = 0
      BY <2>2 DEF Admit, Allowed
    <3>2. Len(Kept(w, n)) < Limit(w)
      BY <1>1, <3>1, PauseMeansFull DEF LInv
    <3>3. Limit(w) \in Nat /\ Len(Kept(w, n)) \in Nat /\ Len(hits'[w]) = Len(Kept(w, n)) + 1
      BY <1>4, <2>2, WindowTypes
    <3> QED BY <3>2, <3>3
  <2> QED BY <1>3, <2>1, <2>2
<1>9. Present'
  <2> SUFFICES ASSUME NEW w \in Windows, Limit(w) > 0, NEW a \in admitted', CountsIn(a, w), Recent(a, w)
               PROVE  Has(w, a)'
    BY <1>1 DEF Present, Limit, CountsIn, Windows, Recent, Length
  <2>1. CASE hits'[w] = hits[w] /\ ~(w \in WindowsOf(cl) /\ Limit(w) > 0)
    <3>1. a # new
      BY <2>1 DEF CountsIn, WindowsOf, Windows
    <3> QED BY <1>1, <2>1, <3>1 DEF LInv, Present, Has
  <2>2. CASE hits'[w] = Append(Kept(w, n), hit)
    <3>1. CASE a = new
      <4>1. hits'[w][Len(Kept(w, n)) + 1] = hit /\ Len(Kept(w, n)) + 1 \in 1 .. Len(hits'[w])
        BY <1>4, <2>2
      <4>2. clock - n <= MaxStall
        BY <1>1 DEF LInv, Stalls
      <4> QED BY <3>1, <4>1, <4>2 DEF Has
    <3>2. CASE a \in admitted
      <4>1. PICK j \in 1 .. Len(Kept(w, n)) :
              Kept(w, n)[j].by = a.by /\ a.at - Kept(w, n)[j].at <= MaxStall
        BY <1>1, <3>2, PopsKeepRecent
      <4>2. j \in 1 .. Len(hits'[w]) /\ hits'[w][j] = Kept(w, n)[j]
        BY <1>4, <2>2
      <4> QED BY <4>1, <4>2 DEF Has
    <3> QED BY <1>1, <3>1, <3>2
  <2> QED BY <1>3, <2>1, <2>2
<1> QED BY <1>5, <1>6, <1>7, <1>8, <1>9 DEF LInv

LEMMA NextInv == LInv /\ [LimiterNext]_limiterVars => LInv'
<1> SUFFICES ASSUME LInv, [LimiterNext]_limiterVars PROVE LInv'
  OBVIOUS
<1>1. CASE UNCHANGED limiterVars
  BY <1>1 DEF limiterVars, LInv, LimiterTypes, Stalls, Once, CallerIsNew, Full, Present, Has,
              Limit, CountsIn, Recent, Length, Windows
<1>2. CASE Tick
  BY <1>2, TickInv
<1>3. CASE \E c \in Callers : ReadClock(c) /\ CallerIsNew(c)
  BY <1>3, ReadInv
<1>4. CASE \E c \in Callers, cl \in Clients : Admit(c, cl) \/ Refuse(c, cl)
  BY <1>4, AdmitInv, RefuseInv
<1> QED BY <1>1, <1>2, <1>3, <1>4 DEF LimiterNext

-----------------------------------------------------------------------------
(* The limits *)

\* The recent calls a window counts are as many places of its deque.
LEMMA CountedByDeque == LInv => RateHolds
<1> SUFFICES ASSUME LInv, NEW w \in Windows, Limit(w) > 0
             PROVE  Cardinality({a \in admitted : CountsIn(a, w) /\ Recent(a, w)}) <= Limit(w)
  BY DEF RateHolds
<1> DEFINE S == {a \in admitted : CountsIn(a, w) /\ Recent(a, w)}
           T == 1 .. Len(hits[w])
           f == [a \in S |-> CHOOSE i \in T : hits[w][i].by = a.by]
<1>1. Len(hits[w]) \in Nat /\ Limit(w) \in Nat /\ Len(hits[w]) <= Limit(w)
  BY LenProperties, WindowTypes DEF LInv, LimiterTypes, Full
<1>2. \A a \in S : \E i \in T : hits[w][i].by = a.by
  BY DEF LInv, Present, Has
<1>3. \A a \in S : f[a] \in T /\ hits[w][f[a]].by = a.by
  BY <1>2
<1>4. \A a, b \in S : a.by = b.by => a = b
  BY DEF LInv, Once
<1>5. f \in Injection(S, T)
  <2>1. f \in [S -> T]
    BY <1>3
  <2> HIDE DEF f, S, T
  <2>2. ASSUME NEW a \in S, NEW b \in S, f[a] = f[b] PROVE a = b
    <3>1. a.by = b.by
      BY <1>3, <2>2
    <3> QED BY <1>4, <3>1
  <2> QED BY <2>1, <2>2 DEF Injection, IsInjective
<1>6. IsFiniteSet(T) /\ Cardinality(T) = Len(hits[w])
  <2>1. 1 \in Int /\ Len(hits[w]) \in Int
    BY <1>1
  <2>2. /\ IsFiniteSet(1 .. Len(hits[w]))
        /\ Cardinality(1 .. Len(hits[w])) =
             IF 1 > Len(hits[w]) THEN 0 ELSE Len(hits[w]) - 1 + 1
    BY <2>1, FS_Interval
  <2> QED BY <1>1, <2>2
<1>7. IsFiniteSet(S) /\ Cardinality(S) <= Cardinality(T)
  <2> HIDE DEF f, S, T
  <2> QED BY <1>5, <1>6, FS_Injection
<1>8. Cardinality(S) \in Nat
  BY <1>7, FS_CardinalityType
<1> HIDE DEF S
<1>9. Cardinality(S) <= Limit(w)
  BY <1>1, <1>6, <1>7, <1>8
<1> QED BY <1>9 DEF S

LEMMA Inductive == LimiterSpec => []LInv
BY InitInv, NextInv, PTL DEF LimiterSpec

-----------------------------------------------------------------------------
(* The wait *)

LEMMA FiniteBound ==
  ASSUME NEW S, IsFiniteSet(S), S \subseteq Nat
  PROVE  \E b \in Nat : \A x \in S : x <= b
<1>1. PICK n \in Nat : ExistsBijection(1 .. n, S)
  BY FS_NatBijection
<1>2. PICK f \in Bijection(1 .. n, S) : TRUE
  BY <1>1 DEF ExistsBijection
<1>3. (\A i \in 1 .. n : f[i] \in Nat) /\ \A x \in S : \E i \in 1 .. n : f[i] = x
  <2>1. f \in [1 .. n -> S] /\ \A x \in S : \E i \in 1 .. n : f[i] = x
    BY <1>2 DEF Bijection, Surjection, Injection
  <2>2. \A x \in S : x \in Nat
    OBVIOUS
  <2> QED BY <2>1, <2>2
<1> DEFINE Bad == {m \in 0 .. n : \A b \in Nat : \E i \in 1 .. m : ~(f[i] <= b)}
<1>4. CASE Bad = {}
  <2>1. n \in 0 .. n
    BY <1>1
  <2>2. PICK b \in Nat : \A i \in 1 .. n : f[i] <= b
    BY <1>4, <2>1
  <2> QED BY <1>3, <2>2
<1>5. CASE Bad # {}
  <2>1. PICK m \in Bad : \A k \in Bad : m <= k
    <3>1. Bad \in SUBSET Nat
      OBVIOUS
    <3> HIDE DEF Bad
    <3> QED BY <1>5, <3>1, NatMin
  <2>2. m \in Nat /\ m > 0 /\ m <= n
    <3>1. m \in 0 .. n /\ \A b \in Nat : \E i \in 1 .. m : ~(f[i] <= b)
      BY <2>1
    <3>2. \E i \in 1 .. m : TRUE
      BY <3>1
    <3> QED BY <1>1, <3>1, <3>2
  <2>3. m - 1 \in 0 .. n /\ m - 1 \notin Bad
    <3>1. m - 1 \in 0 .. n /\ ~(m <= m - 1)
      BY <1>1, <2>2
    <3> HIDE DEF Bad
    <3> QED BY <2>1, <3>1
  <2>4. PICK b \in Nat : \A i \in 1 .. m - 1 : f[i] <= b
    BY <2>3
  <2>5. f[m] \in Nat
    BY <1>1, <1>3, <2>2
  <2> HIDE DEF Bad
  <2>6. \E c \in Nat : \A i \in 1 .. m : f[i] <= c
    <3>1. b \in Nat /\ f[m] \in Nat
      BY <2>4, <2>5
    <3>2. PICK c \in Nat : b <= c /\ f[m] <= c
      BY <3>1
    <3>3. ASSUME NEW i \in 1 .. m PROVE f[i] <= c
      <4>1. f[i] \in Nat /\ c \in Nat
        BY <1>1, <1>3, <2>2, <3>2
      <4>2. CASE i = m
        BY <3>2, <4>2
      <4>3. CASE i # m
        <5>1. i \in 1 .. m - 1
          BY <2>2, <4>3
        <5> QED BY <2>4, <3>1, <3>2, <4>1, <5>1
      <4> QED BY <4>2, <4>3
    <3> QED BY <3>2, <3>3
  <2> USE DEF Bad
  <2>7. m \notin Bad
    BY <2>6
  <2> QED BY <2>1, <2>7
<1> QED BY <1>4, <1>5

LEMMA FiniteMax ==
  ASSUME NEW S, IsFiniteSet(S), S \subseteq Nat, S # {}
  PROVE  Max(S) \in S /\ \A x \in S : x <= Max(S)
<1>1. PICK b \in Nat : \A x \in S : x <= b
  BY FiniteBound
<1> DEFINE T == {b - x : x \in S}
<1>2. T \in SUBSET Nat /\ T # {}
  <2>1. ASSUME NEW x \in S PROVE b - x \in Nat
    <3>1. x \in Nat /\ x <= b /\ b \in Nat
      BY <1>1
    <3> QED BY <3>1
  <2> QED BY <2>1
<1>3. PICK d \in T : \A y \in T : d <= y
  <2> HIDE DEF T
  <2> QED BY <1>2, NatMin
<1>4. PICK m \in S : d = b - m
  BY <1>3
<1>5. \A x \in S : m >= x
  <2>1. ASSUME NEW x \in S PROVE m >= x
    <3>1. b - m <= b - x
      BY <1>3, <1>4
    <3>2. m \in Nat /\ x \in Nat /\ b \in Nat
      BY <1>1, <1>4
    <3> HIDE DEF T
    <3> QED BY <3>1, <3>2
  <2> QED BY <2>1
<1>6. Max(S) \in S /\ \A x \in S : Max(S) >= x
  <2> HIDE DEF T
  <2> QED BY <1>4, <1>5 DEF Max
<1> QED BY <1>6

\* A window is open once the pause it asks for is over.
LEMMA OpenAfterPause ==
  ASSUME LimiterTypes, Full, NEW w \in Windows, NEW n \in Nat,
         NEW p \in Nat, Pause(w, n) <= p
  PROVE  Pause(w, n + p * PerSecond) = 0
<1> DEFINE m == n + p * PerSecond
           k == Kept(w, n)
           x == Length(w) - (n - Head(k).at)
           s == x \div PerSecond + 1
<1>1. /\ Limit(w) \in Nat /\ Length(w) \in Nat /\ PerSecond \in Nat \ {0}
      /\ k \in Seq(Hit) /\ Len(k) \in Nat
  BY WindowTypes, LimiterAssumption, KeptProperties, LenProperties
<1>2. p * PerSecond \in Nat
  BY <1>1
<1>3. m \in Nat /\ n <= m
  BY <1>2
<1>4. CASE Limit(w) = 0
  BY <1>4 DEF Pause
<1>5. CASE Limit(w) # 0 /\ Len(k) < Limit(w)
  <2>1. Len(Kept(w, m)) < Limit(w)
    <3>1. Kept(w, m) \in Seq(Hit) /\ Len(Kept(w, m)) \in Nat
      BY <1>3, KeptProperties, LenProperties
    <3>2. Len(Kept(w, m)) <= Len(k)
      BY <1>3, KeptLater
    <3> HIDE DEF m, k
    <3> QED BY <1>1, <1>5, <3>1, <3>2
  <2> QED BY <2>1 DEF Pause
<1>6. CASE Limit(w) # 0 /\ ~(Len(k) < Limit(w))
  <2>1. Len(k) <= Limit(w)
    <3>1. Len(hits[w]) \in Nat /\ Len(hits[w]) <= Limit(w)
      BY <1>1, <1>6, LenProperties DEF Full, LimiterTypes
    <3>2. Len(k) <= Len(hits[w])
      BY KeptProperties
    <3> HIDE DEF k
    <3> QED BY <1>1, <3>1, <3>2
  <2>2. k # <<>> /\ Head(k).at \in Nat
    <3>1. k # <<>>
      BY <1>1, <1>6
    <3> HIDE DEF k
    <3>2. Head(k) \in Hit
      BY <1>1, <3>1
    <3> QED BY <3>1, <3>2 DEF Hit
  <2>3. Pause(w, n) = IF s > 1 THEN s ELSE 1
    BY <1>6 DEF Pause
  <2>4. x \in Int
    BY <1>1, <2>2
  <2>5. s \in Int /\ s <= p
    <3>1. x \div PerSecond \in Int
      <4> HIDE DEF x
      <4> QED BY <1>1, <2>4
    <3>2. s \in Int
      BY <3>1
    <3> HIDE DEF s
    <3> QED BY <2>3, <3>2
  <2>6. x < p * PerSecond
    <3>1. x \div PerSecond \in Int /\ x \div PerSecond + 1 <= p
      <4> HIDE DEF x
      <4> QED BY <1>1, <2>4, <2>5
    <3>2. x < (x \div PerSecond + 1) * PerSecond
      <4> HIDE DEF x
      <4> QED BY <1>1, <2>4
    <3>3. (x \div PerSecond + 1) * PerSecond <= p * PerSecond
      <4> DEFINE q == x \div PerSecond + 1
      <4>1. q \in Int /\ q <= p
        BY <3>1
      <4> HIDE DEF q
      <4>2. q * PerSecond <= p * PerSecond
        BY <1>1, <4>1
      <4> QED BY <4>2 DEF q
    <3> HIDE DEF x
    <3> QED BY <1>1, <1>2, <2>4, <3>1, <3>2, <3>3
  <2>7. ~Young(w, m, Head(k))
    BY <1>1, <1>2, <2>2, <2>6 DEF Young
  <2>8. Len(Kept(w, m)) < Len(k)
    BY <1>3, <2>2, <2>7, KeptLater
  <2>9. Len(Kept(w, m)) < Limit(w)
    <3>1. Kept(w, m) \in Seq(Hit) /\ Len(Kept(w, m)) \in Nat
      BY <1>3, KeptProperties, LenProperties
    <3> HIDE DEF m, k
    <3> QED BY <1>1, <2>1, <2>8, <3>1
  <2> QED BY <2>9 DEF Pause
<1> QED BY <1>4, <1>5, <1>6

LEMMA PauseIsNat ==
  ASSUME LimiterTypes, NEW w \in Windows, NEW n \in Nat
  PROVE  Pause(w, n) \in Nat
<1>1. Limit(w) \in Nat /\ Length(w) \in Nat /\ PerSecond \in Nat \ {0}
  BY WindowTypes, LimiterAssumption
<1>2. Kept(w, n) \in Seq(Hit) /\ Len(Kept(w, n)) \in Nat
  BY KeptProperties, LenProperties
<1>3. CASE Limit(w) = 0 \/ Len(Kept(w, n)) < Limit(w)
  BY <1>3 DEF Pause
<1>4. CASE ~(Limit(w) = 0 \/ Len(Kept(w, n)) < Limit(w))
  <2>1. Kept(w, n) # <<>>
    BY <1>1, <1>2, <1>4
  <2>2. Head(Kept(w, n)).at \in Nat
    <3>1. Head(Kept(w, n)) \in Hit
      BY <1>2, <2>1
    <3> QED BY <3>1 DEF Hit
  <2> DEFINE x == Length(w) - (n - Head(Kept(w, n)).at)
             s == x \div PerSecond + 1
  <2>3. x \in Int
    BY <1>1, <2>2
  <2>4. s \in Int
    <3> HIDE DEF x
    <3> QED BY <1>1, <2>3
  <2>5. Pause(w, n) = IF s > 1 THEN s ELSE 1
    BY <1>4 DEF Pause
  <2> HIDE DEF s
  <2> QED BY <2>4, <2>5
<1> QED BY <1>3, <1>4

LEMMA WaitIsEnough == LInv => RetryAfterIsEnough
<1> SUFFICES ASSUME LInv, NEW cl \in Clients
             PROVE  Allowed(cl, clock + RetryAfter(cl, clock) * PerSecond)
  BY DEF RetryAfterIsEnough
<1> DEFINE S == {Pause(w, clock) : w \in WindowsOf(cl)}
<1>1. LimiterTypes /\ Full /\ clock \in Nat
  BY DEF LInv, LimiterTypes
<1>2. WindowsOf(cl) \subseteq Windows
  BY DEF WindowsOf, Windows
<1>3. S \subseteq Nat
  BY <1>1, <1>2, PauseIsNat
<1>4. CASE WindowsOf(cl) = {}
  BY <1>4 DEF Allowed
<1>5. CASE WindowsOf(cl) # {}
  <2>1. IsFiniteSet(WindowsOf(cl))
    <3>1. IsFiniteSet({cl, Everyone})
      <4>1. IsFiniteSet({cl}) /\ IsFiniteSet({cl} \cup {Everyone})
        BY FS_EmptySet, FS_Singleton, FS_AddElement
      <4>2. {cl, Everyone} = {cl} \cup {Everyone}
        OBVIOUS
      <4> QED BY <4>1, <4>2
    <3> QED BY <3>1, LimiterAssumption, FS_Product DEF WindowsOf
  <2>2. IsFiniteSet(S)
    <3> DEFINE f == [w \in WindowsOf(cl) |-> Pause(w, clock)]
    <3>1. f \in Surjection(WindowsOf(cl), S)
      BY DEF Surjection
    <3> HIDE DEF f, S
    <3> QED BY <2>1, <3>1, FS_Surjection
  <2>3. S # {}
    BY <1>5
  <2> HIDE DEF S
  <2>4. Max(S) \in S /\ \A x \in S : x <= Max(S)
    BY <1>3, <2>2, <2>3, FiniteMax
  <2>5. RetryAfter(cl, clock) = Max(S)
    BY DEF RetryAfter, S
  <2>6. ASSUME NEW w \in WindowsOf(cl)
        PROVE  Pause(w, clock + RetryAfter(cl, clock) * PerSecond) = 0
    <3>1. Max(S) \in Nat /\ Pause(w, clock) \in S
      BY <1>3, <2>4 DEF S
    <3>2. Pause(w, clock) <= Max(S) /\ w \in Windows
      BY <1>2, <2>4, <3>1
    <3>3. Pause(w, clock + Max(S) * PerSecond) = 0
      BY <1>1, <3>1, <3>2, OpenAfterPause
    <3> QED BY <2>5, <3>3
  <2> QED BY <2>6 DEF Allowed
<1> QED BY <1>4, <1>5

\* Every variable of the limiter keeps its type.
THEOREM LimiterTypesHold == LimiterSpec => []LimiterTypes
<1>1. LInv => LimiterTypes
  BY DEF LInv
<1> QED BY <1>1, Inductive, PTL

\* For any limits, spans, clients and calls: no window lets more calls through than its limit in
\* any stretch of real time shorter than it by the longest stall of a thread (_Window.allow
\* under the lock of RateLimiter.check, by readings taken before the lock).
THEOREM LimitsHoldInRealTime == LimiterSpec => []RateHolds
BY CountedByDeque, Inductive, PTL

\* For any limits and lengths of the windows: a client that waits as long as it was told is let
\* through, unless others came in between - the seconds are rounded up and the longest of its
\* windows decides (RateLimiter.check, retry_after of _Window.wait).
THEOREM WaitingIsEnough == LimiterSpec => []RetryAfterIsEnough
BY WaitIsEnough, Inductive, PTL

\* No deque outgrows its limit, so memory per client is bounded and a full window is exactly
\* one that refuses (agent/ratelimit.py, _Window).
THEOREM DequesStayBounded == LimiterSpec => []Full
<1>1. LInv => Full
  BY DEF LInv
<1> QED BY <1>1, Inductive, PTL

-----------------------------------------------------------------------------
(* The investigation: operators *)

\* The results of a turn's tool calls are appended as they are.
LEMMA ResultsAppended ==
  ASSUME NEW ev \in Seq(Evidence), NEW n \in Nat, NEW results \in [1 .. n -> Evidence]
  PROVE  ev \o results \in Seq(Evidence) /\ Len(ev \o results) = Len(ev) + n
<1>1. results \in Seq(Evidence) /\ Len(results) = n
  OBVIOUS
<1> QED BY <1>1

\* A turn never makes more calls than the budget has left, and makes one if there is one.
LEMMA TruncatedFits ==
  ASSUME MaxToolCalls \in Nat, used \in 0 .. MaxToolCalls, Remaining > 0, NEW wanted \in Nat, wanted >= 1
  PROVE  /\ Truncated(wanted) \in Nat /\ Truncated(wanted) >= 1
         /\ used + Truncated(wanted) \in 0 .. MaxToolCalls
BY DEF Truncated, Remaining

\* What verify rejects are findings of the draft, or the missing draft itself.
LEMMA RejectedMarks ==
  ASSUME MaxFindings \in Nat, NEW r \in Draft \cup {NoReport}, NEW ev
  PROVE  Rejected(r, ev) \subseteq Marks
<1>1. CASE r = NoReport
  BY <1>1 DEF Rejected, Marks
<1>2. CASE r # NoReport
  <2>1. PICK n \in 0 .. MaxFindings : r \in [1 .. n -> Finding]
    BY <1>2 DEF Draft
  <2>2. DOMAIN r \subseteq Marks
    BY <2>1 DEF Marks
  <2> QED BY <1>2, <2>2 DEF Rejected
<1> QED BY <1>1, <1>2

\* A finding that verify accepts cites evidence that exists, did not fail and holds its numbers.
LEMMA SupportedMeans ==
  ASSUME NEW f \in Finding, NEW ev \in Seq(Evidence), Supported(f, ev),
         Citations \subseteq SUBSET Nat
  PROVE  /\ f.refs # {}
         /\ \A r \in f.refs : r + 1 \in DOMAIN ev /\ ev[r + 1].ok
         /\ \A q \in f.quotes : \E r \in f.refs : q \in ev[r + 1].numbers
<1>1. f.refs \subseteq Nat
  BY DEF Finding
<1>2. \A r \in f.refs : r < Len(ev) /\ ev[r + 1].ok
  BY DEF Supported, Exists, Ok
<1>3. \A r \in f.refs : r + 1 \in 1 .. Len(ev)
  BY <1>1, <1>2
<1>4. DOMAIN ev = 1 .. Len(ev)
  OBVIOUS
<1>5. \A q \in f.quotes : q \in UNION {ev[r + 1].numbers : r \in f.refs}
  BY DEF Supported, NumbersIn
<1> QED BY <1>2, <1>3, <1>4, <1>5 DEF Supported

-----------------------------------------------------------------------------
(* The investigation: its inductive invariant *)

\* What has been gathered is bounded by what has been spent.
Gathered ==
    IF node = "triage" THEN evidence = <<>> ELSE
        Len(evidence) <= 1 + used + attempts
                         + (IF node \in {"draft_report", "verify"} THEN 1 ELSE 0)

\* How far the run may have come: a turn for each call, and four nodes for each attempt.
Allowance ==
    used + 4 * attempts +
       (IF node = "triage" THEN 0
        ELSE IF node \in {"investigate", "finalize"} THEN 1
        ELSE IF node = "draft_report" THEN 3
        ELSE IF node = "verify" THEN 4
        ELSE 2)

Paced ==
    /\ steps <= Allowance
    /\ node \in Nodes \ {"finalize"} => attempts < MaxVerifyAttempts
    /\ node = "triage" => used = 0 /\ attempts = 0

\* finalize judges the draft that verify has seen, and a retry has a reason on record.
Judged ==
    /\ node = "finalize" =>
          /\ violations = Rejected(report, evidence)
          /\ violations \subseteq history
          /\ violations # {} => attempts = MaxVerifyAttempts
          /\ attempts > 1 => history # {}
    /\ node \in Nodes \ {"finalize"} => (attempts > 0 => history # {})
    /\ node # "end" => attached = NoReport

RunInv ==
    /\ RunTypes /\ Gathered /\ Paced /\ Judged
    /\ PublishedClaimsHold /\ PublishedHonestly

\* The settings leave LangGraph's limit out of reach.
LEMMA AllowanceFits ==
  ASSUME RunTypes, Paced
  PROVE  steps <= RecursionLimit /\ Allowance \in Nat
<1> USE InvestigationAssumption
<1>1. /\ used \in Nat /\ used <= MaxToolCalls /\ attempts \in Nat /\ attempts <= MaxVerifyAttempts
      /\ steps \in Nat /\ steps <= Allowance /\ MaxToolCalls \in Nat /\ MaxVerifyAttempts \in Nat
  BY DEF RunTypes, Paced
<1>2. node \in Nodes \ {"finalize"} => attempts + 1 <= MaxVerifyAttempts
  BY <1>1 DEF Paced
<1>3. node \in Nodes \cup {"end", "error"}
  BY DEF RunTypes
<1>4. Allowance \in Nat /\ Allowance <= 2 + used + 4 * MaxVerifyAttempts
  BY <1>1, <1>2, <1>3 DEF Allowance, Nodes
<1> QED BY <1>1, <1>4

\* A node adds a step.
LEMMA OneStep ==
  ASSUME RunTypes, Paced, NEW n, Runs(n)
  PROVE  steps' = steps + 1 /\ steps' \in Nat /\ node = n
BY AllowanceFits DEF Runs, RunTypes

-----------------------------------------------------------------------------
(* The nodes *)

LEMMA RunInitInv == ASSUME RunInit PROVE RunInv
<1> USE InvestigationAssumption
<1>1. RunTypes
  <2>1. 0 \in 0 .. MaxToolCalls /\ 0 \in 0 .. MaxVerifyAttempts /\ <<>> \in Seq(Evidence)
    OBVIOUS
  <2> QED BY <2>1 DEF RunInit, RunTypes, Nodes
<1>2. Gathered
  BY DEF RunInit, Gathered
<1>3. Paced
  BY DEF RunInit, Paced, Allowance, Nodes
<1>4. Judged /\ PublishedClaimsHold /\ PublishedHonestly
  BY DEF RunInit, Judged, PublishedClaimsHold, PublishedHonestly
<1> QED BY <1>1, <1>2, <1>3, <1>4 DEF RunInv

\* Until finalize nothing is published, and nothing is said about what is.
LEMMA Unpublished ==
  ASSUME attached' = NoReport PROVE PublishedClaimsHold' /\ PublishedHonestly'
BY DEF PublishedClaimsHold, PublishedHonestly

LEMMA TriageInv == ASSUME RunInv, Triage PROVE RunInv'
<1> USE InvestigationAssumption
<1>1. node = "triage" /\ node' = "investigate" /\ steps' = steps + 1 /\ steps' \in Nat
  BY OneStep DEF RunInv, Triage
<1>2. PICK e \in Evidence : evidence' = <<e>>
  BY DEF Triage
<1>3. used' = 0 /\ attempts' = 0 /\ toolLast' = FALSE /\ attached' = NoReport /\ steps = 0
  BY <1>1 DEF Triage, RunInv, Judged, Paced, Allowance, RunTypes, Nodes
<1>4. RunTypes'
  <2>1. 0 \in 0 .. MaxToolCalls /\ 0 \in 0 .. MaxVerifyAttempts /\ <<e>> \in Seq(Evidence)
    OBVIOUS
  <2> QED BY <1>1, <1>2, <1>3, <2>1 DEF Triage, RunInv, RunTypes, Nodes
<1>5. Gathered'
  BY <1>1, <1>2, <1>3 DEF Gathered
<1>6. Paced'
  BY <1>1, <1>3 DEF Paced, Allowance, Nodes
<1>7. Judged'
  BY <1>1, <1>3 DEF Judged
<1> QED BY <1>3, <1>4, <1>5, <1>6, <1>7, Unpublished DEF RunInv

\* The step of a turn is paid for by its calls, or by leaving the loop.
LEMMA Turn ==
  ASSUME NEW s \in Nat, NEW u \in Nat, NEW v \in Nat, NEW a \in Nat, NEW n \in Nat,
         s <= u + 4 * a + 1, v >= u + n
  PROVE  /\ s + 1 <= v + 4 * a + 2
         /\ n >= 1 => s + 1 <= v + 4 * a + 1
OBVIOUS

\* A turn of the model that gathers n pieces of evidence and goes on, or to similar_cases.
LEMMA TurnInv ==
  ASSUME RunInv, Runs("investigate"), NEW n \in Nat,
         evidence' \in Seq(Evidence), Len(evidence') = Len(evidence) + n,
         used' \in 0 .. MaxToolCalls, used' >= used + n, toolLast' \in BOOLEAN,
         \/ node' = "investigate" /\ n >= 1
         \/ node' = "similar_cases",
         UNCHANGED <<attempts, report, violations, history, attached>>
  PROVE  RunInv'
<1> USE InvestigationAssumption
<1>1. node = "investigate" /\ steps' = steps + 1 /\ steps' \in Nat
  BY OneStep DEF RunInv
<1>2. /\ used \in Nat /\ used' \in Nat /\ attempts \in Nat /\ attempts' = attempts /\ steps \in Nat
      /\ Len(evidence) \in Nat /\ attached' = NoReport
  BY <1>1 DEF RunInv, RunTypes, Judged
<1>3. RunTypes'
  BY <1>1 DEF RunInv, RunTypes, Nodes
<1>4. Len(evidence) <= 1 + used + attempts
  <2>1. Len(evidence) <= 1 + used + attempts + 0
    BY <1>1 DEF RunInv, Gathered
  <2> QED BY <1>2, <2>1
<1>5. Gathered'
  BY <1>1, <1>2, <1>4 DEF Gathered
<1>6. steps <= used + 4 * attempts + 1 /\ attempts < MaxVerifyAttempts
  BY <1>1 DEF RunInv, Paced, Allowance, Nodes
<1>7. Paced'
  <2>1. CASE node' = "investigate" /\ n >= 1
    <3>1. Allowance' = used' + 4 * attempts + 1
      BY <1>2, <2>1 DEF Allowance
    <3>2. steps + 1 <= used' + 4 * attempts + 1
      BY <1>2, <1>6, <2>1, Turn
    <3>3. steps' <= Allowance'
      BY <1>1, <3>1, <3>2
    <3> QED BY <1>2, <1>6, <2>1, <3>3 DEF Paced
  <2>2. CASE node' = "similar_cases"
    <3>1. Allowance' = used' + 4 * attempts + 2
      BY <1>2, <2>2 DEF Allowance
    <3>2. steps + 1 <= used' + 4 * attempts + 2
      BY <1>2, <1>6, Turn
    <3>3. steps' <= Allowance'
      BY <1>1, <3>1, <3>2
    <3> QED BY <1>2, <1>6, <2>2, <3>3 DEF Paced
  <2> QED BY <2>1, <2>2
<1>8. Judged'
  BY <1>1, <1>2 DEF RunInv, Judged, Nodes
<1> QED BY <1>2, <1>3, <1>5, <1>7, <1>8, Unpublished DEF RunInv

LEMMA InvestigateInv == ASSUME RunInv, InvestigateNode PROVE RunInv'
<1> USE InvestigationAssumption
<1>0. /\ evidence \in Seq(Evidence) /\ Len(evidence) \in Nat
      /\ used \in 0 .. MaxToolCalls /\ used \in Nat
      /\ toolLast \in BOOLEAN /\ 0 \in Nat
  BY DEF RunInv, RunTypes
<1>1. CASE BudgetExhausted
  <2>1. /\ Runs("investigate") /\ node' = "similar_cases"
        /\ UNCHANGED <<evidence, used, attempts, report, violations, history, attached>>
    BY <1>0, <1>1 DEF BudgetExhausted, AfterInvestigate
  <2>2. /\ evidence' \in Seq(Evidence) /\ Len(evidence') = Len(evidence) + 0
        /\ used' \in 0 .. MaxToolCalls /\ used' >= used + 0
    BY <1>0, <2>1
  <2>3. toolLast' \in BOOLEAN
    BY <1>1 DEF BudgetExhausted
  <2> QED BY <1>0, <2>1, <2>2, <2>3, TurnInv
<1>2. CASE ModelFails
  <2>1. /\ Runs("investigate") /\ node' = "similar_cases"
        /\ UNCHANGED <<evidence, toolLast, attempts, report, violations, history, attached>>
    BY <1>0, <1>2 DEF ModelFails, AfterInvestigate
  <2>2. /\ evidence' \in Seq(Evidence) /\ Len(evidence') = Len(evidence) + 0
        /\ used' \in 0 .. MaxToolCalls /\ used' >= used + 0 /\ toolLast' \in BOOLEAN
    BY <1>0, <1>2, <2>1 DEF ModelFails
  <2> QED BY <1>0, <2>1, <2>2, TurnInv
<1>3. CASE NoToolRequested
  <2>1. /\ Runs("investigate") /\ node' = "similar_cases"
        /\ UNCHANGED <<evidence, used, attempts, report, violations, history, attached>>
    BY <1>0, <1>3 DEF NoToolRequested, AfterInvestigate
  <2>2. /\ evidence' \in Seq(Evidence) /\ Len(evidence') = Len(evidence) + 0
        /\ used' \in 0 .. MaxToolCalls /\ used' >= used + 0
    BY <1>0, <2>1
  <2>3. toolLast' \in BOOLEAN
    BY <1>3 DEF NoToolRequested
  <2> QED BY <1>0, <2>1, <2>2, <2>3, TurnInv
<1>4. CASE CallTools
  <2>1. PICK wanted \in 1 .. MaxAsked : \E results \in [1 .. Truncated(wanted) -> Evidence] :
           /\ evidence' = evidence \o results
           /\ used' = used + Truncated(wanted)
           /\ node' = AfterInvestigate(used + Truncated(wanted), TRUE)
    BY <1>4 DEF CallTools
  <2>2. Remaining > 0 /\ Runs("investigate") /\ toolLast' = TRUE
        /\ UNCHANGED <<attempts, report, violations, history, attached>>
    BY <1>4 DEF CallTools
  <2> DEFINE n == Truncated(wanted)
  <2>3. n \in Nat /\ n >= 1 /\ used + n \in 0 .. MaxToolCalls
    <3>1. wanted \in Nat /\ wanted >= 1 /\ MaxToolCalls \in Nat
      OBVIOUS
    <3> QED BY <1>0, <2>2, <3>1, TruncatedFits
  <2>4. evidence' \in Seq(Evidence) /\ Len(evidence') = Len(evidence) + n
    BY <1>0, <2>1, <2>3, ResultsAppended
  <2>5. /\ used' \in 0 .. MaxToolCalls /\ used' >= used + n
        /\ node' = "investigate" \/ node' = "similar_cases"
    BY <1>0, <2>1, <2>3 DEF AfterInvestigate
  <2> HIDE DEF n
  <2> QED BY <1>0, <2>2, <2>3, <2>4, <2>5, TurnInv
<1>5. CASE ToolRaises
  <2>1. node = "investigate" /\ node' = "error" /\ steps' = steps + 1 /\ steps' \in Nat
    BY <1>5, OneStep DEF RunInv, ToolRaises
  <2>2. /\ UNCHANGED <<evidence, used, attempts, toolLast, report, violations, history, attached>>
        /\ attached' = NoReport
    BY <1>5, <2>1 DEF ToolRaises, RunInv, Judged
  <2>3. RunTypes'
    BY <2>1, <2>2 DEF RunInv, RunTypes
  <2>4. Gathered'
    BY <2>1, <2>2 DEF RunInv, Gathered
  <2>5. Paced'
    BY <2>1, <2>2 DEF RunInv, RunTypes, Paced, Allowance, Nodes
  <2>6. Judged'
    BY <2>1, <2>2 DEF Judged, Nodes
  <2> QED BY <2>2, <2>3, <2>4, <2>5, <2>6, Unpublished DEF RunInv
<1> QED BY <1>1, <1>2, <1>3, <1>4, <1>5 DEF InvestigateNode

LEMMA SimilarCasesInv == ASSUME RunInv, SimilarCases PROVE RunInv'
<1> USE InvestigationAssumption
<1>1. node = "similar_cases" /\ node' = "draft_report" /\ steps' = steps + 1 /\ steps' \in Nat
  BY OneStep DEF RunInv, SimilarCases
<1>2. PICK e \in Evidence : evidence' = Append(evidence, e)
  BY DEF SimilarCases
<1>3. /\ UNCHANGED <<used, attempts, toolLast, report, violations, history, attached>>
      /\ attached' = NoReport
  BY <1>1 DEF SimilarCases, RunInv, Judged
<1>4. evidence' \in Seq(Evidence) /\ Len(evidence') = Len(evidence) + 1
  BY <1>2 DEF RunInv, RunTypes
<1>5. RunTypes'
  BY <1>1, <1>3, <1>4 DEF RunInv, RunTypes, Nodes
<1>6. Gathered'
  BY <1>1, <1>3, <1>4 DEF RunInv, RunTypes, Gathered
<1>7. Paced'
  BY <1>1, <1>3 DEF RunInv, RunTypes, Paced, Allowance, Nodes
<1>8. Judged'
  BY <1>1, <1>3 DEF RunInv, Judged, Nodes
<1> QED BY <1>3, <1>5, <1>6, <1>7, <1>8, Unpublished DEF RunInv

LEMMA DraftReportInv == ASSUME RunInv, DraftReport PROVE RunInv'
<1> USE InvestigationAssumption
<1>1. node = "draft_report" /\ node' = "verify" /\ steps' = steps + 1 /\ steps' \in Nat
  BY OneStep DEF RunInv, DraftReport
<1>2. /\ UNCHANGED <<evidence, used, attempts, toolLast, violations, history, attached>>
      /\ attached' = NoReport /\ report' \in Draft \cup {NoReport}
  BY <1>1 DEF DraftReport, RunInv, Judged
<1>3. RunTypes'
  BY <1>1, <1>2 DEF RunInv, RunTypes, Nodes
<1>4. Gathered'
  BY <1>1, <1>2 DEF RunInv, Gathered
<1>5. Paced'
  BY <1>1, <1>2 DEF RunInv, RunTypes, Paced, Allowance, Nodes
<1>6. Judged'
  BY <1>1, <1>2 DEF RunInv, Judged, Nodes
<1> QED BY <1>2, <1>3, <1>4, <1>5, <1>6, Unpublished DEF RunInv

LEMMA VerifyInv == ASSUME RunInv, Verify PROVE RunInv'
<1> USE InvestigationAssumption
<1> DEFINE bad == Rejected(report, evidence)
<1>1. node = "verify" /\ steps' = steps + 1 /\ steps' \in Nat
  BY OneStep DEF RunInv, Verify
<1>2. /\ UNCHANGED <<evidence, used, toolLast, report, attached>> /\ attached' = NoReport
      /\ attempts' = attempts + 1 /\ violations' = bad /\ history' = history \cup bad
      /\ node' = AfterVerify(bad, attempts + 1)
  BY <1>1 DEF Verify, RunInv, Judged, Accumulated
<1>3. bad \subseteq Marks
  BY RejectedMarks DEF RunInv, RunTypes
<1>4. /\ attempts \in Nat /\ attempts < MaxVerifyAttempts /\ used \in Nat /\ steps \in Nat
      /\ steps <= used + 4 * attempts + 4 /\ Len(evidence) \in Nat
  BY <1>1 DEF RunInv, RunTypes, Paced, Allowance, Nodes
<1>5. \/ node' = "investigate" /\ bad # {} /\ attempts + 1 < MaxVerifyAttempts
      \/ node' = "finalize" /\ (bad # {} => attempts + 1 = MaxVerifyAttempts)
  BY <1>2, <1>4 DEF AfterVerify
<1> HIDE DEF bad
<1>6. RunTypes'
  BY <1>1, <1>2, <1>3, <1>4, <1>5 DEF RunInv, RunTypes, Nodes
<1>7. Gathered'
  BY <1>1, <1>2, <1>4, <1>5 DEF RunInv, Gathered
<1>8. Paced'
  BY <1>1, <1>2, <1>4, <1>5 DEF Paced, Allowance, Nodes
<1>9. Judged'
  <2>1. violations' = Rejected(report, evidence)'
    BY <1>2 DEF bad, Rejected, Supported, Exists, Ok, NumbersIn
  <2>2. attempts > 0 => history # {}
    BY <1>1 DEF RunInv, Judged, Nodes
  <2>3. attempts' > 1 => history' # {}
    BY <1>2, <1>4, <2>2
  <2>4. violations' \subseteq history'
    BY <1>2
  <2> QED BY <1>2, <1>5, <2>1, <2>3, <2>4 DEF Judged, Nodes
<1> QED BY <1>2, <1>6, <1>7, <1>8, <1>9, Unpublished DEF RunInv

LEMMA FinalizeInv == ASSUME RunInv, Finalize PROVE RunInv'
<1> USE InvestigationAssumption
<1>1. node = "finalize" /\ node' = "end" /\ steps' = steps + 1 /\ steps' \in Nat
  BY OneStep DEF RunInv, Finalize
<1>2. /\ UNCHANGED <<evidence, used, attempts, toolLast, report, violations, history>>
      /\ attached' = Published \/ attached' = NoReport
  BY DEF Finalize
<1>3. /\ violations = Rejected(report, evidence) /\ violations \subseteq history
      /\ violations # {} => attempts = MaxVerifyAttempts
      /\ attempts > 1 => history # {}
  BY <1>1 DEF RunInv, Judged
<1>4. /\ evidence \in Seq(Evidence) /\ attempts \in Nat /\ history \subseteq Marks
      /\ report \in Draft \cup {NoReport}
  BY DEF RunInv, RunTypes
<1>5. ASSUME NEW f \in KeptFindings PROVE f \in Finding /\ Supported(f, evidence)
  <2>1. PICK i \in DOMAIN report : i \notin violations /\ f = report[i] /\ report # NoReport
    BY <1>5 DEF KeptFindings
  <2>2. PICK n \in 0 .. MaxFindings : report \in [1 .. n -> Finding]
    BY <1>4, <2>1 DEF Draft
  <2>3. Supported(report[i], evidence)
    BY <1>3, <2>1 DEF Rejected
  <2> QED BY <2>1, <2>2, <2>3
<1>6. Published \in Report
  BY <1>4, <1>5 DEF Published, Report
<1>7. RunTypes'
  BY <1>1, <1>2, <1>6 DEF RunInv, RunTypes
<1>8. Gathered'
  BY <1>1, <1>2 DEF RunInv, Gathered
<1>9. Paced'
  BY <1>1, <1>2 DEF RunInv, RunTypes, Paced, Allowance, Nodes
<1>10. Judged'
  BY <1>1 DEF Judged, Nodes
<1>11. PublishedClaimsHold'
  <2>1. \A f \in Published.findings :
           /\ f.refs # {}
           /\ \A r \in f.refs : r + 1 \in DOMAIN Published.evidence /\ Published.evidence[r + 1].ok
           /\ \A q \in f.quotes : \E r \in f.refs : q \in Published.evidence[r + 1].numbers
    BY <1>4, <1>5, SupportedMeans DEF Published
  <2> QED BY <1>2, <2>1 DEF PublishedClaimsHold
<1>12. PublishedHonestly'
  <2>1. CASE attached' = NoReport
    BY <2>1 DEF PublishedHonestly
  <2>2. CASE attached' = Published
    <3>1. violations = {} => report # NoReport
      BY <1>3 DEF Rejected
    <3>2. violations = {} => KeptFindings = Range(report)
      BY <3>1 DEF KeptFindings, Range
    <3>3. /\ attached'.passed = (violations = {})
          /\ attached'.action = IF violations = {} THEN "drafted" ELSE "ESCALATE"
          /\ attached'.findings = KeptFindings /\ attached'.attempts = attempts
          /\ attached'.violations = history
      BY <2>2 DEF Published
    <3>4. violations # {} \/ attempts > 1 => history # {}
      BY <1>3
    <3>5. Range(report)' = Range(report) /\ report' = report
      BY <1>2
    <3> QED BY <1>3, <3>1, <3>2, <3>3, <3>4, <3>5 DEF PublishedHonestly
  <2> QED BY <1>2, <2>1, <2>2
<1> QED BY <1>7, <1>8, <1>9, <1>10, <1>11, <1>12 DEF RunInv

-----------------------------------------------------------------------------
LEMMA RunNextInv == ASSUME RunInv, [RunNext]_runVars PROVE RunInv'
<1>1. CASE RunNext
  BY <1>1, TriageInv, InvestigateInv, SimilarCasesInv, DraftReportInv, VerifyInv, FinalizeInv DEF RunNext
<1>2. CASE UNCHANGED runVars
  <2>1. RunTypes' /\ Gathered' /\ Paced'
    BY <1>2 DEF runVars, RunInv, RunTypes, Gathered, Paced, Allowance
  <2>2. Rejected(report, evidence)' = Rejected(report, evidence)
    BY <1>2 DEF runVars
  <2>3. Judged'
    BY <1>2, <2>2 DEF runVars, RunInv, Judged
  <2>4. PublishedClaimsHold' /\ PublishedHonestly'
    BY <1>2 DEF runVars, RunInv, PublishedClaimsHold, PublishedHonestly
  <2> QED BY <2>1, <2>3, <2>4 DEF RunInv
<1> QED BY <1>1, <1>2

\* Type correctness of the agent's state, with the budget and the attempts within their bounds.
THEOREM InvestigationTypes == RunSpec => []RunTypes
<1>1. RunInv => RunTypes
  BY DEF RunInv
<1> QED BY <1>1, RunInitInv, RunNextInv, PTL DEF RunSpec

\* The budget is one for the whole investigation (graph.py, tool_calls_used).
THEOREM BudgetHolds == RunSpec => []BudgetKept
<1>1. RunInv => BudgetKept
  <2> SUFFICES ASSUME RunInv, node # "triage"
               PROVE  Len(evidence) <= 1 + MaxToolCalls + attempts
                         + (IF node \in {"draft_report", "verify"} THEN 1 ELSE 0)
    BY DEF BudgetKept
  <2>1. used \in 0 .. MaxToolCalls /\ attempts \in Nat /\ Len(evidence) \in Nat /\ MaxToolCalls \in Nat
    BY InvestigationAssumption DEF RunInv, RunTypes
  <2> QED BY <2>1 DEF RunInv, Gathered
<1> QED BY <1>1, RunInitInv, RunNextInv, PTL DEF RunSpec

\* Nothing a human reads rests on missing or failed evidence (verify.py, finalize).
THEOREM PublishedClaimsAreCitable == RunSpec => []PublishedClaimsHold
<1>1. RunInv => PublishedClaimsHold
  BY DEF RunInv
<1> QED BY <1>1, RunInitInv, RunNextInv, PTL DEF RunSpec

\* A report says truthfully whether it was verified, and what was wrong before (finalize).
THEOREM ReportsAreHonest == RunSpec => []PublishedHonestly
<1>1. RunInv => PublishedHonestly
  BY DEF RunInv
<1> QED BY <1>1, RunInitInv, RunNextInv, PTL DEF RunSpec

\* The recursion limit of server.py is never reached while it exceeds the two budgets.
THEOREM LimitOutOfReach == RunSpec => []WithinRecursionLimit
<1>1. RunInv => WithinRecursionLimit
  BY AllowanceFits DEF RunInv, WithinRecursionLimit
<1> QED BY <1>1, RunInitInv, RunNextInv, PTL DEF RunSpec

-----------------------------------------------------------------------------
(* Questions (Ask): the items of a sequence at some of its places *)

\* Induction, for a set of numbers.
LEMMA AllNumbers ==
  ASSUME NEW T, 0 \in T, \A k \in Nat : k \in T => k + 1 \in T
  PROVE  \A k \in Nat : k \in T
<1> SUFFICES ASSUME NEW k \in Nat, k \notin T PROVE FALSE
  OBVIOUS
<1> DEFINE Out == {i \in Nat : i \notin T}
<1>1. PICK m \in Out : \A i \in Out : m <= i
  <2>1. Out # {} /\ Out \in SUBSET Nat
    OBVIOUS
  <2> HIDE DEF Out
  <2> QED BY <2>1, NatMin
<1>2. m \in Nat /\ m # 0 /\ m \notin T
  BY <1>1
<1>3. m - 1 \in Nat /\ m - 1 \notin Out
  <2>1. m - 1 \in Nat /\ ~(m <= m - 1)
    BY <1>2
  <2> HIDE DEF Out
  <2> QED BY <1>1, <2>1
<1> QED BY <1>2, <1>3

\* What Only takes at the k-th place.
Takes(f, seq, places, k) ==
    IF k = 0 THEN <<>> ELSE IF k \in places THEN Append(f[k - 1], seq[k]) ELSE f[k - 1]

\* What is left by Only are items at the places.
LEMMA OnlyItems ==
  ASSUME NEW T, NEW seq \in Seq(T), NEW places
  PROVE  LET O == Only(seq, places) IN
         /\ O \in Seq(T)
         /\ \A k \in 1 .. Len(O) : \E i \in 1 .. Len(seq) : i \in places /\ O[k] = seq[i]
<1> DEFINE L == Len(seq)
           Right(f, k) == \A n \in 0 .. L : n <= k => f[n] = Takes(f, seq, places, n)
           Levels == {k \in Nat : \E f : f = [n \in 0 .. L |-> f[n]] /\ Right(f, k)}
<1>1. L \in Nat /\ \A i \in 1 .. L : seq[i] \in T
  BY LenProperties
<1>2. 0 \in Levels
  <2> DEFINE f == [n \in 0 .. L |-> <<>>]
  <2>1. f = [n \in 0 .. L |-> f[n]]
    OBVIOUS
  <2>2. Right(f, 0)
    BY <1>1 DEF Takes
  <2> QED BY <2>1, <2>2
<1>3. ASSUME NEW k \in Nat, k \in Levels
      PROVE  k + 1 \in Levels
  <2>1. PICK f : f = [n \in 0 .. L |-> f[n]] /\ Right(f, k)
    BY <1>3
  <2> DEFINE g == [n \in 0 .. L |-> IF n = k + 1 THEN Takes(f, seq, places, n) ELSE f[n]]
  <2>2. g = [n \in 0 .. L |-> g[n]]
    OBVIOUS
  <2>3. Right(g, k + 1)
    <3> SUFFICES ASSUME NEW n \in 0 .. L, n <= k + 1
                 PROVE  g[n] = Takes(g, seq, places, n)
      OBVIOUS
    <3>1. n \in Nat /\ (n # 0 => n - 1 \in 0 .. L /\ n - 1 # k + 1)
      BY <1>1
    <3>2. n # 0 => g[n - 1] = f[n - 1]
      BY <3>1
    <3>3. Takes(g, seq, places, n) = Takes(f, seq, places, n)
      <4> HIDE DEF g
      <4> QED BY <3>2 DEF Takes
    <3>4. g[n] = Takes(f, seq, places, n)
      <4>1. CASE n = k + 1
        BY <4>1
      <4>2. CASE n # k + 1
        <5>1. n <= k /\ g[n] = f[n]
          BY <1>1, <3>1, <4>2
        <5> QED BY <2>1, <5>1
      <4> QED BY <4>1, <4>2
    <3> QED BY <3>3, <3>4
  <2> HIDE DEF g, Right
  <2> QED BY <2>2, <2>3
<1>4. L \in Levels
  <2> HIDE DEF Levels
  <2> QED BY <1>1, <1>2, <1>3, AllNumbers
<1>5. \E f : f = [n \in 0 .. L |-> Takes(f, seq, places, n)]
  <2>1. PICK f : f = [n \in 0 .. L |-> f[n]] /\ Right(f, L)
    BY <1>4
  <2>2. \A n \in 0 .. L : n <= L
    BY <1>1
  <2>3. \A n \in 0 .. L : f[n] = Takes(f, seq, places, n)
    BY <2>1, <2>2
  <2>4. f = [n \in 0 .. L |-> Takes(f, seq, places, n)]
    BY <2>1, <2>3
  <2> QED BY <2>4
<1> DEFINE Upto == CHOOSE f : f = [n \in 0 .. L |-> Takes(f, seq, places, n)]
<1>6. Upto = [n \in 0 .. L |-> Takes(Upto, seq, places, n)]
  BY <1>5
<1>7. Only(seq, places) = Upto[L]
  BY DEF Only, Takes
<1> HIDE DEF Upto
<1> DEFINE Fine(o) == /\ o \in Seq(T)
                      /\ \A j \in 1 .. Len(o) : \E i \in 1 .. L : i \in places /\ o[j] = seq[i]
           Good == {n \in Nat : n <= L => Fine(Upto[n])}
<1>8. 0 \in Good
  <2>1. Upto[0] = <<>>
    BY <1>1, <1>6 DEF Takes
  <2>2. <<>> \in Seq(T) /\ 1 .. Len(<<>>) = {}
    OBVIOUS
  <2> QED BY <2>1, <2>2
<1>9. ASSUME NEW n \in Nat, n \in Good PROVE n + 1 \in Good
  <2> SUFFICES ASSUME n + 1 <= L PROVE Fine(Upto[n + 1])
    OBVIOUS
  <2>1. n <= L /\ n + 1 \in 0 .. L /\ n + 1 \in 1 .. L /\ n + 1 # 0 /\ (n + 1) - 1 = n
    BY <1>1
  <2> DEFINE o == Upto[n]
  <2>2. Fine(o)
    BY <1>9, <2>1
  <2>3. Upto[n + 1] = IF n + 1 \in places THEN Append(o, seq[n + 1]) ELSE o
    BY <1>6, <2>1 DEF Takes
  <2>4. CASE n + 1 \notin places
    BY <2>2, <2>3, <2>4
  <2>5. CASE n + 1 \in places
    <3> HIDE DEF o
    <3>1. /\ Append(o, seq[n + 1]) \in Seq(T) /\ Len(Append(o, seq[n + 1])) = Len(o) + 1
          /\ Len(o) \in Nat /\ Append(o, seq[n + 1])[Len(o) + 1] = seq[n + 1]
          /\ \A j \in 1 .. Len(o) : Append(o, seq[n + 1])[j] = o[j]
      BY <1>1, <2>1, <2>2, AppendProperties, LenProperties
    <3>2. \A j \in 1 .. Len(o) + 1 : j \in 1 .. Len(o) \/ j = Len(o) + 1
      BY <3>1
    <3>3. Fine(Append(o, seq[n + 1]))
      BY <2>1, <2>2, <2>5, <3>1, <3>2
    <3> QED BY <2>3, <2>5, <3>3
  <2> QED BY <2>4, <2>5
<1>10. L \in Good
  <2> HIDE DEF Good
  <2> QED BY <1>1, <1>8, <1>9, AllNumbers
<1> QED BY <1>1, <1>7, <1>10

-----------------------------------------------------------------------------
(* Evidence *)

\* What the evidence of an answer is made of.
Decision(p) == [tool |-> "decision", ok |-> TRUE, payload |-> p]
Exhibits    == {Shaped(e) : e \in Entry} \cup {Decision(p) : p \in Payloads}

\* It is shaped as the code shapes it, and holds numbers that can be compared.
LEMMA ExhibitFacts ==
  ASSUME NEW e \in Exhibits
  PROVE  /\ e.ok \in BOOLEAN
         /\ e.ok => NumbersOf(e.payload) \subseteq Nat
         /\ e.tool = HistoryTool => \A m \in Members(e.payload) : m.type # "hidden"
<1>1. \A p \in Payloads : NumbersOf(p) \subseteq Nat /\ NumbersOf(HistoryView(p)) \subseteq Nat
  BY AskAssumption
<1>2. ASSUME NEW p \in Payloads, e = Decision(p)
      PROVE  e.ok = TRUE /\ e.payload \in Payloads /\ e.tool # HistoryTool
  BY <1>2, AskAssumption DEF Decision
<1>3. ASSUME NEW d \in Entry, e = Shaped(d)
      PROVE  /\ e.ok \in BOOLEAN
             /\ e.ok => NumbersOf(e.payload) \subseteq Nat
             /\ e.tool = HistoryTool => \A m \in Members(e.payload) : m.type # "hidden"
  <2>1. /\ d = [tool |-> d.tool, ok |-> d.ok, payload |-> d.payload] /\ d.ok \in BOOLEAN
        /\ d.ok => d.payload \in Payloads
        /\ ~d.ok => d.payload = Fields({})
    BY DEF Entry
  <2>2. \A p : \A m \in Members(HistoryView(p)) : m.type # "hidden"
    BY DEF Members, HistoryView, Fields
  <2>3. CASE d.tool = HistoryTool /\ d.ok
    <3>1. e.tool = d.tool /\ e.ok = d.ok /\ e.payload = HistoryView(d.payload)
      BY <1>3, <2>1, <2>3 DEF Shaped
    <3> QED BY <1>1, <2>1, <2>2, <2>3, <3>1
  <2>4. CASE ~(d.tool = HistoryTool /\ d.ok)
    <3>1. e = d
      BY <1>3, <2>4 DEF Shaped
    <3>2. Members(Fields({})) = {}
      BY DEF Members, Fields
    <3> QED BY <1>1, <2>1, <2>4, <3>1, <3>2
  <2> QED BY <2>3, <2>4
<1> QED BY <1>1, <1>2, <1>3 DEF Exhibits

LEMMA ShapedKeeps ==
  ASSUME NEW e \in Entry
  PROVE  Shaped(e) \in Exhibits /\ Shaped(e).tool = e.tool /\ Shaped(e).ok = e.ok
<1>1. e = [tool |-> e.tool, ok |-> e.ok, payload |-> e.payload]
  BY DEF Entry
<1> QED BY <1>1 DEF Shaped, Exhibits

LEMMA InitialIsExhibits ==
  ASSUME NEW case \in Cases
  PROVE  InitialEvidence(case) \in Seq(Exhibits)
<1> DEFINE places   == {i \in DOMAIN case.report : case.report[i].tool # "get_case"}
           gathered == Only(case.report, places)
           others   == [i \in DOMAIN gathered |-> Shaped(gathered[i])]
           decision == Decision(case.decision)
<1>1. case.report \in Seq(Entry) /\ case.decision \in Payloads
  BY AskAssumption
<1> HIDE DEF places
<1>2. gathered \in Seq(Entry)
  BY <1>1, OnlyItems
<1> HIDE DEF gathered
<1>3. /\ gathered \in [1 .. Len(gathered) -> Entry] /\ DOMAIN gathered = 1 .. Len(gathered) /\ Len(gathered) \in Nat
      /\ \A i \in 1 .. Len(gathered) : gathered[i] \in Entry
  BY <1>2, LenProperties
<1>4. others \in [1 .. Len(gathered) -> Exhibits]
  BY <1>3, ShapedKeeps
<1>5. others \in Seq(Exhibits)
  BY <1>3, <1>4, SeqDef
<1>6. <<decision>> \in Seq(Exhibits)
  <2>1. decision \in Exhibits
    BY <1>1 DEF Exhibits
  <2> HIDE DEF decision
  <2> QED BY <2>1
<1> HIDE DEF others, decision
<1>7. <<decision>> \o others \in Seq(Exhibits)
  BY <1>5, <1>6, ConcatProperties
<1>8. InitialEvidence(case) = <<decision>> \o others
  BY DEF InitialEvidence, decision, others, gathered, places, Decision
<1> QED BY <1>7, <1>8

\* What holds of the evidence and the budget while tools are called, n pieces being there before.
Fetching(s, n) ==
    /\ s.evidence \in Seq(Exhibits) /\ s.budget \in Nat
    /\ Len(s.evidence) + s.budget = n + AskMaxTools
    /\ \A k \in n + 1 .. Len(s.evidence) : \A j \in 1 .. k - 1 :
         s.evidence[j].tool = s.evidence[k].tool => ~s.evidence[j].ok

LEMMA FetchOneKeeps ==
  ASSUME NEW s, NEW n \in Nat, Fetching(s, n), NEW tool \in CallableTools,
         NEW result \in [CallableTools -> Result]
  PROVE  Fetching(FetchOne(s, tool, result), n)
<1> DEFINE ev == s.evidence
           new == Shaped(Called(tool, result[tool]))
           t == [evidence |-> Append(ev, new), budget |-> s.budget - 1]
<1>1. ev \in Seq(Exhibits) /\ s.budget \in Nat /\ Len(ev) \in Nat /\ AskMaxTools \in Nat /\ DOMAIN ev = 1 .. Len(ev)
  BY AskAssumption, LenProperties DEF Fetching
<1>2. CASE FetchOne(s, tool, result) = s
  BY <1>2
<1>3. CASE FetchOne(s, tool, result) # s
  <2>1. /\ FetchOne(s, tool, result) = t /\ s.budget > 0
        /\ \A i \in 1 .. Len(ev) : ev[i].tool = tool => ~ev[i].ok
    <3>1. ~(s.budget <= 0 \/ \E i \in DOMAIN ev : ev[i].tool = tool /\ ev[i].ok)
      BY <1>3 DEF FetchOne
    <3>2. FetchOne(s, tool, result) = t
      BY <3>1 DEF FetchOne
    <3> HIDE DEF ev, t
    <3>3. s.budget > 0
      BY <1>1, <3>1
    <3> QED BY <1>1, <3>1, <3>2, <3>3
  <2>2. new \in Exhibits /\ new.tool = tool
    <3>1. Called(tool, result[tool]) \in Entry /\ Called(tool, result[tool]).tool = tool
      <4>1. result[tool] \in Result /\ tool \in STRING
        BY AskAssumption
      <4> QED BY <4>1 DEF Result, Entry, Called
    <3> QED BY <3>1, ShapedKeeps
  <2> HIDE DEF new
  <2>3. /\ Append(ev, new) \in Seq(Exhibits) /\ Len(Append(ev, new)) = Len(ev) + 1
        /\ Append(ev, new)[Len(ev) + 1] = new
        /\ \A i \in 1 .. Len(ev) : Append(ev, new)[i] = ev[i]
    BY <1>1, <2>2, AppendProperties
  <2>4. t.evidence = Append(ev, new) /\ t.budget = s.budget - 1
    OBVIOUS
  <2>5. Len(ev) + s.budget = n + AskMaxTools
    BY DEF Fetching
  <2> HIDE DEF t
  <2>6. t.budget \in Nat /\ Len(t.evidence) + t.budget = n + AskMaxTools
    BY <1>1, <2>1, <2>3, <2>4, <2>5
  <2>7. ASSUME NEW k \in n + 1 .. Len(ev) + 1, NEW j \in 1 .. k - 1, t.evidence[j].tool = t.evidence[k].tool
        PROVE  ~t.evidence[j].ok
    <3>1. j \in 1 .. Len(ev) /\ k \in Nat /\ t.evidence[j] = ev[j]
      BY <1>1, <2>3, <2>4
    <3>2. CASE k = Len(ev) + 1
      BY <2>1, <2>2, <2>3, <2>4, <2>7, <3>1, <3>2
    <3>3. CASE k # Len(ev) + 1
      <4>1. k \in n + 1 .. Len(ev) /\ k \in 1 .. Len(ev)
        BY <1>1, <3>1, <3>3
      <4>2. t.evidence[k] = ev[k]
        BY <2>3, <2>4, <4>1
      <4> QED BY <2>7, <3>1, <4>1, <4>2 DEF Fetching
    <3> QED BY <3>2, <3>3
  <2>8. Fetching(t, n)
    BY <2>3, <2>4, <2>6, <2>7 DEF Fetching
  <2> QED BY <2>1, <2>8
<1> QED BY <1>2, <1>3

\* The k-th call of a fetch.
Tries(f, s, tools, result, k) == IF k = 0 THEN s ELSE FetchOne(f[k - 1], tools[k], result)

LEMMA FetchKeeps ==
  ASSUME NEW s, NEW n \in Nat, Fetching(s, n), NEW tools \in Seq(CallableTools),
         NEW result \in [CallableTools -> Result]
  PROVE  Fetching(Fetch(s, tools, result), n)
<1> DEFINE L == Len(tools)
           Right(f, k) == \A i \in 0 .. L : i <= k => f[i] = Tries(f, s, tools, result, i)
           Levels == {k \in Nat : \E f : f = [i \in 0 .. L |-> f[i]] /\ Right(f, k)}
<1>1. L \in Nat /\ \A i \in 1 .. L : tools[i] \in CallableTools
  BY LenProperties
<1>2. 0 \in Levels
  <2> DEFINE f == [i \in 0 .. L |-> s]
  <2>1. f = [i \in 0 .. L |-> f[i]]
    OBVIOUS
  <2>2. Right(f, 0)
    BY <1>1 DEF Tries
  <2> QED BY <2>1, <2>2
<1>3. ASSUME NEW k \in Nat, k \in Levels
      PROVE  k + 1 \in Levels
  <2>1. PICK f : f = [i \in 0 .. L |-> f[i]] /\ Right(f, k)
    BY <1>3
  <2> DEFINE g == [i \in 0 .. L |-> IF i = k + 1 THEN Tries(f, s, tools, result, i) ELSE f[i]]
  <2>2. g = [i \in 0 .. L |-> g[i]]
    OBVIOUS
  <2>3. Right(g, k + 1)
    <3> SUFFICES ASSUME NEW i \in 0 .. L, i <= k + 1
                 PROVE  g[i] = Tries(g, s, tools, result, i)
      OBVIOUS
    <3>1. i \in Nat /\ (i # 0 => i - 1 \in 0 .. L /\ i - 1 # k + 1)
      BY <1>1
    <3>2. i # 0 => g[i - 1] = f[i - 1]
      BY <3>1
    <3>3. Tries(g, s, tools, result, i) = Tries(f, s, tools, result, i)
      <4> HIDE DEF g
      <4> QED BY <3>2 DEF Tries
    <3>4. g[i] = Tries(f, s, tools, result, i)
      <4>1. CASE i = k + 1
        BY <4>1
      <4>2. CASE i # k + 1
        <5>1. i <= k /\ g[i] = f[i]
          BY <1>1, <3>1, <4>2
        <5> QED BY <2>1, <5>1
      <4> QED BY <4>1, <4>2
    <3> QED BY <3>3, <3>4
  <2> HIDE DEF g, Right
  <2> QED BY <2>2, <2>3
<1>4. L \in Levels
  <2> HIDE DEF Levels
  <2> QED BY <1>1, <1>2, <1>3, AllNumbers
<1>5. \E f : f = [i \in 0 .. L |-> Tries(f, s, tools, result, i)]
  <2>1. PICK f : f = [i \in 0 .. L |-> f[i]] /\ Right(f, L)
    BY <1>4
  <2>2. \A i \in 0 .. L : i <= L
    BY <1>1
  <2>3. \A i \in 0 .. L : f[i] = Tries(f, s, tools, result, i)
    BY <2>1, <2>2
  <2>4. f = [i \in 0 .. L |-> Tries(f, s, tools, result, i)]
    BY <2>1, <2>3
  <2> QED BY <2>4
<1> DEFINE After == CHOOSE f : f = [i \in 0 .. L |-> Tries(f, s, tools, result, i)]
<1>6. After = [i \in 0 .. L |-> Tries(After, s, tools, result, i)]
  BY <1>5
<1>7. Fetch(s, tools, result) = After[L]
  BY DEF Fetch, Tries
<1> HIDE DEF After
<1> DEFINE Good == {i \in Nat : i <= L => Fetching(After[i], n)}
<1>8. 0 \in Good
  BY <1>1, <1>6 DEF Tries
<1>9. ASSUME NEW i \in Nat, i \in Good PROVE i + 1 \in Good
  <2> SUFFICES ASSUME i + 1 <= L PROVE Fetching(After[i + 1], n)
    OBVIOUS
  <2>1. i <= L /\ i + 1 \in 0 .. L /\ i + 1 \in 1 .. L /\ i + 1 # 0 /\ (i + 1) - 1 = i
    BY <1>1
  <2>2. Fetching(After[i], n)
    BY <1>9, <2>1
  <2>3. After[i + 1] = FetchOne(After[i], tools[i + 1], result)
    BY <1>6, <2>1 DEF Tries
  <2> QED BY <1>1, <2>1, <2>2, <2>3, FetchOneKeeps
<1>10. L \in Good
  <2> HIDE DEF Good
  <2> QED BY <1>1, <1>8, <1>9, AllNumbers
<1> QED BY <1>1, <1>7, <1>10

-----------------------------------------------------------------------------
(* Drafts *)

\* A JSON object of a reply, or the lack of one.
LEMMA ParsedTyped ==
  ASSUME NEW pieces \in Seq(Piece)
  PROVE  ParsedObject(pieces).sentences \in Seq(Sentence) /\ ParsedObject(pieces).needs \in Seq(STRING)
<1>1. ASSUME NEW p \in Piece, p.type = "object" PROVE p.sentences \in Seq(Sentence) /\ p.needs \in Seq(STRING)
  BY <1>1 DEF Piece, Json
<1>2. Fenced(pieces) \in Seq(Piece) /\ Braced(pieces) \in Seq(Piece)
  BY OnlyItems DEF Fenced, Braced
<1>3. ASSUME NEW ps \in Seq(Piece), Whole(ps) PROVE ps[1] \in Piece /\ ps[1].type = "object"
  <2>1. Len(ps) = 1 /\ 1 \in 1 .. Len(ps)
    BY <1>3 DEF Whole
  <2> QED BY <1>3, <2>1, LenProperties DEF Whole
<1> DEFINE tries == <<pieces, Fenced(pieces), Braced(pieces)>>
           taken == {i \in 1 .. 3 : Whole(tries[i])}
<1>4. CASE taken = {}
  <2>1. ParsedObject(pieces) = Nothing
    BY <1>4 DEF ParsedObject
  <2>2. Nothing.sentences = <<>> /\ Nothing.needs = <<>>
    BY DEF Nothing
  <2> QED BY <2>1, <2>2
<1>5. CASE taken # {}
  <2>1. \A i \in 1 .. 3 : tries[i] \in Seq(Piece)
    BY <1>2
  <2>2. Min(taken) \in taken
    <3>1. taken \in SUBSET Nat
      OBVIOUS
    <3>2. PICK x \in taken : \A y \in taken : x <= y
      <4> HIDE DEF taken
      <4> QED BY <1>5, <3>1, NatMin
    <3> HIDE DEF taken
    <3> QED BY <3>2 DEF Min
  <2>3. ParsedObject(pieces) = tries[Min(taken)][1]
    BY <1>5 DEF ParsedObject
  <2>4. Min(taken) \in 1 .. 3 /\ Whole(tries[Min(taken)])
    BY <2>2
  <2> HIDE DEF tries, taken
  <2> QED BY <1>1, <1>3, <2>1, <2>3, <2>4
<1> QED BY <1>4, <1>5

\* A sentence of a draft has a text and indices.
Drafted == [text : [type : {"text"}, tokens : SUBSET Token], refs : SUBSET Nat]

LEMMA DraftTyped ==
  ASSUME NEW reply \in Reply
  PROVE  ParseDraft(reply).needs \in Seq(CallableTools) /\ ParseDraft(reply).sentences \subseteq Drafted
<1>1. CASE reply.failed
  <2>1. ParseDraft(reply) = [sentences |-> {}, needs |-> <<>>]
    BY <1>1 DEF ParseDraft
  <2> QED BY <2>1
<1>2. CASE ~reply.failed
  <2> DEFINE json == ParsedObject(reply.pieces)
             first(i) == json.needs[i] \in CallableTools /\ \A j \in 1 .. i - 1 : json.needs[j] # json.needs[i]
             places == {i \in DOMAIN json.needs : first(i)}
             kept == {json.sentences[i] : i \in {k \in DOMAIN json.sentences :
                                             k <= MaxSentences /\ json.sentences[k].text # NoText}}
             drafts == {[text |-> s.text, refs |-> {r \in s.refs : r >= 0}] : s \in kept}
             named == Only(json.needs, places)
  <2>1. reply.pieces \in Seq(Piece)
    BY <1>2 DEF Reply
  <2>2. json.sentences \in Seq(Sentence) /\ json.needs \in Seq(STRING)
    BY <2>1, ParsedTyped
  <2>3. ParseDraft(reply) = [needs |-> named, sentences |-> drafts]
    BY <1>2 DEF ParseDraft
  <2> HIDE DEF json
  <2>4. \A s \in kept : s \in Sentence /\ s.text # NoText
    BY <2>2, LenProperties
  <2>5. drafts \subseteq Drafted
    <3> HIDE DEF kept
    <3>1. ASSUME NEW s \in kept PROVE [text |-> s.text, refs |-> {r \in s.refs : r >= 0}] \in Drafted
      <4>1. s.text \in [type : {"text"}, tokens : SUBSET Token] /\ s.refs \subseteq Int
        BY <2>4 DEF Sentence
      <4>2. {r \in s.refs : r >= 0} \subseteq Nat
        BY <4>1
      <4> QED BY <4>1, <4>2 DEF Drafted
    <3> QED BY <3>1
  <2>6. named \in Seq(CallableTools)
    <3>1. \A i \in places : json.needs[i] \in CallableTools
      OBVIOUS
    <3> HIDE DEF places
    <3>2. named \in Seq(STRING) /\ \A k \in 1 .. Len(named) : \E i \in 1 .. Len(json.needs) : i \in places /\ named[k] = json.needs[i]
      BY <2>2, OnlyItems
    <3> HIDE DEF named
    <3>3. \A k \in 1 .. Len(named) : named[k] \in CallableTools
      BY <3>1, <3>2
    <3>4. Len(named) \in Nat /\ named \in [1 .. Len(named) -> STRING]
      BY <3>2, LenProperties
    <3>5. named \in [1 .. Len(named) -> CallableTools]
      BY <3>3, <3>4
    <3> QED BY <3>4, <3>5, SeqDef
  <2> HIDE DEF named, drafts
  <2> QED BY <2>3, <2>5, <2>6
<1> QED BY <1>1, <1>2

\* A quantity the verifier lets pass is near a number of the evidence.
LEMMA CitedIsNear ==
  ASSUME NEW v \in Nat, NEW found \in SUBSET Nat, Matches(v, found)
  PROVE  \E c \in found : Near(v, c)
<1>1. PICK c \in found :
        \/ v = c
        \/ 100 * Distance(v, c) <= Larger(v, c)
        \/ 2 * Distance(v, c) <= LastPlace(v)
        \/ v % Unit = 0 /\ v = c - (c % Unit)
  BY DEF Matches
<1>2. /\ c \in Nat /\ Distance(v, c) \in Nat /\ Larger(v, c) \in Nat
      /\ v = c => Distance(v, c) = 0
  BY DEF Distance, Larger
<1>3. LastPlace(v) \in Nat /\ 1 <= LastPlace(v) /\ LastPlace(v) <= Unit /\ Unit = 10000
  <2>1. Unit = 10000
    BY DEF Unit
  <2>2. \A p : p \in DecimalPlaces <=> p = 1 \/ p = 10 \/ p = 100 \/ p = 1000 \/ p = Unit
    BY DEF DecimalPlaces
  <2>3. v % 1 = 0
    OBVIOUS
  <2>4. \E p \in DecimalPlaces : v % p = 0 /\ \A o \in DecimalPlaces : v % o = 0 => o <= p
    <3>1. CASE v % Unit = 0
      BY <2>1, <2>2, <3>1
    <3>2. CASE v % Unit # 0 /\ v % 1000 = 0
      BY <2>1, <2>2, <3>2
    <3>3. CASE v % Unit # 0 /\ v % 1000 # 0 /\ v % 100 = 0
      BY <2>1, <2>2, <3>3
    <3>4. CASE v % Unit # 0 /\ v % 1000 # 0 /\ v % 100 # 0 /\ v % 10 = 0
      BY <2>1, <2>2, <3>4
    <3>5. CASE v % Unit # 0 /\ v % 1000 # 0 /\ v % 100 # 0 /\ v % 10 # 0
      BY <2>1, <2>2, <2>3, <3>5
    <3> QED BY <3>1, <3>2, <3>3, <3>4, <3>5
  <2>5. LastPlace(v) \in DecimalPlaces
    BY <2>4, Zenon DEF LastPlace
  <2> HIDE DEF LastPlace
  <2> QED BY <2>1, <2>2, <2>5
<1>4. CASE v = c \/ 100 * Distance(v, c) <= Larger(v, c)
  BY <1>2, <1>4 DEF Near
<1>5. CASE 2 * Distance(v, c) <= LastPlace(v)
  <2>1. Distance(v, c) < Unit
    <3>1. \A d, p, u \in Nat : 1 <= p /\ 2 * d <= p /\ p <= u => d < u
      OBVIOUS
    <3> QED BY <1>2, <1>3, <1>5, <3>1
  <2> QED BY <1>5, <2>1 DEF Near
<1>6. CASE v % Unit = 0 /\ v = c - (c % Unit)
  <2>1. c % Unit \in 0 .. 9999
    BY <1>2, <1>3
  <2>2. Distance(v, c) < Unit
    BY <1>2, <1>3, <1>6, <2>1 DEF Distance
  <2> QED BY <1>6, <2>2 DEF Near
<1> QED BY <1>1, <1>4, <1>5, <1>6

LEMMA VerifiedHolds ==
  ASSUME NEW s \in Drafted, NEW ev \in Seq(Exhibits), Verified(s, ev)
  PROVE  Holds(s, ev)
<1> DEFINE found == UNION {NumbersOf(ev[r + 1].payload) : r \in s.refs}
<1>1. s.refs \subseteq Nat /\ s.text.tokens \subseteq Token /\ s.refs # {}
  BY DEF Drafted, Verified
<1>2. \A r \in s.refs : r + 1 \in DOMAIN ev /\ ev[r + 1].ok /\ ev[r + 1] \in Exhibits
  <2> SUFFICES ASSUME NEW r \in s.refs PROVE r + 1 \in DOMAIN ev /\ ev[r + 1].ok /\ ev[r + 1] \in Exhibits
    OBVIOUS
  <2>1. r \in Nat /\ r < Len(ev) /\ ev[r + 1].ok
    BY <1>1 DEF Verified
  <2>2. Len(ev) \in Nat /\ DOMAIN ev = 1 .. Len(ev) /\ \A i \in 1 .. Len(ev) : ev[i] \in Exhibits
    BY LenProperties
  <2>3. r + 1 \in 1 .. Len(ev)
    BY <2>1, <2>2
  <2> QED BY <2>1, <2>2, <2>3
<1>3. \A r \in s.refs : NumbersOf(ev[r + 1].payload) \subseteq Nat
  BY <1>2, ExhibitFacts
<1>4. found \subseteq Nat
  BY <1>3
<1>5. ASSUME NEW t \in s.text.tokens, t.kind = "number", ~Exempt(t.value)
      PROVE  \E r \in s.refs : \E c \in NumbersOf(ev[r + 1].payload) :
               Near(t.value, c) \/ (t.percent /\ Near(Ratio(t.value), c))
  <2>1. t.value \in Nat /\ Ratio(t.value) \in Nat
    BY <1>1 DEF Token, Ratio
  <2>2. Matches(t.value, found) \/ (t.percent /\ Matches(Ratio(t.value), found))
    BY <1>5 DEF Verified, Quantities, Cited
  <2> HIDE DEF found
  <2>3. \E c \in found : Near(t.value, c) \/ (t.percent /\ Near(Ratio(t.value), c))
    BY <1>4, <2>1, <2>2, CitedIsNear
  <2> QED BY <2>3 DEF found
<1> QED BY <1>1, <1>2, <1>5 DEF Holds

-----------------------------------------------------------------------------
(* An answer *)

\* What AnswersHold says of a kept answer, but that there is one.
Right(v) ==
    LET called == v.earlier + 1 .. Len(v.evidence)
    IN  /\ v.attempts <= 3
        /\ \A s \in v.answer : Holds(s, v.evidence)
        /\ \A e \in ToSet(v.evidence) :
             e.tool = HistoryTool => \A m \in Members(e.payload) : m.type # "hidden"
        /\ Cardinality(called) <= AskMaxTools
        /\ \A k \in called : \A j \in 1 .. k - 1 :
             v.evidence[j].tool = v.evidence[k].tool => ~v.evidence[j].ok

LEMMA AskCaseRight ==
  ASSUME NEW question \in Questions, NEW case \in Cases,
         NEW first \in Outcomes, NEW second \in Outcomes,
         NEW replies \in [1 .. 3 -> Replies[question]]
  PROVE  Right(AskCase(question, case, first, second, replies))
<1> DEFINE start   == [evidence |-> InitialEvidence(case), budget |-> AskMaxTools]
           routed  == Fetch(start, Routes[question], first)
           opening == ParseDraft(replies[1])
           more    == opening.needs # <<>> /\ opening.sentences = {}
           fetched == IF more THEN Fetch(routed, opening.needs, second) ELSE routed
           round   == IF more THEN 2 ELSE 1
           checked == Check(ParseDraft(replies[round]).sentences, fetched.evidence)
           rewrite == checked.answer = {} /\ ~replies[round].failed
           final   == IF rewrite THEN Check(ParseDraft(replies[round + 1]).sentences, fetched.evidence)
                      ELSE checked
           n == Len(start.evidence)
           v == AskCase(question, case, first, second, replies)
<1>1. Fetching(start, n) /\ n \in Nat
  <2>1. InitialEvidence(case) \in Seq(Exhibits)
    BY InitialIsExhibits
  <2>2. /\ start.evidence = InitialEvidence(case) /\ start.budget = AskMaxTools
        /\ n = Len(InitialEvidence(case)) /\ n \in Nat /\ AskMaxTools \in Nat
    BY <2>1, LenProperties, AskAssumption
  <2> HIDE DEF start, n
  <2> QED BY <2>1, <2>2 DEF Fetching
<1>2. /\ \A i \in 1 .. 3 : replies[i] \in Reply
      /\ first \in [CallableTools -> Result] /\ second \in [CallableTools -> Result]
  BY AskAssumption
<1>3. Fetching(routed, n)
  <2>1. Routes[question] \in Seq(CallableTools)
    BY AskAssumption
  <2> HIDE DEF start, n
  <2> QED BY <1>1, <1>2, <2>1, FetchKeeps
<1>4. opening.needs \in Seq(CallableTools)
  BY <1>2, DraftTyped
<1> HIDE DEF opening
<1>5. Fetching(fetched, n)
  <2> HIDE DEF routed, n
  <2> QED BY <1>1, <1>2, <1>3, <1>4, FetchKeeps
<1>6. round \in 1 .. 2 /\ round \in 1 .. 3 /\ round + 1 \in 1 .. 3
  OBVIOUS
<1>7. /\ v.answer = final.answer /\ v.evidence = fetched.evidence /\ v.earlier = n
      /\ v.attempts = (IF rewrite THEN round + 1 ELSE round)
  BY DEF AskCase, opening
<1> DEFINE ev == fetched.evidence
<1>8. ev \in Seq(Exhibits)
  BY <1>5 DEF Fetching
<1> HIDE DEF v, n, round, fetched
<1>9. \A i \in 1 .. 3 : \A s \in Check(ParseDraft(replies[i]).sentences, ev).answer : Holds(s, ev)
  <2> SUFFICES ASSUME NEW i \in 1 .. 3, NEW s \in Check(ParseDraft(replies[i]).sentences, ev).answer
               PROVE  Holds(s, ev)
    OBVIOUS
  <2>1. s \in ParseDraft(replies[i]).sentences /\ Verified(s, ev)
    BY DEF Check
  <2>2. s \in Drafted
    BY <1>2, <2>1, DraftTyped
  <2> HIDE DEF ev
  <2> QED BY <1>8, <2>1, <2>2, VerifiedHolds
<1>10. \A s \in v.answer : Holds(s, v.evidence)
  BY <1>6, <1>7, <1>9
<1>11. v.attempts <= 3
  BY <1>6, <1>7
<1>12. \A e \in ToSet(v.evidence) : e.tool = HistoryTool => \A m \in Members(e.payload) : m.type # "hidden"
  <2>1. DOMAIN ev = 1 .. Len(ev) /\ \A i \in 1 .. Len(ev) : ev[i] \in Exhibits
    BY <1>8, LenProperties
  <2>2. \A e \in ToSet(ev) : e \in Exhibits
    BY <2>1 DEF ToSet
  <2> QED BY <1>7, <2>2, ExhibitFacts
<1>13. Cardinality(v.earlier + 1 .. Len(v.evidence)) <= AskMaxTools
  <2>1. Len(ev) \in Nat /\ fetched.budget \in Nat /\ Len(ev) + fetched.budget = n + AskMaxTools /\ AskMaxTools \in Nat
    BY <1>5, <1>8, LenProperties, AskAssumption DEF Fetching
  <2> HIDE DEF ev
  <2>2. Cardinality(n + 1 .. Len(ev)) = IF n + 1 > Len(ev) THEN 0 ELSE Len(ev) - (n + 1) + 1
    <3>1. n + 1 \in Int /\ Len(ev) \in Int
      BY <1>1, <2>1
    <3> QED BY <3>1, FS_Interval
  <2> QED BY <1>1, <1>7, <2>1, <2>2 DEF ev
<1>14. \A k \in v.earlier + 1 .. Len(v.evidence) : \A j \in 1 .. k - 1 :
         v.evidence[j].tool = v.evidence[k].tool => ~v.evidence[j].ok
  BY <1>5, <1>7 DEF Fetching
<1> QED BY <1>10, <1>11, <1>12, <1>13, <1>14 DEF Right, v

-----------------------------------------------------------------------------
(* Requests *)

\* What is kept is an answer to some question, with a sentence that was verified.
Worth == {v \in UNION {Answers[q] : q \in Questions} : v.answer # {}}
CacheEntry == [key : Questions, at : Nat, value : Worth]

\* A request that is served has a client and a question, and is counted once it may ask.
AskInv ==
    /\ clock \in Nat /\ usable \in BOOLEAN
    /\ pc \in [Callers -> {"new", "cache", "limit", "ask", "done"}]
    /\ client \in [Callers -> Clients \cup {Everyone}]
    /\ asks \in [Callers -> Questions \cup {NoText}]
    /\ cache \in Seq(CacheEntry)
    /\ \A r \in Callers : pc[r] \in {"cache", "limit", "ask"} => client[r] \in Clients /\ asks[r] \in Questions
    /\ \A r \in Callers : pc[r] \in {"new", "cache", "limit"} => CallerIsNew(r)

LEMMA WorthIsRight ==
  ASSUME NEW v \in Worth
  PROVE  v.answer # {} /\ Right(v)
<1>1. PICK q \in Questions : v \in Answers[q]
  BY DEF Worth
<1>2. PICK case \in Cases, first \in Outcomes, second \in Outcomes,
           replies \in [1 .. 3 -> Replies[q]] : v = AskCase(q, case, first, second, replies)
  BY <1>1 DEF Answers
<1> QED BY <1>2, AskCaseRight DEF Worth

LEMMA KeptIsRight == AskInv => AnswersHold
<1> SUFFICES ASSUME AskInv, NEW i \in DOMAIN cache
             PROVE  cache[i].value.answer # {} /\ Right(cache[i].value)
  BY DEF AnswersHold, Right
<1>1. cache[i] \in CacheEntry
  BY LenProperties DEF AskInv
<1>2. cache[i].value \in Worth
  BY <1>1 DEF CacheEntry
<1> QED BY <1>2, WorthIsRight

\* What a lookup and an answer leave in the cache.
LEMMA CacheKeeps ==
  ASSUME AskInv, NEW q \in Questions
  PROVE  /\ Others(q) \in Seq(CacheEntry)
         /\ Fresh(q) => Touched(q) \in Seq(CacheEntry)
         /\ \A v \in Answers[q] : Put(q, v) \in Seq(CacheEntry)
<1>1. cache \in Seq(CacheEntry) /\ clock \in Nat /\ \A i \in DOMAIN cache : cache[i] \in CacheEntry
  BY LenProperties DEF AskInv
<1>2. Others(q) \in Seq(CacheEntry)
  BY <1>1, OnlyItems DEF Others
<1>3. ASSUME Fresh(q) PROVE Touched(q) \in Seq(CacheEntry)
  <2>1. (CHOOSE i \in Entries(q) : TRUE) \in Entries(q)
    BY <1>3 DEF Fresh
  <2>2. cache[CHOOSE i \in Entries(q) : TRUE] \in CacheEntry
    BY <1>1, <2>1 DEF Entries
  <2> QED BY <1>2, <2>2, AppendProperties DEF Touched
<1>4. ASSUME NEW v \in Answers[q] PROVE Put(q, v) \in Seq(CacheEntry)
  <2> DEFINE entry == [key |-> q, at |-> clock, value |-> v]
             new == Append(Others(q), entry)
  <2>1. CASE Put(q, v) = cache
    BY <1>1, <2>1
  <2>2. CASE Put(q, v) # cache
    <3>1. /\ v.answer # {}
          /\ \/ Put(q, v) = new
             \/ Len(new) > CacheSize /\ Put(q, v) = SubSeq(new, Len(new) - CacheSize + 1, Len(new))
      <4>1. v.answer # {} /\ Put(q, v) = IF Len(new) <= CacheSize THEN new
                                         ELSE SubSeq(new, Len(new) - CacheSize + 1, Len(new))
        BY <2>2 DEF Put
      <4>2. new \in Seq(CacheEntry \cup {entry})
        BY <1>2, AppendProperties
      <4>3. Len(new) \in Nat /\ CacheSize \in Nat
        BY <4>2, LenProperties, AskAssumption
      <4> HIDE DEF new
      <4>4. Len(new) <= CacheSize \/ Len(new) > CacheSize
        BY <4>3
      <4> QED BY <4>1, <4>4
    <3>2. entry \in CacheEntry
      <4>1. v \in Worth
        BY <3>1 DEF Worth
      <4> QED BY <1>1, <4>1 DEF CacheEntry
    <3> HIDE DEF entry
    <3>3. new \in Seq(CacheEntry)
      BY <1>2, <3>2, AppendProperties
    <3>4. Len(new) \in Nat /\ CacheSize \in Nat
      BY <3>3, LenProperties, AskAssumption
    <3> HIDE DEF new
    <3>5. ASSUME Len(new) > CacheSize PROVE SubSeq(new, Len(new) - CacheSize + 1, Len(new)) \in Seq(CacheEntry)
      <4>1. Len(new) - CacheSize + 1 \in 1 .. Len(new) + 1
        BY <3>4, <3>5
      <4> QED BY <3>3, <4>1, SubSeqProperties
    <3> QED BY <3>1, <3>3, <3>5
  <2> QED BY <2>1, <2>2
<1> QED BY <1>2, <1>3, <1>4

LEMMA AskInitInv == AskInit => AskInv /\ LimiterInit
<1> SUFFICES ASSUME AskInit PROVE AskInv /\ LimiterInit
  OBVIOUS
<1>1. LimiterInit /\ clock = 0 /\ admitted = {}
  BY DEF AskInit, LimiterInit
<1>2. cache \in Seq(CacheEntry)
  BY DEF AskInit
<1>3. \A r \in Callers : CallerIsNew(r)
  BY <1>1 DEF CallerIsNew
<1> QED BY <1>1, <1>2, <1>3 DEF AskInit, AskInv

\* A response leaves the request without client and question.
LEMMA RespondsKeeps ==
  ASSUME AskInv, NEW r \in Callers, NEW from, Responds(r, from), clock' = clock, admitted' = admitted,
         cache' \in Seq(CacheEntry)
  PROVE  AskInv'
<1>1. /\ pc' = [pc EXCEPT ![r] = "done"] /\ client' = [client EXCEPT ![r] = Everyone]
      /\ asks' = [asks EXCEPT ![r] = NoText] /\ usable' = usable
  BY DEF Responds
<1>2. /\ pc' \in [Callers -> {"new", "cache", "limit", "ask", "done"}]
      /\ client' \in [Callers -> Clients \cup {Everyone}]
      /\ asks' \in [Callers -> Questions \cup {NoText}]
  BY <1>1 DEF AskInv
<1>3. \A c \in Callers : c # r => pc'[c] = pc[c] /\ client'[c] = client[c] /\ asks'[c] = asks[c]
  BY <1>1 DEF AskInv
<1>4. pc'[r] = "done"
  BY <1>1 DEF AskInv
<1> QED BY <1>1, <1>2, <1>3, <1>4 DEF AskInv, CallerIsNew

\* A request goes on; only being let through it may be counted.
LEMMA GoesKeeps ==
  ASSUME AskInv, NEW r \in Callers, NEW from \in {"cache", "limit"}, NEW to \in {"limit", "ask"},
         Goes(r, from, to), clock' = clock, cache' \in Seq(CacheEntry),
         \A a \in admitted' : a \in admitted \/ (to = "ask" /\ a.by = r)
  PROVE  AskInv'
<1>1. /\ pc' = [pc EXCEPT ![r] = to] /\ client' = client /\ asks' = asks /\ usable' = usable /\ pc[r] = from
  BY DEF Goes
<1>2. pc' \in [Callers -> {"new", "cache", "limit", "ask", "done"}]
  BY <1>1 DEF AskInv
<1>3. pc'[r] = to /\ \A c \in Callers : c # r => pc'[c] = pc[c]
  BY <1>1 DEF AskInv
<1>4. \A c \in Callers : pc'[c] \in {"new", "cache", "limit"} => CallerIsNew(c)'
  <2> SUFFICES ASSUME NEW c \in Callers, pc'[c] \in {"new", "cache", "limit"}, NEW a \in admitted', a.by = c
               PROVE  FALSE
    BY DEF CallerIsNew
  <2>1. CallerIsNew(c)
    BY <1>1, <1>3 DEF AskInv
  <2> QED BY <1>3, <2>1 DEF CallerIsNew
<1>5. \A c \in Callers : pc'[c] \in {"cache", "limit", "ask"} => client'[c] \in Clients /\ asks'[c] \in Questions
  BY <1>1, <1>3 DEF AskInv
<1> QED BY <1>1, <1>2, <1>4, <1>5 DEF AskInv

LEMMA AskNextInv == AskInv /\ [AskNext]_askVars => AskInv' /\ [LimiterNext]_limiterVars
<1> SUFFICES ASSUME AskInv, [AskNext]_askVars PROVE AskInv' /\ [LimiterNext]_limiterVars
  OBVIOUS
<1>1. CASE UNCHANGED askVars
  BY <1>1 DEF AskInv, askVars, limiterVars, CallerIsNew
<1>2. CASE Tick /\ UNCHANGED <<pc, client, asks, cache, usable>>
  <2>1. clock' \in Nat /\ admitted' = admitted
    BY <1>2 DEF AskInv, Tick
  <2> QED BY <1>2, <2>1 DEF AskInv, CallerIsNew, LimiterNext
<1>3. ASSUME NEW r \in Callers, NEW cl \in Clients, NEW q \in Questions, Arrive(r, cl, q)
      PROVE  AskInv' /\ [LimiterNext]_limiterVars
  <2>1. /\ pc' = [pc EXCEPT ![r] = "cache"] /\ client' = [client EXCEPT ![r] = cl]
        /\ asks' = [asks EXCEPT ![r] = q] /\ UNCHANGED limiterVars /\ cache' = cache /\ usable' = usable
        /\ pc[r] = "new"
    BY <1>3 DEF Arrive
  <2>2. clock' = clock /\ admitted' = admitted
    BY <2>1 DEF limiterVars
  <2>3. /\ pc' \in [Callers -> {"new", "cache", "limit", "ask", "done"}]
        /\ client' \in [Callers -> Clients \cup {Everyone}]
        /\ asks' \in [Callers -> Questions \cup {NoText}]
    BY <2>1 DEF AskInv
  <2>4. /\ \A c \in Callers : c # r => pc'[c] = pc[c] /\ client'[c] = client[c] /\ asks'[c] = asks[c]
        /\ client'[r] = cl /\ asks'[r] = q
    BY <2>1 DEF AskInv
  <2> QED BY <2>1, <2>2, <2>3, <2>4 DEF AskInv, CallerIsNew
<1>4. ASSUME NEW r \in Callers, NoModel(r) \/ NoCase(r)
      PROVE  AskInv' /\ [LimiterNext]_limiterVars
  <2>1. (Responds(r, "new") \/ Responds(r, "ask")) /\ UNCHANGED limiterVars /\ cache' = cache
    BY <1>4 DEF NoModel, NoCase
  <2>2. clock' = clock /\ admitted' = admitted /\ cache' \in Seq(CacheEntry)
    BY <2>1 DEF limiterVars, AskInv
  <2> QED BY <2>1, <2>2, RespondsKeeps
<1>5. ASSUME NEW r \in Callers, ServeCached(r)
      PROVE  AskInv' /\ [LimiterNext]_limiterVars
  <2>1. Responds(r, "cache") /\ UNCHANGED limiterVars /\ Fresh(asks[r]) /\ cache' = Touched(asks[r])
    BY <1>5 DEF ServeCached
  <2>2. asks[r] \in Questions
    BY <2>1 DEF AskInv, Responds
  <2>3. clock' = clock /\ admitted' = admitted /\ cache' \in Seq(CacheEntry)
    BY <2>1, <2>2, CacheKeeps DEF limiterVars
  <2> QED BY <2>1, <2>3, RespondsKeeps
<1>6. ASSUME NEW r \in Callers, MissCache(r)
      PROVE  AskInv' /\ [LimiterNext]_limiterVars
  <2>1. Goes(r, "cache", "limit") /\ UNCHANGED limiterVars /\ cache' = Others(asks[r])
    BY <1>6 DEF MissCache
  <2>2. asks[r] \in Questions
    BY <2>1 DEF AskInv, Goes
  <2>3. clock' = clock /\ admitted' = admitted /\ cache' \in Seq(CacheEntry)
    BY <2>1, <2>2, CacheKeeps DEF limiterVars
  <2> QED BY <2>1, <2>3, GoesKeeps
<1>7. ASSUME NEW r \in Callers, Limiter(r)
      PROVE  AskInv' /\ [LimiterNext]_limiterVars
  <2>1. cache' = cache /\ cache' \in Seq(CacheEntry)
    BY <1>7 DEF Limiter, AskInv
  <2>2. pc[r] = "limit" /\ client[r] \in Clients /\ CallerIsNew(r)
    BY <1>7 DEF Limiter, AskInv, Goes, Responds
  <2>3. CASE Goes(r, "limit", "limit") /\ ReadClock(r)
    <3>1. clock' = clock /\ admitted' = admitted
      BY <2>3 DEF ReadClock
    <3> QED BY <2>1, <2>2, <2>3, <3>1, GoesKeeps DEF LimiterNext
  <2>4. CASE Goes(r, "limit", "ask") /\ Admit(r, client[r])
    <3>1. clock' = clock /\ admitted' = admitted \cup {[by |-> r, client |-> client[r], at |-> clock]}
      BY <2>4 DEF Admit
    <3>2. \A a \in admitted' : a \in admitted \/ a.by = r
      BY <3>1
    <3> QED BY <2>1, <2>2, <2>4, <3>1, <3>2, GoesKeeps DEF LimiterNext
  <2>5. CASE Responds(r, "limit") /\ Refuse(r, client[r])
    <3>1. clock' = clock /\ admitted' = admitted
      BY <2>5 DEF Refuse
    <3> QED BY <2>1, <2>2, <2>5, <3>1, RespondsKeeps DEF LimiterNext
  <2> QED BY <1>7, <2>3, <2>4, <2>5 DEF Limiter
<1>8. ASSUME NEW r \in Callers, Answer(r)
      PROVE  AskInv' /\ [LimiterNext]_limiterVars
  <2>1. Responds(r, "ask") /\ UNCHANGED limiterVars /\ \E v \in Answers[asks[r]] : cache' = Put(asks[r], v)
    BY <1>8 DEF Answer
  <2>2. asks[r] \in Questions
    BY <2>1 DEF AskInv, Responds
  <2>3. clock' = clock /\ admitted' = admitted /\ cache' \in Seq(CacheEntry)
    BY <2>1, <2>2, CacheKeeps DEF limiterVars
  <2> QED BY <2>1, <2>3, RespondsKeeps
<1> QED BY <1>1, <1>2, <1>3, <1>4, <1>5, <1>6, <1>7, <1>8 DEF AskNext

LEMMA AskInductive == AskSpec => []AskInv /\ LimiterSpec
<1>1. AskInit => AskInv /\ LimiterInit
  BY AskInitInv
<1>2. AskInv /\ [AskNext]_askVars => AskInv' /\ [LimiterNext]_limiterVars
  BY AskNextInv
<1> QED BY <1>1, <1>2, PTL DEF AskSpec, LimiterSpec
-----------------------------------------------------------------------------
(* The theorems about questions *)

\* Whatever the model, the tools and the case service reply, and however the requests share the
\* cache (ask_case and AnswerCache): every answer that is kept for others has a sentence, each of
\* its sentences rests on evidence of that answer which was gathered without an error, the history
\* among the evidence is without its live counts, and neither the tools' budget nor three model
\* calls were exceeded.
THEOREM AnswersRestOnEvidence == AskSpec => []AnswersHold
<1>1. AskInv => AnswersHold
  BY KeptIsRight
<1> QED BY <1>1, AskInductive, PTL

\* The ask endpoint calls the limiter once per question and as it expects to be called, so its
\* bounds hold for questions too: the limits in real time, and that waiting as told is enough.
THEOREM QuestionsAreLimited == AskSpec => [](RateHolds /\ RetryAfterIsEnough)
<1>1. LimiterSpec => []RateHolds
  BY LimitsHoldInRealTime
<1>2. LimiterSpec => []RetryAfterIsEnough
  BY WaitingIsEnough
<1> QED BY <1>1, <1>2, AskInductive, PTL
=============================================================================
