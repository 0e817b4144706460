--------------------------- MODULE Scoring_proofs ---------------------------
(***************************************************************************)
(* Proofs about the scoring stage, for any number of stream threads, any   *)
(* thresholds and any breaker configuration.  The inductive invariant adds *)
(* to the properties an account of the half-open round (Probing): the      *)
(* probes still to give, the results in the ring and the threads waiting   *)
(* for an answer together never fall below the round's size, and the ring  *)
(* holds too few results to have been judged.                              *)
(***************************************************************************)
EXTENDS Scoring, FiniteSetTheorems, TLAPS

Busy == {th \in Threads : ~Idle(th)}

Probing ==
  breaker = "HALF_OPEN"
    => /\ Len(results) < Enough
       /\ permits + Len(results) + Cardinality(Busy) >= HalfOpenCalls

Inv == TypeOK /\ Probing /\ ClosedBelowThreshold /\ FailSafe /\ BlocksWithCause

-----------------------------------------------------------------------------
(* The policy. *)

LEMMA SignalsCount ==
  ASSUME NEW t \in Transactions
  PROVE  /\ StrongSignals(t) \in Nat
         /\ t.signals = <<>> => StrongSignals(t) = 0
<1> DEFINE Strong == {i \in DOMAIN t.signals : t.signals[i] >= MinSeverity}
<1>1. t.signals \in Seq(Nat)
  BY TransactionsAssumption DEF Transaction
<1>2. Len(t.signals) \in Nat /\ DOMAIN t.signals = 1..Len(t.signals)
  BY <1>1
<1>3. IsFiniteSet(DOMAIN t.signals)
  BY <1>2, FS_Interval
<1>4. Cardinality(Strong) \in Nat
  BY <1>3, FS_Subset, FS_CardinalityType
<1>5. t.signals = <<>> => Strong = {}
  OBVIOUS
<1> QED
  BY <1>4, <1>5, FS_EmptySet DEF StrongSignals

LEMMA DecisionType ==
  ASSUME NEW t \in Transactions, NEW ml \in ScoreResult
  PROVE  Decision(t, ml) \in Decisions
<1>1. Verdict(t, ml) \in {"BLOCK", "REVIEW", "ALLOW"}
  BY DEF Verdict
<1>2. HardRule(t) \in {"HARD_BLOCK_MERCHANT", "AMOUNT_CAP", NoRule}
  BY DEF HardRule
<1> QED
  BY <1>1, <1>2 DEF Decision, Decisions

LEMMA ScoreTypes ==
  /\ NotScored \in ScoreResult
  /\ Degraded \in ScoreResult
  /\ \A p \in Probabilities : Scored(p) \in ScoreResult
BY PolicyAssumption DEF NotScored, Degraded, Scored, ScoreResult

(* What the policy says of any transaction and any result of the scorer. *)
LEMMA PolicyIsSafe ==
  ASSUME NEW t \in Transactions, NEW ml \in ScoreResult
  PROVE  /\ HardRule(t) = NoRule /\ ml.status = "DEGRADED"
              => Verdict(t, ml) = IF t.signals = <<>> THEN "ALLOW" ELSE "REVIEW"
         /\ Verdict(t, ml) = "BLOCK"
              => \/ t.sanctioned
                 \/ t.amount > AmountCap
                 \/ ml.status = "SCORED" /\ ml.probability >= BlockAt
<1>1. StrongSignals(t) \in Nat /\ (t.signals = <<>> => StrongSignals(t) = 0)
  BY SignalsCount
<1>2. MinSignals \in Nat \ {0}
  BY PolicyAssumption
<1>3. t.signals = <<>> => ~(StrongSignals(t) >= MinSignals)
  BY <1>1, <1>2
<1>4. ASSUME HardRule(t) = NoRule, ml.status = "DEGRADED"
      PROVE  Verdict(t, ml) = IF t.signals = <<>> THEN "ALLOW" ELSE "REVIEW"
  BY <1>3, <1>4 DEF Verdict, Reaches
<1>5. ASSUME Verdict(t, ml) = "BLOCK"
      PROVE  HardRule(t) # NoRule \/ Reaches(ml, BlockAt)
  BY <1>5 DEF Verdict
<1>6. HardRule(t) # NoRule => t.sanctioned \/ t.amount > AmountCap
  BY DEF HardRule
<1> QED
  BY <1>4, <1>5, <1>6 DEF Reaches

(* Whatever is published satisfies the two properties of decisions. *)
LEMMA PublishedWell ==
  ASSUME NEW t \in Transactions, NEW ml \in ScoreResult, Publish(t, ml)
  PROVE  /\ published' \in Decisions \cup DeadLetters \cup {NothingYet}
         /\ FailSafe'
         /\ BlocksWithCause'
<1>1. CASE published' = DeadLetter(t)
  BY <1>1 DEF DeadLetter, DeadLetters, FailSafe, BlocksWithCause
<1>2. CASE published' = Decision(t, ml)
  <2>1. published' \in Decisions
    BY <1>2, DecisionType
  <2>2. /\ published'.txn = t /\ published'.verdict = Verdict(t, ml)
        /\ published'.rule = HardRule(t) /\ published'.score = ml
        /\ published'.mode = "DEGRADED" <=> ml.status = "DEGRADED"
    BY <1>2 DEF Decision
  <2>3. FailSafe'
    BY <2>2, PolicyIsSafe DEF FailSafe
  <2>4. BlocksWithCause'
    BY <2>2, PolicyIsSafe DEF BlocksWithCause
  <2> QED
    BY <2>1, <2>3, <2>4
<1> QED
  BY <1>1, <1>2 DEF Publish

-----------------------------------------------------------------------------
(* The breaker. *)

LEMMA EnoughFacts ==
  /\ RingSize \in Nat \ {0} /\ Enough \in Nat \ {0} /\ Enough <= RingSize
  /\ breaker = "HALF_OPEN" => RingSize = HalfOpenCalls
BY BreakerAssumption DEF Enough, RingSize, Smaller

LEMMA PushFacts ==
  ASSUME TypeOK, NEW failed \in BOOLEAN
  PROVE  /\ Push(failed) \in Seq(BOOLEAN) /\ Len(Push(failed)) <= RingSize
         /\ Len(results) < RingSize => Len(Push(failed)) = Len(results) + 1
<1>1. results \in Seq(BOOLEAN) /\ Len(results) \in Nat /\ Len(results) <= RingSize
  BY DEF TypeOK
<1>2. RingSize \in Nat \ {0}
  BY EnoughFacts
<1>3. CASE Len(results) < RingSize
  BY <1>1, <1>2, <1>3 DEF Push
<1>4. CASE ~(Len(results) < RingSize)
  <2>1. Len(results) = RingSize /\ results # <<>>
    BY <1>1, <1>2, <1>4
  <2>2. Tail(results) \in Seq(BOOLEAN) /\ Len(Tail(results)) = Len(results) - 1
    BY <1>1, <2>1
  <2>3. Push(failed) = Append(Tail(results), failed)
    BY <1>4 DEF Push
  <2> QED
    BY <1>1, <1>2, <1>4, <2>1, <2>2, <2>3
<1> QED
  BY <1>3, <1>4

(* One recorded result: a half-open round that goes on has one more result *)
(* and still too few; a closed breaker that stays closed is not failing.   *)
LEMMA RecordFacts ==
  ASSUME TypeOK, Probing, ClosedBelowThreshold, NEW failed \in BOOLEAN, Record(failed)
  PROVE  /\ breaker' \in {"CLOSED", "OPEN", "HALF_OPEN"}
         /\ results' \in Seq(BOOLEAN) /\ Len(results') <= RingSize'
         /\ permits' \in 0..HalfOpenCalls
         /\ breaker' # "HALF_OPEN" => permits' = 0
         /\ ClosedBelowThreshold'
         /\ breaker' = "HALF_OPEN"
              => /\ breaker = "HALF_OPEN" /\ permits' = permits
                 /\ Len(results') = Len(results) + 1 /\ Len(results') < Enough'
<1> DEFINE ring == Push(failed)
           judged == Len(ring) >= Enough
<1>1. /\ ring \in Seq(BOOLEAN) /\ Len(ring) <= RingSize /\ Len(ring) \in Nat
      /\ Len(results) < RingSize => Len(ring) = Len(results) + 1
  BY PushFacts
<1>2. RingSize \in Nat \ {0} /\ Enough \in Nat \ {0} /\ Enough <= RingSize
  BY EnoughFacts
<1>3. /\ breaker \in {"CLOSED", "OPEN", "HALF_OPEN"} /\ permits \in 0..HalfOpenCalls
      /\ results \in Seq(BOOLEAN) /\ Len(results) \in Nat /\ Len(results) <= RingSize
      /\ breaker # "HALF_OPEN" => permits = 0
  BY DEF TypeOK
<1>4. RingSize' \in Nat \ {0} /\ Enough' \in Nat \ {0} /\ HalfOpenCalls \in Nat \ {0}
  BY BreakerAssumption DEF Enough, RingSize, Smaller
<1>5. breaker' = breaker => RingSize' = RingSize /\ Enough' = Enough
  BY DEF Enough, RingSize
<1>6. CASE breaker = "OPEN" /\ UNCHANGED <<breaker, results, permits>>
  BY <1>3, <1>5, <1>6 DEF ClosedBelowThreshold
<1>7. CASE breaker' \in {"OPEN", "CLOSED"} /\ results' = <<>> /\ permits' = 0
  <2>1. Len(results') = 0 /\ results' \in Seq(BOOLEAN)
    BY <1>7
  <2>2. ClosedBelowThreshold'
    BY <1>4, <2>1 DEF ClosedBelowThreshold
  <2> QED
    BY <1>4, <1>7, <2>1, <2>2
<1>8. CASE /\ breaker # "OPEN"
           /\ judged => breaker = "CLOSED" /\ ~TooManyFail(ring)
           /\ results' = ring
           /\ UNCHANGED <<breaker, permits>>
  <2>1. ClosedBelowThreshold'
    BY <1>5, <1>8 DEF ClosedBelowThreshold, TooManyFail, Failures
  <2>2. ASSUME breaker' = "HALF_OPEN"
        PROVE  Len(results') = Len(results) + 1 /\ Len(results') < Enough'
    <3>1. Len(results) < Enough
      BY <1>8, <2>2 DEF Probing
    <3>2. ~judged
      BY <1>8, <2>2
    <3> QED
      BY <1>1, <1>2, <1>3, <1>5, <1>8, <3>1, <3>2
  <2> QED
    BY <1>1, <1>3, <1>5, <1>8, <2>1, <2>2
<1> QED
  BY <1>6, <1>7, <1>8 DEF Record, MoveTo, Judged

(* The threads that wait for an answer: one more, one fewer. *)
LEMMA BusyFacts ==
  ASSUME TypeOK
  PROVE  IsFiniteSet(Busy) /\ Cardinality(Busy) \in Nat
BY ThreadsAssumption, FS_Subset, FS_CardinalityType DEF Busy

LEMMA OneMoreBusy ==
  ASSUME TypeOK, NEW th \in Threads, NEW t \in Transactions, Idle(th),
         serving' = [serving EXCEPT ![th] = t]
  PROVE  Cardinality(Busy') = Cardinality(Busy) + 1
<1>1. serving \in [Threads -> Transactions \cup {NoTxn}]
  BY DEF TypeOK
<1>2. t # NoTxn
  BY TransactionsAssumption
<1>3. Busy' = Busy \cup {th} /\ th \notin Busy
  BY <1>1, <1>2 DEF Busy, Idle
<1> QED
  BY <1>3, BusyFacts, FS_AddElement

LEMMA OneFewerBusy ==
  ASSUME TypeOK, NEW th \in Threads, ~Idle(th),
         serving' = [serving EXCEPT ![th] = NoTxn]
  PROVE  Cardinality(Busy') = Cardinality(Busy) - 1
<1>1. serving \in [Threads -> Transactions \cup {NoTxn}]
  BY DEF TypeOK
<1>2. Busy' = Busy \ {th} /\ th \in Busy
  BY <1>1 DEF Busy, Idle
<1> QED
  BY <1>2, BusyFacts, FS_RemoveElement

-----------------------------------------------------------------------------
(* The inductive invariant. *)

LEMMA InitInv == Init => Inv
<1> SUFFICES ASSUME Init PROVE Inv
  OBVIOUS
<1>1. TypeOK
  BY BreakerAssumption DEF Init, TypeOK, RingSize
<1>2. Probing
  BY DEF Init, Probing
<1>3. ClosedBelowThreshold
  BY EnoughFacts DEF Init, ClosedBelowThreshold
<1>4. FailSafe /\ BlocksWithCause
  BY DEF Init, NothingYet, FailSafe, BlocksWithCause
<1> QED
  BY <1>1, <1>2, <1>3, <1>4 DEF Inv

(* A step that leaves the breaker and the calls alone. *)
LEMMA BreakerUntouched ==
  ASSUME Inv, UNCHANGED <<enabled, breaker, results, permits, serving>>,
         healthy' \in BOOLEAN,
         published' \in Decisions \cup DeadLetters \cup {NothingYet},
         FailSafe', BlocksWithCause'
  PROVE  Inv'
<1>1. RingSize' = RingSize /\ Enough' = Enough /\ Busy' = Busy
  BY DEF RingSize, Enough, Busy, Idle
<1>2. TypeOK'
  BY <1>1 DEF Inv, TypeOK
<1>3. Probing'
  BY <1>1 DEF Inv, Probing
<1>4. ClosedBelowThreshold'
  BY <1>1 DEF Inv, ClosedBelowThreshold, TooManyFail, Failures
<1> QED
  BY <1>2, <1>3, <1>4 DEF Inv

LEMMA DecideKeepsInv ==
  ASSUME Inv, NEW th \in Threads, NEW t \in Transactions,
         DecideUnscored(th, t) \/ DecideDegraded(th, t)
  PROVE  Inv'
<1>1. /\ UNCHANGED <<enabled, healthy, breaker, results, permits, serving>>
      /\ Publish(t, NotScored) \/ Publish(t, Degraded)
  BY DEF DecideUnscored, DecideDegraded
<1>2. /\ published' \in Decisions \cup DeadLetters \cup {NothingYet}
      /\ FailSafe' /\ BlocksWithCause'
  BY <1>1, ScoreTypes, PublishedWell
<1>3. healthy' \in BOOLEAN
  BY <1>1 DEF Inv, TypeOK
<1> QED
  BY <1>1, <1>2, <1>3, BreakerUntouched

LEMMA CallKeepsInv ==
  ASSUME Inv, NEW th \in Threads, NEW t \in Transactions, CallScorer(th, t)
  PROVE  Inv'
<1>1. /\ Idle(th) /\ Permitted /\ Acquire
      /\ serving' = [serving EXCEPT ![th] = t]
      /\ UNCHANGED <<enabled, healthy, breaker, results, published>>
  BY DEF CallScorer
<1>2. RingSize' = RingSize /\ Enough' = Enough
  BY <1>1 DEF RingSize, Enough
<1>3. Cardinality(Busy') = Cardinality(Busy) + 1 /\ Cardinality(Busy) \in Nat
  BY <1>1, OneMoreBusy, BusyFacts DEF Inv
<1>4. permits \in 0..HalfOpenCalls /\ HalfOpenCalls \in Nat /\ Len(results) \in Nat
  BY BreakerAssumption DEF Inv, TypeOK
<1>5. /\ breaker = "HALF_OPEN" => permits > 0 /\ permits' = permits - 1
      /\ breaker # "HALF_OPEN" => permits' = permits
  BY <1>1 DEF Permitted, Acquire
<1>6. TypeOK'
  <2>1. permits' \in 0..HalfOpenCalls /\ (breaker' # "HALF_OPEN" => permits' = 0)
    BY <1>1, <1>4, <1>5 DEF Inv, TypeOK
  <2>2. serving' \in [Threads -> Transactions \cup {NoTxn}]
    BY <1>1 DEF Inv, TypeOK
  <2> QED
    BY <1>1, <1>2, <2>1, <2>2 DEF Inv, TypeOK
<1>7. Probing'
  BY <1>1, <1>2, <1>3, <1>4, <1>5 DEF Inv, Probing
<1>8. ClosedBelowThreshold'
  BY <1>1, <1>2 DEF Inv, ClosedBelowThreshold, TooManyFail, Failures
<1>9. FailSafe' /\ BlocksWithCause'
  BY <1>1 DEF Inv, FailSafe, BlocksWithCause
<1> QED
  BY <1>6, <1>7, <1>8, <1>9 DEF Inv

LEMMA AnswerKeepsInv ==
  ASSUME Inv, NEW th \in Threads, Answer(th)
  PROVE  Inv'
<1>1. /\ ~Idle(th) /\ serving[th] \in Transactions
      /\ serving' = [serving EXCEPT ![th] = NoTxn]
      /\ UNCHANGED <<enabled, healthy>>
  BY DEF Answer, ScorerAnswers, ScorerFails, Idle, Inv, TypeOK
<1>2. PICK failed \in BOOLEAN, ml \in ScoreResult : Record(failed) /\ Publish(serving[th], ml)
  BY ScoreTypes DEF Answer, ScorerAnswers, ScorerFails
<1>3. /\ published' \in Decisions \cup DeadLetters \cup {NothingYet}
      /\ FailSafe' /\ BlocksWithCause'
  BY <1>1, <1>2, PublishedWell
<1>4. /\ breaker' \in {"CLOSED", "OPEN", "HALF_OPEN"}
      /\ results' \in Seq(BOOLEAN) /\ Len(results') <= RingSize'
      /\ permits' \in 0..HalfOpenCalls
      /\ breaker' # "HALF_OPEN" => permits' = 0
      /\ ClosedBelowThreshold'
      /\ breaker' = "HALF_OPEN"
           => /\ breaker = "HALF_OPEN" /\ permits' = permits
              /\ Len(results') = Len(results) + 1 /\ Len(results') < Enough'
  BY <1>2, RecordFacts DEF Inv
<1>5. TypeOK'
  <2>1. serving' \in [Threads -> Transactions \cup {NoTxn}]
    BY <1>1 DEF Inv, TypeOK
  <2>2. enabled' \in BOOLEAN /\ healthy' \in BOOLEAN
    BY <1>1 DEF Inv, TypeOK
  <2> QED
    BY <1>3, <1>4, <2>1, <2>2 DEF TypeOK
<1>6. Probing'
  <2>1. Cardinality(Busy') = Cardinality(Busy) - 1 /\ Cardinality(Busy) \in Nat
    BY <1>1, OneFewerBusy, BusyFacts DEF Inv
  <2>2. Len(results) \in Nat /\ permits \in Nat /\ HalfOpenCalls \in Nat
    BY BreakerAssumption DEF Inv, TypeOK
  <2> QED
    BY <1>4, <2>1, <2>2 DEF Inv, Probing
<1> QED
  BY <1>3, <1>4, <1>5, <1>6 DEF Inv

LEMMA WaitOverKeepsInv ==
  ASSUME Inv, WaitOver
  PROVE  Inv'
<1>1. /\ breaker' = "HALF_OPEN" /\ results' = <<>> /\ permits' = HalfOpenCalls
      /\ UNCHANGED <<enabled, healthy, serving, published>>
  BY DEF WaitOver
<1>2. /\ RingSize' \in Nat \ {0} /\ Enough' \in Nat \ {0} /\ HalfOpenCalls \in Nat \ {0}
      /\ Len(results') = 0
  BY <1>1, BreakerAssumption DEF RingSize, Enough, Smaller
<1>3. TypeOK'
  BY <1>1, <1>2 DEF Inv, TypeOK
<1>4. Probing'
  <2>1. Cardinality(Busy') \in Nat
    BY <1>1, BusyFacts DEF Inv, Busy, Idle
  <2> QED
    BY <1>1, <1>2, <2>1 DEF Probing
<1>5. ClosedBelowThreshold' /\ FailSafe' /\ BlocksWithCause'
  BY <1>1 DEF Inv, ClosedBelowThreshold, FailSafe, BlocksWithCause
<1> QED
  BY <1>3, <1>4, <1>5 DEF Inv

LEMMA NextInv == Inv /\ [Next]_vars => Inv'
<1> SUFFICES ASSUME Inv, [Next]_vars PROVE Inv'
  OBVIOUS
<1>1. CASE \E th \in Threads : Process(th)
  BY <1>1, DecideKeepsInv, CallKeepsInv DEF Process
<1>2. CASE \E th \in Threads : Answer(th)
  BY <1>2, AnswerKeepsInv
<1>3. CASE WaitOver
  BY <1>3, WaitOverKeepsInv
<1>4. CASE ScorerChanges \/ UNCHANGED vars
  <2>1. UNCHANGED <<enabled, breaker, results, permits, serving, published>>
    BY <1>4 DEF ScorerChanges, vars
  <2>2. healthy' \in BOOLEAN
    BY <1>4 DEF ScorerChanges, vars, Inv, TypeOK
  <2>3. /\ published' \in Decisions \cup DeadLetters \cup {NothingYet}
        /\ FailSafe' /\ BlocksWithCause'
    BY <2>1 DEF Inv, TypeOK, FailSafe, BlocksWithCause
  <2> QED
    BY <2>1, <2>2, <2>3, BreakerUntouched
<1> QED
  BY <1>1, <1>2, <1>3, <1>4 DEF Next

LEMMA Invariance == Spec => []Inv
BY InitInv, NextInv, PTL DEF Spec

-----------------------------------------------------------------------------
(* Type correctness: the ring never outgrows its size and probes are given *)
(* only while the breaker is half open.                                    *)
THEOREM ScoringTypes == Spec => []TypeOK
<1>1. Inv => TypeOK
  BY DEF Inv
<1> QED
  BY <1>1, Invariance, PTL

(* Decisions without the model's answer review what was flagged, and only  *)
(* that, for every policy with a positive number of corroborating signals. *)
THEOREM DegradedDecisionsFailSafe == Spec => []FailSafe
<1>1. Inv => FailSafe
  BY DEF Inv
<1> QED
  BY <1>1, Invariance, PTL

(* Nothing is blocked without a hard rule or the model's own score.        *)
THEOREM EveryBlockHasACause == Spec => []BlocksWithCause
<1>1. Inv => BlocksWithCause
  BY DEF Inv
<1> QED
  BY <1>1, Invariance, PTL

(* A half-open breaker with no probe left always has an answer under way,  *)
(* for any number of threads, ring size and number of probes.              *)
THEOREM HalfOpenNeverWedges == Spec => []HalfOpenCanFinish
<1>1. ASSUME Inv, breaker = "HALF_OPEN", permits = 0
      PROVE  \E th \in Threads : ~Idle(th)
  <2>1. Len(results) < Enough /\ Enough <= HalfOpenCalls
    BY <1>1, EnoughFacts DEF Inv, Probing
  <2>2. /\ Len(results) + Cardinality(Busy) >= HalfOpenCalls
        /\ Len(results) \in Nat /\ Cardinality(Busy) \in Nat
        /\ HalfOpenCalls \in Nat /\ Enough \in Nat
    BY <1>1, BusyFacts, EnoughFacts, BreakerAssumption DEF Inv, TypeOK, Probing
  <2>3. Cardinality(Busy) # 0
    BY <2>1, <2>2
  <2>4. Busy # {}
    BY <2>3, FS_EmptySet
  <2> QED
    BY <2>4 DEF Busy
<1>2. Inv => HalfOpenCanFinish
  BY <1>1 DEF HalfOpenCanFinish
<1> QED
  BY <1>2, Invariance, PTL

(* A closed breaker with enough results has seen fewer failures than the   *)
(* threshold, whatever mixture of late and current answers filled its ring. *)
THEOREM ClosedIsHealthy == Spec => []ClosedBelowThreshold
<1>1. Inv => ClosedBelowThreshold
  BY DEF Inv
<1> QED
  BY <1>1, Invariance, PTL
=============================================================================
