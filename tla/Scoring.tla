------------------------------- MODULE Scoring -------------------------------
(***************************************************************************)
(* The last stage of the stream engine: DecisionProcessor asks the ML      *)
(* scorer about a checked transaction, the threshold policy turns signals, *)
(* hard rules and score into a verdict, and the decision goes to           *)
(* fraud.decisions (or, when that throws, to transactions.dlq).            *)
(*                                                                         *)
(* The scorer is called through one circuit breaker that all the stream    *)
(* threads of an instance share (ResilientScoringClient), so what a thread *)
(* learns of the scorer depends on what the others have just seen.  The    *)
(* breaker is Resilience4j's: a count-based ring of the last results, a    *)
(* budget of probes while half open, an automatic move from open to half   *)
(* open.  A call's answer is recorded in the state the breaker is in when  *)
(* it arrives, not in the one that let the call through: nothing ties the  *)
(* call deadline to the waiting time, so late answers are all allowed.     *)
(***************************************************************************)
EXTENDS Integers, Sequences, FiniteSets

CONSTANTS
  Threads,            \* the stream threads (num.stream.threads)
  Transactions,       \* the checked transactions that reach the processor
  NoTxn,              \* a thread that waits for no answer
  Probabilities,      \* the scores the model can give
  BlockAt,            \* thresholds.block
  ReviewAt,           \* thresholds.review
  MinSignals,         \* thresholds.minSignalsForReview
  MinSeverity,        \* thresholds.minSignalSeverity
  AmountCap,          \* rules.amountCapInr
  Window,             \* breaker.window
  MinCalls,           \* breaker.minCalls
  FailureRate,        \* breaker.failureRate, in percent
  HalfOpenCalls       \* breaker.halfOpenCalls

(* A transaction as the checks left it: the severities of its signals,     *)
(* whether the shadow sampler hits its id, whether its merchant is on the  *)
(* sanctions list, and its amount.                                         *)
Transaction == [signals : Seq(Nat), sampled : BOOLEAN, sanctioned : BOOLEAN, amount : Nat]

ASSUME ThreadsAssumption == IsFiniteSet(Threads)
ASSUME TransactionsAssumption == Transactions \subseteq Transaction /\ NoTxn \notin Transactions
ASSUME PolicyAssumption ==
  /\ Probabilities \subseteq Nat
  /\ BlockAt \in Nat /\ ReviewAt \in Nat /\ MinSeverity \in Nat /\ AmountCap \in Nat
  /\ MinSignals \in Nat \ {0}
ASSUME BreakerAssumption ==
  /\ Window \in Nat \ {0} /\ MinCalls \in Nat \ {0} /\ HalfOpenCalls \in Nat \ {0}
  /\ FailureRate \in 1..100

VARIABLES
  enabled,    \* props.scoring().enabled(): without it every scored decision is DEGRADED
  healthy,    \* the scorer answers within the deadline
  breaker,    \* the state of the circuit breaker
  results,    \* its ring, oldest first: TRUE is a failed call
  permits,    \* the probes it still lets through while half open
  serving,    \* per thread, the transaction whose score it waits for
  published   \* what the engine sent last

vars == <<enabled, healthy, breaker, results, permits, serving, published>>

-----------------------------------------------------------------------------
(* The decision: hard rules, then the score, then the signals.             *)

NotScored == [status |-> "NOT_SCORED", probability |-> 0]
Degraded == [status |-> "DEGRADED", probability |-> 0]
Scored(p) == [status |-> "SCORED", probability |-> p]

ScoreResult == [status : {"NOT_SCORED", "SCORED", "DEGRADED"}, probability : Nat]

NoRule == "NONE"

HardRuleAtCap(t) == IF t.sanctioned THEN "HARD_BLOCK_MERCHANT"
                    ELSE IF t.amount >= AmountCap THEN "AMOUNT_CAP"
                    ELSE NoRule

(* The rules in order of priority; both of them block. *)
HardRule(t) == IF t.sanctioned THEN "HARD_BLOCK_MERCHANT"
               ELSE IF t.amount > AmountCap THEN "AMOUNT_CAP"
               ELSE NoRule

Reaches(ml, threshold) == ml.status = "SCORED" /\ ml.probability >= threshold

StrongSignals(t) == Cardinality({i \in DOMAIN t.signals : t.signals[i] >= MinSeverity})

VerdictOnScoreAlone(t, ml) ==
  IF HardRule(t) # NoRule \/ Reaches(ml, BlockAt) THEN "BLOCK"
  ELSE IF Reaches(ml, ReviewAt) \/ StrongSignals(t) >= MinSignals THEN "REVIEW"
  ELSE "ALLOW"

Verdict(t, ml) ==
  IF HardRule(t) # NoRule \/ Reaches(ml, BlockAt) THEN "BLOCK"
  ELSE IF Reaches(ml, ReviewAt) \/ StrongSignals(t) >= MinSignals THEN "REVIEW"
  ELSE IF ml.status = "DEGRADED" /\ t.signals # <<>> THEN "REVIEW"
  ELSE "ALLOW"

Decision(t, ml) ==
  [sink |-> "fraud.decisions", txn |-> t, verdict |-> Verdict(t, ml), rule |-> HardRule(t),
   mode |-> IF ml.status = "DEGRADED" THEN "DEGRADED" ELSE "FULL",
   score |-> ml]

DeadLetter(t) == [sink |-> "transactions.dlq", txn |-> t]

NothingYet == [sink |-> "none"]

(* Anything that throws while the decision is made or sent dead-letters it. *)
Publish(t, ml) == published' \in {Decision(t, ml), DeadLetter(t)}

(* The model is asked about flagged transactions and the shadow sample.    *)
InvokesModel(t) == t.signals # <<>> \/ t.sampled

-----------------------------------------------------------------------------
(* The circuit breaker.                                                    *)

Smaller(a, b) == IF a <= b THEN a ELSE b

RingSize == IF breaker = "HALF_OPEN" THEN HalfOpenCalls ELSE Window

EnoughUncapped == MinCalls

(* The fewest results the breaker judges. *)
Enough == Smaller(MinCalls, RingSize)

Push(failed) == IF Len(results) < RingSize THEN Append(results, failed)
                ELSE Append(Tail(results), failed)

Failures(ring) == Cardinality({i \in DOMAIN ring : ring[i]})

TooManyFail(ring) == 100 * Failures(ring) >= FailureRate * Len(ring)

Judged(failed, ring) == Len(ring) >= Enough

MoveTo(state) == breaker' = state /\ results' = <<>> /\ permits' = 0

(* One result is recorded, and may move the breaker: a successful call can *)
(* open it too, by being the one that makes the results enough to judge.   *)
Record(failed) ==
  LET ring == Push(failed)
      judged == Judged(failed, ring)
  IN \/ /\ breaker = "OPEN"
        /\ UNCHANGED <<breaker, results, permits>>
     \/ /\ breaker # "OPEN" /\ judged /\ TooManyFail(ring)
        /\ MoveTo("OPEN")
     \/ /\ breaker = "HALF_OPEN" /\ judged /\ ~TooManyFail(ring)
        /\ MoveTo("CLOSED")
     \/ /\ breaker # "OPEN"
        /\ judged => breaker = "CLOSED" /\ ~TooManyFail(ring)
        /\ results' = ring
        /\ UNCHANGED <<breaker, permits>>

Permitted == breaker = "CLOSED" \/ (breaker = "HALF_OPEN" /\ permits > 0)

Acquire == permits' = IF breaker = "HALF_OPEN" THEN permits - 1 ELSE permits

-----------------------------------------------------------------------------
Init ==
  /\ enabled \in BOOLEAN
  /\ healthy \in BOOLEAN
  /\ breaker = "CLOSED" /\ results = <<>> /\ permits = 0
  /\ serving = [th \in Threads |-> NoTxn]
  /\ published = NothingYet

Idle(th) == serving[th] = NoTxn

(* A clean transaction outside the sample is decided without the model. *)
DecideUnscored(th, t) ==
  /\ Idle(th) /\ ~InvokesModel(t)
  /\ Publish(t, NotScored)
  /\ UNCHANGED <<enabled, healthy, breaker, results, permits, serving>>

(* The breaker refuses the call, or scoring is switched off. *)
DecideDegraded(th, t) ==
  /\ Idle(th) /\ InvokesModel(t)
  /\ ~enabled \/ ~Permitted
  /\ Publish(t, Degraded)
  /\ UNCHANGED <<enabled, healthy, breaker, results, permits, serving>>

(* The breaker lets the call through; the thread blocks until the answer. *)
CallScorer(th, t) ==
  /\ Idle(th) /\ InvokesModel(t)
  /\ enabled /\ Permitted
  /\ Acquire
  /\ serving' = [serving EXCEPT ![th] = t]
  /\ UNCHANGED <<enabled, healthy, breaker, results, published>>

(* The scorer answers in time. *)
ScorerAnswers(th) ==
  /\ ~Idle(th) /\ healthy
  /\ Record(FALSE)
  /\ \E p \in Probabilities : Publish(serving[th], Scored(p))
  /\ serving' = [serving EXCEPT ![th] = NoTxn]
  /\ UNCHANGED <<enabled, healthy>>

(* It is unreachable, has no model, or misses the deadline. *)
ScorerFails(th) ==
  /\ ~Idle(th) /\ ~healthy
  /\ Record(TRUE)
  /\ Publish(serving[th], Degraded)
  /\ serving' = [serving EXCEPT ![th] = NoTxn]
  /\ UNCHANGED <<enabled, healthy>>

WaitOverWithoutProbes ==
  /\ breaker = "OPEN"
  /\ breaker' = "HALF_OPEN" /\ results' = <<>> /\ permits' = 0
  /\ UNCHANGED <<enabled, healthy, serving, published>>

(* The waiting time of the open breaker passes: a fresh ring, and probes.  *)
WaitOver ==
  /\ breaker = "OPEN"
  /\ breaker' = "HALF_OPEN" /\ results' = <<>> /\ permits' = HalfOpenCalls
  /\ UNCHANGED <<enabled, healthy, serving, published>>

(* The scorer stops, starts, hangs or gets its model: the environment. *)
ScorerChanges ==
  /\ healthy' = ~healthy
  /\ UNCHANGED <<enabled, breaker, results, permits, serving, published>>

Process(th) == \E t \in Transactions :
  DecideUnscored(th, t) \/ DecideDegraded(th, t) \/ CallScorer(th, t)

Answer(th) == ScorerAnswers(th) \/ ScorerFails(th)

Next == \/ \E th \in Threads : Process(th) \/ Answer(th)
        \/ WaitOver
        \/ ScorerChanges

Spec == Init /\ [][Next]_vars

(* A call is answered or misses its deadline, the scheduled move to half   *)
(* open happens, and transactions that need the model keep coming on some  *)
(* thread: without traffic a half-open breaker has nothing to judge by.    *)
Fairness ==
  /\ \A th \in Threads : WF_vars(Answer(th))
  /\ WF_vars(WaitOver)
  /\ WF_vars(\E th \in Threads, t \in Transactions : CallScorer(th, t))

FairSpec == Spec /\ Fairness

-----------------------------------------------------------------------------
(* The type invariant: in particular the ring is never longer than its     *)
(* size, and only a half-open breaker has probes to give.                  *)
Decisions ==
  [sink : {"fraud.decisions"}, txn : Transactions, verdict : {"BLOCK", "REVIEW", "ALLOW"},
   rule : {"HARD_BLOCK_MERCHANT", "AMOUNT_CAP", NoRule},
   mode : {"FULL", "DEGRADED"}, score : ScoreResult]

DeadLetters == [sink : {"transactions.dlq"}, txn : Transactions]

TypeOK ==
  /\ enabled \in BOOLEAN
  /\ healthy \in BOOLEAN
  /\ breaker \in {"CLOSED", "OPEN", "HALF_OPEN"}
  /\ results \in Seq(BOOLEAN) /\ Len(results) <= RingSize
  /\ permits \in 0..HalfOpenCalls
  /\ breaker # "HALF_OPEN" => permits = 0
  /\ serving \in [Threads -> Transactions \cup {NoTxn}]
  /\ published \in Decisions \cup DeadLetters \cup {NothingYet}

(* Decisions made without the model's answer neither wave a flagged        *)
(* transaction through nor block it on its signals alone: unless a hard    *)
(* rule fired, they say REVIEW exactly when there was a signal.            *)
FailSafe ==
  published.sink = "fraud.decisions" /\ published.mode = "DEGRADED" /\ published.rule = NoRule
    => published.verdict = IF published.txn.signals = <<>> THEN "ALLOW" ELSE "REVIEW"

(* A payment is blocked only for a reason that can be shown: a sanctioned  *)
(* merchant, an amount over the cap, or the model's own score.             *)
BlocksWithCause ==
  published.sink = "fraud.decisions" /\ published.verdict = "BLOCK"
    => \/ published.txn.sanctioned
       \/ published.txn.amount > AmountCap
       \/ published.score.status = "SCORED" /\ published.score.probability >= BlockAt

(* A half-open breaker that has no probe left to give still waits for an   *)
(* answer: it cannot be stuck rejecting every call for ever, whatever      *)
(* probes, late answers and failures came in which order.                  *)
HalfOpenCanFinish ==
  breaker = "HALF_OPEN" /\ permits = 0 => \E th \in Threads : ~Idle(th)

(* While the breaker is closed and has results enough to judge, fewer      *)
(* calls than the threshold have failed: a dead scorer cannot hide behind  *)
(* old successes for longer than they stay in the ring.                    *)
ClosedBelowThreshold ==
  breaker = "CLOSED" /\ Len(results) >= Enough => ~TooManyFail(results)

(* Once the scorer answers in time for good, the breaker closes for good,  *)
(* late failures of the outage notwithstanding.                            *)
BreakerRecovers == <>[]healthy => <>[](breaker = "CLOSED")
=============================================================================
