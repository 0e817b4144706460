------------------------------ MODULE Training ------------------------------
(***************************************************************************)
(* The functions of training/train.py and training/evaluate.py between the *)
(* topics and the registry: the join of decisions and labels, the split by *)
(* time, the checks on the frame and the choice of thresholds.  A decision *)
(* is [txn, ts, complete, p]: its event time, whether it carries every     *)
(* feature the build knows, and the probability, in per cent, the fitted   *)
(* model gives it.  Ratios are compared as cross products, except where the*)
(* code rounds them to four decimals first.                                *)
(***************************************************************************)
EXTENDS Integers, FiniteSets, SequencesExt

CONSTANTS
    TestPercent,       \* --test-fraction
    MinPositives,      \* MIN_POSITIVES
    MinTestPositives,  \* MIN_TEST_POSITIVES
    MinTestSpan,       \* MIN_TEST_WINDOW_MINUTES
    Thresholds,        \* DEFAULT_THRESHOLDS, in per cent
    NoThreshold

ASSUME TrainingAssumption ==
    /\ TestPercent \in 1 .. 99
    /\ MinPositives \in Nat /\ MinTestPositives \in Nat /\ MinTestSpan \in Nat
    /\ Thresholds \subseteq 1 .. 99 /\ Thresholds # {} /\ NoThreshold \notin Int

\* A row of a frame.
Rows == [ts : Int, y : BOOLEAN, p : Int]

\* usable: decisions logged before a feature existed are left out.
Usable(decisions) == {i \in DOMAIN decisions : decisions[i].complete}

\* The numbers of a set, the smallest first.
Ascending(numbers) ==
    [k \in 1 .. Cardinality(numbers) |->
        CHOOSE i \in numbers : Cardinality({j \in numbers : j < i}) = k - 1]

\* Mutant of ByTime: the rows stay as they were read, partition after partition.
AsRead(rows, kept) == Ascending(kept)

Before(rows, i, j) == rows[i].ts < rows[j].ts \/ (rows[i].ts = rows[j].ts /\ i < j)

\* sort_values(kind="stable"): the places of the rows that are kept, in the order of their times.
ByTime(rows, kept) ==
    [k \in 1 .. Cardinality(kept) |->
        CHOOSE i \in kept : Cardinality({j \in kept : Before(rows, j, i)}) = k - 1]

\* A decision whose transaction has no label is legitimate.
Frame(decisions, labelled) ==
    LET order == ByTime(decisions, Usable(decisions))
    IN  [k \in DOMAIN order |-> LET d == decisions[order[k]]
                                IN  [ts |-> d.ts, y |-> d.txn \in labelled, p |-> d.p]]

Cut(frame)       == (Len(frame) * (100 - TestPercent)) \div 100
TrainRows(frame) == SubSeq(frame, 1, Cut(frame))
TestRows(frame)  == SubSeq(frame, Cut(frame) + 1, Len(frame))

Positives(rows) == Cardinality({i \in DOMAIN rows : rows[i].y})

\* check_trainable
Trainable(frame) ==
    LET test == TestRows(frame)
    IN  /\ Positives(frame) >= MinPositives
        /\ Positives(test) >= MinTestPositives
        /\ test # <<>> /\ Last(test).ts - Head(test).ts >= MinTestSpan

\* fit refuses a frame without both.
BothClasses(rows) == Positives(rows) \in 1 .. Len(rows) - 1

FlaggedAt(rows, t) == Cardinality({i \in DOMAIN rows : rows[i].p >= t})
CaughtAt(rows, t)  == Cardinality({i \in DOMAIN rows : rows[i].p >= t /\ rows[i].y})

\* round(a / b, 4), in ten thousandths
Rounded(a, b) == IF b = 0 THEN 0 ELSE (20000 * a + b) \div (2 * b)

Sweep(rows) ==
    {[threshold |-> t, tp |-> CaughtAt(rows, t),
      precision |-> Rounded(CaughtAt(rows, t), FlaggedAt(rows, t)),
      f1        |-> Rounded(2 * CaughtAt(rows, t), FlaggedAt(rows, t) + Positives(rows))] : t \in Thresholds}

\* block: the lowest threshold that is precise enough; review: the one with the best F1, the
\* lower of two as good, kept below block.
SuggestThresholds(table) ==
    LET precise == {r \in table : r.precision >= 9800 /\ r.tp > 0}
        lowest(rows) == CHOOSE r \in rows : \A s \in rows : r.threshold <= s.threshold
        best   == lowest({r \in table : \A s \in table : s.f1 <= r.f1})
        block  == lowest(precise).threshold
        review == IF best.threshold < block THEN best.threshold
                  ELSE IF block > 5 THEN block - 5 ELSE block
    IN  IF precise = {} THEN [block |-> NoThreshold, review |-> best.threshold]
        ELSE [block |-> block, review |-> review]
=============================================================================
