---------------------------- MODULE Quantities ----------------------------
(***************************************************************************)
(* How agent/verify.py compares the numbers of a claim with the numbers of *)
(* the evidence.  Numbers are integers in ten-thousandths, so 0.97 is 9700 *)
(* and 96.5 is 965000: four decimals, and two of a percentage, which can be*)
(* divided by a hundred.  Signs are taken off on both sides by the code, so*)
(* there are none here.  A text is the set of its tokens; a token of       *)
(* another kind than "number" (a timestamp, a transaction id, a citation   *)
(* marker) is what the regular expressions cut out before they look for    *)
(* numbers.                                                                *)
(***************************************************************************)
EXTENDS Integers, FiniteSets, Sequences, Functions

CONSTANT MaxNesting  \* bound: how deep a payload nests

Unit == 10000  \* one

Number(v)    == [kind |-> "number", value |-> v, percent |-> FALSE]
Percent(v)   == [kind |-> "number", value |-> v, percent |-> TRUE]
Unread(kind) == [kind |-> kind, value |-> 0, percent |-> FALSE]

Text(tokens)    == [type |-> "text", tokens |-> tokens]
Value(v)        == [type |-> "value", value |-> v]
Hidden(v)       == [type |-> "hidden", value |-> v]  \* not in history_view: see Ask
Items(s)        == [type |-> "list", items |-> s]
Fields(members) == [type |-> "object", members |-> members]

Quantities(text) == {t \in text.tokens : t.kind = "number"}

Members(node) == IF node.type = "object" THEN node.members ELSE {}

\* What _walk visits from a node, and the numbers it adds there: a number, numbers in a string,
\* the sizes of a list (not of an object).
Visits(node) == IF node.type = "list" THEN Range(node.items) ELSE Members(node)

Adds(node) ==
    CASE node.type \in {"value", "hidden"} -> {node.value}
      [] node.type = "text"   -> {t.value : t \in Quantities(node)}
      [] node.type = "object" -> {}
      [] node.type = "list"   -> {Unit * Len(node.items), Unit * Cardinality(Range(node.items))}

\* flatten_numbers: what _walk has added when it has been everywhere.
NumbersOf(payload) ==
    LET Level[n \in 0 .. MaxNesting] ==
            IF n = 0 THEN {payload} ELSE UNION {Visits(node) : node \in Level[n - 1]}
    IN  UNION {Adds(node) : node \in UNION {Level[n] : n \in 0 .. MaxNesting}}

Exempt(v) == v < 3 * Unit /\ v % Unit = 0

\* The last place that v is written with: the largest that divides it.
DecimalPlaces == {1, 10, 100, 1000, Unit}
LastPlace(v)  == CHOOSE p \in DecimalPlaces : v % p = 0 /\ \A o \in DecimalPlaces : v % o = 0 => o <= p

Distance(a, b) == IF a < b THEN b - a ELSE a - b
Larger(a, b)   == IF a < b THEN b ELSE a

\* Equal, within one per cent, rounded to fewer decimals, or cut to a whole number.
Matches(v, found) ==
    \E c \in found :
        \/ v = c
        \/ 100 * Distance(v, c) <= Larger(v, c)
        \/ 2 * Distance(v, c) <= LastPlace(v)
        \/ v % Unit = 0 /\ v = c - (c % Unit)

\* What a percentage is as a ratio.
Ratio(v) == v \div 100

\* Mutant of Cited: the ratio is compared in the places the percentage is written with.
CitedAsWritten(q, found) ==
    \/ Exempt(q.value)
    \/ Matches(q.value, found)
    \/ q.percent /\ \E c \in found : 2 * Distance(Ratio(q.value), c) <= LastPlace(q.value)

\* A percentage may quote a ratio.
Cited(q, found) ==
    \/ Exempt(q.value)
    \/ Matches(q.value, found)
    \/ q.percent /\ Matches(Ratio(q.value), found)
=============================================================================
