---------------------------- MODULE ExactlyOnce ----------------------------
(***************************************************************************)
(* What the stream engine promises about one partition of transactions.raw *)
(* (docs/DESIGN.md, "Exactly-once and a dedup store"): it consumes the log *)
(* in atomic batches, and what it emits for a batch is one output per new  *)
(* transaction, in the order of the log.  A transaction is remembered for  *)
(* Ttl of event time.                                                      *)
(***************************************************************************)
EXTENDS Naturals, SequencesExt

CONSTANTS
    Ids,     \* transaction ids
    Poison,  \* stands for the id of a record that does not parse or has no txnId
    Ttl,     \* fraudgraph.dedup.ttlHours
    Times    \* bound: timestamps

VARIABLES
    raw,       \* the log: records [id, ts]
    consumed,  \* how much of it is done with
    first,     \* where the engine joined the log
    emitted    \* offsets whose output is visible, in the order of the output topics

vars == <<raw, consumed, first, emitted>>

Record == [id : Ids \cup {Poison}, ts : Times]

Init == raw = <<>> /\ consumed = 0 /\ first = 0 /\ emitted = <<>>

Produce ==
    /\ \E r \in Record : raw' = Append(raw, r)
    /\ UNCHANGED <<consumed, first, emitted>>

\* Time passed the end of a transaction's memory between the first copy and another.
Forgettable(i, j) == \E k \in 1 .. j - 1 : raw[k].ts > raw[i].ts + Ttl

\* out is what a batch up to n emits: in log order, one output for a transaction that is new,
\* another one only for a transaction that was forgotten.
Emits(out, n) ==
    /\ \A k \in 1 .. Len(out) : out[k] \in consumed + 1 .. n /\ raw[out[k]].id # Poison
    /\ \A k, m \in 1 .. Len(out) : k < m => out[k] < out[m]
    /\ \A j \in consumed + 1 .. n :
         raw[j].id # Poison =>
            \E i \in ToSet(emitted) \cup ToSet(out) : i <= j /\ raw[i].id = raw[j].id
    /\ \A j \in ToSet(out) : \A i \in ToSet(emitted) \cup ToSet(out) :
         i < j /\ raw[i].id = raw[j].id => Forgettable(i, j)

Consume(n) ==
    /\ consumed' = n
    /\ \E out \in [1 .. Len(emitted') - Len(emitted) -> consumed + 1 .. n] :
         emitted' = emitted \o out /\ Emits(out, n)
    /\ UNCHANGED <<raw, first>>

\* An engine without a committed offset joins at the end of the log.
Join ==
    /\ consumed = first
    /\ first' = Len(raw)
    /\ consumed' = Len(raw)
    /\ UNCHANGED <<raw, emitted>>

Next ==
    \/ Produce
    \/ \E n \in consumed .. Len(raw) : Consume(n)
    \/ Join

Spec == Init /\ [][Next]_vars
=============================================================================
