------------------------ MODULE StreamEngine_proofs ------------------------
(***************************************************************************)
(* Proofs about the stream engine: whatever the log holds and whenever the *)
(* thread or the JVM dies, the stores, the graph and the signals agree with*)
(* the outputs, and what is visible is what ExactlyOnce promises.          *)
(*                                                                         *)
(* The invariant looks at the outputs as a set of offsets, those committed *)
(* and those of the open transaction, with the transaction between check   *)
(* and sink on top.                                                        *)
(***************************************************************************)
EXTENDS StreamEngine, SequenceTheorems, FiniteSetTheorems, FunctionTheorems, WellFoundedInduction, TLAPS

Output == [offset : Nat, sink : Sinks, count : Nat, impossible : BOOLEAN]

StoreType == [dedup : SUBSET Nat, profile : SUBSET Nat, last : Nat, time : Nat]

EngineTypes ==
    /\ raw \in Seq(Record)
    /\ committed \in Nat /\ position \in Nat /\ first \in Nat /\ forgot \in Nat
    /\ hasOffset \in BOOLEAN
    /\ visible \in Seq(Output) /\ open \in Seq(Output)
    /\ store \in StoreType /\ changelog \in StoreType
    /\ edges \in SUBSET Nat
    /\ stage \in {"idle", "checked"}
    /\ features \in [count : Nat, impossible : BOOLEAN]

Offs(out) == {out[k].offset : k \in 1 .. Len(out)}
Decided   == Offs(visible) \cup Offs(open)
Pending   == IF stage = "checked" THEN {position + 1} ELSE {}
Known     == Decided \cup Pending

\* The records the task has looked at.
Reach == IF stage = "checked" THEN position + 1 ELSE position

\* Offsets only go up, in the log of outputs too.
Ordered ==
    /\ committed <= position /\ Reach <= Len(raw)
    /\ \A k \in 1 .. Len(visible) : visible[k].offset >= 1 /\ visible[k].offset <= committed
    /\ \A k \in 1 .. Len(open) : open[k].offset > committed /\ open[k].offset <= position
    /\ \A k, m \in 1 .. Len(visible) : k < m => visible[k].offset < visible[m].offset
    /\ \A k, m \in 1 .. Len(open) : k < m => open[k].offset < open[m].offset
    /\ ~hasOffset => committed = first /\ visible = <<>>

Parsed == \A o \in Known : raw[o].id # Poison

\* The newest of some transactions of a log, 0 of none.
IsNewest(log, n, offsets) ==
    \/ offsets = {} /\ n = 0
    \/ /\ n \in offsets
       /\ \A i \in offsets : log[i].ts < log[n].ts \/ (log[i].ts = log[n].ts /\ i <= n)

\* A store, as a function of the transactions it was fed and the records read.
Snapshot(log, st, offsets, n) ==
    /\ st.dedup \subseteq offsets
    /\ \A o \in offsets : o \in st.dedup \/ log[o].ts + Ttl < st.time
    /\ st.profile = offsets
    /\ IsNewest(log, st.last, offsets)
    /\ st.time = 0 \/ \E k \in 1 .. n : log[k].ts = st.time

\* Every record has had its output, or a copy of it before.
Covered ==
    \A j \in committed + 1 .. position : raw[j].id # Poison =>
        \E i \in Decided : i <= j /\ raw[i].id = raw[j].id

\* A second output only for what time has made forget.
Late(log, i, j) == \E k \in 1 .. j - 1 : log[k].ts > log[i].ts + Ttl
Forgotten == \A i, j \in Known : i < j /\ raw[i].id = raw[j].id => Late(raw, i, j)

InGraph == \A o \in Known : o > forgot => o \in edges

\* What is known between two instants.
Between(log, offsets, from, to) == {i \in offsets : log[i].ts \in from .. to}

\* Travel from the newest place known.
Travels(log, newest, o) ==
    /\ newest # 0 /\ Place[log[newest].id] # Place[log[o].id]
    /\ log[o].ts - log[newest].ts \in MinGap .. TravelTime - 1

\* The bounds of a count at the instant ts.
FullWindow(log, offsets, ts) == Cardinality(Between(log, offsets, ts - Window + BucketSize, ts))
WideWindow(log, offsets, ts) == Cardinality(Between(log, offsets, ts - Window + 1, ts + BucketSize - 1))

\* The signals of the transaction o, given those before it and the newest of them.
Right(log, before, o, newest, count, impossible) ==
    /\ impossible <=> Travels(log, newest, o)
    /\ newest = 0 \/ log[newest].ts - log[o].ts <= Grace =>
         /\ FullWindow(log, before \cup {o}, log[o].ts) <= count
         /\ count <= WideWindow(log, before \cup {o}, log[o].ts)

Before(offsets, o) == {i \in offsets : i < o}

Judged(log, offsets, o, count, impossible) ==
    \E n \in Nat : /\ IsNewest(log, n, Before(offsets, o))
                   /\ Right(log, Before(offsets, o), o, n, count, impossible)

OutputsJudged(log, offsets, out) ==
    \A k \in 1 .. Len(out) : Judged(log, offsets, out[k].offset, out[k].count, out[k].impossible)

AllJudged ==
    /\ OutputsJudged(raw, Decided, visible)
    /\ OutputsJudged(raw, Decided, open)
    /\ stage = "checked" => Judged(raw, Decided, position + 1, features.count, features.impossible)

EInv ==
    /\ EngineTypes /\ Ordered /\ Parsed
    /\ Snapshot(raw, changelog, Offs(visible), committed)
    /\ Snapshot(raw, store, Known, Reach)
    /\ Covered /\ Forgotten /\ InGraph
    /\ AllJudged

-----------------------------------------------------------------------------
(* Offsets and the log *)

LEMMA NatMin ==
  ASSUME NEW T \in SUBSET Nat, T # {}
  PROVE  \E x \in T : \A y \in T : x <= y
<1>1. PICK x \in T : \A y \in T : ~(<<y, x>> \in OpToRel(<, Nat))
  BY NatLessThanWellFounded, WFMin
<1>2. \A y \in T : ~(y < x)
  BY <1>1 DEF OpToRel
<1> QED BY <1>2

LEMMA OutputTypes ==
  ASSUME NEW out \in Seq(Output)
  PROVE  /\ Len(out) \in Nat
         /\ \A k \in 1 .. Len(out) : out[k].offset \in Nat /\ out[k].count \in Nat /\ out[k].impossible \in BOOLEAN
         /\ Offs(out) \in SUBSET Nat
         /\ Offs(<<>>) = {}
<1>1. Len(out) \in Nat /\ \A k \in 1 .. Len(out) : out[k] \in Output
  BY LenProperties
<1>2. \A k \in 1 .. Len(out) : out[k].offset \in Nat /\ out[k].count \in Nat /\ out[k].impossible \in BOOLEAN
  BY <1>1 DEF Output
<1>3. Offs(out) \in SUBSET Nat
  BY <1>2 DEF Offs
<1>4. Offs(<<>>) = {}
  BY DEF Offs
<1> QED BY <1>1, <1>2, <1>3, <1>4

LEMMA OffsOfAppend ==
  ASSUME NEW out \in Seq(Output), NEW e \in Output
  PROVE  /\ Append(out, e) \in Seq(Output)
         /\ Len(Append(out, e)) = Len(out) + 1
         /\ \A k \in 1 .. Len(out) : Append(out, e)[k] = out[k]
         /\ Append(out, e)[Len(out) + 1] = e
         /\ Offs(Append(out, e)) = Offs(out) \cup {e.offset}
<1>1. /\ Append(out, e) \in Seq(Output) /\ Len(out) \in Nat
      /\ Len(Append(out, e)) = Len(out) + 1
      /\ \A k \in 1 .. Len(out) : Append(out, e)[k] = out[k]
      /\ Append(out, e)[Len(out) + 1] = e
  BY AppendProperties, LenProperties
<1> DEFINE all == Append(out, e)
<1> HIDE DEF all
<1>2. \A o \in Offs(all) : o \in Offs(out) \cup {e.offset}
  <2>1. SUFFICES ASSUME NEW k \in 1 .. Len(all)
                 PROVE  all[k].offset \in Offs(out) \cup {e.offset}
    BY DEF Offs
  <2>2. k \in 1 .. Len(out) \/ k = Len(out) + 1
    BY <1>1 DEF all
  <2> QED BY <2>2, <1>1 DEF Offs, all
<1>3. \A o \in Offs(out) : o \in Offs(all)
  <2>1. SUFFICES ASSUME NEW k \in 1 .. Len(out)
                 PROVE  out[k].offset \in Offs(all)
    BY DEF Offs
  <2>2. k \in 1 .. Len(all) /\ all[k] = out[k]
    BY <1>1 DEF all
  <2> QED BY <2>2 DEF Offs
<1>4. e.offset \in Offs(all)
  <2>1. Len(out) + 1 \in 1 .. Len(all) /\ all[Len(out) + 1] = e
    BY <1>1 DEF all
  <2> QED BY <2>1 DEF Offs
<1>5. Offs(all) = Offs(out) \cup {e.offset}
  BY <1>2, <1>3, <1>4
<1> QED BY <1>1, <1>5 DEF all

LEMMA OffsOfConcat ==
  ASSUME NEW a \in Seq(Output), NEW b \in Seq(Output)
  PROVE  /\ a \o b \in Seq(Output)
         /\ Len(a \o b) = Len(a) + Len(b)
         /\ \A k \in 1 .. Len(a) : (a \o b)[k] = a[k]
         /\ \A k \in Len(a) + 1 .. Len(a) + Len(b) : (a \o b)[k] = b[k - Len(a)]
         /\ Offs(a \o b) = Offs(a) \cup Offs(b)
<1> DEFINE all == a \o b
<1>1. /\ all \in Seq(Output) /\ Len(a) \in Nat /\ Len(b) \in Nat
      /\ Len(all) = Len(a) + Len(b)
      /\ \A k \in 1 .. Len(all) : all[k] = IF k <= Len(a) THEN a[k] ELSE b[k - Len(a)]
  BY ConcatProperties, LenProperties
<1> HIDE DEF all
<1>2. \A k \in 1 .. Len(a) : k \in 1 .. Len(all) /\ all[k] = a[k]
  BY <1>1
<1>3. \A k \in Len(a) + 1 .. Len(a) + Len(b) : k - Len(a) \in 1 .. Len(b) /\ all[k] = b[k - Len(a)]
  BY <1>1
<1>4. \A o \in Offs(all) : o \in Offs(a) \cup Offs(b)
  <2>1. SUFFICES ASSUME NEW k \in 1 .. Len(all)
                 PROVE  all[k].offset \in Offs(a) \cup Offs(b)
    BY DEF Offs
  <2>2. k \in 1 .. Len(a) \/ k \in Len(a) + 1 .. Len(a) + Len(b)
    BY <1>1
  <2> QED BY <2>2, <1>2, <1>3 DEF Offs
<1>5. Offs(a) \subseteq Offs(all)
  BY <1>2 DEF Offs
<1>6. ASSUME NEW k \in 1 .. Len(b)
      PROVE  b[k].offset \in Offs(all)
  <2>1. k + Len(a) \in Len(a) + 1 .. Len(a) + Len(b) /\ (k + Len(a)) - Len(a) = k
    BY <1>1
  <2>2. k + Len(a) \in 1 .. Len(all)
    BY <2>1, <1>1
  <2>3. all[k + Len(a)] = b[(k + Len(a)) - Len(a)]
    BY <2>1, <1>3
  <2> QED BY <2>1, <2>2, <2>3 DEF Offs
<1>7. Offs(b) \subseteq Offs(all)
  BY <1>6 DEF Offs
<1>8. Offs(all) = Offs(a) \cup Offs(b)
  BY <1>4, <1>5, <1>7
<1> QED BY <1>1, <1>2, <1>3, <1>8 DEF all

\* A later log begins with an earlier one.
Extends(log, longer) ==
    /\ Len(log) <= Len(longer)
    /\ \A o \in 1 .. Len(log) : longer[o] = log[o]

LEMMA RecordTypes ==
  ASSUME NEW log \in Seq(Record)
  PROVE  /\ Len(log) \in Nat
         /\ \A o \in 1 .. Len(log) : log[o] \in Record /\ log[o].ts \in Nat
         /\ Extends(log, log)
<1>1. Len(log) \in Nat /\ \A o \in 1 .. Len(log) : log[o] \in Record
  BY LenProperties
<1>2. \A o \in 1 .. Len(log) : log[o].ts \in Nat
  BY <1>1, EngineAssumption DEF Record
<1> QED BY <1>1, <1>2 DEF Extends

\* Where the known offsets lie.
LEMMA KnownBounds ==
  ASSUME EngineTypes, Ordered
  PROVE  /\ Len(raw) \in Nat /\ Reach \in Nat
         /\ position <= Reach /\ Reach <= position + 1
         /\ Offs(visible) \subseteq 1 .. committed
         /\ Offs(open) \subseteq committed + 1 .. position
         /\ Decided \subseteq 1 .. position
         /\ Known \subseteq 1 .. Reach
         /\ Known \subseteq 1 .. Len(raw)
<1>1. /\ raw \in Seq(Record) /\ visible \in Seq(Output) /\ open \in Seq(Output)
      /\ committed \in Nat /\ position \in Nat
  BY DEF EngineTypes
<1>2. Len(raw) \in Nat /\ Reach \in Nat /\ position <= Reach /\ Reach <= position + 1
  BY <1>1, RecordTypes DEF Reach
<1>3. /\ \A k \in 1 .. Len(visible) : visible[k].offset \in Nat
      /\ \A k \in 1 .. Len(open) : open[k].offset \in Nat
  BY <1>1, OutputTypes
<1>4. Offs(visible) \subseteq 1 .. committed
  BY <1>1, <1>3 DEF Offs, Ordered
<1>5. Offs(open) \subseteq committed + 1 .. position
  BY <1>1, <1>3 DEF Offs, Ordered
<1>6. committed <= position /\ Reach <= Len(raw)
  BY DEF Ordered
<1>7. Decided \subseteq 1 .. position
  BY <1>1, <1>4, <1>5, <1>6 DEF Decided
<1>8. Known \subseteq 1 .. Reach
  BY <1>1, <1>2, <1>7 DEF Known, Pending, Reach
<1>9. Known \subseteq 1 .. Len(raw)
  BY <1>8, <1>6, <1>2
<1> QED BY <1>2, <1>4, <1>5, <1>7, <1>8, <1>9

\* A snapshot stays one as the log grows and more of it is read.
LEMMA SnapshotLater ==
  ASSUME NEW log \in Seq(Record), NEW longer \in Seq(Record), Extends(log, longer),
         NEW st \in StoreType, NEW offsets \in SUBSET (1 .. Len(log)),
         NEW n \in Nat, NEW m \in Nat, n <= m, n <= Len(log),
         Snapshot(log, st, offsets, n)
  PROVE  Snapshot(longer, st, offsets, m)
<1>1. Len(log) \in Nat /\ \A o \in 1 .. Len(log) : longer[o] = log[o]
  BY RecordTypes DEF Extends
<1>2. \A o \in offsets : longer[o] = log[o]
  BY <1>1
<1>3. \A o \in offsets : o \in st.dedup \/ longer[o].ts + Ttl < st.time
  BY <1>2 DEF Snapshot
<1>4. IsNewest(longer, st.last, offsets)
  <2>1. IsNewest(log, st.last, offsets)
    BY DEF Snapshot
  <2> QED BY <1>2, <2>1 DEF IsNewest
<1>5. st.time = 0 \/ \E k \in 1 .. m : longer[k].ts = st.time
  <2>1. SUFFICES ASSUME NEW k \in 1 .. n, log[k].ts = st.time
                 PROVE  \E j \in 1 .. m : longer[j].ts = st.time
    BY DEF Snapshot
  <2>2. k \in 1 .. m /\ k \in 1 .. Len(log)
    BY <1>1
  <2> QED BY <1>1, <2>1, <2>2
<1> QED BY <1>3, <1>4, <1>5 DEF Snapshot

\* A judgement looks at nothing after the transaction it is about.
LEMMA JudgedStays ==
  ASSUME NEW log \in Seq(Record), NEW longer \in Seq(Record), Extends(log, longer),
         NEW offsets, NEW more, NEW o \in 1 .. Len(log), NEW count, NEW impossible,
         Before(more, o) = Before(offsets, o), Before(offsets, o) \subseteq 1 .. Len(log),
         Judged(log, offsets, o, count, impossible)
  PROVE  Judged(longer, more, o, count, impossible)
<1> DEFINE B == Before(offsets, o)
<1>1. Len(log) \in Nat /\ \A i \in 1 .. Len(log) : longer[i] = log[i]
  BY RecordTypes DEF Extends
<1>2. PICK n \in Nat : IsNewest(log, n, B) /\ Right(log, B, o, n, count, impossible)
  BY DEF Judged
<1>3. (\A i \in B \cup {o} : longer[i] = log[i]) /\ longer[o] = log[o]
  BY <1>1
<1>4. n # 0 => n \in B
  BY <1>2 DEF IsNewest
<1> HIDE DEF B
<1>5. IsNewest(longer, n, B)
  BY <1>2, <1>3 DEF IsNewest
<1>6. \A f, t : Between(longer, B \cup {o}, f, t) = Between(log, B \cup {o}, f, t)
  BY <1>3 DEF Between
<1>7. /\ FullWindow(longer, B \cup {o}, log[o].ts) = FullWindow(log, B \cup {o}, log[o].ts)
      /\ WideWindow(longer, B \cup {o}, log[o].ts) = WideWindow(log, B \cup {o}, log[o].ts)
  BY <1>6 DEF FullWindow, WideWindow
<1>8. n # 0 => longer[n] = log[n]
  BY <1>3, <1>4
<1>9. Travels(longer, n, o) <=> Travels(log, n, o)
  BY <1>3, <1>8 DEF Travels
<1>10. Right(longer, B, o, n, count, impossible)
  BY <1>2, <1>3, <1>7, <1>8, <1>9 DEF Right
<1> QED BY <1>5, <1>10 DEF Judged, B

LEMMA OutputsJudgedStay ==
  ASSUME NEW log \in Seq(Record), NEW longer \in Seq(Record), Extends(log, longer),
         NEW offsets, NEW more, NEW out \in Seq(Output), Offs(out) \subseteq 1 .. Len(log),
         \A o \in Offs(out) : Before(more, o) = Before(offsets, o) /\ Before(offsets, o) \subseteq 1 .. Len(log),
         OutputsJudged(log, offsets, out)
  PROVE  OutputsJudged(longer, more, out)
<1>1. SUFFICES ASSUME NEW k \in 1 .. Len(out)
               PROVE  Judged(longer, more, out[k].offset, out[k].count, out[k].impossible)
  BY DEF OutputsJudged
<1>2. Judged(log, offsets, out[k].offset, out[k].count, out[k].impossible)
  BY DEF OutputsJudged
<1>3. out[k].offset \in Offs(out)
  BY DEF Offs
<1> QED BY <1>2, <1>3, JudgedStays

\* LastLocation: the new transaction is the newest unless it is late.
LEMMA NewestOfMore ==
  ASSUME NEW log \in Seq(Record), NEW o \in 1 .. Len(log), NEW offsets \in SUBSET (1 .. o - 1), NEW n,
         IsNewest(log, n, offsets)
  PROVE  IsNewest(log, IF n = 0 \/ log[o].ts >= log[n].ts THEN o ELSE n, offsets \cup {o})
<1>1. Len(log) \in Nat /\ log[o].ts \in Nat /\ \A i \in offsets : log[i].ts \in Nat /\ i < o /\ i # 0 /\ i \in Nat
  BY RecordTypes
<1>2. CASE n = 0
  <2>1. offsets = {}
    BY <1>1, <1>2 DEF IsNewest
  <2> QED BY <1>1, <1>2, <2>1 DEF IsNewest
<1>3. CASE n # 0 /\ log[o].ts >= log[n].ts
  <2>1. n \in offsets /\ \A i \in offsets : log[i].ts < log[n].ts \/ (log[i].ts = log[n].ts /\ i <= n)
    BY <1>3 DEF IsNewest
  <2>2. \A i \in offsets : log[i].ts < log[o].ts \/ (log[i].ts = log[o].ts /\ i <= o)
    BY <1>1, <1>3, <2>1
  <2> QED BY <1>1, <1>3, <2>2 DEF IsNewest
<1>4. CASE n # 0 /\ ~(log[o].ts >= log[n].ts)
  <2>1. n \in offsets /\ \A i \in offsets : log[i].ts < log[n].ts \/ (log[i].ts = log[n].ts /\ i <= n)
    BY <1>4 DEF IsNewest
  <2>2. log[o].ts < log[n].ts
    BY <1>1, <1>4, <2>1
  <2> QED BY <1>4, <2>1, <2>2 DEF IsNewest
<1> QED BY <1>2, <1>3, <1>4

-----------------------------------------------------------------------------
(* The velocity window *)

\* A bucket begins no later than what is in it, and less than its size before.
LEMMA BucketBounds ==
  ASSUME NEW t \in Nat
  PROVE  Bucket(t) \in Int /\ Bucket(t) <= t /\ t <= Bucket(t) + BucketSize - 1
<1>1. BucketSize \in Nat /\ BucketSize > 0
  BY EngineAssumption
<1>2. t % BucketSize \in 0 .. BucketSize - 1
  BY <1>1
<1> QED BY <1>1, <1>2 DEF Bucket

LEMMA BoundedMax ==
  ASSUME NEW S \in SUBSET Int, S # {}, NEW bound \in Int, \A x \in S : x <= bound
  PROVE  Max(S) \in S /\ Max(S) <= bound
<1> DEFINE T == {bound - x : x \in S}
<1>1. T \in SUBSET Nat /\ T # {}
  <2>1. \A x \in S : bound - x \in Nat
    OBVIOUS
  <2> QED BY <2>1
<1>2. PICK t \in T : \A u \in T : t <= u
  BY <1>1, NatMin
<1>3. PICK m \in S : t = bound - m
  BY <1>2
<1>4. \A x \in S : m >= x
  <2>1. SUFFICES ASSUME NEW x \in S PROVE m >= x
    OBVIOUS
  <2>2. bound - x \in T
    OBVIOUS
  <2>3. t <= bound - x /\ x \in Int /\ m \in Int
    BY <1>2, <2>2
  <2> QED BY <1>3, <2>3
<1>5. Max(S) \in S
  BY <1>3, <1>4 DEF Max
<1> QED BY <1>5

LEMMA CountIsNat ==
  ASSUME NEW n \in Nat, NEW S \in SUBSET (1 .. n)
  PROVE  IsFiniteSet(S) /\ Cardinality(S) \in Nat
<1>1. IsFiniteSet(1 .. n)
  BY FS_Interval
<1>2. IsFiniteSet(S)
  BY <1>1, FS_Subset
<1> QED BY <1>2, FS_CardinalityType

\* What VelocityWindows counts at the instant of the current transaction.
LEMMA WindowBounds ==
  ASSUME raw \in Seq(Record), NEW o \in 1 .. Len(raw), NEW known \in SUBSET (1 .. o - 1), NEW n \in Nat,
         IsNewest(raw, n, known)
  PROVE  LET ts == raw[o].ts
             count == WindowCount(known \cup {o}, ts)
         IN  /\ count \in Nat
             /\ count <= WideWindow(raw, known \cup {o}, ts)
             /\ n = 0 \/ raw[n].ts - ts <= Grace => FullWindow(raw, known \cup {o}, ts) <= count
<1> DEFINE all     == known \cup {o}
           ts      == raw[o].ts
           buckets == {Bucket(raw[i].ts) : i \in all}
           newest  == Max(buckets)
           counted == {i \in all : LET b == Bucket(raw[i].ts)
                                   IN  b \in ts - Window + 1 .. ts /\ b > newest - Retention}
           full    == Between(raw, all, ts - Window + BucketSize, ts)
           wide    == Between(raw, all, ts - Window + 1, ts + BucketSize - 1)
<1>1. /\ Len(raw) \in Nat /\ o \in Nat /\ ts \in Nat
      /\ all \in SUBSET (1 .. o) /\ all # {}
      /\ \A i \in all : raw[i].ts \in Nat
  <2>1. Len(raw) \in Nat /\ \A i \in 1 .. Len(raw) : raw[i].ts \in Nat
    BY RecordTypes
  <2> QED BY <2>1
<1>2. BucketSize \in Nat /\ BucketSize > 0 /\ Window \in Nat /\ Grace \in Nat
  BY EngineAssumption
<1>3. WindowCount(all, ts) = Cardinality(counted)
  BY DEF WindowCount
<1>4. counted \in SUBSET all /\ full \in SUBSET all /\ wide \in SUBSET all
  BY DEF Between
<1>5. /\ \A i \in all : /\ Bucket(raw[i].ts) \in Int /\ Bucket(raw[i].ts) <= raw[i].ts
                        /\ raw[i].ts <= Bucket(raw[i].ts) + BucketSize - 1
  BY <1>1, BucketBounds
<1>6. counted \subseteq wide
  <2>1. SUFFICES ASSUME NEW i \in counted PROVE raw[i].ts \in ts - Window + 1 .. ts + BucketSize - 1
    BY <1>4 DEF Between
  <2>2. i \in all /\ Bucket(raw[i].ts) \in ts - Window + 1 .. ts
    OBVIOUS
  <2>3. /\ Bucket(raw[i].ts) \in Int /\ Bucket(raw[i].ts) <= raw[i].ts
        /\ raw[i].ts <= Bucket(raw[i].ts) + BucketSize - 1 /\ raw[i].ts \in Nat
    BY <1>1, <1>5, <2>2
  <2> HIDE DEF ts, counted, all
  <2> QED BY <1>1, <1>2, <2>2, <2>3
<1>7. ASSUME n = 0 \/ raw[n].ts - ts <= Grace
      PROVE  full \subseteq counted
  <2>1. \A i \in all : raw[i].ts <= ts + Grace
    <3>1. CASE n = 0
      <4>1. known = {}
        BY <1>1, <3>1 DEF IsNewest
      <4>2. all = {o}
        BY <4>1
      <4> HIDE DEF all
      <4> QED BY <1>1, <1>2, <4>2
    <3>2. CASE n # 0
      <4>1. n \in known /\ \A i \in known : raw[i].ts <= raw[n].ts
        BY <1>1, <3>2 DEF IsNewest
      <4>2. raw[n].ts \in Nat
        BY <1>1, <4>1
      <4>3. ASSUME NEW i \in all PROVE raw[i].ts <= ts + Grace
        <5>1. CASE i = o
          BY <1>1, <1>2, <5>1
        <5>2. CASE i \in known
          <6>1. raw[i].ts \in Nat /\ raw[i].ts <= raw[n].ts
            BY <1>1, <4>1, <5>2
          <6> HIDE DEF ts
          <6> QED BY <1>1, <1>2, <1>7, <3>2, <4>2, <6>1
        <5> QED BY <5>1, <5>2
      <4> QED BY <4>3
    <3> QED BY <3>1, <3>2
  <2>2. newest \in Int /\ newest <= ts + Grace
    <3>1. buckets \in SUBSET Int /\ buckets # {}
      BY <1>1, <1>5
    <3>2. ASSUME NEW b \in buckets PROVE b <= ts + Grace
      <4>1. PICK i \in all : b = Bucket(raw[i].ts)
        OBVIOUS
      <4>2. b \in Int /\ b <= raw[i].ts /\ raw[i].ts <= ts + Grace /\ raw[i].ts \in Nat
        BY <1>1, <1>5, <2>1, <4>1
      <4> HIDE DEF ts, buckets, all
      <4> QED BY <1>1, <1>2, <4>2
    <3>3. ts + Grace \in Int
      BY <1>1, <1>2
    <3> HIDE DEF buckets, ts
    <3> QED BY <3>1, <3>2, <3>3, BoundedMax
  <2> HIDE DEF newest
  <2>3. ASSUME NEW i \in full PROVE i \in counted
    <3>1. i \in all /\ raw[i].ts \in ts - Window + BucketSize .. ts
      BY DEF Between
    <3>2. /\ Bucket(raw[i].ts) \in Int /\ Bucket(raw[i].ts) <= raw[i].ts
          /\ raw[i].ts <= Bucket(raw[i].ts) + BucketSize - 1 /\ raw[i].ts \in Nat
      BY <1>1, <1>5, <3>1
    <3>3. Bucket(raw[i].ts) \in ts - Window + 1 .. ts /\ Bucket(raw[i].ts) > newest - Retention
      <4> HIDE DEF ts, all
      <4> QED BY <1>1, <1>2, <2>2, <3>1, <3>2 DEF Retention
    <3> QED BY <3>1, <3>3
  <2> QED BY <2>3
<1> HIDE DEF counted, full, wide
<1>8. IsFiniteSet(counted) /\ Cardinality(counted) \in Nat /\ IsFiniteSet(wide)
  BY <1>1, <1>4, CountIsNat
<1>9. Cardinality(counted) <= Cardinality(wide)
  BY <1>6, <1>8, FS_Subset
<1>10. n = 0 \/ raw[n].ts - ts <= Grace => Cardinality(full) <= Cardinality(counted)
  BY <1>7, <1>8, FS_Subset
<1> QED BY <1>3, <1>8, <1>9, <1>10 DEF FullWindow, WideWindow, full, wide

-----------------------------------------------------------------------------
(* The steps *)

LEMMA InitEInv == Init => EInv
<1> SUFFICES ASSUME Init PROVE EInv
  OBVIOUS
<1>1. /\ raw = <<>> /\ first = 0 /\ committed = 0 /\ hasOffset = FALSE /\ visible = <<>>
      /\ changelog = [dedup |-> {}, profile |-> {}, last |-> 0, time |-> 0] /\ store = changelog
      /\ position = 0 /\ stage = "idle" /\ features = [count |-> 0, impossible |-> FALSE]
      /\ open = <<>> /\ edges = {} /\ forgot = 0
  BY DEF Init, NoFeatures
<1>2. Len(raw) = 0 /\ Len(visible) = 0 /\ Len(open) = 0
  BY <1>1
<1>3. Offs(visible) = {} /\ Offs(open) = {}
  BY <1>2 DEF Offs
<1>4. Known = {} /\ Decided = {} /\ Reach = 0
  BY <1>1, <1>3 DEF Known, Decided, Pending, Reach
<1>5. changelog \in StoreType /\ store \in StoreType
  BY <1>1 DEF StoreType
<1>6. EngineTypes
  <2>1. <<>> \in Seq(Record) /\ <<>> \in Seq(Output) /\ <<>> \in Seq(Nat)
    OBVIOUS
  <2>2. features \in [count : Nat, impossible : BOOLEAN]
    BY <1>1
  <2> QED BY <1>1, <1>5, <2>1, <2>2 DEF EngineTypes
<1>7. Ordered
  BY <1>1, <1>2, <1>4 DEF Ordered
<1>8. Snapshot(raw, changelog, {}, 0) /\ Snapshot(raw, store, {}, 0)
  BY <1>1 DEF Snapshot, IsNewest
<1>9. Covered
  BY <1>1 DEF Covered
<1>10. Forgotten /\ InGraph /\ Parsed
  BY <1>4 DEF Forgotten, InGraph, Parsed
<1>11. AllJudged
  BY <1>1, <1>2 DEF AllJudged, OutputsJudged
<1> QED BY <1>1, <1>3, <1>4, <1>6, <1>7, <1>8, <1>9, <1>10, <1>11 DEF EInv

LEMMA ProduceStep ==
  ASSUME EInv, Produce
  PROVE  EInv'
<1>1. PICK r \in Record : raw' = Append(raw, r)
  BY DEF Produce
<1>2. /\ first' = first /\ committed' = committed /\ hasOffset' = hasOffset /\ changelog' = changelog
      /\ visible' = visible /\ position' = position /\ store' = store /\ stage' = stage
      /\ features' = features /\ open' = open /\ edges' = edges /\ forgot' = forgot
  BY DEF Produce, kafkaVars, taskVars, heapVars
<1>3. raw \in Seq(Record) /\ EngineTypes /\ Ordered
  BY DEF EInv, EngineTypes
<1>4. raw' \in Seq(Record) /\ Len(raw') = Len(raw) + 1 /\ Extends(raw, raw') /\ Len(raw) \in Nat
  <2>1. r \in Record
    BY <1>1
  <2>2. /\ Append(raw, r) \in Seq(Record) /\ Len(Append(raw, r)) = Len(raw) + 1 /\ Len(raw) \in Nat
        /\ \A i \in 1 .. Len(raw) : Append(raw, r)[i] = raw[i]
    BY <1>3, <2>1, AppendProperties, LenProperties
  <2> QED BY <1>1, <2>2 DEF Extends
<1>5. Decided' = Decided /\ Known' = Known /\ Reach' = Reach
  BY <1>2 DEF Decided, Known, Pending, Reach
<1>6. /\ committed \in Nat /\ position \in Nat /\ Reach \in Nat
      /\ committed <= position /\ position <= Reach /\ Reach <= Len(raw)
      /\ Known \subseteq 1 .. Len(raw) /\ Decided \subseteq 1 .. position
      /\ Offs(visible) \subseteq 1 .. committed
  BY <1>3, KnownBounds DEF Ordered, EngineTypes
<1>7. \A o \in 1 .. Len(raw) : raw'[o] = raw[o]
  BY <1>4 DEF Extends
<1>8. EngineTypes'
  BY <1>2, <1>3, <1>4 DEF EngineTypes
<1>9. Ordered'
  BY <1>2, <1>3, <1>4, <1>5, <1>6 DEF Ordered
<1>10. Parsed'
  BY <1>5, <1>6, <1>7 DEF EInv, Parsed
<1>11. Snapshot(raw', changelog, Offs(visible), committed)
  <2>1. Snapshot(raw, changelog, Offs(visible), committed) /\ changelog \in StoreType
    BY DEF EInv, EngineTypes
  <2>2. Offs(visible) \in SUBSET (1 .. Len(raw)) /\ committed <= Len(raw) /\ committed <= committed
    BY <1>4, <1>6
  <2> QED BY <1>3, <1>4, <1>6, <2>1, <2>2, SnapshotLater
<1>12. Snapshot(raw', store, Known, Reach)
  <2>1. Snapshot(raw, store, Known, Reach) /\ store \in StoreType
    BY DEF EInv, EngineTypes
  <2>2. Known \in SUBSET (1 .. Len(raw)) /\ Reach <= Len(raw) /\ Reach <= Reach
    BY <1>6
  <2> QED BY <1>3, <1>4, <1>6, <2>1, <2>2, SnapshotLater
<1>13. Covered'
  <2>1. ASSUME NEW j \in committed + 1 .. position, raw'[j].id # Poison
        PROVE  \E i \in Decided : i <= j /\ raw'[i].id = raw'[j].id
    <3>1. j \in 1 .. Len(raw) /\ Decided \subseteq 1 .. Len(raw)
      BY <1>4, <1>6
    <3>2. PICK i \in Decided : i <= j /\ raw[i].id = raw[j].id
      BY <1>7, <2>1, <3>1 DEF EInv, Covered
    <3> QED BY <1>7, <3>1, <3>2
  <2> QED BY <1>2, <1>5, <2>1 DEF Covered
<1>14. Forgotten'
  <2>1. ASSUME NEW i \in Known, NEW j \in Known, i < j, raw'[i].id = raw'[j].id
        PROVE  Late(raw', i, j)
    <3>1. i \in 1 .. Len(raw) /\ j \in 1 .. Len(raw)
      BY <1>6
    <3>2. PICK k \in 1 .. j - 1 : raw[k].ts > raw[i].ts + Ttl
      BY <1>7, <2>1, <3>1 DEF EInv, Forgotten, Late
    <3>3. k \in 1 .. Len(raw)
      BY <1>4, <3>1
    <3> QED BY <1>7, <3>1, <3>2, <3>3 DEF Late
  <2> QED BY <1>5, <2>1 DEF Forgotten
<1>15. InGraph'
  BY <1>2, <1>5 DEF EInv, InGraph
<1>16. AllJudged'
  <2>1. visible \in Seq(Output) /\ open \in Seq(Output)
    BY <1>3 DEF EngineTypes
  <2>2. OutputsJudged(raw, Decided, visible) /\ OutputsJudged(raw, Decided, open)
    BY DEF EInv, AllJudged
  <2>3. Decided \subseteq 1 .. Len(raw) /\ Offs(visible) \subseteq 1 .. Len(raw) /\ Offs(open) \subseteq 1 .. Len(raw)
    BY <1>4, <1>6 DEF Decided
  <2>4. \A o : Before(Decided, o) \subseteq 1 .. Len(raw)
    BY <2>3 DEF Before
  <2>5. OutputsJudged(raw', Decided, visible) /\ OutputsJudged(raw', Decided, open)
    BY <1>3, <1>4, <2>1, <2>2, <2>3, <2>4, OutputsJudgedStay
  <2>6. ASSUME stage = "checked"
        PROVE  Judged(raw', Decided, position + 1, features.count, features.impossible)
    <3>1. Judged(raw, Decided, position + 1, features.count, features.impossible)
      BY <2>6 DEF EInv, AllJudged
    <3>2. position + 1 \in 1 .. Len(raw)
      BY <1>4, <1>6, <2>6 DEF Reach
    <3> QED BY <1>3, <1>4, <2>4, <3>1, <3>2, JudgedStays
  <2> QED BY <1>2, <1>5, <2>5, <2>6 DEF AllJudged
<1> QED BY <1>2, <1>5, <1>8, <1>9, <1>10, <1>11, <1>12, <1>13, <1>14, <1>15, <1>16 DEF EInv

\* What a record leaves that goes no further than DedupProcessor.
LEMMA SkipStep ==
  ASSUME EInv, Takes, position' = position + 1,
         \E time \in {store.time, Advanced} : store' = [store EXCEPT !.time = time],
         Current.id # Poison => \E i \in Decided : i <= position + 1 /\ raw[i].id = Current.id,
         UNCHANGED <<logVars, kafkaVars, nextEvict, stage, features, open, heapVars>>
  PROVE  EInv'
<1>1. /\ raw' = raw /\ first' = first /\ committed' = committed /\ hasOffset' = hasOffset
      /\ changelog' = changelog /\ visible' = visible /\ stage' = stage
      /\ features' = features /\ open' = open /\ edges' = edges /\ forgot' = forgot
  BY DEF logVars, kafkaVars, heapVars
<1>2. stage = "idle" /\ position < Len(raw) /\ EngineTypes /\ Ordered
  BY DEF EInv, Takes
<1>3. /\ Decided' = Decided /\ Known' = Known /\ Reach = position /\ Reach' = position + 1
      /\ Known = Decided
  BY <1>1, <1>2 DEF Decided, Known, Pending, Reach
<1>4. /\ committed \in Nat /\ position \in Nat /\ Len(raw) \in Nat /\ committed <= position
      /\ Known \subseteq 1 .. position
  <2>1. Known \subseteq 1 .. Reach /\ Len(raw) \in Nat
    BY <1>2, KnownBounds
  <2> QED BY <1>2, <1>3, <2>1 DEF Ordered, EngineTypes
<1>5. PICK time \in {store.time, Advanced} : store' = [store EXCEPT !.time = time]
  OBVIOUS
<1>6. /\ raw[position + 1].ts \in Nat /\ store.time \in Nat /\ time \in Nat /\ store.time <= time
      /\ time = store.time \/ time = raw[position + 1].ts
  <2>1. raw[position + 1].ts \in Nat
    <3>1. raw \in Seq(Record) /\ position + 1 \in 1 .. Len(raw)
      BY <1>2, <1>4 DEF EngineTypes
    <3> QED BY <3>1, RecordTypes
  <2>2. store.time \in Nat
    BY <1>2 DEF EngineTypes, StoreType
  <2>3. time \in {store.time, Advanced}
    BY <1>5
  <2> QED BY <2>1, <2>2, <2>3 DEF Advanced, Later, Current
<1>7. /\ store' \in StoreType
      /\ store'.dedup = store.dedup /\ store'.profile = store.profile /\ store'.last = store.last
      /\ store'.time = time
  BY <1>2, <1>5, <1>6 DEF EngineTypes, StoreType
<1>8. EngineTypes'
  BY <1>1, <1>2, <1>4, <1>7 DEF EngineTypes
<1>9. Ordered'
  <2>1. \A k \in 1 .. Len(open) : open[k].offset \in Nat /\ open[k].offset <= position
    BY <1>2, OutputTypes DEF Ordered, EngineTypes
  <2> QED BY <1>1, <1>2, <1>3, <1>4, <2>1 DEF Ordered
<1>10. Snapshot(raw, store', Known, position + 1)
  <2>1. Snapshot(raw, store, Known, position)
    BY <1>3 DEF EInv
  <2>2. \A o \in Known : raw[o].ts \in Nat
    <3>1. raw \in Seq(Record) /\ Known \subseteq 1 .. Len(raw)
      BY <1>2, KnownBounds DEF EngineTypes
    <3> QED BY <3>1, RecordTypes
  <2>3. \A o \in Known : o \in store.dedup \/ raw[o].ts + Ttl < time
    BY <1>6, <2>1, <2>2, EngineAssumption DEF Snapshot
  <2>4. time = 0 \/ \E k \in 1 .. position + 1 : raw[k].ts = time
    BY <1>4, <1>6, <2>1 DEF Snapshot
  <2> QED BY <1>7, <2>1, <2>3, <2>4 DEF Snapshot
<1>11. Covered'
  BY <1>1, <1>3, <1>4 DEF EInv, Covered, Current
<1>12. Parsed' /\ Forgotten' /\ InGraph'
  BY <1>1, <1>3 DEF EInv, Parsed, Forgotten, InGraph
<1>13. AllJudged'
  BY <1>1, <1>2, <1>3 DEF EInv, AllJudged
<1> QED BY <1>1, <1>3, <1>8, <1>9, <1>10, <1>11, <1>12, <1>13 DEF EInv

LEMMA SkipPoisonStep ==
  ASSUME EInv, SkipPoison
  PROVE  EInv'
<1>1. Takes /\ Current.id = Poison /\ position' = position + 1
  BY DEF SkipPoison
<1>2. \E time \in {store.time, Advanced} : store' = [store EXCEPT !.time = time]
  BY DEF SkipPoison
<1>3. UNCHANGED <<logVars, kafkaVars, nextEvict, stage, features, open, heapVars>>
  BY DEF SkipPoison
<1> QED BY <1>1, <1>2, <1>3, SkipStep

LEMMA DropDuplicateStep ==
  ASSUME EInv, DropDuplicate
  PROVE  EInv'
<1>1. Takes /\ position' = position + 1
  BY DEF DropDuplicate
<1>2. \E time \in {store.time, Advanced} : store' = [store EXCEPT !.time = time]
  BY DEF DropDuplicate
<1>3. UNCHANGED <<logVars, kafkaVars, nextEvict, stage, features, open, heapVars>>
  BY DEF DropDuplicate
<1>4. PICK o \in store.dedup : raw[o].id = Current.id
  BY DEF DropDuplicate, Seen
<1>5. o \in Known /\ Known = Decided
  BY <1>1, <1>4 DEF EInv, Snapshot, Takes, Known, Pending
<1>6. o <= position + 1
  <2>1. Known \subseteq 1 .. Reach /\ Reach \in Nat /\ Reach <= position + 1
    BY KnownBounds DEF EInv
  <2>2. position \in Nat
    BY DEF EInv, EngineTypes
  <2> QED BY <1>5, <2>1, <2>2
<1> QED BY <1>1, <1>2, <1>3, <1>4, <1>5, <1>6, SkipStep

LEMMA CheckStep ==
  ASSUME EInv, Check
  PROVE  EInv'
<1> DEFINE now == position + 1
<1>1. /\ raw' = raw /\ first' = first /\ committed' = committed /\ hasOffset' = hasOffset
      /\ changelog' = changelog /\ visible' = visible /\ position' = position
      /\ open' = open /\ forgot' = forgot
      /\ stage' = "checked" /\ edges' = edges \cup {now}
      /\ features' = [count |-> WindowCount(Counted, Current.ts), impossible |-> Impossible(store.last)]
      /\ store' = [dedup |-> Remembered, profile |-> Counted, last |-> LastLocation, time |-> Advanced]
  BY DEF Check, logVars, kafkaVars, Linked
<1>2. stage = "idle" /\ position < Len(raw) /\ raw[now].id # Poison /\ ~Seen(raw[now].id)
  BY DEF Check, Takes, Current
<1>3. EngineTypes /\ Ordered
  BY DEF EInv
<1>4. /\ Decided' = Decided /\ Known = Decided /\ Known' = Known \cup {now}
      /\ Reach = position /\ Reach' = now
  BY <1>1, <1>2 DEF Decided, Known, Pending, Reach
<1>5. raw \in Seq(Record) /\ committed \in Nat /\ position \in Nat
  BY <1>3 DEF EngineTypes
<1>6. /\ Len(raw) \in Nat /\ committed <= position
      /\ Known \subseteq 1 .. position /\ now \in 1 .. Len(raw)
  <2>1. Known \subseteq 1 .. Reach /\ Len(raw) \in Nat /\ committed <= position
    BY <1>3, KnownBounds DEF Ordered
  <2> QED BY <1>2, <1>4, <1>5, <2>1
<1>7. \A o \in Known \cup {now} : raw[o].ts \in Nat /\ o \in 1 .. Len(raw) /\ o \in Nat
  BY <1>5, <1>6, RecordTypes
<1>8. /\ store.dedup \subseteq Known /\ store.profile = Known
      /\ \A o \in Known : o \in store.dedup \/ raw[o].ts + Ttl < store.time
      /\ IsNewest(raw, store.last, Known)
      /\ store.time = 0 \/ \E k \in 1 .. position : raw[k].ts = store.time
  BY <1>4 DEF EInv, Snapshot
<1>9. store.last \in Nat /\ store.time \in Nat
  BY <1>3 DEF EngineTypes, StoreType
<1>10. /\ Advanced \in Nat /\ store.time <= Advanced
       /\ Advanced = store.time \/ Advanced = raw[now].ts
  BY <1>7, <1>9 DEF Advanced, Later, Current
<1>11. /\ WindowCount(Counted, raw[now].ts) \in Nat
       /\ WindowCount(Counted, raw[now].ts) <= WideWindow(raw, Known \cup {now}, raw[now].ts)
       /\ store.last = 0 \/ raw[store.last].ts - raw[now].ts <= Grace =>
            FullWindow(raw, Known \cup {now}, raw[now].ts) <= WindowCount(Counted, raw[now].ts)
  <2>1. Counted = Known \cup {now}
    BY <1>8 DEF Counted
  <2>2. Known \in SUBSET (1 .. now - 1)
    BY <1>5, <1>6
  <2> QED BY <1>5, <1>6, <1>8, <1>9, <2>1, <2>2, WindowBounds
<1>12. /\ features' \in [count : Nat, impossible : BOOLEAN]
       /\ features'.count = WindowCount(Counted, raw[now].ts)
       /\ features'.impossible <=> Travels(raw, store.last, now)
  <2>1. Impossible(store.last) <=> Travels(raw, store.last, now)
    BY DEF Impossible, Travels, Current
  <2>2. Impossible(store.last) \in BOOLEAN
    BY DEF Impossible
  <2>3. Current = raw[now]
    BY DEF Current
  <2> QED BY <1>1, <1>11, <2>1, <2>2, <2>3
<1>13. /\ store' \in StoreType
       /\ store'.dedup = store.dedup \cup {now} /\ store'.profile = Known \cup {now}
       /\ store'.last = (IF store.last = 0 \/ raw[now].ts >= raw[store.last].ts THEN now ELSE store.last)
       /\ store'.time = Advanced
  <2>1. /\ store'.dedup = store.dedup \cup {now} /\ store'.profile = Known \cup {now}
        /\ store'.last = (IF store.last = 0 \/ raw[now].ts >= raw[store.last].ts THEN now ELSE store.last)
        /\ store'.time = Advanced
    BY <1>1, <1>8 DEF Remembered, Counted, LastLocation, Current
  <2>2. store.dedup \cup {now} \in SUBSET Nat /\ Known \cup {now} \in SUBSET Nat
    BY <1>7, <1>8
  <2>3. store'.last \in Nat
    BY <1>5, <1>9, <2>1
  <2> QED BY <1>1, <1>10, <2>1, <2>2, <2>3 DEF StoreType
<1>14. edges' \in SUBSET Nat
  BY <1>1, <1>3, <1>5 DEF EngineTypes
<1>15. EngineTypes'
  BY <1>1, <1>3, <1>12, <1>13, <1>14 DEF EngineTypes
<1>16. Ordered'
  <2>1. committed <= position /\ Reach' <= Len(raw)
    BY <1>4, <1>5, <1>6
  <2> QED BY <1>1, <1>3, <2>1 DEF Ordered
<1>17. Parsed'
  BY <1>1, <1>2, <1>4 DEF EInv, Parsed
<1>18. Snapshot(raw, store', Known \cup {now}, now)
  <2>1. \A o \in Known \cup {now} : o \in store.dedup \cup {now} \/ raw[o].ts + Ttl < Advanced
    BY <1>7, <1>8, <1>9, <1>10, EngineAssumption
  <2>2. IsNewest(raw, store'.last, Known \cup {now})
    <3>1. Known \in SUBSET (1 .. now - 1)
      BY <1>5, <1>6
    <3> QED BY <1>5, <1>6, <1>8, <1>13, <3>1, NewestOfMore
  <2>3. Advanced = 0 \/ \E k \in 1 .. now : raw[k].ts = Advanced
    BY <1>5, <1>8, <1>10
  <2> QED BY <1>8, <1>13, <2>1, <2>2, <2>3 DEF Snapshot
<1>19. Covered'
  BY <1>1, <1>4 DEF EInv, Covered
<1>20. Forgotten'
  <2>1. ASSUME NEW i \in Known, raw[i].id = raw[now].id
        PROVE  Late(raw, i, now)
    <3>1. i \notin store.dedup
      BY <1>2, <2>1 DEF Seen
    <3>2. raw[i].ts + Ttl < store.time /\ raw[i].ts \in Nat /\ Ttl \in Nat
      BY <1>7, <1>8, <3>1, EngineAssumption
    <3>3. PICK k \in 1 .. position : raw[k].ts = store.time
      BY <1>8, <3>2
    <3>4. k \in 1 .. now - 1 /\ raw[k].ts > raw[i].ts + Ttl
      BY <1>5, <1>9, <3>2, <3>3
    <3> QED BY <3>4 DEF Late
  <2>2. ASSUME NEW i \in Known \cup {now}, NEW j \in Known \cup {now}, i < j, raw[i].id = raw[j].id
        PROVE  Late(raw, i, j)
    <3>1. i \in Known
      BY <1>5, <1>6, <2>2
    <3>2. CASE j \in Known
      BY <2>2, <3>1, <3>2 DEF EInv, Forgotten
    <3>3. CASE j = now
      BY <2>1, <2>2, <3>1, <3>3
    <3> QED BY <3>2, <3>3
  <2> QED BY <1>1, <1>4, <2>2 DEF Forgotten
<1>21. InGraph'
  <2>1. ASSUME NEW o \in Known \cup {now}, o > forgot
        PROVE  o \in edges'
    <3>1. CASE o = now
      BY <1>1, <3>1
    <3>2. CASE o \in Known
      BY <1>1, <2>1, <3>2 DEF EInv, InGraph
    <3> QED BY <3>1, <3>2
  <2> QED BY <1>1, <1>4, <2>1 DEF InGraph
<1>22. AllJudged'
  <2>1. Before(Known, now) = Known
    <3>1. \A i \in Known : i < now
      BY <1>5, <1>6
    <3> QED BY <3>1 DEF Before
  <2>2. Right(raw, Known, now, store.last, features'.count, features'.impossible)
    BY <1>11, <1>12 DEF Right
  <2>3. Judged(raw, Decided, now, features'.count, features'.impossible)
    BY <1>4, <1>8, <1>9, <2>1, <2>2 DEF Judged
  <2> QED BY <1>1, <1>4, <2>3 DEF EInv, AllJudged
<1> QED BY <1>1, <1>4, <1>15, <1>16, <1>17, <1>18, <1>19, <1>20, <1>21, <1>22 DEF EInv

LEMMA DecideStep ==
  ASSUME EInv, NEW sink \in Sinks, Decide(sink)
  PROVE  EInv'
<1> DEFINE now  == position + 1
           made == [offset |-> now, sink |-> sink, count |-> features.count, impossible |-> features.impossible]
<1>1. /\ raw' = raw /\ first' = first /\ committed' = committed /\ hasOffset' = hasOffset
      /\ changelog' = changelog /\ visible' = visible /\ store' = store /\ edges' = edges
      /\ forgot' = forgot /\ position' = now /\ stage' = "idle" /\ features' = NoFeatures
      /\ open' = Append(open, made)
  BY DEF Decide, logVars, kafkaVars, heapVars
<1>2. stage = "checked" /\ EngineTypes /\ Ordered
  BY DEF EInv, Decide
<1>3. /\ raw \in Seq(Record) /\ committed \in Nat /\ position \in Nat
      /\ visible \in Seq(Output) /\ open \in Seq(Output)
      /\ features.count \in Nat /\ features.impossible \in BOOLEAN
  BY <1>2 DEF EngineTypes
<1>4. made \in Output /\ made.offset = now /\ made.count = features.count /\ made.impossible = features.impossible
  BY <1>3 DEF Output
<1> HIDE DEF made
<1>5. /\ open' \in Seq(Output) /\ Len(open') = Len(open) + 1 /\ Len(open) \in Nat
      /\ (\A k \in 1 .. Len(open) : open'[k] = open[k]) /\ open'[Len(open) + 1] = made
      /\ Offs(open') = Offs(open) \cup {now}
  BY <1>1, <1>3, <1>4, OffsOfAppend, LenProperties
<1>6. /\ Decided' = Decided \cup {now} /\ Known = Decided \cup {now} /\ Known' = Known
      /\ Reach = now /\ Reach' = now
  BY <1>1, <1>2, <1>5 DEF Decided, Known, Pending, Reach
<1>7. /\ Len(raw) \in Nat /\ committed <= position /\ Decided \subseteq 1 .. position
      /\ now \in 1 .. Len(raw)
      /\ \A k \in 1 .. Len(open) : open[k].offset \in Nat /\ open[k].offset <= position
  <2>1. Decided \subseteq 1 .. position /\ Len(raw) \in Nat /\ committed <= position /\ Reach <= Len(raw)
    BY <1>2, KnownBounds DEF Ordered
  <2>2. \A k \in 1 .. Len(open) : open[k].offset \in Nat /\ open[k].offset <= position
    BY <1>2, <1>3, OutputTypes DEF Ordered
  <2> QED BY <1>3, <1>6, <2>1, <2>2
<1>8. EngineTypes'
  <2>1. NoFeatures \in [count : Nat, impossible : BOOLEAN]
    BY DEF NoFeatures
  <2> QED BY <1>1, <1>2, <1>3, <1>5, <2>1 DEF EngineTypes
<1>9. Ordered'
  <2>1. \A k \in 1 .. Len(open') : open'[k].offset > committed /\ open'[k].offset <= now
    <3>1. SUFFICES ASSUME NEW k \in 1 .. Len(open') PROVE open'[k].offset > committed /\ open'[k].offset <= now
      OBVIOUS
    <3>2. CASE k \in 1 .. Len(open)
      BY <1>2, <1>3, <1>5, <1>7, <3>2 DEF Ordered
    <3>3. CASE k = Len(open) + 1
      BY <1>3, <1>4, <1>5, <1>7, <3>3
    <3> QED BY <1>5, <3>2, <3>3
  <2>2. \A k, m \in 1 .. Len(open') : k < m => open'[k].offset < open'[m].offset
    <3>1. SUFFICES ASSUME NEW k \in 1 .. Len(open'), NEW m \in 1 .. Len(open'), k < m
                   PROVE  open'[k].offset < open'[m].offset
      OBVIOUS
    <3>2. k \in 1 .. Len(open) /\ open'[k] = open[k]
      BY <1>5, <3>1
    <3>3. CASE m \in 1 .. Len(open)
      BY <1>2, <1>5, <3>1, <3>2, <3>3 DEF Ordered
    <3>4. CASE m = Len(open) + 1
      BY <1>3, <1>4, <1>5, <1>7, <3>2, <3>4
    <3> QED BY <1>5, <3>3, <3>4
  <2> QED BY <1>1, <1>2, <1>3, <1>6, <1>7, <2>1, <2>2 DEF Ordered
<1>10. Parsed' /\ Forgotten' /\ InGraph'
  BY <1>1, <1>6 DEF EInv, Parsed, Forgotten, InGraph
<1>11. Covered'
  <2>1. ASSUME NEW j \in committed + 1 .. now, raw[j].id # Poison
        PROVE  \E i \in Decided \cup {now} : i <= j /\ raw[i].id = raw[j].id
    <3>1. CASE j = now
      BY <1>3, <3>1
    <3>2. CASE j # now
      <4>1. j \in committed + 1 .. position
        BY <1>3, <3>2
      <4> QED BY <2>1, <4>1 DEF EInv, Covered
    <3> QED BY <3>1, <3>2
  <2> QED BY <1>1, <1>6, <2>1 DEF Covered
<1>12. AllJudged'
  <2>1. /\ OutputsJudged(raw, Decided, visible) /\ OutputsJudged(raw, Decided, open)
        /\ Judged(raw, Decided, now, features.count, features.impossible)
    BY <1>2 DEF EInv, AllJudged
  <2>2. \A o \in 1 .. now : Before(Decided', o) = Before(Decided, o) /\ Before(Decided, o) \subseteq 1 .. Len(raw)
    <3>1. SUFFICES ASSUME NEW o \in 1 .. now
                   PROVE  Before(Decided \cup {now}, o) = Before(Decided, o) /\ Before(Decided, o) \subseteq 1 .. Len(raw)
      BY <1>6
    <3>2. ~(now < o)
      BY <1>3
    <3>3. Decided \subseteq 1 .. Len(raw)
      BY <1>3, <1>7
    <3> HIDE DEF now
    <3> QED BY <3>2, <3>3 DEF Before
  <2>3. Extends(raw, raw)
    BY <1>3, RecordTypes
  <2>4. Offs(visible) \subseteq 1 .. Len(raw) /\ Offs(open) \subseteq 1 .. Len(raw)
        /\ Offs(visible) \subseteq 1 .. now /\ Offs(open) \subseteq 1 .. now
    BY <1>3, <1>7 DEF Decided
  <2>5. OutputsJudged(raw, Decided', visible) /\ OutputsJudged(raw, Decided', open)
    BY <1>3, <2>1, <2>2, <2>3, <2>4, OutputsJudgedStay
  <2>6. Judged(raw, Decided', now, features.count, features.impossible)
    <3>1. now \in 1 .. now
      BY <1>3
    <3> QED BY <1>3, <1>7, <2>1, <2>2, <2>3, <3>1, JudgedStays
  <2>7. OutputsJudged(raw, Decided', open')
    <3>1. SUFFICES ASSUME NEW k \in 1 .. Len(open')
                   PROVE  Judged(raw, Decided', open'[k].offset, open'[k].count, open'[k].impossible)
      BY DEF OutputsJudged
    <3>2. CASE k \in 1 .. Len(open)
      BY <1>5, <2>5, <3>2 DEF OutputsJudged
    <3>3. CASE k = Len(open) + 1
      BY <1>4, <1>5, <2>6, <3>3
    <3> QED BY <1>5, <3>2, <3>3
  <2> QED BY <1>1, <2>5, <2>7 DEF AllJudged
<1>13. Snapshot(raw, changelog, Offs(visible), committed) /\ Snapshot(raw, store, Known, Reach)
  BY DEF EInv
<1> QED BY <1>1, <1>6, <1>8, <1>9, <1>10, <1>11, <1>12, <1>13 DEF EInv

LEMMA EvictStep ==
  ASSUME EInv, Evict
  PROVE  EInv'
<1>1. /\ raw' = raw /\ first' = first /\ committed' = committed /\ hasOffset' = hasOffset
      /\ changelog' = changelog /\ visible' = visible /\ position' = position /\ stage' = stage
      /\ features' = features /\ open' = open /\ edges' = edges /\ forgot' = forgot
      /\ store' = [store EXCEPT !.dedup = {o \in @ : Kept(o)}]
  BY DEF Evict, logVars, kafkaVars, heapVars
<1>2. EngineTypes /\ Ordered
  BY DEF EInv
<1>3. Decided' = Decided /\ Known' = Known /\ Reach' = Reach
  BY <1>1 DEF Decided, Known, Pending, Reach
<1>4. /\ store' \in StoreType
      /\ store'.dedup = {o \in store.dedup : Kept(o)} /\ store'.profile = store.profile
      /\ store'.last = store.last /\ store'.time = store.time
  BY <1>1, <1>2 DEF EngineTypes, StoreType
<1>5. Snapshot(raw, store', Known, Reach)
  <2>1. Snapshot(raw, store, Known, Reach)
    BY DEF EInv
  <2>2. ASSUME NEW o \in Known
        PROVE  o \in store'.dedup \/ raw[o].ts + Ttl < store.time
    <3>1. raw \in Seq(Record) /\ o \in 1 .. Len(raw)
      BY <1>2, KnownBounds DEF EngineTypes
    <3>2. raw[o].ts \in Nat /\ Ttl \in Nat /\ store.time \in Nat
      BY <1>2, <3>1, RecordTypes, EngineAssumption DEF EngineTypes, StoreType
    <3>3. CASE o \in store.dedup
      BY <1>4, <3>2, <3>3 DEF Kept
    <3>4. CASE o \notin store.dedup
      BY <2>1, <3>4 DEF Snapshot
    <3> QED BY <3>3, <3>4
  <2> QED BY <1>4, <2>1, <2>2 DEF Snapshot
<1>6. EngineTypes'
  BY <1>1, <1>2, <1>4 DEF EngineTypes
<1>7. Ordered' /\ Parsed' /\ Covered' /\ Forgotten' /\ InGraph'
  BY <1>1, <1>3 DEF EInv, Ordered, Parsed, Covered, Forgotten, InGraph
<1>8. AllJudged'
  BY <1>1, <1>3 DEF EInv, AllJudged
<1>9. Snapshot(raw, changelog, Offs(visible), committed)
  BY DEF EInv
<1> QED BY <1>1, <1>3, <1>5, <1>6, <1>7, <1>8, <1>9 DEF EInv

\* The log of outputs, what is committed and then what is open.
LEMMA OutputsProperties ==
  ASSUME EngineTypes, Ordered
  PROVE  /\ Outputs \in Seq(Output)
         /\ Len(visible) \in Nat /\ Len(open) \in Nat /\ Len(Outputs) = Len(visible) + Len(open)
         /\ \A k \in 1 .. Len(visible) : Outputs[k] = visible[k]
         /\ \A k \in Len(visible) + 1 .. Len(Outputs) :
              k - Len(visible) \in 1 .. Len(open) /\ Outputs[k] = open[k - Len(visible)]
         /\ Offs(Outputs) = Decided
         /\ \A k, m \in 1 .. Len(Outputs) : k < m => Outputs[k].offset < Outputs[m].offset
<1>1. visible \in Seq(Output) /\ open \in Seq(Output) /\ committed \in Nat
  BY DEF EngineTypes
<1>2. /\ Outputs \in Seq(Output) /\ Len(Outputs) = Len(visible) + Len(open)
      /\ \A k \in 1 .. Len(visible) : Outputs[k] = visible[k]
      /\ \A k \in Len(visible) + 1 .. Len(visible) + Len(open) : Outputs[k] = open[k - Len(visible)]
      /\ Offs(Outputs) = Decided
  BY <1>1, OffsOfConcat DEF Outputs, Decided
<1>3. /\ Len(visible) \in Nat /\ Len(open) \in Nat
      /\ \A k \in 1 .. Len(visible) : visible[k].offset \in Nat
      /\ \A k \in 1 .. Len(open) : open[k].offset \in Nat
  BY <1>1, OutputTypes
<1>4. \A k \in Len(visible) + 1 .. Len(Outputs) :
        k - Len(visible) \in 1 .. Len(open) /\ Outputs[k] = open[k - Len(visible)]
  BY <1>2, <1>3
<1>5. ASSUME NEW k \in 1 .. Len(Outputs), NEW m \in 1 .. Len(Outputs), k < m
      PROVE  Outputs[k].offset < Outputs[m].offset
  <2>1. CASE m \in 1 .. Len(visible)
    <3>1. k \in 1 .. Len(visible)
      BY <1>3, <1>5, <2>1
    <3> QED BY <1>2, <1>5, <2>1, <3>1 DEF Ordered
  <2>2. CASE m \in Len(visible) + 1 .. Len(Outputs)
    <3>1. PICK b \in 1 .. Len(open) : Outputs[m] = open[b] /\ b = m - Len(visible)
      BY <1>4, <2>2
    <3>2. CASE k \in 1 .. Len(visible)
      <4>1. Outputs[k] = visible[k] /\ visible[k].offset \in Nat /\ open[b].offset \in Nat
        BY <1>2, <1>3, <3>2
      <4>2. visible[k].offset <= committed /\ open[b].offset > committed
        BY <3>2 DEF Ordered
      <4> QED BY <1>1, <3>1, <4>1, <4>2
    <3>3. CASE k \in Len(visible) + 1 .. Len(Outputs)
      <4>1. PICK a \in 1 .. Len(open) : Outputs[k] = open[a] /\ a = k - Len(visible)
        BY <1>4, <3>3
      <4>2. a < b
        BY <1>3, <1>5, <2>2, <3>1, <3>3, <4>1
      <4>3. open[a].offset < open[b].offset
        BY <4>2 DEF Ordered
      <4> QED BY <3>1, <4>1, <4>3
    <3> QED BY <1>2, <1>3, <3>2, <3>3
  <2> QED BY <1>2, <1>3, <2>1, <2>2
<1> QED BY <1>2, <1>3, <1>4, <1>5

LEMMA CommitStep ==
  ASSUME EInv, Commit
  PROVE  EInv'
<1>1. /\ raw' = raw /\ first' = first /\ committed' = position /\ hasOffset' = TRUE
      /\ changelog' = store /\ visible' = visible \o open /\ position' = position /\ stage' = stage
      /\ features' = features /\ open' = <<>> /\ edges' = edges /\ forgot' = forgot /\ store' = store
  BY DEF Commit, logVars, heapVars
<1>2. EngineTypes /\ Ordered /\ stage = "idle"
  BY DEF EInv, Commit
<1>3. /\ raw \in Seq(Record) /\ committed \in Nat /\ position \in Nat
      /\ visible \in Seq(Output) /\ open \in Seq(Output)
  BY <1>2 DEF EngineTypes
<1>4. /\ visible' \in Seq(Output) /\ visible' = Outputs
      /\ Len(visible) \in Nat /\ Len(open) \in Nat /\ Len(visible') = Len(visible) + Len(open)
      /\ (\A k \in 1 .. Len(visible) : visible'[k] = visible[k])
      /\ (\A k \in Len(visible) + 1 .. Len(visible') :
            k - Len(visible) \in 1 .. Len(open) /\ visible'[k] = open[k - Len(visible)])
      /\ Offs(visible') = Decided
      /\ \A k, m \in 1 .. Len(visible') : k < m => visible'[k].offset < visible'[m].offset
  <2>1. visible' = Outputs
    BY <1>1 DEF Outputs
  <2> QED BY <1>2, <2>1, OutputsProperties
<1>5. Offs(open') = {} /\ Len(open') = 0 /\ open' \in Seq(Output)
  BY <1>1 DEF Offs
<1>6. /\ Decided' = Decided /\ Offs(visible') = Decided /\ Known = Decided /\ Known' = Known
      /\ Reach = position /\ Reach' = position
  BY <1>1, <1>2, <1>4, <1>5 DEF Decided, Known, Pending, Reach
<1>7. committed <= position /\ position <= Len(raw) /\ Len(raw) \in Nat /\ Known \subseteq 1 .. position
  BY <1>2, <1>6, KnownBounds DEF Ordered
<1>8. EngineTypes'
  BY <1>1, <1>2, <1>4, <1>5 DEF EngineTypes
<1>9. Ordered'
  <2>1. \A k \in 1 .. Len(visible') : visible'[k].offset >= 1 /\ visible'[k].offset <= position
    <3>1. SUFFICES ASSUME NEW k \in 1 .. Len(visible') PROVE visible'[k].offset >= 1 /\ visible'[k].offset <= position
      OBVIOUS
    <3>2. visible'[k].offset \in Offs(visible')
      BY DEF Offs
    <3>3. visible'[k].offset \in 1 .. position
      BY <1>6, <1>7, <3>2
    <3> QED BY <3>3
  <2>2. \A k \in 1 .. Len(open') : FALSE
    BY <1>5
  <2>3. position <= position /\ Reach' <= Len(raw)
    BY <1>3, <1>6, <1>7
  <2> QED BY <1>1, <1>4, <2>1, <2>2, <2>3 DEF Ordered
<1>10. Snapshot(raw, store, Decided, position)
  BY <1>6 DEF EInv
<1>11. Covered'
  <2>1. \A j \in position + 1 .. position : FALSE
    BY <1>3
  <2> QED BY <1>1, <2>1 DEF Covered
<1>12. Parsed' /\ Forgotten' /\ InGraph'
  BY <1>1, <1>6 DEF EInv, Parsed, Forgotten, InGraph
<1>13. AllJudged'
  <2>1. OutputsJudged(raw, Decided, visible) /\ OutputsJudged(raw, Decided, open)
    BY DEF EInv, AllJudged
  <2>2. ASSUME NEW k \in 1 .. Len(visible')
        PROVE  Judged(raw, Decided, visible'[k].offset, visible'[k].count, visible'[k].impossible)
    <3>1. CASE k \in 1 .. Len(visible)
      BY <1>4, <2>1, <3>1 DEF OutputsJudged
    <3>2. CASE k \in Len(visible) + 1 .. Len(visible')
      BY <1>4, <2>1, <3>2 DEF OutputsJudged
    <3> QED BY <1>4, <3>1, <3>2
  <2>3. OutputsJudged(raw', Decided', visible') /\ OutputsJudged(raw', Decided', open')
    BY <1>1, <1>5, <1>6, <2>2 DEF OutputsJudged
  <2> QED BY <1>1, <1>2, <2>3 DEF AllJudged
<1> QED BY <1>1, <1>6, <1>8, <1>9, <1>10, <1>11, <1>12, <1>13 DEF EInv

\* The aborted transaction leaves nothing behind but edges.
LEMMA RestoreStep ==
  ASSUME EInv, Restore, UNCHANGED <<raw, hasOffset, changelog, visible>>,
         UNCHANGED heapVars \/ (edges' = {} /\ forgot' = committed)
  PROVE  EInv'
<1>1. /\ raw' = raw /\ hasOffset' = hasOffset /\ changelog' = changelog /\ visible' = visible
      /\ store' = changelog /\ stage' = "idle" /\ open' = <<>>
      /\ features' = [count |-> 0, impossible |-> FALSE]
  BY DEF Restore, NoFeatures
<1>2. EngineTypes /\ Ordered
  BY DEF EInv
<1>3. /\ raw \in Seq(Record) /\ committed \in Nat /\ position \in Nat /\ Len(raw) \in Nat
      /\ visible \in Seq(Output) /\ open \in Seq(Output)
      /\ committed <= Len(raw) /\ Offs(visible) \subseteq 1 .. committed
      /\ Offs(open) \subseteq committed + 1 .. position
  <2>1. /\ raw \in Seq(Record) /\ committed \in Nat /\ position \in Nat
        /\ visible \in Seq(Output) /\ open \in Seq(Output)
    BY <1>2 DEF EngineTypes
  <2>2. /\ Len(raw) \in Nat /\ Reach \in Nat /\ position <= Reach /\ Offs(visible) \subseteq 1 .. committed
        /\ Offs(open) \subseteq committed + 1 .. position
    BY <1>2, KnownBounds
  <2>3. committed <= position /\ Reach <= Len(raw)
    BY <1>2 DEF Ordered
  <2> QED BY <2>1, <2>2, <2>3
<1>4. /\ hasOffset => position' = committed /\ first' = first /\ committed' = committed
      /\ ~hasOffset => position' = Len(raw) /\ first' = Len(raw) /\ committed' = Len(raw) /\ visible = <<>>
  BY <1>2 DEF Restore, Ordered
<1>5. hasOffset \in BOOLEAN
  BY <1>2 DEF EngineTypes
<1>6. /\ committed' \in Nat /\ position' = committed' /\ committed <= committed' /\ committed' <= Len(raw)
      /\ first' \in Nat
  <2>1. first \in Nat
    BY <1>2 DEF EngineTypes
  <2> QED BY <1>3, <1>4, <1>5, <2>1
<1>7. Offs(open') = {} /\ Len(open') = 0 /\ open' \in Seq(Output)
  BY <1>1 DEF Offs
<1>8. /\ Decided' = Offs(visible) /\ Known' = Offs(visible) /\ Reach' = committed'
      /\ Offs(visible) \subseteq Known
  BY <1>1, <1>6, <1>7 DEF Decided, Known, Pending, Reach
<1>9. (edges' = edges /\ forgot' = forgot) \/ (edges' = {} /\ forgot' = committed)
  BY DEF heapVars
<1>10. EngineTypes'
  <2>1. features' \in [count : Nat, impossible : BOOLEAN] /\ store' \in StoreType /\ changelog' \in StoreType
    BY <1>1, <1>2 DEF EngineTypes
  <2>2. edges' \in SUBSET Nat /\ forgot' \in Nat
    <3>1. edges \in SUBSET Nat /\ forgot \in Nat
      BY <1>2 DEF EngineTypes
    <3> QED BY <1>3, <1>9, <3>1
  <2> QED BY <1>1, <1>3, <1>5, <1>6, <1>7, <2>1, <2>2 DEF EngineTypes
<1>11. Ordered'
  <2>1. \A k \in 1 .. Len(visible) : visible[k].offset >= 1 /\ visible[k].offset <= committed'
    <3>1. \A k \in 1 .. Len(visible) : visible[k].offset \in Offs(visible)
      BY DEF Offs
    <3> QED BY <1>3, <1>6, <3>1
  <2>2. \A k, m \in 1 .. Len(visible) : k < m => visible[k].offset < visible[m].offset
    BY <1>2 DEF Ordered
  <2>3. \A k \in 1 .. Len(open') : FALSE
    BY <1>7
  <2>4. ~hasOffset => committed' = first' /\ visible = <<>>
    BY <1>4
  <2>5. committed' <= position' /\ Reach' <= Len(raw)
    BY <1>3, <1>6, <1>8
  <2> QED BY <1>1, <2>1, <2>2, <2>3, <2>4, <2>5 DEF Ordered
<1>12. Snapshot(raw, changelog, Offs(visible), committed')
  <2>1. Snapshot(raw, changelog, Offs(visible), committed) /\ changelog \in StoreType /\ Extends(raw, raw)
    BY <1>3, RecordTypes DEF EInv, EngineTypes
  <2>2. Offs(visible) \in SUBSET (1 .. Len(raw))
    BY <1>3
  <2> QED BY <1>3, <1>6, <2>1, <2>2, SnapshotLater
<1>13. Covered'
  <2>1. \A n \in Nat : n + 1 .. n = {}
    OBVIOUS
  <2>2. committed' + 1 .. position' = {}
    BY <1>6, <2>1
  <2> QED BY <2>2 DEF Covered
<1>14. Parsed' /\ Forgotten'
  BY <1>1, <1>8 DEF EInv, Parsed, Forgotten
<1>15. InGraph'
  <2>1. CASE edges' = edges /\ forgot' = forgot
    BY <1>8, <2>1 DEF EInv, InGraph
  <2>2. CASE edges' = {} /\ forgot' = committed
    <3>1. \A o \in Offs(visible) : ~(o > committed)
      BY <1>3
    <3> QED BY <1>8, <2>2, <3>1 DEF InGraph
  <2> QED BY <1>9, <2>1, <2>2
<1>16. AllJudged'
  <2>1. OutputsJudged(raw, Decided, visible)
    BY DEF EInv, AllJudged
  <2>2. \A o \in Offs(visible) : Before(Offs(visible), o) = Before(Decided, o)
                                 /\ Before(Decided, o) \subseteq 1 .. Len(raw)
    <3>1. SUFFICES ASSUME NEW o \in Offs(visible)
                   PROVE  Before(Offs(visible), o) = Before(Decided, o) /\ Before(Decided, o) \subseteq 1 .. Len(raw)
      OBVIOUS
    <3>2. \A i \in Offs(open) : ~(i < o)
      BY <1>3
    <3>3. \A i \in Offs(visible) : i \in 1 .. Len(raw)
      BY <1>3
    <3> QED BY <3>2, <3>3 DEF Before, Decided
  <2>3. OutputsJudged(raw, Offs(visible), visible)
    <3>1. Extends(raw, raw) /\ Offs(visible) \subseteq 1 .. Len(raw)
      BY <1>3, RecordTypes
    <3> QED BY <1>3, <2>1, <2>2, <3>1, OutputsJudgedStay
  <2>4. OutputsJudged(raw, Offs(visible), open')
    BY <1>7 DEF OutputsJudged
  <2> QED BY <1>1, <1>8, <2>3, <2>4 DEF AllJudged
<1> QED BY <1>1, <1>8, <1>10, <1>11, <1>12, <1>13, <1>14, <1>15, <1>16 DEF EInv

LEMMA StepEInv ==
  ASSUME EInv, [Next]_vars
  PROVE  EInv'
<1>1. CASE Produce
  BY <1>1, ProduceStep
<1>2. CASE SkipPoison
  BY <1>2, SkipPoisonStep
<1>3. CASE DropDuplicate
  BY <1>3, DropDuplicateStep
<1>4. CASE Check
  BY <1>4, CheckStep
<1>5. ASSUME NEW sink \in Sinks, Decide(sink)
      PROVE  EInv'
  BY <1>5, DecideStep
<1>6. CASE Evict
  BY <1>6, EvictStep
<1>7. CASE Commit
  BY <1>7, CommitStep
<1>8. CASE ThreadDies \/ Throw
  <2>1. Restore /\ UNCHANGED <<raw, hasOffset, changelog, visible>> /\ UNCHANGED heapVars
    BY <1>8 DEF ThreadDies, ThreadReplaced, Throw
  <2> QED BY <2>1, RestoreStep
<1>9. CASE EngineDies
  <2>1. Restore /\ UNCHANGED <<raw, hasOffset, changelog, visible>> /\ edges' = {} /\ forgot' = committed
    BY <1>9 DEF EngineDies
  <2> QED BY <2>1, RestoreStep
<1>10. CASE UNCHANGED vars
  <2>1. /\ raw' = raw /\ first' = first /\ committed' = committed /\ hasOffset' = hasOffset
        /\ changelog' = changelog /\ visible' = visible /\ position' = position /\ store' = store
        /\ stage' = stage /\ features' = features /\ open' = open /\ edges' = edges /\ forgot' = forgot
    BY <1>10 DEF vars, logVars, kafkaVars, taskVars, heapVars
  <2>2. Decided' = Decided /\ Known' = Known /\ Reach' = Reach
    BY <2>1 DEF Decided, Known, Pending, Reach
  <2>3. EngineTypes' /\ Ordered' /\ Parsed' /\ Covered' /\ Forgotten' /\ InGraph'
    BY <2>1, <2>2 DEF EInv, EngineTypes, Ordered, Parsed, Covered, Forgotten, InGraph
  <2>4. AllJudged'
    BY <2>1, <2>2 DEF EInv, AllJudged
  <2>5. Snapshot(raw, changelog, Offs(visible), committed) /\ Snapshot(raw, store, Known, Reach)
    BY DEF EInv
  <2> QED BY <2>1, <2>2, <2>3, <2>4, <2>5 DEF EInv
<1> QED BY <1>1, <1>2, <1>3, <1>4, <1>5, <1>6, <1>7, <1>8, <1>9, <1>10 DEF Next, Process

\* The stores are a function of the outputs and what was read of the log; outputs go up in the log, and each was
\* judged by those before it.  It is inductive, and everything below follows from it.
THEOREM EngineInvariant == Spec => []EInv
<1>1. Init => EInv
  BY InitEInv
<1>2. EInv /\ [Next]_vars => EInv'
  BY StepEInv
<1> QED BY <1>1, <1>2, PTL DEF Spec

-----------------------------------------------------------------------------
(* State and outputs agree *)

LEMMA OffsetsOfAsSet ==
  ASSUME NEW out \in Seq(Output)
  PROVE  /\ ToSet(OffsetsOf(out)) = Offs(out)
         /\ OffsetsOf(out) \in Seq(Nat) /\ Len(OffsetsOf(out)) = Len(out)
         /\ \A k \in 1 .. Len(out) : OffsetsOf(out)[k] = out[k].offset
<1>1. Len(out) \in Nat /\ \A k \in 1 .. Len(out) : out[k].offset \in Nat
  BY OutputTypes
<1>2. DOMAIN OffsetsOf(out) = 1 .. Len(out) /\ \A k \in 1 .. Len(out) : OffsetsOf(out)[k] = out[k].offset
  BY DEF OffsetsOf
<1>3. OffsetsOf(out) \in [1 .. Len(out) -> Nat]
  BY <1>1 DEF OffsetsOf
<1>4. OffsetsOf(out) \in Seq(Nat) /\ Len(OffsetsOf(out)) = Len(out)
  BY <1>1, <1>3, SeqDef, LenProperties
<1>5. ToSet(OffsetsOf(out)) = Offs(out)
  BY <1>2 DEF ToSet, Offs
<1> QED BY <1>2, <1>4, <1>5

\* What was put out before the k-th output is what was decided of the transactions before it.
LEMMA OutputsBefore ==
  ASSUME EngineTypes, Ordered, NEW k \in 1 .. Len(Outputs)
  PROVE  /\ ToSet(OffsetsOf(SubSeq(Outputs, 1, k - 1))) = Before(Decided, Outputs[k].offset)
         /\ Before(Decided, Outputs[k].offset) = {} <=> k = 1
<1> DEFINE o     == Outputs[k].offset
           until == SubSeq(Outputs, 1, k - 1)
<1>1. /\ Outputs \in Seq(Output) /\ Len(Outputs) \in Nat /\ Offs(Outputs) = Decided
      /\ \A i, j \in 1 .. Len(Outputs) : i < j => Outputs[i].offset < Outputs[j].offset
  BY OutputsProperties
<1>2. \A i \in 1 .. Len(Outputs) : Outputs[i] \in Output /\ Outputs[i].offset \in Nat
  BY <1>1, OutputTypes, LenProperties
<1>3. until \in Seq(Output) /\ Len(until) = k - 1 /\ \A i \in 1 .. k - 1 : until[i] = Outputs[i]
  <2>1. \A i \in 1 .. k - 1 : Outputs[i] \in Output
    BY <1>1, <1>2
  <2>2. /\ until \in Seq(Output)
        /\ Len(until) = IF 1 <= k - 1 THEN k - 1 - 1 + 1 ELSE 0
        /\ \A i \in 1 .. k - 1 - 1 + 1 : until[i] = Outputs[1 + i - 1]
    BY <1>1, <2>1, SubSeqProperties
  <2> HIDE DEF until
  <2> QED BY <1>1, <2>2
<1> HIDE DEF until
<1>4. ToSet(OffsetsOf(until)) = Offs(until)
  BY <1>3, OffsetsOfAsSet
<1>5. ASSUME NEW i \in 1 .. k - 1
      PROVE  until[i].offset \in Before(Decided, o)
  <2>1. i \in 1 .. Len(Outputs) /\ i < k /\ until[i] = Outputs[i]
    BY <1>1, <1>3
  <2>2. Outputs[i].offset < o /\ Outputs[i].offset \in Decided
    BY <1>1, <2>1 DEF Offs
  <2> QED BY <2>1, <2>2 DEF Before
<1>6. ASSUME NEW d \in Before(Decided, o)
      PROVE  d \in Offs(until)
  <2>1. d \in Offs(Outputs) /\ d < o
    BY <1>1 DEF Before
  <2>2. PICK i \in 1 .. Len(Outputs) : d = Outputs[i].offset
    BY <2>1 DEF Offs
  <2>3. i < k
    <3>1. CASE i = k
      BY <1>2, <2>1, <2>2, <3>1
    <3>2. CASE k < i
      <4>1. o < d
        BY <1>1, <2>2, <3>2
      <4> QED BY <1>2, <2>1, <2>2, <4>1
    <3> QED BY <1>1, <3>1, <3>2
  <2>4. i \in 1 .. k - 1
    BY <1>1, <2>3
  <2> QED BY <1>3, <2>2, <2>4 DEF Offs
<1>7. Offs(until) = Before(Decided, o)
  BY <1>3, <1>5, <1>6 DEF Offs
<1>8. Offs(until) = {} <=> k = 1
  <2>1. CASE k = 1
    BY <1>3, <2>1 DEF Offs
  <2>2. CASE k # 1
    <3>1. 1 \in 1 .. Len(until)
      BY <1>1, <1>3, <2>2
    <3> QED BY <2>2, <3>1 DEF Offs
  <2> QED BY <2>1, <2>2
<1> QED BY <1>4, <1>7, <1>8 DEF until

\* The newest is unique.
LEMMA NewestOfIs ==
  ASSUME raw \in Seq(Record), NEW offsets \in SUBSET (1 .. Len(raw)), NEW n \in offsets,
         IsNewest(raw, n, offsets)
  PROVE  NewestOf(offsets) = n
<1>1. \A i \in offsets : raw[i].ts \in Nat /\ i \in Nat
  BY RecordTypes
<1>2. \A i \in offsets : raw[i].ts < raw[n].ts \/ (raw[i].ts = raw[n].ts /\ i <= n)
  BY DEF IsNewest
<1>3. ASSUME NEW m \in offsets,
             \A i \in offsets : raw[i].ts < raw[m].ts \/ (raw[i].ts = raw[m].ts /\ i <= m)
      PROVE  m = n
  BY <1>1, <1>2, <1>3
<1> QED BY <1>2, <1>3 DEF NewestOf

\* As many outputs as offsets: no two outputs share one.
LEMMA CountedAsOffsets ==
  ASSUME EngineTypes, Ordered, NEW k \in 1 .. Len(Outputs), NEW from, NEW to
  PROVE  LET o == Outputs[k].offset
         IN  Cardinality(DecidedIn(k, from, to)) = Cardinality(Between(raw, Before(Decided, o) \cup {o}, from, to))
<1> DEFINE o   == Outputs[k].offset
           out == DecidedIn(k, from, to)
           off == Between(raw, Before(Decided, o) \cup {o}, from, to)
           f   == [i \in out |-> Outputs[i].offset]
<1>1. /\ Outputs \in Seq(Output) /\ Len(Outputs) \in Nat /\ Offs(Outputs) = Decided
      /\ \A i, j \in 1 .. Len(Outputs) : i < j => Outputs[i].offset < Outputs[j].offset
  BY OutputsProperties
<1>2. \A i \in 1 .. Len(Outputs) : Outputs[i].offset \in Nat
  BY <1>1, OutputTypes
<1>3. out \subseteq 1 .. k /\ \A i \in out : i \in 1 .. Len(Outputs) /\ raw[Outputs[i].offset].ts \in from .. to
  BY <1>1 DEF DecidedIn
<1>4. ASSUME NEW i \in out
      PROVE  Outputs[i].offset \in off
  <2>1. CASE i = k
    BY <1>3, <2>1 DEF Between
  <2>2. CASE i < k
    <3>1. Outputs[i].offset < o /\ Outputs[i].offset \in Decided
      BY <1>1, <1>3, <2>2 DEF Offs
    <3> QED BY <1>3, <3>1 DEF Between, Before
  <2> QED BY <1>1, <1>3, <2>1, <2>2
<1>5. ASSUME NEW d \in off
      PROVE  \E i \in out : Outputs[i].offset = d
  <2>1. raw[d].ts \in from .. to /\ (d = o \/ d \in Before(Decided, o))
    BY DEF Between
  <2>2. CASE d = o
    <3>1. k \in out
      BY <1>1, <2>1, <2>2 DEF DecidedIn
    <3> QED BY <2>2, <3>1
  <2>3. CASE d \in Before(Decided, o)
    <3>1. d < o /\ d \in Offs(Outputs)
      BY <1>1, <2>3 DEF Before
    <3>2. PICK i \in 1 .. Len(Outputs) : Outputs[i].offset = d
      BY <3>1 DEF Offs
    <3>3. ~(k < i)
      <4>1. k < i => o < d
        BY <1>1, <3>2
      <4>2. d \in Nat /\ o \in Nat
        BY <1>2, <3>2
      <4> QED BY <3>1, <4>1, <4>2
    <3>4. i \in 1 .. k
      BY <1>1, <3>3
    <3>5. i \in out
      BY <2>1, <3>2, <3>4 DEF DecidedIn
    <3> QED BY <3>2, <3>5
  <2> QED BY <2>1, <2>2, <2>3
<1>6. ASSUME NEW i \in out, NEW j \in out, Outputs[i].offset = Outputs[j].offset
      PROVE  i = j
  <2>1. i \in 1 .. Len(Outputs) /\ j \in 1 .. Len(Outputs)
    BY <1>3
  <2>2. ~(i < j) /\ ~(j < i)
    BY <1>1, <1>2, <1>6, <2>1
  <2> QED BY <1>1, <2>1, <2>2
<1> HIDE DEF out, off
<1>7. f \in Bijection(out, off)
  <2>1. f \in [out -> off] /\ \A i, j \in out : f[i] = f[j] => i = j
    BY <1>4, <1>6
  <2>2. \A d \in off : \E i \in out : f[i] = d
    BY <1>5
  <2> HIDE DEF f
  <2> QED BY <2>1, <2>2, Fun_IsBij
<1>8. ExistsBijection(out, off)
  BY <1>7, Fun_ExistsBij
<1>9. IsFiniteSet(out)
  <2>1. k \in Nat /\ out \in SUBSET (1 .. k)
    BY <1>1, <1>3
  <2> QED BY <2>1, CountIsNat
<1>10. Cardinality(off) = Cardinality(out)
  BY <1>8, <1>9, FS_Bijection
<1> QED BY <1>10 DEF out, off

LEMMA SignalsFollow == EInv => SignalsMatch
<1> SUFFICES ASSUME EInv, NEW k \in DOMAIN Outputs
             PROVE  LET out  == Outputs[k]
                        ts   == raw[out.offset].ts
                        last == NewestOf(ToSet(OffsetsOf(SubSeq(Outputs, 1, k - 1))))
                    IN  /\ out.impossible <=>
                             /\ k > 1 /\ Place[raw[last].id] # Place[raw[out.offset].id]
                             /\ ts - raw[last].ts \in MinGap .. TravelTime - 1
                        /\ k = 1 \/ raw[last].ts - ts <= Grace =>
                             out.count \in Cardinality(DecidedIn(k, ts - Window + BucketSize, ts))
                                           .. Cardinality(DecidedIn(k, ts - Window + 1, ts + BucketSize - 1))
  BY DEF SignalsMatch
<1> DEFINE o    == Outputs[k].offset
           ts   == raw[o].ts
           B    == Before(Decided, o)
           last == NewestOf(ToSet(OffsetsOf(SubSeq(Outputs, 1, k - 1))))
<1>1. EngineTypes /\ Ordered /\ raw \in Seq(Record)
  BY DEF EInv, EngineTypes
<1>2. /\ Outputs \in Seq(Output) /\ Len(Outputs) \in Nat /\ Offs(Outputs) = Decided
      /\ Len(visible) \in Nat /\ Len(open) \in Nat /\ Len(Outputs) = Len(visible) + Len(open)
      /\ \A i \in 1 .. Len(visible) : Outputs[i] = visible[i]
      /\ \A i \in Len(visible) + 1 .. Len(Outputs) :
           i - Len(visible) \in 1 .. Len(open) /\ Outputs[i] = open[i - Len(visible)]
  BY <1>1, OutputsProperties
<1>3. k \in 1 .. Len(Outputs)
  BY <1>2, LenProperties
<1>4. o \in Nat /\ Outputs[k].count \in Nat /\ Outputs[k].impossible \in BOOLEAN /\ o \in 1 .. Len(raw)
      /\ Decided \subseteq 1 .. Len(raw)
  <2>1. o \in Decided
    BY <1>2, <1>3 DEF Offs
  <2>2. Decided \subseteq 1 .. Len(raw)
    BY <1>1, KnownBounds DEF Known
  <2> QED BY <1>2, <1>3, <2>1, <2>2, OutputTypes
<1>5. Judged(raw, Decided, o, Outputs[k].count, Outputs[k].impossible)
  <2>1. OutputsJudged(raw, Decided, visible) /\ OutputsJudged(raw, Decided, open)
    BY DEF EInv, AllJudged
  <2>2. CASE k \in 1 .. Len(visible)
    BY <1>2, <2>1, <2>2 DEF OutputsJudged
  <2>3. CASE k \in Len(visible) + 1 .. Len(Outputs)
    BY <1>2, <2>1, <2>3 DEF OutputsJudged
  <2> QED BY <1>2, <1>3, <2>2, <2>3
<1>6. PICK n \in Nat : IsNewest(raw, n, B) /\ Right(raw, B, o, n, Outputs[k].count, Outputs[k].impossible)
  BY <1>5 DEF Judged
<1>7. last = NewestOf(B) /\ (B = {} <=> k = 1)
  BY <1>1, <1>3, OutputsBefore
<1>8. B \in SUBSET (1 .. Len(raw))
  BY <1>4 DEF Before
<1>9. n = 0 <=> k = 1
  <2>1. B \in SUBSET (1 .. Len(raw)) /\ ~(0 \in B)
    BY <1>8
  <2> QED BY <1>6, <1>7, <2>1 DEF IsNewest
<1>10. n # 0 => last = n
  <2>1. n # 0 => n \in B
    BY <1>6 DEF IsNewest
  <2> QED BY <1>1, <1>6, <1>7, <1>8, <2>1, NewestOfIs
<1>11. \A from, to : Cardinality(DecidedIn(k, from, to)) = Cardinality(Between(raw, B \cup {o}, from, to))
  BY <1>1, <1>3, CountedAsOffsets
<1>12. /\ Cardinality(DecidedIn(k, ts - Window + BucketSize, ts)) = FullWindow(raw, B \cup {o}, ts)
       /\ Cardinality(DecidedIn(k, ts - Window + 1, ts + BucketSize - 1)) = WideWindow(raw, B \cup {o}, ts)
  BY <1>11 DEF FullWindow, WideWindow
<1>13. FullWindow(raw, B \cup {o}, ts) \in Nat /\ WideWindow(raw, B \cup {o}, ts) \in Nat
  <2>1. \A from, to : Between(raw, B \cup {o}, from, to) \in SUBSET (1 .. Len(raw))
    BY <1>4, <1>8 DEF Between
  <2>2. Len(raw) \in Nat
    BY <1>1, RecordTypes
  <2>3. \A from, to : Cardinality(Between(raw, B \cup {o}, from, to)) \in Nat
    BY <2>1, <2>2, CountIsNat
  <2> QED BY <2>3 DEF FullWindow, WideWindow
<1> HIDE DEF last, B, o
<1>14. Outputs[k].impossible <=>
         /\ k > 1 /\ Place[raw[last].id] # Place[raw[o].id]
         /\ ts - raw[last].ts \in MinGap .. TravelTime - 1
  <2>1. Outputs[k].impossible <=> Travels(raw, n, o)
    BY <1>6 DEF Right
  <2>2. k > 1 <=> k # 1
    BY <1>2, <1>3
  <2> QED BY <1>9, <1>10, <2>1, <2>2 DEF Travels
<1>15. k = 1 \/ raw[last].ts - ts <= Grace =>
         /\ FullWindow(raw, B \cup {o}, ts) <= Outputs[k].count
         /\ Outputs[k].count <= WideWindow(raw, B \cup {o}, ts)
  BY <1>6, <1>9, <1>10 DEF Right
<1>16. k = 1 \/ raw[last].ts - ts <= Grace =>
         Outputs[k].count \in Cardinality(DecidedIn(k, ts - Window + BucketSize, ts))
                              .. Cardinality(DecidedIn(k, ts - Window + 1, ts + BucketSize - 1))
  BY <1>4, <1>12, <1>13, <1>15
<1> QED BY <1>14, <1>16 DEF last, o

\* The profile, the graph and the signals say what the outputs say, in every state and after every crash
\* (DedupProcessor, CheckProcessor, VelocityWindows, GeoCheck under exactly_once_v2).
THEOREM StateAndOutputsAgree == Spec => []StateMatchesOutputs
<1>1. EInv => StateMatchesOutputs
  <2> SUFFICES ASSUME EInv PROVE StateMatchesOutputs
    OBVIOUS
  <2>1. EngineTypes /\ Ordered /\ visible \in Seq(Output)
    BY DEF EInv, EngineTypes
  <2>2. ToSet(OffsetsOf(visible)) = Offs(visible) /\ ToSet(OffsetsOf(Outputs)) = Decided
    BY <2>1, OffsetsOfAsSet, OutputsProperties
  <2>3. ProfileMatches
    BY <2>2 DEF EInv, Snapshot, ProfileMatches, Known, Pending
  <2>4. GraphMatches
    <3>1. ASSUME NEW o \in Offs(visible), o > forgot
          PROVE  o \in edges
      BY <3>1 DEF EInv, InGraph, Known, Decided
    <3> QED BY <2>2, <3>1 DEF GraphMatches
  <2> QED BY <2>3, <2>4, SignalsFollow DEF StateMatchesOutputs
<1> QED BY <1>1, EngineInvariant, PTL

-----------------------------------------------------------------------------
(* Exactly once *)

\* Committing is a batch up to the task's position: in the order of the log, one output for each new transaction,
\* another one only for what time has made forget.
LEMMA CommitConsumes ==
  ASSUME EInv, Commit
  PROVE  Promise!Next
<1> DEFINE out == OffsetsOf(open)
<1>1. /\ raw' = raw /\ first' = first /\ committed' = position /\ visible' = visible \o open
      /\ stage = "idle"
  BY DEF Commit, logVars
<1>2. EngineTypes /\ Ordered
  BY DEF EInv
<1>3. /\ visible \in Seq(Output) /\ open \in Seq(Output) /\ committed \in Nat /\ position \in Nat
  BY <1>2 DEF EngineTypes
<1>4. /\ Len(visible) \in Nat /\ Len(open) \in Nat
      /\ \A k \in 1 .. Len(open) : open[k].offset \in Nat
  BY <1>3, OutputTypes
<1>5. /\ visible \o open \in Seq(Output) /\ Len(visible \o open) = Len(visible) + Len(open)
      /\ \A k \in 1 .. Len(visible) : (visible \o open)[k] = visible[k]
      /\ \A k \in Len(visible) + 1 .. Len(visible) + Len(open) : (visible \o open)[k] = open[k - Len(visible)]
  BY <1>3, OffsOfConcat
<1>6. /\ out \in Seq(Nat) /\ Len(out) = Len(open) /\ ToSet(out) = Offs(open)
      /\ OffsetsOf(visible) \in Seq(Nat) /\ Len(OffsetsOf(visible)) = Len(visible)
      /\ ToSet(OffsetsOf(visible)) = Offs(visible)
      /\ OffsetsOf(visible \o open) \in Seq(Nat) /\ Len(OffsetsOf(visible \o open)) = Len(visible) + Len(open)
      /\ \A k \in 1 .. Len(open) : out[k] = open[k].offset
      /\ \A k \in 1 .. Len(visible) : OffsetsOf(visible)[k] = visible[k].offset
      /\ \A k \in 1 .. Len(visible) + Len(open) : OffsetsOf(visible \o open)[k] = (visible \o open)[k].offset
  BY <1>3, <1>5, OffsetsOfAsSet
<1> HIDE DEF out
<1>7. OffsetsOf(visible \o open) = OffsetsOf(visible) \o out
  <2> DEFINE both == OffsetsOf(visible) \o out
  <2>1. /\ both \in Seq(Nat) /\ Len(both) = Len(visible) + Len(open)
        /\ \A k \in 1 .. Len(visible) + Len(open) :
             both[k] = IF k <= Len(visible) THEN OffsetsOf(visible)[k] ELSE out[k - Len(visible)]
    <3>1. OffsetsOf(visible) \in Seq(Nat) /\ out \in Seq(Nat)
      BY <1>6
    <3>2. /\ both \in Seq(Nat) /\ Len(both) = Len(OffsetsOf(visible)) + Len(out)
          /\ \A k \in 1 .. Len(OffsetsOf(visible)) + Len(out) :
               both[k] = IF k <= Len(OffsetsOf(visible)) THEN OffsetsOf(visible)[k]
                         ELSE out[k - Len(OffsetsOf(visible))]
      BY <3>1, ConcatProperties
    <3>3. Len(OffsetsOf(visible)) = Len(visible) /\ Len(out) = Len(open)
      BY <1>6
    <3> HIDE DEF both
    <3> QED BY <3>2, <3>3
  <2> HIDE DEF both
  <2>2. ASSUME NEW k \in 1 .. Len(visible) + Len(open)
        PROVE  OffsetsOf(visible \o open)[k] = both[k]
    <3>1. CASE k \in 1 .. Len(visible)
      <4>1. k <= Len(visible)
        BY <3>1
      <4> QED BY <1>5, <1>6, <2>1, <3>1, <4>1
    <3>2. CASE k \in Len(visible) + 1 .. Len(visible) + Len(open)
      <4>1. k - Len(visible) \in 1 .. Len(open) /\ ~(k <= Len(visible))
        BY <1>4, <3>2
      <4> QED BY <1>5, <1>6, <2>1, <3>2, <4>1
    <3> QED BY <1>4, <3>1, <3>2
  <2>3. OffsetsOf(visible \o open) = both
    BY <1>6, <2>1, <2>2, SeqEqual
  <2> QED BY <2>3 DEF both
<1>8. committed <= position /\ position <= Len(raw) /\ Len(raw) \in Nat
  <2>1. position <= Reach /\ Reach <= Len(raw) /\ Reach \in Nat /\ Len(raw) \in Nat /\ committed <= position
    BY <1>2, KnownBounds DEF Ordered
  <2> QED BY <1>3, <2>1
<1>9. /\ \A k \in 1 .. Len(out) : out[k] \in committed + 1 .. position
      /\ \A k, m \in 1 .. Len(out) : k < m => out[k] < out[m]
  <2>1. /\ \A k \in 1 .. Len(open) : open[k].offset > committed /\ open[k].offset <= position
        /\ \A k, m \in 1 .. Len(open) : k < m => open[k].offset < open[m].offset
    BY <1>2 DEF Ordered
  <2>2. \A k \in 1 .. Len(open) : open[k].offset \in committed + 1 .. position
    BY <1>3, <1>4, <2>1
  <2>3. Len(out) = Len(open) /\ \A k \in 1 .. Len(open) : out[k] = open[k].offset
    BY <1>6
  <2> QED BY <2>1, <2>2, <2>3
<1>10. Known = Offs(visible) \cup Offs(open) /\ Decided = Offs(visible) \cup Offs(open)
  BY <1>1 DEF Known, Pending, Decided
<1>11. Promise!Emits(out, position)
  <2>1. \A k \in 1 .. Len(out) : out[k] \in Offs(open)
    BY <1>6 DEF Offs
  <2>2. \A k \in 1 .. Len(out) : raw[out[k]].id # Poison
    BY <1>10, <2>1 DEF EInv, Parsed
  <2>3. \A j \in committed + 1 .. position : raw[j].id # Poison =>
          \E i \in ToSet(OffsetsOf(visible)) \cup ToSet(out) : i <= j /\ raw[i].id = raw[j].id
    BY <1>6, <1>10 DEF EInv, Covered
  <2>4. \A j \in ToSet(out) : \A i \in ToSet(OffsetsOf(visible)) \cup ToSet(out) :
          i < j /\ raw[i].id = raw[j].id => Late(raw, i, j)
    BY <1>6, <1>10 DEF EInv, Forgotten
  <2>5. \A seq : Promise!ToSet(seq) = ToSet(seq)
    BY DEF ToSet, Promise!ToSet
  <2> QED BY <1>9, <2>2, <2>3, <2>4, <2>5 DEF Promise!Emits, Promise!Forgettable, Late
<1>12. Promise!Consume(position)
  <2>1. OffsetsOf(visible)' = OffsetsOf(visible) \o out
    BY <1>1, <1>7
  <2>2. Len(OffsetsOf(visible)') - Len(OffsetsOf(visible)) = Len(out)
    BY <1>1, <1>4, <1>6
  <2>3. out \in [1 .. Len(out) -> committed + 1 .. position]
    BY <1>6, <1>9, LenProperties
  <2> QED BY <1>1, <1>11, <2>1, <2>2, <2>3 DEF Promise!Consume
<1>13. position \in committed .. Len(raw)
  BY <1>3, <1>8
<1> QED BY <1>12, <1>13 DEF Promise!Next

LEMMA EngineStepRefines ==
  ASSUME EInv, [Next]_vars
  PROVE  [Promise!Next]_(Promise!vars)
<1>1. CASE Produce
  <2>1. /\ (\E r \in Record : raw' = Append(raw, r)) /\ committed' = committed /\ first' = first
        /\ visible' = visible
    BY <1>1 DEF Produce, kafkaVars
  <2>2. Promise!Produce
    BY <2>1 DEF Promise!Produce, Promise!Record, Record
  <2> QED BY <2>2 DEF Promise!Next
<1>2. CASE SkipPoison \/ DropDuplicate \/ Check \/ (\E sink \in Sinks : Decide(sink)) \/ Evict \/ UNCHANGED vars
  <2>1. raw' = raw /\ committed' = committed /\ first' = first /\ visible' = visible
    BY <1>2 DEF SkipPoison, DropDuplicate, Check, Decide, Evict, vars, logVars, kafkaVars
  <2> QED BY <2>1 DEF Promise!vars
<1>3. CASE Commit
  BY <1>3, CommitConsumes
<1>4. CASE ThreadDies \/ Throw \/ EngineDies
  <2>1. Restore /\ raw' = raw /\ visible' = visible
    BY <1>4 DEF ThreadDies, Throw, ThreadReplaced, EngineDies
  <2>2. CASE hasOffset
    <3>1. committed' = committed /\ first' = first
      BY <2>1, <2>2 DEF Restore
    <3> QED BY <2>1, <3>1 DEF Promise!vars
  <2>3. CASE ~hasOffset
    <3>1. committed = first /\ first' = Len(raw) /\ committed' = Len(raw)
      BY <2>1, <2>3 DEF Restore, EInv, Ordered
    <3>2. Promise!Join
      BY <2>1, <3>1 DEF Promise!Join
    <3> QED BY <3>2 DEF Promise!Next
  <2> QED BY <2>2, <2>3
<1> QED BY <1>1, <1>2, <1>3, <1>4 DEF Next, Process

\* A read_committed consumer sees one output per new transaction, none lost, in the order of the log, whatever
\* dies and whenever (docs/DESIGN.md, "Exactly-once and a dedup store"; the EXACTLY_ONCE_V2 topology of FraudTopology).
THEOREM EngineIsExactlyOnce == Spec => ImplementsExactlyOnce
<1>1. Init => Promise!Init
  <2> SUFFICES ASSUME Init PROVE Promise!Init
    OBVIOUS
  <2>1. raw = <<>> /\ committed = 0 /\ first = 0 /\ visible = <<>>
    BY DEF Init
  <2>2. OffsetsOf(visible) = <<>>
    <3>1. visible \in Seq(Output) /\ Len(visible) = 0
      BY <2>1
    <3>2. OffsetsOf(visible) \in Seq(Nat) /\ Len(OffsetsOf(visible)) = 0
      BY <3>1, OffsetsOfAsSet
    <3> QED BY <3>2, EmptySeq
  <2> QED BY <2>1, <2>2 DEF Promise!Init
<1>2. EInv /\ [Next]_vars => [Promise!Next]_(Promise!vars)
  BY EngineStepRefines
<1> QED BY <1>1, <1>2, EngineInvariant, PTL DEF Spec, ImplementsExactlyOnce, Promise!Spec

=============================================================================
