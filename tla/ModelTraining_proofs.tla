------------------------ MODULE ModelTraining_proofs ------------------------
(***************************************************************************)
(* Proofs about how models come to be, from the traffic to the scores.     *)
(* The registry (ModelRegistry): what a training may learn from and what   *)
(* it says of itself, that a start finds the newest version it can serve,  *)
(* and that a score comes from the model it names.  Then the topics: what  *)
(* the generator publishes and when (Generator), what a bounded reading    *)
(* has when it ends (TopicReader), and what the join of two such readings  *)
(* takes for fraud and for legitimate traffic (ProductionRecall).          *)
(***************************************************************************)
EXTENDS ModelRegistry, ProductionRecall, SequenceTheorems, FiniteSetTheorems, FunctionTheorems, WellFoundedInduction, TLAPS

-----------------------------------------------------------------------------
(* Numbers and finite sets *)

\* A set of numbers that is not empty has a least one.
LEMMA NatMin ==
  ASSUME NEW T \in SUBSET Nat, T # {}
  PROVE  \E x \in T : \A y \in T : x <= y
<1>1. PICK x \in T : \A y \in T : ~(<<y, x>> \in OpToRel(<, Nat))
  BY NatLessThanWellFounded, WFMin
<1>2. \A y \in T : ~(y < x)
  BY <1>1 DEF OpToRel
<1> QED BY <1>2

\* Induction, for a set of numbers.
LEMMA AllNumbers ==
  ASSUME NEW T, 0 \in T, \A k \in Nat : k \in T => k + 1 \in T
  PROVE  \A k \in Nat : k \in T
<1> SUFFICES ASSUME NEW k \in Nat, k \notin T PROVE FALSE
  OBVIOUS
<1> DEFINE Out == {i \in Nat : i \notin T}
<1>1. PICK m \in Out : \A i \in Out : m <= i
  <2>1. Out # {} /\ Out \in SUBSET Nat
    OBVIOUS
  <2> HIDE DEF Out
  <2> QED BY <2>1, NatMin
<1>2. m \in Nat /\ m # 0 /\ m \notin T
  BY <1>1
<1>3. m - 1 \in Nat /\ m - 1 \notin Out
  <2>1. m - 1 \in Nat /\ ~(m <= m - 1)
    BY <1>2
  <2> HIDE DEF Out
  <2> QED BY <1>1, <2>1
<1> QED BY <1>2, <1>3

\* A finite set of numbers that is not empty has a largest one.
LEMMA FiniteMax ==
  ASSUME NEW S \in SUBSET Int, IsFiniteSet(S), S # {}
  PROVE  \E x \in S : \A y \in S : y <= x
<1>n. PICK n \in Nat : ExistsBijection(1 .. n, S)
  BY FS_NatBijection
<1>1. PICK f \in Bijection(1 .. n, S) : TRUE
  BY <1>n DEF ExistsBijection
<1>2. f \in [1 .. n -> S] /\ \A y \in S : \E i \in 1 .. n : f[i] = y
  BY <1>1 DEF Bijection, Surjection
<1>v. \A i \in 1 .. n : f[i] \in Int /\ f[i] \in S
  BY <1>2
<1>3. n >= 1
  <2>1. PICK y \in S : TRUE
    OBVIOUS
  <2>2. PICK i \in 1 .. n : f[i] = y
    BY <1>2, <2>1
  <2> QED BY <2>2
<1> DEFINE T == {k \in Nat : k + 1 <= n => \E i \in 1 .. k + 1 : \A j \in 1 .. k + 1 : f[j] <= f[i]}
<1>4. 0 \in T
  <2>1. \A j \in 1 .. 0 + 1 : j = 1
    OBVIOUS
  <2>2. 1 \in 1 .. 0 + 1 /\ 1 \in 1 .. n
    BY <1>3
  <2> QED BY <2>1, <2>2, <1>v
<1>5. ASSUME NEW k \in Nat, k \in T PROVE k + 1 \in T
  <2> SUFFICES ASSUME k + 2 <= n
               PROVE  \E i \in 1 .. k + 2 : \A j \in 1 .. k + 2 : f[j] <= f[i]
    OBVIOUS
  <2>1. PICK i \in 1 .. k + 1 : \A j \in 1 .. k + 1 : f[j] <= f[i]
    BY <1>5
  <2>2. \A j \in 1 .. k + 2 : f[j] \in Int
    BY <1>v
  <2>0. \A j \in 1 .. k + 2 : j \in 1 .. k + 1 \/ j = k + 2
    OBVIOUS
  <2>3. CASE f[k + 2] <= f[i]
    <3>1. i \in 1 .. k + 2 /\ \A j \in 1 .. k + 2 : f[j] <= f[i]
      BY <2>0, <2>1, <2>3
    <3> QED BY <3>1
  <2>4. CASE ~(f[k + 2] <= f[i])
    <3>1. \A j \in 1 .. k + 1 : f[j] <= f[k + 2]
      BY <2>1, <2>2, <2>4
    <3>2. f[k + 2] <= f[k + 2]
      BY <2>2
    <3> QED BY <2>0, <3>1, <3>2
  <2> QED BY <2>3, <2>4
<1>6. n - 1 \in T
  <2> HIDE DEF T
  <2>1. n - 1 \in Nat
    BY <1>3
  <2> QED BY <1>4, <1>5, <2>1, AllNumbers
<1>7. PICK i \in 1 .. n : \A j \in 1 .. n : f[j] <= f[i]
  BY <1>3, <1>6
<1> QED BY <1>2, <1>7

\* The elements of a finite set, counted along a strict order of all of them.
LEMMA Ranked ==
  ASSUME NEW S, IsFiniteSet(S), NEW R,
         \A i \in S : <<i, i>> \notin R,
         \A i, j \in S : i # j => <<i, j>> \in R \/ <<j, i>> \in R,
         \A i, j, k \in S : <<i, j>> \in R /\ <<j, k>> \in R => <<i, k>> \in R
  PROVE  /\ \A i \in S : Cardinality({j \in S : <<j, i>> \in R}) \in 0 .. Cardinality(S) - 1
         /\ \A i, j \in S : <<i, j>> \in R =>
              Cardinality({k \in S : <<k, i>> \in R}) < Cardinality({k \in S : <<k, j>> \in R})
         /\ \A n \in 0 .. Cardinality(S) - 1 : \E i \in S : Cardinality({j \in S : <<j, i>> \in R}) = n
<1> DEFINE below(i) == {j \in S : <<j, i>> \in R}
           f == [i \in S |-> Cardinality(below(i))]
           size == Cardinality(S)
<1>1. size \in Nat
  BY FS_CardinalityType
<1>2. ASSUME NEW i \in S PROVE IsFiniteSet(below(i)) /\ Cardinality(below(i)) \in Nat /\ Cardinality(below(i)) < size
  <2>1. below(i) \in SUBSET S /\ below(i) # S
    OBVIOUS
  <2>2. IsFiniteSet(below(i)) /\ Cardinality(below(i)) <= size /\ Cardinality(below(i)) # size
    <3> HIDE DEF below
    <3> QED BY <2>1, FS_Subset
  <2>3. Cardinality(below(i)) \in Nat
    BY <2>2, FS_CardinalityType
  <2> QED BY <2>2, <2>3, <1>1
<1>3. ASSUME NEW i \in S, NEW j \in S, <<i, j>> \in R PROVE Cardinality(below(i)) < Cardinality(below(j))
  <2>1. below(i) \in SUBSET below(j) /\ below(i) # below(j)
    <3>1. below(i) \in SUBSET below(j)
      BY <1>3
    <3>2. i \in below(j) /\ i \notin below(i)
      BY <1>3
    <3> QED BY <3>1, <3>2
  <2>2. Cardinality(below(i)) <= Cardinality(below(j)) /\ Cardinality(below(i)) # Cardinality(below(j))
    <3>1. IsFiniteSet(below(j))
      BY <1>2
    <3> HIDE DEF below
    <3> QED BY <2>1, <3>1, FS_Subset
  <2>3. Cardinality(below(i)) \in Nat /\ Cardinality(below(j)) \in Nat
    BY <1>2
  <2> HIDE DEF below
  <2> QED BY <2>2, <2>3
<1>4. f \in Injection(S, 0 .. size - 1)
  <2>1. f \in [S -> 0 .. size - 1]
    <3>1. \A i \in S : Cardinality(below(i)) \in 0 .. size - 1
      <4> HIDE DEF below, size
      <4> QED BY <1>1, <1>2
    <3> HIDE DEF below, size
    <3> QED BY <3>1
  <2>2. ASSUME NEW i \in S, NEW j \in S, f[i] = f[j] PROVE i = j
    <3> SUFFICES ASSUME i # j PROVE FALSE
      OBVIOUS
    <3>1. f[i] < f[j] \/ f[j] < f[i]
      BY <1>3
    <3>2. f[i] \in Int /\ f[j] \in Int
      <4>1. f[i] = Cardinality(below(i)) /\ f[j] = Cardinality(below(j))
        OBVIOUS
      <4> HIDE DEF below, f
      <4> QED BY <1>2, <4>1
    <3> QED BY <2>2, <3>1, <3>2
  <2> HIDE DEF f
  <2> QED BY <2>1, <2>2 DEF Injection, IsInjective
<1>5. f \in Surjection(S, 0 .. size - 1)
  <2>1. IsFiniteSet(0 .. size - 1) /\ Cardinality(0 .. size - 1) = size
    <3> HIDE DEF size
    <3>1. 0 \in Int /\ size - 1 \in Int /\ (IF 0 > size - 1 THEN 0 ELSE (size - 1) - 0 + 1) = size
      BY <1>1
    <3> QED BY <3>1, FS_Interval
  <2> HIDE DEF f, size
  <2> QED BY <1>4, <2>1, FS_Injection DEF size
<1>6. \A n \in 0 .. size - 1 : \E i \in S : f[i] = n
  BY <1>5 DEF Surjection
<1>7. \A i \in S : f[i] = Cardinality(below(i))
  OBVIOUS
<1>8. \A i \in S : Cardinality(below(i)) \in 0 .. size - 1
  <2> HIDE DEF below, size
  <2> QED BY <1>1, <1>2
<1>9. \A n \in 0 .. size - 1 : \E i \in S : Cardinality(below(i)) = n
  <2> HIDE DEF below, f
  <2> QED BY <1>6, <1>7
<1> QED BY <1>3, <1>8, <1>9

\* The longest a subset of a sequence's places can be.
LEMMA PlacesFinite ==
  ASSUME NEW n \in Nat, NEW T \in SUBSET (1 .. n)
  PROVE  IsFiniteSet(T) /\ Cardinality(T) \in 0 .. n
<1>1. IsFiniteSet(1 .. n) /\ Cardinality(1 .. n) = n
  BY FS_Interval
<1>2. IsFiniteSet(T) /\ Cardinality(T) <= n
  BY <1>1, FS_Subset
<1> QED BY <1>2, FS_CardinalityType

-----------------------------------------------------------------------------
(* Training: the frame and its split *)

\* Ascending lists members of the set, and as many as it has.
LEMMA AscendingPicks ==
  ASSUME NEW n \in Nat, NEW T \in SUBSET (1 .. n)
  PROVE  /\ Cardinality(T) \in Nat
         /\ DOMAIN Ascending(T) = 1 .. Cardinality(T)
         /\ \A k \in 1 .. Cardinality(T) : Ascending(T)[k] \in T
<1> DEFINE R == {p \in T \X T : p[1] < p[2]}
           below(i) == {j \in T : j < i}
<1>1. IsFiniteSet(T) /\ Cardinality(T) \in Nat
  BY PlacesFinite
<1>2. \A i, j \in T : <<i, j>> \in R <=> i < j
  OBVIOUS
<1>3. /\ \A i \in T : <<i, i>> \notin R
      /\ \A i, j \in T : i # j => <<i, j>> \in R \/ <<j, i>> \in R
      /\ \A i, j, k \in T : <<i, j>> \in R /\ <<j, k>> \in R => <<i, k>> \in R
  <2> HIDE DEF R
  <2> QED BY <1>2
<1>4. \A m \in 0 .. Cardinality(T) - 1 : \E i \in T : Cardinality({j \in T : <<j, i>> \in R}) = m
  <2> HIDE DEF R
  <2> QED BY <1>1, <1>3, Ranked, ZenonT(60)
<1>5. \A i \in T : {j \in T : <<j, i>> \in R} = below(i)
  <2> HIDE DEF R
  <2> QED BY <1>2
<1>6. ASSUME NEW k \in 1 .. Cardinality(T) PROVE Ascending(T)[k] \in T
  <2>1. k - 1 \in 0 .. Cardinality(T) - 1
    BY <1>1
  <2>2. \E i \in T : Cardinality(below(i)) = k - 1
    <3> HIDE DEF R, below
    <3> QED BY <1>4, <1>5, <2>1
  <2>3. Ascending(T)[k] = CHOOSE i \in T : Cardinality(below(i)) = k - 1
    BY DEF Ascending
  <2> HIDE DEF below
  <2> QED BY <2>2, <2>3
<1> QED BY <1>1, <1>6 DEF Ascending

\* ByTime lists members of the set, as many as it has, and none is older than one listed before it.
LEMMA ByTimeSorts ==
  ASSUME NEW n \in Nat, NEW T \in SUBSET (1 .. n), NEW rows, \A i \in T : rows[i].ts \in Int
  PROVE  /\ Cardinality(T) \in Nat
         /\ DOMAIN ByTime(rows, T) = 1 .. Cardinality(T)
         /\ \A k \in 1 .. Cardinality(T) : ByTime(rows, T)[k] \in T
         /\ \A k, l \in 1 .. Cardinality(T) :
              k <= l => rows[ByTime(rows, T)[k]].ts <= rows[ByTime(rows, T)[l]].ts
<1> DEFINE R == {p \in T \X T : Before(rows, p[1], p[2])}
           below(i) == {j \in T : Before(rows, j, i)}
           order == ByTime(rows, T)
<1>1. IsFiniteSet(T) /\ Cardinality(T) \in Nat
  BY PlacesFinite
<1>2. \A i, j \in T : <<i, j>> \in R <=> Before(rows, i, j)
  OBVIOUS
<1>3. /\ \A i \in T : <<i, i>> \notin R
      /\ \A i, j \in T : i # j => <<i, j>> \in R \/ <<j, i>> \in R
      /\ \A i, j, k \in T : <<i, j>> \in R /\ <<j, k>> \in R => <<i, k>> \in R
  <2>1. \A i \in T : ~Before(rows, i, i)
    BY DEF Before
  <2>2. \A i, j \in T : i # j => Before(rows, i, j) \/ Before(rows, j, i)
    BY DEF Before
  <2>3. \A i, j, k \in T : Before(rows, i, j) /\ Before(rows, j, k) => Before(rows, i, k)
    BY DEF Before
  <2> HIDE DEF R
  <2> QED BY <1>2, <2>1, <2>2, <2>3
<1>4. \A i \in T : {j \in T : <<j, i>> \in R} = below(i)
  <2> HIDE DEF R
  <2> QED BY <1>2
<1>5. /\ \A m \in 0 .. Cardinality(T) - 1 : \E i \in T : Cardinality(below(i)) = m
      /\ \A i, j \in T : Before(rows, i, j) => Cardinality(below(i)) < Cardinality(below(j))
  <2>1. /\ \A m \in 0 .. Cardinality(T) - 1 : \E i \in T : Cardinality({j \in T : <<j, i>> \in R}) = m
        /\ \A i, j \in T : <<i, j>> \in R =>
             Cardinality({k \in T : <<k, i>> \in R}) < Cardinality({k \in T : <<k, j>> \in R})
    <3> HIDE DEF R
    <3> QED BY <1>1, <1>3, Ranked, ZenonT(60)
  <2> HIDE DEF R, below
  <2> QED BY <1>2, <1>4, <2>1
<1>6. ASSUME NEW k \in 1 .. Cardinality(T) PROVE order[k] \in T /\ Cardinality(below(order[k])) = k - 1
  <2>1. k - 1 \in 0 .. Cardinality(T) - 1
    BY <1>1
  <2>2. \E i \in T : Cardinality(below(i)) = k - 1
    <3> HIDE DEF below
    <3> QED BY <1>5, <2>1
  <2>3. order[k] = CHOOSE i \in T : Cardinality(below(i)) = k - 1
    BY DEF ByTime
  <2> HIDE DEF below, order
  <2> QED BY <2>2, <2>3
<1>7. ASSUME NEW k \in 1 .. Cardinality(T), NEW l \in 1 .. Cardinality(T), k <= l
      PROVE  rows[order[k]].ts <= rows[order[l]].ts
  <2>1. order[k] \in T /\ order[l] \in T /\ rows[order[k]].ts \in Int /\ rows[order[l]].ts \in Int
    <3> HIDE DEF order, below
    <3> QED BY <1>6
  <2>2. ~Before(rows, order[l], order[k])
    <3> HIDE DEF order, below
    <3>1. Cardinality(below(order[k])) = k - 1 /\ Cardinality(below(order[l])) = l - 1
      BY <1>6
    <3>2. ~(l - 1 < k - 1)
      BY <1>7
    <3> QED BY <1>5, <2>1, <3>1, <3>2
  <2> HIDE DEF order
  <2> QED BY <2>1, <2>2 DEF Before
<1> QED BY <1>1, <1>6, <1>7 DEF ByTime

\* What load_from_kafka returns is a sequence of rows, in the order of their times.
LEMMA FrameSorted ==
  ASSUME NEW decisions, decisions \in Seq(ToSet(decisions)), NEW labelled,
         \A d \in ToSet(decisions) : d.ts \in Int /\ d.p \in Int
  PROVE  /\ Frame(decisions, labelled) \in Seq(Rows)
         /\ \A k, l \in 1 .. Len(Frame(decisions, labelled)) :
              k <= l => Frame(decisions, labelled)[k].ts <= Frame(decisions, labelled)[l].ts
<1> DEFINE T == Usable(decisions)
           order == ByTime(decisions, T)
           frame == Frame(decisions, labelled)
           size == Cardinality(T)
           row(k) == [ts |-> decisions[order[k]].ts, y |-> decisions[order[k]].txn \in labelled, p |-> decisions[order[k]].p]
<1>1. Len(decisions) \in Nat /\ T \in SUBSET (1 .. Len(decisions))
  BY LenProperties DEF Usable
<1>2. \A i \in T : decisions[i].ts \in Int /\ decisions[i].p \in Int
  <2>1. \A i \in T : decisions[i] \in ToSet(decisions)
    BY <1>1, LenProperties DEF ToSet
  <2> HIDE DEF T
  <2> QED BY <2>1
<1>3. /\ size \in Nat /\ DOMAIN order = 1 .. size
      /\ \A k \in 1 .. size : order[k] \in T
      /\ \A k, l \in 1 .. size : k <= l => decisions[order[k]].ts <= decisions[order[l]].ts
  <2> HIDE DEF T
  <2> QED BY <1>1, <1>2, ByTimeSorts
<1>4. frame = [k \in 1 .. size |-> row(k)]
  <2>1. frame = [k \in DOMAIN order |-> row(k)]
    BY DEF Frame
  <2> HIDE DEF frame, row, order, size
  <2> QED BY <1>3, <2>1
<1>5. \A k \in 1 .. size : row(k) \in Rows
  <2> HIDE DEF order, size, T
  <2> QED BY <1>2, <1>3 DEF Rows
<1>6. frame \in Seq(Rows) /\ Len(frame) = size
  <2> HIDE DEF frame, row, order, size
  <2>1. frame \in [1 .. size -> Rows]
    BY <1>4, <1>5
  <2> QED BY <1>3, <2>1
<1>7. \A k, l \in 1 .. size : k <= l => frame[k].ts <= frame[l].ts
  <2>1. \A k \in 1 .. size : frame[k].ts = decisions[order[k]].ts
    <3>1. \A k \in 1 .. size : row(k).ts = decisions[order[k]].ts
      OBVIOUS
    <3> HIDE DEF frame, row, order, size
    <3> QED BY <1>4, <3>1
  <2> HIDE DEF frame, row, order, size
  <2> QED BY <1>3, <2>1
<1> HIDE DEF frame, size
<1> QED BY <1>6, <1>7 DEF frame

\* The two parts of a frame are sequences of rows, and none in the second is older than one of the first.
LEMMA SplitByTime ==
  ASSUME NEW frame \in Seq(Rows), \A k, l \in 1 .. Len(frame) : k <= l => frame[k].ts <= frame[l].ts
  PROVE  /\ TrainRows(frame) \in Seq(Rows) /\ TestRows(frame) \in Seq(Rows)
         /\ \A i \in DOMAIN TrainRows(frame), j \in DOMAIN TestRows(frame) :
              TrainRows(frame)[i].ts <= TestRows(frame)[j].ts
<1> DEFINE n == Len(frame)
           cut == Cut(frame)
<1>1. n \in Nat /\ frame \in [1 .. n -> Rows]
  BY LenProperties
<1>2. cut \in 0 .. n
  <2> DEFINE q == 100 - TestPercent
  <2>1. q \in 1 .. 99 /\ cut = (n * q) \div 100
    BY TrainingAssumption DEF Cut
  <2>2. n * q \in Nat /\ n * q <= n * 100
    <3> HIDE DEF n, q
    <3> QED BY <1>1, <2>1
  <2>3. \A x \in Nat : x <= n * 100 => x \div 100 \in 0 .. n
    <3> HIDE DEF n
    <3> QED BY <1>1
  <2> HIDE DEF n, q, cut
  <2> QED BY <2>1, <2>2, <2>3
<1>3. /\ SubSeq(frame, 1, cut) \in Seq(Rows)
      /\ Len(SubSeq(frame, 1, cut)) = cut
      /\ \A i \in 1 .. cut : SubSeq(frame, 1, cut)[i] = frame[i]
  <2> HIDE DEF n, cut
  <2>1. 1 \in Int /\ cut \in Int /\ \A i \in 1 .. cut : frame[i] \in Rows
    BY <1>1, <1>2
  <2>2. /\ SubSeq(frame, 1, cut) \in Seq(Rows)
        /\ Len(SubSeq(frame, 1, cut)) = IF 1 <= cut THEN cut - 1 + 1 ELSE 0
        /\ \A i \in 1 .. cut - 1 + 1 : SubSeq(frame, 1, cut)[i] = frame[1 + i - 1]
    BY <2>1, SubSeqProperties
  <2> QED BY <1>2, <2>2
<1>4. /\ SubSeq(frame, cut + 1, n) \in Seq(Rows)
      /\ Len(SubSeq(frame, cut + 1, n)) = n - cut
      /\ \A i \in 1 .. n - cut : SubSeq(frame, cut + 1, n)[i] = frame[cut + i]
  <2> HIDE DEF n, cut
  <2>1. cut + 1 \in Int /\ n \in Int /\ \A i \in cut + 1 .. n : frame[i] \in Rows
    BY <1>1, <1>2
  <2>2. /\ SubSeq(frame, cut + 1, n) \in Seq(Rows)
        /\ Len(SubSeq(frame, cut + 1, n)) = IF cut + 1 <= n THEN n - (cut + 1) + 1 ELSE 0
        /\ \A i \in 1 .. n - (cut + 1) + 1 : SubSeq(frame, cut + 1, n)[i] = frame[cut + 1 + i - 1]
    BY <2>1, SubSeqProperties
  <2>3. \A i \in Int : cut + 1 + i - 1 = cut + i
    BY <1>2
  <2> QED BY <1>1, <1>2, <2>2, <2>3
<1>5. DOMAIN SubSeq(frame, 1, cut) = 1 .. cut /\ DOMAIN SubSeq(frame, cut + 1, n) = 1 .. n - cut
  <2> HIDE DEF n, cut
  <2> QED BY <1>3, <1>4, LenProperties
<1>6. ASSUME NEW i \in 1 .. cut, NEW j \in 1 .. n - cut
      PROVE  frame[i].ts <= frame[cut + j].ts
  <2> HIDE DEF cut
  <2>1. i \in 1 .. Len(frame) /\ cut + j \in 1 .. Len(frame) /\ i <= cut + j
    BY <1>1, <1>2
  <2> QED BY <2>1
<1> HIDE DEF n, cut
<1> QED BY <1>3, <1>4, <1>5, <1>6 DEF TrainRows, TestRows, n, cut

\* What is counted over the rows of a frame are numbers.
LEMMA RowsCount ==
  ASSUME NEW rows \in Seq(Rows)
  PROVE  /\ Positives(rows) \in Nat
         /\ \A t : FlaggedAt(rows, t) \in Nat /\ CaughtAt(rows, t) \in Nat
<1>1. Len(rows) \in Nat /\ DOMAIN rows = 1 .. Len(rows)
  BY LenProperties
<1>2. \A T \in SUBSET (1 .. Len(rows)) : Cardinality(T) \in Nat
  BY <1>1, PlacesFinite
<1>3. {i \in DOMAIN rows : rows[i].y} \in SUBSET (1 .. Len(rows))
  BY <1>1
<1>4. \A t : {i \in DOMAIN rows : rows[i].p >= t} \in SUBSET (1 .. Len(rows))
  BY <1>1
<1>5. \A t : {i \in DOMAIN rows : rows[i].p >= t /\ rows[i].y} \in SUBSET (1 .. Len(rows))
  BY <1>1
<1> QED BY <1>2, <1>3, <1>4, <1>5 DEF Positives, FlaggedAt, CaughtAt

\* A ratio is rounded to a number, and not below where it would round to the next ten thousandth.
LEMMA RoundedNat ==
  ASSUME NEW a \in Nat, NEW b \in Nat
  PROVE  /\ Rounded(a, b) \in Nat
         /\ b # 0 => 2 * b * Rounded(a, b) <= 20000 * a + b
<1>1. CASE b = 0
  BY <1>1 DEF Rounded
<1>2. CASE b # 0
  <2> DEFINE x == 20000 * a + b
             d == 2 * b
             q == x \div d
  <2>1. x \in Nat /\ d \in Nat \ {0} /\ Rounded(a, b) = q
    BY <1>2 DEF Rounded
  <2>2. q \in Int /\ d * q <= x /\ x < d * (q + 1)
    <3> HIDE DEF x, d
    <3> QED BY <2>1
  <2>3. ASSUME q < 0 PROVE FALSE
    <3>1. d * (q + 1) <= 0 /\ d * (q + 1) \in Int
      <4>1. q + 1 \in Int /\ q + 1 <= 0
        <5> HIDE DEF q
        <5> QED BY <2>2, <2>3
      <4> HIDE DEF x, d, q
      <4> QED BY <2>1, <4>1
    <3> HIDE DEF x, d, q
    <3> QED BY <2>1, <2>2, <3>1
  <2> HIDE DEF q
  <2> QED BY <1>2, <2>1, <2>2, <2>3
<1> QED BY <1>1, <1>2

\* A rounded ratio is a number.
LEMMA RatioIsNat == \A a, b \in Nat : Rounded(a, b) \in Nat
<1> TAKE a \in Nat, b \in Nat
<1> QED BY RoundedNat

\* A ratio that is rounded to 98 % or more is 97.995 % at least.
LEMMA RoundedUp ==
  ASSUME NEW a \in Nat, NEW b \in Nat, Rounded(a, b) >= 9800
  PROVE  b > 0 /\ 20000 * a >= 19599 * b
<1> DEFINE q == Rounded(a, b)
<1>1. b # 0
  BY DEF Rounded
<1>2. q \in Nat /\ 2 * b * q <= 20000 * a + b
  BY <1>1, RoundedNat
<1>3. 2 * b * 9800 <= 2 * b * q /\ 2 * b * q \in Nat
  <2>1. 2 * b \in Nat /\ q \in Nat /\ q >= 9800
    BY <1>2
  <2> HIDE DEF q
  <2> QED BY <2>1
<1>4. 19600 * b <= 20000 * a + b
  <2>1. 2 * b * 9800 = 19600 * b /\ 20000 * a + b \in Nat
    OBVIOUS
  <2> HIDE DEF q
  <2> QED BY <1>2, <1>3, <2>1
<1> QED BY <1>1, <1>4

\* The thresholds a training suggests come from the list it tries, blocking was precise enough
\* where it is suggested, and it lies above reviewing.
LEMMA SuggestsSoundly ==
  ASSUME NEW rows \in Seq(Rows)
  PROVE  LET s == SuggestThresholds(Sweep(rows))
         IN  /\ s.block \in Int \cup {NoThreshold} /\ s.review \in Int
             /\ s = [block |-> s.block, review |-> s.review]
             /\ s.block # NoThreshold =>
                  /\ 20000 * CaughtAt(rows, s.block) >= 19599 * FlaggedAt(rows, s.block)
                  /\ FlaggedAt(rows, s.block) > 0
                  /\ s.review < s.block \/ s.block <= 5
<1> DEFINE entry(t) == [threshold |-> t, tp |-> CaughtAt(rows, t),
                        precision |-> Rounded(CaughtAt(rows, t), FlaggedAt(rows, t)),
                        f1 |-> Rounded(2 * CaughtAt(rows, t), FlaggedAt(rows, t) + Positives(rows))]
           table == {entry(t) : t \in Thresholds}
           lowest(found) == CHOOSE r \in found : \A s \in found : r.threshold <= s.threshold
           precise == {r \in table : r.precision >= 9800 /\ r.tp > 0}
           highest == {r \in table : \A s \in table : s.f1 <= r.f1}
           best == lowest(highest)
           block == lowest(precise).threshold
           review == IF best.threshold < block THEN best.threshold
                     ELSE IF block > 5 THEN block - 5 ELSE block
<1>1. Thresholds \subseteq 1 .. 99 /\ Thresholds # {} /\ NoThreshold \notin Int
  BY TrainingAssumption
<1>2. \A t \in Thresholds : /\ entry(t).threshold = t /\ entry(t).f1 \in Nat
                            /\ entry(t).precision = Rounded(CaughtAt(rows, t), FlaggedAt(rows, t))
  <2>1. \A t : 2 * CaughtAt(rows, t) \in Nat /\ FlaggedAt(rows, t) + Positives(rows) \in Nat
    BY RowsCount
  <2>2. \A t : Rounded(2 * CaughtAt(rows, t), FlaggedAt(rows, t) + Positives(rows)) \in Nat
    BY <2>1, RatioIsNat
  <2> QED BY <2>2
<1>3. \A r \in table : r.threshold \in Nat /\ r.threshold \in Thresholds /\ r.f1 \in Int
  <2> HIDE DEF entry
  <2> QED BY <1>1, <1>2
<1>4. ASSUME NEW found \in SUBSET table, found # {}
      PROVE  lowest(found) \in found
  <2> DEFINE ts == {r.threshold : r \in found}
  <2>1. ts \in SUBSET Nat /\ ts # {}
    <3> HIDE DEF table
    <3> QED BY <1>3, <1>4
  <2>2. PICK x \in ts : \A y \in ts : x <= y
    <3> HIDE DEF ts
    <3> QED BY <2>1, NatMin
  <2>3. \E r \in found : \A s \in found : r.threshold <= s.threshold
    BY <2>2
  <2> HIDE DEF table
  <2> QED BY <2>3
<1>5. highest # {}
  <2> DEFINE scores == {r.f1 : r \in table}
             f == [t \in Thresholds |-> entry(t).f1]
  <2>1. IsFiniteSet(Thresholds)
    <3>1. 99 \in Nat /\ Thresholds \in SUBSET (1 .. 99)
      BY <1>1
    <3> QED BY <3>1, PlacesFinite
  <2>2. f \in Surjection(Thresholds, scores)
    <3>1. f \in [Thresholds -> scores] /\ \A y \in scores : \E t \in Thresholds : f[t] = y
      <4> HIDE DEF entry
      <4> QED OBVIOUS
    <3> HIDE DEF f, scores
    <3> QED BY <3>1 DEF Surjection
  <2>3. scores \in SUBSET Int /\ scores # {}
    <3>1. scores \in SUBSET Int
      <4> HIDE DEF table
      <4> QED BY <1>3
    <3>2. scores # {}
      <4>1. PICK t \in Thresholds : TRUE
        BY <1>1
      <4>2. entry(t).f1 \in scores
        <5> HIDE DEF entry
        <5> QED OBVIOUS
      <4> HIDE DEF scores
      <4> QED BY <4>2
    <3> QED BY <3>1, <3>2
  <2>4. IsFiniteSet(scores)
    <3> HIDE DEF scores, f
    <3> QED BY <2>1, <2>2, FS_Surjection
  <2>5. PICK x \in scores : \A y \in scores : y <= x
    <3> HIDE DEF scores
    <3> QED BY <2>3, <2>4, FiniteMax
  <2>6. PICK r \in table : r.f1 = x
    <3> HIDE DEF table
    <3> QED BY <2>5
  <2>7. r \in highest
    <3> HIDE DEF table
    <3> QED BY <2>5, <2>6
  <2> QED BY <2>7
<1>6. best \in table /\ best.threshold \in Nat
  <2>1. highest \in SUBSET table
    OBVIOUS
  <2> HIDE DEF highest, lowest, table
  <2> QED BY <1>3, <1>4, <1>5, <2>1
<1>7. SuggestThresholds(Sweep(rows)) =
        IF precise = {} THEN [block |-> NoThreshold, review |-> best.threshold]
        ELSE [block |-> block, review |-> review]
  BY DEF SuggestThresholds, Sweep
<1>8. CASE precise = {}
  <2> HIDE DEF precise, best, block, review
  <2> QED BY <1>6, <1>7, <1>8
<1>9. CASE precise # {}
  <2>1. precise \in SUBSET table
    OBVIOUS
  <2>2. lowest(precise) \in precise
    <3> HIDE DEF precise, lowest, table
    <3> QED BY <1>4, <1>9, <2>1
  <2>3. PICK t \in Thresholds : lowest(precise) = entry(t) /\ entry(t).precision >= 9800
    <3> HIDE DEF lowest, entry
    <3> QED BY <2>2
  <2>4. block = t /\ block \in Nat
    <3> HIDE DEF lowest, entry, precise
    <3> QED BY <1>1, <1>2, <2>3
  <2>5. 20000 * CaughtAt(rows, block) >= 19599 * FlaggedAt(rows, block) /\ FlaggedAt(rows, block) > 0
    <3>1. Rounded(CaughtAt(rows, t), FlaggedAt(rows, t)) >= 9800
      <4> HIDE DEF entry
      <4> QED BY <1>2, <2>3
    <3>2. CaughtAt(rows, t) \in Nat /\ FlaggedAt(rows, t) \in Nat
      BY RowsCount
    <3>3. FlaggedAt(rows, t) > 0 /\ 20000 * CaughtAt(rows, t) >= 19599 * FlaggedAt(rows, t)
      <4> DEFINE a == CaughtAt(rows, t)
                 b == FlaggedAt(rows, t)
      <4>1. a \in Nat /\ b \in Nat /\ Rounded(a, b) >= 9800
        BY <3>1, <3>2
      <4> HIDE DEF a, b
      <4>2. b > 0 /\ 20000 * a >= 19599 * b
        BY <4>1, RoundedUp
      <4> QED BY <4>2 DEF a, b
    <3> HIDE DEF block
    <3> QED BY <2>4, <3>3
  <2>6. review \in Int /\ (review < block \/ block <= 5)
    <3> HIDE DEF best, block
    <3> QED BY <1>6, <2>4
  <2>7. block # NoThreshold
    <3> HIDE DEF block
    <3> QED BY <1>1, <2>4
  <2> HIDE DEF precise, best, block, review
  <2> QED BY <1>7, <1>9, <2>4, <2>5, <2>6, <2>7
<1> QED BY <1>8, <1>9
-----------------------------------------------------------------------------
(* The registry and the training that writes it *)

Written(v) == disk[v].meta \notin {NoFile, Torn}

\* What RegisteredHonestly asks of a meta.json.
Honest(m) ==
    /\ BothClasses(m.train)
    /\ \A i \in DOMAIN m.train, j \in DOMAIN m.test : m.train[i].ts <= m.test[j].ts
    /\ ~m.forced => Positives(m.test) >= MinTestPositives
    /\ m.suggested.block # NoThreshold =>
         /\ 20000 * CaughtAt(m.test, m.suggested.block) >= 19599 * FlaggedAt(m.test, m.suggested.block)
         /\ FlaggedAt(m.test, m.suggested.block) > 0
         /\ m.suggested.review < m.suggested.block \/ m.suggested.block <= 5

Fits(v, booster, meta) == meta.version = v /\ meta.features = booster.features

Files == [model : Boosters \cup {NoFile, Torn}, meta : Metas \cup {NoFile, Torn}]

RegistryTypes ==
    /\ disk \in [Versions -> Files]
    /\ trainer \in [step : {"idle", "fitted", "model", "modelled", "meta", "saved"}, version : Nat,
                    booster : Boosters \cup {Torn}, meta : Metas \cup {Torn}]
    /\ crashes \in Nat

\* A meta.json is there only after its model.json, and tells the truth about it.
DiskInv ==
    \A v \in Versions :
        /\ disk[v].model = NoFile => disk[v].meta = NoFile
        /\ Written(v) => /\ disk[v].model \in Boosters /\ disk[v].meta \in Metas
                         /\ Fits(v, disk[v].model, disk[v].meta)
                         /\ v \notin Shipped => Honest(disk[v].meta)

\* What a training has written so far is its own, and no meta.json was there before it.
TrainerInv ==
    trainer.step # "idle" =>
        /\ trainer.version \in Versions /\ trainer.booster \in Boosters /\ trainer.meta \in Metas
        /\ Fits(trainer.version, trainer.booster, trainer.meta) /\ Honest(trainer.meta)
        /\ trainer.step \in {"fitted", "model", "modelled"} => disk[trainer.version].meta = NoFile
        /\ trainer.step = "meta" => disk[trainer.version].meta = Torn
        /\ trainer.step \in {"modelled", "meta"} => disk[trainer.version].model = trainer.booster
        /\ trainer.step = "saved" => Written(trainer.version)

TrainingInv == RegistryTypes /\ DiskInv /\ TrainerInv

\* The newest of some versions is one of them, and none of them is newer.
LEMMA NewestIsMax ==
  ASSUME NEW T \in SUBSET Versions, T # {}
  PROVE  Newest(T) \in T /\ \A w \in T : w <= Newest(T)
<1>1. T \in SUBSET Int /\ IsFiniteSet(T)
  <2>1. IsFiniteSet(Versions) /\ Versions \in SUBSET Int
    BY RegistryAssumption
  <2>2. IsFiniteSet(T)
    BY <2>1, FS_Subset
  <2> QED BY <2>1, <2>2
<1>2. PICK x \in T : \A y \in T : y <= x
  BY <1>1, FiniteMax
<1>3. \A w \in T : ~Newer(w, x)
  BY <1>1, <1>2 DEF Newer
<1>4. Newest(T) \in T /\ \A w \in T : ~Newer(w, Newest(T))
  BY <1>2, <1>3 DEF Newest
<1>5. \A w \in T : ~(w > Newest(T))
  BY <1>4 DEF Newer
<1>6. \A w \in T : w \in Int /\ Newest(T) \in Int
  BY <1>1, <1>4
<1> QED BY <1>4, <1>5, <1>6

\* What a training fits, and the meta.json it has ready, whatever it read.
LEMMA TrainsHonestly ==
  ASSUME TrainingInv, NEW b \in Builds, NEW x \in Exclusions, NEW f \in Frames, NEW force \in BOOLEAN,
         Train(b, x, f, force)
  PROVE  RegistryTypes' /\ TrainerInv'
<1> DEFINE picked == {i \in DOMAIN b : b[i] \notin x}
           order == Ascending(picked)
           features == [k \in DOMAIN order |-> b[order[k]]]
           run == Cardinality({v \in Versions : disk[v].model # NoFile}) + crashes
           booster == [features |-> features, run |-> run]
           suggested == SuggestThresholds(Sweep(TestRows(f)))
           meta == [version |-> NextVersion, features |-> features, forced |-> force,
                    train |-> TrainRows(f), test |-> TestRows(f), suggested |-> suggested]
<1>1. /\ force \/ Trainable(f)
      /\ BothClasses(TrainRows(f)) /\ NextVersion \in Versions
      /\ trainer' = [step |-> "fitted", version |-> NextVersion, booster |-> booster, meta |-> meta]
      /\ disk' = disk /\ crashes' = crashes
  BY DEF Train
<1>2. features \in Seq(Names)
  <2>1. Len(b) \in Nat /\ DOMAIN b = 1 .. Len(b) /\ \A i \in 1 .. Len(b) : b[i] \in ToSet(b)
    BY RegistryAssumption, LenProperties
  <2>2. picked \in SUBSET (1 .. Len(b))
    BY <2>1
  <2>3. /\ Cardinality(picked) \in Nat /\ DOMAIN order = 1 .. Cardinality(picked)
        /\ \A k \in 1 .. Cardinality(picked) : order[k] \in picked
    <3> HIDE DEF picked
    <3> QED BY <2>1, <2>2, AscendingPicks
  <2>4. \A i \in picked : b[i] \in Names
    BY <2>1, <2>2 DEF Names
  <2>5. features \in [1 .. Cardinality(picked) -> Names]
    <3> HIDE DEF picked, order
    <3> QED BY <2>3, <2>4
  <2> HIDE DEF picked, order, features
  <2> QED BY <2>3, <2>5
<1>3. run \in Int
  <2>1. IsFiniteSet(Versions) /\ {v \in Versions : disk[v].model # NoFile} \in SUBSET Versions
    BY RegistryAssumption
  <2>2. Cardinality({v \in Versions : disk[v].model # NoFile}) \in Nat
    BY <2>1, FS_Subset, FS_CardinalityType
  <2> QED BY <2>2 DEF TrainingInv, RegistryTypes
<1>4. booster \in Boosters
  <2> HIDE DEF features, run
  <2> QED BY <1>2, <1>3 DEF Boosters
<1>5. /\ TrainRows(f) \in Seq(Rows) /\ TestRows(f) \in Seq(Rows)
      /\ \A i \in DOMAIN TrainRows(f), j \in DOMAIN TestRows(f) : TrainRows(f)[i].ts <= TestRows(f)[j].ts
  <2>1. PICK w \in Windows : f = Frame(w.decisions, w.labelled)
    BY DEF Frames
  <2>2. f \in Seq(Rows) /\ \A k, l \in 1 .. Len(f) : k <= l => f[k].ts <= f[l].ts
    <3>1. /\ w.decisions \in Seq(ToSet(w.decisions))
          /\ \A d \in ToSet(w.decisions) : d.ts \in Int /\ d.p \in Int
      BY RegistryAssumption
    <3> QED BY <2>1, <3>1, FrameSorted
  <2> QED BY <2>2, SplitByTime
<1>6. /\ suggested.block \in Int \cup {NoThreshold} /\ suggested.review \in Int
      /\ suggested = [block |-> suggested.block, review |-> suggested.review]
      /\ suggested.block # NoThreshold =>
           /\ 20000 * CaughtAt(TestRows(f), suggested.block) >= 19599 * FlaggedAt(TestRows(f), suggested.block)
           /\ FlaggedAt(TestRows(f), suggested.block) > 0
           /\ suggested.review < suggested.block \/ suggested.block <= 5
  BY <1>5, SuggestsSoundly
<1>7. meta \in Metas
  <2>1. suggested \in [block : Int \cup {NoThreshold}, review : Int \cup {NoThreshold}]
    <3> HIDE DEF suggested
    <3> QED BY <1>6
  <2> HIDE DEF features, suggested
  <2> QED BY <1>1, <1>2, <1>5, <2>1 DEF Metas
<1>8. Honest(meta)
  <2>1. ~force => Positives(TestRows(f)) >= MinTestPositives
    BY <1>1 DEF Trainable
  <2>2. /\ meta.train = TrainRows(f) /\ meta.test = TestRows(f) /\ meta.forced = force
        /\ meta.suggested = suggested
    <3> HIDE DEF suggested, features
    <3> QED OBVIOUS
  <2> HIDE DEF meta, suggested
  <2> QED BY <1>1, <1>5, <1>6, <2>1, <2>2 DEF Honest
<1>9. Fits(NextVersion, booster, meta)
  BY DEF Fits
<1>10. disk[NextVersion].meta = NoFile
  <2>1. NextVersion \notin Listed
    <3>1. CASE Listed = {}
      BY <3>1
    <3>2. CASE Listed # {}
      <4>1. Listed \in SUBSET Versions
        BY DEF Listed
      <4>2. Newest(Listed) \in Versions /\ \A w \in Listed : w <= Newest(Listed)
        <5> HIDE DEF Listed
        <5> QED BY <3>2, <4>1, NewestIsMax
      <4>3. NextVersion = Newest(Listed) + 1 /\ Newest(Listed) \in Nat
        BY <3>2, <4>2, RegistryAssumption DEF NextVersion
      <4> QED BY <4>2, <4>3
    <3> QED BY <3>1, <3>2
  <2> QED BY <1>1, <2>1 DEF Listed, TrainingInv, DiskInv
<1>11. RegistryTypes'
  <2>1. NextVersion \in Nat
    BY <1>1, RegistryAssumption
  <2> HIDE DEF booster, meta
  <2> QED BY <1>1, <1>4, <1>7, <2>1 DEF TrainingInv, RegistryTypes
<1>12. TrainerInv'
  <2> HIDE DEF booster, meta
  <2>1. /\ trainer'.step = "fitted" /\ trainer'.version = NextVersion
        /\ trainer'.booster = booster /\ trainer'.meta = meta
    BY <1>1
  <2> QED BY <1>1, <1>4, <1>7, <1>8, <1>9, <1>10, <2>1 DEF TrainerInv, Honest, Fits
<1> QED BY <1>11, <1>12

\* The other steps of a training: one file at a time, of its own version.
LEMMA SavesOwnVersion ==
  ASSUME TrainingInv, Save
  PROVE  /\ TrainingInv'
         /\ \A v \in Versions : Written(v) => disk'[v] = disk[v]
         /\ Listed \subseteq Listed'
<1> DEFINE w == trainer.version
<1>1. PICK from \in {"fitted", "model", "modelled", "meta"}, to \in {"model", "modelled", "meta", "saved"},
           file \in {"model", "meta"}, content \in {Torn, trainer.booster, trainer.meta} :
        /\ Saves(from, to, file, content)
        /\ \/ from = "fitted" /\ to = "model" /\ file = "model" /\ content = Torn
           \/ from = "model" /\ to = "modelled" /\ file = "model" /\ content = trainer.booster
           \/ from = "modelled" /\ to = "meta" /\ file = "meta" /\ content = Torn
           \/ from = "meta" /\ to = "saved" /\ file = "meta" /\ content = trainer.meta
  BY DEF Save
<1>2. /\ trainer.step = from /\ trainer' = [trainer EXCEPT !.step = to]
      /\ disk' = [disk EXCEPT ![trainer.version][file] = content] /\ crashes' = crashes
  BY <1>1 DEF Saves
<1>3. /\ w \in Versions /\ trainer.booster \in Boosters /\ trainer.meta \in Metas
      /\ Fits(w, trainer.booster, trainer.meta) /\ Honest(trainer.meta) /\ ~Written(w)
      /\ from \in {"fitted", "model", "modelled"} => disk[w].meta = NoFile
      /\ from = "meta" => disk[w].meta = Torn
      /\ from \in {"modelled", "meta"} => disk[w].model = trainer.booster
  BY <1>2 DEF TrainingInv, TrainerInv, Written
<1>4. NoFile # Torn /\ NoFile \notin Boosters \cup Metas /\ Torn \notin Boosters \cup Metas
  BY RegistryAssumption
<1>5. disk \in [Versions -> Files]
  BY DEF TrainingInv, RegistryTypes
<1>6. /\ \A v \in Versions : v # w => disk'[v] = disk[v]
      /\ from \in {"fitted", "model"} => disk'[w].meta = disk[w].meta /\ disk'[w].model = content
      /\ from \in {"modelled", "meta"} => disk'[w].meta = content /\ disk'[w].model = disk[w].model
  BY <1>1, <1>2, <1>3, <1>5 DEF Files
<1>7. disk' \in [Versions -> Files]
  BY <1>1, <1>2, <1>3, <1>5 DEF Files
<1>8. /\ trainer'.step = to /\ trainer'.version = w /\ trainer'.booster = trainer.booster /\ trainer'.meta = trainer.meta
      /\ RegistryTypes'
  BY <1>1, <1>2, <1>7 DEF TrainingInv, RegistryTypes
<1>9. disk[w].model = NoFile => disk[w].meta = NoFile
  BY <1>3 DEF TrainingInv, DiskInv
<1>10. TrainerInv'
  BY <1>1, <1>3, <1>4, <1>6, <1>8 DEF TrainerInv, Written, Fits, Honest
<1>11. ASSUME NEW v \in Versions
       PROVE  /\ disk'[v].model = NoFile => disk'[v].meta = NoFile
              /\ Written(v)' => /\ disk'[v].model \in Boosters /\ disk'[v].meta \in Metas
                                /\ Fits(v, disk'[v].model, disk'[v].meta)
                                /\ v \notin Shipped => Honest(disk'[v].meta)
  <2>1. CASE v # w
    BY <1>6, <2>1 DEF TrainingInv, DiskInv, Written
  <2>2. CASE v = w
    BY <1>1, <1>3, <1>4, <1>6, <1>9, <2>2 DEF Written
  <2> QED BY <2>1, <2>2
<1>12. DiskInv'
  BY <1>11 DEF DiskInv, Fits, Honest
<1>13. Listed \subseteq Listed'
  BY <1>1, <1>3, <1>4, <1>6 DEF Listed
<1> QED BY <1>3, <1>6, <1>8, <1>10, <1>12, <1>13 DEF TrainingInv

\* Every step keeps what the registry and the training promise, and every meta.json that was written.
LEMMA TrainingKept ==
  ASSUME TrainingInv, [Next]_vars
  PROVE  /\ TrainingInv'
         /\ \A v \in Versions : Written(v) => disk'[v] = disk[v]
         /\ Listed \subseteq Listed'
<1>1. CASE UNCHANGED trainVars
  BY <1>1 DEF trainVars, TrainingInv, RegistryTypes, DiskInv, TrainerInv, Written, Listed
<1>2. CASE Serving
  <2>1. UNCHANGED trainVars
    BY <1>2 DEF Serving, Start, TryLoad, StartWithout, ReloadReads, ReloadSwaps, ReloadBegins, Handles, Capture, Predict, Answered, Calls
  <2> QED BY <1>1, <2>1
<1>3. ASSUME NEW b \in Builds, NEW x \in Exclusions, NEW f \in Frames, NEW force \in BOOLEAN, Train(b, x, f, force)
      PROVE  TrainingInv' /\ disk' = disk
  <2>1. disk' = disk
    BY <1>3 DEF Train
  <2>2. RegistryTypes' /\ TrainerInv'
    BY <1>3, TrainsHonestly
  <2> QED BY <2>1, <2>2 DEF TrainingInv, DiskInv, Written
<1>4. CASE Save
  BY <1>4, SavesOwnVersion
<1>5. ASSUME disk' = disk, trainer' = NoTraining, crashes' \in Nat
      PROVE  TrainingInv'
  BY <1>5 DEF NoTraining, TrainingInv, RegistryTypes, DiskInv, TrainerInv, Written
<1>6. CASE Killed
  BY <1>5, <1>6 DEF Killed, TrainingInv, RegistryTypes, Listed
<1>7. CASE ReloadScorer
  BY <1>5, <1>7 DEF ReloadScorer, TrainingInv, RegistryTypes, Listed
<1>8. CASE UNCHANGED vars
  BY <1>1, <1>8 DEF vars
<1>9. CASE \E b \in Builds, x \in Exclusions, f \in Frames, force \in BOOLEAN : Train(b, x, f, force)
  BY <1>3, <1>9 DEF Listed
<1> QED BY <1>2, <1>4, <1>6, <1>7, <1>8, <1>9 DEF Next, Training

\* At the start the registry is empty or holds what the repository ships.
LEMMA TrainingInit ==
  ASSUME Init
  PROVE  TrainingInv
<1>1. trainer = NoTraining /\ crashes = 0
  BY DEF Init
<1>2. CASE disk \in [Versions -> [model : {NoFile}, meta : {NoFile}]]
  BY <1>1, <1>2 DEF TrainingInv, RegistryTypes, DiskInv, TrainerInv, NoTraining, Files, Written
<1>3. ASSUME NEW b \in Builds,
             disk = [v \in Versions |->
                     IF v \in Shipped
                     THEN [model |-> [features |-> b, run |-> -v],
                           meta  |-> [version |-> v, features |-> b, forced |-> TRUE, train |-> <<>>,
                                      test |-> <<>>, suggested |-> [block |-> NoThreshold, review |-> NoThreshold]]]
                     ELSE [model |-> NoFile, meta |-> NoFile]]
      PROVE  TrainingInv
  <2> DEFINE boosterOf(v) == [features |-> b, run |-> -v]
             metaOf(v) == [version |-> v, features |-> b, forced |-> TRUE, train |-> <<>>,
                           test |-> <<>>, suggested |-> [block |-> NoThreshold, review |-> NoThreshold]]
  <2>1. b \in Seq(Names)
    <3>1. b \in Seq(ToSet(b)) /\ ToSet(b) \subseteq Names
      BY RegistryAssumption DEF Names
    <3> QED BY <3>1, SeqMonotonic
  <2>2. \A v \in Versions : boosterOf(v) \in Boosters
    BY <2>1, RegistryAssumption DEF Boosters
  <2>3. \A v \in Versions : metaOf(v) \in Metas
    BY <2>1 DEF Metas
  <2>4. \A v \in Versions : Fits(v, boosterOf(v), metaOf(v))
    BY DEF Fits
  <2>5. \A v \in Versions : disk[v] = IF v \in Shipped THEN [model |-> boosterOf(v), meta |-> metaOf(v)]
                                      ELSE [model |-> NoFile, meta |-> NoFile]
    BY <1>3
  <2> HIDE DEF boosterOf, metaOf
  <2>6. disk \in [Versions -> Files]
    <3>1. disk = [v \in Versions |-> disk[v]]
      BY <1>3
    <3> QED BY <2>2, <2>3, <2>5, <3>1 DEF Files
  <2>7. DiskInv
    <3>1. ASSUME NEW v \in Shipped
          PROVE  /\ disk[v].model \in Boosters /\ disk[v].meta \in Metas
                 /\ Fits(v, disk[v].model, disk[v].meta) /\ disk[v].model # NoFile
      <4>1. v \in Versions
        BY RegistryAssumption
      <4>0. disk[v] = [model |-> boosterOf(v), meta |-> metaOf(v)]
        BY <2>5, <4>1
      <4>2. disk[v].model = boosterOf(v) /\ disk[v].meta = metaOf(v)
        BY <4>0
      <4> QED BY <2>2, <2>3, <2>4, <4>1, <4>2, RegistryAssumption
    <3>2. ASSUME NEW v \in Versions \ Shipped PROVE disk[v].model = NoFile /\ disk[v].meta = NoFile
      <4>1. disk[v] = [model |-> NoFile, meta |-> NoFile]
        BY <2>5
      <4> QED BY <4>1
    <3> QED BY <3>1, <3>2 DEF DiskInv, Written
  <2> QED BY <1>1, <2>6, <2>7 DEF TrainingInv, RegistryTypes, TrainerInv, NoTraining
<1> QED BY <1>2, <1>3 DEF Init

\* The registry and the training that writes it keep what they promise.
THEOREM RegistryHolds == Spec => []TrainingInv
<1>1. TrainingInv /\ [Next]_vars => TrainingInv'
  BY TrainingKept
<1> QED BY <1>1, TrainingInit, PTL DEF Spec

\* A version that can be read tells the truth about how it was measured.
THEOREM MeasuredHonestly == Spec => []RegisteredHonestly
<1>1. TrainingInv => RegisteredHonestly
  <2> SUFFICES ASSUME TrainingInv, NEW v \in Listed \ Shipped, Readable(v)
               PROVE  Honest(disk[v].meta) /\ disk[v].meta.version = v /\ disk[v].meta.features = disk[v].model.features
    BY DEF RegisteredHonestly, Honest
  <2>1. v \in Versions /\ Written(v)
    BY DEF Listed, Readable, Written
  <2> QED BY <2>1 DEF TrainingInv, DiskInv, Fits
<1> QED BY <1>1, RegistryHolds, PTL
-----------------------------------------------------------------------------
(* The process that serves *)

Bundles == [booster : Boosters \cup {Torn}, meta : Metas \cup {Torn}]

\* A bundle the process may answer from: all of a version that was written, made of features it knows.
Served(bundle) ==
    \E v \in Versions : Written(v) /\ bundle = Bundle(v) /\ Servable(bundle.meta.features, build)

ServingTypes ==
    /\ up \in {"down", "starting", "up"}
    /\ current \in Bundles
    /\ handler \in [Reloads -> [step : {"idle", "found", "read"}, version : Nat, bundle : Bundles]]
    /\ call = [c \in Scores |-> call[c]]

\* Whatever the process holds anywhere is a bundle it may answer from, and every answer is right.
ServingInv ==
    /\ current # NoModel => Served(current)
    /\ \A r \in Reloads : /\ handler[r].step = "found" => handler[r].version \in Listed
                          /\ handler[r].step = "read" => Served(handler[r].bundle)
    /\ \A c \in Scores : call[c].step = "running" => Served(call[c].bundle)

AnsweredInv ==
    \A c \in Scores : call[c].step = "answered" =>
        /\ call[c].version \in Versions /\ Written(call[c].version)
        /\ disk[call[c].version].model = [features |-> call[c].columns, run |-> call[c].run]

\* While it starts: what it owes is among what it has still to try, and what it tried was newer.
StartingInv ==
    up = "starting" =>
        /\ current = NoModel
        /\ untried \subseteq Listed /\ owed \subseteq untried
        /\ \A v \in owed : Written(v) /\ Loads(v)
        /\ \A u \in incompatible : u \in Versions /\ \A v \in untried : u > v

RegistryInv == TrainingInv /\ ServingTypes /\ ServingInv /\ AnsweredInv /\ StartingInv

\* A version that is listed and can be read was written.
LEMMA LoadsWritten ==
  ASSUME TrainingInv, NEW v \in Listed, Loads(v)
  PROVE  /\ v \in Versions /\ Written(v) /\ Bundle(v) \in Bundles /\ Served(Bundle(v))
         /\ Bundle(v) # NoModel /\ Bundle(v).meta.version = v
<1>1. v \in Versions /\ Written(v) /\ Servable(disk[v].meta.features, build)
  BY DEF Listed, Loads, Readable, Written
<1>2. /\ disk[v].model \in Boosters /\ disk[v].meta \in Metas /\ disk[v].meta # Torn
      /\ Fits(v, disk[v].model, disk[v].meta)
  BY <1>1 DEF TrainingInv, DiskInv, Written
<1>3. Bundle(v).booster = disk[v].model /\ Bundle(v).meta = disk[v].meta /\ NoModel.meta = Torn
  BY DEF Bundle, NoModel
<1>4. Bundle(v) \in Bundles
  BY <1>2 DEF Bundle, Bundles
<1>5. Served(Bundle(v))
  BY <1>1, <1>3 DEF Served
<1> QED BY <1>1, <1>2, <1>3, <1>4, <1>5 DEF Fits

\* What was written stays, and so does every bundle made of it, as long as the process lives.
LEMMA ServedKept ==
  ASSUME TrainingInv, build' = build,
         \A v \in Versions : Written(v) => disk'[v] = disk[v], NEW bundle, Served(bundle)
  PROVE  Served(bundle)'
<1>1. PICK v \in Versions : Written(v) /\ bundle = Bundle(v) /\ Servable(bundle.meta.features, build)
  BY DEF Served
<1>2. disk'[v] = disk[v]
  BY <1>1
<1>3. Written(v)' /\ Bundle(v)' = Bundle(v)
  BY <1>1, <1>2 DEF Written, Bundle
<1>4. \E w \in Versions : Written(w)' /\ bundle = Bundle(w)' /\ Servable(bundle.meta.features, build')
  BY <1>1, <1>3
<1> QED BY <1>4 DEF Served, Written, Bundle

\* The row of a call, taken by name, is the columns the model was trained on.
LEMMA ColumnsByName ==
  ASSUME NEW features, features = [i \in DOMAIN features |-> features[i]], Servable(features, build)
  PROVE  ByName(features) = features
<1>1. ASSUME NEW i \in DOMAIN features
      PROVE  build[CHOOSE k \in DOMAIN build : build[k] = features[i]] = features[i]
  <2>1. features[i] \in ToSet(build)
    BY DEF Servable, ToSet
  <2>2. \E k \in DOMAIN build : build[k] = features[i]
    BY <2>1 DEF ToSet
  <2> QED BY <2>2
<1>2. ByName(features) = [i \in DOMAIN features |-> features[i]]
  BY <1>1 DEF ByName, RowFromProto
<1> QED BY <1>2

\* A step of the training leaves the process as it is.
LEMMA TrainingLeavesServing ==
  ASSUME RegistryInv, [Next]_vars, UNCHANGED scorerVars
  PROVE  RegistryInv'
<1>1. /\ TrainingInv' /\ \A v \in Versions : Written(v) => disk'[v] = disk[v]
      /\ Listed \subseteq Listed'
  BY TrainingKept DEF RegistryInv
<1>2. /\ build' = build /\ up' = up /\ untried' = untried /\ current' = current
      /\ incompatible' = incompatible /\ handler' = handler /\ call' = call /\ owed' = owed
  BY DEF scorerVars
<1>3. \A bundle : Served(bundle) => Served(bundle)'
  BY <1>1, <1>2, ServedKept DEF RegistryInv
<1>4. \A v \in Versions : Written(v) => Written(v)' /\ (Loads(v) => Loads(v)')
  BY <1>1, <1>2 DEF Written, Loads, Readable
<1>5. ServingTypes'
  BY <1>2 DEF RegistryInv, ServingTypes
<1>6. ServingInv'
  <2>1. current' # NoModel => Served(current)'
    BY <1>2, <1>3 DEF RegistryInv, ServingInv, Served
  <2>2. ASSUME NEW r \in Reloads
        PROVE  /\ handler'[r].step = "found" => handler'[r].version \in Listed'
               /\ handler'[r].step = "read" => Served(handler[r].bundle)'
    BY <1>1, <1>2, <1>3 DEF RegistryInv, ServingInv
  <2>3. ASSUME NEW c \in Scores PROVE call'[c].step = "running" => Served(call[c].bundle)'
    BY <1>2, <1>3 DEF RegistryInv, ServingInv
  <2> QED BY <1>2, <2>1, <2>2, <2>3 DEF ServingInv, Served, Bundle, Written, NoModel
<1>7. AnsweredInv'
  BY <1>1, <1>2, <1>4 DEF RegistryInv, AnsweredInv, Written
<1>8. StartingInv'
  <2> SUFFICES ASSUME up = "starting"
               PROVE  /\ current' = NoModel /\ untried' \subseteq Listed' /\ owed' \subseteq untried'
                      /\ \A v \in owed' : Written(v)' /\ Loads(v)'
                      /\ \A u \in incompatible' : u \in Versions /\ \A v \in untried' : u > v
    BY <1>2 DEF StartingInv, NoModel
  <2>1. owed \subseteq Versions
    BY DEF RegistryInv, StartingInv, Listed
  <2> QED BY <1>1, <1>2, <1>4, <2>1 DEF RegistryInv, StartingInv
<1> QED BY <1>1, <1>5, <1>6, <1>7, <1>8 DEF RegistryInv

\* A start takes nothing over: what it owes is what is on the disk.
LEMMA StartKeeps ==
  ASSUME RegistryInv, NEW b \in Builds, Start(b)
  PROVE  RegistryInv'
<1>1. /\ build' = b /\ up' = "starting" /\ current' = NoModel /\ incompatible' = {} /\ untried' = Listed
      /\ handler' = [r \in Reloads |-> Idle]
      /\ call' = [c \in Scores |-> IF call[c].step = "running" THEN [step |-> "lost"] ELSE call[c]]
      /\ owed' = {v \in Versions : disk[v].model # NoFile /\ disk[v].meta # NoFile
                                   /\ Readable(v) /\ Servable(disk[v].meta.features, b)}
      /\ UNCHANGED trainVars
  BY DEF Start
<1>2. disk' = disk /\ trainer' = trainer /\ crashes' = crashes
  BY <1>1 DEF trainVars
<1>3. TrainingInv'
  BY <1>2 DEF RegistryInv, TrainingInv, RegistryTypes, DiskInv, TrainerInv, Written
<1>4. NoModel \in Bundles
  BY DEF NoModel, Bundles
<1>5. ServingTypes'
  BY <1>1, <1>4 DEF RegistryInv, ServingTypes, Idle
<1>6. \A c \in Scores : call'[c].step # "running" /\ (call'[c].step = "answered" => call'[c] = call[c])
  BY <1>1
<1>7. ServingInv'
  BY <1>1, <1>6 DEF ServingInv, Idle, NoModel
<1>8. AnsweredInv'
  BY <1>2, <1>6 DEF RegistryInv, AnsweredInv, Written
<1>9. ASSUME NEW v \in owed' PROVE v \in Listed' /\ Written(v)' /\ Loads(v)'
  BY <1>1, <1>2 DEF Listed, Written, Readable, Loads
<1>10. untried' = Listed'
  BY <1>1, <1>2 DEF Listed
<1>11. StartingInv'
  BY <1>1, <1>9, <1>10 DEF StartingInv, NoModel
<1> QED BY <1>3, <1>5, <1>7, <1>8, <1>11 DEF RegistryInv

\* A step of the process that leaves the disk and the build as they are keeps what is true of bundles.
LEMMA ProcessSteps ==
  ASSUME RegistryInv, UNCHANGED trainVars, build' = build
  PROVE  /\ TrainingInv' /\ Listed' = Listed
         /\ \A v : Written(v)' = Written(v) /\ Loads(v)' = Loads(v)
         /\ \A bundle : Served(bundle)' = Served(bundle)
<1>1. disk' = disk /\ trainer' = trainer /\ crashes' = crashes
  BY DEF trainVars
<1>2. TrainingInv'
  BY <1>1 DEF RegistryInv, TrainingInv, RegistryTypes, DiskInv, TrainerInv, Written
<1>3. \A v : Written(v)' = Written(v) /\ Loads(v)' = Loads(v)
  BY <1>1 DEF Written, Loads, Readable
<1>4. ASSUME NEW bundle PROVE Served(bundle)' = Served(bundle)
  BY <1>1 DEF Served, Written, Bundle
<1> QED BY <1>1, <1>2, <1>3, <1>4 DEF Listed

\* try_load_latest goes down the versions, and what it must not skip it never drops.
LEMMA TryLoadKeeps ==
  ASSUME RegistryInv, TryLoad
  PROVE  /\ RegistryInv'
         /\ up' = "up" => /\ current' # NoModel /\ \A v \in owed : v <= current'.meta.version
                          /\ \A u \in incompatible' : u > current'.meta.version
<1> DEFINE v == Newest(untried)
<1>1. /\ up = "starting" /\ untried # {} /\ UNCHANGED trainVars /\ build' = build
      /\ handler' = handler /\ call' = call /\ owed' = owed
      /\ Loads(v) => current' = Bundle(v) /\ untried' = {} /\ up' = "up" /\ incompatible' = incompatible
      /\ ~Loads(v) => /\ incompatible' = incompatible \cup {v} /\ untried' = untried \ {v}
                      /\ current' = current /\ up' = up
  BY DEF TryLoad
<1>2. /\ current = NoModel /\ untried \subseteq Listed /\ owed \subseteq untried
      /\ \A w \in owed : Written(w) /\ Loads(w)
      /\ \A u \in incompatible : u \in Versions /\ \A w \in untried : u > w
  BY <1>1 DEF RegistryInv, StartingInv
<1>3. untried \in SUBSET Versions /\ Versions \subseteq Nat
  BY <1>2, RegistryAssumption DEF Listed
<1>4. v \in untried /\ v \in Listed /\ \A w \in untried : w <= v
  <2>1. v \in untried /\ \A w \in untried : w <= v
    BY <1>1, <1>3, NewestIsMax
  <2> QED BY <1>2, <2>1
<1>5. /\ TrainingInv' /\ Listed' = Listed
      /\ \A w : Written(w)' = Written(w) /\ Loads(w)' = Loads(w)
      /\ \A bundle : Served(bundle)' = Served(bundle)
  BY <1>1, ProcessSteps
<1> HIDE DEF v
<1>6. ASSUME Loads(v)
      PROVE  /\ current' = Bundle(v) /\ current' \in Bundles /\ Served(current')
             /\ current' # NoModel /\ current'.meta.version = v
  BY <1>1, <1>4, <1>6, LoadsWritten DEF RegistryInv
<1>7. ServingTypes'
  <2>1. current' \in Bundles /\ up' \in {"down", "starting", "up"}
    BY <1>1, <1>6 DEF RegistryInv, ServingTypes
  <2> QED BY <1>1, <2>1 DEF RegistryInv, ServingTypes
<1>8. ServingInv'
  <2>1. ASSUME NEW b, current' # NoModel, b = current' PROVE Served(b)'
    <3>1. Loads(v)
      BY <1>1, <1>2, <2>1
    <3>2. Served(b)
      BY <1>6, <2>1, <3>1
    <3> QED BY <1>5, <3>2
  <2>2. ASSUME NEW r \in Reloads
        PROVE  /\ handler'[r].step = "found" => handler'[r].version \in Listed'
               /\ handler'[r].step = "read" => Served(handler[r].bundle)'
    BY <1>1, <1>5 DEF RegistryInv, ServingInv
  <2>3. ASSUME NEW c \in Scores PROVE call'[c].step = "running" => Served(call[c].bundle)'
    BY <1>1, <1>5 DEF RegistryInv, ServingInv
  <2> QED BY <1>1, <2>1, <2>2, <2>3 DEF ServingInv, Served, Bundle, Written, NoModel
<1>9. AnsweredInv'
  BY <1>1, <1>5 DEF RegistryInv, AnsweredInv, trainVars
<1>10. StartingInv'
  <2>1. CASE Loads(v)
    BY <1>1, <2>1 DEF StartingInv
  <2>2. CASE ~Loads(v)
    <3>1. v \notin owed
      BY <1>2, <2>2
    <3>2. \A w \in untried \ {v} : v > w
      BY <1>3, <1>4
    <3>3. v \in Versions
      BY <1>3, <1>4
    <3> QED BY <1>1, <1>2, <1>5, <2>2, <3>1, <3>2, <3>3 DEF StartingInv, NoModel
  <2> QED BY <2>1, <2>2
<1>11. ASSUME up' = "up"
       PROVE  /\ current' # NoModel /\ \A w \in owed : w <= current'.meta.version
              /\ \A u \in incompatible' : u > current'.meta.version
  <2>1. Loads(v)
    BY <1>1, <1>11
  <2> QED BY <1>1, <1>2, <1>4, <1>6, <2>1
<1> QED BY <1>5, <1>7, <1>8, <1>9, <1>10, <1>11 DEF RegistryInv

\* What the other steps of the process change: a handler, what is served, one call.
LEMMA ServingSteps ==
  ASSUME RegistryInv, TrainingInv', Listed' = Listed, \A w : Written(w)' = Written(w),
         \A bundle : Served(bundle)' = Served(bundle), \A w \in Versions : Written(w) => disk'[w] = disk[w],
         up' = "up", ServingTypes', NEW bundle, current' = bundle, bundle # NoModel => Served(bundle),
         \A r \in Reloads : handler'[r] = handler[r] \/
           /\ handler'[r].step = "found" => handler'[r].version \in Listed
           /\ handler'[r].step = "read" => Served(handler'[r].bundle),
         \A c \in Scores : call'[c] = call[c] \/
           /\ call'[c].step = "running" => Served(call'[c].bundle)
           /\ call'[c].step = "answered" =>
                /\ call'[c].version \in Versions /\ Written(call'[c].version)
                /\ disk[call'[c].version].model = [features |-> call'[c].columns, run |-> call'[c].run]
  PROVE  RegistryInv'
<1>1. ServingInv'
  <2>1. bundle # NoModel => Served(bundle)'
    OBVIOUS
  <2>2. ASSUME NEW r \in Reloads
        PROVE  /\ handler'[r].step = "found" => handler'[r].version \in Listed'
               /\ \A b : b = handler'[r].bundle /\ handler'[r].step = "read" => Served(b)'
    <3>1. /\ handler[r].step = "found" => handler[r].version \in Listed
          /\ handler[r].step = "read" => Served(handler[r].bundle)
      BY DEF RegistryInv, ServingInv
    <3> QED BY <3>1
  <2>3. ASSUME NEW c \in Scores, NEW b, b = call'[c].bundle, call'[c].step = "running" PROVE Served(b)'
    <3>1. call[c].step = "running" => Served(call[c].bundle)
      BY DEF RegistryInv, ServingInv
    <3> QED BY <2>3, <3>1
  <2> QED BY <2>1, <2>2, <2>3 DEF ServingInv, Served, Bundle, Written, NoModel
<1>2. ASSUME NEW c \in Scores, call'[c].step = "answered"
      PROVE  /\ call'[c].version \in Versions /\ disk'[call'[c].version].meta \notin {NoFile, Torn}
             /\ disk'[call'[c].version].model = [features |-> call'[c].columns, run |-> call'[c].run]
  <2>1. /\ call'[c].version \in Versions /\ Written(call'[c].version)
        /\ disk[call'[c].version].model = [features |-> call'[c].columns, run |-> call'[c].run]
    BY <1>2 DEF RegistryInv, AnsweredInv
  <2> DEFINE w == call'[c].version
  <2>2. w \in Versions /\ disk'[w] = disk[w] /\ disk'[w].meta \notin {NoFile, Torn}
    BY <2>1 DEF Written
  <2> QED BY <2>1, <2>2 DEF Written
<1>3. AnsweredInv'
  BY <1>2 DEF AnsweredInv, Written
<1>4. StartingInv'
  BY DEF StartingInv
<1> QED BY <1>1, <1>3, <1>4 DEF RegistryInv

\* The servers start although no version could be served: nothing was owed.
LEMMA StartWithoutKeeps ==
  ASSUME RegistryInv, StartWithout
  PROVE  RegistryInv' /\ current' = NoModel /\ owed = {}
<1>1. /\ up = "starting" /\ untried = {} /\ up' = "up" /\ UNCHANGED trainVars /\ build' = build
      /\ current' = current /\ handler' = handler /\ call' = call
  BY DEF StartWithout
<1>2. current = NoModel /\ owed = {}
  BY <1>1 DEF RegistryInv, StartingInv
<1>3. /\ TrainingInv' /\ Listed' = Listed /\ disk' = disk
      /\ \A w : Written(w)' = Written(w) /\ \A bundle : Served(bundle)' = Served(bundle)
  BY <1>1, ProcessSteps DEF trainVars
<1>4. ServingTypes'
  BY <1>1 DEF RegistryInv, ServingTypes
<1>5. RegistryInv'
  BY <1>1, <1>2, <1>3, <1>4, ServingSteps
<1> QED BY <1>1, <1>2, <1>5

\* The three steps of a reload: a version that is listed is found, read whole or refused, and served.
LEMMA ReloadKeeps ==
  ASSUME RegistryInv, NEW r \in Reloads,
         ReloadReads(r) \/ ReloadSwaps(r) \/ \E v \in Versions : ReloadBegins(r, v)
  PROVE  RegistryInv'
<1>1. /\ up = "up" /\ up' = "up" /\ UNCHANGED trainVars /\ build' = build /\ call' = call
  BY DEF ReloadReads, ReloadSwaps, ReloadBegins, Handles
<1>2. /\ TrainingInv' /\ Listed' = Listed /\ disk' = disk
      /\ \A w : Written(w)' = Written(w) /\ \A bundle : Served(bundle)' = Served(bundle)
  BY <1>1, ProcessSteps DEF trainVars
<1>3. /\ handler \in [Reloads -> [step : {"idle", "found", "read"}, version : Nat, bundle : Bundles]]
      /\ current \in Bundles /\ NoModel \in Bundles /\ (current # NoModel => Served(current))
  BY DEF RegistryInv, ServingTypes, ServingInv, Bundles, NoModel
<1> DEFINE Good(h) == /\ h \in [step : {"idle", "found", "read"}, version : Nat, bundle : Bundles]
                      /\ h.step = "found" => h.version \in Listed
                      /\ h.step = "read" => Served(h.bundle)
<1>4. ASSUME NEW h, Good(h), handler' = [handler EXCEPT ![r] = h], current' \in Bundles,
             current' # NoModel => Served(current')
      PROVE  RegistryInv'
  <2>1. ServingTypes'
    BY <1>1, <1>3, <1>4 DEF RegistryInv, ServingTypes
  <2>2. \A q \in Reloads : handler'[q] = handler[q] \/ Good(handler'[q])
    <3> HIDE DEF Good
    <3> QED BY <1>3, <1>4
  <2>3. \A b : b = current' /\ b # NoModel => Served(b)
    BY <1>4
  <2> QED BY <1>1, <1>2, <1>4, <2>1, <2>2, <2>3, ServingSteps
<1>5. ASSUME NEW v \in Versions, ReloadBegins(r, v) PROVE RegistryInv'
  <2> DEFINE h == [step |-> "found", version |-> v, bundle |-> NoModel]
  <2>1. v \in Listed /\ handler' = [handler EXCEPT ![r] = h] /\ current' = current
    BY <1>5 DEF ReloadBegins, Handles
  <2>2. Good(h)
    BY <1>3, <2>1, RegistryAssumption
  <2> HIDE DEF Good, h
  <2> QED BY <1>3, <1>4, <2>1, <2>2
<1>6. ASSUME ReloadReads(r) PROVE RegistryInv'
  <2> DEFINE v == handler[r].version
             h == IF Loads(v) THEN [handler[r] EXCEPT !.step = "read", !.bundle = Bundle(v)] ELSE Idle
  <2>1. handler[r].step = "found" /\ handler' = [handler EXCEPT ![r] = h] /\ current' = current
    BY <1>6 DEF ReloadReads, Handles
  <2>2. v \in Listed /\ v \in Nat
    BY <1>3, <2>1 DEF RegistryInv, ServingInv
  <2>3. CASE Loads(v)
    <3>1. Bundle(v) \in Bundles /\ Served(Bundle(v))
      <4> HIDE DEF v
      <4> QED BY <2>2, <2>3, LoadsWritten DEF RegistryInv
    <3>2. h = [step |-> "read", version |-> v, bundle |-> Bundle(v)]
      BY <1>3, <2>3
    <3>3. Good(h)
      <4> HIDE DEF v, h
      <4> QED BY <2>2, <3>1, <3>2
    <3> HIDE DEF Good, h
    <3> QED BY <1>3, <1>4, <2>1, <3>3
  <2>4. CASE ~Loads(v)
    <3>1. Good(h)
      BY <1>3, <2>4 DEF Idle
    <3> HIDE DEF Good, h
    <3> QED BY <1>3, <1>4, <2>1, <3>1
  <2> QED BY <2>3, <2>4
<1>7. ASSUME ReloadSwaps(r) PROVE RegistryInv'
  <2>1. handler[r].step = "read" /\ handler' = [handler EXCEPT ![r] = Idle] /\ current' = handler[r].bundle
    BY <1>7 DEF ReloadSwaps, Handles
  <2>2. Good(Idle)
    BY <1>3 DEF Idle
  <2>3. handler[r].bundle \in Bundles /\ Served(handler[r].bundle)
    BY <1>3, <2>1 DEF RegistryInv, ServingInv
  <2>4. current' \in Bundles /\ (current' # NoModel => Served(current'))
    BY <2>1, <2>3
  <2> HIDE DEF Good
  <2> QED BY <1>4, <2>1, <2>2, <2>4
<1> QED BY <1>5, <1>6, <1>7

\* The reload a training asks for is like any other.
LEMMA ReloadScorerKeeps ==
  ASSUME RegistryInv, ReloadScorer
  PROVE  RegistryInv'
<1>1. CASE UNCHANGED handler
  <2>1. UNCHANGED scorerVars /\ [Next]_vars
    BY <1>1 DEF ReloadScorer, scorerVars, Next, Training
  <2> QED BY <2>1, TrainingLeavesServing
<1>2. ASSUME NEW r \in Reloads, up = "up",
             handler' = [handler EXCEPT ![r] = [step |-> "found", version |-> trainer.version, bundle |-> NoModel]]
      PROVE  RegistryInv'
  <2>1. /\ trainer.step = "saved" /\ disk' = disk /\ build' = build /\ up' = up
        /\ current' = current /\ call' = call
    BY DEF ReloadScorer
  <2>2. TrainingInv' /\ Listed' = Listed
    <3>1. TrainingInv'
      BY TrainingKept DEF RegistryInv, Next, Training
    <3> QED BY <2>1, <3>1 DEF Listed
  <2>3. trainer.version \in Listed /\ trainer.version \in Nat
    <3>1. trainer.version \in Versions /\ Written(trainer.version)
      BY <2>1 DEF RegistryInv, TrainingInv, TrainerInv
    <3> QED BY <3>1, RegistryAssumption DEF RegistryInv, TrainingInv, DiskInv, Written, Listed
  <2>4. /\ \A w : Written(w)' = Written(w)
        /\ \A bundle : Served(bundle)' = Served(bundle)
    BY <2>1 DEF Served, Written, Bundle
  <2>5. NoModel \in Bundles
    BY DEF Bundles, NoModel
  <2>6. ServingTypes'
    BY <1>2, <2>1, <2>3, <2>5 DEF RegistryInv, ServingTypes
  <2>7. \A q \in Reloads : handler'[q] = handler[q] \/
          /\ handler'[q].step = "found" => handler'[q].version \in Listed
          /\ handler'[q].step = "read" => Served(handler'[q].bundle)
    BY <1>2, <2>3 DEF RegistryInv, ServingTypes
  <2>8. current # NoModel => Served(current)
    BY DEF RegistryInv, ServingInv
  <2> QED BY <1>2, <2>1, <2>2, <2>4, <2>6, <2>7, <2>8, ServingSteps
<1> QED BY <1>1, <1>2 DEF ReloadScorer

\* A call takes its bundle once, and answers from it.
LEMMA ScoreKeeps ==
  ASSUME RegistryInv, NEW c \in Scores, Capture(c) \/ Predict(c)
  PROVE  RegistryInv'
<1>1. /\ up = "up" /\ up' = "up" /\ UNCHANGED trainVars /\ build' = build
      /\ handler' = handler /\ current' = current
  BY DEF Capture, Predict, Answered, Calls
<1>2. /\ TrainingInv' /\ Listed' = Listed /\ disk' = disk
      /\ \A w : Written(w)' = Written(w) /\ \A bundle : Served(bundle)' = Served(bundle)
  BY <1>1, ProcessSteps DEF trainVars
<1>3. call = [d \in Scores |-> call[d]] /\ (current # NoModel => Served(current))
  BY DEF RegistryInv, ServingTypes, ServingInv
<1>4. ASSUME NEW result, call' = [call EXCEPT ![c] = result],
             result.step = "running" => Served(result.bundle),
             result.step = "answered" =>
                /\ result.version \in Versions /\ Written(result.version)
                /\ disk[result.version].model = [features |-> result.columns, run |-> result.run]
      PROVE  RegistryInv'
  <2>1. /\ \A d \in Scores : call'[d] = IF d = c THEN result ELSE call[d]
        /\ call' = [d \in Scores |-> call'[d]]
    BY <1>3, <1>4
  <2>2. ServingTypes'
    BY <1>1, <2>1 DEF RegistryInv, ServingTypes
  <2>3. \A d \in Scores : call'[d] = call[d] \/
           /\ call'[d].step = "running" => Served(call'[d].bundle)
           /\ call'[d].step = "answered" =>
                /\ call'[d].version \in Versions /\ Written(call'[d].version)
                /\ disk[call'[d].version].model = [features |-> call'[d].columns, run |-> call'[d].run]
    BY <1>4, <2>1
  <2> QED BY <1>1, <1>2, <1>3, <2>2, <2>3, ServingSteps
<1>5. ASSUME Capture(c) PROVE RegistryInv'
  <2>1. CASE current = NoModel
    <3>1. call' = [call EXCEPT ![c] = [step |-> "no_model"]]
      BY <1>5, <2>1 DEF Capture, Calls
    <3> QED BY <1>4, <3>1
  <2>2. CASE current # NoModel
    <3>1. call' = [call EXCEPT ![c] = [step |-> "running", bundle |-> current]]
      BY <1>5, <2>2 DEF Capture, Calls
    <3> QED BY <1>3, <1>4, <2>2, <3>1
  <2> QED BY <2>1, <2>2
<1>6. ASSUME Predict(c) PROVE RegistryInv'
  <2> DEFINE bundle == call[c].bundle
             columns == ByName(bundle.meta.features)
             result == [step |-> "answered", version |-> bundle.meta.version,
                        columns |-> columns, run |-> bundle.booster.run]
  <2>1. call[c].step = "running" /\ call' = [call EXCEPT ![c] = result]
    BY <1>6 DEF Predict, Answered, Calls
  <2>2. PICK v \in Versions : Written(v) /\ bundle = Bundle(v) /\ Servable(bundle.meta.features, build)
    BY <2>1 DEF RegistryInv, ServingInv, Served
  <2>3. /\ disk[v].model \in Boosters /\ disk[v].meta \in Metas
        /\ disk[v].meta.version = v /\ disk[v].meta.features = disk[v].model.features
    BY <2>2 DEF RegistryInv, TrainingInv, DiskInv, Fits
  <2>4. /\ bundle.meta.version = v /\ bundle.meta.features = disk[v].model.features
        /\ bundle.booster = disk[v].model
    BY <2>2, <2>3 DEF Bundle
  <2> HIDE DEF bundle
  <2>5. columns = disk[v].model.features
    <3>1. bundle.meta.features \in Seq(Names)
      BY <2>3, <2>4 DEF Boosters
    <3>2. bundle.meta.features = [i \in DOMAIN bundle.meta.features |-> bundle.meta.features[i]]
      BY <3>1, LenProperties
    <3> QED BY <2>2, <2>4, <3>2, ColumnsByName
  <2>6. disk[v].model = [features |-> columns, run |-> bundle.booster.run]
    BY <2>3, <2>4, <2>5 DEF Boosters
  <2> HIDE DEF columns
  <2>7. /\ result.step = "answered" /\ result.version = v /\ result.columns = columns
        /\ result.run = bundle.booster.run
    BY <2>4
  <2> HIDE DEF result
  <2> QED BY <1>4, <2>1, <2>2, <2>6, <2>7
<1> QED BY <1>5, <1>6

\* The registry, and the process that serves from it, keep what they promise.
LEMMA RegistryKept ==
  ASSUME RegistryInv, [Next]_vars
  PROVE  RegistryInv'
<1>1. CASE UNCHANGED scorerVars
  BY <1>1, TrainingLeavesServing
<1>2. CASE Training
  <2>1. (\E b \in Builds, x \in Exclusions, f \in Frames, force \in BOOLEAN : Train(b, x, f, force)) \/ Save \/ Killed
        => UNCHANGED scorerVars
    BY DEF Train, Save, Saves, Killed
  <2> QED BY <1>1, <1>2, <2>1, ReloadScorerKeeps DEF Training
<1>3. CASE Serving
  <2>1. (\E b \in Builds : Start(b)) => RegistryInv'
    BY StartKeeps
  <2>2. (\E r \in Reloads : ReloadReads(r) \/ ReloadSwaps(r) \/ \E v \in Versions : ReloadBegins(r, v)) => RegistryInv'
    BY ReloadKeeps
  <2>3. (\E c \in Scores : Capture(c) \/ Predict(c)) => RegistryInv'
    BY ScoreKeeps
  <2> QED BY <1>3, <2>1, <2>2, <2>3, TryLoadKeeps, StartWithoutKeeps DEF Serving
<1>4. CASE UNCHANGED vars
  BY <1>1, <1>4 DEF vars
<1> QED BY <1>2, <1>3, <1>4 DEF Next

\* The scorer's process starts with nothing served and nobody in flight.
LEMMA RegistryInit ==
  ASSUME Init
  PROVE  RegistryInv
<1>1. /\ up = "down" /\ current = NoModel /\ handler = [r \in Reloads |-> Idle]
      /\ call = [c \in Scores |-> [step |-> "new"]]
  BY DEF Init
<1>2. NoModel \in Bundles
  BY DEF Bundles, NoModel
<1>3. ServingTypes /\ ServingInv /\ AnsweredInv /\ StartingInv
  BY <1>1, <1>2 DEF ServingTypes, ServingInv, AnsweredInv, StartingInv, Idle
<1> QED BY <1>3, TrainingInit DEF RegistryInv

\* Of ModelHolder: whatever reloads, calls, crashes and restarts come between, the bundle that is
\* served was written whole and fits the build, and every reload and call holds such a bundle.
THEOREM ServingHolds == Spec => []RegistryInv
BY RegistryInit, RegistryKept, PTL DEF Spec

\* A score was computed by the model it names, from the columns that model was trained on.
THEOREM ScoresAreOfTheirModel == Spec => []ScoredByItsModel
<1>1. RegistryInv => ScoredByItsModel
  <2> SUFFICES ASSUME RegistryInv, NEW c \in Scores, call[c].step = "answered"
               PROVE  LET v == call[c].version
                      IN  /\ Readable(v) /\ v \in Listed
                          /\ disk[v].model = [features |-> call[c].columns, run |-> call[c].run]
    BY DEF ScoredByItsModel
  <2> DEFINE v == call[c].version
  <2>1. v \in Versions /\ Written(v) /\ disk[v].model = [features |-> call[c].columns, run |-> call[c].run]
    BY DEF RegistryInv, AnsweredInv
  <2>2. disk[v].model \in Boosters
    BY <2>1 DEF RegistryInv, TrainingInv, DiskInv
  <2> HIDE DEF v
  <2>3. Readable(v) /\ v \in Listed
    BY <2>1, <2>2, RegistryAssumption DEF Readable, Listed, Written
  <2> QED BY <2>1, <2>3 DEF v
<1> QED BY <1>1, ServingHolds, PTL

\* A start ends with the newest version the process could serve, or without one if there is none.
THEOREM StartsFindNewest == Spec => StartsOnNewest
<1> DEFINE Found == up = "starting" /\ up' = "up" =>
              IF current' = NoModel THEN owed = {}
              ELSE /\ \A v \in owed : v <= current'.meta.version
                   /\ \A v \in incompatible' : v > current'.meta.version
<1>1. ASSUME RegistryInv, [Next]_vars PROVE [Found]_vars
  <2> SUFFICES ASSUME Next, up = "starting", up' = "up" PROVE Found
    BY <1>1 DEF vars, scorerVars
  <2>1. TryLoad \/ StartWithout
    BY DEF Next, Training, Serving, Train, Save, Saves, Killed, ReloadScorer, scorerVars, Start,
           ReloadReads, ReloadSwaps, ReloadBegins, Handles, Capture, Predict, Answered, Calls
  <2> QED BY <1>1, <2>1, TryLoadKeeps, StartWithoutKeeps
<1>2. RegistryInv /\ [Next]_vars => [Found]_vars
  BY <1>1
<1> HIDE DEF Found
<1>3. Spec => [][Found]_vars
  BY <1>2, ServingHolds, PTL DEF Spec
<1> QED BY <1>3 DEF StartsOnNewest, Found
-----------------------------------------------------------------------------
(* What is generated *)

EventLabels == [ts : Int, pattern : {"RING", "GEO", "VELOCITY", "POLICY"}, episode : Nat,
                source : {"generator", "scenario"}, hop : Int, hops : Int]

Events == [id : Nat \X Nat, at : Int, ts : Int, planned : Int, label : EventLabels \cup {NoLabel}]

Published == [checked : Int, id : Nat \X Nat, ts : Int, planned : Int, label : EventLabels \cup {NoLabel}]

\* A label is about its own event, at its time; where a ring's counts the hops, it says which this is.
Labelled(ev) ==
    ev.label # NoLabel =>
        /\ ev.label.ts = ev.ts /\ ev.label.episode = ev.id[1]
        /\ ev.label.pattern = "RING" /\ ev.label.hops # NoHop =>
             /\ ev.label.hop = ev.id[2] - 1 /\ ev.label.hops \in Accounts
             /\ ev.id[2] \in 1 .. ev.label.hops
\* A larger number of gaps is longer, by a gap at least.
LEMMA GapsGrow ==
  ASSUME NEW g \in Nat \ {0}, NEW i \in Nat, NEW j \in Nat, i < j
  PROVE  i * g + g <= j * g /\ i * g \in Nat /\ j * g \in Nat
<1>1. PICK d \in Nat : j = i + 1 + d
  <2>1. j - i - 1 \in Nat /\ j = i + 1 + (j - i - 1)
    OBVIOUS
  <2> QED BY <2>1
<1>2. (i + 1 + d) * g = i * g + g + d * g /\ d * g \in Nat /\ i * g \in Nat
  OBVIOUS
<1> DEFINE x == i * g
           y == d * g
           z == (i + 1 + d) * g
<1>3. z = x + g + y /\ x \in Nat /\ y \in Nat
  BY <1>2
<1> HIDE DEF x, y, z
<1>4. x + g <= z /\ z \in Nat
  BY <1>3
<1> QED BY <1>1, <1>3, <1>4 DEF x, z

\* The events of an episode come one after the other.
LEMMA OffsetsGrow ==
  ASSUME NEW pattern, NEW offsets \in Offsets(pattern), pattern \in {"RING", "GEO", "VELOCITY", "POLICY"}
  PROVE  \E k \in Nat : /\ offsets \in [1 .. k -> Nat]
                        /\ \A i, j \in 1 .. k : i < j => offsets[i] < offsets[j]
                        /\ pattern = "RING" => k \in Accounts /\ Len(offsets) = k
<1> DEFINE S == Spread
<1>0. S \in Nat \ {0} /\ Accounts \subseteq Nat /\ FarTxns \subseteq Nat /\ BurstTxns \subseteq Nat
  BY GeneratorAssumption
<1>e. ASSUME NEW k \in Nat, offsets = [i \in 1 .. k |-> (i - 1) * S]
      PROVE  /\ offsets \in [1 .. k -> Nat]
             /\ \A i, j \in 1 .. k : i < j => offsets[i] < offsets[j]
  <2>1. \A i \in 1 .. k : i - 1 \in Nat /\ offsets[i] = (i - 1) * S /\ (i - 1) * S \in Nat
    BY <1>0, <1>e
  <2>2. ASSUME NEW i \in 1 .. k, NEW j \in 1 .. k, i < j PROVE offsets[i] < offsets[j]
    <3> DEFINE x == (i - 1) * S
               y == (j - 1) * S
    <3>1. x + S <= y /\ x \in Nat /\ y \in Nat
      <4>1. i - 1 \in Nat /\ j - 1 \in Nat /\ i - 1 < j - 1
        BY <2>2
      <4> HIDE DEF S
      <4> QED BY <1>0, <4>1, GapsGrow
    <3>2. offsets[i] = x /\ offsets[j] = y
      BY <2>1
    <3> HIDE DEF x, y
    <3> QED BY <1>0, <3>1, <3>2
  <2> QED BY <1>e, <2>1, <2>2
<1>1. CASE pattern = "RING"
  <2>1. PICK k \in Accounts : offsets \in {o \in [1 .. k -> 0 .. k * Spread] :
              \A i \in 1 .. k : o[i] \in (i - 1) * Spread .. (i - 1) * Spread + Spread \div 2}
    BY <1>1 DEF Offsets, RingOffsets
  <2>2. k \in Nat /\ offsets \in [1 .. k -> 0 .. k * S]
    BY <1>0, <2>1
  <2>3. offsets \in [1 .. k -> Nat] /\ Len(offsets) = k
    <3> DEFINE top == k * S
    <3>1. offsets \in [1 .. k -> 0 .. top]
      BY <2>2
    <3> HIDE DEF top
    <3>2. offsets \in [1 .. k -> Nat]
      BY <3>1
    <3>3. offsets \in Seq(Nat)
      BY <2>2, <3>2
    <3> QED BY <2>2, <3>2, <3>3, LenProperties
  <2>4. ASSUME NEW i \in 1 .. k, NEW j \in 1 .. k, i < j PROVE offsets[i] < offsets[j]
    <3> DEFINE x == (i - 1) * S
               y == (j - 1) * S
               h == S \div 2
    <3>1. x + S <= y /\ x \in Nat /\ y \in Nat
      <4>1. i - 1 \in Nat /\ j - 1 \in Nat /\ i - 1 < j - 1
        BY <2>2, <2>4
      <4> HIDE DEF S
      <4> QED BY <1>0, <4>1, GapsGrow
    <3>2. h \in Int /\ h < S
      <4> HIDE DEF S
      <4> QED BY <1>0
    <3>3. offsets[i] \in x .. x + h /\ offsets[j] \in y .. y + h
      BY <2>1, <2>2
    <3>4. offsets[i] \in Int /\ offsets[j] \in Int
      BY <2>3
    <3> HIDE DEF x, y, h, S
    <3> QED BY <1>0, <3>1, <3>2, <3>3, <3>4
  <2> QED BY <1>1, <2>1, <2>2, <2>3, <2>4
<1>2. CASE pattern = "GEO"
  <2>1. PICK n \in FarTxns : offsets = [i \in 1 .. n + 1 |-> (i - 1) * Spread]
    BY <1>2 DEF Offsets, GeoOffsets
  <2>2. n + 1 \in Nat
    BY <1>0
  <2> QED BY <1>2, <1>e, <2>1, <2>2
<1>3. CASE pattern = "VELOCITY"
  <2>1. PICK n \in BurstTxns : offsets = [i \in 1 .. n |-> (i - 1) * Spread]
    BY <1>3 DEF Offsets, BurstOffsets
  <2> QED BY <1>0, <1>3, <1>e, <2>1
<1>4. CASE pattern = "POLICY"
  <2>1. offsets = <<0>>
    BY <1>4 DEF Offsets
  <2>2. offsets \in [1 .. 1 -> Nat]
    BY <2>1
  <2> QED BY <1>4, <2>2
<1> QED BY <1>1, <1>2, <1>3, <1>4

\* What the events of episode n are that begins at from.
EpisodeOf(n, events, offsets, from) ==
    \E k \in Nat :
        /\ events \in [1 .. k -> Events]
        /\ \A i \in 1 .. k : /\ events[i].id = <<n, i>> /\ events[i].at = events[i].ts /\ Labelled(events[i])
                             /\ events[i].at - events[i].planned = from /\ events[i].planned = offsets[i]
        /\ \A i, j \in 1 .. k : i < j => offsets[i] < offsets[j]
        /\ \A i \in 1 .. k : offsets[i] \in Nat

\* The events of an episode carry its number and their own, in order, and labels that say so.
LEMMA EpisodeShape ==
  ASSUME NEW pattern, NEW offsets \in Offsets(pattern), pattern \in {"RING", "GEO", "VELOCITY", "POLICY"},
         NEW from \in Int, NEW n \in Nat, NEW counted
  PROVE  EpisodeOf(n, Episode(pattern, offsets, from, n, counted), offsets, from)
<1>1. PICK k \in Nat : /\ offsets \in [1 .. k -> Nat]
                       /\ \A i, j \in 1 .. k : i < j => offsets[i] < offsets[j]
                       /\ pattern = "RING" => k \in Accounts /\ Len(offsets) = k
  BY OffsetsGrow
<1> DEFINE episode == Episode(pattern, offsets, from, n, counted)
           label(i) == LabelOf(pattern, i, offsets, from + offsets[i], n, counted)
           ev(i) == [id |-> <<n, i>>, at |-> from + offsets[i], ts |-> from + offsets[i], planned |-> offsets[i],
                     label |-> label(i)]
<1>2. episode = [i \in 1 .. k |-> ev(i)]
  BY <1>1 DEF Episode
<1>3. ASSUME NEW i \in 1 .. k
      PROVE  /\ ev(i) \in Events /\ ev(i).id = <<n, i>> /\ ev(i).at = ev(i).ts /\ Labelled(ev(i))
             /\ ev(i).at - ev(i).planned = from /\ ev(i).planned = offsets[i]
  <2>1. offsets[i] \in Int /\ from + offsets[i] \in Int /\ i \in Nat
    BY <1>1
  <2> DEFINE counts == pattern = "RING" /\ counted
             hops == IF counts THEN Len(offsets) ELSE NoHop
             hop == IF counts THEN i - 1 ELSE NoHop
             full == [ts |-> from + offsets[i], pattern |-> pattern, episode |-> n, source |-> "generator",
                      hop |-> hop, hops |-> hops]
  <2>2. label(i) = NoLabel \/ label(i) = full
    BY DEF LabelOf
  <2>3. hop \in Int /\ hops \in Int
    BY <1>1 DEF NoHop
  <2>4. full \in EventLabels
    <3> HIDE DEF hop, hops
    <3> QED BY <2>1, <2>3 DEF EventLabels
  <2>5. pattern = "RING" /\ hops # NoHop => hop = i - 1 /\ hops \in Accounts /\ i \in 1 .. hops
    BY <1>1
  <2> HIDE DEF label, counts
  <2>6. ev(i) \in Events
    BY <2>1, <2>2, <2>4 DEF Events
  <2>7. /\ ev(i).id = <<n, i>> /\ ev(i).id[1] = n /\ ev(i).id[2] = i /\ ev(i).label = label(i)
        /\ ev(i).ts = from + offsets[i] /\ ev(i).at = from + offsets[i] /\ ev(i).planned = offsets[i]
    OBVIOUS
  <2>8. /\ full.ts = from + offsets[i] /\ full.pattern = pattern /\ full.episode = n
        /\ full.hop = hop /\ full.hops = hops
    <3> HIDE DEF hop, hops
    <3> QED OBVIOUS
  <2> HIDE DEF full, hop, hops, ev
  <2>9. Labelled(ev(i))
    BY <2>2, <2>5, <2>7, <2>8 DEF Labelled
  <2> QED BY <2>1, <2>6, <2>7, <2>9
<1>4. episode \in [1 .. k -> Events] /\ \A i \in 1 .. k : episode[i] = ev(i)
  <2> HIDE DEF ev, episode
  <2> QED BY <1>2, <1>3
<1> HIDE DEF ev, episode
<1>5. \A i \in 1 .. k : /\ episode[i].id = <<n, i>> /\ episode[i].at = episode[i].ts /\ Labelled(episode[i])
                        /\ episode[i].at - episode[i].planned = from /\ episode[i].planned = offsets[i]
  BY <1>3, <1>4
<1>6. \A i \in 1 .. k : offsets[i] \in Nat
  BY <1>1
<1>7. EpisodeOf(n, episode, offsets, from)
  BY <1>1, <1>4, <1>5, <1>6 DEF EpisodeOf
<1> QED BY <1>7 DEF episode
\* What was published, and after it what the loop let pass and holds in its hands.
Passed == IF pc = "publish" THEN Append(sent, Head(hand)) ELSE sent

GenTypes ==
    /\ now \in Nat /\ now <= MaxClock /\ nextBase \in Int /\ nextEpisode \in [Injectors -> Int]
    /\ episodes \in 0 .. MaxEpisodes
    /\ queue \in SUBSET Events /\ sent \in Seq(Published) /\ Passed \in Seq(Published)

\* Queued events are of the episodes planned so far; those of an episode keep the distances and the
\* order they were planned with, however often they were shifted.
QueueInv ==
    /\ \A e \in queue : e.at = e.ts /\ e.id[1] \in 1 .. episodes /\ Labelled(e)
    /\ \A e, f \in queue : e.id[1] = f.id[1] =>
         /\ e.at - e.planned = f.at - f.planned
         /\ e.id[2] < f.id[2] => e.planned < f.planned
         /\ e.id[2] = f.id[2] => e = f

\* Nothing that is still to come lies before what was published, and before a base arrival is
\* waited for every episode due by then was queued.
FloorInv ==
    /\ \A k \in DOMAIN Passed :
         /\ Passed[k].id[1] \in 0 .. episodes
         /\ Passed[k].ts <= nextBase
         /\ \A e \in queue : Passed[k].ts <= e.at
         /\ episodes < MaxEpisodes => \A i \in Injectors : Passed[k].ts <= nextEpisode[i]
    /\ pc \in {"body", "publish", "label"} /\ episodes < MaxEpisodes =>
         \A i \in Injectors : nextEpisode[i] > nextBase

\* What passed of an episode lies before what is queued of it, as far as it was planned.
EpisodeInv ==
    \A k \in DOMAIN Passed : \A e \in queue : Passed[k].id[1] = e.id[1] =>
        /\ Passed[k].id[2] < e.id[2]
        /\ e.at - Passed[k].ts >= e.planned - Passed[k].planned

\* What is in hand is not queued any more; a base arrival is numbered by what was published before.
HandInv ==
    pc \in {"publish", "label"} =>
        /\ Head(hand) \in Published /\ Labelled(Head(hand))
        /\ Head(hand).id[1] \in 0 .. episodes
        /\ \A e \in queue : e.id # Head(hand).id
        /\ Head(hand).id[1] = 0 => IF pc = "publish" THEN Head(hand).id[2] = Len(sent)
                                   ELSE Head(hand).id[2] < Len(sent)

\* PublishedOnTime, of what passed.
OnTime(s) ==
    \A i \in DOMAIN s :
        /\ s[i].checked - s[i].ts \in 0 .. MaxBehind
        /\ s[i].label # NoLabel => s[i].label.ts = s[i].ts
        /\ \A j \in 1 .. i - 1 :
             /\ s[j].ts <= s[i].ts
             /\ s[j].id[1] = s[i].id[1] /\ s[i].id[1] > 0 =>
                  /\ s[j].id[2] < s[i].id[2]
                  /\ s[i].ts - s[j].ts >= s[i].planned - s[j].planned

GenInv == GenTypes /\ QueueInv /\ FloorInv /\ EpisodeInv /\ HandInv /\ OnTime(Passed)

\* What an event that is planned consists of.
LEMMA EventFields ==
  ASSUME NEW e \in Events
  PROVE  e.id \in Nat \X Nat /\ e.id[1] \in Nat /\ e.id[2] \in Nat /\ e.at \in Int /\ e.ts \in Int /\ e.planned \in Int
BY DEF Events

\* What a record that was published consists of.
LEMMA PublishedFields ==
  ASSUME NEW s \in Published
  PROVE  s.id \in Nat \X Nat /\ s.id[1] \in Nat /\ s.id[2] \in Nat /\ s.checked \in Int /\ s.ts \in Int /\ s.planned \in Int
BY DEF Published

\* A shift moves an event and its label, and nothing else of it.
LEMMA ShiftMoves ==
  ASSUME NEW e \in Events, NEW behind \in Int
  PROVE  /\ Shifted(e, behind) \in Events
         /\ Shifted(e, behind).id = e.id /\ Shifted(e, behind).planned = e.planned
         /\ Shifted(e, behind).at = e.at + behind /\ Shifted(e, behind).ts = e.ts + behind
         /\ Labelled(e) => Labelled(Shifted(e, behind))
<1> DEFINE l == IF e.label = NoLabel THEN NoLabel ELSE [e.label EXCEPT !.ts = e.label.ts + behind]
           s == Shifted(e, behind)
<1>1. s = [id |-> e.id, at |-> e.at + behind, ts |-> e.ts + behind, planned |-> e.planned, label |-> l]
  <2>1. e = [id |-> e.id, at |-> e.at, ts |-> e.ts, planned |-> e.planned, label |-> e.label]
    BY DEF Events
  <2>2. s = [[[e EXCEPT !.at = e.at + behind] EXCEPT !.ts = e.ts + behind] EXCEPT !.label = l]
    BY DEF Shifted
  <2> HIDE DEF l, s
  <2>3. DOMAIN e = {"id", "at", "ts", "planned", "label"}
    BY <2>1
  <2> QED BY <2>2, <2>3
<1>2. l \in EventLabels \cup {NoLabel}
  <2>1. CASE e.label = NoLabel
    BY <2>1
  <2>2. CASE e.label # NoLabel
    <3>1. e.label \in EventLabels
      BY <2>2 DEF Events
    <3>2. l = [e.label EXCEPT !.ts = e.label.ts + behind]
      BY <2>2
    <3> QED BY <3>1, <3>2 DEF EventLabels
  <2> QED BY <2>1, <2>2
<1> HIDE DEF l, s
<1>3. /\ s \in Events /\ s.id = e.id /\ s.planned = e.planned
      /\ s.at = e.at + behind /\ s.ts = e.ts + behind /\ s.label = l
  BY <1>1, <1>2 DEF Events
<1>4. ASSUME Labelled(e) PROVE Labelled(s)
  <2>1. CASE e.label = NoLabel
    BY <1>3, <2>1 DEF Labelled, l
  <2>2. CASE e.label # NoLabel
    <3>1. e.label \in EventLabels
      BY <2>2 DEF Events
    <3>2. l = [e.label EXCEPT !.ts = e.label.ts + behind]
      BY <2>2 DEF l
    <3>3. /\ l.ts = e.label.ts + behind /\ l.episode = e.label.episode /\ l.pattern = e.label.pattern
          /\ l.hop = e.label.hop /\ l.hops = e.label.hops
      BY <3>1, <3>2 DEF EventLabels
    <3> QED BY <1>3, <1>4, <2>2, <3>3 DEF Labelled
  <2> QED BY <2>1, <2>2
<1> QED BY <1>3, <1>4 DEF s

\* The head of the loop shifts the schedule as a whole.
LEMMA LoopHeadKeeps ==
  ASSUME GenInv, LoopHead
  PROVE  GenInv'
<1> DEFINE behind == IF Behind(nextBase) THEN now - nextBase ELSE 0
<1>1. behind \in Nat
  BY GeneratorAssumption DEF Behind, GenInv, GenTypes
<1>2. /\ nextBase' = nextBase + behind
      /\ nextEpisode' = [i \in Injectors |-> nextEpisode[i] + behind]
      /\ queue' = {Shifted(ev, behind) : ev \in queue}
      /\ pc' = "spawn" /\ now' = now /\ episodes' = episodes /\ sent' = sent /\ Passed' = Passed
  BY DEF LoopHead, Passed
<1> HIDE DEF behind
<1>3. nextBase \in Int /\ nextEpisode \in [Injectors -> Int] /\ queue \in SUBSET Events /\ Passed \in Seq(Published)
  BY DEF GenInv, GenTypes
<1>4. \A f \in queue' : \E e \in queue :
        /\ f \in Events /\ f.id = e.id /\ f.planned = e.planned /\ f.at = e.at + behind /\ f.ts = e.ts + behind
        /\ Labelled(e) => Labelled(f)
  <2>1. \A e \in queue : LET f == Shifted(e, behind)
                        IN  /\ f \in Events /\ f.id = e.id /\ f.planned = e.planned
                            /\ f.at = e.at + behind /\ f.ts = e.ts + behind
                            /\ Labelled(e) => Labelled(f)
    <3>1. behind \in Int /\ \A e \in queue : e \in Events
      BY <1>1, <1>3
    <3> QED BY <3>1, ShiftMoves
  <2>2. \A f \in queue' : \E e \in queue : f = Shifted(e, behind)
    BY <1>2
  <2> QED BY <2>1, <2>2
<1>5. GenTypes'
  <2>1. queue' \in SUBSET Events
    BY <1>4
  <2> QED BY <1>1, <1>2, <1>3, <2>1 DEF GenInv, GenTypes
<1>6. QueueInv'
  <2>1. ASSUME NEW f \in queue' PROVE f.at = f.ts /\ f.id[1] \in 1 .. episodes' /\ Labelled(f)
    BY <1>2, <1>4 DEF GenInv, QueueInv
  <2>2. ASSUME NEW f \in queue', NEW g \in queue', f.id[1] = g.id[1]
        PROVE  /\ f.at - f.planned = g.at - g.planned
               /\ f.id[2] < g.id[2] => f.planned < g.planned
               /\ f.id[2] = g.id[2] => f = g
    <3>1. PICK e \in queue : f = Shifted(e, behind)
      BY <1>2
    <3>2. PICK h \in queue : g = Shifted(h, behind)
      BY <1>2
    <3>3. /\ f.id = e.id /\ f.planned = e.planned /\ f.at = e.at + behind
          /\ g.id = h.id /\ g.planned = h.planned /\ g.at = h.at + behind
      BY <1>1, <1>3, <3>1, <3>2, ShiftMoves
    <3>4. e.at \in Int /\ h.at \in Int /\ e.planned \in Int /\ h.planned \in Int
      BY <1>3, EventFields
    <3>5. /\ e.at - e.planned = h.at - h.planned
          /\ e.id[2] < h.id[2] => e.planned < h.planned
          /\ e.id[2] = h.id[2] => e = h
      BY <2>2, <3>3 DEF GenInv, QueueInv
    <3>6. f.at - f.planned = g.at - g.planned
      BY <1>1, <3>3, <3>4, <3>5
    <3>7. f.id[2] = g.id[2] => f = g
      BY <3>1, <3>2, <3>3, <3>5
    <3> QED BY <3>3, <3>5, <3>6, <3>7
  <2> QED BY <2>1, <2>2 DEF QueueInv, Labelled
<1>7. ASSUME NEW k \in DOMAIN Passed
      PROVE  Passed[k].ts \in Int /\ Passed[k].planned \in Int
  BY <1>3, PublishedFields, LenProperties
<1>8. FloorInv'
  <2>1. ASSUME NEW k \in DOMAIN Passed
        PROVE  /\ Passed[k].id[1] \in 0 .. episodes
               /\ Passed[k].ts <= nextBase'
               /\ \A f \in queue' : Passed[k].ts <= f.at
               /\ episodes < MaxEpisodes => \A i \in Injectors : Passed[k].ts <= nextEpisode'[i]
    <3>1. /\ Passed[k].id[1] \in 0 .. episodes /\ Passed[k].ts <= nextBase
          /\ \A e \in queue : Passed[k].ts <= e.at
          /\ episodes < MaxEpisodes => \A i \in Injectors : Passed[k].ts <= nextEpisode[i]
      BY DEF GenInv, FloorInv
    <3>2. ASSUME NEW f \in queue' PROVE Passed[k].ts <= f.at
      <4>1. PICK e \in queue : f.at = e.at + behind
        BY <1>4
      <4>2. e.at \in Int
        BY <1>3, EventFields
      <4> QED BY <1>1, <1>7, <3>1, <4>1, <4>2
    <3>3. ASSUME NEW i \in Injectors, episodes < MaxEpisodes PROVE Passed[k].ts <= nextEpisode'[i]
      <4>1. nextEpisode'[i] = nextEpisode[i] + behind /\ nextEpisode[i] \in Int
        BY <1>2, <1>3
      <4> QED BY <1>1, <1>7, <3>1, <3>3, <4>1
    <3> QED BY <1>1, <1>2, <1>3, <1>7, <3>1, <3>2, <3>3
  <2> QED BY <1>2, <2>1 DEF FloorInv
<1>9. EpisodeInv'
  <2> SUFFICES ASSUME NEW k \in DOMAIN Passed, NEW f \in queue', Passed[k].id[1] = f.id[1]
               PROVE  Passed[k].id[2] < f.id[2] /\ f.at - Passed[k].ts >= f.planned - Passed[k].planned
    BY <1>2 DEF EpisodeInv
  <2>1. PICK e \in queue : f.id = e.id /\ f.planned = e.planned /\ f.at = e.at + behind
    BY <1>4
  <2>2. Passed[k].id[2] < e.id[2] /\ e.at - Passed[k].ts >= e.planned - Passed[k].planned
    BY <2>1 DEF GenInv, EpisodeInv
  <2>3. e.at \in Int /\ e.planned \in Int
    BY <1>3, EventFields
  <2> QED BY <1>1, <1>7, <2>1, <2>2, <2>3
<1>10. OnTime(Passed')
  BY <1>2 DEF GenInv, OnTime
<1>11. HandInv' /\ OnTime(Passed)'
  BY <1>2, <1>10 DEF HandInv, OnTime
<1> QED BY <1>5, <1>6, <1>8, <1>9, <1>11 DEF GenInv

\* An episode begins when it is due, after all that was published, and has a number of its own.
LEMMA SpawnKeeps ==
  ASSUME GenInv, NEW i \in Injectors, Spawn(i)
  PROVE  GenInv'
<1>1. PICK offsets \in Offsets(i), counted \in CountsHops :
        queue' = queue \cup Range(Episode(i, offsets, nextEpisode[i], episodes + 1, counted))
  BY DEF Spawn
<1>2. PICK gap \in EpisodeGaps : nextEpisode' = [nextEpisode EXCEPT ![i] = @ + gap]
  BY DEF Spawn
<1>3. /\ pc = "spawn" /\ nextEpisode[i] <= nextBase /\ episodes < MaxEpisodes /\ episodes' = episodes + 1
      /\ now' = now /\ pc' = pc /\ nextBase' = nextBase /\ sent' = sent /\ Passed' = Passed
  BY DEF Spawn, Due, Passed
<1>4. /\ nextBase \in Int /\ nextEpisode \in [Injectors -> Int] /\ queue \in SUBSET Events
      /\ Passed \in Seq(Published) /\ episodes \in 0 .. MaxEpisodes /\ MaxEpisodes \in Nat /\ gap \in Nat \ {0}
      /\ i \in {"RING", "GEO", "VELOCITY", "POLICY"} /\ nextEpisode[i] \in Int /\ episodes + 1 \in Nat
  BY GeneratorAssumption DEF GenInv, GenTypes
<1> DEFINE from == nextEpisode[i]
           number == episodes + 1
           episode == Episode(i, offsets, from, number, counted)
<1>5. from \in Int /\ number \in Nat /\ number = episodes + 1 /\ from = nextEpisode[i]
  BY <1>4
<1> HIDE DEF from, number
<1>6. PICK n \in Nat :
        /\ episode \in [1 .. n -> Events]
        /\ \A j \in 1 .. n : /\ episode[j].id = <<number, j>> /\ episode[j].at = episode[j].ts /\ Labelled(episode[j])
                             /\ episode[j].at - episode[j].planned = from /\ episode[j].planned = offsets[j]
        /\ \A j, l \in 1 .. n : j < l => offsets[j] < offsets[l]
        /\ \A j \in 1 .. n : offsets[j] \in Nat
  <2>1. EpisodeOf(number, episode, offsets, from)
    BY <1>4, <1>5, EpisodeShape
  <2> HIDE DEF episode
  <2> QED BY <2>1 DEF EpisodeOf
<1>7. queue' = queue \cup {episode[j] : j \in 1 .. n}
  <2>1. queue' = queue \cup Range(episode)
    BY <1>1, <1>5
  <2> HIDE DEF episode
  <2> QED BY <1>6, <2>1 DEF Range
<1> HIDE DEF episode
<1>8. ASSUME NEW f \in queue', f \notin queue
      PROVE  \E j \in 1 .. n : /\ f = episode[j] /\ f \in Events /\ f.id[1] = number /\ f.id[2] = j
                               /\ f.at = f.ts /\ Labelled(f) /\ f.planned = offsets[j] /\ f.planned \in Nat
                               /\ f.at = from + f.planned
  <2>1. PICK j \in 1 .. n : f = episode[j]
    BY <1>7, <1>8
  <2>2. f \in Events /\ f.id = <<number, j>> /\ f.at - f.planned = from
    BY <1>6, <2>1
  <2>3. f.at \in Int /\ f.planned \in Int
    BY <2>2, EventFields
  <2>4. f.at = from + f.planned
    BY <1>5, <2>2, <2>3
  <2> QED BY <1>6, <2>1, <2>2, <2>4
<1>9. \A f \in queue : f.id[1] \in 1 .. episodes /\ f.id[1] # number
  BY <1>4, <1>5 DEF GenInv, QueueInv
<1>10. GenTypes'
  <2>1. queue' \in SUBSET Events
    BY <1>4, <1>8
  <2>2. nextEpisode' \in [Injectors -> Int]
    BY <1>2, <1>4
  <2> QED BY <1>3, <1>4, <2>1, <2>2 DEF GenInv, GenTypes
<1>11. QueueInv'
  <2>1. ASSUME NEW f \in queue' PROVE f.at = f.ts /\ f.id[1] \in 1 .. episodes' /\ Labelled(f)
    <3>1. CASE f \in queue
      BY <1>3, <1>4, <3>1 DEF GenInv, QueueInv
    <3>2. CASE f \notin queue
      BY <1>3, <1>4, <1>5, <1>8, <3>2
    <3> QED BY <3>1, <3>2
  <2>2. ASSUME NEW f \in queue', NEW g \in queue', f.id[1] = g.id[1]
        PROVE  /\ f.at - f.planned = g.at - g.planned
               /\ f.id[2] < g.id[2] => f.planned < g.planned
               /\ f.id[2] = g.id[2] => f = g
    <3>1. CASE f \in queue /\ g \in queue
      BY <2>2, <3>1 DEF GenInv, QueueInv
    <3>2. CASE f \notin queue /\ g \notin queue
      <4>1. PICK j \in 1 .. n : f = episode[j] /\ f.id[2] = j /\ f.planned = offsets[j]
        BY <1>8, <3>2
      <4>2. PICK l \in 1 .. n : g = episode[l] /\ g.id[2] = l /\ g.planned = offsets[l]
        BY <1>8, <3>2
      <4>3. f.at - f.planned = from /\ g.at - g.planned = from
        BY <1>6, <4>1, <4>2
      <4> QED BY <1>6, <4>1, <4>2, <4>3
    <3>3. CASE f \in queue /\ g \notin queue
      BY <1>8, <1>9, <2>2, <3>3
    <3>4. CASE f \notin queue /\ g \in queue
      BY <1>8, <1>9, <2>2, <3>4
    <3> QED BY <3>1, <3>2, <3>3, <3>4
  <2> QED BY <2>1, <2>2 DEF QueueInv, Labelled
<1>12. ASSUME NEW k \in DOMAIN Passed
       PROVE  /\ Passed[k].ts \in Int /\ Passed[k].id[1] \in 0 .. episodes /\ Passed[k].ts <= nextBase
              /\ \A e \in queue : Passed[k].ts <= e.at
              /\ Passed[k].ts <= from /\ \A j \in Injectors : Passed[k].ts <= nextEpisode[j]
  <2>1. Passed[k].ts \in Int
    BY <1>4, PublishedFields, LenProperties
  <2> QED BY <1>3, <1>5, <2>1 DEF GenInv, FloorInv
<1>13. FloorInv'
  <2>1. ASSUME NEW k \in DOMAIN Passed
        PROVE  /\ Passed[k].id[1] \in 0 .. episodes' /\ Passed[k].ts <= nextBase
               /\ \A f \in queue' : Passed[k].ts <= f.at
               /\ \A j \in Injectors : Passed[k].ts <= nextEpisode'[j]
    <3>1. Passed[k].id[1] \in 0 .. episodes'
      BY <1>3, <1>4, <1>12
    <3>2. ASSUME NEW f \in queue' PROVE Passed[k].ts <= f.at
      <4>1. CASE f \in queue
        BY <1>12, <4>1
      <4>2. CASE f \notin queue
        BY <1>5, <1>8, <1>12, <4>2
      <4> QED BY <4>1, <4>2
    <3>3. ASSUME NEW j \in Injectors PROVE Passed[k].ts <= nextEpisode'[j]
      <4>1. nextEpisode[j] \in Int /\ nextEpisode'[j] = IF j = i THEN nextEpisode[i] + gap ELSE nextEpisode[j]
        BY <1>2, <1>4
      <4> QED BY <1>4, <1>12, <4>1
    <3> QED BY <1>12, <3>1, <3>2, <3>3
  <2> QED BY <1>3, <2>1 DEF FloorInv
<1>14. EpisodeInv'
  <2> SUFFICES ASSUME NEW k \in DOMAIN Passed, NEW f \in queue', Passed[k].id[1] = f.id[1]
               PROVE  Passed[k].id[2] < f.id[2] /\ f.at - Passed[k].ts >= f.planned - Passed[k].planned
    BY <1>3 DEF EpisodeInv
  <2>1. f \in queue
    <3>1. number \notin 0 .. episodes
      BY <1>4, <1>5
    <3> QED BY <1>8, <1>12, <3>1
  <2> QED BY <2>1 DEF GenInv, EpisodeInv
<1>15. OnTime(Passed')
  BY <1>3 DEF GenInv, OnTime
<1>16. HandInv' /\ OnTime(Passed)'
  BY <1>3, <1>15 DEF HandInv, OnTime
<1> QED BY <1>10, <1>11, <1>13, <1>14, <1>16 DEF GenInv

\* What is let pass next is one more record, and the rest is as it was.
LEMMA PublishesOne ==
  ASSUME GenInv, NEW s \in Published, Passed' = Append(Passed, s), s.checked - s.ts \in 0 .. MaxBehind,
         s.label # NoLabel => s.label.ts = s.ts,
         \A k \in DOMAIN Passed : /\ Passed[k].ts <= s.ts
                                  /\ Passed[k].id[1] = s.id[1] /\ s.id[1] > 0 =>
                                       /\ Passed[k].id[2] < s.id[2]
                                       /\ s.ts - Passed[k].ts >= s.planned - Passed[k].planned
  PROVE  /\ Passed' \in Seq(Published) /\ OnTime(Passed)'
         /\ \A k \in DOMAIN Passed' : Passed'[k] = s \/ (k \in DOMAIN Passed /\ Passed'[k] = Passed[k])
<1>1. Passed \in Seq(Published) /\ Len(Passed) \in Nat /\ DOMAIN Passed = 1 .. Len(Passed)
  BY LenProperties DEF GenInv, GenTypes
<1>2. /\ Passed' \in Seq(Published) /\ DOMAIN Passed' = 1 .. Len(Passed) + 1
      /\ Passed'[Len(Passed) + 1] = s /\ \A k \in 1 .. Len(Passed) : Passed'[k] = Passed[k]
  BY <1>1
<1>3. ASSUME NEW i \in DOMAIN Passed'
      PROVE  /\ Passed'[i].checked - Passed'[i].ts \in 0 .. MaxBehind
             /\ Passed'[i].label # NoLabel => Passed'[i].label.ts = Passed'[i].ts
             /\ \A j \in 1 .. i - 1 :
                  /\ Passed'[j].ts <= Passed'[i].ts
                  /\ Passed'[j].id[1] = Passed'[i].id[1] /\ Passed'[i].id[1] > 0 =>
                       /\ Passed'[j].id[2] < Passed'[i].id[2]
                       /\ Passed'[i].ts - Passed'[j].ts >= Passed'[i].planned - Passed'[j].planned
  <2>1. CASE i \in DOMAIN Passed
    <3>1. \A j \in 1 .. i - 1 : j \in DOMAIN Passed /\ Passed'[j] = Passed[j]
      BY <1>1, <1>2, <2>1
    <3>2. Passed'[i] = Passed[i]
      BY <1>1, <1>2, <2>1
    <3> QED BY <2>1, <3>1, <3>2 DEF GenInv, OnTime
  <2>2. CASE i \notin DOMAIN Passed
    <3>1. i = Len(Passed) + 1
      BY <1>1, <1>2, <2>2
    <3>2. \A j \in 1 .. i - 1 : j \in DOMAIN Passed /\ Passed'[j] = Passed[j]
      BY <1>1, <1>2, <3>1
    <3>3. Passed'[i] = s
      BY <1>2, <3>1
    <3> QED BY <3>2, <3>3
  <2> QED BY <2>1, <2>2
<1>4. OnTime(Passed)'
  BY <1>3 DEF OnTime
<1> QED BY <1>1, <1>2, <1>4

\* The first of the queued events is let pass in its time, and the others of its episode come later.
LEMMA TakeQueuedKeeps ==
  ASSUME GenInv, NEW ev \in queue, TakeQueued(ev)
  PROVE  GenInv'
<1> DEFINE s == [checked |-> now, id |-> ev.id, ts |-> ev.ts, planned |-> ev.planned, label |-> ev.label]
<1>1. /\ pc = "body" /\ ev \in First(InTime) /\ now >= ev.at /\ ~Behind(ev.at)
      /\ sent' = sent /\ hand' = <<s>> /\ pc' = "publish" /\ queue' = queue \ {ev}
      /\ now' = now /\ nextBase' = nextBase /\ nextEpisode' = nextEpisode /\ episodes' = episodes
  BY DEF TakeQueued, Take
<1>a. Head(hand') = s /\ Passed' = Append(Passed, s)
  <2> HIDE DEF s
  <2>1. Head(<<s>>) = s
    OBVIOUS
  <2> QED BY <1>1, <2>1 DEF Passed
<1>2. /\ now \in Nat /\ nextBase \in Int /\ nextEpisode \in [Injectors -> Int] /\ queue \in SUBSET Events
      /\ Passed \in Seq(Published) /\ MaxBehind \in Nat /\ episodes \in 0 .. MaxEpisodes
  BY GeneratorAssumption DEF GenInv, GenTypes
<1>3. /\ ev \in Events /\ ev.at = ev.ts /\ ev.id[1] \in 1 .. episodes /\ Labelled(ev)
      /\ ev.at \in Int /\ ev.planned \in Int /\ ev.id \in Nat \X Nat /\ ev.id[2] \in Nat
  BY <1>2, EventFields DEF GenInv, QueueInv
<1>4. /\ s.checked = now /\ s.id = ev.id /\ s.ts = ev.ts /\ s.planned = ev.planned /\ s.label = ev.label
      /\ s \in Published
  BY <1>2, <1>3 DEF Published, Events
<1> HIDE DEF s
<1>5. ev.at <= nextBase /\ \A e \in queue : e.at \in Int /\ ev.at <= e.at
  <2>1. ev.at <= nextBase /\ \A e \in queue : e.at <= nextBase => ev.at <= e.at
    BY <1>1 DEF First, InTime
  <2>2. \A e \in queue : e.at \in Int
    BY <1>2, EventFields
  <2> QED BY <1>2, <1>3, <2>1, <2>2
<1>6. now - ev.at \in 0 .. MaxBehind
  BY <1>1, <1>2, <1>3 DEF Behind
<1>7. \A k \in DOMAIN Passed : /\ Passed[k].ts <= ev.at
                               /\ Passed[k].id[1] = ev.id[1] =>
                                    /\ Passed[k].id[2] < ev.id[2]
                                    /\ ev.at - Passed[k].ts >= ev.planned - Passed[k].planned
  BY DEF GenInv, FloorInv, EpisodeInv
<1>8. /\ Passed' \in Seq(Published) /\ OnTime(Passed)'
      /\ \A k \in DOMAIN Passed' : Passed'[k] = s \/ (k \in DOMAIN Passed /\ Passed'[k] = Passed[k])
  <2>1. s.checked - s.ts \in 0 .. MaxBehind
    BY <1>3, <1>4, <1>6
  <2>2. s.label # NoLabel => s.label.ts = s.ts
    BY <1>3, <1>4 DEF Labelled
  <2>3. \A k \in DOMAIN Passed : /\ Passed[k].ts <= s.ts
                                 /\ Passed[k].id[1] = s.id[1] /\ s.id[1] > 0 =>
                                      /\ Passed[k].id[2] < s.id[2]
                                      /\ s.ts - Passed[k].ts >= s.planned - Passed[k].planned
    BY <1>3, <1>4, <1>7
  <2> QED BY <1>1, <1>a, <1>4, <2>1, <2>2, <2>3, PublishesOne
<1>9. GenTypes' /\ HandInv'
  <2>1. GenTypes'
    BY <1>1, <1>2, <1>8 DEF GenInv, GenTypes
  <2>2. \A e \in queue' : e.id # s.id
    BY <1>1, <1>4 DEF GenInv, QueueInv
  <2>3. Labelled(s)
    BY <1>3, <1>4 DEF Labelled
  <2>4. s \in Published /\ s.id[1] \in 0 .. episodes /\ s.id[1] # 0
    BY <1>2, <1>3, <1>4
  <2> QED BY <1>1, <1>a, <2>1, <2>2, <2>3, <2>4 DEF HandInv, Labelled
<1>10. QueueInv'
  BY <1>1 DEF GenInv, QueueInv, Labelled
<1>11. FloorInv'
  <2>1. ASSUME NEW k \in DOMAIN Passed'
        PROVE  /\ Passed'[k].id[1] \in 0 .. episodes
               /\ Passed'[k].ts <= nextBase
               /\ \A e \in queue' : Passed'[k].ts <= e.at
               /\ episodes < MaxEpisodes => \A i \in Injectors : Passed'[k].ts <= nextEpisode[i]
    <3>1. CASE k \in DOMAIN Passed /\ Passed'[k] = Passed[k]
      BY <1>1, <3>1 DEF GenInv, FloorInv
    <3>2. CASE Passed'[k] = s
      <4>1. \A e \in queue' : ev.at <= e.at
        BY <1>1, <1>5
      <4>2. episodes < MaxEpisodes => \A i \in Injectors : nextEpisode[i] \in Int /\ nextEpisode[i] > nextBase
        BY <1>1, <1>2 DEF GenInv, FloorInv
      <4>3. episodes < MaxEpisodes => \A i \in Injectors : ev.at <= nextEpisode[i]
        BY <1>2, <1>3, <1>5, <4>2
      <4>4. s.id[1] \in 0 .. episodes /\ s.ts = ev.at
        BY <1>3, <1>4
      <4> QED BY <1>5, <3>2, <4>1, <4>3, <4>4
    <3> QED BY <1>8, <3>1, <3>2
  <2> QED BY <1>1, <2>1 DEF GenInv, FloorInv
<1>12. EpisodeInv'
  <2> SUFFICES ASSUME NEW k \in DOMAIN Passed', NEW e \in queue', Passed'[k].id[1] = e.id[1]
               PROVE  Passed'[k].id[2] < e.id[2] /\ e.at - Passed'[k].ts >= e.planned - Passed'[k].planned
    BY DEF EpisodeInv
  <2>1. e \in queue /\ e # ev
    BY <1>1
  <2>2. CASE k \in DOMAIN Passed /\ Passed'[k] = Passed[k]
    BY <2>1, <2>2 DEF GenInv, EpisodeInv
  <2>3. CASE Passed'[k] = s
    <3>1. e.id[1] = ev.id[1]
      BY <1>4, <2>3
    <3>2. /\ e.at - e.planned = ev.at - ev.planned
          /\ e.id[2] < ev.id[2] => e.planned < ev.planned
          /\ e.id[2] # ev.id[2]
      BY <2>1, <3>1 DEF GenInv, QueueInv
    <3>3. e.at \in Int /\ e.planned \in Int /\ e.id[2] \in Nat /\ ev.at <= e.at
      BY <1>2, <1>5, <2>1, EventFields
    <3>4. e.planned >= ev.planned /\ e.at - ev.at = e.planned - ev.planned
      BY <1>3, <3>2, <3>3
    <3>5. ev.id[2] < e.id[2]
      BY <1>3, <3>2, <3>3, <3>4
    <3>6. e.at - ev.at >= e.planned - ev.planned
      BY <1>3, <3>3, <3>4
    <3> QED BY <1>3, <1>4, <2>3, <3>5, <3>6
  <2> QED BY <1>8, <2>2, <2>3
<1> QED BY <1>8, <1>9, <1>10, <1>11, <1>12 DEF GenInv

\* A base arrival is let pass when no queued event is due before it.
LEMMA TakeBaseKeeps ==
  ASSUME GenInv, TakeBase
  PROVE  GenInv'
<1> DEFINE s == [checked |-> now, id |-> <<0, Len(sent)>>, ts |-> nextBase, planned |-> 0, label |-> NoLabel]
<1>1. /\ pc = "body" /\ InTime = {} /\ now >= nextBase /\ ~Behind(nextBase)
      /\ sent' = sent /\ hand' = <<s>> /\ pc' = "publish" /\ nextBase' = nextBase
      /\ now' = now /\ queue' = queue /\ nextEpisode' = nextEpisode /\ episodes' = episodes
  BY DEF TakeBase, Take
<1>a. Head(hand') = s /\ Passed' = Append(Passed, s)
  <2> HIDE DEF s
  <2>1. Head(<<s>>) = s
    OBVIOUS
  <2> QED BY <1>1, <2>1 DEF Passed
<1>3. /\ now \in Nat /\ nextBase \in Int /\ nextEpisode \in [Injectors -> Int] /\ queue \in SUBSET Events
      /\ Passed \in Seq(Published) /\ MaxBehind \in Nat /\ episodes \in 0 .. MaxEpisodes
      /\ sent \in Seq(Published) /\ MaxEpisodes \in Nat
  BY GeneratorAssumption DEF GenInv, GenTypes
<1>4. /\ s.checked = now /\ s.id[1] = 0 /\ s.id[2] = Len(sent) /\ s.ts = nextBase /\ s.planned = 0 /\ s.label = NoLabel
      /\ s \in Published
  <2>1. Len(sent) \in Nat
    BY <1>3, LenProperties
  <2> QED BY <1>3, <2>1 DEF Published
<1> HIDE DEF s
<1>5. \A e \in queue : e.at \in Int /\ nextBase <= e.at
  <2>1. \A e \in queue : ~(e.at <= nextBase)
    BY <1>1 DEF InTime
  <2>2. \A e \in queue : e.at \in Int
    BY <1>3, EventFields
  <2> QED BY <1>3, <2>1, <2>2
<1>6. /\ Passed' \in Seq(Published) /\ OnTime(Passed)'
      /\ \A k \in DOMAIN Passed' : Passed'[k] = s \/ (k \in DOMAIN Passed /\ Passed'[k] = Passed[k])
  <2>1. s.checked - s.ts \in 0 .. MaxBehind
    BY <1>1, <1>3, <1>4 DEF Behind
  <2>2. \A k \in DOMAIN Passed : Passed[k].ts <= s.ts
    BY <1>4 DEF GenInv, FloorInv
  <2> QED BY <1>1, <1>a, <1>4, <2>1, <2>2, PublishesOne
<1>7. nextBase' \in Int /\ nextBase <= nextBase'
  BY <1>1, <1>3
<1>8. GenTypes' /\ HandInv'
  <2>1. GenTypes'
    BY <1>1, <1>3, <1>6, <1>7 DEF GenInv, GenTypes
  <2>2. \A e \in queue' : e.id # s.id
    BY <1>1, <1>3, <1>4 DEF GenInv, QueueInv
  <2>3. Labelled(s) /\ s.id[1] \in 0 .. episodes
    BY <1>3, <1>4 DEF Labelled
  <2> QED BY <1>1, <1>a, <1>4, <2>1, <2>2, <2>3 DEF HandInv, Labelled
<1>9. QueueInv'
  BY <1>1 DEF GenInv, QueueInv, Labelled
<1>10. FloorInv'
  <2>1. ASSUME NEW k \in DOMAIN Passed'
        PROVE  /\ Passed'[k].id[1] \in 0 .. episodes
               /\ Passed'[k].ts <= nextBase'
               /\ \A e \in queue : Passed'[k].ts <= e.at
               /\ episodes < MaxEpisodes => \A i \in Injectors : Passed'[k].ts <= nextEpisode[i]
    <3>1. CASE k \in DOMAIN Passed /\ Passed'[k] = Passed[k]
      <4>1. Passed[k].ts \in Int
        BY <1>3, <3>1, PublishedFields, LenProperties
      <4>2. Passed[k].ts <= nextBase
        BY <3>1 DEF GenInv, FloorInv
      <4>3. Passed[k].ts <= nextBase'
        BY <1>3, <1>7, <4>1, <4>2
      <4> QED BY <3>1, <4>3 DEF GenInv, FloorInv
    <3>2. CASE Passed'[k] = s
      <4>1. episodes < MaxEpisodes => \A i \in Injectors : nextBase <= nextEpisode[i]
        <5>1. episodes < MaxEpisodes => \A i \in Injectors : nextEpisode[i] > nextBase /\ nextEpisode[i] \in Int
          BY <1>1, <1>3 DEF GenInv, FloorInv
        <5> QED BY <1>3, <5>1
      <4>2. 0 \in 0 .. episodes
        BY <1>3
      <4> QED BY <1>4, <1>5, <1>7, <3>2, <4>1, <4>2
    <3> QED BY <1>6, <3>1, <3>2
  <2>2. episodes < MaxEpisodes => \A i \in Injectors : nextEpisode[i] > nextBase
    BY <1>1 DEF GenInv, FloorInv
  <2> QED BY <1>1, <2>1, <2>2 DEF FloorInv
<1>11. EpisodeInv'
  <2> SUFFICES ASSUME NEW k \in DOMAIN Passed', NEW e \in queue, Passed'[k].id[1] = e.id[1]
               PROVE  Passed'[k].id[2] < e.id[2] /\ e.at - Passed'[k].ts >= e.planned - Passed'[k].planned
    BY <1>1 DEF EpisodeInv
  <2>1. e.id[1] # 0
    BY <1>3 DEF GenInv, QueueInv
  <2>2. k \in DOMAIN Passed /\ Passed'[k] = Passed[k]
    BY <1>4, <1>6, <2>1
  <2> QED BY <2>2 DEF GenInv, EpisodeInv
<1> QED BY <1>6, <1>8, <1>9, <1>10, <1>11 DEF GenInv

\* What is in hand is published; it passed before.
LEMMA SendTxnKeeps ==
  ASSUME GenInv, SendTxn
  PROVE  GenInv'
<1>1. /\ pc = "publish" /\ sent' = Append(sent, Head(hand)) /\ pc' = "label" /\ hand' = hand
      /\ UNCHANGED <<now, nextBase, nextEpisode, episodes, queue>>
  BY DEF SendTxn
<1>2. Passed' = Passed /\ sent' = Passed
  BY <1>1 DEF Passed
<1>3. Len(sent) \in Nat /\ Len(sent') = Len(sent) + 1
  BY <1>1 DEF GenInv, GenTypes
<1>4. GenTypes' /\ QueueInv' /\ EpisodeInv' /\ OnTime(Passed)'
  BY <1>1, <1>2 DEF GenInv, GenTypes, QueueInv, Labelled, EpisodeInv, OnTime
<1>5. FloorInv'
  BY <1>1, <1>2 DEF GenInv, FloorInv
<1>6. HandInv'
  BY <1>1, <1>3 DEF GenInv, HandInv, Labelled
<1> QED BY <1>4, <1>5, <1>6 DEF GenInv

\* Its label is published, and the next base arrival planned after what was one.
LEMMA SendLabelKeeps ==
  ASSUME GenInv, SendLabel
  PROVE  GenInv'
<1>1. /\ pc = "label" /\ sent' = sent /\ pc' \in {"head", "body"}
      /\ UNCHANGED <<now, nextEpisode, episodes, queue>>
      /\ pc' = "body" => nextBase' = nextBase
  BY DEF SendLabel
<1>2. nextBase \in Int /\ nextBase' \in Int /\ nextBase <= nextBase'
  <2>1. nextBase \in Int /\ BaseGaps \subseteq Nat \ {0}
    BY GeneratorAssumption DEF GenInv, GenTypes
  <2>2. nextBase' = nextBase \/ \E gap \in BaseGaps : nextBase' = nextBase + gap
    BY DEF SendLabel
  <2> QED BY <2>1, <2>2
<1>3. Passed' = Passed /\ Passed = sent /\ Passed \in Seq(Published)
  BY <1>1 DEF Passed, GenInv, GenTypes
<1>4. GenTypes' /\ QueueInv' /\ EpisodeInv' /\ HandInv' /\ OnTime(Passed)'
  <2>1. GenTypes'
    BY <1>1, <1>2, <1>3 DEF GenInv, GenTypes
  <2>2. QueueInv' /\ EpisodeInv' /\ OnTime(Passed)'
    BY <1>1, <1>3 DEF GenInv, QueueInv, Labelled, EpisodeInv, OnTime
  <2> QED BY <1>1, <2>1, <2>2 DEF HandInv
<1>5. ASSUME NEW k \in DOMAIN Passed PROVE Passed[k].ts <= nextBase'
  <2>1. Passed[k].ts \in Int /\ Passed[k].ts <= nextBase
    BY <1>3, PublishedFields, LenProperties DEF GenInv, FloorInv
  <2> QED BY <1>2, <2>1
<1>6. FloorInv'
  BY <1>1, <1>3, <1>5 DEF GenInv, FloorInv
<1> QED BY <1>4, <1>6 DEF GenInv

\* A step that leaves the runner as it is, or only moves it on in its loop, keeps what it promises.
LEMMA GenKept ==
  ASSUME GenInv, [GenNext]_<<now, runnerVars>>
  PROVE  GenInv'
<1>1. CASE LoopHead
  BY <1>1, LoopHeadKeeps
<1>2. CASE \E i \in Injectors : Spawn(i)
  BY <1>2, SpawnKeeps
<1>3. CASE (\E ev \in queue : TakeQueued(ev)) \/ TakeBase
  BY <1>3, TakeQueuedKeeps, TakeBaseKeeps
<1>4. CASE SendTxn \/ SendLabel
  BY <1>4, SendTxnKeeps, SendLabelKeeps
<1>5. ASSUME nextBase' = nextBase, nextEpisode' = nextEpisode, episodes' = episodes, queue' = queue, sent' = sent,
             hand' = hand, now' \in Nat, now' <= MaxClock,
             pc' = pc \/ (pc \notin {"publish", "label"} /\ pc' \notin {"publish", "label"}),
             pc' = "body" => pc = "body" \/ (episodes < MaxEpisodes => \A i \in Injectors : nextEpisode[i] > nextBase)
      PROVE  GenInv'
  <2>0. Passed' = Passed
    BY <1>5 DEF Passed
  <2>1. GenTypes' /\ OnTime(Passed)'
    BY <1>5, <2>0 DEF GenInv, GenTypes, OnTime
  <2>2. QueueInv' /\ EpisodeInv'
    BY <1>5, <2>0 DEF GenInv, QueueInv, Labelled, EpisodeInv
  <2>3. FloorInv'
    BY <1>5, <2>0 DEF GenInv, FloorInv
  <2>4. HandInv'
    BY <1>5 DEF GenInv, HandInv, Labelled
  <2> QED BY <2>1, <2>2, <2>3, <2>4 DEF GenInv
<1>6. now \in Nat /\ now <= MaxClock /\ MaxClock \in Nat /\ nextBase \in Int /\ nextEpisode \in [Injectors -> Int]
  BY GeneratorAssumption DEF GenInv, GenTypes
<1>7. CASE Stop \/ Resync \/ PlayTxn \/ PlayLabel
  BY <1>5, <1>6, <1>7 DEF Stop, Resync, PlayTxn, PlayLabel, runnerVars
<1>8. CASE Spawned
  <2>1. episodes < MaxEpisodes => \A i \in Injectors : nextEpisode[i] > nextBase
    <3>1. \A i \in Injectors : nextEpisode[i] \in Int /\ ~(nextEpisode[i] <= nextBase /\ episodes < MaxEpisodes)
      BY <1>6, <1>8 DEF Spawned, Due
    <3> QED BY <1>6, <3>1
  <2> QED BY <1>5, <1>6, <1>8, <2>1 DEF Spawned
<1>9. CASE Tick
  <2>1. now' = now + 1 /\ now < MaxClock /\ UNCHANGED runnerVars
    BY <1>9 DEF Tick
  <2> QED BY <1>5, <1>6, <2>1 DEF runnerVars
<1>10. CASE UNCHANGED <<now, runnerVars>>
  BY <1>5, <1>6, <1>10 DEF runnerVars
<1> QED BY <1>1, <1>2, <1>3, <1>4, <1>7, <1>8, <1>9, <1>10 DEF GenNext, Runner

\* The generator starts with an empty schedule.
LEMMA GenBegins ==
  ASSUME GenInit
  PROVE  GenInv
<1>1. /\ now = 0 /\ nextBase = 0 /\ pc = "head" /\ nextEpisode \in [Injectors -> EpisodeGaps]
      /\ episodes = 0 /\ queue = {} /\ sent = <<>> /\ Passed = <<>>
  BY DEF GenInit, Passed
<1>2. /\ nextEpisode \in [Injectors -> Int] /\ MaxEpisodes \in Nat /\ MaxClock \in Nat
  <2>1. EpisodeGaps \subseteq Int /\ MaxEpisodes \in Nat /\ MaxClock \in Nat
    BY GeneratorAssumption
  <2> QED BY <1>1, <2>1
<1>3. DOMAIN Passed = {}
  BY <1>1
<1>4. GenTypes
  BY <1>1, <1>2 DEF GenTypes
<1> QED BY <1>1, <1>3, <1>4 DEF GenInv, QueueInv, FloorInv, EpisodeInv, HandInv, OnTime
-----------------------------------------------------------------------------
(* The way of a record: from a producer's queue to its topic *)

\* No two records of a queue and of the topic behind it are about the same transaction.
Once(box, log) ==
    /\ \A p, q \in Partitions : \A i \in DOMAIN box[p], j \in DOMAIN box[q] :
         box[p][i].id = box[q][j].id => p = q /\ i = j
    /\ \A p, q \in Partitions : \A i \in DOMAIN log[p], j \in DOMAIN log[q] :
         IsData(log[p][i]) /\ IsData(log[q][j]) /\ log[p][i].id = log[q][j].id => p = q /\ i = j
    /\ \A p, q \in Partitions : \A i \in DOMAIN box[p], j \in DOMAIN log[q] :
         IsData(log[q][j]) => box[p][i].id # log[q][j].id

\* A transaction is on this way.
Holds(box, log, id) ==
    \/ \E p \in Partitions : \E i \in DOMAIN box[p] : box[p][i].id = id
    \/ \E p \in Partitions : \E i \in DOMAIN log[p] : IsData(log[p][i]) /\ log[p][i].id = id

\* A record is appended to a queue.
Sends(B, box, at, r, box2) ==
    box \in [Partitions -> Seq(B)] /\ r \in B /\ box2 = [box EXCEPT ![at] = Append(box[at], r)]

\* The first record of a queue goes, and one about the same transaction is appended to the topic.
Moves(B, L, box, log, at, d, box2, log2) ==
    /\ box \in [Partitions -> Seq(B)] /\ log \in [Partitions -> Seq(L)]
    /\ at \in Partitions /\ box[at] # <<>> /\ d \in L /\ (IsData(d) => d.id = Head(box[at]).id)
    /\ box2 = [box EXCEPT ![at] = Tail(box[at])] /\ log2 = [log EXCEPT ![at] = Append(log[at], d)]

\* A record that is about no transaction is appended to the topic.
Marks(L, log, at, m, log2) ==
    /\ log \in [Partitions -> Seq(L)] /\ at \in Partitions /\ m \in L /\ ~IsData(m)
    /\ log2 = [log EXCEPT ![at] = Append(log[at], m)]

\* What is appended to a queue is one more record at its end.
LEMMA OneMore ==
  ASSUME NEW S, NEW s \in Seq(S), NEW r \in S
  PROVE  /\ Append(s, r) \in Seq(S) /\ Len(s) \in Nat
         /\ DOMAIN s = 1 .. Len(s) /\ DOMAIN Append(s, r) = 1 .. Len(s) + 1
         /\ Append(s, r)[Len(s) + 1] = r
         /\ \A i \in DOMAIN s : Append(s, r)[i] = s[i]
OBVIOUS

\* A transaction of which nothing is on the way yet may be sent on it.
LEMMA SentOnce ==
  ASSUME NEW B, NEW box, NEW log, NEW r, NEW at, NEW box2, Sends(B, box, at, r, box2),
         Once(box, log), ~Holds(box, log, r.id)
  PROVE  /\ box2 \in [Partitions -> Seq(B)] /\ Once(box2, log)
         /\ \A id : Holds(box2, log, id) => Holds(box, log, id) \/ id = r.id
         /\ \A p \in Partitions : \A i \in DOMAIN box2[p] :
              box2[p][i] = r \/ (i \in DOMAIN box[p] /\ box2[p][i] = box[p][i])
<1> USE DEF Sends
<1>1. ASSUME NEW p \in Partitions
      PROVE  /\ box2[p] \in Seq(B) /\ Len(box[p]) \in Nat /\ DOMAIN box[p] = 1 .. Len(box[p])
             /\ p # at => box2[p] = box[p]
             /\ p = at => /\ DOMAIN box2[p] = 1 .. Len(box[p]) + 1 /\ box2[p][Len(box[p]) + 1] = r
                          /\ \A i \in DOMAIN box[p] : box2[p][i] = box[p][i]
  <2>1. box[p] \in Seq(B)
    OBVIOUS
  <2>2. box2[p] = IF p = at THEN Append(box[p], r) ELSE box[p]
    OBVIOUS
  <2> QED BY <2>1, <2>2, OneMore
<1>2. box2 \in [Partitions -> Seq(B)]
  BY <1>1
<1>3. ASSUME NEW p \in Partitions, NEW i \in DOMAIN box2[p]
      PROVE  \/ p = at /\ i = Len(box[at]) + 1 /\ box2[p][i] = r
             \/ i \in DOMAIN box[p] /\ box2[p][i] = box[p][i]
  BY <1>1
<1>4. \A id : Holds(box2, log, id) => Holds(box, log, id) \/ id = r.id
  BY <1>3 DEF Holds
<1>5. \A p \in Partitions : \A i \in DOMAIN box[p] : box[p][i].id # r.id
  BY DEF Holds
<1>6. \A p \in Partitions : \A i \in DOMAIN log[p] : IsData(log[p][i]) => log[p][i].id # r.id
  BY DEF Holds
<1>7. ASSUME NEW p \in Partitions, NEW q \in Partitions, NEW i \in DOMAIN box2[p], NEW j \in DOMAIN box2[q],
             box2[p][i].id = box2[q][j].id
      PROVE  p = q /\ i = j
  <2>1. \/ p = at /\ i = Len(box[at]) + 1 /\ box2[p][i] = r
        \/ i \in DOMAIN box[p] /\ box2[p][i] = box[p][i]
    BY <1>3
  <2>2. \/ q = at /\ j = Len(box[at]) + 1 /\ box2[q][j] = r
        \/ j \in DOMAIN box[q] /\ box2[q][j] = box[q][j]
    BY <1>3
  <2> QED BY <1>5, <1>7, <2>1, <2>2 DEF Once
<1>8. ASSUME NEW p \in Partitions, NEW q \in Partitions, NEW i \in DOMAIN box2[p], NEW j \in DOMAIN log[q],
             IsData(log[q][j])
      PROVE  box2[p][i].id # log[q][j].id
  BY <1>3, <1>6, <1>8 DEF Once
<1>9. Once(box2, log)
  BY <1>7, <1>8 DEF Once
<1> QED BY <1>2, <1>3, <1>4, <1>9

\* The first record of a queue moves to the topic.
LEMMA MovedOnce ==
  ASSUME NEW B, NEW L, NEW box, NEW log, NEW at, NEW d, NEW box2, NEW log2,
         Moves(B, L, box, log, at, d, box2, log2), Once(box, log)
  PROVE  /\ box2 \in [Partitions -> Seq(B)] /\ log2 \in [Partitions -> Seq(L)] /\ Once(box2, log2)
         /\ \A id : Holds(box2, log2, id) => Holds(box, log, id)
         /\ \A p \in Partitions : \A i \in DOMAIN box2[p] : \E j \in DOMAIN box[p] : box2[p][i] = box[p][j]
<1> USE DEF Moves
<1>1. /\ box[at] \in Seq(B) /\ Len(box[at]) \in Nat /\ DOMAIN box[at] = 1 .. Len(box[at]) /\ 1 \in DOMAIN box[at]
      /\ Head(box[at]) = box[at][1] /\ Tail(box[at]) \in Seq(B)
      /\ DOMAIN Tail(box[at]) = 1 .. Len(box[at]) - 1
      /\ \A i \in 1 .. Len(box[at]) - 1 : Tail(box[at])[i] = box[at][i + 1]
  OBVIOUS
<1>2. /\ log[at] \in Seq(L) /\ Len(log[at]) \in Nat /\ DOMAIN log[at] = 1 .. Len(log[at])
      /\ Append(log[at], d) \in Seq(L) /\ DOMAIN Append(log[at], d) = 1 .. Len(log[at]) + 1
      /\ Append(log[at], d)[Len(log[at]) + 1] = d
      /\ \A i \in DOMAIN log[at] : Append(log[at], d)[i] = log[at][i]
  BY OneMore
<1>3. /\ \A p \in Partitions : box2[p] = IF p = at THEN Tail(box[at]) ELSE box[p]
      /\ \A p \in Partitions : log2[p] = IF p = at THEN Append(log[at], d) ELSE log[p]
  OBVIOUS
<1>4. box2 \in [Partitions -> Seq(B)] /\ log2 \in [Partitions -> Seq(L)]
  BY <1>1, <1>2
<1>5. ASSUME NEW p \in Partitions, NEW i \in DOMAIN box2[p]
      PROVE  \E j \in DOMAIN box[p] : /\ box2[p][i] = box[p][j]
                                      /\ p = at => j = i + 1 /\ j # 1
                                      /\ p # at => j = i
  <2>1. CASE p = at
    <3>1. i \in 1 .. Len(box[at]) - 1 /\ box2[p][i] = box[at][i + 1]
      BY <1>1, <1>3, <2>1
    <3>2. i + 1 \in DOMAIN box[at] /\ i + 1 # 1
      BY <1>1, <3>1
    <3> QED BY <2>1, <3>1, <3>2
  <2>2. CASE p # at
    BY <1>3, <2>2
  <2> QED BY <2>1, <2>2
<1>6. ASSUME NEW p \in Partitions, NEW i \in DOMAIN log2[p]
      PROVE  \/ p = at /\ i = Len(log[at]) + 1 /\ log2[p][i] = d
             \/ i \in DOMAIN log[p] /\ log2[p][i] = log[p][i]
  BY <1>2, <1>3
<1>7. IsData(d) => d.id = box[at][1].id
  BY <1>1
<1>8. \A id : Holds(box2, log2, id) => Holds(box, log, id)
  <2> SUFFICES ASSUME NEW id, Holds(box2, log2, id) PROVE Holds(box, log, id)
    OBVIOUS
  <2>1. CASE \E p \in Partitions : \E i \in DOMAIN box2[p] : box2[p][i].id = id
    BY <1>5, <2>1 DEF Holds
  <2>2. CASE \E p \in Partitions : \E i \in DOMAIN log2[p] : IsData(log2[p][i]) /\ log2[p][i].id = id
    BY <1>1, <1>6, <1>7, <2>2 DEF Holds
  <2> QED BY <2>1, <2>2 DEF Holds
<1>9. ASSUME NEW p \in Partitions, NEW q \in Partitions, NEW i \in DOMAIN box2[p], NEW j \in DOMAIN box2[q],
             box2[p][i].id = box2[q][j].id
      PROVE  p = q /\ i = j
  <2>1. PICK k \in DOMAIN box[p] : box2[p][i] = box[p][k] /\ (p = at => k = i + 1) /\ (p # at => k = i)
    BY <1>5
  <2>2. PICK l \in DOMAIN box[q] : box2[q][j] = box[q][l] /\ (q = at => l = j + 1) /\ (q # at => l = j)
    BY <1>5
  <2>3. p = q /\ k = l
    BY <1>9, <2>1, <2>2 DEF Once
  <2>4. CASE p = at
    <3>1. i \in Int /\ j \in Int
      BY <1>1, <1>3, <2>3, <2>4
    <3> QED BY <2>1, <2>2, <2>3, <2>4, <3>1
  <2> QED BY <2>1, <2>2, <2>3, <2>4
<1>10. ASSUME NEW p \in Partitions, NEW q \in Partitions, NEW i \in DOMAIN log2[p], NEW j \in DOMAIN log2[q],
              IsData(log2[p][i]), IsData(log2[q][j]), log2[p][i].id = log2[q][j].id
       PROVE  p = q /\ i = j
  <2>1. \/ p = at /\ i = Len(log[at]) + 1 /\ log2[p][i] = d
        \/ i \in DOMAIN log[p] /\ log2[p][i] = log[p][i]
    BY <1>6
  <2>2. \/ q = at /\ j = Len(log[at]) + 1 /\ log2[q][j] = d
        \/ j \in DOMAIN log[q] /\ log2[q][j] = log[q][j]
    BY <1>6
  <2>3. ASSUME NEW x \in Partitions, NEW y \in DOMAIN log[x], IsData(log[x][y]), IsData(d)
        PROVE  log[x][y].id # d.id
    <3>1. d.id = box[at][1].id
      BY <1>7, <2>3
    <3>2. \A k \in DOMAIN box[at] : box[at][k].id # log[x][y].id
      BY <2>3 DEF Once
    <3>3. box[at][1].id # log[x][y].id
      BY <1>1, <3>2
    <3> QED BY <3>1, <3>3
  <2> QED BY <1>10, <2>1, <2>2, <2>3 DEF Once
<1>11. ASSUME NEW p \in Partitions, NEW q \in Partitions, NEW i \in DOMAIN box2[p], NEW j \in DOMAIN log2[q],
              IsData(log2[q][j])
       PROVE  box2[p][i].id # log2[q][j].id
  <2>1. PICK k \in DOMAIN box[p] : box2[p][i] = box[p][k] /\ (p = at => k # 1)
    BY <1>5
  <2>2. \/ log2[q][j] = d
        \/ j \in DOMAIN log[q] /\ log2[q][j] = log[q][j]
    BY <1>6
  <2>3. CASE log2[q][j] = d
    <3>1. d.id = box[at][1].id
      BY <1>7, <1>11, <2>3
    <3>2. box[p][k].id # box[at][1].id
      BY <1>1, <2>1 DEF Once
    <3> QED BY <2>1, <2>3, <3>1, <3>2
  <2>4. CASE j \in DOMAIN log[q] /\ log2[q][j] = log[q][j]
    <3>1. IsData(log[q][j])
      BY <1>11, <2>4
    <3>2. box[p][k].id # log[q][j].id
      BY <2>4, <3>1 DEF Once
    <3> QED BY <2>1, <2>4, <3>2
  <2> QED BY <2>2, <2>3, <2>4
<1>12. Once(box2, log2)
  <2>1. \A p, q \in Partitions : \A i \in DOMAIN box2[p], j \in DOMAIN box2[q] :
          box2[p][i].id = box2[q][j].id => p = q /\ i = j
    BY <1>9
  <2>2. \A p, q \in Partitions : \A i \in DOMAIN log2[p], j \in DOMAIN log2[q] :
          IsData(log2[p][i]) /\ IsData(log2[q][j]) /\ log2[p][i].id = log2[q][j].id => p = q /\ i = j
    <3> TAKE p, q \in Partitions
    <3> TAKE i \in DOMAIN log2[p], j \in DOMAIN log2[q]
    <3> HAVE IsData(log2[p][i]) /\ IsData(log2[q][j]) /\ log2[p][i].id = log2[q][j].id
    <3> QED BY <1>10 DEF IsData
  <2>3. \A p, q \in Partitions : \A i \in DOMAIN box2[p], j \in DOMAIN log2[q] :
          IsData(log2[q][j]) => box2[p][i].id # log2[q][j].id
    BY <1>11
  <2> QED BY <2>1, <2>2, <2>3 DEF Once
<1>13. \A p \in Partitions : \A i \in DOMAIN box2[p] : \E j \in DOMAIN box[p] : box2[p][i] = box[p][j]
  BY <1>5
<1> QED BY <1>4, <1>8, <1>12, <1>13

\* A commit marker is about no transaction.
LEMMA MarkedOnce ==
  ASSUME NEW box, NEW L, NEW log, NEW at, NEW m, NEW log2, Marks(L, log, at, m, log2), Once(box, log)
  PROVE  /\ log2 \in [Partitions -> Seq(L)] /\ Once(box, log2)
         /\ \A id : Holds(box, log2, id) => Holds(box, log, id)
<1> USE DEF Marks
<1>1. /\ log[at] \in Seq(L) /\ Len(log[at]) \in Nat /\ DOMAIN log[at] = 1 .. Len(log[at])
      /\ Append(log[at], m) \in Seq(L) /\ DOMAIN Append(log[at], m) = 1 .. Len(log[at]) + 1
      /\ Append(log[at], m)[Len(log[at]) + 1] = m
      /\ \A i \in DOMAIN log[at] : Append(log[at], m)[i] = log[at][i]
  BY OneMore
<1>2. \A p \in Partitions : log2[p] = IF p = at THEN Append(log[at], m) ELSE log[p]
  OBVIOUS
<1>3. ASSUME NEW p \in Partitions, NEW i \in DOMAIN log2[p], IsData(log2[p][i])
      PROVE  i \in DOMAIN log[p] /\ log2[p][i] = log[p][i]
  BY <1>1, <1>2, <1>3
<1>4. log2 \in [Partitions -> Seq(L)]
  BY <1>1
<1>5. Once(box, log2)
  BY <1>3 DEF Once
<1>6. \A id : Holds(box, log2, id) => Holds(box, log, id)
  BY <1>3 DEF Holds
<1> QED BY <1>4, <1>5, <1>6
-----------------------------------------------------------------------------
(* What is on its way, and what is read *)

RawRecords == [id : Nat \X Nat, ts : Int]
SentLabels == [id : Nat \X Nat, created : 0 .. MaxClock, label : EventLabels]

LabelRecords    == [kind : {"data"}, stamp : 0 .. MaxClock, id : Nat \X Nat, label : EventLabels]
DecisionRecords == [kind : {"data"}, stamp : Int, id : Nat \X Nat, known : BOOLEAN]
                       \cup [kind : {"marker"}, stamp : Int]

LogTypes == logs \in [decisions : [Partitions -> Seq(DecisionRecords)], labels : [Partitions -> Seq(LabelRecords)]]

PipeTypes ==
    /\ outbox \in [raw : [Partitions -> Seq(RawRecords)], labels : [Partitions -> Seq(SentLabels)]]
    /\ LogTypes
    /\ script \in Seq(Events)

\* A record lies on a topic.
OnTopic(topic, r) == \E p \in Partitions : \E i \in DOMAIN logs[topic][p] : r = logs[topic][p][i] /\ IsData(r)

\* Nothing that lies on a topic is taken back or moved.
LogsGrow ==
    \A topic \in {"decisions", "labels"} : \A p \in Partitions :
        /\ Len(logs[topic][p]) <= Len(logs'[topic][p])
        /\ \A i \in DOMAIN logs[topic][p] : i \in DOMAIN logs'[topic][p] /\ logs'[topic][p][i] = logs[topic][p][i]

ReadTypes ==
    /\ stage \in 0 .. 3
    /\ reading = CASE stage = 1 -> "decisions" [] stage = 2 -> "labels" [] OTHER -> NoTopic
    /\ start \in [Partitions -> Nat] /\ high \in [Partitions -> Nat] /\ next \in [Partitions -> Nat]
    /\ kept = [decisions |-> kept.decisions, labels |-> kept.labels]

\* The consumer is between its start and the end of the log, and past the noted end of a
\* partition it does not wait for.
PlaceInv ==
    stage \in {1, 2} =>
        \A p \in Partitions :
            /\ start[p] <= next[p] /\ next[p] <= Len(logs[reading][p])
            /\ start[p] <= high[p] /\ high[p] <= Len(logs[reading][p])
            /\ p \notin pending => high[p] <= next[p]

\* What lies between came, and nothing came that is not on the topic.
SeenInv ==
    stage \in {1, 2} =>
        /\ \A p \in Partitions : \A i \in start[p] + 1 .. next[p] :
             IsData(logs[reading][p][i]) => logs[reading][p][i] \in yielded
        /\ \A r \in yielded : OnTopic(reading, r)
        /\ IsFiniteSet(yielded)

KeptInv ==
    /\ stage \in {2, 3} => IsFiniteSet(kept.decisions) /\ \A r \in kept.decisions : OnTopic("decisions", r)
    /\ stage = 3 => IsFiniteSet(kept.labels) /\ \A r \in kept.labels : OnTopic("labels", r)

\* The label of a transaction that was decided after it.
KnownInv ==
    \A r : OnTopic("decisions", r) /\ r.known =>
        \E q \in Partitions : \E j \in DOMAIN logs.labels[q] :
            logs.labels[q][j].id = r.id /\ logs.labels[q][j].stamp >= Since - Margin

\* It lies where the labels are read, and in the end it was read.
LabelInv ==
    /\ stage = 2 => \A d \in kept.decisions : d.known =>
         \E p \in Partitions : \E i \in start[p] + 1 .. high[p] : logs.labels[p][i].id = d.id
    /\ stage = 3 => \A d \in kept.decisions : d.known => \E l \in kept.labels : l.id = d.id

ReadInv == ReadTypes /\ PlaceInv /\ SeenInv /\ KeptInv /\ LabelInv

\* What is known of a partition's log, one fact at a time.
LEMMA LogFacts ==
  ASSUME LogTypes
  PROVE  \A topic \in {"decisions", "labels"} : \A p \in Partitions :
           /\ Len(logs[topic][p]) \in Nat /\ DOMAIN logs[topic][p] = 1 .. Len(logs[topic][p])
           /\ \A i \in DOMAIN logs[topic][p] :
                logs[topic][p][i].stamp \in Int /\ (topic = "labels" => IsData(logs[topic][p][i]))
<1>1. ASSUME NEW p \in Partitions
      PROVE  /\ Len(logs["decisions"][p]) \in Nat /\ DOMAIN logs["decisions"][p] = 1 .. Len(logs["decisions"][p])
             /\ \A i \in DOMAIN logs["decisions"][p] : logs["decisions"][p][i].stamp \in Int
  <2>1. logs["decisions"][p] \in Seq(DecisionRecords)
    BY DEF LogTypes
  <2>2. \A r \in DecisionRecords : r.stamp \in Int
    BY DEF DecisionRecords
  <2> QED BY <2>1, <2>2, LenProperties
<1>2. ASSUME NEW p \in Partitions
      PROVE  /\ Len(logs["labels"][p]) \in Nat /\ DOMAIN logs["labels"][p] = 1 .. Len(logs["labels"][p])
             /\ \A i \in DOMAIN logs["labels"][p] :
                  logs["labels"][p][i].stamp \in Int /\ IsData(logs["labels"][p][i])
  <2>1. logs["labels"][p] \in Seq(LabelRecords)
    BY DEF LogTypes
  <2>2. \A r \in LabelRecords : r.stamp \in Int /\ IsData(r)
    <3>1. \A x \in 0 .. MaxClock : x \in Int
      BY GeneratorAssumption
    <3> QED BY <3>1 DEF LabelRecords, IsData
  <2> QED BY <2>1, <2>2, LenProperties
<1> QED BY <1>1, <1>2

\* A reading starts where it is told to: what is stamped since or later lies behind.
LEMMA StartsBefore ==
  ASSUME NEW log, NEW since \in Int, Len(log) \in Nat, DOMAIN log = 1 .. Len(log)
  PROVE  /\ StartOf(log, since) \in 0 .. Len(log)
         /\ \A i \in DOMAIN log : log[i].stamp >= since => i >= StartOf(log, since) + 1
<1> DEFINE later == {i \in DOMAIN log : log[i].stamp >= since}
<1>1. CASE later = {}
  <2>1. StartOf(log, since) = Len(log)
    BY <1>1 DEF StartOf
  <2> QED BY <1>1, <2>1
<1>2. CASE later # {}
  <2>1. StartOf(log, since) = Min(later) - 1
    BY <1>2 DEF StartOf
  <2>2. later \in SUBSET Nat
    OBVIOUS
  <2>3. \E x \in later : \A y \in later : x <= y
    <3> HIDE DEF later
    <3> QED BY <1>2, <2>2, NatMin
  <2>4. Min(later) \in later /\ \A y \in later : Min(later) <= y
    <3> HIDE DEF later
    <3>1. Min(later) = CHOOSE x \in later : \A y \in later : x <= y
      BY DEF Min
    <3> QED BY <2>3, <3>1
  <2>5. Min(later) \in 1 .. Len(log) /\ \A i \in DOMAIN log : log[i].stamp >= since => Min(later) <= i /\ i \in Nat
    BY <2>4
  <2> HIDE DEF later
  <2> QED BY <2>1, <2>5
<1> QED BY <1>1, <1>2

\* A topic is opened at its start, with its end as it is.
LEMMA Opens ==
  ASSUME LogTypes, NEW topic \in {"decisions", "labels"}, NEW since \in Int, Open(topic, since)
  PROVE  /\ reading' = topic /\ yielded' = {} /\ next' = start'
         /\ start' \in [Partitions -> Nat] /\ high' \in [Partitions -> Nat]
         /\ \A p \in Partitions :
              /\ start'[p] <= high'[p] /\ high'[p] = Len(logs[topic][p])
              /\ p \notin pending' => high'[p] <= start'[p]
              /\ \A i \in DOMAIN logs[topic][p] : logs[topic][p][i].stamp >= since => i \in start'[p] + 1 .. high'[p]
<1>1. /\ reading' = topic /\ yielded' = {} /\ next' = start'
      /\ high' = [p \in Partitions |-> Len(logs[topic][p])]
      /\ start' = [p \in Partitions |-> StartOf(logs[topic][p], since)]
      /\ pending' = {p \in Partitions : start'[p] < high'[p]}
  BY RecallAssumption DEF Open
<1>2. ASSUME NEW p \in Partitions
      PROVE  /\ Len(logs[topic][p]) \in Nat /\ StartOf(logs[topic][p], since) \in 0 .. Len(logs[topic][p])
             /\ \A i \in DOMAIN logs[topic][p] :
                  /\ i \in 1 .. Len(logs[topic][p])
                  /\ logs[topic][p][i].stamp >= since => i >= StartOf(logs[topic][p], since) + 1
  <2>1. Len(logs[topic][p]) \in Nat /\ DOMAIN logs[topic][p] = 1 .. Len(logs[topic][p])
    BY LogFacts
  <2> QED BY <2>1, StartsBefore
<1>3. start' \in [Partitions -> Nat] /\ high' \in [Partitions -> Nat]
  BY <1>1, <1>2
<1>4. ASSUME NEW p \in Partitions
      PROVE  /\ start'[p] <= high'[p] /\ high'[p] = Len(logs[topic][p])
             /\ p \notin pending' => high'[p] <= start'[p]
             /\ \A i \in DOMAIN logs[topic][p] : logs[topic][p][i].stamp >= since => i \in start'[p] + 1 .. high'[p]
  BY <1>1, <1>2
<1> QED BY <1>1, <1>3, <1>4

\* A reading that ends has all that lies between its start and the noted end.
LEMMA ReadAll ==
  ASSUME LogTypes, ReadInv, stage \in {1, 2}, ReadingEnds, NEW p \in Partitions, NEW i \in start[p] + 1 .. high[p],
         IsData(logs[reading][p][i])
  PROVE  logs[reading][p][i] \in yielded
<1>1. /\ reading \in {"decisions", "labels"} /\ start[p] \in Nat /\ high[p] \in Nat /\ next[p] \in Nat
  BY DEF ReadInv, ReadTypes
<1>2. Len(logs[reading][p]) \in Nat
  BY <1>1, LogFacts
<1>3. high[p] <= next[p]
  <2>1. pending = {} \/ next[p] = Len(logs[reading][p])
    BY RecallAssumption DEF ReadingEnds
  <2>2. high[p] <= Len(logs[reading][p]) /\ (p \notin pending => high[p] <= next[p])
    BY DEF ReadInv, PlaceInv
  <2> QED BY <1>1, <1>2, <2>1, <2>2
<1>4. i \in start[p] + 1 .. next[p]
  BY <1>1, <1>3
<1> QED BY <1>4 DEF ReadInv, SeenInv

\* Traffic goes on while a topic is read.
LEMMA GrowthKeeps ==
  ASSUME LogTypes, LogTypes', ReadInv, LogsGrow, UNCHANGED readVars
  PROVE  ReadInv'
<1>1. /\ stage' = stage /\ kept' = kept /\ reading' = reading /\ start' = start /\ high' = high /\ next' = next
      /\ pending' = pending /\ yielded' = yielded
  BY DEF readVars, readerVars
<1>2. ReadTypes'
  BY <1>1 DEF ReadInv, ReadTypes
<1>3. \A topic \in {"decisions", "labels"} : \A r : OnTopic(topic, r) => OnTopic(topic, r)'
  BY DEF OnTopic, LogsGrow
<1>4. stage \in {1, 2} => reading \in {"decisions", "labels"}
  BY DEF ReadInv, ReadTypes
<1>5. start \in [Partitions -> Nat] /\ high \in [Partitions -> Nat] /\ next \in [Partitions -> Nat]
  BY DEF ReadInv, ReadTypes
<1>6. \A topic \in {"decisions", "labels"} : \A p \in Partitions :
        /\ Len(logs[topic][p]) \in Nat /\ Len(logs'[topic][p]) \in Nat
        /\ DOMAIN logs[topic][p] = 1 .. Len(logs[topic][p])
  <2>1. \A topic \in {"decisions", "labels"} : \A p \in Partitions : Len(logs'[topic][p]) \in Nat
    BY LogFacts DEF LogTypes
  <2> QED BY <2>1, LogFacts
<1>7. PlaceInv'
  <2> SUFFICES ASSUME stage \in {1, 2}, NEW p \in Partitions
               PROVE  /\ start[p] <= next[p] /\ next[p] <= Len(logs'[reading][p])
                      /\ start[p] <= high[p] /\ high[p] <= Len(logs'[reading][p])
                      /\ p \notin pending => high[p] <= next[p]
    BY <1>1 DEF PlaceInv
  <2>1. /\ start[p] <= next[p] /\ next[p] <= Len(logs[reading][p])
        /\ start[p] <= high[p] /\ high[p] <= Len(logs[reading][p])
        /\ p \notin pending => high[p] <= next[p]
    BY DEF ReadInv, PlaceInv
  <2>2. Len(logs[reading][p]) <= Len(logs'[reading][p]) /\ Len(logs[reading][p]) \in Nat /\ Len(logs'[reading][p]) \in Nat
    BY <1>4, <1>6 DEF LogsGrow
  <2> QED BY <1>5, <2>1, <2>2
<1>8. SeenInv'
  <2> SUFFICES ASSUME stage \in {1, 2}
               PROVE  /\ \A p \in Partitions : \A i \in start[p] + 1 .. next[p] :
                           IsData(logs'[reading][p][i]) => logs'[reading][p][i] \in yielded
                      /\ \A r \in yielded : OnTopic(reading, r)'
                      /\ IsFiniteSet(yielded)
    BY <1>1 DEF SeenInv, OnTopic
  <2>1. ASSUME NEW p \in Partitions, NEW i \in start[p] + 1 .. next[p], IsData(logs'[reading][p][i])
        PROVE  logs'[reading][p][i] \in yielded
    <3>1. i \in DOMAIN logs[reading][p]
      <4>1. next[p] <= Len(logs[reading][p]) /\ Len(logs[reading][p]) \in Nat
        BY <1>4, <1>6 DEF ReadInv, PlaceInv
      <4> QED BY <1>4, <1>5, <1>6, <4>1
    <3>2. logs'[reading][p][i] = logs[reading][p][i]
      BY <1>4, <3>1 DEF LogsGrow
    <3> QED BY <2>1, <3>2 DEF ReadInv, SeenInv
  <2>2. ASSUME NEW r \in yielded PROVE OnTopic(reading, r)'
    <3>1. OnTopic(reading, r)
      BY DEF ReadInv, SeenInv
    <3>2. \A topic \in {"decisions", "labels"} : topic = reading => OnTopic(topic, r)'
      BY <1>3, <3>1
    <3> QED BY <1>1, <1>4, <3>2 DEF OnTopic
  <2>3. IsFiniteSet(yielded)
    BY DEF ReadInv, SeenInv
  <2> QED BY <2>1, <2>2, <2>3
<1>9. KeptInv'
  BY <1>1, <1>3 DEF ReadInv, KeptInv, OnTopic
<1>10. LabelInv'
  <2>1. ASSUME stage = 2, NEW d \in kept.decisions, d.known
        PROVE  \E p \in Partitions : \E i \in start[p] + 1 .. high[p] : logs'.labels[p][i].id = d.id
    <3>0. PICK p \in Partitions : \E i \in start[p] + 1 .. high[p] : logs.labels[p][i].id = d.id
      BY <2>1 DEF ReadInv, LabelInv
    <3>1. PICK i \in start[p] + 1 .. high[p] : logs.labels[p][i].id = d.id
      BY <3>0
    <3>2. i \in DOMAIN logs["labels"][p]
      <4>1. reading = "labels"
        BY <2>1 DEF ReadInv, ReadTypes
      <4>2. high[p] <= Len(logs["labels"][p])
        BY <2>1, <4>1 DEF ReadInv, PlaceInv
      <4> QED BY <1>5, <1>6, <4>2
    <3>3. logs'.labels[p][i] = logs.labels[p][i]
      BY <3>2 DEF LogsGrow
    <3> QED BY <3>1, <3>3
  <2>2. ASSUME stage = 3, NEW d \in kept.decisions, d.known
        PROVE  \E l \in kept.labels : l.id = d.id
    BY <2>2 DEF ReadInv, LabelInv
  <2> QED BY <1>1, <2>1, <2>2 DEF LabelInv
<1> QED BY <1>2, <1>7, <1>8, <1>9, <1>10 DEF ReadInv

\* The decisions are opened.
LEMMA BeginKeeps ==
  ASSUME LogTypes, ReadInv, Begin
  PROVE  ReadInv'
<1>1. stage' = 1 /\ kept' = kept /\ logs' = logs
  BY DEF Begin
<1>2. Open("decisions", Since) /\ Since \in Int
  BY RecallAssumption DEF Begin, InOrder, SinceOf
<1>3. /\ reading' = "decisions" /\ yielded' = {} /\ next' = start'
      /\ start' \in [Partitions -> Nat] /\ high' \in [Partitions -> Nat]
      /\ \A p \in Partitions :
           /\ start'[p] <= high'[p] /\ high'[p] = Len(logs["decisions"][p])
           /\ p \notin pending' => high'[p] <= start'[p]
  BY <1>2, Opens
<1>4. ReadTypes'
  BY <1>1, <1>3 DEF ReadInv, ReadTypes
<1>5. PlaceInv'
  BY <1>1, <1>3 DEF PlaceInv
<1>6. SeenInv'
  <2>1. \A p \in Partitions : start'[p] + 1 .. next'[p] = {}
    BY <1>3
  <2>2. IsFiniteSet(yielded')
    BY <1>3, FS_EmptySet
  <2> QED BY <1>3, <2>1, <2>2 DEF SeenInv
<1> QED BY <1>1, <1>4, <1>5, <1>6 DEF ReadInv, KeptInv, LabelInv

\* A record more, or a marker.
LEMMA ReadKeeps ==
  ASSUME LogTypes, ReadInv, NEW at \in Partitions, Read(at)
  PROVE  ReadInv'
<1> DEFINE r == logs[reading][at][next[at] + 1]
<1>1. /\ stage \in {1, 2} /\ stage' = stage /\ kept' = kept /\ logs' = logs /\ reading' = reading
      /\ start' = start /\ high' = high /\ next[at] < Len(logs[reading][at])
      /\ next' = [next EXCEPT ![at] = next[at] + 1]
  BY DEF Read, Poll
<1>2. /\ reading \in {"decisions", "labels"}
      /\ start \in [Partitions -> Nat] /\ high \in [Partitions -> Nat] /\ next \in [Partitions -> Nat]
  BY <1>1 DEF ReadInv, ReadTypes
<1>3. IF IsData(r) THEN /\ yielded' = yielded \cup {r}
                        /\ pending' = IF next[at] + 1 >= high[at] THEN pending \ {at} ELSE pending
                   ELSE yielded' = yielded /\ pending' = pending
  BY DEF Read, Poll, ReadToEnd
<1>4. Len(logs[reading][at]) \in Nat /\ DOMAIN logs[reading][at] = 1 .. Len(logs[reading][at])
  BY <1>2, LogFacts
<1>5. next[at] + 1 \in DOMAIN logs[reading][at]
  BY <1>1, <1>2, <1>4
<1> HIDE DEF r
<1>6. next' \in [Partitions -> Nat] /\ \A p \in Partitions : next'[p] = IF p = at THEN next[at] + 1 ELSE next[p]
  BY <1>1, <1>2
<1>7. ReadTypes'
  BY <1>1, <1>6 DEF ReadInv, ReadTypes
<1>8. PlaceInv'
  <2>1. ASSUME NEW p \in Partitions
        PROVE  /\ start[p] <= next'[p] /\ next'[p] <= Len(logs[reading][p])
               /\ start[p] <= high[p] /\ high[p] <= Len(logs[reading][p])
               /\ p \notin pending' => high[p] <= next'[p]
    <3>1. /\ start[p] <= next[p] /\ next[p] <= Len(logs[reading][p])
          /\ start[p] <= high[p] /\ high[p] <= Len(logs[reading][p])
          /\ p \notin pending => high[p] <= next[p]
      BY <1>1 DEF ReadInv, PlaceInv
    <3>2. start[p] \in Nat /\ high[p] \in Nat /\ next[p] \in Nat
      BY <1>2
    <3>3. CASE p = at
      <4>1. p \notin pending' => p \notin pending \/ next[at] + 1 >= high[at]
        BY <1>3
      <4> QED BY <1>1, <1>4, <1>6, <3>1, <3>2, <3>3, <4>1
    <3>4. CASE p # at
      <4>1. p \notin pending' => p \notin pending
        BY <1>3, <3>4
      <4> QED BY <1>6, <3>1, <3>4, <4>1
    <3> QED BY <3>3, <3>4
  <2> QED BY <1>1, <2>1 DEF PlaceInv
<1>9. SeenInv'
  <2>1. ASSUME NEW p \in Partitions, NEW i \in start[p] + 1 .. next'[p], IsData(logs[reading][p][i])
        PROVE  logs[reading][p][i] \in yielded'
    <3>1. CASE i \in start[p] + 1 .. next[p]
      <4>1. logs[reading][p][i] \in yielded
        BY <1>1, <2>1, <3>1 DEF ReadInv, SeenInv
      <4> QED BY <1>3, <4>1
    <3>2. CASE i \notin start[p] + 1 .. next[p]
      <4>1. p = at /\ i = next[at] + 1
        BY <1>2, <1>6, <3>2
      <4> QED BY <1>3, <2>1, <4>1 DEF r
    <3> QED BY <3>1, <3>2
  <2>2. ASSUME NEW x \in yielded' PROVE OnTopic(reading, x)
    <3>1. CASE x \in yielded
      BY <1>1, <3>1 DEF ReadInv, SeenInv
    <3>2. CASE x \notin yielded
      <4>1. x = r /\ IsData(r)
        BY <1>3, <3>2
      <4> QED BY <1>5, <4>1 DEF r, OnTopic
    <3> QED BY <3>1, <3>2
  <2>3. IsFiniteSet(yielded')
    <3>1. IsFiniteSet(yielded)
      BY <1>1 DEF ReadInv, SeenInv
    <3>2. IsFiniteSet(yielded \cup {r})
      BY <3>1, FS_AddElement
    <3> QED BY <1>3, <3>1, <3>2
  <2> QED BY <1>1, <2>1, <2>2, <2>3 DEF SeenInv, OnTopic
<1> QED BY <1>1, <1>7, <1>8, <1>9 DEF ReadInv, KeptInv, LabelInv, OnTopic

\* The labels are opened when the decisions are read: those of all that was known then lie before
\* their noted ends.
LEMMA GoOnKeeps ==
  ASSUME LogTypes, KnownInv, ReadInv, GoOn
  PROVE  ReadInv'
<1>1. /\ stage \in {1, 2} /\ ReadingEnds /\ stage' = stage + 1 /\ logs' = logs
      /\ kept' = [kept EXCEPT ![reading] = yielded]
  BY DEF GoOn
<1>2. /\ kept = [decisions |-> kept.decisions, labels |-> kept.labels]
      /\ start \in [Partitions -> Nat] /\ high \in [Partitions -> Nat] /\ next \in [Partitions -> Nat]
  BY DEF ReadInv, ReadTypes
<1>3. IsFiniteSet(yielded) /\ \A r \in yielded : OnTopic(reading, r)
  BY <1>1 DEF ReadInv, SeenInv
<1>4. CASE stage = 1
  <2>1. reading = "decisions"
    BY <1>4 DEF ReadInv, ReadTypes
  <2>2. kept' = [decisions |-> yielded, labels |-> kept.labels]
    BY <1>1, <1>2, <2>1
  <2>3. Open("labels", Since - Margin) /\ Since - Margin \in Int
    BY <1>4, RecallAssumption DEF GoOn, InOrder, SinceOf
  <2>4. /\ reading' = "labels" /\ yielded' = {} /\ next' = start'
        /\ start' \in [Partitions -> Nat] /\ high' \in [Partitions -> Nat]
        /\ \A p \in Partitions :
             /\ start'[p] <= high'[p] /\ high'[p] = Len(logs["labels"][p])
             /\ p \notin pending' => high'[p] <= start'[p]
             /\ \A i \in DOMAIN logs["labels"][p] :
                  logs["labels"][p][i].stamp >= Since - Margin => i \in start'[p] + 1 .. high'[p]
    BY <2>3, Opens
  <2>5. stage' = 2
    BY <1>1, <1>4
  <2>6. ReadTypes'
    BY <2>2, <2>4, <2>5 DEF ReadTypes
  <2>7. PlaceInv'
    BY <1>1, <2>4, <2>5 DEF PlaceInv
  <2>8. SeenInv'
    <3>1. \A p \in Partitions : start'[p] + 1 .. next'[p] = {}
      BY <2>4
    <3>2. IsFiniteSet(yielded')
      BY <2>4, FS_EmptySet
    <3> QED BY <2>4, <3>1, <3>2 DEF SeenInv
  <2>9. KeptInv'
    BY <1>1, <1>3, <2>1, <2>2, <2>5 DEF KeptInv, OnTopic
  <2>10. LabelInv'
    <3>1. ASSUME NEW d \in yielded, d.known
          PROVE  \E p \in Partitions : \E i \in start'[p] + 1 .. high'[p] : logs.labels[p][i].id = d.id
      <4>1. OnTopic("decisions", d)
        BY <1>3, <2>1
      <4>2. PICK q \in Partitions : \E j \in DOMAIN logs.labels[q] :
              logs.labels[q][j].id = d.id /\ logs.labels[q][j].stamp >= Since - Margin
        BY <3>1, <4>1 DEF KnownInv
      <4>3. PICK j \in DOMAIN logs.labels[q] : logs.labels[q][j].id = d.id /\ logs.labels[q][j].stamp >= Since - Margin
        BY <4>2
      <4>4. j \in start'[q] + 1 .. high'[q]
        BY <2>4, <4>3
      <4> QED BY <4>3, <4>4
    <3> QED BY <1>1, <2>2, <2>5, <3>1 DEF LabelInv
  <2> QED BY <2>6, <2>7, <2>8, <2>9, <2>10 DEF ReadInv
<1>5. CASE stage = 2
  <2>1. reading = "labels"
    BY <1>5 DEF ReadInv, ReadTypes
  <2>2. kept' = [decisions |-> kept.decisions, labels |-> yielded]
    BY <1>1, <1>2, <2>1
  <2>3. reading' = NoTopic /\ start' = start /\ high' = high /\ next' = next /\ stage' = 3
    BY <1>1, <1>5 DEF GoOn
  <2>4. ReadTypes'
    BY <1>2, <2>2, <2>3 DEF ReadTypes
  <2>5. PlaceInv' /\ SeenInv'
    BY <2>3 DEF PlaceInv, SeenInv
  <2>6. KeptInv'
    <3>1. IsFiniteSet(kept.decisions) /\ \A r \in kept.decisions : OnTopic("decisions", r)
      BY <1>5 DEF ReadInv, KeptInv
    <3> QED BY <1>1, <1>3, <2>1, <2>2, <2>3, <3>1 DEF KeptInv, OnTopic
  <2>7. LabelInv'
    <3>1. ASSUME NEW d \in kept.decisions, d.known PROVE \E l \in yielded : l.id = d.id
      <4>1. PICK p \in Partitions : \E i \in start[p] + 1 .. high[p] : logs.labels[p][i].id = d.id
        BY <1>5, <3>1 DEF ReadInv, LabelInv
      <4>2. PICK i \in start[p] + 1 .. high[p] : logs.labels[p][i].id = d.id
        BY <4>1
      <4>3. IsData(logs["labels"][p][i])
        <5>1. high[p] <= Len(logs["labels"][p])
          BY <1>1, <2>1 DEF ReadInv, PlaceInv
        <5>2. i \in DOMAIN logs["labels"][p]
          BY <1>2, <5>1, LogFacts
        <5> QED BY <5>2, LogFacts
      <4>4. logs[reading][p][i] \in yielded
        BY <1>1, <2>1, <4>3, ReadAll
      <4> QED BY <2>1, <4>2, <4>4
    <3> QED BY <2>2, <2>3, <3>1 DEF LabelInv
  <2> QED BY <2>4, <2>5, <2>6, <2>7 DEF ReadInv
<1> QED BY <1>1, <1>4, <1>5

\* What a label says of its transaction: the episode and, where it counts, which hop of how many.
Tells(r) ==
    /\ r.label.episode = r.id[1]
    /\ r.label.pattern = "RING" /\ r.label.hops # NoHop =>
         /\ r.label.hop = r.id[2] - 1 /\ r.label.hops \in Accounts /\ r.id[2] \in 1 .. r.label.hops

TellInv ==
    \A p \in Partitions :
        /\ \A i \in DOMAIN outbox.labels[p] : Tells(outbox.labels[p][i])
        /\ \A i \in DOMAIN logs.labels[p] : Tells(logs.labels[p][i])

OnceInv == Once(outbox.raw, logs.decisions) /\ Once(outbox.labels, logs.labels)

ScriptInv ==
    /\ \A i \in DOMAIN script : script[i].id[1] = MaxEpisodes + 1 /\ Labelled(script[i])
    /\ \A i, j \in DOMAIN script : i # j => script[i].id # script[j].id
    /\ halfPlayed \in BOOLEAN /\ (halfPlayed => script # <<>>)

TxnOut(id)   == Holds(outbox.raw, logs.decisions, id)
LabelOut(id) == Holds(outbox.labels, logs.labels, id)

\* What is out is of an episode that was planned or of base traffic, and not queued.
Past(id) ==
    /\ id[1] \in 0 .. episodes \cup {MaxEpisodes + 1}
    /\ id[1] = 0 => id[2] < Len(sent)
    /\ \A e \in queue : e.id # id

\* What is still to come was not published before; of what is half published, the label was not.
UsedInv ==
    /\ \A id : TxnOut(id) =>
         /\ Past(id)
         /\ pc = "publish" => Head(hand).id # id
         /\ \A i \in DOMAIN script : i # 1 \/ ~halfPlayed => script[i].id # id
    /\ \A id : LabelOut(id) =>
         /\ Past(id)
         /\ pc \in {"publish", "label"} => Head(hand).id # id
         /\ \A i \in DOMAIN script : script[i].id # id

PipeInv == PipeTypes /\ OnceInv /\ TellInv /\ ScriptInv /\ UsedInv /\ KnownInv

\* What is appended to a log leaves the rest where it was.
LEMMA AppendGrows ==
  ASSUME NEW S, NEW s \in Seq(S), NEW r \in S
  PROVE  /\ Len(s) <= Len(Append(s, r))
         /\ \A i \in DOMAIN s : i \in DOMAIN Append(s, r) /\ Append(s, r)[i] = s[i]
         /\ \A i \in DOMAIN Append(s, r) : Append(s, r)[i] = r \/ (i \in DOMAIN s /\ Append(s, r)[i] = s[i])
OBVIOUS

\* Where no more is out than before, and the generator is as it was, nothing that is to come is out.
LEMMA LessOut ==
  ASSUME PipeInv, UNCHANGED <<runnerVars, playVars>>,
         \A id : (TxnOut(id)' => TxnOut(id)) /\ (LabelOut(id)' => LabelOut(id))
  PROVE  UsedInv'
<1>1. UNCHANGED <<pc, episodes, queue, hand, sent, script, halfPlayed>>
  BY DEF runnerVars, playVars
<1> QED BY <1>1 DEF PipeInv, UsedInv, Past

\* A label is delivered.
LEMMA DeliverLabelKeeps ==
  ASSUME PipeInv, NEW at \in Partitions, DeliverLabel(at)
  PROVE  PipeInv' /\ LogsGrow /\ UNCHANGED <<now, runnerVars, playVars, readVars>>
<1> DEFINE l == Head(outbox.labels[at])
           d == [kind |-> "data", stamp |-> l.created, id |-> l.id, label |-> l.label]
           labels2 == [outbox.labels EXCEPT ![at] = Tail(outbox.labels[at])]
           logs2 == [logs.labels EXCEPT ![at] = Append(logs.labels[at], d)]
<1>1. /\ outbox \in [raw : [Partitions -> Seq(RawRecords)], labels : [Partitions -> Seq(SentLabels)]]
      /\ logs \in [decisions : [Partitions -> Seq(DecisionRecords)], labels : [Partitions -> Seq(LabelRecords)]]
      /\ script \in Seq(Events)
  BY DEF PipeInv, PipeTypes, LogTypes
<1>2. /\ outbox.labels[at] # <<>> /\ outbox' = [outbox EXCEPT !["labels"][at] = Tail(outbox.labels[at])]
      /\ logs' = [logs EXCEPT !.labels[at] = Append(logs.labels[at], d)]
      /\ UNCHANGED <<now, runnerVars, playVars, readVars>>
  BY DEF DeliverLabel, Delivers
<1>3. outbox.labels[at] \in Seq(SentLabels) /\ logs.labels[at] \in Seq(LabelRecords)
  BY <1>1
<1>4. l \in SentLabels /\ l = outbox.labels[at][1] /\ 1 \in DOMAIN outbox.labels[at]
  BY <1>2, <1>3
<1>5. d \in LabelRecords /\ d.id = l.id /\ IsData(d) /\ d.label = l.label
  <2> HIDE DEF l
  <2> QED BY <1>4 DEF LabelRecords, SentLabels, IsData
<1> HIDE DEF l, d
<1>6. outbox' = [raw |-> outbox.raw, labels |-> labels2] /\ logs' = [decisions |-> logs.decisions, labels |-> logs2]
  BY <1>1, <1>2
<1>7. /\ labels2 \in [Partitions -> Seq(SentLabels)] /\ logs2 \in [Partitions -> Seq(LabelRecords)]
      /\ Once(labels2, logs2)
      /\ \A id : Holds(labels2, logs2, id) => Holds(outbox.labels, logs.labels, id)
      /\ \A p \in Partitions : \A i \in DOMAIN labels2[p] : \E j \in DOMAIN outbox.labels[p] :
           labels2[p][i] = outbox.labels[p][j]
  <2> DEFINE box == outbox.labels
             log == logs.labels
  <2>1. box \in [Partitions -> Seq(SentLabels)]
    BY <1>1
  <2>2. log \in [Partitions -> Seq(LabelRecords)]
    BY <1>1
  <2>3. Once(box, log)
    BY DEF PipeInv, OnceInv
  <2>4. IsData(d) => d.id = Head(box[at]).id
    BY <1>5 DEF l
  <2>5. labels2 = [box EXCEPT ![at] = Tail(box[at])]
    OBVIOUS
  <2>6. logs2 = [log EXCEPT ![at] = Append(log[at], d)]
    OBVIOUS
  <2>7. box[at] # <<>>
    BY <1>2
  <2>8. d \in LabelRecords
    BY <1>5
  <2> HIDE DEF box, log, labels2, logs2
  <2>9. /\ labels2 \in [Partitions -> Seq(SentLabels)] /\ logs2 \in [Partitions -> Seq(LabelRecords)]
        /\ Once(labels2, logs2)
        /\ \A id : Holds(labels2, logs2, id) => Holds(box, log, id)
        /\ \A p \in Partitions : \A i \in DOMAIN labels2[p] : \E j \in DOMAIN box[p] : labels2[p][i] = box[p][j]
    <3>1. Moves(SentLabels, LabelRecords, box, log, at, d, labels2, logs2)
      BY <2>1, <2>2, <2>4, <2>5, <2>6, <2>7, <2>8 DEF Moves
    <3> QED BY <2>3, <3>1, MovedOnce
  <2> QED BY <2>9 DEF box, log
<1>8. ASSUME NEW p \in Partitions
      PROVE  /\ Len(logs.labels[p]) <= Len(logs2[p])
             /\ \A i \in DOMAIN logs.labels[p] : i \in DOMAIN logs2[p] /\ logs2[p][i] = logs.labels[p][i]
             /\ \A i \in DOMAIN logs2[p] : logs2[p][i] = d \/ (i \in DOMAIN logs.labels[p] /\ logs2[p][i] = logs.labels[p][i])
  <2>1. CASE p = at
    <3>1. logs2[p] = Append(logs.labels[p], d)
      BY <1>1, <2>1
    <3> QED BY <1>3, <1>5, <2>1, <3>1, AppendGrows
  <2>2. CASE p # at
    <3>1. logs2[p] = logs.labels[p] /\ Len(logs.labels[p]) \in Nat
      BY <1>1, <2>2
    <3> QED BY <3>1
  <2> QED BY <2>1, <2>2
<1> HIDE DEF labels2, logs2
<1>9. outbox'.raw = outbox.raw /\ outbox'.labels = labels2 /\ logs'.decisions = logs.decisions /\ logs'.labels = logs2
  BY <1>6
<1>10. LogsGrow
  <2>1. \A p \in Partitions : Len(logs.decisions[p]) \in Nat
    BY <1>1
  <2> QED BY <1>8, <1>9, <2>1 DEF LogsGrow
<1>11. PipeTypes'
  <2>1. outbox' \in [raw : [Partitions -> Seq(RawRecords)], labels : [Partitions -> Seq(SentLabels)]]
    BY <1>1, <1>6, <1>7
  <2>2. logs' \in [decisions : [Partitions -> Seq(DecisionRecords)], labels : [Partitions -> Seq(LabelRecords)]]
    BY <1>1, <1>6, <1>7
  <2> QED BY <1>1, <1>2, <2>1, <2>2 DEF PipeTypes, LogTypes, playVars
<1>12. OnceInv'
  BY <1>7, <1>9 DEF PipeInv, OnceInv
<1>13. TellInv'
  <2>1. Tells(d)
    <3>1. Tells(l)
      BY <1>4 DEF PipeInv, TellInv
    <3> QED BY <1>5, <3>1 DEF Tells
  <2>2. ASSUME NEW p \in Partitions, NEW i \in DOMAIN labels2[p] PROVE Tells(labels2[p][i])
    BY <1>7 DEF PipeInv, TellInv
  <2>3. ASSUME NEW p \in Partitions, NEW i \in DOMAIN logs2[p] PROVE Tells(logs2[p][i])
    BY <1>8, <2>1 DEF PipeInv, TellInv
  <2> QED BY <1>9, <2>2, <2>3 DEF TellInv, Tells
<1>14. ScriptInv'
  BY <1>2 DEF PipeInv, ScriptInv, Labelled, playVars
<1>15. UsedInv'
  <2>1. \A id : (TxnOut(id)' => TxnOut(id)) /\ (LabelOut(id)' => LabelOut(id))
    BY <1>7, <1>9 DEF TxnOut, LabelOut
  <2> QED BY <1>2, <2>1, LessOut
<1>16. KnownInv'
  <2>1. ASSUME NEW r, OnTopic("decisions", r)', r.known
        PROVE  \E q \in Partitions : \E j \in DOMAIN logs2[q] : logs2[q][j].id = r.id /\ logs2[q][j].stamp >= Since - Margin
    <3>1. OnTopic("decisions", r)
      BY <1>9, <2>1 DEF OnTopic
    <3>2. PICK q \in Partitions : \E j \in DOMAIN logs.labels[q] :
            logs.labels[q][j].id = r.id /\ logs.labels[q][j].stamp >= Since - Margin
      BY <2>1, <3>1 DEF PipeInv, KnownInv
    <3> QED BY <1>8, <3>2
  <2> QED BY <1>9, <2>1 DEF KnownInv
<1> QED BY <1>2, <1>10, <1>11, <1>12, <1>13, <1>14, <1>15, <1>16 DEF PipeInv

\* A transaction is delivered and decided, and what is known of it is on the labels' topic.
LEMMA DecideKeeps ==
  ASSUME PipeInv, NEW at \in Partitions, Decide(at)
  PROVE  PipeInv' /\ LogsGrow /\ UNCHANGED <<now, runnerVars, playVars, readVars>>
<1> DEFINE t == Head(outbox.raw[at])
           known == \E q \in Partitions : \E l \in ToSet(logs.labels[q]) : l.id = t.id /\ l.stamp >= Since - Margin
           d == [kind |-> "data", stamp |-> t.ts, id |-> t.id, known |-> known]
           raw2 == [outbox.raw EXCEPT ![at] = Tail(outbox.raw[at])]
           logs2 == [logs.decisions EXCEPT ![at] = Append(logs.decisions[at], d)]
<1>1. /\ outbox \in [raw : [Partitions -> Seq(RawRecords)], labels : [Partitions -> Seq(SentLabels)]]
      /\ logs \in [decisions : [Partitions -> Seq(DecisionRecords)], labels : [Partitions -> Seq(LabelRecords)]]
      /\ script \in Seq(Events)
  BY DEF PipeInv, PipeTypes, LogTypes
<1>2. /\ outbox.raw[at] # <<>> /\ outbox' = [outbox EXCEPT !["raw"][at] = Tail(outbox.raw[at])]
      /\ logs' = [logs EXCEPT !.decisions[at] = Append(logs.decisions[at], d)]
      /\ UNCHANGED <<now, runnerVars, playVars, readVars>>
  BY DEF Decide, Delivers
<1>3. outbox.raw[at] \in Seq(RawRecords) /\ logs.decisions[at] \in Seq(DecisionRecords)
  BY <1>1
<1>4. t \in RawRecords
  BY <1>2, <1>3
<1>5. known => \E q \in Partitions : \E j \in DOMAIN logs.labels[q] :
        logs.labels[q][j].id = t.id /\ logs.labels[q][j].stamp >= Since - Margin
  <2> HIDE DEF t
  <2> QED BY DEF ToSet
<1>6. d \in DecisionRecords /\ d.id = t.id /\ d.known = known
  <2>1. known \in BOOLEAN
    OBVIOUS
  <2> HIDE DEF t, known
  <2> QED BY <1>4, <2>1 DEF DecisionRecords, RawRecords
<1> HIDE DEF t, d, known
<1>7. outbox' = [raw |-> raw2, labels |-> outbox.labels] /\ logs' = [decisions |-> logs2, labels |-> logs.labels]
  BY <1>1, <1>2
<1>8. /\ raw2 \in [Partitions -> Seq(RawRecords)] /\ logs2 \in [Partitions -> Seq(DecisionRecords)]
      /\ Once(raw2, logs2)
      /\ \A id : Holds(raw2, logs2, id) => Holds(outbox.raw, logs.decisions, id)
  <2>1. Moves(RawRecords, DecisionRecords, outbox.raw, logs.decisions, at, d, raw2, logs2)
    <3>1. outbox.raw \in [Partitions -> Seq(RawRecords)] /\ logs.decisions \in [Partitions -> Seq(DecisionRecords)]
      BY <1>1
    <3>2. d.id = Head(outbox.raw[at]).id
      BY <1>6 DEF t
    <3> QED BY <1>2, <1>6, <3>1, <3>2 DEF Moves
  <2>2. Once(outbox.raw, logs.decisions)
    BY DEF PipeInv, OnceInv
  <2> HIDE DEF raw2, logs2
  <2> QED BY <2>1, <2>2, MovedOnce
<1>9. ASSUME NEW p \in Partitions
      PROVE  /\ Len(logs.decisions[p]) <= Len(logs2[p])
             /\ \A i \in DOMAIN logs.decisions[p] : i \in DOMAIN logs2[p] /\ logs2[p][i] = logs.decisions[p][i]
             /\ \A i \in DOMAIN logs2[p] :
                  logs2[p][i] = d \/ (i \in DOMAIN logs.decisions[p] /\ logs2[p][i] = logs.decisions[p][i])
  <2>1. CASE p = at
    <3>1. logs2[p] = Append(logs.decisions[p], d)
      BY <1>1, <2>1
    <3> QED BY <1>3, <1>6, <2>1, <3>1, AppendGrows
  <2>2. CASE p # at
    <3>1. logs2[p] = logs.decisions[p] /\ Len(logs.decisions[p]) \in Nat
      BY <1>1, <2>2
    <3> QED BY <3>1
  <2> QED BY <2>1, <2>2
<1> HIDE DEF raw2, logs2
<1>10. outbox'.raw = raw2 /\ outbox'.labels = outbox.labels /\ logs'.decisions = logs2 /\ logs'.labels = logs.labels
  BY <1>7
<1>11. LogsGrow
  <2>1. \A p \in Partitions : Len(logs.labels[p]) \in Nat
    BY <1>1
  <2> QED BY <1>9, <1>10, <2>1 DEF LogsGrow
<1>12. PipeTypes'
  <2>1. outbox' \in [raw : [Partitions -> Seq(RawRecords)], labels : [Partitions -> Seq(SentLabels)]]
    BY <1>1, <1>7, <1>8
  <2>2. logs' \in [decisions : [Partitions -> Seq(DecisionRecords)], labels : [Partitions -> Seq(LabelRecords)]]
    BY <1>1, <1>7, <1>8
  <2> QED BY <1>1, <1>2, <2>1, <2>2 DEF PipeTypes, LogTypes, playVars
<1>13. OnceInv'
  BY <1>8, <1>10 DEF PipeInv, OnceInv
<1>14. TellInv'
  BY <1>10 DEF PipeInv, TellInv, Tells
<1>15. ScriptInv'
  BY <1>2 DEF PipeInv, ScriptInv, Labelled, playVars
<1>16. UsedInv'
  <2>1. \A id : (TxnOut(id)' => TxnOut(id)) /\ (LabelOut(id)' => LabelOut(id))
    BY <1>8, <1>10 DEF TxnOut, LabelOut
  <2> QED BY <1>2, <2>1, LessOut
<1>17. KnownInv'
  <2>1. ASSUME NEW r, OnTopic("decisions", r)', r.known
        PROVE  \E q \in Partitions : \E j \in DOMAIN logs.labels[q] :
                 logs.labels[q][j].id = r.id /\ logs.labels[q][j].stamp >= Since - Margin
    <3>1. OnTopic("decisions", r) \/ r = d
      BY <1>9, <1>10, <2>1 DEF OnTopic
    <3>2. CASE OnTopic("decisions", r)
      BY <2>1, <3>2 DEF PipeInv, KnownInv
    <3>3. CASE r = d
      BY <1>5, <1>6, <2>1, <3>3
    <3> QED BY <3>1, <3>2, <3>3
  <2> QED BY <1>10, <2>1 DEF KnownInv
<1> QED BY <1>2, <1>11, <1>12, <1>13, <1>14, <1>15, <1>16, <1>17 DEF PipeInv

\* The engine commits, which leaves a marker.
LEMMA CommitKeeps ==
  ASSUME PipeInv, NEW at \in Partitions, Commit(at)
  PROVE  PipeInv' /\ LogsGrow /\ UNCHANGED <<genVars, readVars>>
<1> DEFINE m == [kind |-> "marker", stamp |-> Last(logs.decisions[at]).stamp]
           logs2 == [logs.decisions EXCEPT ![at] = Append(logs.decisions[at], m)]
<1>1. /\ outbox \in [raw : [Partitions -> Seq(RawRecords)], labels : [Partitions -> Seq(SentLabels)]]
      /\ logs \in [decisions : [Partitions -> Seq(DecisionRecords)], labels : [Partitions -> Seq(LabelRecords)]]
      /\ script \in Seq(Events)
  BY DEF PipeInv, PipeTypes, LogTypes
<1>2. /\ logs.decisions[at] # <<>> /\ logs' = [logs EXCEPT !.decisions[at] = Append(logs.decisions[at], m)]
      /\ UNCHANGED <<genVars, readVars>>
  BY DEF Commit
<1>3. logs.decisions[at] \in Seq(DecisionRecords)
  BY <1>1
<1>4. m \in DecisionRecords /\ ~IsData(m)
  <2>1. Last(logs.decisions[at]) \in DecisionRecords
    <3>1. Len(logs.decisions[at]) \in DOMAIN logs.decisions[at]
      BY <1>2, <1>3
    <3> QED BY <1>3, <3>1 DEF Last
  <2> DEFINE x == Last(logs.decisions[at])
  <2>2. x.stamp \in Int
    <3> HIDE DEF x
    <3> QED BY <2>1 DEF DecisionRecords, x
  <2> HIDE DEF x
  <2>3. m = [kind |-> "marker", stamp |-> x.stamp]
    BY DEF x
  <2> QED BY <2>2, <2>3 DEF DecisionRecords, IsData
<1> HIDE DEF m
<1>5. logs' = [decisions |-> logs2, labels |-> logs.labels]
  BY <1>1, <1>2
<1>6. /\ logs2 \in [Partitions -> Seq(DecisionRecords)] /\ Once(outbox.raw, logs2)
      /\ \A id : Holds(outbox.raw, logs2, id) => Holds(outbox.raw, logs.decisions, id)
  <2>1. Marks(DecisionRecords, logs.decisions, at, m, logs2)
    <3>1. logs.decisions \in [Partitions -> Seq(DecisionRecords)]
      BY <1>1
    <3> QED BY <1>4, <3>1 DEF Marks
  <2>2. Once(outbox.raw, logs.decisions)
    BY DEF PipeInv, OnceInv
  <2> HIDE DEF logs2
  <2> QED BY <2>1, <2>2, MarkedOnce
<1>7. ASSUME NEW p \in Partitions
      PROVE  /\ Len(logs.decisions[p]) <= Len(logs2[p])
             /\ \A i \in DOMAIN logs.decisions[p] : i \in DOMAIN logs2[p] /\ logs2[p][i] = logs.decisions[p][i]
             /\ \A i \in DOMAIN logs2[p] :
                  logs2[p][i] = m \/ (i \in DOMAIN logs.decisions[p] /\ logs2[p][i] = logs.decisions[p][i])
  <2>1. CASE p = at
    <3>1. logs2[p] = Append(logs.decisions[p], m)
      BY <1>1, <2>1
    <3> QED BY <1>3, <1>4, <2>1, <3>1, AppendGrows
  <2>2. CASE p # at
    <3>1. logs2[p] = logs.decisions[p] /\ Len(logs.decisions[p]) \in Nat
      BY <1>1, <2>2
    <3> QED BY <3>1
  <2> QED BY <2>1, <2>2
<1> HIDE DEF logs2
<1>8. outbox' = outbox /\ logs'.decisions = logs2 /\ logs'.labels = logs.labels
  BY <1>2, <1>5 DEF genVars
<1>9. LogsGrow
  <2>1. \A p \in Partitions : Len(logs.labels[p]) \in Nat
    BY <1>1
  <2> QED BY <1>7, <1>8, <2>1 DEF LogsGrow
<1>10. PipeTypes'
  <2>1. logs' \in [decisions : [Partitions -> Seq(DecisionRecords)], labels : [Partitions -> Seq(LabelRecords)]]
    BY <1>1, <1>5, <1>6
  <2> QED BY <1>1, <1>2, <2>1 DEF PipeTypes, LogTypes, genVars, playVars
<1>11. OnceInv'
  BY <1>6, <1>8 DEF PipeInv, OnceInv
<1>12. TellInv'
  BY <1>8 DEF PipeInv, TellInv, Tells
<1>13. ScriptInv'
  BY <1>2 DEF PipeInv, ScriptInv, Labelled, genVars, playVars
<1>14. UsedInv'
  <2>1. \A id : (TxnOut(id)' => TxnOut(id)) /\ (LabelOut(id)' => LabelOut(id))
    BY <1>6, <1>8 DEF TxnOut, LabelOut, Holds
  <2> QED BY <1>2, <2>1, LessOut DEF genVars
<1>15. KnownInv'
  <2>1. ASSUME NEW r, OnTopic("decisions", r)' PROVE OnTopic("decisions", r)
    BY <1>4, <1>7, <1>8, <2>1 DEF OnTopic
  <2> QED BY <1>8, <2>1 DEF PipeInv, KnownInv
<1> QED BY <1>2, <1>9, <1>10, <1>11, <1>12, <1>13, <1>14, <1>15 DEF PipeInv

\* What is on its way is about a transaction.
LEMMA UsedIds ==
  ASSUME PipeTypes, NEW id, TxnOut(id) \/ LabelOut(id)
  PROVE  id \in Nat \X Nat
<1>1. CASE \E p \in Partitions : \E i \in DOMAIN outbox.raw[p] : outbox.raw[p][i].id = id
  <2>1. PICK p \in Partitions : \E i \in DOMAIN outbox.raw[p] : outbox.raw[p][i].id = id
    BY <1>1
  <2>2. PICK i \in DOMAIN outbox.raw[p] : outbox.raw[p][i].id = id
    BY <2>1
  <2>3. outbox.raw[p] \in Seq(RawRecords)
    BY DEF PipeTypes, LogTypes
  <2>4. outbox.raw[p][i] \in RawRecords
    BY <2>3
  <2> QED BY <2>2, <2>4 DEF RawRecords
<1>2. CASE \E p \in Partitions : \E i \in DOMAIN outbox.labels[p] : outbox.labels[p][i].id = id
  <2>1. PICK p \in Partitions : \E i \in DOMAIN outbox.labels[p] : outbox.labels[p][i].id = id
    BY <1>2
  <2>2. PICK i \in DOMAIN outbox.labels[p] : outbox.labels[p][i].id = id
    BY <2>1
  <2>3. outbox.labels[p] \in Seq(SentLabels)
    BY DEF PipeTypes, LogTypes
  <2>4. outbox.labels[p][i] \in SentLabels
    BY <2>3
  <2> QED BY <2>2, <2>4 DEF SentLabels
<1>3. CASE \E p \in Partitions : \E i \in DOMAIN logs.decisions[p] : IsData(logs.decisions[p][i]) /\ logs.decisions[p][i].id = id
  <2>1. PICK p \in Partitions : \E i \in DOMAIN logs.decisions[p] : IsData(logs.decisions[p][i]) /\ logs.decisions[p][i].id = id
    BY <1>3
  <2>2. PICK i \in DOMAIN logs.decisions[p] : IsData(logs.decisions[p][i]) /\ logs.decisions[p][i].id = id
    BY <2>1
  <2>3. logs.decisions[p] \in Seq(DecisionRecords)
    BY DEF PipeTypes, LogTypes
  <2>4. logs.decisions[p][i] \in DecisionRecords
    BY <2>3
  <2> QED BY <2>2, <2>4 DEF DecisionRecords, IsData
<1>4. CASE \E p \in Partitions : \E i \in DOMAIN logs.labels[p] : IsData(logs.labels[p][i]) /\ logs.labels[p][i].id = id
  <2>1. PICK p \in Partitions : \E i \in DOMAIN logs.labels[p] : IsData(logs.labels[p][i]) /\ logs.labels[p][i].id = id
    BY <1>4
  <2>2. PICK i \in DOMAIN logs.labels[p] : IsData(logs.labels[p][i]) /\ logs.labels[p][i].id = id
    BY <2>1
  <2>3. logs.labels[p] \in Seq(LabelRecords)
    BY DEF PipeTypes, LogTypes
  <2>4. logs.labels[p][i] \in LabelRecords
    BY <2>3
  <2> QED BY <2>2, <2>4 DEF LabelRecords, IsData
<1> QED BY <1>1, <1>2, <1>3, <1>4 DEF TxnOut, LabelOut, Holds

\* A transaction of which nothing is out is published.
LEMMA TxnKeeps ==
  ASSUME PipeInv, NEW ev, ev.id \in Nat \X Nat, ev.ts \in Int, ~TxnOut(ev.id), PublishTxn(ev), logs' = logs
  PROVE  /\ outbox' \in [raw : [Partitions -> Seq(RawRecords)], labels : [Partitions -> Seq(SentLabels)]]
         /\ LogTypes' /\ OnceInv' /\ TellInv' /\ KnownInv'
         /\ \A id : TxnOut(id)' => TxnOut(id) \/ id = ev.id
         /\ \A id : LabelOut(id)' => LabelOut(id)
<1> DEFINE t == [id |-> ev.id, ts |-> ev.ts]
           at == Partition(ev.id)
           raw2 == [outbox.raw EXCEPT ![at] = Append(outbox.raw[at], t)]
<1>1. /\ outbox \in [raw : [Partitions -> Seq(RawRecords)], labels : [Partitions -> Seq(SentLabels)]]
      /\ outbox.raw \in [Partitions -> Seq(RawRecords)] /\ outbox.labels \in [Partitions -> Seq(SentLabels)]
  BY DEF PipeInv, PipeTypes
<1>2. outbox' = [raw |-> raw2, labels |-> outbox.labels]
  <2>1. outbox' = [outbox EXCEPT !.raw[at] = Append(outbox.raw[at], t)]
    BY DEF PublishTxn
  <2> HIDE DEF t, at
  <2> QED BY <1>1, <2>1
<1>3. t \in RawRecords /\ t.id = ev.id
  BY DEF RawRecords
<1> HIDE DEF t, at
<1>4. /\ raw2 \in [Partitions -> Seq(RawRecords)] /\ Once(raw2, logs.decisions)
      /\ \A id : Holds(raw2, logs.decisions, id) => Holds(outbox.raw, logs.decisions, id) \/ id = ev.id
  <2>1. Sends(RawRecords, outbox.raw, at, t, raw2)
    BY <1>1, <1>3 DEF Sends
  <2>2. Once(outbox.raw, logs.decisions)
    BY DEF PipeInv, OnceInv
  <2>3. ~Holds(outbox.raw, logs.decisions, t.id)
    BY <1>3 DEF TxnOut
  <2> HIDE DEF raw2
  <2> QED BY <1>3, <2>1, <2>2, <2>3, SentOnce
<1> HIDE DEF raw2
<1>5. /\ outbox'.raw = raw2 /\ outbox'.labels = outbox.labels
      /\ logs'.decisions = logs.decisions /\ logs'.labels = logs.labels
  BY <1>2
<1>6. outbox' \in [raw : [Partitions -> Seq(RawRecords)], labels : [Partitions -> Seq(SentLabels)]]
  BY <1>1, <1>2, <1>4
<1>7. LogTypes' /\ OnceInv' /\ KnownInv' /\ TellInv'
  <2>1. LogTypes'
    BY DEF PipeInv, PipeTypes, LogTypes
  <2>2. OnceInv'
    BY <1>4, <1>5 DEF PipeInv, OnceInv
  <2>3. KnownInv'
    BY DEF PipeInv, KnownInv, OnTopic
  <2>4. TellInv'
    BY <1>5 DEF PipeInv, TellInv, Tells
  <2> QED BY <2>1, <2>2, <2>3, <2>4
<1>8. \A id : (TxnOut(id)' => TxnOut(id) \/ id = ev.id) /\ (LabelOut(id)' => LabelOut(id))
  BY <1>4, <1>5 DEF TxnOut, LabelOut
<1> QED BY <1>6, <1>7, <1>8

\* A label that is not out is published, if the event has one.
LEMMA LabelKeeps ==
  ASSUME PipeInv, NEW ev, ev.id \in Nat \X Nat, ev.label \in EventLabels \cup {NoLabel}, Labelled(ev),
         now \in 0 .. MaxClock, ~LabelOut(ev.id), PublishLabel(ev), logs' = logs
  PROVE  /\ outbox' \in [raw : [Partitions -> Seq(RawRecords)], labels : [Partitions -> Seq(SentLabels)]]
         /\ LogTypes' /\ OnceInv' /\ TellInv' /\ KnownInv'
         /\ \A id : TxnOut(id)' => TxnOut(id)
         /\ \A id : LabelOut(id)' => LabelOut(id) \/ id = ev.id
<1> DEFINE l == [id |-> ev.id, created |-> now, label |-> ev.label]
           to == LabelPartition(ev.id)
           labels2 == IF ev.label = NoLabel THEN outbox.labels
                      ELSE [outbox.labels EXCEPT ![to] = Append(outbox.labels[to], l)]
<1>1. /\ outbox \in [raw : [Partitions -> Seq(RawRecords)], labels : [Partitions -> Seq(SentLabels)]]
      /\ outbox.raw \in [Partitions -> Seq(RawRecords)] /\ outbox.labels \in [Partitions -> Seq(SentLabels)]
  BY DEF PipeInv, PipeTypes
<1>2. outbox' = [raw |-> outbox.raw, labels |-> labels2]
  <2>1. outbox' = IF ev.label = NoLabel THEN outbox
                  ELSE [outbox EXCEPT !.labels[to] = Append(outbox.labels[to], l)]
    BY DEF PublishLabel
  <2> HIDE DEF l, to
  <2>2. CASE ev.label = NoLabel
    BY <1>1, <2>1, <2>2
  <2>3. CASE ev.label # NoLabel
    BY <1>1, <2>1, <2>3
  <2> QED BY <2>2, <2>3
<1>3. l.id = ev.id /\ l.label = ev.label /\ (ev.label # NoLabel => l \in SentLabels)
  BY DEF SentLabels
<1> HIDE DEF l, to
<1>4. /\ labels2 \in [Partitions -> Seq(SentLabels)] /\ Once(labels2, logs.labels)
      /\ \A id : Holds(labels2, logs.labels, id) => Holds(outbox.labels, logs.labels, id) \/ id = ev.id
      /\ \A p \in Partitions : \A i \in DOMAIN labels2[p] :
           \/ labels2[p][i] = l /\ ev.label # NoLabel
           \/ i \in DOMAIN outbox.labels[p] /\ labels2[p][i] = outbox.labels[p][i]
  <2>1. Once(outbox.labels, logs.labels)
    BY DEF PipeInv, OnceInv
  <2>2. CASE ev.label = NoLabel
    <3>1. labels2 = outbox.labels
      BY <2>2
    <3> HIDE DEF labels2
    <3> QED BY <1>1, <2>1, <3>1
  <2>3. CASE ev.label # NoLabel
    <3>1. Sends(SentLabels, outbox.labels, to, l, labels2)
      BY <1>1, <1>3, <2>3 DEF Sends
    <3>2. ~Holds(outbox.labels, logs.labels, l.id)
      BY <1>3 DEF LabelOut
    <3> HIDE DEF labels2
    <3> QED BY <1>3, <2>1, <2>3, <3>1, <3>2, SentOnce
  <2> QED BY <2>2, <2>3
<1> HIDE DEF labels2
<1>5. /\ outbox'.raw = outbox.raw /\ outbox'.labels = labels2
      /\ logs'.decisions = logs.decisions /\ logs'.labels = logs.labels
  BY <1>2
<1>6. outbox' \in [raw : [Partitions -> Seq(RawRecords)], labels : [Partitions -> Seq(SentLabels)]]
  BY <1>1, <1>2, <1>4
<1>7. LogTypes' /\ OnceInv' /\ KnownInv'
  <2>1. LogTypes'
    BY DEF PipeInv, PipeTypes, LogTypes
  <2>2. OnceInv'
    BY <1>4, <1>5 DEF PipeInv, OnceInv
  <2>3. KnownInv'
    BY DEF PipeInv, KnownInv, OnTopic
  <2> QED BY <2>1, <2>2, <2>3
<1>8. TellInv'
  <2>1. ev.label # NoLabel => Tells(l)
    BY <1>3 DEF Labelled, Tells
  <2>2. ASSUME NEW p \in Partitions, NEW i \in DOMAIN labels2[p] PROVE Tells(labels2[p][i])
    BY <1>4, <2>1 DEF PipeInv, TellInv
  <2> QED BY <1>5, <2>2 DEF PipeInv, TellInv, Tells
<1>9. \A id : (TxnOut(id)' => TxnOut(id)) /\ (LabelOut(id)' => LabelOut(id) \/ id = ev.id)
  BY <1>4, <1>5 DEF TxnOut, LabelOut
<1> QED BY <1>6, <1>7, <1>8, <1>9

\* The next event of the scenario is not among what the runner has or had.
LEMMA ScriptApart ==
  ASSUME GenInv, PipeInv, NEW i \in DOMAIN script
  PROVE  /\ script[i] \in Events /\ Labelled(script[i]) /\ script[i].id \in Nat \X Nat /\ script[i].ts \in Int
         /\ script[i].label \in EventLabels \cup {NoLabel}
         /\ Past(script[i].id)
         /\ pc \in {"publish", "label"} => Head(hand).id # script[i].id
         /\ now \in 0 .. MaxClock
<1>1. script \in Seq(Events) /\ MaxEpisodes \in Nat /\ now \in 0 .. MaxClock /\ episodes \in 0 .. MaxEpisodes
  BY GeneratorAssumption DEF GenInv, GenTypes, PipeInv, PipeTypes
<1>2. script[i] \in Events
  BY <1>1
<1>3. script[i].id[1] = MaxEpisodes + 1 /\ Labelled(script[i])
  BY DEF PipeInv, ScriptInv
<1>4. \A e \in queue : e.id[1] # MaxEpisodes + 1
  BY <1>1 DEF GenInv, QueueInv
<1>5. pc \in {"publish", "label"} => Head(hand).id[1] # MaxEpisodes + 1
  BY <1>1 DEF GenInv, HandInv
<1>6. Past(script[i].id)
  BY <1>1, <1>3, <1>4 DEF Past
<1> QED BY <1>1, <1>2, <1>3, <1>5, <1>6 DEF Events

\* The scenario publishes the transaction of its next event.
LEMMA PlayTxnKeeps ==
  ASSUME GenInv, PipeInv, PlayTxn, UNCHANGED <<logs, readVars>>
  PROVE  PipeInv'
<1> DEFINE ev == Head(script)
<1>1. /\ script # <<>> /\ ~halfPlayed /\ halfPlayed' = TRUE /\ PublishTxn(ev) /\ script' = script /\ logs' = logs
      /\ pc' = pc /\ hand' = hand /\ episodes' = episodes /\ queue' = queue /\ sent' = sent
  BY DEF PlayTxn, runnerVars
<1>2. script \in Seq(Events) /\ ev = script[1] /\ 1 \in DOMAIN script
  BY <1>1 DEF PipeInv, PipeTypes
<1> HIDE DEF ev
<1>3. /\ ev \in Events /\ ev.id \in Nat \X Nat /\ ev.ts \in Int /\ Past(ev.id)
      /\ pc \in {"publish", "label"} => Head(hand).id # ev.id
  BY <1>2, ScriptApart
<1>4. ~TxnOut(ev.id)
  BY <1>1, <1>2 DEF PipeInv, UsedInv
<1>5. /\ outbox' \in [raw : [Partitions -> Seq(RawRecords)], labels : [Partitions -> Seq(SentLabels)]]
      /\ LogTypes' /\ OnceInv' /\ TellInv' /\ KnownInv'
      /\ \A id : TxnOut(id)' => TxnOut(id) \/ id = ev.id
      /\ \A id : LabelOut(id)' => LabelOut(id)
  BY <1>1, <1>3, <1>4, TxnKeeps
<1>6. PipeTypes' /\ ScriptInv'
  BY <1>1, <1>2, <1>5 DEF PipeInv, PipeTypes, ScriptInv, Labelled
<1>7. \A i \in DOMAIN script : i # 1 => script[i].id # ev.id
  BY <1>2 DEF PipeInv, ScriptInv
<1>8. \A id : Past(id)' <=> Past(id)
  BY <1>1 DEF Past
<1>9. ASSUME NEW id, TxnOut(id)'
      PROVE  /\ Past(id) /\ (pc = "publish" => Head(hand).id # id)
             /\ \A i \in DOMAIN script : i # 1 => script[i].id # id
  <2>1. CASE TxnOut(id)
    BY <2>1 DEF PipeInv, UsedInv
  <2>2. CASE id = ev.id
    BY <1>3, <1>7, <2>2
  <2> QED BY <1>5, <1>9, <2>1, <2>2
<1>10. UsedInv'
  <2>1. \A id : LabelOut(id)' =>
          /\ Past(id) /\ (pc \in {"publish", "label"} => Head(hand).id # id)
          /\ \A i \in DOMAIN script : script[i].id # id
    BY <1>5 DEF PipeInv, UsedInv
  <2> QED BY <1>1, <1>8, <1>9, <2>1 DEF UsedInv
<1> QED BY <1>5, <1>6, <1>10 DEF PipeInv

\* Then its label.
LEMMA PlayLabelKeeps ==
  ASSUME GenInv, PipeInv, PlayLabel, UNCHANGED <<logs, readVars>>
  PROVE  PipeInv'
<1> DEFINE ev == Head(script)
<1>1. /\ halfPlayed /\ halfPlayed' = FALSE /\ PublishLabel(ev) /\ script' = Tail(script) /\ logs' = logs
      /\ pc' = pc /\ hand' = hand /\ episodes' = episodes /\ queue' = queue /\ sent' = sent
  BY DEF PlayLabel, runnerVars
<1>2. script \in Seq(Events) /\ script # <<>>
  BY <1>1 DEF PipeInv, PipeTypes, ScriptInv
<1>3. /\ ev = script[1] /\ 1 \in DOMAIN script /\ DOMAIN script = 1 .. Len(script) /\ Len(script) \in Nat
      /\ script' \in Seq(Events) /\ DOMAIN script' = 1 .. Len(script) - 1
      /\ \A i \in 1 .. Len(script) - 1 : script'[i] = script[i + 1] /\ i + 1 \in DOMAIN script
  BY <1>1, <1>2
<1> HIDE DEF ev
<1>4. /\ ev.id \in Nat \X Nat /\ ev.label \in EventLabels \cup {NoLabel} /\ Labelled(ev) /\ Past(ev.id)
      /\ pc \in {"publish", "label"} => Head(hand).id # ev.id
      /\ now \in 0 .. MaxClock
  BY <1>3, ScriptApart
<1>5. ~LabelOut(ev.id)
  BY <1>3 DEF PipeInv, UsedInv
<1>6. /\ outbox' \in [raw : [Partitions -> Seq(RawRecords)], labels : [Partitions -> Seq(SentLabels)]]
      /\ LogTypes' /\ OnceInv' /\ TellInv' /\ KnownInv'
      /\ \A id : TxnOut(id)' => TxnOut(id)
      /\ \A id : LabelOut(id)' => LabelOut(id) \/ id = ev.id
  BY <1>1, <1>4, <1>5, LabelKeeps
<1>7. PipeTypes'
  BY <1>3, <1>6 DEF PipeTypes
<1>8. ScriptInv'
  <2>1. ASSUME NEW i \in DOMAIN script' PROVE script'[i].id[1] = MaxEpisodes + 1 /\ Labelled(script'[i])
    <3>1. script'[i] = script[i + 1] /\ i + 1 \in DOMAIN script
      BY <1>3
    <3>2. script[i + 1].id[1] = MaxEpisodes + 1 /\ Labelled(script[i + 1])
      BY <3>1 DEF PipeInv, ScriptInv
    <3> QED BY <3>1, <3>2
  <2>2. ASSUME NEW i \in DOMAIN script', NEW j \in DOMAIN script', i # j PROVE script'[i].id # script'[j].id
    <3>1. i + 1 \in DOMAIN script /\ j + 1 \in DOMAIN script /\ i + 1 # j + 1
      BY <1>3, <2>2
    <3>2. script[i + 1].id # script[j + 1].id
      BY <3>1 DEF PipeInv, ScriptInv
    <3> QED BY <1>3, <3>2
  <2> QED BY <1>1, <2>1, <2>2 DEF ScriptInv, Labelled
<1>9. \A i \in DOMAIN script' : \E j \in DOMAIN script : j # 1 /\ script'[i] = script[j] /\ script[j].id # ev.id
  <2>1. ASSUME NEW i \in DOMAIN script'
        PROVE  i + 1 \in DOMAIN script /\ i + 1 # 1 /\ script'[i] = script[i + 1] /\ script[i + 1].id # ev.id
    <3>1. i + 1 \in DOMAIN script /\ i + 1 # 1 /\ script'[i] = script[i + 1]
      BY <1>3
    <3> QED BY <1>3, <3>1 DEF PipeInv, ScriptInv
  <2> QED BY <2>1
<1>10. \A id : Past(id)' <=> Past(id)
  BY <1>1 DEF Past
<1>11. UsedInv'
  <2>1. ASSUME NEW id, TxnOut(id)'
        PROVE  Past(id) /\ (pc = "publish" => Head(hand).id # id) /\ \A i \in DOMAIN script' : script'[i].id # id
    <3>1. /\ Past(id) /\ (pc = "publish" => Head(hand).id # id)
          /\ \A j \in DOMAIN script : j # 1 => script[j].id # id
      BY <1>6, <2>1 DEF PipeInv, UsedInv
    <3> QED BY <1>9, <3>1
  <2>2. ASSUME NEW id, LabelOut(id)'
        PROVE  /\ Past(id) /\ (pc \in {"publish", "label"} => Head(hand).id # id)
               /\ \A i \in DOMAIN script' : script'[i].id # id
    <3>1. CASE LabelOut(id)
      <4>1. /\ Past(id) /\ (pc \in {"publish", "label"} => Head(hand).id # id)
            /\ \A j \in DOMAIN script : script[j].id # id
        BY <3>1 DEF PipeInv, UsedInv
      <4> QED BY <1>9, <4>1
    <3>2. CASE id = ev.id
      BY <1>4, <1>9, <3>2
    <3> QED BY <1>6, <2>2, <3>1, <3>2
  <2> QED BY <1>1, <1>10, <2>1, <2>2 DEF UsedInv
<1> QED BY <1>6, <1>7, <1>8, <1>11 DEF PipeInv

\* What the runner has in hand is about a transaction, and apart from the scenario's.
LEMMA HandApart ==
  ASSUME GenInv, PipeInv, pc \in {"publish", "label"}
  PROVE  /\ Head(hand).id \in Nat \X Nat /\ Head(hand).ts \in Int /\ Labelled(Head(hand))
         /\ Head(hand).label \in EventLabels \cup {NoLabel} /\ now \in 0 .. MaxClock
         /\ \A i \in DOMAIN script : script[i].id # Head(hand).id
<1>1. MaxEpisodes \in Nat /\ now \in 0 .. MaxClock /\ episodes \in 0 .. MaxEpisodes
  BY GeneratorAssumption DEF GenInv, GenTypes
<1>2. Head(hand) \in Published /\ Labelled(Head(hand)) /\ Head(hand).id[1] \in 0 .. episodes
  BY DEF GenInv, HandInv
<1>3. \A i \in DOMAIN script : script[i].id[1] # Head(hand).id[1]
  BY <1>1, <1>2 DEF PipeInv, ScriptInv
<1> QED BY <1>1, <1>2, <1>3 DEF Published

\* The runner publishes the transaction of what it has in hand.
LEMMA SendTxnPipe ==
  ASSUME GenInv, PipeInv, SendTxn, UNCHANGED <<logs, readVars>>
  PROVE  PipeInv'
<1> DEFINE ev == Head(hand)
<1>1. /\ pc = "publish" /\ pc' = "label" /\ PublishTxn(ev) /\ hand' = hand /\ logs' = logs
      /\ script' = script /\ halfPlayed' = halfPlayed /\ episodes' = episodes /\ queue' = queue
      /\ sent' = Append(sent, ev)
  BY DEF SendTxn, playVars
<1>2. /\ ev.id \in Nat \X Nat /\ ev.ts \in Int /\ \A i \in DOMAIN script : script[i].id # ev.id
  BY <1>1, HandApart
<1>3. /\ ev.id[1] \in 0 .. episodes /\ (ev.id[1] = 0 => ev.id[2] = Len(sent)) /\ \A e \in queue : e.id # ev.id
      /\ sent \in Seq(Published) /\ ev \in Published
  BY <1>1 DEF GenInv, GenTypes, HandInv
<1> HIDE DEF ev
<1>4. Len(sent) \in Nat /\ Len(sent') = Len(sent) + 1
  BY <1>1, <1>3
<1>5. ~TxnOut(ev.id)
  BY <1>1 DEF PipeInv, UsedInv, ev
<1>6. /\ outbox' \in [raw : [Partitions -> Seq(RawRecords)], labels : [Partitions -> Seq(SentLabels)]]
      /\ LogTypes' /\ OnceInv' /\ TellInv' /\ KnownInv'
      /\ \A id : TxnOut(id)' => TxnOut(id) \/ id = ev.id
      /\ \A id : LabelOut(id)' => LabelOut(id)
  BY <1>1, <1>2, <1>5, TxnKeeps
<1>7. PipeTypes' /\ ScriptInv'
  BY <1>1, <1>6 DEF PipeInv, PipeTypes, ScriptInv, Labelled
<1>8. ASSUME NEW id, Past(id), TxnOut(id) \/ LabelOut(id) PROVE Past(id)'
  <2>1. id \in Nat \X Nat
    BY <1>8, UsedIds DEF PipeInv
  <2> QED BY <1>1, <1>4, <1>8, <2>1 DEF Past
<1>9. Past(ev.id)'
  <2>1. ev.id[1] \in Nat /\ ev.id[2] \in Nat
    BY <1>2
  <2>2. ev'.id = ev.id
    BY <1>1 DEF ev
  <2>3. \A id : id = ev.id => id[1] \in 0 .. episodes' \cup {MaxEpisodes + 1} /\ (id[1] = 0 => id[2] < Len(sent')) /\ \A e \in queue' : e.id # id
    BY <1>1, <1>3, <1>4, <2>1
  <2> QED BY <2>2, <2>3 DEF Past
<1>10. UsedInv'
  <2>1. ASSUME NEW id, TxnOut(id)'
        PROVE  Past(id)' /\ \A i \in DOMAIN script : i # 1 \/ ~halfPlayed => script[i].id # id
    <3>1. CASE TxnOut(id)
      BY <1>8, <3>1 DEF PipeInv, UsedInv
    <3>2. CASE id = ev.id
      <4>1. Past(id)'
        <5>1. ev'.id = ev.id
          BY <1>1 DEF ev
        <5> QED BY <1>9, <3>2, <5>1 DEF Past
      <4>2. \A i \in DOMAIN script : script[i].id # id
        BY <1>2, <3>2
      <4> QED BY <4>1, <4>2
    <3> QED BY <1>6, <2>1, <3>1, <3>2
  <2>2. ASSUME NEW id, LabelOut(id)'
        PROVE  Past(id)' /\ ev.id # id /\ \A i \in DOMAIN script : script[i].id # id
    <3>1. LabelOut(id)
      BY <1>6, <2>2
    <3>2. Past(id) /\ Head(hand).id # id /\ \A i \in DOMAIN script : script[i].id # id
      BY <1>1, <3>1 DEF PipeInv, UsedInv
    <3> QED BY <1>8, <3>1, <3>2 DEF ev
  <2> QED BY <1>1, <2>1, <2>2 DEF UsedInv, ev
<1> QED BY <1>6, <1>7, <1>10 DEF PipeInv

\* Then its label.
LEMMA SendLabelPipe ==
  ASSUME GenInv, PipeInv, SendLabel, UNCHANGED <<logs, readVars>>
  PROVE  PipeInv'
<1> DEFINE ev == Head(hand)
<1>1. /\ pc = "label" /\ pc' \in {"head", "body"} /\ PublishLabel(ev) /\ logs' = logs /\ sent' = sent
      /\ script' = script /\ halfPlayed' = halfPlayed /\ episodes' = episodes /\ queue' = queue
  BY DEF SendLabel, playVars
<1>2. /\ ev.id \in Nat \X Nat /\ ev.label \in EventLabels \cup {NoLabel} /\ Labelled(ev) /\ now \in 0 .. MaxClock
      /\ \A i \in DOMAIN script : script[i].id # ev.id
  BY <1>1, HandApart
<1>3. /\ ev.id[1] \in 0 .. episodes /\ (ev.id[1] = 0 => ev.id[2] < Len(sent)) /\ \A e \in queue : e.id # ev.id
  BY <1>1 DEF GenInv, HandInv
<1>4. ~LabelOut(ev.id)
  BY <1>1 DEF PipeInv, UsedInv
<1> HIDE DEF ev
<1>5. /\ outbox' \in [raw : [Partitions -> Seq(RawRecords)], labels : [Partitions -> Seq(SentLabels)]]
      /\ LogTypes' /\ OnceInv' /\ TellInv' /\ KnownInv'
      /\ \A id : TxnOut(id)' => TxnOut(id)
      /\ \A id : LabelOut(id)' => LabelOut(id) \/ id = ev.id
  BY <1>1, <1>2, <1>4, LabelKeeps
<1>6. PipeTypes' /\ ScriptInv'
  BY <1>1, <1>5 DEF PipeInv, PipeTypes, ScriptInv, Labelled
<1>7. (\A id : Past(id)' <=> Past(id)) /\ Past(ev.id)
  BY <1>1, <1>3 DEF Past
<1>8. UsedInv'
  <2>1. ASSUME NEW id, LabelOut(id)' PROVE Past(id) /\ \A i \in DOMAIN script : script[i].id # id
    <3>1. CASE LabelOut(id)
      BY <3>1 DEF PipeInv, UsedInv
    <3>2. CASE id = ev.id
      BY <1>2, <1>7, <3>2
    <3> QED BY <1>5, <2>1, <3>1, <3>2
  <2>2. \A id : TxnOut(id)' => Past(id) /\ \A i \in DOMAIN script : i # 1 \/ ~halfPlayed => script[i].id # id
    BY <1>5 DEF PipeInv, UsedInv
  <2> QED BY <1>1, <1>7, <2>1, <2>2 DEF UsedInv
<1> QED BY <1>5, <1>6, <1>8 DEF PipeInv

\* The other steps of the generator publish nothing; what they queue or take in hand is new.
LEMMA PlanKeeps ==
  ASSUME GenInv, PipeInv, UNCHANGED <<script, halfPlayed, outbox, logs>>, sent' = sent,
         episodes' \in 0 .. MaxEpisodes, episodes <= episodes',
         \A e \in queue' : (\E f \in queue : f.id = e.id) \/ e.id[1] \in episodes + 1 .. MaxEpisodes,
         pc' \in {"publish", "label"} =>
            \/ pc' = pc /\ hand' = hand
            \/ \A id : TxnOut(id) \/ LabelOut(id) => Head(hand').id # id
  PROVE  PipeInv'
<1>1. PipeTypes' /\ OnceInv' /\ TellInv' /\ ScriptInv' /\ KnownInv'
  BY DEF PipeInv, PipeTypes, LogTypes, OnceInv, TellInv, Tells, ScriptInv, Labelled, KnownInv, OnTopic
<1>2. \A id : (TxnOut(id)' <=> TxnOut(id)) /\ (LabelOut(id)' <=> LabelOut(id))
  BY DEF TxnOut, LabelOut, Holds
<1>3. MaxEpisodes \in Nat /\ episodes \in 0 .. MaxEpisodes
  BY GeneratorAssumption DEF GenInv, GenTypes
<1>4. ASSUME NEW id, Past(id) PROVE Past(id)'
  <2>1. /\ id[1] \in 0 .. episodes \cup {MaxEpisodes + 1}
        /\ id[1] = 0 => id[2] < Len(sent)
        /\ \A e \in queue : e.id # id
    BY <1>4 DEF Past
  <2>2. id[1] \notin episodes + 1 .. MaxEpisodes
    BY <1>3, <2>1
  <2>3. id[1] \in 0 .. episodes' \cup {MaxEpisodes + 1}
    BY <1>3, <2>1
  <2> QED BY <2>1, <2>2, <2>3 DEF Past
<1>5. ASSUME NEW id, TxnOut(id)
      PROVE  /\ Past(id)' /\ (pc' = "publish" => Head(hand').id # id)
             /\ \A i \in DOMAIN script : i # 1 \/ ~halfPlayed => script[i].id # id
  BY <1>4, <1>5 DEF PipeInv, UsedInv
<1>6. ASSUME NEW id, LabelOut(id)
      PROVE  /\ Past(id)' /\ (pc' \in {"publish", "label"} => Head(hand').id # id)
             /\ \A i \in DOMAIN script : script[i].id # id
  BY <1>4, <1>6 DEF PipeInv, UsedInv
<1>7. UsedInv'
  BY <1>2, <1>5, <1>6 DEF UsedInv
<1> QED BY <1>1, <1>7 DEF PipeInv

\* What the runner takes in hand is not out yet.
LEMMA TakeKeeps ==
  ASSUME GenInv, PipeInv, TakeBase \/ \E ev \in queue : TakeQueued(ev), UNCHANGED logs
  PROVE  PipeInv'
<1>1. /\ UNCHANGED <<script, halfPlayed, outbox, logs, sent, episodes>> /\ queue' \subseteq queue
      /\ MaxEpisodes \in Nat /\ episodes \in 0 .. MaxEpisodes
  BY GeneratorAssumption DEF TakeBase, TakeQueued, Take, playVars, GenInv, GenTypes
<1>2. \/ Head(hand').id = <<0, Len(sent)>>
      \/ \E ev \in queue : Head(hand').id = ev.id
  BY DEF TakeBase, TakeQueued, Take
<1>3. Len(sent) \in Nat
  BY LenProperties DEF GenInv, GenTypes
<1>4. \A id : TxnOut(id) \/ LabelOut(id) => Past(id)
  BY DEF PipeInv, UsedInv
<1>5. \A id : TxnOut(id) \/ LabelOut(id) => Head(hand').id # id
  BY <1>2, <1>3, <1>4 DEF Past
<1>6. episodes' \in 0 .. MaxEpisodes /\ episodes <= episodes'
  BY <1>1
<1> QED BY <1>1, <1>5, <1>6, PlanKeeps

\* The hops of an episode bear its number.
LEMMA EpisodeIds ==
  ASSUME NEW pattern \in {"RING", "GEO", "VELOCITY", "POLICY"}, NEW offsets \in Offsets(pattern),
         NEW from \in Int, NEW n \in Nat, NEW counted
  PROVE  \E k \in Nat : /\ Episode(pattern, offsets, from, n, counted) \in [1 .. k -> Events]
                        /\ \A i \in 1 .. k : Episode(pattern, offsets, from, n, counted)[i].id = <<n, i>>
<1> DEFINE episode == Episode(pattern, offsets, from, n, counted)
<1>1. EpisodeOf(n, episode, offsets, from)
  BY EpisodeShape
<1> HIDE DEF episode
<1>2. \E k \in Nat : episode \in [1 .. k -> Events] /\ \A i \in 1 .. k : episode[i].id = <<n, i>>
  BY <1>1 DEF EpisodeOf
<1> QED BY <1>2 DEF episode

\* A step of the generator keeps what is known of the records on their way.
LEMMA GenPipeKept ==
  ASSUME GenInv, PipeInv, GenNext, UNCHANGED <<logs, readVars>>
  PROVE  PipeInv'
<1>1. /\ MaxEpisodes \in Nat /\ episodes \in 0 .. MaxEpisodes /\ nextBase \in Int /\ now \in Nat
      /\ nextEpisode \in [Injectors -> Int] /\ queue \in SUBSET Events
      /\ Injectors \subseteq {"RING", "GEO", "VELOCITY", "POLICY"}
  BY GeneratorAssumption DEF GenInv, GenTypes
<1>2. CASE PlayTxn \/ PlayLabel
  BY <1>2, PlayTxnKeeps, PlayLabelKeeps
<1>3. CASE TakeBase \/ \E ev \in queue : TakeQueued(ev)
  BY <1>3, TakeKeeps
<1>s. CASE SendTxn \/ SendLabel
  BY <1>s, SendTxnPipe, SendLabelPipe
<1>4. CASE Tick \/ Stop \/ Resync \/ Spawned
  <2>1. /\ UNCHANGED <<script, halfPlayed, outbox, sent, episodes, queue>>
        /\ pc' \in {"publish", "label"} => pc' = pc /\ hand' = hand
    BY <1>4 DEF Tick, Stop, Resync, Spawned, runnerVars, playVars
  <2> QED BY <1>1, <2>1, PlanKeeps
<1>5. CASE LoopHead
  <2>1. PICK behind \in Int : queue' = {Shifted(ev, behind) : ev \in queue}
    <3> DEFINE behind == IF Behind(nextBase) THEN now - nextBase ELSE 0
    <3>1. behind \in Int /\ queue' = {Shifted(ev, behind) : ev \in queue}
      BY <1>1, <1>5 DEF LoopHead
    <3> QED BY <3>1
  <2>2. \A e \in queue' : \E f \in queue : f.id = e.id
    BY <1>1, <2>1, ShiftMoves
  <2>3. UNCHANGED <<script, halfPlayed, outbox, sent, episodes>> /\ pc' = "spawn"
    BY <1>5 DEF LoopHead, playVars
  <2> QED BY <1>1, <2>2, <2>3, PlanKeeps
<1>6. CASE \E i \in Injectors : Spawn(i)
  <2>1. PICK i \in Injectors : Spawn(i)
    BY <1>6
  <2>2. PICK offsets \in Offsets(i), counted \in CountsHops :
          queue' = queue \cup Range(Episode(i, offsets, nextEpisode[i], episodes + 1, counted))
    BY <2>1 DEF Spawn
  <2> DEFINE from == nextEpisode[i]
             number == episodes + 1
             episode == Episode(i, offsets, from, number, counted)
  <2>3. from \in Int /\ number \in Nat /\ number = episodes + 1 /\ from = nextEpisode[i]
    BY <1>1
  <2> HIDE DEF from, number
  <2>4. PICK k \in Nat : /\ episode \in [1 .. k -> Events]
                         /\ \A j \in 1 .. k : episode[j].id = <<number, j>>
    <3>1. i \in {"RING", "GEO", "VELOCITY", "POLICY"}
      BY <1>1
    <3> QED BY <2>3, <3>1, EpisodeIds
  <2>5. queue' = queue \cup {episode[j] : j \in 1 .. k}
    <3>1. queue' = queue \cup Range(episode)
      BY <2>2, <2>3
    <3> HIDE DEF episode
    <3> QED BY <2>4, <3>1 DEF Range
  <2> HIDE DEF episode
  <2>6. /\ episodes < MaxEpisodes /\ episodes' = episodes + 1
        /\ UNCHANGED <<script, halfPlayed, outbox, sent>> /\ pc' = "spawn"
    BY <2>1 DEF Spawn, Due, playVars
  <2>7. ASSUME NEW e \in queue', e \notin queue PROVE e.id[1] \in episodes + 1 .. MaxEpisodes
    <3>1. PICK j \in 1 .. k : e = episode[j]
      BY <2>5, <2>7
    <3>2. e.id[1] = number
      BY <2>4, <3>1
    <3> QED BY <1>1, <2>3, <2>6, <3>2
  <2>8. \A e \in queue' : (\E f \in queue : f.id = e.id) \/ e.id[1] \in episodes + 1 .. MaxEpisodes
    BY <2>7
  <2> QED BY <1>1, <2>6, <2>8, PlanKeeps
<1> QED BY <1>2, <1>3, <1>s, <1>4, <1>5, <1>6 DEF GenNext, Runner

\* A scenario's episode is tagged, and is otherwise an episode.
LEMMA ScriptsTell ==
  ASSUME NEW s \in Scripts
  PROVE  /\ s \in Seq(Events)
         /\ \A i \in DOMAIN s : s[i].id[1] = MaxEpisodes + 1 /\ Labelled(s[i])
         /\ \A i, j \in DOMAIN s : i # j => s[i].id # s[j].id
<1>1. PICK pattern \in Kinds : \E offsets \in Offsets(pattern) :
        s = Tagged(Episode(pattern, offsets, 1, MaxEpisodes + 1, TRUE))
  BY DEF Scripts
<1>2. PICK offsets \in Offsets(pattern) : s = Tagged(Episode(pattern, offsets, 1, MaxEpisodes + 1, TRUE))
  BY <1>1
<1>3. pattern \in {"RING", "GEO", "VELOCITY", "POLICY"} /\ 1 \in Int /\ MaxEpisodes + 1 \in Nat
  BY GeneratorAssumption
<1> DEFINE episode == Episode(pattern, offsets, 1, MaxEpisodes + 1, TRUE)
           ev(i) == IF episode[i].label = NoLabel THEN episode[i]
                    ELSE [episode[i] EXCEPT !.label = [episode[i].label EXCEPT !.source = "scenario"]]
<1>4. PICK k \in Nat :
        /\ episode \in [1 .. k -> Events]
        /\ \A i \in 1 .. k : episode[i].id = <<MaxEpisodes + 1, i>> /\ Labelled(episode[i])
  <2>1. EpisodeOf(MaxEpisodes + 1, episode, offsets, 1)
    BY <1>3, EpisodeShape
  <2> HIDE DEF episode
  <2> QED BY <2>1 DEF EpisodeOf
<1> HIDE DEF episode
<1>5. s = [i \in 1 .. k |-> ev(i)]
  <2>1. s = Tagged(episode)
    BY <1>2 DEF episode
  <2> QED BY <1>4, <2>1 DEF Tagged
<1>6. ASSUME NEW i \in 1 .. k
      PROVE  ev(i) \in Events /\ ev(i).id = <<MaxEpisodes + 1, i>> /\ Labelled(ev(i))
  <2>1. CASE episode[i].label = NoLabel
    BY <1>4, <2>1
  <2>2. CASE episode[i].label # NoLabel
    <3> DEFINE l == [episode[i].label EXCEPT !.source = "scenario"]
    <3>1. episode[i] \in Events /\ episode[i].label \in EventLabels
      BY <1>4, <2>2 DEF Events
    <3>2. /\ l \in EventLabels /\ l.ts = episode[i].label.ts /\ l.pattern = episode[i].label.pattern
          /\ l.episode = episode[i].label.episode /\ l.hop = episode[i].label.hop /\ l.hops = episode[i].label.hops
      BY <3>1 DEF EventLabels
    <3>3. ev(i) = [episode[i] EXCEPT !.label = l]
      BY <2>2
    <3> HIDE DEF l, ev
    <3>4. ev(i) \in Events /\ ev(i).id = episode[i].id /\ ev(i).ts = episode[i].ts /\ ev(i).label = l
      BY <3>1, <3>2, <3>3 DEF Events
    <3>5. Labelled(episode[i]) /\ episode[i].id = <<MaxEpisodes + 1, i>>
      BY <1>4
    <3>6. Labelled(ev(i))
      BY <2>2, <3>2, <3>4, <3>5 DEF Labelled
    <3> QED BY <3>4, <3>5, <3>6
  <2> QED BY <2>1, <2>2
<1> HIDE DEF ev
<1>7. DOMAIN s = 1 .. k /\ s \in [1 .. k -> Events] /\ \A i \in 1 .. k : s[i] = ev(i)
  BY <1>5, <1>6
<1>8. s \in Seq(Events)
  BY <1>7
<1>9. \A i \in 1 .. k : s[i].id = <<MaxEpisodes + 1, i>> /\ Labelled(s[i])
  BY <1>6, <1>7
<1>10. \A i, j \in 1 .. k : i # j => s[i].id # s[j].id
  BY <1>9
<1>11. \A i \in 1 .. k : s[i].id[1] = MaxEpisodes + 1
  BY <1>9
<1> QED BY <1>7, <1>8, <1>9, <1>10, <1>11

\* Nothing is published and nothing read.
LEMMA RecallBegins ==
  ASSUME RecallInit
  PROVE  GenInv /\ PipeInv /\ ReadInv
<1>1. GenInv
  BY GenBegins DEF RecallInit
<1>2. /\ outbox = [raw |-> [p \in Partitions |-> <<>>], labels |-> [p \in Partitions |-> <<>>]]
      /\ logs = [decisions |-> [p \in Partitions |-> <<>>], labels |-> [p \in Partitions |-> <<>>]]
      /\ script \in Scripts /\ halfPlayed = FALSE
  BY DEF RecallInit, GenInit
<1>3. /\ \A p \in Partitions : /\ outbox.raw[p] = <<>> /\ outbox.labels[p] = <<>>
                               /\ logs.decisions[p] = <<>> /\ logs.labels[p] = <<>>
      /\ \A p \in Partitions : /\ DOMAIN outbox.raw[p] = {} /\ DOMAIN outbox.labels[p] = {}
                               /\ DOMAIN logs.decisions[p] = {} /\ DOMAIN logs.labels[p] = {}
  <2>1. DOMAIN <<>> = {}
    OBVIOUS
  <2> QED BY <1>2, <2>1
<1>4. /\ script \in Seq(Events)
      /\ \A i \in DOMAIN script : script[i].id[1] = MaxEpisodes + 1 /\ Labelled(script[i])
      /\ \A i, j \in DOMAIN script : i # j => script[i].id # script[j].id
  BY <1>2, ScriptsTell
<1>5. PipeTypes
  <2>1. \A S : <<>> \in Seq(S)
    OBVIOUS
  <2>2. \A S : [p \in Partitions |-> <<>>] \in [Partitions -> Seq(S)]
    BY <2>1
  <2> QED BY <1>2, <1>4, <2>2 DEF PipeTypes, LogTypes
<1>6. OnceInv /\ TellInv
  BY <1>3 DEF OnceInv, Once, TellInv
<1>7. UsedInv /\ KnownInv
  <2>1. \A id : ~TxnOut(id) /\ ~LabelOut(id)
    BY <1>3 DEF TxnOut, LabelOut, Holds
  <2>2. \A r : ~OnTopic("decisions", r)
    BY <1>3 DEF OnTopic
  <2> QED BY <2>1, <2>2 DEF UsedInv, KnownInv
<1>8. PipeInv
  BY <1>2, <1>4, <1>5, <1>6, <1>7 DEF PipeInv, ScriptInv
<1>9. ReadInv
  <2>1. /\ stage = 0 /\ reading = NoTopic /\ kept = [decisions |-> {}, labels |-> {}]
        /\ start \in [Partitions -> {0}] /\ high \in [Partitions -> {0}] /\ next \in [Partitions -> {0}]
    BY RecallAssumption DEF RecallInit, ReaderInit
  <2>2. ReadTypes
    BY <2>1 DEF ReadTypes
  <2> QED BY <2>1, <2>2 DEF ReadInv, PlaceInv, SeenInv, KeptInv, LabelInv
<1> QED BY <1>1, <1>8, <1>9

\* Every step keeps the invariant.
LEMMA RecallKept ==
  ASSUME GenInv, PipeInv, ReadInv, [RecallNext]_recallVars
  PROVE  GenInv' /\ PipeInv' /\ ReadInv'
<1>1. LogTypes /\ KnownInv
  BY DEF PipeInv, PipeTypes
<1>2. CASE GenNext /\ UNCHANGED <<logs, readVars>>
  <2>1. GenInv'
    BY <1>2, GenKept
  <2>2. PipeInv'
    BY <1>2, GenPipeKept
  <2>3. LogsGrow
    <3>1. \A topic \in {"decisions", "labels"} : \A p \in Partitions : Len(logs[topic][p]) \in Nat
      BY <1>1, LogFacts
    <3> QED BY <1>2, <3>1 DEF LogsGrow
  <2>4. LogTypes' /\ UNCHANGED readVars
    BY <1>2, <2>2 DEF PipeInv, PipeTypes
  <2> QED BY <1>1, <2>1, <2>2, <2>3, <2>4, GrowthKeeps
<1>3. CASE Broker
  <2>1. PipeInv' /\ LogsGrow /\ UNCHANGED <<now, runnerVars>> /\ UNCHANGED readVars
    <3>1. PICK p \in Partitions : DeliverLabel(p) \/ Decide(p) \/ Commit(p)
      BY <1>3 DEF Broker
    <3>2. CASE DeliverLabel(p)
      BY <3>2, DeliverLabelKeeps
    <3>3. CASE Decide(p)
      BY <3>3, DecideKeeps
    <3>4. CASE Commit(p)
      BY <3>4, CommitKeeps DEF genVars
    <3> QED BY <3>1, <3>2, <3>3, <3>4
  <2>2. LogTypes'
    BY <2>1 DEF PipeInv, PipeTypes
  <2> QED BY <1>1, <2>1, <2>2, GrowthKeeps, GenKept
<1>4. CASE Reader
  <2>1. UNCHANGED <<genVars, logs>>
    BY <1>4 DEF Reader, Begin, Read, GoOn
  <2>2. ReadInv'
    BY <1>1, <1>4, BeginKeeps, ReadKeeps, GoOnKeeps DEF Reader
  <2>3. GenInv'
    <3>1. UNCHANGED <<now, runnerVars>>
      BY <2>1 DEF genVars
    <3> QED BY <3>1, GenKept
  <2>4. PipeInv'
    BY <2>1 DEF genVars, runnerVars, playVars, PipeInv, PipeTypes, LogTypes, OnceInv, TellInv, Tells, ScriptInv,
                Labelled, UsedInv, TxnOut, LabelOut, Past, KnownInv, OnTopic
  <2> QED BY <2>2, <2>3, <2>4
<1>5. CASE UNCHANGED recallVars
  <2>1. UNCHANGED <<genVars, logs, readVars>>
    BY <1>5 DEF recallVars
  <2>2. GenInv'
    <3>1. UNCHANGED <<now, runnerVars>>
      BY <2>1 DEF genVars
    <3> QED BY <3>1, GenKept
  <2>3. PipeInv'
    BY <2>1 DEF genVars, runnerVars, playVars, PipeInv, PipeTypes, LogTypes, OnceInv, TellInv, Tells, ScriptInv,
                Labelled, UsedInv, TxnOut, LabelOut, Past, KnownInv, OnTopic
  <2>4. ReadInv'
    BY <2>1 DEF readVars, readerVars, ReadInv, ReadTypes, PlaceInv, SeenInv, KeptInv, LabelInv, OnTopic
  <2> QED BY <2>2, <2>3, <2>4
<1> QED BY <1>2, <1>3, <1>4, <1>5 DEF RecallNext

\* What holds throughout of the generator, of what is on its way, and of what is read.
RecallInv == GenInv /\ PipeInv /\ ReadInv

\* Whatever the generator, the brokers, the engine and the reader do, in any order.
THEOREM RecallHolds == RecallSpec => []RecallInv
<1>1. RecallInit => RecallInv
  BY RecallBegins DEF RecallInv
<1>2. RecallInv /\ [RecallNext]_recallVars => RecallInv'
  BY RecallKept DEF RecallInv
<1> QED BY <1>1, <1>2, PTL DEF RecallSpec

\* PublishedOnTime (Runner.run): whatever the wall clock does, event times never go back, an episode
\* keeps its order and its distances, and at the loop's last look at the clock before it published a
\* transaction the event time was reached and no more than MAX_BEHIND_SECS past.
THEOREM NothingIsLate == RecallSpec => []PublishedOnTime
<1>1. RecallInv => PublishedOnTime
  <2> SUFFICES ASSUME RecallInv
               PROVE  PublishedOnTime
    OBVIOUS
  <2>1. OnTime(Passed) /\ sent \in Seq(Published) /\ Passed \in Seq(Published)
    BY DEF RecallInv, GenInv, GenTypes
  <2>2. \A i \in DOMAIN sent : i \in DOMAIN Passed /\ Passed[i] = sent[i]
    <3>1. CASE pc = "publish"
      <4>1. Passed = Append(sent, Head(hand)) /\ Head(hand) \in Published
        BY <3>1 DEF Passed, RecallInv, GenInv, HandInv
      <4> QED BY <2>1, <4>1, AppendGrows
    <3>2. CASE pc # "publish"
      BY <3>2 DEF Passed
    <3> QED BY <3>1, <3>2
  <2>3. \A i \in DOMAIN sent : \A j \in 1 .. i - 1 : j \in DOMAIN sent
    BY <2>1
  <2>4. OnTime(sent)
    BY <2>1, <2>2, <2>3 DEF OnTime
  <2> QED BY <2>4 DEF OnTime, PublishedOnTime
<1> QED BY <1>1, RecallHolds, PTL

\* ReadingComplete (read_topic): a reading that ends, at its noted offsets or because nothing came
\* for ten seconds, has every record below the noted ends, wherever the commit markers lie.
THEOREM NothingIsMissed == RecallSpec => []ReadingComplete
<1>1. RecallInv => ReadingComplete
  <2> SUFFICES ASSUME RecallInv, reading # NoTopic, ReadingEnds,
                      NEW p \in TopicPartitions, NEW i \in start[p] + 1 .. high[p], IsData(logs[reading][p][i])
               PROVE  logs[reading][p][i] \in yielded
    BY DEF ReadingComplete
  <2>1. LogTypes /\ ReadInv /\ p \in Partitions
    BY RecallAssumption DEF RecallInv, PipeInv, PipeTypes
  <2>2. stage \in {1, 2}
    BY <2>1 DEF ReadInv, ReadTypes
  <2> QED BY <2>1, <2>2, ReadAll
<1> QED BY <1>1, RecallHolds, PTL

\* What a record of a topic looks like.
LEMMA RecordsTell ==
  ASSUME PipeInv
  PROVE  /\ \A r : OnTopic("decisions", r) => r \in DecisionRecords /\ r.id \in Nat \X Nat
         /\ \A r : OnTopic("labels", r) => r \in LabelRecords /\ Tells(r)
<1>1. ASSUME NEW r, OnTopic("decisions", r) PROVE r \in DecisionRecords /\ r.id \in Nat \X Nat
  <2>1. PICK p \in Partitions : \E i \in DOMAIN logs["decisions"][p] : r = logs["decisions"][p][i] /\ IsData(r)
    BY <1>1 DEF OnTopic
  <2>2. PICK i \in DOMAIN logs["decisions"][p] : r = logs["decisions"][p][i] /\ IsData(r)
    BY <2>1
  <2>3. logs["decisions"][p] \in Seq(DecisionRecords)
    BY DEF PipeInv, PipeTypes, LogTypes
  <2>4. r \in DecisionRecords
    BY <2>2, <2>3
  <2> QED BY <2>2, <2>4 DEF DecisionRecords, IsData
<1>2. ASSUME NEW r, OnTopic("labels", r) PROVE r \in LabelRecords /\ Tells(r)
  <2>1. PICK p \in Partitions : \E i \in DOMAIN logs["labels"][p] : r = logs["labels"][p][i]
    BY <1>2 DEF OnTopic
  <2>2. PICK i \in DOMAIN logs["labels"][p] : r = logs["labels"][p][i]
    BY <2>1
  <2>3. logs["labels"][p] \in Seq(LabelRecords)
    BY DEF PipeInv, PipeTypes, LogTypes
  <2>4. r \in LabelRecords
    BY <2>2, <2>3
  <2>5. Tells(logs.labels[p][i])
    BY <2>2 DEF PipeInv, TellInv
  <2> QED BY <2>2, <2>4, <2>5
<1> QED BY <1>1, <1>2

\* FraudIsNotLegitimate (train.py and production_recall.py): where the window ends after all that
\* was published, a transaction whose label was on its topic, and no earlier than the margin before
\* the window, when the transaction was decided is never taken for legitimate traffic, and staged
\* fraud is in no measurement.
THEOREM KnownFraudCounts ==
  ASSUME MaxClock < Until
  PROVE  RecallSpec => []FraudIsNotLegitimate
<1>1. RecallInv => FraudIsNotLegitimate
  <2> SUFFICES ASSUME RecallInv, stage = 3
               PROVE  /\ \A tool \in {"train", "recall"} : \A d \in Legitimate(tool) : ~d.known
                      /\ \A p \in Fraud("recall") : p[2].label.source # "scenario"
    BY DEF FraudIsNotLegitimate
  <2>1. ASSUME NEW tool \in {"train", "recall"}, NEW d \in Legitimate(tool), d.known PROVE FALSE
    <3>1. d \in kept.decisions /\ \A l \in Labels(tool) : l.id # d.id
      BY DEF Legitimate, Decisions
    <3>2. PICK l \in kept.labels : l.id = d.id
      BY <2>1, <3>1 DEF RecallInv, ReadInv, LabelInv
    <3>3. OnTopic("labels", l)
      BY DEF RecallInv, ReadInv, KeptInv
    <3>4. l.stamp \in 0 .. MaxClock
      BY <3>3, RecordsTell DEF RecallInv, LabelRecords
    <3>5. l.stamp < Until
      BY <3>4, GeneratorAssumption, RecallAssumption
    <3> QED BY <3>1, <3>2, <3>5 DEF Labels
  <2>2. ASSUME NEW p \in Fraud("recall"), p[2].label.source = "scenario" PROVE FALSE
    BY <2>2 DEF Fraud, Staged
  <2> QED BY <2>1, <2>2
<1> QED BY <1>1, RecallHolds, PTL
-----------------------------------------------------------------------------
(* Whole rings *)

\* A hop of the measurement: a decision and its label, which says, where it counts, which hop of how
\* many it is, and no other hop is of the same transaction.
LEMMA HopsTell ==
  ASSUME RecallInv, stage = 3
  PROVE  /\ IsFiniteSet(RingHops)
         /\ \A p \in RingHops :
              /\ p[2].label.episode = p[1].id[1] /\ p[1].id \in Nat \X Nat
              /\ p[2].label.hops # NoHop =>
                   /\ p[2].label.hop = p[1].id[2] - 1 /\ p[2].label.hops \in Nat /\ p[2].label.hops >= 3
                   /\ p[1].id[2] \in 1 .. p[2].label.hops
         /\ \A p, q \in RingHops : p[1].id = q[1].id => p = q
<1>1. \A p \in RingHops : /\ p \in kept.decisions \X kept.labels /\ p[1].id = p[2].id
                          /\ p[2].label.pattern = "RING"
  BY DEF RingHops, Fraud, Decisions, Labels
<1>2. /\ IsFiniteSet(kept.decisions) /\ IsFiniteSet(kept.labels)
      /\ \A r \in kept.decisions : OnTopic("decisions", r)
      /\ \A r \in kept.labels : OnTopic("labels", r)
  BY DEF RecallInv, ReadInv, KeptInv
<1>3. IsFiniteSet(RingHops)
  <2>1. IsFiniteSet(kept.decisions \X kept.labels)
    BY <1>2, FS_Product
  <2>2. RingHops \in SUBSET (kept.decisions \X kept.labels)
    BY <1>1
  <2> QED BY <2>1, <2>2, FS_Subset
<1>4. ASSUME NEW p \in RingHops
      PROVE  /\ p[2].label.episode = p[1].id[1] /\ p[1].id \in Nat \X Nat
             /\ p[2].label.hops # NoHop =>
                  /\ p[2].label.hop = p[1].id[2] - 1 /\ p[2].label.hops \in Nat /\ p[2].label.hops >= 3
                  /\ p[1].id[2] \in 1 .. p[2].label.hops
  <2>1. p[1].id \in Nat \X Nat /\ Tells(p[2]) /\ p[1].id = p[2].id /\ p[2].label.pattern = "RING"
    BY <1>1, <1>2, RecordsTell DEF RecallInv
  <2>2. p[2].label.hops \in Accounts => p[2].label.hops \in Nat /\ p[2].label.hops >= 3
    BY GeneratorAssumption
  <2> QED BY <2>1, <2>2 DEF Tells
<1>5. ASSUME NEW p \in RingHops, NEW q \in RingHops, p[1].id = q[1].id
      PROVE  p = q
  <2>1. Once(outbox.raw, logs.decisions) /\ Once(outbox.labels, logs.labels)
    BY DEF RecallInv, PipeInv, OnceInv
  <2>2. ASSUME NEW r, NEW s, OnTopic("decisions", r), OnTopic("decisions", s), r.id = s.id PROVE r = s
    BY <2>1, <2>2 DEF OnTopic, Once
  <2>3. ASSUME NEW r, NEW s, OnTopic("labels", r), OnTopic("labels", s), r.id = s.id PROVE r = s
    BY <2>1, <2>3 DEF OnTopic, Once
  <2>4. p[1] = q[1]
    BY <1>1, <1>2, <1>5, <2>2
  <2>5. p[2] = q[2]
    BY <1>1, <1>2, <1>5, <2>3
  <2> QED BY <1>1, <2>4, <2>5
<1> QED BY <1>3, <1>4, <1>5

\* Where as many hops of a ring are seen as its labels declare, each of them is seen.
LEMMA WholeRing ==
  ASSUME RecallInv, stage = 3, NEW p \in RingHops, p[2].label.hops # NoHop, Complete(p[2].label.episode)
  PROVE  {q[1].id[2] : q \in HopsOf(p[2].label.episode)} = 1 .. p[2].label.hops
<1> DEFINE e == p[2].label.episode
           k == p[2].label.hops
           H == HopsOf(e)
           f == [q \in H |-> q[1].id[2]]
<1>1. p \in H /\ H \in SUBSET RingHops /\ \A q \in H : q[2].label.episode = e
  BY DEF HopsOf
<1>2. /\ IsFiniteSet(RingHops)
      /\ \A q \in RingHops :
           /\ q[2].label.episode = q[1].id[1] /\ q[1].id \in Nat \X Nat
           /\ q[2].label.hops # NoHop =>
                /\ q[2].label.hop = q[1].id[2] - 1 /\ q[2].label.hops \in Nat /\ q[2].label.hops >= 3
                /\ q[1].id[2] \in 1 .. q[2].label.hops
      /\ \A q, r \in RingHops : q[1].id = r[1].id => q = r
  BY HopsTell
<1>3. k = Cardinality(H) /\ \A q \in H : q[2].label.hops = k
  <2>1. Counted(e)
    BY <1>1 DEF Counted
  <2> QED BY <1>1, <2>1 DEF Complete
<1>4. k \in Nat /\ k >= 3 /\ k # NoHop
  BY <1>2
<1> HIDE DEF e, k, H
<1>5. f \in [H -> 1 .. k]
  BY <1>1, <1>2, <1>3, <1>4
<1>6. ASSUME NEW q \in H, NEW r \in H, f[q] = f[r] PROVE q = r
  <2>1. q \in RingHops /\ r \in RingHops /\ q[1].id[2] = r[1].id[2]
    BY <1>1, <1>6
  <2>2. q[1].id[1] = r[1].id[1] /\ q[1].id \in Nat \X Nat /\ r[1].id \in Nat \X Nat
    BY <1>1, <1>2, <2>1
  <2>3. q[1].id = r[1].id
    BY <2>1, <2>2
  <2> QED BY <1>2, <2>1, <2>3
<1>7. IsFiniteSet(1 .. k) /\ Cardinality(1 .. k) = k
  <2>1. k \in Int /\ ~(1 > k) /\ k - 1 + 1 = k
    BY <1>4
  <2> QED BY <2>1, FS_Interval
<1>8. \A q \in H : f[q] = q[1].id[2]
  OBVIOUS
<1> HIDE DEF f
<1>9. f \in Injection(H, 1 .. k)
  BY <1>5, <1>6, Fun_IsInj
<1>10. f \in Surjection(H, 1 .. k)
  BY <1>3, <1>7, <1>9, FS_Injection
<1>11. \A n \in 1 .. k : \E q \in H : f[q] = n
  BY <1>10 DEF Surjection
<1>12. {q[1].id[2] : q \in H} = 1 .. k
  BY <1>5, <1>8, <1>11
<1> QED BY <1>12 DEF e, k, H

\* RingsAreWhole (production_recall.recall_by_hop): of a ring whose labels count the hops, recall by
\* position is measured on each hop or on none, and the first and the closing hop are the ring's.
THEOREM WholeRingsCount == RecallSpec => []RingsAreWhole
<1>1. RecallInv => RingsAreWhole
  <2> SUFFICES ASSUME RecallInv, stage = 3, NEW slot \in {"first", "middle", "closing"},
                      NEW p \in AtSlot(slot), p[2].label.hops # NoHop
               PROVE  /\ {q[1].id[2] : q \in HopsOf(p[2].label.episode)} = 1 .. p[2].label.hops
                      /\ slot = "first" <=> p[1].id[2] = 1
                      /\ slot = "closing" <=> p[1].id[2] = p[2].label.hops
    BY DEF RingsAreWhole
  <2>1. p \in RingHops /\ Complete(p[2].label.episode) /\ Slot(p) = slot
    BY DEF AtSlot
  <2>2. /\ p[2].label.hop = p[1].id[2] - 1 /\ p[1].id \in Nat \X Nat
        /\ p[2].label.hops \in Nat /\ p[2].label.hops >= 3
    BY <2>1, HopsTell
  <2>3. {q[1].id[2] : q \in HopsOf(p[2].label.episode)} = 1 .. p[2].label.hops
    BY <2>1, WholeRing
  <2>4. Counted(p[2].label.episode)
    BY <2>1 DEF Counted, HopsOf
  <2>5. slot = IF p[2].label.hop = 0 THEN "first"
               ELSE IF p[2].label.hop = p[2].label.hops - 1 THEN "closing" ELSE "middle"
    BY <2>1, <2>4 DEF Slot
  <2>6. /\ slot = "first" <=> p[2].label.hop = 0
        /\ slot = "closing" <=> p[2].label.hop # 0 /\ p[2].label.hop = p[2].label.hops - 1
    BY <2>5
  <2>7. p[1].id[2] \in Nat
    BY <2>2
  <2>8. p[2].label.hop = 0 <=> p[1].id[2] = 1
    BY <2>2, <2>7
  <2>9. p[2].label.hop # 0 /\ p[2].label.hop = p[2].label.hops - 1 <=> p[1].id[2] = p[2].label.hops
    BY <2>2, <2>7
  <2> QED BY <2>3, <2>6, <2>8, <2>9
<1> QED BY <1>1, RecallHolds, PTL
=============================================================================
