----------------------- MODULE TransactionGraph_proofs -----------------------
(***************************************************************************)
(* Proofs about the transfer graph, in three layers.  What the operators   *)
(* do: expiry drops a stale prefix, the search finds a ring exactly if the *)
(* edges it may follow have one, the window keeps exactly what is inside.  *)
(* What the state is: adjacency and inbound against the history of every   *)
(* transfer ever added (Follows, Arrives).  What a check sees: its cycle   *)
(* and its chain depth are right for that history.  Then the same for the  *)
(* disjoint sets: what find and union do to the sets (Finds, Unites), what *)
(* the sets are of the history (ComponentsInv), and the size a check sees. *)
(***************************************************************************)
EXTENDS TransactionGraph, SequenceTheorems, FiniteSetTheorems, FunctionTheorems, WellFoundedInduction, TLAPS

-----------------------------------------------------------------------------
(* Numbers *)

\* A set of numbers that is not empty has a least one.
LEMMA NatMin ==
  ASSUME NEW T \in SUBSET Nat, T # {}
  PROVE  \E x \in T : \A y \in T : x <= y
<1>1. PICK x \in T : \A y \in T : ~(<<y, x>> \in OpToRel(<, Nat))
  BY NatLessThanWellFounded, WFMin
<1>2. \A y \in T : ~(y < x)
  BY <1>1 DEF OpToRel
<1> QED BY <1>2

\* Induction, for a set of numbers.
LEMMA AllNumbers ==
  ASSUME NEW T, 0 \in T, \A k \in Nat : k \in T => k + 1 \in T
  PROVE  \A k \in Nat : k \in T
<1> SUFFICES ASSUME NEW k \in Nat, k \notin T PROVE FALSE
  OBVIOUS
<1> DEFINE Out == {i \in Nat : i \notin T}
<1>1. PICK m \in Out : \A i \in Out : m <= i
  <2>1. Out # {} /\ Out \in SUBSET Nat
    OBVIOUS
  <2> HIDE DEF Out
  <2> QED BY <2>1, NatMin
<1>2. m \in Nat /\ m # 0 /\ m \notin T
  BY <1>1
<1>3. m - 1 \in Nat /\ m - 1 \notin Out
  <2>1. m - 1 \in Nat /\ ~(m <= m - 1)
    BY <1>2
  <2> HIDE DEF Out
  <2> QED BY <1>1, <2>1
<1> QED BY <1>2, <1>3

\* A bounded set of numbers that is not empty has a largest one.
LEMMA LargestUpTo ==
  ASSUME NEW n \in Nat, NEW T \in SUBSET (0 .. n), T # {}
  PROVE  \E x \in T : \A y \in T : y <= x
<1> DEFINE Rest == {n - y : y \in T}
<1>1. Rest \in SUBSET Nat /\ Rest # {}
  <2>1. \A y \in T : n - y \in Nat
    OBVIOUS
  <2>2. PICK y \in T : TRUE
    OBVIOUS
  <2>3. n - y \in Rest
    OBVIOUS
  <2> QED BY <2>1, <2>3
<1>2. PICK r \in Rest : \A q \in Rest : r <= q
  <2> HIDE DEF Rest
  <2> QED BY <1>1, NatMin
<1>3. PICK x \in T : r = n - x
  BY <1>2
<1>4. \A y \in T : n - x <= n - y
  BY <1>2, <1>3
<1> QED BY <1>3, <1>4

-----------------------------------------------------------------------------
(* Expiry *)

Dropped(edges, now) == Len(edges) - Len(Expired(edges, now))

\* Some edges at the front go, all of them stale; the first that stays is live.
LEMMA ExpiredFrom ==
  ASSUME NEW S, NEW edges \in Seq(S), NEW now \in Int, \A e \in S : e.ts \in Int
  PROVE  /\ Dropped(edges, now) \in 0 .. Len(edges)
         /\ \A i \in 1 .. Dropped(edges, now) : edges[i].ts < now - EdgeTtl
         /\ Dropped(edges, now) < Len(edges) => edges[Dropped(edges, now) + 1].ts >= now - EdgeTtl
         /\ Expired(edges, now) \in Seq(S)
         /\ Len(Expired(edges, now)) = Len(edges) - Dropped(edges, now)
         /\ \A i \in 1 .. Len(Expired(edges, now)) : Expired(edges, now)[i] = edges[Dropped(edges, now) + i]
<1> DEFINE best == CHOOSE n \in Stale(edges, now) : \A m \in Stale(edges, now) : m <= n
<1>1. Len(edges) \in Nat /\ \A i \in 1 .. Len(edges) : edges[i].ts \in Int
  BY LenProperties, ElementOfSeq
<1>2. Stale(edges, now) \in SUBSET (0 .. Len(edges)) /\ 0 \in Stale(edges, now)
  BY <1>1 DEF Stale
<1>3. best \in Stale(edges, now) /\ \A m \in Stale(edges, now) : m <= best
  <2>1. \E n \in Stale(edges, now) : \A m \in Stale(edges, now) : m <= n
    BY <1>1, <1>2, LargestUpTo
  <2> QED BY <2>1
<1>4. Expired(edges, now) = SubSeq(edges, 1 + best, Len(edges))
  BY DEF Expired
<1> HIDE DEF best
<1>5. best \in 0 .. Len(edges) /\ \A i \in 1 .. best : edges[i].ts < now - EdgeTtl
  BY <1>3 DEF Stale
<1>6. best < Len(edges) => edges[best + 1].ts >= now - EdgeTtl
  <2> SUFFICES ASSUME best < Len(edges), ~(edges[best + 1].ts >= now - EdgeTtl) PROVE FALSE
    OBVIOUS
  <2>1. EdgeTtl \in Nat
    BY GraphAssumption
  <2>2. edges[best + 1].ts < now - EdgeTtl
    BY <1>1, <1>5, <2>1
  <2>3. \A i \in 1 .. best + 1 : edges[i].ts < now - EdgeTtl
    BY <1>1, <1>5, <2>2
  <2>4. best + 1 \in Stale(edges, now)
    BY <1>1, <1>5, <2>3 DEF Stale
  <2> QED BY <1>1, <1>3, <1>5, <2>4
<1>7. 1 + best = best + 1
  BY <1>1, <1>5
<1>8. /\ SubSeq(edges, best + 1, Len(edges)) \in Seq(S)
      /\ Len(SubSeq(edges, best + 1, Len(edges))) = Len(edges) - best
      /\ \A i \in 1 .. Len(edges) - best : SubSeq(edges, best + 1, Len(edges))[i] = edges[best + i]
  <2>1. /\ best + 1 \in 1 .. Len(edges) + 1 /\ Len(edges) \in best .. Len(edges)
        /\ best + 1 \in Int
    BY <1>1, <1>5
  <2> QED BY <1>1, <1>5, <2>1, SubSeqProperties
<1>9. Dropped(edges, now) = best
  BY <1>1, <1>4, <1>5, <1>7, <1>8 DEF Dropped
<1> QED BY <1>4, <1>5, <1>6, <1>7, <1>8, <1>9

-----------------------------------------------------------------------------
(* The depth-first search *)

\* The paths of the search are the sequences of two to MaxCycleDepth accounts.
LEMMA PathFacts ==
  ASSUME NEW path
  PROVE  path \in Paths <=> /\ path \in Seq(Nodes)
                            /\ Len(path) >= 2 /\ Len(path) <= MaxCycleDepth
<1>1. MaxCycleDepth \in Nat
  BY GraphAssumption
<1>2. ASSUME path \in Paths
      PROVE  path \in Seq(Nodes) /\ Len(path) >= 2 /\ Len(path) <= MaxCycleDepth
  <2>1. PICK n \in 2 .. MaxCycleDepth : path \in [1 .. n -> Nodes]
    BY <1>2 DEF Paths
  <2>2. n \in Nat /\ n >= 2 /\ n <= MaxCycleDepth
    BY <1>1
  <2>3. path \in Seq(Nodes) /\ Len(path) = n
    BY <2>1, <2>2
  <2> QED BY <2>2, <2>3
<1>3. ASSUME path \in Seq(Nodes), Len(path) >= 2, Len(path) <= MaxCycleDepth
      PROVE  path \in Paths
  <2>1. Len(path) \in 2 .. MaxCycleDepth /\ path \in [1 .. Len(path) -> Nodes]
    BY <1>1, <1>3, LenProperties
  <2> QED BY <2>1 DEF Paths
<1> QED BY <1>2, <1>3

\* A path the search extends stays a path.
LEMMA Extended ==
  ASSUME NEW path \in Paths, NEW next \in Nodes, CanExtend(path, next)
  PROVE  Append(path, next) \in Paths /\ Len(Append(path, next)) = Len(path) + 1
<1>1. path \in Seq(Nodes) /\ Len(path) >= 2 /\ Len(path) < MaxCycleDepth /\ Len(path) \in Nat
  BY PathFacts, LenProperties DEF CanExtend
<1>2. Append(path, next) \in Seq(Nodes) /\ Len(Append(path, next)) = Len(path) + 1
  BY <1>1, AppendProperties
<1>3. MaxCycleDepth \in Nat
  BY GraphAssumption
<1>4. Len(Append(path, next)) >= 2 /\ Len(Append(path, next)) <= MaxCycleDepth
  BY <1>1, <1>2, <1>3
<1> QED BY <1>2, <1>4, PathFacts

\* A graph the search may walk over.
Adjacency == [Nodes -> Seq(Edge)]

\* What is left of the edges of an account leads to accounts.
LEMMA ExpiredEdges ==
  ASSUME NEW adj \in Adjacency, NEW n \in Nodes, NEW now \in Int
  PROVE  /\ Expired(adj[n], now) \in Seq(Edge) /\ Len(Expired(adj[n], now)) \in Nat
         /\ DOMAIN Expired(adj[n], now) = 1 .. Len(Expired(adj[n], now))
         /\ \A i \in DOMAIN Expired(adj[n], now) : Expired(adj[n], now)[i].dst \in Nodes
<1>1. adj[n] \in Seq(Edge) /\ \A e \in Edge : e.ts \in Int /\ e.dst \in Nodes
  BY GraphAssumption DEF Adjacency, Edge
<1>2. Expired(adj[n], now) \in Seq(Edge)
  BY <1>1, ExpiredFrom
<1> QED BY <1>1, <1>2, LenProperties, ElementOfSeq

\* The last node of a path.
LEMMA LastOfPath ==
  ASSUME NEW path \in Paths
  PROVE  Last(path) \in Nodes /\ Last(path) = path[Len(path)]
<1>1. path \in Seq(Nodes) /\ Len(path) >= 2
  BY PathFacts
<1>2. Len(path) \in 1 .. Len(path)
  BY <1>1, LenProperties
<1> QED BY <1>1, <1>2, ElementOfSeq DEF Last

\* One node looks only at what the search does from paths that are one longer.
LEMMA ExploredDepends ==
  ASSUME NEW adj \in Adjacency, NEW src, NEW now \in Int, NEW path \in Paths, NEW f, NEW g,
         \A p \in Paths : Len(p) = Len(path) + 1 => f[p] = g[p]
  PROVE  Explored(f, adj, src, now, path) = Explored(g, adj, src, now, path)
<1>1. \A i \in DOMAIN Expired(adj[Last(path)], now) :
        Tried(f, adj, src, now, path, i) = Tried(g, adj, src, now, path, i)
  <2> SUFFICES ASSUME NEW i \in DOMAIN Expired(adj[Last(path)], now)
               PROVE  Tried(f, adj, src, now, path, i) = Tried(g, adj, src, now, path, i)
    OBVIOUS
  <2> DEFINE next == Expired(adj[Last(path)], now)[i].dst
  <2>1. next \in Nodes
    BY LastOfPath, ExpiredEdges
  <2>2. CanExtend(path, next) => f[Append(path, next)] = g[Append(path, next)]
    BY <2>1, Extended
  <2> QED BY <2>2 DEF Tried
<1>2. [i \in DOMAIN Expired(adj[Last(path)], now) |-> Tried(f, adj, src, now, path, i)]
        = [i \in DOMAIN Expired(adj[Last(path)], now) |-> Tried(g, adj, src, now, path, i)]
  BY <1>1
<1> QED BY <1>2 DEF Explored

\* The recursion of the search is well founded: each call is from a path one longer, up to the depth bound.
LEMMA SearchUnfolds ==
  ASSUME NEW adj \in Adjacency, NEW src, NEW now \in Int
  PROVE  Search(adj, src, now)
           = [path \in Paths |-> Explored(Search(adj, src, now), adj, src, now, path)]
<1> DEFINE Right(f, k) == \A p \in Paths : Len(p) > MaxCycleDepth - k => f[p] = Explored(f, adj, src, now, p)
           Levels == {k \in Nat : \E f : f = [p \in Paths |-> f[p]] /\ Right(f, k)}
<1>1. MaxCycleDepth \in Nat /\ \A p \in Paths : Len(p) \in Nat /\ Len(p) <= MaxCycleDepth
  BY GraphAssumption, PathFacts, LenProperties
<1>2. 0 \in Levels
  <2> DEFINE f == [p \in Paths |-> 0]
  <2>1. f = [p \in Paths |-> f[p]]
    OBVIOUS
  <2>2. Right(f, 0)
    BY <1>1
  <2> QED BY <2>1, <2>2
<1>3. ASSUME NEW k \in Nat, k \in Levels
      PROVE  k + 1 \in Levels
  <2>1. PICK f : f = [p \in Paths |-> f[p]] /\ Right(f, k)
    BY <1>3
  <2> DEFINE g == [p \in Paths |-> IF Len(p) = MaxCycleDepth - k THEN Explored(f, adj, src, now, p) ELSE f[p]]
  <2>2. g = [p \in Paths |-> g[p]]
    OBVIOUS
  <2>3. Right(g, k + 1)
    <3> SUFFICES ASSUME NEW p \in Paths, Len(p) > MaxCycleDepth - (k + 1)
                 PROVE  g[p] = Explored(g, adj, src, now, p)
      OBVIOUS
    <3>1. Len(p) \in Nat /\ Len(p) >= MaxCycleDepth - k
      BY <1>1
    <3>2. \A q \in Paths : Len(q) = Len(p) + 1 => g[q] = f[q]
      BY <1>1, <3>1
    <3>3. Explored(g, adj, src, now, p) = Explored(f, adj, src, now, p)
      <4> HIDE DEF g
      <4> QED BY <3>2, ExploredDepends
    <3>4. g[p] = Explored(f, adj, src, now, p)
      BY <1>1, <2>1, <3>1
    <3> QED BY <3>3, <3>4
  <2> HIDE DEF g, Right
  <2> QED BY <2>2, <2>3
<1>4. MaxCycleDepth \in Levels
  <2> HIDE DEF Levels
  <2> QED BY <1>1, <1>2, <1>3, AllNumbers
<1>5. \E f : f = [p \in Paths |-> Explored(f, adj, src, now, p)]
  <2>1. PICK f : f = [p \in Paths |-> f[p]] /\ Right(f, MaxCycleDepth)
    BY <1>4
  <2>2. \A p \in Paths : Len(p) > MaxCycleDepth - MaxCycleDepth
    BY <1>1, PathFacts
  <2>3. \A p \in Paths : f[p] = Explored(f, adj, src, now, p)
    BY <2>1, <2>2
  <2>4. f = [p \in Paths |-> Explored(f, adj, src, now, p)]
    BY <2>1, <2>3
  <2> QED BY <2>4
<1> DEFINE chosen == CHOOSE f : f = [p \in Paths |-> Explored(f, adj, src, now, p)]
<1>6. chosen = [p \in Paths |-> Explored(chosen, adj, src, now, p)]
  BY <1>5
<1>7. Search(adj, src, now) = chosen
  BY DEF Search
<1> QED BY <1>6, <1>7

\* The search decides by the edges it may follow: a cycle is found if following one of them finds one.
LEMMA FirstFoundIs ==
  ASSUME NEW n \in Nat, NEW tries, DOMAIN tries = 1 .. n, NEW node
  PROVE  /\ FirstFound(node, tries).cycle # <<>> => \E i \in 1 .. n : FirstFound(node, tries).cycle = tries[i].cycle
         /\ (\E i \in 1 .. n : tries[i].cycle # <<>>) => FirstFound(node, tries).cycle # <<>>
<1> DEFINE hits  == {i \in DOMAIN tries : tries[i].cycle # <<>>}
           first == CHOOSE i \in hits : \A h \in hits : i <= h
<1>1. FirstFound(node, tries).cycle = IF hits = {} THEN <<>> ELSE tries[first].cycle
  BY DEF FirstFound
<1>2. hits # {} => first \in hits
  <2>1. hits \in SUBSET Nat
    OBVIOUS
  <2>2. hits # {} => \E i \in hits : \A h \in hits : i <= h
    <3> HIDE DEF hits
    <3> QED BY <2>1, NatMin
  <2> QED BY <2>2
<1>3. \A i \in hits : i \in 1 .. n /\ tries[i].cycle # <<>>
  OBVIOUS
<1>4. (\E i \in 1 .. n : tries[i].cycle # <<>>) => hits # {}
  OBVIOUS
<1> HIDE DEF hits, first
<1> QED BY <1>1, <1>2, <1>3, <1>4

\* An edge from a to b that a call at now has not dropped.
Hop(adj, now, a, b) == \E i \in 1 .. Len(Expired(adj[a], now)) : Expired(adj[a], now)[i].dst = b

\* What one step of the search may do.
LEMMA SearchStep ==
  ASSUME NEW adj \in Adjacency, NEW src, NEW now \in Int, NEW path \in Paths
  PROVE  LET D == Search(adj, src, now) IN
         /\ D[path].cycle # <<>> =>
              \E next \in Nodes :
                /\ Hop(adj, now, Last(path), next)
                /\ \/ next = src /\ D[path].cycle = Append(path, src)
                   \/ /\ next # src /\ CanExtend(path, next) /\ D[Append(path, next)].cycle # <<>>
                      /\ D[path].cycle = D[Append(path, next)].cycle
         /\ Hop(adj, now, Last(path), src) => D[path].cycle # <<>>
         /\ \A next \in Nodes :
              Hop(adj, now, Last(path), next) /\ next # src /\ CanExtend(path, next) /\ D[Append(path, next)].cycle # <<>>
                => D[path].cycle # <<>>
<1> DEFINE D == Search(adj, src, now)
           E == Expired(adj[Last(path)], now)
           tries == [i \in DOMAIN E |-> Tried(D, adj, src, now, path, i)]
<1>1. D[path] = FirstFound(Last(path), tries)
  BY SearchUnfolds DEF Explored
<1>2. /\ Len(E) \in Nat /\ DOMAIN E = 1 .. Len(E) /\ \A i \in 1 .. Len(E) : E[i].dst \in Nodes
  BY LastOfPath, ExpiredEdges
<1>3. DOMAIN tries = 1 .. Len(E)
  BY <1>2
<1>4. \A i \in 1 .. Len(E) :
        tries[i] = IF E[i].dst = src THEN [cycle |-> Append(path, src), touched |-> {}]
                   ELSE IF CanExtend(path, E[i].dst) THEN D[Append(path, E[i].dst)]
                   ELSE NoCycle
  BY <1>2 DEF Tried
<1>5. Append(path, src) # <<>>
  <2>1. path \in Seq(Nodes) /\ Len(path) \in Nat
    BY PathFacts, LenProperties
  <2>2. Append(path, src)[Len(path) + 1] = src /\ DOMAIN Append(path, src) = 1 .. Len(path) + 1
    BY <2>1
  <2>3. 1 \in DOMAIN Append(path, src)
    BY <2>1, <2>2
  <2> QED BY <2>3
<1>6. NoCycle.cycle = <<>>
  BY DEF NoCycle
<1>7. \A next : Hop(adj, now, Last(path), next) <=> \E i \in 1 .. Len(E) : E[i].dst = next
  BY DEF Hop
<1>8. /\ D[path].cycle # <<>> => \E i \in 1 .. Len(E) : D[path].cycle = tries[i].cycle
      /\ (\E i \in 1 .. Len(E) : tries[i].cycle # <<>>) => D[path].cycle # <<>>
  <2> HIDE DEF tries, E, D
  <2> QED BY <1>1, <1>2, <1>3, FirstFoundIs
<1> HIDE DEF tries, E, D
<1>9. ASSUME D[path].cycle # <<>>
      PROVE  \E next \in Nodes :
               /\ Hop(adj, now, Last(path), next)
               /\ \/ next = src /\ D[path].cycle = Append(path, src)
                  \/ /\ next # src /\ CanExtend(path, next) /\ D[Append(path, next)].cycle # <<>>
                     /\ D[path].cycle = D[Append(path, next)].cycle
  <2>1. PICK i \in 1 .. Len(E) : D[path].cycle = tries[i].cycle
    BY <1>8, <1>9
  <2>2. E[i].dst \in Nodes /\ Hop(adj, now, Last(path), E[i].dst)
    BY <1>2, <1>7
  <2>3. CASE E[i].dst = src
    <3>1. D[path].cycle = Append(path, src)
      BY <1>4, <2>1, <2>3
    <3> QED BY <2>2, <2>3, <3>1
  <2>4. CASE E[i].dst # src
    <3>1. CanExtend(path, E[i].dst)
      BY <1>4, <1>6, <1>9, <2>1, <2>4
    <3>2. D[path].cycle = D[Append(path, E[i].dst)].cycle
      BY <1>4, <2>1, <2>4, <3>1
    <3> QED BY <1>9, <2>2, <2>4, <3>1, <3>2
  <2> QED BY <2>3, <2>4
<1>10. Hop(adj, now, Last(path), src) => D[path].cycle # <<>>
  <2> SUFFICES ASSUME Hop(adj, now, Last(path), src) PROVE D[path].cycle # <<>>
    OBVIOUS
  <2>1. PICK i \in 1 .. Len(E) : E[i].dst = src
    BY <1>7
  <2>2. tries[i].cycle # <<>>
    BY <1>4, <1>5, <2>1
  <2> QED BY <1>8, <2>2
<1>11. ASSUME NEW next \in Nodes, Hop(adj, now, Last(path), next), next # src, CanExtend(path, next),
              D[Append(path, next)].cycle # <<>>
       PROVE  D[path].cycle # <<>>
  <2>1. PICK i \in 1 .. Len(E) : E[i].dst = next
    BY <1>7, <1>11
  <2>2. tries[i].cycle # <<>>
    BY <1>4, <1>11, <2>1
  <2> QED BY <1>8, <2>2
<1> QED BY <1>9, <1>10, <1>11 DEF D

Distinct(p) == \A i, j \in 1 .. Len(p) : p[i] = p[j] => i = j

\* The path q goes on where path ends and comes back to src.
ClosesFrom(adj, src, now, path, q) ==
    /\ q \in Paths /\ Distinct(q) /\ Len(q) >= Len(path)
    /\ \A i \in 1 .. Len(path) : q[i] = path[i]
    /\ \A i \in Len(path) .. Len(q) - 1 : Hop(adj, now, q[i], q[i + 1])
    /\ Hop(adj, now, q[Len(q)], src)

\* What the search reports is a path through distinct accounts, over edges it has, back to the sender.
LEMMA SearchIsSound ==
  ASSUME NEW adj \in Adjacency, NEW src, NEW now \in Int, NEW path \in Paths, Distinct(path),
         Search(adj, src, now)[path].cycle # <<>>
  PROVE  \E q : ClosesFrom(adj, src, now, path, q) /\ Search(adj, src, now)[path].cycle = Append(q, src)
<1> DEFINE D == Search(adj, src, now)
           Sound(p) == Distinct(p) /\ D[p].cycle # <<>> =>
                         \E q : ClosesFrom(adj, src, now, p, q) /\ D[p].cycle = Append(q, src)
           Levels == {k \in Nat : \A p \in Paths : Len(p) > MaxCycleDepth - k => Sound(p)}
<1>1. MaxCycleDepth \in Nat /\ \A p \in Paths : /\ Len(p) \in Nat /\ Len(p) <= MaxCycleDepth
                                                /\ Len(p) > MaxCycleDepth - MaxCycleDepth
  BY GraphAssumption, PathFacts, LenProperties
<1>2. 0 \in Levels
  BY <1>1
<1>3. ASSUME NEW p \in Paths, \A r \in Paths : Len(r) = Len(p) + 1 => Sound(r),
             Distinct(p), D[p].cycle # <<>>
      PROVE  \E q : ClosesFrom(adj, src, now, p, q) /\ D[p].cycle = Append(q, src)
  <2>1. PICK next \in Nodes :
          /\ Hop(adj, now, Last(p), next)
          /\ \/ next = src /\ D[p].cycle = Append(p, src)
             \/ /\ next # src /\ CanExtend(p, next) /\ D[Append(p, next)].cycle # <<>>
                /\ D[p].cycle = D[Append(p, next)].cycle
    BY <1>3, SearchStep
  <2>2. p \in Seq(Nodes) /\ Len(p) \in Nat /\ Last(p) = p[Len(p)]
    BY PathFacts, LenProperties, LastOfPath
  <2>3. CASE next = src /\ D[p].cycle = Append(p, src)
    <3>1. ClosesFrom(adj, src, now, p, p)
      BY <1>3, <2>1, <2>2, <2>3 DEF ClosesFrom
    <3> QED BY <2>3, <3>1
  <2>4. CASE CanExtend(p, next) /\ D[Append(p, next)].cycle # <<>> /\ D[p].cycle = D[Append(p, next)].cycle
    <3> DEFINE r == Append(p, next)
    <3>1. r \in Paths /\ Len(r) = Len(p) + 1
      BY <2>4, Extended
    <3>2. /\ \A i \in 1 .. Len(p) : r[i] = p[i]
          /\ r[Len(p) + 1] = next
      BY <2>2, AppendProperties
    <3> HIDE DEF r
    <3>3. Distinct(r)
      <4>1. \A i \in 1 .. Len(p) : p[i] # next
        <5>1. \A i \in 1 .. Len(p) : i \in DOMAIN p
          BY <2>2, LenProperties
        <5> QED BY <2>4, <5>1 DEF CanExtend, Range
      <4>2. \A i \in 1 .. Len(r) : i \in 1 .. Len(p) \/ i = Len(p) + 1
        BY <2>2, <3>1
      <4> QED BY <1>3, <3>2, <4>1, <4>2 DEF Distinct
    <3>4. PICK q : ClosesFrom(adj, src, now, r, q) /\ D[r].cycle = Append(q, src)
      BY <1>3, <2>4, <3>1, <3>3 DEF r
    <3>5. q \in Paths /\ Len(q) \in Nat /\ Len(q) >= Len(p) + 1 /\ Len(p) + 1 \in 1 .. Len(r)
      BY <1>1, <2>2, <3>1, <3>4 DEF ClosesFrom
    <3>6. /\ \A i \in 1 .. Len(p) : q[i] = p[i]
          /\ q[Len(p)] = Last(p) /\ q[Len(p) + 1] = next
      <4>1. \A i \in 1 .. Len(r) : q[i] = r[i]
        BY <3>4 DEF ClosesFrom
      <4>2. \A i \in 1 .. Len(p) : i \in 1 .. Len(r)
        BY <2>2, <3>1
      <4>3. Len(p) \in 1 .. Len(p)
        BY <2>2, PathFacts
      <4> QED BY <2>2, <3>2, <3>5, <4>1, <4>2, <4>3
    <3>7. \A i \in Len(p) .. Len(q) - 1 : Hop(adj, now, q[i], q[i + 1])
      <4> SUFFICES ASSUME NEW i \in Len(p) .. Len(q) - 1 PROVE Hop(adj, now, q[i], q[i + 1])
        OBVIOUS
      <4>1. CASE i = Len(p)
        BY <2>1, <3>6, <4>1
      <4>2. CASE i # Len(p)
        <5>1. i \in Len(r) .. Len(q) - 1
          BY <2>2, <3>1, <3>5, <4>2
        <5> QED BY <3>4, <5>1 DEF ClosesFrom
      <4> QED BY <4>1, <4>2
    <3>8. ClosesFrom(adj, src, now, p, q)
      BY <2>2, <3>4, <3>5, <3>6, <3>7 DEF ClosesFrom
    <3>9. D[p].cycle = Append(q, src)
      BY <2>4, <3>4 DEF r
    <3> QED BY <3>8, <3>9
  <2> QED BY <2>1, <2>3, <2>4
<1>4. ASSUME NEW k \in Nat, k \in Levels
      PROVE  k + 1 \in Levels
  <2>1. ASSUME NEW p \in Paths, Len(p) > MaxCycleDepth - (k + 1)
        PROVE  Sound(p)
    <3>1. \A r \in Paths : Len(r) = Len(p) + 1 => Len(r) > MaxCycleDepth - k
      BY <1>1, <2>1
    <3>2. \A r \in Paths : Len(r) = Len(p) + 1 => Sound(r)
      <4> HIDE DEF Sound
      <4> QED BY <1>4, <3>1
    <3> QED BY <1>3, <3>2
  <2> HIDE DEF Sound
  <2> QED BY <2>1
<1>5. MaxCycleDepth \in Levels
  <2> HIDE DEF Levels
  <2> QED BY <1>1, <1>2, <1>4, AllNumbers
<1>6. Sound(path)
  <2> HIDE DEF Sound
  <2> QED BY <1>1, <1>5
<1> QED BY <1>6

\* A ring of edges the search has, through distinct accounts and within the depth bound, is not missed.
LEMMA SearchIsComplete ==
  ASSUME NEW adj \in Adjacency, NEW now \in Int, NEW p \in Paths, Distinct(p),
         \A i \in 2 .. Len(p) - 1 : Hop(adj, now, p[i], p[i + 1]),
         Hop(adj, now, p[Len(p)], p[1])
  PROVE  Search(adj, p[1], now)[<<p[1], p[2]>>].cycle # <<>>
<1> DEFINE D == Search(adj, p[1], now)
           Part(m) == SubSeq(p, 1, m)
           Levels == {k \in Nat : k <= Len(p) - 2 => D[Part(Len(p) - k)].cycle # <<>>}
<1>1. /\ p \in Seq(Nodes) /\ Len(p) \in Nat /\ Len(p) >= 2 /\ Len(p) <= MaxCycleDepth /\ MaxCycleDepth \in Nat
      /\ \A i \in 1 .. Len(p) : p[i] \in Nodes
  BY GraphAssumption, PathFacts, LenProperties, ElementOfSeq
<1>2. ASSUME NEW m \in 2 .. Len(p)
      PROVE  /\ Part(m) \in Paths /\ Len(Part(m)) = m /\ \A i \in 1 .. m : Part(m)[i] = p[i]
             /\ Last(Part(m)) = p[m]
  <2>1. m \in Nat /\ m >= 2 /\ m <= MaxCycleDepth /\ \A i \in 1 .. m : p[i] \in Nodes
    BY <1>1
  <2>2. Part(m) \in Seq(Nodes) /\ Len(Part(m)) = m /\ \A i \in 1 .. m : Part(m)[i] = p[i]
    <3>1. /\ Part(m) \in Seq(Nodes) /\ Len(Part(m)) = (IF 1 <= m THEN m - 1 + 1 ELSE 0)
          /\ \A i \in 1 .. m - 1 + 1 : Part(m)[i] = p[1 + i - 1]
      BY <2>1, SubSeqProperties
    <3>2. \A i \in 1 .. m : i \in 1 .. m - 1 + 1 /\ 1 + i - 1 = i
      BY <2>1
    <3>3. (IF 1 <= m THEN m - 1 + 1 ELSE 0) = m
      BY <2>1
    <3> HIDE DEF Part
    <3> QED BY <3>1, <3>2, <3>3
  <2>3. m \in 1 .. m
    BY <2>1
  <2> HIDE DEF Part
  <2>4. Part(m) \in Paths
    BY <2>1, <2>2, PathFacts
  <2> QED BY <2>2, <2>3, <2>4 DEF Last
<1>3. ASSUME NEW m \in 2 .. Len(p) - 1
      PROVE  Part(m + 1) = Append(Part(m), p[m + 1]) /\ CanExtend(Part(m), p[m + 1])
  <2>1. m \in 2 .. Len(p) /\ m + 1 \in 2 .. Len(p) /\ m \in Nat
    BY <1>1
  <2>2. /\ Part(m + 1) \in Seq(Nodes) /\ Part(m) \in Seq(Nodes) /\ Len(Part(m + 1)) = m + 1 /\ Len(Part(m)) = m
        /\ (\A i \in 1 .. m : Part(m)[i] = p[i]) /\ \A i \in 1 .. m + 1 : Part(m + 1)[i] = p[i]
    BY <1>2, <2>1, PathFacts
  <2> HIDE DEF Part
  <2>3. p[m + 1] \in Nodes
    BY <1>1, <2>1
  <2>4. /\ Append(Part(m), p[m + 1]) \in Seq(Nodes) /\ Len(Append(Part(m), p[m + 1])) = m + 1
        /\ \A i \in 1 .. m : Append(Part(m), p[m + 1])[i] = Part(m)[i]
        /\ Append(Part(m), p[m + 1])[m + 1] = p[m + 1]
    BY <2>2, <2>3, AppendProperties
  <2>5. \A i \in 1 .. m + 1 : Part(m + 1)[i] = Append(Part(m), p[m + 1])[i]
    <3>1. \A i \in 1 .. m + 1 : i \in 1 .. m \/ i = m + 1
      BY <2>1
    <3> QED BY <2>2, <2>4, <3>1
  <2>6. Part(m + 1) = Append(Part(m), p[m + 1])
    BY <2>2, <2>4, <2>5, SeqEqual
  <2>7. p[m + 1] \notin Range(Part(m))
    <3>1. DOMAIN Part(m) = 1 .. m
      BY <2>2, LenProperties
    <3>2. \A i \in 1 .. m : p[i] # p[m + 1]
      <4>1. \A i \in 1 .. m : i \in 1 .. Len(p) /\ m + 1 \in 1 .. Len(p) /\ i # m + 1
        BY <1>1, <2>1
      <4> QED BY <4>1 DEF Distinct
    <3> QED BY <2>2, <3>1, <3>2 DEF Range
  <2>8. Len(Part(m)) < MaxCycleDepth
    BY <1>1, <2>1, <2>2
  <2> QED BY <2>6, <2>7, <2>8 DEF CanExtend
<1> HIDE DEF Part
<1>4. 0 \in Levels
  <2>1. Len(p) \in 2 .. Len(p) /\ Len(p) - 0 = Len(p)
    BY <1>1
  <2>2. Part(Len(p)) \in Paths /\ Last(Part(Len(p))) = p[Len(p)]
    BY <1>2, <2>1
  <2>3. D[Part(Len(p))].cycle # <<>>
    BY <2>2, SearchStep
  <2> QED BY <2>1, <2>3
<1>5. ASSUME NEW k \in Nat, k \in Levels
      PROVE  k + 1 \in Levels
  <2> SUFFICES ASSUME k + 1 <= Len(p) - 2 PROVE D[Part(Len(p) - (k + 1))].cycle # <<>>
    OBVIOUS
  <2> DEFINE m == Len(p) - (k + 1)
  <2>1. m \in 2 .. Len(p) - 1 /\ m \in 2 .. Len(p) /\ m + 1 = Len(p) - k /\ k <= Len(p) - 2 /\ m + 1 \in 1 .. Len(p)
        /\ m \in 1 .. Len(p) /\ 1 \in 1 .. Len(p) /\ m + 1 # 1
    BY <1>1
  <2>2. D[Part(m + 1)].cycle # <<>>
    BY <1>5, <2>1
  <2> HIDE DEF m
  <2>3. /\ Part(m) \in Paths /\ Last(Part(m)) = p[m]
        /\ Part(m + 1) = Append(Part(m), p[m + 1]) /\ CanExtend(Part(m), p[m + 1])
    BY <1>2, <1>3, <2>1
  <2>4. Hop(adj, now, p[m], p[m + 1]) /\ p[m + 1] \in Nodes /\ p[m + 1] # p[1]
    BY <1>1, <2>1 DEF Distinct
  <2>5. Hop(adj, now, Last(Part(m)), p[m + 1]) /\ D[Append(Part(m), p[m + 1])].cycle # <<>>
    BY <2>2, <2>3, <2>4
  <2>6. \A next \in Nodes :
          /\ Hop(adj, now, Last(Part(m)), next) /\ next # p[1] /\ CanExtend(Part(m), next)
          /\ D[Append(Part(m), next)].cycle # <<>>
          => D[Part(m)].cycle # <<>>
    BY <2>3, SearchStep
  <2>7. D[Part(m)].cycle # <<>>
    <3> HIDE DEF D
    <3> QED BY <2>3, <2>4, <2>5, <2>6
  <2> QED BY <2>7 DEF m
<1>6. D[Part(2)].cycle # <<>>
  <2>1. Len(p) - 2 \in Levels
    <3> HIDE DEF Levels
    <3>1. Len(p) - 2 \in Nat
      BY <1>1
    <3> QED BY <1>4, <1>5, <3>1, AllNumbers
  <2>2. Len(p) - (Len(p) - 2) = 2 /\ Len(p) - 2 <= Len(p) - 2
    BY <1>1
  <2> QED BY <2>1, <2>2
<1>7. Part(2) = <<p[1], p[2]>>
  <2>1. 2 \in 2 .. Len(p)
    BY <1>1
  <2>2. Part(2) \in Seq(Nodes) /\ Len(Part(2)) = 2 /\ Part(2)[1] = p[1] /\ Part(2)[2] = p[2]
    <3>1. Part(2) \in Paths /\ Len(Part(2)) = 2 /\ \A i \in 1 .. 2 : Part(2)[i] = p[i]
      BY <1>2, <2>1
    <3>2. 1 \in 1 .. 2 /\ 2 \in 1 .. 2
      OBVIOUS
    <3> QED BY <3>1, <3>2, PathFacts
  <2>3. p[1] \in Nodes /\ p[2] \in Nodes
    BY <1>1
  <2>4. <<p[1], p[2]>> \in Seq(Nodes) /\ Len(<<p[1], p[2]>>) = 2
    BY <2>3
  <2>5. \A i \in 1 .. Len(Part(2)) : Part(2)[i] = <<p[1], p[2]>>[i]
    BY <2>2
  <2> QED BY <2>2, <2>4, <2>5, SeqEqual
<1> QED BY <1>6, <1>7

-----------------------------------------------------------------------------
(* The history, and how a sender's edges follow it *)

SentBy(h, n) == {t \in h : t.src = n}
Count(h, n)  == Cardinality(SentBy(h, n))

\* The transfers of a sender have the numbers 1, 2, ... in the order they were added.
Numbered(h) ==
    /\ IsFiniteSet(h) /\ h \subseteq Transfer
    /\ \A t \in h : t.nth <= Count(h, t.src)
    /\ \A t, u \in h : t.src = u.src /\ t.nth = u.nth => t = u
    /\ \A n \in Nodes : \A k \in 1 .. Count(h, n) : \E t \in h : t.src = n /\ t.nth = k

\* The fields of a transfer.
LEMMA TransferTypes ==
  ASSUME NEW t \in Transfer
  PROVE  /\ t.src \in Nodes /\ t.dst \in Nodes /\ t.amount \in Nat /\ t.ts \in Int /\ t.nth \in Nat /\ t.nth >= 1
         /\ t.depth \in 0 .. MaxChainDepth /\ t.ts \in Times /\ t.amount \in Amounts
<1>1. /\ t.src \in Nodes /\ t.dst \in Nodes /\ t.amount \in Amounts /\ t.ts \in Times
      /\ t.nth \in 1 .. MaxTransfers /\ t.depth \in 0 .. MaxChainDepth
  BY DEF Transfer
<1>2. MaxTransfers \in Nat /\ Amounts \subseteq Nat /\ Times \subseteq Int
  BY GraphAssumption
<1>3. t.nth \in Nat /\ t.nth >= 1
  BY <1>1, <1>2
<1>4. t.amount \in Nat /\ t.ts \in Int
  <2> HIDE <1>3
  <2> QED BY <1>1, <1>2, Zenon
<1> QED BY <1>1, <1>3, <1>4

\* A sender has a number of transfers, no more than there are in all.
LEMMA CountFacts ==
  ASSUME NEW h, Numbered(h), NEW n
  PROVE  Count(h, n) \in Nat /\ Count(h, n) <= Cardinality(h) /\ IsFiniteSet(SentBy(h, n))
<1>1. SentBy(h, n) \in SUBSET h /\ IsFiniteSet(h)
  BY DEF SentBy, Numbered
<1>2. IsFiniteSet(SentBy(h, n)) /\ Cardinality(SentBy(h, n)) <= Cardinality(h)
  BY <1>1, FS_Subset
<1>3. Cardinality(SentBy(h, n)) \in Nat
  BY <1>2, FS_CardinalityType
<1> QED BY <1>2, <1>3 DEF Count

\* As many transfers of a sender come after one as its number leaves.
LEMMA LaterCount ==
  ASSUME NEW h, Numbered(h), NEW t \in h
  PROVE  Cardinality({u \in h : u.src = t.src /\ u.nth > t.nth}) = Count(h, t.src) - t.nth
<1> DEFINE later == {u \in h : u.src = t.src /\ u.nth > t.nth}
           rest  == t.nth + 1 .. Count(h, t.src)
           f     == [u \in later |-> u.nth]
<1>1. /\ Count(h, t.src) \in Nat /\ t.nth \in Nat /\ t.nth <= Count(h, t.src) /\ t.src \in Nodes /\ h \subseteq Transfer
      /\ t.nth >= 1
  BY CountFacts, TransferTypes DEF Numbered
<1>2. \A u \in h : u.nth \in Nat
  BY <1>1, TransferTypes
<1>3. f \in [later -> rest] /\ \A u, v \in later : f[u] = f[v] => u = v
  <2>1. \A u \in later : u.nth \in rest
    <3>1. \A u \in later : u.nth <= Count(h, t.src)
      BY DEF Numbered
    <3> QED BY <1>1, <1>2, <3>1
  <2>2. \A u, v \in later : u.nth = v.nth => u = v
    BY DEF Numbered
  <2> HIDE DEF later, rest
  <2> QED BY <2>1, <2>2
<1>4. \A k \in rest : \E u \in later : f[u] = k
  <2> SUFFICES ASSUME NEW k \in rest PROVE \E u \in later : f[u] = k
    OBVIOUS
  <2>1. k \in 1 .. Count(h, t.src) /\ k > t.nth
    BY <1>1
  <2>2. PICK u \in h : u.src = t.src /\ u.nth = k
    BY <1>1, <2>1 DEF Numbered
  <2>3. u \in later /\ f[u] = k
    BY <2>1, <2>2
  <2> HIDE DEF f, later
  <2> QED BY <2>3
<1>5. f \in Bijection(later, rest)
  <2> HIDE DEF f, later, rest
  <2> QED BY <1>3, <1>4, Fun_IsBij
<1>6. ExistsBijection(later, rest)
  BY <1>5, Fun_ExistsBij
<1>7. IsFiniteSet(later)
  <2>1. later \in SUBSET h /\ IsFiniteSet(h)
    BY DEF Numbered
  <2> HIDE DEF later
  <2> QED BY <2>1, FS_Subset
<1>8. Cardinality(later) = Cardinality(rest)
  <2> HIDE DEF later, rest
  <2> QED BY <1>6, <1>7, FS_Bijection
<1>9. Cardinality(rest) = Count(h, t.src) - t.nth
  <2>1. t.nth + 1 \in Int /\ Count(h, t.src) \in Int
    BY <1>1
  <2>2. Cardinality(rest) = IF t.nth + 1 > Count(h, t.src) THEN 0 ELSE Count(h, t.src) - (t.nth + 1) + 1
    BY <2>1, FS_Interval
  <2> HIDE DEF rest
  <2> QED BY <1>1, <2>2
<1> QED BY <1>8, <1>9

\* A transfer with the next number of its sender.
NextOf(h, new) == new \in Transfer /\ new.nth = 1 + Count(h, new.src)

\* With that transfer the numbers still run from 1 without gaps.
LEMMA NumberedMore ==
  ASSUME NEW h, Numbered(h), NEW new, NextOf(h, new)
  PROVE  /\ new \notin h /\ Numbered(h \cup {new})
         /\ Count(h \cup {new}, new.src) = Count(h, new.src) + 1
         /\ \A n : n # new.src => Count(h \cup {new}, n) = Count(h, n)
<1> DEFINE more == h \cup {new}
<1>1. /\ new \in Transfer /\ new.nth = 1 + Count(h, new.src) /\ new.src \in Nodes
      /\ h \subseteq Transfer /\ IsFiniteSet(h)
  BY TransferTypes DEF NextOf, Numbered
<1>2. \A n : Count(h, n) \in Nat /\ IsFiniteSet(SentBy(h, n))
  BY CountFacts
<1>3. new \notin h
  <2>1. ASSUME new \in h PROVE FALSE
    <3>1. new.nth <= Count(h, new.src)
      BY <2>1 DEF Numbered
    <3> QED BY <1>1, <1>2, <3>1
  <2> QED BY <2>1
<1>4. IsFiniteSet(more) /\ more \subseteq Transfer
  BY <1>1, FS_AddElement
<1>5. Count(more, new.src) = Count(h, new.src) + 1
  <2>1. SentBy(more, new.src) = SentBy(h, new.src) \cup {new} /\ new \notin SentBy(h, new.src)
    BY <1>3 DEF SentBy
  <2> QED BY <1>2, <2>1, FS_AddElement DEF Count
<1>6. \A n : n # new.src => Count(more, n) = Count(h, n)
  <2>1. \A n : n # new.src => SentBy(more, n) = SentBy(h, n)
    BY DEF SentBy
  <2> QED BY <2>1 DEF Count
<1>7. ASSUME NEW t \in more PROVE t.nth <= Count(more, t.src)
  <2>1. CASE t = new
    BY <1>1, <1>2, <1>5, <2>1
  <2>2. CASE t \in h /\ t.src = new.src
    <3>1. t.nth \in Nat /\ t.nth <= Count(h, new.src)
      BY <1>1, <2>2, TransferTypes DEF Numbered
    <3> QED BY <1>2, <1>5, <2>2, <3>1
  <2>3. CASE t \in h /\ t.src # new.src
    <3>1. t.nth <= Count(h, t.src)
      BY <2>3 DEF Numbered
    <3> QED BY <1>6, <2>3, <3>1
  <2> QED BY <1>7, <2>1, <2>2, <2>3
<1>8. ASSUME NEW t \in more, NEW u \in more, t.src = u.src, t.nth = u.nth PROVE t = u
  <2>1. \A v \in h : v.src = new.src => v.nth # new.nth
    <3>1. \A v \in h : v.nth \in Nat /\ v.nth <= Count(h, v.src)
      BY <1>1, TransferTypes DEF Numbered
    <3> QED BY <1>1, <1>2, <3>1
  <2>2. CASE t = new \/ u = new
    BY <1>8, <2>1, <2>2
  <2>3. CASE t \in h /\ u \in h
    BY <1>8, <2>3 DEF Numbered
  <2> QED BY <2>2, <2>3
<1>9. ASSUME NEW n \in Nodes, NEW k \in 1 .. Count(more, n) PROVE \E t \in more : t.src = n /\ t.nth = k
  <2>1. CASE k \in 1 .. Count(h, n)
    BY <2>1 DEF Numbered
  <2>2. CASE k \notin 1 .. Count(h, n)
    <3>1. n = new.src /\ k = Count(h, n) + 1
      BY <1>2, <1>5, <1>6, <2>2
    <3> QED BY <1>1, <1>2, <3>1
  <2> QED BY <2>1, <2>2
<1> HIDE DEF more
<1>10. Numbered(more)
  BY <1>4, <1>7, <1>8, <1>9 DEF Numbered
<1> QED BY <1>3, <1>5, <1>6, <1>10 DEF more

\* The edges of n are its last transfers, in order; what is not among them any more was older than the TTL by the
\* time clock, or pushed out by MaxEdgesPerNode later ones.
Follows(h, n, edges, clock) ==
    /\ edges \in Seq(Edge) /\ Len(edges) <= MaxEdgesPerNode /\ Len(edges) <= Count(h, n)
    /\ \A i \in 1 .. Len(edges) :
         \E t \in h : /\ t.src = n /\ t.nth = Count(h, n) - Len(edges) + i
                      /\ t.dst = edges[i].dst /\ t.ts = edges[i].ts
    /\ \A t \in h : t.src = n /\ t.nth <= Count(h, n) - Len(edges) =>
         t.ts < clock - EdgeTtl \/ Count(h, n) - t.nth >= MaxEdgesPerNode

\* Expiry by a time not after the clock takes only transfers older than the TTL.
LEMMA FollowsExpired ==
  ASSUME NEW h, Numbered(h), NEW n \in Nodes, NEW edges, NEW clock \in Int, Follows(h, n, edges, clock),
         NEW now \in Int, now <= clock
  PROVE  Follows(h, n, Expired(edges, now), clock)
<1> DEFINE E == Expired(edges, now)
           K == Count(h, n)
           d == Dropped(edges, now)
<1>1. edges \in Seq(Edge) /\ Len(edges) \in Nat /\ Len(edges) <= MaxEdgesPerNode /\ Len(edges) <= K /\ K \in Nat
  BY LenProperties, CountFacts DEF Follows
<1>2. EdgeTtl \in Nat /\ MaxEdgesPerNode \in Nat /\ \A e \in Edge : e.ts \in Int
  BY GraphAssumption DEF Edge
<1>3. /\ d \in 0 .. Len(edges)
      /\ \A i \in 1 .. d : edges[i].ts < now - EdgeTtl
      /\ E \in Seq(Edge) /\ Len(E) = Len(edges) - d
      /\ \A i \in 1 .. Len(E) : E[i] = edges[d + i]
  BY <1>1, <1>2, ExpiredFrom
<1> HIDE DEF d, E
<1>4. ASSUME NEW i \in 1 .. Len(E)
      PROVE  \E t \in h : /\ t.src = n /\ t.nth = K - Len(E) + i
                          /\ t.dst = E[i].dst /\ t.ts = E[i].ts
  <2>1. d + i \in 1 .. Len(edges) /\ i \in 1 .. Len(E)
    BY <1>1, <1>3
  <2>2. PICK t \in h : t.src = n /\ t.nth = K - Len(edges) + (d + i) /\ t.dst = edges[d + i].dst /\ t.ts = edges[d + i].ts
    BY <2>1 DEF Follows
  <2>3. K - Len(edges) + (d + i) = K - Len(E) + i /\ E[i] = edges[d + i]
    BY <1>1, <1>3, <2>1
  <2> QED BY <2>2, <2>3
<1>5. ASSUME NEW t \in h, t.src = n, t.nth <= K - Len(E)
      PROVE  t.ts < clock - EdgeTtl \/ K - t.nth >= MaxEdgesPerNode
  <2>1. t.nth \in Nat /\ t.ts \in Int
    BY TransferTypes DEF Numbered
  <2>2. CASE t.nth <= K - Len(edges)
    BY <1>5, <2>2 DEF Follows
  <2>3. CASE ~(t.nth <= K - Len(edges))
    <3> DEFINE i == t.nth - (K - Len(edges))
    <3>1. i \in 1 .. Len(edges) /\ i \in 1 .. d /\ K - Len(edges) + i = t.nth
      BY <1>1, <1>3, <1>5, <2>1, <2>3
    <3> HIDE DEF i
    <3>2. PICK u \in h : u.src = n /\ u.nth = K - Len(edges) + i /\ u.ts = edges[i].ts
      BY <3>1 DEF Follows
    <3>3. u = t
      BY <1>5, <3>1, <3>2 DEF Numbered
    <3>4. t.ts < now - EdgeTtl
      BY <1>3, <3>1, <3>2, <3>3
    <3> QED BY <1>2, <2>1, <3>4
  <2> QED BY <2>2, <2>3
<1>6. Len(E) <= MaxEdgesPerNode /\ Len(E) <= K
  BY <1>1, <1>2, <1>3
<1>7. Follows(h, n, E, clock)
  BY <1>3, <1>4, <1>5, <1>6 DEF Follows
<1> QED BY <1>7 DEF E

\* A later clock asks no more of the edges.
LEMMA FollowsLater ==
  ASSUME NEW h, Numbered(h), NEW n \in Nodes, NEW edges, NEW clock \in Int, Follows(h, n, edges, clock),
         NEW later \in Int, clock <= later
  PROVE  Follows(h, n, edges, later)
<1>1. EdgeTtl \in Nat /\ \A t \in h : t.ts \in Int
  BY GraphAssumption, TransferTypes DEF Numbered
<1>2. \A t \in h : t.ts < clock - EdgeTtl => t.ts < later - EdgeTtl
  BY <1>1
<1> QED BY <1>2 DEF Follows

\* A transfer of somebody else.
LEMMA FollowsOthers ==
  ASSUME NEW h, Numbered(h), NEW new, NextOf(h, new),
         NEW n \in Nodes, n # new.src, NEW edges, NEW clock, Follows(h, n, edges, clock)
  PROVE  Follows(h \cup {new}, n, edges, clock)
<1>1. Count(h \cup {new}, n) = Count(h, n)
  <2>1. \A m : m # new.src => Count(h \cup {new}, m) = Count(h, m)
    BY NumberedMore
  <2> QED BY <2>1
<1>2. \A t \in h \cup {new} : t.src = n => t \in h
  OBVIOUS
<1>3. /\ edges \in Seq(Edge) /\ Len(edges) <= MaxEdgesPerNode /\ Len(edges) <= Count(h, n)
      /\ \A i \in 1 .. Len(edges) :
           \E t \in h : /\ t.src = n /\ t.nth = Count(h, n) - Len(edges) + i
                        /\ t.dst = edges[i].dst /\ t.ts = edges[i].ts
      /\ \A t \in h : t.src = n /\ t.nth <= Count(h, n) - Len(edges) =>
           t.ts < clock - EdgeTtl \/ Count(h, n) - t.nth >= MaxEdgesPerNode
  BY DEF Follows
<1>4. \A i \in 1 .. Len(edges) :
        \E t \in h \cup {new} : /\ t.src = n /\ t.nth = Count(h, n) - Len(edges) + i
                                /\ t.dst = edges[i].dst /\ t.ts = edges[i].ts
  BY <1>3
<1>5. \A t \in h \cup {new} : t.src = n /\ t.nth <= Count(h, n) - Len(edges) =>
        t.ts < clock - EdgeTtl \/ Count(h, n) - t.nth >= MaxEdgesPerNode
  BY <1>2, <1>3
<1> QED BY <1>1, <1>3, <1>4, <1>5 DEF Follows

\* A cut to the newest keeps a suffix, as long as it may be.
LEMMA NewestFrom ==
  ASSUME NEW S, NEW edges \in Seq(S), NEW n \in Nat
  PROVE  \E d \in 0 .. Len(edges) :
           /\ Newest(edges, n) \in Seq(S) /\ Len(Newest(edges, n)) = Len(edges) - d
           /\ \A i \in 1 .. Len(edges) - d : Newest(edges, n)[i] = edges[d + i]
           /\ Len(edges) - d <= n
           /\ d > 0 => Len(edges) - d = n
<1>1. Len(edges) \in Nat /\ \A i \in 1 .. Len(edges) : edges[i] \in S
  BY LenProperties, ElementOfSeq
<1>2. CASE Len(edges) <= n
  <2>1. Newest(edges, n) = edges /\ 0 \in 0 .. Len(edges)
    BY <1>1, <1>2 DEF Newest
  <2>2. Len(edges) - 0 = Len(edges) /\ ~(0 > 0)
    BY <1>1
  <2>3. /\ Newest(edges, n) \in Seq(S) /\ Len(Newest(edges, n)) = Len(edges) - 0
        /\ \A i \in 1 .. Len(edges) - 0 : Newest(edges, n)[i] = edges[0 + i]
        /\ Len(edges) - 0 <= n
    <3>1. \A i \in 1 .. Len(edges) : 0 + i = i
      BY <1>1
    <3> QED BY <1>2, <2>1, <2>2, <3>1
  <2> QED BY <2>1, <2>2, <2>3
<1>3. CASE ~(Len(edges) <= n)
  <2> DEFINE d == Len(edges) - n
  <2>1. d \in 0 .. Len(edges) /\ d + 1 \in Int /\ Len(edges) \in Int /\ d + 1 <= Len(edges) + 1 /\ Len(edges) - d = n
        /\ Len(edges) - (d + 1) + 1 = Len(edges) - d /\ Len(edges) - n + 1 = d + 1
        /\ \A i \in d + 1 .. Len(edges) : edges[i] \in S
    BY <1>1, <1>3
  <2>2. Newest(edges, n) = SubSeq(edges, d + 1, Len(edges))
    BY <1>3, <2>1 DEF Newest
  <2> HIDE DEF d
  <2>3. /\ SubSeq(edges, d + 1, Len(edges)) \in Seq(S)
        /\ Len(SubSeq(edges, d + 1, Len(edges))) = (IF d + 1 <= Len(edges) THEN Len(edges) - (d + 1) + 1 ELSE 0)
        /\ \A i \in 1 .. Len(edges) - (d + 1) + 1 : SubSeq(edges, d + 1, Len(edges))[i] = edges[d + 1 + i - 1]
    BY <2>1, SubSeqProperties
  <2>4. (IF d + 1 <= Len(edges) THEN Len(edges) - (d + 1) + 1 ELSE 0) = Len(edges) - d
    BY <1>1, <2>1
  <2>5. \A i \in 1 .. Len(edges) - d : d + 1 + i - 1 = d + i
    BY <1>1, <2>1
  <2> QED BY <1>1, <2>1, <2>2, <2>3, <2>4, <2>5
<1> QED BY <1>2, <1>3

\* The sender's own edges, with the new one at the end and cut to MaxEdgesPerNode.
LEMMA FollowsAppended ==
  ASSUME NEW h, Numbered(h), NEW new, NextOf(h, new), NEW edges, NEW clock \in Int,
         Follows(h, new.src, edges, clock),
         NEW edge \in Edge, edge.dst = new.dst, edge.ts = new.ts
  PROVE  Follows(h \cup {new}, new.src, Newest(Append(edges, edge), MaxEdgesPerNode), clock)
<1> DEFINE more == h \cup {new}
           n == new.src
           K == Count(h, n)
           A == Append(edges, edge)
           N == Newest(A, MaxEdgesPerNode)
<1>1. /\ edges \in Seq(Edge) /\ Len(edges) \in Nat /\ Len(edges) <= K /\ K \in Nat
      /\ MaxEdgesPerNode \in Nat /\ MaxEdgesPerNode >= 1 /\ new.nth = K + 1 /\ Count(more, n) = K + 1
  <2>1. edges \in Seq(Edge) /\ Len(edges) <= K /\ new.nth = 1 + K
    BY DEF Follows, NextOf
  <2>2. Len(edges) \in Nat
    BY <2>1, LenProperties
  <2>3. K \in Nat
    BY CountFacts
  <2>4. Count(more, n) = K + 1
    BY NumberedMore
  <2>5. MaxEdgesPerNode \in Nat /\ MaxEdgesPerNode >= 1
    BY GraphAssumption
  <2> QED BY <2>1, <2>2, <2>3, <2>4, <2>5
<1>2. /\ A \in Seq(Edge) /\ Len(A) = Len(edges) + 1
      /\ (\A i \in 1 .. Len(edges) : A[i] = edges[i]) /\ A[Len(edges) + 1] = edge
  BY <1>1, AppendProperties
<1>3. \A i \in 1 .. Len(A) : \E t \in more : /\ t.src = n /\ t.nth = K - Len(edges) + i
                                             /\ t.dst = A[i].dst /\ t.ts = A[i].ts
  <2> SUFFICES ASSUME NEW i \in 1 .. Len(A)
               PROVE  \E t \in more : /\ t.src = n /\ t.nth = K - Len(edges) + i
                                      /\ t.dst = A[i].dst /\ t.ts = A[i].ts
    OBVIOUS
  <2>1. CASE i \in 1 .. Len(edges)
    <3>1. PICK t \in h : t.src = n /\ t.nth = K - Len(edges) + i /\ t.dst = edges[i].dst /\ t.ts = edges[i].ts
      BY <2>1 DEF Follows
    <3> QED BY <1>2, <2>1, <3>1
  <2>2. CASE i = Len(edges) + 1
    <3>1. K - Len(edges) + i = K + 1
      BY <1>1, <2>2
    <3> QED BY <1>1, <1>2, <2>2, <3>1
  <2> QED BY <1>1, <1>2, <2>1, <2>2
<1> HIDE DEF A
<1>4. PICK d \in 0 .. Len(A) :
           /\ N \in Seq(Edge) /\ Len(N) = Len(A) - d
           /\ \A i \in 1 .. Len(A) - d : N[i] = A[d + i]
           /\ Len(A) - d <= MaxEdgesPerNode
           /\ d > 0 => Len(A) - d = MaxEdgesPerNode
  BY <1>1, <1>2, NewestFrom
<1> HIDE DEF N
<1>5. ASSUME NEW i \in 1 .. Len(N)
      PROVE  \E t \in more : /\ t.src = n /\ t.nth = Count(more, n) - Len(N) + i
                             /\ t.dst = N[i].dst /\ t.ts = N[i].ts
  <2>1. d + i \in 1 .. Len(A) /\ i \in 1 .. Len(A) - d
    BY <1>1, <1>2, <1>4
  <2>2. PICK t \in more : t.src = n /\ t.nth = K - Len(edges) + (d + i) /\ t.dst = A[d + i].dst /\ t.ts = A[d + i].ts
    BY <1>3, <2>1
  <2>3. K - Len(edges) + (d + i) = Count(more, n) - Len(N) + i /\ N[i] = A[d + i]
    BY <1>1, <1>2, <1>4, <2>1
  <2> QED BY <2>2, <2>3
<1>6. ASSUME NEW t \in more, t.src = n, t.nth <= Count(more, n) - Len(N)
      PROVE  t.ts < clock - EdgeTtl \/ Count(more, n) - t.nth >= MaxEdgesPerNode
  <2>1. new \in Transfer /\ h \subseteq Transfer /\ t.nth \in Nat
    BY TransferTypes DEF Numbered, NextOf
  <2>2. CASE d > 0
    BY <1>1, <1>4, <1>6, <2>1, <2>2
  <2>3. CASE d = 0
    <3>1. Len(N) = Len(edges) + 1 /\ t.nth <= K - Len(edges)
      BY <1>1, <1>2, <1>4, <1>6, <2>1, <2>3
    <3>2. t \in h
      BY <1>1, <3>1
    <3>3. t.ts < clock - EdgeTtl \/ K - t.nth >= MaxEdgesPerNode
      BY <1>6, <3>1, <3>2 DEF Follows
    <3> QED BY <1>1, <2>1, <3>3
  <2> QED BY <1>4, <2>2, <2>3
<1>7. Len(N) <= MaxEdgesPerNode /\ Len(N) <= Count(more, n)
  BY <1>1, <1>2, <1>4
<1> HIDE DEF more, n
<1>8. Follows(more, n, N, clock)
  BY <1>4, <1>5, <1>6, <1>7 DEF Follows
<1> QED BY <1>8 DEF N, A, more, n

\* An edge the search follows stands for a transfer among the last of its sender; an old one has a live one before it.
LEMMA HopIsUsable ==
  ASSUME NEW h, Numbered(h), NEW n \in Nodes, NEW adj, NEW clock, Follows(h, n, adj[n], clock),
         NEW now \in Int, NEW b, Hop(adj, now, n, b)
  PROVE  \E t \in h :
           /\ t.src = n /\ t.dst = b /\ Count(h, n) - t.nth < MaxEdgesPerNode
           /\ \/ t.ts >= now - EdgeTtl
              \/ \E u \in h : u.src = t.src /\ u.nth < t.nth /\ u.ts >= now - EdgeTtl
<1> DEFINE edges == adj[n]
           E == Expired(edges, now)
           d == Dropped(edges, now)
           K == Count(h, n)
<1>1. edges \in Seq(Edge) /\ Len(edges) \in Nat /\ Len(edges) <= MaxEdgesPerNode /\ Len(edges) <= K /\ K \in Nat
  BY LenProperties, CountFacts DEF Follows
<1>2. EdgeTtl \in Nat /\ MaxEdgesPerNode \in Nat /\ \A e \in Edge : e.ts \in Int
  BY GraphAssumption DEF Edge
<1>3. /\ d \in 0 .. Len(edges)
      /\ d < Len(edges) => edges[d + 1].ts >= now - EdgeTtl
      /\ Len(E) = Len(edges) - d
      /\ \A i \in 1 .. Len(E) : E[i] = edges[d + i]
  BY <1>1, <1>2, ExpiredFrom
<1>4. \A i \in 1 .. Len(edges) :
         \E t \in h : /\ t.src = n /\ t.nth = K - Len(edges) + i
                      /\ t.dst = edges[i].dst /\ t.ts = edges[i].ts
  BY DEF Follows
<1>5. PICK i \in 1 .. Len(E) : E[i].dst = b
  BY DEF Hop
<1> HIDE DEF d, E, K, edges
<1>6. d + i \in 1 .. Len(edges) /\ d + 1 \in 1 .. Len(edges) /\ i \in Nat /\ i >= 1 /\ d < Len(edges) /\ d \in Nat
  BY <1>1, <1>3, <1>5
<1>7. PICK t \in h : t.src = n /\ t.nth = K - Len(edges) + (d + i) /\ t.dst = edges[d + i].dst /\ t.ts = edges[d + i].ts
  BY <1>4, <1>6
<1>8. PICK u \in h : u.src = n /\ u.nth = K - Len(edges) + (d + 1) /\ u.ts = edges[d + 1].ts
  BY <1>4, <1>6
<1>9. t.dst = b
  BY <1>3, <1>5, <1>7
<1>10. K - t.nth < MaxEdgesPerNode
  BY <1>1, <1>2, <1>6, <1>7
<1>11. u.ts >= now - EdgeTtl
  BY <1>3, <1>6, <1>8
<1>12. CASE i = 1
  <2>1. t.ts >= now - EdgeTtl
    BY <1>7, <1>8, <1>11, <1>12
  <2> QED BY <1>7, <1>9, <1>10, <2>1 DEF K
<1>13. CASE i # 1
  <2>1. u.nth < t.nth
    BY <1>1, <1>6, <1>7, <1>8, <1>13
  <2> QED BY <1>7, <1>8, <1>9, <1>10, <1>11, <2>1 DEF K
<1> QED BY <1>12, <1>13

\* A transfer among the last of its sender, fresh by the latest time of any call, is an edge every call still has.
LEMMA FreshIsHop ==
  ASSUME NEW h, Numbered(h), NEW n \in Nodes, NEW adj, NEW clock \in Int, Follows(h, n, adj[n], clock),
         NEW now \in Int, now <= clock,
         NEW t \in h, t.src = n, Count(h, n) - t.nth < MaxEdgesPerNode, t.ts >= clock - EdgeTtl
  PROVE  Hop(adj, now, n, t.dst)
<1> DEFINE E == Expired(adj[n], now)
           K == Count(h, n)
<1>1. Follows(h, n, E, clock)
  BY FollowsExpired
<1>2. E \in Seq(Edge) /\ Len(E) <= K /\ Len(E) \in Nat /\ K \in Nat
  BY <1>1, LenProperties, CountFacts DEF Follows
<1>3. t.nth \in Nat /\ t.ts \in Int /\ t.nth <= K /\ EdgeTtl \in Nat /\ MaxEdgesPerNode \in Nat
  BY TransferTypes, GraphAssumption DEF Numbered
<1>4. ~(t.nth <= K - Len(E))
  <2>1. t.nth <= K - Len(E) => t.ts < clock - EdgeTtl \/ K - t.nth >= MaxEdgesPerNode
    BY <1>1 DEF Follows
  <2> HIDE DEF E, K
  <2>2. ~(t.ts < clock - EdgeTtl)
    BY <1>3
  <2>3. ~(K - t.nth >= MaxEdgesPerNode)
    BY <1>2, <1>3 DEF K
  <2> QED BY <2>1, <2>2, <2>3
<1> DEFINE i == t.nth - (K - Len(E))
<1>5. i \in 1 .. Len(E) /\ K - Len(E) + i = t.nth
  BY <1>2, <1>3, <1>4
<1> HIDE DEF i
<1>6. PICK u \in h : u.src = n /\ u.nth = K - Len(E) + i /\ u.dst = E[i].dst
  BY <1>1, <1>5 DEF Follows
<1>7. u = t
  BY <1>5, <1>6 DEF Numbered
<1> QED BY <1>5, <1>6, <1>7 DEF Hop


-----------------------------------------------------------------------------
(* The arrivals, and the pass-through match *)

\* What removeIf leaves of the first n arrivals.
Keep(left, arrivals, ts, n) ==
  IF n = 0 THEN <<>>
  ELSE IF arrivals[n].ts < ts - PassWindow THEN left[n - 1]
  ELSE Append(left[n - 1], arrivals[n])

KeptOf(left, arrivals, ts, n) ==
    /\ left[n] \in Seq(Inbound) /\ Len(left[n]) <= n
    /\ \A i \in 1 .. Len(left[n]) :
         \E j \in 1 .. n : left[n][i] = arrivals[j] /\ arrivals[j].ts >= ts - PassWindow
    /\ \A j \in 1 .. n : arrivals[j].ts >= ts - PassWindow => \E i \in 1 .. Len(left[n]) : left[n][i] = arrivals[j]

\* One step of removeIf.
LEMMA KeepOne ==
  ASSUME NEW arrivals \in Seq(Inbound), NEW ts \in Int, NEW n \in 1 .. Len(arrivals), NEW left,
         KeptOf(left, arrivals, ts, n - 1), left[n] = Keep(left, arrivals, ts, n)
  PROVE  KeptOf(left, arrivals, ts, n)
<1>1. /\ n \in Nat /\ n # 0 /\ arrivals[n] \in Inbound /\ arrivals[n].ts \in Int /\ PassWindow \in Nat
      /\ \A j \in 1 .. n : j \in 1 .. n - 1 \/ j = n
  <2>1. Len(arrivals) \in Nat
    BY LenProperties
  <2>2. n \in Nat /\ n # 0 /\ arrivals[n] \in Inbound
    BY <2>1, ElementOfSeq
  <2>3. arrivals[n].ts \in Int
    BY <2>2, GraphAssumption DEF Inbound
  <2> QED BY <2>2, <2>3, GraphAssumption
<1> DEFINE old == left[n - 1]
<1>2. /\ old \in Seq(Inbound) /\ Len(old) <= n - 1
      /\ \A i \in 1 .. Len(old) : \E j \in 1 .. n - 1 : old[i] = arrivals[j] /\ arrivals[j].ts >= ts - PassWindow
      /\ \A j \in 1 .. n - 1 : arrivals[j].ts >= ts - PassWindow => \E i \in 1 .. Len(old) : old[i] = arrivals[j]
  BY DEF KeptOf
<1>3. Len(old) \in Nat
  BY <1>2, LenProperties
<1>4. CASE arrivals[n].ts < ts - PassWindow
  <2>1. left[n] = old
    BY <1>1, <1>4 DEF Keep
  <2>2. ~(arrivals[n].ts >= ts - PassWindow)
    BY <1>1, <1>4
  <2>3. \A j \in 1 .. n - 1 : j \in 1 .. n
    BY <1>1
  <2>4. Len(old) <= n
    BY <1>1, <1>2, <1>3
  <2> HIDE DEF old
  <2>5. \A i \in 1 .. Len(old) : \E j \in 1 .. n : old[i] = arrivals[j] /\ arrivals[j].ts >= ts - PassWindow
    BY <1>2, <2>3
  <2>6. \A j \in 1 .. n : arrivals[j].ts >= ts - PassWindow => \E i \in 1 .. Len(old) : old[i] = arrivals[j]
    BY <1>1, <1>2, <2>2
  <2> QED BY <1>2, <2>1, <2>4, <2>5, <2>6 DEF KeptOf
<1>5. CASE ~(arrivals[n].ts < ts - PassWindow)
  <2>1. left[n] = Append(old, arrivals[n])
    BY <1>1, <1>5 DEF Keep
  <2>2. arrivals[n].ts >= ts - PassWindow
    BY <1>1, <1>5
  <2> HIDE DEF old
  <2>3. /\ left[n] \in Seq(Inbound) /\ Len(left[n]) = Len(old) + 1
        /\ \A i \in 1 .. Len(old) : left[n][i] = old[i]
        /\ left[n][Len(old) + 1] = arrivals[n]
    BY <1>1, <1>2, <2>1, AppendProperties
  <2>4. /\ Len(left[n]) <= n /\ n \in 1 .. n /\ Len(old) + 1 \in 1 .. Len(left[n])
        /\ \A j \in 1 .. n - 1 : j \in 1 .. n
        /\ \A i \in 1 .. Len(left[n]) : i \in 1 .. Len(old) \/ i = Len(old) + 1
        /\ \A i \in 1 .. Len(old) : i \in 1 .. Len(left[n])
    BY <1>1, <1>2, <1>3, <2>3
  <2>5. \A i \in 1 .. Len(left[n]) :
          \E j \in 1 .. n : left[n][i] = arrivals[j] /\ arrivals[j].ts >= ts - PassWindow
    <3> SUFFICES ASSUME NEW i \in 1 .. Len(left[n])
                 PROVE  \E j \in 1 .. n : left[n][i] = arrivals[j] /\ arrivals[j].ts >= ts - PassWindow
      OBVIOUS
    <3>1. CASE i \in 1 .. Len(old)
      <4>1. PICK j \in 1 .. n - 1 : old[i] = arrivals[j] /\ arrivals[j].ts >= ts - PassWindow
        BY <1>2, <3>1
      <4>2. left[n][i] = old[i] /\ j \in 1 .. n
        BY <2>3, <2>4, <3>1
      <4> QED BY <4>1, <4>2
    <3>2. CASE i = Len(old) + 1
      BY <2>2, <2>3, <2>4, <3>2
    <3> QED BY <2>4, <3>1, <3>2
  <2>6. \A j \in 1 .. n : arrivals[j].ts >= ts - PassWindow => \E i \in 1 .. Len(left[n]) : left[n][i] = arrivals[j]
    <3> SUFFICES ASSUME NEW j \in 1 .. n, arrivals[j].ts >= ts - PassWindow
                 PROVE  \E i \in 1 .. Len(left[n]) : left[n][i] = arrivals[j]
      OBVIOUS
    <3>1. CASE j \in 1 .. n - 1
      <4>1. PICK i \in 1 .. Len(old) : old[i] = arrivals[j]
        BY <1>2, <3>1
      <4> QED BY <2>3, <2>4, <4>1
    <3>2. CASE j = n
      BY <2>3, <2>4, <3>2
    <3> QED BY <1>1, <3>1, <3>2
  <2> QED BY <2>3, <2>4, <2>5, <2>6 DEF KeptOf
<1> QED BY <1>4, <1>5

\* removeIf keeps exactly the arrivals inside the window.
LEMMA WindowKeeps ==
  ASSUME NEW arrivals \in Seq(Inbound), NEW ts \in Int
  PROVE  LET W == WithinWindow(arrivals, ts) IN
         /\ W \in Seq(Inbound) /\ Len(W) <= Len(arrivals)
         /\ \A i \in 1 .. Len(W) : \E j \in 1 .. Len(arrivals) : W[i] = arrivals[j] /\ arrivals[j].ts >= ts - PassWindow
         /\ \A j \in 1 .. Len(arrivals) : arrivals[j].ts >= ts - PassWindow => \E i \in 1 .. Len(W) : W[i] = arrivals[j]
<1> DEFINE L == Len(arrivals)
           Right(f, k) == \A n \in 0 .. L : n <= k => f[n] = Keep(f, arrivals, ts, n)
           Levels == {k \in Nat : \E f : f = [n \in 0 .. L |-> f[n]] /\ Right(f, k)}
<1>1. L \in Nat
  BY LenProperties
<1>2. 0 \in Levels
  <2> DEFINE f == [n \in 0 .. L |-> <<>>]
  <2>1. f = [n \in 0 .. L |-> f[n]]
    OBVIOUS
  <2>2. Right(f, 0)
    BY <1>1 DEF Keep
  <2> QED BY <2>1, <2>2
<1>3. ASSUME NEW k \in Nat, k \in Levels
      PROVE  k + 1 \in Levels
  <2>1. PICK f : f = [n \in 0 .. L |-> f[n]] /\ Right(f, k)
    BY <1>3
  <2> DEFINE g == [n \in 0 .. L |-> IF n = k + 1 THEN Keep(f, arrivals, ts, n) ELSE f[n]]
  <2>2. g = [n \in 0 .. L |-> g[n]]
    OBVIOUS
  <2>3. Right(g, k + 1)
    <3> SUFFICES ASSUME NEW n \in 0 .. L, n <= k + 1
                 PROVE  g[n] = Keep(g, arrivals, ts, n)
      OBVIOUS
    <3>1. n \in Nat /\ (n # 0 => n - 1 \in 0 .. L /\ n - 1 # k + 1)
      BY <1>1
    <3>2. n # 0 => g[n - 1] = f[n - 1]
      BY <3>1
    <3>3. Keep(g, arrivals, ts, n) = Keep(f, arrivals, ts, n)
      <4> HIDE DEF g
      <4> QED BY <3>2 DEF Keep
    <3>4. g[n] = Keep(f, arrivals, ts, n)
      <4>1. CASE n = k + 1
        BY <4>1
      <4>2. CASE n # k + 1
        <5>1. n <= k /\ g[n] = f[n]
          BY <1>1, <3>1, <4>2
        <5> QED BY <2>1, <5>1
      <4> QED BY <4>1, <4>2
    <3> QED BY <3>3, <3>4
  <2> HIDE DEF g, Right
  <2> QED BY <2>2, <2>3
<1>4. L \in Levels
  <2> HIDE DEF Levels
  <2> QED BY <1>1, <1>2, <1>3, AllNumbers
<1>5. \E f : f = [n \in 0 .. L |-> Keep(f, arrivals, ts, n)]
  <2>1. PICK f : f = [n \in 0 .. L |-> f[n]] /\ Right(f, L)
    BY <1>4
  <2>2. \A n \in 0 .. L : n <= L
    BY <1>1
  <2>3. \A n \in 0 .. L : f[n] = Keep(f, arrivals, ts, n)
    BY <2>1, <2>2
  <2>4. f = [n \in 0 .. L |-> Keep(f, arrivals, ts, n)]
    BY <2>1, <2>3
  <2> QED BY <2>4
<1> DEFINE Left == CHOOSE f : f = [n \in 0 .. L |-> Keep(f, arrivals, ts, n)]
<1>6. Left = [n \in 0 .. L |-> Keep(Left, arrivals, ts, n)]
  BY <1>5
<1>7. WithinWindow(arrivals, ts) = Left[L]
  BY DEF WithinWindow, Keep
<1> HIDE DEF Left, L
<1> DEFINE Good == {n \in Nat : n <= L => KeptOf(Left, arrivals, ts, n)}
<1>8. 0 \in Good
  <2>1. Left[0] = <<>>
    BY <1>1, <1>6 DEF Keep
  <2>2. <<>> \in Seq(Inbound) /\ Len(<<>>) = 0
    OBVIOUS
  <2>3. \A i \in 1 .. 0 : FALSE
    OBVIOUS
  <2>4. KeptOf(Left, arrivals, ts, 0)
    BY <2>1, <2>2, <2>3 DEF KeptOf
  <2> QED BY <2>4
<1>9. ASSUME NEW n \in Nat, n \in Good
      PROVE  n + 1 \in Good
  <2> SUFFICES ASSUME n + 1 <= L PROVE KeptOf(Left, arrivals, ts, n + 1)
    OBVIOUS
  <2>1. n + 1 \in 1 .. Len(arrivals) /\ n + 1 \in 0 .. L /\ n + 1 - 1 = n /\ n <= L
    BY <1>1 DEF L
  <2>2. KeptOf(Left, arrivals, ts, n + 1 - 1)
    BY <1>9, <2>1
  <2>3. Left[n + 1] = Keep(Left, arrivals, ts, n + 1)
    BY <1>6, <2>1
  <2> QED BY <2>1, <2>2, <2>3, KeepOne
<1>10. KeptOf(Left, arrivals, ts, L)
  <2>1. L \in Good
    <3> HIDE DEF Good
    <3> QED BY <1>1, <1>8, <1>9, AllNumbers
  <2>2. L <= L
    BY <1>1
  <2> QED BY <2>1, <2>2
<1> QED BY <1>7, <1>10 DEF KeptOf, L


Deeper(depth) == IF depth + 1 < MaxChainDepth THEN depth + 1 ELSE MaxChainDepth

\* The match has a depth exactly if some arrival is matched, and then the depth and sender of one of those.
LEMMA MatchIs ==
  ASSUME NEW arrivals \in Seq(Inbound), NEW amount, NEW ts \in Int
  PROVE  LET pass == PassThrough(arrivals, amount, ts) IN
         /\ pass.depth \in 0 .. MaxChainDepth
         /\ pass.depth > 0 =>
              \E i \in 1 .. Len(arrivals) :
                /\ arrivals[i].ts <= ts /\ InBand(amount, arrivals[i].amount)
                /\ pass.from = {arrivals[i].src} /\ pass.depth = Deeper(arrivals[i].depth)
         /\ (\E i \in 1 .. Len(arrivals) : arrivals[i].ts <= ts /\ InBand(amount, arrivals[i].amount)) => pass.depth > 0
<1> DEFINE past == {i \in DOMAIN arrivals : arrivals[i].ts <= ts}
           matching == {i \in past : InBand(amount, arrivals[i].amount)}
           candidates == IF matching = {} THEN past ELSE matching
           at == CHOOSE i \in candidates : \A j \in candidates : j <= i
           pass == PassThrough(arrivals, amount, ts)
<1>1. /\ Len(arrivals) \in Nat /\ DOMAIN arrivals = 1 .. Len(arrivals) /\ MaxChainDepth \in Nat /\ MaxChainDepth >= 1
  BY LenProperties, GraphAssumption
<1>2. \A i \in 1 .. Len(arrivals) : arrivals[i].depth \in 0 .. MaxChainDepth
  <2>1. \A a \in Inbound : a.depth \in 0 .. MaxChainDepth
    BY DEF Inbound
  <2>2. \A i \in 1 .. Len(arrivals) : arrivals[i] \in Inbound
    BY ElementOfSeq
  <2> QED BY <2>1, <2>2
<1>3. past = {} => pass.depth = 0
  BY DEF PassThrough, NoInbound
<1>4. past # {} => /\ pass.from = {arrivals[at].src}
                   /\ pass.depth = IF matching = {} THEN 0 ELSE Deeper(arrivals[at].depth)
  <2>1. pass = IF past = {} THEN NoInbound
               ELSE [from |-> {arrivals[at].src}, amount |-> arrivals[at].amount, secs |-> ts - arrivals[at].ts,
                     depth |-> IF matching = {} THEN 0 ELSE Deeper(arrivals[at].depth)]
    BY DEF PassThrough, Deeper
  <2> HIDE DEF past, matching, at, pass
  <2> QED BY <2>1
<1>5. matching # {} => at \in matching
  <2>1. matching \in SUBSET (0 .. Len(arrivals))
    BY <1>1
  <2>2. matching # {} => \E i \in matching : \A j \in matching : j <= i
    <3> HIDE DEF matching
    <3> QED BY <1>1, <2>1, LargestUpTo
  <2>3. matching # {} => candidates = matching
    OBVIOUS
  <2> HIDE DEF matching, candidates
  <2> QED BY <2>2, <2>3
<1>6. matching \subseteq past
  OBVIOUS
<1>7. \A i \in matching : i \in 1 .. Len(arrivals) /\ arrivals[i].ts <= ts /\ InBand(amount, arrivals[i].amount)
  BY <1>1
<1>8. (\E i \in 1 .. Len(arrivals) : arrivals[i].ts <= ts /\ InBand(amount, arrivals[i].amount)) => matching # {}
  BY <1>1
<1>9. \A i \in 1 .. Len(arrivals) : Deeper(arrivals[i].depth) \in 1 .. MaxChainDepth
  BY <1>1, <1>2 DEF Deeper
<1> HIDE DEF past, matching, at, pass
<1>10. CASE matching = {}
  <2>1. pass.depth = 0
    BY <1>3, <1>4, <1>10
  <2> QED BY <1>1, <1>8, <1>10, <2>1 DEF pass
<1>11. CASE matching # {}
  <2>1. past # {} /\ at \in matching
    BY <1>5, <1>6, <1>11
  <2>2. pass.from = {arrivals[at].src} /\ pass.depth = Deeper(arrivals[at].depth)
    BY <1>4, <1>11, <2>1
  <2>3. pass.depth \in 0 .. MaxChainDepth /\ pass.depth > 0
    BY <1>1, <1>7, <1>9, <2>1, <2>2
  <2> QED BY <1>7, <2>1, <2>2, <2>3 DEF pass
<1> QED BY <1>10, <1>11

ReceivedBy(h, n) == {t \in h : t.dst = n}
Stands(a, t) == a.src = t.src /\ a.amount = t.amount /\ a.ts = t.ts /\ a.depth = t.depth

\* The arrivals of n are transfers to it, and all of those inside the window while the cap was not reached.
Arrives(h, n, arrivals, clock) ==
    /\ arrivals \in Seq(Inbound) /\ Len(arrivals) <= Cardinality(ReceivedBy(h, n))
    /\ \A i \in 1 .. Len(arrivals) : \E t \in h : t.dst = n /\ Stands(arrivals[i], t)
    /\ Cardinality(ReceivedBy(h, n)) <= MaxEdgesPerNode =>
         \A t \in h : t.dst = n /\ t.ts >= clock - PassWindow =>
           \E i \in 1 .. Len(arrivals) : Stands(arrivals[i], t)

\* A later clock asks no more of the arrivals.
LEMMA ArrivesLater ==
  ASSUME NEW h, Numbered(h), NEW n, NEW arrivals, NEW clock \in Int, Arrives(h, n, arrivals, clock),
         NEW later \in Int, clock <= later
  PROVE  Arrives(h, n, arrivals, later)
<1>1. PassWindow \in Nat /\ \A t \in h : t.ts \in Int
  BY GraphAssumption, TransferTypes DEF Numbered
<1>2. \A t \in h : t.ts >= later - PassWindow => t.ts >= clock - PassWindow
  BY <1>1
<1> QED BY <1>2 DEF Arrives

\* The window of a call not after the clock takes only arrivals outside the window of the clock.
LEMMA ArrivesWithin ==
  ASSUME NEW h, Numbered(h), NEW n, NEW arrivals, NEW clock \in Int, Arrives(h, n, arrivals, clock),
         NEW ts \in Int, ts <= clock
  PROVE  Arrives(h, n, WithinWindow(arrivals, ts), clock)
<1> DEFINE W == WithinWindow(arrivals, ts)
           R == Cardinality(ReceivedBy(h, n))
<1>1. PassWindow \in Nat /\ \A t \in h : t.ts \in Int
  BY GraphAssumption, TransferTypes DEF Numbered
<1>2. arrivals \in Seq(Inbound) /\ Len(arrivals) <= R /\ Len(arrivals) \in Nat
  BY LenProperties DEF Arrives
<1>3. /\ W \in Seq(Inbound) /\ Len(W) <= Len(arrivals)
      /\ \A i \in 1 .. Len(W) : \E j \in 1 .. Len(arrivals) : W[i] = arrivals[j] /\ arrivals[j].ts >= ts - PassWindow
      /\ \A j \in 1 .. Len(arrivals) : arrivals[j].ts >= ts - PassWindow => \E i \in 1 .. Len(W) : W[i] = arrivals[j]
  BY <1>2, WindowKeeps
<1> HIDE DEF W
<1>4. Len(W) <= R
  <2>1. R \in Nat
    <3>1. ReceivedBy(h, n) \in SUBSET h /\ IsFiniteSet(h)
      BY DEF ReceivedBy, Numbered
    <3> QED BY <3>1, FS_Subset, FS_CardinalityType
  <2>2. Len(W) \in Nat
    BY <1>3, LenProperties
  <2> HIDE DEF R
  <2> QED BY <1>2, <1>3, <2>1, <2>2
<1>5. ASSUME NEW i \in 1 .. Len(W) PROVE \E t \in h : t.dst = n /\ Stands(W[i], t)
  <2>1. PICK j \in 1 .. Len(arrivals) : W[i] = arrivals[j]
    BY <1>3
  <2>2. PICK t \in h : t.dst = n /\ Stands(arrivals[j], t)
    BY DEF Arrives
  <2> QED BY <2>1, <2>2
<1>6. ASSUME R <= MaxEdgesPerNode, NEW t \in h, t.dst = n, t.ts >= clock - PassWindow
      PROVE  \E i \in 1 .. Len(W) : Stands(W[i], t)
  <2>1. PICK j \in 1 .. Len(arrivals) : Stands(arrivals[j], t)
    BY <1>6 DEF Arrives
  <2>2. arrivals[j].ts >= ts - PassWindow
    <3>1. arrivals[j].ts = t.ts
      BY <2>1 DEF Stands
    <3> QED BY <1>1, <1>6, <3>1
  <2>3. PICK i \in 1 .. Len(W) : W[i] = arrivals[j]
    BY <1>3, <2>2
  <2> QED BY <2>1, <2>3
<1> QED BY <1>3, <1>4, <1>5, <1>6 DEF Arrives, W

\* A transfer to somebody else.
LEMMA ArrivesOthers ==
  ASSUME NEW h, NEW new, NEW n, n # new.dst, NEW arrivals, NEW clock, Arrives(h, n, arrivals, clock)
  PROVE  Arrives(h \cup {new}, n, arrivals, clock)
<1>1. ReceivedBy(h \cup {new}, n) = ReceivedBy(h, n)
  BY DEF ReceivedBy
<1>2. \A i \in 1 .. Len(arrivals) : \E t \in h \cup {new} : t.dst = n /\ Stands(arrivals[i], t)
  BY DEF Arrives
<1> QED BY <1>1, <1>2 DEF Arrives

\* A transfer to this account, appended and cut to MaxEdgesPerNode.
LEMMA ArrivesAppended ==
  ASSUME NEW h, Numbered(h), NEW new, NextOf(h, new), NEW arrivals, NEW clock, Arrives(h, new.dst, arrivals, clock),
         NEW arrival \in Inbound, Stands(arrival, new)
  PROVE  Arrives(h \cup {new}, new.dst, Newest(Append(arrivals, arrival), MaxEdgesPerNode), clock)
<1> DEFINE more == h \cup {new}
           n == new.dst
           R == Cardinality(ReceivedBy(h, n))
           A == Append(arrivals, arrival)
           N == Newest(A, MaxEdgesPerNode)
<1>1. arrivals \in Seq(Inbound) /\ Len(arrivals) <= R /\ Len(arrivals) \in Nat /\ MaxEdgesPerNode \in Nat
  BY LenProperties, GraphAssumption DEF Arrives
<1>2. R \in Nat /\ Cardinality(ReceivedBy(more, n)) = R + 1
  <2>1. ReceivedBy(h, n) \in SUBSET h /\ IsFiniteSet(h)
    BY DEF ReceivedBy, Numbered
  <2>2. IsFiniteSet(ReceivedBy(h, n))
    BY <2>1, FS_Subset
  <2>3. new \notin h
    BY NumberedMore
  <2>4. ReceivedBy(more, n) = ReceivedBy(h, n) \cup {new} /\ new \notin ReceivedBy(h, n)
    BY <2>3 DEF ReceivedBy
  <2> HIDE DEF more, n
  <2>5. Cardinality(ReceivedBy(more, n)) = R + 1
    BY <2>2, <2>4, FS_AddElement
  <2> QED BY <2>2, <2>5, FS_CardinalityType
<1>3. /\ A \in Seq(Inbound) /\ Len(A) = Len(arrivals) + 1
      /\ (\A i \in 1 .. Len(arrivals) : A[i] = arrivals[i]) /\ A[Len(arrivals) + 1] = arrival
  BY <1>1, AppendProperties
<1>4. ASSUME NEW i \in 1 .. Len(A) PROVE \E t \in more : t.dst = n /\ Stands(A[i], t)
  <2>1. CASE i \in 1 .. Len(arrivals)
    <3>1. PICK t \in h : t.dst = n /\ Stands(arrivals[i], t)
      BY <2>1 DEF Arrives
    <3> QED BY <1>3, <2>1, <3>1
  <2>2. CASE i = Len(arrivals) + 1
    BY <1>3, <2>2
  <2> QED BY <1>1, <1>3, <2>1, <2>2
<1> HIDE DEF A
<1>5. PICK d \in 0 .. Len(A) :
           /\ N \in Seq(Inbound) /\ Len(N) = Len(A) - d
           /\ \A i \in 1 .. Len(A) - d : N[i] = A[d + i]
           /\ Len(A) - d <= MaxEdgesPerNode
           /\ d > 0 => Len(A) - d = MaxEdgesPerNode
  BY <1>1, <1>3, NewestFrom
<1>6. N \in Seq(Inbound) /\ Len(N) <= Cardinality(ReceivedBy(more, n))
  <2> HIDE DEF N, R, more, n
  <2> QED BY <1>1, <1>2, <1>3, <1>5
<1>7. ASSUME NEW i \in 1 .. Len(N) PROVE \E t \in more : t.dst = n /\ Stands(N[i], t)
  <2>1. d + i \in 1 .. Len(A) /\ i \in 1 .. Len(A) - d
    <3> HIDE DEF N
    <3> QED BY <1>1, <1>3, <1>5
  <2>2. N[i] = A[d + i]
    <3> HIDE DEF N
    <3> QED BY <1>5, <2>1
  <2> QED BY <1>4, <2>1, <2>2
<1>8. ASSUME Cardinality(ReceivedBy(more, n)) <= MaxEdgesPerNode,
             NEW t \in more, t.dst = n, t.ts >= clock - PassWindow
      PROVE  \E i \in 1 .. Len(N) : Stands(N[i], t)
  <2>1. N = A
    <3>1. Len(A) <= MaxEdgesPerNode
      <4> HIDE DEF R, more, n
      <4> QED BY <1>1, <1>2, <1>3, <1>8
    <3> QED BY <3>1 DEF Newest
  <2>2. CASE t = new
    <3>1. Len(arrivals) + 1 \in 1 .. Len(A)
      BY <1>1, <1>3
    <3> QED BY <1>3, <2>1, <2>2, <3>1
  <2>3. CASE t \in h
    <3>1. R <= MaxEdgesPerNode
      <4> HIDE DEF R, more, n
      <4> QED BY <1>1, <1>2, <1>8
    <3>2. PICK i \in 1 .. Len(arrivals) : Stands(arrivals[i], t)
      BY <1>8, <2>3, <3>1 DEF Arrives
    <3>3. i \in 1 .. Len(A) /\ A[i] = arrivals[i]
      BY <1>1, <1>3
    <3> QED BY <2>1, <3>2, <3>3
  <2> QED BY <1>8, <2>2, <2>3
<1> HIDE DEF N, more, n
<1>9. Arrives(more, n, N, clock)
  BY <1>6, <1>7, <1>8 DEF Arrives
<1> QED BY <1>9 DEF N, A, more, n


-----------------------------------------------------------------------------
(* The invariant *)

GraphTypes ==
    /\ adjacency \in Adjacency
    /\ inbound \in [Nodes -> Seq(Inbound)]
    /\ newest \in Int
    /\ Numbered(history)

GraphInvariant ==
    /\ GraphTypes
    /\ \A n \in Nodes : Follows(history, n, adjacency[n], newest)
    /\ \A n \in Nodes : Arrives(history, n, inbound[n], newest)

\* What is assumed of the parameters, for arithmetic.
LEMMA Constants ==
  /\ Amounts \subseteq Nat \ {0} /\ Times \subseteq Int
  /\ MaxEdgesPerNode \in Nat /\ MaxEdgesPerNode >= 1 /\ EdgeTtl \in Nat /\ PassWindow \in Nat
  /\ MaxCycleDepth \in Nat /\ MaxTransfers \in Nat /\ MaxChainDepth \in Nat /\ MaxChainDepth >= 1
<1> QED BY GraphAssumption

\* The empty graph follows the empty history.
LEMMA StartsInvariant == Init => GraphInvariant
<1> SUFFICES ASSUME Init PROVE GraphInvariant
  OBVIOUS
<1>1. /\ adjacency = [n \in Nodes |-> <<>>] /\ inbound = [n \in Nodes |-> <<>>] /\ history = {}
      /\ newest \in Times
  BY DEF Init
<1>2. \A n : ReceivedBy({}, n) = {} /\ SentBy({}, n) = {}
  BY DEF ReceivedBy, SentBy
<1>3. \A n : Count({}, n) = 0 /\ Cardinality(ReceivedBy({}, n)) = 0 /\ IsFiniteSet({})
  BY <1>2, FS_EmptySet DEF Count
<1>4. <<>> \in Seq(Edge) /\ <<>> \in Seq(Inbound) /\ Len(<<>>) = 0 /\ 1 .. 0 = {}
  OBVIOUS
<1>5. GraphTypes
  <2>1. Numbered({})
    BY <1>3, <1>4 DEF Numbered
  <2>2. newest \in Int
    BY <1>1, Constants
  <2>3. adjacency \in Adjacency /\ inbound \in [Nodes -> Seq(Inbound)]
    BY <1>1, <1>4 DEF Adjacency
  <2> QED BY <1>1, <2>1, <2>2, <2>3 DEF GraphTypes
<1>6. ASSUME NEW n \in Nodes PROVE Follows(history, n, adjacency[n], newest) /\ Arrives(history, n, inbound[n], newest)
  <2>1. adjacency[n] = <<>> /\ inbound[n] = <<>>
    BY <1>1
  <2>2. 0 <= MaxEdgesPerNode
    BY Constants
  <2>3. Follows({}, n, <<>>, newest)
    BY <1>3, <1>4, <2>2 DEF Follows
  <2>4. Arrives({}, n, <<>>, newest)
    BY <1>3, <1>4 DEF Arrives
  <2> QED BY <1>1, <2>1, <2>3, <2>4
<1> QED BY <1>5, <1>6 DEF GraphInvariant

\* Trimming the edges a call touches, at a time not after the clock, changes nothing that matters.
LEMMA TrimmedFollows ==
  ASSUME NEW h, Numbered(h), NEW adj \in Adjacency, NEW clock \in Int, NEW touched, NEW now \in Int, now <= clock,
         \A n \in Nodes : Follows(h, n, adj[n], clock)
  PROVE  /\ Trimmed(adj, touched, now) \in Adjacency
         /\ \A n \in Nodes : Follows(h, n, Trimmed(adj, touched, now)[n], clock)
<1>1. \A n \in Nodes : Trimmed(adj, touched, now)[n] = IF n \in touched THEN Expired(adj[n], now) ELSE adj[n]
  BY DEF Trimmed
<1>2. \A n \in Nodes : Follows(h, n, Expired(adj[n], now), clock)
  BY FollowsExpired
<1>3. \A n \in Nodes : Follows(h, n, Trimmed(adj, touched, now)[n], clock)
  BY <1>1, <1>2
<1>4. \A n \in Nodes : Trimmed(adj, touched, now)[n] \in Seq(Edge)
  BY <1>3 DEF Follows
<1>5. Trimmed(adj, touched, now) \in Adjacency
  BY <1>4 DEF Trimmed, Adjacency
<1> QED BY <1>3, <1>5

\* A call that adds nothing: it only trims edges and moves the clock.
LEMMA ReadKeepsInvariant ==
  ASSUME GraphInvariant, NEW touched, NEW now \in Times,
         adjacency' = Trimmed(adjacency, touched, now), Clock(now), UNCHANGED <<inbound, history>>
  PROVE  GraphInvariant'
<1>1. /\ adjacency \in Adjacency /\ inbound \in [Nodes -> Seq(Inbound)] /\ newest \in Int /\ Numbered(history) /\ now \in Int
      /\ \A n \in Nodes : Follows(history, n, adjacency[n], newest) /\ Arrives(history, n, inbound[n], newest)
  BY Constants DEF GraphInvariant, GraphTypes
<1>2. newest' \in Int /\ newest <= newest' /\ now <= newest'
  BY <1>1 DEF Clock
<1>3. \A n \in Nodes : Follows(history, n, adjacency[n], newest') /\ Arrives(history, n, inbound[n], newest')
  BY <1>1, <1>2, FollowsLater, ArrivesLater
<1>4. adjacency' \in Adjacency /\ \A n \in Nodes : Follows(history, n, adjacency'[n], newest')
  BY <1>1, <1>2, <1>3, TrimmedFollows
<1> QED BY <1>1, <1>2, <1>3, <1>4 DEF GraphInvariant, GraphTypes


-----------------------------------------------------------------------------
(* addEdge, step by step *)

PassOf(src, amount, ts) == PassThrough(WithinWindow(inbound[src], ts), amount, ts)

AddedOf(src, dst, amount, ts) ==
  [adjacency EXCEPT ![src] = Newest(Append(Expired(@, ts), [dst |-> dst, ts |-> ts, depth |-> PassOf(src, amount, ts).depth]),
                                    MaxEdgesPerNode)]

ArrivalOf(src, amount, ts) == [src |-> src, amount |-> amount, ts |-> ts, depth |-> PassOf(src, amount, ts).depth]

NewOf(src, dst, amount, ts) ==
  [src |-> src, dst |-> dst, amount |-> amount, ts |-> ts, depth |-> PassOf(src, amount, ts).depth,
   nth |-> 1 + Cardinality({t \in history : t.src = src})]

\* What addEdge writes.
LEMMA AddEdgeIs ==
  ASSUME NEW src, NEW dst, NEW amount, NEW ts, AddEdge(src, dst, amount, ts)
  PROVE  LET added == AddedOf(src, dst, amount, ts)
             new == NewOf(src, dst, amount, ts)
             search == FindCycle(added, src, dst, ts)
         IN /\ src # dst /\ Cardinality(history) < MaxTransfers
            /\ adjacency' = Trimmed(added, search.touched \cup {src}, ts)
            /\ inbound' = [inbound EXCEPT ![src] = WithinWindow(inbound[src], ts),
                                          ![dst] = Newest(Append(@, ArrivalOf(src, amount, ts)), MaxEdgesPerNode)]
            /\ history' = history \cup {new}
            /\ newest' = IF ts > newest THEN ts ELSE newest
<1>1. src # dst /\ Cardinality(history) < MaxTransfers
  BY DEF AddEdge
<1>2. adjacency' = Trimmed(AddedOf(src, dst, amount, ts),
                           FindCycle(AddedOf(src, dst, amount, ts), src, dst, ts).touched \cup {src}, ts)
  BY DEF AddEdge, AddedOf, PassOf
<1>3. inbound' = [inbound EXCEPT ![src] = WithinWindow(inbound[src], ts),
                                 ![dst] = Newest(Append(@, ArrivalOf(src, amount, ts)), MaxEdgesPerNode)]
  BY DEF AddEdge, ArrivalOf, PassOf
<1>4. history' = history \cup {NewOf(src, dst, amount, ts)}
  BY DEF AddEdge, NewOf, PassOf
<1>5. newest' = IF ts > newest THEN ts ELSE newest
  BY DEF AddEdge, Clock
<1> QED BY <1>1, <1>2, <1>3, <1>4, <1>5

\* What the check sees.
LEMMA AddEdgeSees ==
  ASSUME NEW src, NEW dst, NEW amount, NEW ts, AddEdge(src, dst, amount, ts)
  PROVE  /\ last'.src = {src} /\ last'.dst = dst /\ last'.amount = amount /\ last'.ts = ts
         /\ last'.nth = NewOf(src, dst, amount, ts).nth
         /\ last'.view.cycle = FindCycle(AddedOf(src, dst, amount, ts), src, dst, ts).cycle
         /\ last'.view.pass = PassOf(src, amount, ts)
<1> DEFINE pass == PassOf(src, amount, ts)
           nth == 1 + Cardinality({t \in history : t.src = src})
           view == View(AddedOf(src, dst, amount, ts), Union(components, src, dst), src, ts,
                        FindCycle(AddedOf(src, dst, amount, ts), src, dst, ts).cycle, pass)
<1>1. last' = [src |-> {src}, dst |-> dst, amount |-> amount, ts |-> ts, nth |-> nth, view |-> view]
  BY DEF AddEdge, AddedOf, PassOf
<1>2. view.cycle = FindCycle(AddedOf(src, dst, amount, ts), src, dst, ts).cycle /\ view.pass = pass
  BY DEF View
<1>3. NewOf(src, dst, amount, ts).nth = nth
  BY DEF NewOf
<1> HIDE DEF view, nth, pass
<1>4. /\ last'.src = {src} /\ last'.dst = dst /\ last'.amount = amount /\ last'.ts = ts /\ last'.nth = nth
      /\ last'.view = view
  BY <1>1
<1> QED BY <1>2, <1>3, <1>4 DEF pass

\* What the check looks at: the edges with the new one, before the search trims them.
LEMMA AddEdgeFollows ==
  ASSUME GraphInvariant, NEW src \in Nodes, NEW dst \in Nodes, NEW amount \in Amounts, NEW ts \in Times,
         AddEdge(src, dst, amount, ts)
  PROVE  LET added == AddedOf(src, dst, amount, ts)
             new == NewOf(src, dst, amount, ts)
         IN /\ NextOf(history, new) /\ Numbered(history')
            /\ newest' \in Int /\ newest <= newest' /\ ts <= newest'
            /\ added \in Adjacency /\ \A n \in Nodes : Follows(history', n, added[n], newest')
            /\ ArrivalOf(src, amount, ts) \in Inbound
<1> DEFINE pass == PassOf(src, amount, ts)
           added == AddedOf(src, dst, amount, ts)
           new == NewOf(src, dst, amount, ts)
           edge == [dst |-> dst, ts |-> ts, depth |-> pass.depth]
<1>1. /\ adjacency \in Adjacency /\ inbound \in [Nodes -> Seq(Inbound)] /\ newest \in Int /\ Numbered(history) /\ ts \in Int
      /\ \A n \in Nodes : Follows(history, n, adjacency[n], newest)
  BY Constants DEF GraphInvariant, GraphTypes
<1>2. history' = history \cup {new} /\ newest' = (IF ts > newest THEN ts ELSE newest) /\ Cardinality(history) < MaxTransfers
  BY AddEdgeIs
<1>3. newest' \in Int /\ newest <= newest' /\ ts <= newest'
  BY <1>1, <1>2
<1>4. pass.depth \in 0 .. MaxChainDepth
  <2>1. inbound[src] \in Seq(Inbound)
    BY <1>1
  <2>2. WithinWindow(inbound[src], ts) \in Seq(Inbound)
    BY <1>1, <2>1, WindowKeeps
  <2> QED BY <1>1, <2>2, MatchIs DEF PassOf
<1> HIDE DEF pass
<1>5. new.src = src /\ new.dst = dst /\ new.ts = ts
  BY DEF NewOf
<1>6. NextOf(history, new)
  <2> DEFINE K == Count(history, src)
  <2>1. K = Cardinality({t \in history : t.src = src})
    BY DEF Count, SentBy
  <2>2. K \in Nat /\ K <= Cardinality(history) /\ Cardinality(history) \in Nat
    BY <1>1, CountFacts, FS_CardinalityType DEF Numbered
  <2> HIDE DEF K
  <2>3. 1 + K \in 1 .. MaxTransfers
    BY <1>2, <2>2, Constants
  <2>4. new = [src |-> src, dst |-> dst, amount |-> amount, ts |-> ts, depth |-> pass.depth, nth |-> 1 + K]
    BY <2>1 DEF NewOf, pass
  <2> HIDE DEF new
  <2>5. new \in Transfer
    BY <1>4, <2>3, <2>4 DEF Transfer
  <2>6. new.src = src /\ new.nth = 1 + K
    BY <2>4
  <2> QED BY <2>5, <2>6 DEF NextOf, K
<1>7. Numbered(history')
  BY <1>1, <1>2, <1>6, NumberedMore
<1>8. edge \in Edge /\ edge.dst = new.dst /\ edge.ts = new.ts
  BY <1>4, <1>5 DEF Edge
<1>9. ArrivalOf(src, amount, ts) \in Inbound
  BY <1>4 DEF ArrivalOf, Inbound, pass
<1>10. \A n \in Nodes : added[n] = IF n = src THEN Newest(Append(Expired(adjacency[src], ts), edge), MaxEdgesPerNode)
                                   ELSE adjacency[n]
  BY <1>1 DEF AddedOf, Adjacency, pass
<1>11. \A n \in Nodes : Follows(history, n, adjacency[n], newest')
  BY <1>1, <1>3, FollowsLater
<1>12. Follows(history', src, added[src], newest')
  <2>1. Follows(history, src, Expired(adjacency[src], ts), newest')
    BY <1>1, <1>3, <1>11, FollowsExpired
  <2> HIDE DEF new, edge, added
  <2>2. Follows(history \cup {new}, src, Newest(Append(Expired(adjacency[src], ts), edge), MaxEdgesPerNode), newest')
    BY <1>1, <1>3, <1>5, <1>6, <1>8, <2>1, FollowsAppended
  <2> QED BY <1>2, <1>10, <2>2
<1> HIDE DEF new, edge, added
<1>13. ASSUME NEW n \in Nodes, n # src PROVE Follows(history', n, added[n], newest')
  <2>1. Follows(history \cup {new}, n, adjacency[n], newest')
    BY <1>1, <1>5, <1>6, <1>11, <1>13, FollowsOthers
  <2> QED BY <1>2, <1>10, <1>13, <2>1
<1>14. \A n \in Nodes : Follows(history', n, added[n], newest')
  BY <1>12, <1>13
<1>15. added \in Adjacency
  <2>1. \A n \in Nodes : added[n] \in Seq(Edge)
    BY <1>14 DEF Follows
  <2>2. added = [n \in Nodes |-> added[n]]
    BY <1>1 DEF added, AddedOf, Adjacency
  <2> QED BY <2>1, <2>2 DEF Adjacency
<1> QED BY <1>3, <1>6, <1>7, <1>9, <1>14, <1>15 DEF new, added

\* addEdge keeps the invariant.
LEMMA AddEdgeKeepsInvariant ==
  ASSUME GraphInvariant, NEW src \in Nodes, NEW dst \in Nodes, NEW amount \in Amounts, NEW ts \in Times,
         AddEdge(src, dst, amount, ts)
  PROVE  GraphInvariant'
<1> DEFINE added == AddedOf(src, dst, amount, ts)
           new == NewOf(src, dst, amount, ts)
           arrival == ArrivalOf(src, amount, ts)
           W == WithinWindow(inbound[src], ts)
<1>1. /\ NextOf(history, new) /\ Numbered(history')
      /\ newest' \in Int /\ newest <= newest' /\ ts <= newest'
      /\ added \in Adjacency /\ \A n \in Nodes : Follows(history', n, added[n], newest')
      /\ arrival \in Inbound
  BY AddEdgeFollows
<1>2. /\ src # dst /\ history' = history \cup {new}
      /\ adjacency' = Trimmed(added, FindCycle(added, src, dst, ts).touched \cup {src}, ts)
      /\ inbound' = [inbound EXCEPT ![src] = W, ![dst] = Newest(Append(@, arrival), MaxEdgesPerNode)]
  BY AddEdgeIs
<1>3. /\ inbound \in [Nodes -> Seq(Inbound)] /\ newest \in Int /\ Numbered(history) /\ ts \in Int
      /\ \A n \in Nodes : Arrives(history, n, inbound[n], newest)
  BY Constants DEF GraphInvariant, GraphTypes
<1>4. Stands(arrival, new) /\ new.dst = dst
  BY DEF ArrivalOf, NewOf, Stands
<1>5. \A n \in Nodes : inbound'[n] = IF n = src THEN W
                                     ELSE IF n = dst THEN Newest(Append(inbound[dst], arrival), MaxEdgesPerNode)
                                     ELSE inbound[n]
  BY <1>2, <1>3
<1> HIDE DEF added, new, arrival, W
<1>6. adjacency' \in Adjacency /\ \A n \in Nodes : Follows(history', n, adjacency'[n], newest')
  <2> DEFINE touched == FindCycle(added, src, dst, ts).touched \cup {src}
  <2>1. adjacency' = Trimmed(added, touched, ts)
    BY <1>2
  <2> HIDE DEF touched
  <2> QED BY <1>1, <1>3, <2>1, TrimmedFollows
<1>7. \A n \in Nodes : Arrives(history, n, inbound[n], newest')
  BY <1>1, <1>3, ArrivesLater
<1>8. Arrives(history', src, inbound'[src], newest')
  <2>1. Arrives(history, src, W, newest')
    BY <1>1, <1>3, <1>7, ArrivesWithin DEF W
  <2>2. Arrives(history \cup {new}, src, W, newest')
    BY <1>2, <1>4, <2>1, ArrivesOthers
  <2> QED BY <1>2, <1>5, <2>2
<1>9. Arrives(history', dst, inbound'[dst], newest')
  <2>1. Arrives(history \cup {new}, new.dst, Newest(Append(inbound[dst], arrival), MaxEdgesPerNode), newest')
    BY <1>1, <1>3, <1>4, <1>7, ArrivesAppended
  <2> QED BY <1>2, <1>4, <1>5, <2>1
<1>10. ASSUME NEW n \in Nodes, n # src, n # dst PROVE Arrives(history', n, inbound'[n], newest')
  <2>1. Arrives(history \cup {new}, n, inbound[n], newest')
    BY <1>4, <1>7, <1>10, ArrivesOthers
  <2> QED BY <1>2, <1>5, <1>10, <2>1
<1>11. \A n \in Nodes : Arrives(history', n, inbound'[n], newest')
  BY <1>8, <1>9, <1>10
<1>12. inbound' \in [Nodes -> Seq(Inbound)]
  <2>1. \A n \in Nodes : inbound'[n] \in Seq(Inbound)
    BY <1>11 DEF Arrives
  <2>2. inbound' = [n \in Nodes |-> inbound'[n]]
    BY <1>2, <1>3
  <2> QED BY <2>1, <2>2
<1> QED BY <1>1, <1>6, <1>11, <1>12 DEF GraphInvariant, GraphTypes


-----------------------------------------------------------------------------
(* Rings *)

\* The place after the last is the first.
LEMMA Around ==
  ASSUME NEW n \in Nat, n >= 1, NEW i \in 1 .. n
  PROVE  1 + (i % n) = IF i = n THEN 1 ELSE i + 1
<1>1. CASE i = n
  <2>1. n % n = 0
    OBVIOUS
  <2> QED BY <1>1, <2>1
<1>2. CASE i # n
  <2>1. i \in 0 .. n - 1
    BY <1>2
  <2>2. i % n = i
    BY <2>1
  <2> QED BY <1>2, <2>2
<1> QED BY <1>1, <1>2

\* A ring, place by place.
LEMMA RingIs ==
  ASSUME NEW src, NEW dst, NEW pairs, NEW p
  PROVE  p \in Rings(2, src, dst, pairs) <=>
           /\ p \in Paths /\ p[1] = src /\ p[2] = dst /\ Distinct(p)
           /\ \A i \in 1 .. Len(p) - 1 : <<p[i], p[i + 1]>> \in pairs
           /\ <<p[Len(p)], p[1]>> \in pairs
<1>1. p \in Rings(2, src, dst, pairs) <=>
         /\ p \in Paths /\ p[1] = src /\ p[2] = dst
         /\ \A i, j \in DOMAIN p : p[i] = p[j] => i = j
         /\ \A i \in DOMAIN p : <<p[i], p[1 + (i % Len(p))]>> \in pairs
  BY DEF Rings, Paths
<1> SUFFICES ASSUME p \in Paths
             PROVE  (\A i \in DOMAIN p : <<p[i], p[1 + (i % Len(p))]>> \in pairs) <=>
                      /\ \A i \in 1 .. Len(p) - 1 : <<p[i], p[i + 1]>> \in pairs
                      /\ <<p[Len(p)], p[1]>> \in pairs
  <2>1. p \in Paths => DOMAIN p = 1 .. Len(p)
    BY PathFacts, LenProperties
  <2> QED BY <1>1, <2>1 DEF Distinct
<1>2. Len(p) \in Nat /\ Len(p) >= 1 /\ DOMAIN p = 1 .. Len(p)
  BY PathFacts, LenProperties
<1>3. \A i \in 1 .. Len(p) : 1 + (i % Len(p)) = IF i = Len(p) THEN 1 ELSE i + 1
  BY <1>2, Around
<1>4. /\ Len(p) \in 1 .. Len(p)
      /\ \A i \in 1 .. Len(p) - 1 : i \in 1 .. Len(p) /\ i # Len(p)
      /\ \A i \in 1 .. Len(p) : i = Len(p) \/ i \in 1 .. Len(p) - 1
  <2>1. \A n \in Nat : n >= 1 => n \in 1 .. n
    OBVIOUS
  <2>2. \A n \in Nat : \A i \in 1 .. n - 1 : i \in 1 .. n /\ i # n
    OBVIOUS
  <2>3. \A n \in Nat : \A i \in 1 .. n : i = n \/ i \in 1 .. n - 1
    OBVIOUS
  <2> QED BY <1>2, <2>1, <2>2, <2>3
<1>5. ASSUME \A i \in DOMAIN p : <<p[i], p[1 + (i % Len(p))]>> \in pairs
      PROVE  /\ \A i \in 1 .. Len(p) - 1 : <<p[i], p[i + 1]>> \in pairs
             /\ <<p[Len(p)], p[1]>> \in pairs
  <2>1. \A i \in 1 .. Len(p) : <<p[i], p[IF i = Len(p) THEN 1 ELSE i + 1]>> \in pairs
    BY <1>2, <1>3, <1>5
  <2> QED BY <1>4, <2>1
<1>6. ASSUME \A i \in 1 .. Len(p) - 1 : <<p[i], p[i + 1]>> \in pairs,
             <<p[Len(p)], p[1]>> \in pairs, NEW i \in DOMAIN p
      PROVE  <<p[i], p[1 + (i % Len(p))]>> \in pairs
  <2>1. CASE i = Len(p)
    <3>1. 1 + (i % Len(p)) = 1
      BY <1>2, <1>3, <2>1
    <3> QED BY <1>6, <2>1, <3>1
  <2>2. CASE i # Len(p)
    <3>1. 1 + (i % Len(p)) = i + 1
      BY <1>2, <1>3, <2>2
    <3> QED BY <1>2, <1>4, <1>6, <2>2, <3>1
  <2> QED BY <2>1, <2>2
<1> QED BY <1>5, <1>6

\* The transfer just added is among the last of its sender.
LEMMA NewIsRetained ==
  ASSUME GraphInvariant, NEW src \in Nodes, NEW dst \in Nodes, NEW amount \in Amounts, NEW ts \in Times,
         AddEdge(src, dst, amount, ts)
  PROVE  LET new == NewOf(src, dst, amount, ts)
         IN /\ new \in history' /\ new.src = src /\ new.dst = dst /\ new.ts = ts
            /\ Count(history', src) - new.nth < MaxEdgesPerNode
<1> DEFINE new == NewOf(src, dst, amount, ts)
<1>1. new.src = src /\ new.dst = dst /\ new.ts = ts
  BY DEF NewOf
<1>2. NextOf(history, new) /\ Numbered(history)
  BY AddEdgeFollows DEF GraphInvariant, GraphTypes
<1>3. history' = history \cup {NewOf(src, dst, amount, ts)}
  BY AddEdgeIs
<1> HIDE DEF new
<1>4. new \in history' /\ Count(history', src) = Count(history, src) + 1
  BY <1>1, <1>2, <1>3, NumberedMore DEF new
<1>5. new.nth = 1 + Count(history, src) /\ Count(history, src) \in Nat
  BY <1>1, <1>2, CountFacts DEF NextOf
<1>6. Count(history', src) - new.nth < MaxEdgesPerNode
  BY <1>4, <1>5, Constants
<1> QED BY <1>1, <1>4, <1>6 DEF new

\* A reported cycle is a ring of transfers that are usable.
LEMMA AddedCycleIsReal ==
  ASSUME GraphInvariant, GraphInvariant',
         NEW src \in Nodes, NEW dst \in Nodes, NEW amount \in Amounts, NEW ts \in Times, AddEdge(src, dst, amount, ts)
  PROVE  CycleIsReal'
<1> DEFINE added == AddedOf(src, dst, amount, ts)
           new == NewOf(src, dst, amount, ts)
           usable == {t \in Retained' :
             \/ t.ts >= ts - EdgeTtl
             \/ \E u \in history' : u.src = t.src /\ u.nth < t.nth /\ u.ts >= ts - EdgeTtl}
<1>1. /\ src # dst /\ last'.src = {src} /\ last'.dst = dst /\ last'.ts = ts
      /\ last'.view.cycle = FindCycle(added, src, dst, ts).cycle
  <2>1. src # dst
    BY AddEdgeIs
  <2> QED BY <2>1, AddEdgeSees
<1>2. added \in Adjacency /\ ts \in Int /\ Numbered(history') /\ \A n \in Nodes : Follows(history', n, added[n], newest')
  BY AddEdgeFollows, Constants
<1>3. Retained' = {t \in history' : Count(history', t.src) - t.nth < MaxEdgesPerNode}
  <2>1. Numbered(history')
    BY <1>2
  <2>2. \A t \in history' : Cardinality({u \in history' : u.src = t.src /\ u.nth > t.nth}) = Count(history', t.src) - t.nth
    BY <2>1, LaterCount
  <2> QED BY <2>2 DEF Retained
<1>4. ASSUME NEW a \in Nodes, NEW b, Hop(added, ts, a, b) PROVE <<a, b>> \in Pairs(usable)
  <2>1. PICK t \in history' :
           /\ t.src = a /\ t.dst = b /\ Count(history', a) - t.nth < MaxEdgesPerNode
           /\ \/ t.ts >= ts - EdgeTtl
              \/ \E u \in history' : u.src = t.src /\ u.nth < t.nth /\ u.ts >= ts - EdgeTtl
    <3> HIDE DEF added
    <3> QED BY <1>2, <1>4, HopIsUsable
  <2>2. t \in usable
    BY <1>3, <2>1
  <2> HIDE DEF usable
  <2> QED BY <2>1, <2>2 DEF Pairs
<1>5. <<src, dst>> \in Pairs(usable)
  <2>1. /\ new \in history' /\ new.src = src /\ new.dst = dst /\ new.ts = ts
        /\ Count(history', src) - new.nth < MaxEdgesPerNode
    BY NewIsRetained
  <2> HIDE DEF new
  <2>2. ts >= ts - EdgeTtl
    BY <1>2, Constants
  <2>3. new \in usable
    BY <1>3, <2>1, <2>2
  <2> HIDE DEF usable
  <2> QED BY <2>1, <2>3 DEF Pairs
<1> HIDE DEF added, usable
<1>6. ASSUME FindCycle(added, src, dst, ts).cycle # <<>>
      PROVE  /\ Last(FindCycle(added, src, dst, ts).cycle) = src
             /\ Front(FindCycle(added, src, dst, ts).cycle) \in Rings(2, src, dst, Pairs(usable))
  <2> DEFINE path == <<src, dst>>
  <2>1. ~(MaxCycleDepth < 2) /\ FindCycle(added, src, dst, ts) = Search(added, src, ts)[path]
    BY <1>6 DEF FindCycle, NoCycle
  <2>2. path \in Paths /\ Len(path) = 2 /\ path[1] = src /\ path[2] = dst
    <3>1. path \in Seq(Nodes) /\ Len(path) = 2
      OBVIOUS
    <3>2. 2 >= 2 /\ 2 <= MaxCycleDepth
      BY <2>1, Constants
    <3> QED BY <3>1, <3>2, PathFacts
  <2>3. Distinct(path)
    <3>1. \A i \in 1 .. 2 : i = 1 \/ i = 2
      OBVIOUS
    <3> QED BY <1>1, <2>2, <3>1 DEF Distinct
  <2> HIDE DEF path
  <2>4. PICK q : ClosesFrom(added, src, ts, path, q) /\ Search(added, src, ts)[path].cycle = Append(q, src)
    BY <1>2, <1>6, <2>1, <2>2, <2>3, SearchIsSound
  <2>5. /\ q \in Paths /\ Distinct(q) /\ q[1] = src /\ q[2] = dst
        /\ \A i \in 2 .. Len(q) - 1 : Hop(added, ts, q[i], q[i + 1])
        /\ Hop(added, ts, q[Len(q)], src)
    <3>1. 1 \in 1 .. 2 /\ 2 \in 1 .. 2
      OBVIOUS
    <3> QED BY <2>2, <2>4, <3>1 DEF ClosesFrom
  <2>6. q \in Seq(Nodes) /\ Len(q) \in Nat /\ Len(q) >= 2 /\ \A i \in 1 .. Len(q) : q[i] \in Nodes
    BY <2>5, PathFacts, LenProperties, ElementOfSeq
  <2>7. \A i \in 1 .. Len(q) - 1 : <<q[i], q[i + 1]>> \in Pairs(usable)
    <3> SUFFICES ASSUME NEW i \in 1 .. Len(q) - 1 PROVE <<q[i], q[i + 1]>> \in Pairs(usable)
      OBVIOUS
    <3>1. CASE i = 1
      BY <1>5, <2>5, <3>1
    <3>2. CASE i # 1
      <4>1. i \in 2 .. Len(q) - 1 /\ i \in 1 .. Len(q)
        BY <2>6, <3>2
      <4> QED BY <1>4, <2>5, <2>6, <4>1
    <3> QED BY <3>1, <3>2
  <2>8. <<q[Len(q)], q[1]>> \in Pairs(usable)
    <3>1. Len(q) \in 1 .. Len(q)
      BY <2>6
    <3> QED BY <1>4, <2>5, <2>6, <3>1
  <2>9. q \in Rings(2, src, dst, Pairs(usable))
    BY <2>5, <2>7, <2>8, RingIs
  <2>10. FindCycle(added, src, dst, ts).cycle = Append(q, src)
    BY <2>1, <2>4
  <2>11. Last(Append(q, src)) = src /\ Front(Append(q, src)) = q
    <3>1. /\ Append(q, src) \in Seq(Nodes) /\ Len(Append(q, src)) = Len(q) + 1
          /\ (\A i \in 1 .. Len(q) : Append(q, src)[i] = q[i]) /\ Append(q, src)[Len(q) + 1] = src
      BY <2>6, AppendProperties
    <3>2. Last(Append(q, src)) = src
      BY <3>1 DEF Last
    <3>3. Front(Append(q, src)) = SubSeq(Append(q, src), 1, Len(q))
      <4>1. Len(Append(q, src)) - 1 = Len(q)
        BY <2>6, <3>1
      <4> QED BY <4>1 DEF Front
    <3> DEFINE A == Append(q, src)
    <3> HIDE DEF A
    <3>4. /\ SubSeq(A, 1, Len(q)) \in Seq(Nodes) /\ Len(SubSeq(A, 1, Len(q))) = Len(q)
          /\ \A i \in 1 .. Len(q) : SubSeq(A, 1, Len(q))[i] = A[i]
      <4>1. A \in Seq(Nodes) /\ 1 \in 1 .. Len(A) + 1 /\ Len(q) \in 0 .. Len(A) /\ Len(A) = Len(q) + 1
            /\ \A i \in 1 .. Len(q) : A[i] \in Nodes
        BY <2>6, <3>1 DEF A
      <4>2. /\ SubSeq(A, 1, Len(q)) \in Seq(Nodes)
            /\ Len(SubSeq(A, 1, Len(q))) = (IF 1 <= Len(q) THEN Len(q) - 1 + 1 ELSE 0)
            /\ \A i \in 1 .. Len(q) - 1 + 1 : SubSeq(A, 1, Len(q))[i] = A[1 + i - 1]
        BY <2>6, <4>1, SubSeqProperties
      <4>3. (IF 1 <= Len(q) THEN Len(q) - 1 + 1 ELSE 0) = Len(q) /\ Len(q) - 1 + 1 = Len(q)
            /\ \A i \in 1 .. Len(q) : 1 + i - 1 = i
        BY <2>6
      <4> QED BY <4>2, <4>3
    <3>5. SubSeq(A, 1, Len(q)) = q
      <4>1. \A i \in 1 .. Len(q) : SubSeq(A, 1, Len(q))[i] = q[i]
        BY <3>1, <3>4 DEF A
      <4> QED BY <2>6, <3>4, <4>1, SeqEqual
    <3> QED BY <3>2, <3>3, <3>5 DEF A
  <2> QED BY <2>9, <2>10, <2>11
<1>7. \A s \in last'.src : s = src
  BY <1>1
<1>8. last'.view.cycle # <<>> =>
        \E s \in last'.src : Last(last'.view.cycle) = s /\ Front(last'.view.cycle) \in Rings(2, s, last'.dst, Pairs(usable))
  BY <1>1, <1>6
<1>9. usable = {t \in Retained' :
          \/ t.ts >= last'.ts - EdgeTtl
          \/ \E u \in history' : u.src = t.src /\ u.nth < t.nth /\ u.ts >= last'.ts - EdgeTtl}
  BY <1>1 DEF usable
<1> QED BY <1>8, <1>9 DEF CycleIsReal


\* A ring of fresh transfers makes the search report one.
LEMMA AddedRingFound ==
  ASSUME GraphInvariant, GraphInvariant',
         NEW src \in Nodes, NEW dst \in Nodes, NEW amount \in Amounts, NEW ts \in Times, AddEdge(src, dst, amount, ts)
  PROVE  FreshRingFound'
<1> DEFINE added == AddedOf(src, dst, amount, ts)
           fresh == {t \in Retained' : t.ts >= newest' - EdgeTtl}
<1>1. /\ src # dst /\ last'.src = {src} /\ last'.dst = dst
      /\ last'.view.cycle = FindCycle(added, src, dst, ts).cycle
  <2>1. src # dst
    BY AddEdgeIs
  <2> QED BY <2>1, AddEdgeSees
<1>2. /\ added \in Adjacency /\ ts \in Int /\ Numbered(history') /\ newest' \in Int /\ ts <= newest'
      /\ \A n \in Nodes : Follows(history', n, added[n], newest')
  BY AddEdgeFollows, Constants
<1>3. Retained' = {t \in history' : Count(history', t.src) - t.nth < MaxEdgesPerNode}
  <2>1. Numbered(history')
    BY <1>2
  <2>2. \A t \in history' : Cardinality({u \in history' : u.src = t.src /\ u.nth > t.nth}) = Count(history', t.src) - t.nth
    BY <2>1, LaterCount
  <2> QED BY <2>2 DEF Retained
<1> HIDE DEF added
<1>4. ASSUME NEW a \in Nodes, NEW b, <<a, b>> \in Pairs(fresh) PROVE Hop(added, ts, a, b)
  <2>1. PICK t \in fresh : <<a, b>> = <<t.src, t.dst>>
    BY <1>4 DEF Pairs
  <2>2. t.src = a /\ t.dst = b
    BY <2>1
  <2>3. t \in history' /\ Count(history', a) - t.nth < MaxEdgesPerNode /\ t.ts >= newest' - EdgeTtl
    BY <1>3, <2>1, <2>2
  <2>4. Hop(added, ts, a, t.dst)
    BY <1>2, <2>2, <2>3, FreshIsHop
  <2> QED BY <2>2, <2>4
<1> HIDE DEF fresh
<1>5. ASSUME NEW p \in Rings(2, src, dst, Pairs(fresh))
      PROVE  FindCycle(added, src, dst, ts).cycle # <<>>
  <2>1. /\ p \in Paths /\ p[1] = src /\ p[2] = dst /\ Distinct(p)
        /\ \A i \in 1 .. Len(p) - 1 : <<p[i], p[i + 1]>> \in Pairs(fresh)
        /\ <<p[Len(p)], p[1]>> \in Pairs(fresh)
    BY <1>5, RingIs
  <2>2. /\ Len(p) \in Nat /\ Len(p) >= 2 /\ Len(p) <= MaxCycleDepth /\ \A i \in 1 .. Len(p) : p[i] \in Nodes
    BY <2>1, PathFacts, LenProperties, ElementOfSeq
  <2>3. \A i \in 2 .. Len(p) - 1 : Hop(added, ts, p[i], p[i + 1])
    <3>1. \A i \in 2 .. Len(p) - 1 : i \in 1 .. Len(p) - 1 /\ i \in 1 .. Len(p)
      BY <2>2
    <3> QED BY <1>4, <2>1, <2>2, <3>1
  <2>4. Hop(added, ts, p[Len(p)], p[1])
    <3>1. Len(p) \in 1 .. Len(p)
      BY <2>2
    <3> QED BY <1>4, <2>1, <2>2, <3>1
  <2>5. Search(added, p[1], ts)[<<p[1], p[2]>>].cycle # <<>>
    BY <1>2, <2>1, <2>3, <2>4, SearchIsComplete
  <2>6. ~(MaxCycleDepth < 2)
    BY <2>2, Constants
  <2> QED BY <1>1, <2>1, <2>5, <2>6 DEF FindCycle
<1>6. \A s \in last'.src : Rings(2, s, last'.dst, Pairs(fresh)) # {} => last'.view.cycle # <<>>
  BY <1>1, <1>5
<1> QED BY <1>6 DEF FreshRingFound, fresh

\* The depth is above zero exactly as the arrivals warrant.
LEMMA AddedDepthIsRight ==
  ASSUME GraphInvariant, GraphInvariant',
         NEW src \in Nodes, NEW dst \in Nodes, NEW amount \in Amounts, NEW ts \in Times, AddEdge(src, dst, amount, ts)
  PROVE  ChainDepthIsRight'
<1> DEFINE new == NewOf(src, dst, amount, ts)
           pass == PassOf(src, amount, ts)
           W == WithinWindow(inbound[src], ts)
           earlier == {t \in history' : t.src \notin last'.src \/ t.nth < last'.nth}
           funds(s) == {t \in earlier : Funds(t, s, last'.amount, last'.ts)}
<1>1. /\ last'.src = {src} /\ last'.amount = amount /\ last'.ts = ts /\ last'.nth = new.nth /\ last'.view.pass = pass
  BY AddEdgeSees
<1>2. /\ Numbered(history) /\ newest \in Int /\ ts \in Int /\ inbound[src] \in Seq(Inbound)
      /\ Arrives(history, src, inbound[src], newest)
  BY Constants DEF GraphInvariant, GraphTypes
<1>3. NextOf(history, new) /\ newest' \in Int /\ newest <= newest' /\ ts <= newest'
  BY AddEdgeFollows
<1>4. history' = history \cup {new} /\ new.src = src
  <2>1. history' = history \cup {new}
    BY AddEdgeIs
  <2> QED BY <2>1 DEF NewOf
<1> HIDE DEF new
<1>5. earlier = history
  <2>1. new.nth = 1 + Count(history, src) /\ Count(history, src) \in Nat
    BY <1>2, <1>3, <1>4, CountFacts DEF NextOf
  <2>2. ~(new.nth < new.nth)
    BY <2>1
  <2>3. \A t \in history : t.src = src => t.nth < new.nth
    <3>1. \A t \in history : t.nth \in Nat /\ t.nth <= Count(history, t.src)
      BY <1>2, TransferTypes DEF Numbered
    <3> QED BY <2>1, <3>1
  <2>4. \A t : t \in earlier <=> t \in history' /\ (t.src # src \/ t.nth < new.nth)
    BY <1>1
  <2> HIDE DEF earlier
  <2> QED BY <1>4, <2>2, <2>3, <2>4
<1>6. /\ W \in Seq(Inbound)
      /\ \A i \in 1 .. Len(W) : \E j \in 1 .. Len(inbound[src]) : W[i] = inbound[src][j] /\ inbound[src][j].ts >= ts - PassWindow
      /\ \A j \in 1 .. Len(inbound[src]) :
           inbound[src][j].ts >= ts - PassWindow => \E i \in 1 .. Len(W) : W[i] = inbound[src][j]
  BY <1>2, WindowKeeps
<1>7. /\ pass.depth > 0 =>
           \E i \in 1 .. Len(W) :
             /\ W[i].ts <= ts /\ InBand(amount, W[i].amount)
             /\ pass.from = {W[i].src} /\ pass.depth = Deeper(W[i].depth)
      /\ (\E i \in 1 .. Len(W) : W[i].ts <= ts /\ InBand(amount, W[i].amount)) => pass.depth > 0
  <2>1. pass = PassThrough(W, amount, ts)
    BY DEF PassOf
  <2> HIDE DEF pass, W
  <2>2. W \in Seq(Inbound) /\ ts \in Int
    BY <1>2, <1>6
  <2> DEFINE match == PassThrough(W, amount, ts)
  <2>3. /\ match.depth > 0 =>
             \E i \in 1 .. Len(W) :
               /\ W[i].ts <= ts /\ InBand(amount, W[i].amount)
               /\ match.from = {W[i].src} /\ match.depth = Deeper(W[i].depth)
        /\ (\E i \in 1 .. Len(W) : W[i].ts <= ts /\ InBand(amount, W[i].amount)) => match.depth > 0
    BY <2>2, MatchIs
  <2> HIDE DEF match
  <2>4. pass = match
    BY <2>1 DEF match
  <2> QED BY <2>3, <2>4
<1> HIDE DEF pass, W, earlier
<1>8. ASSUME pass.depth > 0
      PROVE  \E t \in funds(src) : pass.from = {t.src} /\ pass.depth = Deeper(t.depth)
  <2>1. PICK i \in 1 .. Len(W) :
             /\ W[i].ts <= ts /\ InBand(amount, W[i].amount)
             /\ pass.from = {W[i].src} /\ pass.depth = Deeper(W[i].depth)
    BY <1>7, <1>8
  <2>2. PICK j \in 1 .. Len(inbound[src]) : W[i] = inbound[src][j] /\ inbound[src][j].ts >= ts - PassWindow
    BY <1>6
  <2>3. PICK t \in history : t.dst = src /\ Stands(inbound[src][j], t)
    BY <1>2 DEF Arrives
  <2>4. t.src = W[i].src /\ t.amount = W[i].amount /\ t.ts = W[i].ts /\ t.depth = W[i].depth /\ t.ts >= ts - PassWindow
    BY <2>2, <2>3 DEF Stands
  <2>5. Funds(t, src, amount, ts)
    BY <2>1, <2>3, <2>4 DEF Funds
  <2>6. t \in funds(src)
    BY <1>1, <1>5, <2>5
  <2> QED BY <2>1, <2>4, <2>6
<1>9. ASSUME NEW t \in funds(src), t.ts >= newest' - PassWindow,
             Cardinality({u \in earlier : u.dst = src}) <= MaxEdgesPerNode
      PROVE  pass.depth > 0
  <2>1. t \in history /\ t.dst = src /\ t.ts <= ts /\ t.ts >= ts - PassWindow /\ InBand(amount, t.amount)
    BY <1>1, <1>5, <1>9 DEF Funds
  <2>2. t.ts \in Int
    BY <1>2, <2>1, TransferTypes DEF Numbered
  <2>3. t.ts >= newest - PassWindow
    BY <1>2, <1>3, <1>9, <2>2, Constants
  <2>4. Cardinality(ReceivedBy(history, src)) <= MaxEdgesPerNode
    BY <1>5, <1>9 DEF ReceivedBy
  <2>5. PICK j \in 1 .. Len(inbound[src]) : Stands(inbound[src][j], t)
    BY <1>2, <2>1, <2>3, <2>4 DEF Arrives
  <2>6. inbound[src][j].ts = t.ts /\ inbound[src][j].amount = t.amount
    BY <2>5 DEF Stands
  <2>7. PICK i \in 1 .. Len(W) : W[i] = inbound[src][j]
    BY <1>6, <2>1, <2>6
  <2> QED BY <1>7, <2>1, <2>6, <2>7
<1>10. \A s \in last'.src : s = src
  BY <1>1
<1>11. \A s \in last'.src :
         /\ last'.view.pass.depth > 0 =>
              \E t \in funds(s) :
                /\ last'.view.pass.from = {t.src}
                /\ last'.view.pass.depth = IF t.depth + 1 < MaxChainDepth THEN t.depth + 1 ELSE MaxChainDepth
         /\ /\ \E t \in funds(s) : t.ts >= newest' - PassWindow
            /\ Cardinality({u \in earlier : u.dst = s}) <= MaxEdgesPerNode
            => last'.view.pass.depth > 0
  <2> HIDE DEF funds
  <2>1. last'.view.pass.depth > 0 =>
          \E t \in funds(src) :
            /\ last'.view.pass.from = {t.src}
            /\ last'.view.pass.depth = IF t.depth + 1 < MaxChainDepth THEN t.depth + 1 ELSE MaxChainDepth
    BY <1>1, <1>8 DEF Deeper
  <2>2. /\ \E t \in funds(src) : t.ts >= newest' - PassWindow
        /\ Cardinality({u \in earlier : u.dst = src}) <= MaxEdgesPerNode
        => last'.view.pass.depth > 0
    BY <1>1, <1>9
  <2> QED BY <1>10, <2>1, <2>2
<1> QED BY <1>11 DEF ChainDepthIsRight, earlier

-----------------------------------------------------------------------------
(* What the graph promises *)

Checks == CycleIsReal /\ FreshRingFound /\ ChainDepthIsRight

\* Calls that add no transfer leave nothing to check.
LEMMA NothingToCheck == last = NothingChecked => Checks
<1> QED BY DEF Checks, CycleIsReal, FreshRingFound, ChainDepthIsRight

\* Every step keeps the invariant, and what the step reports is right.
LEMMA StepKeepsInvariant == GraphInvariant /\ Checks /\ [Next]_vars => GraphInvariant' /\ Checks'
<1> SUFFICES ASSUME GraphInvariant, Checks, [Next]_vars PROVE GraphInvariant' /\ Checks'
  OBVIOUS
<1>1. ASSUME NEW src \in Nodes, NEW dst \in Nodes, NEW amount \in Amounts, NEW ts \in Times, AddEdge(src, dst, amount, ts)
      PROVE  GraphInvariant' /\ Checks'
  <2>1. GraphInvariant'
    BY <1>1, AddEdgeKeepsInvariant
  <2> QED BY <1>1, <2>1, AddedCycleIsReal, AddedRingFound, AddedDepthIsRight DEF Checks
<1>2. ASSUME NEW src \in Nodes, NEW ts \in Times, LookAt(src, ts)
      PROVE  GraphInvariant' /\ Checks'
  <2>1. last' = NothingChecked
    BY <1>2 DEF LookAt
  <2>2. adjacency' = Trimmed(adjacency, {src}, ts) /\ Clock(ts) /\ UNCHANGED <<inbound, history>>
    BY <1>2 DEF LookAt
  <2>3. GraphInvariant'
    BY <2>2, ReadKeepsInvariant
  <2>4. Checks'
    BY <2>1 DEF Checks, CycleIsReal, FreshRingFound, ChainDepthIsRight, NothingChecked
  <2> QED BY <2>3, <2>4
<1>3. ASSUME NEW root \in Nodes, NEW depth \in 1 .. 2, NEW now \in Times, ReadNeighborhood(root, depth, now)
      PROVE  GraphInvariant' /\ Checks'
  <2> DEFINE touched == {root} \cup Reached(adjacency, root, depth, now)
                          \cup UNION {s.touched : s \in Searches(adjacency, root, now)}
  <2>1. last' = NothingChecked
    BY <1>3 DEF ReadNeighborhood
  <2>2. adjacency' = Trimmed(adjacency, touched, now) /\ Clock(now) /\ UNCHANGED <<inbound, history>>
    BY <1>3 DEF ReadNeighborhood
  <2> HIDE DEF touched
  <2>3. GraphInvariant'
    BY <2>2, ReadKeepsInvariant
  <2>4. Checks'
    BY <2>1 DEF Checks, CycleIsReal, FreshRingFound, ChainDepthIsRight, NothingChecked
  <2> QED BY <2>3, <2>4
<1>4. CASE UNCHANGED vars
  <2>1. /\ adjacency' = adjacency /\ inbound' = inbound /\ history' = history /\ newest' = newest /\ last' = last
    BY <1>4 DEF vars
  <2>2. GraphInvariant'
    BY <2>1 DEF GraphInvariant, GraphTypes
  <2>3. Checks'
    BY <2>1 DEF Checks, CycleIsReal, FreshRingFound, ChainDepthIsRight, Retained
  <2> QED BY <2>2, <2>3
<1> QED BY <1>1, <1>2, <1>3, <1>4 DEF Next

\* The invariant and the checks hold in every state.
LEMMA AlwaysInvariant == Spec => [](GraphInvariant /\ Checks)
<1>1. Init => GraphInvariant /\ Checks
  <2>1. Init => last = NothingChecked
    BY DEF Init
  <2> QED BY <2>1, StartsInvariant, NothingToCheck
<1> QED BY <1>1, StepKeepsInvariant, PTL DEF Spec

(* For every set of accounts, times and amounts and every setting: the     *)
(* edges kept of an account are its last transfers in the order they were  *)
(* inserted, and whatever is missing was stale or pushed out by the cap;   *)
(* its arrivals are transfers to it, and none inside the window is missing *)
(* while the cap has not been reached (addEdge, expire, passThroughFor).   *)
THEOREM GraphFollowsHistory == Spec => []GraphInvariant
<1> QED BY AlwaysInvariant, PTL

(* CycleIsReal: every cycle findCycle reports is a ring the money took.    *)
THEOREM CyclesAreReal == Spec => []CycleIsReal
<1>1. Checks => CycleIsReal
  BY DEF Checks
<1> QED BY <1>1, AlwaysInvariant, PTL

(* FreshRingFound: late transfers, reads and expirations never hide a ring *)
(* of transfers that are fresh by the latest time any call has used.       *)
THEOREM FreshRingsAreFound == Spec => []FreshRingFound
<1>1. Checks => FreshRingFound
  BY DEF Checks
<1> QED BY <1>1, AlwaysInvariant, PTL

(* ChainDepthIsRight: passThroughFor counts a chain only for an arrival    *)
(* this amount forwards, and counts it whenever one is left.               *)
THEOREM ChainDepthsAreRight == Spec => []ChainDepthIsRight
<1>1. Checks => ChainDepthIsRight
  BY DEF Checks
<1> QED BY <1>1, AlwaysInvariant, PTL


-----------------------------------------------------------------------------
(* The disjoint sets: what the recursions of find compute *)

\* Parents, ranks and sizes are of the nodes known; ranks grow towards the roots.
Forest(uf) ==
    /\ uf = [parent |-> uf.parent, rank |-> uf.rank, size |-> uf.size]
    /\ uf.parent \in [Known(uf) -> Known(uf)]
    /\ uf.rank \in [Known(uf) -> Nat] /\ uf.size \in [Known(uf) -> Nat]
    /\ \E most \in Nat : \A y \in Known(uf) : uf.rank[y] <= most
    /\ \A y \in Known(uf) : uf.parent[y] # y => uf.rank[y] < uf.rank[uf.parent[y]]

\* What lies above a node: the least set with it that parents do not leave.
Up(uf, x) ==
    {z \in Known(uf) : \A S \in SUBSET Known(uf) :
        x \in S /\ (\A s \in S : uf.parent[s] \in S) => z \in S}

\* Above a node are itself and what is above its parent.
LEMMA UpUnfolds ==
  ASSUME NEW uf, Forest(uf), NEW x \in Known(uf)
  PROVE  Up(uf, x) = {x} \cup IF uf.parent[x] = x THEN {} ELSE Up(uf, uf.parent[x])
<1> DEFINE p == uf.parent[x]
           S == {x} \cup Up(uf, p)
<1>1. \A y \in Known(uf) : uf.parent[y] \in Known(uf)
  BY DEF Forest
<1>2. x \in Up(uf, x)
  BY DEF Up
<1>3. CASE p = x
  <2>1. ASSUME NEW z \in Up(uf, x) PROVE z = x
    <3>1. {x} \in SUBSET Known(uf) /\ \A s \in {x} : uf.parent[s] \in {x}
      BY <1>3
    <3>2. z \in {x}
      BY <3>1, <2>1 DEF Up
    <3> QED BY <3>2
  <2> QED BY <1>2, <1>3, <2>1
<1>4. CASE p # x
  <2>1. Up(uf, p) \subseteq Up(uf, x)
    BY <1>1 DEF Up
  <2>2. p \in Up(uf, p) /\ \A s \in Up(uf, p) : uf.parent[s] \in Up(uf, p)
    BY <1>1 DEF Up
  <2>3. S \in SUBSET Known(uf) /\ \A s \in S : uf.parent[s] \in S
    BY <2>2 DEF Up
  <2>4. Up(uf, x) \subseteq S
    <3> HIDE DEF S
    <3>1. x \in S
      BY DEF S
    <3> QED BY <2>3, <3>1 DEF Up
  <2> QED BY <1>2, <1>4, <2>1, <2>4
<1> QED BY <1>3, <1>4

\* The recursion of PathOf has a solution, so it may be unfolded.
LEMMA PathUnfolds ==
  ASSUME NEW uf, Forest(uf)
  PROVE  \A x \in Known(uf) :
           PathOf(uf, x) = {x} \cup IF uf.parent[x] = x THEN {} ELSE PathOf(uf, uf.parent[x])
<1> DEFINE Solves(f) == f = [y \in Known(uf) |-> {y} \cup IF uf.parent[y] = y THEN {} ELSE f[uf.parent[y]]]
           above == [y \in Known(uf) |-> Up(uf, y)]
           chosen == CHOOSE f : Solves(f)
<1>1. \A y \in Known(uf) : uf.parent[y] \in Known(uf)
  BY DEF Forest
<1>2. Solves(above)
  <2>1. \A y \in Known(uf) : Up(uf, y) = {y} \cup IF uf.parent[y] = y THEN {} ELSE Up(uf, uf.parent[y])
    BY UpUnfolds
  <2>2. \A y \in Known(uf) : Up(uf, y) = {y} \cup IF uf.parent[y] = y THEN {} ELSE above[uf.parent[y]]
    BY <1>1, <2>1
  <2> QED BY <2>2
<1>3. Solves(chosen)
  <2> HIDE DEF Solves, above
  <2> QED BY <1>2
<1>4. \A x : PathOf(uf, x) = chosen[x]
  BY DEF PathOf
<1> HIDE DEF chosen
<1> QED BY <1>1, <1>3, <1>4

\* And so has that of RootOf.
LEMMA RootUnfolds ==
  ASSUME NEW uf, Forest(uf)
  PROVE  \A x \in Known(uf) :
           RootOf(uf, x) = IF uf.parent[x] = x THEN x ELSE RootOf(uf, uf.parent[x])
<1> DEFINE Solves(f) == f = [y \in Known(uf) |-> IF uf.parent[y] = y THEN y ELSE f[uf.parent[y]]]
           Tops(y) == {z \in Up(uf, y) : uf.parent[z] = z}
           top == [y \in Known(uf) |-> CHOOSE z : z \in Tops(y)]
           chosen == CHOOSE f : Solves(f)
<1>1. \A y \in Known(uf) : uf.parent[y] \in Known(uf)
  BY DEF Forest
<1>2. Solves(top)
  <2>1. ASSUME NEW y \in Known(uf)
        PROVE  top[y] = IF uf.parent[y] = y THEN y ELSE top[uf.parent[y]]
    <3>1. Up(uf, y) = {y} \cup IF uf.parent[y] = y THEN {} ELSE Up(uf, uf.parent[y])
      BY UpUnfolds
    <3>2. CASE uf.parent[y] = y
      <4>1. \A z : z \in Tops(y) <=> z = y
        BY <3>1, <3>2
      <4> HIDE DEF Tops
      <4> QED BY <3>2, <4>1
    <3>3. CASE uf.parent[y] # y
      <4>1. Tops(y) = Tops(uf.parent[y])
        BY <3>1, <3>3
      <4> HIDE DEF Tops
      <4> QED BY <1>1, <3>3, <4>1
    <3> QED BY <3>2, <3>3
  <2> HIDE DEF Tops
  <2> QED BY <2>1
<1>3. Solves(chosen)
  <2> HIDE DEF Solves, top
  <2> QED BY <1>2
<1>4. \A x : RootOf(uf, x) = chosen[x]
  BY DEF RootOf
<1> HIDE DEF chosen
<1> QED BY <1>1, <1>3, <1>4

\* Induction from the roots down.
LEMMA FromTheRoots ==
  ASSUME NEW uf, Forest(uf), NEW T,
         \A y \in Known(uf) : uf.parent[y] = y \/ uf.parent[y] \in T => y \in T
  PROVE  Known(uf) \subseteq T
<1> SUFFICES ASSUME NEW x \in Known(uf), x \notin T PROVE FALSE
  OBVIOUS
<1> DEFINE Out == {y \in Known(uf) : y \notin T}
           ranks == {uf.rank[y] : y \in Out}
<1>1. PICK most \in Nat : \A y \in Known(uf) : uf.rank[y] <= most
  BY DEF Forest
<1>2. ranks \in SUBSET (0 .. most) /\ uf.rank[x] \in ranks
  <2>1. \A y \in Known(uf) : uf.rank[y] \in 0 .. most
    BY <1>1 DEF Forest
  <2> QED BY <2>1
<1>3. PICK r \in ranks : \A s \in ranks : s <= r
  <2> HIDE DEF ranks
  <2> QED BY <1>2, LargestUpTo
<1>4. PICK y \in Out : r = uf.rank[y]
  BY <1>3
<1>5. uf.parent[y] \in Out /\ uf.parent[y] # y
  BY DEF Forest
<1>6. uf.rank[uf.parent[y]] \in ranks
  BY <1>5
<1>7. uf.rank[y] < uf.rank[uf.parent[y]] /\ uf.rank[y] \in Nat /\ uf.rank[uf.parent[y]] \in Nat
  BY <1>4, <1>5 DEF Forest
<1> HIDE DEF ranks
<1> QED BY <1>3, <1>4, <1>6, <1>7
\* A root is its own parent, and its rank is above that of all that hangs from it.
LEMMA RootFacts ==
  ASSUME NEW uf, Forest(uf)
  PROVE  \A x \in Known(uf) : /\ RootOf(uf, x) \in Known(uf)
                              /\ uf.parent[RootOf(uf, x)] = RootOf(uf, x)
                              /\ RootOf(uf, RootOf(uf, x)) = RootOf(uf, x)
                              /\ RootOf(uf, x) # x => uf.rank[x] < uf.rank[RootOf(uf, x)]
<1> DEFINE T == {x \in Known(uf) : /\ RootOf(uf, x) \in Known(uf)
                                   /\ uf.parent[RootOf(uf, x)] = RootOf(uf, x)
                                   /\ RootOf(uf, x) # x => uf.rank[x] < uf.rank[RootOf(uf, x)]}
<1>1. ASSUME NEW y \in Known(uf), uf.parent[y] = y \/ uf.parent[y] \in T
      PROVE  y \in T
  <2>1. RootOf(uf, y) = IF uf.parent[y] = y THEN y ELSE RootOf(uf, uf.parent[y])
    BY RootUnfolds
  <2>2. CASE uf.parent[y] = y
    BY <2>1, <2>2
  <2>3. CASE uf.parent[y] # y
    <3>1. uf.parent[y] \in T /\ RootOf(uf, y) = RootOf(uf, uf.parent[y])
      BY <1>1, <2>1, <2>3
    <3>2. /\ uf.rank[y] < uf.rank[uf.parent[y]]
          /\ uf.rank[y] \in Nat /\ uf.rank[uf.parent[y]] \in Nat /\ uf.rank[RootOf(uf, y)] \in Nat
      BY <2>3, <3>1 DEF Forest
    <3> QED BY <3>1, <3>2
  <2> QED BY <2>2, <2>3
<1>2. Known(uf) \subseteq T
  <2> HIDE DEF T
  <2> QED BY <1>1, FromTheRoots
<1>3. \A x \in Known(uf) : uf.parent[x] = x => RootOf(uf, x) = x
  BY RootUnfolds
<1> QED BY <1>2, <1>3

\* A walk to the root stays in its set.
LEMMA WalkFacts ==
  ASSUME NEW uf, Forest(uf)
  PROVE  \A x \in Known(uf) : /\ PathOf(uf, x) \subseteq Known(uf)
                              /\ \A z \in PathOf(uf, x) : RootOf(uf, z) = RootOf(uf, x)
<1> DEFINE T == {x \in Known(uf) : /\ PathOf(uf, x) \subseteq Known(uf)
                                   /\ \A z \in PathOf(uf, x) : RootOf(uf, z) = RootOf(uf, x)}
<1>1. ASSUME NEW y \in Known(uf), uf.parent[y] = y \/ uf.parent[y] \in T
      PROVE  y \in T
  <2>1. /\ RootOf(uf, y) = IF uf.parent[y] = y THEN y ELSE RootOf(uf, uf.parent[y])
        /\ PathOf(uf, y) = {y} \cup IF uf.parent[y] = y THEN {} ELSE PathOf(uf, uf.parent[y])
    BY RootUnfolds, PathUnfolds
  <2>2. CASE uf.parent[y] = y
    BY <2>1, <2>2
  <2>3. CASE uf.parent[y] # y
    BY <1>1, <2>1, <2>3
  <2> QED BY <2>2, <2>3
<1>2. Known(uf) \subseteq T
  <2> HIDE DEF T
  <2> QED BY <1>1, FromTheRoots
<1> QED BY <1>2

\* What goes up as parents do, and ends where they end, is the root.
LEMMA RootsAre ==
  ASSUME NEW uf, Forest(uf), NEW r,
         \A y \in Known(uf) : r[y] = IF uf.parent[y] = y THEN y ELSE r[uf.parent[y]]
  PROVE  \A y \in Known(uf) : RootOf(uf, y) = r[y]
<1> DEFINE T == {y \in Known(uf) : RootOf(uf, y) = r[y]}
<1>1. ASSUME NEW y \in Known(uf), uf.parent[y] = y \/ uf.parent[y] \in T
      PROVE  y \in T
  <2>1. RootOf(uf, y) = IF uf.parent[y] = y THEN y ELSE RootOf(uf, uf.parent[y])
    BY RootUnfolds
  <2> QED BY <1>1, <2>1
<1>2. Known(uf) \subseteq T
  <2> HIDE DEF T
  <2> QED BY <1>1, FromTheRoots
<1> QED BY <1>2

-----------------------------------------------------------------------------
(* What the calls of the disjoint sets do to them *)

\* The nodes in one set with this one.
Class(uf, x) == {y \in Known(uf) : RootOf(uf, y) = RootOf(uf, x)}

\* The size at a root is that of its set.
DisjointSets(uf) ==
    /\ Forest(uf) /\ IsFiniteSet(Known(uf))
    /\ \A x \in Known(uf) : uf.size[RootOf(uf, x)] = Cardinality(Class(uf, x))

\* Nothing of this changes while the roots stay as they are.
LEMMA SameRoots ==
  ASSUME NEW uf, NEW vf, DisjointSets(uf), Forest(vf), Known(vf) = Known(uf), vf.size = uf.size,
         \A x \in Known(uf) : RootOf(vf, x) = RootOf(uf, x)
  PROVE  DisjointSets(vf)
<1>1. \A x \in Known(uf) : Class(vf, x) = Class(uf, x)
  BY DEF Class
<1> QED BY <1>1 DEF DisjointSets

\* A node on first sight is a set of its own.
LEMMA Creates ==
  ASSUME NEW uf, DisjointSets(uf), NEW x
  PROVE  /\ DisjointSets(Create(uf, x)) /\ Known(Create(uf, x)) = Known(uf) \cup {x}
         /\ \A y \in Known(uf) : RootOf(Create(uf, x), y) = RootOf(uf, y)
         /\ x \notin Known(uf) => RootOf(Create(uf, x), x) = x
<1> DEFINE vf == Create(uf, x)
<1>1. CASE x \in Known(uf)
  <2>1. vf = uf
    BY <1>1 DEF Create
  <2> QED BY <1>1, <2>1
<1>2. CASE x \notin Known(uf)
  <2>0. Forest(uf)
    BY DEF DisjointSets
  <2>1. vf = [parent |-> With(uf.parent, x, x), rank |-> With(uf.rank, x, 0), size |-> With(uf.size, x, 1)]
    BY <1>2 DEF Create
  <2>2. /\ DOMAIN uf.parent = Known(uf) /\ DOMAIN uf.rank = Known(uf) /\ DOMAIN uf.size = Known(uf)
    BY <2>0 DEF Forest
  <2>3. /\ vf.parent = [y \in Known(uf) \cup {x} |-> IF y = x THEN x ELSE uf.parent[y]]
        /\ vf.rank = [y \in Known(uf) \cup {x} |-> IF y = x THEN 0 ELSE uf.rank[y]]
        /\ vf.size = [y \in Known(uf) \cup {x} |-> IF y = x THEN 1 ELSE uf.size[y]]
        /\ vf = [parent |-> vf.parent, rank |-> vf.rank, size |-> vf.size]
    BY <2>1, <2>2 DEF With
  <2>4. Known(vf) = Known(uf) \cup {x}
    BY <2>3 DEF Known
  <2> HIDE DEF vf
  <2>5. Forest(vf)
    <3>1. \A y \in Known(uf) : uf.parent[y] \in Known(uf) /\ uf.rank[y] \in Nat /\ uf.size[y] \in Nat
      BY <2>0 DEF Forest
    <3>2. /\ vf.parent \in [Known(vf) -> Known(vf)] /\ vf.rank \in [Known(vf) -> Nat]
          /\ vf.size \in [Known(vf) -> Nat]
      BY <2>3, <2>4, <3>1
    <3>3. \E most \in Nat : \A y \in Known(vf) : vf.rank[y] <= most
      <4>1. PICK most \in Nat : \A y \in Known(uf) : uf.rank[y] <= most
        BY <2>0 DEF Forest
      <4> QED BY <2>3, <2>4, <4>1
    <3>4. \A y \in Known(vf) : vf.parent[y] # y => vf.rank[y] < vf.rank[vf.parent[y]]
      BY <1>2, <2>0, <2>3, <2>4, <3>1 DEF Forest
    <3> QED BY <2>3, <3>2, <3>3, <3>4 DEF Forest
  <2>6. \A y \in Known(vf) : RootOf(vf, y) = IF y \in Known(uf) THEN RootOf(uf, y) ELSE y
    <3> DEFINE r == [y \in Known(vf) |-> IF y \in Known(uf) THEN RootOf(uf, y) ELSE y]
    <3>1. \A y \in Known(uf) : /\ RootOf(uf, y) = IF uf.parent[y] = y THEN y ELSE RootOf(uf, uf.parent[y])
                               /\ uf.parent[y] \in Known(uf)
      BY <2>0, RootUnfolds DEF Forest
    <3>2. \A y \in Known(vf) : r[y] = IF vf.parent[y] = y THEN y ELSE r[vf.parent[y]]
      BY <1>2, <2>3, <2>4, <3>1
    <3>3. \A y \in Known(vf) : RootOf(vf, y) = r[y]
      <4> HIDE DEF r
      <4> QED BY <2>5, <3>2, RootsAre
    <3> QED BY <3>3
  <2>7. \A y \in Known(uf) : RootOf(uf, y) \in Known(uf)
    BY <2>0, RootFacts
  <2>8. \A y \in Known(vf) : Class(vf, y) = IF y \in Known(uf) THEN Class(uf, y) ELSE {y}
    BY <1>2, <2>4, <2>6, <2>7 DEF Class
  <2>9. \A y \in Known(vf) : vf.size[RootOf(vf, y)] = Cardinality(Class(vf, y))
    <3>1. \A y : Cardinality({y}) = 1
      BY FS_Singleton
    <3>2. ASSUME NEW y \in Known(uf) PROVE vf.size[RootOf(vf, y)] = Cardinality(Class(vf, y))
      <4>1. RootOf(vf, y) = RootOf(uf, y) /\ RootOf(uf, y) \in Known(uf) /\ Class(vf, y) = Class(uf, y)
        BY <2>4, <2>6, <2>7, <2>8, <3>2
      <4>2. vf.size[RootOf(uf, y)] = uf.size[RootOf(uf, y)]
        BY <1>2, <2>3, <4>1
      <4>3. uf.size[RootOf(uf, y)] = Cardinality(Class(uf, y))
        BY <3>2 DEF DisjointSets
      <4> QED BY <4>1, <4>2, <4>3
    <3>3. vf.size[RootOf(vf, x)] = Cardinality(Class(vf, x))
      BY <1>2, <2>3, <2>4, <2>6, <2>8, <3>1
    <3> QED BY <2>4, <3>2, <3>3
  <2>10. IsFiniteSet(Known(vf))
    BY <2>4, FS_AddElement DEF DisjointSets
  <2>11. DisjointSets(vf)
    BY <2>5, <2>9, <2>10 DEF DisjointSets
  <2> QED BY <1>2, <2>4, <2>6, <2>11 DEF vf
<1> QED BY <1>1, <1>2
\* find leaves the sets as they are: it hangs a walk under its own root.
LEMMA Finds ==
  ASSUME NEW uf, DisjointSets(uf), NEW x
  PROVE  /\ DisjointSets(Find(uf, x)) /\ Known(Find(uf, x)) = Known(uf) \cup {x}
         /\ \A y \in Known(uf) : RootOf(Find(uf, x), y) = RootOf(uf, y)
         /\ x \notin Known(uf) => RootOf(Find(uf, x), x) = x
<1> DEFINE cf == Create(uf, x)
           vf == Find(uf, x)
           walk == PathOf(cf, x)
           top == RootOf(cf, x)
<1>1. /\ DisjointSets(cf) /\ Known(cf) = Known(uf) \cup {x}
      /\ \A y \in Known(uf) : RootOf(cf, y) = RootOf(uf, y)
      /\ x \notin Known(uf) => RootOf(cf, x) = x
  BY Creates
<1>2. vf = [cf EXCEPT !.parent = [y \in Known(cf) |-> IF y \in walk THEN top ELSE cf.parent[y]]]
  BY DEF Find
<1> HIDE DEF cf, vf, walk
<1>3. Forest(cf) /\ x \in Known(cf)
  BY <1>1 DEF DisjointSets
<1>4. cf = [parent |-> cf.parent, rank |-> cf.rank, size |-> cf.size]
  BY <1>3 DEF Forest
<1>5. vf = [parent |-> [y \in Known(cf) |-> IF y \in walk THEN top ELSE cf.parent[y]],
            rank |-> cf.rank, size |-> cf.size]
  BY <1>2, <1>4
<1>6. /\ vf.parent = [y \in Known(cf) |-> IF y \in walk THEN top ELSE cf.parent[y]]
      /\ vf.rank = cf.rank /\ vf.size = cf.size
      /\ vf = [parent |-> vf.parent, rank |-> vf.rank, size |-> vf.size]
  BY <1>5
<1>7. Known(vf) = Known(cf)
  BY <1>6 DEF Known
<1>8. /\ top \in Known(cf) /\ cf.parent[top] = top /\ RootOf(cf, top) = top
      /\ \A y \in walk : y \in Known(cf) /\ RootOf(cf, y) = top
      /\ \A y \in walk : y # top => cf.rank[y] < cf.rank[top]
  <2>1. \A y \in walk : y \in Known(cf) /\ RootOf(cf, y) = top
    BY <1>3, WalkFacts DEF walk
  <2> QED BY <1>3, <2>1, RootFacts
<1> HIDE DEF top
<1>9. Forest(vf)
  <2>1. cf.parent \in [Known(cf) -> Known(cf)] /\ cf.rank \in [Known(cf) -> Nat] /\ cf.size \in [Known(cf) -> Nat]
    BY <1>3 DEF Forest
  <2>2. vf.parent \in [Known(vf) -> Known(vf)] /\ vf.rank \in [Known(vf) -> Nat] /\ vf.size \in [Known(vf) -> Nat]
    BY <1>6, <1>7, <1>8, <2>1
  <2>3. \A y \in Known(vf) : vf.parent[y] # y => vf.rank[y] < vf.rank[vf.parent[y]]
    <3> SUFFICES ASSUME NEW y \in Known(cf), vf.parent[y] # y PROVE cf.rank[y] < cf.rank[vf.parent[y]]
      BY <1>6, <1>7
    <3>1. CASE y \in walk
      BY <1>6, <1>8, <3>1
    <3>2. CASE y \notin walk
      BY <1>3, <1>6, <3>2 DEF Forest
    <3> QED BY <3>1, <3>2
  <2>4. \E most \in Nat : \A y \in Known(vf) : vf.rank[y] <= most
    BY <1>3, <1>6, <1>7 DEF Forest
  <2> QED BY <1>6, <2>2, <2>3, <2>4 DEF Forest
<1>10. \A y \in Known(vf) : RootOf(vf, y) = RootOf(cf, y)
  <2> DEFINE r == [y \in Known(cf) |-> RootOf(cf, y)]
  <2>1. \A y \in Known(cf) : /\ RootOf(cf, y) = IF cf.parent[y] = y THEN y ELSE RootOf(cf, cf.parent[y])
                             /\ cf.parent[y] \in Known(cf)
    BY <1>3, RootUnfolds DEF Forest
  <2>2. \A y \in Known(vf) : r[y] = IF vf.parent[y] = y THEN y ELSE r[vf.parent[y]]
    BY <1>6, <1>7, <1>8, <2>1
  <2>3. \A y \in Known(vf) : RootOf(vf, y) = r[y]
    <3> HIDE DEF r
    <3> QED BY <1>9, <2>2, RootsAre
  <2> QED BY <1>7, <2>3
<1>11. DisjointSets(vf)
  BY <1>1, <1>6, <1>7, <1>9, <1>10, SameRoots
<1>12. x \notin Known(uf) => RootOf(vf, x) = x
  BY <1>1, <1>3, <1>7, <1>10
<1>13. Known(vf) = Known(uf) \cup {x} /\ \A y \in Known(uf) : RootOf(vf, y) = RootOf(uf, y)
  BY <1>1, <1>7, <1>10
<1> QED BY <1>11, <1>12, <1>13 DEF vf

\* Two sets are joined under the root of higher rank, and nothing else happens.
LEMMA Joins ==
  ASSUME NEW uf, DisjointSets(uf), NEW winner \in Known(uf), NEW loser \in Known(uf), winner # loser,
         uf.parent[winner] = winner, uf.parent[loser] = loser, uf.rank[loser] <= uf.rank[winner]
  PROVE  /\ DisjointSets(Join(uf, winner, loser)) /\ Known(Join(uf, winner, loser)) = Known(uf)
         /\ \A y \in Known(uf) : RootOf(Join(uf, winner, loser), y)
                                   = IF RootOf(uf, y) = loser THEN winner ELSE RootOf(uf, y)
<1> DEFINE vf == Join(uf, winner, loser)
<1>1. Forest(uf) /\ IsFiniteSet(Known(uf))
  BY DEF DisjointSets
<1>2. uf.parent \in [Known(uf) -> Known(uf)] /\ uf.rank \in [Known(uf) -> Nat] /\ uf.size \in [Known(uf) -> Nat]
  BY <1>1 DEF Forest
<1>3. /\ vf.parent = [uf.parent EXCEPT ![loser] = winner]
      /\ vf.rank = [uf.rank EXCEPT ![winner] = IF uf.rank[loser] = uf.rank[winner] THEN uf.rank[winner] + 1
                                                                                ELSE uf.rank[winner]]
      /\ vf.size = [uf.size EXCEPT ![winner] = uf.size[winner] + uf.size[loser]]
      /\ vf = [parent |-> vf.parent, rank |-> vf.rank, size |-> vf.size]
  BY DEF Join
<1> HIDE DEF vf
<1>4. Known(vf) = Known(uf)
  BY <1>2, <1>3 DEF Known
<1>5. \A y \in Known(uf) : /\ vf.parent[y] = IF y = loser THEN winner ELSE uf.parent[y]
                           /\ vf.size[y] = IF y = winner THEN uf.size[winner] + uf.size[loser] ELSE uf.size[y]
                           /\ y # winner => vf.rank[y] = uf.rank[y]
                           /\ vf.rank[y] \in Nat /\ uf.rank[y] <= vf.rank[y] /\ vf.rank[y] <= uf.rank[y] + 1
  BY <1>2, <1>3
<1>6. vf.rank[loser] < vf.rank[winner]
  BY <1>2, <1>3
<1>7. Forest(vf)
  <2>1. vf.parent \in [Known(vf) -> Known(vf)] /\ vf.rank \in [Known(vf) -> Nat] /\ vf.size \in [Known(vf) -> Nat]
    BY <1>2, <1>3, <1>4
  <2>2. \E most \in Nat : \A y \in Known(vf) : vf.rank[y] <= most
    <3>1. PICK most \in Nat : \A y \in Known(uf) : uf.rank[y] <= most
      BY <1>1 DEF Forest
    <3>2. \A y \in Known(uf) : uf.rank[y] \in Nat
      BY <1>2
    <3>3. \A y \in Known(vf) : vf.rank[y] <= most + 1
      BY <1>4, <1>5, <3>1, <3>2
    <3> QED BY <3>3
  <2>3. \A y \in Known(vf) : vf.parent[y] # y => vf.rank[y] < vf.rank[vf.parent[y]]
    <3> SUFFICES ASSUME NEW y \in Known(uf), vf.parent[y] # y PROVE vf.rank[y] < vf.rank[vf.parent[y]]
      BY <1>4
    <3>1. CASE y = loser
      BY <1>5, <1>6, <3>1
    <3>2. CASE y # loser
      <4>1. vf.parent[y] = uf.parent[y] /\ uf.parent[y] \in Known(uf) /\ y # winner
        BY <1>2, <1>5, <3>2
      <4>2. uf.rank[y] < uf.rank[uf.parent[y]]
        BY <1>1, <4>1 DEF Forest
      <4>3. vf.rank[y] = uf.rank[y] /\ uf.rank[uf.parent[y]] <= vf.rank[uf.parent[y]] /\ vf.rank[uf.parent[y]] \in Nat
        BY <1>5, <4>1
      <4>4. uf.rank[y] \in Nat /\ uf.rank[uf.parent[y]] \in Nat
        BY <1>2, <4>1
      <4> QED BY <4>1, <4>2, <4>3, <4>4
    <3> QED BY <3>1, <3>2
  <2> QED BY <1>3, <2>1, <2>2, <2>3 DEF Forest
<1>8. RootOf(uf, winner) = winner /\ RootOf(uf, loser) = loser
  BY <1>1, RootUnfolds
<1>9. \A y \in Known(uf) : RootOf(vf, y) = IF RootOf(uf, y) = loser THEN winner ELSE RootOf(uf, y)
  <2> DEFINE r == [y \in Known(uf) |-> IF RootOf(uf, y) = loser THEN winner ELSE RootOf(uf, y)]
  <2>1. \A y \in Known(uf) : /\ RootOf(uf, y) = IF uf.parent[y] = y THEN y ELSE RootOf(uf, uf.parent[y])
                             /\ uf.parent[y] \in Known(uf)
    BY <1>1, RootUnfolds DEF Forest
  <2>2. \A y \in Known(vf) : r[y] = IF vf.parent[y] = y THEN y ELSE r[vf.parent[y]]
    BY <1>4, <1>5, <1>8, <2>1
  <2>3. \A y \in Known(vf) : RootOf(vf, y) = r[y]
    <3> HIDE DEF r
    <3> QED BY <1>7, <2>2, RootsAre
  <2> QED BY <1>4, <2>3
<1>10. ASSUME NEW y \in Known(uf) PROVE vf.size[RootOf(vf, y)] = Cardinality(Class(vf, y))
  <2>1. /\ uf.size[winner] = Cardinality(Class(uf, winner)) /\ uf.size[loser] = Cardinality(Class(uf, loser))
        /\ uf.size[RootOf(uf, y)] = Cardinality(Class(uf, y)) /\ RootOf(uf, y) \in Known(uf)
    BY <1>1, <1>8, RootFacts DEF DisjointSets
  <2>2. CASE RootOf(uf, y) \in {winner, loser}
    <3>1. RootOf(vf, y) = winner /\ Class(vf, y) = Class(uf, winner) \cup Class(uf, loser)
      BY <1>4, <1>8, <1>9, <2>2 DEF Class
    <3>2. Class(uf, winner) \cap Class(uf, loser) = {}
      BY <1>8 DEF Class
    <3>3. IsFiniteSet(Class(uf, winner)) /\ IsFiniteSet(Class(uf, loser))
      <4>1. Class(uf, winner) \in SUBSET Known(uf) /\ Class(uf, loser) \in SUBSET Known(uf)
        BY DEF Class
      <4> QED BY <1>1, <4>1, FS_Subset
    <3>4. Cardinality(Class(uf, winner) \cup Class(uf, loser))
            = Cardinality(Class(uf, winner)) + Cardinality(Class(uf, loser)) - Cardinality({})
      BY <3>2, <3>3, FS_Union
    <3>5. /\ Cardinality({}) = 0
          /\ Cardinality(Class(uf, winner)) \in Nat /\ Cardinality(Class(uf, loser)) \in Nat
      BY <3>3, FS_EmptySet, FS_CardinalityType
    <3>6. vf.size[winner] = uf.size[winner] + uf.size[loser]
      BY <1>5
    <3> QED BY <2>1, <3>1, <3>4, <3>5, <3>6
  <2>3. CASE RootOf(uf, y) \notin {winner, loser}
    <3>1. RootOf(vf, y) = RootOf(uf, y) /\ Class(vf, y) = Class(uf, y)
      BY <1>4, <1>9, <2>3 DEF Class
    <3>2. vf.size[RootOf(uf, y)] = uf.size[RootOf(uf, y)]
      BY <1>5, <2>1, <2>3
    <3> QED BY <2>1, <3>1, <3>2
  <2> QED BY <2>2, <2>3
<1>11. DisjointSets(vf)
  BY <1>1, <1>4, <1>7, <1>10 DEF DisjointSets
<1> QED BY <1>4, <1>9, <1>11 DEF vf
\* The same node, or nodes in one set.
Together(uf, y, z) ==
    y = z \/ (y \in Known(uf) /\ z \in Known(uf) /\ RootOf(uf, y) = RootOf(uf, z))

\* Who is together is the same after a find.
LEMMA FindJoinsNone ==
  ASSUME NEW uf, DisjointSets(uf), NEW x
  PROVE  \A y, z : Together(Find(uf, x), y, z) <=> Together(uf, y, z)
<1> DEFINE vf == Find(uf, x)
<1>1. /\ Known(vf) = Known(uf) \cup {x}
      /\ \A y \in Known(uf) : RootOf(vf, y) = RootOf(uf, y) /\ RootOf(uf, y) \in Known(uf)
      /\ x \notin Known(uf) => RootOf(vf, x) = x
  BY Finds, RootFacts DEF DisjointSets
<1> HIDE DEF vf
<1>2. ASSUME NEW y, NEW z PROVE Together(vf, y, z) <=> Together(uf, y, z)
  BY <1>1 DEF Together
<1> QED BY <1>2 DEF vf

\* union puts the sets of its two nodes together, and nothing else.
LEMMA Unites ==
  ASSUME NEW uf, DisjointSets(uf), NEW a, NEW b
  PROVE  /\ DisjointSets(Union(uf, a, b)) /\ Known(Union(uf, a, b)) = Known(uf) \cup {a, b}
         /\ \A y, z : Together(Union(uf, a, b), y, z) <=>
              \/ Together(uf, y, z)
              \/ Together(uf, y, a) /\ Together(uf, b, z)
              \/ Together(uf, y, b) /\ Together(uf, a, z)
<1> DEFINE first == Find(uf, a)
           found == Find(first, b)
           ra == RootOf(found, a)
           rb == RootOf(found, b)
           vf == Union(uf, a, b)
<1>1. DisjointSets(first) /\ Known(first) = Known(uf) \cup {a}
  BY Finds
<1> HIDE DEF first
<1>2. DisjointSets(found) /\ Known(found) = Known(uf) \cup {a, b}
  BY <1>1, Finds
<1>3. \A y, z : Together(found, y, z) <=> Together(uf, y, z)
  BY <1>1, FindJoinsNone DEF first
<1> HIDE DEF found
<1>4. /\ ra \in Known(found) /\ found.parent[ra] = ra
      /\ rb \in Known(found) /\ found.parent[rb] = rb
      /\ found.rank[ra] \in Nat /\ found.rank[rb] \in Nat
  BY <1>2, RootFacts DEF DisjointSets, Forest
<1>5. vf = IF ra = rb THEN found
           ELSE IF found.rank[ra] < found.rank[rb] THEN Join(found, rb, ra)
           ELSE Join(found, ra, rb)
  BY DEF Union, found, first
<1> HIDE DEF ra, rb, vf
<1>6. CASE ra = rb
  <2>1. vf = found /\ Together(uf, a, b)
    BY <1>2, <1>3, <1>5, <1>6 DEF Together, ra, rb
  <2>2. ASSUME NEW y, NEW z
        PROVE  Together(found, y, z) <=> \/ Together(found, y, z)
                                         \/ Together(found, y, a) /\ Together(found, b, z)
                                         \/ Together(found, y, b) /\ Together(found, a, z)
    BY <1>2, <1>6 DEF Together, ra, rb
  <2> QED BY <1>2, <1>3, <2>1, <2>2 DEF vf
<1>7. CASE ra # rb
  <2>1. PICK winner \in {ra, rb}, loser \in {ra, rb} :
          winner # loser /\ found.rank[loser] <= found.rank[winner] /\ vf = Join(found, winner, loser)
    BY <1>4, <1>5, <1>7
  <2>2. winner \in Known(found) /\ loser \in Known(found) /\ found.parent[winner] = winner /\ found.parent[loser] = loser
    BY <1>4
  <2>3. /\ DisjointSets(vf) /\ Known(vf) = Known(found)
        /\ \A y \in Known(found) : RootOf(vf, y) = IF RootOf(found, y) = loser THEN winner ELSE RootOf(found, y)
    BY <1>2, <2>1, <2>2, Joins
  <2>4. ASSUME NEW y, NEW z
        PROVE  Together(vf, y, z) <=> \/ Together(found, y, z)
                                      \/ Together(found, y, a) /\ Together(found, b, z)
                                      \/ Together(found, y, b) /\ Together(found, a, z)
    <3>1. a \in Known(found) /\ b \in Known(found)
      BY <1>2
    <3>2. CASE y \in Known(found) /\ z \in Known(found)
      <4> DEFINE ry == RootOf(found, y)
                 rz == RootOf(found, z)
      <4>1. \A p \in Known(found), q \in Known(found) : Together(found, p, q) <=> RootOf(found, p) = RootOf(found, q)
        BY DEF Together
      <4>2. Together(vf, y, z) <=> RootOf(vf, y) = RootOf(vf, z)
        BY <2>3, <3>2 DEF Together
      <4>3. /\ RootOf(vf, y) = IF ry = loser THEN winner ELSE ry
            /\ RootOf(vf, z) = IF rz = loser THEN winner ELSE rz
        BY <2>3, <3>2
      <4>4. /\ Together(found, y, z) <=> ry = rz
            /\ Together(found, y, a) <=> ry = ra
            /\ Together(found, y, b) <=> ry = rb
            /\ Together(found, a, z) <=> ra = rz
            /\ Together(found, b, z) <=> rb = rz
        BY <3>1, <3>2, <4>1 DEF ra, rb
      <4> HIDE DEF ry, rz
      <4> QED BY <2>1, <4>2, <4>3, <4>4
    <3>3. CASE ~(y \in Known(found) /\ z \in Known(found))
      BY <2>3, <3>1, <3>3 DEF Together
    <3> QED BY <3>2, <3>3
  <2> QED BY <1>2, <1>3, <2>3, <2>4 DEF vf
<1> QED BY <1>6, <1>7

-----------------------------------------------------------------------------
(* Components: the sets against the transfers *)

\* A set no transfer leads out of or into.
Closed(transfers, S) == \A t \in transfers : t.src \in S <=> t.dst \in S

\* No such set has one without the other: a chain of transfers connects them.
Connected(transfers, y, z) == \A S : Closed(transfers, S) => (y \in S <=> z \in S)

\* The sets are of accounts, transfers are within them, and nothing else is together.
ComponentsInv ==
    /\ DisjointSets(components) /\ Known(components) \subseteq Nodes
    /\ \A t \in history : /\ t.src \in Known(components) /\ t.dst \in Known(components)
                          /\ Together(components, t.src, t.dst)
    /\ \A y, z : Together(components, y, z) => Connected(history, y, z)

\* Reading a size is a find at most.
LEMMA SizeReads ==
  ASSUME NEW uf, DisjointSets(uf), NEW x
  PROVE  /\ DisjointSets(AfterSizeRead(uf, x)) /\ Known(AfterSizeRead(uf, x)) = Known(uf)
         /\ \A y, z : Together(AfterSizeRead(uf, x), y, z) <=> Together(uf, y, z)
<1>1. CASE x \in Known(uf)
  <2>1. AfterSizeRead(uf, x) = Find(uf, x) /\ Known(uf) \cup {x} = Known(uf)
    BY <1>1 DEF AfterSizeRead
  <2>2. DisjointSets(Find(uf, x)) /\ Known(Find(uf, x)) = Known(uf) \cup {x}
    BY Finds
  <2>3. \A y, z : Together(Find(uf, x), y, z) <=> Together(uf, y, z)
    BY FindJoinsNone
  <2> QED BY <2>1, <2>2, <2>3
<1>2. CASE x \notin Known(uf)
  BY <1>2 DEF AfterSizeRead
<1> QED BY <1>1, <1>2

\* Nothing is known and nothing was added.
LEMMA ComponentsBegin == Init => ComponentsInv
<1> SUFFICES ASSUME Init PROVE ComponentsInv
  OBVIOUS
<1>1. components = Empty /\ history = {}
  BY DEF Init
<1>2. DOMAIN (<<>>) = {}
  OBVIOUS
<1>3. Empty = [parent |-> Empty.parent, rank |-> Empty.rank, size |-> Empty.size] /\ Known(Empty) = {}
  BY <1>2 DEF Empty, Known
<1>4. \A T : <<>> \in [{} -> T]
  BY <1>2
<1>5. Forest(Empty)
  <2>1. Empty.parent = <<>> /\ Empty.rank = <<>> /\ Empty.size = <<>>
    BY DEF Empty
  <2>2. \E most \in Nat : TRUE
    OBVIOUS
  <2> QED BY <1>3, <1>4, <2>1, <2>2 DEF Forest
<1>6. DisjointSets(Empty)
  BY <1>3, <1>5, FS_EmptySet DEF DisjointSets
<1> QED BY <1>1, <1>3, <1>6 DEF ComponentsInv, Together, Connected

\* A transfer unites the sets of its two accounts; whatever else is called only finds.
LEMMA ComponentsKept == ComponentsInv /\ [Next]_vars => ComponentsInv'
<1> SUFFICES ASSUME ComponentsInv, [Next]_vars PROVE ComponentsInv'
  OBVIOUS
<1>1. ASSUME NEW x, components' = AfterSizeRead(components, x), history' = history
      PROVE  ComponentsInv'
  <2>1. /\ DisjointSets(components') /\ Known(components') = Known(components)
        /\ \A y, z : Together(components', y, z) <=> Together(components, y, z)
    BY <1>1, SizeReads DEF ComponentsInv
  <2> QED BY <1>1, <2>1 DEF ComponentsInv
<1>2. ASSUME NEW src \in Nodes, NEW dst \in Nodes, NEW amount \in Amounts, NEW ts \in Times, AddEdge(src, dst, amount, ts)
      PROVE  ComponentsInv'
  <2> DEFINE joined == Union(components, src, dst)
  <2>1. PICK new : new.src = src /\ new.dst = dst /\ history' = history \cup {new}
    <3>1. \E depth, nth : history' = history \cup {[src |-> src, dst |-> dst, amount |-> amount, ts |-> ts,
                                                    depth |-> depth, nth |-> nth]}
      BY <1>2 DEF AddEdge
    <3> QED BY <3>1
  <2>2. components' = AfterSizeRead(joined, src)
    BY <1>2 DEF AddEdge
  <2>3. /\ DisjointSets(joined) /\ Known(joined) = Known(components) \cup {src, dst}
        /\ \A y, z : Together(joined, y, z) <=> \/ Together(components, y, z)
                                                \/ Together(components, y, src) /\ Together(components, dst, z)
                                                \/ Together(components, y, dst) /\ Together(components, src, z)
    BY Unites DEF ComponentsInv
  <2> HIDE DEF joined
  <2>4. /\ DisjointSets(components') /\ Known(components') = Known(components) \cup {src, dst}
        /\ \A y, z : Together(components', y, z) <=> Together(joined, y, z)
    BY <2>2, <2>3, SizeReads
  <2>5. \A t \in history' : /\ t.src \in Known(components') /\ t.dst \in Known(components')
                            /\ Together(components', t.src, t.dst)
    <3>1. \A t \in history : /\ t.src \in Known(components') /\ t.dst \in Known(components')
                             /\ Together(components', t.src, t.dst)
      BY <2>3, <2>4 DEF ComponentsInv
    <3>2. Together(components, src, src) /\ Together(components, dst, dst)
      BY DEF Together
    <3>3. Together(components', src, dst)
      BY <2>3, <2>4, <3>2
    <3> QED BY <2>1, <2>4, <3>1, <3>3
  <2>6. ASSUME NEW y, NEW z, Together(components', y, z), NEW S, Closed(history', S)
        PROVE  y \in S <=> z \in S
    <3>1. Closed(history, S) /\ (src \in S <=> dst \in S)
      BY <2>1, <2>6 DEF Closed
    <3>2. \A p, q : Together(components, p, q) => (p \in S <=> q \in S)
      BY <3>1 DEF ComponentsInv, Connected
    <3>3. \/ Together(components, y, z)
          \/ Together(components, y, src) /\ Together(components, dst, z)
          \/ Together(components, y, dst) /\ Together(components, src, z)
      BY <2>3, <2>4, <2>6
    <3> QED BY <3>1, <3>2, <3>3
  <2>7. \A y, z : Together(components', y, z) => Connected(history', y, z)
    BY <2>6 DEF Connected
  <2>8. Known(components') \subseteq Nodes
    BY <2>4 DEF ComponentsInv
  <2> QED BY <2>4, <2>5, <2>7, <2>8 DEF ComponentsInv
<1>3. ASSUME NEW src \in Nodes, NEW ts \in Times, LookAt(src, ts)
      PROVE  ComponentsInv'
  BY <1>1, <1>3 DEF LookAt
<1>4. ASSUME NEW root \in Nodes, NEW depth \in 1 .. 2, NEW now \in Times, ReadNeighborhood(root, depth, now)
      PROVE  ComponentsInv'
  BY <1>1, <1>4 DEF ReadNeighborhood
<1>5. CASE UNCHANGED vars
  BY <1>5 DEF vars, ComponentsInv
<1> QED BY <1>2, <1>3, <1>4, <1>5 DEF Next
\* The accounts one transfer away.
Neighbours(m) == {k \in Nodes : <<m, k>> \in Pairs(history) \/ <<k, m>> \in Pairs(history)}

\* With the accounts as steps the walk of Component has come to an end: it is the least set with
\* this account that no transfer leads out of.
LEMMA ComponentIsLeast ==
  ASSUME ComponentsInv, NEW n \in Nodes
  PROVE  /\ n \in Component(n) /\ Component(n) \subseteq Nodes /\ Closed(history, Component(n))
         /\ \A S : Closed(history, S) /\ n \in S => Component(n) \subseteq S
<1> DEFINE N == Cardinality(Nodes)
           Further(W) == W \cup UNION {Neighbours(m) : m \in W}
           Solves(f, k) == f = [h \in 0 .. k |-> IF h = 0 THEN {n} ELSE Further(f[h - 1])]
           W == CHOOSE f : Solves(f, N)
<1>1. IsFiniteSet(Nodes) /\ N \in Nat
  BY GraphAssumption, FS_CardinalityType
<1> HIDE DEF N
<1>2. \E f : Solves(f, N)
  <2> DEFINE T == {k \in Nat : \E f : Solves(f, k)}
  <2>1. 0 \in T
    <3> DEFINE f == [h \in 0 .. 0 |-> {n}]
    <3>1. f = [h \in 0 .. 0 |-> IF h = 0 THEN {n} ELSE Further(f[h - 1])]
      BY \A h \in 0 .. 0 : h = 0
    <3> QED BY <3>1
  <2>2. ASSUME NEW k \in Nat, k \in T PROVE k + 1 \in T
    <3>1. PICK f : Solves(f, k)
      BY <2>2
    <3> DEFINE g == [h \in 0 .. k + 1 |-> IF h = k + 1 THEN Further(f[k]) ELSE f[h]]
    <3>2. ASSUME NEW h \in 0 .. k + 1 PROVE g[h] = IF h = 0 THEN {n} ELSE Further(g[h - 1])
      <4> HIDE DEF Further
      <4>1. CASE h = k + 1
        <5>1. h # 0 /\ h - 1 = k /\ k \in 0 .. k + 1 /\ k # k + 1
          BY <4>1
        <5>2. g[h - 1] = f[k]
          BY <5>1
        <5> QED BY <4>1, <5>1, <5>2
      <4>2. CASE h # k + 1
        <5>1. h \in 0 .. k /\ g[h] = f[h]
          BY <4>2
        <5>2. f[h] = IF h = 0 THEN {n} ELSE Further(f[h - 1])
          BY <3>1, <5>1
        <5>3. h # 0 => h - 1 \in 0 .. k + 1 /\ h - 1 # k + 1
          BY <5>1
        <5>4. h # 0 => g[h - 1] = f[h - 1]
          BY <5>3
        <5> QED BY <5>1, <5>2, <5>4
      <4> QED BY <4>1, <4>2
    <3>3. Solves(g, k + 1)
      <4> HIDE DEF Further
      <4>1. g = [h \in 0 .. k + 1 |-> g[h]]
        OBVIOUS
      <4> HIDE DEF g
      <4> QED BY <3>2, <4>1
    <3> HIDE DEF Solves, g
    <3>4. k + 1 \in Nat
      OBVIOUS
    <3> QED BY <3>3, <3>4
  <2> HIDE DEF T
  <2>3. N \in T
    BY <1>1, <2>1, <2>2, AllNumbers
  <2> QED BY <2>3 DEF T
<1>3. Solves(W, N)
  <2> HIDE DEF Solves
  <2> QED BY <1>2
<1>4. Component(n) = W[N]
  BY DEF Component, Neighbours, N
<1> HIDE DEF W
<1>5. W[0] = {n} /\ \A h \in 0 .. N : h # 0 => W[h] = Further(W[h - 1])
  <2> HIDE DEF Further
  <2>1. 0 \in 0 .. N
    BY <1>1
  <2> QED BY <1>3, <2>1
<1> HIDE DEF Solves
\* Every step stays among the accounts, and goes no further than it has to.
<1>6. \A h \in 0 .. N : /\ n \in W[h] /\ W[h] \subseteq Nodes
                        /\ \A S : Closed(history, S) /\ n \in S => W[h] \subseteq S
  <2> DEFINE Right(h) == /\ n \in W[h] /\ W[h] \subseteq Nodes
                         /\ \A S : Closed(history, S) /\ n \in S => W[h] \subseteq S
             T == {h \in Nat : h <= N => Right(h)}
  <2>1. 0 \in T
    BY <1>5
  <2>2. ASSUME NEW k \in Nat, k \in T PROVE k + 1 \in T
    <3> SUFFICES ASSUME k + 1 <= N PROVE Right(k + 1)
      OBVIOUS
    <3>1. k + 1 \in 0 .. N /\ k + 1 # 0 /\ (k + 1) - 1 = k /\ k <= N
      BY <1>1
    <3>2. W[k + 1] = Further(W[k])
      <4> HIDE DEF Further
      <4> QED BY <1>5, <3>1
    <3>3. Right(k)
      BY <2>2, <3>1
    <3>4. ASSUME NEW S, Closed(history, S), n \in S PROVE W[k + 1] \subseteq S
      <4>1. W[k] \subseteq S
        BY <3>3, <3>4
      <4>2. \A m \in W[k] : Neighbours(m) \subseteq S
        BY <3>4, <4>1 DEF Neighbours, Pairs, Closed
      <4> QED BY <3>2, <4>1, <4>2
    <3>5. n \in W[k + 1] /\ W[k + 1] \subseteq Nodes
      BY <3>2, <3>3 DEF Neighbours
    <3> QED BY <3>4, <3>5
  <2>3. \A h \in Nat : h \in T
    <3> HIDE DEF T
    <3> QED BY <2>1, <2>2, AllNumbers
  <2> HIDE DEF Right
  <2>4. \A h \in 0 .. N : Right(h)
    BY <1>1, <2>3
  <2> QED BY <2>4 DEF Right
\* A step that gains nothing is the last; one that gains something counts.
<1>7. \A h \in 0 .. N : Further(W[h]) = W[h] \/ Cardinality(W[h]) >= h + 1
  <2> DEFINE T == {h \in Nat : h <= N => Further(W[h]) = W[h] \/ Cardinality(W[h]) >= h + 1}
  <2>1. 0 \in T
    <3>1. Cardinality(W[0]) = 1
      BY <1>5, FS_Singleton
    <3> HIDE DEF Further
    <3> QED BY <3>1
  <2>2. ASSUME NEW k \in Nat, k \in T PROVE k + 1 \in T
    <3> SUFFICES ASSUME k + 1 <= N
                 PROVE  Further(W[k + 1]) = W[k + 1] \/ Cardinality(W[k + 1]) >= (k + 1) + 1
      OBVIOUS
    <3>1. k + 1 \in 0 .. N /\ k + 1 # 0 /\ (k + 1) - 1 = k /\ k <= N /\ k \in 0 .. N
      BY <1>1
    <3>2. W[k + 1] = Further(W[k])
      <4> HIDE DEF Further
      <4> QED BY <1>5, <3>1
    <3>3. Further(W[k]) = W[k] \/ Cardinality(W[k]) >= k + 1
      BY <2>2, <3>1
    <3>4. CASE Further(W[k]) = W[k]
      <4> HIDE DEF Further
      <4> QED BY <3>2, <3>4
    <3>5. CASE Further(W[k]) # W[k]
      <4>1. W[k] \subseteq W[k + 1] /\ W[k] # W[k + 1]
        BY <3>2, <3>5
      <4>2. IsFiniteSet(W[k + 1])
        BY <1>1, <1>6, <3>1, FS_Subset
      <4>3. /\ IsFiniteSet(W[k]) /\ Cardinality(W[k]) <= Cardinality(W[k + 1])
            /\ Cardinality(W[k + 1]) # Cardinality(W[k])
        <5>1. W[k] \in SUBSET W[k + 1]
          BY <4>1
        <5> QED BY <4>1, <4>2, <5>1, FS_Subset
      <4>4. Cardinality(W[k]) \in Nat /\ Cardinality(W[k + 1]) \in Nat
        BY <4>2, <4>3, FS_CardinalityType
      <4> HIDE DEF Further
      <4> QED BY <3>3, <3>5, <4>3, <4>4
    <3> QED BY <3>4, <3>5
  <2>3. \A h \in Nat : h \in T
    <3> HIDE DEF T
    <3> QED BY <2>1, <2>2, AllNumbers
  <2> HIDE DEF Further
  <2> QED BY <1>1, <2>3
<1>8. N \in 0 .. N
  BY <1>1
<1>9. Further(W[N]) = W[N]
  <2>1. W[N] \in SUBSET Nodes
    BY <1>6, <1>8
  <2>2. Cardinality(W[N]) <= N /\ Cardinality(W[N]) \in Nat
    BY <1>1, <2>1, FS_Subset, FS_CardinalityType DEF N
  <2> HIDE DEF Further
  <2> QED BY <1>1, <1>7, <1>8, <2>2
<1>10. Closed(history, W[N])
  <2> SUFFICES ASSUME NEW t \in history PROVE t.src \in W[N] <=> t.dst \in W[N]
    BY DEF Closed
  <2>1. t.src \in Nodes /\ t.dst \in Nodes /\ <<t.src, t.dst>> \in Pairs(history)
    BY DEF ComponentsInv, Pairs
  <2>2. t.dst \in Neighbours(t.src) /\ t.src \in Neighbours(t.dst)
    BY <2>1 DEF Neighbours
  <2> QED BY <1>9, <2>2
<1> QED BY <1>4, <1>6, <1>8, <1>10

\* What the sets say of an account is what the transfers say of it.
LEMMA ComponentsAreExact == ComponentsInv => ComponentsExact
<1> SUFFICES ASSUME ComponentsInv PROVE ComponentsExact
  OBVIOUS
<1>1. ASSUME NEW n \in Nodes PROVE ComponentSizeIfKnown(components, n) = Cardinality(Component(n))
  <2>1. /\ n \in Component(n) /\ Component(n) \subseteq Nodes /\ Closed(history, Component(n))
        /\ \A S : Closed(history, S) /\ n \in S => Component(n) \subseteq S
    BY ComponentIsLeast
  <2>2. CASE n \in Known(components)
    <3>1. Closed(history, Class(components, n)) /\ n \in Class(components, n)
      BY <2>2 DEF ComponentsInv, Closed, Class, Together
    <3>2. ASSUME NEW y \in Class(components, n) PROVE y \in Component(n)
      <4>1. Together(components, n, y)
        BY <2>2 DEF Class, Together
      <4> QED BY <2>1, <4>1 DEF ComponentsInv, Connected
    <3>3. Component(n) = Class(components, n)
      BY <2>1, <3>1, <3>2
    <3> QED BY <2>2, <3>3 DEF ComponentsInv, DisjointSets, ComponentSizeIfKnown, ComponentSize
  <2>3. CASE n \notin Known(components)
    <3>1. Closed(history, {n})
      BY <2>3 DEF ComponentsInv, Closed
    <3>2. Component(n) = {n}
      BY <2>1, <3>1
    <3>3. Cardinality({n}) = 1
      BY FS_Singleton
    <3> QED BY <2>3, <3>2, <3>3 DEF ComponentSizeIfKnown
  <2> QED BY <2>2, <2>3
<1>2. \A n \in Known(components) : components.parent[n] # n =>
        components.rank[n] < components.rank[components.parent[n]]
  BY DEF ComponentsInv, DisjointSets, Forest
<1> QED BY <1>1, <1>2 DEF ComponentsExact

(* The sets and ranks of UnionFind are sound whatever is added and read:   *)
(* ranks grow towards the roots, the size at a root is that of its set,    *)
(* transfers are within sets, and only what they connect is together.      *)
THEOREM SetsFollowHistory == Spec => []ComponentsInv
<1> QED BY ComponentsBegin, ComponentsKept, PTL DEF Spec

(* ComponentsExact: the component size a check sees is that of the         *)
(* accounts that all transfers so far connect, for any number of accounts  *)
(* and transfers (union, find and componentSizeIfKnown).                   *)
THEOREM ComponentsAreRight == Spec => []ComponentsExact
<1> QED BY SetsFollowHistory, ComponentsAreExact, PTL
=============================================================================
