-------------------------- MODULE TransactionGraph --------------------------
(***************************************************************************)
(* The in-memory transfer graph of the stream engine, with the cycle       *)
(* search, the pass-through match and the two signals of the graph check.  *)
(*                                                                         *)
(* One graph serves all stream threads and the read API; its methods are   *)
(* synchronized, so each is one action here.  What the threads do to each  *)
(* other is time: a partition that lags hands over transfers stamped       *)
(* before those already in the graph, and the read API expires edges by    *)
(* the wall clock.  Every action therefore takes any time of Times.        *)
(*                                                                         *)
(* history keeps every transfer ever added, with the number it had among   *)
(* the transfers of its sender; only the properties read it.               *)
(***************************************************************************)
EXTENDS UnionFind, Sequences, SequencesExt

CONSTANTS
  Nodes,           \* accounts
  Amounts,         \* amounts of transfers
  Times,           \* event times, and wall-clock times of reads
  MaxTransfers,    \* bound: transfers in a behaviour
  MaxEdgesPerNode, \* graph.maxEdgesPerNode
  EdgeTtl,         \* graph.edgeTtlHours
  MaxCycleDepth,   \* graph.maxCycleDepth
  MinCycleLength,  \* graph.minCycleLength
  PassWindow,      \* graph.passThroughWindowMins
  MinRatio,        \* graph.passThroughMinRatio, in percent
  MaxRatio,        \* graph.passThroughMaxRatio, in percent
  MinDepth,        \* graph.passThroughMinDepth
  MaxChainDepth    \* TransactionGraph.MAX_CHAIN_DEPTH

ASSUME GraphAssumption ==
  /\ IsFiniteSet(Nodes) /\ Amounts \subseteq Nat \ {0} /\ Times \subseteq Int
  /\ MaxEdgesPerNode \in Nat \ {0} /\ EdgeTtl \in Nat /\ PassWindow \in Nat
  /\ MaxCycleDepth \in Nat \ {0} /\ MinCycleLength \in Nat /\ MinDepth \in Nat
  /\ MaxTransfers \in Nat /\ MinRatio \in Nat /\ MaxRatio \in Nat /\ MaxChainDepth \in Nat \ {0}

VARIABLES
  adjacency,   \* per account, its outgoing transfers, oldest insertion first
  inbound,     \* per account, the transfers that arrived in it
  components,  \* the disjoint sets
  history,     \* every transfer added so far
  newest,      \* the latest time any call has used
  last         \* the transfer just checked and what the check saw

vars == <<adjacency, inbound, components, history, newest, last>>

Edge == [dst : Nodes, ts : Times, depth : 0..MaxChainDepth]
Inbound == [src : Nodes, amount : Amounts, ts : Times, depth : 0..MaxChainDepth]
Transfer == [src : Nodes, dst : Nodes, amount : Amounts, ts : Times, depth : 0..MaxChainDepth,
             nth : 1..MaxTransfers]

-----------------------------------------------------------------------------
(* Expiry.  Edges are dropped from the front up to the first live one: the *)
(* code takes the deque to be in time order, which late transfers are not. *)
StaleAtTheLimit(edges, now) ==
  {n \in 0..Len(edges) : \A i \in 1..n : edges[i].ts <= now - EdgeTtl}

Stale(edges, now) ==
  {n \in 0..Len(edges) : \A i \in 1..n : edges[i].ts < now - EdgeTtl}

NeverExpired(edges, now) == edges

Expired(edges, now) ==
  SubSeq(edges, 1 + CHOOSE n \in Stale(edges, now) : \A m \in Stale(edges, now) : m <= n, Len(edges))

(* The edges of the nodes a call looks at are expired, the others stay. *)
Trimmed(adj, touched, now) == [n \in Nodes |-> IF n \in touched THEN Expired(adj[n], now) ELSE adj[n]]

Newest(edges, n) == IF Len(edges) <= n THEN edges ELSE SubSeq(edges, Len(edges) - n + 1, Len(edges))

-----------------------------------------------------------------------------
(* Depth-first search from path's last node back to its first, in the      *)
(* order of the edges: the first cycle found, and the nodes looked at.     *)
Paths == UNION {[1..n -> Nodes] : n \in 2..MaxCycleDepth}

NoCycle == [cycle |-> <<>>, touched |-> {}]

CanExtend(path, next) == Len(path) < MaxCycleDepth /\ next \notin Range(path)

(* One node of the search, dfs being the search from longer paths. *)
Tried(dfs, adj, src, now, path, i) ==
  LET next == Expired(adj[Last(path)], now)[i].dst
  IN  IF next = src THEN [cycle |-> Append(path, src), touched |-> {}]
      ELSE IF CanExtend(path, next) THEN dfs[Append(path, next)]
      ELSE NoCycle

(* The first edge that leads to a cycle decides; those after it are not followed. *)
FirstFound(node, tries) ==
  LET hits  == {i \in DOMAIN tries : tries[i].cycle # <<>>}
      tried == {i \in DOMAIN tries : \A h \in hits : i <= h}
  IN  [cycle |-> IF hits = {} THEN <<>> ELSE tries[CHOOSE i \in hits : \A h \in hits : i <= h].cycle,
       touched |-> {node} \cup UNION {tries[i].touched : i \in tried}]

Explored(dfs, adj, src, now, path) ==
  FirstFound(Last(path), [i \in DOMAIN Expired(adj[Last(path)], now) |-> Tried(dfs, adj, src, now, path, i)])

Search(adj, src, now) ==
  LET Dfs[path \in Paths] == Explored(Dfs, adj, src, now, path) IN Dfs

FindCycle(adj, src, dst, now) ==
  IF MaxCycleDepth < 2 \/ src = dst THEN NoCycle ELSE Search(adj, src, now)[<<src, dst>>]

-----------------------------------------------------------------------------
(* Pass-through: the most recent arrival in the window that this amount    *)
(* forwards, else the most recent one as context.                          *)
InBand(amount, received) == 100 * amount >= MinRatio * received /\ 100 * amount <= MaxRatio * received

(* arrivals.removeIf, written out as a function. *)
WithinWindow(arrivals, ts) ==
  LET Left[n \in 0..Len(arrivals)] ==
        IF n = 0 THEN <<>>
        ELSE IF arrivals[n].ts < ts - PassWindow THEN Left[n - 1]
        ELSE Append(Left[n - 1], arrivals[n])
  IN  Left[Len(arrivals)]

NoInbound == [from |-> {}, amount |-> 0, secs |-> -1, depth |-> 0]

PassThroughOfLatest(arrivals, amount, ts) ==
  LET past == {i \in DOMAIN arrivals : arrivals[i].ts <= ts}
      used == arrivals[CHOOSE i \in past : \A j \in past : j <= i]
  IN  IF past = {} THEN NoInbound
      ELSE [from |-> {used.src}, amount |-> used.amount, secs |-> ts - used.ts,
            depth |-> IF ~InBand(amount, used.amount) THEN 0
                      ELSE IF used.depth + 1 < MaxChainDepth THEN used.depth + 1 ELSE MaxChainDepth]

PassThrough(arrivals, amount, ts) ==
  LET past == {i \in DOMAIN arrivals : arrivals[i].ts <= ts}
      matching == {i \in past : InBand(amount, arrivals[i].amount)}
      candidates == IF matching = {} THEN past ELSE matching
      used == arrivals[CHOOSE i \in candidates : \A j \in candidates : j <= i]
  IN  IF past = {} THEN NoInbound
      ELSE [from |-> {used.src}, amount |-> used.amount, secs |-> ts - used.ts,
            depth |-> IF matching = {} THEN 0
                      ELSE IF used.depth + 1 < MaxChainDepth THEN used.depth + 1 ELSE MaxChainDepth]

-----------------------------------------------------------------------------
(* What the check stage sees, and the signals of GraphCheck.               *)
View(adj, uf, src, ts, cycle, pass) ==
  [cycle |-> cycle, outDegree |-> Len(Expired(adj[src], ts)),
   componentSize |-> ComponentSizeIfKnown(uf, src), pass |-> pass]

Signals(view) ==
  {s \in {"RING_SUSPECT", "PASS_THROUGH"} :
     \/ s = "RING_SUSPECT" /\ view.cycle # <<>> /\ Len(view.cycle) - 1 >= MinCycleLength
     \/ s = "PASS_THROUGH" /\ view.pass.depth >= MinDepth}

NothingChecked == [src |-> {}]

-----------------------------------------------------------------------------
Init ==
  /\ adjacency = [n \in Nodes |-> <<>>]
  /\ inbound = [n \in Nodes |-> <<>>]
  /\ components = Empty
  /\ history = {}
  /\ newest \in {t \in Times : \A u \in Times : t <= u}
  /\ last = NothingChecked

Clock(ts) == newest' = IF ts > newest THEN ts ELSE newest

(* addEdge for a transfer between two accounts. *)
AddEdge(src, dst, amount, ts) ==
  LET arrivals == WithinWindow(inbound[src], ts)
      pass == PassThrough(arrivals, amount, ts)
      edge == [dst |-> dst, ts |-> ts, depth |-> pass.depth]
      added == [adjacency EXCEPT ![src] = Newest(Append(Expired(@, ts), edge), MaxEdgesPerNode)]
      arrival == [src |-> src, amount |-> amount, ts |-> ts, depth |-> pass.depth]
      search == FindCycle(added, src, dst, ts)
      joined == Union(components, src, dst)
      nth == 1 + Cardinality({t \in history : t.src = src})
  IN /\ src # dst
     /\ Cardinality(history) < MaxTransfers
     /\ adjacency' = Trimmed(added, search.touched \cup {src}, ts)
     /\ inbound' = [inbound EXCEPT ![src] = arrivals,
                                   ![dst] = Newest(Append(@, arrival), MaxEdgesPerNode)]
     /\ components' = AfterSizeRead(joined, src)
     /\ history' = history \cup {[src |-> src, dst |-> dst, amount |-> amount, ts |-> ts,
                                  depth |-> pass.depth, nth |-> nth]}
     /\ Clock(ts)
     /\ last' = [src |-> {src}, dst |-> dst, amount |-> amount, ts |-> ts, nth |-> nth,
                 view |-> View(added, joined, src, ts, search.cycle, pass)]

(* view, for a transaction that is no transfer (or is one to oneself). *)
LookAt(src, ts) ==
  /\ adjacency' = Trimmed(adjacency, {src}, ts)
  /\ components' = AfterSizeRead(components, src)
  /\ Clock(ts)
  /\ last' = NothingChecked
  /\ UNCHANGED <<inbound, history>>

-----------------------------------------------------------------------------
(* The read API: a breadth-first walk and the cycles through the root.     *)
Successors(adj, nodes, now) ==
  UNION {{e.dst : e \in Range(Expired(adj[n], now))} : n \in nodes}

Reached(adj, root, hops, now) ==
  LET Within[h \in 0..hops] ==
        IF h = 0 THEN {root} ELSE Within[h - 1] \cup Successors(adj, Within[h - 1], now)
  IN  Within[hops]

Searches(adj, root, now) == {FindCycle(adj, root, e.dst, now) : e \in Range(Expired(adj[root], now))}

(* neighborhood expires the edges of every node it walks over. *)
ReadNeighborhood(root, depth, now) ==
  LET searched == UNION {s.touched : s \in Searches(adjacency, root, now)}
  IN /\ adjacency' = Trimmed(adjacency, {root} \cup Reached(adjacency, root, depth, now) \cup searched, now)
     /\ components' = AfterSizeRead(components, root)
     /\ Clock(now)
     /\ last' = NothingChecked
     /\ UNCHANGED <<inbound, history>>

Next ==
  \/ \E src, dst \in Nodes, amount \in Amounts, ts \in Times : AddEdge(src, dst, amount, ts)
  \/ \E src \in Nodes, ts \in Times : LookAt(src, ts)
  \/ \E root \in Nodes, depth \in 1..2, now \in Times : ReadNeighborhood(root, depth, now)

Spec == Init /\ [][Next]_vars

-----------------------------------------------------------------------------
(* The transfers the graph may still hold of each sender: its last ones.   *)
Retained == {t \in history :
  Cardinality({u \in history : u.src = t.src /\ u.nth > t.nth}) < MaxEdgesPerNode}

Pairs(transfers) == {<<t.src, t.dst>> : t \in transfers}

(* The cycles of at least len accounts that begin with this transfer.      *)
Rings(len, src, dst, pairs) ==
  {p \in UNION {[1..n -> Nodes] : n \in len..MaxCycleDepth} :
     /\ p[1] = src /\ p[2] = dst
     /\ \A i, j \in DOMAIN p : p[i] = p[j] => i = j
     /\ \A i \in DOMAIN p : <<p[i], p[1 + (i % Len(p))]>> \in pairs}

(* A reported cycle is a ring the money really took: it starts with this   *)
(* transfer, returns to its sender through distinct accounts within the    *)
(* depth bound, and each hop is a transfer the graph holds; one older than *)
(* the TTL is used only behind a fresher one that was inserted before it   *)
(* (the search and expire of TransactionGraph, under late transfers).      *)
CycleIsReal ==
  last # NothingChecked /\ last.view.cycle # <<>> =>
    LET loop == last.view.cycle
        usable == {t \in Retained :
          \/ t.ts >= last.ts - EdgeTtl
          \/ \E u \in history : u.src = t.src /\ u.nth < t.nth /\ u.ts >= last.ts - EdgeTtl}
    IN \E src \in last.src :
         Last(loop) = src /\ Front(loop) \in Rings(2, src, last.dst, Pairs(usable))

(* A ring of transfers that are fresh by the latest time any call has used *)
(* is not missed when its last transfer arrives, whatever late transfers,  *)
(* reads and expirations went before.                                      *)
FreshRingFound ==
  last # NothingChecked =>
    LET fresh == {t \in Retained : t.ts >= newest - EdgeTtl}
    IN \A src \in last.src :
         Rings(2, src, last.dst, Pairs(fresh)) # {} => last.view.cycle # <<>>

(* The component a check sees is never smaller than the accounts that      *)
(* transfers connect ("stays a superset, never a miss"), nor larger, and   *)
(* the forest behind it is sound: ranks grow towards the roots.            *)
Component(n) ==
  LET Linked(m) == {k \in Nodes : <<m, k>> \in Pairs(history) \/ <<k, m>> \in Pairs(history)}
      Within[h \in 0..Cardinality(Nodes)] ==
        IF h = 0 THEN {n} ELSE Within[h - 1] \cup UNION {Linked(m) : m \in Within[h - 1]}
  IN  Within[Cardinality(Nodes)]

ComponentsExact ==
  /\ \A n \in Nodes : ComponentSizeIfKnown(components, n) = Cardinality(Component(n))
  /\ \A n \in Known(components) : components.parent[n] # n =>
       components.rank[n] < components.rank[components.parent[n]]

(* The chain depth a check sees is right.  Above zero it is earned: an     *)
(* earlier transfer of one depth less arrived in the sender within the     *)
(* window, not after this one, and this amount is in the ratio band of it. *)
(* And it is above zero if such a transfer arrived and neither the window  *)
(* of a later call nor the cap has removed it.                             *)
Funds(t, src, amount, ts) ==
  t.dst = src /\ t.ts <= ts /\ t.ts >= ts - PassWindow /\ InBand(amount, t.amount)

ChainDepthIsRight ==
  last # NothingChecked =>
    LET earlier == {t \in history : t.src \notin last.src \/ t.nth < last.nth}
        funds(src) == {t \in earlier : Funds(t, src, last.amount, last.ts)}
    IN \A src \in last.src :
         /\ last.view.pass.depth > 0 =>
              \E t \in funds(src) :
                /\ last.view.pass.from = {t.src}
                /\ last.view.pass.depth = IF t.depth + 1 < MaxChainDepth THEN t.depth + 1 ELSE MaxChainDepth
         /\ /\ \E t \in funds(src) : t.ts >= newest - PassWindow
            /\ Cardinality({u \in earlier : u.dst = src}) <= MaxEdgesPerNode
            => last.view.pass.depth > 0

(* docs/fraudgraph-lld.md:165: "A path returning to the source = cycle →   *)
(* RING_SUSPECT" (and :162 excludes only cycles of length two).            *)
RingRaisesSignal ==
  last # NothingChecked =>
    LET fresh == {t \in Retained : t.ts >= newest - EdgeTtl}
    IN \A src \in last.src :
         Rings(MinCycleLength, src, last.dst, Pairs(fresh)) # {} => "RING_SUSPECT" \in Signals(last.view)
=============================================================================
