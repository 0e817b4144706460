------------------------------ MODULE UnionFind ------------------------------
(***************************************************************************)
(* The disjoint sets of the transfer graph (UnionFind.java): path          *)
(* compression and union by rank over nodes that are created on first      *)
(* sight.  A structure is a record of three functions over the nodes seen  *)
(* so far; the operators give the structure after a call.                  *)
(***************************************************************************)
EXTENDS Integers, FiniteSets

Empty == [parent |-> <<>>, rank |-> <<>>, size |-> <<>>]

Known(uf) == DOMAIN uf.parent

With(f, x, v) == [y \in DOMAIN f \cup {x} |-> IF y = x THEN v ELSE f[y]]

Create(uf, x) ==
  IF x \in Known(uf) THEN uf
  ELSE [parent |-> With(uf.parent, x, x), rank |-> With(uf.rank, x, 0), size |-> With(uf.size, x, 1)]

RootOf(uf, x) ==
  LET Root[y \in Known(uf)] == IF uf.parent[y] = y THEN y ELSE Root[uf.parent[y]]
  IN  Root[x]

(* The nodes find walks over on its way to the root. *)
PathOf(uf, x) ==
  LET Path[y \in Known(uf)] == {y} \cup IF uf.parent[y] = y THEN {} ELSE Path[uf.parent[y]]
  IN  Path[x]

(* find: creates the node, and hangs the whole path under the root. *)
Find(uf, x) ==
  LET created == Create(uf, x)
  IN  [created EXCEPT !.parent = [y \in Known(created) |->
         IF y \in PathOf(created, x) THEN RootOf(created, x) ELSE created.parent[y]]]

JoinWithoutSize(uf, winner, loser) ==
  [uf EXCEPT !.parent[loser] = winner,
             !.rank[winner] = IF uf.rank[loser] = @ THEN @ + 1 ELSE @]

Join(uf, winner, loser) ==
  [parent |-> [uf.parent EXCEPT ![loser] = winner],
   rank |-> [uf.rank EXCEPT ![winner] = IF uf.rank[loser] = @ THEN @ + 1 ELSE @],
   size |-> [uf.size EXCEPT ![winner] = @ + uf.size[loser]]]

Union(uf, a, b) ==
  LET found == Find(Find(uf, a), b)
      ra == RootOf(found, a)
      rb == RootOf(found, b)
  IN  IF ra = rb THEN found
      ELSE IF found.rank[ra] < found.rank[rb] THEN Join(found, rb, ra)
      ELSE Join(found, ra, rb)

ComponentSize(uf, x) == uf.size[RootOf(uf, x)]

(* The size without creating an unknown node. *)
ComponentSizeIfKnown(uf, x) == IF x \in Known(uf) THEN ComponentSize(uf, x) ELSE 1

(* Reading the size compresses the path all the same. *)
AfterSizeRead(uf, x) == IF x \in Known(uf) THEN Find(uf, x) ELSE uf
=============================================================================
