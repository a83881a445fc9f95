----------------------------- MODULE UnionFind -----------------------------
(***************************************************************************)
(* A union-find structure under any sequence of the calls that             *)
(* buildClusters (clusterGraph.ts) makes: union for every strong edge,     *)
(* find for the ends of every edge, groups at the end.                     *)
(***************************************************************************)
EXTENDS DisjointSets, FiniteSets

CONSTANT Nodes  \* what the calls name: wallets

VARIABLE uf

ForestInit == uf = Empty

DoFind(x) == uf' = Find(uf, x)

DoUnion(a, b) == uf' = Union(uf, a, b)

DoGroups == uf' = CompressAll(uf)

ForestNext == \/ \E x \in Nodes : DoFind(x)
              \/ \E a, b \in Nodes : DoUnion(a, b)
              \/ DoGroups

ForestSpec == ForestInit /\ [][ForestNext]_uf

-----------------------------------------------------------------------------
Known == DOMAIN uf.parent

\* Both maps have the same keys, and parents are known wallets.
TypeOK ==
  /\ Known \subseteq Nodes
  /\ uf \in [parent : [Known -> Known], rank : [Known -> Nat]]

\* Along every parent pointer the rank grows, so both loops of find end
\* (unionFind.ts:15 and :20), whatever compressions and unions came before.
RankGrows ==
  \A x \in Known : uf.parent[x] # x => uf.rank[x] < uf.rank[uf.parent[x]]

\* What callers rely on: the groups are the partition generated by the
\* unions, and neither compression nor the rank rule moves a wallet to
\* another group.
P == INSTANCE Partition WITH Wallets <- Nodes, classes <- Classes(uf.parent)

IsPartition == P!Spec
=============================================================================
