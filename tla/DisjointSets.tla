---------------------------- MODULE DisjointSets ----------------------------
(***************************************************************************)
(* The union-find structure of cluster detection (unionFind.ts) as         *)
(* operators on a record uf = [parent, rank] of two functions with the     *)
(* same domain: the wallets the structure has met.                         *)
(*                                                                         *)
(* The code walks parent pointers in a loop.  The nodes it passes are the  *)
(* least set that holds the starting node and is closed under parent, so   *)
(* the walk is stated without recursion.                                   *)
(***************************************************************************)
EXTENDS Naturals

Empty == [parent |-> [x \in {} |-> x], rank |-> [x \in {} |-> 0]]

\* ensure: a wallet that was never met is its own root
Ensure(uf, x) ==
  IF x \in DOMAIN uf.parent
  THEN uf
  ELSE LET known == DOMAIN uf.parent \cup {x} IN
       [parent |-> [y \in known |-> IF y = x THEN x ELSE uf.parent[y]],
        rank   |-> [y \in known |-> IF y = x THEN 0 ELSE uf.rank[y]]]

ClosedUnder(p, S) == \A z \in S : p[z] \in S

\* the nodes the loops of find visit from x: x, its parent, ... up to the root
Ancestors(p, x) ==
  {y \in DOMAIN p : \A S \in SUBSET DOMAIN p : x \in S /\ ClosedUnder(p, S) => y \in S}

\* the node the first loop stops at
Root(p, x) == CHOOSE y \in Ancestors(p, x) : p[y] = y

\* the second loop: every node on the walk now points to the root
Compress(p, x) ==
  [y \in DOMAIN p |-> IF y \in Ancestors(p, x) THEN Root(p, x) ELSE p[y]]

Find(uf, x) ==
  LET u == Ensure(uf, x) IN [parent |-> Compress(u.parent, x), rank |-> u.rank]

\* union by rank of two different roots
Link(u, ra, rb) ==
  IF u.rank[ra] < u.rank[rb]
  THEN [parent |-> [u.parent EXCEPT ![ra] = rb], rank |-> u.rank]
  ELSE [parent |-> [u.parent EXCEPT ![rb] = ra],
        rank   |-> IF u.rank[ra] = u.rank[rb] THEN [u.rank EXCEPT ![ra] = @ + 1] ELSE u.rank]

\* Mutant: links the wallet b, not its root.
Union_LinksWallet(uf, a, b) ==
  LET u  == Find(Find(uf, a), b)
      ra == Root(u.parent, a)
  IN IF ra = Root(u.parent, b) THEN u ELSE Link(u, ra, b)

Union(uf, a, b) ==
  LET u  == Find(Find(uf, a), b)
      ra == Root(u.parent, a)
      rb == Root(u.parent, b)
  IN IF ra = rb THEN u ELSE Link(u, ra, rb)

Class(p, x) == {y \in DOMAIN p : Root(p, y) = Root(p, x)}

\* groups() without its keys; it finds every member, which compresses every path
Classes(p) == {Class(p, x) : x \in DOMAIN p}

CompressAll(uf) == [parent |-> [y \in DOMAIN uf.parent |-> Root(uf.parent, y)], rank |-> uf.rank]
=============================================================================
