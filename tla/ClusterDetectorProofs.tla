------------------------ MODULE ClusterDetectorProofs ------------------------
(***************************************************************************)
(* Cluster detection for any trades, wallets and thresholds.               *)
(*                                                                         *)
(* The union-find structure: ranks grow along parent pointers, every walk  *)
(* ends in one root, and the groups are the partition generated by the     *)
(* unions.  Roots are handled through one lemma (RootIs): a map that is    *)
(* constant along parent pointers and fixes the roots is the root map.     *)
(*                                                                         *)
(* The clusters: GeneratedBy says what the classes of a set of edges are,  *)
(* without an order, and each step of the fold keeps it; so they are the   *)
(* components.  The flags: no step takes away the evidence of a lasting    *)
(* flag, and in order the pair that a timing edge stands for stays.        *)
(***************************************************************************)
EXTENDS ClusterDetector, UnionFind, WellFoundedInduction, FiniteSetTheorems, TLAPS

-----------------------------------------------------------------------------
(* The union-find structure.                                               *)

\* The forest: two maps with one domain, rank grows along parent, ranks bounded.
Forest(u) ==
  LET D == DOMAIN u.parent IN
  /\ u = [parent |-> u.parent, rank |-> u.rank]
  /\ u.parent \in [D -> D]
  /\ u.rank \in [D -> Nat]
  /\ \A x \in D : u.parent[x] # x => u.rank[x] < u.rank[u.parent[x]]
  /\ \E n \in Nat : \A x \in D : u.rank[x] <= n

-----------------------------------------------------------------------------
(* Walks.                                                                  *)

\* A closed set that holds x holds every ancestor of x.
LEMMA AncestorsIn ==
  ASSUME NEW D, NEW p \in [D -> D], NEW x \in D, NEW S \in SUBSET D,
         x \in S, ClosedUnder(p, S)
  PROVE  Ancestors(p, x) \subseteq S
  BY DEF Ancestors

\* The ancestors of x hold x and are closed under parent.
LEMMA AncestorsClosed ==
  ASSUME NEW D, NEW p \in [D -> D], NEW x \in D
  PROVE  /\ x \in Ancestors(p, x)
         /\ Ancestors(p, x) \subseteq D
         /\ ClosedUnder(p, Ancestors(p, x))
  BY DEF Ancestors, ClosedUnder

\* The ancestors of an ancestor are ancestors.
LEMMA AncestorsTransitive ==
  ASSUME NEW D, NEW p \in [D -> D], NEW x \in D, NEW y \in Ancestors(p, x)
  PROVE  Ancestors(p, y) \subseteq Ancestors(p, x)
  <1>1. Ancestors(p, x) \in SUBSET D /\ ClosedUnder(p, Ancestors(p, x)) /\ y \in D
    BY AncestorsClosed
  <1>. QED BY <1>1, AncestorsIn

\* A walk is its first node and the walk from that node's parent.
LEMMA AncestorsStep ==
  ASSUME NEW D, NEW p \in [D -> D], NEW x \in D
  PROVE  Ancestors(p, x) \subseteq {x} \cup Ancestors(p, p[x])
  <1>. DEFINE S == {x} \cup Ancestors(p, p[x])
  <1>1. p[x] \in Ancestors(p, p[x]) /\ Ancestors(p, p[x]) \subseteq D
        /\ ClosedUnder(p, Ancestors(p, p[x]))
    BY AncestorsClosed
  <1>2. ClosedUnder(p, S)
    BY <1>1 DEF ClosedUnder
  <1>3. S \in SUBSET D /\ x \in S
    BY <1>1
  <1>4. Ancestors(p, x) \subseteq S
    BY <1>2, <1>3, AncestorsIn
  <1>. QED BY <1>4

\* A walk that starts at a root stays there.
LEMMA AncestorsOfRoot ==
  ASSUME NEW D, NEW p \in [D -> D], NEW x \in D, p[x] = x
  PROVE  Ancestors(p, x) = {x}
  <1>1. ClosedUnder(p, {x}) /\ {x} \in SUBSET D
    BY DEF ClosedUnder
  <1>2. Ancestors(p, x) \subseteq {x}
    BY <1>1, AncestorsIn
  <1>. QED BY <1>2, AncestorsClosed

\* Every walk reaches a root: the ancestor of highest rank is its own parent.
LEMMA RootExists ==
  ASSUME NEW u, Forest(u), NEW x \in DOMAIN u.parent
  PROVE  \E y \in Ancestors(u.parent, x) : u.parent[y] = y
  <1>. DEFINE D == DOMAIN u.parent
              p == u.parent
              A == Ancestors(p, x)
  <1>1. p \in [D -> D] /\ u.rank \in [D -> Nat]
        /\ \A z \in D : p[z] # z => u.rank[z] < u.rank[p[z]]
    BY DEF Forest
  <1>2. PICK n \in Nat : \A z \in D : u.rank[z] <= n
    BY DEF Forest
  <1>. DEFINE T == {n - u.rank[y] : y \in A}
  <1>3. x \in A /\ A \subseteq D /\ \A y \in A : p[y] \in A
    BY <1>1, AncestorsClosed DEF ClosedUnder
  <1>4. T \subseteq Nat /\ T # {}
    <2>1. \A y \in A : n - u.rank[y] \in Nat
      BY <1>1, <1>2, <1>3
    <2>. QED BY <2>1, <1>3
  <1>5. \E m \in T : \A k \in T : ~ (<<k, m>> \in OpToRel(<, Nat))
    <2>. HIDE DEF T
    <2>1. IsWellFoundedOn(OpToRel(<, Nat), Nat)
      BY NatLessThanWellFounded
    <2>. QED BY <1>4, <2>1, WFMin
  <1>6. PICK y \in A : \A k \in T : ~ (<<k, n - u.rank[y]>> \in OpToRel(<, Nat))
    BY <1>5
  <1>7. ASSUME p[y] # y PROVE FALSE
    <2>1. u.rank[y] \in Nat /\ u.rank[p[y]] \in Nat /\ u.rank[y] < u.rank[p[y]]
          /\ u.rank[p[y]] <= n
      BY <1>1, <1>2, <1>3, <1>7
    <2>2. n - u.rank[p[y]] \in T
      BY <1>3
    <2>3. n - u.rank[p[y]] \in Nat /\ n - u.rank[y] \in Nat /\ n - u.rank[p[y]] < n - u.rank[y]
      BY <2>1
    <2>4. <<n - u.rank[p[y]], n - u.rank[y]>> \in OpToRel(<, Nat)
      BY <2>3 DEF OpToRel
    <2>. QED BY <2>2, <2>4, <1>6
  <1>. QED BY <1>7

\* A walk meets at most one root.
LEMMA RootUnique ==
  ASSUME NEW D, NEW p \in [D -> D], NEW x \in D,
         NEW y \in Ancestors(p, x), p[y] = y,
         NEW z \in Ancestors(p, x), p[z] = z
  PROVE  y = z
  <1>. DEFINE S == {w \in D : y \in Ancestors(p, w)}
  <1>1. ClosedUnder(p, S)
    <2>1. ASSUME NEW w \in S PROVE p[w] \in S
      <3>1. w \in D /\ y \in Ancestors(p, w) /\ p[w] \in D
        OBVIOUS
      <3>2. y = w \/ y \in Ancestors(p, p[w])
        BY <3>1, AncestorsStep
      <3>3. CASE y = w
        BY <3>1, <3>3, AncestorsClosed
      <3>4. CASE y \in Ancestors(p, p[w])
        BY <3>1, <3>4
      <3>. QED BY <3>2, <3>3, <3>4
    <2>. QED BY <2>1 DEF ClosedUnder
  <1>2. S \in SUBSET D /\ x \in S
    OBVIOUS
  <1>3. Ancestors(p, x) \subseteq S
    BY <1>1, <1>2, AncestorsIn
  <1>4. z \in D /\ y \in Ancestors(p, z)
    BY <1>3
  <1>. QED BY <1>4, AncestorsOfRoot

\* What find returns: the one root of the walk.
LEMMA RootOf ==
  ASSUME NEW u, Forest(u), NEW x \in DOMAIN u.parent
  PROVE  /\ Root(u.parent, x) \in Ancestors(u.parent, x)
         /\ Root(u.parent, x) \in DOMAIN u.parent
         /\ u.parent[Root(u.parent, x)] = Root(u.parent, x)
  <1>1. u.parent \in [DOMAIN u.parent -> DOMAIN u.parent]
    BY DEF Forest
  <1>2. Ancestors(u.parent, x) \subseteq DOMAIN u.parent
    BY <1>1, AncestorsClosed
  <1>. QED BY <1>2, RootExists DEF Root

\* Every node of a walk has the root of the walk.
LEMMA RootOfAncestor ==
  ASSUME NEW u, Forest(u), NEW x \in DOMAIN u.parent, NEW y \in Ancestors(u.parent, x)
  PROVE  Root(u.parent, y) = Root(u.parent, x)
  <1>. DEFINE D == DOMAIN u.parent
              p == u.parent
  <1>1. p \in [D -> D]
    BY DEF Forest
  <1>2. y \in D
    BY <1>1, AncestorsClosed
  <1>3. Root(p, y) \in Ancestors(p, y) /\ p[Root(p, y)] = Root(p, y)
    BY <1>2, RootOf
  <1>4. Root(p, x) \in Ancestors(p, x) /\ p[Root(p, x)] = Root(p, x)
    BY RootOf
  <1>5. Root(p, y) \in Ancestors(p, x)
    BY <1>1, <1>3, AncestorsTransitive
  <1>. QED BY <1>1, <1>3, <1>4, <1>5, RootUnique

\* A root is its own root.
LEMMA RootOfRoot ==
  ASSUME NEW u, Forest(u), NEW x \in DOMAIN u.parent, u.parent[x] = x
  PROVE  Root(u.parent, x) = x
  <1>1. u.parent \in [DOMAIN u.parent -> DOMAIN u.parent]
    BY DEF Forest
  <1>2. Ancestors(u.parent, x) = {x}
    BY <1>1, AncestorsOfRoot
  <1>. QED BY <1>2, RootOf

\* A node that is not a root ranks below its root.
LEMMA RankBelowRoot ==
  ASSUME NEW u, Forest(u), NEW x \in DOMAIN u.parent, Root(u.parent, x) # x
  PROVE  u.rank[x] < u.rank[Root(u.parent, x)]
  <1>. DEFINE D == DOMAIN u.parent
              p == u.parent
              S == {w \in D : u.rank[p[x]] <= u.rank[w]}
  <1>1. p \in [D -> D] /\ u.rank \in [D -> Nat]
        /\ \A z \in D : p[z] # z => u.rank[z] < u.rank[p[z]]
    BY DEF Forest
  <1>2. p[x] # x /\ p[x] \in D
    BY <1>1, RootOfRoot
  <1>3. ClosedUnder(p, S)
    <2>1. ASSUME NEW w \in S PROVE p[w] \in S
      <3>1. w \in D /\ p[w] \in D /\ u.rank[w] \in Nat /\ u.rank[p[w]] \in Nat
            /\ u.rank[p[x]] \in Nat /\ u.rank[p[x]] <= u.rank[w]
        BY <1>1, <1>2
      <3>2. u.rank[w] <= u.rank[p[w]]
        BY <1>1, <3>1
      <3>. QED BY <3>1, <3>2
    <2>. QED BY <2>1 DEF ClosedUnder
  <1>4. S \in SUBSET D /\ p[x] \in S
    BY <1>1, <1>2
  <1>5. Ancestors(p, p[x]) \subseteq S
    BY <1>1, <1>2, <1>3, <1>4, AncestorsIn
  <1>6. p[x] \in Ancestors(p, x)
    BY <1>1, AncestorsClosed DEF ClosedUnder
  <1>7. Root(p, p[x]) = Root(p, x) /\ Root(p, p[x]) \in Ancestors(p, p[x])
    BY <1>2, <1>6, RootOf, RootOfAncestor
  <1>8. u.rank[p[x]] <= u.rank[Root(p, x)] /\ Root(p, x) \in D
    BY <1>5, <1>7, <1>1
  <1>9. u.rank[x] < u.rank[p[x]] /\ u.rank[x] \in Nat /\ u.rank[p[x]] \in Nat
    BY <1>1, <1>2
  <1>. QED BY <1>8, <1>9, <1>1

\* How roots are computed after a change of the forest.
LEMMA RootIs ==
  ASSUME NEW u, Forest(u), NEW f,
         \A z \in DOMAIN u.parent : f[u.parent[z]] = f[z],
         \A z \in DOMAIN u.parent : u.parent[z] = z => f[z] = z,
         NEW x \in DOMAIN u.parent
  PROVE  Root(u.parent, x) = f[x]
  <1>. DEFINE D == DOMAIN u.parent
              p == u.parent
              S == {z \in D : f[z] = f[x]}
  <1>1. p \in [D -> D]
    BY DEF Forest
  <1>2. ClosedUnder(p, S) /\ S \in SUBSET D /\ x \in S
    BY <1>1 DEF ClosedUnder
  <1>3. Root(p, x) \in Ancestors(p, x) /\ p[Root(p, x)] = Root(p, x)
    BY RootOf
  <1>4. Root(p, x) \in S
    BY <1>1, <1>2, <1>3, AncestorsIn
  <1>. QED BY <1>3, <1>4

-----------------------------------------------------------------------------
(* What each operation does to the forest and to the roots.                *)

\* ensure adds a wallet as its own root and leaves the other roots alone.
LEMMA EnsureRoots ==
  ASSUME NEW u, Forest(u), NEW x
  PROVE  LET v == Ensure(u, x) IN
         /\ Forest(v)
         /\ DOMAIN v.parent = DOMAIN u.parent \cup {x}
         /\ \A y \in DOMAIN u.parent : Root(v.parent, y) = Root(u.parent, y)
         /\ x \notin DOMAIN u.parent => Root(v.parent, x) = x
  <1>. DEFINE v == Ensure(u, x)
              D == DOMAIN u.parent
              p == u.parent
              f == [y \in D \cup {x} |-> IF y \in D THEN Root(p, y) ELSE x]
  <1>1. CASE x \in D
    <2>1. v = u /\ D \cup {x} = D
      BY <1>1 DEF Ensure
    <2>. QED BY <1>1, <2>1
  <1>2. CASE x \notin D
    <2>1. /\ v.parent = [y \in D \cup {x} |-> IF y = x THEN x ELSE p[y]]
          /\ v.rank = [y \in D \cup {x} |-> IF y = x THEN 0 ELSE u.rank[y]]
          /\ v = [parent |-> v.parent, rank |-> v.rank]
      BY <1>2 DEF Ensure
    <2>2. p \in [D -> D] /\ u.rank \in [D -> Nat]
          /\ \A z \in D : p[z] # z => u.rank[z] < u.rank[p[z]]
      BY DEF Forest
    <2>3. PICK n \in Nat : \A z \in D : u.rank[z] <= n
      BY DEF Forest
    <2>4. DOMAIN v.parent = D \cup {x}
      BY <2>1
    <2>5. v.parent \in [D \cup {x} -> D \cup {x}] /\ v.rank \in [D \cup {x} -> Nat]
      BY <2>1, <2>2
    <2>6. \A z \in D \cup {x} : v.parent[z] # z => v.rank[z] < v.rank[v.parent[z]]
      BY <1>2, <2>1, <2>2
    <2>7. \A z \in D \cup {x} : v.rank[z] <= n
      BY <2>1, <2>2, <2>3
    <2>8. Forest(v)
      <3>. HIDE DEF v
      <3>. QED BY <2>1, <2>4, <2>5, <2>6, <2>7 DEF Forest
    <2>9. \A z \in D \cup {x} : f[v.parent[z]] = f[z]
      <3>1. \A z \in D : p[z] \in D /\ Root(p, p[z]) = Root(p, z)
        <4>1. \A z \in D : p[z] \in Ancestors(p, z)
          BY <2>2, AncestorsClosed DEF ClosedUnder
        <4>. QED BY <2>2, <4>1, RootOfAncestor
      <3>. QED BY <1>2, <2>1, <3>1
    <2>10. \A z \in D \cup {x} : v.parent[z] = z => f[z] = z
      BY <1>2, <2>1, RootOfRoot
    <2>11. \A z \in D \cup {x} : Root(v.parent, z) = f[z]
      <3>. HIDE DEF v, f
      <3>. QED BY <2>4, <2>8, <2>9, <2>10, RootIs
    <2>. QED BY <1>2, <2>4, <2>8, <2>11
  <1>. QED BY <1>1, <1>2

\* The path compression of find moves no wallet to another root.
LEMMA CompressRoots ==
  ASSUME NEW u, Forest(u), NEW x \in DOMAIN u.parent,
         NEW v, v = [parent |-> Compress(u.parent, x), rank |-> u.rank]
  PROVE  /\ Forest(v)
         /\ DOMAIN v.parent = DOMAIN u.parent
         /\ \A y \in DOMAIN u.parent : Root(v.parent, y) = Root(u.parent, y)
  <1>. DEFINE D == DOMAIN u.parent
              p == u.parent
              A == Ancestors(p, x)
              r == Root(p, x)
              f == [y \in D |-> Root(p, y)]
  <1>1. v.parent = [y \in D |-> IF y \in A THEN r ELSE p[y]] /\ v.rank = u.rank
        /\ v = [parent |-> v.parent, rank |-> v.rank]
    BY DEF Compress
  <1>2. p \in [D -> D] /\ u.rank \in [D -> Nat]
        /\ \A z \in D : p[z] # z => u.rank[z] < u.rank[p[z]]
    BY DEF Forest
  <1>3. r \in D /\ p[r] = r /\ Root(p, r) = r
    BY RootOf, RootOfRoot
  <1>4. \A y \in A : y \in D /\ Root(p, y) = r
    BY <1>2, AncestorsClosed, RootOfAncestor
  <1>5. DOMAIN v.parent = D /\ v.parent \in [D -> D]
    BY <1>1, <1>2, <1>3
  <1>6. ASSUME NEW z \in D, v.parent[z] # z
        PROVE  v.rank[z] < v.rank[v.parent[z]]
    <2>1. CASE z \in A
      <3>1. v.parent[z] = r /\ Root(p, z) = r /\ r # z
        BY <1>1, <1>4, <1>6, <2>1
      <3>2. u.rank[z] < u.rank[r]
        BY <3>1, RankBelowRoot
      <3>. QED BY <1>1, <3>1, <3>2
    <2>2. CASE z \notin A
      BY <1>1, <1>2, <1>6, <2>2
    <2>. QED BY <2>1, <2>2
  <1>7. Forest(v)
    <2>1. \E n \in Nat : \A z \in D : u.rank[z] <= n
      BY DEF Forest
    <2>. QED BY <1>1, <1>2, <1>5, <1>6, <2>1 DEF Forest
  <1>8. \A z \in D : f[v.parent[z]] = f[z]
    <2>1. \A z \in D : p[z] \in D /\ Root(p, p[z]) = Root(p, z)
      <3>1. \A z \in D : p[z] \in Ancestors(p, z)
        BY <1>2, AncestorsClosed DEF ClosedUnder
      <3>. QED BY <1>2, <3>1, RootOfAncestor
    <2>. QED BY <1>1, <1>3, <1>4, <2>1
  <1>9. \A z \in D : v.parent[z] = z => f[z] = z
    BY <1>1, <1>3, <1>4, RootOfRoot
  <1>10. \A z \in D : Root(v.parent, z) = f[z]
    <2>. HIDE DEF f
    <2>. QED BY <1>5, <1>7, <1>8, <1>9, RootIs
  <1>. QED BY <1>5, <1>7, <1>10

\* find, with the ensure it starts with.
LEMMA FindRoots ==
  ASSUME NEW u, Forest(u), NEW x, NEW v, v = Find(u, x)
  PROVE  /\ Forest(v)
         /\ DOMAIN v.parent = DOMAIN u.parent \cup {x}
         /\ \A y \in DOMAIN u.parent : Root(v.parent, y) = Root(u.parent, y)
         /\ x \notin DOMAIN u.parent => Root(v.parent, x) = x
  <1>. DEFINE w == Ensure(u, x)
  <1>1. v = [parent |-> Compress(w.parent, x), rank |-> w.rank]
    BY DEF Find
  <1>2. /\ Forest(w)
        /\ DOMAIN w.parent = DOMAIN u.parent \cup {x}
        /\ \A y \in DOMAIN u.parent : Root(w.parent, y) = Root(u.parent, y)
        /\ x \notin DOMAIN u.parent => Root(w.parent, x) = x
    BY EnsureRoots
  <1>. HIDE DEF w
  <1>3. /\ Forest(v)
        /\ DOMAIN v.parent = DOMAIN w.parent
        /\ \A y \in DOMAIN w.parent : Root(v.parent, y) = Root(w.parent, y)
    <2>1. x \in DOMAIN w.parent
      BY <1>2
    <2>. QED BY <1>1, <1>2, <2>1, CompressRoots
  <1>. QED BY <1>2, <1>3

\* A parent pointer from one root to another hands over its whole class.
LEMMA LinkRoots ==
  ASSUME NEW u, Forest(u), NEW ra \in DOMAIN u.parent, NEW rb \in DOMAIN u.parent,
         u.parent[ra] = ra, u.parent[rb] = rb, ra # rb, NEW v, v = Link(u, ra, rb)
  PROVE  /\ Forest(v)
         /\ DOMAIN v.parent = DOMAIN u.parent
         /\ \E top \in {ra, rb} : \A y \in DOMAIN u.parent :
              Root(v.parent, y) = IF Root(u.parent, y) \in {ra, rb} THEN top
                                  ELSE Root(u.parent, y)
  <1>. DEFINE D == DOMAIN u.parent
              p == u.parent
  <1>1. p \in [D -> D] /\ u.rank \in [D -> Nat]
        /\ \A z \in D : p[z] # z => u.rank[z] < u.rank[p[z]]
    BY DEF Forest
  <1>2. PICK n \in Nat : \A z \in D : u.rank[z] <= n
    BY DEF Forest
  \* the two ways to link, by the loser (who becomes a child) and the winner
  <1>3. \E lo \in {ra, rb}, hi \in {ra, rb} :
          /\ lo # hi
          /\ v.parent = [p EXCEPT ![lo] = hi]
          /\ v = [parent |-> v.parent, rank |-> v.rank]
          /\ \/ v.rank = u.rank /\ u.rank[lo] < u.rank[hi]
             \/ v.rank = [u.rank EXCEPT ![hi] = u.rank[hi] + 1] /\ u.rank[lo] = u.rank[hi]
    <2>1. u.rank[ra] \in Nat /\ u.rank[rb] \in Nat
      BY <1>1
    <2>2. CASE u.rank[ra] < u.rank[rb]
      <3>1. v = [parent |-> [p EXCEPT ![ra] = rb], rank |-> u.rank]
        BY <2>2 DEF Link
      <3>. QED BY <2>2, <3>1
    <2>3. CASE u.rank[ra] = u.rank[rb]
      <3>1. v = [parent |-> [p EXCEPT ![rb] = ra], rank |-> [u.rank EXCEPT ![ra] = u.rank[ra] + 1]]
        BY <2>1, <2>3 DEF Link
      <3>. QED BY <2>3, <3>1
    <2>4. CASE u.rank[rb] < u.rank[ra]
      <3>1. v = [parent |-> [p EXCEPT ![rb] = ra], rank |-> u.rank]
        BY <2>1, <2>4 DEF Link
      <3>. QED BY <2>4, <3>1
    <2>. QED BY <2>1, <2>2, <2>3, <2>4
  <1>4. PICK lo \in {ra, rb}, hi \in {ra, rb} :
          /\ lo # hi
          /\ v.parent = [p EXCEPT ![lo] = hi]
          /\ v = [parent |-> v.parent, rank |-> v.rank]
          /\ \/ v.rank = u.rank /\ u.rank[lo] < u.rank[hi]
             \/ v.rank = [u.rank EXCEPT ![hi] = u.rank[hi] + 1] /\ u.rank[lo] = u.rank[hi]
    BY <1>3
  <1>5. lo \in D /\ hi \in D /\ p[lo] = lo /\ p[hi] = hi /\ {lo, hi} = {ra, rb}
    BY <1>4
  <1>6. DOMAIN v.parent = D /\ v.parent \in [D -> D]
    BY <1>1, <1>4, <1>5
  <1>7. v.rank \in [D -> Nat] /\ \A z \in D : v.rank[z] <= n + 1
    BY <1>1, <1>2, <1>4, <1>5
  <1>8. ASSUME NEW z \in D, v.parent[z] # z
        PROVE  v.rank[z] < v.rank[v.parent[z]]
    <2>1. u.rank[z] \in Nat /\ u.rank[lo] \in Nat /\ u.rank[hi] \in Nat /\ u.rank[p[z]] \in Nat
      BY <1>1, <1>5
    <2>2. CASE z = lo
      <3>1. v.parent[z] = hi
        BY <1>1, <1>4, <1>5, <2>2
      <3>. QED BY <1>1, <1>4, <1>5, <2>1, <2>2, <3>1
    <2>3. CASE z # lo
      <3>1. v.parent[z] = p[z] /\ p[z] # z /\ z # hi
        BY <1>1, <1>4, <1>5, <1>8, <2>3
      <3>2. u.rank[z] < u.rank[p[z]] /\ p[z] \in D
        BY <1>1, <3>1
      <3>3. v.rank[z] = u.rank[z] /\ u.rank[p[z]] <= v.rank[p[z]] /\ v.rank[p[z]] \in Nat
        BY <1>1, <1>4, <1>5, <2>1, <3>1, <3>2
      <3>. QED BY <2>1, <3>1, <3>2, <3>3
    <2>. QED BY <2>2, <2>3
  <1>9. Forest(v)
    <2>1. n + 1 \in Nat
      OBVIOUS
    <2>. QED BY <1>4, <1>6, <1>7, <1>8, <2>1 DEF Forest
  <1>. DEFINE f == [y \in D |-> IF Root(p, y) \in {ra, rb} THEN hi ELSE Root(p, y)]
  <1>10. \A z \in D : f[v.parent[z]] = f[z]
    <2>1. \A z \in D : p[z] \in D /\ Root(p, p[z]) = Root(p, z)
      <3>1. \A z \in D : p[z] \in Ancestors(p, z)
        BY <1>1, AncestorsClosed DEF ClosedUnder
      <3>. QED BY <1>1, <3>1, RootOfAncestor
    <2>2. Root(p, lo) = lo /\ Root(p, hi) = hi
      BY <1>5, RootOfRoot
    <2>3. ASSUME NEW z \in D PROVE f[v.parent[z]] = f[z]
      <3>1. CASE z = lo
        BY <1>1, <1>4, <1>5, <2>2, <3>1
      <3>2. CASE z # lo
        BY <1>1, <1>4, <1>5, <2>1, <3>2
      <3>. QED BY <3>1, <3>2
    <2>. QED BY <2>3
  <1>11. \A z \in D : v.parent[z] = z => f[z] = z
    <2>1. ASSUME NEW z \in D, v.parent[z] = z PROVE f[z] = z
      <3>1. z # lo /\ p[z] = z
        BY <1>1, <1>4, <1>5, <2>1
      <3>2. Root(p, z) = z
        BY <3>1, RootOfRoot
      <3>. QED BY <1>5, <3>1, <3>2
    <2>. QED BY <2>1
  <1>12. \A z \in D : Root(v.parent, z) = f[z]
    <2>. HIDE DEF f
    <2>. QED BY <1>6, <1>9, <1>10, <1>11, RootIs
  <1>. QED BY <1>4, <1>6, <1>9, <1>12

\* the root of y, or y itself before it is met
Home(u, y) == IF y \in DOMAIN u.parent THEN Root(u.parent, y) ELSE y

\* the roots of v are those of u, except that the classes of a and b share one
JoinsRoots(u, v, a, b) ==
  /\ DOMAIN v.parent = DOMAIN u.parent \cup {a, b}
  /\ \E top \in {Home(u, a), Home(u, b)} : \A y \in DOMAIN u.parent \cup {a, b} :
       Root(v.parent, y) = IF Home(u, y) \in {Home(u, a), Home(u, b)} THEN top ELSE Home(u, y)

\* union: the classes of a and b get one root, every other wallet keeps its own.
LEMMA UnionRoots ==
  ASSUME NEW u, Forest(u), NEW a, NEW b, NEW v, v = Union(u, a, b)
  PROVE  Forest(v) /\ JoinsRoots(u, v, a, b)
  <1>. USE DEF JoinsRoots
  <1>. DEFINE ua == Find(u, a)
              ub == Find(ua, b)
              ra == Root(ub.parent, a)
              rb == Root(ub.parent, b)
              D  == DOMAIN u.parent \cup {a, b}
  <1>1. v = IF ra = rb THEN ub ELSE Link(ub, ra, rb)
    BY DEF Union
  <1>2. /\ Forest(ua)
        /\ DOMAIN ua.parent = DOMAIN u.parent \cup {a}
        /\ \A y \in DOMAIN u.parent : Root(ua.parent, y) = Root(u.parent, y)
        /\ a \notin DOMAIN u.parent => Root(ua.parent, a) = a
    BY FindRoots
  <1>3. /\ Forest(ub)
        /\ DOMAIN ub.parent = DOMAIN ua.parent \cup {b}
        /\ \A y \in DOMAIN ua.parent : Root(ub.parent, y) = Root(ua.parent, y)
        /\ b \notin DOMAIN ua.parent => Root(ub.parent, b) = b
    <2>. HIDE DEF ua
    <2>. QED BY <1>2, FindRoots
  <1>. HIDE DEF ua, ub
  <1>4. DOMAIN ub.parent = D /\ \A y \in D : Root(ub.parent, y) = Home(u, y)
    BY <1>2, <1>3 DEF Home
  <1>5. ra = Home(u, a) /\ rb = Home(u, b)
    BY <1>4
  <1>6. ra \in D /\ rb \in D /\ ub.parent[ra] = ra /\ ub.parent[rb] = rb
    <2>1. a \in DOMAIN ub.parent /\ b \in DOMAIN ub.parent
      BY <1>4
    <2>. QED BY <1>3, <1>4, <2>1, RootOf
  <1>7. CASE ra = rb
    BY <1>1, <1>3, <1>4, <1>5, <1>7
  <1>8. CASE ra # rb
    <2>1. v = Link(ub, ra, rb) /\ ra \in DOMAIN ub.parent /\ rb \in DOMAIN ub.parent
      BY <1>1, <1>4, <1>6, <1>8
    <2>. HIDE DEF ra, rb
    <2>2. /\ Forest(v)
          /\ DOMAIN v.parent = DOMAIN ub.parent
          /\ \E top \in {ra, rb} : \A y \in DOMAIN ub.parent :
               Root(v.parent, y) = IF Root(ub.parent, y) \in {ra, rb} THEN top
                                   ELSE Root(ub.parent, y)
      BY <1>3, <1>6, <1>8, <2>1, LinkRoots
    <2>. QED BY <1>4, <1>5, <2>2
  <1>. QED BY <1>7, <1>8

\* Partition's merge, on any set of classes
ClassIn(C, x) == {x} \cup UNION {c \in C : x \in c}
Merged(C, a, b) == {c \in C : a \notin c /\ b \notin c} \cup {ClassIn(C, a) \cup ClassIn(C, b)}

\* In terms of groups that is Partition's merge.
LEMMA RootsMerge ==
  ASSUME NEW u, Forest(u), NEW a, NEW b, NEW v, JoinsRoots(u, v, a, b)
  PROVE  Classes(v.parent) = Merged(Classes(u.parent), a, b)
  <1>. DEFINE D == DOMAIN u.parent
              E == D \cup {a, b}
              C == Classes(u.parent)
              K(y) == {z \in E : Home(u, z) = Home(u, y)}
              M == {z \in E : Home(u, z) \in {Home(u, a), Home(u, b)}}
  <1>joined. PICK top \in {Home(u, a), Home(u, b)} : \A y \in E :
           Root(v.parent, y) = IF Home(u, y) \in {Home(u, a), Home(u, b)} THEN top ELSE Home(u, y)
    BY DEF JoinsRoots
  <1>domain. DOMAIN v.parent = E
    BY DEF JoinsRoots
  <1>1. \A y \in D : Home(u, y) = Root(u.parent, y) /\ Home(u, y) \in D
    BY RootOf DEF Home
  <1>2. \A y \in E : y \notin D => Home(u, y) = y
    BY DEF Home
  <1>3. \A y \in D : K(y) = Class(u.parent, y)
    BY <1>1, <1>2 DEF Class
  <1>4. \A y \in E : y \notin D => K(y) = {y}
    BY <1>1, <1>2
  <1>5. \A c : c \in C <=> \E y \in D : c = K(y)
    <2>. HIDE DEF K
    <2>. QED BY <1>3 DEF Classes
  <1>6. \A x \in E : ClassIn(C, x) = K(x)
    <2>1. ASSUME NEW x \in E PROVE ClassIn(C, x) = K(x)
      <3>1. CASE x \in D
        <4>1. \A y \in D : x \in K(y) => K(y) = K(x)
          OBVIOUS
        <4>2. x \in K(x)
          OBVIOUS
        <4>3. K(x) \in C
          <5>. HIDE DEF K, C
          <5>. QED BY <1>5, <3>1
        <4>4. \A c \in C : x \in c => c = K(x)
          <5>. HIDE DEF K, C
          <5>. QED BY <1>5, <4>1
        <4>. HIDE DEF K, C
        <4>. QED BY <4>2, <4>3, <4>4 DEF ClassIn
      <3>2. CASE x \notin D
        <4>1. \A y \in D : x \notin K(y)
          BY <1>1, <1>2, <3>2
        <4>2. \A c \in C : x \notin c
          <5>. HIDE DEF K, C
          <5>. QED BY <1>5, <4>1
        <4>3. K(x) = {x}
          BY <1>4, <3>2
        <4>. HIDE DEF K, C
        <4>. QED BY <4>2, <4>3 DEF ClassIn
      <3>. QED BY <3>1, <3>2
    <2>. QED BY <2>1
  <1>7. M = K(a) \cup K(b)
    OBVIOUS
  <1>8. \A y \in E : Class(v.parent, y) = IF Home(u, y) \in {Home(u, a), Home(u, b)} THEN M ELSE K(y)
    BY <1>joined, <1>domain DEF Class
  <1>9. \A c : c \in Classes(v.parent) <=> \E y \in E : c = Class(v.parent, y)
    BY <1>domain DEF Classes
  <1>10. \A y \in E : Home(u, y) \notin {Home(u, a), Home(u, b)} => y \in D
    BY <1>2
  <1>11. \A y \in D : (Home(u, y) \notin {Home(u, a), Home(u, b)}) <=> (a \notin K(y) /\ b \notin K(y))
    OBVIOUS
  <1>12. \A y \in D : y \in E
    OBVIOUS
  <1>13. a \in E /\ Home(u, a) \in {Home(u, a), Home(u, b)}
    OBVIOUS
  <1>14. ClassIn(C, a) \cup ClassIn(C, b) = M
    BY <1>6, <1>7
  <1>15. ASSUME NEW c
         PROVE  c \in Classes(v.parent) <=> (c \in C /\ a \notin c /\ b \notin c) \/ c = M
    <2>. HIDE DEF K, M, C, E
    <2>1. CASE c = M
      BY <1>8, <1>9, <1>13, <2>1
    <2>2. CASE c # M
      <3>1. ASSUME c \in Classes(v.parent) PROVE c \in C /\ a \notin c /\ b \notin c
        <4>1. PICK y \in E : c = Class(v.parent, y)
          BY <1>9, <3>1
        <4>2. Home(u, y) \notin {Home(u, a), Home(u, b)} /\ c = K(y)
          BY <1>8, <2>2, <4>1
        <4>. QED BY <1>5, <1>10, <1>11, <4>2
      <3>2. ASSUME c \in C, a \notin c, b \notin c PROVE c \in Classes(v.parent)
        <4>1. PICK y \in D : c = K(y)
          BY <1>5, <3>2
        <4>. QED BY <1>8, <1>9, <1>11, <1>12, <3>2, <4>1
      <3>. QED BY <2>2, <3>1, <3>2
    <2>. QED BY <2>1, <2>2
  <1>16. Classes(v.parent) = Merged(C, a, b)
    <2>. HIDE DEF M, C
    <2>. QED BY <1>14, <1>15 DEF Merged
  <1>. QED BY <1>16

-----------------------------------------------------------------------------
(* The machine.                                                            *)

ForestInv == Known \subseteq Nodes /\ Forest(uf)

\* groups() compresses every path and moves nobody.
LEMMA CompressAllRoots ==
  ASSUME NEW u, Forest(u), NEW v, v = CompressAll(u)
  PROVE  /\ Forest(v)
         /\ DOMAIN v.parent = DOMAIN u.parent
         /\ Classes(v.parent) = Classes(u.parent)
  <1>. DEFINE D == DOMAIN u.parent
              f == [y \in D |-> Root(u.parent, y)]
  <1>1. v.parent = f /\ v.rank = u.rank /\ v = [parent |-> v.parent, rank |-> v.rank]
    BY DEF CompressAll
  <1>2. \A z \in D : f[z] \in D /\ f[f[z]] = f[z]
    BY RootOf, RootOfRoot
  <1>3. DOMAIN v.parent = D /\ v.parent \in [D -> D]
    BY <1>1, <1>2
  <1>4. \A z \in D : v.parent[z] # z => v.rank[z] < v.rank[v.parent[z]]
    BY <1>1, RankBelowRoot
  <1>5. Forest(v)
    <2>. HIDE DEF f
    <2>. QED BY <1>1, <1>3, <1>4 DEF Forest
  <1>6. \A z \in D : Root(v.parent, z) = f[z]
    <2>. HIDE DEF f
    <2>. QED BY <1>1, <1>2, <1>3, <1>5, RootIs
  <1>7. \A z \in D : Class(v.parent, z) = Class(u.parent, z)
    BY <1>3, <1>6 DEF Class
  <1>. QED BY <1>3, <1>5, <1>7 DEF Classes

\* A find is a merge of a wallet with itself.
LEMMA FindIsMeet ==
  ASSUME Forest(uf), NEW x, uf' = Find(uf, x)
  PROVE  Forest(uf') /\ Known' = Known \cup {x} /\ P!Meet(x)
  <1>1. /\ Forest(uf')
        /\ DOMAIN uf'.parent = DOMAIN uf.parent \cup {x}
        /\ \A y \in DOMAIN uf.parent : Root(uf'.parent, y) = Root(uf.parent, y)
        /\ x \notin DOMAIN uf.parent => Root(uf'.parent, x) = x
    BY FindRoots
  <1>2. JoinsRoots(uf, uf', x, x)
    BY <1>1 DEF JoinsRoots, Home
  <1>3. Classes(uf'.parent) = Merged(Classes(uf.parent), x, x)
    BY <1>2, RootsMerge
  <1>4. P!Meet(x)
    BY <1>3 DEF P!Meet, P!ClassOf, Merged, ClassIn
  <1>. QED BY <1>1, <1>4 DEF Known

\* A union is a merge.
LEMMA UnionIsMerge ==
  ASSUME Forest(uf), NEW a, NEW b, uf' = Union(uf, a, b)
  PROVE  Forest(uf') /\ Known' = Known \cup {a, b} /\ P!Merge(a, b)
  <1>1. Forest(uf') /\ JoinsRoots(uf, uf', a, b)
    BY UnionRoots
  <1>2. Classes(uf'.parent) = Merged(Classes(uf.parent), a, b)
    BY <1>1, RootsMerge
  <1>3. P!Merge(a, b)
    BY <1>2 DEF P!Merge, P!ClassOf, Merged, ClassIn
  <1>. QED BY <1>1, <1>3 DEF Known, JoinsRoots

\* An empty structure is a forest, and no class.
LEMMA ForestStarts == ForestInit => ForestInv /\ P!Init
  <1>. SUFFICES ASSUME ForestInit PROVE ForestInv /\ P!Init
    OBVIOUS
  <1>1. uf.parent = [x \in {} |-> x] /\ uf.rank = [x \in {} |-> 0]
        /\ uf = [parent |-> uf.parent, rank |-> uf.rank]
    BY DEF ForestInit, Empty
  <1>2. DOMAIN uf.parent = {}
    BY <1>1
  <1>3. uf.parent \in [{} -> {}] /\ uf.rank \in [{} -> Nat]
    BY <1>1
  <1>4. \E n \in Nat : \A x \in {} : uf.rank[x] <= n
    <2>1. 0 \in Nat
      OBVIOUS
    <2>. QED BY <2>1
  <1>5. Forest(uf)
    BY <1>1, <1>2, <1>3, <1>4 DEF Forest
  <1>. QED BY <1>2, <1>5 DEF ForestInv, Known, P!Init, Classes

\* Every step keeps the forest and is a step of the partition.
LEMMA ForestStep == ForestInv /\ [ForestNext]_uf => ForestInv' /\ [P!Next]_(Classes(uf.parent))
  <1>. SUFFICES ASSUME ForestInv, [ForestNext]_uf PROVE ForestInv' /\ [P!Next]_(Classes(uf.parent))
    OBVIOUS
  <1>. USE DEF ForestInv
  <1>1. ASSUME NEW x \in Nodes, DoFind(x)
        PROVE  ForestInv' /\ [P!Next]_(Classes(uf.parent))
    <2>1. Forest(uf') /\ Known' = Known \cup {x} /\ P!Meet(x)
      BY <1>1, FindIsMeet DEF DoFind
    <2>. QED BY <2>1 DEF P!Next
  <1>2. ASSUME NEW a \in Nodes, NEW b \in Nodes, DoUnion(a, b)
        PROVE  ForestInv' /\ [P!Next]_(Classes(uf.parent))
    <2>1. Forest(uf') /\ Known' = Known \cup {a, b} /\ P!Merge(a, b)
      BY <1>2, UnionIsMerge DEF DoUnion
    <2>. QED BY <2>1 DEF P!Next
  <1>3. ASSUME DoGroups
        PROVE  ForestInv' /\ [P!Next]_(Classes(uf.parent))
    <2>1. Forest(uf') /\ DOMAIN uf'.parent = Known /\ Classes(uf'.parent) = Classes(uf.parent)
      BY <1>3, CompressAllRoots DEF DoGroups, Known
    <2>. QED BY <2>1 DEF Known
  <1>4. CASE UNCHANGED uf
    BY <1>4 DEF Known
  <1>. QED BY <1>1, <1>2, <1>3, <1>4 DEF ForestNext

\* The invariant of the forest holds in every state.
THEOREM ForestInvariance == ForestSpec => []ForestInv
  BY ForestStarts, ForestStep, PTL DEF ForestSpec

\* The two maps of the structure (unionFind.ts:2-3) keep one domain and known parents.
THEOREM TypeCorrect == ForestSpec => []TypeOK
  <1>1. ForestInv => TypeOK
    <2>. SUFFICES ASSUME ForestInv PROVE TypeOK
      OBVIOUS
    <2>1. uf = [parent |-> uf.parent, rank |-> uf.rank]
          /\ uf.parent \in [Known -> Known] /\ uf.rank \in [Known -> Nat]
      BY DEF ForestInv, Forest, Known
    <2>2. [parent |-> uf.parent, rank |-> uf.rank] \in [parent : [Known -> Known], rank : [Known -> Nat]]
      BY <2>1
    <2>. QED BY <2>1, <2>2 DEF TypeOK, ForestInv
  <1>. QED BY <1>1, ForestInvariance, PTL

\* Ranks grow along parent pointers, so the loops of find (unionFind.ts:15, 20) end.
THEOREM RanksGrow == ForestSpec => []RankGrows
  <1>1. ForestInv => RankGrows
    BY DEF ForestInv, Forest, RankGrows, Known
  <1>. QED BY <1>1, ForestInvariance, PTL

\* The structure implements a partition: groups() returns the classes that
\* the unions generate, in whatever order the calls come.
THEOREM ImplementsPartition == ForestSpec => IsPartition
  BY ForestInvariance, ForestStarts, ForestStep, PTL DEF ForestSpec, IsPartition, P!Spec
-----------------------------------------------------------------------------
(* Folds.  Both folds of BuildClusters are functions defined by recursion  *)
(* on sets that take the members in the order of a CHOOSE.  They exist,    *)
(* and what each step keeps holds of the whole.                            *)

\* The member that a fold takes next.
First(s) == CHOOSE x \in s : TRUE

\* The two steps that are folded: edges that merge classes, wallets that are met.
Step(kind, x, classes) == IF kind = "edge" THEN UnionEdge(x, classes) ELSE FindMember(x, classes)

\* What a fold makes of a set, with what it makes of smaller ones.
Rule(kind, base, g, s) == IF s = {} THEN base ELSE Step(kind, First(s), g[s \ {First(s)}])

Folds(kind, base, g, S) == g = [s \in SUBSET S |-> Rule(kind, base, g, s)]

Below == {pair \in Nat \X Nat : pair[1] < pair[2]}

\* A set of numbers has a least one.
LEMMA LeastNumber ==
  ASSUME NEW G \in SUBSET Nat, G # {}
  PROVE  \E m \in G : \A n \in G : m <= n
<1>1. IsWellFoundedOn(Below, Nat)
  BY NatLessThanWellFounded, Zenon DEF OpToRel, Below
<1>2. PICK m \in G : \A n \in G : <<n, m>> \notin Below
  BY <1>1, WFMin, Zenon
<1>3. \A n \in G : ~ (n < m)
  BY <1>2 DEF Below
<1> QED BY <1>3

\* A set that holds zero, and with each number the next, holds them all.
LEMMA EveryNumber ==
  ASSUME NEW G, 0 \in G, \A n \in Nat : n \in G => n + 1 \in G
  PROVE  Nat \subseteq G
<1> SUFFICES ASSUME Nat \ G # {} PROVE FALSE
  OBVIOUS
<1>1. PICK m \in Nat \ G : \A n \in Nat \ G : m <= n
  <2>1. Nat \ G \subseteq Nat
    OBVIOUS
  <2> QED BY <2>1, LeastNumber
<1>2. m # 0 /\ m - 1 \in Nat /\ m - 1 < m /\ (m - 1) + 1 = m
  BY <1>1
<1>3. m - 1 \in G
  BY <1>1, <1>2
<1> QED BY <1>1, <1>2, <1>3

\* Taking the first member out of a finite set leaves a set with one member less.
LEMMA FirstOut ==
  ASSUME NEW s, IsFiniteSet(s), s # {}
  PROVE  /\ First(s) \in s
         /\ s \ {First(s)} \subseteq s
         /\ IsFiniteSet(s \ {First(s)})
         /\ Cardinality(s) \in Nat /\ Cardinality(s \ {First(s)}) \in Nat
         /\ Cardinality(s) = Cardinality(s \ {First(s)}) + 1
<1>1. First(s) \in s
  BY Zenon DEF First
<1>2. /\ IsFiniteSet(s \ {First(s)})
      /\ Cardinality(s \ {First(s)}) = Cardinality(s) - 1
  BY <1>1, FS_RemoveElement
<1>3. Cardinality(s) \in Nat /\ Cardinality(s \ {First(s)}) \in Nat
  BY <1>2, FS_CardinalityType
<1> QED BY <1>1, <1>2, <1>3

\* The function that a fold defines by recursion exists.
LEMMA FoldExists ==
  ASSUME NEW kind, NEW base, NEW S, IsFiniteSet(S)
  PROVE  \E g : Folds(kind, base, g, S)
<1> DEFINE Level(n) == {s \in SUBSET S : Cardinality(s) <= n}
           Fit(g, n) == g = [s \in Level(n) |-> Rule(kind, base, g, s)]
           G == {n \in Nat : \E g : Fit(g, n)}
<1>1. \A s \in SUBSET S : IsFiniteSet(s) /\ Cardinality(s) \in Nat
  BY FS_Subset, FS_CardinalityType
<1>2. 0 \in G
  <2> DEFINE g == [s \in Level(0) |-> base]
  <2>1. \A s \in Level(0) : s = {}
    <3> SUFFICES ASSUME NEW s \in SUBSET S, Cardinality(s) <= 0 PROVE s = {}
      OBVIOUS
    <3>1. IsFiniteSet(s) /\ Cardinality(s) = 0
      BY <1>1
    <3> QED BY <3>1, FS_EmptySet
  <2>2. \A s \in Level(0) : Rule(kind, base, g, s) = base
    BY <2>1 DEF Rule
  <2>3. Fit(g, 0)
    BY <2>2
  <2> QED BY <2>3
<1>3. ASSUME NEW n \in Nat, n \in G
      PROVE  n + 1 \in G
  <2>1. PICK g : Fit(g, n)
    BY <1>3
  <2> DEFINE h == [s \in Level(n + 1) |-> IF s \in Level(n) THEN g[s] ELSE Rule(kind, base, g, s)]
  <2>2. ASSUME NEW s \in Level(n + 1)
        PROVE  h[s] = Rule(kind, base, h, s)
    <3>1. h[s] = Rule(kind, base, g, s)
      <4>1. s \in Level(n) => g[s] = Rule(kind, base, g, s)
        BY <2>1
      <4> QED BY <4>1, <2>2
    <3>2. CASE s = {}
      BY <3>1, <3>2 DEF Rule
    <3>3. CASE s # {}
      <4> DEFINE r == s \ {First(s)}
      <4>1. /\ s \in SUBSET S /\ Cardinality(s) <= n + 1
            /\ IsFiniteSet(s)
        BY <1>1, <2>2
      <4>2. r \in SUBSET S /\ Cardinality(r) <= n
        <5>1. /\ r \subseteq s /\ Cardinality(s) \in Nat /\ Cardinality(r) \in Nat
              /\ Cardinality(s) = Cardinality(r) + 1
          BY <4>1, <3>3, FirstOut, Zenon
        <5>2. Cardinality(r) <= n
          BY <5>1, <4>1, <1>3
        <5> QED BY <4>1, <5>1, <5>2
      <4>3. r \in Level(n) /\ r \in Level(n + 1)
        BY <4>2, <1>1
      <4>4. h[r] = g[r]
        BY <4>3
      <4> QED BY <3>1, <3>3, <4>4 DEF Rule
    <3> QED BY <3>2, <3>3
  <2>3. h = [s \in Level(n + 1) |-> h[s]]
    OBVIOUS
  <2> HIDE DEF h
  <2>4. Fit(h, n + 1)
    BY <2>2, <2>3
  <2>5. n + 1 \in Nat
    BY <1>3
  <2> HIDE DEF Fit
  <2> QED BY <2>4, <2>5
<1>4. Cardinality(S) \in G
  <2> HIDE DEF G
  <2>1. Nat \subseteq G
    BY <1>2, <1>3, EveryNumber
  <2> QED BY <1>1, <2>1
<1>5. Level(Cardinality(S)) = SUBSET S
  <2>1. ASSUME NEW s \in SUBSET S PROVE Cardinality(s) <= Cardinality(S)
    BY FS_Subset
  <2> QED BY <2>1
<1>6. PICK g : Fit(g, Cardinality(S))
  BY <1>4
<1> HIDE DEF Level
<1> QED BY <1>5, <1>6 DEF Folds

\* The fold over edges is the value of such a function.
LEMMA EdgesAreFolded ==
  ASSUME NEW base, NEW S, IsFiniteSet(S)
  PROVE  \E g : Folds("edge", base, g, S) /\ FoldSet(UnionEdge, base, S) = g[S]
<1> DEFINE Fits(g) == g = [s \in SUBSET S |->
                           IF s = {} THEN base
                           ELSE UnionEdge(CHOOSE x \in s : TRUE, g[s \ {CHOOSE x \in s : TRUE}])]
<1>1. \A g : Folds("edge", base, g, S) <=> Fits(g)
  BY DEF Folds, Rule, First, Step
<1>2. FoldSet(UnionEdge, base, S) = (CHOOSE g : Fits(g))[S]
  BY DEF FoldSet, MapThenFoldSet
<1> HIDE DEF Fits
<1>3. \E g : Fits(g)
  BY <1>1, FoldExists
<1>4. Fits(CHOOSE g : Fits(g))
  BY <1>3
<1> QED BY <1>1, <1>2, <1>4

\* So is the fold over wallets.
LEMMA MembersAreFolded ==
  ASSUME NEW base, NEW S, IsFiniteSet(S)
  PROVE  \E g : Folds("wallet", base, g, S) /\ FoldSet(FindMember, base, S) = g[S]
<1> DEFINE Fits(g) == g = [s \in SUBSET S |->
                           IF s = {} THEN base
                           ELSE FindMember(CHOOSE x \in s : TRUE, g[s \ {CHOOSE x \in s : TRUE}])]
<1>1. \A g : Folds("wallet", base, g, S) <=> Fits(g)
  BY DEF Folds, Rule, First, Step
<1>2. FoldSet(FindMember, base, S) = (CHOOSE g : Fits(g))[S]
  BY DEF FoldSet, MapThenFoldSet
<1> HIDE DEF Fits
<1>3. \E g : Fits(g)
  BY <1>1, FoldExists
<1>4. Fits(CHOOSE g : Fits(g))
  BY <1>3
<1> QED BY <1>1, <1>2, <1>4

\* Finite induction the way a fold goes: a set of subsets that holds the empty one, and a
\* subset whenever it holds the subset without its first member, holds the whole.
LEMMA FoldKeeps ==
  ASSUME NEW S, IsFiniteSet(S), NEW K,
         {} \in K,
         \A s \in SUBSET S : s # {} /\ s \ {First(s)} \in K => s \in K
  PROVE  S \in K
<1> DEFINE G == {n \in Nat : \A s \in SUBSET S : Cardinality(s) = n => s \in K}
<1>1. \A s \in SUBSET S : IsFiniteSet(s) /\ Cardinality(s) \in Nat
  BY FS_Subset, FS_CardinalityType
<1>2. 0 \in G
  BY <1>1, FS_EmptySet
<1>3. ASSUME NEW n \in Nat, n \in G PROVE n + 1 \in G
  <2>0. n + 1 \in Nat /\ n + 1 # 0
    OBVIOUS
  <2> SUFFICES ASSUME NEW s \in SUBSET S, Cardinality(s) = n + 1 PROVE s \in K
    BY <2>0
  <2> DEFINE r == s \ {First(s)}
  <2>1. s # {}
    BY <2>0, FS_EmptySet
  <2>2. r \in SUBSET S /\ Cardinality(r) = n
    BY <1>1, <2>1, FirstOut
  <2>3. r \in K
    BY <1>3, <2>2
  <2> QED BY <2>1, <2>3
<1>4. Cardinality(S) \in G
  <2> HIDE DEF G
  <2>1. Nat \subseteq G
    BY <1>2, <1>3, EveryNumber
  <2> QED BY <1>1, <2>1
<1> QED BY <1>4

-----------------------------------------------------------------------------
(* The clusters are the connected components.                              *)

\* No edge of T leads out of S.
NoWayOut(T, S) == \A e \in T : e.ends \cap S # {} => e.ends \subseteq S

\* The classes are disjoint, hold each edge, and are no larger than the edges force:
\* a set that no edge leaves and that meets a class holds all of it.
GeneratedBy(T, classes) ==
  /\ \A c, d \in classes : c \cap d # {} => c = d
  /\ \A e \in T : \E c \in classes : e.ends \subseteq c
  /\ \A c \in classes : c # {} /\ c \subseteq UNION {e.ends : e \in T}
  /\ \A c \in classes : \A S \in SUBSET Wallets : NoWayOut(T, S) /\ S \cap c # {} => c \subseteq S

\* Merging the classes that one more edge touches gives the classes of the larger set.
LEMMA EdgeMerges ==
  ASSUME NEW T, NEW x \in T, x.ends # {}, NEW classes, GeneratedBy(T \ {x}, classes)
  PROVE  GeneratedBy(T, UnionEdge(x, classes))
<1> DEFINE touched == {c \in classes : c \cap x.ends # {}}
           m == x.ends \cup UNION touched
           new == UnionEdge(x, classes)
<1>1. new = {c \in classes : c \cap x.ends = {}} \cup {m}
  BY DEF UnionEdge
<1>2. /\ \A c, d \in classes : c \cap d # {} => c = d
      /\ \A e \in T \ {x} : \E c \in classes : e.ends \subseteq c
      /\ \A c \in classes : c # {} /\ c \subseteq UNION {e.ends : e \in T \ {x}}
      /\ \A c \in classes : \A S \in SUBSET Wallets : NoWayOut(T \ {x}, S) /\ S \cap c # {} => c \subseteq S
  BY DEF GeneratedBy
<1> HIDE DEF new
<1>3. \A c \in classes : c \cap x.ends = {} => c \cap m = {}
  BY <1>2
<1>4. \A c, d \in new : c \cap d # {} => c = d
  BY <1>1, <1>2, <1>3
<1>5. \A e \in T : \E c \in new : e.ends \subseteq c
  <2> SUFFICES ASSUME NEW e \in T PROVE \E c \in new : e.ends \subseteq c
    OBVIOUS
  <2>1. CASE e = x
    BY <1>1, <2>1
  <2>2. CASE e # x
    <3>1. PICK c \in classes : e.ends \subseteq c
      BY <1>2, <2>2
    <3>2. c \in new \/ c \subseteq m
      BY <1>1
    <3>3. m \in new
      BY <1>1
    <3> QED BY <3>1, <3>2, <3>3
  <2> QED BY <2>1, <2>2
<1>6. ASSUME NEW c \in new PROVE c # {} /\ c \subseteq UNION {e.ends : e \in T}
  <2>1. UNION {e.ends : e \in T \ {x}} \subseteq UNION {e.ends : e \in T}
    OBVIOUS
  <2>2. x.ends \subseteq UNION {e.ends : e \in T}
    OBVIOUS
  <2>3. CASE c \in classes
    BY <1>2, <2>1, <2>3
  <2>4. CASE c = m
    BY <1>2, <2>1, <2>2, <2>4
  <2> QED BY <1>1, <2>3, <2>4
<1>7. ASSUME NEW c \in new, NEW S \in SUBSET Wallets, NoWayOut(T, S), S \cap c # {}
      PROVE  c \subseteq S
  <2>1. NoWayOut(T \ {x}, S)
    BY <1>7 DEF NoWayOut
  <2>2. \A d \in classes : S \cap d # {} => d \subseteq S
    BY <1>2, <2>1
  <2>3. CASE c \in classes
    BY <1>7, <2>2, <2>3
  <2>4. CASE c = m
    <3>1. x.ends \cap S # {}
      <4>1. CASE \E d \in touched : S \cap d # {}
        BY <2>2, <4>1
      <4>2. CASE ~ \E d \in touched : S \cap d # {}
        BY <1>7, <2>4, <4>2
      <4> QED BY <4>1, <4>2
    <3>2. x.ends \subseteq S
      BY <1>7, <3>1 DEF NoWayOut
    <3>3. \A d \in touched : d \subseteq S
      BY <2>2, <3>2
    <3> QED BY <2>4, <3>2, <3>3
  <2> QED BY <1>1, <2>3, <2>4
<1> QED BY <1>4, <1>5, <1>6, <1>7 DEF GeneratedBy, new

\* So the fold over all the edges, whatever its order, gives the classes they generate.
LEMMA MergedClasses ==
  ASSUME NEW T, IsFiniteSet(T), \A e \in T : e.ends # {}
  PROVE  GeneratedBy(T, FoldSet(UnionEdge, {}, T))
<1>1. PICK g : Folds("edge", {}, g, T) /\ FoldSet(UnionEdge, {}, T) = g[T]
  BY EdgesAreFolded
<1> DEFINE K == {s \in SUBSET T : GeneratedBy(s, g[s])}
<1>2. \A s \in SUBSET T : g[s] = Rule("edge", {}, g, s)
  BY <1>1 DEF Folds
<1>3. {} \in K
  <2>1. g[{}] = {}
    BY <1>2 DEF Rule
  <2> QED BY <2>1 DEF GeneratedBy
<1>4. ASSUME NEW s \in SUBSET T, s # {}, s \ {First(s)} \in K PROVE s \in K
  <2> DEFINE x == First(s)
  <2>1. x \in s
    BY <1>4, Zenon DEF First
  <2>2. g[s] = UnionEdge(x, g[s \ {x}])
    BY <1>2, <1>4 DEF Rule, Step
  <2>3. GeneratedBy(s \ {x}, g[s \ {x}])
    BY <1>4
  <2>4. x.ends # {}
    BY <2>1
  <2> HIDE DEF x
  <2>5. GeneratedBy(s, UnionEdge(x, g[s \ {x}]))
    BY <2>1, <2>3, <2>4, EdgeMerges
  <2> QED BY <2>2, <2>5
<1> HIDE DEF K
<1>5. T \in K
  BY <1>3, <1>4, FoldKeeps
<1> QED BY <1>1, <1>5 DEF K

\* The classes, and a class of its own for each wallet that is in none.
WithSingletons(merged, groups) ==
  /\ merged \subseteq groups
  /\ \A c \in groups : c \in merged \/ \E w : c = {w}

\* Looking the wallets up adds classes of one wallet, and nothing else.
LEMMA LookingUpAddsSingletons ==
  ASSUME NEW merged, NEW S, IsFiniteSet(S)
  PROVE  WithSingletons(merged, FoldSet(FindMember, merged, S))
<1>1. PICK g : Folds("wallet", merged, g, S) /\ FoldSet(FindMember, merged, S) = g[S]
  BY MembersAreFolded
<1> DEFINE K == {s \in SUBSET S : WithSingletons(merged, g[s])}
<1>2. \A s \in SUBSET S : g[s] = Rule("wallet", merged, g, s)
  BY <1>1 DEF Folds
<1>3. {} \in K
  <2>1. g[{}] = merged
    BY <1>2 DEF Rule
  <2> QED BY <2>1 DEF WithSingletons
<1>4. ASSUME NEW s \in SUBSET S, s # {}, s \ {First(s)} \in K PROVE s \in K
  <2> DEFINE x == First(s)
  <2>1. g[s] = FindMember(x, g[s \ {x}])
    BY <1>2, <1>4 DEF Rule, Step
  <2>2. WithSingletons(merged, g[s \ {x}])
    BY <1>4
  <2> HIDE DEF x
  <2>3. WithSingletons(merged, FindMember(x, g[s \ {x}]))
    BY <2>2 DEF WithSingletons, FindMember
  <2> QED BY <2>1, <2>3
<1> HIDE DEF K
<1>5. S \in K
  BY <1>3, <1>4, FoldKeeps
<1> QED BY <1>1, <1>5 DEF K

\* Reachability read off the classes.
LEMMA ReachableIsClass ==
  ASSUME NEW edges, NEW classes, GeneratedBy(Strong(edges), classes),
         \A c \in classes : c \subseteq Wallets, NEW w \in Wallets
  PROVE  /\ \A c \in classes : w \in c => Reachable(edges, w) = c
         /\ w \notin UNION classes => Reachable(edges, w) = {w}
<1> DEFINE T == Strong(edges)
<1>1. Reachable(edges, w) =
        {v \in Wallets : \A S \in SUBSET Wallets : w \in S /\ NoWayOut(T, S) => v \in S}
  BY DEF Reachable, NoWayOut
<1>2. /\ \A c, d \in classes : c \cap d # {} => c = d
      /\ \A e \in T : \E c \in classes : e.ends \subseteq c
      /\ \A c \in classes : \A S \in SUBSET Wallets : NoWayOut(T, S) /\ S \cap c # {} => c \subseteq S
  BY DEF GeneratedBy
<1> HIDE DEF T
<1>3. ASSUME NEW c \in classes, w \in c PROVE Reachable(edges, w) = c
  <2>1. NoWayOut(T, c)
    BY <1>2 DEF NoWayOut
  <2>2. c \in SUBSET Wallets
    OBVIOUS
  <2>3. \A v \in c : \A S \in SUBSET Wallets : w \in S /\ NoWayOut(T, S) => v \in S
    BY <1>2, <1>3
  <2> QED BY <1>1, <1>3, <2>1, <2>2, <2>3
<1>4. ASSUME w \notin UNION classes PROVE Reachable(edges, w) = {w}
  <2>1. NoWayOut(T, {w})
    BY <1>2, <1>4 DEF NoWayOut
  <2>2. {w} \in SUBSET Wallets
    OBVIOUS
  <2> QED BY <1>1, <2>1, <2>2
<1> QED BY <1>3, <1>4

\* A finite set with a member and another has two members at least, a singleton has one.
LEMMA TwoMembers ==
  ASSUME NEW c, IsFiniteSet(c), c # {}
  PROVE  Cardinality(c) >= 2 <=> \A w : c # {w}
<1>1. Cardinality(c) \in Nat /\ Cardinality(c) # 0
  BY FS_CardinalityType, FS_EmptySet
<1>2. Cardinality(c) = 1 <=> \E w : c = {w}
  BY FS_Singleton
<1> QED BY <1>1, <1>2

\* The graph of one detection: finitely many edges between two wallets each.
Graph(edges) ==
  /\ IsFiniteSet(edges)
  /\ \A e \in edges : e.ends \subseteq Wallets /\ e.ends # {} /\ IsFiniteSet(e.ends)
  /\ IsFiniteSet(UNION {e.ends : e \in edges})

\* The clusters of a graph are its components of two wallets or more.
LEMMA ComponentsOfGraph ==
  ASSUME NEW edges, Graph(edges)
  PROVE  {c.members : c \in BuildClusters(edges)}
           = {Reachable(edges, w) : w \in {v \in Wallets : Reachable(edges, v) # {v}}}
<1> DEFINE T == Strong(edges)
           met == UNION {e.ends : e \in edges}
           merged == FoldSet(UnionEdge, {}, T)
           groups == FoldSet(FindMember, merged, met)
           large == {c \in groups : Cardinality(c) >= 2}
<1>1. T \subseteq edges /\ IsFiniteSet(T) /\ \A e \in T : e.ends # {}
  BY FS_Subset DEF Strong, Graph
<1>2. GeneratedBy(T, merged)
  BY <1>1, MergedClasses
<1>3. WithSingletons(merged, groups)
  BY LookingUpAddsSingletons DEF Graph
<1> DEFINE Cluster(ms) == [members |-> ms, edges |-> {e \in edges : e.ends \subseteq ms}]
<1>4. {c.members : c \in BuildClusters(edges)} = large
  <2>1. BuildClusters(edges) = {Cluster(ms) : ms \in large}
    BY Zenon DEF BuildClusters
  <2>2. \A ms : Cluster(ms).members = ms
    OBVIOUS
  <2> HIDE DEF Cluster, large
  <2> QED BY <2>1, <2>2
<1> HIDE DEF T, merged, groups
<1>5. \A c \in merged : c # {} /\ IsFiniteSet(c) /\ c \subseteq Wallets
  <2>1. UNION {e.ends : e \in T} \subseteq met
    BY <1>1
  <2>2. IsFiniteSet(met) /\ met \subseteq Wallets
    BY DEF Graph
  <2>3. \A c \in merged : c # {} /\ c \subseteq met
    BY <1>2, <2>1 DEF GeneratedBy
  <2> HIDE DEF met
  <2> QED BY <2>2, <2>3, FS_Subset
<1>6. \A w \in Wallets : /\ \A c \in merged : w \in c => Reachable(edges, w) = c
                         /\ w \notin UNION merged => Reachable(edges, w) = {w}
  BY <1>2, <1>5, ReachableIsClass DEF T
<1>7. ASSUME NEW c \in large
      PROVE  c \in {Reachable(edges, w) : w \in {v \in Wallets : Reachable(edges, v) # {v}}}
  <2>1. c \in merged
    <3> SUFFICES ASSUME NEW w, c = {w} PROVE FALSE
      BY <1>3 DEF WithSingletons
    <3>1. Cardinality(c) = 1
      BY FS_Singleton
    <3> QED BY <3>1
  <2>2. PICK w \in c : TRUE
    BY <1>5, <2>1
  <2>3. w \in Wallets /\ Reachable(edges, w) = c
    BY <1>5, <1>6, <2>1, <2>2
  <2>4. c # {w}
    BY <1>5, <2>1, TwoMembers
  <2> QED BY <2>3, <2>4
<1>8. ASSUME NEW w \in Wallets, Reachable(edges, w) # {w}
      PROVE  Reachable(edges, w) \in large
  <2>1. PICK c \in merged : w \in c
    BY <1>6, <1>8
  <2>2. Reachable(edges, w) = c
    BY <1>6, <2>1
  <2>3. \A v : c # {v}
    BY <1>8, <2>1, <2>2
  <2>4. Cardinality(c) >= 2
    BY <1>5, <2>1, <2>3, TwoMembers
  <2>5. c \in groups
    BY <1>3, <2>1 DEF WithSingletons
  <2> QED BY <2>2, <2>4, <2>5
<1> HIDE DEF large
<1> QED BY <1>4, <1>7, <1>8

-----------------------------------------------------------------------------
(* What detectForToken builds is a finite graph over wallets.              *)

\* The image of a finite set is finite.
LEMMA ImageIsFinite ==
  ASSUME NEW f, IsFiniteSet(DOMAIN f)
  PROVE  IsFiniteSet({f[x] : x \in DOMAIN f})
<1> DEFINE S == DOMAIN f
           R == {f[x] : x \in S}
           h == [x \in S |-> f[x]]
<1>1. h \in Surjection(S, R)
  <2>1. h \in [S -> R]
    OBVIOUS
  <2>2. \A y \in R : \E x \in S : h[x] = y
    OBVIOUS
  <2> HIDE DEF h, R
  <2> QED BY <2>1, <2>2 DEF Surjection
<1> HIDE DEF R, h
<1>2. IsFiniteSet(R)
  BY <1>1, FS_Surjection
<1> QED BY <1>2 DEF R

\* A buffer has finitely many traders, all of them wallets.
LEMMA TradersAreFinite ==
  ASSUME NEW ts \in Seq(Trades)
  PROVE  IsFiniteSet(Traders(ts)) /\ Traders(ts) \subseteq Wallets
<1> DEFINE f == [i \in DOMAIN ts |-> ts[i].wallet]
<1>1. IsFiniteSet(DOMAIN ts)
  BY FS_Interval
<1>2. Traders(ts) = {f[i] : i \in DOMAIN f}
  BY DEF Traders
<1>3. DOMAIN f = DOMAIN ts
  OBVIOUS
<1>4. \A i \in DOMAIN ts : ts[i].wallet \in Wallets
  BY ClusterAssumption
<1> HIDE DEF f
<1>5. IsFiniteSet(Traders(ts))
  BY <1>1, <1>2, <1>3, ImageIsFinite
<1> QED BY <1>4, <1>5 DEF Traders

\* A finite set has finitely many pairs, and a pair is a finite set that is not empty.
LEMMA PairsAreFinite ==
  ASSUME NEW S, IsFiniteSet(S)
  PROVE  /\ IsFiniteSet(Pairs(S))
         /\ \A q \in Pairs(S) : q \subseteq S /\ q # {} /\ IsFiniteSet(q) /\ Cardinality(q) = 2
<1>1. IsFiniteSet(Pairs(S))
  <2>1. IsFiniteSet(SUBSET S) /\ Pairs(S) \subseteq SUBSET S
    BY FS_SUBSET DEF Pairs
  <2> QED BY <2>1, FS_Subset
<1>2. \A q \in Pairs(S) : q \subseteq S /\ Cardinality(q) = 2
  BY DEF Pairs
<1>3. \A q \in Pairs(S) : IsFiniteSet(q)
  BY <1>2, FS_Subset
<1>4. \A q \in Pairs(S) : q # {}
  <2> SUFFICES ASSUME {} \in Pairs(S) PROVE FALSE
    OBVIOUS
  <2>1. Cardinality({}) = 0
    BY FS_EmptySet
  <2> QED BY <1>2, <2>1
<1> QED BY <1>1, <1>2, <1>3, <1>4

\* Edges between wallets of a finite set, one for each of some pairs.
OnPairs(E, S) ==
  /\ IsFiniteSet(E)
  /\ \A e \in E : e.ends \in Pairs(S)

\* One edge for each pair of a set of pairs.
LEMMA OneEdgeEach ==
  ASSUME NEW S, IsFiniteSet(S), NEW Q \in SUBSET Pairs(S), NEW f, DOMAIN f = Q,
         \A q \in Q : f[q].ends = q
  PROVE  OnPairs({f[q] : q \in Q}, S)
<1>1. IsFiniteSet(Q)
  BY PairsAreFinite, FS_Subset
<1>2. IsFiniteSet({f[q] : q \in Q})
  BY <1>1, ImageIsFinite
<1> QED BY <1>2 DEF OnPairs

\* The four kinds of edge; one token alone has no co-buy edges.
LEMMA EdgesOnPairs ==
  ASSUME NEW ts \in Seq(Trades)
  PROVE  /\ OnPairs(TimingEdges(ts), Traders(ts))
         /\ CoBuyEdges([t \in {"token"} |-> ts]) = {}
         /\ OnPairs(CommonFunderEdges(Traders(ts)), Traders(ts))
         /\ OnPairs(SharedCreatorEdges(Traders(ts)), Traders(ts))
<1> DEFINE S == Traders(ts)
<1>0. IsFiniteSet(S)
  BY TradersAreFinite
<1> HIDE DEF S
<1>1. OnPairs(TimingEdges(ts), S)
  <2> DEFINE Q == {q \in Pairs(S) : CloseBuys(ts, q) # {}}
             Late(q) == LET ij == FirstMet(ts, CloseBuys(ts, q)) IN
                        10 * (TimingWindow - (ts[ij[2]].at - ts[ij[1]].at))
             f == [q \in Q |-> [ends |-> q, reason |-> "timing-correlation", weight |-> Late(q)]]
  <2>1. TimingEdges(ts) = {f[q] : q \in Q}
    BY DEF TimingEdges, S
  <2> HIDE DEF Late
  <2>2. DOMAIN f = Q /\ \A q \in Q : f[q].ends = q
    OBVIOUS
  <2>3. Q \subseteq Pairs(S)
    OBVIOUS
  <2> HIDE DEF f, Q
  <2> QED BY <1>0, <2>1, <2>2, <2>3, OneEdgeEach
<1>2. CoBuyEdges([t \in {"token"} |-> ts]) = {}
  <2> DEFINE byToken == [t \in {"token"} |-> ts]
             TokensOf(w) == {t \in DOMAIN byToken : \E i \in Buys(byToken[t]) : byToken[t][i].wallet = w}
             Both(q) == {t \in DOMAIN byToken : \A w \in q : t \in TokensOf(w)}
  <2>1. ASSUME NEW q PROVE ~ (Cardinality(Both(q)) >= 2)
    <3>1. Both(q) \subseteq {"token"}
      OBVIOUS
    <3> HIDE DEF Both
    <3>2. IsFiniteSet({"token"}) /\ Cardinality({"token"}) = 1
      BY FS_Singleton
    <3>3. Cardinality(Both(q)) \in Nat /\ Cardinality(Both(q)) <= 1
      BY <3>1, <3>2, FS_Subset, FS_CardinalityType
    <3> QED BY <3>3
  <2> HIDE DEF byToken
  <2>2. CoBuyEdges(byToken) = {}
    BY <2>1, Zenon DEF CoBuyEdges
  <2> QED BY <2>2 DEF byToken
<1>3. OnPairs(CommonFunderEdges(S), S)
  <2> DEFINE Q == {q \in Pairs(S) :
                     \E f \in {FunderOf(w) : w \in q} \ {None} : \A w \in q : FunderOf(w) = f}
             f == [q \in Q |-> [ends |-> q, reason |-> "common-funder", weight |-> 135]]
  <2>1. CommonFunderEdges(S) = {f[q] : q \in Q}
    BY DEF CommonFunderEdges
  <2>2. DOMAIN f = Q /\ \A q \in Q : f[q].ends = q
    OBVIOUS
  <2>3. Q \subseteq Pairs(S)
    OBVIOUS
  <2> HIDE DEF f, Q
  <2> QED BY <1>0, <2>1, <2>2, <2>3, OneEdgeEach
<1>4. OnPairs(SharedCreatorEdges(S), S)
  <2> DEFINE Q == Pairs({w \in S : IsCreatorAssociated(w)})
             f == [q \in Q |-> [ends |-> q, reason |-> "shared-creator", weight |-> 150]]
  <2>1. SharedCreatorEdges(S) = {f[q] : q \in Q}
    BY DEF SharedCreatorEdges
  <2>2. DOMAIN f = Q /\ \A q \in Q : f[q].ends = q
    OBVIOUS
  <2>3. Q \subseteq Pairs(S)
    BY DEF Pairs
  <2> HIDE DEF f, Q
  <2> QED BY <1>0, <2>1, <2>2, <2>3, OneEdgeEach
<1> QED BY <1>1, <1>2, <1>3, <1>4 DEF S

\* Edges between pairs of finitely many wallets are a graph.
LEMMA PairsMakeGraph ==
  ASSUME NEW S, IsFiniteSet(S), S \subseteq Wallets, NEW E, OnPairs(E, S)
  PROVE  Graph(E)
<1>1. \A e \in E : e.ends \subseteq S /\ e.ends # {} /\ IsFiniteSet(e.ends)
  BY PairsAreFinite DEF OnPairs
<1>2. UNION {e.ends : e \in E} \subseteq S
  BY <1>1
<1>3. IsFiniteSet(UNION {e.ends : e \in E})
  BY <1>2, FS_Subset
<1> QED BY <1>1, <1>3 DEF Graph, OnPairs

\* So the edges of a detection are a graph between the traders of the buffer.
LEMMA EdgesAreGraph ==
  ASSUME NEW ts \in Seq(Trades)
  PROVE  OnPairs(Edges(ts), Traders(ts)) /\ Graph(Edges(ts))
<1>1. OnPairs(Edges(ts), Traders(ts))
  BY EdgesOnPairs, FS_Union DEF OnPairs, Edges
<1> QED BY <1>1, TradersAreFinite, PairsMakeGraph

\* The buffer holds trades.
Buffered == trades \in Seq(Trades)

\* The listener appends trades, and nothing else touches the buffer.
LEMMA BufferedInvariant == Spec => []Buffered
<1>1. Init => Buffered
  BY DEF Init, Buffered
<1>2. Buffered /\ [Next]_vars => Buffered'
  <2> SUFFICES ASSUME Buffered, [Next]_vars PROVE Buffered'
    OBVIOUS
  <2>1. CASE \E t \in Trades : Trade(t)
    BY <2>1 DEF Buffered, Trade
  <2>2. CASE UNCHANGED trades
    BY <2>2 DEF Buffered
  <2> QED BY <2>1, <2>2 DEF Next, vars, LearnFunder, LearnDeployer, Rug, Detect, ReadStats, Evaluate, Return
<1> QED BY <1>1, <1>2, PTL DEF Spec

\* Whatever trades were buffered and whatever the lookups found, the clusters are
\* the connected components of the strong edges with two members or more.
THEOREM ClustersCorrect == Spec => []ClustersAreComponents
<1>1. Buffered => ClustersAreComponents
  BY EdgesAreGraph, ComponentsOfGraph DEF Buffered, ClustersAreComponents
<1> QED BY <1>1, BufferedInvariant, PTL

-----------------------------------------------------------------------------
(* No verdict is weaker than what was known when its detection started.    *)

\* us goes on from ts.
Prolongs(ts, us) ==
  /\ ts \in Seq(Trades) /\ us \in Seq(Trades)
  /\ Len(ts) <= Len(us)
  /\ \A i \in 1..Len(ts) : us[i] = ts[i]

\* The listener's append goes on from the buffer.
LEMMA AppendProlongs ==
  ASSUME NEW ts \in Seq(Trades), NEW t \in Trades
  PROVE  Prolongs(ts, Append(ts, t))
BY DEF Prolongs

\* A buffered buy stays a buy, and the order of two trades stays their order.
LEMMA ProlongedBuys ==
  ASSUME NEW ts, NEW us, Prolongs(ts, us)
  PROVE  /\ DOMAIN ts \subseteq DOMAIN us
         /\ Buys(ts) \subseteq Buys(us)
         /\ \A i, j \in DOMAIN ts : Precedes(ts, i, j) <=> Precedes(us, i, j)
<1>1. /\ DOMAIN ts = 1..Len(ts) /\ DOMAIN us = 1..Len(us)
      /\ Len(ts) \in Nat /\ Len(us) \in Nat /\ Len(ts) <= Len(us)
      /\ \A i \in 1..Len(ts) : us[i] = ts[i]
  BY DEF Prolongs
<1>2. DOMAIN ts \subseteq DOMAIN us
  BY <1>1
<1> QED BY <1>1, <1>2 DEF Buys, Precedes

\* No later trade undoes a large sale that followed a buy.
LEMMA SellingStays ==
  ASSUME NEW ts, NEW us, Prolongs(ts, us), NEW S, NEW R, S \subseteq R, ImmediateLargeSelling(ts, S)
  PROVE  ImmediateLargeSelling(us, R)
<1>1. PICK i \in Buys(ts), j \in DOMAIN ts :
        /\ ts[i].wallet \in S /\ ts[j].wallet = ts[i].wallet
        /\ Precedes(ts, i, j) /\ ts[j].at - ts[i].at <= SellWindow
        /\ ts[j].side = "SELL" /\ 2 * ts[j].amount >= ts[i].amount
  BY DEF ImmediateLargeSelling
<1>2. i \in DOMAIN ts
  BY DEF Buys
<1>3. i \in Buys(us) /\ j \in DOMAIN us /\ Precedes(us, i, j)
  BY <1>1, <1>2, ProlongedBuys
<1>4. us[i] = ts[i] /\ us[j] = ts[j]
  BY <1>1, <1>2 DEF Prolongs
<1> QED BY <1>1, <1>3, <1>4 DEF ImmediateLargeSelling

\* No step takes away a trade, what a lookup found, or the mark of a rug.
LEMMA EvidenceStays ==
  ASSUME Buffered, [Next]_vars
  PROVE  /\ Prolongs(trades, trades')
         /\ rugged => rugged'
         /\ funderKnown \subseteq funderKnown' /\ (deployerKnown => deployerKnown')
<1>1. CASE \E t \in Trades : Trade(t)
  <2>1. PICK t \in Trades : trades' = Append(trades, t) /\ UNCHANGED <<sources, rugged>>
    BY <1>1 DEF Trade
  <2>2. Prolongs(trades, trades')
    BY <2>1, AppendProlongs DEF Buffered
  <2> QED BY <2>1, <2>2 DEF sources
<1>2. CASE UNCHANGED trades /\ (rugged => rugged')
             /\ funderKnown \subseteq funderKnown' /\ (deployerKnown => deployerKnown')
  <2>1. Prolongs(trades, trades)
    BY DEF Prolongs, Buffered
  <2> QED BY <1>2, <2>1
<1>3. CASE \E w \in Wallets : LearnFunder(w)
  BY <1>2, <1>3 DEF LearnFunder
<1>4. CASE LearnDeployer \/ Rug
  BY <1>2, <1>4 DEF LearnDeployer, Rug, sources
<1>5. CASE UNCHANGED <<trades, sources, rugged>>
  BY <1>2, <1>5 DEF sources
<1> QED BY <1>1, <1>3, <1>4, <1>5 DEF Next, vars, sources, Detect, ReadStats, Evaluate, Return

\* A wallet that is known to belong to the creator stays so.
LEMMA CreatorsStay ==
  ASSUME Buffered, [Next]_vars, NEW w, IsCreatorAssociated(w)
  PROVE  IsCreatorAssociated(w)'
<1>1. funderKnown \subseteq funderKnown' /\ deployerKnown'
  BY EvidenceStays DEF IsCreatorAssociated
<1>2. FunderOf(w) = Deployer => w \in funderKnown /\ Funder[w] = Deployer
  BY DEF IsCreatorAssociated, FunderOf
<1> QED BY <1>1, <1>2 DEF IsCreatorAssociated, FunderOf

\* A lasting flag of a cluster is, after a step, a flag of every cluster that holds its
\* wallets and its evidence of coordinated buying.
LEMMA LastingFlagsStay ==
  ASSUME Buffered, [Next]_vars, NEW c, NEW d, c.members \subseteq d.members,
         CoordinatedBuying(c.edges) => CoordinatedBuying(d.edges)
  PROVE  ClusterFlags(trades, c, FALSE, rugged) \cap LastingFlags
           \subseteq (ClusterFlags(trades, d, FALSE, rugged) \cap LastingFlags)'
<1>1. Prolongs(trades, trades') /\ (rugged => rugged')
  BY EvidenceStays
<1>2. ImmediateLargeSelling(trades, c.members) => ImmediateLargeSelling(trades', d.members)
  BY <1>1, SellingStays
<1>3. (\E w \in c.members : IsCreatorAssociated(w)) => \E w \in d.members : IsCreatorAssociated(w)'
  BY CreatorsStay
<1> SUFFICES ASSUME NEW f \in ClusterFlags(trades, c, FALSE, rugged) \cap LastingFlags
             PROVE  f \in (ClusterFlags(trades, d, FALSE, rugged) \cap LastingFlags)'
  OBVIOUS
<1>4. /\ f \in Flags /\ f # "concentratedOwnership"
      /\ \/ f = "coordinatedBuying" /\ CoordinatedBuying(c.edges)
         \/ f = "immediateLargeSelling" /\ ImmediateLargeSelling(trades, c.members)
         \/ f = "creatorAssociatedWallets" /\ \E w \in c.members : IsCreatorAssociated(w)
         \/ f = "suspiciousLiquidityBehavior" /\ rugged
  BY DEF ClusterFlags, LastingFlags
<1> QED BY <1>1, <1>2, <1>3, <1>4 DEF ClusterFlags, LastingFlags, Flags

\* The lesser of two numbers.
LEMMA LesserOfTwo ==
  ASSUME NEW m \in Nat, NEW n \in Nat
  PROVE  Min({m, n}) = IF m <= n THEN m ELSE n
<1> DEFINE k == IF m <= n THEN m ELSE n
<1>1. k \in {m, n} /\ \A y \in {m, n} : k <= y
  OBVIOUS
<1>2. \A x \in {m, n} : (\A y \in {m, n} : x <= y) => x = k
  OBVIOUS
<1> HIDE DEF k
<1>3. (CHOOSE x \in {m, n} : \A y \in {m, n} : x <= y) = k
  BY <1>1, <1>2
<1> QED BY <1>3 DEF Min, k

\* More flags are never penalised less.
LEMMA PenaltyGrows ==
  ASSUME NEW F, NEW G \in SUBSET Flags, F \subseteq G
  PROVE  Penalty(G) >= Penalty(F)
<1>1. IsFiniteSet(Flags)
  <2>1. Flags = {"concentratedOwnership"} \cup {"coordinatedBuying"} \cup {"immediateLargeSelling"}
                  \cup {"creatorAssociatedWallets"} \cup {"suspiciousLiquidityBehavior"}
    BY DEF Flags
  <2> QED BY <2>1, FS_Singleton, FS_Union
<1>2. IsFiniteSet(G) /\ IsFiniteSet(F) /\ Cardinality(F) <= Cardinality(G)
  BY <1>1, FS_Subset
<1>3. Cardinality(F) \in Nat /\ Cardinality(G) \in Nat /\ PenaltyCap \in Nat
  BY <1>2, FS_CardinalityType, ClusterAssumption
<1> DEFINE f == 20 * Cardinality(F)
           g == 20 * Cardinality(G)
<1>4. f \in Nat /\ g \in Nat /\ f <= g
  BY <1>2, <1>3
<1>5. Penalty(F) = Min({PenaltyCap, f}) /\ Penalty(G) = Min({PenaltyCap, g})
  BY DEF Penalty
<1> HIDE DEF f, g
<1>6. /\ Penalty(F) = IF PenaltyCap <= f THEN PenaltyCap ELSE f
      /\ Penalty(G) = IF PenaltyCap <= g THEN PenaltyCap ELSE g
  BY <1>3, <1>4, <1>5, LesserOfTwo
<1> QED BY <1>3, <1>4, <1>6

\* What is due to a cluster is still there to be found.
Pending(d, c) == c.members = d.members /\ d.flags \subseteq Lasting(c).flags

\* What is due is in the verdict.
Delivered(d, v) ==
  v.members = d.members /\ d.flags \subseteq v.flags /\ v.penalty >= Penalty(d.flags)

\* Each flag that was earned when the detection started is either still pending with
\* its cluster, or has been delivered.
DueIsKept ==
  \A d \in detection.due :
    \/ \E c \in detection.todo : Pending(d, c)
    \/ \E v \in detection.evaluated : Delivered(d, v)

DetectionTyped == detection = [pc |-> detection.pc, todo |-> detection.todo, topHeavy |-> detection.topHeavy,
                               evaluated |-> detection.evaluated, due |-> detection.due]

VerdictInv == Buffered /\ DetectionTyped /\ DueIsKept

\* What is pending stays pending: its cluster only gains lasting flags.
LEMMA PendingStays ==
  ASSUME Buffered, [Next]_vars, NEW c, NEW d, Pending(d, c)
  PROVE  Pending(d, c)'
<1>1. ClusterFlags(trades, c, FALSE, rugged) \cap LastingFlags
        \subseteq (ClusterFlags(trades, c, FALSE, rugged) \cap LastingFlags)'
  BY LastingFlagsStay
<1> QED BY <1>1 DEF Pending, Lasting

\* The evaluation of a cluster delivers what is pending with it.
LEMMA EvaluationDelivers ==
  ASSUME NEW c, NEW d, Pending(d, c), NEW topHeavy
  PROVE  Delivered(d, Evaluated(trades, c, topHeavy, rugged))
<1> DEFINE flags == ClusterFlags(trades, c, topHeavy, rugged)
<1>1. Lasting(c).flags \subseteq flags
  BY DEF Lasting, ClusterFlags, LastingFlags
<1>2. flags \subseteq Flags
  BY DEF ClusterFlags
<1>3. Evaluated(trades, c, topHeavy, rugged) = [members |-> c.members, flags |-> flags, penalty |-> Penalty(flags)]
  BY DEF Evaluated
<1> HIDE DEF flags
<1>4. c.members = d.members /\ d.flags \subseteq flags
  BY <1>1 DEF Pending
<1>5. Penalty(flags) >= Penalty(d.flags)
  BY <1>2, <1>4, PenaltyGrows
<1> QED BY <1>3, <1>4, <1>5 DEF Delivered

\* Every step keeps the invariant.
LEMMA VerdictStep ==
  ASSUME VerdictInv, [Next]_vars
  PROVE  VerdictInv'
<1> USE DEF VerdictInv
<1>0. Buffered'
  BY EvidenceStays DEF Prolongs, Buffered
<1>1. ASSUME UNCHANGED detection PROVE VerdictInv'
  <2>1. DetectionTyped' /\ \A d, v : Delivered(d, v) => Delivered(d, v)'
    BY <1>1 DEF DetectionTyped, Delivered
  <2>2. \A c, d : Pending(d, c) => Pending(d, c)'
    BY PendingStays
  <2>3. DueIsKept'
    BY <1>1, <2>1, <2>2 DEF DueIsKept
  <2> QED BY <1>0, <2>1, <2>3
<1>2. CASE Detect
  <2> DEFINE clusters == BuildClusters(Edges(trades))
  <2>1. /\ detection' = [Idle EXCEPT !.pc = "stats", !.todo = clusters,
                                     !.due = {Lasting(c) : c \in clusters}]
        /\ UNCHANGED <<trades, funderKnown, deployerKnown, rugged>>
    BY <1>2 DEF Detect, sources
  <2> HIDE DEF clusters
  <2>2. /\ DetectionTyped'
        /\ detection'.todo = clusters /\ detection'.due = {Lasting(c) : c \in clusters}
    BY <2>1 DEF Idle, DetectionTyped
  <2>3. ASSUME NEW c \in clusters PROVE Pending(Lasting(c), c)
    BY DEF Pending, Lasting
  <2>5. DueIsKept'
    <3> SUFFICES ASSUME NEW d \in detection'.due PROVE \E c \in detection'.todo : Pending(d, c)'
      BY DEF DueIsKept
    <3>1. PICK c \in clusters : d = Lasting(c)
      BY <2>2
    <3>2. Lasting(c)' = Lasting(c)
      BY <2>1 DEF Lasting, ClusterFlags, IsCreatorAssociated, FunderOf
    <3>3. Pending(d, c)'
      BY <2>3, <3>1, <3>2 DEF Pending
    <3> QED BY <2>2, <3>3
  <2> QED BY <1>0, <2>2, <2>5
<1>3. CASE \E topHeavy \in BOOLEAN : ReadStats(topHeavy)
  <2>1. /\ UNCHANGED <<trades, funderKnown, deployerKnown, rugged>> /\ DetectionTyped'
        /\ detection'.todo = detection.todo /\ detection'.due = detection.due
        /\ detection'.evaluated = detection.evaluated
    BY <1>3 DEF ReadStats, DetectionTyped, sources
  <2>2. \A c, d : Pending(d, c) => Pending(d, c)'
    BY PendingStays
  <2>3. \A d, v : Delivered(d, v) => Delivered(d, v)'
    BY DEF Delivered
  <2> QED BY <1>0, <2>1, <2>2, <2>3 DEF DueIsKept
<1>4. CASE \E c \in detection.todo : Evaluate(c)
  <2>1. PICK c \in detection.todo : Evaluate(c)
    BY <1>4
  <2> DEFINE v == Evaluated(trades, c, detection.topHeavy, rugged)
  <2>2. detection' = [detection EXCEPT !.todo = @ \ {c}, !.evaluated = @ \cup {v}]
    BY <2>1 DEF Evaluate
  <2>3. \A d : Pending(d, c) => Delivered(d, v)
    BY EvaluationDelivers
  <2> HIDE DEF v
  <2>4. /\ DetectionTyped'
        /\ detection'.todo = detection.todo \ {c} /\ detection'.due = detection.due
        /\ detection'.evaluated = detection.evaluated \cup {v}
    BY <2>2 DEF DetectionTyped
  <2>5. \A b, d : Pending(d, b) => Pending(d, b)'
    BY PendingStays
  <2>6. \A d, u : Delivered(d, u) => Delivered(d, u)'
    BY DEF Delivered
  <2>7. DueIsKept'
    <3> SUFFICES ASSUME NEW d \in detection.due
                 PROVE  \/ \E b \in detection'.todo : Pending(d, b)'
                        \/ \E u \in detection'.evaluated : Delivered(d, u)'
      BY <2>4 DEF DueIsKept
    <3>1. CASE Pending(d, c)
      BY <2>3, <2>4, <2>6, <3>1
    <3>2. CASE \E b \in detection.todo : b # c /\ Pending(d, b)
      BY <2>4, <2>5, <3>2
    <3>3. CASE \E u \in detection.evaluated : Delivered(d, u)
      BY <2>4, <2>6, <3>3
    <3> QED BY <3>1, <3>2, <3>3 DEF DueIsKept
  <2> QED BY <1>0, <2>4, <2>7
<1>5. CASE Return
  <2>1. detection' = Idle
    BY <1>5 DEF Return
  <2>2. DetectionTyped' /\ DueIsKept'
    BY <2>1 DEF Idle, DetectionTyped, DueIsKept
  <2> QED BY <1>0, <2>2
<1> QED BY <1>1, <1>2, <1>3, <1>4, <1>5 DEF Next, vars, Trade, LearnFunder, LearnDeployer, Rug

\* Whatever arrives while a detection awaits, its verdict on a cluster counts every
\* lasting flag that the cluster had earned when the detection started.
THEOREM VerdictNeverWeakened == Spec => []VerdictNotWeakened
<1>1. Init => VerdictInv
  BY DEF Init, VerdictInv, Buffered, DetectionTyped, DueIsKept, Idle
<1>2. VerdictInv => VerdictNotWeakened
  BY DEF VerdictInv, VerdictNotWeakened, DueIsKept, Delivered
<1> QED BY <1>1, <1>2, VerdictStep, PTL DEF Spec

-----------------------------------------------------------------------------
(* While trades arrive in order, no flag but the volume share is lost.     *)

\* The trades of a buffer are in the order of their block times.
Ordered(ts) == \A i, j \in DOMAIN ts : i < j => ts[i].at <= ts[j].at

\* Then the stable sort leaves them where they are.
LEMMA SortKeepsOrder ==
  ASSUME NEW ts \in Seq(Trades), Ordered(ts), NEW i \in DOMAIN ts, NEW j \in DOMAIN ts
  PROVE  /\ i \in Nat /\ j \in Nat /\ ts[i].at \in Nat /\ ts[j].at \in Nat
         /\ Precedes(ts, i, j) <=> i < j
<1>1. i \in Nat /\ j \in Nat /\ ts[i].at \in Nat /\ ts[j].at \in Nat
  BY ClusterAssumption
<1>2. i < j => ts[i].at <= ts[j].at
  BY DEF Ordered
<1>3. j < i => ts[j].at <= ts[i].at
  BY DEF Ordered
<1> QED BY <1>1, <1>2, <1>3 DEF Precedes

\* A pair of trades that the two loops meet before every other.
MetFirst(found, ij) ==
  /\ ij \in found
  /\ \A kl \in found : ij[1] < kl[1] \/ (ij[1] = kl[1] /\ ij[2] <= kl[2])

\* There is one.
LEMMA FirstIsMet ==
  ASSUME NEW found \in SUBSET (Nat \X Nat), found # {}
  PROVE  \E ij : MetFirst(found, ij)
<1> DEFINE Firsts == {ij[1] : ij \in found}
<1>1. PICK k \in Firsts : \A n \in Firsts : k <= n
  <2>1. Firsts \subseteq Nat /\ Firsts # {}
    OBVIOUS
  <2> QED BY <2>1, LeastNumber
<1> DEFINE Seconds == {ij[2] : ij \in {p \in found : p[1] = k}}
<1>2. PICK l \in Seconds : \A n \in Seconds : l <= n
  <2>1. Seconds \subseteq Nat /\ Seconds # {}
    BY <1>1
  <2> QED BY <2>1, LeastNumber
<1>3. PICK ij \in found : ij[1] = k /\ ij[2] = l
  BY <1>2
<1>4. \A kl \in found : k \in Nat /\ l \in Nat /\ kl[1] \in Nat /\ kl[2] \in Nat /\ k <= kl[1]
  BY <1>1, <1>3
<1>5. \A kl \in found : kl[1] = k => l <= kl[2]
  BY <1>2
<1> QED BY <1>3, <1>4, <1>5 DEF MetFirst

\* In order, FirstMet is that pair, and no other.
LEMMA FirstMetIsFirst ==
  ASSUME NEW ts \in Seq(Trades), Ordered(ts), NEW q, NEW ij, MetFirst(CloseBuys(ts, q), ij)
  PROVE  FirstMet(ts, CloseBuys(ts, q)) = ij
<1> DEFINE found == CloseBuys(ts, q)
           Before(x, y) == \/ Precedes(ts, x[1], y[1])
                           \/ x[1] = y[1] /\ (x[2] = y[2] \/ Precedes(ts, x[2], y[2]))
<1>1. \A x \in found : x[1] \in DOMAIN ts /\ x[2] \in DOMAIN ts /\ x = <<x[1], x[2]>>
  BY DEF CloseBuys, Buys
<1>2. \A x, y \in found : /\ x[1] \in Nat /\ x[2] \in Nat /\ y[1] \in Nat /\ y[2] \in Nat
                          /\ Before(x, y) <=> (x[1] < y[1] \/ (x[1] = y[1] /\ x[2] <= y[2]))
  <2> SUFFICES ASSUME NEW x \in found, NEW y \in found
               PROVE  /\ x[1] \in Nat /\ x[2] \in Nat /\ y[1] \in Nat /\ y[2] \in Nat
                      /\ Before(x, y) <=> (x[1] < y[1] \/ (x[1] = y[1] /\ x[2] <= y[2]))
    OBVIOUS
  <2>1. /\ x[1] \in DOMAIN ts /\ x[2] \in DOMAIN ts
        /\ y[1] \in DOMAIN ts /\ y[2] \in DOMAIN ts
    BY <1>1
  <2>2. /\ x[1] \in Nat /\ y[1] \in Nat /\ (Precedes(ts, x[1], y[1]) <=> x[1] < y[1])
        /\ x[2] \in Nat /\ y[2] \in Nat /\ (Precedes(ts, x[2], y[2]) <=> x[2] < y[2])
    BY <2>1, SortKeepsOrder
  <2> QED BY <2>2
<1>3. FirstMet(ts, found) = CHOOSE x \in found : \A y \in found : Before(x, y)
  BY Zenon DEF FirstMet
<1> HIDE DEF found, Before
<1>4. ij \in found /\ \A y \in found : Before(ij, y)
  BY <1>2 DEF MetFirst, found
<1>5. \A x \in found : (\A y \in found : Before(x, y)) => x = ij
  <2> SUFFICES ASSUME NEW x \in found, \A y \in found : Before(x, y) PROVE x = ij
    OBVIOUS
  <2>1. Before(x, ij) /\ Before(ij, x)
    BY <1>4
  <2>2. x[1] = ij[1] /\ x[2] = ij[2]
    BY <1>2, <1>4, <2>1
  <2> QED BY <1>1, <1>4, <2>2
<1>6. (CHOOSE x \in found : \A y \in found : Before(x, y)) = ij
  BY <1>4, <1>5, Zenon
<1> QED BY <1>3, <1>6 DEF found

\* A later trade may be close to an earlier one, but in order the pair that was met
\* first stays so: a new pair that started earlier would have been preceded by an
\* old pair with the same start.
LEMMA FirstPairStays ==
  ASSUME NEW ts, NEW us, Prolongs(ts, us), Ordered(us), NEW q,
         NEW ij, MetFirst(CloseBuys(ts, q), ij)
  PROVE  MetFirst(CloseBuys(us, q), ij)
<1>1. /\ ts \in Seq(Trades) /\ us \in Seq(Trades) /\ Len(ts) \in Nat /\ Len(us) \in Nat
      /\ DOMAIN ts = 1..Len(ts) /\ DOMAIN us = 1..Len(us) /\ Len(ts) <= Len(us)
      /\ \A i \in 1..Len(ts) : us[i] = ts[i]
  BY DEF Prolongs
<1>2. /\ Buys(ts) \subseteq Buys(us)
      /\ \A i, j \in DOMAIN ts : Precedes(ts, i, j) <=> Precedes(us, i, j)
  BY ProlongedBuys
<1>3. \A i \in Buys(us) : i \in DOMAIN ts => i \in Buys(ts)
  BY <1>1 DEF Buys
<1>4. /\ ij \in CloseBuys(ts, q)
      /\ \A kl \in CloseBuys(ts, q) : ij[1] < kl[1] \/ (ij[1] = kl[1] /\ ij[2] <= kl[2])
  BY DEF MetFirst
<1> DEFINE k == ij[1]
           l == ij[2]
<1>5. /\ ij = <<k, l>> /\ k \in Buys(ts) /\ l \in Buys(ts) /\ k \in DOMAIN ts /\ l \in DOMAIN ts
      /\ Precedes(ts, k, l) /\ ts[l].at - ts[k].at <= TimingWindow
      /\ {ts[k].wallet, ts[l].wallet} = q
  BY <1>4 DEF CloseBuys, Buys
<1> HIDE DEF k, l
<1>6. ij \in CloseBuys(us, q)
  <2>1. us[k] = ts[k] /\ us[l] = ts[l] /\ Precedes(us, k, l) /\ k \in Buys(us) /\ l \in Buys(us)
    BY <1>1, <1>2, <1>5
  <2> QED BY <1>5, <2>1 DEF CloseBuys
<1>7. ASSUME NEW mn \in CloseBuys(us, q)
      PROVE  k < mn[1] \/ (k = mn[1] /\ l <= mn[2])
  <2> DEFINE m == mn[1]
             n == mn[2]
  <2>1. /\ m \in Buys(us) /\ n \in Buys(us) /\ m \in DOMAIN us /\ n \in DOMAIN us
        /\ Precedes(us, m, n) /\ us[n].at - us[m].at <= TimingWindow
        /\ {us[m].wallet, us[n].wallet} = q
    BY <1>7 DEF CloseBuys, Buys
  <2> HIDE DEF m, n
  <2>2. m < n /\ m \in Nat /\ n \in Nat
    BY <1>1, <2>1, SortKeepsOrder
  <2>3. k \in Nat /\ l \in Nat /\ k < l
    <3>1. k \in DOMAIN us /\ l \in DOMAIN us /\ Precedes(us, k, l)
      BY <1>1, <1>2, <1>5
    <3> QED BY <1>1, <3>1, SortKeepsOrder
  <2>4. ASSUME NEW r \in DOMAIN ts, m < r, r <= n, us[r].wallet = us[n].wallet, r \in Buys(us)
        PROVE  k < m \/ (k = m /\ l <= r)
    <3>1. r \in DOMAIN us /\ r \in Nat
      BY <1>1
    <3>2. m \in DOMAIN ts
      BY <1>1, <2>1, <2>2, <2>4, <3>1
    <3>3. us[r].at <= us[n].at
      <4>1. CASE r = n
        BY <1>1, <2>1, <3>1, <4>1, SortKeepsOrder
      <4>2. CASE r < n
        BY <2>1, <3>1, <4>2 DEF Ordered
      <4> QED BY <2>2, <2>4, <3>1, <4>1, <4>2
    <3>4. us[r].at \in Nat /\ us[n].at \in Nat /\ us[m].at \in Nat /\ Precedes(us, m, r)
      BY <1>1, <2>1, <2>4, <3>1, SortKeepsOrder
    <3>5. us[r].at - us[m].at <= TimingWindow
      BY <2>1, <3>3, <3>4 DEF TimingWindow
    <3>6. /\ m \in Buys(ts) /\ r \in Buys(ts) /\ Precedes(ts, m, r)
          /\ us[m] = ts[m] /\ us[r] = ts[r]
      BY <1>1, <1>2, <1>3, <2>1, <2>4, <3>2, <3>4
    <3>7. <<m, r>> \in CloseBuys(ts, q)
      BY <2>1, <2>4, <3>5, <3>6 DEF CloseBuys
    <3>8. ij[1] < m \/ (ij[1] = m /\ ij[2] <= r)
      BY <1>4, <3>7
    <3> QED BY <3>8 DEF k, l
  <2>5. CASE n \in DOMAIN ts
    <3>1. k < m \/ (k = m /\ l <= n)
      BY <2>1, <2>2, <2>4, <2>5
    <3> QED BY <3>1 DEF m, n
  <2>6. CASE n \notin DOMAIN ts
    <3>1. l < n /\ k < n
      BY <1>1, <1>5, <2>1, <2>2, <2>3, <2>6
    <3>2. CASE m < k
      <4>1. PICK r \in {k, l} : us[r].wallet = us[n].wallet
        BY <1>1, <1>5, <2>1
      <4>2. r \in DOMAIN ts /\ m < r /\ r <= n /\ r \in Buys(us)
        BY <1>2, <1>5, <2>2, <2>3, <3>1, <3>2, <4>1
      <4>3. k < m \/ (k = m /\ l <= r)
        BY <2>4, <4>1, <4>2
      <4> QED BY <2>2, <2>3, <3>2, <4>3
    <3>3. CASE ~ (m < k)
      BY <2>2, <2>3, <3>1, <3>3 DEF m, n
    <3> QED BY <3>2, <3>3
  <2> QED BY <2>5, <2>6
<1> QED BY <1>6, <1>7 DEF MetFirst, k, l

\* In order, every timing edge stays, with its weight.
LEMMA TimingEdgesStay ==
  ASSUME NEW ts, NEW us, Prolongs(ts, us), Ordered(us)
  PROVE  Traders(ts) \subseteq Traders(us) /\ TimingEdges(ts) \subseteq TimingEdges(us)
<1>1. /\ ts \in Seq(Trades) /\ us \in Seq(Trades) /\ DOMAIN ts \subseteq DOMAIN us
      /\ \A i \in DOMAIN ts : us[i] = ts[i]
  BY ProlongedBuys DEF Prolongs
<1>2. Ordered(ts)
  BY <1>1 DEF Ordered
<1>3. Traders(ts) \subseteq Traders(us)
  BY <1>1 DEF Traders
<1>4. \A S, R : S \subseteq R => Pairs(S) \subseteq Pairs(R)
  BY DEF Pairs
<1> DEFINE Edge(vs, q, ij) == [ends |-> q, reason |-> "timing-correlation",
                               weight |-> 10 * (TimingWindow - (vs[ij[2]].at - vs[ij[1]].at))]
<1>5. \A vs : TimingEdges(vs) = {Edge(vs, q, FirstMet(vs, CloseBuys(vs, q)))
                                 : q \in {p \in Pairs(Traders(vs)) : CloseBuys(vs, p) # {}}}
  BY Zenon DEF TimingEdges
<1> SUFFICES ASSUME NEW q \in Pairs(Traders(ts)), CloseBuys(ts, q) # {}
             PROVE  Edge(ts, q, FirstMet(ts, CloseBuys(ts, q))) \in TimingEdges(us)
  BY <1>3, <1>5
<1>6. PICK ij : MetFirst(CloseBuys(ts, q), ij)
  <2>1. DOMAIN ts \subseteq Nat
    BY <1>1
  <2>2. CloseBuys(ts, q) \subseteq Nat \X Nat
    BY <2>1 DEF CloseBuys, Buys
  <2> QED BY <2>2, FirstIsMet
<1>7. MetFirst(CloseBuys(us, q), ij)
  BY <1>6, FirstPairStays
<1>8. FirstMet(ts, CloseBuys(ts, q)) = ij /\ FirstMet(us, CloseBuys(us, q)) = ij
  BY <1>1, <1>2, <1>6, <1>7, FirstMetIsFirst
<1>9. ij[1] \in DOMAIN ts /\ ij[2] \in DOMAIN ts
  BY <1>6 DEF MetFirst, CloseBuys, Buys
<1>10. Edge(us, q, ij) = Edge(ts, q, ij)
  BY <1>1, <1>9
<1>11. q \in Pairs(Traders(us)) /\ CloseBuys(us, q) # {}
  BY <1>3, <1>4, <1>7 DEF MetFirst
<1> HIDE DEF Edge
<1>12. Edge(us, q, FirstMet(us, CloseBuys(us, q))) \in TimingEdges(us)
  BY <1>5, <1>11
<1> QED BY <1>8, <1>10, <1>12

\* So does every other edge: the lookups only learn.
LEMMA EdgesStay ==
  ASSUME Buffered, [Next]_vars, Ordered(trades')
  PROVE  Edges(trades) \subseteq Edges(trades)'
<1>1. /\ Prolongs(trades, trades') /\ trades' \in Seq(Trades)
      /\ funderKnown \subseteq funderKnown'
  BY EvidenceStays DEF Prolongs
<1>2. /\ Traders(trades) \subseteq Traders(trades')
      /\ TimingEdges(trades) \subseteq TimingEdges(trades')
  BY <1>1, TimingEdgesStay
<1>3. \A S, R : S \subseteq R => Pairs(S) \subseteq Pairs(R)
  BY DEF Pairs
<1>4. \A w : FunderOf(w) # None => FunderOf(w)' = FunderOf(w)
  BY <1>1 DEF FunderOf
<1>5. CommonFunderEdges(Traders(trades)) \subseteq CommonFunderEdges(Traders(trades))'
  <2> SUFFICES ASSUME NEW q \in Pairs(Traders(trades)),
                      NEW f, f # None, \A w \in q : FunderOf(w) = f,
                      \E w \in q : FunderOf(w) = f
               PROVE  [ends |-> q, reason |-> "common-funder", weight |-> 135]
                        \in CommonFunderEdges(Traders(trades))'
    BY Zenon DEF CommonFunderEdges
  <2>1. q \in Pairs(Traders(trades'))
    BY <1>2, <1>3
  <2>2. \A w \in q : FunderOf(w)' = f
    BY <1>4
  <2>3. f \in {FunderOf(w)' : w \in q} \ {None}
    BY <2>2
  <2> QED BY <2>1, <2>2, <2>3 DEF CommonFunderEdges
<1>6. SharedCreatorEdges(Traders(trades)) \subseteq SharedCreatorEdges(Traders(trades))'
  <2>1. {w \in Traders(trades) : IsCreatorAssociated(w)} \subseteq {w \in Traders(trades') : IsCreatorAssociated(w)'}
    BY <1>2, CreatorsStay
  <2>2. Pairs({w \in Traders(trades) : IsCreatorAssociated(w)})
          \subseteq Pairs({w \in Traders(trades') : IsCreatorAssociated(w)'})
    BY <1>3, <2>1
  <2> QED BY <2>2 DEF SharedCreatorEdges
<1>7. CoBuyEdges([t \in {"token"} |-> trades]) = {}
  BY EdgesOnPairs DEF Buffered
<1> QED BY <1>2, <1>5, <1>6, <1>7 DEF Edges

\* More edges only make a component larger.
LEMMA ReachesMore ==
  ASSUME NEW E, NEW F, E \subseteq F, NEW w \in Wallets
  PROVE  w \in Reachable(E, w) /\ Reachable(E, w) \subseteq Reachable(F, w)
<1>1. Strong(E) \subseteq Strong(F)
  BY DEF Strong
<1>2. \A S : (\A e \in Strong(F) : e.ends \cap S # {} => e.ends \subseteq S)
               => \A e \in Strong(E) : e.ends \cap S # {} => e.ends \subseteq S
  BY <1>1
<1> QED BY <1>2 DEF Reachable

\* A cluster keeps the edges between its members.
LEMMA ClusterShape ==
  ASSUME NEW E, NEW c \in BuildClusters(E)
  PROVE  c.edges = {e \in E : e.ends \subseteq c.members}
<1> DEFINE Cluster(ms) == [members |-> ms, edges |-> {e \in E : e.ends \subseteq ms}]
<1>1. \E ms : c = Cluster(ms)
  BY Zenon DEF BuildClusters
<1> QED BY <1>1

\* With more edges, each cluster lies in a cluster that has its edges.
LEMMA ClustersGrow ==
  ASSUME NEW E, NEW F, Graph(E), Graph(F), E \subseteq F, NEW c \in BuildClusters(E)
  PROVE  \E d \in BuildClusters(F) : /\ c.members \subseteq d.members
                                     /\ c.edges \subseteq d.edges
                                     /\ IsFiniteSet(d.edges)
<1>1. PICK w \in Wallets : Reachable(E, w) # {w} /\ c.members = Reachable(E, w)
  BY ComponentsOfGraph
<1>2. w \in Reachable(E, w) /\ Reachable(E, w) \subseteq Reachable(F, w)
  BY ReachesMore
<1>3. Reachable(F, w) # {w}
  BY <1>1, <1>2
<1>4. Reachable(F, w) \in {d.members : d \in BuildClusters(F)}
  BY <1>3, ComponentsOfGraph
<1>5. PICK d \in BuildClusters(F) : d.members = Reachable(F, w)
  BY <1>4
<1>6. /\ c.edges = {e \in E : e.ends \subseteq c.members}
      /\ d.edges = {e \in F : e.ends \subseteq d.members}
  BY ClusterShape
<1>7. c.members \subseteq d.members
  BY <1>1, <1>2, <1>5
<1>8. c.edges \subseteq d.edges
  BY <1>6, <1>7
<1>9. IsFiniteSet(d.edges)
  <2>1. IsFiniteSet(F) /\ d.edges \subseteq F
    BY <1>6 DEF Graph
  <2> QED BY <2>1, FS_Subset
<1> QED BY <1>7, <1>8, <1>9

\* More edges are no less coordinated.
LEMMA CoordinationGrows ==
  ASSUME NEW E, NEW F, E \subseteq F, IsFiniteSet(F), CoordinatedBuying(E)
  PROVE  CoordinatedBuying(F)
<1> DEFINE Timed(X) == {e \in X : e.reason = "timing-correlation"}
<1>1. Timed(E) \subseteq Timed(F) /\ Timed(F) \subseteq F
  OBVIOUS
<1>2. (\E e \in E : e.reason = "common-funder") => \E e \in F : e.reason = "common-funder"
  OBVIOUS
<1>3. CoordinatedBuying(E) <=> Cardinality(Timed(E)) >= 2 \/ \E e \in E : e.reason = "common-funder"
  BY DEF CoordinatedBuying
<1>4. CoordinatedBuying(F) <=> Cardinality(Timed(F)) >= 2 \/ \E e \in F : e.reason = "common-funder"
  BY DEF CoordinatedBuying
<1> HIDE DEF Timed
<1>5. IsFiniteSet(Timed(F)) /\ IsFiniteSet(Timed(E)) /\ Cardinality(Timed(E)) <= Cardinality(Timed(F))
  BY <1>1, FS_Subset
<1>6. Cardinality(Timed(E)) \in Nat /\ Cardinality(Timed(F)) \in Nat
  BY <1>5, FS_CardinalityType
<1> QED BY <1>2, <1>3, <1>4, <1>5, <1>6

\* The same as a state predicate.
LEMMA BufferedGraph == Buffered => Graph(Edges(trades))
BY EdgesAreGraph DEF Buffered

\* A step that leaves the trades in order takes no lasting flag from any wallet.
LEMMA StandingGrows ==
  ASSUME Buffered, [Next]_vars, InOrder'
  PROVE  Standing \subseteq Standing'
<1>1. trades' \in Seq(Trades) /\ Ordered(trades')
  BY EvidenceStays DEF InOrder, Ordered, Prolongs
<1> DEFINE E == Edges(trades)
           F == Edges(trades)'
<1>2. E \subseteq F
  BY <1>1, EdgesStay
<1>3. Graph(E)
  BY BufferedGraph
<1>4. Graph(F)
  <2>1. Buffered'
    BY <1>1 DEF Buffered
  <2>2. Graph(Edges(trades))'
    BY <2>1, BufferedGraph, PTL
  <2> QED BY <2>2
<1>5. Standing = UNION {Lasting(b).members \X Lasting(b).flags : b \in BuildClusters(E)}
  BY DEF Standing
<1>6. Standing' = UNION {Lasting(b)'.members \X Lasting(b)'.flags : b \in BuildClusters(F)}
  BY DEF Standing
<1> HIDE DEF E, F
<1>7. ASSUME NEW b \in BuildClusters(E)
      PROVE  \E d \in BuildClusters(F) : /\ Lasting(b).members \subseteq Lasting(d)'.members
                                         /\ Lasting(b).flags \subseteq Lasting(d)'.flags
  <2>1. PICK d \in BuildClusters(F) : /\ b.members \subseteq d.members
                                      /\ b.edges \subseteq d.edges
                                      /\ IsFiniteSet(d.edges)
    BY <1>2, <1>3, <1>4, ClustersGrow
  <2>2. CoordinatedBuying(b.edges) => CoordinatedBuying(d.edges)
    BY <2>1, CoordinationGrows
  <2>3. ClusterFlags(trades, b, FALSE, rugged) \cap LastingFlags
          \subseteq (ClusterFlags(trades, d, FALSE, rugged) \cap LastingFlags)'
    BY <2>1, <2>2, LastingFlagsStay
  <2> QED BY <2>1, <2>3 DEF Lasting
<1> QED BY <1>5, <1>6, <1>7

\* While the block times of the trades are in order, nothing that a wallet, a lookup
\* or a rug adds clears a lasting flag of any wallet.
THEOREM FlagsNeverCleared == Spec => FlagsStay
<1>1. Buffered /\ [Next]_vars => [InOrder' /\ UNCHANGED detection => Standing \subseteq Standing']_vars
  BY StandingGrows
<1> QED BY <1>1, BufferedInvariant, PTL DEF Spec, FlagsStay
-----------------------------------------------------------------------------
(* The structure and the folds.                                            *)

\* A union does to the groups what one edge does to the classes of BuildClusters, and a
\* find what meeting one wallet does: both folds are what the calls compute.
THEOREM CallsFoldClasses ==
  ForestSpec =>
    [][/\ \A a, b \in Nodes : DoUnion(a, b) =>
            Classes(uf'.parent) = UnionEdge([ends |-> {a, b}], Classes(uf.parent))
       /\ \A x \in Nodes : DoFind(x) =>
            Classes(uf'.parent) = FindMember(x, Classes(uf.parent))]_uf
<1>1. ASSUME Forest(uf), NEW a, NEW b, DoUnion(a, b)
      PROVE  Classes(uf'.parent) = UnionEdge([ends |-> {a, b}], Classes(uf.parent))
  <2> DEFINE C == Classes(uf.parent)
  <2>1. Classes(uf'.parent) = Merged(C, a, b)
    BY <1>1, UnionRoots, RootsMerge DEF DoUnion
  <2> HIDE DEF C
  <2>2. {c \in C : a \notin c /\ b \notin c} = {c \in C : c \cap {a, b} = {}}
    OBVIOUS
  <2>3. ClassIn(C, a) \cup ClassIn(C, b) = {a, b} \cup UNION {c \in C : c \cap {a, b} # {}}
    BY DEF ClassIn
  <2>4. [ends |-> {a, b}].ends = {a, b}
    OBVIOUS
  <2>5. UnionEdge([ends |-> {a, b}], C)
          = {c \in C : c \cap {a, b} = {}} \cup {{a, b} \cup UNION {c \in C : c \cap {a, b} # {}}}
    BY <2>4 DEF UnionEdge
  <2> QED BY <2>1, <2>2, <2>3, <2>5 DEF Merged, C
<1>2. ASSUME Forest(uf), NEW x, DoFind(x)
      PROVE  Classes(uf'.parent) = FindMember(x, Classes(uf.parent))
  <2> DEFINE C == Classes(uf.parent)
  <2>1. Classes(uf'.parent) = Merged(C, x, x)
    <3>1. /\ DOMAIN uf'.parent = DOMAIN uf.parent \cup {x}
          /\ \A y \in DOMAIN uf.parent : Root(uf'.parent, y) = Root(uf.parent, y)
          /\ x \notin DOMAIN uf.parent => Root(uf'.parent, x) = x
      BY <1>2, FindRoots DEF DoFind
    <3>2. JoinsRoots(uf, uf', x, x)
      BY <3>1 DEF JoinsRoots, Home
    <3> QED BY <1>2, <3>2, RootsMerge
  <2>2. \A c, d \in C : c \cap d # {} => c = d
    BY DEF Classes, Class
  <2> HIDE DEF C
  <2>3. CASE x \in UNION C
    <3>1. PICK c \in C : x \in c
      BY <2>3
    <3>2. {d \in C : x \in d} = {c}
      BY <2>2, <3>1
    <3>3. ClassIn(C, x) = c
      BY <3>1, <3>2 DEF ClassIn
    <3>4. Merged(C, x, x) = {d \in C : x \notin d} \cup {c}
      BY <3>3 DEF Merged
    <3>5. Merged(C, x, x) = C
      BY <3>1, <3>2, <3>4
    <3> QED BY <2>1, <2>3, <3>5 DEF FindMember, C
  <2>4. CASE x \notin UNION C
    <3>1. {d \in C : x \in d} = {} /\ {d \in C : x \notin d} = C
      BY <2>4
    <3>2. ClassIn(C, x) = {x}
      BY <3>1 DEF ClassIn
    <3> QED BY <2>1, <2>4, <3>1, <3>2 DEF Merged, FindMember, C
  <2> QED BY <2>3, <2>4
<1> DEFINE Folded ==
      /\ \A a, b \in Nodes : DoUnion(a, b) =>
           Classes(uf'.parent) = UnionEdge([ends |-> {a, b}], Classes(uf.parent))
      /\ \A x \in Nodes : DoFind(x) => Classes(uf'.parent) = FindMember(x, Classes(uf.parent))
<1>3. ForestInv => Folded
  BY <1>1, <1>2 DEF ForestInv
<1> HIDE DEF Folded
<1>4. ForestSpec => [][Folded]_uf
  BY <1>3, ForestInvariance, PTL
<1> QED BY <1>4 DEF Folded
=============================================================================
