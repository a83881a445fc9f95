--------------------------- MODULE ClusterDetector ---------------------------
(***************************************************************************)
(* Cluster detection for one token: the buffer of its trades, the edges    *)
(* between wallets, the clusters they merge into, and the flags of each    *)
(* cluster.                                                                *)
(*                                                                         *)
(* detectForToken builds edges and clusters in one go, then awaits the     *)
(* token's statistics and, after each cluster, the repository.  The        *)
(* buffer is shared with the listener, not copied: trades that arrive      *)
(* during an await are seen by the flags, but not by the edges.            *)
(***************************************************************************)
EXTENDS Naturals, FiniteSetsExt, Sequences

CONSTANTS
  Wallets,
  Trades,          \* trades that may arrive: [wallet, side, at, amount]
  Funder,          \* [Wallets -> the funder that a lookup finds, or None]
  Deployer,        \* the token's deployer, or None if a lookup cannot tell
  None,
  MergeThreshold,  \* config.clusterThresholds.edgeMergeThreshold, in 150ths
  PenaltyCap,      \* config.clusterThresholds.manipulationPenaltyCap
  MaxTrades        \* bound: length of the buffer

ASSUME ClusterAssumption ==
  /\ Trades \subseteq [wallet : Wallets, side : {"BUY", "SELL"}, at : Nat, amount : Nat \ {0}]
  /\ DOMAIN Funder = Wallets
  /\ MergeThreshold \in 0..150 /\ PenaltyCap \in 0..100 /\ MaxTrades \in Nat

VARIABLES
  trades,        \* tradesByToken's buffer, in order of arrival
  funderKnown,   \* wallets in the relationship source's funder cache
  deployerKnown, \* is the token in its deployer cache?
  rugged,        \* ruggedRegistry.isRugged
  detection      \* the call of detectForToken under way, and what it returned

vars == <<trades, funderKnown, deployerKnown, rugged, detection>>
sources == <<funderKnown, deployerKnown>>

-----------------------------------------------------------------------------
(* Edges.  Weights are in 150ths: 1 - delta/15 is 10 * (15 - delta).       *)

TimingWindow == 15
SellWindow == 30

Pairs(S) == {pair \in SUBSET S : Cardinality(pair) = 2}
Traders(ts) == {ts[i].wallet : i \in DOMAIN ts}
Buys(ts) == {i \in DOMAIN ts : ts[i].side = "BUY"}

\* the stable sort by block time
Precedes(ts, i, j) == ts[i].at < ts[j].at \/ (ts[i].at = ts[j].at /\ i < j)

\* pairs of buys of the two wallets, earlier first, close enough for the inner loop
CloseBuys(ts, pair) ==
  {ij \in Buys(ts) \X Buys(ts) :
     /\ Precedes(ts, ij[1], ij[2])
     /\ ts[ij[2]].at - ts[ij[1]].at <= TimingWindow
     /\ {ts[ij[1]].wallet, ts[ij[2]].wallet} = pair}

\* Mutant: a later pair replaces the one that was met first.
FirstMet_Last(ts, found) ==
  CHOOSE ij \in found : \A kl \in found :
    \/ Precedes(ts, kl[1], ij[1])
    \/ ij[1] = kl[1] /\ (ij[2] = kl[2] \/ Precedes(ts, kl[2], ij[2]))

\* the one the two loops meet first; `seen` drops the others
FirstMet(ts, found) ==
  CHOOSE ij \in found : \A kl \in found :
    \/ Precedes(ts, ij[1], kl[1])
    \/ ij[1] = kl[1] /\ (ij[2] = kl[2] \/ Precedes(ts, ij[2], kl[2]))

TimingEdges(ts) ==
  {LET ij == FirstMet(ts, CloseBuys(ts, pair)) IN
     [ends |-> pair, reason |-> "timing-correlation",
      weight |-> 10 * (TimingWindow - (ts[ij[2]].at - ts[ij[1]].at))]
   : pair \in {q \in Pairs(Traders(ts)) : CloseBuys(ts, q) # {}}}

\* Wallets that bought at least two tokens in common.  detectForToken passes the
\* trades of one token.
CoBuyEdges(tradesByToken) ==
  LET TokensOf(w) == {t \in DOMAIN tradesByToken :
                        \E i \in Buys(tradesByToken[t]) : tradesByToken[t][i].wallet = w}
      Shared(pair) == Cardinality({t \in DOMAIN tradesByToken : \A w \in pair : t \in TokensOf(w)})
      Buyers == {w \in Wallets : TokensOf(w) # {}}
  IN {[ends |-> pair, reason |-> "repeated-co-buy", weight |-> Min({150, (150 * Shared(pair)) \div 4})]
      : pair \in {q \in Pairs(Buyers) : Shared(q) >= 2}}

\* what the caches of the relationship source answer
FunderOf(w) == IF w \in funderKnown THEN Funder[w] ELSE None
\* Mutant: a known funder hides that the wallet is the deployer.
IsCreatorAssociated_FunderFirst(w) ==
  deployerKnown /\ Deployer = IF w \in funderKnown THEN Funder[w] ELSE w

IsCreatorAssociated(w) ==
  deployerKnown /\ Deployer # None /\ (w = Deployer \/ FunderOf(w) = Deployer)

CommonFunderEdges(ws) ==
  {[ends |-> pair, reason |-> "common-funder", weight |-> 135]
   : pair \in {q \in Pairs(ws) : \E f \in {FunderOf(w) : w \in q} \ {None} : \A w \in q : FunderOf(w) = f}}

SharedCreatorEdges(ws) ==
  {[ends |-> pair, reason |-> "shared-creator", weight |-> 150]
   : pair \in Pairs({w \in ws : IsCreatorAssociated(w)})}

Edges(ts) ==
  TimingEdges(ts) \cup CoBuyEdges([t \in {"token"} |-> ts])
    \cup CommonFunderEdges(Traders(ts)) \cup SharedCreatorEdges(Traders(ts))

-----------------------------------------------------------------------------
(* Clusters and their flags.                                               *)

Strong(edges) == {e \in edges : e.weight >= MergeThreshold}

\* union and find, as merges of classes: module UnionFind implements them so
UnionEdge(e, classes) ==
  {c \in classes : c \cap e.ends = {}} \cup {e.ends \cup UNION {c \in classes : c \cap e.ends # {}}}

FindMember(w, classes) == IF w \in UNION classes THEN classes ELSE classes \cup {{w}}

\* Mutant: weak edges merge as well.
BuildClusters_AllEdges(edges) ==
  LET merged == FoldSet(UnionEdge, {}, edges)
      groups == FoldSet(FindMember, merged, UNION {e.ends : e \in edges})
  IN {[members |-> ms, edges |-> {e \in edges : e.ends \subseteq ms}]
      : ms \in {c \in groups : Cardinality(c) >= 2}}

BuildClusters(edges) ==
  LET merged == FoldSet(UnionEdge, {}, Strong(edges))
      groups == FoldSet(FindMember, merged, UNION {e.ends : e \in edges})
  IN {[members |-> ms, edges |-> {e \in edges : e.ends \subseteq ms}]
      : ms \in {c \in groups : Cardinality(c) >= 2}}

Volume(ts, is) == FoldSet(LAMBDA i, sum : sum + ts[i].amount, 0, is)

ConcentratedOwnership(ts, members, topHeavy) ==
  \/ 2 * Volume(ts, {i \in Buys(ts) : ts[i].wallet \in members}) > Volume(ts, Buys(ts))
  \/ topHeavy

CoordinatedBuying(edges) ==
  \/ Cardinality({e \in edges : e.reason = "timing-correlation"}) >= 2
  \/ \E e \in edges : e.reason = "common-funder"

ImmediateLargeSelling(ts, members) ==
  \E i \in Buys(ts), j \in DOMAIN ts :
    /\ ts[i].wallet \in members /\ ts[j].wallet = ts[i].wallet
    /\ Precedes(ts, i, j) /\ ts[j].at - ts[i].at <= SellWindow
    /\ ts[j].side = "SELL" /\ 2 * ts[j].amount >= ts[i].amount

Flags == {"concentratedOwnership", "coordinatedBuying", "immediateLargeSelling",
          "creatorAssociatedWallets", "suspiciousLiquidityBehavior"}

ClusterFlags(ts, cluster, topHeavy, isRugged) ==
  {f \in Flags :
     \/ f = "concentratedOwnership" /\ ConcentratedOwnership(ts, cluster.members, topHeavy)
     \/ f = "coordinatedBuying" /\ CoordinatedBuying(cluster.edges)
     \/ f = "immediateLargeSelling" /\ ImmediateLargeSelling(ts, cluster.members)
     \/ f = "creatorAssociatedWallets" /\ \E w \in cluster.members : IsCreatorAssociated(w)
     \/ f = "suspiciousLiquidityBehavior" /\ isRugged}

Penalty(flags) == Min({PenaltyCap, 20 * Cardinality(flags)})

Evaluated(ts, cluster, topHeavy, isRugged) ==
  LET flags == ClusterFlags(ts, cluster, topHeavy, isRugged) IN
  [members |-> cluster.members, flags |-> flags, penalty |-> Penalty(flags)]

-----------------------------------------------------------------------------
(* detectForToken, split at its awaits.                                    *)

\* The flags that can only be earned: no further trade takes the evidence away.
LastingFlags == Flags \ {"concentratedOwnership"}

Lasting(c) == [members |-> c.members,
               flags |-> ClusterFlags(trades, c, FALSE, rugged) \cap LastingFlags]

Idle == [pc |-> "idle", todo |-> {}, topHeavy |-> FALSE, evaluated |-> {}, due |-> {}]

Init ==
  /\ trades = <<>>
  /\ funderKnown = {} /\ deployerKnown = FALSE /\ rugged = FALSE
  /\ detection = Idle

\* the bus listener
Trade(t) ==
  /\ Len(trades) < MaxTrades
  /\ trades' = Append(trades, t)
  /\ UNCHANGED <<sources, rugged, detection>>

\* a background lookup lands; only wallets seen trading are asked about
LearnFunder(w) ==
  /\ w \in Traders(trades) \ funderKnown
  /\ funderKnown' = funderKnown \cup {w}
  /\ UNCHANGED <<trades, deployerKnown, rugged, detection>>

LearnDeployer ==
  /\ trades # <<>> /\ ~deployerKnown
  /\ deployerKnown' = TRUE
  /\ UNCHANGED <<trades, funderKnown, rugged, detection>>

\* token-intel flags the token
Rug ==
  /\ trades # <<>> /\ ~rugged
  /\ rugged' = TRUE
  /\ UNCHANGED <<trades, sources, detection>>

\* up to `await tokenRepo.getStats`; due is history: the flags already earned
Detect ==
  /\ detection.pc = "idle" /\ trades # <<>>
  /\ LET clusters == BuildClusters(Edges(trades)) IN
     detection' = [Idle EXCEPT !.pc = "stats", !.todo = clusters,
                               !.due = {Lasting(c) : c \in clusters}]
  /\ UNCHANGED <<trades, sources, rugged>>

\* the statistics arrive; of them only top10HolderPct > 0.7 is used
ReadStats(topHeavy) ==
  /\ detection.pc = "stats"
  /\ detection' = [detection EXCEPT !.pc = "evaluate", !.topHeavy = topHeavy]
  /\ UNCHANGED <<trades, sources, rugged>>

\* one turn of the loop, up to `await upsertCluster`
Evaluate(c) ==
  /\ detection.pc = "evaluate" /\ c \in detection.todo
  /\ detection' = [detection EXCEPT
       !.todo = @ \ {c},
       !.evaluated = @ \cup {Evaluated(trades, c, detection.topHeavy, rugged)}]
  /\ UNCHANGED <<trades, sources, rugged>>

\* the clusters are returned; the next call starts afresh
Return ==
  /\ detection.pc = "evaluate" /\ detection.todo = {}
  /\ detection' = Idle
  /\ UNCHANGED <<trades, sources, rugged>>

Next ==
  \/ \E t \in Trades : Trade(t)
  \/ \E w \in Wallets : LearnFunder(w)
  \/ LearnDeployer
  \/ Rug
  \/ Detect
  \/ \E topHeavy \in BOOLEAN : ReadStats(topHeavy)
  \/ \E c \in detection.todo : Evaluate(c)
  \/ Return

Spec == Init /\ [][Next]_vars

-----------------------------------------------------------------------------
(* Properties.                                                             *)

\* The reference for buildClusters: two wallets are in one cluster exactly
\* when a chain of strong edges leads from one to the other.
Reachable(edges, w) ==
  {v \in Wallets : \A S \in SUBSET Wallets :
     w \in S /\ (\A e \in Strong(edges) : e.ends \cap S # {} => e.ends \subseteq S) => v \in S}

\* Whatever the order of the unions, the clusters are the connected components of the
\* strong edges with two members or more, so a wallet is in one cluster at
\* most: the callers take the first that includes it (SniperOrchestrator.ts:128,
\* WhaleDiscoveryEngine.ts:106).
ClustersAreComponents ==
  LET edges == Edges(trades) IN
  {c.members : c \in BuildClusters(edges)}
    = {Reachable(edges, w) : w \in {v \in Wallets : Reachable(edges, v) # {v}}}

\* A flag that was earned when the detection started is in the verdict, and its penalty counts it,
\* although the flags are evaluated after awaits, on a buffer and caches that have moved on.
VerdictNotWeakened ==
  detection.pc = "evaluate" /\ detection.todo = {} =>
    \A d \in detection.due : \E v \in detection.evaluated :
      v.members = d.members /\ d.flags \subseteq v.flags /\ v.penalty >= Penalty(d.flags)

\* the wallets and lasting flags that a detection started now would find
Standing ==
  UNION {c.members \X c.flags : c \in {Lasting(b) : b \in BuildClusters(Edges(trades))}}

InOrder == \A i, j \in DOMAIN trades : i < j => trades[i].at <= trades[j].at

\* While trades arrive in the order of their block times, nothing a wallet does later
\* clears it: each flag but the share of the volume stays in every later detection.
\* (Out of order it can: an earlier buy may loosen the pair that timing keeps.)
FlagsStay == [][InOrder' /\ UNCHANGED detection => Standing \subseteq Standing']_vars
=============================================================================
