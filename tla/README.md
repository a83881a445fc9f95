# Whalescout in TLA+

Whalescout watches a stream of Solana trades, copies the buys of watched
"whale" wallets on paper, and manages the positions that result: a
take-profit ladder, a trailing stop, a stop loss, a hold limit, and a forced
exit when the whale itself sells.  This directory holds TLA+ models of its
core, TLC configurations that check them, and TLAPS proofs.

The program is one Node process.  Components talk over a synchronous
`EventBus`; nearly every listener is an `async` method launched with
`void this.handle(event)`, so **the handlers of different events interleave at
every `await`** and share mutable objects while they do.  There are no locks.
Repositories are either in memory (an await costs a microtask, and the data is
written before the call returns) or PostgreSQL through Prisma (an await takes
real time, and concurrent upserts may commit in any order).  A rejected promise
is not caught by these handlers, and ends the process.  That is where the
models look: each action is the code between two awaits.

## Inventory

| Part | State | Operations | What must be right |
| --- | --- | --- | --- |
| `core` | event bus listeners; `RuntimeFlags`; `RpcRefreshGovernor`; creator and rug registries; first-seen index; configuration | `emit`; `pause`/`resume`/`kill`; `tryStart`; `recordTokenLaunch`, `recordRug` | a kill is not undone; the RPC quota is spent once; counters count once |
| `db` | positions, watchlist, risk state, trails | `savePosition`, `add`, `updateStatus`, `get`/`save` | the stored record follows the live one |
| `feed` | playback timer or websocket | emits `trade.normalized` | order and completeness of a playback |
| `wallet-intel` | accumulators and open lots per wallet; `WatchlistIndex` | per-trade update, scoring, `upsert`, `statusOf` | lots never negative; status is what was decided |
| `token-intel` | trades per token; metadata caches; observed tokens | `getStats`, refreshes, rug flag, risk score | a rug is flagged on answers, not on failures; unknown never reads as safe; stale data is refreshed within the quota |
| `cluster-detect` | trades per token; `funders`/`deployers` caches | `detectForToken`, relationship lookups | clusters are the connected components; unknown is not "clean" |
| `whale-discovery` | none of its own | judge an unknown wallet after each trade | linked wallets are not let through; decisions are not repeated |
| `signal-engine` | none | scores, entry gate | worse facts never open the gate |
| `orchestrator` | `openPositions` (live objects) | `handle`: walk open positions, then the entry pipeline | caps on positions and exposure; what is opened is managed |
| `execution` | risk state | `executeEntry`, `RiskEngine.evaluate` | no order after a veto or a kill |
| `paper-trading` | none | fills, `applyPaperExit`, `markPositionPrice` | tokens are conserved |
| `position-mgmt` | the `Position` objects | `onPriceTick`, `forceExit` | due exits happen, once, and are announced |
| `whale-exit` | `TrackedWhale` per position | `track`, `handle` | the response escalates with the whale's sales |
| `telegram-bot` | none | `/pause` `/resume` `/kill` `/approve` `/reject`, notifications | what it answers is true |
| `monitoring` | counters, last alerts | counting of events, alert debounce | counters match what happened |
| `dashboard` | ring buffer of 200 events; in the browser, the panels and a drawer | read-only views, joined from several tables; a refresh every five seconds | newest first, bounded; rows complete; the page settles |
| `backtest` | none | replay of a recorded feed | same decisions as live |
| `apps/sniper-runner` | wiring | boot order, start, stop | what a restart restores |

How they interact: a trade reaches `walletStatsUpdater`, `tokenStatsCollector`,
`clusterDetector`, `whaleExitMonitor` and the orchestrator, in that order of
subscription, each up to its first await.  The orchestrator first walks its open
positions (`onPriceTick` on those of the token), then, for a watched wallet's buy,
scores it, reads the exposure, and calls `executeEntry`, which reads the flags and the
risk state, orders, and saves; finally the position joins the walk and the
monitor.  `whaleExitMonitor` calls `PositionManager.forceExit` on the *same*
`Position` object that ticks act on.  `wallet.stats-updated` leads to
`whaleDiscoveryEngine`; Telegram writes flags and watchlist.  The behaviours that
are hard to test are the hazards of `PROJECT.json`, each with the properties that
cover it.

## Modules

| Module | Models |
| --- | --- |
| `PositionStateMachine` | the pure operators on a `Position`: `decideNextAction`, `applyPriceTick`, `applyPaperExit`, `markTakeProfitFilled`, `evaluateWhaleExitTier` |
| `PositionManager` | one position; a *tick task* and an *exit task* per trade, with one action per stretch of code between awaits, and the repository's commits |
| `EntryPipeline` | the entry half of `SniperOrchestrator.handle`, `executeEntry`, `RiskEngine.evaluate`, `RuntimeFlags` |
| `RpcRefreshGovernor` | the shared governor and the caches filled through it |
| `WatchlistDiscovery` | the watchlist index and repository, `WhaleDiscoveryEngine`, `/approve`, `/reject`, restart |
| `DisjointSets`, `UnionFind` | `unionFind.ts` as operators, and a structure under any sequence of its calls |
| `Partition` | what union-find promises: a partition in which only unions join classes |
| `ClusterDetector` | edges, clusters and flags of one token, and `detectForToken` split at its awaits |
| `StreamStats` | `WalletStatsUpdater`, `TokenStatsCollector`, the first-seen index and the rug registry, over a stream of trades |
| `TokenMetadata` | the three metadata providers with their calls and caches, the read on every trade, the rug flag; it extends `RpcRefreshGovernor` |
| `EntryScoring` | `walletScoring`, `tokenRiskScoring`, `signalScoring`, `entryGate` and the slippage estimate, on statistics that move |
| `DashboardApi` | boot, feed, the saves and announcements of an entry, counters, event ring, and every route as the reads it makes |
| `DashboardPage` | `app.js`: overlapping refreshes, rendering, the whale drawer |
| `*Proofs` | theorems and their TLAPS proofs; `ClusterDetectorProofs` covers `UnionFind` too, `TokenMetadataProofs` the governor |
| `MC*` | values of constants that a .cfg cannot write |

### PositionStateMachine and PositionManager

`position` is the shared object.  A trade makes a `tick[t]` (`queued` until the
orchestrator's walk reaches the position, `stats` until `getStats` answers,
`partial`/`full`/`final` while a `savePosition` is in flight) and, if it is a sale of
the whale, an `exit[t]`.  `Decide` is `onPriceTick`'s loop up to its next await:
one exit, or the final save, or nothing on a position that closed meanwhile.
After a partial exit the loop goes on **with whatever the shared position has become**,
but sells at the price of its own trade: `Decide` reads `position` and
`tick[t].price` exactly so.  A save carries a snapshot; with `DatabaseBacked` it is
committed by a separate step in any order, without it at once.

Prices and amounts are integers, percentages integers in percent, so comparisons
are exact.  Left out: fees, slippage and realised PnL (no decision
reads them), MFE/MAE, the five red flags that the default wiring fixes to false.

### EntryPipeline

`task[e]` is the handler of one qualifying buy.  `ReadExposure` is the code from
the exposure read to `executeEntry`'s look at the flags, with no await in it; then come
the awaits on the risk state, the order and the save, and `Track`, which is when other
handlers can see the position.  The gate's other conditions read nothing shared, so
`Reject` is always possible.  Nothing in the program writes the risk state
(`recordTradeResult` and `killSwitch` have no caller), so its limits on losses, its
cooldown and its own kill switch never apply; they are left out of `RiskVeto`.

### RpcRefreshGovernor

A read that starts a refresh is the action `Read`; a refused read changes nothing and
is no step.  The task writes its cache (`Succeed`) or not (`Fail`), and the
key leaves `inFlight` in a later microtask (`Release`).  `starts` is the history that the
properties are about.  `prefetch`, which bypasses the throttle, is not called by the
running program.

### WatchlistDiscovery

Index and repository are two functions from wallets to a status and who gave it.
`Evaluate` is `handle` up to its first await: `detectForToken` collects its edges
synchronously, on what has traded and been looked up by now; `SetStatus`,
`CommitStatus` and `Announce` follow, without another look at the index.  The operator's
command commits first and updates the index after.  Operator commands do not overlap
(the bot answers one update at a time).  `Linked` says which wallets truly belong
together; the merge threshold is taken to be below the weight of such an edge, as
shipped.  Other edges (trade times) are a free choice.  `Restart` reloads the file's
wallets and loses everything else that is in memory.

### DisjointSets, UnionFind and Partition

A structure is a record of two functions with the same domain.  The loops of `find` are
stated without recursion: the nodes on the walk from `x` are the least set that holds `x` and is
closed under `parent`, and the root is the one that points to itself.  `UnionFind` implements
`Partition` by mapping the structure to its set of classes, so it does not matter to
a caller which root represents a group.

### ClusterDetector

One token.  `Detect` is `detectForToken` up to `await getStats`: edges and clusters come from the
buffer and the caches as they are.  `ReadStats` is the answer (only
`top10HolderPct > 0.7` is used), and each `Evaluate` one turn of the loop up to its save, in
any order of the clusters.  The buffer is not copied, so between these steps trades and lookups
arrive and the flags see them.  Weights are integers in 150ths (the timing edge is `10 * (15 - seconds)`),
and one amount stands for the dollars and the tokens of a trade.  One detection at
a time is enough: detections write nothing that another one reads.

A token's deployer that the lookups could not name is associated with nobody (`IsCreatorAssociated`).

`BuildClusters` merges sets of wallets, as `Partition` does, and not union-find records; that the
records do the same, call by call, are the theorems `ImplementsPartition` and `CallsFoldClasses`.

### StreamStats

A trade is one step, `HandleEvent`: both listeners run to their upserts within one `emit`, the wallet's
first.  `history` is the stream so far and what the properties compare the running sums
with; a token's kept trades are positions in it.  `liquidity` is what the metadata provider answers while
the trade is handled.  The cost of a lot is an exact fraction.  Profit and drawdown in dollars are left out (sums of
the same steps).

### TokenMetadata

`Trade` is `TokenStatsCollector.handle`'s use of `get`: it serves what is cached, field by field, starts what is due
and judges rugs by what it has just been served.  Each call has its own steps for leaving the service with an
answer, arriving, and failing, so the chain moves while answers travel.  The calls over RPC go through the
governor: the module extends `RpcRefreshGovernor` and moves its variables only by its actions.  The composite
provider's three RPC calls run at once and are combined when all are in, unless one has failed; Solscan's three run in a
row, and a body that cannot be read (`null`, or a malformed item) rejects the refresh at the first or the last of them
(`BodyThrows`, counted in `unhandled`).  An answer's field may be null, an address or absent.  `since` is the history that
`MeasuredByItsRefresh` needs: the concentrations the mint has had since its refresh began.  The supply does not change
during a refresh, so the two calls behind a concentration are one answer.  Left out: `holderCount` and `marketCap`
(nothing decides on them) and URLs.

### EntryScoring

The scores are recomputed from the statistics of the moment at every watched buy, so the state is the statistics, and a
step moves them: a buy or a round trip of the wallet, one field of the token, the flags of a cluster.
The properties are about pairs of such moments.  Numbers are integers in hundredths of a point, quotients are
rounded down where the code has floats; weights and limits are the shipped ones, with the creator's risk turned on.

### DashboardApi and DashboardPage

`store` is what `createRepositories` came back with.  With Postgres a row may only refer to rows that are there; the
wallet and token rows are upserted without `await`, and a save that is rejected ends the process (`Exit`).
Prisma's `allPositions` and `getOpenPositions` answer `[]`; with Postgres no position gets as far as being saved
either (see below).  `Land` commits the wallet's row and the token's, each on its own; a later save needs this wallet's
and this token's row (`Referenced`), from whichever trade or run it comes.

`Ask`, `Read` and `Respond` are one request: `Plan` says which tables each route reads, in which order (a set for
`Promise.all`), and `Answer` what it builds from them.  A request only reads, so one at a time shows all it may answer.
A win and a loss count one dollar each.  `opened` is the order in which positions were filled, which overlapping handlers
may make another than that of the trades; a page of trades is the `RowLimit` opened last (`Newest`).

The page's server is a version that grows, and the feed's provider.  `Renders` replaces every panel by the answers of *its*
refresh, whatever was rendered before.  An answer may be an error (`Errs`), and the bot may be gone (`Fails`).

## Runs

All pass, and each property has a mutant of the code that breaks it under the same
configuration (`Mutant:` operators beside the originals).

| Run | Instance | What it shows |
| --- | --- | --- |
| `PositionOverlap` | two trades at any of four prices (below the stop loss, below an armed trailing stop, first rung, all rungs), any moment for the hold limit, a whale sale or not; database-backed | tokens are conserved, a rung sells once, a due exit always has a task that will look again, the stop in force never loosens, closed is final, the database never runs ahead |
| `PositionResponse` | one position in memory, fair; two prices, and sales of 20% and 40% of what the whale bought, which alone and summed reach every tier | the response escalates; tasks finish, the trade after the hold limit closes, full exits are announced |
| `EntryOverlap` | four buys, three on one token and three in one cluster, two handlers in flight, caps that each bind; positions halve and close meanwhile | how far overlap can exceed each cap, that a kill stops whoever starts later, that what is opened comes under management |
| `GovernorQuota` | two expiring keys and one permanent, spacing 2, cooldown 3, time to live 4 (the shipped order of sizes), clock up to 7: an entry goes stale and is refreshed again | the quota's spacing over all keys, the cooldown of a cold key |
| `WatchlistOverlap` | a wallet of the file and two linked ones, three trades, two handlers in flight, one command, one restart | linked wallets are let through once, announcements are bounded, a stored decision is in force |
| `UnionFind` | every sequence of `find`, `union` and `groups` on four wallets, the least number that gives a root of rank 2 and so a walk of two steps to compress | union-find implements `Partition` |
| `ClusterDetect` | up to three trades of three wallets (the deployer, one it funded, a stranger with a funder in common), block times on both sides of the window and the threshold, in and out of order; lookups, the rug flag and trades land anywhere in a detection | clusters are the components of the strong edges; a flag earned when the detection started is in the verdict and its penalty; in the order of block times nothing a wallet does later clears it (but for the share of the volume, which later buys dilute) |
| `StreamStats` | streams of up to five of nine trades, two wallets, two tokens, block times on the boundaries of the windows, in every order, prices that win and lose, sells of more than was bought, a liquidity crash | pruned windows are the windows of the whole stream; no early buy is missed; the wallet's statistics are exact: a lot holds the balance reflected at zero, wins are sales above the prices paid, rug exposure counts the closings after a crash was seen |
| `MetadataRefresh` | one mint and one funder lookup that share a single slot, each of the three providers, one change on the chain, two concentrations, a clock that runs until an entry is stale or a failed refresh may be retried | an authority served as revoked is revoked; failures alone flag no rug; refreshes over HTTP end; a concentration cached as measured was measured by the refresh that caches it, not by a failed attempt before it |
| `EntryDecision` | wallets after any record of up to 16 wins and 4 losses, then two moves of anything; every limit of the gate has values on both sides | a riskier token never looks better to score or gate; round trips move score and qualification the right way; no thin sample outscores a long record |
| `LiveView` | two trades of a followed wallet or a stranger, both stores, any rows left from an earlier run, a ring of 3 for up to four events, a page of 2 and one of a single trade (so that all truncate), one request at a time | rows are complete, the overview adds up, a signal on the page has its rejection above it exactly when it was rejected and a rejection its signal below it until an event has left, every signal is decided |
| `BrowserView` | two panels, two refreshes waiting at a time, one change, one failure (the bot goes down, for good or not, or answers with an error), one whale to click | page and drawer settle |

Why the bounds are enough: two tasks of each kind make every pairwise interleaving on one position, and a third adds no new
kind of conflict to one shared record; three trades are a triangle of edges, or a pair and a third that changes it; five
trades are a lot bought twice, sold in parts and a late trade; two refreshes are an older answer that arrives after a
newer one; two moves are the one that a property speaks of, before or after one that brings a limit near.  For most safety
properties the theorems below hold for any number.

## Seen while modelling

Where the code and its own text disagree:

- The trade that stops a position out may overlap a forced exit, and both emit `position.closed`
  (`PositionManager.ts:35`, `:63`): the counters, which `monitoring.test.ts:16-21` expects to count closings,
  count one position twice.  Conversely a rung that sells the last tokens emits only `position.updated`.
- A stale key whose refresh fails is retried at every spacing (`rpcRefreshGovernor.ts:74` is skipped for a key that
  has been fetched once), faster than a cold key, while the comment of `:51-54` takes its time to live to limit it.
- `repeatedCoBuyEdges` needs two tokens in common and `ClusterDetector.ts:71` passes one, so the edge never arises
  live, though `README.md:271-272` says it always worked.
- A wallet that the operator rejects while it is being judged ends up active (`WhaleDiscoveryEngine.ts:124`), against
  the meaning of "rejected" in the repository's types (`db/src/repositories/types.ts:19-20`).
- `CreatorRegistryUpdater`'s comment (`creatorRegistryUpdater.ts:41`) expects the creator in the stored statistics,
  but `TokenStatsCollector.buildStats` fills neither `creatorAddress` nor the launch count: the updater returns early
  on every event, no reputation is recorded, and the creator's part of the risk score is always zero.
- The comment of `eventLog.ts:18-22` says only signals that passed the gate are saved; `SniperOrchestrator.handle`
  saves every one before the gate.

Consequences of the store:

- With Postgres, `Position.signalId` refers to `Signal.id` but is given the signal's key, so the first fill's save is
  rejected and the process ends; a watchlist row refers to a `Wallet` row, so the first boot on an empty database ends
  the same way.  Prisma's `allPositions` and `getOpenPositions` answer `[]`, so `position.closed` finds no position for
  its Telegram message (`bot.ts:173`).
- In memory, a restart loses everything; decisions on the watchlist do not survive one, and a rejected
  wallet of the file is active again after it.
- Two saves of a position may commit in the wrong order and leave a closed one OPEN in the table.

Of overlapping handlers:

- Two overlapping buys exceed `maxOpenPositions`, by as much as `OvershootBounded` allows (`SniperOrchestrator.ts:163`).
- A handler that looked at the flags before `/kill` submits its order after it (`riskEngine.ts:34`).
- A tick resumed after a save sells a rung on the strength of another trade's price, at its own lower one
  (`PositionManager.ts:28`).
- The whale's sales between the fill and `WhaleExitMonitor.track` are not counted.
- `recordTradeResult` is never called, so the limits on losses never apply.

Of data in an unusual order or shape:

- The stored row of a late trade has windows that reach into trades after it (`tokenStatsCollector.ts:87`); a sale
  on the very trade that shows a crash is no rug exposure, as the wallets' listener comes first.
- The timing edge of two wallets is that of the first pair of buys met: closer buys later do not merge them, and
  with block times out of order a late event can split a cluster again (`edgeDetectors.ts:19`).
- Two rungs with one trigger, which the schema accepts, mark the first twice and sell the second on every iteration
  (`positionStateMachine.ts:72`).
- A DexScreener answer without pairs, or without a dollar figure, replaces a known liquidity by 0
  (`dexScreenerTokenMetadataProvider.ts:56`), and the next trade flags the token as a rug for good.
- A failing call for the holders resets a known concentration to 100% (`solscanTokenMetadataProvider.ts:234`), and a
  body that is `null` rejects the refresh with nobody to handle it (`:233`, `:147`), which ends the process.
- The RPC calls have no timeout: four that hang stop every refresh of metadata and funders.  Conversely `Promise.all`
  rejects at the first of three calls that fails and frees the slot while the other two may hang
  (`solanaRpcTokenMetadataProvider.ts:324`), so the open calls at a slow endpoint are not bounded by the slots.

Of the dashboard:

- A score that is missing from a candidate is shown as a failed gate, and a feed that never connects as the mock feed.
- The report counts a closed position without its signal as weak; the three counts of the watchlist are three reads,
  so a wallet under review may be in two or in none.
- The answer for a whale clicked first may replace that of the whale clicked last (`app.js:343`), and an older refresh
  a newer one, until the next refresh.

## Fairness

`PositionManager` and `EntryPipeline` have a fair specification: weak fairness of
each task.  Node runs every ready continuation, and a repository either
answers or rejects, which ends the process; a task's steps, once
enabled, stay enabled.  Nothing is assumed of the market, the clock, the operator
or RPC endpoints: trades may stop, the hold limit may never pass, a lookup may hang.
`DashboardApi` is fair to the handler of each trade, for the same reason.  `TokenMetadata` is fair to what the runtime
guarantees of an HTTP call: it is aborted after five seconds, and what follows an answer runs; nothing is assumed of a call over
RPC.  `DashboardPage` is fair to the interval, to rendering, and to each fetch, which is answered while the bot is up
and refused while it is gone; that the bot stays up, or quiet, is a premise of `PageSettles` and not assumed.
The other modules check safety only.

The bounds: `MaxTrades`, `MaxInFlight`, `MaxTime`, `MaxCommands`, `MaxRestarts`, `MaxChanges`,
`MaxMoves`, `MaxWins`, `MaxLosses`, `MaxVersion`, `MaxFailures`.  The runs have
CHECK_DEADLOCK FALSE where the feed may simply end.

## Proofs

For every value of the constants, from the named assumptions (which TLC evaluates in the
runs):

- `PositionManagerProofs`: first what the operators of `PositionStateMachine` preserve and bound (an exit keeps the type,
  sells what it says, drops at most dust, and closes exactly at zero; a rung never exceeds what is left), then `TypeOK`,
  `TokensConserved`, `StoredNeverAhead`, `ClosingIsTrue`, and on the same invariant `ClosedIsFinal`,
  `WhaleResponseEscalates` and, for ladders with one rung to each trigger, `RungSoldOnce`.  None of the first is inductive
  alone: a write in flight could commit a snapshot that is ahead of the position, and an announcement could follow a full
  exit that did not close it.  The invariant adds that **every snapshot in flight is behind the shared position** (no less
  remaining, and equal if it is closed) and that a task that has saved a full exit holds a closed snapshot.  The
  escalation adds that the tier never exceeds what the sales counted so far call for, and that `evaluateWhaleExitTier`
  is monotone in them.
  Two more depend on the configuration, and say how.  `StopTightens` (`StopOnlyTightens`): from
  `(100 + activation) * (100 - trail) >= 100 * (100 - stopLoss)`, the trailing stop is above the stop loss whenever it is
  armed; it only follows the peak after that.  `DueExitsAreRun` (`DueExitHasRunner`): on a ladder no longer than
  `MAX_ACTIONS_PER_TICK` with distinct triggers, where the invariant adds that a stop is served in the very step that
  hits it, that each round of a loop has filled a rung, so that the rounds cannot run out before the rungs do, and that a
  due rung has a loop.
  `strategySchema.ts` enforces none of these conditions, and the shipped configuration satisfies all.
- `EntryPipelineProofs`: `OvershootBounded`, that handlers one at a time keep the cap itself, `KillStopsLaterEntries`, and
  `ExposureBounded`.  What a handler adds is paid for when it reads the exposure: it then finds fewer positions than the
  cap and at most `MaxInFlight - 1` other handlers, and from there on open positions and pending handlers only change
  places.  `ExposureIsBounded` says the same of the dollars in each scope (the book, a token, a cluster), counting a trade for
  each handler of the scope that read room for it.  It assumes that a whale is in one cluster and that no tracked position
  gains in value: a price that comes back takes room the caps were checked without, whatever the handlers do.
- `EntryScoringProofs`: that the accumulators are consistent (`RecordsConsistent`), and the three properties of the run.
  A score is a weighted sum of shares, each rounded down, so its direction is that of every share: `RiskierLooksNoBetter`
  for weights that are not negative and a slippage coefficient of at most twenty, `RecordsDecide` for weights that are not
  negative and a demanded return that is not negative, `ThinSamplesOutscored` while the gate asks for at most fifteen round
  trips (at sixteen a perfect fifteen outscores 128 wins in 200).  The schema accepts negative weights, with which the
  first two are false; the shipped configuration has none.
- `TokenMetadataProofs`, the governor: `TypeOK`, `RateLimited`, `ColdKeyCoolsDown`,
  `FreshNotRefetched`.  The invariant ties the history to what `tryStart` looks
  at: `lastStartedAt` is a spacing away for each later start, and
  `lastAttemptAt[k]` is no earlier than any start of `k`.
- `WatchlistDiscoveryProofs`: `TypeOK`, `LinkedLetThroughOnce`,
  `StoredDecisionInForce`, `AnnouncementsBounded`.  The invariant counts a verdict that is still in a
  handler as already let through: such a wallet has traded and is looked up, so
  whoever is judged next finds it.  For stored decisions it names the write
  that will settle a disagreement.  For announcements it counts those of a wallet together with the handlers that may
  still announce it, which never exceed `MaxInFlight`: a handler joins them only while the wallet has no status, when nothing has been announced of it yet.
- `StreamStatsProofs`: `TypeOK`, `LiveStatsExact`, `EarlyBuysCounted`, `StoredAgrees`, `WalletStatsExact`.  The invariant says of each token that what was
  pruned is older than an hour before the newest trade, and that the first sighting and the last time are
  attained and are bounds.  A late trade prunes by its own, earlier time, so it never removes more.
  A stored row is as of its token's last trade to arrive; where trades arrive in order, that is the newest.
  For the wallet's statistics it says three things more (`WalletInv`).  What is held is the running balance above its lowest
  value so far, which moves as a lot does: by each trade, and not below zero.  **The average cost of a lot lies between the
  prices of two of its wallet's buys** (buying moves the average towards the new price and not past it, selling keeps it),
  so a sale above every price paid is a win and one above none is not.  And a token is flagged exactly if some trade
  showed less than half the liquidity of an earlier one, because the peak that is kept is one that was shown.
- `ClusterDetectorProofs`, union-find: `TypeOK`, `RankGrows`, and `IsPartition`, the refinement.  From growing ranks it
  follows that every wallet has exactly one root (a wallet of greatest rank on the walk must point to itself); compression
  keeps the root of every wallet, and a link moves one class to the root of the other, which is what `Partition` allows.
- `ClusterDetectorProofs`, clusters: `ClustersAreComponents`.  `GeneratedBy` says **without an order** what the classes of a
  set of strong edges are: disjoint, each edge within one, and none larger than the edges force (a set that no edge leaves
  and that meets a class holds all of it).  One turn of the loop of `buildClusters` keeps it, whichever edge comes next, so
  at the end the classes are the components.
  `CallsFoldClasses` ties the loops to the structure: a union or a find does to its classes what a turn does.
- `ClusterDetectorProofs`, flags: `VerdictNotWeakened` and `FlagsStay`.  The evidence of a lasting flag (trades in the
  buffer, a relation in the caches, the rug) is never taken back, so what a cluster had earned when its detection
  started, which the invariant carries through the awaits, is still found when the cluster's turn comes.  For `FlagsStay` it is
  shown besides that a later trade leaves the first close pair of two wallets' buys the first one while block times are
  in order, so edges and with them clusters only grow.
- `DashboardApiProofs`: `RowsComplete`, `OverviewAddsUp`, `SignalFeedInOrder`.  Two orders meet.  A handler saves the score,
  the signal and the position in this order, and nothing is taken back but that an open position closes (`PipelineInv`,
  `TablesGrow`); a request reads the positions before what it joins them with (`ReadsInv`).  Hence **what a request has
  read stays true of what is stored by the time it is answered** (`AnswerInv`): every position it read has its signal and
  its wallet's score in the later reading.  Among the counters, `CountsInv` says that the signals generated are those
  rejected, those confirmed, and one for each handler that is between the two.  `LogInv` says of the ring that a
  signal's rejection stands after it exactly when the signal has been rejected, and, until an event has been dropped, that
  every announced signal is in it, a rejected one before its rejection.  The newest entries, reversed, keep that order
  (`RecentIsSuffix`).  That a report's breakdowns add up is a lemma on sums over
  the classes of a partition.
- `TokenMetadataProofs`: `RevokedIsReal`, `MeasuredByItsRefresh` and `RugNeedsAnswers`.  The invariant of the first says
  of **every place where a report waits** (a call's answer, a refresh in progress, a cache) that what it would be read as
  revoked is revoked on the chain, which holds as time goes on because a revocation is for good.  That of the second
  (`MInv`) says of every answer that a refresh holds that the mint has had that concentration since the refresh began: a
  retry starts both afresh.  It assumes that no other lookup uses a mint as its key (`MetadataAssumption`).  That of the third, that
  every liquidity in a cache, on its way or remembered as the peak was answered, and that an entry of the cache is never
  dropped.  The module moves the governor's variables by its actions only, so the quota's theorems carry over
  (`ProvidersKeepQuota`).

Sums over sets, which the library defines by a fold, are handled without an induction rule over data: that the fold
exists and what it adds up to is shown by well-founded induction on the size of the set, taken as the least counterexample
(`WFMin`), in `EntryPipelineProofs` and `DashboardApiProofs`, and of `BuildClusters` in `ClusterDetectorProofs`.  Running balances, a function defined by recursion on the length of the stream, are treated the
same way in `StreamStatsProofs`.

Only model-checked are the liveness properties, which are out of the prover's reach: `TasksFinish`, `LateTradeCloses`,
`FullExitAnnounced`, `OpenedIsManaged`, `HttpRefreshEnds`, `EverySignalDecided`, `PageSettles`, `DrawerSettles`.  Every
safety invariant, action property and refinement that a run checks is also a theorem.
The theorems also hold type invariants, `ClosingIsTrue` (an announced closing is one), `FreshNotRefetched` (no refresh is
spent on what is fresh) and `RankGrows`, which no run checks on its own.

## Not modelled

- Decoding of transactions and byte layouts (`txDecoder`, `pumpFunDecoder`, how a funder is read from a transaction) and
  the Helius subscription, which hands on what it receives and keeps nothing another part reads.
- `AlertManager`: no condition it tests can become true in the running application (nothing raises them), so
  there is nothing to debounce.
- `replayEngine` and `parameterSweep`: the replay awaits each handler before the next event, a schedule the modules
  already contain; the sweep runs it in a loop.
- `PaperTradeEngine`'s own loop: a test double of `PositionManager`, with whom it shares the modelled operators.
- The risk state and the creator's tables, which nothing writes in the running application.
- Telegram's reading commands and wording, static files, formatting, Prisma's row mapping, environment and schema parsing,
  scenario data, scripts.
- Fees and realised profit of a position (no decision reads them), and three of the report's five breakdowns, which group
  by numbers of the token in the same way as the two modelled.

Left for later work: abstract specifications of a position's lifecycle and of the watchlist, implemented by `PositionManager`
and `WatchlistDiscovery`.
