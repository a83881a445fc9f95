---------------------------- MODULE DashboardApi ----------------------------
(***************************************************************************)
(* The operator's read-only view of a running bot, from the server's side: *)
(* the boot with Postgres or in memory, the feed, the handlers that write  *)
(* scores, signals and positions, the counters and the ring of recent      *)
(* events, and the requests that read all of these across awaits.          *)
(*                                                                         *)
(* Every repository call may take time, so a request reads some tables     *)
(* before and some after a step of a handler.  Requests only read: one at  *)
(* a time is enough to see what each may answer.                           *)
(***************************************************************************)
EXTENDS Integers, Sequences, FiniteSets, FiniteSetsExt, SequencesExt, Functions

CONSTANTS
  MaxTrades,   \* bound: events of the feed's script, each of a token of its own
  Listed,      \* wallets of config/watchlist.json
  Strangers,   \* other wallets that trade
  Capacity,    \* of RecentEventLog
  Limit,       \* the page's ?limit for signals
  RowLimit,    \* and for trades
  None

ASSUME DashboardApiAssumption ==
  /\ MaxTrades \in Nat /\ Capacity \in Nat \ {0} /\ Limit \in Nat \ {0}
  /\ RowLimit \in Nat \ {0}
  /\ Listed \cap Strangers = {} /\ IsFiniteSet(Listed) /\ IsFiniteSet(Strangers)
  /\ None \notin {"open", "won", "lost", "weak", "strong"}

VARIABLES
  store,     \* "memory" or "postgres": what createRepositories came back with
  phase,     \* "booting", "up" or "exited"
  rows,      \* Postgres: wallets that have a Wallet row
  tokens,    \* Postgres: trades whose token has a Token row
  list,      \* the watchlist: [Wallets -> status, or None]
  next,      \* the feed's place in its script
  connected,
  stage,     \* [Trades -> where the orchestrator's handler of the trade is]
  by,        \* [Trades -> the wallet that traded]
  scores,    \* wallets with a stored score
  signals,   \* [Trades -> the stored signal's bucket, or None]
  positions, \* [Trades -> the stored position: "open", "won", "lost", or None]
  opened,    \* [Trades -> its place in the order of openedAt, or 0]
  metrics,   \* MetricsStore
  log,       \* RecentEventLog.events, oldest first
  request    \* the request being served: [kind, todo, got], or None

Trades == 1..MaxTrades
Wallets == Listed \cup Strangers

world == <<store, phase, rows, tokens, list>>
feed == <<next, connected, by>>
pipeline == <<stage, scores, signals, positions, opened>>
seen == <<metrics, log>>
vars == <<world, feed, pipeline, seen, request>>

Init ==
  /\ store \in {"memory", "postgres"} /\ phase = "booting"
  /\ rows \in IF store = "postgres" THEN SUBSET Wallets ELSE {{}}
  /\ tokens \in IF store = "postgres" THEN SUBSET Trades ELSE {{}}
  /\ list = [w \in Wallets |-> None]
  /\ next = 1 /\ connected = FALSE
  /\ stage = [t \in Trades |-> "unsent"] /\ by = [t \in Trades |-> None]
  /\ scores = {}
  /\ signals = [t \in Trades |-> None] /\ positions = [t \in Trades |-> None]
  /\ opened = [t \in Trades |-> 0]
  /\ metrics = [generated |-> 0, rejected |-> 0, confirmed |-> 0, feed |-> None]
  /\ log = <<>>
  /\ request = None

\* A row may only refer to rows that are there.  A rejection nobody catches ends
\* the process: the handlers are called with `void`.
Exit == phase' = "exited" /\ request' = None /\ connected' = FALSE

\* watchlist.add for each wallet of the file; its row refers to a Wallet row
Boot ==
  /\ phase = "booting"
  /\ IF store = "postgres" /\ ~ Listed \subseteq rows
     THEN Exit /\ UNCHANGED <<list, next>>
     ELSE /\ phase' = "up"
          /\ list' = [w \in Wallets |-> IF w \in Listed THEN "active" ELSE None]
          /\ UNCHANGED <<next, connected, request>>
  /\ UNCHANGED <<store, rows, tokens, by, pipeline, seen>>

\* whale-discovery queues a stranger that traded, and the operator decides
Enlist(w) ==
  /\ phase = "up" /\ list[w] = None /\ \E t \in Trades : by[t] = w
  /\ IF store = "postgres" /\ w \notin rows
     THEN Exit /\ UNCHANGED list
     ELSE list' = [list EXCEPT ![w] = "pending"] /\ UNCHANGED <<phase, connected, request>>
  /\ UNCHANGED <<store, rows, tokens, next, by, pipeline, seen>>

Review(w) ==
  /\ phase = "up" /\ list[w] = "pending"
  /\ \E status \in {"active", "rejected"} : list' = [list EXCEPT ![w] = status]
  /\ UNCHANGED <<store, phase, rows, tokens, feed, pipeline, seen, request>>
-----------------------------------------------------------------------------
(* The feed.                                                               *)

\* emitOne: the bus calls every listener; the orchestrator's handler returns
\* early unless the wallet is watched (and for a sale, a small buy, ...)
EmitOne ==
  /\ next <= MaxTrades /\ next' = next + 1
  /\ \E w \in Wallets, of_interest \in BOOLEAN :
       /\ by' = [by EXCEPT ![next] = w]
       /\ stage' = [stage EXCEPT ![next] = IF of_interest /\ list[w] = "active"
                                           THEN "handling" ELSE "done"]
  /\ UNCHANGED <<world, scores, signals, positions, opened, seen, request>>

\* connect() replays the first event before it returns, so before feed.health
Connect == phase = "up" /\ next = 1 /\ connected' = TRUE /\ EmitOne
Step == phase = "up" /\ connected /\ EmitOne /\ UNCHANGED connected

FeedHealthy ==
  /\ phase = "up" /\ connected /\ metrics.feed = None
  /\ metrics' = [metrics EXCEPT !.feed = TRUE]
  /\ UNCHANGED <<world, feed, pipeline, log, request>>

\* stop(): the timer is cleared, then feed.health says so; then the process exits
StopFeed ==
  /\ phase = "up" /\ connected /\ metrics.feed = TRUE
  /\ connected' = FALSE /\ metrics' = [metrics EXCEPT !.feed = FALSE]
  /\ UNCHANGED <<world, next, by, pipeline, log, request>>

Stop ==
  /\ phase = "up" /\ metrics.feed = FALSE /\ Exit
  /\ UNCHANGED <<store, rows, tokens, list, next, by, pipeline, seen>>

\* WalletStatsUpdater and TokenStatsCollector upsert their rows unawaited, and each
\* commits on its own; the rows of an earlier run are there already.
Land(t) ==
  /\ phase = "up" /\ store = "postgres" /\ stage[t] # "unsent"
  /\ \/ by[t] \notin rows /\ rows' = rows \cup {by[t]} /\ UNCHANGED tokens
     \/ t \notin tokens /\ tokens' = tokens \cup {t} /\ UNCHANGED rows
  /\ UNCHANGED <<store, phase, list, feed, pipeline, seen, request>>
-----------------------------------------------------------------------------
(* SniperOrchestrator.handle and executeEntry, at their awaits.            *)

Push(event) == LET longer == Append(log, event) IN
  IF Len(longer) > Capacity THEN Tail(longer) ELSE longer

At(t, s) == phase = "up" /\ stage[t] = s
Goes(t, s) == stage' = [stage EXCEPT ![t] = s]
Referenced(t) == store = "memory" \/ (by[t] \in rows /\ t \in tokens)

\* the handler's save fails for want of a referenced row, and the process with it
Rejects(t) == Exit /\ UNCHANGED <<stage, next, by>>

\* upsertScore, then upsertRiskScore
SaveScore(t) ==
  /\ At(t, "handling")
  /\ IF Referenced(t)
     THEN /\ scores' = scores \cup {by[t]} /\ Goes(t, "scored")
          /\ UNCHANGED <<phase, feed, request>>
     ELSE Rejects(t) /\ UNCHANGED scores
  /\ UNCHANGED <<store, rows, tokens, list, signals, positions, opened, seen>>

SaveSignal(t) ==
  /\ At(t, "scored")
  /\ \E bucket \in {"weak", "strong"} : signals' = [signals EXCEPT ![t] = bucket]
  /\ Goes(t, "saved")
  /\ UNCHANGED <<world, feed, scores, positions, opened, seen, request>>

\* Mutant: the order is counted when it is sent.
Announce_CountsOrder(t) ==
  /\ At(t, "saved") /\ Goes(t, "announced")
  /\ metrics' = [metrics EXCEPT !.generated = @ + 1, !.confirmed = @ + 1]
  /\ log' = Push([kind |-> "generated", trade |-> t])
  /\ UNCHANGED <<world, feed, scores, signals, positions, opened, request>>

Announce(t) ==
  /\ At(t, "saved") /\ Goes(t, "announced")
  /\ metrics' = [metrics EXCEPT !.generated = @ + 1]
  /\ log' = Push([kind |-> "generated", trade |-> t])
  /\ UNCHANGED <<world, feed, scores, signals, positions, opened, request>>

\* Mutant: an order that failed is neither counted nor announced.
Reject_Silent(t) ==
  /\ At(t, "announced") /\ Goes(t, "done")
  /\ UNCHANGED <<world, feed, scores, signals, positions, opened, seen, request>>

\* the risk engine's veto, the entry gate, or an order that failed
Reject(t) ==
  /\ At(t, "announced") /\ Goes(t, "done")
  /\ metrics' = [metrics EXCEPT !.rejected = @ + 1]
  /\ log' = Push([kind |-> "rejected", trade |-> t])
  /\ UNCHANGED <<world, feed, scores, signals, positions, opened, request>>

Stored(status) == {t \in Trades : positions[t] \in status}

\* The order is filled, in a millisecond of its own, and the position saved; with
\* Postgres that fails: Position.signalId refers to Signal.id, not to the key passed.
SavePosition(t) ==
  /\ At(t, "announced")
  /\ IF store = "memory"
     THEN /\ positions' = [positions EXCEPT ![t] = "open"] /\ Goes(t, "bought")
          /\ opened' = [opened EXCEPT ![t] = Cardinality(Stored({"open", "won", "lost"})) + 1]
          /\ UNCHANGED <<phase, feed, request>>
     ELSE Rejects(t) /\ UNCHANGED <<positions, opened>>
  /\ UNCHANGED <<store, rows, tokens, list, scores, signals, seen>>

Confirm(t) ==
  /\ At(t, "bought") /\ Goes(t, "managed")
  /\ metrics' = [metrics EXCEPT !.confirmed = @ + 1]
  /\ UNCHANGED <<world, feed, scores, signals, positions, opened, log, request>>

\* PositionManager saves the closed position
Close(t) ==
  /\ At(t, "managed") /\ positions[t] = "open"
  /\ \E result \in {"won", "lost"} : positions' = [positions EXCEPT ![t] = result]
  /\ UNCHANGED <<world, feed, stage, scores, signals, opened, seen, request>>
-----------------------------------------------------------------------------
(* The requests: which tables each reads, in which order, and what it      *)
(* answers.  Lookups of one signal or score per row count as one read of   *)
(* the table: rows are only added.                                         *)

Statuses == {"active", "pending", "rejected"}

\* Mutant: the report's and the rows' signals are read first.
Plan_SignalsFirst ==
  [overview   |-> <<{"signals"}, {"positions"}, Statuses>>,
   trades     |-> <<{"signals"}, {"positions"}>>,
   positions  |-> <<{"signals"}, {"open"}>>,
   whales     |-> <<{"list"}, {"positions"}, {"scores"}>>,
   detail     |-> <<{"list", "scores", "positions"}, {"signals"}>>,
   candidates |-> <<{"pending"}, {"scores"}>>]

Plan ==
  [overview   |-> <<{"positions"}, {"signals"}, Statuses>>,
   trades     |-> <<{"positions"}, {"signals"}>>,
   positions  |-> <<{"open"}, {"signals"}>>,
   whales     |-> <<{"list"}, {"positions"}, {"scores"}>>,
   detail     |-> <<{"list", "scores", "positions"}, {"signals"}>>,
   candidates |-> <<{"pending"}, {"scores"}>>]

\* what a repository answers; the Prisma one keeps no positions to read back
Answered(table) ==
  CASE table = "positions" -> [t \in Stored({"open", "won", "lost"}) |-> positions[t]]
    [] table = "open"      -> [t \in Stored({"open"}) |-> "open"]
    [] table = "signals"   -> signals
    [] table = "scores"    -> scores
    [] table = "list"      -> list
    [] OTHER               -> {w \in Wallets : list[w] = table}

\* sums over the closed positions: a win and a loss count 1
BucketStats(closed, of) ==
  [trades |-> Cardinality(of),
   wins   |-> Cardinality({t \in of : closed[t] = "won"}),
   pnl    |-> Cardinality({t \in of : closed[t] = "won"}) - Cardinality({t \in of : closed[t] = "lost"})]

Closed(held) == {t \in DOMAIN held : held[t] # "open"}

\* a signal that is not found counts as score 0
StrengthBucket(found, t) == IF found[t] = None THEN "weak" ELSE found[t]

BuildReport(held, found) ==
  [all        |-> BucketStats(held, Closed(held)),
   byWallet   |-> [w \in Wallets |-> BucketStats(held, {t \in Closed(held) : by[t] = w})],
   byStrength |-> [b \in {"weak", "strong"} |->
                     BucketStats(held, {t \in Closed(held) : StrengthBucket(found, t) = b})]]

BuildOverview(got) ==
  [kind |-> "overview", metrics |-> got.metrics,
   report |-> BuildReport(got.positions, got.signals),
   open |-> Cardinality(DOMAIN got.positions \ Closed(got.positions)),
   total |-> Cardinality(DOMAIN got.positions),
   counts |-> [s \in Statuses |-> Cardinality(got[s])]]

\* those opened last, when there are more than the limit
Newest(held, limit) ==
  Restrict(held, {t \in DOMAIN held : Cardinality({u \in DOMAIN held : opened[u] > opened[t]}) < limit})

\* the order in which rows are shown is layout
TradeRows(held, found) ==
  {[trade |-> t, status |-> held[t], wallet |-> by[t], score |-> found[t]] : t \in DOMAIN held}

WhaleRows(got) ==
  [w \in {v \in Wallets : got.list[v] # None} |->
     LET own == {t \in DOMAIN got.positions : by[t] = w}
     IN [status |-> got.list[w], scored |-> w \in got.scores, trades |-> Cardinality(own),
         open |-> Cardinality({t \in own : got.positions[t] = "open"})]]

Build(kind, got) ==
  CASE kind = "overview"   -> BuildOverview(got)
    [] kind = "trades"     -> [kind |-> kind, rows |-> TradeRows(Newest(got.positions, RowLimit), got.signals)]
    [] kind = "positions"  -> [kind |-> kind, rows |-> TradeRows(got.open, got.signals)]
    [] kind = "whales"     -> [kind |-> kind, whales |-> WhaleRows(got)]
    [] kind = "detail"     -> [kind |-> kind, entry |-> got.list, rows |-> TradeRows(
                                 Restrict(got.positions, {t \in DOMAIN got.positions : by[t] = got.wallet}),
                                 got.signals)]
    [] kind = "candidates" -> [kind |-> kind, whales |-> [w \in got.pending |-> w \in got.scores]]

\* Mutant: the oldest events are taken, and then reversed.
Recent_SliceFirst(limit) ==
  Reverse(SubSeq(log, 1, IF limit < Len(log) THEN limit ELSE Len(log)))

Recent(limit) == LET newest == Reverse(log) IN SubSeq(newest, 1, IF limit < Len(log) THEN limit ELSE Len(log))

Ask(kind, w) ==
  /\ phase = "up" /\ request = None
  /\ request' = [kind |-> kind, todo |-> Plan[kind], got |-> [metrics |-> IF kind = "overview" THEN metrics ELSE None,
                         wallet |-> IF kind = "detail" THEN w ELSE None]]
  /\ UNCHANGED <<world, feed, pipeline, seen>>

Read(table) ==
  /\ request # None /\ request.todo # <<>> /\ table \in Head(request.todo)
  /\ LET left == Head(request.todo) \ {table} IN
     request' = [request EXCEPT
       !.todo = IF left = {} THEN Tail(@) ELSE <<left>> \o Tail(@),
       !.got  = [r \in DOMAIN @ \cup {table} |-> IF r = table THEN Answered(table) ELSE @[r]]]
  /\ UNCHANGED <<world, feed, pipeline, seen>>

\* all is read: what is answered, in the step that resumed last
Answer == IF request = None \/ request.todo # <<>> THEN [kind |-> "none"]
          ELSE Build(request.kind, request.got)

\* or a repository call rejects, and the route answers 500
Respond ==
  /\ request # None /\ (request.todo = <<>> \/ store = "postgres")
  /\ request' = None
  /\ UNCHANGED <<world, feed, pipeline, seen>>
-----------------------------------------------------------------------------
Handle(t) ==
  \/ SaveScore(t) \/ SaveSignal(t) \/ Announce(t) \/ Reject(t)
  \/ SavePosition(t) \/ Confirm(t)

Next ==
  \/ Boot \/ Connect \/ Step \/ FeedHealthy \/ StopFeed \/ Stop
  \/ \E w \in Strangers : Enlist(w) \/ Review(w)
  \/ \E t \in Trades : Land(t) \/ Handle(t) \/ Close(t)
  \/ \E kind \in DOMAIN Plan : \E w \in Wallets : Ask(kind, w)
  \/ Respond
  \/ \E table \in {"positions", "open", "signals", "scores", "list"} \cup Statuses : Read(table)

Spec == Init /\ [][Next]_vars

\* the event loop runs every continuation
FairSpec == Spec /\ \A t \in Trades : WF_vars(Handle(t))
-----------------------------------------------------------------------------
(* A row is joined with what was saved before it: a trade shows the score  *)
(* of its signal, the report counts it under that score, and a whale that  *)
(* was followed into a trade shows its own score, whatever the handlers    *)
(* did while the request was reading.                                      *)
RowsComplete ==
  /\ Answer.kind \in {"trades", "positions", "detail"} =>
       \A row \in Answer.rows : row.score # None
  /\ Answer.kind = "whales" =>
       \A w \in DOMAIN Answer.whales : Answer.whales[w].trades > 0 => Answer.whales[w].scored
  /\ Answer.kind = "overview" =>
       \A b \in {"weak", "strong"} :
         Answer.report.byStrength[b].trades <= Cardinality({t \in Trades : signals[t] = b})

(* The overview's numbers fit each other: no confirmed order without its   *)
(* position among those listed, no more verdicts than signals, and both    *)
(* breakdowns of the report add up to it.                                  *)
OverviewAddsUp ==
  Answer.kind = "overview" =>
    LET all == Answer.report.all
        Sum(buckets, f) == MapThenSumSet(LAMBDA b : buckets[b][f], DOMAIN buckets)
    IN /\ Answer.metrics.confirmed <= Answer.total
       /\ Answer.open + all.trades = Answer.total
       /\ Answer.metrics.rejected + Answer.metrics.confirmed <= Answer.metrics.generated
       /\ \A f \in {"trades", "wins", "pnl"} :
            Sum(Answer.report.byWallet, f) = all[f] /\ Sum(Answer.report.byStrength, f) = all[f]

(* The live feed of signals tells each one's story in order, whenever it   *)
(* is asked for.  A signal shown can be looked up, and shows its rejection *)
(* above it exactly when it has been rejected, however full the list is;   *)
(* a rejection shows its signal below it for as long as no event has left  *)
(* the list, and none has left a list that is not full.                    *)
Rejected(t) == stage[t] = "done" /\ signals[t] # None

SignalFeedInOrder ==
  LET events == Recent(Limit)
      emitted == metrics.generated + metrics.rejected
      Shown(kind, t, places) == \E j \in places : events[j] = [kind |-> kind, trade |-> t]
  IN /\ Len(events) < Limit /\ Len(events) < Capacity => Len(events) = emitted
     /\ \A i \in DOMAIN events :
          LET t == events[i].trade IN
          /\ signals[t] # None
          /\ events[i].kind = "generated" => (Rejected(t) <=> Shown("rejected", t, 1..(i - 1)))
          /\ events[i].kind = "rejected" =>
               /\ Rejected(t)
               /\ Len(events) = emitted => Shown("generated", t, (i + 1)..Len(events))

(* Every signal that is counted as generated ends up counted as rejected   *)
(* or as a confirmed order, unless the process is gone.                    *)
EverySignalDecided ==
  <>[](phase = "exited" \/ metrics.generated = metrics.rejected + metrics.confirmed)
=============================================================================
