-------------------------- MODULE WatchlistDiscovery --------------------------
(***************************************************************************)
(* The watchlist, and its two writers: WhaleDiscoveryEngine, which judges  *)
(* an unknown wallet after each of its trades, and the operator, through   *)
(* Telegram's /approve and /reject.                                        *)
(*                                                                         *)
(* Both keep two copies, WatchlistIndex (what trading reads) and the       *)
(* watchlist repository, and write them in opposite orders.  The engine's  *)
(* handlers are launched without being awaited and look at the index only  *)
(* before their awaits.  The judgement rests on what the relationship      *)
(* source has looked up so far, in the background.  One token is in play.  *)
(***************************************************************************)
EXTENDS Integers, FiniteSets

CONSTANTS
  Wallets,
  Manual,       \* wallets of config/watchlist.json
  Linked,       \* pairs of wallets with one funder, or both tied to the token's creator
  AutoPromote,  \* config.walletDiscovery.autoPromote
  MaxTrades,    \* bound: trades in a behaviour
  MaxInFlight,  \* bound: handlers past their status check at any time
  MaxCommands,  \* bound: operator commands
  MaxRestarts   \* bound: restarts of the process

ASSUME DiscoveryAssumption ==
  /\ Wallets # {} /\ Manual \subseteq Wallets
  /\ Linked \subseteq Wallets \X Wallets
  /\ \A a, b \in Wallets : <<a, b>> \in Linked => a # b /\ <<b, a>> \in Linked
  /\ AutoPromote \in BOOLEAN
  /\ MaxTrades \in Nat /\ MaxInFlight \in Nat \ {0}
  /\ MaxCommands \in Nat /\ MaxRestarts \in Nat

Handlers == 1..MaxTrades

\* A status, and who gave it: the file, discovery, the operator, or any of them in
\* an earlier run of the process.
Statuses == {"active", "pending", "rejected"}
Unstatused == [status |-> "none", by |-> "nobody"]
Entry == [status : Statuses, by : {"file", "discovery", "operator", "earlier"}] \cup {Unstatused}
FromFile == [status |-> "active", by |-> "file"]

VARIABLES
  index,         \* [Wallets -> WatchlistIndex entry]
  repo,          \* [Wallets -> row of the watchlist repository]
  traded,        \* wallets that ClusterDetector has seen trade
  deployerKnown, \* the source's deployers has the token
  funderKnown,   \* wallets that the source's funders has
  emitted,       \* number of trades emitted so far
  handler,       \* [Handlers -> the engine's handler of that trade]
  command,       \* the Telegram command being answered
  commands, restarts, \* how many there have been
  notified       \* history: [Wallets -> promotions and candidacies announced]

vars == <<index, repo, traded, deployerKnown, funderKnown, emitted, handler,
          command, commands, restarts, notified>>
lookups == <<deployerKnown, funderKnown>>
counts == <<commands, restarts>>

Handler == [pc : {"none", "queued", "detecting", "saving", "saved", "done"},
            wallet : Wallets, verdict : Statuses]
Command == [pc : {"idle", "saving", "saved"}, wallet : Wallets, status : Statuses]

\* (The wallet and verdict of a handler that has none yet are never read.)
SomeWallet == CHOOSE w \in Wallets : TRUE
NoHandler == [pc |-> "none", wallet |-> SomeWallet, verdict |-> "rejected"]
NoCommand == [pc |-> "idle", wallet |-> SomeWallet, status |-> "rejected"]

\* What a start of the process loads: the file, and nothing else.
LoadedIndex == [w \in Wallets |-> IF w \in Manual THEN FromFile ELSE Unstatused]

Init ==
  /\ index = LoadedIndex
  /\ repo = LoadedIndex
  /\ traded = {}
  /\ deployerKnown = FALSE /\ funderKnown = {}
  /\ emitted = 0
  /\ handler = [t \in Handlers |-> NoHandler]
  /\ command = NoCommand
  /\ commands = 0 /\ restarts = 0
  /\ notified = [w \in Wallets |-> 0]
-----------------------------------------------------------------------------
(* Trades and lookups.                                                     *)

\* A trade: ClusterDetector records it at once, and wallet.stats-updated follows
\* once the wallet's statistics are saved.
Trade(w) ==
  /\ emitted < MaxTrades
  /\ emitted' = emitted + 1
  /\ traded' = traded \cup {w}
  /\ handler' = [handler EXCEPT ![emitted + 1] = [NoHandler EXCEPT !.pc = "queued", !.wallet = w]]
  /\ UNCHANGED <<index, repo, lookups, command, counts, notified>>

\* Background lookups that some read has scheduled come back conclusively.
LearnDeployer ==
  /\ traded # {} /\ ~deployerKnown
  /\ deployerKnown' = TRUE
  /\ UNCHANGED <<index, repo, traded, funderKnown, emitted, handler, command, counts, notified>>

LearnFunder(w) ==
  /\ w \in traded \ funderKnown
  /\ funderKnown' = funderKnown \cup {w}
  /\ UNCHANGED <<index, repo, traded, deployerKnown, emitted, handler, command, counts, notified>>
-----------------------------------------------------------------------------
(* WhaleDiscoveryEngine.handle.                                            *)

InFlight == {t \in Handlers : handler[t].pc \in {"detecting", "saving", "saved"}}

RelationshipDataKnown(w) == deployerKnown /\ w \in funderKnown

\* An edge for a common funder or a shared creator needs both wallets looked up.
EdgeFound(v, w) == <<v, w>> \in Linked /\ v \in funderKnown /\ w \in funderKnown

\* detectForToken puts w into a cluster that is flagged for such an edge.
LinkFound(w) == \E v \in traded : EdgeFound(v, w)

\* Nothing to do: the wallet has a status, does not clear the hard gate (either
\* answer is possible), or its relationships are not known yet.
Skip(t) ==
  /\ handler[t].pc = "queued"
  /\ handler' = [handler EXCEPT ![t].pc = "done"]
  /\ UNCHANGED <<index, repo, traded, lookups, emitted, command, counts, notified>>

\* The verdict on a candidate, from the edges that detectForToken collects at once;
\* then it awaits.  (timing: the cluster is flagged for the times of its trades.)
Judge(t, timing) ==
  /\ Cardinality(InFlight) < MaxInFlight
  /\ handler' = [handler EXCEPT ![t].pc = "detecting", ![t].verdict =
       IF timing \/ LinkFound(handler[t].wallet) THEN "rejected"
       ELSE IF AutoPromote THEN "active" ELSE "pending"]
  /\ UNCHANGED <<index, repo, traded, lookups, emitted, command, counts, notified>>

\* Mutant: a candidate is judged before its relationships are known.
Evaluate_NotDeferred(t, timing) ==
  /\ handler[t].pc = "queued"
  /\ index[handler[t].wallet] = Unstatused
  /\ Judge(t, timing)

\* Mutant: the status of the wallet is not looked at.
Evaluate_AnyStatus(t, timing) ==
  /\ handler[t].pc = "queued"
  /\ RelationshipDataKnown(handler[t].wallet)
  /\ Judge(t, timing)

\* The wallet has no status, clears the gate, and its relationships are known.
Evaluate(t, timing) ==
  /\ handler[t].pc = "queued"
  /\ index[handler[t].wallet] = Unstatused
  /\ RelationshipDataKnown(handler[t].wallet)
  /\ Judge(t, timing)

\* setStatus: the index first, then the repository; nothing is looked at again.
SetStatus(t) ==
  /\ handler[t].pc = "detecting"
  /\ index' = [index EXCEPT ![handler[t].wallet] =
                 [status |-> handler[t].verdict, by |-> "discovery"]]
  /\ handler' = [handler EXCEPT ![t].pc = "saving"]
  /\ UNCHANGED <<repo, traded, lookups, emitted, command, counts, notified>>

\* The repository commits the engine's update, in no order with other updates.
CommitStatus(t) ==
  /\ handler[t].pc = "saving"
  /\ repo' = [repo EXCEPT ![handler[t].wallet] =
                [status |-> handler[t].verdict, by |-> "discovery"]]
  /\ handler' = [handler EXCEPT ![t].pc = "saved"]
  /\ UNCHANGED <<index, traded, lookups, emitted, command, counts, notified>>

\* wallet.discovery-promoted or wallet.discovery-candidate; silence if rejected.
Announce(t) ==
  /\ handler[t].pc = "saved"
  /\ notified' = [notified EXCEPT ![handler[t].wallet] =
                    IF handler[t].verdict = "rejected" THEN @ ELSE @ + 1]
  /\ handler' = [handler EXCEPT ![t].pc = "done"]
  /\ UNCHANGED <<index, repo, traded, lookups, emitted, command, counts>>
-----------------------------------------------------------------------------
(* /approve and /reject: grammy answers one update at a time.              *)

\* The repository is asked to store the operator's decision.
Order(w, status) ==
  /\ command.pc = "idle" /\ commands < MaxCommands
  /\ command' = [pc |-> "saving", wallet |-> w, status |-> status]
  /\ commands' = commands + 1
  /\ UNCHANGED <<index, repo, traded, lookups, emitted, handler, restarts, notified>>

\* The repository commits it.
CommitOrder ==
  /\ command.pc = "saving"
  /\ repo' = [repo EXCEPT ![command.wallet] = [status |-> command.status, by |-> "operator"]]
  /\ command' = [command EXCEPT !.pc = "saved"]
  /\ UNCHANGED <<index, traded, lookups, emitted, handler, counts, notified>>

\* Mutant: only a wallet the index shows as pending is updated there.
ApplyOrder_CandidatesOnly ==
  /\ command.pc = "saved"
  /\ index' = IF index[command.wallet].status = "pending"
                THEN [index EXCEPT ![command.wallet] =
                        [status |-> command.status, by |-> "operator"]]
                ELSE index
  /\ command' = NoCommand
  /\ UNCHANGED <<repo, traded, lookups, emitted, handler, counts, notified>>

\* It is stored: the index follows, and the operator is told.
ApplyOrder ==
  /\ command.pc = "saved"
  /\ index' = [index EXCEPT ![command.wallet] = [status |-> command.status, by |-> "operator"]]
  /\ command' = NoCommand
  /\ UNCHANGED <<repo, traded, lookups, emitted, handler, counts, notified>>
-----------------------------------------------------------------------------
\* The process starts again: the file is added to the repository and loaded into
\* the index; caches, buffered trades, handlers and commands are gone.
Restart ==
  /\ restarts < MaxRestarts
  /\ restarts' = restarts + 1
  /\ index' = LoadedIndex
  /\ repo' = [w \in Wallets |-> IF w \in Manual THEN FromFile
                                ELSE IF repo[w] = Unstatused THEN Unstatused
                                ELSE [repo[w] EXCEPT !.by = "earlier"]]
  /\ traded' = {} /\ deployerKnown' = FALSE /\ funderKnown' = {}
  /\ handler' = [t \in Handlers |-> IF handler[t].pc = "none" THEN NoHandler
                                    ELSE [handler[t] EXCEPT !.pc = "done"]]
  /\ command' = NoCommand
  /\ notified' = [w \in Wallets |-> 0]
  /\ UNCHANGED <<emitted, commands>>

HandlerStep(t) ==
  \/ Skip(t) \/ SetStatus(t) \/ CommitStatus(t) \/ Announce(t)
  \/ \E timing \in BOOLEAN : Evaluate(t, timing)

Next ==
  \/ \E w \in Wallets : Trade(w) \/ LearnFunder(w)
  \/ LearnDeployer
  \/ \E t \in Handlers : HandlerStep(t)
  \/ \E w \in Wallets, status \in {"active", "rejected"} : Order(w, status)
  \/ CommitOrder \/ ApplyOrder
  \/ Restart

Spec == Init /\ [][Next]_vars
-----------------------------------------------------------------------------
(* Properties.                                                             *)

\* Every variable has its type.
TypeOK ==
  /\ index \in [Wallets -> Entry]
  /\ repo \in [Wallets -> Entry]
  /\ traded \subseteq Wallets
  /\ deployerKnown \in BOOLEAN /\ funderKnown \subseteq traded
  /\ emitted \in 0..MaxTrades
  /\ handler \in [Handlers -> Handler]
  /\ command \in Command
  /\ commands \in 0..MaxCommands /\ restarts \in 0..MaxRestarts
  /\ notified \in [Wallets -> Nat]

\* Of two linked wallets, discovery lets at most one through, in whatever order
\* their trades, lookups and handlers come: the later one is judged when the
\* earlier one is known.  (Deferral until the data is known makes the difference.)
LetThrough(w) == index[w].by = "discovery" /\ index[w].status # "rejected"
LinkedLetThroughOnce ==
  \A a, b \in Wallets : <<a, b>> \in Linked => ~(LetThrough(a) /\ LetThrough(b))

\* A wallet is announced at most as often as its handlers overlap: one that has a
\* status before its handler starts is never announced again.
AnnouncementsBounded == \A w \in Wallets : notified[w] <= MaxInFlight

\* Once everything has been answered, a decision of the operator that is stored is
\* the one trading follows, whatever discovery wrote to both copies meanwhile.
Quiet == /\ command.pc = "idle"
         /\ \A t \in Handlers : handler[t].pc \in {"none", "queued", "done"}
StoredDecisionInForce ==
  Quiet => \A w \in Wallets : repo[w].by = "operator" => index[w] = repo[w]
=============================================================================
