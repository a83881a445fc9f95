--------------------------- MODULE EntryPipeline ---------------------------
(***************************************************************************)
(* From a scored whale buy to a tracked position: the entry half of        *)
(* SniperOrchestrator.handle, ExecutionPipeline.executeEntry, RiskEngine   *)
(* .evaluate and the RuntimeFlags that Telegram flips.                     *)
(*                                                                         *)
(* Each qualifying buy runs its own handler.  It reads the open exposure   *)
(* once, then awaits the risk state, the order and the save before the new *)
(* position joins the set that exposure is read from; other handlers,      *)
(* position exits and Telegram commands run during those awaits.           *)
(* Nothing in the program writes the risk state (recordTradeResult and     *)
(* killSwitch have no caller), so of RiskEngine.evaluate the exposure caps *)
(* remain; the limits on losses never apply.                               *)
(***************************************************************************)
EXTENDS Integers, FiniteSets, FiniteSetsExt

CONSTANTS
  Entries,          \* whale buys that pass the watchlist and size filters
  TokenOf,          \* [Entries -> token bought]
  ClusterPeers,     \* [Entries -> entries whose whale is in the buyer's cluster]
  TradeSize,        \* tradeSizeUsd
  Values,           \* what an open position may be worth after a price tick
  MaxOpenPositions, MaxTotalExposure, MaxPerTokenExposure, MaxPerClusterExposure,
  MaxInFlight       \* bound: handlers past their exposure read at any time

ASSUME EntryAssumption ==
  /\ IsFiniteSet(Entries)
  /\ ClusterPeers \in [Entries -> SUBSET Entries]
  /\ \A e \in Entries : ClusterPeers[e] # {} => e \in ClusterPeers[e]
  /\ TradeSize \in Nat \ {0}
  /\ Values \subseteq Nat
  /\ MaxOpenPositions \in Nat \ {0}
  /\ MaxTotalExposure \in Nat /\ MaxPerTokenExposure \in Nat
  /\ MaxPerClusterExposure \in Nat
  /\ MaxInFlight \in Nat \ {0}

VARIABLES
  flags,       \* RuntimeFlags
  task,        \* [Entries -> handler state: pc and the exposure it read]
  position     \* [Entries -> the position that entry opened]

vars == <<flags, task, position>>

Exposure == [count : Nat, total : Nat, token : Nat, cluster : Nat]
NoExposure == [count |-> 0, total |-> 0, token |-> 0, cluster |-> 0]
InFlightPcs == {"vetoed", "risk", "order", "saving", "opened"}
Done == [pc |-> "done", exposure |-> NoExposure]
NoPosition == [status |-> "none", value |-> 0, tracked |-> FALSE]

Init ==
  /\ flags = [paused |-> FALSE, killed |-> FALSE]
  /\ task = [e \in Entries |-> [pc |-> "scoring", exposure |-> NoExposure]]
  /\ position = [e \in Entries |-> NoPosition]
-----------------------------------------------------------------------------
(* Telegram: /pause, /resume, /kill.                                       *)

Pause ==
  /\ flags' = [flags EXCEPT !.paused = TRUE]
  /\ UNCHANGED <<task, position>>

\* Mutant: resuming clears the kill as well.
Resume_ClearsKill ==
  /\ flags' = [paused |-> FALSE, killed |-> FALSE]
  /\ UNCHANGED <<task, position>>

\* Resuming does not clear a kill.
Resume ==
  /\ flags' = [flags EXCEPT !.paused = FALSE]
  /\ UNCHANGED <<task, position>>

Kill ==
  /\ flags' = [paused |-> TRUE, killed |-> TRUE]
  /\ UNCHANGED <<task, position>>
-----------------------------------------------------------------------------
(* The handler.                                                            *)

InFlight == {e \in Entries : task[e].pc \in InFlightPcs}

OpenTracked == {e \in Entries : position[e].status = "OPEN" /\ position[e].tracked}

ValueOf(S) == MapThenSumSet(LAMBDA e : position[e].value, S)

\* openExposure and the cluster sum, over the positions tracked right now.
OpenExposure(e) ==
  [count   |-> Cardinality(OpenTracked),
   total   |-> ValueOf(OpenTracked),
   token   |-> ValueOf({f \in OpenTracked : TokenOf[f] = TokenOf[e]}),
   cluster |-> ValueOf(OpenTracked \cap ClusterPeers[e])]

\* The signal is saved: read the exposure, enter executeEntry, and look at the
\* runtime flags; all before the first await.
ReadExposure(e) ==
  /\ task[e].pc = "scoring"
  /\ Cardinality(InFlight) < MaxInFlight
  /\ task' = [task EXCEPT ![e] =
       [pc |-> IF flags.killed \/ flags.paused THEN "vetoed" ELSE "risk",
        exposure |-> OpenExposure(e)]]
  /\ UNCHANGED <<flags, position>>

\* Mutant: one position too many.
RiskVeto_CountOffByOne(x, hasCluster) ==
  \/ x.count > MaxOpenPositions
  \/ x.total + TradeSize > MaxTotalExposure
  \/ x.token + TradeSize > MaxPerTokenExposure
  \/ hasCluster /\ x.cluster + TradeSize > MaxPerClusterExposure

\* Mutant: the cluster's exposure is compared without this trade.
RiskVeto_ClusterWithoutTrade(x, hasCluster) ==
  \/ x.count >= MaxOpenPositions
  \/ x.total + TradeSize > MaxTotalExposure
  \/ x.token + TradeSize > MaxPerTokenExposure
  \/ hasCluster /\ x.cluster > MaxPerClusterExposure

\* RiskEngine.evaluate after `await repo.get()`, on the exposure that the handler
\* read before.
RiskVeto(x, hasCluster) ==
  \/ x.count >= MaxOpenPositions
  \/ x.total + TradeSize > MaxTotalExposure
  \/ x.token + TradeSize > MaxPerTokenExposure
  \/ hasCluster /\ x.cluster + TradeSize > MaxPerClusterExposure

\* executeEntry goes on to submitOrder: no veto, and the entry gate (whose other
\* conditions read nothing shared, so either answer is possible) passes.
SubmitOrder(e) ==
  /\ task[e].pc = "risk"
  /\ ~RiskVeto(task[e].exposure, ClusterPeers[e] # {})
  /\ task' = [task EXCEPT ![e].pc = "order"]
  /\ UNCHANGED <<flags, position>>

\* signal.rejected: by the flags, by the risk veto or by the gate, or because the
\* adapter reports that the order failed.
Reject(e) ==
  /\ task[e].pc \in {"vetoed", "risk", "order"}
  /\ task' = [task EXCEPT ![e] = Done]
  /\ UNCHANGED <<flags, position>>

\* The order is filled: the position exists and its save is under way.
Fill(e) ==
  /\ task[e].pc = "order"
  /\ position' = [position EXCEPT ![e] =
                    [status |-> "OPEN", value |-> TradeSize, tracked |-> FALSE]]
  /\ task' = [task EXCEPT ![e].pc = "saving"]
  /\ UNCHANGED flags

\* Mutant: the handler returns without tracking what it opened.
Opened_Untracked(e) ==
  /\ task[e].pc = "saving"
  /\ task' = [task EXCEPT ![e] = Done]
  /\ UNCHANGED <<flags, position>>

\* The position is saved: position.opened.
Opened(e) ==
  /\ task[e].pc = "saving"
  /\ task' = [task EXCEPT ![e].pc = "opened"]
  /\ UNCHANGED <<flags, position>>

\* executeEntry has returned: trackPosition, and WhaleExitMonitor.track.
Track(e) ==
  /\ task[e].pc = "opened"
  /\ position' = [position EXCEPT ![e].tracked = TRUE]
  /\ task' = [task EXCEPT ![e] = Done]
  /\ UNCHANGED flags
-----------------------------------------------------------------------------
(* Position management, seen from here: a tracked position is repriced and *)
(* partly sold by ticks, and finally closed.                               *)

\* What a price tick or a partial exit makes of a tracked position.
Reprice(e) ==
  /\ e \in OpenTracked
  /\ \E v \in Values : position' = [position EXCEPT ![e].value = v]
  /\ UNCHANGED <<flags, task>>

\* A full exit.
Close(e) ==
  /\ e \in OpenTracked
  /\ position' = [position EXCEPT ![e].status = "CLOSED", ![e].value = 0]
  /\ UNCHANGED <<flags, task>>
-----------------------------------------------------------------------------
Handler(e) == \/ ReadExposure(e) \/ SubmitOrder(e) \/ Reject(e)
              \/ Fill(e) \/ Opened(e) \/ Track(e)

Next ==
  \/ Pause \/ Resume \/ Kill
  \/ \E e \in Entries : Handler(e) \/ Reprice(e) \/ Close(e)

Spec == Init /\ [][Next]_vars

\* Every await of a handler is answered; operators and the market owe nothing.
FairSpec == Spec /\ \A e \in Entries : WF_vars(Handler(e))
-----------------------------------------------------------------------------
(* Properties.                                                             *)

\* Handlers that read an exposure below the cap and are not done yet: each may
\* still add a position.
Pending == {e \in InFlight : task[e].exposure.count < MaxOpenPositions}

\* The cap on open positions is exceeded by at most the handlers that overlap:
\* each of them is checked against an exposure that lacks the others.  With one
\* handler in flight at a time the cap itself holds.
OvershootBounded ==
  Cardinality(OpenTracked \cup Pending) <= MaxOpenPositions + MaxInFlight - 1

\* After /kill, a handler that has not looked at the flags yet never submits an
\* order, whatever /resume does afterwards: the kill stays, and such a handler can
\* only be vetoed and end.
KillStopsLaterEntries ==
  [][flags.killed =>
       /\ flags'.killed
       /\ \A e \in Entries : task[e].pc \in {"scoring", "vetoed"}
                               => task'[e].pc \in {"scoring", "vetoed", "done"}]_vars

\* Every position that is opened comes under management.
OpenedIsManaged ==
  \A e \in Entries : (position[e].status = "OPEN") ~> position[e].tracked

\* While prices stay at entry, each exposure of config.risk is exceeded by at most
\* one trade for every further handler that overlaps; one handler at a time keeps
\* every cap.  (A price that falls and comes back makes room that is taken and
\* then exceeded, whatever the handlers do.)
ExposureBounded ==
  LET overlap == (MaxInFlight - 1) * TradeSize IN
  /\ ValueOf(OpenTracked) <= MaxTotalExposure + overlap
  /\ \A e \in OpenTracked :
       /\ ValueOf({f \in OpenTracked : TokenOf[f] = TokenOf[e]})
            <= MaxPerTokenExposure + overlap
       /\ ValueOf(OpenTracked \cap ClusterPeers[e]) <= MaxPerClusterExposure + overlap
-----------------------------------------------------------------------------
(* What the repository says of this code, and the code does not do.        *)

\* The risk engine is a hard gate: no more open positions than maxOpenPositions.
OpenPositionsCapped == Cardinality(OpenTracked) <= MaxOpenPositions
=============================================================================
