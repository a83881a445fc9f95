-------------------------- MODULE PositionManager --------------------------
(***************************************************************************)
(* One open position on its token, and everything that acts on it:         *)
(*   - every trade on the token makes SniperOrchestrator.handle drive      *)
(*     PositionManager.onPriceTick (a tick task);                          *)
(*   - every sell of the triggering whale makes WhaleExitMonitor.handle    *)
(*     count the sale and possibly forceExit (an exit task).               *)
(* Both are async functions launched without being awaited, so the tasks   *)
(* of different trades interleave wherever the code awaits: before         *)
(* getStats answers, and while a savePosition is in flight.  Both walk all *)
(* positions of their token in turn and await inside that walk; seen from  *)
(* one position, a task is "queued" until its walk gets here.              *)
(*                                                                         *)
(* savePosition hands a snapshot to the repository.  The in-memory one     *)
(* stores it before the call returns; PostgreSQL (DatabaseBacked) commits  *)
(* it some time before the await ends, in no order with other writes.      *)
(***************************************************************************)
EXTENDS PositionStateMachine

CONSTANTS
  MaxActionsPerTick,  \* MAX_ACTIONS_PER_TICK
  DatabaseBacked,     \* which repository backs IPositionRepository
  WhaleEntryAmount,   \* tokens the whale bought in the triggering trade
  Prices,             \* prices a trade may carry
  SellAmounts,        \* whale sales a trade may carry; 0: some other trade
  MaxTrades           \* bound: trades in a behaviour

ASSUME ManagerAssumption ==
  /\ MaxActionsPerTick \in Nat \ {0}
  /\ DatabaseBacked \in BOOLEAN
  /\ WhaleEntryAmount \in Nat
  /\ Prices \subseteq Nat \ {0}
  /\ SellAmounts \subseteq Nat
  /\ MaxTrades \in Nat

Trades == 1..MaxTrades

VARIABLES
  position,   \* the live Position object, shared by every task
  held,       \* maxHoldTimeSeconds have passed since openedAt
  traded,     \* number of trades emitted so far
  tick,       \* [Trades -> the tick task of that trade]
  exit,       \* [Trades -> the exit task of that trade]
  whale,      \* WhaleExitMonitor's TrackedWhale
  stored,     \* what the repository holds for this position
  closings,   \* reasons of the position.closed events emitted so far
  sales,      \* history: [Rungs -> the prices that rung was sold at]
  sold        \* history: tokens sold, all exits together

vars == <<position, held, traded, tick, exit, whale, stored, closings, sales, sold>>

Snapshot == [status : {"OPEN", "CLOSED"}, remaining : 0..TokenAmount,
             exitReason : ExitReasons \cup {NoReason}]
SnapshotOf(p) ==
  [status |-> p.status, remaining |-> p.remaining, exitReason |-> p.exitReason]

\* A task's write: what it hands to the repository, and whether it is committed.
Write == [snapshot : Snapshot, committed : BOOLEAN]

TickSaving == {"partial", "full", "final"}
TickTask == [pc : {"none", "queued", "stats", "done"} \cup TickSaving, price : Nat,
             late : BOOLEAN, round : Nat, write : Write]
ExitTask == [pc : {"none", "queued", "saving", "done"}, price : Nat, amount : Nat,
             write : Write]

InitialWrite == [snapshot |-> SnapshotOf(BuildPositionFromFill), committed |-> FALSE]
NoTick == [pc |-> "none", price |-> 0, late |-> FALSE, round |-> 0, write |-> InitialWrite]
NoExit == [pc |-> "none", price |-> 0, amount |-> 0, write |-> InitialWrite]
DoneTick == [NoTick EXCEPT !.pc = "done"]
DoneExit == [NoExit EXCEPT !.pc = "done"]

\* executeEntry has saved the position and the orchestrator has tracked it.
Init ==
  /\ position = BuildPositionFromFill
  /\ held = FALSE
  /\ traded = 0
  /\ tick = [t \in Trades |-> NoTick]
  /\ exit = [t \in Trades |-> NoExit]
  /\ whale = [tracked |-> TRUE, sold |-> 0, sellTxCount |-> 0]
  /\ stored = SnapshotOf(BuildPositionFromFill)
  /\ closings = <<>>
  /\ sales = [r \in Rungs |-> <<>>]
  /\ sold = 0
-----------------------------------------------------------------------------
(* Saving.                                                                 *)

WriteOf(p) == [snapshot |-> SnapshotOf(p), committed |-> ~DatabaseBacked]

\* What the repository holds once savePosition(p) has been called.
StoredAfter(p) == IF DatabaseBacked THEN stored ELSE SnapshotOf(p)

CommitTick(t) ==
  /\ tick[t].pc \in TickSaving
  /\ ~tick[t].write.committed
  /\ stored' = tick[t].write.snapshot
  /\ tick' = [tick EXCEPT ![t].write.committed = TRUE]
  /\ UNCHANGED <<position, held, traded, exit, whale, closings, sales, sold>>

CommitExit(t) ==
  /\ exit[t].pc = "saving"
  /\ ~exit[t].write.committed
  /\ stored' = exit[t].write.snapshot
  /\ exit' = [exit EXCEPT ![t].write.committed = TRUE]
  /\ UNCHANGED <<position, held, traded, tick, whale, closings, sales, sold>>
-----------------------------------------------------------------------------
(* The environment.                                                        *)

\* bus.emit("trade.normalized"): both subscribers start their walk.
Trade(price, amount) ==
  /\ traded < MaxTrades
  /\ traded' = traded + 1
  /\ tick' = [tick EXCEPT ![traded + 1] = [NoTick EXCEPT !.pc = "queued", !.price = price]]
  /\ exit' = [exit EXCEPT ![traded + 1] =
                IF amount = 0 THEN NoExit
                ELSE [NoExit EXCEPT !.pc = "queued", !.price = price, !.amount = amount]]
  /\ UNCHANGED <<position, held, whale, stored, closings, sales, sold>>

HoldLimitPasses ==
  /\ ~held
  /\ held' = TRUE
  /\ UNCHANGED <<position, traded, tick, exit, whale, stored, closings, sales, sold>>
-----------------------------------------------------------------------------
(* The tick task.                                                          *)

\* Mutant: the walk stops at a closed position instead of skipping it.
BeginTick_NoSkip(t) ==
  /\ tick[t].pc = "queued"
  /\ position.status = "OPEN"
  /\ tick' = [tick EXCEPT ![t].pc = "stats"]
  /\ UNCHANGED <<position, held, traded, exit, whale, stored, closings, sales, sold>>

\* SniperOrchestrator.handle reaches the position and asks for token stats.
BeginTick(t) ==
  /\ tick[t].pc = "queued"
  /\ tick' = [tick EXCEPT ![t] = IF position.status = "OPEN"
                                          THEN [@ EXCEPT !.pc = "stats"] ELSE DoneTick]
  /\ UNCHANGED <<position, held, traded, exit, whale, stored, closings, sales, sold>>

\* The next action of the loop; none once MAX_ACTIONS_PER_TICK are done.
NextOutcome(p, round, late) ==
  IF round >= MaxActionsPerTick THEN NoAction ELSE DecideNextAction(p, late)

\* onPriceTick's loop from its `round`th iteration, up to the next await: at
\* most one exit, or the closing save of a position that stays open.  (Each
\* \E names the one value of a singleton.)
Decide(t, p, round, late) ==
  LET Await(pc, q) == [tick[t] EXCEPT !.pc = pc, !.late = late, !.round = round,
                                      !.write = WriteOf(q)]
  IN  \E outcome \in {NextOutcome(p, round, late)} :
      \/ /\ outcome.kind = "PARTIAL_EXIT"
         /\ \E q \in {SellRung(p, outcome.rung)} :
              /\ position' = q
              /\ tick' = [tick EXCEPT ![t] = Await("partial", q)]
              /\ stored' = StoredAfter(q)
              /\ sold' = sold + RungAmount(p, outcome.rung)
              /\ sales' = [sales EXCEPT ![outcome.rung] = Append(@, tick[t].price)]
      \/ /\ outcome.kind = "FULL_EXIT"
         /\ \E q \in {ApplyPaperExit(p, p.remaining, outcome.reason)} :
              /\ position' = q
              /\ tick' = [tick EXCEPT ![t] = Await("full", q)]
              /\ stored' = StoredAfter(q)
              /\ sold' = sold + p.remaining
              /\ UNCHANGED sales
      \/ /\ outcome.kind = "NO_ACTION"
         /\ p.status = "OPEN"
         /\ position' = p
         /\ tick' = [tick EXCEPT ![t] = Await("final", p)]
         /\ stored' = StoredAfter(p)
         /\ UNCHANGED <<sales, sold>>
      \/ /\ outcome.kind = "NO_ACTION"
         /\ p.status = "CLOSED"
         /\ position' = p
         /\ tick' = [tick EXCEPT ![t] = DoneTick]
         /\ UNCHANGED <<stored, sales, sold>>

\* Mutant: the status is not looked at again after the await.
OnPriceTick_NoRecheck(t) ==
  /\ tick[t].pc = "stats"
  /\ \E p \in {ApplyPriceTick(position, tick[t].price)} : Decide(t, p, 0, held)
  /\ UNCHANGED <<held, traded, exit, whale, closings>>

\* Token stats have arrived: onPriceTick with the clock read at this moment.
OnPriceTick(t) ==
  /\ tick[t].pc = "stats"
  /\ \/ /\ position.status = "CLOSED"
        /\ tick' = [tick EXCEPT ![t] = DoneTick]
        /\ UNCHANGED <<position, stored, sales, sold>>
     \/ /\ position.status = "OPEN"
        /\ \E p \in {ApplyPriceTick(position, tick[t].price)} : Decide(t, p, 0, held)
  /\ UNCHANGED <<held, traded, exit, whale, closings>>

\* Mutant: one exit per tick.
AfterPartialExit_NoLoop(t) ==
  /\ tick[t].pc = "partial"
  /\ tick[t].write.committed
  /\ tick' = [tick EXCEPT ![t] = DoneTick]
  /\ UNCHANGED <<position, held, traded, exit, whale, stored, closings, sales, sold>>

\* A partial exit is saved: position.updated, then the loop goes round on
\* whatever the shared position has become meanwhile.
AfterPartialExit(t) ==
  /\ tick[t].pc = "partial"
  /\ tick[t].write.committed
  /\ Decide(t, position, tick[t].round + 1, tick[t].late)
  /\ UNCHANGED <<held, traded, exit, whale, closings>>

\* A full exit is saved: position.closed with the reason this task decided on.
AfterFullExit(t) ==
  /\ tick[t].pc = "full"
  /\ tick[t].write.committed
  /\ closings' = Append(closings, tick[t].write.snapshot.exitReason)
  /\ tick' = [tick EXCEPT ![t] = DoneTick]
  /\ UNCHANGED <<position, held, traded, exit, whale, stored, sales, sold>>

EndTick(t) ==
  /\ tick[t].pc = "final"
  /\ tick[t].write.committed
  /\ tick' = [tick EXCEPT ![t] = DoneTick]
  /\ UNCHANGED <<position, held, traded, exit, whale, stored, closings, sales, sold>>
-----------------------------------------------------------------------------
(* The exit task.                                                          *)

\* Mutant: the exit is applied to a copy, and the copy saved.
ForceExit_OnCopy(t, p, amount) ==
  LET q == ApplyPaperExit(p, amount, "WHALE_EXIT_EMERGENCY") IN
    /\ position' = p
    /\ exit' = [exit EXCEPT ![t].pc = "saving", ![t].write = WriteOf(q)]
    /\ stored' = StoredAfter(q)
    /\ sold' = sold + amount

\* forceExit of `amount`, up to its save.
ForceExit(t, p, amount) ==
  LET q == ApplyPaperExit(p, amount, "WHALE_EXIT_EMERGENCY") IN
    /\ position' = q
    /\ exit' = [exit EXCEPT ![t].pc = "saving", ![t].write = WriteOf(q)]
    /\ stored' = StoredAfter(q)
    /\ sold' = sold + amount

\* The sale is not counted: no tracked state, or the position has closed, in
\* which case the tracked state is dropped.
IgnoreWhaleSell(t) ==
  /\ exit[t].pc = "queued"
  /\ ~whale.tracked \/ position.status = "CLOSED"
  /\ whale' = [whale EXCEPT !.tracked = FALSE]
  /\ exit' = [exit EXCEPT ![t] = DoneExit]
  /\ UNCHANGED <<position, held, traded, tick, stored, closings, sales, sold>>

\* Mutant: the tier is set by this sale alone.
CountWhaleSell_NotCumulative(t) ==
  LET count == whale.sellTxCount + 1
      tier  == EvaluateWhaleExitTier(exit[t].amount, WhaleEntryAmount, {})
      p     == [position EXCEPT !.tier = tier]
  IN  /\ exit[t].pc = "queued"
      /\ whale.tracked
      /\ position.status = "OPEN"
      /\ whale' = [whale EXCEPT !.sold = @ + exit[t].amount, !.sellTxCount = count]
      /\ \/ /\ tier \in {"NONE", "WARN"}
            /\ position' = p
            /\ exit' = [exit EXCEPT ![t] = DoneExit]
            /\ UNCHANGED <<stored, sold>>
         \/ /\ tier \in {"REDUCE", "EMERGENCY"}
            /\ ForceExit(t, p, IF tier = "REDUCE" THEN ReduceAmount(p) ELSE p.remaining)
      /\ UNCHANGED <<held, traded, tick, closings, sales>>

\* WhaleExitMonitor.handle counts the sale, sets the tier and acts on it.
CountWhaleSell(t) ==
  LET count == whale.sellTxCount + 1
      total == whale.sold + exit[t].amount
      flags == IF count >= 3 THEN {"multipleExits"} ELSE {}
      tier  == EvaluateWhaleExitTier(total, WhaleEntryAmount, flags)
      p     == [position EXCEPT !.tier = tier]
  IN  /\ exit[t].pc = "queued"
      /\ whale.tracked
      /\ position.status = "OPEN"
      /\ whale' = [whale EXCEPT !.sold = total, !.sellTxCount = count]
      /\ \/ /\ tier \in {"NONE", "WARN"}
            /\ position' = p
            /\ exit' = [exit EXCEPT ![t] = DoneExit]
            /\ UNCHANGED <<stored, sold>>
         \/ /\ tier = "REDUCE"
            /\ ForceExit(t, p, ReduceAmount(p))
         \/ /\ tier = "EMERGENCY"
            /\ ForceExit(t, p, p.remaining)
      /\ UNCHANGED <<held, traded, tick, closings, sales>>

\* Mutant: the early return's status is still believed, nothing is announced.
AfterForceExit_NarrowedStatus(t) ==
  /\ exit[t].pc = "saving"
  /\ exit[t].write.committed
  /\ exit' = [exit EXCEPT ![t] = DoneExit]
  /\ UNCHANGED <<position, held, traded, tick, whale, stored, closings, sales, sold>>

\* The forced exit is saved.  The status is read again here: position.closed
\* if the position has closed by now, position.updated otherwise.
AfterForceExit(t) ==
  /\ exit[t].pc = "saving"
  /\ exit[t].write.committed
  /\ exit' = [exit EXCEPT ![t] = DoneExit]
  /\ closings' = IF position.status = "CLOSED"
                   THEN Append(closings, "WHALE_EXIT_EMERGENCY") ELSE closings
  /\ UNCHANGED <<position, held, traded, tick, whale, stored, sales, sold>>
-----------------------------------------------------------------------------
TickStep(t) == \/ CommitTick(t) \/ BeginTick(t) \/ OnPriceTick(t)
               \/ AfterPartialExit(t) \/ AfterFullExit(t) \/ EndTick(t)
ExitStep(t) == \/ CommitExit(t) \/ IgnoreWhaleSell(t) \/ CountWhaleSell(t)
               \/ AfterForceExit(t)

Next ==
  \/ \E price \in Prices, amount \in SellAmounts : Trade(price, amount)
  \/ HoldLimitPasses
  \/ \E t \in Trades : TickStep(t) \/ ExitStep(t)

Spec == Init /\ [][Next]_vars

\* Node runs every ready continuation and the repository answers every call
\* (a rejected call ends the process).  Trades and the clock promise nothing.
FairSpec == Spec /\ \A t \in Trades : WF_vars(TickStep(t)) /\ WF_vars(ExitStep(t))
-----------------------------------------------------------------------------
(* Properties.                                                             *)

\* Every variable has its type.
TypeOK ==
  /\ position \in Position
  /\ held \in BOOLEAN
  /\ traded \in 0..MaxTrades
  /\ tick \in [Trades -> TickTask]
  /\ exit \in [Trades -> ExitTask]
  /\ whale \in [tracked : BOOLEAN, sold : Nat, sellTxCount : Nat]
  /\ stored \in Snapshot
  /\ closings \in Seq(ExitReasons)
  /\ sales \in [Rungs -> Seq(Nat)]
  /\ sold \in Nat

\* A closed position is never touched again: no late tick, no resumed loop and
\* no whale sale that was already under way sells from it, reprices it or
\* changes its exit reason (the status checks of onPriceTick, decideNextAction,
\* forceExit and WhaleExitMonitor.handle, each of which runs after an await).
ClosedIsFinal ==
  [][position.status = "CLOSED" => position' = position /\ sold' = sold]_vars

\* Concurrent exits never sell the same token twice: what was sold and what is
\* left make up what was bought, up to the dust dropped by the closing exit,
\* and nothing is left exactly when the position is closed.
TokensConserved ==
  /\ sold + position.remaining <= TokenAmount
  /\ sold + position.remaining >= TokenAmount - Dust
  /\ position.status = "OPEN" => sold + position.remaining = TokenAmount
  /\ (position.status = "CLOSED") <=> (position.remaining = 0)

\* A rung of the ladder sells once, however many ticks are past its trigger at
\* the same time; it is marked filled exactly when it has sold.
RungSoldOnce ==
  \A r \in Rungs : Len(sales[r]) = IF r \in position.filled THEN 1 ELSE 0

\* No exit is forgotten: if the stop in force is hit, or a rung is due, while the
\* position is open, some tick is between two exits of its loop and will look
\* again.  (The stop and the ladder are only looked at when a trade arrives.)
DueExitHasRunner ==
  position.status = "OPEN" /\ DecideNextAction(position, FALSE) # NoAction
    => \E t \in Trades : tick[t].pc = "partial"

\* The stop in force never moves down: not while trailing, and not when the
\* trailing stop takes over from the initial stop loss.
StopInForce(p) == IF p.trailingActive THEN p.trailingStop ELSE StopLoss
StopOnlyTightens ==
  [][StopInForce(position') >= StopInForce(position)]_vars

\* The response to the whale only escalates, and at EMERGENCY we are out: the
\* tier and the forced exit belong to one uninterrupted step.
WhaleResponseEscalates ==
  [][/\ Rank(position'.tier) >= Rank(position.tier)
     /\ position'.tier = "EMERGENCY" => position'.status = "CLOSED"]_vars

\* With PostgreSQL it may lag, but it never shows an exit that did not happen.
StoredNeverAhead ==
  /\ stored.remaining >= position.remaining
  /\ stored.status = "CLOSED" => stored = SnapshotOf(position)

\* position.closed is emitted only once the position is closed and saved by the
\* task that emits it.
ClosingIsTrue ==
  closings # <<>> => position.status = "CLOSED"

\* Every task comes to its end.
TasksFinish ==
  \A t \in Trades : /\ (tick[t].pc = "queued") ~> (tick[t].pc = "done")
                    /\ (exit[t].pc = "queued") ~> (exit[t].pc = "done")

\* Once the hold limit has passed, the next trade closes the position.
LateTradeCloses ==
  \A t \in Trades : (held /\ tick[t].pc = "queued") ~> (position.status = "CLOSED")

\* Every full exit, by a tick or forced by the whale, is announced.
FullExitAnnounced ==
  (position.status = "CLOSED" /\ position.exitReason # "TAKE_PROFIT") ~> (closings # <<>>)
=============================================================================
