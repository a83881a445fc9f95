------------------------ MODULE PositionStateMachine ------------------------
(***************************************************************************)
(* The pure part of position management: the operators that one price tick *)
(* or one exit applies to a Position record (positionStateMachine.ts,      *)
(* paperTradeEngine.ts, whaleExitTier.ts).  Nothing here is concurrent;    *)
(* PositionManager interleaves these operators.                            *)
(*                                                                         *)
(* Token amounts are whole units of TokenAmount; percentages are integers, *)
(* so every threshold comparison is exact.  Fees, slippage, realised PnL   *)
(* and MFE/MAE are derived numbers that no decision reads: left out.       *)
(***************************************************************************)
EXTENDS Integers, Sequences

CONSTANTS
  TokenAmount,          \* position.tokenAmount: the size bought at entry
  Dust,                 \* largest remainder that counts as sold out (tokenAmount * 1e-6)
  EntryPrice,           \* position.entryPriceUsd
  Ladder,               \* config.position.takeProfitLadder, percentages as integers
  TrailingActivationPct,
  TrailingTrailPct,
  InitialStopLossPct,
  ReduceSellPct,        \* config.whaleExit.reduceSellFraction, in percent
  WarnPct, ReducePct, EmergencyPct  \* whale-exit thresholds, in percent sold

Rungs == 1..Len(Ladder)

ASSUME ConstantsAssumption ==
  /\ TokenAmount \in Nat \ {0}
  /\ Dust \in 0..TokenAmount - 1
  /\ EntryPrice \in Nat \ {0}
  /\ Ladder \in Seq([triggerPct : Nat \ {0}, sellPct : 1..100])
  /\ TrailingActivationPct \in Nat \ {0}
  /\ TrailingTrailPct \in Nat \ {0}
  /\ InitialStopLossPct \in Nat \ {0}
  /\ ReduceSellPct \in 0..100
  /\ WarnPct \in 0..100 /\ ReducePct \in 0..100 /\ EmergencyPct \in 0..100

ExitReasons == {"TAKE_PROFIT", "TRAILING_STOP", "STOP_LOSS", "MAX_HOLD_TIME",
                "WHALE_EXIT_EMERGENCY"}
NoReason == "none"
Tiers == {"NONE", "WARN", "REDUCE", "EMERGENCY"}

Position ==
  [status : {"OPEN", "CLOSED"}, exitReason : ExitReasons \cup {NoReason},
   remaining : 0..TokenAmount, price : Nat, highWater : Nat,
   trailingActive : BOOLEAN, trailingStop : Nat,
   filled : SUBSET Rungs, tier : Tiers]

\* buildPositionFromFill: what an entry fill turns into.
BuildPositionFromFill ==
  [status |-> "OPEN", exitReason |-> NoReason, remaining |-> TokenAmount,
   price |-> EntryPrice, highWater |-> EntryPrice,
   trailingActive |-> FALSE, trailingStop |-> 0, filled |-> {}, tier |-> "NONE"]
-----------------------------------------------------------------------------
(* Prices.  A stop price is kept times 100, as the product it comes from.  *)

Larger(a, b) == IF a >= b THEN a ELSE b
Smaller(a, b) == IF a <= b THEN a ELSE b

\* roiPct(position) >= pct
RoiAtLeast(price, pct) == (price - EntryPrice) * 100 >= pct * EntryPrice

StopLoss == EntryPrice * (100 - InitialStopLossPct)
StopBelow(high) == high * (100 - TrailingTrailPct)

MarkPositionPrice(p, price) ==
  [p EXCEPT !.price = price, !.highWater = Larger(p.highWater, price)]

\* Mutant: the stop follows the last price instead of the peak.
ApplyPriceTick_StopFollowsPrice(p, price) ==
  LET active == p.trailingActive \/ RoiAtLeast(price, TrailingActivationPct)
  IN  [MarkPositionPrice(p, price) EXCEPT
         !.trailingActive = active,
         !.trailingStop = IF active THEN StopBelow(price) ELSE p.trailingStop]

\* applyPriceTick: mark the price, then arm and raise the trailing stop.
ApplyPriceTick(p, price) ==
  LET marked == MarkPositionPrice(p, price)
      active == p.trailingActive \/ RoiAtLeast(price, TrailingActivationPct)
  IN  [marked EXCEPT
         !.trailingActive = active,
         !.trailingStop = IF active
                            THEN Larger(p.trailingStop, StopBelow(marked.highWater))
                            ELSE p.trailingStop]

StopHit(p) ==
  IF p.trailingActive THEN p.price * 100 <= p.trailingStop
                      ELSE p.price * 100 <= StopLoss
-----------------------------------------------------------------------------
(* The next action of an open position: the hold limit first, then the     *)
(* stop in force, then the first rung of the ladder that is due.           *)

DueRungs(p) ==
  {r \in Rungs : r \notin p.filled /\ RoiAtLeast(p.price, Ladder[r].triggerPct)}

FirstOf(S) == CHOOSE r \in S : \A q \in S : r <= q

NoAction == [kind |-> "NO_ACTION"]
FullExit(why) == [kind |-> "FULL_EXIT", reason |-> why]
PartialExit(r) == [kind |-> "PARTIAL_EXIT", rung |-> r]

\* Mutant: the hold limit is only looked at until the trailing stop is armed.
DecideNextAction_HoldBeforeTrailing(p, held) ==
  IF p.status = "CLOSED" THEN NoAction
  ELSE IF held /\ ~p.trailingActive THEN FullExit("MAX_HOLD_TIME")
  ELSE IF StopHit(p)
    THEN FullExit(IF p.trailingActive THEN "TRAILING_STOP" ELSE "STOP_LOSS")
  ELSE IF DueRungs(p) # {} THEN PartialExit(FirstOf(DueRungs(p)))
  ELSE NoAction

DecideNextAction(p, held) ==
  IF p.status = "CLOSED" THEN NoAction
  ELSE IF held THEN FullExit("MAX_HOLD_TIME")
  ELSE IF StopHit(p)
    THEN FullExit(IF p.trailingActive THEN "TRAILING_STOP" ELSE "STOP_LOSS")
  ELSE IF DueRungs(p) # {} THEN PartialExit(FirstOf(DueRungs(p)))
  ELSE NoAction

\* Mutant: the share of the original size, however little is left.
RungAmount_Unbounded(p, r) == (TokenAmount * Ladder[r].sellPct) \div 100

\* A rung sells its share of the original size, or what is left of it.
RungAmount(p, r) ==
  Smaller(p.remaining, (TokenAmount * Ladder[r].sellPct) \div 100)

\* forceExit's share of what is left.
ReduceAmount(p) == (p.remaining * ReduceSellPct) \div 100

\* applyPaperExit: a remainder of dust closes the position, whoever sold it.
ApplyPaperExit(p, amount, reason) ==
  IF p.remaining - amount <= Dust
    THEN [p EXCEPT !.remaining = 0, !.status = "CLOSED", !.exitReason = reason]
    ELSE [p EXCEPT !.remaining = p.remaining - amount]

\* markTakeProfitFilled looks the rung up again by its trigger, so the rung
\* marked is the first one with that trigger.
MarkTakeProfitFilled(p, r) ==
  LET same == {q \in Rungs : Ladder[q].triggerPct = Ladder[r].triggerPct}
  IN  [p EXCEPT !.filled = p.filled \cup {FirstOf(same)}]

\* Mutant: the rung is not marked.
SellRung_Unmarked(p, r) == ApplyPaperExit(p, RungAmount(p, r), "TAKE_PROFIT")

SellRung(p, r) ==
  MarkTakeProfitFilled(ApplyPaperExit(p, RungAmount(p, r), "TAKE_PROFIT"), r)
-----------------------------------------------------------------------------
(* evaluateWhaleExitTier: the sold share sets a tier, a red flag raises it. *)

Rank(t) == CASE t = "EMERGENCY" -> 3 [] t = "REDUCE" -> 2
             [] t = "WARN" -> 1 [] t = "NONE" -> 0

SoldTier(sold, entry) ==
  LET AtLeast(pct) == IF entry > 0 THEN sold * 100 >= pct * entry ELSE pct = 0
  IN  IF AtLeast(EmergencyPct) THEN "EMERGENCY"
      ELSE IF AtLeast(ReducePct) THEN "REDUCE"
      ELSE IF AtLeast(WarnPct) THEN "WARN" ELSE "NONE"

FlagTier(flag) == IF flag = "coordinatedClusterSelling" THEN "EMERGENCY" ELSE "REDUCE"

EvaluateWhaleExitTier(sold, entry, flags) ==
  LET candidates == {SoldTier(sold, entry)} \cup {FlagTier(f) : f \in flags}
  IN  CHOOSE t \in candidates : \A u \in candidates : Rank(u) <= Rank(t)
=============================================================================
