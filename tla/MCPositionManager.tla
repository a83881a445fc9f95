------------------------- MODULE MCPositionManager -------------------------
(* Instances of PositionManager for TLC: the ladder of config/strategy.json *)
(* on a position of 20 tokens bought at 100.                                *)
EXTENDS PositionManager

StrategyLadder == << [triggerPct |-> 25, sellPct |-> 20],
                     [triggerPct |-> 50, sellPct |-> 20],
                     [triggerPct |-> 100, sellPct |-> 25] >>

\* Below the stop loss; under the trailing stop once armed; first rung and
\* trailing; all rungs.
StrategyPrices == {75, 110, 130, 200}
=============================================================================
