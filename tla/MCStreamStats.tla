---------------------------- MODULE MCStreamStats ----------------------------
(* Instances of StreamStats for TLC.                                         *)
EXTENDS StreamStats

Deal(w, side, amount, usd, at, liquidity) ==
  [wallet |-> w, token |-> "coin", side |-> side, amount |-> amount, usd |-> usd,
   at |-> at, liquidity |-> liquidity]

\* Block times on the boundaries of the windows: 0-120 (early entry), 0-3600 (one hour),
\* 3600-3900 (five minutes), and 3900, which prunes the first two.
SomeTrades ==
  {Deal("ann", "BUY", 2, 4, 0, 10), Deal("ann", "BUY", 1, 4, 120, 10),
   Deal("ann", "SELL", 1, 3, 3600, 10), Deal("ann", "SELL", 1, 3, 3900, 4),
   Deal("ann", "SELL", 3, 3, 120, 10), Deal("bob", "BUY", 1, 1, 3900, 10),
   Deal("bob", "BUY", 1, 1, 0, 10), Deal("bob", "SELL", 2, 9, 3600, 4),
   [Deal("bob", "BUY", 1, 2, 120, 10) EXCEPT !.token = "other"]}
=============================================================================
