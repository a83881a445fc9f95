-------------------------- MODULE MCClusterDetector --------------------------
(* Instances of ClusterDetector for TLC: the token's deployer, a wallet it   *)
(* funded, and a stranger whose funder also funded the deployer.             *)
EXTENDS ClusterDetector

ThreeWallets == {"dev", "mule", "other"}
Funders == [w \in ThreeWallets |-> IF w = "mule" THEN "dev" ELSE "bank"]

Deals(w, side, times, amount) ==
  {[wallet |-> w, side |-> side, at |-> t, amount |-> amount] : t \in times}

\* Times around the timing window (15) and the merge threshold (a weight of 1/2 is
\* 7.5 seconds): 0-6 and 14-20 merge, 6-14, 0-14 and 6-20 are edges that do not, 0-20 is none.
SomeTrades ==
  Deals("dev", "BUY", {0, 14}, 2) \cup Deals("mule", "BUY", {6, 14}, 2)
    \cup Deals("other", "BUY", {20}, 3) \cup Deals("dev", "SELL", {20}, 1)
=============================================================================
