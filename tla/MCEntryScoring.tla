--------------------------- MODULE MCEntryScoring ---------------------------
(* The shipped strategy, with the creator's risk turned on.                *)
EXTENDS EntryScoring

Strategy ==
  [minTradeCount |-> 15, minWinRate |-> 45, minPnl |-> 5000, minAvgRoi |-> 25,
   minWhaleBuySize |-> 2000, maxDrawdown |-> 60, minEarlyEntry |-> 30, maxRugs |-> 3,
   minWhaleScore |-> 6000,
   walletWeights |-> [consistency |-> 25, timing |-> 20, selectivity |-> 15, exitQuality |-> 20,
                      rugAvoidance |-> 10, recentPerformance |-> 10],
   riskWeights |-> [age |-> 25, liquidity |-> 20, concentration |-> 20, authority |-> 15,
                    buyerDiversity |-> 10, flow |-> 10, creator |-> 10],
   signalWeights |-> [whaleQuality |-> 30, tokenQuality |-> 20, liquidity |-> 15, momentum |-> 10,
                      independentBuyers |-> 10, early |-> 10, manipulation |-> 5],
   penaltyCap |-> 100, maxTokenRisk |-> 5500, minLiquidity |-> 4000, minAge |-> 30,
   maxAge |-> 21600, minBuyers |-> 3, minBuyVolume |-> 1000, maxSlippage |-> 500,
   minSignalScore |-> 6500, maxTradeSize |-> 1000, baseSlippage |-> 30, slippageSizeImpact |-> 50]

FreshToken ==
  [liquidity |-> 30000, age |-> 60, top10 |-> 20, mintRevoked |-> TRUE, freezeRevoked |-> TRUE,
   buyers |-> 6, buyVolume |-> 1200, sellVolume |-> 800, launches |-> None, created |-> 1,
   rugged |-> 0, dexAllowed |-> TRUE]

\* percent of a round trip
Returns == {-50, 0, 200}

Fields ==
  [liquidity |-> {0, 3900, 5000, 60000}, age |-> {700, 21601}, top10 |-> {0, 60, 100},
   mintRevoked |-> BOOLEAN, freezeRevoked |-> BOOLEAN, buyers |-> {2, 3, 15},
   buyVolume |-> {0, 900, 5000}, sellVolume |-> {0, 400, 3000}, launches |-> {1, 6},
   created |-> {2, 6}, rugged |-> {1, 2}, dexAllowed |-> BOOLEAN]
=============================================================================
