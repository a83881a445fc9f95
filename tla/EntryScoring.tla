----------------------------- MODULE EntryScoring -----------------------------
(***************************************************************************)
(* How the numbers become a decision: walletScoring and its hard gate,     *)
(* tokenRiskScoring, signalScoring and the entry gate, recomputed from the *)
(* statistics of the moment at every watched buy.  The statistics move     *)
(* between two buys; the module is about what such a move may do to the    *)
(* decision.                                                               *)
(*                                                                         *)
(* Every score, weight and limit is a whole number: scores in hundredths   *)
(* of a point (0..10000), percentages and weights in percent, dollars in   *)
(* units.  A quotient is rounded down where the code has a float.          *)
(***************************************************************************)
EXTENDS Integers, FiniteSets

CONSTANTS
  Config,      \* StrategyConfig: the limits and weights used below
  Lot,         \* dollars of one round trip of the wallet
  Rois,        \* percent a round trip returns
  MaxWins, MaxLosses,  \* bound: the wallet's past round trips
  TokenValues, \* [field of the token -> the values it takes]
  BestToken,   \* the token at the start
  None,        \* undefined: an unknown creator, a wallet outside every cluster
  MaxMoves     \* bound: moves after the past

\* TokenStats, the reputation of the creator and the venue of the trade.
TokenSets ==
  [liquidity |-> Nat, age |-> Nat, top10 |-> Nat, mintRevoked |-> BOOLEAN,
   freezeRevoked |-> BOOLEAN, buyers |-> Nat, buyVolume |-> Nat, sellVolume |-> Nat,
   launches |-> Nat \cup {None}, created |-> Nat, rugged |-> Nat, dexAllowed |-> BOOLEAN]
TokenFields == DOMAIN TokenSets

\* strategySchema.ts: limits and shares have a sign, weights have none.
ASSUME ConfigAssumption ==
  /\ Config.minTradeCount \in Nat \ {0} /\ Config.minWinRate \in 0..100
  /\ Config.minPnl \in Int /\ Config.minAvgRoi \in Int /\ Config.maxDrawdown \in Nat \ {0}
  /\ Config.minWhaleBuySize \in Nat \ {0} /\ Config.minEarlyEntry \in 0..100
  /\ Config.maxRugs \in Nat /\ Config.minWhaleScore \in Nat
  /\ Config.penaltyCap \in 0..100 /\ Config.maxTokenRisk \in Nat
  /\ Config.minLiquidity \in Nat \ {0} /\ Config.minAge \in Nat /\ Config.maxAge \in Nat \ {0}
  /\ Config.minBuyers \in Nat /\ Config.minBuyVolume \in Nat /\ Config.maxSlippage \in Nat \ {0}
  /\ Config.minSignalScore \in Nat /\ Config.maxTradeSize \in Nat \ {0}
  /\ Config.baseSlippage \in Nat /\ Config.slippageSizeImpact \in Nat

ASSUME WeightsAssumption ==
  /\ Config.walletWeights \in [consistency : Int, timing : Int, selectivity : Int,
                               exitQuality : Int, rugAvoidance : Int, recentPerformance : Int]
  /\ Config.riskWeights \in [age : Int, liquidity : Int, concentration : Int, authority : Int,
                             buyerDiversity : Int, flow : Int, creator : Int]
  /\ Config.signalWeights \in [whaleQuality : Int, tokenQuality : Int, liquidity : Int,
                               momentum : Int, independentBuyers : Int, early : Int,
                               manipulation : Int]

ASSUME HistoryAssumption ==
  /\ Lot \in Nat /\ Rois \subseteq Int
  /\ \E worst, best \in Rois : \A r \in Rois : worst <= r /\ r <= best
  /\ MaxWins \in Nat /\ MaxLosses \in Nat /\ MaxMoves \in Nat

ASSUME TokenAssumption ==
  /\ None \notin Int
  /\ DOMAIN BestToken = TokenFields /\ DOMAIN TokenValues = TokenFields
  /\ \A f \in TokenFields : BestToken[f] \in TokenSets[f] /\ TokenValues[f] \subseteq TokenSets[f]

VARIABLES
  wallet,      \* WalletStatsUpdater's accumulator of the buyer
  token,       \* TokenStats, and the reputation of its creator
  flags,       \* active flags of the buyer's cluster on the token, or None
  moves

vars == <<wallet, token, flags, moves>>

MinOf(a, b) == IF a <= b THEN a ELSE b
MaxOf(a, b) == IF a >= b THEN a ELSE b
Clamp(x) == MaxOf(0, MinOf(10000, x))

\* x / y of a whole, clamp01'd
Share(x, y) == Clamp((x * 10000) \div y)
-----------------------------------------------------------------------------
(* walletScoring.ts                                                        *)

PriorWins == 3
PriorTrades == 6
SaturationTrades == 30

\* Mutant: the confidence in the sample is not applied.
ConsistencyScore_NoConfidence(w) == ((w.winCount + PriorWins) * 10000) \div (w.tradeCount + PriorTrades)

\* Mutant: the discount grows with the sample.
ConsistencyScore_Reversed(w) ==
  ((w.winCount + PriorWins) * 10000 * (2 * SaturationTrades - MinOf(w.tradeCount, SaturationTrades)))
    \div ((w.tradeCount + PriorTrades) * 2 * SaturationTrades)

\* the win rate shrunk towards 3 of 6, times 0.5 + 0.5 * confidence
ConsistencyScore(w) ==
  ((w.winCount + PriorWins) * 10000 * (SaturationTrades + MinOf(w.tradeCount, SaturationTrades)))
    \div ((w.tradeCount + PriorTrades) * 2 * SaturationTrades)

TimingScore(w) == IF w.buyCount = 0 THEN 0 ELSE Share(w.earlyBuyCount * 10, w.buyCount * 6)

SelectivityScore(w) ==
  IF w.buyCount = 0 THEN 0 ELSE Share(w.buyUsd, w.buyCount * 3 * Config.minWhaleBuySize)

AvgRoi(w) == IF w.tradeCount = 0 THEN 0 ELSE w.roiSum \div w.tradeCount

ExitQualityScore(w) ==
  (Share(AvgRoi(w), 80) * 70 + Share(100 - w.maxDrawdown, 100) * 30) \div 100

RugAvoidanceScore(w) == MaxOf(0, 10000 - w.rugs * 2500)

RecentPerformanceScore(w) == Share(w.pnl, 50000)

WhaleScore(w) ==
  LET c == Config.walletWeights IN
  (c.consistency * ConsistencyScore(w) + c.timing * TimingScore(w)
     + c.selectivity * SelectivityScore(w) + c.exitQuality * ExitQualityScore(w)
     + c.rugAvoidance * RugAvoidanceScore(w) + c.recentPerformance * RecentPerformanceScore(w))
    \div 100

\* scoreWallet: evaluateHardGate finds nothing
PassedHardGate(w) ==
  /\ w.tradeCount >= Config.minTradeCount
  /\ w.winCount * 100 >= Config.minWinRate * w.tradeCount
  /\ w.pnl >= Config.minPnl
  /\ AvgRoi(w) >= Config.minAvgRoi
  /\ w.buyUsd >= Config.minWhaleBuySize * w.buyCount
  /\ w.maxDrawdown <= Config.maxDrawdown
  /\ w.earlyBuyCount * 100 >= Config.minEarlyEntry * w.buyCount
  /\ w.rugs <= Config.maxRugs
  /\ WhaleScore(w) >= Config.minWhaleScore
-----------------------------------------------------------------------------
(* tokenRiskScoring.ts: each component is a share, 10000 the riskiest.     *)

AgeRisk(t) == Clamp(10000 - (t.age * 10000) \div 86400)
LiquidityRisk(t) == Clamp(10000 - (t.liquidity * 10000) \div 100000)
ConcentrationRisk(t) == Clamp(t.top10 * 100)

AuthorityRisk(t) ==
  (IF t.mintRevoked THEN 0 ELSE 5000) + (IF t.freezeRevoked THEN 0 ELSE 5000)

BuyerDiversityRisk(t) == Clamp(10000 - (t.buyers * 10000) \div 20)

Volume(t) == t.buyVolume + t.sellVolume

FlowRisk(t) == IF Volume(t) = 0 THEN 0 ELSE Share(t.sellVolume, Volume(t))

\* Mutant: a creator nobody knows is as bad as a serial one.
CreatorRisk_UnknownRisky(t) ==
  LET serial == IF t.launches = None THEN 10000 ELSE Share(t.launches - 1, 10)
      rugged == IF t.created = 0 THEN 0
                ELSE (t.rugged * 10000 * MinOf(t.created, 5)) \div (t.created * 5)
  IN (serial + rugged) \div 2

\* Solscan's launches and the rug rate seen by ourselves, shrunk by its sample
CreatorRisk(t) ==
  LET serial == IF t.launches = None THEN 0 ELSE Share(t.launches - 1, 10)
      rugged == IF t.created = 0 THEN 0
                ELSE (t.rugged * 10000 * MinOf(t.created, 5)) \div (t.created * 5)
  IN (serial + rugged) \div 2

RiskScore(t) ==
  LET c == Config.riskWeights IN
  (c.age * AgeRisk(t) + c.liquidity * LiquidityRisk(t) + c.concentration * ConcentrationRisk(t)
     + c.authority * AuthorityRisk(t) + c.buyerDiversity * BuyerDiversityRisk(t)
     + c.flow * FlowRisk(t) + c.creator * CreatorRisk(t)) \div 100
-----------------------------------------------------------------------------
(* signalScoring.ts                                                        *)

BuyingMomentum(t) == IF Volume(t) = 0 THEN 5000 ELSE Share(t.buyVolume, Volume(t))

EarlyEntryQuality(t) == Clamp(10000 - (t.age * 10000) \div 600)

\* evaluateClusterFlags: 20 points a flag, up to the cap
ManipulationPenalty(f) == IF f = None THEN 0 ELSE MinOf(Config.penaltyCap, 20 * f) * 100

SignalScore(w, t, f) ==
  LET c == Config.signalWeights IN
  Clamp((c.whaleQuality * Clamp(WhaleScore(w)) + c.tokenQuality * Clamp(10000 - RiskScore(t))
           + c.liquidity * Share(t.liquidity, 50000) + c.momentum * BuyingMomentum(t)
           + c.independentBuyers * Share(t.buyers, 10) + c.early * EarlyEntryQuality(t)
           - c.manipulation * ManipulationPenalty(f)) \div 100)
-----------------------------------------------------------------------------
(* The order's size and slippage, and entryGate.ts.                        *)

\* twenty times executeEntry's trade size, a twentieth of the pool at most
TwentySizes(t) == MinOf(20 * Config.maxTradeSize, t.liquidity)

\* estimateSlippagePct, in hundredths of a percent
Slippage(t) ==
  Config.baseSlippage
    + (IF t.liquidity = 0 THEN 10000
       ELSE (TwentySizes(t) * 5 * Config.slippageSizeImpact) \div t.liquidity)

\* every check of evaluateEntryGate but the risk engine's veto
Blocks(w, t, f) ==
  [whale |-> ~PassedHardGate(w), tokenRisk |-> RiskScore(t) > Config.maxTokenRisk,
   liquidity |-> t.liquidity < Config.minLiquidity, dex |-> ~t.dexAllowed,
   age |-> t.age \notin Config.minAge..Config.maxAge, flags |-> f # None /\ f > 0,
   buyers |-> t.buyers < Config.minBuyers, momentum |-> t.buyVolume < Config.minBuyVolume,
   slippage |-> Slippage(t) > Config.maxSlippage,
   signal |-> SignalScore(w, t, f) < Config.minSignalScore]

\* none is skipped: the reasons of a refusal are all of them
Reasons(w, t, f) == LET blocks == Blocks(w, t, f) IN {r \in DOMAIN blocks : blocks[r]}
-----------------------------------------------------------------------------
(* What moves between two buys.                                            *)

\* A wallet after l losing and then w winning round trips: it was never below
\* an earlier peak, and half its buys were early.
Past(l, w) ==
  LET worst == CHOOSE r \in Rois : \A s \in Rois : r <= s
      best  == CHOOSE r \in Rois : \A s \in Rois : r >= s
      pnl   == (Lot * (w * best + l * worst)) \div 100
  IN [tradeCount |-> l + w, winCount |-> w, roiSum |-> w * best + l * worst,
      buyCount |-> l + w, buyUsd |-> (l + w) * Lot, earlyBuyCount |-> (l + w) \div 2,
      rugs |-> 0, pnl |-> pnl, peak |-> MaxOf(0, pnl), maxDrawdown |-> 0]

Init ==
  /\ \E l \in 0..MaxLosses, w \in 0..MaxWins : wallet = Past(l, w)
  /\ token = BestToken
  /\ flags = None
  /\ moves = 0

\* The wallet buys: handleBuy.
Buys(usd, early) ==
  /\ wallet' = [wallet EXCEPT !.buyCount = @ + 1, !.buyUsd = @ + usd,
                              !.earlyBuyCount = @ + IF early THEN 1 ELSE 0]
  /\ UNCHANGED <<token, flags>>

\* The wallet closes a round trip: handleSell.
Sells(roi, isRugged) ==
  LET pnl  == wallet.pnl + (Lot * roi) \div 100
      peak == MaxOf(wallet.peak, pnl)
  IN /\ wallet' = [wallet EXCEPT
           !.tradeCount = @ + 1, !.winCount = @ + IF roi > 0 THEN 1 ELSE 0,
           !.roiSum = @ + roi, !.pnl = pnl, !.peak = peak,
           !.rugs = @ + IF isRugged THEN 1 ELSE 0,
           !.maxDrawdown = IF peak > 0 THEN MaxOf(@, ((peak - pnl) * 100) \div peak) ELSE @]
     /\ UNCHANGED <<token, flags>>

\* The statistics of the token move in one field.
TokenMoves(f, v) ==
  /\ v # token[f]
  /\ f = "rugged" => v <= token.created
  /\ f = "created" => v >= MaxOf(token.created, token.rugged)
  /\ f = "age" => v >= token.age
  /\ token' = [token EXCEPT ![f] = v]
  /\ UNCHANGED <<wallet, flags>>

\* The clusters of the token are evaluated again.
ClusterMoves(f) ==
  /\ f # flags
  /\ flags' = f
  /\ UNCHANGED <<wallet, token>>

Next ==
  /\ moves < MaxMoves
  /\ moves' = moves + 1
  /\ \/ \E early \in BOOLEAN : Buys(Lot, early)
     \/ \E roi \in Rois, isRugged \in BOOLEAN : Sells(roi, isRugged)
     \/ \E f \in DOMAIN TokenValues : \E v \in TokenValues[f] : TokenMoves(f, v)
     \/ \E f \in {None, 0, 1, 2} : ClusterMoves(f)

Spec == Init /\ [][Next]_vars
-----------------------------------------------------------------------------
(* Properties.                                                             *)

\* nothing of u looks better than of t, their ages and the sample alike
RiskierToken(t, u) ==
  /\ u.age = t.age /\ u.created = t.created
  /\ \A f \in {"liquidity", "buyers", "buyVolume"} : u[f] <= t[f]
  /\ \A f \in {"sellVolume", "top10", "rugged"} : u[f] >= t[f]
  /\ \A f \in {"mintRevoked", "freezeRevoked", "dexAllowed"} : u[f] => t[f]
  /\ t.launches # None => u.launches # None /\ u.launches >= t.launches

MoreFlagged(f, g) == g = f \/ (g # None /\ (f = None \/ g > f))

\* Worse facts never look better: when the token only becomes riskier (liquidity
\* or buyers leave, sales pile up, an authority or a serial creator turns up, a
\* flag is raised), the risk score does not fall, the signal does not rise and
\* every reason to stay out remains.  The scores weigh a dozen shares of the same
\* numbers, so a sign or a default the wrong way round would open the gate.
RiskierNeverLooksBetter ==
  [][RiskierToken(token, token') /\ MoreFlagged(flags, flags') /\ UNCHANGED wallet =>
       /\ RiskScore(token') >= RiskScore(token)
       /\ SignalScore(wallet, token', flags') <= SignalScore(wallet, token, flags)
       /\ Reasons(wallet, token, flags) \subseteq Reasons(wallet, token', flags')]_vars

\* The score and the gate follow the wallet's record: a round trip won with at
\* least the average return never costs it score or qualification, a lost one never
\* gains it either (once the sample is what the gate asks for: until then any trade
\* may complete it).  A round trip moves five of the six components at once.
RecordDecides ==
  [][wallet'.tradeCount > wallet.tradeCount =>
       IF wallet'.winCount > wallet.winCount
       THEN AvgRoi(wallet') >= AvgRoi(wallet) /\ wallet'.rugs = wallet.rugs =>
              /\ WhaleScore(wallet') >= WhaleScore(wallet)
              /\ PassedHardGate(wallet) => PassedHardGate(wallet')
       ELSE /\ WhaleScore(wallet') <= WhaleScore(wallet)
            /\ wallet.tradeCount >= Config.minTradeCount /\ PassedHardGate(wallet')
                 => PassedHardGate(wallet)]_vars

\* "This is what stops an 8-trade/75%-win wallet from outscoring a
\* 200-trade/64%-win wallet" (walletScoring.ts:3-7): not even a perfect record
\* does, while the sample is thinner than the gate asks for.
ThinSampleNeverOutscores ==
  wallet.tradeCount < Config.minTradeCount =>
    ConsistencyScore(wallet) < ConsistencyScore([tradeCount |-> 200, winCount |-> 128])
=============================================================================
