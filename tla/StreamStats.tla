----------------------------- MODULE StreamStats -----------------------------
(***************************************************************************)
(* What one trade does to the statistics: WalletStatsUpdater and then      *)
(* TokenStatsCollector, in the order in which they subscribe, with the     *)
(* first-seen index and the rug registry between them.  Both handlers run  *)
(* to their upsert, which the in-memory repository does at once, before    *)
(* another event is handled, so a trade is one step.  (Prisma keeps none   *)
(* of a token's windows.)                                                  *)
(*                                                                         *)
(* Left out: profit and drawdown in dollars, sums of the same steps, and   *)
(* the wall-clock stamps.                                                  *)
(*                                                                         *)
(* Block times come with the trades and need not arrive in order.  The     *)
(* running sums are related to history, the trades handled so far.         *)
(***************************************************************************)
EXTENDS Integers, FiniteSetsExt, Sequences

CONSTANTS
  Wallets, Tokens,
  Trades,       \* [wallet, token, side, amount, usd, at, liquidity]
  OneHour, FiveMin, EarlyWindow,
  None,         \* no block time, or no row, yet
  MaxTrades     \* bound: trades handled

ASSUME StatsAssumption ==
  /\ Trades \subseteq [wallet : Wallets, token : Tokens, side : {"BUY", "SELL"},
                       amount : Nat \ {0}, usd : Nat, at : Nat, liquidity : Nat]
  /\ OneHour \in Nat /\ FiveMin \in 0..OneHour /\ EarlyWindow \in Nat
  /\ None \notin Nat /\ Wallets \cap Tokens = {}
  /\ MaxTrades \in Nat

VARIABLES
  history,     \* the trades handled, in order of arrival
  firstSeen,   \* TokenFirstSeenIndex
  rugged,      \* RuggedTokenRegistry
  wallets,     \* WalletStatsUpdater's accumulators
  tokens,      \* TokenStatsCollector's accumulators
  stored       \* the rows of both tables, by wallet or token

vars == <<history, firstSeen, rugged, wallets, tokens, stored>>

-----------------------------------------------------------------------------
(* A wallet's lot of one token: a quantity and its cost, the fraction      *)
(* paid / per, so that selling a part leaves the average cost as it was.   *)

NoLot == [quantity |-> 0, paid |-> 0, per |-> 1]

NewWallet == [tradeCount |-> 0, winCount |-> 0, lossCount |-> 0, buyCount |-> 0,
              earlyBuyCount |-> 0, rugExposureCount |-> 0, lots |-> [t \in Tokens |-> NoLot]]

\* Mutant: a buy at the end of the window is not early.
IsEarly_Strict(seen, e) == e.at - seen < EarlyWindow

IsEarly(seen, e) == e.at - seen <= EarlyWindow

\* Mutant: a second buy replaces the quantity.
BuyInto_Replaces(lot, e) ==
  [quantity |-> e.amount, paid |-> lot.paid + e.usd * lot.per, per |-> lot.per]

BuyInto(lot, e) ==
  [quantity |-> lot.quantity + e.amount, paid |-> lot.paid + e.usd * lot.per, per |-> lot.per]

HandleBuy(acc, e, seen) ==
  [acc EXCEPT
     !.buyCount = @ + 1,
     !.earlyBuyCount = @ + IF IsEarly(seen, e) THEN 1 ELSE 0,
     !.lots[e.token] = BuyInto(@, e)]

\* toStats: the rates are quotients of these
ToStats(acc) == [f \in DOMAIN acc \ {"lots"} |-> acc[f]]

SellOf(lot, e) == Min({e.amount, lot.quantity})

\* the rest of the lot keeps its share of the cost; an empty lot is deleted
SellFrom(lot, e) ==
  LET left == lot.quantity - SellOf(lot, e) IN
  IF left = 0 THEN NoLot
  ELSE [quantity |-> left, paid |-> lot.paid * left, per |-> lot.per * lot.quantity]

\* proceeds per unit above the average cost of the lot; no cost counts as no gain
IsWin(lot, e) == lot.paid > 0 /\ e.usd * lot.quantity * lot.per > lot.paid * e.amount

HandleSell(acc, e, isRugged) ==
  LET lot == acc.lots[e.token] IN
  IF lot.quantity = 0
  THEN acc   \* selling something we never tracked a buy for
  ELSE [acc EXCEPT
          !.tradeCount = @ + 1,
          !.winCount = @ + IF IsWin(lot, e) THEN 1 ELSE 0,
          !.lossCount = @ + IF IsWin(lot, e) THEN 0 ELSE 1,
          !.rugExposureCount = @ + IF isRugged THEN 1 ELSE 0,
          !.lots[e.token] = SellFrom(lot, e)]

-----------------------------------------------------------------------------
(* A token's accumulator; its trades are positions in history.             *)

NewToken == [trades |-> {}, peakLiquidity |-> 0, lastBlockTime |-> 0]

\* Mutant: a trade exactly one hour old is dropped.
Prune_Strict(h, is, e) == {i \in is : h[i].at > e.at - OneHour}

Prune(h, is, e) == {i \in is : h[i].at >= e.at - OneHour}

Crashed(peak, e) == peak > 0 /\ 2 * e.liquidity < peak

\* Mutant: the last trade to arrive sets the time.
HandleTrade_LastArrived(acc, h, e) ==
  [trades |-> Prune(h, acc.trades \cup {Len(h)}, e),
   peakLiquidity |-> Max({acc.peakLiquidity, e.liquidity}),
   lastBlockTime |-> e.at]

HandleTrade(acc, h, e) ==
  [trades |-> Prune(h, acc.trades \cup {Len(h)}, e),
   peakLiquidity |-> Max({acc.peakLiquidity, e.liquidity}),
   lastBlockTime |-> Max({acc.lastBlockTime, e.at})]

Within(h, is, seconds, asOf) == {i \in is : h[i].at >= asOf - seconds}
OfSide(h, is, side) == {i \in is : h[i].side = side}
Unique(h, is) == Cardinality({h[i].wallet : i \in is})
UsdVolume(h, is) == FoldSet(LAMBDA i, sum : sum + h[i].usd, 0, is)

BuildStats(h, is, seen, asOf) ==
  LET last1h == Within(h, is, OneHour, asOf)
      last5m == Within(h, is, FiveMin, asOf)
  IN [createdAt       |-> seen,
      uniqueBuyers1h  |-> Unique(h, OfSide(h, last1h, "BUY")),
      uniqueSellers1h |-> Unique(h, OfSide(h, last1h, "SELL")),
      buyVolumeUsd5m  |-> UsdVolume(h, OfSide(h, last5m, "BUY")),
      sellVolumeUsd5m |-> UsdVolume(h, OfSide(h, last5m, "SELL")),
      buyVolumeUsd1h  |-> UsdVolume(h, OfSide(h, last1h, "BUY")),
      sellVolumeUsd1h |-> UsdVolume(h, OfSide(h, last1h, "SELL"))]

\* what the orchestrator reads
GetStats(t) == BuildStats(history, tokens[t].trades, firstSeen[t], tokens[t].lastBlockTime)

-----------------------------------------------------------------------------
Record(seen, e) == IF seen = None \/ e.at < seen THEN e.at ELSE seen

Keys == Wallets \cup Tokens

Init ==
  /\ history = <<>>
  /\ firstSeen = [t \in Tokens |-> None]
  /\ rugged = {}
  /\ wallets = [w \in Wallets |-> NewWallet]
  /\ tokens = [t \in Tokens |-> NewToken]
  /\ stored = [k \in Keys |-> None]

\* Both listeners, with their upserts.
HandleEvent(e) ==
  LET h     == Append(history, e)
      seen  == Record(firstSeen[e.token], e)
      acc   == wallets[e.wallet]
      acc2  == IF e.side = "BUY" THEN HandleBuy(acc, e, seen)
               ELSE HandleSell(acc, e, e.token \in rugged)
      token == HandleTrade(tokens[e.token], h, e)
  IN /\ Len(history) < MaxTrades
     /\ history' = h
     /\ firstSeen' = [firstSeen EXCEPT ![e.token] = seen]
     /\ wallets' = [wallets EXCEPT ![e.wallet] = acc2]
     /\ tokens' = [tokens EXCEPT ![e.token] = token]
     /\ rugged' = IF Crashed(token.peakLiquidity, e) THEN rugged \cup {e.token} ELSE rugged
     /\ stored' = [stored EXCEPT
          ![e.wallet] = ToStats(acc2),
          ![e.token] = BuildStats(h, token.trades, seen, e.at)]

Next == \E e \in Trades : HandleEvent(e)

Spec == Init /\ [][Next]_vars

-----------------------------------------------------------------------------
Lot == [quantity : Nat, paid : Nat, per : Nat \ {0}]

WalletAccumulator == [tradeCount : Nat, winCount : Nat, lossCount : Nat, buyCount : Nat,
                      earlyBuyCount : Nat, rugExposureCount : Nat, lots : [Tokens -> Lot]]

TokenAccumulator == [trades : SUBSET (1..MaxTrades), peakLiquidity : Nat, lastBlockTime : Nat]

\* Quantities and costs are never negative, and a lot that is not empty has a denominator.
TypeOK ==
  /\ history \in Seq(Trades) /\ Len(history) <= MaxTrades
  /\ firstSeen \in [Tokens -> Nat \cup {None}] /\ rugged \subseteq Tokens
  /\ wallets \in [Wallets -> WalletAccumulator]
  /\ tokens \in [Tokens -> TokenAccumulator]
  /\ \A t \in Tokens : tokens[t].trades \subseteq DOMAIN history
  /\ DOMAIN stored = Keys

-----------------------------------------------------------------------------
(* What the running sums stand for, recomputed from a history.             *)

Times(h, is) == {h[i].at : i \in is}
TradesOf(h, t) == {i \in DOMAIN h : h[i].token = t}
InOrder(h, is) == \A i, j \in is : i < j => h[i].at <= h[j].at

\* The live statistics are those of the whole stream: whatever the order of the block
\* times, pruning never drops a trade that the windows still need, and
\* the token's age counts from its earliest trade.
LiveStatsExact ==
  \A t \in Tokens :
    LET all == TradesOf(history, t) IN
    all # {} => GetStats(t) = BuildStats(history, all, Min(Times(history, all)), Max(Times(history, all)))

\* Readers of the repository see the statistics of the whole stream as well, as long as a token's
\* trades arrive in order, however the trades of other tokens fall in between.  (A late trade's row is as of that trade: its windows reach
\* into trades after it, and miss some that are pruned already.)
StoredAgrees ==
  \A t \in Tokens :
    LET all == TradesOf(history, t) IN
    all # {} /\ InOrder(history, all) =>
      stored[t] = BuildStats(history, all, Min(Times(history, all)), Max(Times(history, all)))

\* the buys of a wallet that were early as far as the whole stream tells
EarlyBuys(h, w) ==
  {i \in OfSide(h, DOMAIN h, "BUY") :
     h[i].wallet = w /\ \A j \in TradesOf(h, h[i].token) : h[i].at - h[j].at <= EarlyWindow}

\* A late trade only makes a token older: it may leave buys counted as early that were not, but
\* every buy that was early is counted.
EarlyBuysCounted ==
  \A w \in Wallets : wallets[w].earlyBuyCount >= Cardinality(EarlyBuys(history, w))

\* what e adds to the balance of w in t
Change(e, w, t) ==
  IF e.wallet # w \/ e.token # t THEN 0 ELSE IF e.side = "BUY" THEN e.amount ELSE -e.amount

\* buys less sells of w in t, over the first n trades
Balance(h, w, t) ==
  LET b[n \in 0..Len(h)] == IF n = 0 THEN 0 ELSE b[n - 1] + Change(h[n], w, t)
  IN  b

\* a balance that sells cannot take below zero: what has been added since it was lowest
Held(h, w, t, n) ==
  LET b == Balance(h, w, t)
  IN  Max({b[n] - b[k] : k \in 0..n})

\* A lot holds what was bought and not sold since the wallet last held nothing we know of:
\* sells of tokens from before we watched neither go negative nor eat into later buys.
LotsMatchTrades ==
  \A w \in Wallets, t \in Tokens :
    wallets[w].lots[t].quantity = Held(history, w, t, Len(history))

\* the sells of a wallet that closed a part of a lot
Closings(w) ==
  {i \in OfSide(history, DOMAIN history, "SELL") :
     history[i].wallet = w /\ Held(history, w, history[i].token, i - 1) > 0}

CrashSeenBefore(i) ==
  \E j \in 1..(i - 1), k \in 1..(i - 1) :
    /\ k <= j /\ history[k].token = history[i].token /\ history[j].token = history[i].token
    /\ 2 * history[j].liquidity < history[k].liquidity

\* Rug exposure is counted for exactly the closings after a trade that showed the
\* crash, not for a sale on the crashing trade itself: the wallets' listener comes first.
RugExposureExact ==
  \A w \in Wallets :
    wallets[w].rugExposureCount = Cardinality({i \in Closings(w) : CrashSeenBefore(i)})

\* unit price of trade i above that of trade j
Dearer(i, j) == history[i].usd * history[j].amount > history[j].usd * history[i].amount

BuysBefore(i) ==
  {j \in OfSide(history, 1..(i - 1), "BUY") :
     history[j].wallet = history[i].wallet /\ history[j].token = history[i].token}

\* Average cost lies among the prices paid: a sale above all of them is a win, one above none is
\* not, whatever was sold in between.
WinsAreReal ==
  \A w \in Wallets :
    /\ wallets[w].winCount >=
         Cardinality({i \in Closings(w) : \A j \in BuysBefore(i) : Dearer(i, j) /\ history[j].usd > 0})
    /\ wallets[w].winCount <= Cardinality({i \in Closings(w) : \E j \in BuysBefore(i) : Dearer(i, j)})
    /\ wallets[w].winCount + wallets[w].lossCount = Cardinality(Closings(w))

\* What discovery and the hard gate judge a wallet by is what its trades were, in
\* whatever order the stream brought them: lots, rug exposure and wins.
WalletStatsExact == LotsMatchTrades /\ RugExposureExact /\ WinsAreReal
=============================================================================
