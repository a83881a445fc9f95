-------------------------- MODULE StreamStatsProofs --------------------------
(***************************************************************************)
(* That pruning loses nothing: the live statistics of a token are those of *)
(* its whole stream, for every order of the block times; that its stored   *)
(* row is too, while its trades arrive in order; that a wallet's lots, its *)
(* rug exposure and its wins are what its trades were; and the types of    *)
(* all accumulators.                                                       *)
(***************************************************************************)
EXTENDS StreamStats, WellFoundedInduction, FiniteSetTheorems, TLAPS

\* What is kept of a token's trades includes every one that is not older than an
\* hour before the newest, and its bounds in time are those of all its trades.
BoundsOf(h, acc, seen, t) ==
  LET all == TradesOf(h, t) IN
  /\ acc.trades \subseteq all
  /\ \A i \in all : h[i].at >= acc.lastBlockTime - OneHour => i \in acc.trades
  /\ \A i \in all : h[i].at <= acc.lastBlockTime
  /\ \A i \in all : seen \in Nat /\ seen <= h[i].at
  /\ all # {} => \E i, j \in all : h[i].at = seen /\ h[j].at = acc.lastBlockTime
  /\ all = {} => seen = None /\ acc.lastBlockTime = 0

Exact == \A t \in Tokens : BoundsOf(history, tokens[t], firstSeen[t], t)

IInv == TypeOK /\ Exact

-----------------------------------------------------------------------------
\* The larger of two numbers.
LEMMA MaxOfTwo ==
  ASSUME NEW a \in Nat, NEW b \in Nat
  PROVE  Max({a, b}) = IF a >= b THEN a ELSE b
BY DEF Max

\* The smaller of two numbers.
LEMMA MinOfTwo ==
  ASSUME NEW a \in Nat, NEW b \in Nat
  PROVE  Min({a, b}) = IF a <= b THEN a ELSE b
BY DEF Min

\* A member above all members is the maximum.
LEMMA MaxIs ==
  ASSUME NEW S \in SUBSET Nat, NEW m \in S, \A x \in S : x <= m
  PROVE  Max(S) = m
<1>1. \E x \in S : \A y \in S : x >= y
  OBVIOUS
<1>2. Max(S) \in S /\ \A y \in S : Max(S) >= y
  BY <1>1 DEF Max
<1>3. Max(S) \in Nat /\ Max(S) >= m /\ Max(S) <= m
  BY <1>2
<1> QED
  BY <1>3

\* A member below all members is the minimum.
LEMMA MinIs ==
  ASSUME NEW S \in SUBSET Nat, NEW m \in S, \A x \in S : m <= x
  PROVE  Min(S) = m
<1>1. \E x \in S : \A y \in S : x <= y
  OBVIOUS
<1>2. Min(S) \in S /\ \A y \in S : Min(S) <= y
  BY <1>1 DEF Min
<1>3. Min(S) \in Nat /\ Min(S) >= m /\ Min(S) <= m
  BY <1>2
<1> QED
  BY <1>3

\* A set of positions that is not empty has a last one.
LEMMA LargestOf ==
  ASSUME NEW n \in Nat, NEW S \in SUBSET (1..n), S # {}
  PROVE  \E l \in S : \A j \in S : j <= l
<1> DEFINE below == {m \in Nat : \A j \in S : j <= m}
<1>1. n \in below /\ below \subseteq Nat
  OBVIOUS
<1>2. PICK m \in below : \A k \in below : <<k, m>> \notin OpToRel(<, Nat)
  <2>1. IsWellFoundedOn(OpToRel(<, Nat), Nat)
    BY NatLessThanWellFounded
  <2> HIDE DEF below
  <2> QED BY <1>1, <2>1, WFMin
<1>3. m \in S
  <2> SUFFICES ASSUME m \notin S PROVE FALSE
    OBVIOUS
  <2>1. m \in Nat /\ \A j \in S : j <= m
    BY <1>2
  <2>2. m - 1 \in below
    <3>1. PICK i \in S : TRUE
      OBVIOUS
    <3>2. i \in 1..n /\ i <= m
      BY <2>1
    <3>3. m - 1 \in Nat
      BY <2>1, <3>2
    <3>4. ASSUME NEW j \in S PROVE j <= m - 1
      <4>1. j \in 1..n /\ j <= m /\ j # m
        BY <2>1
      <4> QED BY <2>1, <4>1
    <3> QED BY <3>3, <3>4
  <2>3. <<m - 1, m>> \in OpToRel(<, Nat)
    BY <1>2, <2>2 DEF OpToRel
  <2> QED BY <1>2, <2>2, <2>3
<1> QED BY <1>2, <1>3

\* Products of numbers are numbers, and of positive ones positive.
LEMMA Products ==
  ASSUME NEW a \in Nat, NEW b \in Nat
  PROVE  a * b \in Nat /\ (a # 0 /\ b # 0 => a * b # 0)
OBVIOUS

\* The fields of a trade.
LEMMA TradeFields ==
  ASSUME NEW e \in Trades
  PROVE  /\ e.wallet \in Wallets /\ e.token \in Tokens /\ e.side \in {"BUY", "SELL"}
         /\ e.amount \in Nat \ {0} /\ e.usd \in Nat /\ e.at \in Nat /\ e.liquidity \in Nat
BY StatsAssumption

-----------------------------------------------------------------------------
\* Buying into a lot leaves a lot.
LEMMA BuyKeepsLot ==
  ASSUME NEW lot \in Lot, NEW e \in Trades
  PROVE  BuyInto(lot, e) \in Lot
<1>1. e.usd * lot.per \in Nat
  BY TradeFields, Products DEF Lot
<1> QED
  BY <1>1, TradeFields DEF BuyInto, Lot

\* Selling from a lot that is not empty leaves a lot.
LEMMA SellKeepsLot ==
  ASSUME NEW lot \in Lot, NEW e \in Trades, lot.quantity # 0
  PROVE  SellFrom(lot, e) \in Lot
<1> DEFINE left == lot.quantity - SellOf(lot, e)
<1>1. left \in Nat
  BY TradeFields, MinOfTwo DEF Lot, SellOf
<1>2. lot.paid * left \in Nat /\ lot.per * lot.quantity \in Nat /\ lot.per * lot.quantity # 0
  BY <1>1, Products DEF Lot
<1>3. NoLot \in Lot
  BY DEF NoLot, Lot
<1>4. SellFrom(lot, e) = IF left = 0 THEN NoLot
                         ELSE [quantity |-> left, paid |-> lot.paid * left, per |-> lot.per * lot.quantity]
  BY DEF SellFrom
<1> HIDE DEF left
<1> QED
  BY <1>1, <1>2, <1>3, <1>4 DEF Lot

\* A buy keeps the type of the wallet's accumulator.
LEMMA BuyKeepsType ==
  ASSUME NEW acc \in WalletAccumulator, NEW e \in Trades, NEW seen
  PROVE  HandleBuy(acc, e, seen) \in WalletAccumulator
<1>1. BuyInto(acc.lots[e.token], e) \in Lot
  BY BuyKeepsLot, TradeFields DEF WalletAccumulator
<1> DEFINE lots == [acc.lots EXCEPT ![e.token] = BuyInto(acc.lots[e.token], e)]
           early == acc.earlyBuyCount + IF IsEarly(seen, e) THEN 1 ELSE 0
<1>2. lots \in [Tokens -> Lot]
  BY <1>1 DEF WalletAccumulator
<1>3. HandleBuy(acc, e, seen)
        = [tradeCount |-> acc.tradeCount, winCount |-> acc.winCount, lossCount |-> acc.lossCount,
           buyCount |-> acc.buyCount + 1, earlyBuyCount |-> early,
           rugExposureCount |-> acc.rugExposureCount, lots |-> lots]
  <2>1. HandleBuy(acc, e, seen) = [acc EXCEPT !.buyCount = acc.buyCount + 1, !.earlyBuyCount = early, !.lots = lots]
    BY Zenon DEF HandleBuy
  <2>2. acc = [tradeCount |-> acc.tradeCount, winCount |-> acc.winCount, lossCount |-> acc.lossCount,
               buyCount |-> acc.buyCount, earlyBuyCount |-> acc.earlyBuyCount,
               rugExposureCount |-> acc.rugExposureCount, lots |-> acc.lots]
    BY DEF WalletAccumulator
  <2> HIDE DEF lots, early
  <2> QED
    BY <2>1, <2>2
<1>4. early \in Nat
  BY DEF WalletAccumulator
<1> HIDE DEF lots, early
<1> QED
  BY <1>2, <1>3, <1>4 DEF WalletAccumulator

\* So does a sell.
LEMMA SellKeepsType ==
  ASSUME NEW acc \in WalletAccumulator, NEW e \in Trades, NEW isRugged
  PROVE  HandleSell(acc, e, isRugged) \in WalletAccumulator
<1>1. CASE acc.lots[e.token].quantity = 0
  BY <1>1 DEF HandleSell
<1>2. CASE acc.lots[e.token].quantity # 0
  <2>1. SellFrom(acc.lots[e.token], e) \in Lot
    BY <1>2, SellKeepsLot, TradeFields DEF WalletAccumulator
  <2> DEFINE lots == [acc.lots EXCEPT ![e.token] = SellFrom(acc.lots[e.token], e)]
             win  == acc.winCount + IF IsWin(acc.lots[e.token], e) THEN 1 ELSE 0
             loss == acc.lossCount + IF IsWin(acc.lots[e.token], e) THEN 0 ELSE 1
             rug  == acc.rugExposureCount + IF isRugged THEN 1 ELSE 0
  <2>2. lots \in [Tokens -> Lot]
    BY <2>1 DEF WalletAccumulator
  <2>3. HandleSell(acc, e, isRugged)
          = [tradeCount |-> acc.tradeCount + 1, winCount |-> win, lossCount |-> loss,
             buyCount |-> acc.buyCount, earlyBuyCount |-> acc.earlyBuyCount,
             rugExposureCount |-> rug, lots |-> lots]
    BY <1>2 DEF HandleSell, WalletAccumulator
  <2>4. win \in Nat /\ loss \in Nat /\ rug \in Nat
    BY DEF WalletAccumulator
  <2> HIDE DEF lots, win, loss, rug
  <2> QED
    BY <2>2, <2>3, <2>4 DEF WalletAccumulator
<1> QED
  BY <1>1, <1>2

-----------------------------------------------------------------------------
\* A trade of the token, appended to the stream and handled, keeps them.
LEMMA HandlingKeepsBounds ==
  ASSUME NEW h \in Seq(Trades), NEW acc \in TokenAccumulator, NEW seen \in Nat \cup {None},
         NEW e \in Trades, BoundsOf(h, acc, seen, e.token)
  PROVE  BoundsOf(Append(h, e), HandleTrade(acc, Append(h, e), e), Record(seen, e), e.token)
<1> DEFINE g == Append(h, e)
           n == Len(h) + 1
           old == TradesOf(h, e.token)
           all == TradesOf(g, e.token)
           acc2 == HandleTrade(acc, g, e)
           seen2 == Record(seen, e)
<1>e. e.at \in Nat /\ e.liquidity \in Nat
  BY TradeFields
<1>g. /\ Len(h) \in Nat /\ DOMAIN h = 1..Len(h) /\ DOMAIN g = 1..n /\ Len(g) = n
      /\ g[n] = e /\ \A i \in 1..Len(h) : g[i] = h[i] /\ h[i] \in Trades
  OBVIOUS
<1>t. \A i \in DOMAIN h : h[i].at \in Nat
  BY <1>g, TradeFields
<1>all. all = old \cup {n} /\ n \notin old /\ \A i \in old : g[i] = h[i] /\ h[i].at \in Nat
  BY <1>g, <1>t DEF TradesOf
<1>acc. acc.lastBlockTime \in Nat /\ acc.peakLiquidity \in Nat
  BY DEF TokenAccumulator
<1>last. acc2.lastBlockTime = IF acc.lastBlockTime >= e.at THEN acc.lastBlockTime ELSE e.at
  BY <1>e, <1>acc, MaxOfTwo DEF HandleTrade
<1>kept. acc2.trades = {i \in acc.trades \cup {n} : g[i].at >= e.at - OneHour}
  BY <1>g DEF HandleTrade, Prune
<1>seen. seen2 = IF seen = None \/ e.at < seen THEN e.at ELSE seen
  BY DEF Record
<1>b. /\ acc.trades \subseteq old
      /\ \A i \in old : h[i].at >= acc.lastBlockTime - OneHour => i \in acc.trades
      /\ \A i \in old : h[i].at <= acc.lastBlockTime
      /\ \A i \in old : seen \in Nat /\ seen <= h[i].at
      /\ old # {} => \E i, j \in old : h[i].at = seen /\ h[j].at = acc.lastBlockTime
      /\ old = {} => seen = None /\ acc.lastBlockTime = 0
  BY DEF BoundsOf
<1>c. OneHour \in Nat /\ None \notin Nat
  BY StatsAssumption
<1> HIDE DEF g, n, old, all, acc2, seen2
<1>1. acc2.trades \subseteq all
  BY <1>kept, <1>b, <1>all
<1>2. \A i \in all : g[i].at >= acc2.lastBlockTime - OneHour => i \in acc2.trades
  <2> SUFFICES ASSUME NEW i \in all, g[i].at >= acc2.lastBlockTime - OneHour
               PROVE  i \in acc2.trades
    OBVIOUS
  <2>1. g[i].at \in Nat /\ g[i].at >= e.at - OneHour /\ g[i].at >= acc.lastBlockTime - OneHour
    <3>1. g[i].at \in Nat
      BY <1>all, <1>e, <1>g
    <3>2. acc2.lastBlockTime \in Nat /\ acc2.lastBlockTime >= e.at /\ acc2.lastBlockTime >= acc.lastBlockTime
      BY <1>last, <1>acc, <1>e
    <3> QED
      BY <3>1, <3>2, <1>acc, <1>e, <1>c
  <2>2. i \in acc.trades \cup {n}
    BY <2>1, <1>all, <1>b
  <2> QED
    BY <2>1, <2>2, <1>kept
<1>3. \A i \in all : g[i].at <= acc2.lastBlockTime
  BY <1>all, <1>b, <1>last, <1>acc, <1>e, <1>g
<1>4. \A i \in all : seen2 \in Nat /\ seen2 <= g[i].at
  BY <1>all, <1>b, <1>seen, <1>e, <1>g, <1>c
<1>5. all # {} => \E i, j \in all : g[i].at = seen2 /\ g[j].at = acc2.lastBlockTime
  <2>1. \E i \in all : g[i].at = seen2
    <3>1. CASE old = {}
      BY <3>1, <1>b, <1>seen, <1>all, <1>g
    <3>2. CASE old # {}
      <4>1. PICK i \in old : h[i].at = seen
        BY <3>2, <1>b
      <4> QED
        BY <4>1, <1>seen, <1>all, <1>g, <1>c
    <3> QED
      BY <3>1, <3>2
  <2>2. \E j \in all : g[j].at = acc2.lastBlockTime
    <3>1. CASE old = {}
      BY <3>1, <1>b, <1>last, <1>all, <1>g, <1>e
    <3>2. CASE old # {}
      <4>1. PICK j \in old : h[j].at = acc.lastBlockTime
        BY <3>2, <1>b
      <4> QED
        BY <4>1, <1>last, <1>all, <1>g
    <3> QED
      BY <3>1, <3>2
  <2> QED
    BY <2>1, <2>2
<1>6. all # {}
  BY <1>all
<1>7. BoundsOf(g, acc2, seen2, e.token)
  BY <1>1, <1>2, <1>3, <1>4, <1>5, <1>6 DEF BoundsOf, all
<1> QED
  BY <1>7 DEF g, acc2, seen2

\* Nor does it move the bounds of another token.
LEMMA OthersKeepBounds ==
  ASSUME NEW h \in Seq(Trades), NEW e \in Trades, NEW t \in Tokens, t # e.token,
         NEW acc, NEW seen, BoundsOf(h, acc, seen, t)
  PROVE  BoundsOf(Append(h, e), acc, seen, t)
<1> DEFINE g == Append(h, e)
           old == TradesOf(h, t)
           all == TradesOf(g, t)
<1>1. all = old /\ \A i \in old : g[i] = h[i]
  BY DEF TradesOf
<1>2. /\ acc.trades \subseteq old
      /\ \A i \in old : h[i].at >= acc.lastBlockTime - OneHour => i \in acc.trades
      /\ \A i \in old : h[i].at <= acc.lastBlockTime
      /\ \A i \in old : seen \in Nat /\ seen <= h[i].at
      /\ old # {} => \E i, j \in old : h[i].at = seen /\ h[j].at = acc.lastBlockTime
      /\ old = {} => seen = None /\ acc.lastBlockTime = 0
  BY DEF BoundsOf
<1> HIDE DEF g, old, all
<1>3. /\ acc.trades \subseteq all
      /\ \A i \in all : g[i].at >= acc.lastBlockTime - OneHour => i \in acc.trades
      /\ \A i \in all : g[i].at <= acc.lastBlockTime
      /\ \A i \in all : seen \in Nat /\ seen <= g[i].at
      /\ all # {} => \E i, j \in all : g[i].at = seen /\ g[j].at = acc.lastBlockTime
      /\ all = {} => seen = None /\ acc.lastBlockTime = 0
  BY <1>1, <1>2
<1>4. BoundsOf(g, acc, seen, t)
  BY <1>3 DEF BoundsOf, all
<1> QED
  BY <1>4 DEF g

-----------------------------------------------------------------------------
\* One trade handled: the type of each accumulator it touches.
LEMMA HandleKeepsTypes ==
  ASSUME TypeOK, NEW e \in Trades, HandleEvent(e)
  PROVE  /\ history' \in Seq(Trades) /\ Len(history') <= MaxTrades
         /\ firstSeen' \in [Tokens -> Nat \cup {None}] /\ rugged' \subseteq Tokens
         /\ wallets' \in [Wallets -> WalletAccumulator]
         /\ tokens' \in [Tokens -> TokenAccumulator]
         /\ \A t \in Tokens : tokens'[t].trades \subseteq DOMAIN history'
<1> DEFINE h == Append(history, e)
           seen == Record(firstSeen[e.token], e)
           acc == wallets[e.wallet]
           acc2 == IF e.side = "BUY" THEN HandleBuy(acc, e, seen) ELSE HandleSell(acc, e, e.token \in rugged)
           token == HandleTrade(tokens[e.token], h, e)
<1>e. /\ e.wallet \in Wallets /\ e.token \in Tokens
      /\ e.at \in Nat /\ e.liquidity \in Nat
  BY TradeFields
<1>1. h \in Seq(Trades) /\ Len(h) = Len(history) + 1 /\ DOMAIN h = 1..Len(h)
      /\ Len(history) \in Nat /\ DOMAIN history = 1..Len(history) /\ Len(h) <= MaxTrades
  BY StatsAssumption DEF TypeOK, HandleEvent
<1>2. seen \in Nat \cup {None}
  BY <1>e DEF TypeOK, Record
<1>3. acc2 \in WalletAccumulator
  <2>1. acc \in WalletAccumulator
    BY <1>e DEF TypeOK
  <2> HIDE DEF acc, seen
  <2>2. HandleBuy(acc, e, seen) \in WalletAccumulator
    BY <2>1, BuyKeepsType
  <2>3. HandleSell(acc, e, e.token \in rugged) \in WalletAccumulator
    BY <2>1, SellKeepsType
  <2> QED
    BY <2>2, <2>3
<1>4. token \in TokenAccumulator /\ token.trades \subseteq DOMAIN h
  <2>1. tokens[e.token] \in TokenAccumulator /\ tokens[e.token].trades \subseteq DOMAIN history
    BY <1>e DEF TypeOK
  <2>2. /\ tokens[e.token].peakLiquidity \in Nat /\ tokens[e.token].lastBlockTime \in Nat
    BY <2>1 DEF TokenAccumulator
  <2>3. /\ Max({tokens[e.token].peakLiquidity, e.liquidity}) \in Nat
        /\ Max({tokens[e.token].lastBlockTime, e.at}) \in Nat
    BY <2>2, <1>e, MaxOfTwo
  <2>4. Prune(h, tokens[e.token].trades \cup {Len(h)}, e) \subseteq DOMAIN h
    BY <2>1, <1>1 DEF Prune
  <2>5. DOMAIN h \subseteq 1..MaxTrades
    BY <1>1, StatsAssumption
  <2> HIDE DEF h
  <2> QED
    BY <2>3, <2>4, <2>5 DEF HandleTrade, TokenAccumulator
<1>5. /\ history' = h
      /\ firstSeen' = [firstSeen EXCEPT ![e.token] = seen]
      /\ wallets' = [wallets EXCEPT ![e.wallet] = acc2]
      /\ tokens' = [tokens EXCEPT ![e.token] = token]
      /\ rugged' \subseteq rugged \cup {e.token}
  BY DEF HandleEvent
<1>6. \A t \in Tokens : tokens[t].trades \subseteq DOMAIN h
  BY <1>1 DEF TypeOK
<1> HIDE DEF h, seen, acc2, token
<1> QED
  BY <1>1, <1>2, <1>3, <1>4, <1>5, <1>6, <1>e DEF TypeOK

\* The invariant holds at the start.
LEMMA InitInvariant == Init => IInv
<1> SUFFICES ASSUME Init PROVE IInv
  OBVIOUS
<1>1. NewWallet \in WalletAccumulator /\ NewToken \in TokenAccumulator /\ NewToken.trades = {}
  BY DEF NewWallet, WalletAccumulator, NewToken, TokenAccumulator, NoLot, Lot
<1>2. TypeOK
  BY <1>1, StatsAssumption DEF Init, TypeOK
<1>3. \A t \in Tokens : TradesOf(history, t) = {}
  BY DEF Init, TradesOf
<1>4. \A t \in Tokens : /\ tokens[t].trades = {} /\ tokens[t].lastBlockTime = 0
                        /\ firstSeen[t] = None
  BY DEF Init, NewToken
<1>5. Exact
  BY <1>3, <1>4 DEF Exact, BoundsOf
<1> QED
  BY <1>2, <1>5 DEF IInv

\* Every step keeps the invariant.
LEMMA StepInvariant == IInv /\ [Next]_vars => IInv'
<1> SUFFICES ASSUME IInv, [Next]_vars PROVE IInv'
  OBVIOUS
<1>i. TypeOK /\ Exact
  BY DEF IInv
<1>1. ASSUME NEW e \in Trades, HandleEvent(e) PROVE IInv'
  <2>1. TypeOK'
    <3>1. DOMAIN stored' = Keys
      BY <1>1, <1>i DEF HandleEvent, TypeOK
    <3> QED
      BY <3>1, <1>1, <1>i, HandleKeepsTypes DEF TypeOK
  <2>2. Exact'
    <3> SUFFICES ASSUME NEW t \in Tokens PROVE BoundsOf(history', tokens'[t], firstSeen'[t], t)
      BY DEF Exact
    <3>1. /\ history' = Append(history, e)
          /\ firstSeen' = [firstSeen EXCEPT ![e.token] = Record(firstSeen[e.token], e)]
          /\ tokens' = [tokens EXCEPT ![e.token] = HandleTrade(tokens[e.token], Append(history, e), e)]
      BY <1>1 DEF HandleEvent
    <3>2. /\ history \in Seq(Trades) /\ tokens[t] \in TokenAccumulator
          /\ firstSeen[t] \in Nat \cup {None}
          /\ DOMAIN firstSeen = Tokens /\ DOMAIN tokens = Tokens
      BY <1>i DEF TypeOK
    <3>3. BoundsOf(history, tokens[t], firstSeen[t], t)
      BY <1>i DEF Exact
    <3>4. CASE t = e.token
      <4>1. BoundsOf(history, tokens[e.token], firstSeen[e.token], e.token)
        BY <3>3, <3>4
      <4>2. BoundsOf(Append(history, e), HandleTrade(tokens[e.token], Append(history, e), e),
                     Record(firstSeen[e.token], e), e.token)
        BY <4>1, <3>2, <3>4, HandlingKeepsBounds
      <4>3. /\ tokens'[t] = HandleTrade(tokens[e.token], Append(history, e), e)
            /\ firstSeen'[t] = Record(firstSeen[e.token], e)
        BY <3>1, <3>2, <3>4, Zenon
      <4> QED
        BY <4>2, <4>3, <3>1, <3>4, Zenon
    <3>5. CASE t # e.token
      <4>1. BoundsOf(Append(history, e), tokens[t], firstSeen[t], t)
        BY <3>2, <3>3, <3>5, OthersKeepBounds
      <4>2. tokens'[t] = tokens[t] /\ firstSeen'[t] = firstSeen[t]
        BY <3>1, <3>2, <3>5, Zenon
      <4> QED
        BY <4>1, <4>2, <3>1, Zenon
    <3> QED
      BY <3>4, <3>5
  <2> QED
    BY <2>1, <2>2 DEF IInv
<1>2. CASE UNCHANGED vars
  BY <1>2, <1>i DEF IInv, vars, TypeOK, Exact, BoundsOf, TradesOf
<1> QED
  BY <1>1, <1>2 DEF Next

\* The invariant holds throughout.
THEOREM Invariant == Spec => []IInv
BY InitInvariant, StepInvariant, PTL DEF Spec

\* All accumulators keep their types; quantities and costs are never negative.
THEOREM TypeCorrect == Spec => []TypeOK
<1>1. IInv => TypeOK
  BY DEF IInv
<1> QED
  BY <1>1, Invariant, PTL

-----------------------------------------------------------------------------
\* The two windows select the same trades of what is kept as of all trades.
LEMMA WindowsAgree ==
  ASSUME IInv, NEW t \in Tokens, NEW seconds \in 0..OneHour
  PROVE  Within(history, tokens[t].trades, seconds, tokens[t].lastBlockTime)
           = Within(history, TradesOf(history, t), seconds, tokens[t].lastBlockTime)
<1>1. /\ tokens[t].trades \subseteq TradesOf(history, t)
      /\ \A i \in TradesOf(history, t) :
           history[i].at >= tokens[t].lastBlockTime - OneHour => i \in tokens[t].trades
  BY DEF IInv, Exact, BoundsOf
<1>2. tokens[t].lastBlockTime \in Nat
  BY DEF IInv, TypeOK, TokenAccumulator
<1>3. \A i \in TradesOf(history, t) : history[i].at \in Nat
  BY TradeFields DEF IInv, TypeOK, TradesOf
<1>4. \A i \in TradesOf(history, t) :
        history[i].at >= tokens[t].lastBlockTime - seconds
          => history[i].at >= tokens[t].lastBlockTime - OneHour
  BY <1>2, <1>3, StatsAssumption
<1> QED
  BY <1>1, <1>4 DEF Within

\* Whatever the order of the block times, the live statistics of a token are
\* those of its whole stream.
THEOREM LiveStatsAreExact == Spec => []LiveStatsExact
<1>1. ASSUME IInv PROVE LiveStatsExact
  <2> SUFFICES ASSUME NEW t \in Tokens, TradesOf(history, t) # {}
               PROVE  GetStats(t) = BuildStats(history, TradesOf(history, t),
                                               Min(Times(history, TradesOf(history, t))),
                                               Max(Times(history, TradesOf(history, t))))
    BY DEF LiveStatsExact
  <2> DEFINE all == TradesOf(history, t)
             times == Times(history, all)
             last == tokens[t].lastBlockTime
             kept == tokens[t].trades
  <2>1. /\ \A i \in all : history[i].at <= last
        /\ \A i \in all : firstSeen[t] \in Nat /\ firstSeen[t] <= history[i].at
        /\ \E i, j \in all : history[i].at = firstSeen[t] /\ history[j].at = last
    BY <1>1 DEF IInv, Exact, BoundsOf
  <2>2. \A i \in all : history[i].at \in Nat
    BY <1>1, TradeFields DEF IInv, TypeOK, TradesOf
  <2>3. /\ times \in SUBSET Nat
        /\ firstSeen[t] \in times /\ \A x \in times : firstSeen[t] <= x
        /\ last \in times /\ \A x \in times : x <= last
    BY <2>1, <2>2 DEF Times
  <2> HIDE DEF times
  <2>4. Max(times) = last
    BY <2>3, MaxIs
  <2>5. Min(times) = firstSeen[t]
    BY <2>3, MinIs
  <2>6. OneHour \in 0..OneHour /\ FiveMin \in 0..OneHour
    BY StatsAssumption
  <2>7. /\ Within(history, kept, OneHour, last) = Within(history, all, OneHour, last)
        /\ Within(history, kept, FiveMin, last) = Within(history, all, FiveMin, last)
    BY <1>1, <2>6, WindowsAgree
  <2>8. BuildStats(history, kept, firstSeen[t], last) = BuildStats(history, all, firstSeen[t], last)
    BY <2>7, Zenon DEF BuildStats
  <2> QED
    BY <2>4, <2>5, <2>8 DEF GetStats, times
<1> QED
  BY <1>1, Invariant, PTL

-----------------------------------------------------------------------------
\* Early buys are positions in the stream, so they can be counted.
LEMMA EarlyBuysFinite ==
  ASSUME NEW h \in Seq(Trades), NEW w
  PROVE  IsFiniteSet(EarlyBuys(h, w)) /\ Cardinality(EarlyBuys(h, w)) \in Nat
<1>1. IsFiniteSet(1..Len(h)) /\ EarlyBuys(h, w) \in SUBSET (1..Len(h))
  <2>1. DOMAIN h = 1..Len(h) /\ Len(h) \in Nat
    OBVIOUS
  <2>2. IsFiniteSet(1..Len(h))
    BY <2>1, FS_Interval
  <2>3. EarlyBuys(h, w) \subseteq DOMAIN h
    BY DEF EarlyBuys, OfSide
  <2> QED
    BY <2>1, <2>2, <2>3
<1> QED
  BY <1>1, FS_Subset, FS_CardinalityType

\* One more trade makes no older buy early.
LEMMA NoNewEarlyBuys ==
  ASSUME NEW h \in Seq(Trades), NEW e \in Trades, NEW w,
         NEW i \in EarlyBuys(Append(h, e), w), i # Len(h) + 1
  PROVE  i \in EarlyBuys(h, w)
<1> DEFINE g == Append(h, e)
<1>1. DOMAIN h = 1..Len(h) /\ DOMAIN g = 1..(Len(h) + 1) /\ \A j \in DOMAIN h : g[j] = h[j]
  OBVIOUS
<1>2. /\ i \in DOMAIN g /\ g[i].side = "BUY" /\ g[i].wallet = w
      /\ \A j \in DOMAIN g : g[j].token = g[i].token => g[i].at - g[j].at <= EarlyWindow
  BY DEF EarlyBuys, OfSide, TradesOf
<1> HIDE DEF g
<1>3. i \in DOMAIN h /\ g[i] = h[i]
  BY <1>1, <1>2
<1>4. \A j \in DOMAIN h : h[j].token = h[i].token => h[i].at - h[j].at <= EarlyWindow
  BY <1>1, <1>2, <1>3
<1> QED
  BY <1>2, <1>3, <1>4 DEF EarlyBuys, OfSide, TradesOf

\* If the trade itself is an early buy of a wallet, the wallet's handler counts it as one.
LEMMA EarlyBuyIsSeen ==
  ASSUME IInv, IInv', NEW e \in Trades, HandleEvent(e), NEW w \in Wallets,
         Len(history) + 1 \in EarlyBuys(history', w)
  PROVE  e.wallet = w /\ e.side = "BUY" /\ IsEarly(Record(firstSeen[e.token], e), e)
<1> DEFINE n == Len(history) + 1
           seen == Record(firstSeen[e.token], e)
<1>1. /\ history' = Append(history, e) /\ n \in DOMAIN history' /\ history'[n] = e
      /\ firstSeen' = [firstSeen EXCEPT ![e.token] = seen]
  BY DEF HandleEvent, IInv, TypeOK
<1>2. /\ e.side = "BUY" /\ e.wallet = w
      /\ \A j \in TradesOf(history', e.token) : e.at - history'[j].at <= EarlyWindow
  BY <1>1 DEF EarlyBuys, OfSide
<1>3. e.token \in Tokens /\ firstSeen'[e.token] = seen
  BY <1>1, TradeFields DEF IInv, TypeOK
<1>4. n \in TradesOf(history', e.token)
  BY <1>1 DEF TradesOf
<1>5. PICK j \in TradesOf(history', e.token) : history'[j].at = seen
  <2>1. BoundsOf(history', tokens'[e.token], firstSeen'[e.token], e.token)
    BY <1>3 DEF IInv, Exact
  <2> QED
    BY <2>1, <1>3, <1>4 DEF BoundsOf
<1> QED
  BY <1>2, <1>5 DEF IsEarly

\* A wallet's early count never falls, and grows with an early buy of its own.
LEMMA EarlyCountGrows ==
  ASSUME TypeOK, NEW e \in Trades, HandleEvent(e), NEW w \in Wallets
  PROVE  /\ wallets[w].earlyBuyCount \in Nat /\ wallets'[w].earlyBuyCount \in Nat
         /\ wallets'[w].earlyBuyCount >= wallets[w].earlyBuyCount
         /\ e.wallet = w /\ e.side = "BUY" /\ IsEarly(Record(firstSeen[e.token], e), e)
              => wallets'[w].earlyBuyCount = wallets[w].earlyBuyCount + 1
<1> DEFINE seen == Record(firstSeen[e.token], e)
           acc == wallets[e.wallet]
           bought == HandleBuy(acc, e, seen)
           sold == HandleSell(acc, e, e.token \in rugged)
<1>1. e.wallet \in Wallets /\ acc \in WalletAccumulator /\ wallets[w] \in WalletAccumulator
  BY TradeFields DEF TypeOK
<1>2. wallets' = [wallets EXCEPT ![e.wallet] = IF e.side = "BUY" THEN bought ELSE sold]
  BY Zenon DEF HandleEvent
<1>3. acc.earlyBuyCount \in Nat /\ wallets[w].earlyBuyCount \in Nat
  BY <1>1 DEF WalletAccumulator
<1> HIDE DEF seen
<1>4. bought.earlyBuyCount = acc.earlyBuyCount + IF IsEarly(seen, e) THEN 1 ELSE 0
  BY <1>1 DEF HandleBuy, WalletAccumulator
<1>5. sold.earlyBuyCount = acc.earlyBuyCount
  BY <1>1 DEF HandleSell, WalletAccumulator
<1>6. DOMAIN wallets = Wallets
  BY DEF TypeOK
<1> HIDE DEF bought, sold
<1>7. CASE e.wallet = w
  <2>1. wallets'[w] = IF e.side = "BUY" THEN bought ELSE sold
    BY <1>1, <1>2, <1>6, <1>7
  <2> QED
    BY <2>1, <1>3, <1>4, <1>5, <1>7 DEF seen
<1>8. CASE e.wallet # w
  <2>1. wallets'[w] = wallets[w]
    BY <1>2, <1>6, <1>8
  <2> QED
    BY <2>1, <1>3, <1>8
<1> QED
  BY <1>7, <1>8

\* Every buy that was early, as the whole stream tells, is counted as early.
THEOREM EarlyBuysAreCounted == Spec => []EarlyBuysCounted
<1>1. Init => EarlyBuysCounted
  <2> SUFFICES ASSUME Init, NEW w \in Wallets
               PROVE  wallets[w].earlyBuyCount >= Cardinality(EarlyBuys(history, w))
    BY DEF EarlyBuysCounted
  <2>1. EarlyBuys(history, w) = {}
    BY DEF Init, EarlyBuys, OfSide
  <2>2. wallets[w].earlyBuyCount = 0
    BY DEF Init, NewWallet
  <2> QED
    BY <2>1, <2>2, FS_EmptySet
<1>2. IInv /\ IInv' /\ EarlyBuysCounted /\ [Next]_vars => EarlyBuysCounted'
  <2> SUFFICES ASSUME IInv, IInv', EarlyBuysCounted, [Next]_vars, NEW w \in Wallets
               PROVE  wallets'[w].earlyBuyCount >= Cardinality(EarlyBuys(history', w))
    BY DEF EarlyBuysCounted
  <2>1. /\ wallets[w].earlyBuyCount >= Cardinality(EarlyBuys(history, w))
        /\ history \in Seq(Trades) /\ history' \in Seq(Trades) /\ TypeOK
    BY DEF EarlyBuysCounted, IInv, TypeOK
  <2> DEFINE old == EarlyBuys(history, w)
             new == EarlyBuys(history', w)
  <2>2. /\ IsFiniteSet(old) /\ Cardinality(old) \in Nat
        /\ IsFiniteSet(new) /\ Cardinality(new) \in Nat
    BY <2>1, EarlyBuysFinite
  <2>3. ASSUME NEW e \in Trades, HandleEvent(e)
        PROVE  wallets'[w].earlyBuyCount >= Cardinality(new)
    <3> DEFINE n == Len(history) + 1
    <3>1. history' = Append(history, e)
      BY <2>3 DEF HandleEvent
    <3>2. new \subseteq old \cup {n}
      BY <3>1, <2>1, NoNewEarlyBuys
    <3>3. /\ wallets[w].earlyBuyCount \in Nat /\ wallets'[w].earlyBuyCount \in Nat
          /\ wallets'[w].earlyBuyCount >= wallets[w].earlyBuyCount
      BY <2>1, <2>3, EarlyCountGrows
    <3>4. n \in new => wallets'[w].earlyBuyCount = wallets[w].earlyBuyCount + 1
      BY <2>1, <2>3, EarlyBuyIsSeen, EarlyCountGrows
    <3>5. /\ IsFiniteSet(old \cup {n})
          /\ Cardinality(old \cup {n}) \in {Cardinality(old), Cardinality(old) + 1}
      BY <2>2, FS_AddElement, Zenon
    <3> HIDE DEF old, new, n
    <3>6. CASE n \in new
      <4>1. Cardinality(new) <= Cardinality(old \cup {n})
        BY <3>2, <3>5, FS_Subset
      <4> QED
        BY <4>1, <3>3, <3>4, <3>5, <3>6, <2>1, <2>2 DEF old
    <3>7. CASE n \notin new
      <4>1. new \in SUBSET old
        BY <3>2, <3>7
      <4>2. Cardinality(new) <= Cardinality(old)
        BY <4>1, <2>2, FS_Subset
      <4> QED
        BY <4>2, <3>3, <2>1, <2>2 DEF old
    <3> QED
      BY <3>6, <3>7
  <2>4. ASSUME UNCHANGED <<history, wallets>>
        PROVE  wallets'[w].earlyBuyCount >= Cardinality(new)
    BY <2>1, <2>4
  <2>5. \/ \E e \in Trades : HandleEvent(e)
        \/ UNCHANGED <<history, wallets>>
    BY DEF Next, vars
  <2> QED
    BY <2>3, <2>4, <2>5
<1> QED
  BY <1>1, <1>2, Invariant, PTL DEF Spec

-----------------------------------------------------------------------------
\* The stored row of a token is as of the last of its trades to arrive.
RowsOfLast ==
  \A t \in Tokens : \A l \in TradesOf(history, t) :
    (\A j \in TradesOf(history, t) : j <= l) =>
      stored[t] = BuildStats(history, tokens[t].trades, firstSeen[t], history[l].at)

\* A volume is a fold over trades: it depends on what they are worth, and on nothing
\* else in the stream.
LEMMA SameVolume ==
  ASSUME NEW h, NEW g, NEW is, \A i \in is : g[i] = h[i]
  PROVE  UsdVolume(g, is) = UsdVolume(h, is)
<1> DEFINE Rule(f, x, s) == IF s = {} THEN 0
                            ELSE f[s \ {CHOOSE i \in s : TRUE}] + x[CHOOSE i \in s : TRUE].usd
           Fits(f, x) == f = [s \in SUBSET is |-> Rule(f, x, s)]
<1>1. \A f : \A s \in SUBSET is : Rule(f, g, s) = Rule(f, h, s)
  <2> SUFFICES ASSUME NEW f, NEW s \in SUBSET is, s # {}
               PROVE  Rule(f, g, s) = Rule(f, h, s)
    OBVIOUS
  <2>1. (CHOOSE i \in s : TRUE) \in s
    OBVIOUS
  <2>2. (CHOOSE i \in s : TRUE) \in is
    BY <2>1
  <2> QED BY <2>2
<1>2. UsdVolume(g, is) = (CHOOSE f : Fits(f, g))[is]
  BY DEF UsdVolume, FoldSet, MapThenFoldSet
<1>3. UsdVolume(h, is) = (CHOOSE f : Fits(f, h))[is]
  BY DEF UsdVolume, FoldSet, MapThenFoldSet
<1> HIDE DEF Rule
<1>4. \A f : Fits(f, g) <=> Fits(f, h)
  BY <1>1
<1> HIDE DEF Fits
<1>5. (CHOOSE f : Fits(f, g)) = (CHOOSE f : Fits(f, h))
  BY <1>4
<1> QED BY <1>2, <1>3, <1>5

\* So do the statistics: streams with the same trades at the positions in question
\* give the same ones.
LEMMA SameStats ==
  ASSUME NEW h, NEW g, NEW is, \A i \in is : g[i] = h[i], NEW seen, NEW asOf
  PROVE  BuildStats(g, is, seen, asOf) = BuildStats(h, is, seen, asOf)
<1>1. \A seconds : Within(g, is, seconds, asOf) = Within(h, is, seconds, asOf)
  BY DEF Within
<1>2. \A part \in SUBSET is : \A side : OfSide(g, part, side) = OfSide(h, part, side)
  BY DEF OfSide
<1>3. \A part \in SUBSET is : Unique(g, part) = Unique(h, part)
  <2> SUFFICES ASSUME NEW part \in SUBSET is PROVE Unique(g, part) = Unique(h, part)
    OBVIOUS
  <2>1. {g[i].wallet : i \in part} = {h[i].wallet : i \in part}
    OBVIOUS
  <2> QED BY <2>1 DEF Unique
<1>4. \A part \in SUBSET is : UsdVolume(g, part) = UsdVolume(h, part)
  <2> SUFFICES ASSUME NEW part \in SUBSET is PROVE UsdVolume(g, part) = UsdVolume(h, part)
    OBVIOUS
  <2>1. \A i \in part : g[i] = h[i]
    OBVIOUS
  <2> QED BY <2>1, SameVolume
<1>5. \A seconds, side : OfSide(h, Within(h, is, seconds, asOf), side) \in SUBSET is
  BY DEF Within, OfSide
<1>6. \A seconds, side :
        OfSide(g, Within(g, is, seconds, asOf), side) = OfSide(h, Within(h, is, seconds, asOf), side)
  <2>1. \A seconds : Within(h, is, seconds, asOf) \in SUBSET is
    BY DEF Within
  <2> QED BY <1>1, <1>2, <2>1
<1>7. \A seconds, side :
        /\ Unique(g, OfSide(g, Within(g, is, seconds, asOf), side))
             = Unique(h, OfSide(h, Within(h, is, seconds, asOf), side))
        /\ UsdVolume(g, OfSide(g, Within(g, is, seconds, asOf), side))
             = UsdVolume(h, OfSide(h, Within(h, is, seconds, asOf), side))
  BY <1>3, <1>4, <1>5, <1>6
<1> QED BY <1>7, Zenon DEF BuildStats

\* A trade writes its token's row as of itself, and the other rows stand.
LEMMA RowsNext == IInv /\ IInv' /\ RowsOfLast /\ [Next]_vars => RowsOfLast'
<1> SUFFICES ASSUME IInv, IInv', RowsOfLast, [Next]_vars,
                    NEW t \in Tokens, NEW l \in TradesOf(history', t),
                    \A j \in TradesOf(history', t) : j <= l
             PROVE  stored'[t] = BuildStats(history', tokens'[t].trades, firstSeen'[t], history'[l].at)
  BY DEF RowsOfLast
<1>1. ASSUME NEW e \in Trades, HandleEvent(e)
      PROVE  stored'[t] = BuildStats(history', tokens'[t].trades, firstSeen'[t], history'[l].at)
  <2> DEFINE h == Append(history, e)
             n == Len(history) + 1
             seen == Record(firstSeen[e.token], e)
             token == HandleTrade(tokens[e.token], h, e)
             acc2 == IF e.side = "BUY" THEN HandleBuy(wallets[e.wallet], e, seen)
                     ELSE HandleSell(wallets[e.wallet], e, e.token \in rugged)
  <2>1. /\ history' = h
        /\ firstSeen' = [firstSeen EXCEPT ![e.token] = seen]
        /\ tokens' = [tokens EXCEPT ![e.token] = token]
        /\ stored' = [stored EXCEPT ![e.wallet] = ToStats(acc2),
                                    ![e.token] = BuildStats(h, token.trades, seen, e.at)]
    BY <1>1, Zenon DEF HandleEvent
  <2>2. /\ history \in Seq(Trades) /\ DOMAIN stored = Keys
        /\ DOMAIN firstSeen = Tokens /\ DOMAIN tokens = Tokens
        /\ e.wallet \in Wallets /\ e.token \in Tokens
    BY TradeFields DEF IInv, TypeOK
  <2>3. /\ h \in Seq(Trades) /\ DOMAIN h = 1..n /\ h[n] = e /\ n \in Nat
        /\ DOMAIN history = 1..(n - 1) /\ \A i \in DOMAIN history : h[i] = history[i]
    BY <2>2
  <2>4. e.wallet # e.token /\ t # e.wallet /\ e.wallet \in Keys /\ e.token \in Keys /\ t \in Keys
    BY <2>2, StatsAssumption DEF Keys
  <2> HIDE DEF h, seen, token, acc2
  <2>5. CASE t = e.token
    <3>1. n \in TradesOf(h, t)
      BY <2>3, <2>5 DEF TradesOf
    <3>2. l = n
      <4>1. l \in 1..n /\ n <= l
        BY <2>1, <2>3, <3>1 DEF TradesOf
      <4> QED BY <2>3, <4>1
    <3>3. /\ stored'[t] = BuildStats(h, token.trades, seen, e.at)
          /\ tokens'[t] = token /\ firstSeen'[t] = seen
      BY <2>1, <2>2, <2>4, <2>5
    <3> QED BY <2>1, <2>3, <3>2, <3>3
  <2>6. CASE t # e.token
    <3>1. /\ stored'[t] = stored[t] /\ tokens'[t] = tokens[t] /\ firstSeen'[t] = firstSeen[t]
      BY <2>1, <2>2, <2>4, <2>6
    <3>2. TradesOf(h, t) = TradesOf(history, t)
      BY <2>3, <2>6 DEF TradesOf
    <3>3. l \in TradesOf(history, t) /\ \A j \in TradesOf(history, t) : j <= l
      BY <2>1, <3>2
    <3>4. stored[t] = BuildStats(history, tokens[t].trades, firstSeen[t], history[l].at)
      BY <3>3 DEF RowsOfLast
    <3>5. h[l] = history[l]
      BY <2>3, <3>3 DEF TradesOf
    <3>6. \A i \in tokens[t].trades : h[i] = history[i]
      BY <2>3 DEF IInv, TypeOK
    <3>7. BuildStats(h, tokens[t].trades, firstSeen[t], h[l].at)
            = BuildStats(history, tokens[t].trades, firstSeen[t], h[l].at)
      BY <3>6, SameStats
    <3> QED BY <2>1, <3>1, <3>4, <3>5, <3>7
  <2> QED BY <2>5, <2>6
<1>2. CASE UNCHANGED vars
  <2>1. UNCHANGED <<history, tokens, firstSeen, stored>>
    BY <1>2 DEF vars
  <2> QED BY <2>1 DEF RowsOfLast
<1> QED BY <1>1, <1>2 DEF Next

\* As long as a token's trades arrive in order, the stored row is that of its whole
\* stream: the last trade to arrive is the newest one.
THEOREM StoredRowsAgree == Spec => []StoredAgrees
<1>1. Init => RowsOfLast
  BY DEF Init, RowsOfLast, TradesOf
<1>2. ASSUME IInv, RowsOfLast, LiveStatsExact PROVE StoredAgrees
  <2> SUFFICES ASSUME NEW t \in Tokens, TradesOf(history, t) # {},
                      InOrder(history, TradesOf(history, t))
               PROVE  stored[t] = BuildStats(history, TradesOf(history, t),
                                             Min(Times(history, TradesOf(history, t))),
                                             Max(Times(history, TradesOf(history, t))))
    BY DEF StoredAgrees
  <2> DEFINE all == TradesOf(history, t)
  <2>1. PICK l \in all : \A j \in all : j <= l
    <3>1. all \in SUBSET (1..Len(history)) /\ Len(history) \in Nat
      BY <1>2 DEF IInv, TypeOK, TradesOf
    <3> HIDE DEF all
    <3> QED BY <3>1, LargestOf DEF all
  <2>2. stored[t] = BuildStats(history, tokens[t].trades, firstSeen[t], history[l].at)
    BY <1>2, <2>1 DEF RowsOfLast
  <2>3. history[l].at = tokens[t].lastBlockTime
    <3>1. BoundsOf(history, tokens[t], firstSeen[t], t)
      BY <1>2 DEF IInv, Exact
    <3>2. /\ history[l].at <= tokens[t].lastBlockTime
          /\ \E j \in all : history[j].at = tokens[t].lastBlockTime
      BY <3>1, <2>1 DEF BoundsOf
    <3>3. PICK j \in all : history[j].at = tokens[t].lastBlockTime
      BY <3>2
    <3>4. history[j].at <= history[l].at
      <4>1. j < l \/ j = l
        BY <1>2, <2>1 DEF IInv, TypeOK, TradesOf
      <4>2. history[j].at \in Nat
        BY <1>2, TradeFields DEF IInv, TypeOK, TradesOf
      <4> QED BY <2>1, <4>1, <4>2 DEF InOrder
    <3>5. history[l].at \in Nat /\ tokens[t].lastBlockTime \in Nat
      BY <1>2, <2>1, TradeFields DEF IInv, TypeOK, TradesOf, TokenAccumulator
    <3> QED BY <3>2, <3>3, <3>4, <3>5
  <2> QED BY <1>2, <2>2, <2>3 DEF LiveStatsExact, GetStats
<1> QED
  BY <1>1, <1>2, RowsNext, Invariant, LiveStatsAreExact, PTL DEF Spec
-----------------------------------------------------------------------------
(* Balances.  The running balance of a wallet in a token is a function     *)
(* defined by recursion on the length of the stream: it exists, and what   *)
(* is held after a trade follows from what was held before it.             *)

Below == {pair \in Nat \X Nat : pair[1] < pair[2]}

\* A set that holds zero, and with each number the next, holds them all.
LEMMA EveryNumber ==
  ASSUME NEW G, 0 \in G, \A n \in Nat : n \in G => n + 1 \in G
  PROVE  Nat \subseteq G
<1> SUFFICES ASSUME Nat \ G # {} PROVE FALSE
  OBVIOUS
<1>1. IsWellFoundedOn(Below, Nat)
  BY NatLessThanWellFounded, Zenon DEF OpToRel, Below
<1>2. PICK m \in Nat \ G : \A n \in Nat \ G : <<n, m>> \notin Below
  <2>1. Nat \ G \subseteq Nat
    OBVIOUS
  <2> QED BY <1>1, <2>1, WFMin, Zenon
<1>3. m # 0 /\ m - 1 \in Nat /\ m - 1 < m /\ (m - 1) + 1 = m
  BY <1>2
<1>4. m - 1 \in G
  BY <1>2, <1>3 DEF Below
<1> QED BY <1>2, <1>3, <1>4

\* The balance after trade n, from the one before it.
Carried(b, h, w, t, n) == IF n = 0 THEN 0 ELSE b[n - 1] + Change(h[n], w, t)

Carries(b, h, w, t, m) == b = [n \in 0..m |-> Carried(b, h, w, t, n)]

\* The function that Balance defines by recursion exists.
LEMMA BalanceExists ==
  ASSUME NEW h, NEW w, NEW t, NEW m \in Nat
  PROVE  \E b : Carries(b, h, w, t, m)
<1> DEFINE Fit(b, k) == b = [n \in 0..k |-> Carried(b, h, w, t, n)]
           G == {k \in Nat : \E b : Fit(b, k)}
<1>1. 0 \in G
  <2> DEFINE b == [n \in 0..0 |-> 0]
  <2>1. \A n \in 0..0 : Carried(b, h, w, t, n) = 0
    BY DEF Carried
  <2>2. Fit(b, 0)
    BY <2>1
  <2> QED BY <2>2
<1>2. ASSUME NEW k \in Nat, k \in G
      PROVE  k + 1 \in G
  <2>1. PICK b : Fit(b, k)
    BY <1>2
  <2> DEFINE c == [n \in 0..(k + 1) |-> IF n \in 0..k THEN b[n] ELSE Carried(b, h, w, t, n)]
  <2>2. ASSUME NEW n \in 0..(k + 1)
        PROVE  c[n] = Carried(c, h, w, t, n)
    <3>1. c[n] = Carried(b, h, w, t, n)
      <4>1. n \in 0..k => b[n] = Carried(b, h, w, t, n)
        BY <2>1
      <4> QED BY <4>1
    <3>2. CASE n = 0
      BY <3>1, <3>2 DEF Carried
    <3>3. CASE n # 0
      <4>1. n - 1 \in 0..k /\ n - 1 \in 0..(k + 1)
        BY <3>3
      <4>2. c[n - 1] = b[n - 1]
        BY <4>1
      <4> QED BY <3>1, <3>3, <4>2 DEF Carried
    <3> QED BY <3>2, <3>3
  <2>3. c = [n \in 0..(k + 1) |-> c[n]]
    OBVIOUS
  <2> HIDE DEF c
  <2>4. Fit(c, k + 1)
    BY <2>2, <2>3
  <2>5. k + 1 \in Nat
    OBVIOUS
  <2> HIDE DEF Fit
  <2> QED BY <2>4, <2>5
<1>3. m \in G
  <2> HIDE DEF G
  <2>1. Nat \subseteq G
    BY <1>1, <1>2, EveryNumber
  <2> QED BY <2>1
<1> QED BY <1>3 DEF Carries

\* A trade changes a balance by an integer.
LEMMA ChangeType ==
  ASSUME NEW e \in Trades, NEW w, NEW t
  PROVE  Change(e, w, t) \in Int
BY TradeFields DEF Change

\* The balance starts at nothing, and each trade adds its change.
LEMMA BalanceRule ==
  ASSUME NEW h \in Seq(Trades), NEW w, NEW t
  PROVE  /\ Balance(h, w, t)[0] = 0
         /\ \A n \in 1..Len(h) :
              Balance(h, w, t)[n] = Balance(h, w, t)[n - 1] + Change(h[n], w, t)
         /\ \A n \in 0..Len(h) : Balance(h, w, t)[n] \in Int
<1> DEFINE Fits(b) == b = [n \in 0..Len(h) |-> IF n = 0 THEN 0 ELSE b[n - 1] + Change(h[n], w, t)]
           B == Balance(h, w, t)
<1>0. Len(h) \in Nat /\ \A n \in 1..Len(h) : h[n] \in Trades
  OBVIOUS
<1>1. \E b : Fits(b)
  <2>1. PICK b : Carries(b, h, w, t, Len(h))
    BY <1>0, BalanceExists
  <2>2. Fits(b)
    BY <2>1 DEF Carries, Carried
  <2> QED BY <2>2
<1>2. B = CHOOSE b : Fits(b)
  BY DEF Balance
<1> HIDE DEF B
<1>3. Fits(B)
  <2> HIDE DEF Fits
  <2> QED BY <1>1, <1>2
<1>4. \A n \in 0..Len(h) : B[n] = IF n = 0 THEN 0 ELSE B[n - 1] + Change(h[n], w, t)
  BY <1>3
<1>5. B[0] = 0
  BY <1>0, <1>4
<1>6. \A n \in 1..Len(h) : B[n] = B[n - 1] + Change(h[n], w, t)
  BY <1>0, <1>4
<1> HIDE DEF Fits
<1>7. \A n \in 0..Len(h) : B[n] \in Int
  <2> DEFINE G == {n \in Nat : n <= Len(h) => B[n] \in Int}
  <2>1. 0 \in G
    BY <1>5
  <2>2. ASSUME NEW n \in Nat, n \in G PROVE n + 1 \in G
    <3> SUFFICES ASSUME n + 1 <= Len(h) PROVE B[n + 1] \in Int
      OBVIOUS
    <3>1. n + 1 \in 1..Len(h) /\ (n + 1) - 1 = n /\ n <= Len(h)
      BY <1>0
    <3>2. B[n + 1] = B[n] + Change(h[n + 1], w, t)
      BY <1>6, <3>1
    <3>3. B[n] \in Int /\ Change(h[n + 1], w, t) \in Int
      BY <1>0, <2>2, <3>1, ChangeType
    <3> QED BY <3>2, <3>3
  <2>3. Nat \subseteq G
    <3> HIDE DEF G
    <3> QED BY <2>1, <2>2, EveryNumber
  <2> QED BY <1>0, <2>3
<1> QED BY <1>5, <1>6, <1>7 DEF B

\* A longer stream has the same balances before its last trade.
LEMMA BalancePrefix ==
  ASSUME NEW h \in Seq(Trades), NEW e \in Trades, NEW w, NEW t, NEW n \in 0..Len(h)
  PROVE  Balance(Append(h, e), w, t)[n] = Balance(h, w, t)[n]
<1> DEFINE g == Append(h, e)
           B == Balance(h, w, t)
           C == Balance(g, w, t)
           G == {m \in Nat : m <= Len(h) => C[m] = B[m]}
<1>1. /\ g \in Seq(Trades) /\ Len(h) \in Nat /\ Len(g) = Len(h) + 1
      /\ \A m \in 1..Len(h) : g[m] = h[m]
  OBVIOUS
<1> HIDE DEF g
<1>2. 0 \in G
  BY <1>1, BalanceRule
<1>3. ASSUME NEW m \in Nat, m \in G PROVE m + 1 \in G
  <2> SUFFICES ASSUME m + 1 <= Len(h) PROVE C[m + 1] = B[m + 1]
    OBVIOUS
  <2>1. m + 1 \in 1..Len(h) /\ m + 1 \in 1..Len(g) /\ (m + 1) - 1 = m /\ m <= Len(h)
    BY <1>1
  <2>2. B[m + 1] = B[m] + Change(h[m + 1], w, t)
    BY <2>1, BalanceRule
  <2>3. C[m + 1] = C[m] + Change(g[m + 1], w, t)
    BY <1>1, <2>1, BalanceRule
  <2> QED BY <1>1, <1>3, <2>1, <2>2, <2>3
<1>4. Nat \subseteq G
  <2> HIDE DEF G
  <2> QED BY <1>2, <1>3, EveryNumber
<1> QED BY <1>4 DEF g

\* Integers up to a position have a least one.
LEMMA LowestSoFar ==
  ASSUME NEW b, NEW m \in Nat, \A n \in 0..m : b[n] \in Int
  PROVE  \E k \in 0..m : \A j \in 0..m : b[k] <= b[j]
<1> DEFINE G == {n \in Nat : n <= m => \E k \in 0..n : \A j \in 0..n : b[k] <= b[j]}
<1>1. 0 \in G
  <2>1. \A j \in 0..0 : j = 0 /\ b[0] <= b[j]
    OBVIOUS
  <2> QED BY <2>1
<1>2. ASSUME NEW n \in Nat, n \in G PROVE n + 1 \in G
  <2> SUFFICES ASSUME n + 1 <= m PROVE \E k \in 0..(n + 1) : \A j \in 0..(n + 1) : b[k] <= b[j]
    OBVIOUS
  <2>1. PICK k \in 0..n : \A j \in 0..n : b[k] <= b[j]
    BY <1>2
  <2>2. b[k] \in Int /\ b[n + 1] \in Int /\ \A j \in 0..n : b[j] \in Int
    OBVIOUS
  <2>3. \A j \in 0..(n + 1) : j \in 0..n \/ j = n + 1
    OBVIOUS
  <2>4. CASE b[k] <= b[n + 1]
    <3>1. \A j \in 0..(n + 1) : b[k] <= b[j]
      BY <2>1, <2>3, <2>4
    <3> QED BY <3>1
  <2>5. CASE b[n + 1] < b[k]
    <3>1. \A j \in 0..(n + 1) : b[n + 1] <= b[j]
      BY <2>1, <2>2, <2>3, <2>5
    <3>2. n + 1 \in 0..(n + 1)
      OBVIOUS
    <3> QED BY <3>1, <3>2
  <2> QED BY <2>2, <2>4, <2>5
<1>3. Nat \subseteq G
  <2> HIDE DEF G
  <2> QED BY <1>1, <1>2, EveryNumber
<1> QED BY <1>3

\* What is held is the balance above the lowest one so far.
LEMMA HeldIs ==
  ASSUME NEW h \in Seq(Trades), NEW w, NEW t, NEW n \in 0..Len(h)
  PROVE  /\ Held(h, w, t, n) \in Nat
         /\ \E k \in 0..n : /\ Held(h, w, t, n) = Balance(h, w, t)[n] - Balance(h, w, t)[k]
                            /\ \A j \in 0..n : Balance(h, w, t)[k] <= Balance(h, w, t)[j]
<1> DEFINE B == Balance(h, w, t)
           S == {B[n] - B[j] : j \in 0..n}
<1>1. n \in Nat /\ \A j \in 0..n : B[j] \in Int
  <2>1. n \in Nat /\ \A j \in 0..n : j \in 0..Len(h)
    OBVIOUS
  <2> QED BY <2>1, BalanceRule
<1>2. PICK k \in 0..n : \A j \in 0..n : B[k] <= B[j]
  <2> HIDE DEF B
  <2> QED BY <1>1, LowestSoFar
<1>3. Held(h, w, t, n) = Max(S)
  BY DEF Held
<1> HIDE DEF B
<1>4. /\ B[n] - B[k] \in S /\ \A x \in S : x \in Int /\ x <= B[n] - B[k]
      /\ B[n] - B[k] \in Nat
  BY <1>1, <1>2
<1> HIDE DEF S
<1>5. Max(S) = B[n] - B[k]
  <2>1. \E x \in S : \A y \in S : x >= y
    BY <1>4
  <2>2. Max(S) \in S /\ \A y \in S : Max(S) >= y
    BY <2>1 DEF Max
  <2> QED BY <1>4, <2>2
<1> QED BY <1>2, <1>3, <1>4, <1>5 DEF B

\* Nothing is held at first; a trade adds its change, and takes no more than is held.
LEMMA HeldNext ==
  ASSUME NEW h \in Seq(Trades), NEW w, NEW t
  PROVE  /\ Held(h, w, t, 0) = 0
         /\ \A n \in 1..Len(h) :
              LET then == Held(h, w, t, n - 1) + Change(h[n], w, t)
              IN  Held(h, w, t, n) = IF then >= 0 THEN then ELSE 0
<1> DEFINE B == Balance(h, w, t)
<1>0. \A n \in 0..Len(h) : B[n] \in Int
  BY BalanceRule
<1>1. Held(h, w, t, 0) = 0
  <2>1. 0 \in 0..Len(h) /\ \A k \in 0..0 : k = 0
    OBVIOUS
  <2> QED BY <1>0, <2>1, HeldIs
<1>2. ASSUME NEW n \in 1..Len(h)
      PROVE  LET then == Held(h, w, t, n - 1) + Change(h[n], w, t)
             IN  Held(h, w, t, n) = IF then >= 0 THEN then ELSE 0
  <2>1. n \in 0..Len(h) /\ n - 1 \in 0..Len(h) /\ n \in Nat
    OBVIOUS
  <2>2. B[n] = B[n - 1] + Change(h[n], w, t)
    BY BalanceRule
  <2>3. PICK k \in 0..n : /\ Held(h, w, t, n) = B[n] - B[k]
                          /\ \A j \in 0..n : B[k] <= B[j]
    BY <2>1, HeldIs
  <2>4. PICK l \in 0..(n - 1) : /\ Held(h, w, t, n - 1) = B[n - 1] - B[l]
                                /\ \A j \in 0..(n - 1) : B[l] <= B[j]
    BY <2>1, HeldIs
  <2>5. B[n] \in Int /\ B[n - 1] \in Int /\ B[k] \in Int /\ B[l] \in Int
    BY <1>0, <2>1
  <2>6. l \in 0..n /\ n \in 0..n /\ (k \in 0..(n - 1) \/ k = n)
    BY <2>1
  <2>7. B[k] <= B[l] /\ B[k] <= B[n] /\ (B[l] <= B[k] \/ B[k] = B[n])
    BY <2>3, <2>4, <2>6
  <2>8. Change(h[n], w, t) \in Int
    BY ChangeType
  <2> HIDE DEF B
  <2> QED BY <2>2, <2>3, <2>4, <2>5, <2>7, <2>8
<1> QED BY <1>1, <1>2

\* A longer stream has held the same before its last trade.
LEMMA HeldPrefix ==
  ASSUME NEW h \in Seq(Trades), NEW e \in Trades, NEW w, NEW t, NEW n \in 0..Len(h)
  PROVE  Held(Append(h, e), w, t, n) = Held(h, w, t, n)
<1>1. \A k \in 0..n : k \in 0..Len(h)
  OBVIOUS
<1>2. \A k \in 0..n : Balance(Append(h, e), w, t)[k] = Balance(h, w, t)[k]
  BY <1>1, BalancePrefix
<1>3. n \in 0..n
  OBVIOUS
<1> QED BY <1>2, <1>3 DEF Held

-----------------------------------------------------------------------------
(* Lots.                                                                   *)

\* What a trade makes of its wallet's lot of its token, and whether it closes a part of it.
LotAfter(lot, e) ==
  IF e.side = "BUY" THEN BuyInto(lot, e) ELSE IF lot.quantity = 0 THEN lot ELSE SellFrom(lot, e)
Closes(lot, e) == e.side = "SELL" /\ lot.quantity # 0

\* A buy counts no closing, and moves its own lot.
LEMMA BuyFields ==
  ASSUME NEW acc \in WalletAccumulator, NEW e \in Trades, NEW seen
  PROVE  LET acc2 == HandleBuy(acc, e, seen) IN
         /\ acc2.winCount = acc.winCount /\ acc2.lossCount = acc.lossCount
         /\ acc2.rugExposureCount = acc.rugExposureCount
         /\ acc2.lots = [acc.lots EXCEPT ![e.token] = BuyInto(acc.lots[e.token], e)]
<1>1. acc = [tradeCount |-> acc.tradeCount, winCount |-> acc.winCount, lossCount |-> acc.lossCount,
             buyCount |-> acc.buyCount, earlyBuyCount |-> acc.earlyBuyCount,
             rugExposureCount |-> acc.rugExposureCount, lots |-> acc.lots]
  BY DEF WalletAccumulator
<1> DEFINE lots == [acc.lots EXCEPT ![e.token] = BuyInto(acc.lots[e.token], e)]
           early == acc.earlyBuyCount + IF IsEarly(seen, e) THEN 1 ELSE 0
<1>2. HandleBuy(acc, e, seen) = [acc EXCEPT !.buyCount = acc.buyCount + 1, !.earlyBuyCount = early, !.lots = lots]
  BY Zenon DEF HandleBuy
<1> HIDE DEF lots, early
<1>3. HandleBuy(acc, e, seen).lots = lots
  BY <1>1, <1>2
<1>4. /\ HandleBuy(acc, e, seen).winCount = acc.winCount
      /\ HandleBuy(acc, e, seen).lossCount = acc.lossCount
      /\ HandleBuy(acc, e, seen).rugExposureCount = acc.rugExposureCount
  BY <1>1, <1>2
<1> QED BY <1>3, <1>4 DEF lots

\* A sell from a lot counts one closing, as a win or a loss.
LEMMA SellFields ==
  ASSUME NEW acc \in WalletAccumulator, NEW e \in Trades, NEW isRugged,
         acc.lots[e.token].quantity # 0
  PROVE  LET acc2 == HandleSell(acc, e, isRugged)
             lot  == acc.lots[e.token] IN
         /\ acc2.winCount = acc.winCount + IF IsWin(lot, e) THEN 1 ELSE 0
         /\ acc2.lossCount = acc.lossCount + IF IsWin(lot, e) THEN 0 ELSE 1
         /\ acc2.rugExposureCount = acc.rugExposureCount + IF isRugged THEN 1 ELSE 0
         /\ acc2.lots = [acc.lots EXCEPT ![e.token] = SellFrom(lot, e)]
<1>1. acc = [tradeCount |-> acc.tradeCount, winCount |-> acc.winCount, lossCount |-> acc.lossCount,
             buyCount |-> acc.buyCount, earlyBuyCount |-> acc.earlyBuyCount,
             rugExposureCount |-> acc.rugExposureCount, lots |-> acc.lots]
  BY DEF WalletAccumulator
<1> DEFINE lots == [acc.lots EXCEPT ![e.token] = SellFrom(acc.lots[e.token], e)]
           win  == acc.winCount + IF IsWin(acc.lots[e.token], e) THEN 1 ELSE 0
           loss == acc.lossCount + IF IsWin(acc.lots[e.token], e) THEN 0 ELSE 1
           rug  == acc.rugExposureCount + IF isRugged THEN 1 ELSE 0
<1>2. HandleSell(acc, e, isRugged)
        = [acc EXCEPT !.tradeCount = acc.tradeCount + 1, !.winCount = win, !.lossCount = loss,
                      !.rugExposureCount = rug, !.lots = lots]
  BY Zenon DEF HandleSell
<1> HIDE DEF lots, win, loss, rug
<1>3. /\ HandleSell(acc, e, isRugged).lots = lots
      /\ HandleSell(acc, e, isRugged).winCount = win
      /\ HandleSell(acc, e, isRugged).lossCount = loss
      /\ HandleSell(acc, e, isRugged).rugExposureCount = rug
  BY <1>1, <1>2
<1> QED BY <1>3 DEF lots, win, loss, rug

\* One trade handled moves one lot of one wallet, and counts what it closes.
LEMMA WalletNext ==
  ASSUME TypeOK, NEW e \in Trades, HandleEvent(e), NEW w \in Wallets
  PROVE  LET lot == wallets[e.wallet].lots[e.token] IN
         /\ w # e.wallet => wallets'[w] = wallets[w]
         /\ w = e.wallet =>
              /\ wallets'[w].lots = [wallets[w].lots EXCEPT ![e.token] = LotAfter(lot, e)]
              /\ ~Closes(lot, e) =>
                   /\ wallets'[w].winCount = wallets[w].winCount
                   /\ wallets'[w].lossCount = wallets[w].lossCount
                   /\ wallets'[w].rugExposureCount = wallets[w].rugExposureCount
              /\ Closes(lot, e) =>
                   /\ wallets'[w].winCount = wallets[w].winCount + IF IsWin(lot, e) THEN 1 ELSE 0
                   /\ wallets'[w].lossCount = wallets[w].lossCount + IF IsWin(lot, e) THEN 0 ELSE 1
                   /\ wallets'[w].rugExposureCount
                        = wallets[w].rugExposureCount + IF e.token \in rugged THEN 1 ELSE 0
<1> DEFINE seen == Record(firstSeen[e.token], e)
           acc == wallets[e.wallet]
           lot == acc.lots[e.token]
           bought == HandleBuy(acc, e, seen)
           sold == HandleSell(acc, e, e.token \in rugged)
<1>1. /\ e.wallet \in Wallets /\ e.token \in Tokens /\ e.side \in {"BUY", "SELL"}
      /\ acc \in WalletAccumulator /\ DOMAIN wallets = Wallets
      /\ acc.lots \in [Tokens -> Lot]
  BY TradeFields DEF TypeOK, WalletAccumulator
<1>2. wallets' = [wallets EXCEPT ![e.wallet] = IF e.side = "BUY" THEN bought ELSE sold]
  BY Zenon DEF HandleEvent
<1>3. /\ bought.winCount = acc.winCount /\ bought.lossCount = acc.lossCount
      /\ bought.rugExposureCount = acc.rugExposureCount
      /\ bought.lots = [acc.lots EXCEPT ![e.token] = BuyInto(lot, e)]
  BY <1>1, BuyFields
<1>4. lot.quantity # 0 =>
        /\ sold.winCount = acc.winCount + IF IsWin(lot, e) THEN 1 ELSE 0
        /\ sold.lossCount = acc.lossCount + IF IsWin(lot, e) THEN 0 ELSE 1
        /\ sold.rugExposureCount = acc.rugExposureCount + IF e.token \in rugged THEN 1 ELSE 0
        /\ sold.lots = [acc.lots EXCEPT ![e.token] = SellFrom(lot, e)]
  <2> DEFINE isRugged == e.token \in rugged
  <2> HIDE DEF isRugged
  <2>1. ASSUME lot.quantity # 0
        PROVE  LET acc2 == HandleSell(acc, e, isRugged) IN
               /\ acc2.winCount = acc.winCount + IF IsWin(lot, e) THEN 1 ELSE 0
               /\ acc2.lossCount = acc.lossCount + IF IsWin(lot, e) THEN 0 ELSE 1
               /\ acc2.rugExposureCount = acc.rugExposureCount + IF isRugged THEN 1 ELSE 0
               /\ acc2.lots = [acc.lots EXCEPT ![e.token] = SellFrom(lot, e)]
    BY <1>1, <2>1, SellFields
  <2> QED BY <2>1, Zenon DEF isRugged
<1>5. lot.quantity = 0 => sold = acc
  BY DEF HandleSell
<1>6. acc.lots = [acc.lots EXCEPT ![e.token] = lot]
  BY <1>1
<1> HIDE DEF bought, sold
<1>7. w # e.wallet => wallets'[w] = wallets[w]
  BY <1>1, <1>2
<1>8. w = e.wallet => wallets'[w] = IF e.side = "BUY" THEN bought ELSE sold
  BY <1>1, <1>2
<1>9. e.side = "BUY" \/ (e.side = "SELL" /\ e.side # "BUY")
  BY <1>1
<1>10. CASE e.side = "BUY"
  <2>1. w = e.wallet => wallets'[w] = bought
    BY <1>8, <1>10
  <2>2. ~Closes(lot, e) /\ LotAfter(lot, e) = BuyInto(lot, e)
    BY <1>10 DEF Closes, LotAfter
  <2> HIDE DEF lot
  <2> QED BY <1>3, <1>7, <2>1, <2>2, Zenon DEF lot
<1>11. CASE e.side # "BUY" /\ lot.quantity = 0
  <2>1. w = e.wallet => wallets'[w] = acc
    BY <1>5, <1>8, <1>11
  <2>2. ~Closes(lot, e) /\ LotAfter(lot, e) = lot
    BY <1>11 DEF Closes, LotAfter
  <2> QED BY <1>6, <1>7, <2>1, <2>2, Zenon
<1>12. CASE e.side # "BUY" /\ lot.quantity # 0
  <2>1. w = e.wallet => wallets'[w] = sold
    BY <1>8, <1>12
  <2>2. Closes(lot, e) /\ LotAfter(lot, e) = SellFrom(lot, e)
    BY <1>9, <1>12 DEF Closes, LotAfter
  <2> QED BY <1>4, <1>7, <1>12, <2>1, <2>2, Zenon
<1> QED BY <1>10, <1>11, <1>12

\* A lot takes what is bought, and gives what is sold as far as there is something.
LEMMA QuantityAfter ==
  ASSUME NEW lot \in Lot, NEW e \in Trades
  PROVE  LET then == lot.quantity + Change(e, e.wallet, e.token)
         IN  LotAfter(lot, e).quantity = IF then >= 0 THEN then ELSE 0
<1>1. lot.quantity \in Nat /\ e.amount \in Nat \ {0} /\ e.side \in {"BUY", "SELL"}
  BY TradeFields DEF Lot
<1>2. Change(e, e.wallet, e.token) = IF e.side = "BUY" THEN e.amount ELSE -e.amount
  BY DEF Change
<1>3. CASE e.side = "BUY"
  <2>1. LotAfter(lot, e).quantity = lot.quantity + e.amount
    BY <1>3 DEF LotAfter, BuyInto
  <2> QED BY <1>1, <1>2, <1>3, <2>1
<1>4. CASE e.side # "BUY" /\ lot.quantity = 0
  BY <1>1, <1>2, <1>4 DEF LotAfter
<1>5. CASE e.side # "BUY" /\ lot.quantity # 0
  <2>1. SellOf(lot, e) = IF e.amount >= lot.quantity THEN lot.quantity ELSE e.amount
    BY <1>1, MinOfTwo DEF SellOf
  <2>2. LotAfter(lot, e).quantity = lot.quantity - SellOf(lot, e)
    BY <1>1, <1>5, <2>1 DEF LotAfter, SellFrom, NoLot
  <2> QED BY <1>1, <1>2, <1>5, <2>1, <2>2
<1> QED BY <1>3, <1>4, <1>5

\* An empty lot has cost nothing.
EmptyLots ==
  \A w \in Wallets, t \in Tokens : wallets[w].lots[t].quantity = 0 => wallets[w].lots[t] = NoLot

\* A trade leaves other lots alone, and its own as LotAfter says.
LEMMA LotNext ==
  ASSUME TypeOK, NEW e \in Trades, HandleEvent(e), NEW w \in Wallets, NEW t \in Tokens
  PROVE  wallets'[w].lots[t] = IF w = e.wallet /\ t = e.token
                               THEN LotAfter(wallets[w].lots[t], e) ELSE wallets[w].lots[t]
<1>1. wallets[w].lots \in [Tokens -> Lot]
  BY DEF TypeOK, WalletAccumulator
<1>2. /\ w # e.wallet => wallets'[w] = wallets[w]
      /\ w = e.wallet =>
           wallets'[w].lots = [wallets[w].lots EXCEPT ![e.token] = LotAfter(wallets[e.wallet].lots[e.token], e)]
  BY WalletNext
<1> QED BY <1>1, <1>2

\* Each trade keeps the lots at what the stream says is held, and empty ones free of cost.
LEMMA LotsNext ==
  ASSUME TypeOK, TypeOK', LotsMatchTrades, EmptyLots, NEW e \in Trades, HandleEvent(e)
  PROVE  LotsMatchTrades' /\ EmptyLots'
<1> DEFINE n == Len(history) + 1
<1>1. /\ history' = Append(history, e) /\ history \in Seq(Trades) /\ history' \in Seq(Trades)
      /\ Len(history) \in Nat /\ Len(history') = n /\ history'[n] = e
      /\ Len(history) \in 0..Len(history) /\ n \in 1..Len(history') /\ n - 1 = Len(history)
  BY DEF HandleEvent, TypeOK
<1>2. ASSUME NEW w \in Wallets, NEW t \in Tokens
      PROVE  /\ wallets'[w].lots[t].quantity = Held(history', w, t, Len(history'))
             /\ wallets'[w].lots[t].quantity = 0 => wallets'[w].lots[t] = NoLot
  <2> DEFINE lot == wallets[w].lots[t]
             then == lot.quantity + Change(e, w, t)
  <2>1. lot \in Lot
    BY DEF TypeOK, WalletAccumulator
  <2>2. lot.quantity = Held(history, w, t, Len(history)) /\ (lot.quantity = 0 => lot = NoLot)
    BY DEF LotsMatchTrades, EmptyLots
  <2>3. Held(history', w, t, n - 1) = lot.quantity
    BY <1>1, <2>2, HeldPrefix
  <2>4. Held(history', w, t, n) = IF then >= 0 THEN then ELSE 0
    BY <1>1, <2>3, HeldNext
  <2>5. wallets'[w].lots[t] = IF w = e.wallet /\ t = e.token THEN LotAfter(lot, e) ELSE lot
    BY LotNext
  <2>6. lot.quantity \in Nat
    BY <2>1 DEF Lot
  <2> HIDE DEF lot
  <2>7. CASE w = e.wallet /\ t = e.token
    <3>1. LotAfter(lot, e).quantity = IF then >= 0 THEN then ELSE 0
      BY <2>1, <2>7, QuantityAfter
    <3>2. LotAfter(lot, e).quantity = 0 => LotAfter(lot, e) = NoLot
      <4> SUFFICES ASSUME LotAfter(lot, e).quantity = 0 PROVE LotAfter(lot, e) = NoLot
        OBVIOUS
      <4>1. e.amount \in Nat \ {0} /\ e.side \in {"BUY", "SELL"}
        BY TradeFields
      <4>2. e.side # "BUY"
        <5> SUFFICES ASSUME e.side = "BUY" PROVE FALSE
          OBVIOUS
        <5>1. LotAfter(lot, e).quantity = lot.quantity + e.amount
          BY DEF LotAfter, BuyInto
        <5> QED BY <4>1, <5>1, <2>6
      <4>3. CASE lot.quantity = 0
        BY <4>2, <4>3, <2>2 DEF LotAfter
      <4>4. CASE lot.quantity # 0
        BY <4>2, <4>4 DEF LotAfter, SellFrom
      <4> QED BY <4>3, <4>4
    <3> QED BY <1>1, <2>4, <2>5, <2>7, <3>1, <3>2
  <2>8. CASE ~(w = e.wallet /\ t = e.token)
    <3>1. Change(e, w, t) = 0
      BY <2>8 DEF Change
    <3> QED BY <1>1, <2>2, <2>4, <2>5, <2>6, <2>8, <3>1
  <2> QED BY <2>7, <2>8
<1> QED BY <1>2 DEF LotsMatchTrades, EmptyLots

-----------------------------------------------------------------------------
(* Rugs and closings.                                                      *)

\* The peak of a token is the highest liquidity of its trades, and a token is flagged
\* exactly if a trade showed less than half of what it or an earlier one had shown.
PeaksKept ==
  \A t \in Tokens :
    /\ \A k \in TradesOf(history, t) : history[k].liquidity <= tokens[t].peakLiquidity
    /\ \/ tokens[t].peakLiquidity = 0
       \/ \E k \in TradesOf(history, t) : history[k].liquidity = tokens[t].peakLiquidity

RugsSeen ==
  \A t \in Tokens :
    t \in rugged <=>
      \E j, k \in TradesOf(history, t) : k <= j /\ 2 * history[j].liquidity < history[k].liquidity

\* What a trade appends to the stream.
LEMMA Appended ==
  ASSUME TypeOK, NEW e \in Trades, HandleEvent(e)
  PROVE  /\ history' = Append(history, e) /\ history \in Seq(Trades) /\ history' \in Seq(Trades)
         /\ Len(history) \in Nat /\ Len(history') = Len(history) + 1
         /\ history'[Len(history) + 1] = e
         /\ DOMAIN history = 1..Len(history) /\ DOMAIN history' = 1..(Len(history) + 1)
         /\ \A i \in 1..Len(history) : history'[i] = history[i] /\ history[i] \in Trades
BY DEF HandleEvent, TypeOK

\* Each trade keeps the peaks and the flags so.
LEMMA RugsNext ==
  ASSUME TypeOK, PeaksKept, RugsSeen, NEW e \in Trades, HandleEvent(e)
  PROVE  PeaksKept' /\ RugsSeen'
<1> DEFINE n == Len(history) + 1
           acc == tokens[e.token]
           token == HandleTrade(acc, Append(history, e), e)
           peak == token.peakLiquidity
<1>1. /\ n \in Nat /\ history'[n] = e
      /\ DOMAIN history = 1..(n - 1) /\ DOMAIN history' = 1..n
      /\ \A i \in 1..(n - 1) : history'[i] = history[i] /\ history[i] \in Trades
  BY Appended
<1>2. /\ tokens' = [tokens EXCEPT ![e.token] = token]
      /\ rugged' = IF Crashed(peak, e) THEN rugged \cup {e.token} ELSE rugged
  BY Zenon DEF HandleEvent
<1>3. /\ e.token \in Tokens /\ DOMAIN tokens = Tokens /\ e.liquidity \in Nat
      /\ acc \in TokenAccumulator
  BY TradeFields DEF TypeOK
<1>4. /\ acc.peakLiquidity \in Nat
      /\ peak = IF acc.peakLiquidity >= e.liquidity THEN acc.peakLiquidity ELSE e.liquidity
  <2>1. acc.peakLiquidity \in Nat
    BY <1>3 DEF TokenAccumulator
  <2>2. peak = Max({acc.peakLiquidity, e.liquidity})
    BY DEF HandleTrade
  <2> QED BY <1>3, <2>1, <2>2, MaxOfTwo
<1>5. ASSUME NEW t \in Tokens, t # e.token
      PROVE  /\ TradesOf(history', t) = TradesOf(history, t)
             /\ \A i \in TradesOf(history, t) : history'[i] = history[i]
             /\ tokens'[t] = tokens[t] /\ (t \in rugged' <=> t \in rugged)
  <2>1. TradesOf(history', t) = TradesOf(history, t) /\ TradesOf(history, t) \subseteq 1..(n - 1)
    BY <1>1, <1>5 DEF TradesOf
  <2> HIDE DEF token
  <2> QED BY <1>1, <1>2, <1>3, <1>5, <2>1
<1> DEFINE old == TradesOf(history, e.token)
           all == TradesOf(history', e.token)
<1>6. all = old \cup {n} /\ old \subseteq 1..(n - 1) /\ \A i \in old : history'[i] = history[i]
  BY <1>1 DEF TradesOf
<1>7. \A i \in all : history'[i].liquidity \in Nat
  BY <1>1, <1>3, <1>6, TradeFields
<1>8. /\ \A k \in old : history[k].liquidity <= acc.peakLiquidity
      /\ acc.peakLiquidity = 0 \/ \E k \in old : history[k].liquidity = acc.peakLiquidity
  BY <1>3 DEF PeaksKept
<1>9. e.token \in rugged <=> \E j, k \in old : k <= j /\ 2 * history[j].liquidity < history[k].liquidity
  BY <1>3 DEF RugsSeen
<1>10. tokens'[e.token] = token
  BY <1>2, <1>3, Zenon
<1> HIDE DEF token, acc, old, all
<1>11. /\ \A k \in all : history'[k].liquidity <= peak
       /\ peak = 0 \/ \E k \in all : history'[k].liquidity = peak
  <2>1. \A k \in all : history'[k].liquidity <= peak
    BY <1>1, <1>3, <1>4, <1>6, <1>7, <1>8
  <2>2. peak = 0 \/ \E k \in all : history'[k].liquidity = peak
    <3>1. CASE acc.peakLiquidity < e.liquidity
      BY <1>1, <1>3, <1>4, <1>6, <3>1
    <3>2. CASE acc.peakLiquidity >= e.liquidity
      BY <1>4, <1>6, <1>8, <3>2
    <3> QED BY <1>3, <1>4, <3>1, <3>2
  <2> QED BY <2>1, <2>2
<1> DEFINE Fell(h, j, k) == k <= j /\ 2 * h[j].liquidity < h[k].liquidity
<1>12. (\E j, k \in all : Fell(history', j, k)) <=>
         \/ \E j, k \in old : Fell(history, j, k)
         \/ \E k \in all : 2 * e.liquidity < history'[k].liquidity
  <2>1. ASSUME NEW j \in all, NEW k \in all, Fell(history', j, k)
        PROVE  \/ \E i, l \in old : Fell(history, i, l)
               \/ \E l \in all : 2 * e.liquidity < history'[l].liquidity
    <3>1. CASE j = n
      BY <1>1, <2>1, <3>1
    <3>2. CASE j # n
      <4>1. j \in old /\ k \in old
        BY <1>1, <1>6, <2>1, <3>2
      <4>2. Fell(history, j, k)
        BY <1>6, <2>1, <4>1
      <4> QED BY <4>1, <4>2
    <3> QED BY <3>1, <3>2
  <2>2. ASSUME NEW j \in old, NEW k \in old, Fell(history, j, k)
        PROVE  \E i, l \in all : Fell(history', i, l)
    <3>1. j \in all /\ k \in all /\ Fell(history', j, k)
      BY <1>6, <2>2
    <3> HIDE DEF Fell
    <3> QED BY <3>1
  <2>3. ASSUME NEW k \in all, 2 * e.liquidity < history'[k].liquidity
        PROVE  \E i, l \in all : Fell(history', i, l)
    <3>1. n \in all /\ k <= n
      BY <1>1, <1>6
    <3>2. Fell(history', n, k)
      BY <1>1, <2>3, <3>1
    <3> HIDE DEF Fell
    <3> QED BY <3>1, <3>2
  <2> HIDE DEF Fell
  <2> QED BY <2>1, <2>2, <2>3
<1>13. (\E k \in all : 2 * e.liquidity < history'[k].liquidity) <=> Crashed(peak, e)
  BY <1>3, <1>4, <1>7, <1>11 DEF Crashed
<1>14. e.token \in rugged' <=> \E j, k \in all : Fell(history', j, k)
  <2>1. e.token \in rugged' <=> e.token \in rugged \/ Crashed(peak, e)
    BY <1>2
  <2> QED BY <2>1, <1>9, <1>12, <1>13
<1>15. PeaksKept'
  <2> SUFFICES ASSUME NEW t \in Tokens
               PROVE  /\ \A k \in TradesOf(history', t) : history'[k].liquidity <= tokens'[t].peakLiquidity
                      /\ \/ tokens'[t].peakLiquidity = 0
                         \/ \E k \in TradesOf(history', t) :
                              history'[k].liquidity = tokens'[t].peakLiquidity
    BY DEF PeaksKept
  <2>1. CASE t = e.token
    BY <1>10, <1>11, <2>1 DEF all
  <2>2. CASE t # e.token
    BY <1>5, <2>2 DEF PeaksKept
  <2> QED BY <2>1, <2>2
<1>16. RugsSeen'
  <2> SUFFICES ASSUME NEW t \in Tokens
               PROVE  t \in rugged' <=>
                        \E j, k \in TradesOf(history', t) :
                          k <= j /\ 2 * history'[j].liquidity < history'[k].liquidity
    BY DEF RugsSeen
  <2>1. CASE t = e.token
    BY <1>14, <2>1 DEF all
  <2>2. CASE t # e.token
    <3>1. t \in rugged <=> \E j, k \in TradesOf(history, t) :
            k <= j /\ 2 * history[j].liquidity < history[k].liquidity
      BY DEF RugsSeen
    <3> QED BY <1>5, <2>2, <3>1
  <2> QED BY <2>1, <2>2
<1> QED BY <1>15, <1>16

\* One number more than the first m may join a set of them, and is counted.
LEMMA CountNext ==
  ASSUME NEW m \in Nat, NEW S \in SUBSET (1..m), NEW joins \in BOOLEAN, NEW T,
         T = S \cup IF joins THEN {m + 1} ELSE {}
  PROVE  /\ Cardinality(S) \in Nat
         /\ Cardinality(T) = Cardinality(S) + IF joins THEN 1 ELSE 0
<1>1. IsFiniteSet(1..m)
  BY FS_Interval
<1>2. IsFiniteSet(S) /\ Cardinality(S) \in Nat
  BY <1>1, FS_Subset, FS_CardinalityType
<1>3. m + 1 \notin S
  OBVIOUS
<1>4. CASE joins
  <2>1. Cardinality(S \cup {m + 1}) = Cardinality(S) + 1
    BY <1>2, <1>3, FS_AddElement
  <2> QED BY <1>2, <1>4, <2>1
<1>5. CASE ~joins
  BY <1>2, <1>5
<1> QED BY <1>4, <1>5

\* The trade closes a part of a lot of w.
ClosesFor(w, e) == w = e.wallet /\ Closes(wallets[e.wallet].lots[e.token], e)

\* The closings of a wallet are those before, and the trade if it closes one.
LEMMA ClosingsNext ==
  ASSUME TypeOK, LotsMatchTrades, NEW e \in Trades, HandleEvent(e), NEW w \in Wallets
  PROVE  /\ Closings(w) \subseteq 1..Len(history)
         /\ Closings(w)' = Closings(w) \cup IF ClosesFor(w, e) THEN {Len(history) + 1} ELSE {}
<1> DEFINE n == Len(history) + 1
           lot == wallets[e.wallet].lots[e.token]
           IsClosing(h, i) == h[i].side = "SELL" /\ h[i].wallet = w /\ Held(h, w, h[i].token, i - 1) > 0
<1>1. /\ history' = Append(history, e) /\ history \in Seq(Trades)
      /\ n \in Nat /\ n - 1 \in Nat /\ history'[n] = e
      /\ DOMAIN history = 1..(n - 1) /\ DOMAIN history' = 1..n
      /\ \A i \in 1..(n - 1) : history'[i] = history[i] /\ history[i] \in Trades
  BY Appended
<1>2. Closings(w) = {i \in 1..(n - 1) : IsClosing(history, i)}
  BY <1>1 DEF Closings, OfSide
<1>3. Closings(w)' = {i \in 1..n : IsClosing(history', i)}
  BY <1>1 DEF Closings, OfSide
<1>4. ASSUME NEW i \in 1..(n - 1)
      PROVE  IsClosing(history', i) <=> IsClosing(history, i)
  <2>1. i - 1 \in 0..Len(history)
    BY <1>1
  <2>2. Held(history', w, history[i].token, i - 1) = Held(history, w, history[i].token, i - 1)
    BY <1>1, <2>1, HeldPrefix
  <2> QED BY <1>1, <2>2
<1>5. IsClosing(history', n) <=> ClosesFor(w, e)
  <2>1. n - 1 \in 0..Len(history) /\ n - 1 = Len(history)
    BY <1>1
  <2>2. Held(history', w, e.token, n - 1) = Held(history, w, e.token, Len(history))
    BY <1>1, <2>1, HeldPrefix
  <2>3. e.token \in Tokens /\ wallets[w].lots[e.token].quantity \in Nat
    BY TradeFields DEF TypeOK, WalletAccumulator, Lot
  <2>4. wallets[w].lots[e.token].quantity = Held(history, w, e.token, Len(history))
    BY <2>3 DEF LotsMatchTrades
  <2> QED BY <1>1, <2>2, <2>3, <2>4 DEF ClosesFor, Closes
<1>6. 1..n = 1..(n - 1) \cup {n} /\ n \notin 1..(n - 1)
  BY <1>1
<1> HIDE DEF IsClosing, n
<1>7. Closings(w)' = Closings(w) \cup IF ClosesFor(w, e) THEN {n} ELSE {}
  BY <1>2, <1>3, <1>4, <1>5, <1>6
<1> QED BY <1>2, <1>7 DEF n

\* CrashSeenBefore, of any stream.
CrashedBefore(h, i) ==
  \E j \in 1..(i - 1), k \in 1..(i - 1) :
    /\ k <= j /\ h[k].token = h[i].token /\ h[j].token = h[i].token
    /\ 2 * h[j].liquidity < h[k].liquidity

\* Each trade keeps the count of rug exposure exact.
LEMMA ExposureNext ==
  ASSUME TypeOK, LotsMatchTrades, RugsSeen, RugExposureExact, NEW e \in Trades, HandleEvent(e)
  PROVE  RugExposureExact'
<1> SUFFICES ASSUME NEW w \in Wallets
             PROVE  wallets'[w].rugExposureCount
                      = Cardinality({i \in Closings(w)' : CrashedBefore(history', i)})
  BY DEF RugExposureExact, CrashSeenBefore, CrashedBefore
<1> DEFINE n == Len(history) + 1
           S == {i \in Closings(w) : CrashedBefore(history, i)}
           T == {i \in Closings(w)' : CrashedBefore(history', i)}
           joins == ClosesFor(w, e) /\ e.token \in rugged
<1>1. /\ n \in Nat /\ n - 1 \in Nat /\ history'[n] = e /\ n - 1 = Len(history)
      /\ DOMAIN history = 1..(n - 1) /\ DOMAIN history' = 1..n
      /\ \A i \in 1..(n - 1) : history'[i] = history[i] /\ history[i] \in Trades
  BY Appended
<1>2. /\ Closings(w) \subseteq 1..(n - 1)
      /\ Closings(w)' = Closings(w) \cup IF ClosesFor(w, e) THEN {n} ELSE {}
  BY <1>1, ClosingsNext
<1>3. ASSUME NEW i \in 1..(n - 1) PROVE CrashedBefore(history', i) <=> CrashedBefore(history, i)
  <2>1. \A j \in 1..(i - 1) : j \in 1..(n - 1)
    BY <1>1
  <2>2. \A j \in 1..(i - 1) : history'[j] = history[j]
    BY <1>1, <2>1
  <2>3. history'[i] = history[i]
    BY <1>1
  <2> QED BY <2>2, <2>3 DEF CrashedBefore
<1>4. CrashedBefore(history', n) <=> e.token \in rugged
  <2>1. e.token \in rugged <=> \E j, k \in TradesOf(history, e.token) :
          k <= j /\ 2 * history[j].liquidity < history[k].liquidity
    BY TradeFields DEF RugsSeen
  <2>2. \A j : j \in TradesOf(history, e.token) <=> j \in 1..(n - 1) /\ history'[j].token = e.token
    BY <1>1 DEF TradesOf
  <2>3. CrashedBefore(history', n) <=>
          \E j \in 1..(n - 1), k \in 1..(n - 1) :
            /\ k <= j /\ history'[k].token = e.token /\ history'[j].token = e.token
            /\ 2 * history'[j].liquidity < history'[k].liquidity
    BY <1>1 DEF CrashedBefore
  <2>4. (\E j, k \in TradesOf(history, e.token) : k <= j /\ 2 * history[j].liquidity < history[k].liquidity)
          <=> \E j, k \in TradesOf(history, e.token) : k <= j /\ 2 * history'[j].liquidity < history'[k].liquidity
    BY <1>1, <2>2
  <2> QED BY <2>1, <2>2, <2>3, <2>4
<1>5. n \notin Closings(w)
  BY <1>1, <1>2
<1>6. T = S \cup IF joins THEN {n} ELSE {}
  <2>1. \A i \in Closings(w) : CrashedBefore(history', i) <=> CrashedBefore(history, i)
    BY <1>2, <1>3
  <2> HIDE DEF n
  <2> QED BY <1>2, <1>4, <2>1
<1>7. wallets'[w].rugExposureCount = wallets[w].rugExposureCount + IF joins THEN 1 ELSE 0
  <2>1. wallets[w].rugExposureCount \in Nat
    BY DEF TypeOK, WalletAccumulator
  <2>2. CASE w # e.wallet
    <3>1. wallets'[w] = wallets[w] /\ ~joins
      BY <2>2, WalletNext DEF ClosesFor
    <3> QED BY <2>1, <3>1
  <2>3. CASE w = e.wallet /\ ~Closes(wallets[e.wallet].lots[e.token], e)
    <3>1. wallets'[w].rugExposureCount = wallets[w].rugExposureCount /\ ~joins
      BY <2>3, WalletNext DEF ClosesFor
    <3> QED BY <2>1, <3>1
  <2>4. CASE w = e.wallet /\ Closes(wallets[e.wallet].lots[e.token], e)
    <3>1. /\ wallets'[w].rugExposureCount
               = wallets[w].rugExposureCount + IF e.token \in rugged THEN 1 ELSE 0
          /\ joins <=> e.token \in rugged
      BY <2>4, WalletNext DEF ClosesFor
    <3> QED BY <3>1
  <2> QED BY <2>2, <2>3, <2>4
<1>8. wallets[w].rugExposureCount = Cardinality(S)
  BY DEF RugExposureExact, CrashSeenBefore, CrashedBefore
<1>9. S \in SUBSET (1..(n - 1)) /\ (n - 1) + 1 = n
  BY <1>1, <1>2
<1>10. Cardinality(T) = Cardinality(S) + IF joins THEN 1 ELSE 0
  <2> DEFINE m == n - 1
  <2>1. m \in Nat /\ S \in SUBSET (1..m) /\ joins \in BOOLEAN
        /\ T = S \cup IF joins THEN {m + 1} ELSE {}
    BY <1>1, <1>6, <1>9 DEF ClosesFor, Closes
  <2> HIDE DEF m, S, T, joins
  <2> QED BY <2>1, CountNext
<1> QED BY <1>7, <1>8, <1>10

-----------------------------------------------------------------------------
(* Costs and wins.  A lot's average price lies between the lowest and the  *)
(* highest that its wallet has paid, so a sale above all of them is a win. *)

\* A positive factor can be dropped.
LEMMA FactorOut ==
  ASSUME NEW a \in Int, NEW b \in Int, NEW c \in Nat \ {0}, c * a <= c * b
  PROVE  a <= b
BY SMTT(30)

\* A factor that is not negative keeps the order.
LEMMA Scaled ==
  ASSUME NEW a \in Int, NEW b \in Int, NEW c \in Nat, a <= b
  PROVE  c * a \in Int /\ c * b \in Int /\ c * a <= c * b
BY SMTT(30)

\* If one of two fractions is at most v / b, so is their mediant, or it is at most the other.
LEMMA Mediant ==
  ASSUME NEW x \in Int, NEW p \in Nat \ {0}, NEW u \in Int, NEW a \in Nat \ {0},
         NEW c \in Nat \ {0}, NEW v \in Int, NEW b \in Nat \ {0}, x * b <= v * p
  PROVE  \/ (x + u * c) * b <= v * (p + c * a)
         \/ (x + u * c) * a <= u * (p + c * a)
<1>1. /\ x * b \in Int /\ v * p \in Int /\ u * b \in Int /\ v * a \in Int
      /\ x * a \in Int /\ u * p \in Int
  BY SMTT(30)
<1>2. CASE u * b <= v * a
  <2>1. c * (u * b) <= c * (v * a) /\ c * (u * b) \in Int /\ c * (v * a) \in Int
    BY <1>1, <1>2, Scaled
  <2>2. (x + u * c) * b = x * b + c * (u * b) /\ v * (p + c * a) = v * p + c * (v * a)
    BY SMTT(30)
  <2> QED BY <1>1, <2>1, <2>2
<1>3. CASE v * a <= u * b
  <2>1. a * (x * b) <= a * (v * p) /\ a * (x * b) \in Int /\ a * (v * p) \in Int
    BY <1>1, Scaled
  <2>2. p * (v * a) <= p * (u * b) /\ p * (v * a) \in Int /\ p * (u * b) \in Int
    BY <1>1, <1>3, Scaled
  <2>3. a * (x * b) = b * (x * a) /\ a * (v * p) = p * (v * a) /\ p * (u * b) = b * (u * p)
    BY SMTT(30)
  <2>4. x * a <= u * p
    <3>1. b * (x * a) <= b * (u * p)
      BY <2>1, <2>2, <2>3
    <3> QED BY <1>1, <3>1, FactorOut
  <2>5. /\ (x + u * c) * a = x * a + (u * c) * a /\ u * (p + c * a) = u * p + (u * c) * a
        /\ (u * c) * a \in Int
    BY SMTT(30)
  <2> QED BY <1>1, <2>4, <2>5
<1> QED BY <1>1, <1>2, <1>3

\* A fraction above x / p is above what x / p is not below.
LEMMA Crosswise ==
  ASSUME NEW u \in Int, NEW x \in Int, NEW v \in Int,
         NEW p \in Nat \ {0}, NEW a \in Nat \ {0}, NEW b \in Nat \ {0},
         x * a < u * p, v * p <= x * b
  PROVE  v * a < u * b
<1>1. /\ x * a \in Int /\ u * p \in Int /\ v * p \in Int /\ x * b \in Int
      /\ v * a \in Int /\ u * b \in Int
  BY SMTT(30)
<1> SUFFICES ASSUME u * b <= v * a PROVE FALSE
  BY <1>1
<1>2. p * (u * b) <= p * (v * a) /\ p * (u * b) \in Int /\ p * (v * a) \in Int
  BY <1>1, Scaled
<1>3. a * (v * p) <= a * (x * b) /\ a * (v * p) \in Int /\ a * (x * b) \in Int
  BY <1>1, Scaled
<1>4. p * (u * b) = b * (u * p) /\ p * (v * a) = a * (v * p) /\ a * (x * b) = b * (x * a)
  BY SMTT(30)
<1>5. u * p <= x * a
  <2>1. b * (u * p) <= b * (x * a)
    BY <1>2, <1>3, <1>4
  <2> QED BY <1>1, <2>1, FactorOut
<1> QED BY <1>1, <1>5

\* The lot's average price is at most that of the buy d, or at least.
NoDearer(lot, d)  == lot.paid * d.amount <= d.usd * (lot.per * lot.quantity)
NoCheaper(lot, d) == d.usd * (lot.per * lot.quantity) <= lot.paid * d.amount

\* What is in a lot has a positive denominator.
LEMMA LotFields ==
  ASSUME NEW lot \in Lot
  PROVE  /\ lot.quantity \in Nat /\ lot.paid \in Nat /\ lot.per \in Nat \ {0}
         /\ lot.quantity # 0 => lot.per * lot.quantity \in Nat \ {0}
<1>1. lot.quantity \in Nat /\ lot.paid \in Nat /\ lot.per \in Nat \ {0}
  BY DEF Lot
<1>2. lot.quantity # 0 => lot.per * lot.quantity \in Nat \ {0}
  BY <1>1, Products
<1> QED BY <1>1, <1>2

\* Buying more moves the average towards the new price, and not past it.
LEMMA BuyKeepsCosts ==
  ASSUME NEW lot \in Lot, lot.quantity # 0, NEW e \in Trades, NEW d \in Trades
  PROVE  LET more == BuyInto(lot, e) IN
         /\ NoDearer(lot, d) => NoDearer(more, d) \/ NoDearer(more, e)
         /\ NoCheaper(lot, d) => NoCheaper(more, d) \/ NoCheaper(more, e)
<1> DEFINE x == lot.paid
           q == lot.quantity
           c == lot.per
           p == c * q
           u == e.usd
           a == e.amount
           v == d.usd
           b == d.amount
           more == BuyInto(lot, e)
<1>1. /\ x \in Nat /\ q \in Nat \ {0} /\ c \in Nat \ {0} /\ p \in Nat \ {0}
      /\ u \in Nat /\ a \in Nat \ {0} /\ v \in Nat /\ b \in Nat \ {0}
  BY LotFields, TradeFields
<1>2. /\ more.paid = x + u * c
      /\ more.per * more.quantity = c * (q + a)
  BY DEF BuyInto
<1>3. /\ NoDearer(lot, d) <=> x * b <= v * p
      /\ NoCheaper(lot, d) <=> v * p <= x * b
      /\ NoDearer(more, d) <=> (x + u * c) * b <= v * (c * (q + a))
      /\ NoCheaper(more, d) <=> v * (c * (q + a)) <= (x + u * c) * b
      /\ NoDearer(more, e) <=> (x + u * c) * a <= u * (c * (q + a))
      /\ NoCheaper(more, e) <=> u * (c * (q + a)) <= (x + u * c) * a
  BY <1>2 DEF NoDearer, NoCheaper
<1>4. c * (q + a) = p + c * a
  <2>1. c \in Int /\ q \in Int /\ a \in Int
    BY <1>1
  <2> HIDE DEF c, q, a
  <2> QED BY <2>1, SMTT(30)
<1> HIDE DEF x, q, c, p, u, a, v, b, more
<1>5. x * b <= v * p => \/ (x + u * c) * b <= v * (p + c * a)
                        \/ (x + u * c) * a <= u * (p + c * a)
  BY <1>1, Mediant
<1>6. v * p <= x * b => \/ v * (p + c * a) <= (x + u * c) * b
                        \/ u * (p + c * a) <= (x + u * c) * a
  <2> SUFFICES ASSUME v * p <= x * b
               PROVE  \/ v * (p + c * a) <= (x + u * c) * b
                      \/ u * (p + c * a) <= (x + u * c) * a
    OBVIOUS
  <2> DEFINE k == -x
             l == -u
             m == -v
  <2>1. k \in Int /\ l \in Int /\ m \in Int
    BY <1>1
  <2>2. k * b = -(x * b) /\ m * p = -(v * p) /\ x * b \in Int /\ v * p \in Int
    BY <1>1, SMTT(30)
  <2>3. /\ (k + l * c) * b = -((x + u * c) * b) /\ m * (p + c * a) = -(v * (p + c * a))
        /\ (k + l * c) * a = -((x + u * c) * a) /\ l * (p + c * a) = -(u * (p + c * a))
    BY <1>1, SMTT(30)
  <2>4. /\ (x + u * c) * b \in Int /\ v * (p + c * a) \in Int
        /\ (x + u * c) * a \in Int /\ u * (p + c * a) \in Int
    BY <1>1, SMTT(30)
  <2> HIDE DEF k, l, m
  <2>5. k * b <= m * p
    BY <2>2
  <2>6. \/ (k + l * c) * b <= m * (p + c * a)
        \/ (k + l * c) * a <= l * (p + c * a)
    BY <1>1, <2>1, <2>5, Mediant
  <2> QED BY <2>3, <2>4, <2>6
<1> QED BY <1>3, <1>4, <1>5, <1>6 DEF more

\* The first buy sets the price.
LEMMA FirstBuySetsCosts ==
  ASSUME NEW e \in Trades
  PROVE  NoDearer(BuyInto(NoLot, e), e) /\ NoCheaper(BuyInto(NoLot, e), e)
<1>1. e.usd \in Nat /\ e.amount \in Nat
  BY TradeFields
<1>2. LET lot == BuyInto(NoLot, e) IN
      lot.paid = 0 + e.usd * 1 /\ lot.per * lot.quantity = 1 * (0 + e.amount)
  BY DEF BuyInto, NoLot
<1>3. 0 + e.usd * 1 = e.usd /\ 1 * (0 + e.amount) = e.amount
  BY <1>1
<1>4. LET lot == BuyInto(NoLot, e) IN lot.paid = e.usd /\ lot.per * lot.quantity = e.amount
  BY <1>2, <1>3
<1>5. e.usd * e.amount \in Nat
  BY <1>1, Products
<1> QED BY <1>4, <1>5 DEF NoDearer, NoCheaper

\* Selling a part keeps the average.
LEMMA SellKeepsCosts ==
  ASSUME NEW lot \in Lot, lot.quantity # 0, NEW e \in Trades, NEW d \in Trades,
         SellFrom(lot, e).quantity # 0
  PROVE  /\ NoDearer(lot, d) => NoDearer(SellFrom(lot, e), d)
         /\ NoCheaper(lot, d) => NoCheaper(SellFrom(lot, e), d)
<1> DEFINE left == lot.quantity - SellOf(lot, e)
           rest == SellFrom(lot, e)
           x == lot.paid
           p == lot.per * lot.quantity
           v == d.usd
           b == d.amount
<1>1. /\ x \in Nat /\ p \in Nat \ {0} /\ v \in Nat /\ b \in Nat \ {0}
      /\ lot.quantity \in Nat
  BY LotFields, TradeFields
<1>2. left \in Nat
  BY TradeFields, MinOfTwo, <1>1 DEF SellOf
<1>3. left # 0
  BY DEF SellFrom, NoLot
<1>4. rest.paid = x * left /\ rest.per * rest.quantity = p * left
  BY <1>3 DEF SellFrom
<1>5. /\ NoDearer(lot, d) <=> x * b <= v * p
      /\ NoCheaper(lot, d) <=> v * p <= x * b
      /\ NoDearer(rest, d) <=> (x * left) * b <= v * (p * left)
      /\ NoCheaper(rest, d) <=> v * (p * left) <= (x * left) * b
  BY <1>4 DEF NoDearer, NoCheaper
<1> HIDE DEF left, rest, x, p, v, b
<1>6. x * b \in Int /\ v * p \in Int
  BY <1>1, SMTT(30)
<1>7. (x * left) * b = left * (x * b) /\ v * (p * left) = left * (v * p)
  BY <1>1, <1>2, SMTT(30)
<1>8. /\ x * b <= v * p => left * (x * b) <= left * (v * p)
      /\ v * p <= x * b => left * (v * p) <= left * (x * b)
  BY <1>2, <1>6, Scaled
<1> QED BY <1>5, <1>7, <1>8 DEF rest

\* The buys of a wallet in a token.
BuysOf(h, w, t) == {j \in OfSide(h, DOMAIN h, "BUY") : h[j].wallet = w /\ h[j].token = t}

\* A lot that is not empty cost on average between two prices that its wallet paid.
CostsBetween ==
  \A w \in Wallets, t \in Tokens :
    wallets[w].lots[t].quantity # 0 =>
      /\ \E j \in BuysOf(history, w, t) : NoDearer(wallets[w].lots[t], history[j])
      /\ \E j \in BuysOf(history, w, t) : NoCheaper(wallets[w].lots[t], history[j])

\* Each trade keeps the costs so.
LEMMA CostsNext ==
  ASSUME TypeOK, EmptyLots, CostsBetween, NEW e \in Trades, HandleEvent(e)
  PROVE  CostsBetween'
<1> SUFFICES ASSUME NEW w \in Wallets, NEW t \in Tokens, wallets'[w].lots[t].quantity # 0
             PROVE  /\ \E j \in BuysOf(history', w, t) : NoDearer(wallets'[w].lots[t], history'[j])
                    /\ \E j \in BuysOf(history', w, t) : NoCheaper(wallets'[w].lots[t], history'[j])
  BY DEF CostsBetween
<1> DEFINE n == Len(history) + 1
           lot == wallets[w].lots[t]
           new == wallets'[w].lots[t]
           old == BuysOf(history, w, t)
           all == BuysOf(history', w, t)
<1>1. /\ n \in Nat /\ history'[n] = e
      /\ DOMAIN history = 1..(n - 1) /\ DOMAIN history' = 1..n
      /\ \A i \in 1..(n - 1) : history'[i] = history[i] /\ history[i] \in Trades
  BY Appended
<1>2. /\ \A j \in old : j \in all /\ history'[j] = history[j] /\ history[j] \in Trades
      /\ e.side = "BUY" /\ w = e.wallet /\ t = e.token => n \in all
  BY <1>1 DEF BuysOf, OfSide
<1>3. new = IF w = e.wallet /\ t = e.token THEN LotAfter(lot, e) ELSE lot
  BY LotNext
<1>4. /\ lot \in Lot /\ e.side \in {"BUY", "SELL"}
      /\ lot.quantity = 0 => lot = NoLot
      /\ lot.quantity # 0 => /\ \E j \in old : NoDearer(lot, history[j])
                             /\ \E j \in old : NoCheaper(lot, history[j])
  BY TradeFields DEF TypeOK, WalletAccumulator, EmptyLots, CostsBetween
<1> HIDE DEF lot, new, old, all, n
<1>5. CASE ~(w = e.wallet /\ t = e.token)
  <2>1. new = lot /\ lot.quantity # 0
    BY <1>3, <1>5 DEF new
  <2>2. PICK i \in old : NoDearer(lot, history[i])
    BY <1>4, <2>1
  <2>3. PICK j \in old : NoCheaper(lot, history[j])
    BY <1>4, <2>1
  <2>4. /\ i \in all /\ NoDearer(new, history'[i])
        /\ j \in all /\ NoCheaper(new, history'[j])
    BY <1>2, <2>1, <2>2, <2>3
  <2> QED BY <2>4 DEF all, new
<1>6. CASE w = e.wallet /\ t = e.token /\ e.side = "BUY"
  <2>1. new = BuyInto(lot, e) /\ n \in all
    BY <1>2, <1>3, <1>6 DEF LotAfter
  <2>2. CASE lot.quantity = 0
    <3>1. NoDearer(new, history'[n]) /\ NoCheaper(new, history'[n])
      BY <1>1, <1>4, <2>1, <2>2, FirstBuySetsCosts
    <3> QED BY <2>1, <3>1 DEF all, new
  <2>3. CASE lot.quantity # 0
    <3>1. PICK i \in old : NoDearer(lot, history[i])
      BY <1>4, <2>3
    <3>2. PICK j \in old : NoCheaper(lot, history[j])
      BY <1>4, <2>3
    <3>3. NoDearer(new, history[i]) \/ NoDearer(new, e)
      BY <1>2, <1>4, <2>1, <2>3, <3>1, BuyKeepsCosts
    <3>4. NoCheaper(new, history[j]) \/ NoCheaper(new, e)
      BY <1>2, <1>4, <2>1, <2>3, <3>2, BuyKeepsCosts
    <3>5. \E k \in all : NoDearer(new, history'[k])
      BY <1>1, <1>2, <2>1, <3>1, <3>3
    <3>6. \E k \in all : NoCheaper(new, history'[k])
      BY <1>1, <1>2, <2>1, <3>2, <3>4
    <3> QED BY <3>5, <3>6 DEF all, new
  <2> QED BY <2>2, <2>3
<1>7. CASE w = e.wallet /\ t = e.token /\ e.side # "BUY"
  <2>1. new = IF lot.quantity = 0 THEN lot ELSE SellFrom(lot, e)
    BY <1>3, <1>7 DEF LotAfter
  <2>2. lot.quantity # 0 /\ new = SellFrom(lot, e) /\ SellFrom(lot, e).quantity # 0
    BY <2>1 DEF new
  <2>3. PICK i \in old : NoDearer(lot, history[i])
    BY <1>4, <2>2
  <2>4. PICK j \in old : NoCheaper(lot, history[j])
    BY <1>4, <2>2
  <2>5. /\ i \in all /\ NoDearer(new, history'[i])
        /\ j \in all /\ NoCheaper(new, history'[j])
    BY <1>2, <1>4, <2>2, <2>3, <2>4, SellKeepsCosts
  <2> QED BY <2>5 DEF all, new
<1> QED BY <1>5, <1>6, <1>7

\* A win is a sale above the average, and that is above a price below it.
LEMMA WinIsAbove ==
  ASSUME NEW lot \in Lot, lot.quantity # 0, NEW e \in Trades, NEW d \in Trades,
         IsWin(lot, e), NoCheaper(lot, d)
  PROVE  e.usd * d.amount > d.usd * e.amount
<1> DEFINE u == e.usd
           x == lot.paid
           v == d.usd
           p == lot.per * lot.quantity
           a == e.amount
           b == d.amount
<1>1. /\ x \in Nat /\ p \in Nat \ {0} /\ lot.quantity \in Nat /\ lot.per \in Nat
      /\ u \in Nat /\ a \in Nat \ {0} /\ v \in Nat /\ b \in Nat \ {0}
  BY LotFields, TradeFields
<1>2. e.usd * lot.quantity * lot.per > lot.paid * e.amount
  BY DEF IsWin
<1>3. e.usd * lot.quantity * lot.per = u * p
  BY <1>1, SMTT(30)
<1>4. v * p <= x * b
  BY DEF NoCheaper
<1>5. x * a < u * p
  <2>1. x * a \in Int /\ u * p \in Int
    BY <1>1, SMTT(30)
  <2> QED BY <1>2, <1>3, <2>1
<1> HIDE DEF u, x, v, p, a, b
<1>6. v * a < u * b
  BY <1>1, <1>4, <1>5, Crosswise
<1>7. v * a \in Int /\ u * b \in Int
  BY <1>1, SMTT(30)
<1>8. u * b > v * a
  BY <1>6, <1>7
<1> QED BY <1>8 DEF u, v, a, b

\* A sale above a price that is above the average is a win, unless the lot cost nothing.
LEMMA AboveIsWin ==
  ASSUME NEW lot \in Lot, lot.quantity # 0, NEW e \in Trades, NEW d \in Trades,
         NoDearer(lot, d), e.usd * d.amount > d.usd * e.amount, lot.paid > 0
  PROVE  IsWin(lot, e)
<1> DEFINE u == e.usd
           x == lot.paid
           v == d.usd
           p == lot.per * lot.quantity
           a == e.amount
           b == d.amount
<1>1. /\ x \in Nat /\ p \in Nat \ {0} /\ lot.quantity \in Nat /\ lot.per \in Nat
      /\ u \in Nat /\ a \in Nat \ {0} /\ v \in Nat /\ b \in Nat \ {0}
  BY LotFields, TradeFields
<1>2. e.usd * lot.quantity * lot.per = u * p
  BY <1>1, SMTT(30)
<1>3. x * b <= v * p
  BY DEF NoDearer
<1>4. v * a < u * b
  <2>1. v * a \in Int /\ u * b \in Int
    BY <1>1, SMTT(30)
  <2> QED BY <2>1
<1> HIDE DEF u, x, v, p, a, b
<1>5. x * a < u * p
  BY <1>1, <1>3, <1>4, Crosswise
<1>6. x * a \in Int /\ u * p \in Int
  BY <1>1, SMTT(30)
<1>7. u * p > x * a
  BY <1>5, <1>6
<1>8. e.usd * lot.quantity * lot.per > lot.paid * e.amount
  BY <1>2, <1>7 DEF x, a
<1> QED BY <1>8 DEF IsWin

\* A lot that cost no less than a buy that was paid for cost something.
LEMMA PaidForSomething ==
  ASSUME NEW lot \in Lot, lot.quantity # 0, NEW d \in Trades, d.usd > 0, NoCheaper(lot, d)
  PROVE  lot.paid > 0
<1> DEFINE p == lot.per * lot.quantity
<1>1. /\ lot.paid \in Nat /\ p \in Nat \ {0} /\ d.usd \in Nat /\ d.amount \in Nat
  BY LotFields, TradeFields
<1>2. d.usd * p <= lot.paid * d.amount
  BY DEF NoCheaper
<1> HIDE DEF p
<1>3. d.usd * p \in Nat \ {0}
  BY <1>1, Products
<1>4. lot.paid = 0 => lot.paid * d.amount = 0
  BY <1>1
<1> QED BY <1>1, <1>2, <1>3, <1>4

-----------------------------------------------------------------------------
(* Wins and losses.                                                        *)

\* Dearer and BuysBefore, of any stream.
AboveIn(h, i, j) == h[i].usd * h[j].amount > h[j].usd * h[i].amount
EarlierBuys(h, i) ==
  {j \in OfSide(h, 1..(i - 1), "BUY") : h[j].wallet = h[i].wallet /\ h[j].token = h[i].token}

\* Sold above every price paid before, or above one of them.
AboveAll(h, i) == \A j \in EarlierBuys(h, i) : AboveIn(h, i, j) /\ h[j].usd > 0
AboveOne(h, i) == \E j \in EarlierBuys(h, i) : AboveIn(h, i, j)

\* A longer stream tells the same of the trades before its last.
LEMMA AbovePrefix ==
  ASSUME TypeOK, NEW e \in Trades, HandleEvent(e), NEW i \in 1..Len(history)
  PROVE  /\ AboveAll(history', i) <=> AboveAll(history, i)
         /\ AboveOne(history', i) <=> AboveOne(history, i)
<1>1. \A k \in 1..Len(history) : history'[k] = history[k]
  BY Appended
<1>2. Len(history) \in Nat
  BY Appended
<1>3. \A j \in 1..(i - 1) : history'[j] = history[j]
  BY <1>1, <1>2
<1>4. history'[i] = history[i]
  BY <1>1
<1>5. EarlierBuys(history', i) = EarlierBuys(history, i)
  BY <1>3, <1>4 DEF EarlierBuys, OfSide
<1>6. \A j \in EarlierBuys(history, i) : history'[j] = history[j]
  BY <1>3 DEF EarlierBuys, OfSide
<1>7. \A j \in EarlierBuys(history, i) : AboveIn(history', i, j) <=> AboveIn(history, i, j)
  BY <1>4, <1>6 DEF AboveIn
<1> QED BY <1>5, <1>6, <1>7 DEF AboveAll, AboveOne

\* The buys before the trade are those of its wallet in its token.
LEMMA BuysBeforeLast ==
  ASSUME TypeOK, NEW e \in Trades, HandleEvent(e)
  PROVE  /\ EarlierBuys(history', Len(history) + 1) = BuysOf(history, e.wallet, e.token)
         /\ \A j \in BuysOf(history, e.wallet, e.token) :
              history'[j] = history[j] /\ history[j] \in Trades
<1> DEFINE n == Len(history) + 1
<1>1. /\ n \in Nat /\ history'[n] = e /\ (n - 1) = Len(history)
      /\ DOMAIN history = 1..(n - 1)
      /\ \A i \in 1..(n - 1) : history'[i] = history[i] /\ history[i] \in Trades
  BY Appended
<1> HIDE DEF n
<1>2. EarlierBuys(history', n) = BuysOf(history, e.wallet, e.token)
  BY <1>1 DEF EarlierBuys, BuysOf, OfSide
<1>3. \A j \in BuysOf(history, e.wallet, e.token) : j \in 1..(n - 1)
  BY <1>1 DEF BuysOf, OfSide
<1> QED BY <1>1, <1>2, <1>3 DEF n

\* A closing above every price paid is a win, and a win is above one of them.
LEMMA WinsBetween ==
  ASSUME TypeOK, CostsBetween, NEW e \in Trades, HandleEvent(e),
         wallets[e.wallet].lots[e.token].quantity # 0
  PROVE  LET n == Len(history) + 1 IN
         /\ AboveAll(history', n) => IsWin(wallets[e.wallet].lots[e.token], e)
         /\ IsWin(wallets[e.wallet].lots[e.token], e) => AboveOne(history', n)
<1> DEFINE n == Len(history) + 1
           lot == wallets[e.wallet].lots[e.token]
           buys == BuysOf(history, e.wallet, e.token)
<1>1. e.wallet \in Wallets /\ e.token \in Tokens /\ lot \in Lot /\ lot.quantity # 0
  BY TradeFields DEF TypeOK, WalletAccumulator
<1>2. PICK i \in buys : NoDearer(lot, history[i])
  BY <1>1 DEF CostsBetween
<1>3. PICK j \in buys : NoCheaper(lot, history[j])
  BY <1>1 DEF CostsBetween
<1>4. EarlierBuys(history', n) = buys
      /\ \A k \in buys : history'[k] = history[k] /\ history[k] \in Trades
  BY BuysBeforeLast
<1>5. history'[n] = e
  BY Appended
<1> HIDE DEF n, lot, buys
<1>6. ASSUME AboveAll(history', n) PROVE IsWin(lot, e)
  <2>1. /\ AboveIn(history', n, i) /\ AboveIn(history', n, j) /\ history'[j].usd > 0
    BY <1>2, <1>3, <1>4, <1>6 DEF AboveAll
  <2>2. /\ e.usd * history[i].amount > history[i].usd * e.amount /\ history[j].usd > 0
        /\ history[i] \in Trades /\ history[j] \in Trades
    BY <1>2, <1>3, <1>4, <1>5, <2>1 DEF AboveIn
  <2>3. lot.paid > 0
    BY <1>1, <1>3, <2>2, PaidForSomething
  <2> QED BY <1>1, <1>2, <2>2, <2>3, AboveIsWin
<1>7. ASSUME IsWin(lot, e) PROVE AboveOne(history', n)
  <2>1. e.usd * history[j].amount > history[j].usd * e.amount
    BY <1>1, <1>3, <1>4, <1>7, WinIsAbove
  <2>2. AboveIn(history', n, j)
    BY <1>3, <1>4, <1>5, <2>1 DEF AboveIn
  <2> QED BY <1>3, <1>4, <2>2 DEF AboveOne
<1> QED BY <1>6, <1>7 DEF n, lot

\* new has of the first m numbers what old has, and of all2 otherwise m + 1 if has.
Prolongs(all, all2, m, closes, old, new, has) ==
  /\ all \in SUBSET (1..m) /\ all2 = all \cup IF closes THEN {m + 1} ELSE {}
  /\ old \in SUBSET all /\ new \in SUBSET all2
  /\ \A i \in all : i \in new <=> i \in old
  /\ closes => (m + 1 \in new <=> has)

\* Then it has one more, if any.
LEMMA ProlongedCount ==
  ASSUME NEW all, NEW all2, NEW m \in Nat, NEW closes \in BOOLEAN, NEW old, NEW new,
         NEW has \in BOOLEAN, Prolongs(all, all2, m, closes, old, new, has)
  PROVE  /\ Cardinality(old) \in Nat
         /\ Cardinality(new) = Cardinality(old) + IF closes /\ has THEN 1 ELSE 0
<1> DEFINE joins == closes /\ has
<1>1. m + 1 \notin all /\ joins \in BOOLEAN
  BY DEF Prolongs
<1>2. new = old \cup IF joins THEN {m + 1} ELSE {}
  <2>1. CASE closes
    BY <1>1, <2>1 DEF Prolongs
  <2>2. CASE ~closes
    BY <1>1, <2>2 DEF Prolongs
  <2> QED BY <2>1, <2>2
<1>3. old \in SUBSET (1..m)
  BY DEF Prolongs
<1> HIDE DEF joins
<1>4. /\ Cardinality(old) \in Nat
      /\ Cardinality(new) = Cardinality(old) + IF joins THEN 1 ELSE 0
  BY <1>1, <1>2, <1>3, CountNext
<1> QED BY <1>4 DEF joins

\* Each trade keeps the wins between what the prices allow.
LEMMA WinsNext ==
  ASSUME TypeOK, LotsMatchTrades, CostsBetween, WinsAreReal, NEW e \in Trades, HandleEvent(e)
  PROVE  WinsAreReal'
<1> SUFFICES ASSUME NEW w \in Wallets
             PROVE  /\ wallets'[w].winCount >= Cardinality({i \in Closings(w)' : AboveAll(history', i)})
                    /\ wallets'[w].winCount <= Cardinality({i \in Closings(w)' : AboveOne(history', i)})
                    /\ wallets'[w].winCount + wallets'[w].lossCount = Cardinality(Closings(w)')
  BY DEF WinsAreReal, Dearer, BuysBefore, AboveIn, EarlierBuys, AboveAll, AboveOne
<1> DEFINE n == Len(history) + 1
           lot == wallets[e.wallet].lots[e.token]
           closes == ClosesFor(w, e)
           all == Closings(w)
           all2 == Closings(w)'
           high == {i \in all : AboveAll(history, i)}
           high2 == {i \in all2 : AboveAll(history', i)}
           some == {i \in all : AboveOne(history, i)}
           some2 == {i \in all2 : AboveOne(history', i)}
           win == IsWin(lot, e)
           wins == wallets[w].winCount
           losses == wallets[w].lossCount
           isHigh == AboveAll(history', n)
           isSome == AboveOne(history', n)
<1>1. /\ wins >= Cardinality(high) /\ wins <= Cardinality(some)
      /\ wins + losses = Cardinality(all)
  BY DEF WinsAreReal, Dearer, BuysBefore, AboveIn, EarlierBuys, AboveAll, AboveOne
<1>2. wins \in Nat /\ losses \in Nat
  BY DEF TypeOK, WalletAccumulator
<1>3. /\ all \subseteq 1..Len(history)
      /\ all2 = all \cup IF closes THEN {n} ELSE {}
  BY ClosingsNext
<1>4. \A i \in all : /\ AboveAll(history', i) <=> AboveAll(history, i)
                     /\ AboveOne(history', i) <=> AboveOne(history, i)
  BY <1>3, AbovePrefix
<1>5. closes => (isHigh => win) /\ (win => isSome)
  BY WinsBetween DEF ClosesFor, Closes
<1>6. /\ isHigh \in BOOLEAN /\ isSome \in BOOLEAN /\ closes \in BOOLEAN /\ win \in BOOLEAN
  BY DEF AboveAll, AboveOne, ClosesFor, Closes, IsWin
<1> DEFINE m == Len(history)
<1>m. m \in Nat /\ n = m + 1
  BY Appended
<1>7. /\ Cardinality(high) \in Nat
      /\ Cardinality(high2) = Cardinality(high) + IF closes /\ isHigh THEN 1 ELSE 0
  <2>1. Prolongs(all, all2, m, closes, high, high2, isHigh)
    BY <1>3, <1>4, <1>m DEF Prolongs
  <2> HIDE DEF all, all2, m, closes, high, high2, isHigh
  <2> QED BY <1>6, <1>m, <2>1, ProlongedCount
<1>8. /\ Cardinality(some) \in Nat
      /\ Cardinality(some2) = Cardinality(some) + IF closes /\ isSome THEN 1 ELSE 0
  <2>1. Prolongs(all, all2, m, closes, some, some2, isSome)
    BY <1>3, <1>4, <1>m DEF Prolongs
  <2> HIDE DEF all, all2, m, closes, some, some2, isSome
  <2> QED BY <1>6, <1>m, <2>1, ProlongedCount
<1>9. /\ Cardinality(all) \in Nat
      /\ Cardinality(all2) = Cardinality(all) + IF closes THEN 1 ELSE 0
  <2> DEFINE has == TRUE
  <2>1. Prolongs(all, all2, m, closes, all, all2, has)
    BY <1>3, <1>m DEF Prolongs
  <2>2. has \in BOOLEAN
    OBVIOUS
  <2> HIDE DEF all, all2, m, closes, has
  <2>3. /\ Cardinality(all) \in Nat
        /\ Cardinality(all2) = Cardinality(all) + IF closes /\ has THEN 1 ELSE 0
    BY <1>6, <1>m, <2>1, <2>2, ProlongedCount
  <2> QED BY <2>3 DEF has
<1>10. /\ wallets'[w].winCount = wins + IF closes /\ win THEN 1 ELSE 0
       /\ wallets'[w].lossCount = losses + IF closes /\ ~win THEN 1 ELSE 0
  <2>1. CASE w # e.wallet
    <3>1. wallets'[w] = wallets[w] /\ ~closes
      BY <2>1, WalletNext DEF ClosesFor
    <3> QED BY <1>2, <3>1
  <2>2. CASE w = e.wallet /\ ~Closes(lot, e)
    <3>1. wallets'[w].winCount = wins /\ wallets'[w].lossCount = losses /\ ~closes
      BY <2>2, WalletNext DEF ClosesFor
    <3> QED BY <1>2, <3>1
  <2>3. CASE w = e.wallet /\ Closes(lot, e)
    <3>1. /\ wallets'[w].winCount = wins + IF win THEN 1 ELSE 0
          /\ wallets'[w].lossCount = losses + IF win THEN 0 ELSE 1
          /\ closes
      BY <2>3, WalletNext DEF ClosesFor
    <3> QED BY <3>1
  <2> QED BY <2>1, <2>2, <2>3
<1> HIDE DEF lot, closes, all, all2, high, high2, some, some2, win, wins, losses, isHigh, isSome
<1>11. /\ wallets'[w].winCount >= Cardinality(high2)
       /\ wallets'[w].winCount <= Cardinality(some2)
       /\ wallets'[w].winCount + wallets'[w].lossCount = Cardinality(all2)
  BY <1>1, <1>2, <1>5, <1>6, <1>7, <1>8, <1>9, <1>10
<1> QED BY <1>11 DEF all2, high2, some2

-----------------------------------------------------------------------------
\* What the proof carries from trade to trade beside the three conjuncts of WalletStatsExact.
WalletInv ==
  /\ LotsMatchTrades /\ EmptyLots /\ CostsBetween
  /\ PeaksKept /\ RugsSeen
  /\ RugExposureExact /\ WinsAreReal

\* With no trade yet, every count is zero and every lot is empty.
LEMMA WalletInvInit == Init => WalletInv
<1> SUFFICES ASSUME Init PROVE WalletInv
  OBVIOUS
<1>1. /\ history = <<>> /\ Len(history) = 0 /\ DOMAIN history = {} /\ history \in Seq(Trades)
      /\ rugged = {} /\ tokens = [t \in Tokens |-> NewToken]
  BY DEF Init
<1>2. /\ \A w \in Wallets : /\ wallets[w].winCount = 0 /\ wallets[w].lossCount = 0
                            /\ wallets[w].rugExposureCount = 0
                            /\ \A t \in Tokens : wallets[w].lots[t] = NoLot
  BY DEF Init, NewWallet
<1>3. \A w, t : Held(history, w, t, 0) = 0
  BY <1>1, HeldNext
<1>4. LotsMatchTrades
  BY <1>1, <1>2, <1>3 DEF LotsMatchTrades, NoLot
<1>5. EmptyLots /\ CostsBetween
  BY <1>2 DEF EmptyLots, CostsBetween, NoLot
<1>6. \A t \in Tokens : TradesOf(history, t) = {} /\ tokens[t].peakLiquidity = 0
  BY <1>1 DEF TradesOf, NewToken
<1>7. PeaksKept /\ RugsSeen
  BY <1>1, <1>6 DEF PeaksKept, RugsSeen
<1>8. \A w : Closings(w) = {}
  BY <1>1 DEF Closings, OfSide
<1>9. Cardinality({}) = 0
  BY FS_EmptySet
<1>10. \A w : {i \in Closings(w) : CrashSeenBefore(i)} = {}
  BY <1>8
<1>11. RugExposureExact
  BY <1>2, <1>9, <1>10 DEF RugExposureExact
<1>12. \A w : /\ {i \in Closings(w) : \A j \in BuysBefore(i) : Dearer(i, j) /\ history[j].usd > 0} = {}
              /\ {i \in Closings(w) : \E j \in BuysBefore(i) : Dearer(i, j)} = {}
  BY <1>8
<1>13. WinsAreReal
  <2> SUFFICES ASSUME NEW w \in Wallets
               PROVE  /\ wallets[w].winCount >=
                           Cardinality({i \in Closings(w) : \A j \in BuysBefore(i) :
                                          Dearer(i, j) /\ history[j].usd > 0})
                      /\ wallets[w].winCount <=
                           Cardinality({i \in Closings(w) : \E j \in BuysBefore(i) : Dearer(i, j)})
                      /\ wallets[w].winCount + wallets[w].lossCount = Cardinality(Closings(w))
    BY DEF WinsAreReal
  <2>1. wallets[w].winCount = 0 /\ wallets[w].lossCount = 0
    BY <1>2
  <2>2. wallets[w].winCount + wallets[w].lossCount = Cardinality(Closings(w))
    BY <1>8, <1>9, <2>1
  <2>3. 0 >= Cardinality({}) /\ 0 <= Cardinality({})
    BY <1>9
  <2> QED BY <1>12, <2>1, <2>2, <2>3
<1> QED BY <1>4, <1>5, <1>7, <1>11, <1>13 DEF WalletInv

\* Every trade keeps it.
LEMMA WalletInvNext == TypeOK /\ TypeOK' /\ WalletInv /\ [Next]_vars => WalletInv'
<1> SUFFICES ASSUME TypeOK, TypeOK', WalletInv, [Next]_vars PROVE WalletInv'
  OBVIOUS
<1>1. ASSUME NEW e \in Trades, HandleEvent(e) PROVE WalletInv'
  <2>1. LotsMatchTrades' /\ EmptyLots'
    BY <1>1, LotsNext DEF WalletInv
  <2>2. CostsBetween'
    BY <1>1, CostsNext DEF WalletInv
  <2>3. PeaksKept' /\ RugsSeen'
    BY <1>1, RugsNext DEF WalletInv
  <2>4. RugExposureExact'
    BY <1>1, ExposureNext DEF WalletInv
  <2>5. WinsAreReal'
    BY <1>1, WinsNext DEF WalletInv
  <2> QED BY <2>1, <2>2, <2>3, <2>4, <2>5 DEF WalletInv
<1>2. CASE UNCHANGED vars
  <2>1. UNCHANGED <<history, rugged, wallets, tokens>>
    BY <1>2 DEF vars
  <2>2. LotsMatchTrades' /\ EmptyLots' /\ CostsBetween'
    BY <2>1 DEF WalletInv, LotsMatchTrades, EmptyLots, CostsBetween
  <2>3. PeaksKept' /\ RugsSeen'
    BY <2>1 DEF WalletInv, PeaksKept, RugsSeen
  <2>4. RugExposureExact'
    BY <2>1 DEF WalletInv, RugExposureExact, Closings, CrashSeenBefore
  <2>5. WinsAreReal'
    BY <2>1 DEF WalletInv, WinsAreReal, Closings, BuysBefore, Dearer
  <2> QED BY <2>2, <2>3, <2>4, <2>5 DEF WalletInv
<1> QED BY <1>1, <1>2 DEF Next

\* What discovery and the hard gate judge a wallet by is what its trades were: its lots hold
\* what it bought and did not sell, and its exposure and its wins are of its closings.
THEOREM WalletStatsAreExact == Spec => []WalletStatsExact
<1>1. IInv => TypeOK
  BY DEF IInv
<1>2. WalletInv => WalletStatsExact
  BY DEF WalletInv, WalletStatsExact
<1> QED
  BY <1>1, <1>2, WalletInvInit, WalletInvNext, Invariant, PTL DEF Spec
=============================================================================
