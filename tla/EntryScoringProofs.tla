--------------------------- MODULE EntryScoringProofs ---------------------------
(***************************************************************************)
(* The scores and the gate of EntryScoring for every configuration,        *)
(* wallet and token: each score is a weighted sum of shares, so its        *)
(* direction is that of every share, in exact rounded-down arithmetic.     *)
(***************************************************************************)
EXTENDS EntryScoring, TLAPS

-----------------------------------------------------------------------------
(* Arithmetic.                                                             *)

\* A quotient is the whole number it should be.
LEMMA DivIs ==
  ASSUME NEW a \in Int, NEW c \in Nat \ {0}
  PROVE  a \div c \in Int /\ \A q \in Int : q <= a \div c <=> c * q <= a
<1>1. a \div c \in Int
  BY SMTT(30)
<1>2. \A q \in Int : q <= a \div c <=> c * q <= a
  BY SMTT(60)
<1> QED BY <1>1, <1>2

\* A positive factor can be dropped.
LEMMA FactorOut ==
  ASSUME NEW a \in Int, NEW b \in Int, NEW c \in Nat \ {0}, c * a <= c * b
  PROVE  a <= b
BY SMTT(30)

\* A factor that is not negative keeps the order, on either side.
LEMMA Times ==
  ASSUME NEW a \in Int, NEW b \in Int, NEW c \in Nat, a <= b
  PROVE  /\ a * c \in Int /\ b * c \in Int /\ c * a \in Int /\ c * b \in Int
         /\ a * c <= b * c /\ c * a <= c * b
BY SMTT(30)

\* A fraction is at most another if the crosswise products are.
LEMMA DivCross ==
  ASSUME NEW a \in Int, NEW b \in Int, NEW c \in Nat \ {0}, NEW d \in Nat \ {0},
         a * d <= b * c
  PROVE  a \div c <= b \div d
<1> DEFINE q == a \div c
<1>1. q \in Int /\ c * q <= a
  BY DivIs
<1> HIDE DEF q
<1>2. (c * q) * d <= a * d
  <2>1. c * q \in Int
    BY <1>1
  <2> QED BY <1>1, <2>1, Times
<1>3. (c * q) * d = c * (d * q) /\ b * c = c * b
  BY <1>1, SMTT(30)
<1>4. d * q \in Int /\ a * d \in Int /\ c * b \in Int /\ c * (d * q) \in Int
  BY <1>1
<1>5. c * (d * q) <= c * b
  BY <1>2, <1>3, <1>4
<1>6. d * q <= b
  BY <1>4, <1>5, FactorOut
<1> QED BY <1>1, <1>6, DivIs DEF q

\* A larger numerator, a larger quotient.
LEMMA DivMonotone ==
  ASSUME NEW a \in Int, NEW b \in Int, NEW c \in Nat \ {0}, a <= b
  PROVE  a \div c <= b \div c
BY Times, DivCross

\* clamp01 lands between nothing and the whole.
LEMMA ClampType ==
  ASSUME NEW a \in Int
  PROVE  Clamp(a) \in Nat /\ Clamp(a) <= 10000
BY DEF Clamp, MinOf, MaxOf

\* It keeps the order.
LEMMA ClampMonotone ==
  ASSUME NEW a \in Int, NEW b \in Int, a <= b
  PROVE  Clamp(a) <= Clamp(b)
BY DEF Clamp, MinOf, MaxOf

\* So does a share of a whole.
LEMMA ShareType ==
  ASSUME NEW a \in Int, NEW c \in Nat \ {0}
  PROVE  Share(a, c) \in Nat /\ Share(a, c) <= 10000
<1> DEFINE q == (a * 10000) \div c
<1>1. q \in Int /\ Share(a, c) = Clamp(q)
  BY DivIs DEF Share
<1> HIDE DEF q
<1> QED BY <1>1, ClampType

\* Like the clamp, a share keeps the order.
LEMMA ShareMonotone ==
  ASSUME NEW a \in Int, NEW b \in Int, NEW c \in Nat \ {0}, NEW d \in Nat \ {0},
         a * d <= b * c
  PROVE  Share(a, c) <= Share(b, d)
<1>1. (a * 10000) * d <= (b * 10000) * c
  <2>1. a * d \in Int /\ b * c \in Int
    OBVIOUS
  <2>2. 10000 * (a * d) <= 10000 * (b * c)
    BY <2>1
  <2>3. (a * 10000) * d = 10000 * (a * d) /\ (b * 10000) * c = 10000 * (b * c)
    BY SMTT(30)
  <2> QED BY <2>2, <2>3
<1>2. (a * 10000) \div c <= (b * 10000) \div d
  BY <1>1, DivCross
<1>3. (a * 10000) \div c \in Int /\ (b * 10000) \div d \in Int
  BY DivIs
<1> QED BY <1>2, <1>3, ClampMonotone DEF Share
-----------------------------------------------------------------------------
(* The token's scores.                                                     *)

TypedToken(t) == DOMAIN t = TokenFields /\ \A f \in TokenFields : t[f] \in TokenSets[f]

\* The fields of a token, one by one.
LEMMA TokenTypes ==
  ASSUME NEW t, TypedToken(t)
  PROVE  /\ t.liquidity \in Nat /\ t.age \in Nat /\ t.top10 \in Nat /\ t.buyers \in Nat
         /\ t.mintRevoked \in BOOLEAN /\ t.freezeRevoked \in BOOLEAN /\ t.dexAllowed \in BOOLEAN
         /\ t.buyVolume \in Nat /\ t.sellVolume \in Nat
         /\ t.launches \in Nat \cup {None} /\ t.created \in Nat /\ t.rugged \in Nat
BY DEF TypedToken, TokenFields, TokenSets

\* Every component of the risk score is a share, and none is lower for a riskier token.
LEMMA ComponentRisks ==
  ASSUME NEW t, TypedToken(t), NEW u, TypedToken(u), RiskierToken(t, u)
  PROVE  /\ AgeRisk(t) \in Nat /\ AgeRisk(u) = AgeRisk(t)
         /\ LiquidityRisk(t) \in Nat /\ LiquidityRisk(u) \in Nat
         /\ LiquidityRisk(t) <= LiquidityRisk(u)
         /\ ConcentrationRisk(t) \in Nat /\ ConcentrationRisk(u) \in Nat
         /\ ConcentrationRisk(t) <= ConcentrationRisk(u)
         /\ AuthorityRisk(t) \in Nat /\ AuthorityRisk(u) \in Nat
         /\ AuthorityRisk(t) <= AuthorityRisk(u)
         /\ BuyerDiversityRisk(t) \in Nat /\ BuyerDiversityRisk(u) \in Nat
         /\ BuyerDiversityRisk(t) <= BuyerDiversityRisk(u)
<1>1. /\ t.liquidity \in Nat /\ u.liquidity \in Nat /\ u.liquidity <= t.liquidity
      /\ t.top10 \in Nat /\ u.top10 \in Nat /\ t.top10 <= u.top10
      /\ t.buyers \in Nat /\ u.buyers \in Nat /\ u.buyers <= t.buyers
      /\ t.age \in Nat /\ u.age = t.age
  BY TokenTypes DEF RiskierToken
<1>2. AgeRisk(t) \in Nat /\ AgeRisk(u) = AgeRisk(t)
  BY <1>1 DEF AgeRisk, Clamp, MinOf, MaxOf
<1>3. /\ LiquidityRisk(t) \in Nat /\ LiquidityRisk(u) \in Nat
      /\ LiquidityRisk(t) <= LiquidityRisk(u)
  BY <1>1 DEF LiquidityRisk, Clamp, MinOf, MaxOf
<1>4. /\ ConcentrationRisk(t) \in Nat /\ ConcentrationRisk(u) \in Nat
      /\ ConcentrationRisk(t) <= ConcentrationRisk(u)
  BY <1>1 DEF ConcentrationRisk, Clamp, MinOf, MaxOf
<1>5. /\ BuyerDiversityRisk(t) \in Nat /\ BuyerDiversityRisk(u) \in Nat
      /\ BuyerDiversityRisk(t) <= BuyerDiversityRisk(u)
  BY <1>1 DEF BuyerDiversityRisk, Clamp, MinOf, MaxOf
<1>6. /\ AuthorityRisk(t) \in Nat /\ AuthorityRisk(u) \in Nat
      /\ AuthorityRisk(t) <= AuthorityRisk(u)
  <2>1. (u.mintRevoked => t.mintRevoked) /\ (u.freezeRevoked => t.freezeRevoked)
    BY DEF RiskierToken
  <2> QED BY <2>1 DEF AuthorityRisk
<1> QED BY <1>2, <1>3, <1>4, <1>5, <1>6

\* Sales weigh more, and purchases less, in the volume of a riskier token.
LEMMA VolumeShares ==
  ASSUME NEW t, TypedToken(t), NEW u, TypedToken(u), RiskierToken(t, u)
  PROVE  /\ FlowRisk(t) \in Nat /\ FlowRisk(u) \in Nat /\ FlowRisk(t) <= FlowRisk(u)
         /\ BuyingMomentum(t) \in Nat /\ BuyingMomentum(u) \in Nat
         /\ BuyingMomentum(u) <= BuyingMomentum(t)
<1>1. /\ t.buyVolume \in Nat /\ t.sellVolume \in Nat /\ u.buyVolume \in Nat /\ u.sellVolume \in Nat
      /\ u.buyVolume <= t.buyVolume /\ t.sellVolume <= u.sellVolume
  BY TokenTypes DEF RiskierToken
<1>2. /\ Volume(t) = t.buyVolume + t.sellVolume /\ Volume(u) = u.buyVolume + u.sellVolume
      /\ Volume(t) \in Nat /\ Volume(u) \in Nat
  BY <1>1 DEF Volume
<1>3. /\ t.sellVolume * Volume(u) <= u.sellVolume * Volume(t)
      /\ u.buyVolume * Volume(t) <= t.buyVolume * Volume(u)
  <2>1. \A a, b, c, d \in Nat : c <= a /\ b <= d => b * (c + d) <= d * (a + b)
    <3> SUFFICES ASSUME NEW a \in Nat, NEW b \in Nat, NEW c \in Nat, NEW d \in Nat, c <= a, b <= d
                 PROVE  b * (c + d) <= d * (a + b)
      OBVIOUS
    <3>1. b * c <= d * c /\ d * c <= d * a
      BY Times
    <3>2. b * (c + d) = b * c + d * b /\ d * (a + b) = d * a + d * b
      BY SMTT(30)
    <3>3. b * c \in Int /\ d * c \in Int /\ d * a \in Int /\ d * b \in Int
      OBVIOUS
    <3> QED BY <3>1, <3>2, <3>3
  <2>2. \A a, b, c, d \in Nat : c <= a /\ b <= d => c * (a + b) <= a * (c + d)
    <3> SUFFICES ASSUME NEW a \in Nat, NEW b \in Nat, NEW c \in Nat, NEW d \in Nat, c <= a, b <= d
                 PROVE  c * (a + b) <= a * (c + d)
      OBVIOUS
    <3>1. c * b <= c * d /\ c * d <= a * d
      BY Times
    <3>2. c * (a + b) = c * b + c * a /\ a * (c + d) = a * d + c * a
      BY SMTT(30)
    <3>3. c * b \in Int /\ c * d \in Int /\ a * d \in Int /\ c * a \in Int
      OBVIOUS
    <3> QED BY <3>1, <3>2, <3>3
  <2> QED BY <1>1, <1>2, <2>1, <2>2
<1>4. Volume(t) # 0 => Share(t.sellVolume, Volume(t)) \in Nat /\ Share(t.buyVolume, Volume(t)) \in Nat
  <2>1. ASSUME Volume(t) # 0 PROVE Volume(t) \in Nat \ {0} /\ t.sellVolume \in Int /\ t.buyVolume \in Int
    BY <1>1, <1>2, <2>1
  <2> QED BY <2>1, ShareType
<1>5. Volume(u) # 0 => Share(u.sellVolume, Volume(u)) \in Nat /\ Share(u.buyVolume, Volume(u)) \in Nat
  <2>1. ASSUME Volume(u) # 0 PROVE Volume(u) \in Nat \ {0} /\ u.sellVolume \in Int /\ u.buyVolume \in Int
    BY <1>1, <1>2, <2>1
  <2> QED BY <2>1, ShareType
<1>6. CASE Volume(t) # 0 /\ Volume(u) # 0
  <2>1. Volume(t) \in Nat \ {0} /\ Volume(u) \in Nat \ {0}
    BY <1>2, <1>6
  <2>2. Share(t.sellVolume, Volume(t)) <= Share(u.sellVolume, Volume(u))
    BY <1>1, <1>3, <2>1, ShareMonotone
  <2>3. Share(u.buyVolume, Volume(u)) <= Share(t.buyVolume, Volume(t))
    BY <1>1, <1>3, <2>1, ShareMonotone
  <2>4. /\ FlowRisk(t) = Share(t.sellVolume, Volume(t)) /\ FlowRisk(u) = Share(u.sellVolume, Volume(u))
        /\ BuyingMomentum(t) = Share(t.buyVolume, Volume(t))
        /\ BuyingMomentum(u) = Share(u.buyVolume, Volume(u))
    BY <1>6 DEF FlowRisk, BuyingMomentum
  <2> QED BY <1>4, <1>5, <1>6, <2>2, <2>3, <2>4
<1>7. CASE Volume(u) = 0 /\ Volume(t) # 0
  <2>1. t.sellVolume = 0 /\ t.buyVolume = Volume(t)
    BY <1>1, <1>2, <1>7
  <2>2. FlowRisk(t) = 0 /\ BuyingMomentum(t) = 10000
    <3>1. \A v \in Nat \ {0} : (v * 10000) \div v = 10000 /\ (0 * 10000) \div v = 0
      BY SMTT(30)
    <3> QED BY <1>2, <1>7, <2>1, <3>1 DEF FlowRisk, BuyingMomentum, Share, Clamp, MinOf, MaxOf
  <2> QED BY <1>7, <2>2 DEF FlowRisk, BuyingMomentum
<1>8. CASE Volume(t) = 0 /\ Volume(u) # 0
  <2>1. u.buyVolume = 0 /\ u.sellVolume = Volume(u)
    BY <1>1, <1>2, <1>8
  <2>2. FlowRisk(u) = 10000 /\ BuyingMomentum(u) = 0
    <3>1. \A v \in Nat \ {0} : (v * 10000) \div v = 10000 /\ (0 * 10000) \div v = 0
      BY SMTT(30)
    <3> QED BY <1>2, <1>8, <2>1, <3>1 DEF FlowRisk, BuyingMomentum, Share, Clamp, MinOf, MaxOf
  <2> QED BY <1>8, <2>2 DEF FlowRisk, BuyingMomentum
<1>9. CASE Volume(t) = 0 /\ Volume(u) = 0
  BY <1>9 DEF FlowRisk, BuyingMomentum
<1> QED BY <1>6, <1>7, <1>8, <1>9

\* A creator with more launches, or more rugs in the same sample, is no safer.
LEMMA CreatorRisks ==
  ASSUME NEW t, TypedToken(t), NEW u, TypedToken(u), RiskierToken(t, u)
  PROVE  CreatorRisk(t) \in Nat /\ CreatorRisk(u) \in Nat /\ CreatorRisk(t) <= CreatorRisk(u)
<1> DEFINE Serial(x) == IF x.launches = None THEN 0 ELSE Share(x.launches - 1, 10)
           Rugged(x) == IF x.created = 0 THEN 0
                        ELSE (x.rugged * 10000 * MinOf(x.created, 5)) \div (x.created * 5)
<1>1. /\ t.launches \in Nat \cup {None} /\ u.launches \in Nat \cup {None} /\ None \notin Int
      /\ t.launches # None => u.launches # None /\ u.launches >= t.launches
      /\ t.created \in Nat /\ u.created = t.created
      /\ t.rugged \in Nat /\ u.rugged \in Nat /\ t.rugged <= u.rugged
  <2>1. None \notin Int
    BY TokenAssumption DEF TokenAssumption
  <2>2. /\ t.launches \in Nat \cup {None} /\ u.launches \in Nat \cup {None}
        /\ t.created \in Nat /\ t.rugged \in Nat /\ u.rugged \in Nat
    BY TokenTypes
  <2> QED BY <2>1, <2>2 DEF RiskierToken
<1>2. Serial(t) \in Nat /\ Serial(u) \in Nat /\ Serial(t) <= Serial(u)
  BY <1>1 DEF Share, Clamp, MinOf, MaxOf
<1>3. Rugged(t) \in Nat /\ Rugged(u) \in Nat /\ Rugged(t) <= Rugged(u)
  <2>1. CASE t.created = 0
    BY <1>1, <2>1
  <2>2. CASE t.created # 0
    <3> DEFINE c == t.created * 5
               k == 10000 * MinOf(t.created, 5)
    <3>1. c \in Nat \ {0} /\ k \in Nat
      BY <1>1, <2>2 DEF MinOf
    <3>2. /\ t.rugged * 10000 * MinOf(t.created, 5) = t.rugged * k
          /\ u.rugged * 10000 * MinOf(t.created, 5) = u.rugged * k
      BY <1>1, SMTT(30) DEF MinOf
    <3>3. Rugged(t) = (t.rugged * k) \div c /\ Rugged(u) = (u.rugged * k) \div c
      BY <1>1, <2>2, <3>2
    <3> HIDE DEF c, k, Rugged
    <3>4. t.rugged * k \in Nat /\ u.rugged * k \in Nat /\ t.rugged * k <= u.rugged * k
      <4>1. t.rugged * k >= 0 /\ u.rugged * k >= 0
        BY <1>1, <3>1, SMTT(30)
      <4> QED BY <1>1, <3>1, <4>1, Times
    <3>5. \A n \in Nat : n \div c \in Int /\ 0 <= n \div c
      <4>1. c * 0 = 0
        BY <3>1
      <4> QED BY <3>1, <4>1, DivIs
    <3> QED BY <3>1, <3>3, <3>4, <3>5, DivMonotone
  <2> QED BY <2>1, <2>2
<1>4. CreatorRisk(t) = (Serial(t) + Rugged(t)) \div 2 /\ CreatorRisk(u) = (Serial(u) + Rugged(u)) \div 2
  BY DEF CreatorRisk
<1> HIDE DEF Serial, Rugged
<1> QED BY <1>2, <1>3, <1>4

\* The schema lets a weight be negative; the directions below need that none is.
NoNegativeWeight(weights) == \A c \in DOMAIN weights : weights[c] >= 0

\* A weighted component is a whole number, and grows with the component.
LEMMA Weighted ==
  ASSUME NEW c \in Int, NEW x \in Int, NEW y \in Int, c >= 0, x <= y
  PROVE  c * x \in Int /\ c * y \in Int /\ c * x <= c * y
BY Times

\* A riskier token never has the lower risk score.
LEMMA RiskScoreMonotone ==
  ASSUME NoNegativeWeight(Config.riskWeights),
         NEW t, TypedToken(t), NEW u, TypedToken(u), RiskierToken(t, u)
  PROVE  RiskScore(t) \in Int /\ RiskScore(u) \in Int /\ RiskScore(t) <= RiskScore(u)
<1> DEFINE c == Config.riskWeights
           Terms(x) == /\ c.age * AgeRisk(x) \in Int /\ c.liquidity * LiquidityRisk(x) \in Int
                       /\ c.concentration * ConcentrationRisk(x) \in Int
                       /\ c.authority * AuthorityRisk(x) \in Int
                       /\ c.buyerDiversity * BuyerDiversityRisk(x) \in Int
                       /\ c.flow * FlowRisk(x) \in Int /\ c.creator * CreatorRisk(x) \in Int
           Sum(x) == c.age * AgeRisk(x) + c.liquidity * LiquidityRisk(x)
                       + c.concentration * ConcentrationRisk(x) + c.authority * AuthorityRisk(x)
                       + c.buyerDiversity * BuyerDiversityRisk(x) + c.flow * FlowRisk(x)
                       + c.creator * CreatorRisk(x)
<1>1. /\ c.age \in Int /\ c.liquidity \in Int /\ c.concentration \in Int /\ c.authority \in Int
      /\ c.buyerDiversity \in Int /\ c.flow \in Int /\ c.creator \in Int
      /\ DOMAIN c = {"age", "liquidity", "concentration", "authority", "buyerDiversity",
                     "flow", "creator"}
  BY WeightsAssumption DEF WeightsAssumption
<1>2. /\ c.age >= 0 /\ c.liquidity >= 0 /\ c.concentration >= 0 /\ c.authority >= 0
      /\ c.buyerDiversity >= 0 /\ c.flow >= 0 /\ c.creator >= 0
  BY <1>1 DEF NoNegativeWeight
<1> HIDE DEF c
<1>3. /\ c.age * AgeRisk(t) \in Int /\ c.age * AgeRisk(u) = c.age * AgeRisk(t)
  BY <1>1, ComponentRisks
<1>4. /\ c.liquidity * LiquidityRisk(t) \in Int /\ c.liquidity * LiquidityRisk(u) \in Int
      /\ c.liquidity * LiquidityRisk(t) <= c.liquidity * LiquidityRisk(u)
  BY <1>1, <1>2, ComponentRisks, Weighted
<1>5. /\ c.concentration * ConcentrationRisk(t) \in Int /\ c.concentration * ConcentrationRisk(u) \in Int
      /\ c.concentration * ConcentrationRisk(t) <= c.concentration * ConcentrationRisk(u)
  BY <1>1, <1>2, ComponentRisks, Weighted
<1>6. /\ c.authority * AuthorityRisk(t) \in Int /\ c.authority * AuthorityRisk(u) \in Int
      /\ c.authority * AuthorityRisk(t) <= c.authority * AuthorityRisk(u)
  BY <1>1, <1>2, ComponentRisks, Weighted
<1>7. /\ c.buyerDiversity * BuyerDiversityRisk(t) \in Int /\ c.buyerDiversity * BuyerDiversityRisk(u) \in Int
      /\ c.buyerDiversity * BuyerDiversityRisk(t) <= c.buyerDiversity * BuyerDiversityRisk(u)
  BY <1>1, <1>2, ComponentRisks, Weighted
<1>8. /\ c.flow * FlowRisk(t) \in Int /\ c.flow * FlowRisk(u) \in Int
      /\ c.flow * FlowRisk(t) <= c.flow * FlowRisk(u)
  BY <1>1, <1>2, VolumeShares, Weighted
<1>9. /\ c.creator * CreatorRisk(t) \in Int /\ c.creator * CreatorRisk(u) \in Int
      /\ c.creator * CreatorRisk(t) <= c.creator * CreatorRisk(u)
  BY <1>1, <1>2, CreatorRisks, Weighted
<1>10. Sum(t) \in Int /\ Sum(u) \in Int /\ Sum(t) <= Sum(u)
  BY <1>3, <1>4, <1>5, <1>6, <1>7, <1>8, <1>9
<1>11. RiskScore(t) = Sum(t) \div 100 /\ RiskScore(u) = Sum(u) \div 100
  BY DEF RiskScore, c
<1> HIDE DEF Sum
<1> QED BY <1>10, <1>11

\* The estimated slippage of an order grows as the pool shrinks, while the model's
\* coefficient does not rate a living pool worse than an empty one.
LEMMA SlippageMonotone ==
  ASSUME Config.slippageSizeImpact <= 2000,
         NEW t, TypedToken(t), NEW u, TypedToken(u), u.liquidity <= t.liquidity
  PROVE  Slippage(t) \in Int /\ Slippage(u) \in Int /\ Slippage(t) <= Slippage(u)
<1> DEFINE k == 5 * Config.slippageSizeImpact
           size == 20 * Config.maxTradeSize
           Impact(n) == IF n = 0 THEN 10000 ELSE (MinOf(size, n) * k) \div n
<1>1. /\ k \in Nat /\ k <= 10000 /\ size \in Nat /\ Config.baseSlippage \in Nat
      /\ t.liquidity \in Nat /\ u.liquidity \in Nat
  BY ConfigAssumption, TokenTypes DEF ConfigAssumption
<1>2. /\ Slippage(t) = Config.baseSlippage + Impact(t.liquidity)
      /\ Slippage(u) = Config.baseSlippage + Impact(u.liquidity)
  <2>1. \A m \in Nat : (m * 5 * Config.slippageSizeImpact) = m * k
    BY ConfigAssumption, SMTT(30) DEF ConfigAssumption
  <2>2. TwentySizes(t) = MinOf(size, t.liquidity) /\ TwentySizes(u) = MinOf(size, u.liquidity)
    BY DEF TwentySizes
  <2>3. MinOf(size, t.liquidity) \in Nat /\ MinOf(size, u.liquidity) \in Nat
    BY <1>1 DEF MinOf
  <2> HIDE DEF k, size
  <2> QED BY <2>1, <2>2, <2>3 DEF Slippage
<1> HIDE DEF k, size
<1>3. ASSUME NEW n \in Nat \ {0}
      PROVE  /\ Impact(n) \in Int /\ Impact(n) <= 10000
             /\ \A m \in Nat \ {0} : m <= n => Impact(n) <= Impact(m)
  <2>1. MinOf(size, n) \in Nat /\ MinOf(size, n) <= n
    BY <1>1 DEF MinOf
  <2>2. MinOf(size, n) * k \in Int /\ Impact(n) = (MinOf(size, n) * k) \div n
    BY <1>1, <2>1
  <2>3. (MinOf(size, n) * k) * 1 <= 10000 * n
    <3>1. MinOf(size, n) * k <= n * k /\ n * k <= n * 10000 /\ n * k \in Int
      BY <1>1, <2>1, Times
    <3> QED BY <2>2, <3>1
  <2>4. (MinOf(size, n) * k) \div n <= 10000 \div 1
    BY <2>2, <2>3, DivCross
  <2>5. ASSUME NEW m \in Nat \ {0}, m <= n PROVE Impact(n) <= Impact(m)
    <3>1. MinOf(size, m) \in Nat /\ MinOf(size, m) * k \in Int
      BY <1>1 DEF MinOf
    <3>2. MinOf(size, n) * m <= MinOf(size, m) * n
      <4>1. CASE size <= m
        <5>1. MinOf(size, n) = size /\ MinOf(size, m) = size
          BY <1>1, <2>5, <4>1 DEF MinOf
        <5> QED BY <1>1, <2>5, <5>1, Times
      <4>2. CASE ~(size <= m)
        <5>1. MinOf(size, m) = m
          BY <1>1, <4>2 DEF MinOf
        <5> QED BY <2>1, <5>1, Times
      <4> QED BY <4>1, <4>2
    <3>3. (MinOf(size, n) * m) * k <= (MinOf(size, m) * n) * k
      <4>1. MinOf(size, n) * m \in Int /\ MinOf(size, m) * n \in Int
        BY <2>1, <3>1
      <4> QED BY <1>1, <3>2, <4>1, Times
    <3>4. (MinOf(size, n) * k) * m <= (MinOf(size, m) * k) * n
      <4>1. \A x, y \in Nat : (x * k) * y = (x * y) * k
        BY <1>1, SMTT(30)
      <4> QED BY <2>1, <3>1, <3>3, <4>1
    <3>5. (MinOf(size, n) * k) \div n <= (MinOf(size, m) * k) \div m
      BY <2>2, <3>1, <3>4, DivCross
    <3> QED BY <3>5
  <2>6. Impact(n) \in Int
    BY <2>2, DivIs
  <2> QED BY <2>2, <2>4, <2>5, <2>6
<1>4. Impact(t.liquidity) \in Int /\ Impact(u.liquidity) \in Int
  BY <1>1, <1>3
<1>5. Impact(t.liquidity) <= Impact(u.liquidity)
  BY <1>1, <1>3
<1> HIDE DEF Impact
<1> QED BY <1>1, <1>2, <1>4, <1>5
-----------------------------------------------------------------------------
(* The wallet.                                                             *)

Wallets == [tradeCount : Nat, winCount : Nat, roiSum : Int, buyCount : Nat, buyUsd : Nat,
            earlyBuyCount : Nat, rugs : Nat, pnl : Int, peak : Nat, maxDrawdown : Nat]

\* Every component of the whale score is a whole number.
LEMMA WalletComponents ==
  ASSUME NEW w \in Wallets
  PROVE  /\ ConsistencyScore(w) \in Int /\ TimingScore(w) \in Int /\ SelectivityScore(w) \in Int
         /\ AvgRoi(w) \in Int /\ ExitQualityScore(w) \in Int /\ RugAvoidanceScore(w) \in Int
         /\ RecentPerformanceScore(w) \in Int
<1>1. /\ w.tradeCount \in Nat /\ w.winCount \in Nat /\ w.roiSum \in Int /\ w.buyCount \in Nat
      /\ w.buyUsd \in Nat /\ w.earlyBuyCount \in Nat /\ w.rugs \in Nat /\ w.pnl \in Int
      /\ w.peak \in Nat /\ w.maxDrawdown \in Nat
  BY DEF Wallets
<1>2. ConsistencyScore(w) \in Int
  <2> DEFINE a == (w.winCount + PriorWins) * 10000
                    * (SaturationTrades + MinOf(w.tradeCount, SaturationTrades))
             b == (w.tradeCount + PriorTrades) * 2 * SaturationTrades
  <2>1. a \in Int /\ b \in Nat \ {0}
    BY <1>1 DEF PriorWins, PriorTrades, SaturationTrades, MinOf
  <2>2. ConsistencyScore(w) = a \div b
    BY DEF ConsistencyScore
  <2> HIDE DEF a, b
  <2> QED BY <2>1, <2>2, DivIs
<1>3. TimingScore(w) \in Int
  <2> DEFINE a == w.earlyBuyCount * 10
             b == w.buyCount * 6
  <2>1. a \in Int /\ (w.buyCount # 0 => b \in Nat \ {0})
    BY <1>1
  <2>2. TimingScore(w) = IF w.buyCount = 0 THEN 0 ELSE Share(a, b)
    BY DEF TimingScore
  <2> HIDE DEF a, b
  <2> QED BY <2>1, <2>2, ShareType
<1>4. SelectivityScore(w) \in Int
  <2> DEFINE b == w.buyCount * 3 * Config.minWhaleBuySize
  <2>1. w.buyCount # 0 => b \in Nat \ {0}
    <3>1. \A n, m \in Nat \ {0} : n * 3 * m \in Nat \ {0}
      BY SMTT(30)
    <3> QED BY <1>1, <3>1, ConfigAssumption DEF ConfigAssumption
  <2>2. SelectivityScore(w) = IF w.buyCount = 0 THEN 0 ELSE Share(w.buyUsd, b)
    BY DEF SelectivityScore
  <2> HIDE DEF b
  <2> QED BY <1>1, <2>1, <2>2, ShareType
<1>5. AvgRoi(w) \in Int
  <2>1. w.tradeCount # 0 => w.roiSum \div w.tradeCount \in Int
    BY <1>1, DivIs
  <2> QED BY <2>1 DEF AvgRoi
<1>6. ExitQualityScore(w) \in Int
  <2>1. Share(AvgRoi(w), 80) \in Int /\ Share(100 - w.maxDrawdown, 100) \in Int
    BY <1>1, <1>5 DEF Share, Clamp, MinOf, MaxOf
  <2> QED BY <2>1 DEF ExitQualityScore
<1>7. RugAvoidanceScore(w) \in Int /\ RecentPerformanceScore(w) \in Int
  BY <1>1 DEF RugAvoidanceScore, RecentPerformanceScore, Share, Clamp, MinOf, MaxOf
<1> QED BY <1>2, <1>3, <1>4, <1>5, <1>6, <1>7

\* The whale score is the weighted sum of its components, in whole numbers.
LEMMA WhaleScoreMonotone ==
  ASSUME NEW v \in Wallets, NEW w \in Wallets, NoNegativeWeight(Config.walletWeights),
         ConsistencyScore(v) <= ConsistencyScore(w), TimingScore(v) <= TimingScore(w),
         SelectivityScore(v) <= SelectivityScore(w), ExitQualityScore(v) <= ExitQualityScore(w),
         RugAvoidanceScore(v) <= RugAvoidanceScore(w),
         RecentPerformanceScore(v) <= RecentPerformanceScore(w)
  PROVE  WhaleScore(v) <= WhaleScore(w)
<1> DEFINE c == Config.walletWeights
           Sum(x) == c.consistency * ConsistencyScore(x) + c.timing * TimingScore(x)
                       + c.selectivity * SelectivityScore(x) + c.exitQuality * ExitQualityScore(x)
                       + c.rugAvoidance * RugAvoidanceScore(x)
                       + c.recentPerformance * RecentPerformanceScore(x)
<1>1. /\ c.consistency \in Int /\ c.timing \in Int /\ c.selectivity \in Int
      /\ c.exitQuality \in Int /\ c.rugAvoidance \in Int /\ c.recentPerformance \in Int
      /\ DOMAIN c = {"consistency", "timing", "selectivity", "exitQuality", "rugAvoidance",
                     "recentPerformance"}
  BY WeightsAssumption DEF WeightsAssumption
<1>2. /\ c.consistency >= 0 /\ c.timing >= 0 /\ c.selectivity >= 0
      /\ c.exitQuality >= 0 /\ c.rugAvoidance >= 0 /\ c.recentPerformance >= 0
  BY <1>1 DEF NoNegativeWeight
<1> HIDE DEF c
<1>3. /\ c.consistency * ConsistencyScore(v) \in Int /\ c.consistency * ConsistencyScore(w) \in Int
      /\ c.consistency * ConsistencyScore(v) <= c.consistency * ConsistencyScore(w)
  BY <1>1, <1>2, WalletComponents, Weighted
<1>4. /\ c.timing * TimingScore(v) \in Int /\ c.timing * TimingScore(w) \in Int
      /\ c.timing * TimingScore(v) <= c.timing * TimingScore(w)
  BY <1>1, <1>2, WalletComponents, Weighted
<1>5. /\ c.selectivity * SelectivityScore(v) \in Int /\ c.selectivity * SelectivityScore(w) \in Int
      /\ c.selectivity * SelectivityScore(v) <= c.selectivity * SelectivityScore(w)
  BY <1>1, <1>2, WalletComponents, Weighted
<1>6. /\ c.exitQuality * ExitQualityScore(v) \in Int /\ c.exitQuality * ExitQualityScore(w) \in Int
      /\ c.exitQuality * ExitQualityScore(v) <= c.exitQuality * ExitQualityScore(w)
  BY <1>1, <1>2, WalletComponents, Weighted
<1>7. /\ c.rugAvoidance * RugAvoidanceScore(v) \in Int /\ c.rugAvoidance * RugAvoidanceScore(w) \in Int
      /\ c.rugAvoidance * RugAvoidanceScore(v) <= c.rugAvoidance * RugAvoidanceScore(w)
  BY <1>1, <1>2, WalletComponents, Weighted
<1>8. /\ c.recentPerformance * RecentPerformanceScore(v) \in Int
      /\ c.recentPerformance * RecentPerformanceScore(w) \in Int
      /\ c.recentPerformance * RecentPerformanceScore(v)
           <= c.recentPerformance * RecentPerformanceScore(w)
  BY <1>1, <1>2, WalletComponents, Weighted
<1>9. Sum(v) \in Int /\ Sum(w) \in Int /\ Sum(v) <= Sum(w)
  BY <1>3, <1>4, <1>5, <1>6, <1>7, <1>8
<1>10. WhaleScore(v) = Sum(v) \div 100 /\ WhaleScore(w) = Sum(w) \div 100
  BY DEF WhaleScore, c
<1> HIDE DEF Sum
<1> QED BY <1>9, <1>10

\* It has the type of its terms, whatever the weights.
LEMMA WhaleScoreType ==
  ASSUME NEW w \in Wallets
  PROVE  WhaleScore(w) \in Int
<1> DEFINE c == Config.walletWeights
<1>1. /\ c.consistency \in Int /\ c.timing \in Int /\ c.selectivity \in Int
      /\ c.exitQuality \in Int /\ c.rugAvoidance \in Int /\ c.recentPerformance \in Int
  BY WeightsAssumption DEF WeightsAssumption
<1> HIDE DEF c
<1>2. /\ c.consistency * ConsistencyScore(w) \in Int /\ c.timing * TimingScore(w) \in Int
      /\ c.selectivity * SelectivityScore(w) \in Int /\ c.exitQuality * ExitQualityScore(w) \in Int
      /\ c.rugAvoidance * RugAvoidanceScore(w) \in Int
      /\ c.recentPerformance * RecentPerformanceScore(w) \in Int
  BY <1>1, WalletComponents
<1> QED BY <1>2 DEF WhaleScore, c
-----------------------------------------------------------------------------
(* The signal and the gate.                                                *)

\* More flags never make the smaller penalty.
LEMMA PenaltyMonotone ==
  ASSUME NEW f \in Nat \cup {None}, NEW g \in Nat \cup {None}, MoreFlagged(f, g)
  PROVE  /\ ManipulationPenalty(f) \in Int /\ ManipulationPenalty(g) \in Int
         /\ ManipulationPenalty(f) <= ManipulationPenalty(g)
<1>1. Config.penaltyCap \in Nat /\ None \notin Int
  BY ConfigAssumption, TokenAssumption DEF ConfigAssumption, TokenAssumption
<1>2. \A h \in Nat : ManipulationPenalty(h) = MinOf(Config.penaltyCap, 20 * h) * 100
  BY <1>1 DEF ManipulationPenalty
<1>3. \A h \in Nat : ManipulationPenalty(h) \in Nat
  BY <1>1, <1>2 DEF MinOf
<1>4. \A h, k \in Nat : h <= k => ManipulationPenalty(h) <= ManipulationPenalty(k)
  BY <1>1, <1>2 DEF MinOf
<1>5. ManipulationPenalty(None) = 0
  BY DEF ManipulationPenalty
<1> QED BY <1>3, <1>4, <1>5 DEF MoreFlagged

\* A riskier token or a new flag never raises the signal of the same wallet.
LEMMA SignalMonotone ==
  ASSUME NoNegativeWeight(Config.riskWeights), NoNegativeWeight(Config.signalWeights),
         NEW w \in Wallets, NEW t, TypedToken(t), NEW u, TypedToken(u), RiskierToken(t, u),
         NEW f \in Nat \cup {None}, NEW g \in Nat \cup {None}, MoreFlagged(f, g)
  PROVE  /\ SignalScore(w, t, f) \in Int /\ SignalScore(w, u, g) \in Int
         /\ SignalScore(w, u, g) <= SignalScore(w, t, f)
<1> DEFINE c == Config.signalWeights
           whale == Clamp(WhaleScore(w))
           quality(x) == Clamp(10000 - RiskScore(x))
           liquid(x) == Share(x.liquidity, 50000)
           buyers(x) == Share(x.buyers, 10)
           Sum(x, h) == c.whaleQuality * whale + c.tokenQuality * quality(x)
                          + c.liquidity * liquid(x) + c.momentum * BuyingMomentum(x)
                          + c.independentBuyers * buyers(x) + c.early * EarlyEntryQuality(x)
                          - c.manipulation * ManipulationPenalty(h)
<1>1. /\ c.whaleQuality \in Int /\ c.tokenQuality \in Int /\ c.liquidity \in Int /\ c.momentum \in Int
      /\ c.independentBuyers \in Int /\ c.early \in Int /\ c.manipulation \in Int
      /\ DOMAIN c = {"whaleQuality", "tokenQuality", "liquidity", "momentum",
                     "independentBuyers", "early", "manipulation"}
  BY WeightsAssumption DEF WeightsAssumption
<1>2. /\ c.tokenQuality >= 0 /\ c.liquidity >= 0 /\ c.momentum >= 0
      /\ c.independentBuyers >= 0 /\ c.manipulation >= 0
  BY <1>1 DEF NoNegativeWeight
<1>3. whale \in Int
  BY WhaleScoreType, ClampType
<1>4. quality(t) \in Int /\ quality(u) \in Int /\ quality(u) <= quality(t)
  BY RiskScoreMonotone DEF Clamp, MinOf, MaxOf
<1>5. /\ t.liquidity \in Nat /\ u.liquidity \in Nat /\ u.liquidity <= t.liquidity
      /\ t.buyers \in Nat /\ u.buyers \in Nat /\ u.buyers <= t.buyers
      /\ t.age \in Nat /\ u.age = t.age
  BY TokenTypes DEF RiskierToken
<1>6. liquid(t) \in Int /\ liquid(u) \in Int /\ liquid(u) <= liquid(t)
  BY <1>5 DEF Share, Clamp, MinOf, MaxOf
<1>7. buyers(t) \in Int /\ buyers(u) \in Int /\ buyers(u) <= buyers(t)
  BY <1>5 DEF Share, Clamp, MinOf, MaxOf
<1>8. EarlyEntryQuality(t) \in Int /\ EarlyEntryQuality(u) = EarlyEntryQuality(t)
  BY <1>5 DEF EarlyEntryQuality, Clamp, MinOf, MaxOf
<1>9. /\ SignalScore(w, t, f) = Clamp(Sum(t, f) \div 100)
      /\ SignalScore(w, u, g) = Clamp(Sum(u, g) \div 100)
  BY DEF SignalScore
<1> HIDE DEF c, whale, quality, liquid, buyers
<1>10. /\ c.tokenQuality * quality(u) \in Int /\ c.tokenQuality * quality(t) \in Int
       /\ c.tokenQuality * quality(u) <= c.tokenQuality * quality(t)
  BY <1>1, <1>2, <1>4, Weighted
<1>11. /\ c.liquidity * liquid(u) \in Int /\ c.liquidity * liquid(t) \in Int
       /\ c.liquidity * liquid(u) <= c.liquidity * liquid(t)
  BY <1>1, <1>2, <1>6, Weighted
<1>12. /\ c.momentum * BuyingMomentum(u) \in Int /\ c.momentum * BuyingMomentum(t) \in Int
       /\ c.momentum * BuyingMomentum(u) <= c.momentum * BuyingMomentum(t)
  BY <1>1, <1>2, VolumeShares, Weighted
<1>13. /\ c.independentBuyers * buyers(u) \in Int /\ c.independentBuyers * buyers(t) \in Int
       /\ c.independentBuyers * buyers(u) <= c.independentBuyers * buyers(t)
  BY <1>1, <1>2, <1>7, Weighted
<1>14. /\ c.manipulation * ManipulationPenalty(f) \in Int
       /\ c.manipulation * ManipulationPenalty(g) \in Int
       /\ c.manipulation * ManipulationPenalty(f) <= c.manipulation * ManipulationPenalty(g)
  BY <1>1, <1>2, PenaltyMonotone, Weighted
<1>15. c.whaleQuality * whale \in Int /\ c.early * EarlyEntryQuality(t) \in Int
       /\ c.early * EarlyEntryQuality(u) = c.early * EarlyEntryQuality(t)
  BY <1>1, <1>3, <1>8
<1>16. Sum(t, f) \in Int /\ Sum(u, g) \in Int /\ Sum(u, g) <= Sum(t, f)
  BY <1>10, <1>11, <1>12, <1>13, <1>14, <1>15
<1> HIDE DEF Sum
<1>17. /\ Sum(t, f) \div 100 \in Int /\ Sum(u, g) \div 100 \in Int
       /\ Sum(u, g) \div 100 <= Sum(t, f) \div 100
  BY <1>16
<1>18. Clamp(Sum(u, g) \div 100) <= Clamp(Sum(t, f) \div 100)
  BY <1>17, ClampMonotone
<1>19. Clamp(Sum(u, g) \div 100) \in Int /\ Clamp(Sum(t, f) \div 100) \in Int
  BY <1>17, ClampType
<1> QED BY <1>9, <1>18, <1>19

\* Every reason to refuse a buy stays one.
LEMMA ReasonsStay ==
  ASSUME NoNegativeWeight(Config.riskWeights), NoNegativeWeight(Config.signalWeights),
         Config.slippageSizeImpact <= 2000,
         NEW w \in Wallets, NEW t, TypedToken(t), NEW u, TypedToken(u), RiskierToken(t, u),
         NEW f \in Nat \cup {None}, NEW g \in Nat \cup {None}, MoreFlagged(f, g)
  PROVE  Reasons(w, t, f) \subseteq Reasons(w, u, g)
<1> DEFINE before == Blocks(w, t, f)
           after  == Blocks(w, u, g)
           checks == {"whale", "tokenRisk", "liquidity", "dex", "age", "flags", "buyers",
                      "momentum", "slippage", "signal"}
<1>1. /\ t.liquidity \in Nat /\ u.liquidity \in Nat /\ u.liquidity <= t.liquidity
      /\ t.buyers \in Nat /\ u.buyers \in Nat /\ u.buyers <= t.buyers
      /\ t.buyVolume \in Nat /\ u.buyVolume \in Nat /\ u.buyVolume <= t.buyVolume
      /\ u.age = t.age /\ (u.dexAllowed => t.dexAllowed)
  BY TokenTypes DEF RiskierToken
<1>2. /\ Config.maxTokenRisk \in Int /\ Config.minLiquidity \in Int /\ Config.minBuyers \in Int
      /\ Config.minBuyVolume \in Int /\ Config.maxSlippage \in Int /\ Config.minSignalScore \in Int
      /\ None \notin Int
  BY ConfigAssumption, TokenAssumption DEF ConfigAssumption, TokenAssumption
<1>4. RiskScore(t) > Config.maxTokenRisk => RiskScore(u) > Config.maxTokenRisk
  BY <1>2, RiskScoreMonotone
<1>5. /\ t.liquidity < Config.minLiquidity => u.liquidity < Config.minLiquidity
      /\ t.buyers < Config.minBuyers => u.buyers < Config.minBuyers
      /\ t.buyVolume < Config.minBuyVolume => u.buyVolume < Config.minBuyVolume
  BY <1>1, <1>2
<1>6. ~t.dexAllowed => ~u.dexAllowed
  BY <1>1
<1>7. t.age \notin Config.minAge..Config.maxAge => u.age \notin Config.minAge..Config.maxAge
  BY <1>1
<1>8. f # None /\ f > 0 => g # None /\ g > 0
  BY <1>2 DEF MoreFlagged
<1>9. Slippage(t) > Config.maxSlippage => Slippage(u) > Config.maxSlippage
  BY <1>1, <1>2, SlippageMonotone
<1>10. SignalScore(w, t, f) < Config.minSignalScore => SignalScore(w, u, g) < Config.minSignalScore
  <2>1. /\ SignalScore(w, t, f) \in Int /\ SignalScore(w, u, g) \in Int
        /\ SignalScore(w, u, g) <= SignalScore(w, t, f)
    BY SignalMonotone
  <2> QED BY <1>2, <2>1
<1> DEFINE whale == ~PassedHardGate(w)
           tokenRisk(x) == RiskScore(x) > Config.maxTokenRisk
           liquidity(x) == x.liquidity < Config.minLiquidity
           dex(x) == ~x.dexAllowed
           age(x) == x.age \notin Config.minAge..Config.maxAge
           flagged(h) == h # None /\ h > 0
           buyers(x) == x.buyers < Config.minBuyers
           momentum(x) == x.buyVolume < Config.minBuyVolume
           slippage(x) == Slippage(x) > Config.maxSlippage
           signal(x, h) == SignalScore(w, x, h) < Config.minSignalScore
<1>11. /\ tokenRisk(t) => tokenRisk(u)
       /\ liquidity(t) => liquidity(u)
       /\ dex(t) => dex(u)
       /\ age(t) => age(u)
       /\ flagged(f) => flagged(g)
       /\ buyers(t) => buyers(u)
       /\ momentum(t) => momentum(u)
       /\ slippage(t) => slippage(u)
       /\ signal(t, f) => signal(u, g)
  BY <1>4, <1>5, <1>6, <1>7, <1>8, <1>9, <1>10
<1>12. /\ before = [whale |-> whale, tokenRisk |-> tokenRisk(t), liquidity |-> liquidity(t),
                    dex |-> dex(t), age |-> age(t), flags |-> flagged(f), buyers |-> buyers(t),
                    momentum |-> momentum(t), slippage |-> slippage(t), signal |-> signal(t, f)]
       /\ after = [whale |-> whale, tokenRisk |-> tokenRisk(u), liquidity |-> liquidity(u),
                   dex |-> dex(u), age |-> age(u), flags |-> flagged(g), buyers |-> buyers(u),
                   momentum |-> momentum(u), slippage |-> slippage(u), signal |-> signal(u, g)]
  BY DEF Blocks
<1> HIDE DEF whale, tokenRisk, liquidity, dex, age, flagged, buyers, momentum, slippage, signal,
             before, after
<1>13. /\ before.whale => after.whale
       /\ before.tokenRisk => after.tokenRisk
       /\ before.liquidity => after.liquidity
       /\ before.dex => after.dex
       /\ before.age => after.age
  BY <1>11, <1>12
<1>14. /\ before.flags => after.flags
       /\ before.buyers => after.buyers
       /\ before.momentum => after.momentum
       /\ before.slippage => after.slippage
       /\ before.signal => after.signal
  BY <1>11, <1>12
<1>15. DOMAIN before = checks /\ DOMAIN after = checks
  BY <1>12
<1>16. \A r \in checks : before[r] => after[r]
  BY <1>13, <1>14
<1> QED BY <1>15, <1>16 DEF Reasons, before, after
-----------------------------------------------------------------------------
(* The inductive invariant: the types, and what the accumulator's fields   *)
(* say about one another.                                                  *)

\* The drawdown from the last peak is in the record of the worst one.
Consistent(w) ==
  /\ w.winCount <= w.tradeCount
  /\ w.tradeCount = 0 => w.roiSum = 0
  /\ w.pnl <= w.peak
  /\ w.peak > 0 => ((w.peak - w.pnl) * 100) \div w.peak <= w.maxDrawdown

IInv == /\ wallet \in Wallets /\ Consistent(wallet)
        /\ TypedToken(token) /\ flags \in Nat \cup {None}

\* A past of round trips, whatever the returns, is a consistent record.
LEMMA InitIInv == Init => IInv
<1> SUFFICES ASSUME Init PROVE IInv
  OBVIOUS
<1>1. TypedToken(token) /\ flags \in Nat \cup {None}
  BY TokenAssumption DEF TokenAssumption, Init, TypedToken
<1>2. PICK l \in 0..MaxLosses, w \in 0..MaxWins : wallet = Past(l, w)
  BY DEF Init
<1> DEFINE worst == CHOOSE r \in Rois : \A s \in Rois : r <= s
           best  == CHOOSE r \in Rois : \A s \in Rois : r >= s
           sum == w * best + l * worst
           pnl == (Lot * sum) \div 100
<1>3. worst \in Int /\ best \in Int
  <2>1. PICK lo \in Rois, hi \in Rois : \A r \in Rois : lo <= r /\ r <= hi
    BY HistoryAssumption DEF HistoryAssumption
  <2>2. Rois \subseteq Int
    BY HistoryAssumption DEF HistoryAssumption
  <2>3. worst \in Rois
    BY <2>1
  <2>4. best \in Rois
    <3>1. \A r \in Rois : hi >= r
      BY <2>1, <2>2
    <3> QED BY <2>1, <3>1
  <2> QED BY <2>2, <2>3, <2>4
<1>4. l \in Nat /\ w \in Nat /\ Lot \in Nat
  BY HistoryAssumption DEF HistoryAssumption
<1>5. /\ wallet = [tradeCount |-> l + w, winCount |-> w, roiSum |-> sum,
                   buyCount |-> l + w, buyUsd |-> (l + w) * Lot, earlyBuyCount |-> (l + w) \div 2,
                   rugs |-> 0, pnl |-> pnl, peak |-> MaxOf(0, pnl), maxDrawdown |-> 0]
  BY <1>2 DEF Past
<1> HIDE DEF worst, best
<1>6. sum \in Int /\ (l + w = 0 => sum = 0)
  <2>1. w * best \in Int /\ l * worst \in Int
    BY <1>3, <1>4
  <2>2. l + w = 0 => w * best = 0 /\ l * worst = 0
    BY <1>3, <1>4
  <2> QED BY <2>1, <2>2
<1> HIDE DEF sum
<1>7. pnl \in Int
  <2>1. Lot * sum \in Int
    BY <1>4, <1>6
  <2> QED BY <2>1
<1> HIDE DEF pnl
<1>8. MaxOf(0, pnl) \in Nat /\ pnl <= MaxOf(0, pnl) /\ (MaxOf(0, pnl) > 0 => MaxOf(0, pnl) = pnl)
  BY <1>7 DEF MaxOf
<1>9. (l + w) * Lot \in Nat /\ (l + w) \div 2 \in Nat
  <2>1. \A a, b \in Nat : a * b \in Nat
    BY SMTT(30)
  <2> QED BY <1>4, <2>1
<1>10. wallet \in Wallets
  BY <1>4, <1>5, <1>6, <1>7, <1>8, <1>9 DEF Wallets
<1>11. Consistent(wallet)
  <2>1. \A p \in Nat \ {0} : ((p - p) * 100) \div p <= 0
    <3>1. \A p \in Nat \ {0} : 0 \div p = 0
      BY SMTT(30)
    <3> QED BY <3>1
  <2>2. wallet.peak = MaxOf(0, pnl) /\ wallet.pnl = pnl /\ wallet.maxDrawdown = 0
    BY <1>5
  <2>3. wallet.peak > 0 => ((wallet.peak - wallet.pnl) * 100) \div wallet.peak <= wallet.maxDrawdown
    BY <1>8, <2>1, <2>2
  <2>4. /\ wallet.winCount <= wallet.tradeCount
        /\ wallet.tradeCount = 0 => wallet.roiSum = 0
    BY <1>4, <1>5, <1>6
  <2>5. wallet.pnl <= wallet.peak
    BY <1>8, <2>2
  <2> QED BY <2>3, <2>4, <2>5 DEF Consistent
<1> QED BY <1>1, <1>10, <1>11 DEF IInv

\* What a round trip makes of the accumulator.
LEMMA SellEffect ==
  ASSUME IInv, NEW roi \in Rois, NEW isRugged \in BOOLEAN, Sells(roi, isRugged)
  PROVE  /\ roi \in Int /\ wallet' \in Wallets /\ Consistent(wallet')
         /\ wallet'.tradeCount = wallet.tradeCount + 1
         /\ wallet'.winCount = wallet.winCount + IF roi > 0 THEN 1 ELSE 0
         /\ wallet'.roiSum = wallet.roiSum + roi
         /\ wallet'.pnl = wallet.pnl + (Lot * roi) \div 100
         /\ wallet'.rugs >= wallet.rugs
         /\ wallet'.maxDrawdown >= wallet.maxDrawdown
         /\ roi > 0 => wallet'.maxDrawdown = wallet.maxDrawdown /\ wallet'.pnl >= wallet.pnl
         /\ roi <= 0 => wallet'.pnl <= wallet.pnl
         /\ UNCHANGED <<wallet.buyCount, wallet.buyUsd, wallet.earlyBuyCount>>
<1> DEFINE pnl  == wallet.pnl + (Lot * roi) \div 100
           peak == MaxOf(wallet.peak, pnl)
           fall == ((peak - pnl) * 100) \div peak
           worst == IF peak > 0 THEN MaxOf(wallet.maxDrawdown, fall) ELSE wallet.maxDrawdown
<1>1. /\ wallet.tradeCount \in Nat /\ wallet.winCount \in Nat /\ wallet.roiSum \in Int
      /\ wallet.buyCount \in Nat /\ wallet.buyUsd \in Nat /\ wallet.earlyBuyCount \in Nat
      /\ wallet.rugs \in Nat /\ wallet.pnl \in Int /\ wallet.peak \in Nat
      /\ wallet.maxDrawdown \in Nat /\ wallet \in Wallets
  BY DEF IInv, Wallets
<1>2. roi \in Int /\ Lot \in Nat
  BY HistoryAssumption DEF HistoryAssumption
<1>3. /\ (Lot * roi) \div 100 \in Int
      /\ roi > 0 => (Lot * roi) \div 100 >= 0
      /\ roi <= 0 => (Lot * roi) \div 100 <= 0
  <2>1. /\ Lot * roi \in Int /\ (roi > 0 => Lot * roi >= 0) /\ (roi <= 0 => Lot * roi <= 0)
    BY <1>2, SMTT(30)
  <2> QED BY <2>1
<1>4. wallet' = [wallet EXCEPT
           !.tradeCount = wallet.tradeCount + 1,
           !.winCount = wallet.winCount + IF roi > 0 THEN 1 ELSE 0,
           !.roiSum = wallet.roiSum + roi, !.pnl = pnl, !.peak = peak,
           !.rugs = wallet.rugs + IF isRugged THEN 1 ELSE 0,
           !.maxDrawdown = worst]
  BY DEF Sells
<1>5. pnl \in Int /\ (roi > 0 => pnl >= wallet.pnl) /\ (roi <= 0 => pnl <= wallet.pnl)
  BY <1>1, <1>3
<1> HIDE DEF pnl
<1>6. peak \in Nat /\ pnl <= peak /\ wallet.peak <= peak
  BY <1>1, <1>5 DEF MaxOf
<1>7. peak > 0 => fall \in Int
  <2>1. (peak - pnl) * 100 \in Int
    BY <1>5, <1>6
  <2> QED BY <1>6, <2>1, DivIs
<1>8. roi > 0 /\ peak > 0 => fall <= wallet.maxDrawdown
  <2> SUFFICES ASSUME roi > 0, peak > 0 PROVE fall <= wallet.maxDrawdown
    OBVIOUS
  <2>1. CASE peak = pnl
    <3>1. (peak - pnl) * 100 = 0
      BY <1>5, <2>1
    <3>2. \A p \in Nat \ {0} : 0 \div p = 0
      BY SMTT(30)
    <3> QED BY <1>1, <1>6, <3>1, <3>2
  <2>2. CASE peak = wallet.peak
    <3>1. (peak - pnl) * 100 <= (peak - wallet.pnl) * 100
      BY <1>1, <1>5, <1>6
    <3>2. (peak - pnl) * 100 \in Int /\ (peak - wallet.pnl) * 100 \in Int
      BY <1>1, <1>5, <1>6
    <3>3. fall <= ((peak - wallet.pnl) * 100) \div peak
      BY <1>6, <3>1, <3>2, DivMonotone
    <3>4. ((peak - wallet.pnl) * 100) \div peak <= wallet.maxDrawdown
      BY <2>2 DEF IInv, Consistent
    <3>5. ((peak - wallet.pnl) * 100) \div peak \in Int
      BY <1>6, <3>2, DivIs
    <3> HIDE DEF fall, peak
    <3> QED BY <1>1, <1>7, <3>3, <3>4, <3>5
  <2> QED BY <2>1, <2>2 DEF MaxOf
<1> HIDE DEF fall, peak
<1>9. worst \in Nat /\ worst >= wallet.maxDrawdown /\ (peak > 0 => fall <= worst)
      /\ (roi > 0 => worst = wallet.maxDrawdown)
  BY <1>1, <1>7, <1>8 DEF MaxOf
<1> HIDE DEF worst
<1>10. /\ wallet'.tradeCount = wallet.tradeCount + 1
       /\ wallet'.winCount = wallet.winCount + IF roi > 0 THEN 1 ELSE 0
       /\ wallet'.roiSum = wallet.roiSum + roi /\ wallet'.pnl = pnl /\ wallet'.peak = peak
       /\ wallet'.rugs = wallet.rugs + IF isRugged THEN 1 ELSE 0
       /\ wallet'.maxDrawdown = worst
       /\ wallet'.buyCount = wallet.buyCount /\ wallet'.buyUsd = wallet.buyUsd
       /\ wallet'.earlyBuyCount = wallet.earlyBuyCount
  BY <1>1, <1>4 DEF Wallets
<1>11. /\ wallet.winCount + (IF roi > 0 THEN 1 ELSE 0) \in Nat
       /\ wallet.rugs + (IF isRugged THEN 1 ELSE 0) \in Nat
       /\ wallet.rugs + (IF isRugged THEN 1 ELSE 0) >= wallet.rugs
       /\ wallet.winCount + (IF roi > 0 THEN 1 ELSE 0) <= wallet.tradeCount + 1
       /\ wallet.tradeCount + 1 \in Nat /\ wallet.roiSum + roi \in Int
       /\ wallet.tradeCount + 1 # 0
  BY <1>1, <1>2 DEF IInv, Consistent
<1>12. wallet' \in Wallets
  BY <1>1, <1>4, <1>5, <1>6, <1>9, <1>11 DEF Wallets
<1>13. Consistent(wallet')
  BY <1>6, <1>9, <1>10, <1>11 DEF Consistent, fall
<1>14. wallet'.pnl = wallet.pnl + (Lot * roi) \div 100
  BY <1>10 DEF pnl
<1> QED BY <1>2, <1>5, <1>9, <1>10, <1>11, <1>12, <1>13, <1>14

\* Every step keeps the invariant.
LEMMA NextIInv == IInv /\ [Next]_vars => IInv'
<1> SUFFICES ASSUME IInv, [Next]_vars PROVE IInv'
  OBVIOUS
<1>1. ASSUME NEW early \in BOOLEAN, Buys(Lot, early) PROVE IInv'
  <2>1. Lot \in Nat /\ wallet \in Wallets
    BY HistoryAssumption DEF HistoryAssumption, IInv
  <2>2. UNCHANGED <<token, flags>>
    BY <1>1 DEF Buys
  <2> DEFINE n == wallet.earlyBuyCount + IF early THEN 1 ELSE 0
  <2>3. n \in Nat /\ wallet.buyCount + 1 \in Nat /\ wallet.buyUsd + Lot \in Nat
    BY <2>1 DEF Wallets
  <2>4. wallet' = [wallet EXCEPT !.buyCount = wallet.buyCount + 1, !.buyUsd = wallet.buyUsd + Lot,
                                 !.earlyBuyCount = n]
    BY <1>1 DEF Buys
  <2> HIDE DEF n
  <2>5. wallet' \in Wallets
    BY <2>1, <2>3, <2>4 DEF Wallets
  <2>6. /\ wallet'.winCount = wallet.winCount /\ wallet'.tradeCount = wallet.tradeCount
        /\ wallet'.roiSum = wallet.roiSum /\ wallet'.pnl = wallet.pnl
        /\ wallet'.peak = wallet.peak /\ wallet'.maxDrawdown = wallet.maxDrawdown
    BY <2>1, <2>4 DEF Wallets
  <2>7. Consistent(wallet')
    BY <2>6 DEF IInv, Consistent
  <2> QED BY <2>2, <2>5, <2>7 DEF IInv
<1>2. ASSUME NEW roi \in Rois, NEW isRugged \in BOOLEAN, Sells(roi, isRugged) PROVE IInv'
  <2>1. UNCHANGED <<token, flags>>
    BY <1>2 DEF Sells
  <2> QED BY <1>2, <2>1, SellEffect DEF IInv
<1>3. ASSUME NEW f \in DOMAIN TokenValues, NEW v \in TokenValues[f], TokenMoves(f, v) PROVE IInv'
  <2>1. f \in TokenFields /\ v \in TokenSets[f]
    BY TokenAssumption DEF TokenAssumption
  <2>2. token' = [token EXCEPT ![f] = v] /\ UNCHANGED <<wallet, flags>>
    BY <1>3 DEF TokenMoves
  <2>3. TypedToken(token')
    BY <2>1, <2>2 DEF IInv, TypedToken
  <2> QED BY <2>2, <2>3 DEF IInv
<1>4. ASSUME NEW f \in {None, 0, 1, 2}, ClusterMoves(f) PROVE IInv'
  BY <1>4 DEF ClusterMoves, IInv
<1>5. CASE UNCHANGED vars
  BY <1>5 DEF vars, IInv
<1> QED BY <1>1, <1>2, <1>3, <1>4, <1>5 DEF Next

\* The types of the accumulators, the token and the flags, and the accumulator's
\* consistency, for every history.
THEOREM RecordsConsistent == Spec => []IInv
<1> QED BY InitIInv, NextIInv, PTL DEF Spec
-----------------------------------------------------------------------------
(* What the scores promise.                                                *)

\* Worse facts never look better: a token that only becomes riskier never lowers its risk
\* score, raises a signal or loses a reason to be refused; whatever the limits, with no
\* negative weight, and a slippage coefficient of at most twenty.
THEOREM RiskierLooksNoBetter ==
  ASSUME NoNegativeWeight(Config.riskWeights), NoNegativeWeight(Config.signalWeights),
         Config.slippageSizeImpact <= 2000
  PROVE  Spec => RiskierNeverLooksBetter
<1>1. IInv /\ IInv' =>
        [RiskierToken(token, token') /\ MoreFlagged(flags, flags') /\ UNCHANGED wallet =>
           /\ RiskScore(token') >= RiskScore(token)
           /\ SignalScore(wallet, token', flags') <= SignalScore(wallet, token, flags)
           /\ Reasons(wallet, token, flags) \subseteq Reasons(wallet, token', flags')]_vars
  <2> SUFFICES ASSUME IInv, IInv', RiskierToken(token, token'), MoreFlagged(flags, flags')
               PROVE  /\ RiskScore(token') >= RiskScore(token)
                      /\ SignalScore(wallet, token', flags') <= SignalScore(wallet, token, flags)
                      /\ Reasons(wallet, token, flags) \subseteq Reasons(wallet, token', flags')
    OBVIOUS
  <2>1. /\ wallet \in Wallets /\ TypedToken(token) /\ TypedToken(token')
        /\ flags \in Nat \cup {None} /\ flags' \in Nat \cup {None}
    BY DEF IInv
  <2>2. RiskScore(token') >= RiskScore(token)
    BY <2>1, RiskScoreMonotone
  <2>3. SignalScore(wallet, token', flags') <= SignalScore(wallet, token, flags)
    BY <2>1, SignalMonotone
  <2>4. Reasons(wallet, token, flags) \subseteq Reasons(wallet, token', flags')
    BY <2>1, ReasonsStay
  <2> QED BY <2>2, <2>3, <2>4
<1> QED BY <1>1, RecordsConsistent, PTL DEF RiskierNeverLooksBetter

\* Not even a perfect record on a sample thinner than the gate asks for outscores 128 wins
\* in 200, whatever the wallet has done, while the gate asks for at most 15 round trips;
\* with 16 a perfect 15 would.
THEOREM ThinSamplesOutscored ==
  ASSUME Config.minTradeCount <= 15
  PROVE  Spec => []ThinSampleNeverOutscores
<1>1. IInv => ThinSampleNeverOutscores
  <2> SUFFICES ASSUME IInv, wallet.tradeCount < Config.minTradeCount
               PROVE  ConsistencyScore(wallet) < ConsistencyScore([tradeCount |-> 200, winCount |-> 128])
    BY DEF ThinSampleNeverOutscores
  <2> DEFINE n == wallet.tradeCount
             w == wallet.winCount
  <2>1. n \in 0..14 /\ w \in 0..n
    BY ConfigAssumption DEF ConfigAssumption, IInv, Consistent, Wallets
  <2>2. ConsistencyScore([tradeCount |-> 200, winCount |-> 128]) = 6359
    BY DEF ConsistencyScore, PriorWins, PriorTrades, SaturationTrades, MinOf
  <2>3. ConsistencyScore(wallet) = ((w + 3) * 10000 * (30 + n)) \div ((n + 6) * 60)
    BY <2>1 DEF ConsistencyScore, PriorWins, PriorTrades, SaturationTrades, MinOf
  <2> HIDE DEF n, w
  <2>4. (w + 3) * (10000 * (30 + n)) <= (n + 3) * (10000 * (30 + n))
    BY <2>1, Times
  <2>5. (n + 3) * (10000 * (30 + n)) < 6359 * ((n + 6) * 60)
    <3>1. n \in {0, 1, 2, 3, 4, 5, 6, 7, 8, 9, 10, 11, 12, 13, 14}
      BY <2>1
    <3> QED BY <3>1
  <2>6. (w + 3) * 10000 * (30 + n) = (w + 3) * (10000 * (30 + n))
    BY <2>1, SMTT(30)
  <2> DEFINE a == (w + 3) * 10000 * (30 + n)
             b == (n + 6) * 60
  <2>7. a \in Int /\ b \in Nat \ {0} /\ a < 6359 * b /\ 6359 * b = b * 6359
    <3>1. /\ (w + 3) * (10000 * (30 + n)) \in Int /\ (n + 3) * (10000 * (30 + n)) \in Int
      BY <2>1
    <3> QED BY <2>1, <2>4, <2>5, <2>6, <3>1
  <2>8. ConsistencyScore(wallet) = a \div b
    BY <2>3
  <2> HIDE DEF a, b
  <2>9. a \div b \in Int /\ ~(6359 <= a \div b)
    BY <2>7, DivIs
  <2> QED BY <2>2, <2>8, <2>9
<1> QED BY <1>1, RecordsConsistent, PTL

\* The win rate counts for more after a win, and for less after a loss.
LEMMA ConsistencyFollows ==
  ASSUME NEW v \in Wallets, NEW w \in Wallets, v.winCount <= v.tradeCount,
         w.tradeCount = v.tradeCount + 1
  PROVE  /\ w.winCount = v.winCount + 1 => ConsistencyScore(v) <= ConsistencyScore(w)
         /\ w.winCount = v.winCount => ConsistencyScore(w) <= ConsistencyScore(v)
<1> DEFINE n == v.tradeCount
           k == v.winCount
           full(m) == 30 + MinOf(m, 30)
           num(j, m) == (j + 3) * 10000 * full(m)
           den(m) == (m + 6) * 2 * 30
<1>1. n \in Nat /\ k \in Nat /\ k <= n /\ w.tradeCount = n + 1
  BY DEF Wallets
<1>2. /\ ConsistencyScore(v) = num(k, n) \div den(n)
      /\ ConsistencyScore(w) = num(w.winCount, n + 1) \div den(n + 1)
  BY <1>1 DEF ConsistencyScore, PriorWins, PriorTrades, SaturationTrades
<1> HIDE DEF n, k
<1>3. full(n) \in Nat /\ full(n + 1) \in Nat /\ full(n) <= full(n + 1)
  BY <1>1 DEF MinOf
<1>4. full(n + 1) * (n + 6) <= full(n) * (n + 7)
  <2>1. CASE n < 30
    <3>1. full(n) = 30 + n /\ full(n + 1) = 31 + n
      BY <1>1, <2>1 DEF MinOf
    <3>2. (31 + n) * (n + 6) <= (30 + n) * (n + 7)
      <4>1. (31 + n) * (n + 6) = n * n + 37 * n + 186 /\ (30 + n) * (n + 7) = n * n + 37 * n + 210
        BY <1>1, SMTT(30)
      <4>2. n * n \in Int
        BY <1>1
      <4> QED BY <1>1, <4>1, <4>2
    <3> HIDE DEF full
    <3> QED BY <3>1, <3>2
  <2>2. CASE n >= 30
    BY <1>1, <2>2 DEF MinOf
  <2> QED BY <1>1, <2>1, <2>2
<1>5. (k + 3) * (n + 7) <= (k + 4) * (n + 6)
  <2>1. (k + 3) * (n + 7) = k * n + 7 * k + 3 * n + 21 /\ (k + 4) * (n + 6) = k * n + 6 * k + 4 * n + 24
    BY <1>1, SMTT(30)
  <2>2. k * n \in Int
    BY <1>1
  <2> QED BY <1>1, <2>1, <2>2
<1> HIDE DEF full
<1>6. /\ num(k, n) \in Int /\ num(k + 1, n + 1) \in Int /\ num(k, n + 1) \in Int
      /\ den(n) \in Nat \ {0} /\ den(n + 1) \in Nat \ {0}
  BY <1>1, <1>3
<1>7. num(k, n) * den(n + 1) <= num(k + 1, n + 1) * den(n)
  <2> DEFINE x == (k + 3) * (n + 7)
             y == (k + 4) * (n + 6)
  <2>1. x \in Nat /\ y \in Nat
    <3>1. \A a, b \in Nat : a * b \in Nat
      BY SMTT(30)
    <3> QED BY <1>1, <3>1
  <2>2. /\ num(k, n) * den(n + 1) = 600000 * (x * full(n))
        /\ num(k + 1, n + 1) * den(n) = 600000 * (y * full(n + 1))
    BY <1>1, <1>3, SMTT(60)
  <2> HIDE DEF x, y
  <2>3. x * full(n) <= x * full(n + 1) /\ x * full(n + 1) <= y * full(n + 1)
    BY <1>3, <1>5, <2>1, Times DEF x, y
  <2>4. x * full(n) \in Int /\ x * full(n + 1) \in Int /\ y * full(n + 1) \in Int
    BY <1>3, <2>1
  <2> HIDE DEF num, den
  <2> QED BY <2>2, <2>3, <2>4
<1>8. num(k, n + 1) * den(n) <= num(k, n) * den(n + 1)
  <2> DEFINE x == full(n + 1) * (n + 6)
             y == full(n) * (n + 7)
  <2>1. x \in Int /\ y \in Int /\ x <= y
    BY <1>1, <1>3, <1>4
  <2>2. /\ num(k, n + 1) * den(n) = 600000 * ((k + 3) * x)
        /\ num(k, n) * den(n + 1) = 600000 * ((k + 3) * y)
    BY <1>1, <1>3, SMTT(60)
  <2> HIDE DEF x, y, num, den
  <2>3. (k + 3) * x <= (k + 3) * y /\ (k + 3) * x \in Int /\ (k + 3) * y \in Int
    BY <1>1, <2>1, Times
  <2> QED BY <2>2, <2>3
<1> HIDE DEF num, den
<1>9. num(k, n) \div den(n) <= num(k + 1, n + 1) \div den(n + 1)
  BY <1>6, <1>7, DivCross
<1>10. num(k, n + 1) \div den(n + 1) <= num(k, n) \div den(n)
  BY <1>6, <1>8, DivCross
<1> QED BY <1>2, <1>9, <1>10 DEF k

\* A lost round trip never raises an average that counts: one that is not negative.
LEMMA AverageFalls ==
  ASSUME NEW v \in Wallets, NEW w \in Wallets, Consistent(v),
         w.tradeCount = v.tradeCount + 1, NEW roi \in Int, roi <= 0, w.roiSum = v.roiSum + roi
  PROVE  /\ AvgRoi(w) >= 0 => AvgRoi(w) <= AvgRoi(v)
         /\ AvgRoi(w) < 0 \/ AvgRoi(w) <= AvgRoi(v)
         /\ Share(AvgRoi(w), 80) <= Share(AvgRoi(v), 80)
<1> DEFINE n == v.tradeCount
           r == v.roiSum
<1>1. n \in Nat /\ r \in Int /\ n + 1 \in Nat \ {0} /\ (n = 0 => r = 0)
  BY DEF Wallets, Consistent
<1>2. /\ AvgRoi(w) = (r + roi) \div (n + 1) /\ AvgRoi(w) \in Int /\ AvgRoi(v) \in Int
      /\ n # 0 => AvgRoi(v) = r \div n
      /\ n = 0 => AvgRoi(v) = 0
  BY <1>1, WalletComponents DEF AvgRoi
<1> HIDE DEF n, r
<1>3. AvgRoi(w) >= 0 => r + roi >= 0
  <2>1. 0 <= (r + roi) \div (n + 1) => (n + 1) * 0 <= r + roi
    BY <1>1, DivIs
  <2>2. (n + 1) * 0 = 0
    BY <1>1
  <2> QED BY <1>1, <1>2, <2>1, <2>2
<1>4. AvgRoi(w) >= 0 => AvgRoi(w) <= AvgRoi(v)
  <2> SUFFICES ASSUME r + roi >= 0, AvgRoi(w) >= 0 PROVE AvgRoi(w) <= AvgRoi(v)
    BY <1>3
  <2>1. CASE n = 0
    <3>1. roi = 0 /\ n + 1 = 1 /\ r + roi = 0
      BY <1>1, <2>1
    <3>2. AvgRoi(w) = 0
      BY <1>2, <3>1
    <3> QED BY <1>2, <2>1, <3>2
  <2>2. CASE n # 0
    <3>1. (r + roi) * n <= r * (n + 1)
      <4>1. roi * n <= 0 /\ roi * n \in Int /\ r * n \in Int /\ r >= 0
        BY <1>1, SMTT(30)
      <4>2. (r + roi) * n = r * n + roi * n /\ r * (n + 1) = r * n + r
        BY <1>1, SMTT(30)
      <4> QED BY <1>1, <4>1, <4>2
    <3> QED BY <1>1, <1>2, <2>2, <3>1, DivCross
  <2> QED BY <2>1, <2>2
<1>5. Share(AvgRoi(w), 80) <= Share(AvgRoi(v), 80)
  BY <1>2, <1>4 DEF Share, Clamp, MinOf, MaxOf
<1> QED BY <1>2, <1>4, <1>5

\* The quality of exits follows the average return and the worst drawdown.
LEMMA ExitQualityFollows ==
  ASSUME NEW v \in Wallets, NEW w \in Wallets, v.maxDrawdown >= w.maxDrawdown,
         Share(AvgRoi(v), 80) <= Share(AvgRoi(w), 80)
  PROVE  ExitQualityScore(v) <= ExitQualityScore(w)
<1>1. v.maxDrawdown \in Nat /\ w.maxDrawdown \in Nat
  BY DEF Wallets
<1>2. /\ Share(100 - v.maxDrawdown, 100) \in Int /\ Share(100 - w.maxDrawdown, 100) \in Int
      /\ Share(100 - v.maxDrawdown, 100) <= Share(100 - w.maxDrawdown, 100)
  BY <1>1 DEF Share, Clamp, MinOf, MaxOf
<1>3. Share(AvgRoi(v), 80) \in Int /\ Share(AvgRoi(w), 80) \in Int
  BY WalletComponents DEF Share, Clamp, MinOf, MaxOf
<1> QED BY <1>2, <1>3 DEF ExitQualityScore

\* The score and the gate follow the record: a win with at least the average return costs
\* neither, a loss on a full sample gains neither; for every history, with no negative
\* weight and no demand for a negative average return.
THEOREM RecordsDecide ==
  ASSUME NoNegativeWeight(Config.walletWeights), Config.minAvgRoi >= 0
  PROVE  Spec => RecordDecides
<1> DEFINE Won == AvgRoi(wallet') >= AvgRoi(wallet) /\ wallet'.rugs = wallet.rugs =>
                    /\ WhaleScore(wallet') >= WhaleScore(wallet)
                    /\ PassedHardGate(wallet) => PassedHardGate(wallet')
           Lost == /\ WhaleScore(wallet') <= WhaleScore(wallet)
                   /\ wallet.tradeCount >= Config.minTradeCount /\ PassedHardGate(wallet')
                        => PassedHardGate(wallet)
<1>1. /\ Config.minTradeCount \in Nat /\ Config.minWinRate \in 0..100 /\ Config.minPnl \in Int
      /\ Config.minAvgRoi \in Int /\ Config.maxDrawdown \in Nat /\ Config.maxRugs \in Nat
      /\ Config.minWhaleScore \in Int
  BY ConfigAssumption DEF ConfigAssumption
<1>2. ASSUME IInv, NEW roi \in Rois, NEW isRugged \in BOOLEAN, Sells(roi, isRugged)
      PROVE  /\ wallet'.winCount > wallet.winCount => Won
             /\ ~(wallet'.winCount > wallet.winCount) => Lost
  <2>1. /\ wallet \in Wallets /\ Consistent(wallet) /\ wallet' \in Wallets
        /\ roi \in Int /\ (Lot * roi) \div 100 \in Int
    <3>1. Lot * roi \in Int => (Lot * roi) \div 100 \in Int
      OBVIOUS
    <3> QED BY <1>2, <3>1, SellEffect, HistoryAssumption DEF IInv, HistoryAssumption
  <2>2. /\ wallet.tradeCount \in Nat /\ wallet.winCount \in Nat /\ wallet.roiSum \in Int
        /\ wallet.rugs \in Nat /\ wallet.pnl \in Int /\ wallet.maxDrawdown \in Nat
        /\ wallet'.tradeCount \in Nat /\ wallet'.winCount \in Nat /\ wallet'.roiSum \in Int
        /\ wallet'.rugs \in Nat /\ wallet'.pnl \in Int /\ wallet'.maxDrawdown \in Nat
    BY <2>1 DEF Wallets
  <2>3. /\ wallet'.tradeCount = wallet.tradeCount + 1
        /\ wallet'.winCount = wallet.winCount + IF roi > 0 THEN 1 ELSE 0
        /\ wallet'.roiSum = wallet.roiSum + roi
        /\ wallet'.rugs >= wallet.rugs
        /\ wallet'.maxDrawdown >= wallet.maxDrawdown
        /\ roi > 0 => wallet'.maxDrawdown = wallet.maxDrawdown /\ wallet'.pnl >= wallet.pnl
        /\ roi <= 0 => wallet'.pnl <= wallet.pnl
        /\ wallet'.buyCount = wallet.buyCount /\ wallet'.buyUsd = wallet.buyUsd
        /\ wallet'.earlyBuyCount = wallet.earlyBuyCount
    BY <1>2, SellEffect
  <2>4. /\ wallet'.winCount > wallet.winCount => roi > 0
        /\ ~(wallet'.winCount > wallet.winCount) => roi <= 0
    BY <2>1, <2>2, <2>3
  <2>5. TimingScore(wallet') = TimingScore(wallet) /\ SelectivityScore(wallet') = SelectivityScore(wallet)
    BY <2>3 DEF TimingScore, SelectivityScore
  <2>6. /\ TimingScore(wallet) \in Int /\ SelectivityScore(wallet) \in Int
        /\ AvgRoi(wallet) \in Int /\ AvgRoi(wallet') \in Int
        /\ RugAvoidanceScore(wallet) \in Int
        /\ WhaleScore(wallet) \in Int /\ WhaleScore(wallet') \in Int
    BY <2>1, WalletComponents, WhaleScoreType
  <2>7. ASSUME roi > 0, AvgRoi(wallet') >= AvgRoi(wallet), wallet'.rugs = wallet.rugs
        PROVE  /\ WhaleScore(wallet') >= WhaleScore(wallet)
               /\ PassedHardGate(wallet) => PassedHardGate(wallet')
    <3>1. wallet'.winCount = wallet.winCount + 1
      BY <2>3, <2>7
    <3>2. ConsistencyScore(wallet) <= ConsistencyScore(wallet')
      BY <2>1, <2>3, <3>1, ConsistencyFollows DEF Consistent
    <3>3. Share(AvgRoi(wallet), 80) <= Share(AvgRoi(wallet'), 80)
      BY <2>6, <2>7 DEF Share, Clamp, MinOf, MaxOf
    <3>4. ExitQualityScore(wallet) <= ExitQualityScore(wallet')
      BY <2>1, <2>3, <2>2, <2>7, <3>3, ExitQualityFollows
    <3>5. RugAvoidanceScore(wallet') = RugAvoidanceScore(wallet)
      BY <2>7 DEF RugAvoidanceScore
    <3>6. RecentPerformanceScore(wallet) <= RecentPerformanceScore(wallet')
      BY <2>2, <2>3, <2>7 DEF RecentPerformanceScore, Share, Clamp, MinOf, MaxOf
    <3>7. WhaleScore(wallet) <= WhaleScore(wallet')
      <4>1. /\ TimingScore(wallet) <= TimingScore(wallet')
            /\ SelectivityScore(wallet) <= SelectivityScore(wallet')
            /\ RugAvoidanceScore(wallet) <= RugAvoidanceScore(wallet')
        BY <2>5, <2>6, <3>5
      <4> QED BY <2>1, <3>2, <3>4, <3>6, <4>1, WhaleScoreMonotone
    <3>8. ASSUME PassedHardGate(wallet) PROVE PassedHardGate(wallet')
      <4>1. wallet'.tradeCount >= Config.minTradeCount
        BY <1>1, <2>2, <2>3, <3>8 DEF PassedHardGate
      <4>2. wallet'.winCount * 100 >= Config.minWinRate * wallet'.tradeCount
        <5>1. wallet.winCount * 100 >= Config.minWinRate * wallet.tradeCount
          BY <3>8 DEF PassedHardGate
        <5>2. /\ Config.minWinRate * (wallet.tradeCount + 1)
                   = Config.minWinRate * wallet.tradeCount + Config.minWinRate
              /\ Config.minWinRate * wallet.tradeCount \in Int
          BY <1>1, <2>2, SMTT(30)
        <5>3. (wallet.winCount + 1) * 100 >= Config.minWinRate * (wallet.tradeCount + 1)
          BY <1>1, <2>2, <5>1, <5>2
        <5> QED BY <2>3, <3>1, <5>3
      <4>3. wallet'.pnl >= Config.minPnl /\ AvgRoi(wallet') >= Config.minAvgRoi
        BY <1>1, <2>2, <2>3, <2>6, <2>7, <3>8 DEF PassedHardGate
      <4>4. /\ wallet'.buyUsd >= Config.minWhaleBuySize * wallet'.buyCount
            /\ wallet'.earlyBuyCount * 100 >= Config.minEarlyEntry * wallet'.buyCount
        BY <2>3, <3>8 DEF PassedHardGate
      <4>5. wallet'.maxDrawdown <= Config.maxDrawdown /\ wallet'.rugs <= Config.maxRugs
        BY <2>3, <2>7, <3>8 DEF PassedHardGate
      <4>6. WhaleScore(wallet') >= Config.minWhaleScore
        BY <1>1, <2>6, <3>7, <3>8 DEF PassedHardGate
      <4> QED BY <4>1, <4>2, <4>3, <4>4, <4>5, <4>6 DEF PassedHardGate
    <3> QED BY <2>6, <3>7, <3>8
  <2>8. ASSUME roi <= 0 PROVE Lost
    <3>1. wallet'.winCount = wallet.winCount
      BY <2>1, <2>2, <2>3, <2>8
    <3>2. ConsistencyScore(wallet') <= ConsistencyScore(wallet)
      BY <2>1, <2>3, <3>1, ConsistencyFollows DEF Consistent
    <3>3. /\ AvgRoi(wallet') >= 0 => AvgRoi(wallet') <= AvgRoi(wallet)
          /\ Share(AvgRoi(wallet'), 80) <= Share(AvgRoi(wallet), 80)
      BY <2>1, <2>3, <2>8, AverageFalls
    <3>4. ExitQualityScore(wallet') <= ExitQualityScore(wallet)
      BY <2>1, <2>3, <3>3, ExitQualityFollows
    <3>5. RugAvoidanceScore(wallet') <= RugAvoidanceScore(wallet)
      BY <2>2, <2>3 DEF RugAvoidanceScore, MaxOf
    <3>6. RecentPerformanceScore(wallet') <= RecentPerformanceScore(wallet)
      BY <2>2, <2>3, <2>8 DEF RecentPerformanceScore, Share, Clamp, MinOf, MaxOf
    <3>7. WhaleScore(wallet') <= WhaleScore(wallet)
      <4>1. /\ TimingScore(wallet') <= TimingScore(wallet)
            /\ SelectivityScore(wallet') <= SelectivityScore(wallet)
        BY <2>5, <2>6
      <4> QED BY <2>1, <3>2, <3>4, <3>5, <3>6, <4>1, WhaleScoreMonotone
    <3>8. ASSUME wallet.tradeCount >= Config.minTradeCount, PassedHardGate(wallet')
          PROVE  PassedHardGate(wallet)
      <4>1. wallet.winCount * 100 >= Config.minWinRate * wallet.tradeCount
        <5>1. wallet.winCount * 100 >= Config.minWinRate * (wallet.tradeCount + 1)
          BY <2>3, <3>1, <3>8 DEF PassedHardGate
        <5>2. /\ Config.minWinRate * (wallet.tradeCount + 1)
                   = Config.minWinRate * wallet.tradeCount + Config.minWinRate
              /\ Config.minWinRate * wallet.tradeCount \in Int
          BY <1>1, <2>2, SMTT(30)
        <5> QED BY <1>1, <2>2, <5>1, <5>2
      <4>2. wallet.pnl >= Config.minPnl
        BY <1>1, <2>2, <2>3, <2>8, <3>8 DEF PassedHardGate
      <4>3. AvgRoi(wallet) >= Config.minAvgRoi
        <5>1. AvgRoi(wallet') >= Config.minAvgRoi
          BY <3>8 DEF PassedHardGate
        <5> QED BY <1>1, <2>6, <3>3, <5>1
      <4>4. /\ wallet.buyUsd >= Config.minWhaleBuySize * wallet.buyCount
            /\ wallet.earlyBuyCount * 100 >= Config.minEarlyEntry * wallet.buyCount
        BY <2>3, <3>8 DEF PassedHardGate
      <4>5. wallet.maxDrawdown <= Config.maxDrawdown /\ wallet.rugs <= Config.maxRugs
        BY <1>1, <2>2, <2>3, <3>8 DEF PassedHardGate
      <4>6. WhaleScore(wallet) >= Config.minWhaleScore
        BY <1>1, <2>6, <3>7, <3>8 DEF PassedHardGate
      <4> QED BY <3>8, <4>1, <4>2, <4>3, <4>4, <4>5, <4>6 DEF PassedHardGate
    <3> QED BY <3>7, <3>8
  <2> QED BY <2>4, <2>7, <2>8
<1>3. ASSUME IInv, [Next]_vars, wallet'.tradeCount > wallet.tradeCount
      PROVE  \E roi \in Rois, isRugged \in BOOLEAN : Sells(roi, isRugged)
  <2>1. wallet.tradeCount \in Nat
    BY <1>3 DEF IInv, Wallets
  <2>2. wallet'.tradeCount # wallet.tradeCount
    BY <1>3, <2>1
  <2>3. ASSUME NEW early \in BOOLEAN, Buys(Lot, early) PROVE FALSE
    BY <1>3, <2>2, <2>3 DEF Buys, IInv, Wallets
  <2> QED BY <1>3, <2>2, <2>3 DEF Next, TokenMoves, ClusterMoves, vars
<1>4. IInv /\ [Next]_vars =>
        [wallet'.tradeCount > wallet.tradeCount =>
           IF wallet'.winCount > wallet.winCount THEN Won ELSE Lost]_vars
  <2> SUFFICES ASSUME IInv, [Next]_vars, wallet'.tradeCount > wallet.tradeCount
               PROVE  IF wallet'.winCount > wallet.winCount THEN Won ELSE Lost
    OBVIOUS
  <2> HIDE DEF Won, Lost
  <2> QED BY <1>2, <1>3
<1> QED BY <1>4, RecordsConsistent, PTL DEF Spec, RecordDecides
=============================================================================
