------------------------ MODULE PositionManagerProofs ------------------------
(***************************************************************************)
(* Safety of PositionManager for every ladder, every configuration, any    *)
(* number of overlapping trades and either repository; first, what the     *)
(* operators of PositionStateMachine return.  The stop that never loosens  *)
(* and the due exit that is never forgotten need a word about the          *)
(* configuration, which their theorems state.                              *)
(***************************************************************************)
EXTENDS PositionManager, WellFoundedInduction, FiniteSetTheorems,
        SequenceTheorems, TLAPS

Below == {pair \in Nat \X Nat : pair[1] < pair[2]}

\* The natural numbers are well-founded.
LEMMA BelowWellFounded == IsWellFoundedOn(Below, Nat)
  BY NatLessThanWellFounded, Zenon DEF OpToRel, Below

\* FirstOf returns the least member of a set of rungs (Array.find on a ladder).
LEMMA FirstOfIsLeast ==
  ASSUME NEW S \in SUBSET Nat, S # {}
  PROVE  FirstOf(S) \in S /\ \A q \in S : FirstOf(S) <= q
<1>1. PICK r \in S : \A q \in S : <<q, r>> \notin Below
  BY BelowWellFounded, WFMin, Zenon
<1>2. \A q \in S : ~(q < r)
  BY <1>1 DEF Below
<1>3. \A q \in S : r <= q
  BY <1>2
<1> QED BY <1>3, Zenon DEF FirstOf

\* The rungs of the ladder have a percentage above zero and at most a hundred.
LEMMA LadderType ==
  ASSUME NEW r \in Rungs
  PROVE  Ladder[r].sellPct \in 1..100 /\ Ladder[r].triggerPct \in Nat
<1>1. Ladder \in Seq([triggerPct : Nat \ {0}, sellPct : 1..100])
  BY ConstantsAssumption DEF ConstantsAssumption
<1>2. Ladder[r] \in [triggerPct : Nat \ {0}, sellPct : 1..100]
  BY <1>1, ElementOfSeq, Zenon DEF Rungs
<1> QED BY <1>2

\* A share in percent of a natural amount is a natural, and no more than all of it.
LEMMA ShareBounds ==
  ASSUME NEW n \in Nat, NEW pct \in 0..100
  PROVE  (n * pct) \div 100 \in 0..n
<1>1. n * pct \in Nat /\ n * pct <= n * 100
  BY SMTT(30)
<1>2. \A m \in Nat : m <= n * 100 => m \div 100 \in 0..n
  BY SMTT(30)
<1> QED BY <1>1, <1>2, Zenon

\* A rung never sells more than is left (the Math.min of decideNextAction).
LEMMA RungAmountBounds ==
  ASSUME NEW p \in Position, NEW r \in Rungs
  PROVE  RungAmount(p, r) \in 0..p.remaining
<1>1. TokenAmount \in Nat /\ p.remaining \in Nat
  BY ConstantsAssumption DEF ConstantsAssumption, Position
<1>2. (TokenAmount * Ladder[r].sellPct) \div 100 \in Nat
  BY <1>1, LadderType, ShareBounds
<1> QED BY <1>1, <1>2 DEF RungAmount, Smaller

\* A whale-forced reduction never sells more than is left.
LEMMA ReduceAmountBounds ==
  ASSUME NEW p \in Position
  PROVE  ReduceAmount(p) \in 0..p.remaining
<1>1. p.remaining \in Nat /\ ReduceSellPct \in 0..100
  BY ConstantsAssumption DEF ConstantsAssumption, Position
<1> QED BY <1>1, ShareBounds DEF ReduceAmount

\* A price tick moves prices and the trailing stop, and nothing else.
LEMMA PriceTickOnlyPrices ==
  ASSUME NEW p \in Position, NEW price \in Nat
  PROVE  /\ ApplyPriceTick(p, price) \in Position
         /\ ApplyPriceTick(p, price).status = p.status
         /\ ApplyPriceTick(p, price).remaining = p.remaining
         /\ ApplyPriceTick(p, price).exitReason = p.exitReason
         /\ ApplyPriceTick(p, price).filled = p.filled
         /\ ApplyPriceTick(p, price).tier = p.tier
<1>1. \A high \in Nat : StopBelow(high) \in Int
  BY ConstantsAssumption DEF ConstantsAssumption, StopBelow
<1>2. Larger(p.highWater, price) \in Nat
  BY DEF Larger, Position
<1>3. Larger(p.trailingStop, StopBelow(Larger(p.highWater, price))) \in Nat
  BY <1>1, <1>2 DEF Larger, Position
<1>4. RoiAtLeast(price, TrailingActivationPct) \in BOOLEAN
  BY DEF RoiAtLeast
<1> QED BY <1>2, <1>3, <1>4 DEF ApplyPriceTick, MarkPositionPrice, Position

\* What decideNextAction can answer.
LEMMA DecideNextActionCases ==
  ASSUME NEW p \in Position, NEW late \in BOOLEAN
  PROVE  \/ DecideNextAction(p, late) = NoAction
         \/ /\ p.status = "OPEN"
            /\ \E why \in ExitReasons : DecideNextAction(p, late) = FullExit(why)
         \/ /\ p.status = "OPEN"
            /\ \E r \in Rungs \ p.filled : DecideNextAction(p, late) = PartialExit(r)
<1>1. DueRungs(p) # {} => FirstOf(DueRungs(p)) \in Rungs \ p.filled
  <2>1. DueRungs(p) \in SUBSET Nat /\ DueRungs(p) \subseteq Rungs \ p.filled
    BY ConstantsAssumption DEF ConstantsAssumption, DueRungs, Rungs
  <2> QED BY <2>1, FirstOfIsLeast, Zenon
<1>2. p.status # "CLOSED" => p.status = "OPEN"
  BY DEF Position
<1> QED BY <1>1, <1>2 DEF DecideNextAction, ExitReasons

\* An exit of an open position: it stays open with less, or closes with nothing.
LEMMA PaperExit ==
  ASSUME NEW p \in Position, p.status = "OPEN", NEW amount \in 0..p.remaining,
         NEW reason \in ExitReasons
  PROVE  LET q == ApplyPaperExit(p, amount, reason) IN
         /\ q \in Position
         /\ q.filled = p.filled /\ q.tier = p.tier
         /\ \/ /\ q.status = "OPEN"
               /\ q.remaining = p.remaining - amount
               /\ q.remaining > Dust
            \/ /\ q.status = "CLOSED"
               /\ q.remaining = 0
               /\ p.remaining - amount <= Dust
               /\ q.exitReason = reason
<1>1. Dust \in Nat /\ TokenAmount \in Nat
  BY ConstantsAssumption DEF ConstantsAssumption
<1>2. p.remaining \in 0..TokenAmount
  BY DEF Position
<1>3. p.remaining - amount \in 0..TokenAmount
  BY <1>1, <1>2
<1>4. CASE p.remaining - amount <= Dust
  <2> DEFINE q == ApplyPaperExit(p, amount, reason)
  <2>1. q = [p EXCEPT !.remaining = 0, !.status = "CLOSED", !.exitReason = reason]
    BY <1>4 DEF ApplyPaperExit
  <2> HIDE DEF q
  <2>2. q \in Position
    <3> DEFINE a == [p EXCEPT !.remaining = 0]
               b == [a EXCEPT !.status = "CLOSED"]
    <3>1. a \in Position
      BY <1>1 DEF Position
    <3>2. b \in Position
      <4> HIDE DEF a
      <4> QED BY <3>1 DEF Position
    <3>3. q = [b EXCEPT !.exitReason = reason]
      BY <2>1
    <3> HIDE DEF b
    <3> QED BY <3>2, <3>3 DEF Position
  <2>3. /\ q.filled = p.filled /\ q.tier = p.tier /\ q.status = "CLOSED"
        /\ q.remaining = 0 /\ q.exitReason = reason
    BY <2>1 DEF Position
  <2> QED BY <1>4, <2>2, <2>3 DEF q
<1>5. CASE ~(p.remaining - amount <= Dust)
  BY <1>1, <1>2, <1>3, <1>5 DEF ApplyPaperExit, Position
<1> QED BY <1>4, <1>5

\* Selling a rung exits with its amount and marks rungs, nothing else.
LEMMA RungSale ==
  ASSUME NEW p \in Position, p.status = "OPEN", NEW r \in Rungs
  PROVE  LET q == SellRung(p, r)
             x == ApplyPaperExit(p, RungAmount(p, r), "TAKE_PROFIT")
         IN  /\ q \in Position
             /\ q.status = x.status /\ q.remaining = x.remaining
             /\ q.exitReason = x.exitReason /\ q.tier = p.tier
             /\ q.filled = p.filled \cup
                  {FirstOf({s \in Rungs : Ladder[s].triggerPct = Ladder[r].triggerPct})}
<1> DEFINE same == {s \in Rungs : Ladder[s].triggerPct = Ladder[r].triggerPct}
           x == ApplyPaperExit(p, RungAmount(p, r), "TAKE_PROFIT")
<1>1. x \in Position /\ x.filled = p.filled /\ x.tier = p.tier
  BY RungAmountBounds, PaperExit DEF ExitReasons
<1>2. FirstOf(same) \in Rungs
  <2>1. same \in SUBSET Nat /\ same # {}
    BY ConstantsAssumption DEF ConstantsAssumption, Rungs
  <2>2. FirstOf(same) \in same
    BY <2>1, FirstOfIsLeast
  <2> QED BY <2>2
<1>3. SellRung(p, r) = [x EXCEPT !.filled = x.filled \cup {FirstOf(same)}]
  BY DEF SellRung, MarkTakeProfitFilled
<1> HIDE DEF x, same
<1>4. SellRung(p, r) \in Position
  BY <1>1, <1>2, <1>3 DEF Position
<1>5. SellRung(p, r).filled = p.filled \cup {FirstOf(same)}
  BY <1>1, <1>3 DEF Position
<1> QED BY <1>1, <1>3, <1>4, <1>5 DEF x, same, Position

\* With one rung to each trigger, the rung that is marked is the one that sold.
LEMMA RungMarksItself ==
  ASSUME NEW r \in Rungs,
         \A a, b \in Rungs : Ladder[a].triggerPct = Ladder[b].triggerPct => a = b
  PROVE  FirstOf({s \in Rungs : Ladder[s].triggerPct = Ladder[r].triggerPct}) = r
<1> DEFINE same == {s \in Rungs : Ladder[s].triggerPct = Ladder[r].triggerPct}
<1>1. same \in SUBSET Nat /\ same = {r}
  BY ConstantsAssumption DEF ConstantsAssumption, Rungs
<1> HIDE DEF same
<1>2. FirstOf(same) \in same
  BY <1>1, FirstOfIsLeast
<1> QED BY <1>1, <1>2 DEF same

\* The tiers that the amount sold and a third sale suggest.
Candidates(amount, entry, flags) ==
  {SoldTier(amount, entry)} \cup (IF flags = {} THEN {} ELSE {"REDUCE"})

\* evaluateWhaleExitTier answers the highest of its candidates, with the flags
\* that the monitor itself can raise.
LEMMA TierIsHighest ==
  ASSUME NEW amount, NEW entry, NEW flags \in {{}, {"multipleExits"}}
  PROVE  /\ SoldTier(amount, entry) \in Tiers
         /\ EvaluateWhaleExitTier(amount, entry, flags) \in Candidates(amount, entry, flags)
         /\ EvaluateWhaleExitTier(amount, entry, flags) \in Tiers
         /\ \A u \in Candidates(amount, entry, flags) :
              Rank(u) <= Rank(EvaluateWhaleExitTier(amount, entry, flags))
<1> DEFINE c == {SoldTier(amount, entry)} \cup {FlagTier(f) : f \in flags}
<1>1. SoldTier(amount, entry) \in Tiers
  BY DEF SoldTier, Tiers
<1>2. c = Candidates(amount, entry, flags)
  BY DEF FlagTier, Candidates
<1>3. c \subseteq Tiers
  BY <1>1, <1>2 DEF Tiers, Candidates
<1>4. \A a \in Tiers : Rank(a) \in 0..3
  BY DEF Tiers, Rank
<1>5. \E t \in c : \A u \in c : Rank(u) <= Rank(t)
  <2> HIDE DEF c
  <2>1. Rank(SoldTier(amount, entry)) \in Int /\ Rank("REDUCE") \in Int
    BY <1>1, <1>4 DEF Tiers
  <2> QED BY <1>2, <2>1 DEF Candidates
<1>6. LET tier == EvaluateWhaleExitTier(amount, entry, flags)
      IN  tier \in c /\ \A u \in c : Rank(u) <= Rank(tier)
  BY <1>5 DEF EvaluateWhaleExitTier
<1> HIDE DEF c
<1> QED BY <1>1, <1>2, <1>3, <1>6

\* The tier of a tracked whale is a tier, with a rank.
LEMMA TierType ==
  ASSUME NEW amount, NEW entry, NEW flags \in {{}, {"multipleExits"}}
  PROVE  /\ EvaluateWhaleExitTier(amount, entry, flags) \in Tiers
         /\ Rank(EvaluateWhaleExitTier(amount, entry, flags)) \in 0..3
<1>1. \A a \in Tiers : Rank(a) \in 0..3
  BY DEF Tiers, Rank
<1> QED BY <1>1, TierIsHighest

\* The more the whale has sold, the higher the tier of the amount.
LEMMA SoldTierMonotone ==
  ASSUME NEW a \in Nat, NEW b \in Nat, a <= b, NEW entry \in Nat
  PROVE  Rank(SoldTier(a, entry)) <= Rank(SoldTier(b, entry))
<1> DEFINE AtLeast(n, pct) == IF entry > 0 THEN n * 100 >= pct * entry ELSE pct = 0
<1>1. \A pct \in 0..100 : AtLeast(a, pct) => AtLeast(b, pct)
  <2> SUFFICES ASSUME NEW pct \in 0..100, AtLeast(a, pct) PROVE AtLeast(b, pct)
    OBVIOUS
  <2>1. pct * entry \in Int
    OBVIOUS
  <2> QED BY <2>1
<1>2. /\ AtLeast(a, EmergencyPct) => AtLeast(b, EmergencyPct)
      /\ AtLeast(a, ReducePct) => AtLeast(b, ReducePct)
      /\ AtLeast(a, WarnPct) => AtLeast(b, WarnPct)
  BY <1>1, ConstantsAssumption DEF ConstantsAssumption
<1>3. \A n \in {a, b} : SoldTier(n, entry) = IF AtLeast(n, EmergencyPct) THEN "EMERGENCY"
        ELSE IF AtLeast(n, ReducePct) THEN "REDUCE"
        ELSE IF AtLeast(n, WarnPct) THEN "WARN" ELSE "NONE"
  BY DEF SoldTier
<1> HIDE DEF AtLeast
<1>4. /\ Rank("EMERGENCY") = 3 /\ Rank("REDUCE") = 2 /\ Rank("WARN") = 1 /\ Rank("NONE") = 0
  BY DEF Rank
<1> QED BY <1>2, <1>3, <1>4

\* More sold and no flag taken back: the tier does not fall.
LEMMA TierMonotone ==
  ASSUME NEW a \in Nat, NEW b \in Nat, a <= b, NEW entry \in Nat,
         NEW F \in {{}, {"multipleExits"}}, NEW G \in {{}, {"multipleExits"}}, F \subseteq G
  PROVE  Rank(EvaluateWhaleExitTier(a, entry, F)) <= Rank(EvaluateWhaleExitTier(b, entry, G))
<1> DEFINE s == EvaluateWhaleExitTier(a, entry, F)
           t == EvaluateWhaleExitTier(b, entry, G)
<1> SUFFICES Rank(s) <= Rank(t)
  OBVIOUS
<1>1. /\ s \in Candidates(a, entry, F)
      /\ SoldTier(a, entry) \in Tiers
      /\ \A u \in Candidates(b, entry, G) : Rank(u) <= Rank(t)
      /\ SoldTier(b, entry) \in Tiers /\ t \in Tiers
  BY TierIsHighest
<1>2. Rank(SoldTier(a, entry)) <= Rank(SoldTier(b, entry))
  BY SoldTierMonotone
<1>3. \A x \in Tiers : Rank(x) \in 0..3
  BY DEF Tiers, Rank
<1> HIDE DEF s, t
<1>4. CASE s = SoldTier(a, entry)
  <2>1. Rank(SoldTier(b, entry)) <= Rank(t)
    BY <1>1 DEF Candidates
  <2>2. Rank(SoldTier(a, entry)) \in Int /\ Rank(SoldTier(b, entry)) \in Int /\ Rank(t) \in Int
    BY <1>1, <1>3
  <2> QED BY <1>2, <1>4, <2>1, <2>2
<1>5. CASE F # {} /\ s = "REDUCE"
  <2>1. "REDUCE" \in Candidates(b, entry, G)
    BY <1>5 DEF Candidates
  <2> QED BY <1>1, <1>5, <2>1
<1>6. s = SoldTier(a, entry) \/ (F # {} /\ s = "REDUCE")
  BY <1>1 DEF Candidates
<1> QED BY <1>4, <1>5, <1>6
-----------------------------------------------------------------------------
(* The inductive invariant of the manager.                                 *)

\* s was the position's snapshot at some earlier moment.
Behind(s, p) ==
  /\ s.remaining >= p.remaining
  /\ s.status = "CLOSED" => s = SnapshotOf(p)

\* Every write under way is behind the live position: a write that commits late
\* can bring the repository back to an older state, never to an imagined one.
WritesBehind ==
  \A t \in Trades :
    /\ tick[t].pc \in TickSaving => Behind(tick[t].write.snapshot, position)
    /\ exit[t].pc = "saving" => Behind(exit[t].write.snapshot, position)

\* A task that will announce a closing has closed the position itself.
ClosersClosed ==
  \A t \in Trades : tick[t].pc = "full" =>
    /\ position.status = "CLOSED"
    /\ tick[t].write.snapshot.exitReason \in ExitReasons

\* What is sold and what is left are what was bought.
Balanced(p, s) ==
  /\ s + p.remaining <= TokenAmount
  /\ s + p.remaining >= TokenAmount - Dust
  /\ p.status = "OPEN" => s + p.remaining = TokenAmount
  /\ (p.status = "CLOSED") <=> (p.remaining = 0)

\* The inductive invariant.  StoredNeverAhead needs WritesBehind, because the
\* repository takes its next state from a write; ClosingIsTrue needs
\* ClosersClosed, because the event is emitted one await after the exit.
IInv ==
  /\ TypeOK
  /\ TokensConserved
  /\ StoredNeverAhead
  /\ WritesBehind
  /\ ClosersClosed
  /\ ClosingIsTrue

\* An exit, or nothing: less is left, and a closed position stays as it is.
Moves(p, q) ==
  /\ q.remaining <= p.remaining
  /\ p.status = "CLOSED" => SnapshotOf(q) = SnapshotOf(p)

\* The snapshot handed to savePosition, and the write it makes, have their types.
LEMMA SnapshotType ==
  ASSUME NEW p \in Position
  PROVE  SnapshotOf(p) \in Snapshot /\ WriteOf(p) \in Write
BY ManagerAssumption DEF ManagerAssumption, Position, SnapshotOf, Snapshot, WriteOf, Write

\* A snapshot that is behind a position stays behind it as it moves on.
LEMMA BehindKept ==
  ASSUME NEW s \in Snapshot, NEW p \in Position, NEW q \in Position,
         Behind(s, p), Moves(p, q)
  PROVE  Behind(s, q)
<1>1. s.remaining \in Int /\ p.remaining \in Int /\ q.remaining \in Int
  BY ConstantsAssumption DEF ConstantsAssumption, Snapshot, Position
<1>2. s.status = "CLOSED" => p.status = "CLOSED"
  BY DEF Behind, SnapshotOf
<1> QED BY <1>1, <1>2 DEF Behind, Moves

\* A snapshot taken now is behind the position it was taken from.
LEMMA BehindSelf ==
  ASSUME NEW p \in Position
  PROVE  Behind(SnapshotOf(p), p)
<1>1. p.remaining \in Int
  BY ConstantsAssumption DEF ConstantsAssumption, Position
<1> QED BY <1>1 DEF Behind, SnapshotOf

\* An exit of `amount` from an open, balanced position.
LEMMA ExitMoves ==
  ASSUME NEW p \in Position, NEW q \in Position, NEW s \in Nat,
         p.status = "OPEN", Balanced(p, s), NEW amount \in 0..p.remaining,
         \/ q.status = "OPEN" /\ q.remaining = p.remaining - amount /\ q.remaining > Dust
         \/ q.status = "CLOSED" /\ q.remaining = 0 /\ p.remaining - amount <= Dust
  PROVE  Moves(p, q) /\ Balanced(q, s + amount) /\ s + amount \in Nat
<1>1. Dust \in Nat /\ TokenAmount \in Nat /\ p.remaining \in Nat /\ q.remaining \in Nat
  BY ConstantsAssumption DEF ConstantsAssumption, Position
<1>2. Moves(p, q)
  BY <1>1 DEF Moves
<1>3. Balanced(q, s + amount)
  BY <1>1 DEF Balanced
<1> QED BY <1>1, <1>2, <1>3
-----------------------------------------------------------------------------
\* A position that executeEntry has just saved and tracked satisfies the invariant.
LEMMA InitIInv == Init => IInv
<1> SUFFICES ASSUME Init PROVE IInv
  OBVIOUS
<1>1. BuildPositionFromFill \in Position
  BY ConstantsAssumption DEF ConstantsAssumption, BuildPositionFromFill, Position, Tiers
<1>2. InitialWrite \in Write
  BY <1>1, SnapshotType DEF InitialWrite, Write
<1>3. NoTick \in TickTask /\ NoExit \in ExitTask
  BY <1>2 DEF NoTick, NoExit, TickTask, ExitTask
<1>4. TypeOK
  <2>1. /\ position \in Position /\ held \in BOOLEAN /\ stored \in Snapshot /\ sold \in Nat
        /\ tick \in [Trades -> TickTask] /\ exit \in [Trades -> ExitTask]
    BY <1>1, <1>3, SnapshotType DEF Init
  <2>2. traded \in 0..MaxTrades /\ whale \in [tracked : BOOLEAN, sold : Nat, sellTxCount : Nat]
    BY ManagerAssumption DEF Init, ManagerAssumption
  <2>3. closings \in Seq(ExitReasons) /\ sales \in [Rungs -> Seq(Nat)]
    BY EmptySeq DEF Init
  <2> QED BY <2>1, <2>2, <2>3 DEF TypeOK
<1>5. TokensConserved
  BY ConstantsAssumption DEF ConstantsAssumption, Init, TokensConserved, BuildPositionFromFill
<1>6. StoredNeverAhead
  BY ConstantsAssumption DEF ConstantsAssumption, Init, StoredNeverAhead, BuildPositionFromFill, SnapshotOf
<1>7. WritesBehind /\ ClosersClosed
  BY DEF Init, WritesBehind, ClosersClosed, NoTick, NoExit, TickSaving
<1>8. ClosingIsTrue
  BY DEF Init, ClosingIsTrue
<1> QED BY <1>4, <1>5, <1>6, <1>7, <1>8 DEF IInv
-----------------------------------------------------------------------------
(* One step of the loop of onPriceTick.                                    *)

\* The iteration ends in a save of the position as it is then.
Saves(t, pc, round, late) ==
  /\ tick' = [tick EXCEPT ![t] = [tick[t] EXCEPT !.pc = pc, !.late = late,
                !.round = round, !.write = WriteOf(position')]]
  /\ stored' = StoredAfter(position')
  /\ pc = "full" => position'.status = "CLOSED" /\ position'.exitReason \in ExitReasons

\* The iteration ends the task.
Stops(t) == tick' = [tick EXCEPT ![t] = DoneTick] /\ UNCHANGED stored

\* The save of q, in the terms of Decide.
Awaits(t, pc, round, late, q) ==
  /\ tick' = [tick EXCEPT ![t] = [tick[t] EXCEPT !.pc = pc, !.late = late,
                !.round = round, !.write = WriteOf(q)]]
  /\ stored' = StoredAfter(q)

\* An iteration sells one rung that was not filled, or everything, or nothing.
LEMMA DecideCases ==
  ASSUME NEW t \in Trades, NEW p \in Position, NEW round \in Nat,
         NEW late \in BOOLEAN, Decide(t, p, round, late)
  PROVE  \/ \E r \in Rungs \ p.filled :
              /\ p.status = "OPEN" /\ position' = SellRung(p, r)
              /\ NextOutcome(p, round, late) = PartialExit(r)
              /\ Awaits(t, "partial", round, late, SellRung(p, r))
              /\ sold' = sold + RungAmount(p, r)
              /\ sales' = [sales EXCEPT ![r] = Append(@, tick[t].price)]
         \/ \E why \in ExitReasons :
              /\ p.status = "OPEN" /\ position' = ApplyPaperExit(p, p.remaining, why)
              /\ Awaits(t, "full", round, late, ApplyPaperExit(p, p.remaining, why))
              /\ sold' = sold + p.remaining /\ UNCHANGED sales
         \/ /\ position' = p /\ UNCHANGED <<sales, sold>>
            /\ NextOutcome(p, round, late).kind = "NO_ACTION"
            /\ Awaits(t, "final", round, late, p) \/ Stops(t)
<1> DEFINE outcome == NextOutcome(p, round, late)
<1>1. CASE outcome.kind = "PARTIAL_EXIT"
  <2>1. PICK r \in Rungs \ p.filled : p.status = "OPEN" /\ outcome = PartialExit(r)
    BY <1>1, DecideNextActionCases DEF NextOutcome, NoAction, FullExit, PartialExit
  <2>2. outcome.kind = "PARTIAL_EXIT" /\ outcome.rung = r
    BY <2>1 DEF PartialExit
  <2>3. NextOutcome(p, round, late) = outcome
    OBVIOUS
  <2> HIDE DEF outcome
  <2>4. PICK out \in {NextOutcome(p, round, late)} :
           /\ out.kind = "PARTIAL_EXIT"
           /\ \E s \in {SellRung(p, out.rung)} :
                /\ position' = s
                /\ Awaits(t, "partial", round, late, s)
                /\ sold' = sold + RungAmount(p, out.rung)
                /\ sales' = [sales EXCEPT ![out.rung] = Append(@, tick[t].price)]
    BY <2>2, <2>3 DEF Decide, Awaits
  <2>5. out = outcome
    BY <2>3, <2>4
  <2> QED BY <2>1, <2>2, <2>4, <2>5
<1>2. CASE outcome.kind = "FULL_EXIT"
  <2>1. PICK why \in ExitReasons : p.status = "OPEN" /\ outcome = FullExit(why)
    BY <1>2, DecideNextActionCases DEF NextOutcome, NoAction, FullExit, PartialExit
  <2>2. outcome.kind = "FULL_EXIT" /\ outcome.reason = why
    BY <2>1 DEF FullExit
  <2>3. NextOutcome(p, round, late) = outcome
    OBVIOUS
  <2> HIDE DEF outcome
  <2>4. PICK out \in {NextOutcome(p, round, late)} :
           /\ out.kind = "FULL_EXIT"
           /\ \E s \in {ApplyPaperExit(p, p.remaining, out.reason)} :
                /\ position' = s
                /\ Awaits(t, "full", round, late, s)
                /\ sold' = sold + p.remaining
                /\ UNCHANGED sales
    BY <2>2, <2>3 DEF Decide, Awaits
  <2>5. out = outcome
    BY <2>3, <2>4
  <2> QED BY <2>1, <2>2, <2>4, <2>5
<1>3. CASE outcome.kind = "NO_ACTION"
  BY <1>3 DEF Decide, Awaits, Stops
<1> QED BY <1>1, <1>2, <1>3 DEF Decide

\* What a loop iteration leaves behind, in the terms of the invariant.
LEMMA DecideEffect ==
  ASSUME IInv, NEW t \in Trades, NEW p \in Position, NEW round \in Nat,
         NEW late \in BOOLEAN, Decide(t, p, round, late),
         p.status = position.status, p.remaining = position.remaining,
         p.exitReason = position.exitReason
  PROVE  /\ position' \in Position /\ sold' \in Nat
         /\ Moves(position, position') /\ Balanced(position', sold')
         /\ sales' \in [Rungs -> Seq(Nat)]
         /\ Stops(t) \/ \E pc \in TickSaving : Saves(t, pc, round, late)
<1>1. /\ position \in Position /\ sold \in Nat /\ tick \in [Trades -> TickTask]
      /\ sales \in [Rungs -> Seq(Nat)] /\ tick[t].price \in Nat
  BY DEF IInv, TypeOK, TickTask
<1>2. Balanced(p, sold)
  BY DEF IInv, TokensConserved, Balanced
<1>3. \A q : Moves(p, q) => Moves(position, q)
  BY DEF Moves, SnapshotOf
<1> DEFINE Goal ==
      /\ position' \in Position /\ sold' \in Nat
      /\ Moves(position, position') /\ Balanced(position', sold')
      /\ sales' \in [Rungs -> Seq(Nat)]
      /\ Stops(t) \/ \E pc \in TickSaving : Saves(t, pc, round, late)
<1>4. ASSUME NEW r \in Rungs, p.status = "OPEN", position' = SellRung(p, r),
             Awaits(t, "partial", round, late, SellRung(p, r)),
             sold' = sold + RungAmount(p, r),
             sales' = [sales EXCEPT ![r] = Append(@, tick[t].price)]
      PROVE  Goal
  <2> DEFINE q == SellRung(p, r)
             x == ApplyPaperExit(p, RungAmount(p, r), "TAKE_PROFIT")
  <2>1. /\ q \in Position /\ q.status = x.status /\ q.remaining = x.remaining
    BY <1>4, RungSale
  <2>2. Moves(p, q) /\ Balanced(q, sold + RungAmount(p, r)) /\ sold + RungAmount(p, r) \in Nat
    <3>1. RungAmount(p, r) \in 0..p.remaining
      BY RungAmountBounds
    <3>2. \/ x.status = "OPEN" /\ x.remaining = p.remaining - RungAmount(p, r) /\ x.remaining > Dust
          \/ x.status = "CLOSED" /\ x.remaining = 0 /\ p.remaining - RungAmount(p, r) <= Dust
      BY <1>4, <3>1, PaperExit DEF ExitReasons
    <3> HIDE DEF q, x
    <3> QED BY <1>1, <1>2, <1>4, <2>1, <3>1, <3>2, ExitMoves
  <2>3. sales' \in [Rungs -> Seq(Nat)]
    BY <1>1, <1>4, AppendProperties
  <2>4. position' = q /\ Awaits(t, "partial", round, late, q) /\ sold' = sold + RungAmount(p, r)
    BY <1>4
  <2> HIDE DEF q, x
  <2> QED BY <1>3, <2>1, <2>2, <2>3, <2>4 DEF TickSaving, Saves, Awaits
<1>5. ASSUME NEW why \in ExitReasons, p.status = "OPEN",
             position' = ApplyPaperExit(p, p.remaining, why),
             Awaits(t, "full", round, late, ApplyPaperExit(p, p.remaining, why)),
             sold' = sold + p.remaining, UNCHANGED sales
      PROVE  Goal
  <2> DEFINE q == ApplyPaperExit(p, p.remaining, why)
  <2>1. p.remaining \in Nat /\ p.remaining \in 0..p.remaining /\ Dust \in Nat
    BY ConstantsAssumption DEF ConstantsAssumption, Position
  <2>2. /\ q \in Position /\ q.status = "CLOSED" /\ q.remaining = 0 /\ q.exitReason = why
        /\ p.remaining - p.remaining <= Dust
    BY <1>5, <2>1, PaperExit
  <2>3. position' = q /\ Awaits(t, "full", round, late, q)
    BY <1>5
  <2> HIDE DEF q
  <2>4. Moves(p, q) /\ Balanced(q, sold + p.remaining) /\ sold + p.remaining \in Nat
    BY <1>1, <1>2, <1>5, <2>1, <2>2, ExitMoves
  <2> QED BY <1>1, <1>3, <1>5, <2>2, <2>3, <2>4 DEF TickSaving, Saves, Awaits
<1>6. ASSUME position' = p, UNCHANGED <<sales, sold>>,
             Awaits(t, "final", round, late, p) \/ Stops(t)
      PROVE  Goal
  <2>1. Moves(p, p)
    BY ConstantsAssumption DEF ConstantsAssumption, Moves, Position
  <2> QED BY <1>1, <1>2, <1>3, <1>6, <2>1 DEF TickSaving, Saves, Awaits
<1> HIDE DEF Goal
<1>7. Goal
  BY <1>4, <1>5, <1>6, DecideCases
<1> QED BY <1>7 DEF Goal

\* The repository after savePosition(p), for either kind of repository.
LEMMA StoredAfterSave ==
  ASSUME IInv, NEW q \in Position, Moves(position, q)
  PROVE  StoredAfter(q) \in Snapshot /\ Behind(StoredAfter(q), q)
<1>1. stored \in Snapshot /\ Behind(stored, position) /\ position \in Position
  BY DEF IInv, TypeOK, StoredNeverAhead, Behind
<1> QED BY <1>1, BehindKept, BehindSelf, SnapshotType DEF StoredAfter

\* An iteration of the loop of onPriceTick keeps the invariant.
LEMMA DecideKeeps ==
  ASSUME IInv, NEW t \in Trades, NEW p \in Position, NEW round \in Nat,
         NEW late \in BOOLEAN, Decide(t, p, round, late),
         p.status = position.status, p.remaining = position.remaining,
         p.exitReason = position.exitReason,
         UNCHANGED <<held, traded, exit, whale, closings>>
  PROVE  IInv'
<1>1. /\ position' \in Position /\ sold' \in Nat
      /\ Moves(position, position') /\ Balanced(position', sold')
      /\ sales' \in [Rungs -> Seq(Nat)]
  BY DecideEffect
<1>2. /\ position \in Position /\ tick \in [Trades -> TickTask] /\ exit \in [Trades -> ExitTask]
      /\ stored \in Snapshot /\ Behind(stored, position)
  BY DEF IInv, TypeOK, StoredNeverAhead, Behind
<1> DEFINE TaskFine ==
      /\ tick' \in [Trades -> TickTask]
      /\ stored' \in Snapshot /\ Behind(stored', position')
      /\ tick'[t].pc \in TickSaving => Behind(tick'[t].write.snapshot, position')
      /\ tick'[t].pc = "full" => /\ position'.status = "CLOSED"
                                 /\ tick'[t].write.snapshot.exitReason \in ExitReasons
      /\ \A u \in Trades \ {t} : tick'[u] = tick[u]
<1>3. TaskFine
  <2>1. CASE Stops(t)
    <3>1. DoneTick \in TickTask /\ DoneTick.pc = "done"
      <4>1. InitialWrite \in Write
        <5>1. BuildPositionFromFill \in Position
          BY ConstantsAssumption DEF ConstantsAssumption, BuildPositionFromFill, Position, Tiers
        <5> QED BY <5>1, SnapshotType DEF InitialWrite, Write
      <4> QED BY <4>1 DEF DoneTick, NoTick, TickTask
    <3> QED BY <1>1, <1>2, <2>1, <3>1, BehindKept DEF TickSaving, Stops
  <2>2. ASSUME NEW pc \in TickSaving, Saves(t, pc, round, late)
        PROVE  TaskFine
    <3> DEFINE k == [tick[t] EXCEPT !.pc = pc, !.late = late, !.round = round,
                                    !.write = WriteOf(position')]
    <3>1. WriteOf(position') \in Write /\ WriteOf(position').snapshot = SnapshotOf(position')
      BY <1>1, SnapshotType DEF WriteOf
    <3>2. k \in TickTask /\ k.pc = pc /\ k.write = WriteOf(position')
      BY <1>2, <3>1 DEF TickTask
    <3>3. tick' = [tick EXCEPT ![t] = k]
      BY <2>2 DEF Saves
    <3> HIDE DEF k
    <3>4. tick' \in [Trades -> TickTask] /\ tick'[t] = k /\ \A u \in Trades \ {t} : tick'[u] = tick[u]
      BY <1>2, <3>2, <3>3
    <3>5. SnapshotOf(position').exitReason = position'.exitReason
      BY DEF SnapshotOf
    <3>6. stored' \in Snapshot /\ Behind(stored', position')
      BY <1>1, <2>2, StoredAfterSave DEF Saves
    <3>7. tick'[t].pc = pc /\ tick'[t].write.snapshot = SnapshotOf(position')
      BY <3>1, <3>2, <3>4
    <3>8. Behind(tick'[t].write.snapshot, position')
      BY <1>1, <3>7, BehindSelf
    <3>9. tick'[t].pc = "full" => /\ position'.status = "CLOSED"
                                  /\ tick'[t].write.snapshot.exitReason \in ExitReasons
      BY <2>2, <3>5, <3>7 DEF Saves
    <3>10. \A u \in Trades \ {t} : tick'[u] = tick[u]
      BY <3>4
    <3> QED BY <3>4, <3>6, <3>8, <3>9, <3>10
  <2>3. Stops(t) \/ \E pc \in TickSaving : Saves(t, pc, round, late)
    BY DecideEffect
  <2> HIDE DEF TaskFine
  <2> QED BY <2>1, <2>2, <2>3
<1>4. TypeOK'
  BY <1>1, <1>3 DEF IInv, TypeOK
<1>5. TokensConserved'
  BY <1>1 DEF TokensConserved, Balanced
<1>6. StoredNeverAhead'
  BY <1>3 DEF StoredNeverAhead, Behind
<1>7. WritesBehind'
  <2> SUFFICES ASSUME NEW u \in Trades
               PROVE  /\ tick'[u].pc \in TickSaving => Behind(tick'[u].write.snapshot, position')
                      /\ exit'[u].pc = "saving" => Behind(exit'[u].write.snapshot, position')
    BY DEF WritesBehind
  <2>1. tick[u].write.snapshot \in Snapshot /\ exit[u].write.snapshot \in Snapshot
    BY <1>2 DEF TickTask, ExitTask, Write
  <2>2. exit'[u].pc = "saving" => Behind(exit'[u].write.snapshot, position')
    BY <1>1, <1>2, <2>1, BehindKept DEF IInv, WritesBehind
  <2>3. tick'[u].pc \in TickSaving => Behind(tick'[u].write.snapshot, position')
    BY <1>1, <1>2, <1>3, <2>1, BehindKept DEF IInv, WritesBehind
  <2> QED BY <2>2, <2>3
<1>8. position.status = "CLOSED" => position'.status = "CLOSED"
  BY <1>1 DEF Moves, SnapshotOf
<1>9. ClosersClosed' /\ ClosingIsTrue'
  BY <1>3, <1>8 DEF IInv, ClosersClosed, ClosingIsTrue
<1> QED BY <1>4, <1>5, <1>6, <1>7, <1>9 DEF IInv
-----------------------------------------------------------------------------
(* The other steps.                                                        *)

\* A step that leaves the position alone and starts no write.
LEMMA QuietKeeps ==
  ASSUME IInv, TypeOK', UNCHANGED <<position, sold>>, Behind(stored', position),
         \A u \in Trades : tick'[u].pc \in TickSaving =>
           tick'[u].pc = tick[u].pc /\ tick'[u].write.snapshot = tick[u].write.snapshot,
         \A u \in Trades : exit'[u].pc = "saving" =>
           exit[u].pc = "saving" /\ exit'[u].write.snapshot = exit[u].write.snapshot,
         closings' # <<>> => position.status = "CLOSED"
  PROVE  IInv'
<1>1. TokensConserved' /\ StoredNeverAhead' /\ ClosingIsTrue'
  BY DEF IInv, TokensConserved, StoredNeverAhead, Behind, ClosingIsTrue, SnapshotOf
<1>2. WritesBehind'
  BY DEF IInv, WritesBehind, Behind, SnapshotOf
<1>3. ClosersClosed'
  BY DEF IInv, ClosersClosed, TickSaving
<1> QED BY <1>1, <1>2, <1>3 DEF IInv

\* The tasks that are over, or not there, have their types.
LEMMA DoneTasks == DoneTick \in TickTask /\ DoneTick.pc = "done"
                   /\ DoneExit \in ExitTask /\ DoneExit.pc = "done"
                   /\ NoTick \in TickTask /\ NoExit \in ExitTask
<1>1. BuildPositionFromFill \in Position
  BY ConstantsAssumption DEF ConstantsAssumption, BuildPositionFromFill, Position, Tiers
<1>2. InitialWrite \in Write
  BY <1>1, SnapshotType DEF InitialWrite, Write
<1> QED BY <1>2 DEF DoneTick, DoneExit, NoTick, NoExit, TickTask, ExitTask

\* The types, one by one.
LEMMA Types ==
  ASSUME IInv
  PROVE  /\ position \in Position /\ held \in BOOLEAN /\ traded \in 0..MaxTrades
         /\ tick \in [Trades -> TickTask] /\ exit \in [Trades -> ExitTask]
         /\ whale \in [tracked : BOOLEAN, sold : Nat, sellTxCount : Nat]
         /\ stored \in Snapshot /\ closings \in Seq(ExitReasons)
         /\ sales \in [Rungs -> Seq(Nat)] /\ sold \in Nat
         /\ Behind(stored, position)
BY DEF IInv, TypeOK, StoredNeverAhead, Behind

\* A commit only brings the repository to a snapshot that is behind.
LEMMA CommitKeeps ==
  ASSUME IInv, NEW t \in Trades, CommitTick(t) \/ CommitExit(t)
  PROVE  IInv'
<1>1. CASE CommitTick(t)
  <2>1. tick[t].write \in Write /\ tick[t].write.snapshot \in Snapshot
    BY Types DEF TickTask, Write
  <2>2. tick' \in [Trades -> TickTask]
    <3> DEFINE w == [tick[t].write EXCEPT !.committed = TRUE]
               k == [tick[t] EXCEPT !.write = w]
    <3>1. w \in Write
      BY <2>1 DEF Write
    <3>2. tick[t] \in TickTask
      BY Types
    <3>3. k \in TickTask
      <4> HIDE DEF w
      <4> QED BY <3>1, <3>2 DEF TickTask
    <3>4. tick' = [tick EXCEPT ![t] = k]
      BY <1>1, Types DEF CommitTick
    <3> HIDE DEF k
    <3> QED BY <3>3, <3>4, Types
  <2>3. TypeOK'
    BY <1>1, <2>1, <2>2, Types DEF CommitTick, TypeOK
  <2>4. Behind(stored', position)
    BY <1>1 DEF CommitTick, IInv, WritesBehind
  <2>5. \A u \in Trades : tick'[u].pc = tick[u].pc /\ tick'[u].write.snapshot = tick[u].write.snapshot
    BY <1>1, <2>1, Types DEF CommitTick, TickTask, Write
  <2> QED BY <1>1, <2>3, <2>4, <2>5, QuietKeeps DEF CommitTick, IInv, ClosingIsTrue
<1>2. CASE CommitExit(t)
  <2>1. exit[t].write \in Write /\ exit[t].write.snapshot \in Snapshot
    BY Types DEF ExitTask, Write
  <2>2. exit' \in [Trades -> ExitTask]
    <3> DEFINE w == [exit[t].write EXCEPT !.committed = TRUE]
               k == [exit[t] EXCEPT !.write = w]
    <3>1. w \in Write
      BY <2>1 DEF Write
    <3>2. exit[t] \in ExitTask
      BY Types
    <3>3. k \in ExitTask
      <4> HIDE DEF w
      <4> QED BY <3>1, <3>2 DEF ExitTask
    <3>4. exit' = [exit EXCEPT ![t] = k]
      BY <1>2, Types DEF CommitExit
    <3> HIDE DEF k
    <3> QED BY <3>3, <3>4, Types
  <2>3. TypeOK'
    BY <1>2, <2>1, <2>2, Types DEF CommitExit, TypeOK
  <2>4. Behind(stored', position)
    BY <1>2 DEF CommitExit, IInv, WritesBehind
  <2>5. \A u \in Trades : exit'[u].pc = exit[u].pc /\ exit'[u].write.snapshot = exit[u].write.snapshot
    BY <1>2, <2>1, Types DEF CommitExit, ExitTask, Write
  <2> QED BY <1>2, <2>3, <2>4, <2>5, QuietKeeps DEF CommitExit, IInv, ClosingIsTrue
<1> QED BY <1>1, <1>2

\* A trade starts tasks that have written nothing.
LEMMA TradeKeeps ==
  ASSUME IInv, NEW price \in Prices, NEW amount \in SellAmounts, Trade(price, amount)
  PROVE  IInv'
<1> DEFINE n == traded + 1
           k == [NoTick EXCEPT !.pc = "queued", !.price = price]
           x == IF amount = 0 THEN NoExit
                ELSE [NoExit EXCEPT !.pc = "queued", !.price = price, !.amount = amount]
<1>1. price \in Nat /\ amount \in Nat /\ n \in 0..MaxTrades
  BY Types, ManagerAssumption DEF ManagerAssumption, Trade
<1>2. k \in TickTask /\ k.pc = "queued"
  BY <1>1, DoneTasks DEF TickTask
<1>3. x \in ExitTask /\ x.pc # "saving"
  BY <1>1, DoneTasks DEF ExitTask, NoExit
<1>4. tick' = [tick EXCEPT ![n] = k] /\ exit' = [exit EXCEPT ![n] = x]
  BY DEF Trade
<1> HIDE DEF k, x
<1>5. TypeOK'
  <2>1. traded' = n /\ UNCHANGED <<position, held, whale, stored, closings, sales, sold>>
    BY DEF Trade
  <2>2. tick' \in [Trades -> TickTask] /\ exit' \in [Trades -> ExitTask]
    BY <1>2, <1>3, <1>4, Types
  <2> HIDE DEF n
  <2> QED BY <1>1, <2>1, <2>2, Types DEF TypeOK
<1>6. \A u \in Trades : tick'[u].pc \in TickSaving => tick'[u] = tick[u]
  BY <1>2, <1>4, Types DEF TickSaving
<1>7. \A u \in Trades : exit'[u].pc = "saving" => exit'[u] = exit[u]
  BY <1>3, <1>4, Types
<1> QED BY <1>5, <1>6, <1>7, Types, QuietKeeps DEF Trade, IInv, ClosingIsTrue

\* The clock disturbs nothing.
LEMMA HoldLimitKeeps ==
  ASSUME IInv, HoldLimitPasses
  PROVE  IInv'
<1>1. TypeOK'
  BY Types DEF HoldLimitPasses, TypeOK
<1> QED BY <1>1, Types, QuietKeeps DEF HoldLimitPasses, IInv, ClosingIsTrue

\* The walk of SniperOrchestrator.handle writes nothing.
LEMMA BeginTickKeeps ==
  ASSUME IInv, NEW t \in Trades, BeginTick(t)
  PROVE  IInv'
<1> DEFINE k == IF position.status = "OPEN" THEN [tick[t] EXCEPT !.pc = "stats"] ELSE DoneTick
<1>1. tick' = [tick EXCEPT ![t] = k] /\ k \in TickTask /\ k.pc \notin TickSaving
  <2>1. tick[t] \in TickTask
    BY Types
  <2>2. k \in TickTask /\ k.pc \notin TickSaving
    BY <2>1, DoneTasks DEF TickTask, TickSaving
  <2> QED BY <2>2, Types DEF BeginTick
<1> HIDE DEF k
<1>2. TypeOK'
  BY <1>1, Types DEF BeginTick, TypeOK
<1>3. \A u \in Trades : tick'[u].pc \in TickSaving => tick'[u] = tick[u]
  BY <1>1, Types
<1> QED BY <1>2, <1>3, Types, QuietKeeps DEF BeginTick, IInv, ClosingIsTrue

\* The tick is over and nothing else happens.
LEMMA TickDoneKeeps ==
  ASSUME IInv, NEW t \in Trades, tick' = [tick EXCEPT ![t] = DoneTick],
         UNCHANGED <<position, held, traded, exit, whale, stored, sales, sold>>,
         closings' \in Seq(ExitReasons), closings' # <<>> => position.status = "CLOSED"
  PROVE  IInv'
<1>1. TypeOK'
  BY DoneTasks, Types DEF TypeOK
<1>2. \A u \in Trades : tick'[u].pc \in TickSaving => tick'[u] = tick[u]
  BY DoneTasks, Types DEF TickSaving
<1> QED BY <1>1, <1>2, Types, QuietKeeps

\* onPriceTick, up to its first await.
LEMMA OnPriceTickKeeps ==
  ASSUME IInv, NEW t \in Trades, OnPriceTick(t)
  PROVE  IInv'
<1>1. CASE tick' = [tick EXCEPT ![t] = DoneTick] /\ UNCHANGED <<position, stored, sales, sold>>
  BY <1>1, Types, TickDoneKeeps DEF OnPriceTick, IInv, ClosingIsTrue
<1>2. CASE Decide(t, ApplyPriceTick(position, tick[t].price), 0, held)
  <2>1. tick[t].price \in Nat
    BY Types DEF TickTask
  <2>2. UNCHANGED <<held, traded, exit, whale, closings>>
    BY DEF OnPriceTick
  <2> QED BY <1>2, <2>1, <2>2, Types, PriceTickOnlyPrices, DecideKeeps
<1> QED BY <1>1, <1>2 DEF OnPriceTick

\* onPriceTick's loop, resumed after a save.
LEMMA AfterPartialExitKeeps ==
  ASSUME IInv, NEW t \in Trades, AfterPartialExit(t)
  PROVE  IInv'
<1>1. tick[t].round + 1 \in Nat /\ tick[t].late \in BOOLEAN
  BY Types DEF TickTask
<1>2. UNCHANGED <<held, traded, exit, whale, closings>>
  BY DEF AfterPartialExit
<1> QED BY <1>1, <1>2, Types, DecideKeeps DEF AfterPartialExit

\* The closing that onPriceTick announces is true.
LEMMA AfterFullExitKeeps ==
  ASSUME IInv, NEW t \in Trades, AfterFullExit(t)
  PROVE  IInv'
<1>1. tick[t].write.snapshot.exitReason \in ExitReasons /\ position.status = "CLOSED"
  BY DEF AfterFullExit, IInv, ClosersClosed
<1>2. closings' \in Seq(ExitReasons)
  BY <1>1, Types, AppendProperties DEF AfterFullExit
<1> QED BY <1>1, <1>2, TickDoneKeeps DEF AfterFullExit

\* The end of onPriceTick.
LEMMA EndTickKeeps ==
  ASSUME IInv, NEW t \in Trades, EndTick(t)
  PROVE  IInv'
BY Types, TickDoneKeeps DEF EndTick, IInv, ClosingIsTrue
-----------------------------------------------------------------------------
(* The exit task.                                                          *)

\* An exit task moves the position on and leaves the ticks alone.
LEMMA ExitTaskKeeps ==
  ASSUME IInv, NEW t \in Trades, position' \in Position, sold' \in Nat,
         Moves(position, position'), Balanced(position', sold'),
         stored' \in Snapshot, Behind(stored', position'),
         UNCHANGED <<tick, held, traded, closings, sales>>,
         whale' \in [tracked : BOOLEAN, sold : Nat, sellTxCount : Nat],
         NEW k \in ExitTask, exit' = [exit EXCEPT ![t] = k],
         k.pc = "saving" => Behind(k.write.snapshot, position')
  PROVE  IInv'
<1>1. TypeOK'
  BY Types DEF TypeOK
<1>2. TokensConserved' /\ StoredNeverAhead'
  BY DEF TokensConserved, Balanced, StoredNeverAhead, Behind
<1>3. WritesBehind'
  <2> SUFFICES ASSUME NEW u \in Trades
               PROVE  /\ tick'[u].pc \in TickSaving => Behind(tick'[u].write.snapshot, position')
                      /\ exit'[u].pc = "saving" => Behind(exit'[u].write.snapshot, position')
    BY DEF WritesBehind
  <2>1. tick[u].write.snapshot \in Snapshot /\ exit[u].write.snapshot \in Snapshot
    BY Types DEF TickTask, ExitTask, Write
  <2>2. tick'[u].pc \in TickSaving => Behind(tick'[u].write.snapshot, position')
    BY <2>1, Types, BehindKept DEF IInv, WritesBehind
  <2>3. CASE u = t
    BY <2>2, <2>3, Types
  <2>4. CASE u # t
    <3>1. exit'[u] = exit[u]
      BY <2>4, Types
    <3> QED BY <2>1, <2>2, <3>1, Types, BehindKept DEF IInv, WritesBehind
  <2> QED BY <2>3, <2>4
<1>4. position.status = "CLOSED" => position'.status = "CLOSED"
  BY DEF Moves, SnapshotOf
<1>5. ClosersClosed' /\ ClosingIsTrue'
  BY <1>4 DEF IInv, ClosersClosed, ClosingIsTrue
<1> QED BY <1>1, <1>2, <1>3, <1>5 DEF IInv

\* forceExit of a part or all of what is left, up to its save.
LEMMA ForceExitKeeps ==
  ASSUME IInv, NEW t \in Trades, NEW p \in Position, p.status = "OPEN",
         position.status = "OPEN", p.remaining = position.remaining,
         NEW amount \in 0..p.remaining, ForceExit(t, p, amount),
         UNCHANGED <<tick, held, traded, closings, sales>>,
         whale' \in [tracked : BOOLEAN, sold : Nat, sellTxCount : Nat]
  PROVE  IInv'
<1> DEFINE q == ApplyPaperExit(p, amount, "WHALE_EXIT_EMERGENCY")
           k == [exit[t] EXCEPT !.pc = "saving", !.write = WriteOf(q)]
<1>1. /\ position' = q /\ stored' = StoredAfter(q) /\ sold' = sold + amount
      /\ exit' = [exit EXCEPT ![t] = k]
  BY Types DEF ForceExit, ExitTask
<1>2. /\ q \in Position
      /\ \/ q.status = "OPEN" /\ q.remaining = p.remaining - amount /\ q.remaining > Dust
         \/ q.status = "CLOSED" /\ q.remaining = 0 /\ p.remaining - amount <= Dust
  BY PaperExit DEF ExitReasons
<1> HIDE DEF q
<1>3. Balanced(p, sold)
  BY DEF IInv, TokensConserved, Balanced
<1>4. Moves(p, q) /\ Balanced(q, sold + amount) /\ sold + amount \in Nat
  BY <1>2, <1>3, Types, ExitMoves
<1>5. Moves(position, q)
  BY <1>4 DEF Moves
<1>6. stored' \in Snapshot /\ Behind(stored', q)
  BY <1>1, <1>2, <1>5, StoredAfterSave
<1>7. WriteOf(q) \in Write /\ Behind(WriteOf(q).snapshot, q)
  BY <1>2, SnapshotType, BehindSelf DEF WriteOf
<1>8. k \in ExitTask /\ k.write = WriteOf(q)
  BY <1>7, Types DEF ExitTask
<1> HIDE DEF k
<1>9. Behind(k.write.snapshot, q)
  BY <1>7, <1>8
<1> QED BY <1>1, <1>2, <1>4, <1>5, <1>6, <1>8, <1>9, ExitTaskKeeps

\* A sale that WhaleExitMonitor.handle drops.
LEMMA IgnoreWhaleSellKeeps ==
  ASSUME IInv, NEW t \in Trades, IgnoreWhaleSell(t)
  PROVE  IInv'
<1>1. whale' \in [tracked : BOOLEAN, sold : Nat, sellTxCount : Nat]
  BY Types DEF IgnoreWhaleSell
<1>2. Moves(position, position) /\ Balanced(position, sold)
  BY Types, ConstantsAssumption
     DEF ConstantsAssumption, Moves, Position, IInv, TokensConserved, Balanced
<1> QED BY <1>1, <1>2, DoneTasks, Types, ExitTaskKeeps DEF IgnoreWhaleSell

\* A sale that WhaleExitMonitor.handle counts, with the exit it may force.
LEMMA CountWhaleSellKeeps ==
  ASSUME IInv, NEW t \in Trades, CountWhaleSell(t)
  PROVE  IInv'
<1> DEFINE count == whale.sellTxCount + 1
           total == whale.sold + exit[t].amount
           flags == IF count >= 3 THEN {"multipleExits"} ELSE {}
           tier  == EvaluateWhaleExitTier(total, WhaleEntryAmount, flags)
           p     == [position EXCEPT !.tier = tier]
<1>1. /\ position.status = "OPEN"
      /\ whale' = [whale EXCEPT !.sold = total, !.sellTxCount = count]
      /\ UNCHANGED <<held, traded, tick, closings, sales>>
      /\ \/ /\ position' = p /\ exit' = [exit EXCEPT ![t] = DoneExit]
            /\ UNCHANGED <<stored, sold>>
         \/ ForceExit(t, p, ReduceAmount(p))
         \/ ForceExit(t, p, p.remaining)
  BY DEF CountWhaleSell
<1>2. total \in Nat /\ count \in Nat
  BY Types DEF ExitTask
<1>3. tier \in Tiers
  <2>1. flags \in {{}, {"multipleExits"}}
    OBVIOUS
  <2> HIDE DEF flags, total
  <2> QED BY <2>1, TierType
<1> HIDE DEF tier, total, count
<1>4. whale' \in [tracked : BOOLEAN, sold : Nat, sellTxCount : Nat]
  BY <1>1, <1>2, Types
<1>5. /\ p \in Position /\ p.status = "OPEN" /\ p.remaining = position.remaining
      /\ SnapshotOf(p) = SnapshotOf(position)
  BY <1>1, <1>3, Types DEF Position, SnapshotOf
<1> HIDE DEF p
<1>6. CASE position' = p /\ exit' = [exit EXCEPT ![t] = DoneExit] /\ UNCHANGED <<stored, sold>>
  <2>1. Moves(position, p) /\ Balanced(p, sold) /\ Behind(stored, p)
    <3>1. position.remaining <= position.remaining /\ Behind(stored, position)
      BY Types, ConstantsAssumption DEF ConstantsAssumption, Position
    <3>2. Moves(position, p)
      BY <1>5, <3>1 DEF Moves
    <3>3. Behind(stored, p)
      BY <1>5, <3>1 DEF Behind
    <3>4. Balanced(p, sold)
      BY <1>1, <1>5 DEF IInv, TokensConserved, Balanced
    <3> QED BY <3>2, <3>3, <3>4
  <2> QED BY <1>1, <1>4, <1>5, <1>6, <2>1, DoneTasks, Types, ExitTaskKeeps
<1>7. CASE ForceExit(t, p, ReduceAmount(p))
  BY <1>1, <1>4, <1>5, <1>7, ReduceAmountBounds, ForceExitKeeps
<1>8. CASE ForceExit(t, p, p.remaining)
  <2>1. p.remaining \in 0..p.remaining
    BY <1>5, ConstantsAssumption DEF ConstantsAssumption, Position
  <2> QED BY <1>1, <1>4, <1>5, <1>8, <2>1, ForceExitKeeps
<1> QED BY <1>1, <1>6, <1>7, <1>8

\* The closing that forceExit announces is true: it has read the status again.
LEMMA AfterForceExitKeeps ==
  ASSUME IInv, NEW t \in Trades, AfterForceExit(t)
  PROVE  IInv'
<1>1. exit' \in [Trades -> ExitTask]
  BY DoneTasks, Types DEF AfterForceExit
<1>2. closings' \in Seq(ExitReasons)
  BY Types, AppendProperties DEF AfterForceExit, ExitReasons
<1>3. TypeOK'
  BY <1>1, <1>2, Types DEF AfterForceExit, TypeOK
<1>4. \A u \in Trades : exit'[u].pc = "saving" => exit'[u] = exit[u]
  BY DoneTasks, Types DEF AfterForceExit
<1>5. closings' # <<>> => position.status = "CLOSED"
  BY DEF AfterForceExit, IInv, ClosingIsTrue
<1> QED BY <1>3, <1>4, <1>5, Types, QuietKeeps DEF AfterForceExit
-----------------------------------------------------------------------------
\* Every step keeps the invariant.
LEMMA NextIInv == IInv /\ [Next]_vars => IInv'
<1> SUFFICES ASSUME IInv, [Next]_vars PROVE IInv'
  OBVIOUS
<1>1. ASSUME NEW price \in Prices, NEW amount \in SellAmounts, Trade(price, amount)
      PROVE  IInv'
  BY <1>1, TradeKeeps
<1>2. CASE HoldLimitPasses
  BY <1>2, HoldLimitKeeps
<1>3. ASSUME NEW t \in Trades, TickStep(t)
      PROVE  IInv'
  BY <1>3, CommitKeeps, BeginTickKeeps, OnPriceTickKeeps, AfterPartialExitKeeps,
     AfterFullExitKeeps, EndTickKeeps DEF TickStep
<1>4. ASSUME NEW t \in Trades, ExitStep(t)
      PROVE  IInv'
  BY <1>4, CommitKeeps, IgnoreWhaleSellKeeps, CountWhaleSellKeeps, AfterForceExitKeeps
     DEF ExitStep
<1>5. CASE UNCHANGED vars
  BY <1>5 DEF vars, IInv, TypeOK, TokensConserved, StoredNeverAhead, WritesBehind,
     ClosersClosed, ClosingIsTrue, Behind, SnapshotOf
<1> QED BY <1>1, <1>2, <1>3, <1>4, <1>5 DEF Next

\* The inductive invariant holds in every behaviour.
THEOREM Invariance == Spec => []IInv
<1>1. Init => IInv
  BY InitIInv
<1>2. IInv /\ [Next]_vars => IInv'
  BY NextIInv
<1> QED BY <1>1, <1>2, PTL DEF Spec

\* Every variable of PositionManager keeps its type.
THEOREM TypeCorrect == Spec => []TypeOK
<1>1. IInv => TypeOK
  BY DEF IInv
<1> QED BY <1>1, Invariance, PTL

\* Overlapping exits of ticks and of the whale monitor never sell a token twice.
THEOREM TokensAreConserved == Spec => []TokensConserved
<1>1. IInv => TokensConserved
  BY DEF IInv
<1> QED BY <1>1, Invariance, PTL

\* However late and in whatever order writes commit, the repository never shows
\* an exit that did not happen.
THEOREM StoredIsNeverAhead == Spec => []StoredNeverAhead
<1>1. IInv => StoredNeverAhead
  BY DEF IInv
<1> QED BY <1>1, Invariance, PTL

\* position.closed is never emitted for a position that is open.
THEOREM ClosingsAreTrue == Spec => []ClosingIsTrue
<1>1. IInv => ClosingIsTrue
  BY DEF IInv
<1> QED BY <1>1, Invariance, PTL
-----------------------------------------------------------------------------
(* What a single step may do.                                              *)

\* The flags that WhaleExitMonitor raises at the nth sale.
RaisedFlags(n) == IF n >= 3 THEN {"multipleExits"} ELSE {}

\* The tier never exceeds what the sales counted so far call for, and EMERGENCY has
\* closed the position.
TierFollows ==
  /\ Rank(position.tier) <= Rank(EvaluateWhaleExitTier(whale.sold, WhaleEntryAmount,
                                                       RaisedFlags(whale.sellTxCount)))
  /\ position.tier = "EMERGENCY" => position.status = "CLOSED"

\* The loop of some tick runs one iteration.
LoopRuns ==
  \E t \in Trades, p \in Position, round \in Nat, late \in BOOLEAN :
    /\ Decide(t, p, round, late)
    /\ p.status = position.status /\ p.remaining = position.remaining
    /\ p.filled = position.filled /\ p.tier = position.tier
    /\ p.status = "CLOSED" => p = position
    /\ UNCHANGED whale

\* The position and what the monitor has counted stay as they are.
Idles == /\ UNCHANGED <<position, sold, sales>>
         /\ whale'.sold = whale.sold /\ whale'.sellTxCount = whale.sellTxCount

\* Every step idles, runs an iteration of a loop, or counts a sale of the whale.
LEMMA StepCases ==
  ASSUME IInv, [Next]_vars
  PROVE  Idles \/ LoopRuns \/ \E t \in Trades : CountWhaleSell(t)
<1>1. ASSUME NEW t \in Trades, OnPriceTick(t)
      PROVE  Idles \/ LoopRuns
  <2> DEFINE p == ApplyPriceTick(position, tick[t].price)
  <2>1. UNCHANGED whale
    BY <1>1 DEF OnPriceTick
  <2>2. CASE UNCHANGED <<position, sold, sales>>
    BY <2>1, <2>2 DEF Idles
  <2>3. CASE position.status = "OPEN" /\ Decide(t, p, 0, held)
    <3>1. tick[t].price \in Nat /\ position \in Position /\ held \in BOOLEAN
      BY Types DEF TickTask
    <3>2. /\ p \in Position /\ p.status = position.status /\ p.remaining = position.remaining
          /\ p.filled = position.filled /\ p.tier = position.tier
      BY <3>1, PriceTickOnlyPrices
    <3> HIDE DEF p
    <3> QED BY <2>1, <2>3, <3>1, <3>2 DEF LoopRuns
  <2>4. \/ UNCHANGED <<position, sold, sales>>
        \/ position.status = "OPEN" /\ Decide(t, p, 0, held)
    BY <1>1 DEF OnPriceTick
  <2> QED BY <2>2, <2>3, <2>4
<1>2. ASSUME NEW t \in Trades, AfterPartialExit(t)
      PROVE  LoopRuns
  <2>1. /\ tick[t].round + 1 \in Nat /\ tick[t].late \in BOOLEAN /\ position \in Position
    BY Types DEF TickTask
  <2>2. Decide(t, position, tick[t].round + 1, tick[t].late) /\ UNCHANGED whale
    BY <1>2 DEF AfterPartialExit
  <2> QED BY <2>1, <2>2 DEF LoopRuns
<1>3. ASSUME NEW t \in Trades,
             \/ CommitTick(t) \/ BeginTick(t) \/ AfterFullExit(t) \/ EndTick(t)
             \/ CommitExit(t) \/ AfterForceExit(t)
      PROVE  Idles
  BY <1>3 DEF Idles, CommitTick, BeginTick, AfterFullExit, EndTick, CommitExit, AfterForceExit
<1>4. ASSUME NEW t \in Trades, IgnoreWhaleSell(t)
      PROVE  Idles
  BY <1>4, Types DEF Idles, IgnoreWhaleSell
<1>5. CASE UNCHANGED vars \/ HoldLimitPasses
  BY <1>5 DEF vars, Idles, HoldLimitPasses
<1>6. ASSUME NEW price \in Prices, NEW amount \in SellAmounts, Trade(price, amount)
      PROVE  Idles
  BY <1>6 DEF Idles, Trade
<1> QED BY <1>1, <1>2, <1>3, <1>4, <1>5, <1>6 DEF Next, TickStep, ExitStep

\* What an iteration of a loop makes of the tier and the rungs.
LEMMA LoopEffect ==
  ASSUME IInv, LoopRuns
  PROVE  /\ position'.tier = position.tier
         /\ position.status = "CLOSED" => position' = position /\ sold' = sold
         /\ \/ position'.filled = position.filled /\ UNCHANGED sales
            \/ \E r \in Rungs \ position.filled, n \in Nat :
                 /\ position'.filled = position.filled \cup
                      {FirstOf({s \in Rungs : Ladder[s].triggerPct = Ladder[r].triggerPct})}
                 /\ sales' = [sales EXCEPT ![r] = Append(@, n)]
<1>1. PICK t \in Trades, p \in Position, round \in Nat, late \in BOOLEAN :
        /\ Decide(t, p, round, late)
        /\ p.status = position.status /\ p.filled = position.filled /\ p.tier = position.tier
        /\ p.status = "CLOSED" => p = position
  BY DEF LoopRuns
<1>2. tick[t].price \in Nat
  BY Types DEF TickTask
<1>3. ASSUME NEW r \in Rungs \ p.filled, p.status = "OPEN", position' = SellRung(p, r),
             sales' = [sales EXCEPT ![r] = Append(@, tick[t].price)]
      PROVE  /\ position'.tier = p.tier
             /\ position'.filled = p.filled \cup
                  {FirstOf({s \in Rungs : Ladder[s].triggerPct = Ladder[r].triggerPct})}
  BY <1>3, RungSale
<1>4. ASSUME NEW why \in ExitReasons, p.status = "OPEN",
             position' = ApplyPaperExit(p, p.remaining, why)
      PROVE  position'.tier = p.tier /\ position'.filled = p.filled
  <2>1. p.remaining \in 0..p.remaining
    BY ConstantsAssumption DEF ConstantsAssumption, Position
  <2> QED BY <1>4, <2>1, PaperExit
<1>5. \/ \E r \in Rungs \ p.filled :
           /\ p.status = "OPEN" /\ position' = SellRung(p, r)
           /\ sales' = [sales EXCEPT ![r] = Append(@, tick[t].price)]
      \/ \E why \in ExitReasons :
           /\ p.status = "OPEN" /\ position' = ApplyPaperExit(p, p.remaining, why)
           /\ UNCHANGED sales
      \/ position' = p /\ UNCHANGED <<sales, sold>>
  BY <1>1, DecideCases
<1>6. CASE \E r \in Rungs \ p.filled :
             /\ p.status = "OPEN" /\ position' = SellRung(p, r)
             /\ sales' = [sales EXCEPT ![r] = Append(@, tick[t].price)]
  <2>1. PICK r \in Rungs \ p.filled :
          /\ p.status = "OPEN" /\ position' = SellRung(p, r)
          /\ sales' = [sales EXCEPT ![r] = Append(@, tick[t].price)]
    BY <1>6
  <2>2. position.status # "CLOSED" /\ r \in Rungs \ position.filled
    BY <1>1, <2>1
  <2>3. /\ position'.tier = position.tier
        /\ position'.filled = position.filled \cup
             {FirstOf({s \in Rungs : Ladder[s].triggerPct = Ladder[r].triggerPct})}
    BY <1>1, <1>3, <2>1
  <2> QED BY <1>2, <2>1, <2>2, <2>3
<1>7. CASE \E why \in ExitReasons :
             /\ p.status = "OPEN" /\ position' = ApplyPaperExit(p, p.remaining, why)
             /\ UNCHANGED sales
  BY <1>1, <1>4, <1>7
<1>8. CASE position' = p /\ UNCHANGED <<sales, sold>>
  <2>1. sales' = sales /\ sold' = sold
    BY <1>8
  <2> QED BY <1>1, <1>8, <2>1
<1> QED BY <1>5, <1>6, <1>7, <1>8

\* What a counted sale makes of the position: the tier of all that was sold by now,
\* and no token left at EMERGENCY.
LEMMA CountEffect ==
  ASSUME IInv, NEW t \in Trades, CountWhaleSell(t)
  PROVE  /\ position'.filled = position.filled /\ UNCHANGED sales
         /\ whale'.sold = whale.sold + exit[t].amount
         /\ whale'.sellTxCount = whale.sellTxCount + 1
         /\ position'.tier = EvaluateWhaleExitTier(whale'.sold, WhaleEntryAmount,
                                                   RaisedFlags(whale'.sellTxCount))
         /\ position'.tier = "EMERGENCY" => position'.status = "CLOSED"
<1> DEFINE count == whale.sellTxCount + 1
           total == whale.sold + exit[t].amount
           tier  == EvaluateWhaleExitTier(total, WhaleEntryAmount, RaisedFlags(count))
           p     == [position EXCEPT !.tier = tier]
           Left(a) == ApplyPaperExit(p, a, "WHALE_EXIT_EMERGENCY")
<1>1. /\ position.status = "OPEN" /\ UNCHANGED sales
      /\ whale' = [whale EXCEPT !.sold = total, !.sellTxCount = count]
      /\ \/ tier \in {"NONE", "WARN"} /\ position' = p
         \/ tier = "REDUCE" /\ position' = Left(ReduceAmount(p))
         \/ tier = "EMERGENCY" /\ position' = Left(p.remaining)
  BY DEF CountWhaleSell, ForceExit, RaisedFlags
<1>2. whale'.sold = total /\ whale'.sellTxCount = count
  BY <1>1, Types
<1>3. tier \in Tiers
  <2>1. RaisedFlags(count) \in {{}, {"multipleExits"}}
    BY DEF RaisedFlags
  <2> QED BY <2>1, TierType
<1> HIDE DEF tier
<1>4. p \in Position /\ p.status = "OPEN" /\ p.filled = position.filled /\ p.tier = tier
  BY <1>1, <1>3, Types DEF Position
<1> HIDE DEF p
<1>5. p.remaining \in 0..p.remaining /\ Dust \in Nat /\ p.remaining \in Nat
  BY <1>4, ConstantsAssumption DEF ConstantsAssumption, Position
<1>6. \A a \in 0..p.remaining : Left(a).filled = p.filled /\ Left(a).tier = p.tier
  BY <1>4, PaperExit DEF ExitReasons
<1>7. Left(p.remaining).status = "CLOSED"
  <2>1. p.remaining - p.remaining <= Dust
    BY <1>5
  <2> QED BY <1>4, <2>1 DEF ApplyPaperExit, Position
<1>8. ReduceAmount(p) \in 0..p.remaining
  BY <1>4, ReduceAmountBounds
<1> HIDE DEF Left
<1>9. position'.filled = p.filled /\ position'.tier = tier
  BY <1>1, <1>4, <1>5, <1>6, <1>8
<1>10. tier = "EMERGENCY" => position'.status = "CLOSED"
  BY <1>1, <1>7
<1> QED BY <1>1, <1>2, <1>4, <1>9, <1>10 DEF tier

\* Neither the tier nor the closing of an EMERGENCY is ever taken back.
LEMMA TierStep ==
  ASSUME IInv, TierFollows, [Next]_vars
  PROVE  /\ TierFollows'
         /\ Rank(position'.tier) >= Rank(position.tier)
         /\ position'.tier = "EMERGENCY" => position'.status = "CLOSED"
<1>1. position.tier \in Tiers /\ \A x \in Tiers : Rank(x) \in 0..3
  BY Types DEF Position, Tiers, Rank
<1>2. CASE Idles
  BY <1>1, <1>2 DEF Idles, TierFollows
<1>3. CASE LoopRuns
  <2>1. UNCHANGED whale /\ position'.tier = position.tier
    BY <1>3, LoopEffect DEF LoopRuns
  <2>2. position.status = "CLOSED" => position'.status = "CLOSED"
    BY <1>3, LoopEffect
  <2> QED BY <1>1, <2>1, <2>2 DEF TierFollows
<1>4. ASSUME NEW t \in Trades, CountWhaleSell(t)
      PROVE  /\ TierFollows'
             /\ Rank(position'.tier) >= Rank(position.tier)
             /\ position'.tier = "EMERGENCY" => position'.status = "CLOSED"
  <2> DEFINE a == EvaluateWhaleExitTier(whale.sold, WhaleEntryAmount,
                                        RaisedFlags(whale.sellTxCount))
             b == EvaluateWhaleExitTier(whale'.sold, WhaleEntryAmount,
                                        RaisedFlags(whale'.sellTxCount))
  <2>1. /\ whale'.sold = whale.sold + exit[t].amount
        /\ whale'.sellTxCount = whale.sellTxCount + 1
        /\ position'.tier = b
        /\ position'.tier = "EMERGENCY" => position'.status = "CLOSED"
    BY <1>4, CountEffect
  <2>2. /\ whale.sold \in Nat /\ exit[t].amount \in Nat /\ whale.sellTxCount \in Nat
        /\ WhaleEntryAmount \in Nat
    BY Types, ManagerAssumption DEF ExitTask, ManagerAssumption
  <2>3. /\ RaisedFlags(whale.sellTxCount) \in {{}, {"multipleExits"}}
        /\ RaisedFlags(whale'.sellTxCount) \in {{}, {"multipleExits"}}
        /\ RaisedFlags(whale.sellTxCount) \subseteq RaisedFlags(whale'.sellTxCount)
    BY <2>1, <2>2 DEF RaisedFlags
  <2>4. Rank(a) <= Rank(b)
    <3>1. whale'.sold \in Nat /\ whale.sold <= whale'.sold
      BY <2>1, <2>2
    <3> QED BY <2>2, <2>3, <3>1, TierMonotone
  <2>5. Rank(a) \in 0..3 /\ Rank(b) \in 0..3
    BY <2>3, TierType
  <2>6. Rank(position.tier) <= Rank(a)
    BY DEF TierFollows
  <2>7. Rank(position'.tier) <= Rank(b) /\ Rank(position'.tier) >= Rank(position.tier)
    <3> HIDE DEF a, b
    <3> QED BY <1>1, <2>1, <2>4, <2>5, <2>6
  <2> QED BY <2>1, <2>7 DEF TierFollows
<1> QED BY <1>2, <1>3, <1>4, StepCases

\* A closed position is never touched again, whatever was under way.
THEOREM ClosedStaysFinal == Spec => ClosedIsFinal
<1>1. IInv /\ [Next]_vars
        => [position.status = "CLOSED" => position' = position /\ sold' = sold]_vars
  <2>1. ASSUME NEW t \in Trades, CountWhaleSell(t)
        PROVE  position.status = "OPEN"
    BY <2>1 DEF CountWhaleSell
  <2> QED BY <2>1, StepCases, LoopEffect DEF Idles
<1> QED BY <1>1, Invariance, PTL DEF Spec, ClosedIsFinal

\* A rung is marked filled exactly when it has sold, and sells once, on every ladder
\* that has one rung to each trigger (markTakeProfitFilled finds rungs by trigger).
THEOREM RungsSellOnce ==
  ASSUME \A a, b \in Rungs : Ladder[a].triggerPct = Ladder[b].triggerPct => a = b
  PROVE  Spec => []RungSoldOnce
<1>1. Init => RungSoldOnce
  BY DEF Init, RungSoldOnce, BuildPositionFromFill
<1>2. IInv /\ RungSoldOnce /\ [Next]_vars => RungSoldOnce'
  <2> SUFFICES ASSUME IInv, RungSoldOnce, [Next]_vars PROVE RungSoldOnce'
    OBVIOUS
  <2>1. CASE position'.filled = position.filled /\ UNCHANGED sales
    BY <2>1 DEF RungSoldOnce
  <2>2. ASSUME NEW r \in Rungs \ position.filled, NEW n \in Nat,
               position'.filled = position.filled \cup
                 {FirstOf({s \in Rungs : Ladder[s].triggerPct = Ladder[r].triggerPct})},
               sales' = [sales EXCEPT ![r] = Append(@, n)]
        PROVE  RungSoldOnce'
    <3>1. position'.filled = position.filled \cup {r}
      BY <2>2, RungMarksItself
    <3>2. sales \in [Rungs -> Seq(Nat)]
      BY Types
    <3>3. Len(sales'[r]) = Len(sales[r]) + 1
      BY <2>2, <3>2, AppendProperties
    <3>4. \A q \in Rungs \ {r} : sales'[q] = sales[q]
      BY <2>2, <3>2
    <3>5. Len(sales[r]) = 0
      BY DEF RungSoldOnce
    <3> SUFFICES ASSUME NEW q \in Rungs
                 PROVE  Len(sales'[q]) = IF q \in position'.filled THEN 1 ELSE 0
      BY DEF RungSoldOnce
    <3>6. CASE q = r
      BY <3>1, <3>3, <3>5, <3>6
    <3>7. CASE q # r
      BY <3>1, <3>4, <3>7 DEF RungSoldOnce
    <3> QED BY <3>6, <3>7
  <2>3. ASSUME NEW t \in Trades, CountWhaleSell(t)
        PROVE  position'.filled = position.filled /\ UNCHANGED sales
    BY <2>3, CountEffect
  <2> QED BY <2>1, <2>2, <2>3, StepCases, LoopEffect DEF Idles
<1> QED BY <1>1, <1>2, Invariance, PTL DEF Spec

\* The response to the whale only escalates, and EMERGENCY means out: the tier and the
\* forced exit are one uninterrupted step of WhaleExitMonitor.handle.
THEOREM ResponseEscalates == Spec => WhaleResponseEscalates
<1>1. Init => TierFollows
  <2>1. Init => position.tier = "NONE" /\ whale.sold = 0 /\ whale.sellTxCount = 0
    BY DEF Init, BuildPositionFromFill
  <2>2. Rank("NONE") = 0
    BY DEF Rank
  <2>3. Rank(EvaluateWhaleExitTier(0, WhaleEntryAmount, RaisedFlags(0))) \in 0..3
    BY TierType DEF RaisedFlags
  <2> QED BY <2>1, <2>2, <2>3 DEF TierFollows
<1>2. IInv /\ TierFollows /\ [Next]_vars => TierFollows'
  BY TierStep
<1>3. IInv /\ TierFollows /\ [Next]_vars
        => [/\ Rank(position'.tier) >= Rank(position.tier)
            /\ position'.tier = "EMERGENCY" => position'.status = "CLOSED"]_vars
  BY TierStep
<1> QED BY <1>1, <1>2, <1>3, Invariance, PTL DEF Spec, WhaleResponseEscalates
-----------------------------------------------------------------------------
(* Prices and stops.                                                       *)

\* Everything the stops look at.
SamePrices(p, q) ==
  /\ q.price = p.price /\ q.highWater = p.highWater
  /\ q.trailingActive = p.trailingActive /\ q.trailingStop = p.trailingStop

\* An exit, forced or not, moves no price and no stop.
LEMMA ExitsKeepPrices ==
  ASSUME NEW p \in Position
  PROVE  /\ \A amount, reason : SamePrices(p, ApplyPaperExit(p, amount, reason))
         /\ \A r \in Rungs : SamePrices(p, SellRung(p, r))
<1>1. \A a, why : SamePrices(p, ApplyPaperExit(p, a, why))
                  /\ DOMAIN ApplyPaperExit(p, a, why) = DOMAIN p
  BY DEF ApplyPaperExit, SamePrices, Position
<1>2. ASSUME NEW r \in Rungs PROVE SamePrices(p, SellRung(p, r))
  <2> DEFINE x == ApplyPaperExit(p, RungAmount(p, r), "TAKE_PROFIT")
             F == FirstOf({s \in Rungs : Ladder[s].triggerPct = Ladder[r].triggerPct})
  <2>1. SellRung(p, r) = [x EXCEPT !.filled = x.filled \cup {F}]
    BY DEF SellRung, MarkTakeProfitFilled
  <2>2. SamePrices(p, x) /\ DOMAIN x = DOMAIN p
    BY <1>1
  <2> HIDE DEF x, F
  <2>3. SamePrices(x, SellRung(p, r))
    BY <2>1, <2>2 DEF SamePrices, Position
  <2> QED BY <2>2, <2>3 DEF SamePrices
<1> QED BY <1>1, <1>2

\* What a tick makes of the prices and stops.
LEMMA PriceTickPrices ==
  ASSUME NEW p \in Position, NEW price \in Nat
  PROVE  LET q == ApplyPriceTick(p, price) IN
         /\ q.price = price
         /\ q.highWater = Larger(p.highWater, price)
         /\ q.trailingActive = (p.trailingActive \/ RoiAtLeast(price, TrailingActivationPct))
         /\ q.trailingStop = IF q.trailingActive
                               THEN Larger(p.trailingStop, StopBelow(Larger(p.highWater, price)))
                               ELSE p.trailingStop
BY DEF ApplyPriceTick, MarkPositionPrice, Position

\* An iteration of a loop moves no price and no stop of the position it starts from.
LEMMA DecideKeepsPrices ==
  ASSUME NEW t \in Trades, NEW p \in Position, NEW round \in Nat,
         NEW late \in BOOLEAN, Decide(t, p, round, late)
  PROVE  SamePrices(p, position')
<1>1. SamePrices(p, p)
  BY DEF SamePrices
<1> QED BY <1>1, DecideCases, ExitsKeepPrices

\* A counted sale of the whale moves no price and no stop.
LEMMA CountKeepsPrices ==
  ASSUME IInv, NEW t \in Trades, CountWhaleSell(t)
  PROVE  SamePrices(position, position')
<1>0. position \in Position
  BY Types
<1>1. PICK tier \in Tiers, amount \in Nat :
        LET p == [position EXCEPT !.tier = tier] IN
        position' = p \/ position' = ApplyPaperExit(p, amount, "WHALE_EXIT_EMERGENCY")
  <2> DEFINE tier == EvaluateWhaleExitTier(whale.sold + exit[t].amount, WhaleEntryAmount,
                       IF whale.sellTxCount + 1 >= 3 THEN {"multipleExits"} ELSE {})
             p == [position EXCEPT !.tier = tier]
  <2>1. tier \in Tiers
    BY TierType
  <2>2. p \in Position
    <3> HIDE DEF tier
    <3> QED BY <1>0, <2>1 DEF Position
  <2>3. ReduceAmount(p) \in Nat /\ p.remaining \in Nat
    <3> HIDE DEF p
    <3>1. p.remaining \in Nat
      BY <2>2, ConstantsAssumption DEF ConstantsAssumption, Position
    <3> QED BY <2>2, <3>1, ReduceAmountBounds
  <2>4. \/ position' = p
        \/ position' = ApplyPaperExit(p, ReduceAmount(p), "WHALE_EXIT_EMERGENCY")
        \/ position' = ApplyPaperExit(p, p.remaining, "WHALE_EXIT_EMERGENCY")
    BY DEF CountWhaleSell, ForceExit
  <2> HIDE DEF tier
  <2> QED BY <2>1, <2>3, <2>4
<1> DEFINE p == [position EXCEPT !.tier = tier]
<1>2. SamePrices(position, p) /\ DOMAIN p = DOMAIN position
  BY <1>0 DEF SamePrices, Position
<1>3. SamePrices(p, ApplyPaperExit(p, amount, "WHALE_EXIT_EMERGENCY"))
  <2>1. DOMAIN p = DOMAIN position
    BY <1>2
  <2> HIDE DEF p
  <2> QED BY <1>0, <2>1 DEF ApplyPaperExit, SamePrices, Position
<1>4. position' = p \/ position' = ApplyPaperExit(p, amount, "WHALE_EXIT_EMERGENCY")
  BY <1>1
<1> HIDE DEF p
<1> QED BY <1>2, <1>3, <1>4 DEF SamePrices

\* A price moves when a tick applies the price of its trade, and then only so.
PriceApplied ==
  \E price \in Nat : SamePrices(ApplyPriceTick(position, price), position')

\* Every step leaves the prices of the position alone, or applies one tick's.
LEMMA PriceCases ==
  ASSUME IInv, [Next]_vars
  PROVE  SamePrices(position, position') \/ PriceApplied
<1>1. position \in Position
  BY Types
<1>2. CASE UNCHANGED position
  BY <1>2 DEF SamePrices
<1>3. ASSUME NEW t \in Trades, OnPriceTick(t), position' # position PROVE PriceApplied
  <2> DEFINE p == ApplyPriceTick(position, tick[t].price)
  <2>1. tick[t].price \in Nat /\ held \in BOOLEAN
    BY Types DEF TickTask
  <2>2. p \in Position
    BY <1>1, <2>1, PriceTickOnlyPrices
  <2>3. Decide(t, p, 0, held)
    BY <1>3 DEF OnPriceTick
  <2>4. SamePrices(p, position')
    <3> HIDE DEF p
    <3> QED BY <2>1, <2>2, <2>3, DecideKeepsPrices
  <2> QED BY <2>1, <2>4 DEF PriceApplied
<1>4. ASSUME NEW t \in Trades, AfterPartialExit(t) PROVE SamePrices(position, position')
  <2>1. tick[t].round + 1 \in Nat /\ tick[t].late \in BOOLEAN
    BY Types DEF TickTask
  <2> QED BY <1>1, <1>4, <2>1, DecideKeepsPrices DEF AfterPartialExit
<1>5. ASSUME NEW t \in Trades, CountWhaleSell(t) PROVE SamePrices(position, position')
  BY <1>5, CountKeepsPrices
<1>6. ASSUME NEW t \in Trades,
             \/ CommitTick(t) \/ BeginTick(t) \/ AfterFullExit(t) \/ EndTick(t)
             \/ CommitExit(t) \/ IgnoreWhaleSell(t) \/ AfterForceExit(t)
      PROVE  UNCHANGED position
  BY <1>6 DEF CommitTick, BeginTick, AfterFullExit, EndTick, CommitExit, IgnoreWhaleSell,
              AfterForceExit
<1>7. CASE UNCHANGED vars \/ HoldLimitPasses
  BY <1>2, <1>7 DEF vars, HoldLimitPasses
<1>8. ASSUME NEW price \in Prices, NEW amount \in SellAmounts, Trade(price, amount)
      PROVE  UNCHANGED position
  BY <1>8 DEF Trade
<1> QED BY <1>2, <1>3, <1>4, <1>5, <1>6, <1>7, <1>8 DEF Next, TickStep, ExitStep

\* The stop that a tick arms is no lower than the stop loss it takes over from.
LEMMA ArmedAboveStopLoss ==
  ASSUME TrailingTrailPct <= 100,
         (100 + TrailingActivationPct) * (100 - TrailingTrailPct)
           >= 100 * (100 - InitialStopLossPct),
         NEW price \in Nat, NEW high \in Nat, high >= price,
         RoiAtLeast(price, TrailingActivationPct)
  PROVE  StopBelow(high) >= StopLoss
<1> DEFINE kept == 100 - TrailingTrailPct
           gain == 100 + TrailingActivationPct
           left == 100 - InitialStopLossPct
<1>1. /\ EntryPrice \in Nat /\ kept \in Nat /\ gain \in Nat /\ left \in Int
      /\ gain * kept \in Int
  BY ConstantsAssumption DEF ConstantsAssumption
<1>2. price * 100 >= EntryPrice * gain
  <2>1. (price - EntryPrice) * 100 >= TrailingActivationPct * EntryPrice
    BY DEF RoiAtLeast
  <2>2. EntryPrice * gain = EntryPrice * 100 + TrailingActivationPct * EntryPrice
    BY ConstantsAssumption DEF ConstantsAssumption
  <2>3. TrailingActivationPct * EntryPrice \in Int
    BY ConstantsAssumption DEF ConstantsAssumption
  <2> QED BY <1>1, <2>1, <2>2, <2>3
<1>3. gain * kept >= 100 * left
  OBVIOUS
<1>4. StopBelow(high) = high * kept /\ StopLoss = EntryPrice * left
  BY DEF StopBelow, StopLoss
<1> HIDE DEF kept, gain, left
<1>5. \A a, b, c \in Int : c >= 0 /\ a >= b => a * c >= b * c
  BY SMTT(30)
<1>6. (price * 100) * kept >= (EntryPrice * gain) * kept
  <2>1. price * 100 \in Int /\ EntryPrice * gain \in Int
    BY <1>1
  <2> QED BY <1>1, <1>2, <1>5, <2>1
<1>7. (gain * kept) * EntryPrice >= (100 * left) * EntryPrice
  <2>1. gain * kept \in Int /\ 100 * left \in Int
    BY <1>1
  <2> QED BY <1>1, <1>3, <1>5, <2>1
<1>8. high * kept >= price * kept
  BY <1>1, <1>5
<1>9. /\ (price * 100) * kept = 100 * (price * kept)
      /\ (EntryPrice * gain) * kept = (gain * kept) * EntryPrice
      /\ (100 * left) * EntryPrice = 100 * (EntryPrice * left)
  BY <1>1
<1>10. price * kept \in Int /\ high * kept \in Int /\ EntryPrice * left \in Int
       /\ (gain * kept) * EntryPrice \in Int
  BY <1>1
<1> QED BY <1>4, <1>6, <1>7, <1>8, <1>9, <1>10

\* The stop in force never moves down, on every configuration whose trailing stop, when
\* it is armed, is not below the initial stop loss.  (strategySchema.ts asks only for
\* positive percentages; the shipped ones satisfy this.)
THEOREM StopTightens ==
  ASSUME TrailingTrailPct <= 100,
         (100 + TrailingActivationPct) * (100 - TrailingTrailPct)
           >= 100 * (100 - InitialStopLossPct)
  PROVE  Spec => StopOnlyTightens
<1>1. IInv /\ [Next]_vars => [StopInForce(position') >= StopInForce(position)]_vars
  <2> SUFFICES ASSUME IInv, [Next]_vars
               PROVE  StopInForce(position') >= StopInForce(position)
    OBVIOUS
  <2>1. /\ position \in Position /\ position.trailingStop \in Nat
        /\ position.highWater \in Nat /\ position.trailingActive \in BOOLEAN
    BY Types DEF Position
  <2>2. StopLoss \in Int
    BY ConstantsAssumption DEF ConstantsAssumption, StopLoss
  <2>3. CASE SamePrices(position, position')
    BY <2>1, <2>2, <2>3 DEF SamePrices, StopInForce
  <2>4. CASE PriceApplied
    <3>1. PICK price \in Nat : SamePrices(ApplyPriceTick(position, price), position')
      BY <2>4 DEF PriceApplied
    <3> DEFINE high == Larger(position.highWater, price)
    <3>2. high \in Nat /\ high >= price
      BY <2>1 DEF Larger
    <3>3. StopBelow(high) \in Int
      BY <3>2, ConstantsAssumption DEF ConstantsAssumption, StopBelow
    <3>4. /\ position'.trailingActive =
               (position.trailingActive \/ RoiAtLeast(price, TrailingActivationPct))
          /\ position'.trailingStop =
               IF position'.trailingActive THEN Larger(position.trailingStop, StopBelow(high))
               ELSE position.trailingStop
      BY <2>1, <3>1, PriceTickPrices DEF SamePrices
    <3> HIDE DEF high
    <3> DEFINE armed == Larger(position.trailingStop, StopBelow(high))
    <3>5. armed \in Int /\ armed >= position.trailingStop /\ armed >= StopBelow(high)
      BY <2>1, <3>3 DEF Larger
    <3>6. position.trailingActive \/ RoiAtLeast(price, TrailingActivationPct)
            => StopInForce(position') = armed
      BY <3>4 DEF StopInForce
    <3> HIDE DEF armed
    <3>7. CASE position.trailingActive
      BY <2>1, <3>5, <3>6, <3>7 DEF StopInForce
    <3>8. CASE ~position.trailingActive /\ RoiAtLeast(price, TrailingActivationPct)
      <4>1. StopBelow(high) >= StopLoss
        BY <3>2, <3>8, ArmedAboveStopLoss
      <4>2. StopInForce(position) = StopLoss
        BY <3>8 DEF StopInForce
      <4> QED BY <2>2, <3>3, <3>8, <3>5, <3>6, <4>1, <4>2
    <3>9. CASE ~position.trailingActive /\ ~RoiAtLeast(price, TrailingActivationPct)
      <4>1. ~position'.trailingActive
        BY <3>4, <3>9
      <4>2. StopInForce(position') = StopLoss /\ StopInForce(position) = StopLoss
        BY <3>9, <4>1 DEF StopInForce
      <4> QED BY <2>2, <4>2
    <3> QED BY <3>7, <3>8, <3>9
  <2> QED BY <2>3, <2>4, PriceCases
<1> QED BY <1>1, Invariance, PTL DEF Spec, StopOnlyTightens
-----------------------------------------------------------------------------
(* No exit that is due is forgotten.                                       *)

Selling(t) == tick[t].pc = "partial"

\* The trades to come have no task yet.
LaterTradesQuiet == \A t \in Trades : t > traded => tick[t].pc = "none"

\* A hit stop never outlives the step that hit it: the tick that moves the price
\* decides on it before it awaits anything.
StopsServed == position.status = "OPEN" => ~StopHit(position)

\* Each round of a loop has filled a rung.
RoundsFill ==
  \A t \in Trades : Selling(t) => tick[t].round + 1 <= Cardinality(position.filled)

RungsRunning ==
  position.status = "OPEN" /\ DueRungs(position) # {} => \E t \in Trades : Selling(t)

DueInv == LaterTradesQuiet /\ StopsServed /\ RoundsFill /\ RungsRunning

\* What the stop and the ladder look at is all that the due exits depend on.
LEMMA DueReads ==
  ASSUME NEW p, NEW q, SamePrices(p, q)
  PROVE  /\ StopHit(q) = StopHit(p)
         /\ q.filled = p.filled => DueRungs(q) = DueRungs(p)
BY DEF SamePrices, StopHit, DueRungs

\* The rungs of the ladder can be counted.
LEMMA FilledCounts ==
  ASSUME NEW S \in SUBSET Rungs
  PROVE  /\ IsFiniteSet(S) /\ Cardinality(S) \in Nat /\ Cardinality(S) <= Len(Ladder)
         /\ Cardinality(S) = Len(Ladder) => S = Rungs
<1>1. Len(Ladder) \in Nat
  BY ConstantsAssumption DEF ConstantsAssumption
<1>2. IsFiniteSet(Rungs) /\ Cardinality(Rungs) = Len(Ladder)
  BY <1>1, FS_Interval DEF Rungs
<1> QED BY <1>2, FS_Subset, FS_CardinalityType

\* No action is due exactly when neither the stop nor a rung is.
LEMMA NoActionMeans ==
  ASSUME NEW p \in Position, p.status = "OPEN"
  PROVE  (DecideNextAction(p, FALSE) = NoAction) <=> (~StopHit(p) /\ DueRungs(p) = {})
<1>1. \A why : FullExit(why) # NoAction
  BY DEF FullExit, NoAction
<1>2. \A r : PartialExit(r) # NoAction
  <2>1. \A r : PartialExit(r).kind = "PARTIAL_EXIT" /\ NoAction.kind = "NO_ACTION"
    BY DEF PartialExit, NoAction
  <2> QED BY <2>1
<1> QED BY <1>1, <1>2 DEF DecideNextAction

\* A step that is none of a loop's leaves the runners as they are, and the position
\* closed or with the same exits due.
LEMMA DueKept ==
  ASSUME IInv, DueInv, position' = position \/ position'.status = "CLOSED" \/
           (position'.status = position.status /\ SamePrices(position, position')),
         position'.filled = position.filled,
         position.status = "CLOSED" => position'.status = "CLOSED",
         \A t \in Trades : /\ Selling(t)' <=> Selling(t)
                           /\ Selling(t) => tick'[t].round = tick[t].round,
         LaterTradesQuiet'
  PROVE  DueInv'
<1>1. SamePrices(position, position)
  BY DEF SamePrices
<1>2. CASE position'.status = "CLOSED"
  BY <1>2 DEF DueInv, StopsServed, RungsRunning, RoundsFill
<1>3. CASE SamePrices(position, position') /\ position'.status = position.status
  <2>1. StopHit(position') = StopHit(position) /\ DueRungs(position') = DueRungs(position)
    BY <1>3, DueReads
  <2> QED BY <1>3, <2>1 DEF DueInv, StopsServed, RungsRunning, RoundsFill, Selling
<1> QED BY <1>1, <1>2, <1>3

\* An iteration of a loop serves the stop, and goes on while a rung is due.  A loop that
\* has used up its rounds has filled the whole ladder.
LEMMA DueLoop ==
  ASSUME Len(Ladder) <= MaxActionsPerTick,
         \A a, b \in Rungs : Ladder[a].triggerPct = Ladder[b].triggerPct => a = b,
         IInv, DueInv, NEW t \in Trades, NEW p \in Position, NEW round \in Nat,
         NEW late \in BOOLEAN, Decide(t, p, round, late), traded' = traded,
         tick[t].pc # "none",
         p.status = position.status, p.filled = position.filled,
         round = 0 \/ (round <= Cardinality(p.filled) /\ (p.status = "OPEN" => ~StopHit(p)))
  PROVE  DueInv'
<1>1. /\ position \in Position /\ tick \in [Trades -> TickTask] /\ traded \in Nat
      /\ tick[t] \in TickTask
  BY Types, ManagerAssumption DEF ManagerAssumption
<1>2. /\ p.filled \in SUBSET Rungs /\ Cardinality(p.filled) \in Nat /\ IsFiniteSet(p.filled)
      /\ Cardinality(p.filled) <= Len(Ladder) /\ Len(Ladder) \in Nat
      /\ Cardinality(p.filled) = Len(Ladder) => p.filled = Rungs
      /\ MaxActionsPerTick \in Nat \ {0}
  BY FilledCounts, ConstantsAssumption, ManagerAssumption
     DEF Position, ConstantsAssumption, ManagerAssumption
<1>3. /\ \A u \in Trades \ {t} : tick'[u] = tick[u]
      /\ \A pc, q : Awaits(t, pc, round, late, q) => tick'[t].pc = pc /\ tick'[t].round = round
      /\ Stops(t) => tick'[t].pc = "done"
  <2>1. \E entry : tick' = [tick EXCEPT ![t] = entry]
    <3>1. \A pc, q : Awaits(t, pc, round, late, q) => \E entry : tick' = [tick EXCEPT ![t] = entry]
      BY DEF Awaits
    <3>2. Stops(t) => \E entry : tick' = [tick EXCEPT ![t] = entry]
      BY DEF Stops
    <3>3. Stops(t) \/ \E pc, q : Awaits(t, pc, round, late, q)
      BY DecideCases
    <3> QED BY <3>1, <3>2, <3>3
  <2>2. \A pc, q : Awaits(t, pc, round, late, q) => tick'[t].pc = pc /\ tick'[t].round = round
    BY <1>1 DEF Awaits, TickTask
  <2>3. Stops(t) => tick'[t].pc = "done"
    BY <1>1, DoneTasks DEF Stops
  <2> QED BY <1>1, <2>1, <2>2, <2>3
<1>4. t <= traded
  BY <1>1 DEF DueInv, LaterTradesQuiet, Trades
<1>5. LaterTradesQuiet'
  BY <1>3, <1>4, <1>1 DEF DueInv, LaterTradesQuiet, Trades
<1>6. round <= Cardinality(p.filled) /\ round \in Nat
  BY <1>2
<1>7. \A u \in Trades \ {t} : Selling(u)' => /\ tick'[u].round + 1 <= Cardinality(p.filled)
                                             /\ tick'[u].round \in Nat
  BY <1>1, <1>3 DEF DueInv, RoundsFill, Selling, TickTask
\* What decideNextAction was asked, when it was asked at all.
<1>8. /\ \A r : NextOutcome(p, round, late) = PartialExit(r) => ~StopHit(p)
      /\ p.status = "OPEN" /\ round < MaxActionsPerTick
           /\ NextOutcome(p, round, late).kind = "NO_ACTION"
         => ~StopHit(p) /\ DueRungs(p) = {}
  BY <1>2 DEF NextOutcome, DecideNextAction, FullExit, PartialExit, NoAction
<1>9. CASE \E r \in Rungs \ p.filled :
             /\ p.status = "OPEN" /\ position' = SellRung(p, r)
             /\ NextOutcome(p, round, late) = PartialExit(r)
             /\ Awaits(t, "partial", round, late, SellRung(p, r))
  <2>1. PICK r \in Rungs \ p.filled :
          /\ p.status = "OPEN" /\ position' = SellRung(p, r)
          /\ NextOutcome(p, round, late) = PartialExit(r)
          /\ Awaits(t, "partial", round, late, SellRung(p, r))
    BY <1>9
  <2>2. position'.filled = p.filled \cup {r}
    BY <2>1, RungSale, RungMarksItself
  <2>3. Cardinality(position'.filled) = Cardinality(p.filled) + 1
    <3>1. r \notin p.filled
      BY <2>1
    <3>2. Cardinality(p.filled \cup {r}) = Cardinality(p.filled) + 1
      BY <1>2, <3>1, FS_AddElement
    <3> QED BY <2>2, <3>2
  <2>4. tick'[t].pc = "partial" /\ tick'[t].round = round
    BY <1>3, <2>1
  <2>5. RoundsFill'
    <3> SUFFICES ASSUME NEW u \in Trades, Selling(u)'
                 PROVE  tick'[u].round + 1 <= Cardinality(position'.filled)
      BY DEF RoundsFill
    <3> QED BY <1>2, <1>6, <1>7, <2>3, <2>4
  <2>6. RungsRunning'
    BY <2>4 DEF RungsRunning, Selling
  <2>7. ~StopHit(p)
    BY <1>8, <2>1
  <2>8. StopHit(position') = StopHit(p)
    BY <2>1, ExitsKeepPrices, DueReads
  <2> QED BY <1>5, <2>5, <2>6, <2>7, <2>8 DEF DueInv, StopsServed
<1>10. CASE \E why \in ExitReasons :
              /\ p.status = "OPEN" /\ position' = ApplyPaperExit(p, p.remaining, why)
              /\ Awaits(t, "full", round, late, ApplyPaperExit(p, p.remaining, why))
  <2>1. PICK why \in ExitReasons :
              /\ p.status = "OPEN" /\ position' = ApplyPaperExit(p, p.remaining, why)
              /\ Awaits(t, "full", round, late, ApplyPaperExit(p, p.remaining, why))
    BY <1>10
  <2>2. p.remaining \in 0..p.remaining /\ p.remaining \in Nat /\ Dust \in Nat
    BY ConstantsAssumption DEF ConstantsAssumption, Position
  <2>3. position'.status = "CLOSED" /\ position'.filled = p.filled
    BY <2>1, <2>2, PaperExit
  <2>4. tick'[t].pc = "full"
    BY <1>3, <2>1
  <2>5. RoundsFill'
    BY <1>7, <2>3, <2>4 DEF RoundsFill, Selling
  <2> QED BY <1>5, <2>3, <2>5 DEF DueInv, StopsServed, RungsRunning
<1>11. CASE /\ position' = p /\ NextOutcome(p, round, late).kind = "NO_ACTION"
            /\ Awaits(t, "final", round, late, p) \/ Stops(t)
  <2>1. tick'[t].pc # "partial"
    BY <1>3, <1>11
  <2>2. RoundsFill'
    BY <1>7, <1>11, <2>1 DEF RoundsFill, Selling
  <2>3. p.status = "OPEN" => ~StopHit(p) /\ DueRungs(p) = {}
    <3> SUFFICES ASSUME p.status = "OPEN" PROVE ~StopHit(p) /\ DueRungs(p) = {}
      OBVIOUS
    <3>1. CASE round < MaxActionsPerTick
      BY <1>8, <1>11, <3>1
    <3>2. CASE ~(round < MaxActionsPerTick)
      <4>1. p.filled = Rungs /\ round # 0
        BY <1>2, <1>6, <3>2
      <4>2. DueRungs(p) = {}
        BY <4>1 DEF DueRungs
      <4> QED BY <4>1, <4>2
    <3> QED BY <3>1, <3>2
  <2> QED BY <1>5, <1>11, <2>2, <2>3 DEF DueInv, StopsServed, RungsRunning
<1> QED BY <1>9, <1>10, <1>11, DecideCases

\* No step forgets an exit that is due.
LEMMA DueStep ==
  ASSUME Len(Ladder) <= MaxActionsPerTick,
         \A a, b \in Rungs : Ladder[a].triggerPct = Ladder[b].triggerPct => a = b,
         IInv, DueInv, [Next]_vars
  PROVE  DueInv'
<1>1. /\ position \in Position /\ tick \in [Trades -> TickTask] /\ held \in BOOLEAN
      /\ \A t \in Trades : /\ tick[t].price \in Nat /\ tick[t].round \in Nat
                           /\ tick[t].late \in BOOLEAN /\ tick[t].round + 1 \in Nat
  BY Types DEF TickTask
<1>2. traded \in Nat /\ MaxTrades \in Nat
  BY Types, ManagerAssumption DEF ManagerAssumption
\* A step that leaves the position alone, and no loop starts or stops.
<1>3. ASSUME UNCHANGED position, LaterTradesQuiet',
             \A t \in Trades : /\ Selling(t)' <=> Selling(t)
                               /\ Selling(t) => tick'[t].round = tick[t].round
      PROVE  DueInv'
  BY <1>3, DueKept
<1>4. ASSUME NEW t \in Trades, tick[t].pc \notin {"none", "partial"}, UNCHANGED <<position, traded>>,
             NEW k, tick' = [tick EXCEPT ![t] = k], k.pc # "partial"
      PROVE  DueInv'
  <2>1. tick'[t] = k /\ \A u \in Trades \ {t} : tick'[u] = tick[u]
    BY <1>1, <1>4
  <2>2. LaterTradesQuiet'
    BY <1>4, <2>1 DEF DueInv, LaterTradesQuiet
  <2>3. \A u \in Trades : /\ Selling(u)' <=> Selling(u)
                          /\ Selling(u) => tick'[u].round = tick[u].round
    BY <1>4, <2>1 DEF Selling
  <2> QED BY <1>3, <1>4, <2>2, <2>3
<1>5. ASSUME NEW price \in Prices, NEW amount \in SellAmounts, Trade(price, amount)
      PROVE  DueInv'
  <2> DEFINE k == [NoTick EXCEPT !.pc = "queued", !.price = price]
  <2>1. traded + 1 \in Trades /\ tick[traded + 1].pc = "none"
    BY <1>2, <1>5 DEF Trade, Trades, DueInv, LaterTradesQuiet
  <2>2. k.pc = "queued"
    BY DEF NoTick
  <2>3. tick' = [tick EXCEPT ![traded + 1] = k] /\ traded' = traded + 1 /\ UNCHANGED position
    BY <1>5 DEF Trade
  <2> HIDE DEF k
  <2>4. tick'[traded + 1] = k /\ \A u \in Trades \ {traded + 1} : tick'[u] = tick[u]
    BY <1>1, <2>1, <2>3
  <2>5. LaterTradesQuiet'
    BY <1>2, <2>3, <2>4 DEF DueInv, LaterTradesQuiet, Trades
  <2>6. \A u \in Trades : /\ Selling(u)' <=> Selling(u)
                          /\ Selling(u) => tick'[u].round = tick[u].round
    BY <2>1, <2>2, <2>4 DEF Selling
  <2> QED BY <1>3, <2>3, <2>5, <2>6
<1>6. ASSUME NEW t \in Trades, CommitTick(t) PROVE DueInv'
  <2>1. /\ tick'[t].pc = tick[t].pc /\ tick'[t].round = tick[t].round
        /\ \A u \in Trades \ {t} : tick'[u] = tick[u]
        /\ UNCHANGED <<position, traded>>
    BY <1>1, <1>6 DEF CommitTick, TickTask
  <2>2. LaterTradesQuiet'
    BY <2>1 DEF DueInv, LaterTradesQuiet
  <2>3. \A u \in Trades : /\ Selling(u)' <=> Selling(u)
                          /\ Selling(u) => tick'[u].round = tick[u].round
    BY <2>1 DEF Selling
  <2> QED BY <1>3, <2>1, <2>2, <2>3
<1>7. ASSUME NEW t \in Trades, BeginTick(t) PROVE DueInv'
  <2> DEFINE k == IF position.status = "OPEN" THEN [tick[t] EXCEPT !.pc = "stats"] ELSE DoneTick
  <2>1. k.pc # "partial"
    BY <1>1, DoneTasks DEF TickTask
  <2>2. tick' = [tick EXCEPT ![t] = k] /\ UNCHANGED <<position, traded>>
    BY <1>1, <1>7 DEF BeginTick
  <2>3. tick[t].pc \notin {"none", "partial"}
    BY <1>7 DEF BeginTick
  <2> HIDE DEF k
  <2> QED BY <1>4, <2>1, <2>2, <2>3
<1>8. ASSUME NEW t \in Trades, AfterFullExit(t) \/ EndTick(t) PROVE DueInv'
  <2>1. /\ tick' = [tick EXCEPT ![t] = DoneTick] /\ UNCHANGED <<position, traded>>
        /\ tick[t].pc \notin {"none", "partial"}
    BY <1>8 DEF AfterFullExit, EndTick
  <2> QED BY <1>4, <2>1, DoneTasks
<1>9. ASSUME NEW t \in Trades, OnPriceTick(t) PROVE DueInv'
  <2> DEFINE p == ApplyPriceTick(position, tick[t].price)
  <2>1. tick[t].pc = "stats" /\ UNCHANGED traded
    BY <1>9 DEF OnPriceTick
  <2>2. CASE tick' = [tick EXCEPT ![t] = DoneTick] /\ UNCHANGED position
    BY <1>4, <2>1, <2>2, DoneTasks
  <2>3. CASE position.status = "OPEN" /\ Decide(t, p, 0, held)
    <3>1. p \in Position /\ p.status = position.status /\ p.filled = position.filled
      BY <1>1, PriceTickOnlyPrices
    <3> HIDE DEF p
    <3> QED BY <1>1, <2>1, <2>3, <3>1, DueLoop
  <2> QED BY <1>9, <2>2, <2>3 DEF OnPriceTick
<1>10. ASSUME NEW t \in Trades, AfterPartialExit(t) PROVE DueInv'
  <2>1. /\ Decide(t, position, tick[t].round + 1, tick[t].late) /\ UNCHANGED traded
        /\ tick[t].pc = "partial"
    BY <1>10 DEF AfterPartialExit
  <2>2. /\ tick[t].round + 1 <= Cardinality(position.filled)
        /\ position.status = "OPEN" => ~StopHit(position)
    BY <2>1 DEF DueInv, RoundsFill, StopsServed, Selling
  <2> QED BY <1>1, <2>1, <2>2, DueLoop
<1>11. ASSUME NEW t \in Trades, CountWhaleSell(t) PROVE DueInv'
  <2>1. UNCHANGED <<tick, traded>> /\ position.status = "OPEN"
    BY <1>11 DEF CountWhaleSell
  <2>2. position'.filled = position.filled
    BY <1>11, CountEffect
  <2>3. SamePrices(position, position')
    BY <1>11, CountKeepsPrices
  <2>4. position'.status \in {"OPEN", "CLOSED"}
    BY NextIInv DEF IInv, TypeOK, Position
  <2>5. LaterTradesQuiet'
    BY <2>1 DEF DueInv, LaterTradesQuiet
  <2>6. \A u \in Trades : /\ Selling(u)' <=> Selling(u)
                          /\ Selling(u) => tick'[u].round = tick[u].round
    BY <2>1 DEF Selling
  <2> QED BY <2>1, <2>2, <2>3, <2>4, <2>5, <2>6, DueKept
<1>12. ASSUME NEW t \in Trades, CommitExit(t) \/ IgnoreWhaleSell(t) \/ AfterForceExit(t)
       PROVE  DueInv'
  <2>1. UNCHANGED <<position, tick, traded>>
    BY <1>12 DEF CommitExit, IgnoreWhaleSell, AfterForceExit
  <2> QED BY <1>3, <2>1 DEF DueInv, LaterTradesQuiet, Selling
<1>13. CASE UNCHANGED vars \/ HoldLimitPasses
  <2>1. UNCHANGED <<position, tick, traded>>
    BY <1>13 DEF vars, HoldLimitPasses
  <2> QED BY <1>3, <2>1 DEF DueInv, LaterTradesQuiet, Selling
<1> QED BY <1>5, <1>6, <1>7, <1>8, <1>9, <1>10, <1>11, <1>12, <1>13 DEF Next, TickStep, ExitStep

\* No exit is forgotten: while an open position has a stop that is hit or a rung that is
\* due, some tick is between two exits of its loop and will look again; for every ladder
\* that MAX_ACTIONS_PER_TICK rounds can fill, with one rung to each trigger.
THEOREM DueExitsAreRun ==
  ASSUME Len(Ladder) <= MaxActionsPerTick,
         \A a, b \in Rungs : Ladder[a].triggerPct = Ladder[b].triggerPct => a = b
  PROVE  Spec => []DueExitHasRunner
<1>1. Init => DueInv
  <2> SUFFICES ASSUME Init PROVE DueInv
    OBVIOUS
  <2>1. \A t \in Trades : tick[t].pc = "none"
    BY DEF Init, NoTick
  <2>2. /\ position.price = EntryPrice /\ position.trailingActive = FALSE
        /\ position.status = "OPEN"
    BY DEF Init, BuildPositionFromFill
  <2>3. ~StopHit(position)
    <3>1. EntryPrice * 100 > EntryPrice * (100 - InitialStopLossPct)
      BY ConstantsAssumption, SMTT(30) DEF ConstantsAssumption
    <3>2. EntryPrice * 100 \in Int /\ StopLoss \in Int
      BY ConstantsAssumption DEF ConstantsAssumption, StopLoss
    <3> QED BY <2>2, <3>1, <3>2 DEF StopHit, StopLoss
  <2>4. DueRungs(position) = {}
    <3> SUFFICES ASSUME NEW r \in Rungs PROVE ~RoiAtLeast(EntryPrice, Ladder[r].triggerPct)
      BY <2>2 DEF DueRungs
    <3>1. Ladder \in Seq([triggerPct : Nat \ {0}, sellPct : 1..100]) /\ EntryPrice \in Nat \ {0}
      BY ConstantsAssumption DEF ConstantsAssumption
    <3>2. Ladder[r] \in [triggerPct : Nat \ {0}, sellPct : 1..100]
      BY <3>1, ElementOfSeq, Zenon DEF Rungs
    <3>3. Ladder[r].triggerPct \in Nat \ {0}
      BY <3>2
    <3>4. \A a \in Nat \ {0}, b \in Nat \ {0} : ~((b - b) * 100 >= a * b)
      BY SMTT(30)
    <3> QED BY <3>1, <3>3, <3>4 DEF RoiAtLeast
  <2> QED BY <2>1, <2>3, <2>4
          DEF DueInv, LaterTradesQuiet, StopsServed, RoundsFill, RungsRunning, Selling
<1>2. IInv /\ DueInv /\ [Next]_vars => DueInv'
  BY DueStep
<1>3. IInv /\ DueInv => DueExitHasRunner
  <2> SUFFICES ASSUME IInv, DueInv, position.status = "OPEN",
                      DecideNextAction(position, FALSE) # NoAction
               PROVE  \E t \in Trades : tick[t].pc = "partial"
    BY DEF DueExitHasRunner
  <2>1. position \in Position
    BY Types
  <2>2. StopHit(position) \/ DueRungs(position) # {}
    BY <2>1, NoActionMeans
  <2> QED BY <2>2 DEF DueInv, StopsServed, RungsRunning, Selling
<1> QED BY <1>1, <1>2, <1>3, Invariance, PTL DEF Spec
=============================================================================
