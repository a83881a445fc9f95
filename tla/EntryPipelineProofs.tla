------------------------ MODULE EntryPipelineProofs ------------------------
(***************************************************************************)
(* How far overlapping entries can exceed the cap on open positions and    *)
(* those on exposure, for every number of entries, cap and overlap, and    *)
(* that a kill reaches every handler that has not looked at the flags.     *)
(* What a handler adds is paid for when it reads the exposure: from then   *)
(* on the open positions and the handlers that may still add one only      *)
(* change places.                                                          *)
(***************************************************************************)
EXTENDS EntryPipeline, WellFoundedInduction, FiniteSetTheorems, TLAPS

Pcs == {"scoring", "done"} \cup InFlightPcs

\* The variables have the shape that counting relies on; that the summed exposures
\* are amounts is in Amounts below.
Shape ==
  /\ flags \in [paused : BOOLEAN, killed : BOOLEAN]
  /\ DOMAIN task = Entries /\ task = [e \in Entries |-> task[e]]
  /\ \A e \in Entries : /\ task[e] \in [pc : Pcs, exposure : {task[e].exposure}]
                        /\ task[e].exposure.count \in Nat
  /\ position \in [Entries -> [status : {"none", "OPEN", "CLOSED"}, value : Nat,
                               tracked : BOOLEAN]]

\* Who has passed the risk check read a count below the cap.
PassedBelowCap ==
  \A e \in Entries : task[e].pc \in {"order", "saving", "opened"}
                       => task[e].exposure.count < MaxOpenPositions

HandlersBounded == Cardinality(InFlight) <= MaxInFlight

IInv == Shape /\ PassedBelowCap /\ HandlersBounded /\ OvershootBounded

\* The sets that are counted are finite, and their sizes numbers.
LEMMA CountedSets ==
  ASSUME NEW S \in SUBSET Entries
  PROVE  IsFiniteSet(S) /\ Cardinality(S) \in Nat
BY EntryAssumption, FS_Subset, FS_CardinalityType

\* A larger set of entries has no smaller count.
LEMMA CountMonotone ==
  ASSUME NEW T \in SUBSET Entries, NEW S \in SUBSET T
  PROVE  Cardinality(S) <= Cardinality(T)
<1>1. IsFiniteSet(T)
  BY CountedSets
<1> QED
  BY <1>1, FS_Subset

\* OpenTracked, InFlight and Pending are sets of entries.
LEMMA CountedAreEntries ==
  /\ OpenTracked \in SUBSET Entries
  /\ InFlight \in SUBSET Entries
  /\ Pending \in SUBSET InFlight
BY DEF OpenTracked, InFlight, Pending

\* A step that brings no handler into flight, and opens a position only for a
\* handler that could still add one, keeps both bounds.
LEMMA NothingNew ==
  ASSUME HandlersBounded, OvershootBounded,
         InFlight' \subseteq InFlight,
         OpenTracked' \cup Pending' \subseteq OpenTracked \cup Pending
  PROVE  HandlersBounded' /\ OvershootBounded'
<1>1. Cardinality(InFlight') <= Cardinality(InFlight)
  BY CountedAreEntries, CountMonotone
<1>2. Cardinality(OpenTracked' \cup Pending') <= Cardinality(OpenTracked \cup Pending)
  BY CountedAreEntries, CountMonotone
<1>3. /\ Cardinality(InFlight') \in Nat /\ Cardinality(InFlight) \in Nat
      /\ InFlight' \in SUBSET Entries
  BY CountedAreEntries, CountedSets
<1>4. /\ Cardinality(OpenTracked' \cup Pending') \in Nat
      /\ Cardinality(OpenTracked \cup Pending) \in Nat
  <2>1. /\ OpenTracked \cup Pending \in SUBSET Entries
        /\ OpenTracked' \cup Pending' \in SUBSET Entries
    BY CountedAreEntries
  <2> QED
    BY <2>1, CountedSets
<1>5. MaxInFlight \in Nat /\ MaxOpenPositions \in Nat
  BY EntryAssumption
<1> QED
  BY <1>1, <1>2, <1>3, <1>4, <1>5 DEF HandlersBounded, OvershootBounded

\* The initial state satisfies the invariant.
LEMMA InitInvariant == Init => IInv
<1> SUFFICES ASSUME Init PROVE IInv
  OBVIOUS
<1>1. Shape
  BY DEF Init, Shape, Pcs, NoExposure, NoPosition
<1>2. OpenTracked = {} /\ InFlight = {} /\ Pending = {}
  BY DEF Init, OpenTracked, InFlight, Pending, InFlightPcs, NoPosition
<1>3. HandlersBounded /\ OvershootBounded
  BY <1>2, FS_EmptySet, EntryAssumption DEF HandlersBounded, OvershootBounded
<1>4. PassedBelowCap
  BY DEF Init, PassedBelowCap
<1> QED
  BY <1>1, <1>3, <1>4 DEF IInv

\* A handler that reads the exposure is counted from now on: it finds fewer
\* positions than the cap, and with it no more than MaxInFlight handlers run.
LEMMA ReadKeeps ==
  ASSUME IInv, NEW e \in Entries, ReadExposure(e)
  PROVE  IInv'
<1> DEFINE x == OpenExposure(e)
           y == [pc |-> IF flags.killed \/ flags.paused THEN "vetoed" ELSE "risk",
                 exposure |-> x]
<1>1. /\ task' = [task EXCEPT ![e] = y]
      /\ UNCHANGED <<flags, position>>
      /\ task[e].pc = "scoring"
      /\ Cardinality(InFlight) < MaxInFlight
  BY DEF ReadExposure
<1>2. y.exposure = x /\ x.count = Cardinality(OpenTracked)
  <2> HIDE DEF OpenExposure
  <2>1. y.exposure = x
    OBVIOUS
  <2>2. x.count = Cardinality(OpenTracked)
    BY DEF OpenExposure
  <2> QED
    BY <2>1, <2>2
<1>3. y.pc \in {"vetoed", "risk"} /\ y \in [pc : Pcs, exposure : {x}]
  <2> HIDE DEF x
  <2> QED BY DEF Pcs, InFlightPcs
<1>4. Cardinality(OpenTracked) \in Nat
  BY CountedAreEntries, CountedSets
<1> HIDE DEF x, y
<1>5. Shape'
  BY <1>1, <1>2, <1>3, <1>4 DEF IInv, Shape
<1>6. \A f \in Entries : task'[f] = IF f = e THEN y ELSE task[f]
  BY <1>1 DEF IInv, Shape
<1>7. PassedBelowCap'
  BY <1>3, <1>6 DEF IInv, PassedBelowCap
<1>8. InFlight' = InFlight \cup {e} /\ e \notin InFlight
  BY <1>1, <1>3, <1>6 DEF InFlight, InFlightPcs
<1>9. OpenTracked' = OpenTracked
  BY <1>1 DEF OpenTracked
<1>10. Cardinality(InFlight') <= MaxInFlight /\ Cardinality(InFlight') \in Nat
  <2>1. IsFiniteSet(InFlight) /\ Cardinality(InFlight) \in Nat
    BY CountedAreEntries, CountedSets
  <2>2. Cardinality(InFlight \cup {e}) = Cardinality(InFlight) + 1
    BY <1>8, <2>1, FS_AddElement
  <2> QED
    BY <1>1, <1>8, <2>1, <2>2, EntryAssumption
<1>11. OvershootBounded'
  <2>1. CASE Cardinality(OpenTracked) < MaxOpenPositions
    <3>1. OpenTracked' \cup Pending' \subseteq OpenTracked \cup InFlight'
      BY <1>9 DEF Pending
    <3>2. Cardinality(OpenTracked' \cup Pending') <= Cardinality(OpenTracked \cup InFlight')
      <4>1. OpenTracked \cup InFlight' \in SUBSET Entries
        BY <1>8, CountedAreEntries
      <4> QED
        BY <3>1, <4>1, CountMonotone
    <3>3. Cardinality(OpenTracked \cup InFlight')
            <= Cardinality(OpenTracked) + Cardinality(InFlight')
      <4>1. IsFiniteSet(OpenTracked) /\ IsFiniteSet(InFlight')
        <5>1. OpenTracked \in SUBSET Entries /\ InFlight' \in SUBSET Entries
          BY <1>8, CountedAreEntries
        <5> QED
          BY <5>1, CountedSets
      <4>2. /\ Cardinality(OpenTracked \cup InFlight')
                 = Cardinality(OpenTracked) + Cardinality(InFlight')
                     - Cardinality(OpenTracked \cap InFlight')
            /\ Cardinality(OpenTracked \cap InFlight') \in Nat
        BY <4>1, FS_Union, FS_Intersection, FS_CardinalityType
      <4> QED
        BY <4>2, <1>4, <1>10
    <3>4. Cardinality(OpenTracked' \cup Pending') \in Nat
          /\ Cardinality(OpenTracked \cup InFlight') \in Nat
      <4>1. /\ OpenTracked' \cup Pending' \in SUBSET Entries
            /\ OpenTracked \cup InFlight' \in SUBSET Entries
        BY <3>1, <1>8, CountedAreEntries
      <4> QED
        BY <4>1, CountedSets
    <3> QED
      BY <2>1, <3>2, <3>3, <3>4, <1>4, <1>10, EntryAssumption DEF OvershootBounded
  <2>2. CASE ~(Cardinality(OpenTracked) < MaxOpenPositions)
    <3>1. ~(task'[e].exposure.count < MaxOpenPositions)
      BY <1>2, <1>6, <2>2
    <3>2. Pending' = Pending
      BY <1>6, <1>8, <3>1, CountedAreEntries DEF Pending
    <3> QED
      BY <1>9, <3>2 DEF IInv, OvershootBounded
  <2> QED
    BY <2>1, <2>2
<1> QED
  BY <1>5, <1>7, <1>10, <1>11 DEF IInv, HandlersBounded

\* The later steps of a handler keep the invariant.
LEMMA HandlerKeeps ==
  ASSUME IInv, NEW e \in Entries,
         SubmitOrder(e) \/ Reject(e) \/ Fill(e) \/ Opened(e) \/ Track(e)
  PROVE  IInv'
<1> DEFINE To(q) == [task EXCEPT ![e].pc = q]
<1>1. CASE SubmitOrder(e)
  <2>1. /\ task[e].pc = "risk" /\ task' = To("order") /\ UNCHANGED <<flags, position>>
        /\ ~(task[e].exposure.count >= MaxOpenPositions)
    BY <1>1 DEF SubmitOrder, RiskVeto
  <2>2. Shape'
    BY <2>1 DEF IInv, Shape, Pcs, InFlightPcs
  <2>3. PassedBelowCap'
    BY <2>1, EntryAssumption DEF IInv, Shape, PassedBelowCap
  <2>4. InFlight' = InFlight /\ OpenTracked' = OpenTracked /\ Pending' = Pending
    BY <2>1 DEF IInv, Shape, InFlight, InFlightPcs, OpenTracked, Pending
  <2> QED
    BY <2>2, <2>3, <2>4, NothingNew DEF IInv
<1>2. CASE Reject(e)
  <2>1. task' = [task EXCEPT ![e] = Done] /\ UNCHANGED <<flags, position>>
    BY <1>2 DEF Reject
  <2>2. Shape'
    BY <2>1 DEF IInv, Shape, Pcs, Done, NoExposure
  <2>3. PassedBelowCap'
    BY <2>1 DEF IInv, Shape, PassedBelowCap, Done
  <2>4. InFlight' \subseteq InFlight /\ OpenTracked' = OpenTracked /\ Pending' \subseteq Pending
    BY <2>1 DEF IInv, Shape, InFlight, InFlightPcs, OpenTracked, Pending, Done
  <2> QED
    BY <2>2, <2>3, <2>4, NothingNew DEF IInv
<1>3. CASE Fill(e)
  <2> DEFINE new == [status |-> "OPEN", value |-> TradeSize, tracked |-> FALSE]
  <2>1. /\ task[e].pc = "order" /\ task' = To("saving") /\ UNCHANGED flags
        /\ position' = [position EXCEPT ![e] = new]
    BY <1>3 DEF Fill
  <2>2. Shape'
    BY <2>1, EntryAssumption DEF IInv, Shape, Pcs, InFlightPcs
  <2>3. PassedBelowCap'
    BY <2>1 DEF IInv, Shape, PassedBelowCap
  <2>4. InFlight' = InFlight /\ Pending' = Pending /\ OpenTracked' \subseteq OpenTracked
    BY <2>1 DEF IInv, Shape, InFlight, InFlightPcs, OpenTracked, Pending
  <2> QED
    BY <2>2, <2>3, <2>4, NothingNew DEF IInv
<1>4. CASE Opened(e)
  <2>1. task[e].pc = "saving" /\ task' = To("opened") /\ UNCHANGED <<flags, position>>
    BY <1>4 DEF Opened
  <2>2. Shape'
    BY <2>1 DEF IInv, Shape, Pcs, InFlightPcs
  <2>3. PassedBelowCap'
    BY <2>1 DEF IInv, Shape, PassedBelowCap
  <2>4. InFlight' = InFlight /\ OpenTracked' = OpenTracked /\ Pending' = Pending
    BY <2>1 DEF IInv, Shape, InFlight, InFlightPcs, OpenTracked, Pending
  <2> QED
    BY <2>2, <2>3, <2>4, NothingNew DEF IInv
<1>5. CASE Track(e)
  <2>1. /\ task[e].pc = "opened" /\ task' = [task EXCEPT ![e] = Done] /\ UNCHANGED flags
        /\ position' = [position EXCEPT ![e].tracked = TRUE]
    BY <1>5 DEF Track
  <2>2. Shape'
    <3>1. position' \in [Entries -> [status : {"none", "OPEN", "CLOSED"}, value : Nat,
                                     tracked : BOOLEAN]]
      <4> DEFINE q == [position[e] EXCEPT !.tracked = TRUE]
      <4>1. q \in [status : {"none", "OPEN", "CLOSED"}, value : Nat, tracked : BOOLEAN]
        <5>1. position[e] \in [status : {"none", "OPEN", "CLOSED"}, value : Nat,
                               tracked : BOOLEAN]
          BY DEF IInv, Shape
        <5>2. \A v \in BOOLEAN :
                [position[e] EXCEPT !.tracked = v]
                  \in [status : {"none", "OPEN", "CLOSED"}, value : Nat, tracked : BOOLEAN]
          BY <5>1
        <5>3. TRUE \in BOOLEAN
          OBVIOUS
        <5> QED
          BY <5>2, <5>3, Zenon
      <4>2. position' = [position EXCEPT ![e] = q]
        BY <2>1 DEF IInv, Shape
      <4> HIDE DEF q
      <4> QED
        BY <4>1, <4>2 DEF IInv, Shape
    <3> QED
      BY <2>1, <3>1 DEF IInv, Shape, Pcs, Done, NoExposure
  <2>3. PassedBelowCap'
    BY <2>1 DEF IInv, Shape, PassedBelowCap, Done
  <2>4. e \in Pending
    BY <2>1 DEF IInv, PassedBelowCap, Pending, InFlight, InFlightPcs
  <2>5. /\ InFlight' \subseteq InFlight /\ Pending' \subseteq Pending
        /\ OpenTracked' \subseteq OpenTracked \cup {e}
    BY <2>1 DEF IInv, Shape, InFlight, InFlightPcs, OpenTracked, Pending, Done
  <2> QED
    BY <2>2, <2>3, <2>4, <2>5, NothingNew DEF IInv
<1> QED
  BY <1>1, <1>2, <1>3, <1>4, <1>5

\* Commands, and what becomes of tracked positions, keep the invariant.
LEMMA OthersKeep ==
  ASSUME IInv,
         \/ Pause \/ Resume \/ Kill
         \/ \E e \in Entries : Reprice(e) \/ Close(e)
  PROVE  IInv'
<1>1. UNCHANGED task
  BY DEF Pause, Resume, Kill, Reprice, Close
<1>2. flags' \in [paused : BOOLEAN, killed : BOOLEAN]
  <2>1. flags \in [paused : BOOLEAN, killed : BOOLEAN]
    BY DEF IInv, Shape
  <2>2. CASE Pause
    BY <2>1, <2>2 DEF Pause
  <2>3. CASE Resume
    BY <2>1, <2>3 DEF Resume
  <2>4. CASE Kill
    BY <2>4 DEF Kill
  <2>5. CASE UNCHANGED flags
    BY <2>1, <2>5
  <2> QED
    BY <2>2, <2>3, <2>4, <2>5 DEF Reprice, Close
<1>3. /\ position' \in [Entries -> [status : {"none", "OPEN", "CLOSED"}, value : Nat,
                                    tracked : BOOLEAN]]
      /\ OpenTracked' \subseteq OpenTracked
  <2>1. CASE UNCHANGED position
    BY <2>1 DEF IInv, Shape, OpenTracked
  <2>2. ASSUME NEW e \in Entries, Reprice(e)
        PROVE  <1>3
    BY <2>2, EntryAssumption DEF IInv, Shape, Reprice, OpenTracked
  <2>3. ASSUME NEW e \in Entries, Close(e)
        PROVE  <1>3
    BY <2>3 DEF IInv, Shape, Close, OpenTracked
  <2> QED
    BY <2>1, <2>2, <2>3 DEF Pause, Resume, Kill
<1>4. Shape' /\ PassedBelowCap'
  BY <1>1, <1>2, <1>3 DEF IInv, Shape, PassedBelowCap
<1>5. InFlight' = InFlight /\ Pending' = Pending
  BY <1>1 DEF InFlight, Pending
<1> QED
  BY <1>3, <1>4, <1>5, NothingNew DEF IInv

\* Every step keeps the invariant.
LEMMA NextInvariant == IInv /\ [Next]_vars => IInv'
<1> SUFFICES ASSUME IInv, [Next]_vars PROVE IInv'
  OBVIOUS
<1>1. CASE UNCHANGED vars
  BY <1>1 DEF vars, IInv, Shape, PassedBelowCap, HandlersBounded, OvershootBounded,
              InFlight, Pending, OpenTracked
<1>2. CASE Next
  BY <1>2, ReadKeeps, HandlerKeeps, OthersKeep DEF Next, Handler
<1> QED
  BY <1>1, <1>2

\* The invariant holds throughout.
LEMMA InvariantHolds == Spec => []IInv
<1> QED
  BY InitInvariant, NextInvariant, PTL DEF Spec

\* The cap on open positions is exceeded by at most the handlers that overlap
\* (openExposure is read before the awaits that the new position waits for).
THEOREM OvershootIsBounded == Spec => []OvershootBounded
<1>1. IInv => OvershootBounded
  BY DEF IInv
<1> QED
  BY <1>1, InvariantHolds, PTL

\* If handlers never overlap, the risk engine's cap is a hard one.
THEOREM SequentialEntriesKeepCap ==
  ASSUME MaxInFlight = 1
  PROVE  Spec => []OpenPositionsCapped
<1>1. IInv => OpenPositionsCapped
  <2> SUFFICES ASSUME IInv PROVE OpenPositionsCapped
    OBVIOUS
  <2>1. Cardinality(OpenTracked) <= Cardinality(OpenTracked \cup Pending)
    BY CountedAreEntries, CountMonotone
  <2>2. Cardinality(OpenTracked) \in Nat /\ Cardinality(OpenTracked \cup Pending) \in Nat
    <3>1. OpenTracked \in SUBSET Entries /\ OpenTracked \cup Pending \in SUBSET Entries
      BY CountedAreEntries
    <3> QED
      BY <3>1, CountedSets
  <2> QED
    BY <2>1, <2>2, EntryAssumption DEF IInv, OvershootBounded, OpenPositionsCapped
<1> QED
  BY <1>1, InvariantHolds, PTL

\* After /kill no handler that has not looked at the flags yet submits an order
\* (RuntimeFlags.kill sets both flags, resume clears one).
THEOREM KillStopsEntries == Spec => KillStopsLaterEntries
<1> DEFINE Stops ==
      flags.killed =>
        /\ flags'.killed
        /\ \A e \in Entries : task[e].pc \in {"scoring", "vetoed"}
                                => task'[e].pc \in {"scoring", "vetoed", "done"}
<1>1. IInv /\ [Next]_vars => [Stops]_vars
  <2> SUFFICES ASSUME IInv, Next PROVE Stops
    BY DEF vars
  <2>1. CASE Pause \/ Resume \/ Kill
    BY <2>1 DEF IInv, Shape, Pause, Resume, Kill
  <2>2. ASSUME NEW e \in Entries, ReadExposure(e)
        PROVE  Stops
    BY <2>2 DEF IInv, Shape, ReadExposure
  <2>3. ASSUME NEW e \in Entries, SubmitOrder(e) \/ Reject(e) \/ Fill(e) \/ Opened(e) \/ Track(e)
        PROVE  Stops
    BY <2>3 DEF IInv, Shape, SubmitOrder, Reject, Fill, Opened, Track, Done
  <2>4. ASSUME NEW e \in Entries, Reprice(e) \/ Close(e)
        PROVE  Stops
    BY <2>4 DEF Reprice, Close
  <2> QED
    BY <2>1, <2>2, <2>3, <2>4 DEF Next, Handler
<1> QED
  BY <1>1, InvariantHolds, PTL DEF Spec, KillStopsLaterEntries
-----------------------------------------------------------------------------
(* Sums.  ValueOf is a fold: a function defined by recursion on sets, that *)
(* takes the members in the order of a CHOOSE.  It exists, and what it     *)
(* adds up to does not depend on that order.                               *)

\* ValueOf, for any function of positions.
SumOf(pos, S) == MapThenSumSet(LAMBDA e : pos[e].value, S)

\* The member that the fold takes next, and what it makes of a set with sums for the
\* smaller ones.
First(s) == CHOOSE x \in s : TRUE
Rule(sum, pos, s) == IF s = {} THEN 0 ELSE pos[First(s)].value + sum[s \ {First(s)}]

Below == {pair \in Nat \X Nat : pair[1] < pair[2]}

Follows(sum, pos, S) == \A s \in SUBSET S : sum[s] = Rule(sum, pos, s)

\* What holds for zero and for the successor of whatever it holds for.
LEMMA EveryNumber ==
  ASSUME NEW G, 0 \in G, \A n \in Nat : n \in G => n + 1 \in G
  PROVE  Nat \subseteq G
<1> SUFFICES ASSUME Nat \ G # {} PROVE FALSE
  OBVIOUS
<1>1. IsWellFoundedOn(Below, Nat)
  BY NatLessThanWellFounded, Zenon DEF OpToRel, Below
<1>2. PICK m \in Nat \ G : \A n \in Nat \ G : <<n, m>> \notin Below
  <2>1. Nat \ G \subseteq Nat
    OBVIOUS
  <2> QED BY <1>1, <2>1, WFMin, Zenon
<1>3. m # 0 /\ m - 1 \in Nat /\ m - 1 < m /\ (m - 1) + 1 = m
  BY <1>2
<1>4. m - 1 \in G
  BY <1>2, <1>3 DEF Below
<1> QED BY <1>2, <1>3, <1>4

\* Taking the first member out of a finite set leaves a set with one member less.
LEMMA FirstOut ==
  ASSUME NEW s, IsFiniteSet(s), s # {}
  PROVE  /\ First(s) \in s
         /\ s \ {First(s)} \subseteq s
         /\ IsFiniteSet(s \ {First(s)})
         /\ Cardinality(s) \in Nat /\ Cardinality(s \ {First(s)}) \in Nat
         /\ Cardinality(s) = Cardinality(s \ {First(s)}) + 1
<1>1. First(s) \in s
  BY Zenon DEF First
<1>2. /\ IsFiniteSet(s \ {First(s)}) 
      /\ Cardinality(s \ {First(s)}) = Cardinality(s) - 1
  BY <1>1, FS_RemoveElement
<1>3. Cardinality(s) \in Nat /\ Cardinality(s \ {First(s)}) \in Nat
  BY <1>2, FS_CardinalityType
<1> QED BY <1>1, <1>2, <1>3

\* The function that the fold defines by recursion exists.
LEMMA SumExists ==
  ASSUME NEW pos, NEW S, IsFiniteSet(S)
  PROVE  \E g : g = [s \in SUBSET S |-> Rule(g, pos, s)]
<1> DEFINE Level(n) == {s \in SUBSET S : Cardinality(s) <= n}
           Fit(g, n) == g = [s \in Level(n) |-> Rule(g, pos, s)]
           G == {n \in Nat : \E g : Fit(g, n)}
<1>1. \A s \in SUBSET S : IsFiniteSet(s) /\ Cardinality(s) \in Nat
  BY FS_Subset, FS_CardinalityType
<1>2. 0 \in G
  <2> DEFINE g == [s \in Level(0) |-> 0]
  <2>1. \A s \in Level(0) : s = {}
    <3> SUFFICES ASSUME NEW s \in SUBSET S, Cardinality(s) <= 0 PROVE s = {}
      OBVIOUS
    <3>1. IsFiniteSet(s) /\ Cardinality(s) = 0
      BY <1>1
    <3> QED BY <3>1, FS_EmptySet
  <2>2. \A s \in Level(0) : Rule(g, pos, s) = 0
    BY <2>1 DEF Rule
  <2>3. Fit(g, 0)
    BY <2>2
  <2> QED BY <2>3
<1>3. ASSUME NEW n \in Nat, n \in G
      PROVE  n + 1 \in G
  <2>1. PICK g : Fit(g, n)
    BY <1>3
  <2> DEFINE h == [s \in Level(n + 1) |-> IF s \in Level(n) THEN g[s] ELSE Rule(g, pos, s)]
  <2>2. ASSUME NEW s \in Level(n + 1)
        PROVE  h[s] = Rule(h, pos, s)
    <3>1. h[s] = Rule(g, pos, s)
      <4>1. s \in Level(n) => g[s] = Rule(g, pos, s)
        BY <2>1
      <4> QED BY <4>1, <2>2
    <3>2. CASE s = {}
      BY <3>1, <3>2 DEF Rule
    <3>3. CASE s # {}
      <4> DEFINE r == s \ {First(s)}
      <4>1. /\ s \in SUBSET S /\ Cardinality(s) <= n + 1
            /\ IsFiniteSet(s)
        BY <1>1, <2>2
      <4>2. r \in SUBSET S /\ Cardinality(r) <= n
        <5>1. /\ r \subseteq s /\ Cardinality(s) \in Nat /\ Cardinality(r) \in Nat
              /\ Cardinality(s) = Cardinality(r) + 1
          BY <4>1, <3>3, FirstOut, Zenon
        <5>2. Cardinality(r) <= n
          BY <5>1, <4>1, <1>3
        <5> QED BY <4>1, <5>1, <5>2
      <4>3. r \in Level(n) /\ r \in Level(n + 1)
        BY <4>2, <1>1
      <4>4. h[r] = g[r]
        BY <4>3
      <4> QED BY <3>1, <3>3, <4>4 DEF Rule
    <3> QED BY <3>2, <3>3
  <2>3. h = [s \in Level(n + 1) |-> h[s]]
    OBVIOUS
  <2> HIDE DEF h
  <2>4. Fit(h, n + 1)
    BY <2>2, <2>3
  <2>5. n + 1 \in Nat
    BY <1>3
  <2> HIDE DEF Fit
  <2> QED BY <2>4, <2>5
<1>4. Cardinality(S) \in G
  <2> HIDE DEF G
  <2>1. Nat \subseteq G
    BY <1>2, <1>3, EveryNumber
  <2> QED BY <1>1, <2>1
<1>5. Level(Cardinality(S)) = SUBSET S
  <2>1. ASSUME NEW s \in SUBSET S PROVE Cardinality(s) <= Cardinality(S)
    BY FS_Subset
  <2> QED BY <2>1
<1>6. PICK g : Fit(g, Cardinality(S))
  BY <1>4
<1> HIDE DEF Level
<1> QED BY <1>5, <1>6

\* What the fold returns is the value of such a function.
LEMMA SumIsFold ==
  ASSUME NEW pos, NEW S, IsFiniteSet(S)
  PROVE  \E g : /\ g = [s \in SUBSET S |-> Rule(g, pos, s)]
                /\ SumOf(pos, S) = g[S]
<1> DEFINE Fits(g) == g = [s \in SUBSET S |->
                           IF s = {} THEN 0
                           ELSE pos[CHOOSE x \in s : TRUE].value + g[s \ {CHOOSE x \in s : TRUE}]]
<1>1. \E g : Fits(g)
  <2>1. PICK g : g = [s \in SUBSET S |-> Rule(g, pos, s)]
    BY SumExists
  <2>2. Fits(g)
    BY <2>1 DEF Rule, First
  <2> QED BY <2>2
<1>2. SumOf(pos, S) = (CHOOSE g : Fits(g))[S]
  BY DEF SumOf, MapThenSumSet, MapThenFoldSet
<1>3. Fits(CHOOSE g : Fits(g))
  <2> HIDE DEF Fits
  <2> QED BY <1>1
<1>4. \A g : Fits(g) => g = [s \in SUBSET S |-> Rule(g, pos, s)]
  BY DEF Rule, First
<1> HIDE DEF Fits
<1> QED BY <1>2, <1>3, <1>4

\* Two such functions agree where both are defined.
LEMMA SumUnique ==
  ASSUME NEW pos, NEW T, IsFiniteSet(T), NEW g, NEW h,
         Follows(g, pos, T), Follows(h, pos, T)
  PROVE  g[T] = h[T]
<1> DEFINE G == {n \in Nat : \A s \in SUBSET T : Cardinality(s) = n => g[s] = h[s]}
<1>1. \A s \in SUBSET T : IsFiniteSet(s) /\ Cardinality(s) \in Nat
  BY FS_Subset, FS_CardinalityType
<1>2. \A s \in SUBSET T : g[s] = Rule(g, pos, s) /\ h[s] = Rule(h, pos, s)
  BY DEF Follows
<1>3. 0 \in G
  <2> SUFFICES ASSUME NEW s \in SUBSET T, Cardinality(s) = 0 PROVE g[s] = h[s]
    OBVIOUS
  <2>1. s = {}
    BY <1>1, FS_EmptySet
  <2> QED BY <1>2, <2>1 DEF Rule
<1>4. ASSUME NEW n \in Nat, n \in G
      PROVE  n + 1 \in G
  <2>0. n + 1 \in Nat
    BY <1>4
  <2> SUFFICES ASSUME NEW s \in SUBSET T, Cardinality(s) = n + 1 PROVE g[s] = h[s]
    BY <2>0
  <2> DEFINE r == s \ {First(s)}
  <2>1. s # {}
    <3>1. n + 1 # 0
      BY <1>4
    <3> QED BY <3>1, FS_EmptySet
  <2>2. r \in SUBSET T /\ Cardinality(r) = n
    BY <1>1, <2>1, FirstOut
  <2>3. g[r] = h[r]
    BY <1>4, <2>2
  <2> QED BY <1>2, <2>1, <2>3 DEF Rule
<1>5. Cardinality(T) \in G
  <2> HIDE DEF G
  <2>1. Nat \subseteq G
    BY <1>3, <1>4, EveryNumber
  <2> QED BY <1>1, <2>1
<1> QED BY <1>5

\* The sum over a set: of nothing zero, else the first member's value and the rest.
LEMMA SumRule ==
  ASSUME NEW pos, NEW S, IsFiniteSet(S)
  PROVE  /\ S = {} => SumOf(pos, S) = 0
         /\ S # {} => SumOf(pos, S) = pos[First(S)].value + SumOf(pos, S \ {First(S)})
<1>1. PICK g : g = [s \in SUBSET S |-> Rule(g, pos, s)] /\ SumOf(pos, S) = g[S]
  BY SumIsFold
<1>2. g[S] = Rule(g, pos, S)
  BY <1>1
<1>3. CASE S = {}
  BY <1>1, <1>2, <1>3 DEF Rule
<1>4. CASE S # {}
  <2> DEFINE r == S \ {First(S)}
  <2>1. IsFiniteSet(r) /\ r \subseteq S
    BY <1>4, FirstOut
  <2>2. PICK h : h = [s \in SUBSET r |-> Rule(h, pos, s)] /\ SumOf(pos, r) = h[r]
    BY <2>1, SumIsFold
  <2> HIDE DEF r
  <2>3. g[r] = h[r]
    <3>1. Follows(g, pos, r)
      BY <1>1, <2>1 DEF Follows
    <3>2. Follows(h, pos, r)
      BY <2>2 DEF Follows
    <3> QED BY <2>1, <3>1, <3>2, SumUnique
  <2> QED BY <1>1, <1>2, <1>4, <2>2, <2>3 DEF Rule, r
<1> QED BY <1>3, <1>4

\* The positions are worth natural amounts.
Valued(pos) == \A e \in Entries : pos[e].value \in Nat

\* A set of entries is empty, or has a first member whose removal leaves one of a
\* smaller size.
LEMMA EntrySet ==
  ASSUME NEW S \in SUBSET Entries
  PROVE  /\ IsFiniteSet(S) /\ Cardinality(S) \in Nat
         /\ Cardinality(S) = 0 <=> S = {}
         /\ S # {} => /\ First(S) \in S /\ S \ {First(S)} \in SUBSET Entries
                      /\ Cardinality(S) = Cardinality(S \ {First(S)}) + 1
<1>1. IsFiniteSet(S) /\ Cardinality(S) \in Nat
  BY EntryAssumption, FS_Subset, FS_CardinalityType
<1>2. Cardinality(S) = 0 <=> S = {}
  BY <1>1, FS_EmptySet
<1>3. ASSUME S # {}
      PROVE  /\ First(S) \in S /\ S \ {First(S)} \in SUBSET Entries
             /\ Cardinality(S) = Cardinality(S \ {First(S)}) + 1
  BY <1>1, <1>3, FirstOut
<1> QED BY <1>1, <1>2, <1>3

\* A sum of natural amounts is one.
LEMMA SumIsNatural ==
  ASSUME NEW pos, Valued(pos), NEW S \in SUBSET Entries
  PROVE  SumOf(pos, S) \in Nat
<1> DEFINE G == {n \in Nat : \A T \in SUBSET Entries : Cardinality(T) = n => SumOf(pos, T) \in Nat}
<1>1. 0 \in G
  <2> SUFFICES ASSUME NEW T \in SUBSET Entries, Cardinality(T) = 0
               PROVE  SumOf(pos, T) \in Nat
    OBVIOUS
  <2>1. T = {} /\ IsFiniteSet(T)
    BY EntrySet
  <2>2. SumOf(pos, T) = 0
    BY <2>1, SumRule
  <2> QED BY <2>2
<1>2. ASSUME NEW n \in Nat, n \in G
      PROVE  n + 1 \in G
  <2>0. n + 1 \in Nat /\ n + 1 # 0
    BY <1>2
  <2> SUFFICES ASSUME NEW T \in SUBSET Entries, Cardinality(T) = n + 1
               PROVE  SumOf(pos, T) \in Nat
    BY <2>0
  <2> DEFINE r == T \ {First(T)}
  <2>1. /\ IsFiniteSet(T) /\ T # {} /\ First(T) \in Entries /\ r \in SUBSET Entries
        /\ Cardinality(T) = Cardinality(r) + 1 /\ Cardinality(r) \in Nat
    <3>1. T # {} /\ IsFiniteSet(T)
      BY <2>0, EntrySet
    <3>2. /\ First(T) \in T /\ r \in SUBSET Entries
          /\ Cardinality(T) = Cardinality(r) + 1
      BY <3>1, EntrySet
    <3>3. Cardinality(r) \in Nat
      BY <3>2, EntrySet
    <3> QED BY <3>1, <3>2, <3>3
  <2>2. SumOf(pos, T) = pos[First(T)].value + SumOf(pos, r)
    BY <2>1, SumRule
  <2>3. Cardinality(r) = n
    BY <2>1, <1>2
  <2>4. SumOf(pos, r) \in Nat
    BY <2>1, <2>3, <1>2
  <2>5. pos[First(T)].value \in Nat
    BY <2>1 DEF Valued
  <2> QED BY <2>2, <2>4, <2>5
<1>3. Cardinality(S) \in G
  <2> HIDE DEF G
  <2>1. Nat \subseteq G
    BY <1>1, <1>2, EveryNumber
  <2> QED BY <2>1, EntrySet
<1> QED BY <1>3

\* An entry that joins a set adds its value to the sum, whichever member is first.
LEMMA SumAdds ==
  ASSUME NEW pos, Valued(pos), NEW S \in SUBSET Entries, NEW x \in Entries, x \notin S
  PROVE  SumOf(pos, S \cup {x}) = SumOf(pos, S) + pos[x].value
<1> DEFINE Adds(T, y) == SumOf(pos, T \cup {y}) = SumOf(pos, T) + pos[y].value
           G == {n \in Nat : \A T \in SUBSET Entries, y \in Entries :
                                Cardinality(T) = n /\ y \notin T => Adds(T, y)}
<1>1. ASSUME NEW T \in SUBSET Entries, NEW y \in Entries, y \notin T,
             First(T \cup {y}) = y
      PROVE  Adds(T, y)
  <2> DEFINE U == T \cup {y}
  <2>1. IsFiniteSet(U) /\ U # {} /\ U \ {y} = T
    <3>1. U \in SUBSET Entries
      OBVIOUS
    <3> QED BY <3>1, <1>1, EntrySet
  <2>2. SumOf(pos, U) = pos[y].value + SumOf(pos, T)
    BY <2>1, <1>1, SumRule
  <2>3. SumOf(pos, T) \in Nat /\ pos[y].value \in Nat
    BY SumIsNatural DEF Valued
  <2> QED BY <2>2, <2>3
<1>2. 0 \in G
  <2> SUFFICES ASSUME NEW T \in SUBSET Entries, NEW y \in Entries, Cardinality(T) = 0, y \notin T
               PROVE  Adds(T, y)
    OBVIOUS
  <2>1. T \cup {y} \in SUBSET Entries /\ T \cup {y} # {} /\ T = {}
    BY EntrySet
  <2>2. First(T \cup {y}) = y
    BY <2>1, EntrySet
  <2> HIDE DEF Adds
  <2> QED BY <1>1, <2>2
<1>3. ASSUME NEW n \in Nat, n \in G
      PROVE  n + 1 \in G
  <2>0. n + 1 \in Nat /\ n + 1 # 0
    BY <1>3
  <2> SUFFICES ASSUME NEW T \in SUBSET Entries, NEW y \in Entries,
                      Cardinality(T) = n + 1, y \notin T
               PROVE  Adds(T, y)
    BY <2>0
  <2> DEFINE U == T \cup {y}
             c == First(U)
             r == T \ {c}
  <2>1. U \in SUBSET Entries /\ U # {} /\ IsFiniteSet(U) /\ c \in U
    <3>1. U \in SUBSET Entries /\ U # {}
      OBVIOUS
    <3> QED BY <3>1, EntrySet
  <2>2. CASE c = y
    BY <1>1, <2>2
  <2>3. CASE c # y
    <3>1. c \in T /\ c \in Entries /\ r \in SUBSET Entries /\ c \notin r /\ y \notin r
      BY <2>1, <2>3
    <3>2. U \ {c} = r \cup {y} /\ T = r \cup {c}
      BY <3>1, <2>3
    <3>3. Cardinality(r) = n
      <4>1. IsFiniteSet(T) /\ Cardinality(T) \in Nat
        BY EntrySet
      <4> HIDE DEF c
      <4>2. Cardinality(r) = Cardinality(T) - 1
        BY <3>1, <4>1, FS_RemoveElement
      <4> QED BY <4>2, <1>3
    <3>4. SumOf(pos, U) = pos[c].value + SumOf(pos, r \cup {y})
      BY <2>1, <3>2, SumRule
    <3>5. Adds(r, y) /\ Adds(r, c)
      BY <3>1, <3>3, <1>3
    <3>6. SumOf(pos, r) \in Nat /\ pos[y].value \in Nat /\ pos[c].value \in Nat
      BY <3>1, SumIsNatural DEF Valued
    <3>7. /\ SumOf(pos, r \cup {y}) = SumOf(pos, r) + pos[y].value
          /\ SumOf(pos, T) = SumOf(pos, r) + pos[c].value
      BY <3>2, <3>5
    <3> HIDE DEF U, c, r
    <3>8. SumOf(pos, U) = SumOf(pos, T) + pos[y].value
      BY <3>4, <3>6, <3>7
    <3> QED BY <3>8 DEF U
  <2> QED BY <2>2, <2>3
<1>4. Cardinality(S) \in G
  <2> HIDE DEF G
  <2>1. Nat \subseteq G
    BY <1>2, <1>3, EveryNumber
  <2> QED BY <2>1, EntrySet
<1> QED BY <1>4

\* Fewer entries, each worth no more, add up to no more.
LEMMA SumIsMonotone ==
  ASSUME NEW pos, Valued(pos), NEW qos, Valued(qos),
         NEW T \in SUBSET Entries, NEW S \in SUBSET T,
         \A e \in S : pos[e].value <= qos[e].value
  PROVE  SumOf(pos, S) <= SumOf(qos, T)
<1> DEFINE AtMost(A, B) == SumOf(pos, A) <= SumOf(qos, B)
           Lower(A) == \A e \in A : pos[e].value <= qos[e].value
           G == {n \in Nat : \A B \in SUBSET Entries : \A A \in SUBSET B :
                                Cardinality(B) = n /\ Lower(A) => AtMost(A, B)}
<1>1. 0 \in G
  <2> SUFFICES ASSUME NEW B \in SUBSET Entries, NEW A \in SUBSET B, Cardinality(B) = 0
               PROVE  AtMost(A, B)
    OBVIOUS
  <2>1. B = {} /\ A = {} /\ IsFiniteSet(A)
    BY EntrySet
  <2>2. SumOf(pos, A) = 0 /\ SumOf(qos, B) = 0
    BY <2>1, SumRule
  <2> QED BY <2>2
<1>2. ASSUME NEW n \in Nat, n \in G
      PROVE  n + 1 \in G
  <2>0. n + 1 \in Nat /\ n + 1 # 0
    BY <1>2
  <2> SUFFICES ASSUME NEW B \in SUBSET Entries, NEW A \in SUBSET B,
                      Cardinality(B) = n + 1, Lower(A)
               PROVE  AtMost(A, B)
    BY <2>0
  <2>1. PICK x \in B : x = First(B) /\ Cardinality(B) = Cardinality(B \ {x}) + 1
    BY <2>0, EntrySet
  <2> DEFINE R == B \ {x}
             Q == A \ {x}
  <2>2. /\ R \in SUBSET Entries /\ Q \in SUBSET Entries /\ Q \in SUBSET R /\ x \in Entries
        /\ x \notin R /\ x \notin Q /\ R \cup {x} = B
    OBVIOUS
  <2>3. Cardinality(R) = n
    <3>1. Cardinality(R) \in Nat
      BY <2>2, EntrySet
    <3> QED BY <2>1, <3>1, <1>2
  <2>4. Lower(Q)
    OBVIOUS
  <2>5. AtMost(Q, R)
    <3> HIDE DEF AtMost, Lower
    <3> QED BY <2>2, <2>3, <2>4, <1>2
  <2>6. SumOf(qos, B) = SumOf(qos, R) + qos[x].value
    BY <2>2, SumAdds
  <2>7. /\ SumOf(pos, Q) \in Nat /\ SumOf(qos, R) \in Nat
        /\ pos[x].value \in Nat /\ qos[x].value \in Nat
    BY <2>2, SumIsNatural DEF Valued
  <2>8. CASE x \in A
    <3>1. Q \cup {x} = A /\ pos[x].value <= qos[x].value
      BY <2>8
    <3>2. SumOf(pos, A) = SumOf(pos, Q) + pos[x].value
      BY <2>2, <3>1, SumAdds
    <3> HIDE DEF Q, R
    <3> QED BY <2>5, <2>6, <2>7, <3>1, <3>2
  <2>9. CASE x \notin A
    <3>1. Q = A
      BY <2>9
    <3> HIDE DEF Q, R
    <3> QED BY <2>5, <2>6, <2>7, <3>1
  <2> QED BY <2>8, <2>9
<1>3. Cardinality(T) \in G
  <2> HIDE DEF G
  <2>1. Nat \subseteq G
    BY <1>1, <1>2, EveryNumber
  <2> QED BY <2>1, EntrySet
<1>4. Lower(S)
  OBVIOUS
<1> HIDE DEF Lower, AtMost
<1>5. AtMost(S, T)
  BY <1>3, <1>4
<1> QED BY <1>5 DEF AtMost
-----------------------------------------------------------------------------
(* What is exposed.  The caps on exposures are bounded like the one on the *)
(* number of positions, for each scope by itself: everything, the          *)
(* positions in one token, those of one cluster.                           *)

Kinds == {"total", "token", "cluster"}

\* The entries that count with e, what e read of them, and the cap on it.
Scope(k, e) == CASE k = "total" -> Entries
                 [] k = "token" -> {f \in Entries : TokenOf[f] = TokenOf[e]}
                 [] k = "cluster" -> ClusterPeers[e]
Scopes(k) == IF k = "total" THEN {Entries} ELSE {Scope(k, e) : e \in Entries}
ReadOf(k, x) == CASE k = "total" -> x.total [] k = "token" -> x.token [] k = "cluster" -> x.cluster
Cap(k) == CASE k = "total" -> MaxTotalExposure
            [] k = "token" -> MaxPerTokenExposure
            [] k = "cluster" -> MaxPerClusterExposure

\* Handlers of the scope S that read room for one more trade and are not done yet.
Counting(k, S) ==
  {e \in InFlight \cap S : ReadOf(k, task[e].exposure) + TradeSize <= Cap(k)}

\* What is open in a scope, and what may still open there.
Exposed(k, S) == ValueOf(OpenTracked \cap S) + TradeSize * Cardinality(Counting(k, S))
RoomKept ==
  \A k \in Kinds : \A S \in Scopes(k) :
    Exposed(k, S) <= Cap(k) + (MaxInFlight - 1) * TradeSize

\* Exposures are amounts, and a position is never worth more than the trade.
Amounts == \A e \in Entries : task[e].exposure \in Exposure /\ position[e].value <= TradeSize

\* Who has passed the risk check read room for the trade in each of its scopes.
PassedWithRoom ==
  \A e \in Entries : task[e].pc \in {"order", "saving", "opened"} =>
    \A k \in Kinds : e \in Scope(k, e) => ReadOf(k, task[e].exposure) + TradeSize <= Cap(k)

ExposureInv == Amounts /\ PassedWithRoom /\ RoomKept

\* A whale is in one cluster (detectForToken's clusters share no wallet).
ClustersDisjoint ==
  \A e, f \in Entries : f \in ClusterPeers[e] => ClusterPeers[f] = ClusterPeers[e]

\* No tracked position ever gains.
NoRise == \A e \in OpenTracked : position'[e].value <= position[e].value
PricesNeverRise == [][NoRise]_vars

\* ValueOf is such a sum.
LEMMA ValueOfIsSum == \A S : ValueOf(S) = SumOf(position, S)
BY DEF ValueOf, SumOf

\* Positions are worth natural amounts.
LEMMA PositionsValued == Shape => Valued(position)
BY DEF Shape, Valued

\* The caps and the trade size are numbers.
LEMMA CapType ==
  /\ \A k \in Kinds : Cap(k) \in Nat
  /\ TradeSize \in Nat /\ MaxInFlight \in Nat /\ MaxInFlight >= 1
BY EntryAssumption DEF Kinds, Cap

\* What was read is a number.
LEMMA ReadType == \A k \in Kinds : \A x \in Exposure : ReadOf(k, x) \in Nat
BY DEF Kinds, ReadOf, Exposure

\* Scopes are sets of entries.
LEMMA ScopeType ==
  ASSUME NEW k \in Kinds, NEW S \in Scopes(k)
  PROVE  S \in SUBSET Entries
BY EntryAssumption DEF Kinds, Scopes, Scope

\* The scope of an entry is one of them.
LEMMA OwnScope ==
  ASSUME NEW k \in Kinds, NEW e \in Entries
  PROVE  Scope(k, e) \in Scopes(k)
BY DEF Kinds, Scopes, Scope

\* An entry belongs to one scope of a kind at most.
LEMMA OneScope ==
  ASSUME ClustersDisjoint, NEW k \in Kinds, NEW S \in Scopes(k), NEW e \in S
  PROVE  e \in Entries /\ Scope(k, e) = S
<1>1. S \in SUBSET Entries
  BY ScopeType
<1>2. CASE k = "total"
  BY <1>2 DEF Scopes, Scope
<1>3. CASE k = "token"
  BY <1>1, <1>3 DEF Scopes, Scope
<1>4. CASE k = "cluster"
  BY <1>1, <1>4 DEF Scopes, Scope, ClustersDisjoint
<1> QED BY <1>1, <1>2, <1>3, <1>4 DEF Kinds

\* What a handler reads of a scope it belongs to is what is open in that scope.
LEMMA ReadsScope ==
  ASSUME NEW k \in Kinds, NEW e \in Entries
  PROVE  ReadOf(k, OpenExposure(e)) = ValueOf(OpenTracked \cap Scope(k, e))
<1>1. CASE k = "total"
  <2>1. OpenTracked \cap Entries = OpenTracked
    BY DEF OpenTracked
  <2>2. ReadOf(k, OpenExposure(e)) = ValueOf(OpenTracked)
    BY <1>1 DEF ReadOf, OpenExposure
  <2>3. Scope(k, e) = Entries
    BY <1>1 DEF Scope
  <2> QED BY <2>1, <2>2, <2>3
<1>2. CASE k = "token"
  <2>1. OpenTracked \cap Scope(k, e) = {f \in OpenTracked : TokenOf[f] = TokenOf[e]}
    BY <1>2 DEF OpenTracked, Scope
  <2>2. ReadOf(k, OpenExposure(e)) = ValueOf({f \in OpenTracked : TokenOf[f] = TokenOf[e]})
    BY <1>2 DEF ReadOf, OpenExposure
  <2> QED BY <2>1, <2>2
<1>3. CASE k = "cluster"
  <2>1. Scope(k, e) = ClusterPeers[e]
    BY <1>3 DEF Scope
  <2>2. ReadOf(k, OpenExposure(e)) = ValueOf(OpenTracked \cap ClusterPeers[e])
    BY <1>3 DEF ReadOf, OpenExposure
  <2> QED BY <2>1, <2>2
<1> QED BY <1>1, <1>2, <1>3 DEF Kinds

\* The exposure that a handler reads is made of amounts.
LEMMA ExposureType ==
  ASSUME Shape, NEW e \in Entries
  PROVE  OpenExposure(e) \in Exposure
<1>1. \A S \in SUBSET Entries : ValueOf(S) \in Nat
  BY PositionsValued, ValueOfIsSum, SumIsNatural
<1>2. Cardinality(OpenTracked) \in Nat
  BY CountedAreEntries, CountedSets
<1>3. /\ OpenTracked \in SUBSET Entries
      /\ {f \in OpenTracked : TokenOf[f] = TokenOf[e]} \in SUBSET Entries
      /\ OpenTracked \cap ClusterPeers[e] \in SUBSET Entries
  BY CountedAreEntries
<1> QED BY <1>1, <1>2, <1>3 DEF OpenExposure, Exposure

\* A product with the trade size grows with its factor.
LEMMA TimesGrows ==
  ASSUME NEW m \in Nat, NEW n \in Nat, m <= n
  PROVE  /\ TradeSize * m \in Nat /\ TradeSize * n \in Nat
         /\ TradeSize * m <= TradeSize * n
         /\ TradeSize * (n + 1) = TradeSize * n + TradeSize
<1>1. TradeSize \in Nat
  BY CapType
<1> QED BY <1>1, SMTT(30)

\* What is exposed in a scope is an amount.
LEMMA ExposedType ==
  ASSUME Shape, NEW k \in Kinds, NEW S \in SUBSET Entries
  PROVE  /\ ValueOf(OpenTracked \cap S) \in Nat
         /\ IsFiniteSet(Counting(k, S)) /\ Cardinality(Counting(k, S)) \in Nat
<1>1. OpenTracked \cap S \in SUBSET Entries /\ Counting(k, S) \in SUBSET Entries
  BY DEF Counting
<1> QED BY <1>1, PositionsValued, ValueOfIsSum, SumIsNatural, CountedSets

\* A step that opens nothing, lets nobody count and lets no price rise exposes no more.
LEMMA ExposesNoMore ==
  ASSUME Shape, Shape', NEW k \in Kinds, NEW S \in SUBSET Entries,
         Counting(k, S)' \subseteq Counting(k, S),
         OpenTracked' \subseteq OpenTracked,
         \A e \in OpenTracked' : position'[e].value <= position[e].value
  PROVE  Exposed(k, S)' <= Exposed(k, S)
<1>1. /\ Valued(position) /\ Valued(position')
  BY PositionsValued DEF Shape, Valued
<1>2. /\ OpenTracked \cap S \in SUBSET Entries
      /\ OpenTracked' \cap S \in SUBSET (OpenTracked \cap S)
      /\ \A e \in OpenTracked' \cap S : position'[e].value <= position[e].value
  OBVIOUS
<1>3. SumOf(position', OpenTracked' \cap S) <= SumOf(position, OpenTracked \cap S)
  BY <1>1, <1>2, SumIsMonotone
<1>4. /\ SumOf(position', OpenTracked' \cap S) \in Nat
      /\ SumOf(position, OpenTracked \cap S) \in Nat
  <2>1. OpenTracked' \cap S \in SUBSET Entries
    OBVIOUS
  <2> QED BY <1>1, <1>2, <2>1, SumIsNatural
<1>5. /\ ValueOf(OpenTracked \cap S) = SumOf(position, OpenTracked \cap S)
      /\ ValueOf(OpenTracked \cap S)' = SumOf(position', OpenTracked' \cap S)
  <2>1. ValueOf(OpenTracked \cap S) = SumOf(position, OpenTracked \cap S)
    BY ValueOfIsSum
  <2>2. ValueOf(OpenTracked \cap S)' = SumOf(position', OpenTracked' \cap S)
    BY DEF ValueOf, SumOf, MapThenSumSet, MapThenFoldSet
  <2> QED BY <2>1, <2>2
<1>6. /\ Cardinality(Counting(k, S)') \in Nat /\ Cardinality(Counting(k, S)) \in Nat
      /\ Cardinality(Counting(k, S)') <= Cardinality(Counting(k, S))
  <2>1. Counting(k, S) \in SUBSET Entries
    BY DEF Counting
  <2>2. Counting(k, S)' \in SUBSET Counting(k, S) /\ Counting(k, S)' \in SUBSET Entries
    BY <2>1
  <2> QED BY <2>1, <2>2, CountMonotone, CountedSets
<1>7. /\ TradeSize * Cardinality(Counting(k, S)') \in Nat
      /\ TradeSize * Cardinality(Counting(k, S)) \in Nat
      /\ TradeSize * Cardinality(Counting(k, S)') <= TradeSize * Cardinality(Counting(k, S))
  BY <1>6, TimesGrows
<1> QED BY <1>3, <1>4, <1>5, <1>7 DEF Exposed

\* The overlap that a bound allows for is an amount.
LEMMA OverlapType ==
  /\ (MaxInFlight - 1) * TradeSize \in Nat
  /\ TradeSize * MaxInFlight = TradeSize + (MaxInFlight - 1) * TradeSize
<1>1. TradeSize \in Nat /\ MaxInFlight \in Nat /\ MaxInFlight >= 1
  BY CapType
<1> QED BY <1>1, SMTT(30)

\* Nothing is exposed at first.
LEMMA ExposureInit == Init => ExposureInv
<1> SUFFICES ASSUME Init PROVE ExposureInv
  OBVIOUS
<1>1. Amounts /\ PassedWithRoom
  <2>1. \A e \in Entries : /\ task[e].pc = "scoring" /\ task[e].exposure = NoExposure
                           /\ position[e].value = 0
    BY DEF Init, NoPosition
  <2>2. NoExposure \in Exposure
    BY DEF NoExposure, Exposure
  <2> QED BY <2>1, <2>2, CapType DEF Amounts, PassedWithRoom
<1>2. ASSUME NEW k \in Kinds, NEW S \in Scopes(k)
      PROVE  Exposed(k, S) <= Cap(k) + (MaxInFlight - 1) * TradeSize
  <2>1. OpenTracked \cap S = {} /\ Counting(k, S) = {}
    BY DEF Init, OpenTracked, Counting, InFlight, InFlightPcs, NoPosition
  <2>2. ValueOf({}) = 0 /\ Cardinality({}) = 0
    BY ValueOfIsSum, FS_EmptySet, SumRule
  <2>3. TradeSize * 0 = 0
    BY CapType
  <2>4. Exposed(k, S) = 0
    BY <2>1, <2>2, <2>3 DEF Exposed
  <2> QED BY <2>4, CapType, OverlapType
<1>3. RoomKept
  BY <1>2 DEF RoomKept
<1> QED BY <1>1, <1>3 DEF ExposureInv

\* A step in which nobody reads, nothing opens and no price rises keeps the room.
LEMMA RoomStays ==
  ASSUME Shape, Shape', RoomKept,
         InFlight' \subseteq InFlight,
         \A e \in InFlight' : task'[e].exposure = task[e].exposure,
         OpenTracked' \subseteq OpenTracked,
         \A e \in OpenTracked' : position'[e].value <= position[e].value
  PROVE  RoomKept'
<1> SUFFICES ASSUME NEW k \in Kinds, NEW S \in Scopes(k)
             PROVE  Exposed(k, S)' <= Cap(k) + (MaxInFlight - 1) * TradeSize
  BY DEF RoomKept, Scopes, Scope, Cap
<1>1. S \in SUBSET Entries
  BY ScopeType
<1>2. Counting(k, S)' \subseteq Counting(k, S)
  BY DEF Counting, ReadOf, Cap
<1>3. Exposed(k, S)' <= Exposed(k, S)
  BY <1>1, <1>2, ExposesNoMore
<1>4. Exposed(k, S) \in Nat /\ Exposed(k, S)' \in Nat
  <2>1. Exposed(k, S) \in Nat
    BY <1>1, ExposedType, TimesGrows DEF Exposed
  <2>2. Exposed(k, S)' \in Nat
    <3>1. Valued(position')
      BY DEF Shape, Valued
    <3>2. ValueOf(OpenTracked \cap S)' = SumOf(position', OpenTracked' \cap S)
      BY DEF ValueOf, SumOf, MapThenSumSet, MapThenFoldSet
    <3>3. SumOf(position', OpenTracked' \cap S) \in Nat
      <4>1. OpenTracked' \cap S \in SUBSET Entries
        BY <1>1
      <4> QED BY <3>1, <4>1, SumIsNatural
    <3>4. Cardinality(Counting(k, S)') \in Nat
      <4>1. Counting(k, S)' \in SUBSET Entries
        BY <1>1 DEF Counting
      <4> QED BY <4>1, CountedSets
    <3>5. TradeSize * Cardinality(Counting(k, S)') \in Nat
      BY <3>4, TimesGrows
    <3> QED BY <3>2, <3>3, <3>5 DEF Exposed
  <2> QED BY <2>1, <2>2
<1>5. Exposed(k, S) <= Cap(k) + (MaxInFlight - 1) * TradeSize
  BY DEF RoomKept
<1> QED BY <1>3, <1>4, <1>5, CapType, OverlapType

\* A handler that finds room counts from now on, with every other handler in flight.
LEMMA ReadLeavesRoom ==
  ASSUME IInv, IInv', ExposureInv, ClustersDisjoint, NEW e \in Entries, ReadExposure(e)
  PROVE  ExposureInv'
<1> DEFINE x == OpenExposure(e)
<1>0. Shape /\ Shape' /\ HandlersBounded' /\ Amounts /\ PassedWithRoom /\ RoomKept
  BY DEF IInv, ExposureInv
<1>1. x \in Exposure
  BY <1>0, ExposureType
<1>2. /\ task[e].pc = "scoring" /\ UNCHANGED <<flags, position>>
      /\ task'[e].pc \in {"vetoed", "risk"} /\ task'[e].exposure = x
      /\ \A f \in Entries : f # e => task'[f] = task[f]
  <2> HIDE DEF OpenExposure
  <2> QED BY <1>0 DEF Shape, ReadExposure
<1> HIDE DEF x
<1>3. Amounts'
  BY <1>0, <1>1, <1>2 DEF Amounts
<1>4. PassedWithRoom'
  BY <1>0, <1>2 DEF PassedWithRoom, Scope, ReadOf, Cap
<1>5. InFlight' = InFlight \cup {e} /\ OpenTracked' = OpenTracked
  BY <1>2 DEF InFlight, InFlightPcs, OpenTracked
<1>6. ASSUME NEW k \in Kinds, NEW S \in Scopes(k)
      PROVE  Exposed(k, S)' <= Cap(k) + (MaxInFlight - 1) * TradeSize
  <2>0. /\ S \in SUBSET Entries /\ Cap(k) \in Nat /\ TradeSize \in Nat
        /\ Exposed(k, S) <= Cap(k) + (MaxInFlight - 1) * TradeSize
    BY <1>0, ScopeType, CapType DEF RoomKept
  <2>1. ValueOf(OpenTracked \cap S)' = ValueOf(OpenTracked \cap S)
    <3>1. ValueOf(OpenTracked \cap S)' = SumOf(position', OpenTracked' \cap S)
      BY DEF ValueOf, SumOf, MapThenSumSet, MapThenFoldSet
    <3> QED BY <3>1, <1>2, <1>5, ValueOfIsSum
  <2>2. CASE e \in S /\ ReadOf(k, x) + TradeSize <= Cap(k)
    <3>1. ValueOf(OpenTracked \cap S) = ReadOf(k, x)
      BY <2>2, OneScope, ReadsScope DEF x
    <3>2. ReadOf(k, x) \in Nat
      BY <1>1, ReadType
    <3>3. /\ Cardinality(Counting(k, S)') \in Nat
          /\ Cardinality(Counting(k, S)') <= MaxInFlight
      <4>1. InFlight' \in SUBSET Entries /\ Counting(k, S)' \in SUBSET InFlight'
        BY DEF InFlight, Counting
      <4>2. Cardinality(Counting(k, S)') <= Cardinality(InFlight')
        BY <4>1, CountMonotone
      <4>3. Cardinality(Counting(k, S)') \in Nat /\ Cardinality(InFlight') \in Nat
        BY <4>1, CountedSets
      <4>4. Cardinality(InFlight') <= MaxInFlight
        BY <1>0 DEF HandlersBounded
      <4> QED BY <4>2, <4>3, <4>4, CapType
    <3>4. /\ TradeSize * Cardinality(Counting(k, S)') \in Nat
          /\ TradeSize * Cardinality(Counting(k, S)') <= TradeSize * MaxInFlight
      BY <3>3, CapType, TimesGrows
    <3>5. Exposed(k, S)' = ReadOf(k, x) + TradeSize * Cardinality(Counting(k, S)')
      BY <2>1, <3>1 DEF Exposed
    <3> QED BY <2>0, <2>2, <3>2, <3>4, <3>5, OverlapType
  <2>3. CASE ~(e \in S /\ ReadOf(k, x) + TradeSize <= Cap(k))
    <3>1. Counting(k, S)' \subseteq Counting(k, S)
      <4> SUFFICES ASSUME NEW f \in Counting(k, S)' PROVE f \in Counting(k, S)
        OBVIOUS
      <4>1. /\ f \in InFlight' /\ f \in S
            /\ ReadOf(k, task'[f].exposure) + TradeSize <= Cap(k)
        BY DEF Counting, ReadOf, Cap
      <4>2. f # e
        BY <1>2, <2>3, <4>1
      <4> QED BY <1>2, <1>5, <2>0, <4>1, <4>2 DEF Counting
    <3>2. Counting(k, S) \subseteq Counting(k, S)'
      <4> SUFFICES ASSUME NEW f \in Counting(k, S) PROVE f \in Counting(k, S)'
        OBVIOUS
      <4>1. f \in InFlight /\ f \in S /\ ReadOf(k, task[f].exposure) + TradeSize <= Cap(k)
        BY DEF Counting
      <4>2. f # e /\ f \in InFlight'
        BY <1>2, <1>5, <4>1 DEF InFlight, InFlightPcs
      <4>3. task'[f] = task[f]
        BY <1>2, <2>0, <4>1, <4>2
      <4> QED BY <4>1, <4>2, <4>3 DEF Counting, ReadOf, Cap
    <3>3. Exposed(k, S)' = Exposed(k, S)
      BY <2>1, <3>1, <3>2 DEF Exposed
    <3> QED BY <2>0, <3>3
  <2> QED BY <2>2, <2>3
<1>7. RoomKept'
  BY <1>6 DEF RoomKept, Scopes, Scope, Cap
<1> QED BY <1>3, <1>4, <1>7 DEF ExposureInv

\* A handler that goes on, or ends without having opened anything, takes no room.
LEMMA HandlerLeavesRoom ==
  ASSUME IInv, IInv', ExposureInv, NEW e \in Entries,
         SubmitOrder(e) \/ Reject(e) \/ Fill(e) \/ Opened(e)
  PROVE  ExposureInv'
<1>0. Shape /\ Shape' /\ Amounts /\ PassedWithRoom /\ RoomKept
  BY DEF IInv, ExposureInv
<1>1. \A f \in Entries : f # e => task'[f] = task[f] /\ position'[f] = position[f]
  BY <1>0 DEF Shape, SubmitOrder, Reject, Fill, Opened
<1>2. /\ task'[e].exposure \in {task[e].exposure, NoExposure}
      /\ e \in InFlight' => e \in InFlight /\ task'[e].exposure = task[e].exposure
  BY <1>0 DEF Shape, SubmitOrder, Reject, Fill, Opened, Done, InFlight, InFlightPcs
<1>3. /\ position'[e].value \in {position[e].value, TradeSize}
      /\ e \in OpenTracked' => e \in OpenTracked /\ position'[e] = position[e]
  BY <1>0 DEF Shape, SubmitOrder, Reject, Fill, Opened, OpenTracked
<1>4. Amounts'
  <2>1. NoExposure \in Exposure
    BY DEF NoExposure, Exposure
  <2>2. TradeSize <= TradeSize
    BY CapType
  <2> QED BY <1>0, <1>1, <1>2, <1>3, <2>1, <2>2 DEF Amounts
<1>5. PassedWithRoom'
  <2> SUFFICES ASSUME NEW f \in Entries, task'[f].pc \in {"order", "saving", "opened"},
                      NEW k \in Kinds, f \in Scope(k, f)
               PROVE  ReadOf(k, task'[f].exposure) + TradeSize <= Cap(k)
    BY DEF PassedWithRoom, Scope, ReadOf, Cap
  <2>1. CASE f # e
    BY <2>1, <1>0, <1>1 DEF PassedWithRoom
  <2>2. CASE f = e /\ SubmitOrder(e)
    <3> DEFINE x == task[e].exposure
    <3>1. /\ x \in Exposure
          /\ ~(x.total + TradeSize > MaxTotalExposure)
          /\ ~(x.token + TradeSize > MaxPerTokenExposure)
          /\ ClusterPeers[e] # {} => ~(x.cluster + TradeSize > MaxPerClusterExposure)
          /\ task'[e].exposure = x
      BY <2>2, <1>0 DEF Shape, Amounts, SubmitOrder, RiskVeto
    <3>2. /\ x.total \in Nat /\ x.token \in Nat /\ x.cluster \in Nat
      BY <3>1 DEF Exposure
    <3>3. k = "cluster" => ClusterPeers[e] # {}
      BY <2>2 DEF Scope
    <3> HIDE DEF x
    <3>4. ReadOf(k, x) + TradeSize <= Cap(k)
      BY <3>1, <3>2, <3>3, EntryAssumption DEF Kinds, ReadOf, Cap
    <3> QED BY <2>2, <3>1, <3>4
  <2>3. CASE f = e /\ ~SubmitOrder(e)
    <3>1. task[e].pc \in {"order", "saving"} /\ task'[e].exposure = task[e].exposure
      BY <2>3, <1>0 DEF Shape, Reject, Fill, Opened, Done
    <3> QED BY <2>3, <3>1, <1>0 DEF PassedWithRoom
  <2> QED BY <2>1, <2>2, <2>3
<1>6. RoomKept'
  <2>1. InFlight' \subseteq InFlight
    BY <1>1, <1>2 DEF InFlight
  <2>2. \A f \in InFlight' : task'[f].exposure = task[f].exposure
    BY <1>1, <1>2 DEF InFlight
  <2>3. OpenTracked' \subseteq OpenTracked
    BY <1>1, <1>3 DEF OpenTracked
  <2>4. \A f \in OpenTracked' : position'[f].value <= position[f].value
    <3> SUFFICES ASSUME NEW f \in OpenTracked' PROVE position'[f].value <= position[f].value
      OBVIOUS
    <3>1. f \in Entries /\ position'[f] = position[f]
      BY <1>1, <1>3 DEF OpenTracked
    <3>2. position[f].value \in Nat
      BY <3>1, <1>0 DEF Shape
    <3> QED BY <3>1, <3>2
  <2> QED BY <1>0, <2>1, <2>2, <2>3, <2>4, RoomStays
<1> QED BY <1>4, <1>5, <1>6 DEF ExposureInv

\* A position that comes to be tracked takes the room its handler has held.
LEMMA TrackLeavesRoom ==
  ASSUME IInv, IInv', ExposureInv, ClustersDisjoint, NEW e \in Entries, Track(e)
  PROVE  ExposureInv'
<1>0. Shape /\ Shape' /\ Amounts /\ PassedWithRoom /\ RoomKept
  BY DEF IInv, ExposureInv
<1>1. /\ task[e].pc = "opened" /\ task'[e] = Done
      /\ \A f \in Entries : f # e => task'[f] = task[f] /\ position'[f] = position[f]
      /\ \A f \in Entries : position'[f].value = position[f].value
  BY <1>0 DEF Shape, Track
<1>2. Amounts'
  <2>1. Done.exposure \in Exposure
    BY DEF Done, NoExposure, Exposure
  <2> QED BY <1>0, <1>1, <2>1 DEF Amounts
<1>3. PassedWithRoom'
  <2>1. task'[e].pc = "done"
    BY <1>1 DEF Done
  <2> QED BY <1>0, <1>1, <2>1 DEF PassedWithRoom, Scope, ReadOf, Cap
<1>4. /\ InFlight' = InFlight \ {e} /\ e \in InFlight
      /\ OpenTracked' \in {OpenTracked, OpenTracked \cup {e}}
  <2>1. InFlight' = InFlight \ {e} /\ e \in InFlight
    BY <1>1 DEF InFlight, InFlightPcs, Done
  <2>2. OpenTracked \subseteq OpenTracked'
    BY <1>0 DEF Shape, Track, OpenTracked
  <2>3. OpenTracked' \subseteq OpenTracked \cup {e}
    BY <1>1 DEF OpenTracked
  <2> QED BY <2>1, <2>2, <2>3
<1>5. ASSUME NEW k \in Kinds, NEW S \in Scopes(k)
      PROVE  Exposed(k, S)' <= Cap(k) + (MaxInFlight - 1) * TradeSize
  <2> DEFINE a == SumOf(position, OpenTracked \cap S)
             b == SumOf(position', OpenTracked' \cap S)
             m == Cardinality(Counting(k, S))
             n == Cardinality(Counting(k, S)')
  <2>0. /\ S \in SUBSET Entries /\ Cap(k) \in Nat /\ TradeSize \in Nat
        /\ Exposed(k, S) <= Cap(k) + (MaxInFlight - 1) * TradeSize
    BY <1>0, ScopeType, CapType DEF RoomKept
  <2>1. Exposed(k, S) = a + TradeSize * m
    BY ValueOfIsSum DEF Exposed
  <2>2. Exposed(k, S)' = b + TradeSize * n
    <3>1. ValueOf(OpenTracked \cap S)' = SumOf(position', OpenTracked' \cap S)
      BY DEF ValueOf, SumOf, MapThenSumSet, MapThenFoldSet
    <3> QED BY <3>1 DEF Exposed
  <2>3. Counting(k, S)' = Counting(k, S) \ {e}
    BY <1>1, <1>4 DEF Counting, InFlight, ReadOf, Cap
  <2>4. m \in Nat /\ n \in Nat /\ IsFiniteSet(Counting(k, S))
    <3>1. Counting(k, S) \in SUBSET Entries /\ Counting(k, S)' \in SUBSET Entries
      BY <2>0, <2>3 DEF Counting
    <3> QED BY <3>1, CountedSets
  <2>5. Valued(position) /\ Valued(position')
    BY <1>0, PositionsValued DEF Shape, Valued
  <2>6. /\ OpenTracked \cap S \in SUBSET Entries /\ OpenTracked' \cap S \in SUBSET Entries
        /\ a \in Nat /\ b \in Nat
    <3>1. OpenTracked \cap S \in SUBSET Entries /\ OpenTracked' \cap S \in SUBSET Entries
      BY <2>0
    <3> QED BY <2>5, <3>1, SumIsNatural
  <2>7. SumOf(position', OpenTracked \cap S) <= a /\ SumOf(position', OpenTracked \cap S) \in Nat
    <3>1. \A f \in OpenTracked \cap S : position'[f].value <= position[f].value
      BY <1>0, <1>1, <2>6 DEF Shape
    <3>2. OpenTracked \cap S \in SUBSET (OpenTracked \cap S)
      OBVIOUS
    <3> QED BY <2>5, <2>6, <3>1, <3>2, SumIsMonotone, SumIsNatural
  <2>8. CASE e \in S /\ e \notin OpenTracked /\ e \in OpenTracked'
    <3>1. OpenTracked' \cap S = (OpenTracked \cap S) \cup {e} /\ e \notin OpenTracked \cap S
      BY <1>4, <2>8
    <3>2. b = SumOf(position', OpenTracked \cap S) + position'[e].value
      BY <2>5, <2>6, <3>1, SumAdds
    <3>3. position'[e].value \in Nat /\ position'[e].value <= TradeSize
      BY <1>0, <1>1 DEF Shape, Amounts
    <3>4. e \in Counting(k, S)
      <4>1. Scope(k, e) = S
        BY <2>8, OneScope
      <4>2. ReadOf(k, task[e].exposure) + TradeSize <= Cap(k)
        BY <1>0, <1>1, <2>8, <4>1 DEF PassedWithRoom
      <4> QED BY <1>4, <2>8, <4>2 DEF Counting
    <3>5. m = n + 1
      <4>1. n = m - 1
        BY <2>3, <2>4, <3>4, FS_RemoveElement
      <4> HIDE DEF m, n
      <4> QED BY <2>4, <4>1
    <3>6. TradeSize * m = TradeSize * n + TradeSize /\ TradeSize * n \in Nat
      <4> HIDE DEF m, n
      <4>1. n <= n
        BY <2>4
      <4> QED BY <2>4, <3>5, <4>1, TimesGrows
    <3>7. b <= a + TradeSize
      <4> HIDE DEF a, b
      <4> QED BY <2>0, <2>6, <2>7, <3>2, <3>3
    <3> HIDE DEF a, b, m, n
    <3> QED BY <2>0, <2>1, <2>2, <2>6, <3>6, <3>7, OverlapType
  <2>9. CASE ~(e \in S /\ e \notin OpenTracked /\ e \in OpenTracked')
    <3>1. OpenTracked' \cap S = OpenTracked \cap S
      BY <1>4, <2>9
    <3>2. b <= a
      BY <2>7, <3>1
    <3>3. n <= m
      <4>1. Counting(k, S) \in SUBSET Entries /\ Counting(k, S)' \in SUBSET Counting(k, S)
        BY <2>0, <2>3 DEF Counting
      <4> QED BY <4>1, CountMonotone
    <3> HIDE DEF a, b, m, n
    <3>4. TradeSize * n <= TradeSize * m /\ TradeSize * n \in Nat /\ TradeSize * m \in Nat
      BY <2>4, <3>3, TimesGrows
    <3> QED BY <2>0, <2>1, <2>2, <2>6, <3>2, <3>4, OverlapType
  <2> QED BY <2>8, <2>9
<1>6. RoomKept'
  BY <1>5 DEF RoomKept, Scopes, Scope, Cap
<1> QED BY <1>2, <1>3, <1>6 DEF ExposureInv

\* Commands touch no position; what becomes of a tracked one gives room back, as
\* long as it does not gain.
LEMMA OthersLeaveRoom ==
  ASSUME IInv, IInv', ExposureInv, NoRise \/ UNCHANGED vars,
         \/ Pause \/ Resume \/ Kill
         \/ \E e \in Entries : Reprice(e) \/ Close(e)
  PROVE  ExposureInv'
<1>0. Shape /\ Shape' /\ Amounts /\ PassedWithRoom /\ RoomKept
  BY DEF IInv, ExposureInv
<1>1. task' = task
  BY DEF Pause, Resume, Kill, Reprice, Close
<1>2. OpenTracked' \subseteq OpenTracked
  BY <1>0 DEF Shape, Pause, Resume, Kill, Reprice, Close, OpenTracked
<1>3. \A f \in Entries : f \notin OpenTracked => position'[f] = position[f]
  BY <1>0 DEF Shape, Pause, Resume, Kill, Reprice, Close, OpenTracked
<1>4. \A f \in OpenTracked : position'[f].value <= position[f].value
  <2>1. \A f \in Entries : position[f].value \in Nat
    BY <1>0 DEF Shape
  <2> QED BY <2>1 DEF NoRise, vars, OpenTracked
<1>5. Amounts'
  <2> SUFFICES ASSUME NEW f \in Entries
               PROVE  task'[f].exposure \in Exposure /\ position'[f].value <= TradeSize
    BY DEF Amounts
  <2>1. /\ task[f].exposure \in Exposure /\ position[f].value <= TradeSize
        /\ position[f].value \in Nat /\ position'[f].value \in Nat
    BY <1>0 DEF Amounts, Shape
  <2>2. position'[f].value <= position[f].value
    BY <1>3, <1>4, <2>1
  <2> QED BY <1>1, <2>1, <2>2, CapType
<1>6. PassedWithRoom'
  BY <1>0, <1>1 DEF PassedWithRoom, Scope, ReadOf, Cap
<1>7. RoomKept'
  <2>1. InFlight' = InFlight
    BY <1>1 DEF InFlight
  <2> QED BY <1>0, <1>1, <1>2, <1>4, <2>1, RoomStays
<1> QED BY <1>5, <1>6, <1>7 DEF ExposureInv

\* Every step that raises no price keeps the room.
LEMMA ExposureNext ==
  ASSUME ClustersDisjoint
  PROVE  IInv /\ IInv' /\ ExposureInv /\ [Next]_vars /\ [NoRise]_vars => ExposureInv'
<1> SUFFICES ASSUME IInv, IInv', ExposureInv, [Next]_vars, [NoRise]_vars
             PROVE  ExposureInv'
  OBVIOUS
<1>1. CASE UNCHANGED vars
  <2>1. Shape /\ Shape' /\ Amounts /\ PassedWithRoom /\ RoomKept
    BY DEF IInv, ExposureInv
  <2>2. UNCHANGED task /\ UNCHANGED position
    BY <1>1 DEF vars
  <2>3. InFlight' = InFlight /\ OpenTracked' = OpenTracked
    BY <2>2 DEF InFlight, OpenTracked
  <2>4. \A e \in OpenTracked' : position'[e].value <= position[e].value
    BY <2>1, <2>2 DEF Shape, OpenTracked
  <2>5. RoomKept'
    BY <2>1, <2>2, <2>3, <2>4, RoomStays
  <2> QED
    BY <2>1, <2>2, <2>5 DEF ExposureInv, Amounts, PassedWithRoom, Scope, ReadOf, Cap
<1>2. CASE Next
  <2>1. NoRise \/ UNCHANGED vars
    OBVIOUS
  <2> QED
    BY <1>2, <2>1, ReadLeavesRoom, HandlerLeavesRoom, TrackLeavesRoom, OthersLeaveRoom
       DEF Next, Handler
<1> QED BY <1>1, <1>2

\* While no tracked position gains, each exposure (total, of a token, of a cluster)
\* exceeds its cap by at most one trade for every further handler that overlaps; one
\* handler at a time keeps every cap (RiskEngine.evaluate on the exposure that was
\* read before the awaits).
THEOREM ExposureIsBounded ==
  ASSUME ClustersDisjoint
  PROVE  Spec /\ PricesNeverRise => []ExposureBounded
<1>1. IInv /\ ExposureInv => ExposureBounded
  <2> SUFFICES ASSUME IInv, ExposureInv PROVE ExposureBounded
    OBVIOUS
  <2> DEFINE over == (MaxInFlight - 1) * TradeSize
  <2>0. Shape /\ RoomKept
    BY DEF IInv, ExposureInv
  <2>1. ASSUME NEW k \in Kinds, NEW S \in Scopes(k)
        PROVE  ValueOf(OpenTracked \cap S) <= Cap(k) + over
    <3>1. S \in SUBSET Entries
      BY ScopeType
    <3>2. /\ ValueOf(OpenTracked \cap S) \in Nat
          /\ TradeSize * Cardinality(Counting(k, S)) \in Nat
      <4>1. /\ ValueOf(OpenTracked \cap S) \in Nat
            /\ Cardinality(Counting(k, S)) \in Nat
        BY <2>0, <3>1, ExposedType
      <4>2. Cardinality(Counting(k, S)) <= Cardinality(Counting(k, S))
        BY <4>1
      <4> QED BY <4>1, <4>2, TimesGrows
    <3>3. Exposed(k, S) <= Cap(k) + over
      BY <2>0 DEF RoomKept
    <3> QED BY <3>2, <3>3, CapType, OverlapType DEF Exposed
  <2>2. ValueOf(OpenTracked) <= MaxTotalExposure + over
    <3>1. "total" \in Kinds /\ Entries \in Scopes("total") /\ Cap("total") = MaxTotalExposure
      BY DEF Kinds, Scopes, Cap
    <3>2. OpenTracked \cap Entries = OpenTracked
      BY DEF OpenTracked
    <3> HIDE DEF over
    <3>3. ValueOf(OpenTracked \cap Entries) <= Cap("total") + over
      BY <2>1, <3>1
    <3> QED BY <3>1, <3>2, <3>3
  <2>3. ASSUME NEW e \in OpenTracked
        PROVE  /\ ValueOf({f \in OpenTracked : TokenOf[f] = TokenOf[e]})
                    <= MaxPerTokenExposure + over
               /\ ValueOf(OpenTracked \cap ClusterPeers[e]) <= MaxPerClusterExposure + over
    <3>1. e \in Entries
      BY DEF OpenTracked
    <3>2. /\ "token" \in Kinds /\ Cap("token") = MaxPerTokenExposure
          /\ "cluster" \in Kinds /\ Cap("cluster") = MaxPerClusterExposure
      BY DEF Kinds, Cap
    <3>3. /\ OpenTracked \cap Scope("token", e) = {f \in OpenTracked : TokenOf[f] = TokenOf[e]}
          /\ OpenTracked \cap Scope("cluster", e) = OpenTracked \cap ClusterPeers[e]
      BY DEF OpenTracked, Scope
    <3> HIDE DEF over
    <3>4. /\ ValueOf(OpenTracked \cap Scope("token", e)) <= Cap("token") + over
          /\ ValueOf(OpenTracked \cap Scope("cluster", e)) <= Cap("cluster") + over
      BY <2>1, <3>1, <3>2, OwnScope
    <3> QED BY <3>2, <3>3, <3>4
  <2> QED BY <2>2, <2>3 DEF ExposureBounded
<1> QED
  BY <1>1, InvariantHolds, ExposureInit, ExposureNext, PTL DEF Spec, PricesNeverRise
=============================================================================
