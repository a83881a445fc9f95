------------------------- MODULE DashboardApiProofs -------------------------
(***************************************************************************)
(* What the dashboard answers fits together, for any number of trades and  *)
(* wallets, any capacity of the ring and any page limit.  Two orders meet: *)
(* a handler saves score, signal and position in this order and takes none *)
(* of them back (PipelineInv, TablesGrow), and a request reads the         *)
(* positions before what it joins them with (ReadsInv).  Hence whatever    *)
(* a request has read stays true of what is stored (AnswerInv).  CountsInv *)
(* ties the counters to the handlers' stages, LogInv the ring of events to *)
(* both.  The sums of a report are folds over finite sets.                 *)
(***************************************************************************)
EXTENDS DashboardApi, SequenceTheorems, WellFoundedInduction, NaturalsInduction,
        FiniteSetTheorems, TLAPS
-----------------------------------------------------------------------------
(* What is stored.                                                         *)

Buckets == {"weak", "strong"}
Results == {"open", "won", "lost"}
Stages == {"unsent", "handling", "done", "scored", "saved", "announced", "bought", "managed"}

\* The handlers: a score before a signal, a signal before its announcement and
\* before a position, and nothing of a trade the feed has not sent.
PipelineInv ==
  /\ stage \in [Trades -> Stages]
  /\ signals \in [Trades -> Buckets \cup {None}]
  /\ positions \in [Trades -> Results \cup {None}]
  /\ next \in Nat \ {0}
  /\ DOMAIN by = Trades
  /\ \A t \in Trades :
       /\ t < next => by[t] \in Wallets
       /\ t >= next => stage[t] = "unsent"
       /\ stage[t] \notin {"unsent", "handling", "done"} => by[t] \in scores
       /\ stage[t] \in {"unsent", "handling", "scored"} => signals[t] = None
       /\ stage[t] \in {"saved", "announced", "bought", "managed"} => signals[t] # None
       /\ positions[t] # None <=> stage[t] \in {"bought", "managed"}

\* A script of the feed is finite, and a trade is its place in it.
LEMMA TradesAreNumbers ==
  /\ IsFiniteSet(Trades)
  /\ \A t \in Trades : t \in Nat /\ t >= 1
BY DashboardApiAssumption, FS_Interval DEF Trades

\* Every step but the feed's and the handlers' leaves the tables alone.
LEMMA WhoWrites ==
  [Next]_vars => \/ UNCHANGED <<next, by, stage, scores, signals, positions>>
                 \/ EmitOne
                 \/ \E t \in Trades : Handle(t) \/ Close(t)
<1> USE DEF world, feed, pipeline, seen, Exit
<1>1. Boot \/ FeedHealthy \/ StopFeed \/ Stop \/ Respond
        => UNCHANGED <<next, by, stage, scores, signals, positions>>
  BY DEF Boot, FeedHealthy, StopFeed, Stop, Respond
<1>2. ASSUME NEW w \in Strangers, Enlist(w) \/ Review(w)
      PROVE  UNCHANGED <<next, by, stage, scores, signals, positions>>
  BY <1>2 DEF Enlist, Review
<1>3. ASSUME NEW t \in Trades, Land(t)
      PROVE  UNCHANGED <<next, by, stage, scores, signals, positions>>
  BY <1>3 DEF Land
<1>4. ASSUME NEW kind, NEW w, Ask(kind, w)
      PROVE  UNCHANGED <<next, by, stage, scores, signals, positions>>
  BY <1>4 DEF Ask
<1>5. ASSUME NEW table, Read(table)
      PROVE  UNCHANGED <<next, by, stage, scores, signals, positions>>
  BY <1>5 DEF Read
<1>6. Connect \/ Step => EmitOne
  BY DEF Connect, Step
<1>7. UNCHANGED vars => UNCHANGED <<next, by, stage, scores, signals, positions>>
  BY DEF vars
<1> QED BY <1>1, <1>2, <1>3, <1>4, <1>5, <1>6, <1>7 DEF Next

\* What handlers have stored stays.
TablesGrow ==
  /\ scores \subseteq scores'
  /\ \A t \in Trades : /\ signals[t] # None => signals'[t] = signals[t]
                       /\ positions[t] # None => positions'[t] # None
                       /\ by[t] \in Wallets /\ t < next => by'[t] = by[t] /\ t < next'
                       /\ stage[t] = "managed" => stage'[t] = "managed"

\* The feed sends a trade that nothing is stored of yet.
LEMMA EmitKeeps ==
  ASSUME PipelineInv, EmitOne
  PROVE  PipelineInv' /\ TablesGrow
<1>1. PICK w \in Wallets, of_interest \in BOOLEAN :
        /\ by' = [by EXCEPT ![next] = w]
        /\ stage' = [stage EXCEPT ![next] = IF of_interest /\ list[w] = "active"
                                            THEN "handling" ELSE "done"]
  BY DEF EmitOne
<1>2. next' = next + 1 /\ UNCHANGED <<scores, signals, positions>>
  BY DEF EmitOne
<1>3. next \in Trades
  BY DashboardApiAssumption DEF EmitOne, PipelineInv, Trades
<1>4. stage[next] = "unsent" /\ signals[next] = None /\ positions[next] = None
  BY <1>3, TradesAreNumbers DEF PipelineInv
<1>5. /\ stage'[next] \in {"handling", "done"} /\ by'[next] = w
      /\ \A t \in Trades \ {next} : stage'[t] = stage[t] /\ by'[t] = by[t]
      /\ DOMAIN by' = Trades /\ stage' \in [Trades -> Stages]
  BY <1>1, <1>3 DEF PipelineInv, Stages
<1>6. TablesGrow
  BY <1>2, <1>4, <1>5, TradesAreNumbers DEF PipelineInv, TablesGrow
<1>7. ASSUME NEW t \in Trades
      PROVE  /\ t < next' => by'[t] \in Wallets
             /\ t >= next' => stage'[t] = "unsent"
             /\ stage'[t] \notin {"unsent", "handling", "done"} => by'[t] \in scores'
             /\ stage'[t] \in {"unsent", "handling", "scored"} => signals'[t] = None
             /\ stage'[t] \in {"saved", "announced", "bought", "managed"} => signals'[t] # None
             /\ positions'[t] # None <=> stage'[t] \in {"bought", "managed"}
  <2>1. CASE t = next
    BY <1>2, <1>4, <1>5, <2>1, <1>3, TradesAreNumbers
  <2>2. CASE t # next
    <3>1. stage'[t] = stage[t] /\ by'[t] = by[t]
      BY <1>5, <2>2
    <3>2. next \in Nat /\ t \in Nat /\ (t < next' => t < next) /\ (t >= next' => t >= next)
      BY <1>2, <1>7, <2>2, TradesAreNumbers DEF PipelineInv
    <3> QED BY <1>2, <1>7, <3>1, <3>2 DEF PipelineInv
  <2> QED BY <2>1, <2>2
<1>8. PipelineInv'
  BY <1>2, <1>5, <1>7 DEF PipelineInv
<1> QED BY <1>6, <1>8

\* A handler stores one row more and takes none back; so does the close of a position.
LEMMA HandlerKeeps ==
  ASSUME PipelineInv, NEW t \in Trades, Handle(t) \/ Close(t)
  PROVE  PipelineInv' /\ TablesGrow
<1> USE DEF feed, pipeline, world, seen, At, Goes
<1>0. None \notin Buckets \cup Results
  BY DashboardApiAssumption DEF Buckets, Results
<1>1. CASE SaveScore(t)
  <2>1. CASE UNCHANGED <<next, by, stage, scores, signals, positions>>
    BY <2>1 DEF PipelineInv, TablesGrow
  <2>2. CASE /\ stage[t] = "handling" /\ scores' = scores \cup {by[t]}
             /\ stage' = [stage EXCEPT ![t] = "scored"]
             /\ UNCHANGED <<next, by, signals, positions>>
    BY <2>2 DEF PipelineInv, TablesGrow, Stages
  <2> QED BY <1>1, <2>1, <2>2 DEF SaveScore, Rejects
<1>2. CASE SaveSignal(t)
  <2>1. PICK bucket \in Buckets : signals' = [signals EXCEPT ![t] = bucket]
    BY <1>2 DEF SaveSignal, Buckets
  <2>2. /\ stage[t] = "scored" /\ stage' = [stage EXCEPT ![t] = "saved"]
        /\ UNCHANGED <<next, by, scores, positions>>
    BY <1>2 DEF SaveSignal
  <2> QED BY <1>0, <2>1, <2>2 DEF PipelineInv, TablesGrow, Stages
<1>3. CASE Announce(t)
  <2>1. /\ stage[t] = "saved" /\ stage' = [stage EXCEPT ![t] = "announced"]
        /\ UNCHANGED <<next, by, scores, signals, positions>>
    BY <1>3 DEF Announce
  <2> QED BY <2>1 DEF PipelineInv, TablesGrow, Stages
<1>4. CASE Reject(t)
  <2>1. /\ stage[t] = "announced" /\ stage' = [stage EXCEPT ![t] = "done"]
        /\ UNCHANGED <<next, by, scores, signals, positions>>
    BY <1>4 DEF Reject
  <2> QED BY <2>1 DEF PipelineInv, TablesGrow, Stages
<1>5. CASE SavePosition(t)
  <2>1. CASE UNCHANGED <<next, by, stage, scores, signals, positions>>
    BY <2>1 DEF PipelineInv, TablesGrow
  <2>2. CASE /\ stage[t] = "announced" /\ positions' = [positions EXCEPT ![t] = "open"]
             /\ stage' = [stage EXCEPT ![t] = "bought"]
             /\ UNCHANGED <<next, by, scores, signals>>
    BY <1>0, <2>2 DEF PipelineInv, TablesGrow, Stages, Results
  <2> QED BY <1>5, <2>1, <2>2 DEF SavePosition, Rejects
<1>6. CASE Confirm(t)
  <2>1. /\ stage[t] = "bought" /\ stage' = [stage EXCEPT ![t] = "managed"]
        /\ UNCHANGED <<next, by, scores, signals, positions>>
    BY <1>6 DEF Confirm
  <2> QED BY <2>1 DEF PipelineInv, TablesGrow, Stages
<1>7. CASE Close(t)
  <2>1. PICK result \in Results : positions' = [positions EXCEPT ![t] = result]
    BY <1>7 DEF Close, Results
  <2>2. /\ stage[t] = "managed" /\ positions[t] = "open"
        /\ UNCHANGED <<next, by, stage, scores, signals>>
    BY <1>7 DEF Close
  <2> QED BY <1>0, <2>1, <2>2 DEF PipelineInv, TablesGrow
<1> QED BY <1>1, <1>2, <1>3, <1>4, <1>5, <1>6, <1>7 DEF Handle

\* At the start nothing is sent, so nothing is stored.
LEMMA PipelineStarts == Init => PipelineInv
<1> SUFFICES ASSUME Init PROVE PipelineInv
  OBVIOUS
<1> QED BY TradesAreNumbers DEF Init, PipelineInv, Stages

\* Every step keeps the order of the saves, and no step takes a row back.
LEMMA PipelineStep ==
  ASSUME PipelineInv, [Next]_vars
  PROVE  PipelineInv' /\ TablesGrow
<1>1. CASE UNCHANGED <<next, by, stage, scores, signals, positions>>
  BY <1>1 DEF PipelineInv, TablesGrow
<1> QED BY <1>1, WhoWrites, EmitKeeps, HandlerKeeps
-----------------------------------------------------------------------------
(* What is counted and what is logged.                                     *)

\* The trades whose position is managed, and those still being decided.
Managed == {t \in Trades : stage[t] = "managed"}
Deciding == {t \in Trades : stage[t] \in {"announced", "bought"}}

MetricsTyped ==
  metrics \in [generated : Nat, rejected : Nat, confirmed : Nat, feed : BOOLEAN \cup {None}]

\* A generated signal is rejected, confirmed, or of a handler between the two.
CountsInv ==
  /\ MetricsTyped
  /\ metrics.confirmed = Cardinality(Managed)
  /\ metrics.generated = metrics.rejected + metrics.confirmed + Cardinality(Deciding)

Events == [kind : {"generated", "rejected"}, trade : Trades]
Generated(t) == [kind |-> "generated", trade |-> t]

Rejection(t) == [kind |-> "rejected", trade |-> t]

\* The events announced so far: as many as were counted.
Emitted == metrics.generated + metrics.rejected

\* The announcement of a signal is followed by its rejection exactly when it is
\* rejected; and a ring that nothing has left holds all that was announced.
LogInv ==
  /\ log \in Seq(Events) /\ Len(log) <= Capacity /\ Len(log) <= Emitted
  /\ Len(log) < Capacity => Len(log) = Emitted
  /\ \A i \in 1..Len(log) :
       LET t == log[i].trade IN
       /\ signals[t] # None
       /\ log[i].kind = "rejected" => Rejected(t)
       /\ log[i].kind = "generated" =>
            (Rejected(t) <=> \E j \in (i + 1)..Len(log) : log[j] = Rejection(t))
  /\ Len(log) = Emitted =>
       /\ \A i \in 1..Len(log) : log[i].kind = "rejected" =>
            \E j \in 1..(i - 1) : log[j] = Generated(log[i].trade)
       /\ \A t \in Trades : stage[t] = "announced" =>
            \E j \in 1..Len(log) : log[j] = Generated(t)

\* The counters move with the handlers' stages; the feed's health is aside.
Uncounted ==
  /\ UNCHANGED log /\ MetricsTyped'
  /\ metrics'.generated = metrics.generated /\ metrics'.rejected = metrics.rejected
  /\ metrics'.confirmed = metrics.confirmed

\* A step counts nothing, or it is the feed's, or a handler's.
LEMMA WhoCounts ==
  ASSUME MetricsTyped, [Next]_vars
  PROVE  \/ UNCHANGED <<stage, signals>> /\ Uncounted
         \/ EmitOne /\ UNCHANGED <<metrics, log>>
         \/ \E t \in Trades : Handle(t)
<1> USE DEF world, feed, pipeline, seen, Exit
<1>0. UNCHANGED <<metrics, log>> => Uncounted
  BY DEF Uncounted, MetricsTyped
<1>1. Boot \/ Stop \/ Respond => UNCHANGED <<stage, signals, metrics, log>>
  BY DEF Boot, Stop, Respond
<1>2. FeedHealthy \/ StopFeed => UNCHANGED <<stage, signals>> /\ Uncounted
  BY DEF FeedHealthy, StopFeed, Uncounted, MetricsTyped
<1>3. ASSUME NEW w \in Strangers, Enlist(w) \/ Review(w)
      PROVE  UNCHANGED <<stage, signals, metrics, log>>
  BY <1>3 DEF Enlist, Review
<1>4. ASSUME NEW t \in Trades, Land(t) \/ Close(t)
      PROVE  UNCHANGED <<stage, signals, metrics, log>>
  BY <1>4 DEF Land, Close
<1>5. ASSUME NEW kind, NEW w, Ask(kind, w)
      PROVE  UNCHANGED <<stage, signals, metrics, log>>
  BY <1>5 DEF Ask
<1>6. ASSUME NEW table, Read(table)
      PROVE  UNCHANGED <<stage, signals, metrics, log>>
  BY <1>6 DEF Read
<1>7. Connect \/ Step => EmitOne /\ UNCHANGED <<metrics, log>>
  BY DEF Connect, Step, EmitOne
<1>8. UNCHANGED vars => UNCHANGED <<stage, signals, metrics, log>>
  BY DEF vars
<1> QED BY <1>0, <1>1, <1>2, <1>3, <1>4, <1>5, <1>6, <1>7, <1>8 DEF Next

\* Two sets that differ in one element at most.
LEMMA OneMoves ==
  ASSUME NEW A, IsFiniteSet(A), NEW B, NEW t, \A u : u # t => (u \in A <=> u \in B)
  PROVE  /\ Cardinality(A) \in Nat
         /\ Cardinality(B) = IF t \in B
                             THEN IF t \in A THEN Cardinality(A) ELSE Cardinality(A) + 1
                             ELSE IF t \in A THEN Cardinality(A) - 1 ELSE Cardinality(A)
<1>1. CASE t \in B
  <2>1. B = A \cup {t}
    BY <1>1
  <2> QED BY <1>1, <2>1, FS_AddElement, FS_CardinalityType
<1>2. CASE t \notin B
  <2>1. B = A \ {t}
    BY <1>2
  <2> QED BY <1>2, <2>1, FS_RemoveElement, FS_CardinalityType
<1> QED BY <1>1, <1>2

\* One handler moves at most.
OnlyMoves(t) == \A u \in Trades : u # t => stage'[u] = stage[u]

\* A handler that moves to another stage enters one of the counts or leaves it.
LEMMA CountMoves ==
  ASSUME NEW t \in Trades, OnlyMoves(t)
  PROVE  /\ Cardinality(Managed) \in Nat /\ Cardinality(Deciding) \in Nat
         /\ stage'[t] # "managed" /\ stage[t] # "managed"
              => Cardinality(Managed)' = Cardinality(Managed)
         /\ stage'[t] = "managed" /\ stage[t] # "managed"
              => Cardinality(Managed)' = Cardinality(Managed) + 1
         /\ (stage'[t] \in {"announced", "bought"} <=> stage[t] \in {"announced", "bought"})
              => Cardinality(Deciding)' = Cardinality(Deciding)
         /\ stage'[t] \in {"announced", "bought"} /\ stage[t] \notin {"announced", "bought"}
              => Cardinality(Deciding)' = Cardinality(Deciding) + 1
         /\ stage'[t] \notin {"announced", "bought"} /\ stage[t] \in {"announced", "bought"}
              => Cardinality(Deciding)' = Cardinality(Deciding) - 1
<1>1. IsFiniteSet(Managed) /\ IsFiniteSet(Deciding)
  BY TradesAreNumbers, FS_Subset DEF Managed, Deciding
<1>2. /\ t \in Managed <=> stage[t] = "managed"
      /\ t \in Managed' <=> stage'[t] = "managed"
      /\ \A u : u # t => (u \in Managed <=> u \in Managed')
  BY DEF Managed, OnlyMoves
<1>3. /\ t \in Deciding <=> stage[t] \in {"announced", "bought"}
      /\ t \in Deciding' <=> stage'[t] \in {"announced", "bought"}
      /\ \A u : u # t => (u \in Deciding <=> u \in Deciding')
  BY DEF Deciding, OnlyMoves
<1> QED BY <1>1, <1>2, <1>3, OneMoves

\* All counters start at zero, and no handler runs.
LEMMA CountsStart == Init => CountsInv
<1> SUFFICES ASSUME Init PROVE CountsInv
  OBVIOUS
<1>2. Managed = {} /\ Deciding = {}
  BY DEF Init, Managed, Deciding
<1>3. Cardinality({}) = 0
  BY FS_EmptySet
<1> QED BY <1>2, <1>3 DEF Init, CountsInv, MetricsTyped

\* Each handler step moves its trade between the counts as it moves the counters.
LEMMA CountsStep ==
  ASSUME PipelineInv, CountsInv, [Next]_vars
  PROVE  CountsInv'
<1>0. DOMAIN stage = Trades /\ MetricsTyped
  BY DEF PipelineInv, CountsInv
<1>1. ASSUME UNCHANGED stage, Uncounted
      PROVE  CountsInv'
  BY <1>1 DEF Uncounted, CountsInv, Managed, Deciding
<1>4. ASSUME NEW t \in Trades, NEW s, stage' = [stage EXCEPT ![t] = s]
      PROVE  OnlyMoves(t) /\ stage'[t] = s
  BY <1>0, <1>4 DEF OnlyMoves
<1>2. ASSUME EmitOne, UNCHANGED <<metrics, log>>
      PROVE  CountsInv'
  <2>1. PICK s \in {"handling", "done"} : stage' = [stage EXCEPT ![next] = s]
    BY <1>2 DEF EmitOne
  <2>2. next \in Trades
    BY <1>2, DashboardApiAssumption DEF EmitOne, PipelineInv, Trades
  <2>3. stage[next] = "unsent"
    BY <2>2, TradesAreNumbers DEF PipelineInv
  <2>6. OnlyMoves(next) /\ stage'[next] \in {"handling", "done"}
    BY <2>1, <2>2, <1>4
  <2>4. Cardinality(Managed)' = Cardinality(Managed)
    BY <2>2, <2>3, <2>6, CountMoves
  <2>5. Cardinality(Deciding)' = Cardinality(Deciding)
    BY <2>2, <2>3, <2>6, CountMoves
  <2> QED BY <1>2, <2>4, <2>5 DEF CountsInv, MetricsTyped
<1>3. ASSUME NEW t \in Trades, Handle(t)
      PROVE  CountsInv'
  <2> USE DEF At, Goes, seen, feed
  <2>0. Cardinality(Managed) \in Nat /\ Cardinality(Deciding) \in Nat
    BY TradesAreNumbers, FS_Subset, FS_CardinalityType DEF Managed, Deciding
  <2>1. CASE SaveScore(t)
    <3>1. CASE UNCHANGED stage
      BY <2>1, <3>1 DEF SaveScore, CountsInv, MetricsTyped, Managed, Deciding
    <3>2. CASE stage[t] = "handling" /\ stage' = [stage EXCEPT ![t] = "scored"]
      <4>1. stage[t] = "handling" /\ stage' = [stage EXCEPT ![t] = "scored"]
        BY <3>2
      <4>2. OnlyMoves(t) /\ stage'[t] = "scored"
        BY <4>1, <1>4
      <4>3. /\ Cardinality(Managed)' = Cardinality(Managed)
            /\ Cardinality(Deciding)' = Cardinality(Deciding)
        BY <4>1, <4>2, CountMoves
      <4> QED BY <2>1, <4>3 DEF SaveScore, CountsInv, MetricsTyped
    <3> QED BY <2>1, <3>1, <3>2 DEF SaveScore, Rejects
  <2>2. CASE SaveSignal(t)
    <3>1. stage[t] = "scored" /\ stage' = [stage EXCEPT ![t] = "saved"]
      BY <2>2 DEF SaveSignal
    <3>2. OnlyMoves(t) /\ stage'[t] = "saved"
      BY <3>1, <1>4
    <3>3. /\ Cardinality(Managed)' = Cardinality(Managed)
          /\ Cardinality(Deciding)' = Cardinality(Deciding)
      BY <3>1, <3>2, CountMoves
    <3> QED BY <2>2, <3>3 DEF SaveSignal, CountsInv, MetricsTyped
  <2>3. CASE Announce(t)
    <3>1. stage[t] = "saved" /\ stage' = [stage EXCEPT ![t] = "announced"]
      BY <2>3 DEF Announce
    <3>2. OnlyMoves(t) /\ stage'[t] = "announced"
      BY <3>1, <1>4
    <3>3. /\ Cardinality(Managed)' = Cardinality(Managed)
          /\ Cardinality(Deciding)' = Cardinality(Deciding) + 1
      BY <3>1, <3>2, CountMoves
    <3>4. metrics' = [metrics EXCEPT !.generated = @ + 1]
      BY <2>3 DEF Announce
    <3> QED BY <2>0, <3>3, <3>4 DEF CountsInv, MetricsTyped
  <2>4. CASE Reject(t)
    <3>1. stage[t] = "announced" /\ stage' = [stage EXCEPT ![t] = "done"]
      BY <2>4 DEF Reject
    <3>2. OnlyMoves(t) /\ stage'[t] = "done"
      BY <3>1, <1>4
    <3>3. /\ Cardinality(Managed)' = Cardinality(Managed)
          /\ Cardinality(Deciding)' = Cardinality(Deciding) - 1
      BY <3>1, <3>2, CountMoves
    <3>4. metrics' = [metrics EXCEPT !.rejected = @ + 1]
      BY <2>4 DEF Reject
    <3> QED BY <2>0, <3>3, <3>4 DEF CountsInv, MetricsTyped
  <2>5. CASE SavePosition(t)
    <3>1. CASE UNCHANGED stage
      BY <2>5, <3>1 DEF SavePosition, CountsInv, MetricsTyped, Managed, Deciding
    <3>2. CASE stage[t] = "announced" /\ stage' = [stage EXCEPT ![t] = "bought"]
      <4>1. stage[t] = "announced" /\ stage' = [stage EXCEPT ![t] = "bought"]
        BY <3>2
      <4>2. OnlyMoves(t) /\ stage'[t] = "bought"
        BY <4>1, <1>4
      <4>3. /\ Cardinality(Managed)' = Cardinality(Managed)
            /\ Cardinality(Deciding)' = Cardinality(Deciding)
        BY <4>1, <4>2, CountMoves
      <4> QED BY <2>5, <4>3 DEF SavePosition, CountsInv, MetricsTyped
    <3> QED BY <2>5, <3>1, <3>2 DEF SavePosition, Rejects
  <2>6. CASE Confirm(t)
    <3>1. stage[t] = "bought" /\ stage' = [stage EXCEPT ![t] = "managed"]
      BY <2>6 DEF Confirm
    <3>2. OnlyMoves(t) /\ stage'[t] = "managed"
      BY <3>1, <1>4
    <3>3. /\ Cardinality(Managed)' = Cardinality(Managed) + 1
          /\ Cardinality(Deciding)' = Cardinality(Deciding) - 1
      BY <3>1, <3>2, CountMoves
    <3>4. metrics' = [metrics EXCEPT !.confirmed = @ + 1]
      BY <2>6 DEF Confirm
    <3> QED BY <2>0, <3>3, <3>4 DEF CountsInv, MetricsTyped
  <2> QED BY <1>3, <2>1, <2>2, <2>3, <2>4, <2>5, <2>6 DEF Handle
<1> QED BY <1>0, <1>1, <1>2, <1>3, WhoCounts

\* The ring starts empty.
LEMMA LogStarts == Init => LogInv
<1> SUFFICES ASSUME Init PROVE LogInv
  OBVIOUS
<1> QED BY DashboardApiAssumption DEF Init, LogInv, Emitted

\* An event is pushed behind the others, and when there is no room the oldest goes.
LEMMA Pushed ==
  ASSUME NEW e \in Events, log \in Seq(Events), Len(log) <= Capacity, log' = Push(e)
  PROVE  /\ Len(log) \in Nat /\ log' \in Seq(Events)
         /\ \E s \in {0, 1} :
              /\ Len(log') = Len(log) + 1 - s
              /\ \A i \in 1..(Len(log) - s) : log'[i] = log[i + s]
              /\ log'[Len(log) + 1 - s] = e
              /\ s = 0 => Len(log') <= Capacity
              /\ s = 1 => Len(log') = Capacity
<1> DEFINE longer == Append(log, e)
<1>1. /\ longer \in Seq(Events) /\ Len(longer) = Len(log) + 1 /\ Len(log) \in Nat
      /\ \A i \in 1..Len(log) : longer[i] = log[i]
      /\ longer[Len(log) + 1] = e /\ Capacity \in Nat
  BY DashboardApiAssumption
<1>2. log' = IF Len(longer) > Capacity THEN Tail(longer) ELSE longer
  BY DEF Push
<1> HIDE DEF longer
<1>3. CASE Len(longer) > Capacity
  <2>1. longer # <<>>
    BY <1>1
  <2>2. /\ log' = Tail(longer) /\ log' \in Seq(Events) /\ Len(log') = Len(log)
        /\ \A i \in 1..Len(log') : log'[i] = longer[i + 1]
    BY <1>1, <1>2, <1>3, <2>1, HeadTailProperties
  <2>3. Len(log) = Capacity /\ Len(log) >= 1
    BY <1>1, <1>3, DashboardApiAssumption
  <2>4. log'[Len(log)] = e
    BY <1>1, <2>2, <2>3
  <2>5. ASSUME NEW i \in 1..(Len(log) - 1) PROVE log'[i] = log[i + 1]
    <3>1. i \in 1..Len(log') /\ i + 1 \in 1..Len(log)
      BY <1>1, <2>2
    <3> QED BY <1>1, <2>2, <3>1
  <2>6. Len(log) + 1 - 1 = Len(log)
    BY <1>1
  <2> QED BY <1>1, <2>2, <2>3, <2>4, <2>5, <2>6
<1>4. CASE ~ (Len(longer) > Capacity)
  <2>1. log' = longer
    BY <1>2, <1>4
  <2>2. \A i \in 1..(Len(log) - 0) : log'[i] = log[i + 0]
    BY <1>1, <2>1
  <2>3. Len(log) + 1 - 0 = Len(log) + 1 /\ Len(log') <= Capacity
    BY <1>1, <1>4, <2>1
  <2> QED BY <1>1, <2>1, <2>2, <2>3
<1> QED BY <1>3, <1>4

\* An event pushed: an announcement of a signal that is not rejected, or its rejection.
LEMMA PushKeeps ==
  ASSUME LogInv, PipelineInv, MetricsTyped, TablesGrow,
         NEW t \in Trades, NEW kind \in {"generated", "rejected"},
         log' = Push([kind |-> kind, trade |-> t]), Emitted' = Emitted + 1,
         signals[t] # None, ~ Rejected(t), Rejected(t)' <=> kind = "rejected",
         kind = "rejected" => stage[t] = "announced",
         \A u \in Trades : u # t => (Rejected(u)' <=> Rejected(u)),
         \A u \in Trades : stage'[u] = "announced" =>
                             stage[u] = "announced" \/ (u = t /\ kind = "generated")
  PROVE  LogInv'
<1> DEFINE e == [kind |-> kind, trade |-> t]
           n == Len(log)
<1>1. /\ e \in Events /\ e.trade = t /\ e.kind = kind
      /\ kind = "generated" => e = Generated(t)
      /\ kind = "rejected" => e = Rejection(t)
      /\ \A u : e = Rejection(u) => u = t /\ kind = "rejected"
  BY DEF Events, Generated, Rejection
<1>2. log \in Seq(Events) /\ n <= Capacity /\ n <= Emitted /\ (n < Capacity => n = Emitted)
      /\ Emitted \in Nat /\ Capacity \in Nat
  BY DashboardApiAssumption DEF LogInv, MetricsTyped, Emitted
<1>3. log' = Push(e)
  OBVIOUS
<1> HIDE DEF e
<1>4. n \in Nat /\ log' \in Seq(Events)
  BY <1>1, <1>2, <1>3, Pushed
<1>5. PICK s \in {0, 1} :
        /\ Len(log') = n + 1 - s
        /\ \A i \in 1..(n - s) : log'[i] = log[i + s]
        /\ log'[n + 1 - s] = e
        /\ s = 0 => Len(log') <= Capacity
        /\ s = 1 => Len(log') = Capacity
  BY <1>1, <1>2, <1>3, Pushed
<1> HIDE DEF n
<1>6. \A i \in 1..n : log[i] \in Events /\ log[i].trade \in Trades
  <2>1. \A i \in 1..n : log[i] \in Events
    BY <1>2 DEF n
  <2> QED BY <2>1 DEF Events
<1>7. /\ Len(log') <= Capacity /\ Len(log') <= Emitted'
      /\ Len(log') < Capacity => Len(log') = Emitted'
  BY <1>2, <1>4, <1>5
<1>8. ASSUME NEW i \in 1..Len(log'), NEW u, u = log'[i].trade
      PROVE  /\ signals'[u] # None
             /\ log'[i].kind = "rejected" => Rejected(u)'
             /\ log'[i].kind = "generated" =>
                  (Rejected(u)' <=> \E j \in (i + 1)..Len(log') : log'[j] = Rejection(u))
  <2>1. CASE i = n + 1 - s
    <3>1. u = t /\ log'[i].kind = kind /\ (i + 1)..Len(log') = {}
      BY <1>1, <1>4, <1>5, <1>8, <2>1
    <3> QED BY <3>1 DEF TablesGrow
  <2>2. CASE i # n + 1 - s
    <3> DEFINE k == i + s
    <3>1. i \in 1..(n - s) /\ k \in 1..n /\ log'[i] = log[k]
      BY <1>4, <1>5, <1>8, <2>2
    <3>2. /\ u = log[k].trade /\ u \in Trades
          /\ signals[u] # None
          /\ log[k].kind = "rejected" => Rejected(u)
          /\ log[k].kind = "generated" =>
               (Rejected(u) <=> \E j \in (k + 1)..n : log[j] = Rejection(u))
      BY <1>6, <1>8, <3>1 DEF LogInv, n
    <3>3. signals'[u] # None
      BY <3>2 DEF TablesGrow
    <3>4. log[k].kind = "rejected" => Rejected(u)'
      BY <3>2
    <3>5. ASSUME log[k].kind = "generated", Rejected(u)'
          PROVE  \E j \in (i + 1)..Len(log') : log'[j] = Rejection(u)
      <4>1. CASE u = t
        <5>1. log'[n + 1 - s] = Rejection(u) /\ n + 1 - s \in (i + 1)..Len(log')
          BY <1>1, <1>4, <1>5, <3>1, <3>5, <4>1
        <5> QED BY <5>1
      <4>2. CASE u # t
        <5>1. PICK j \in (k + 1)..n : log[j] = Rejection(u)
          BY <3>2, <3>5, <4>2
        <5>2. j - s \in (i + 1)..Len(log') /\ j - s \in 1..(n - s) /\ (j - s) + s = j
          BY <1>4, <1>5, <3>1
        <5> QED BY <1>5, <5>1, <5>2
      <4> QED BY <4>1, <4>2
    <3>6. ASSUME log[k].kind = "generated", NEW j \in (i + 1)..Len(log'), log'[j] = Rejection(u)
          PROVE  Rejected(u)'
      <4>1. CASE j = n + 1 - s
        BY <1>1, <1>5, <3>6, <4>1
      <4>2. CASE j # n + 1 - s
        <5>1. j \in 1..(n - s) /\ j + s \in (k + 1)..n
          BY <1>4, <1>5, <3>1, <4>2
        <5>2. log[j + s] = Rejection(u)
          BY <1>5, <3>6, <5>1
        <5> QED BY <3>2, <3>6, <5>1, <5>2
      <4> QED BY <4>1, <4>2
    <3> QED BY <3>1, <3>3, <3>4, <3>5, <3>6
  <2> QED BY <2>1, <2>2
<1>9. ASSUME Len(log') = Emitted'
      PROVE  /\ \A i \in 1..Len(log') : log'[i].kind = "rejected" =>
                  \E j \in 1..(i - 1) : log'[j] = Generated(log'[i].trade)
             /\ \A u \in Trades : stage'[u] = "announced" =>
                  \E j \in 1..Len(log') : log'[j] = Generated(u)
  <2>1. /\ n = Emitted /\ Len(log') = n + 1 /\ log'[n + 1] = e
        /\ \A i \in 1..n : log'[i] = log[i]
    <3>1. s = 0 /\ n = Emitted
      BY <1>2, <1>4, <1>5, <1>9
    <3>2. n + 1 - 0 = n + 1 /\ n - 0 = n /\ \A i \in 1..n : i + 0 = i
      BY <1>4
    <3> QED BY <1>5, <3>1, <3>2
  <2>2. /\ \A i \in 1..n : log[i].kind = "rejected" =>
             \E j \in 1..(i - 1) : log[j] = Generated(log[i].trade)
        /\ \A u \in Trades : stage[u] = "announced" =>
             \E j \in 1..n : log[j] = Generated(u)
    BY <2>1 DEF LogInv, n
  <2>3. ASSUME NEW i \in 1..Len(log'), log'[i].kind = "rejected"
        PROVE  \E j \in 1..(i - 1) : log'[j] = Generated(log'[i].trade)
    <3>1. CASE i \in 1..n
      <4>1. PICK j \in 1..(i - 1) : log[j] = Generated(log[i].trade)
        BY <2>1, <2>2, <2>3, <3>1
      <4>2. log'[j] = log[j] /\ log'[i] = log[i]
        BY <1>4, <2>1, <3>1
      <4> QED BY <4>1, <4>2
    <3>2. CASE i = n + 1
      <4>1. kind = "rejected" /\ log'[i].trade = t
        BY <1>1, <2>1, <2>3, <3>2
      <4>2. PICK j \in 1..n : log[j] = Generated(t)
        BY <2>2, <4>1
      <4> QED BY <1>4, <2>1, <3>2, <4>1, <4>2
    <3> QED BY <1>4, <2>1, <3>1, <3>2
  <2>4. ASSUME NEW u \in Trades, stage'[u] = "announced"
        PROVE  \E j \in 1..Len(log') : log'[j] = Generated(u)
    <3>1. CASE u = t /\ kind = "generated"
      BY <1>1, <1>4, <2>1, <3>1
    <3>2. CASE stage[u] = "announced"
      <4>1. PICK j \in 1..n : log[j] = Generated(u)
        BY <2>2, <3>2
      <4> QED BY <1>4, <2>1, <4>1
    <3> QED BY <2>4, <3>1, <3>2
  <2> QED BY <2>3, <2>4
<1> QED BY <1>4, <1>7, <1>8, <1>9 DEF LogInv

\* Each announcement follows the save of its signal, and each rejection its announcement.
LEMMA LogStep ==
  ASSUME PipelineInv, MetricsTyped, LogInv, [Next]_vars
  PROVE  LogInv'
<1>0. TablesGrow /\ PipelineInv'
  BY PipelineStep
<1>1. \A i \in 1..Len(log) : log[i].trade \in Trades
  <2>1. log \in Seq(Events)
    BY DEF LogInv
  <2>2. \A i \in 1..Len(log) : log[i] \in Events
    BY <2>1
  <2> QED BY <2>2 DEF Events
<1>2. ASSUME UNCHANGED log, Emitted' = Emitted,
             \A t \in Trades : stage'[t] = "announced" => stage[t] = "announced",
             \A t \in Trades : Rejected(t)' <=> Rejected(t)
      PROVE  LogInv'
  <2>1. \A i \in 1..Len(log) : signals'[log[i].trade] # None
    BY <1>0, <1>1 DEF LogInv, TablesGrow
  <2>2. \A i \in 1..Len(log) : Rejected(log[i].trade)' <=> Rejected(log[i].trade)
    BY <1>1, <1>2 DEF Rejected
  <2> QED BY <1>2, <2>1, <2>2 DEF LogInv, Rejected
<1>3. ASSUME EmitOne, UNCHANGED <<metrics, log>>
      PROVE  LogInv'
  <2>1. next \in Trades
    BY <1>3, DashboardApiAssumption DEF EmitOne, PipelineInv, Trades
  <2>2. \A t \in Trades : stage'[t] = "announced" => stage[t] = "announced"
    BY <1>3, <2>1 DEF EmitOne, PipelineInv
  <2>3. signals[next] = None /\ UNCHANGED signals
    BY <1>3, <2>1, TradesAreNumbers DEF EmitOne, PipelineInv
  <2>4. \A t \in Trades : Rejected(t)' <=> Rejected(t)
    BY <1>3, <2>1, <2>3 DEF EmitOne, PipelineInv, Rejected
  <2> QED BY <1>2, <1>3, <2>2, <2>4 DEF Emitted
<1>4. ASSUME NEW t \in Trades, Handle(t)
      PROVE  LogInv'
  <2> USE DEF At, Goes, seen
  <2>1. CASE SaveScore(t) \/ SaveSignal(t) \/ SavePosition(t) \/ Confirm(t)
    <3>1. UNCHANGED log /\ Emitted' = Emitted
      BY <2>1 DEF SaveScore, SaveSignal, SavePosition, Confirm, Emitted, MetricsTyped
    <3>2. \A u \in Trades : stage'[u] = "announced" => stage[u] = "announced"
      BY <2>1 DEF SaveScore, SaveSignal, SavePosition, Confirm, Rejects, PipelineInv
    <3>3. \A u \in Trades : (stage'[u] = "done" <=> stage[u] = "done")
                            /\ (stage[u] = "done" => signals'[u] = signals[u])
      BY <2>1 DEF SaveScore, SaveSignal, SavePosition, Confirm, Rejects, PipelineInv, pipeline
    <3>4. \A u \in Trades : Rejected(u)' <=> Rejected(u)
      BY <3>3 DEF Rejected
    <3> QED BY <1>2, <3>1, <3>2, <3>4
  <2>2. CASE Announce(t)
    <3>1. /\ stage[t] = "saved" /\ stage' = [stage EXCEPT ![t] = "announced"]
          /\ log' = Push([kind |-> "generated", trade |-> t]) /\ UNCHANGED signals
          /\ metrics' = [metrics EXCEPT !.generated = @ + 1]
      BY <2>2 DEF Announce
    <3>2. signals[t] # None
      BY <3>1 DEF PipelineInv
    <3>3. \A u \in Trades : stage'[u] = IF u = t THEN "announced" ELSE stage[u]
      BY <3>1 DEF PipelineInv
    <3>4. Emitted' = Emitted + 1
      BY <3>1 DEF Emitted, MetricsTyped
    <3>5. /\ ~ Rejected(t) /\ ~ Rejected(t)'
          /\ \A u \in Trades : u # t => (Rejected(u)' <=> Rejected(u))
      BY <3>1, <3>3 DEF Rejected
    <3> QED BY <1>0, <3>1, <3>2, <3>3, <3>4, <3>5, PushKeeps
  <2>3. CASE Reject(t)
    <3>1. /\ stage[t] = "announced" /\ stage' = [stage EXCEPT ![t] = "done"]
          /\ log' = Push([kind |-> "rejected", trade |-> t]) /\ UNCHANGED signals
          /\ metrics' = [metrics EXCEPT !.rejected = @ + 1]
      BY <2>3 DEF Reject
    <3>2. signals[t] # None
      BY <3>1 DEF PipelineInv
    <3>3. \A u \in Trades : stage'[u] = IF u = t THEN "done" ELSE stage[u]
      BY <3>1 DEF PipelineInv
    <3>4. Emitted' = Emitted + 1
      BY <3>1 DEF Emitted, MetricsTyped
    <3>5. /\ ~ Rejected(t) /\ Rejected(t)'
          /\ \A u \in Trades : u # t => (Rejected(u)' <=> Rejected(u))
      BY <3>1, <3>2, <3>3 DEF Rejected
    <3> QED BY <1>0, <3>1, <3>2, <3>3, <3>4, <3>5, PushKeeps
  <2> QED BY <1>4, <2>1, <2>2, <2>3 DEF Handle
<1>5. ASSUME UNCHANGED <<stage, signals>>, Uncounted PROVE LogInv'
  BY <1>2, <1>5 DEF Uncounted, Emitted, Rejected
<1> QED BY <1>3, <1>4, <1>5, WhoCounts

\* What the page is shown of the log: its newest events, at most Limit of them.
LEMMA RecentIsSuffix ==
  ASSUME log \in Seq(Events)
  PROVE  /\ Recent(Limit) \in Seq(Events)
         /\ Len(Recent(Limit)) = IF Limit < Len(log) THEN Limit ELSE Len(log)
         /\ \A i \in 1..Len(Recent(Limit)) :
              /\ Len(log) - i + 1 \in 1..Len(log)
              /\ Recent(Limit)[i] = log[Len(log) - i + 1]
<1> DEFINE n == Len(log)
           newest == Reverse(log)
           m == IF Limit < n THEN Limit ELSE n
<1>1. n \in Nat /\ m \in 0..n /\ Limit \in Nat
  BY DashboardApiAssumption
<1>2. newest = [i \in 1..n |-> log[(n - i) + 1]]
  BY DEF Reverse
<1>3. \A i \in 1..n : (n - i) + 1 \in 1..n /\ log[(n - i) + 1] \in Events
  BY <1>1
<1>4. newest \in Seq(Events) /\ Len(newest) = n
  BY <1>1, <1>2, <1>3
<1>5. Recent(Limit) = SubSeq(newest, 1, m)
  BY DEF Recent
<1> HIDE DEF n, newest, m
<1>6. /\ SubSeq(newest, 1, m) \in Seq(Events) /\ Len(SubSeq(newest, 1, m)) = m
      /\ \A i \in 1..m : SubSeq(newest, 1, m)[i] = newest[i]
  BY <1>1, <1>4
<1>7. ASSUME NEW i \in 1..m
      PROVE  n - i + 1 \in 1..n /\ newest[i] = log[n - i + 1]
  BY <1>1, <1>2
<1> QED BY <1>5, <1>6, <1>7 DEF n, m

\* So the feed of signals that is shown is in order (SignalFeedInOrder).
LEMMA LogShown ==
  LogInv /\ MetricsTyped => SignalFeedInOrder
<1> SUFFICES ASSUME LogInv, MetricsTyped PROVE SignalFeedInOrder
  OBVIOUS
<1> DEFINE events == Recent(Limit)
           n == Len(log)
           m == Len(events)
<1>1. /\ m = IF Limit < n THEN Limit ELSE n
      /\ \A i \in 1..m : n - i + 1 \in 1..n /\ events[i] = log[n - i + 1]
      /\ DOMAIN events = 1..m
  BY RecentIsSuffix DEF LogInv
<1>2. n \in Nat /\ Limit \in Nat /\ Capacity \in Nat /\ Emitted \in Nat /\ n <= Emitted
      /\ (n < Capacity => n = Emitted)
  BY DashboardApiAssumption DEF LogInv, MetricsTyped, Emitted
<1> HIDE DEF events, n, m
<1>3. m \in Nat /\ m <= n
  BY <1>1, <1>2
<1>4. m < Limit /\ m < Capacity => m = Emitted
  BY <1>1, <1>2
<1>5. ASSUME NEW i \in 1..m, NEW t, t = events[i].trade
      PROVE  /\ signals[t] # None
             /\ events[i].kind = "generated" =>
                  (Rejected(t) <=> \E j \in 1..(i - 1) : events[j] = Rejection(t))
             /\ events[i].kind = "rejected" =>
                  /\ Rejected(t)
                  /\ m = Emitted => \E j \in (i + 1)..m : events[j] = Generated(t)
  <2> DEFINE k == n - i + 1
  <2>1. /\ k \in 1..n /\ events[i] = log[k]
        /\ signals[t] # None
        /\ log[k].kind = "rejected" => Rejected(t)
        /\ log[k].kind = "generated" =>
             (Rejected(t) <=> \E j \in (k + 1)..n : log[j] = Rejection(t))
    BY <1>1, <1>5 DEF LogInv, n
  <2>2. ASSUME events[i].kind = "generated", Rejected(t)
        PROVE  \E j \in 1..(i - 1) : events[j] = Rejection(t)
    <3>1. PICK j \in (k + 1)..n : log[j] = Rejection(t)
      BY <2>1, <2>2
    <3>2. n - j + 1 \in 1..(i - 1) /\ n - j + 1 \in 1..m /\ n - (n - j + 1) + 1 = j
      BY <1>2, <1>3, <1>5
    <3> QED BY <1>1, <3>1, <3>2
  <2>3. ASSUME events[i].kind = "generated", NEW j \in 1..(i - 1), events[j] = Rejection(t)
        PROVE  Rejected(t)
    <3>1. j \in 1..m /\ n - j + 1 \in (k + 1)..n
      BY <1>2, <1>3, <1>5
    <3>2. log[n - j + 1] = Rejection(t)
      BY <1>1, <2>3, <3>1
    <3> QED BY <2>1, <2>3, <3>1, <3>2
  <2>4. ASSUME events[i].kind = "rejected", m = Emitted
        PROVE  \E j \in (i + 1)..m : events[j] = Generated(t)
    <3>1. n = m /\ n = Emitted
      BY <1>2, <1>3, <2>4
    <3>2. PICK j \in 1..(k - 1) : log[j] = Generated(t)
      BY <1>5, <2>1, <2>4, <3>1 DEF LogInv, n
    <3>3. n - j + 1 \in (i + 1)..m /\ n - j + 1 \in 1..m /\ n - (n - j + 1) + 1 = j
      BY <1>2, <1>3, <1>5, <3>1
    <3> QED BY <1>1, <3>2, <3>3
  <2> QED BY <2>1, <2>2, <2>3, <2>4
<1>6. m < Limit /\ m < Capacity => m = metrics.generated + metrics.rejected
  BY <1>4 DEF Emitted
<1>7. ASSUME NEW i \in DOMAIN events
      PROVE  LET t == events[i].trade
                 Shown(kind, u, places) ==
                   \E j \in places : events[j] = [kind |-> kind, trade |-> u]
             IN  /\ signals[t] # None
                 /\ events[i].kind = "generated" =>
                      (Rejected(t) <=> Shown("rejected", t, 1..(i - 1)))
                 /\ events[i].kind = "rejected" =>
                      /\ Rejected(t)
                      /\ m = metrics.generated + metrics.rejected =>
                           Shown("generated", t, (i + 1)..m)
  BY <1>1, <1>5, <1>7 DEF Emitted, Generated, Rejection
<1> QED BY <1>6, <1>7 DEF SignalFeedInOrder, events, m
-----------------------------------------------------------------------------
(* What a request has read.                                                *)

Tables == {"positions", "open", "signals", "scores", "list"} \cup Statuses

\* The requests that join two tables: the one with the positions, and the other.
Joins == DOMAIN Plan \ {"candidates"}
Held(kind) == IF kind = "positions" THEN "open" ELSE "positions"
Joined(kind) == IF kind = "whales" THEN "scores" ELSE "signals"

Waits(todo, a) == \E i \in 1..Len(todo) : a \in todo[i]
InOrder(todo, a, b) ==
  \A i, j \in 1..Len(todo) : a \in todo[j] /\ b \in todo[i] => j < i

RequestTyped ==
  request # None =>
    /\ request.kind \in DOMAIN Plan
    /\ request.todo \in Seq(SUBSET Tables)
    /\ request = [kind |-> request.kind, todo |-> request.todo, got |-> request.got]

\* The positions are read before what they are joined with, and both are read.
ReadsInv ==
  request # None /\ request.kind \in Joins =>
    LET a == Held(request.kind)
        b == Joined(request.kind)
    IN /\ InOrder(request.todo, a, b)
       /\ a \in DOMAIN request.got \/ Waits(request.todo, a)
       /\ b \in DOMAIN request.got \/ Waits(request.todo, b)
       /\ b \in DOMAIN request.got => ~ Waits(request.todo, a)

\* What is left of a plan when one table of its first step is read.
Rest(todo, table) ==
  IF Head(todo) \ {table} = {} THEN Tail(todo) ELSE <<Head(todo) \ {table}>> \o Tail(todo)

\* No step is added, and only the table read may be missing in the rest.
LEMMA ReadMoves ==
  ASSUME NEW todo \in Seq(SUBSET Tables), todo # <<>>, NEW table \in Head(todo), NEW rest,
         rest = Rest(todo, table)
  PROVE  /\ rest \in Seq(SUBSET Tables) /\ Len(todo) \in Nat /\ Len(rest) \in Nat
         /\ \E s \in {0, 1} :
              /\ Len(rest) = Len(todo) - s
              /\ \A i \in 1..Len(rest) : i + s \in 1..Len(todo) /\ rest[i] \subseteq todo[i + s]
              /\ \A i \in 1..Len(todo) : \A u \in todo[i] :
                   u # table => i - s \in 1..Len(rest) /\ u \in rest[i - s]
<1> DEFINE n == Len(todo)
           Good(s) == /\ Len(rest) = n - s
                      /\ \A i \in 1..Len(rest) : i + s \in 1..n /\ rest[i] \subseteq todo[i + s]
                      /\ \A i \in 1..n : \A u \in todo[i] :
                           u # table => i - s \in 1..Len(rest) /\ u \in rest[i - s]
<1> HIDE DEF n
<1> SUFFICES /\ rest \in Seq(SUBSET Tables) /\ n \in Nat /\ Len(rest) \in Nat
             /\ Good(0) \/ Good(1)
  <2>1. 0 \in {0, 1} /\ 1 \in {0, 1}
    OBVIOUS
  <2> QED BY <2>1 DEF n
<1>1. /\ n \in Nat /\ n >= 1 /\ Head(todo) = todo[1] /\ Head(todo) \in SUBSET Tables
      /\ Tail(todo) \in Seq(SUBSET Tables) /\ Len(Tail(todo)) = n - 1
  BY HeadTailProperties DEF n
<1>2. \A i \in 1..(n - 1) : Tail(todo)[i] = todo[i + 1]
  BY <1>1, HeadTailProperties
<1>3. CASE Head(todo) \ {table} = {}
  <2>1. rest = Tail(todo) /\ Len(rest) = n - 1
    BY <1>1, <1>3 DEF Rest
  <2>2. \A i \in 1..Len(rest) : i + 1 \in 1..n /\ rest[i] \subseteq todo[i + 1]
    <3> SUFFICES ASSUME NEW i \in 1..Len(rest)
                 PROVE  i + 1 \in 1..n /\ rest[i] \subseteq todo[i + 1]
      OBVIOUS
    <3>1. i \in 1..(n - 1) /\ i + 1 \in 1..n
      BY <1>1, <2>1
    <3>2. rest[i] = todo[i + 1]
      BY <1>2, <2>1, <3>1
    <3> QED BY <3>1, <3>2
  <2>3. ASSUME NEW i \in 1..n, NEW u \in todo[i], u # table
        PROVE  i - 1 \in 1..Len(rest) /\ u \in rest[i - 1]
    <3>1. i # 1
      BY <1>1, <1>3, <2>3
    <3>2. i - 1 \in 1..(n - 1) /\ (i - 1) + 1 = i
      BY <1>1, <3>1
    <3> QED BY <1>2, <2>1, <2>3, <3>2
  <2>4. Good(1)
    BY <2>1, <2>2, <2>3 DEF n
  <2>5. rest \in Seq(SUBSET Tables) /\ Len(rest) \in Nat
    BY <1>1, <2>1
  <2> HIDE DEF Good
  <2> QED BY <1>1, <2>4, <2>5
<1>4. CASE Head(todo) \ {table} # {}
  <2> DEFINE left == Head(todo) \ {table}
             one == <<left>>
             tail == Tail(todo)
  <2>1. rest = one \o tail
    BY <1>4 DEF Rest
  <2>2. left \in SUBSET Tables /\ left \subseteq todo[1]
    BY <1>1
  <2>3. one \in Seq(SUBSET Tables) /\ Len(one) = 1 /\ one[1] = left
    BY <2>2
  <2>4. /\ tail \in Seq(SUBSET Tables) /\ Len(tail) = n - 1
        /\ \A i \in 1..(n - 1) : tail[i] = todo[i + 1]
    BY <1>1, <1>2
  <2>5. \A u \in todo[1] : u # table => u \in left
    BY <1>1
  <2> HIDE DEF left, one, tail
  <2>6. /\ rest \in Seq(SUBSET Tables) /\ Len(rest) = n
        /\ \A i \in 1..n : rest[i] = IF i <= 1 THEN one[i] ELSE tail[i - 1]
    <3>1. /\ one \o tail \in Seq(SUBSET Tables) /\ Len(one \o tail) = Len(one) + Len(tail)
          /\ \A i \in 1..(Len(one) + Len(tail)) :
               (one \o tail)[i] = IF i <= Len(one) THEN one[i] ELSE tail[i - Len(one)]
      <4> DEFINE S == SUBSET Tables
      <4>1. one \in Seq(S) /\ tail \in Seq(S)
        BY <2>3, <2>4
      <4> HIDE DEF S
      <4>2. /\ one \o tail \in Seq(S) /\ Len(one \o tail) = Len(one) + Len(tail)
            /\ \A i \in 1..(Len(one) + Len(tail)) :
                 (one \o tail)[i] = IF i <= Len(one) THEN one[i] ELSE tail[i - Len(one)]
        BY <4>1, ConcatProperties
      <4> QED BY <4>2 DEF S
    <3>2. Len(one) + Len(tail) = n
      BY <1>1, <2>3, <2>4
    <3> QED BY <2>1, <2>3, <3>1, <3>2
  <2>7. ASSUME NEW i \in 1..n
        PROVE  rest[i] \subseteq todo[i] /\ \A u \in todo[i] : u # table => u \in rest[i]
    <3>1. CASE i = 1
      BY <1>1, <2>2, <2>3, <2>5, <2>6, <3>1
    <3>2. CASE i # 1
      <4>1. i - 1 \in 1..(n - 1) /\ (i - 1) + 1 = i /\ ~ (i <= 1)
        BY <1>1, <3>2
      <4>2. rest[i] = todo[i]
        BY <2>4, <2>6, <4>1
      <4> QED BY <4>2
    <3> QED BY <3>1, <3>2
  <2>8. Good(0)
    BY <1>1, <2>6, <2>7
  <2> HIDE DEF Good
  <2> QED BY <1>1, <2>6, <2>8
<1> QED BY <1>3, <1>4

\* Reading keeps a plan's order, and drops no other table from it.
LEMMA OrderKept ==
  ASSUME NEW todo \in Seq(SUBSET Tables), todo # <<>>, NEW table \in Head(todo), NEW rest,
         rest = Rest(todo, table),
         NEW a, NEW b, InOrder(todo, a, b)
  PROVE  /\ InOrder(rest, a, b)
         /\ \A u : u # table /\ Waits(todo, u) => Waits(rest, u)
         /\ \A u : Waits(rest, u) => Waits(todo, u)
         /\ b = table => ~ Waits(rest, a)
<1>1. Len(todo) \in Nat /\ Len(rest) \in Nat
  BY ReadMoves
<1>2. PICK s \in {0, 1} :
        /\ Len(rest) = Len(todo) - s
        /\ \A i \in 1..Len(rest) : i + s \in 1..Len(todo) /\ rest[i] \subseteq todo[i + s]
        /\ \A i \in 1..Len(todo) : \A u \in todo[i] :
             u # table => i - s \in 1..Len(rest) /\ u \in rest[i - s]
  BY ReadMoves
<1>3. ASSUME NEW i \in 1..Len(rest), NEW j \in 1..Len(rest), a \in rest[j], b \in rest[i]
      PROVE  j < i
  <2>1. a \in todo[j + s] /\ b \in todo[i + s] /\ i + s \in 1..Len(todo) /\ j + s \in 1..Len(todo)
    BY <1>2, <1>3
  <2>2. j + s < i + s
    BY <2>1 DEF InOrder
  <2> QED BY <1>1, <1>2, <2>2
<1>4. ASSUME NEW u, u # table, Waits(todo, u)
      PROVE  Waits(rest, u)
  BY <1>2, <1>4 DEF Waits
<1>5. ASSUME NEW u, Waits(rest, u)
      PROVE  Waits(todo, u)
  BY <1>2, <1>5 DEF Waits
<1>6. ASSUME b = table, Waits(rest, a)
      PROVE  FALSE
  <2>1. PICK j \in 1..Len(todo) : a \in todo[j]
    BY <1>5, <1>6 DEF Waits
  <2>2. 1 \in 1..Len(todo) /\ b \in todo[1]
    BY <1>6, HeadTailProperties, <1>1
  <2>3. j < 1
    BY <2>1, <2>2 DEF InOrder
  <2> QED BY <1>1, <2>3
<1> QED BY <1>3, <1>4, <1>5, <1>6 DEF InOrder

\* A request is begun, reads one table more, or ends; no other step changes it.
LEMMA WhoAsks ==
  [Next]_vars => \/ request' = request \/ request' = None
                 \/ \E kind \in DOMAIN Plan, w \in Wallets : Ask(kind, w)
                 \/ \E table \in Tables : Read(table)
<1> USE DEF world, feed, pipeline, seen, Exit
<1>1. Boot \/ Connect \/ Step \/ FeedHealthy \/ StopFeed \/ Stop \/ Respond
        => request' = request \/ request' = None
  BY DEF Boot, Connect, Step, EmitOne, FeedHealthy, StopFeed, Stop, Respond
<1>2. ASSUME NEW w \in Strangers, Enlist(w) \/ Review(w)
      PROVE  request' = request \/ request' = None
  BY <1>2 DEF Enlist, Review
<1>3. ASSUME NEW t \in Trades, Land(t) \/ Handle(t) \/ Close(t)
      PROVE  request' = request \/ request' = None
  BY <1>3 DEF Land, Handle, Close, SaveScore, SaveSignal, Announce, Reject, SavePosition,
              Confirm, Rejects
<1>4. UNCHANGED vars => request' = request
  BY DEF vars
<1> QED BY <1>1, <1>2, <1>3, <1>4 DEF Next, Tables

\* Each plan that joins two tables reads the positions in a step before the other table.
LEMMA PlansInOrder ==
  ASSUME NEW kind \in DOMAIN Plan
  PROVE  /\ Plan[kind] \in Seq(SUBSET Tables)
         /\ kind \in Joins => /\ InOrder(Plan[kind], Held(kind), Joined(kind))
                              /\ Waits(Plan[kind], Held(kind)) /\ Waits(Plan[kind], Joined(kind))
<1>1. kind \in {"overview", "trades", "positions", "whales", "detail", "candidates"}
  BY DEF Plan
<1>2. CASE kind = "overview"
  <2>1. Plan[kind] = <<{"positions"}, {"signals"}, Statuses>>
    BY <1>2 DEF Plan
  <2> QED BY <1>2, <2>1 DEF InOrder, Waits, Held, Joined, Tables, Statuses
<1>3. CASE kind = "trades"
  <2>1. Plan[kind] = <<{"positions"}, {"signals"}>>
    BY <1>3 DEF Plan
  <2> QED BY <1>3, <2>1 DEF InOrder, Waits, Held, Joined, Tables, Statuses
<1>4. CASE kind = "positions"
  <2>1. Plan[kind] = <<{"open"}, {"signals"}>>
    BY <1>4 DEF Plan
  <2> QED BY <1>4, <2>1 DEF InOrder, Waits, Held, Joined, Tables, Statuses
<1>5. CASE kind = "whales"
  <2>1. Plan[kind] = <<{"list"}, {"positions"}, {"scores"}>>
    BY <1>5 DEF Plan
  <2> QED BY <1>5, <2>1 DEF InOrder, Waits, Held, Joined, Tables, Statuses
<1>6. CASE kind = "detail"
  <2>1. Plan[kind] = <<{"list", "scores", "positions"}, {"signals"}>>
    BY <1>6 DEF Plan
  <2> QED BY <1>6, <2>1 DEF InOrder, Waits, Held, Joined, Tables, Statuses
<1>7. CASE kind = "candidates"
  <2>1. Plan[kind] = <<{"pending"}, {"scores"}>>
    BY <1>7 DEF Plan
  <2> QED BY <1>7, <2>1 DEF Joins, Tables, Statuses
<1> QED BY <1>1, <1>2, <1>3, <1>4, <1>5, <1>6, <1>7

\* At the start nothing is asked.
LEMMA ReadsStart == Init => RequestTyped /\ ReadsInv
BY DEF Init, RequestTyped, ReadsInv

\* What Ask and Read do to the request, field by field.
LEMMA Asked ==
  ASSUME NEW kind, NEW w, Ask(kind, w), request' # None
  PROVE  /\ request' = [kind |-> request'.kind, todo |-> request'.todo, got |-> request'.got]
         /\ request'.kind = kind /\ request'.todo = Plan[kind]
         /\ DOMAIN request'.got = {"metrics", "wallet"}
         /\ kind = "overview" => request'.got.metrics = metrics
         /\ UNCHANGED <<next, by, stage, scores, signals, positions, metrics>>
BY DEF Ask, pipeline, feed, seen

\* A read drops its table from the rest of the plan and adds what the repository answers.
LEMMA WasRead ==
  ASSUME RequestTyped, NEW table \in Tables, Read(table)
  PROVE  /\ request # None
         /\ request' = [kind |-> request'.kind, todo |-> request'.todo, got |-> request'.got]
         /\ request'.kind = request.kind /\ request.kind \in DOMAIN Plan
         /\ request.todo \in Seq(SUBSET Tables) /\ request.todo # <<>>
         /\ table \in Head(request.todo)
         /\ request'.todo = Rest(request.todo, table)
         /\ DOMAIN request'.got = DOMAIN request.got \cup {table}
         /\ request'.got[table] = Answered(table)
         /\ \A r \in DOMAIN request.got : r # table => request'.got[r] = request.got[r]
         /\ UNCHANGED <<next, by, stage, scores, signals, positions, metrics>>
<1>1. request # None /\ table \in Head(request.todo) /\ request.todo # <<>>
      /\ UNCHANGED <<next, by, stage, scores, signals, positions, metrics>>
  BY DEF Read, pipeline, feed, seen
<1>2. /\ request.kind \in DOMAIN Plan /\ request.todo \in Seq(SUBSET Tables)
      /\ request = [kind |-> request.kind, todo |-> request.todo, got |-> request.got]
  BY <1>1 DEF RequestTyped
<1> DEFINE rest == Rest(request.todo, table)
           got == [r \in DOMAIN request.got \cup {table} |->
                     IF r = table THEN Answered(table) ELSE request.got[r]]
<1>3. request' = [request EXCEPT !.todo = rest, !.got = got]
  BY DEF Read, Rest
<1> HIDE DEF rest, got
<1>4. /\ request' = [kind |-> request.kind, todo |-> rest, got |-> got]
  BY <1>2, <1>3
<1>5. /\ DOMAIN got = DOMAIN request.got \cup {table} /\ got[table] = Answered(table)
      /\ \A r \in DOMAIN request.got : r # table => got[r] = request.got[r]
  BY DEF got
<1> QED BY <1>1, <1>2, <1>4, <1>5 DEF rest

\* Every step keeps the order of the reads still to come.
LEMMA ReadsStep ==
  ASSUME RequestTyped, ReadsInv, [Next]_vars
  PROVE  RequestTyped' /\ ReadsInv'
<1>1. CASE request' = request
  BY <1>1 DEF RequestTyped, ReadsInv
<1>2. CASE request' = None
  BY <1>2 DEF RequestTyped, ReadsInv
<1>3. ASSUME NEW kind \in DOMAIN Plan, NEW w \in Wallets, Ask(kind, w), request' # None
      PROVE  RequestTyped' /\ ReadsInv'
  <2>1. /\ request' = [kind |-> request'.kind, todo |-> request'.todo, got |-> request'.got]
        /\ request'.kind = kind /\ request'.todo = Plan[kind]
        /\ DOMAIN request'.got = {"metrics", "wallet"}
    BY <1>3, Asked
  <2>2. /\ Plan[kind] \in Seq(SUBSET Tables)
        /\ kind \in Joins => /\ InOrder(Plan[kind], Held(kind), Joined(kind))
                             /\ Waits(Plan[kind], Held(kind)) /\ Waits(Plan[kind], Joined(kind))
    BY <1>3, PlansInOrder
  <2>3. Joined(kind) \notin {"metrics", "wallet"}
    BY DEF Joined
  <2>4. RequestTyped'
    BY <1>3, <2>1, <2>2 DEF RequestTyped
  <2>5. ReadsInv'
    BY <2>1, <2>2, <2>3 DEF ReadsInv
  <2> QED BY <2>4, <2>5
<1>4. ASSUME NEW table \in Tables, Read(table)
      PROVE  RequestTyped' /\ ReadsInv'
  <2> DEFINE a == Held(request.kind)
             b == Joined(request.kind)
  <2>1. /\ request # None
        /\ request' = [kind |-> request'.kind, todo |-> request'.todo, got |-> request'.got]
        /\ request'.kind = request.kind /\ request.kind \in DOMAIN Plan
        /\ request.todo \in Seq(SUBSET Tables) /\ request.todo # <<>>
        /\ table \in Head(request.todo)
        /\ request'.todo = Rest(request.todo, table)
        /\ DOMAIN request'.got = DOMAIN request.got \cup {table}
    BY <1>4, WasRead
  <2>2. request'.todo \in Seq(SUBSET Tables)
    BY <2>1, ReadMoves
  <2>3. RequestTyped'
    BY <2>1, <2>2 DEF RequestTyped
  <2>4. ASSUME request.kind \in Joins
        PROVE  /\ InOrder(request'.todo, a, b)
               /\ a \in DOMAIN request'.got \/ Waits(request'.todo, a)
               /\ b \in DOMAIN request'.got \/ Waits(request'.todo, b)
               /\ b \in DOMAIN request'.got => ~ Waits(request'.todo, a)
    <3>1. /\ InOrder(request.todo, a, b)
          /\ a \in DOMAIN request.got \/ Waits(request.todo, a)
          /\ b \in DOMAIN request.got \/ Waits(request.todo, b)
          /\ b \in DOMAIN request.got => ~ Waits(request.todo, a)
      BY <2>1, <2>4 DEF ReadsInv
    <3> DEFINE todo == request.todo
               rest == request'.todo
    <3>3. /\ todo \in Seq(SUBSET Tables) /\ todo # <<>> /\ table \in Head(todo)
          /\ rest = Rest(todo, table)
          /\ InOrder(todo, a, b)
      BY <2>1, <3>1
    <3> HIDE DEF a, b, todo, rest
    <3>4. /\ InOrder(rest, a, b)
          /\ \A u : u # table /\ Waits(todo, u) => Waits(rest, u)
          /\ \A u : Waits(rest, u) => Waits(todo, u)
          /\ b = table => ~ Waits(rest, a)
      BY <3>3, OrderKept
    <3>2. /\ InOrder(request'.todo, a, b)
          /\ \A u : u # table /\ Waits(request.todo, u) => Waits(request'.todo, u)
          /\ \A u : Waits(request'.todo, u) => Waits(request.todo, u)
          /\ b = table => ~ Waits(request'.todo, a)
      BY <3>4 DEF todo, rest
    <3> QED BY <2>1, <3>1, <3>2
  <2>5. ReadsInv'
    BY <2>1, <2>4 DEF ReadsInv
  <2> QED BY <2>3, <2>5
<1> QED BY <1>1, <1>2, <1>3, <1>4, WhoAsks
-----------------------------------------------------------------------------
(* What was read stays true of what is stored, as tables only grow.        *)

\* Who is held has a position.
HeldKept ==
  request # None /\ request.kind \in Joins /\ Held(request.kind) \in DOMAIN request.got =>
    \A t \in DOMAIN request.got[Held(request.kind)] : t \in Trades /\ positions[t] # None

\* A signal that was found is the one stored.
SignalsKept ==
  request # None /\ "signals" \in DOMAIN request.got =>
    \A t \in Trades : /\ request.got["signals"][t] \in Buckets \cup {None}
                      /\ request.got["signals"][t] # None => signals[t] = request.got["signals"][t]

\* Who is held finds what it is joined with.
JoinKept ==
  request # None /\ request.kind \in Joins /\ {Held(request.kind), Joined(request.kind)} \subseteq DOMAIN request.got =>
    \A t \in DOMAIN request.got[Held(request.kind)] :
      IF request.kind = "whales" THEN by[t] \in request.got["scores"]
      ELSE request.got["signals"][t] # None

\* The counters of an overview fit each other, and the positions read after them.
TotalsKept ==
  request # None /\ request.kind = "overview" =>
    /\ "metrics" \in DOMAIN request.got
    /\ LET m == request.got["metrics"]
       IN /\ m.confirmed \in Nat /\ m.rejected \in Nat /\ m.generated \in Nat
          /\ m.rejected + m.confirmed <= m.generated /\ m.confirmed <= metrics.confirmed
          /\ "positions" \in DOMAIN request.got =>
               m.confirmed <= Cardinality(DOMAIN request.got["positions"])

AnswerInv == HeldKept /\ SignalsKept /\ JoinKept /\ TotalsKept

\* What the repositories answer of what is stored.
LEMMA AnswerOf ==
  ASSUME PipelineInv
  PROVE  /\ Answered("signals") = signals /\ Answered("scores") = scores
         /\ \A table \in {"positions", "open"} : \A t \in DOMAIN Answered(table) :
              /\ t \in Trades /\ positions[t] # None
              /\ t < next /\ by[t] \in Wallets /\ by[t] \in scores /\ signals[t] # None
         /\ DOMAIN Answered("positions") = {t \in Trades : positions[t] # None}
<1>1. Answered("signals") = signals /\ Answered("scores") = scores
  BY DEF Answered
<1>2. /\ DOMAIN Answered("positions") = Stored({"open", "won", "lost"})
      /\ DOMAIN Answered("open") = Stored({"open"})
  BY DEF Answered
<1>3. None \notin Results
  BY DashboardApiAssumption DEF Results
<1>4. Stored({"open", "won", "lost"}) = {t \in Trades : positions[t] # None}
  BY <1>3 DEF Stored, PipelineInv, Results
<1>5. \A t \in Stored({"open"}) : t \in Trades /\ positions[t] # None
  BY <1>3 DEF Stored, Results
<1>6. ASSUME NEW t \in Trades, positions[t] # None
      PROVE  t < next /\ by[t] \in Wallets /\ by[t] \in scores /\ signals[t] # None
  <2>1. stage[t] \in {"bought", "managed"}
    BY <1>6 DEF PipelineInv
  <2>2. t < next
    BY <2>1, TradesAreNumbers DEF PipelineInv
  <2> QED BY <2>1, <2>2 DEF PipelineInv
<1>7. ASSUME NEW table \in {"positions", "open"}, NEW t \in DOMAIN Answered(table)
      PROVE  /\ t \in Trades /\ positions[t] # None
             /\ t < next /\ by[t] \in Wallets /\ by[t] \in scores /\ signals[t] # None
  <2>1. t \in Trades /\ positions[t] # None
    BY <1>2, <1>4, <1>5, <1>7
  <2> QED BY <2>1, <1>6
<1> QED BY <1>1, <1>2, <1>4, <1>7

\* Confirmed orders have managed positions.
LEMMA ConfirmedAreHeld ==
  ASSUME PipelineInv, CountsInv
  PROVE  metrics.confirmed <= Cardinality({t \in Trades : positions[t] # None})
<1>1. Managed \subseteq {t \in Trades : positions[t] # None}
  BY DEF Managed, PipelineInv
<1>2. IsFiniteSet({t \in Trades : positions[t] # None})
  BY TradesAreNumbers, FS_Subset
<1> QED BY <1>1, <1>2, FS_Subset DEF CountsInv

\* A confirmed order stays confirmed.
LEMMA ConfirmedGrow ==
  ASSUME PipelineInv, CountsInv, TablesGrow, CountsInv'
  PROVE  metrics.confirmed \in Nat /\ metrics'.confirmed \in Nat
         /\ metrics.confirmed <= metrics'.confirmed
<1>1. Managed \subseteq Managed'
  BY DEF Managed, TablesGrow
<1>2. IsFiniteSet(Managed) /\ IsFiniteSet(Managed')
  BY TradesAreNumbers, FS_Subset DEF Managed
<1>3. Cardinality(Managed) <= Cardinality(Managed') /\ Cardinality(Managed)' = Cardinality(Managed')
  BY <1>1, <1>2, FS_Subset
<1> QED BY <1>3 DEF CountsInv, MetricsTyped

\* At the start nothing is read.
LEMMA AnswerStarts == Init => AnswerInv
BY DEF Init, AnswerInv, HeldKept, SignalsKept, JoinKept, TotalsKept

\* Whatever the handlers do, what a request holds stays true.
LEMMA AnswerStays ==
  ASSUME PipelineInv, CountsInv, CountsInv', TablesGrow, AnswerInv, UNCHANGED request
  PROVE  AnswerInv'
<1>1. HeldKept'
  BY DEF AnswerInv, HeldKept, TablesGrow
<1>2. SignalsKept'
  BY DEF AnswerInv, SignalsKept, TablesGrow
<1>3. JoinKept'
  <2> SUFFICES ASSUME request # None, request.kind \in Joins,
                      {Held(request.kind), Joined(request.kind)} \subseteq DOMAIN request.got,
                      NEW t \in DOMAIN request.got[Held(request.kind)]
               PROVE  IF request.kind = "whales" THEN by'[t] \in request.got["scores"]
                      ELSE request.got["signals"][t] # None
    BY DEF JoinKept
  <2>1. IF request.kind = "whales" THEN by[t] \in request.got["scores"]
        ELSE request.got["signals"][t] # None
    BY DEF AnswerInv, JoinKept
  <2>2. t \in Trades /\ positions[t] # None
    BY DEF AnswerInv, HeldKept
  <2>3. by[t] \in Wallets /\ t < next
    <3>1. stage[t] \in {"bought", "managed"}
      BY <2>2 DEF PipelineInv
    <3>2. t < next
      BY <2>2, <3>1, TradesAreNumbers DEF PipelineInv
    <3> QED BY <2>2, <3>2 DEF PipelineInv
  <2>4. by'[t] = by[t]
    BY <2>2, <2>3 DEF TablesGrow
  <2> QED BY <2>1, <2>4
<1>4. TotalsKept'
  <2>1. metrics.confirmed \in Nat /\ metrics'.confirmed \in Nat
        /\ metrics.confirmed <= metrics'.confirmed
    BY ConfirmedGrow
  <2> QED BY <2>1 DEF AnswerInv, TotalsKept
<1> QED BY <1>1, <1>2, <1>3, <1>4 DEF AnswerInv

\* A new request holds no table yet; an overview holds counters that fit each other.
LEMMA AnswerAsked ==
  ASSUME CountsInv, NEW kind \in DOMAIN Plan, NEW w, Ask(kind, w), request' # None
  PROVE  AnswerInv'
<1>1. /\ request'.kind = kind /\ DOMAIN request'.got = {"metrics", "wallet"}
      /\ kind = "overview" => request'.got.metrics = metrics
      /\ UNCHANGED metrics
  BY Asked
<1>2. Held(kind) \notin {"metrics", "wallet"}
  BY DEF Held
<1>3. HeldKept' /\ SignalsKept' /\ JoinKept'
  BY <1>1, <1>2 DEF HeldKept, SignalsKept, JoinKept
<1>4. Cardinality(Deciding) \in Nat
  BY TradesAreNumbers, FS_Subset, FS_CardinalityType DEF Deciding
<1>5. /\ metrics.confirmed \in Nat /\ metrics.rejected \in Nat /\ metrics.generated \in Nat
      /\ metrics.rejected + metrics.confirmed <= metrics.generated
  BY <1>4 DEF CountsInv, MetricsTyped
<1>6. TotalsKept'
  BY <1>1, <1>5 DEF TotalsKept
<1> QED BY <1>3, <1>6 DEF AnswerInv

\* A read adds what is stored now, and comes after what it is joined with.
LEMMA AnswerRead ==
  ASSUME PipelineInv, CountsInv, RequestTyped, ReadsInv, AnswerInv,
         NEW table \in Tables, Read(table)
  PROVE  AnswerInv'
<1>1. /\ request # None
      /\ request'.kind = request.kind /\ request.kind \in DOMAIN Plan
      /\ request.todo \in Seq(SUBSET Tables) /\ request.todo # <<>>
      /\ table \in Head(request.todo)
      /\ DOMAIN request'.got = DOMAIN request.got \cup {table}
      /\ request'.got[table] = Answered(table)
      /\ \A r \in DOMAIN request.got : r # table => request'.got[r] = request.got[r]
      /\ UNCHANGED <<next, by, stage, scores, signals, positions, metrics>>
  BY WasRead
<1>2. table \notin {"metrics", "wallet"}
  BY DEF Tables, Statuses
<1> DEFINE a == Held(request.kind)
           b == Joined(request.kind)
           g == request.got
           h == request'.got
<1>3. /\ a \in {"positions", "open"} /\ b \in {"signals", "scores"} /\ a # b
      /\ b = IF request.kind = "whales" THEN "scores" ELSE "signals"
  BY DEF Held, Joined
<1>4. /\ Answered("signals") = signals /\ Answered("scores") = scores
      /\ \A r \in {"positions", "open"} : \A t \in DOMAIN Answered(r) :
           /\ t \in Trades /\ positions[t] # None
           /\ t < next /\ by[t] \in Wallets /\ by[t] \in scores /\ signals[t] # None
      /\ DOMAIN Answered("positions") = {t \in Trades : positions[t] # None}
  BY AnswerOf
<1>5. Waits(request.todo, table)
  <2>1. 1 \in 1..Len(request.todo) /\ Head(request.todo) = request.todo[1]
    BY <1>1, HeadTailProperties
  <2> QED BY <1>1, <2>1 DEF Waits
<1> HIDE DEF a, b
<1>6. HeldKept'
  <2> SUFFICES ASSUME request.kind \in Joins, a \in DOMAIN h, NEW t \in DOMAIN h[a]
               PROVE  t \in Trades /\ positions[t] # None
    BY <1>1 DEF HeldKept, a
  <2>1. CASE a = table
    BY <1>1, <1>3, <1>4, <2>1
  <2>2. CASE a # table
    <3>1. a \in DOMAIN g /\ h[a] = g[a]
      BY <1>1, <2>2
    <3> QED BY <1>1, <3>1 DEF AnswerInv, HeldKept, a
  <2> QED BY <2>1, <2>2
<1>7. SignalsKept'
  <2> SUFFICES ASSUME "signals" \in DOMAIN h, NEW t \in Trades
               PROVE  /\ h["signals"][t] \in Buckets \cup {None}
                      /\ h["signals"][t] # None => signals[t] = h["signals"][t]
    BY <1>1 DEF SignalsKept
  <2>1. CASE table = "signals"
    BY <1>1, <1>4, <2>1 DEF PipelineInv
  <2>2. CASE table # "signals"
    <3>1. "signals" \in DOMAIN g /\ h["signals"] = g["signals"]
      BY <1>1, <2>2
    <3> QED BY <1>1, <3>1 DEF AnswerInv, SignalsKept
  <2> QED BY <2>1, <2>2
<1>8. JoinKept'
  <2> SUFFICES ASSUME request.kind \in Joins, a \in DOMAIN h, b \in DOMAIN h,
                      NEW t \in DOMAIN h[a]
               PROVE  IF request.kind = "whales" THEN by[t] \in h["scores"]
                      ELSE h["signals"][t] # None
    BY <1>1 DEF JoinKept, a, b
  <2>1. CASE b = table
    <3>1. a \in DOMAIN g /\ h[a] = g[a]
      BY <1>1, <1>3, <2>1
    <3>2. t \in Trades /\ positions[t] # None
      BY <1>1, <3>1 DEF AnswerInv, HeldKept, a
    <3>3. t \in DOMAIN Answered("positions")
      BY <1>4, <3>2
    <3>4. by[t] \in scores /\ signals[t] # None
      BY <1>4, <3>3
    <3> QED BY <1>1, <1>3, <1>4, <2>1, <3>4
  <2>2. CASE b # table
    <3>1. b \in DOMAIN g /\ h[b] = g[b]
      BY <1>1, <2>2
    <3>2. a # table
      BY <1>1, <1>5, <3>1 DEF ReadsInv, a, b
    <3>3. a \in DOMAIN g /\ h[a] = g[a]
      BY <1>1, <3>2
    <3>4. IF request.kind = "whales" THEN by[t] \in g["scores"] ELSE g["signals"][t] # None
      BY <1>1, <3>1, <3>3 DEF AnswerInv, JoinKept, a, b
    <3> QED BY <1>3, <3>1, <3>4
  <2> QED BY <2>1, <2>2
<1>9. TotalsKept'
  <2> SUFFICES ASSUME request.kind = "overview"
               PROVE  /\ "metrics" \in DOMAIN h
                      /\ LET m == h["metrics"]
                         IN /\ m.confirmed \in Nat /\ m.rejected \in Nat /\ m.generated \in Nat
                            /\ m.rejected + m.confirmed <= m.generated
                            /\ m.confirmed <= metrics.confirmed
                            /\ "positions" \in DOMAIN h =>
                                 m.confirmed <= Cardinality(DOMAIN h["positions"])
    BY <1>1 DEF TotalsKept
  <2> DEFINE m == g["metrics"]
  <2>1. /\ "metrics" \in DOMAIN g
        /\ m.confirmed \in Nat /\ m.rejected \in Nat /\ m.generated \in Nat
        /\ m.rejected + m.confirmed <= m.generated /\ m.confirmed <= metrics.confirmed
        /\ "positions" \in DOMAIN g => m.confirmed <= Cardinality(DOMAIN g["positions"])
    BY <1>1 DEF AnswerInv, TotalsKept
  <2>2. "metrics" \in DOMAIN h /\ h["metrics"] = m
    BY <1>1, <1>2, <2>1
  <2>3. ASSUME "positions" \in DOMAIN h
        PROVE  m.confirmed <= Cardinality(DOMAIN h["positions"])
    <3>1. CASE table = "positions"
      <4>1. DOMAIN h["positions"] = {t \in Trades : positions[t] # None}
        BY <1>1, <1>4, <3>1
      <4>2. metrics.confirmed <= Cardinality(DOMAIN h["positions"])
        BY <4>1, ConfirmedAreHeld
      <4>3. metrics.confirmed \in Nat /\ Cardinality(DOMAIN h["positions"]) \in Nat
        <5>1. IsFiniteSet(DOMAIN h["positions"])
          BY <4>1, TradesAreNumbers, FS_Subset
        <5> QED BY <5>1, FS_CardinalityType DEF CountsInv, MetricsTyped
      <4> QED BY <2>1, <4>2, <4>3
    <3>2. CASE table # "positions"
      BY <1>1, <2>1, <2>3, <3>2
    <3> QED BY <3>1, <3>2
  <2> QED BY <2>1, <2>2, <2>3
<1> QED BY <1>6, <1>7, <1>8, <1>9 DEF AnswerInv

\* All of it together.
ViewInv == PipelineInv /\ CountsInv /\ LogInv /\ RequestTyped /\ ReadsInv /\ AnswerInv

\* ViewInv is inductive: the tables grow, the reads keep their order, so what was read fits.
LEMMA ViewInvariance == Spec => []ViewInv
<1>1. Init => ViewInv
  BY PipelineStarts, CountsStart, LogStarts, ReadsStart, AnswerStarts DEF ViewInv
<1>2. ViewInv /\ [Next]_vars => ViewInv'
  <2> SUFFICES ASSUME ViewInv, [Next]_vars PROVE ViewInv'
    OBVIOUS
  <2>1. PipelineInv /\ CountsInv /\ LogInv /\ RequestTyped /\ ReadsInv /\ AnswerInv
    BY DEF ViewInv
  <2>2. PipelineInv' /\ TablesGrow
    BY <2>1, PipelineStep
  <2>3. CountsInv'
    BY <2>1, CountsStep
  <2>4. LogInv'
    BY <2>1, LogStep DEF CountsInv
  <2>5. RequestTyped' /\ ReadsInv'
    BY <2>1, ReadsStep
  <2>6. AnswerInv'
    <3>1. CASE request' = request
      BY <2>1, <2>2, <2>3, <3>1, AnswerStays
    <3>2. CASE request' = None
      BY <3>2 DEF AnswerInv, HeldKept, SignalsKept, JoinKept, TotalsKept
    <3>3. ASSUME NEW kind \in DOMAIN Plan, NEW w \in Wallets, Ask(kind, w), request' # None
          PROVE  AnswerInv'
      BY <2>1, <3>3, AnswerAsked
    <3>4. ASSUME NEW table \in Tables, Read(table)
          PROVE  AnswerInv'
      BY <2>1, <3>4, AnswerRead
    <3> QED BY <3>1, <3>2, <3>3, <3>4, WhoAsks
  <2> QED BY <2>2, <2>3, <2>4, <2>5, <2>6 DEF ViewInv
<1> QED BY <1>1, <1>2, PTL DEF Spec
-----------------------------------------------------------------------------
(* The rows.                                                               *)

\* A request that is answered has read both tables.
LEMMA BothRead ==
  ASSUME ViewInv, request # None, request.todo = <<>>, request.kind \in Joins
  PROVE  /\ Held(request.kind) \in DOMAIN request.got
         /\ Joined(request.kind) \in DOMAIN request.got
         /\ \A t \in DOMAIN request.got[Held(request.kind)] :
              /\ t \in Trades /\ positions[t] # None
              /\ IF request.kind = "whales" THEN by[t] \in request.got["scores"]
                 ELSE request.got["signals"][t] # None
<1>1. \A u : ~ Waits(request.todo, u)
  BY DEF Waits
<1>2. Held(request.kind) \in DOMAIN request.got /\ Joined(request.kind) \in DOMAIN request.got
  BY <1>1 DEF ViewInv, ReadsInv
<1> QED BY <1>2 DEF ViewInv, AnswerInv, HeldKept, JoinKept

\* Each row shows the score of one of the trades held.
LEMMA RowsScored ==
  ASSUME NEW held, NEW found, \A t \in DOMAIN held : found[t] # None
  PROVE  \A row \in TradeRows(held, found) : row.score # None
BY DEF TradeRows

\* An answer other than "none" is built from a request that has read all of its plan.
LEMMA AnsweredKind ==
  ASSUME ViewInv, Answer.kind \in DOMAIN Plan
  PROVE  /\ request # None /\ request.todo = <<>> /\ Answer = Build(request.kind, request.got)
         /\ Answer.kind = request.kind
<1>1. DOMAIN Plan = {"overview", "trades", "positions", "whales", "detail", "candidates"}
  BY DEF Plan
<1>2. request # None /\ request.todo = <<>> /\ Answer = Build(request.kind, request.got)
  BY <1>1 DEF Answer
<1>3. request.kind \in DOMAIN Plan
  BY <1>2 DEF ViewInv, RequestTyped
<1>4. Build(request.kind, request.got).kind = request.kind
  BY <1>1, <1>3 DEF Build, BuildOverview
<1> QED BY <1>2, <1>4

\* So each row finds what it is joined with (RowsComplete).
LEMMA RowsFollow ==
  ViewInv => RowsComplete
<1> SUFFICES ASSUME ViewInv PROVE RowsComplete
  OBVIOUS
<1> DEFINE g == request.got
<1>0. /\ DOMAIN Plan = {"overview", "trades", "positions", "whales", "detail", "candidates"}
      /\ Joins = {"overview", "trades", "positions", "whales", "detail"}
  BY DEF Plan, Joins
<1>1. ASSUME Answer.kind \in {"trades", "positions", "detail"}
      PROVE  \A row \in Answer.rows : row.score # None
  <2>1. /\ request # None /\ request.todo = <<>> /\ Answer = Build(request.kind, g)
        /\ request.kind \in {"trades", "positions", "detail"}
    BY <1>0, <1>1, AnsweredKind
  <2>2. \A t \in DOMAIN g[Held(request.kind)] : t \in Trades /\ g["signals"][t] # None
    BY <1>0, <2>1, BothRead
  <2> HIDE DEF g
  <2>3. CASE request.kind = "trades"
    <3> DEFINE newest == Newest(g.positions, RowLimit)
    <3>1. Answer.rows = TradeRows(newest, g.signals)
      BY <2>1, <2>3 DEF Build
    <3>2. \A t \in DOMAIN newest : g.signals[t] # None
      BY <2>2, <2>3 DEF Held, Newest, Restrict
    <3> HIDE DEF newest
    <3> QED BY <3>1, <3>2, RowsScored
  <2>4. CASE request.kind = "positions"
    <3>1. Answer.rows = TradeRows(g.open, g.signals)
      BY <2>1, <2>4 DEF Build
    <3>2. \A t \in DOMAIN g.open : g.signals[t] # None
      BY <2>2, <2>4 DEF Held
    <3> QED BY <3>1, <3>2, RowsScored
  <2>5. CASE request.kind = "detail"
    <3> DEFINE own == Restrict(g.positions, {t \in DOMAIN g.positions : by[t] = g.wallet})
    <3>1. Answer.rows = TradeRows(own, g.signals)
      BY <2>1, <2>5 DEF Build
    <3>2. \A t \in DOMAIN own : g.signals[t] # None
      BY <2>2, <2>5 DEF Held, Restrict
    <3> HIDE DEF own
    <3> QED BY <3>1, <3>2, RowsScored
  <2> QED BY <2>1, <2>3, <2>4, <2>5
<1>2. ASSUME Answer.kind = "whales", NEW w \in DOMAIN Answer.whales, Answer.whales[w].trades > 0
      PROVE  Answer.whales[w].scored
  <2>1. request # None /\ request.todo = <<>> /\ Answer = Build("whales", g) /\ request.kind = "whales"
    BY <1>0, <1>2, AnsweredKind
  <2>2. \A t \in DOMAIN g["positions"] : by[t] \in g["scores"]
    BY <1>0, <2>1, BothRead DEF Held
  <2> HIDE DEF g
  <2>3. Answer.whales = WhaleRows(g)
    BY <2>1 DEF Build
  <2> DEFINE own == {t \in DOMAIN g.positions : by[t] = w}
  <2>4. Answer.whales[w].trades = Cardinality(own) /\ Answer.whales[w].scored = (w \in g.scores)
    BY <1>2, <2>3 DEF WhaleRows
  <2>5. own # {}
    BY <1>2, <2>4, FS_EmptySet
  <2> QED BY <2>2, <2>4, <2>5
<1>3. ASSUME Answer.kind = "overview", NEW b \in {"weak", "strong"}
      PROVE  Answer.report.byStrength[b].trades <= Cardinality({t \in Trades : signals[t] = b})
  <2>1. request # None /\ request.todo = <<>> /\ Answer = Build("overview", g) /\ request.kind = "overview"
    BY <1>0, <1>3, AnsweredKind
  <2>2. /\ "signals" \in DOMAIN g
        /\ \A t \in DOMAIN g["positions"] : t \in Trades /\ g["signals"][t] # None
    BY <1>0, <2>1, BothRead DEF Held, Joined
  <2>3. \A t \in DOMAIN g["positions"] : signals[t] = g["signals"][t]
    BY <2>1, <2>2 DEF ViewInv, AnswerInv, SignalsKept
  <2> HIDE DEF g
  <2> DEFINE of == {t \in Closed(g.positions) : StrengthBucket(g.signals, t) = b}
  <2>4. Answer.report.byStrength[b].trades = Cardinality(of)
    BY <1>3, <2>1 DEF Build, BuildOverview, BuildReport, BucketStats
  <2>5. of \subseteq {t \in Trades : signals[t] = b}
    BY <2>2, <2>3 DEF Closed, StrengthBucket
  <2>6. IsFiniteSet({t \in Trades : signals[t] = b})
    BY TradesAreNumbers, FS_Subset
  <2> HIDE DEF of
  <2> QED BY <2>4, <2>5, <2>6, FS_Subset
<1> QED BY <1>1, <1>2, <1>3 DEF RowsComplete
-----------------------------------------------------------------------------
(* The sums.                                                               *)

\* The member that a fold takes first.
First(s) == CHOOSE x \in s : TRUE

Below == {pair \in Nat \X Nat : pair[1] < pair[2]}

\* What holds for zero and for the successor of whatever it holds for.
LEMMA EveryNumber ==
  ASSUME NEW G, 0 \in G, \A n \in Nat : n \in G => n + 1 \in G
  PROVE  Nat \subseteq G
<1> SUFFICES ASSUME Nat \ G # {} PROVE FALSE
  OBVIOUS
<1>1. IsWellFoundedOn(Below, Nat)
  BY NatLessThanWellFounded, Zenon DEF OpToRel, Below
<1>2. PICK m \in Nat \ G : \A n \in Nat \ G : <<n, m>> \notin Below
  <2>1. Nat \ G \subseteq Nat
    OBVIOUS
  <2> QED BY <1>1, <2>1, WFMin, Zenon
<1>3. m # 0 /\ m - 1 \in Nat /\ m - 1 < m /\ (m - 1) + 1 = m
  BY <1>2
<1>4. m - 1 \in G
  BY <1>2, <1>3 DEF Below
<1> QED BY <1>2, <1>3, <1>4

\* Finite induction the way a fold goes: what holds of the empty set, and of a subset
\* whenever it holds without the first member, holds of the whole.
LEMMA FoldKeeps ==
  ASSUME NEW S, IsFiniteSet(S), NEW K,
         {} \in K,
         \A s \in SUBSET S : s # {} /\ s \ {First(s)} \in K => s \in K
  PROVE  \A s \in SUBSET S : s \in K
<1> DEFINE G == {n \in Nat : \A s \in SUBSET S : Cardinality(s) = n => s \in K}
<1>1. \A s \in SUBSET S : IsFiniteSet(s) /\ Cardinality(s) \in Nat
  BY FS_Subset, FS_CardinalityType
<1>2. 0 \in G
  BY <1>1, FS_EmptySet
<1>3. ASSUME NEW n \in Nat, n \in G PROVE n + 1 \in G
  <2>0. n + 1 \in Nat /\ n + 1 # 0
    OBVIOUS
  <2> SUFFICES ASSUME NEW s \in SUBSET S, Cardinality(s) = n + 1 PROVE s \in K
    BY <2>0
  <2> DEFINE r == s \ {First(s)}
  <2>1. s # {}
    BY <2>0, FS_EmptySet
  <2>2. First(s) \in s
    BY <2>1, Zenon DEF First
  <2>3. r \in SUBSET S /\ Cardinality(r) = n
    <3>1. Cardinality(r) = Cardinality(s) - 1
      BY <1>1, <2>2, FS_RemoveElement
    <3> QED BY <3>1
  <2>4. r \in K
    BY <1>3, <2>3
  <2> QED BY <2>1, <2>4
<1>4. ASSUME NEW s \in SUBSET S PROVE s \in K
  <2> HIDE DEF G
  <2>1. Nat \subseteq G
    BY <1>2, <1>3, EveryNumber
  <2>2. Cardinality(s) \in G
    BY <1>1, <2>1
  <2> QED BY <2>2 DEF G
<1> QED BY <1>4

\* One figure of a report's breakdown, summed.
SumOf(buckets, f) == MapThenSumSet(LAMBDA b : buckets[b][f], DOMAIN buckets)

Measures(M, buckets, f) ==
  /\ M = [s \in SUBSET DOMAIN buckets |-> M[s]]
  /\ M[{}] = 0
  /\ \A s \in SUBSET DOMAIN buckets :
       s # {} => M[s] = buckets[First(s)][f] + M[s \ {First(s)}]

\* A measure of sets that starts at zero and grows by each member's value is the sum of
\* the values: it is the function that the sum is defined by.
LEMMA SumIsMeasure ==
  ASSUME NEW buckets, IsFiniteSet(DOMAIN buckets), NEW f, NEW M,
         Measures(M, buckets, f)
  PROVE  SumOf(buckets, f) = M[DOMAIN buckets]
<1> DEFINE S == DOMAIN buckets
           Fits(g) == g = [s \in SUBSET S |->
                           IF s = {} THEN 0
                           ELSE buckets[CHOOSE x \in s : TRUE][f] + g[s \ {CHOOSE x \in s : TRUE}]]
           g0 == CHOOSE g : Fits(g)
<1>1. SumOf(buckets, f) = g0[S]
  BY DEF SumOf, MapThenSumSet, MapThenFoldSet
<1>2. Fits(M)
  <2>1. \A s \in SUBSET S : M[s] = IF s = {} THEN 0
                                   ELSE buckets[CHOOSE x \in s : TRUE][f] + M[s \ {CHOOSE x \in s : TRUE}]
    BY DEF First, Measures
  <2>2. M = [s \in SUBSET S |-> M[s]]
    BY DEF Measures
  <2> QED BY <2>1, <2>2
<1>3. Fits(g0)
  <2> HIDE DEF Fits
  <2> QED BY <1>2
<1> HIDE DEF g0
<1>4. \A s \in SUBSET S : g0[s] = IF s = {} THEN 0 ELSE buckets[First(s)][f] + g0[s \ {First(s)}]
  BY <1>3 DEF First
<1> DEFINE K == {s \in SUBSET S : g0[s] = M[s]}
<1>5. {} \in K
  BY <1>4 DEF Measures
<1>6. \A s \in SUBSET S : s # {} /\ s \ {First(s)} \in K => s \in K
  BY <1>4 DEF Measures
<1>7. S \in K
  <2>1. IsFiniteSet(S) /\ S \in SUBSET S
    OBVIOUS
  <2> HIDE DEF K, S
  <2> QED BY <1>5, <1>6, <2>1, FoldKeeps
<1> QED BY <1>1, <1>7

\* Each figure of a part is a number, nothing for the empty part, and adds up over two
\* parts that share no trade.
LEMMA PartsAddUp ==
  ASSUME NEW held, NEW X, NEW Y, IsFiniteSet(X), IsFiniteSet(Y), X \cap Y = {},
         NEW f \in {"trades", "wins", "pnl"}
  PROVE  /\ BucketStats(held, X \cup Y)[f] = BucketStats(held, X)[f] + BucketStats(held, Y)[f]
         /\ BucketStats(held, {})[f] = 0
<1> DEFINE Won(Z) == {t \in Z : held[t] = "won"}
           Lost(Z) == {t \in Z : held[t] = "lost"}
<1>1. \A Z : /\ BucketStats(held, Z).trades = Cardinality(Z)
             /\ BucketStats(held, Z).wins = Cardinality(Won(Z))
             /\ BucketStats(held, Z).pnl = Cardinality(Won(Z)) - Cardinality(Lost(Z))
  BY DEF BucketStats
<1>2. \A A, B : IsFiniteSet(A) /\ IsFiniteSet(B) /\ A \cap B = {} =>
        /\ Cardinality(A \cup B) = Cardinality(A) + Cardinality(B)
        /\ Cardinality(A) \in Nat /\ Cardinality(B) \in Nat
  <2> SUFFICES ASSUME NEW A, NEW B, IsFiniteSet(A), IsFiniteSet(B), A \cap B = {}
               PROVE  /\ Cardinality(A \cup B) = Cardinality(A) + Cardinality(B)
                      /\ Cardinality(A) \in Nat /\ Cardinality(B) \in Nat
    OBVIOUS
  <2>1. Cardinality(A) \in Nat /\ Cardinality(B) \in Nat
    BY FS_CardinalityType
  <2>3. Cardinality(A \cap B) = 0
    BY FS_EmptySet
  <2>2. Cardinality(A \cup B) = Cardinality(A) + Cardinality(B) - Cardinality(A \cap B)
    BY FS_Union
  <2> QED BY <2>1, <2>2, <2>3
<1>3. /\ Won(X \cup Y) = Won(X) \cup Won(Y) /\ Won(X) \cap Won(Y) = {}
      /\ Lost(X \cup Y) = Lost(X) \cup Lost(Y) /\ Lost(X) \cap Lost(Y) = {}
      /\ Won({}) = {} /\ Lost({}) = {}
  OBVIOUS
<1>4. /\ IsFiniteSet(Won(X)) /\ IsFiniteSet(Won(Y)) /\ IsFiniteSet(Lost(X)) /\ IsFiniteSet(Lost(Y))
  BY FS_Subset
<1>5. Cardinality({}) = 0
  BY FS_EmptySet
<1> HIDE DEF Won, Lost
<1>6. /\ Cardinality(X \cup Y) = Cardinality(X) + Cardinality(Y)
      /\ Cardinality(Won(X \cup Y)) = Cardinality(Won(X)) + Cardinality(Won(Y))
      /\ Cardinality(Lost(X \cup Y)) = Cardinality(Lost(X)) + Cardinality(Lost(Y))
      /\ Cardinality(Won(X)) \in Nat /\ Cardinality(Won(Y)) \in Nat
      /\ Cardinality(Lost(X)) \in Nat /\ Cardinality(Lost(Y)) \in Nat
  BY <1>2, <1>3, <1>4
<1>7. CASE f = "trades"
  BY <1>1, <1>5, <1>6, <1>7
<1>8. CASE f = "wins"
  BY <1>1, <1>3, <1>5, <1>6, <1>8
<1>9. CASE f = "pnl"
  <2>1. /\ BucketStats(held, X \cup Y)[f] = Cardinality(Won(X \cup Y)) - Cardinality(Lost(X \cup Y))
        /\ BucketStats(held, X)[f] = Cardinality(Won(X)) - Cardinality(Lost(X))
        /\ BucketStats(held, Y)[f] = Cardinality(Won(Y)) - Cardinality(Lost(Y))
        /\ BucketStats(held, {})[f] = Cardinality(Won({})) - Cardinality(Lost({}))
    BY <1>1, <1>9
  <2>2. BucketStats(held, {})[f] = 0
    BY <1>3, <1>5, <2>1
  <2>3. BucketStats(held, X \cup Y)[f] = BucketStats(held, X)[f] + BucketStats(held, Y)[f]
    BY <1>6, <2>1
  <2> QED BY <2>2, <2>3
<1> QED BY <1>7, <1>8, <1>9

\* A breakdown of closed trades by a key adds up to the figures of them all.
LEMMA SplitAddsUp ==
  ASSUME NEW held, NEW C, IsFiniteSet(C), NEW B, IsFiniteSet(B),
         NEW key, \A t \in C : key[t] \in B,
         NEW buckets, buckets = [b \in B |-> BucketStats(held, {t \in C : key[t] = b})],
         NEW f \in {"trades", "wins", "pnl"}
  PROVE  SumOf(buckets, f) = BucketStats(held, C)[f]
<1> DEFINE Part(s) == {t \in C : key[t] \in s}
           M == [s \in SUBSET B |-> BucketStats(held, Part(s))[f]]
<1>1. DOMAIN buckets = B /\ \A b \in B : buckets[b] = BucketStats(held, {t \in C : key[t] = b})
  OBVIOUS
<1>2. Part({}) = {} /\ Part(B) = C
  OBVIOUS
<1>3. \A s : IsFiniteSet(Part(s))
  BY FS_Subset
<1>4. ASSUME NEW s \in SUBSET B, s # {}
      PROVE  M[s] = buckets[First(s)][f] + M[s \ {First(s)}]
  <2> DEFINE x == First(s)
             one == {t \in C : key[t] = x}
             r == s \ {x}
  <2>1. x \in s /\ x \in B /\ r \in SUBSET B
    BY <1>4, Zenon DEF First
  <2> HIDE DEF x
  <2>2. Part(s) = one \cup Part(r) /\ one \cap Part(r) = {}
    BY <2>1
  <2>3. IsFiniteSet(one)
    BY FS_Subset
  <2>4. M[s] = BucketStats(held, Part(s))[f] /\ M[r] = BucketStats(held, Part(r))[f]
    BY <2>1
  <2>5. buckets[x][f] = BucketStats(held, one)[f]
    BY <1>1, <2>1
  <2> HIDE DEF one, r, Part, M
  <2>6. BucketStats(held, one \cup Part(r))[f] = BucketStats(held, one)[f] + BucketStats(held, Part(r))[f]
    BY <1>3, <2>2, <2>3, PartsAddUp
  <2>7. M[s] = buckets[x][f] + M[r]
    BY <2>2, <2>4, <2>5, <2>6
  <2> QED BY <2>7 DEF x, r
<1>5. M[{}] = 0
  <2>1. M[{}] = BucketStats(held, {})[f]
    BY <1>2
  <2>2. IsFiniteSet({})
    BY FS_EmptySet
  <2> HIDE DEF M
  <2> QED BY <2>1, <2>2, PartsAddUp
<1>6. M = [s \in SUBSET DOMAIN buckets |-> M[s]] /\ M[B] = BucketStats(held, C)[f]
  BY <1>1, <1>2
<1>7. IsFiniteSet(DOMAIN buckets)
  BY <1>1
<1>8. \A s \in SUBSET DOMAIN buckets : s # {} => M[s] = buckets[First(s)][f] + M[s \ {First(s)}]
  BY <1>1, <1>4
<1> HIDE DEF M
<1>9. SumOf(buckets, f) = M[DOMAIN buckets]
  <2>1. Measures(M, buckets, f)
    BY <1>5, <1>6, <1>8 DEF Measures
  <2> QED BY <1>7, <2>1, SumIsMeasure
<1> QED BY <1>1, <1>6, <1>9

\* So the numbers of an overview fit each other (OverviewAddsUp).
LEMMA TotalsFollow ==
  ViewInv => OverviewAddsUp
<1> SUFFICES ASSUME ViewInv, Answer.kind = "overview" PROVE OverviewAddsUp
  BY DEF OverviewAddsUp
<1> DEFINE g == request.got
           held == g["positions"]
           found == g["signals"]
           C == Closed(held)
<1>0. "overview" \in DOMAIN Plan /\ "overview" \in Joins
  BY DEF Plan, Joins
<1>1. request # None /\ request.todo = <<>> /\ Answer = Build("overview", g) /\ request.kind = "overview"
  BY <1>0, AnsweredKind
<1>2. /\ "positions" \in DOMAIN g /\ "signals" \in DOMAIN g
      /\ \A t \in DOMAIN held : t \in Trades /\ positions[t] # None /\ found[t] # None
  BY <1>0, <1>1, BothRead DEF Held, Joined
<1>3. \A t \in DOMAIN held : found[t] \in Buckets /\ by[t] \in Wallets
  <2> SUFFICES ASSUME NEW t \in DOMAIN held PROVE found[t] \in Buckets /\ by[t] \in Wallets
    OBVIOUS
  <2>1. t \in Trades /\ positions[t] # None /\ found[t] # None
    BY <1>2
  <2>2. found[t] \in Buckets
    BY <1>1, <1>2, <2>1 DEF ViewInv, AnswerInv, SignalsKept
  <2>3. stage[t] \in {"bought", "managed"}
    BY <2>1 DEF ViewInv, PipelineInv
  <2>4. t < next
    BY <2>1, <2>3, TradesAreNumbers DEF ViewInv, PipelineInv
  <2>5. by[t] \in Wallets
    BY <2>1, <2>4 DEF ViewInv, PipelineInv
  <2> QED BY <2>2, <2>5
<1>4. /\ g["metrics"].confirmed <= Cardinality(DOMAIN held)
      /\ g["metrics"].rejected + g["metrics"].confirmed <= g["metrics"].generated
  BY <1>1, <1>2 DEF ViewInv, AnswerInv, TotalsKept
<1> HIDE DEF g
<1>5. /\ Answer.metrics = g["metrics"] /\ Answer.total = Cardinality(DOMAIN held)
      /\ Answer.open = Cardinality(DOMAIN held \ C)
      /\ Answer.report = BuildReport(held, found)
  BY <1>1 DEF Build, BuildOverview
<1> HIDE DEF held, found
<1>6. /\ Answer.report.all = BucketStats(held, C)
      /\ Answer.report.byWallet = [w \in Wallets |-> BucketStats(held, {t \in C : by[t] = w})]
      /\ Answer.report.byStrength =
           [b \in {"weak", "strong"} |-> BucketStats(held, {t \in C : StrengthBucket(found, t) = b})]
  BY <1>5 DEF BuildReport
<1>7. C \subseteq DOMAIN held
  BY DEF Closed
<1>8. IsFiniteSet(DOMAIN held) /\ IsFiniteSet(C) /\ IsFiniteSet(Wallets) /\ IsFiniteSet({"weak", "strong"})
  <2>1. IsFiniteSet(DOMAIN held)
    BY <1>2, TradesAreNumbers, FS_Subset
  <2>2. IsFiniteSet(Wallets)
    BY DashboardApiAssumption, FS_Union DEF Wallets
  <2>3. IsFiniteSet({"weak"} \cup {"strong"})
    BY FS_Singleton, FS_AddElement
  <2>4. {"weak"} \cup {"strong"} = {"weak", "strong"}
    OBVIOUS
  <2> QED BY <1>7, <2>1, <2>2, <2>3, <2>4, FS_Subset
<1> HIDE DEF C
<1>9. Cardinality(DOMAIN held \ C) + Cardinality(C) = Cardinality(DOMAIN held)
  <2> DEFINE D == DOMAIN held
             O == D \ C
  <2>1. IsFiniteSet(O) /\ O \cup C = D /\ O \cap C = {}
    BY <1>7, <1>8, FS_Subset
  <2> HIDE DEF O, D
  <2>2. Cardinality(O \cup C) = Cardinality(O) + Cardinality(C) - Cardinality(O \cap C)
    BY <1>8, <2>1, FS_Union
  <2>3. Cardinality(O \cap C) = 0 /\ Cardinality(O) \in Nat /\ Cardinality(C) \in Nat
    BY <1>8, <2>1, FS_EmptySet, FS_CardinalityType
  <2>4. Cardinality(O) + Cardinality(C) = Cardinality(D)
    BY <2>1, <2>2, <2>3
  <2> QED BY <2>4 DEF O, D
<1>10. BucketStats(held, C).trades = Cardinality(C)
  BY DEF BucketStats
<1>11. ASSUME NEW f \in {"trades", "wins", "pnl"}
       PROVE  SumOf(Answer.report.byWallet, f) = Answer.report.all[f]
  <2> DEFINE buckets == Answer.report.byWallet
  <2>1. buckets = [w \in Wallets |-> BucketStats(held, {t \in C : by[t] = w})]
    BY <1>6
  <2>2. \A t \in C : by[t] \in Wallets
    BY <1>3, <1>7
  <2> HIDE DEF buckets
  <2>3. SumOf(buckets, f) = BucketStats(held, C)[f]
    BY <1>8, <2>1, <2>2, SplitAddsUp
  <2>4. SumOf(buckets, f) = Answer.report.all[f]
    BY <1>6, <2>3
  <2> QED BY <2>4 DEF buckets
<1>12. ASSUME NEW f \in {"trades", "wins", "pnl"}
       PROVE  SumOf(Answer.report.byStrength, f) = Answer.report.all[f]
  <2> DEFINE buckets == Answer.report.byStrength
             key == [t \in C |-> StrengthBucket(found, t)]
  <2>1. \A t \in C : key[t] = StrengthBucket(found, t) /\ key[t] \in {"weak", "strong"}
    BY <1>3, <1>7 DEF StrengthBucket, Buckets
  <2> HIDE DEF key
  <2>2. \A b : {t \in C : StrengthBucket(found, t) = b} = {t \in C : key[t] = b}
    BY <2>1
  <2>3. buckets = [b \in {"weak", "strong"} |-> BucketStats(held, {t \in C : key[t] = b})]
    BY <1>6, <2>2
  <2> HIDE DEF buckets
  <2>4. SumOf(buckets, f) = BucketStats(held, C)[f]
    <3> DEFINE B == {"weak", "strong"}
    <3>1. IsFiniteSet(B) /\ (\A t \in C : key[t] \in B)
          /\ buckets = [b \in B |-> BucketStats(held, {t \in C : key[t] = b})]
      BY <1>8, <2>1, <2>3
    <3> HIDE DEF B
    <3> QED BY <1>8, <3>1, SplitAddsUp
  <2>5. SumOf(buckets, f) = Answer.report.all[f]
    BY <1>6, <2>4
  <2> QED BY <2>5 DEF buckets
<1> QED BY <1>4, <1>5, <1>6, <1>9, <1>10, <1>11, <1>12 DEF OverviewAddsUp, SumOf

-----------------------------------------------------------------------------
\* A row of an answer finds the signal or the score that was saved before its position,
\* however the handlers run between the awaits of the request (aggregate.ts reads the
\* positions first, and the handlers save the signal first).
THEOREM RowsAreComplete == Spec => []RowsComplete
BY ViewInvariance, RowsFollow, PTL

\* The numbers of an overview fit each other although they are read at different times:
\* the counters first, then the positions, and the report is built from one reading.
THEOREM OverviewsAddUp == Spec => []OverviewAddsUp
BY ViewInvariance, TotalsFollow, PTL

\* The recent signals are announced after they are saved and rejected after they are
\* announced, the ring drops its oldest entry only, and the page is given the newest.
THEOREM SignalFeedsAreOrdered == Spec => []SignalFeedInOrder
<1>1. ViewInv => SignalFeedInOrder
  BY LogShown DEF ViewInv, CountsInv
<1> QED BY ViewInvariance, <1>1, PTL
=============================================================================
