----------------------- MODULE WatchlistDiscoveryProofs -----------------------
(***************************************************************************)
(* For every set of wallets, links and bounds: discovery lets at most one  *)
(* of two linked wallets through, a stored decision of the operator is in  *)
(* force once everything is answered, and overlapping handlers announce a  *)
(* wallet no more often than they overlap.                                 *)
(***************************************************************************)
EXTENDS WatchlistDiscovery, FiniteSetTheorems, TLAPS

\* A wallet that discovery has let through, or is about to.
Passing(w) ==
  \/ LetThrough(w)
  \/ \E t \in Handlers : /\ handler[t].pc = "detecting"
                         /\ handler[t].wallet = w /\ handler[t].verdict # "rejected"

\* Such a wallet can be found by whoever is judged next, and no wallet linked with
\* it is passing as well.
PassingIsKnown == \A w \in Wallets : Passing(w) => w \in traded \cap funderKnown
PassingIsAlone ==
  \A a, b \in Wallets : <<a, b>> \in Linked => ~(Passing(a) /\ Passing(b))

\* What is stored between the two writes of a command.
OrderStored ==
  command.pc = "saved" /\ repo[command.wallet].by = "operator"
    => repo[command.wallet] = [status |-> command.status, by |-> "operator"]

\* If a stored decision of the operator is not the one in force, a write that will
\* settle it is on its way: the command's own, or a handler's later one.
StoredOrPending ==
  \A w \in Wallets : repo[w].by = "operator" =>
    \/ index[w] = repo[w]
    \/ command.pc = "saved" /\ command.wallet = w
    \/ \E t \in Handlers : handler[t].pc = "saving" /\ handler[t].wallet = w

\* Handlers start in the order of the trades.
LaterHandlersFree == \A t \in Handlers : t > emitted => handler[t].pc = "none"

IInv == /\ TypeOK /\ LaterHandlersFree
        /\ PassingIsKnown /\ PassingIsAlone
        /\ OrderStored /\ StoredOrPending

\* The placeholder wallet is a wallet.
LEMMA SomeWalletType == SomeWallet \in Wallets
BY DiscoveryAssumption DEF SomeWallet

\* What a start of the process loads is well typed, and by nobody but the file.
LEMMA LoadedType ==
  /\ LoadedIndex \in [Wallets -> Entry]
  /\ \A w \in Wallets : LoadedIndex[w].by \in {"file", "nobody"}
BY DEF LoadedIndex, Entry, FromFile, Unstatused, Statuses

\* The placeholders are well typed.
LEMMA Placeholders == NoHandler \in Handler /\ NoCommand \in Command
BY SomeWalletType DEF NoHandler, NoCommand, Handler, Command, Statuses

\* The initial state satisfies the invariant.
LEMMA InitInvariant == Init => IInv
<1> SUFFICES ASSUME Init PROVE IInv
  OBVIOUS
<1>1. TypeOK
  <2>1. index \in [Wallets -> Entry] /\ repo \in [Wallets -> Entry]
    BY LoadedType DEF Init
  <2>2. handler \in [Handlers -> Handler] /\ command \in Command
    BY Placeholders DEF Init
  <2>3. notified \in [Wallets -> Nat]
    BY DEF Init
  <2>4. /\ traded \subseteq Wallets /\ deployerKnown \in BOOLEAN /\ funderKnown \subseteq traded
        /\ emitted \in 0..MaxTrades /\ commands \in 0..MaxCommands /\ restarts \in 0..MaxRestarts
    <3>1. MaxTrades \in Nat /\ MaxCommands \in Nat /\ MaxRestarts \in Nat
      BY DiscoveryAssumption
    <3>2. /\ traded = {} /\ funderKnown = {} /\ deployerKnown = FALSE
          /\ emitted = 0 /\ commands = 0 /\ restarts = 0
      BY DEF Init
    <3>3. deployerKnown \in BOOLEAN
      BY <3>2, Zenon
    <3> QED BY <3>1, <3>2, <3>3
  <2> QED BY <2>1, <2>2, <2>3, <2>4 DEF TypeOK
<1>2. \A t \in Handlers : handler[t].pc = "none"
  BY DEF Init, NoHandler
<1>3. \A w \in Wallets : index[w].by \in {"file", "nobody"} /\ repo[w].by \in {"file", "nobody"}
  BY LoadedType DEF Init
<1>4. PassingIsKnown /\ PassingIsAlone
  BY <1>2, <1>3, DiscoveryAssumption DEF PassingIsKnown, PassingIsAlone, Passing, LetThrough
<1>5. OrderStored /\ StoredOrPending /\ LaterHandlersFree
  BY <1>2, <1>3 DEF OrderStored, StoredOrPending, LaterHandlersFree, Init, NoCommand
<1> QED BY <1>1, <1>4, <1>5 DEF IInv

\* A step that lets no further wallet pass and forgets no trade or lookup keeps the
\* first half of the invariant.
LEMMA PassingKeeps ==
  ASSUME PassingIsKnown, PassingIsAlone,
         traded \subseteq traded', funderKnown \subseteq funderKnown',
         \A w \in Wallets : Passing(w)' => Passing(w)
  PROVE  PassingIsKnown' /\ PassingIsAlone'
<1>1. PassingIsKnown'
  BY DEF PassingIsKnown
<1>2. PassingIsAlone'
  BY DiscoveryAssumption DEF PassingIsAlone
<1> QED BY <1>1, <1>2

\* A trade starts a handler that has done nothing yet.
LEMMA TradeKeeps ==
  ASSUME IInv, NEW w \in Wallets, Trade(w)
  PROVE  IInv'
<1>0. TypeOK /\ LaterHandlersFree /\ PassingIsKnown /\ PassingIsAlone /\ OrderStored /\ StoredOrPending
  BY DEF IInv
<1> DEFINE n == emitted + 1
           h == [NoHandler EXCEPT !.pc = "queued", !.wallet = w]
<1>a. emitted \in Nat /\ n \in Handlers /\ emitted' = n /\ n \in 0..MaxTrades
  BY <1>0, DiscoveryAssumption DEF Trade, TypeOK, Handlers
<1>b. h \in Handler /\ h.pc = "queued"
  BY SomeWalletType DEF NoHandler, Handler, Statuses
<1>1. /\ emitted \in Nat /\ n \in Handlers /\ h \in Handler /\ h.pc = "queued"
      /\ emitted' = n /\ n \in 0..MaxTrades
  BY <1>a, <1>b
<1>2. /\ handler \in [Handlers -> Handler]
      /\ handler' = [handler EXCEPT ![n] = h]
      /\ index' = index /\ repo' = repo /\ command' = command
      /\ traded' = traded \cup {w} /\ funderKnown' = funderKnown
      /\ deployerKnown' = deployerKnown /\ notified' = notified
      /\ commands' = commands /\ restarts' = restarts
  BY <1>0 DEF Trade, TypeOK, lookups, counts
<1>3. handler[n].pc = "none"
  BY <1>0, <1>1 DEF LaterHandlersFree
<1> HIDE DEF h
<1>4. TypeOK'
  BY <1>0, <1>1, <1>2 DEF TypeOK
<1>5. /\ handler'[n] = h
      /\ \A t \in Handlers : t # n => handler'[t] = handler[t]
  BY <1>1, <1>2
<1>6. LaterHandlersFree'
  BY <1>0, <1>1, <1>5 DEF LaterHandlersFree, Handlers
<1>7. \A v \in Wallets : Passing(v)' => Passing(v)
  BY <1>1, <1>2, <1>5 DEF Passing, LetThrough
<1>8. PassingIsKnown' /\ PassingIsAlone'
  BY <1>0, <1>2, <1>7, PassingKeeps
<1>9. OrderStored' /\ StoredOrPending'
  BY <1>0, <1>2, <1>3, <1>5 DEF OrderStored, StoredOrPending
<1> QED BY <1>4, <1>6, <1>8, <1>9 DEF IInv

\* A lookup that lands only adds to what is known.
LEMMA LookupKeeps ==
  ASSUME IInv, LearnDeployer \/ \E w \in Wallets : LearnFunder(w)
  PROVE  IInv'
<1>0. TypeOK /\ LaterHandlersFree /\ PassingIsKnown /\ PassingIsAlone /\ OrderStored /\ StoredOrPending
  BY DEF IInv
<1>1. /\ UNCHANGED <<index, repo, traded, emitted, handler, command, counts, notified>>
      /\ funderKnown \subseteq funderKnown' /\ funderKnown' \subseteq traded
      /\ deployerKnown' \in BOOLEAN
  BY <1>0 DEF LearnDeployer, LearnFunder, TypeOK
<1>2. TypeOK'
  BY <1>0, <1>1 DEF TypeOK, counts
<1>3. PassingIsKnown' /\ PassingIsAlone'
  <2>1. \A v \in Wallets : Passing(v)' => Passing(v)
    BY <1>1 DEF Passing, LetThrough
  <2> QED BY <1>0, <1>1, <2>1, PassingKeeps
<1>4. LaterHandlersFree' /\ OrderStored' /\ StoredOrPending'
  BY <1>0, <1>1 DEF LaterHandlersFree, OrderStored, StoredOrPending
<1> QED BY <1>2, <1>3, <1>4 DEF IInv

\* What a step of handler t leaves alone.
LEMMA HandlerFrame ==
  ASSUME TypeOK, NEW t \in Handlers, NEW h \in Handler,
         handler' = [handler EXCEPT ![t] = h]
  PROVE  /\ handler' \in [Handlers -> Handler]
         /\ handler'[t] = h
         /\ \A u \in Handlers : u # t => handler'[u] = handler[u]
BY DEF TypeOK

\* A verdict: a candidate that is let through is linked with nobody passing.
LEMMA EvaluateKeeps ==
  ASSUME IInv, NEW t \in Handlers, NEW timing \in BOOLEAN, Evaluate(t, timing)
  PROVE  IInv'
<1>0. TypeOK /\ LaterHandlersFree /\ PassingIsKnown /\ PassingIsAlone /\ OrderStored /\ StoredOrPending
  BY DEF IInv
<1> DEFINE w == handler[t].wallet
           v == IF timing \/ LinkFound(w) THEN "rejected"
                ELSE IF AutoPromote THEN "active" ELSE "pending"
           h == [handler[t] EXCEPT !.pc = "detecting", !.verdict = v]
<1>1. /\ handler[t] \in Handler /\ w \in Wallets /\ handler[t].pc = "queued"
      /\ v \in Statuses
      /\ v # "rejected" => ~LinkFound(w)
  BY <1>0 DEF TypeOK, Evaluate, Handler, Statuses
<1>2. h \in Handler /\ h.pc = "detecting" /\ h.verdict = v /\ h.wallet = w
  BY <1>1 DEF Handler, Statuses
<1>3. /\ handler' = [handler EXCEPT ![t] = h]
      /\ UNCHANGED <<index, repo, traded, lookups, emitted, command, counts, notified>>
      /\ RelationshipDataKnown(w)
  BY <1>0 DEF Evaluate, Judge, TypeOK
<1> HIDE DEF h, v
<1>4. /\ handler' \in [Handlers -> Handler]
      /\ handler'[t] = h
      /\ \A u \in Handlers : u # t => handler'[u] = handler[u]
  BY <1>0, <1>2, <1>3, HandlerFrame
<1>5. TypeOK'
  BY <1>0, <1>3, <1>4 DEF TypeOK, lookups, counts
<1>6. w \in traded \cap funderKnown
  BY <1>0, <1>3 DEF RelationshipDataKnown, TypeOK
<1>7. ASSUME NEW a \in Wallets, Passing(a)', ~Passing(a)
      PROVE  a = w /\ v # "rejected"
  BY <1>2, <1>3, <1>4, <1>7 DEF Passing, LetThrough
<1>8. PassingIsKnown'
  BY <1>0, <1>3, <1>6, <1>7 DEF PassingIsKnown, lookups
<1>9. PassingIsAlone'
  <2> SUFFICES ASSUME NEW a \in Wallets, NEW b \in Wallets, <<a, b>> \in Linked,
                      Passing(a)', Passing(b)'
               PROVE  FALSE
    BY DEF PassingIsAlone
  <2>1. a # b /\ <<b, a>> \in Linked
    BY DiscoveryAssumption
  <2>2. ASSUME NEW x \in Wallets, NEW y \in Wallets, <<x, y>> \in Linked, <<y, x>> \in Linked,
               Passing(x), ~Passing(y), Passing(y)'
        PROVE  FALSE
    <3>1. y = w /\ v # "rejected"
      BY <2>2, <1>7
    <3>2. x \in traded \cap funderKnown
      BY <2>2, <1>0 DEF PassingIsKnown
    <3>3. LinkFound(w)
      BY <3>1, <3>2, <2>2, <1>6 DEF LinkFound, EdgeFound
    <3> QED BY <3>1, <3>3, <1>1
  <2>3. CASE Passing(a) /\ Passing(b)
    BY <2>3, <1>0 DEF PassingIsAlone
  <2>4. CASE Passing(a) /\ ~Passing(b)
    BY <2>1, <2>2, <2>4
  <2>5. CASE ~Passing(a) /\ Passing(b)
    BY <2>1, <2>2, <2>5
  <2>6. CASE ~Passing(a) /\ ~Passing(b)
    BY <2>1, <2>6, <1>7
  <2> QED BY <2>3, <2>4, <2>5, <2>6
<1>10. LaterHandlersFree'
  BY <1>0, <1>1, <1>3, <1>4 DEF LaterHandlersFree
<1>11. OrderStored' /\ StoredOrPending'
  BY <1>0, <1>1, <1>3, <1>4 DEF OrderStored, StoredOrPending
<1> QED BY <1>5, <1>8, <1>9, <1>10, <1>11 DEF IInv

\* The verdict reaches the index: the wallet passes as before, and the handler's
\* own write to the repository is still to come.
LEMMA SetStatusKeeps ==
  ASSUME IInv, NEW t \in Handlers, SetStatus(t)
  PROVE  IInv'
<1>0. TypeOK /\ LaterHandlersFree /\ PassingIsKnown /\ PassingIsAlone /\ OrderStored /\ StoredOrPending
  BY DEF IInv
<1> DEFINE w == handler[t].wallet
           e == [status |-> handler[t].verdict, by |-> "discovery"]
           h == [handler[t] EXCEPT !.pc = "saving"]
<1>1. /\ handler[t] \in Handler /\ w \in Wallets /\ handler[t].pc = "detecting"
      /\ index \in [Wallets -> Entry]
  BY <1>0 DEF TypeOK, SetStatus, Handler
<1>2. h \in Handler /\ h.pc = "saving" /\ h.wallet = w
  BY <1>1 DEF Handler
<1>3. /\ handler' = [handler EXCEPT ![t] = h]
      /\ index' = [index EXCEPT ![w] = e]
      /\ UNCHANGED <<repo, traded, lookups, emitted, command, counts, notified>>
  BY <1>0 DEF SetStatus, TypeOK
<1>v. handler[t].verdict \in Statuses
  BY <1>1 DEF Handler
<1> HIDE DEF h
<1>4. /\ handler' \in [Handlers -> Handler]
      /\ handler'[t] = h
      /\ \A u \in Handlers : u # t => handler'[u] = handler[u]
  BY <1>0, <1>2, <1>3, HandlerFrame
<1>5. e \in Entry
  BY <1>v DEF Entry
<1>6. e.by = "discovery" /\ e.status = handler[t].verdict
  OBVIOUS
<1> HIDE DEF e
<1>7. index' \in [Wallets -> Entry] /\ index'[w] = e
      /\ \A a \in Wallets : a # w => index'[a] = index[a]
  BY <1>1, <1>3, <1>5
<1>8. TypeOK'
  BY <1>0, <1>3, <1>4, <1>7 DEF TypeOK, lookups, counts
<1>9. \A a \in Wallets : Passing(a)' => Passing(a)
  BY <1>1, <1>2, <1>4, <1>6, <1>7 DEF Passing, LetThrough
<1>10. PassingIsKnown' /\ PassingIsAlone'
  BY <1>0, <1>3, <1>9, PassingKeeps DEF lookups
<1>11. LaterHandlersFree'
  BY <1>0, <1>1, <1>3, <1>4 DEF LaterHandlersFree
<1>12. OrderStored'
  BY <1>0, <1>3 DEF OrderStored
<1>13. StoredOrPending'
  BY <1>0, <1>1, <1>2, <1>3, <1>4, <1>7 DEF StoredOrPending
<1> QED BY <1>8, <1>10, <1>11, <1>12, <1>13 DEF IInv

\* The engine's write commits: what is stored for the wallet is discovery's own.
LEMMA CommitStatusKeeps ==
  ASSUME IInv, NEW t \in Handlers, CommitStatus(t)
  PROVE  IInv'
<1>0. TypeOK /\ LaterHandlersFree /\ PassingIsKnown /\ PassingIsAlone /\ OrderStored /\ StoredOrPending
  BY DEF IInv
<1> DEFINE w == handler[t].wallet
           e == [status |-> handler[t].verdict, by |-> "discovery"]
           h == [handler[t] EXCEPT !.pc = "saved"]
<1>1. /\ handler[t] \in Handler /\ w \in Wallets /\ handler[t].pc = "saving"
      /\ repo \in [Wallets -> Entry]
  BY <1>0 DEF TypeOK, CommitStatus, Handler
<1>2. h \in Handler /\ h.pc = "saved" /\ h.wallet = w
  BY <1>1 DEF Handler
<1>3. /\ handler' = [handler EXCEPT ![t] = h]
      /\ repo' = [repo EXCEPT ![w] = e]
      /\ UNCHANGED <<index, traded, lookups, emitted, command, counts, notified>>
  BY <1>0 DEF CommitStatus, TypeOK
<1>4. e \in Entry /\ e.by = "discovery"
  BY <1>1 DEF Entry, Handler
<1> HIDE DEF h, e
<1>5. /\ handler' \in [Handlers -> Handler]
      /\ handler'[t] = h
      /\ \A u \in Handlers : u # t => handler'[u] = handler[u]
  BY <1>0, <1>2, <1>3, HandlerFrame
<1>6. repo' \in [Wallets -> Entry] /\ repo'[w] = e
      /\ \A a \in Wallets : a # w => repo'[a] = repo[a]
  BY <1>1, <1>3, <1>4
<1>7. TypeOK'
  BY <1>0, <1>3, <1>5, <1>6 DEF TypeOK, lookups, counts
<1>8. PassingIsKnown' /\ PassingIsAlone'
  <2>1. \A a \in Wallets : Passing(a)' => Passing(a)
    BY <1>1, <1>2, <1>3, <1>5 DEF Passing, LetThrough
  <2> QED BY <1>0, <1>3, <2>1, PassingKeeps DEF lookups
<1>9. LaterHandlersFree'
  BY <1>0, <1>1, <1>3, <1>5 DEF LaterHandlersFree
<1>10. OrderStored'
  <2>1. command.wallet \in Wallets
    BY <1>0 DEF TypeOK, Command
  <2>2. CASE command.wallet = w
    BY <2>2, <1>3, <1>4, <1>6 DEF OrderStored
  <2>3. CASE command.wallet # w
    BY <2>1, <2>3, <1>0, <1>3, <1>6 DEF OrderStored
  <2> QED BY <2>2, <2>3
<1>11. StoredOrPending'
  <2> SUFFICES ASSUME NEW a \in Wallets, repo'[a].by = "operator"
               PROVE  \/ index'[a] = repo'[a]
                      \/ command'.pc = "saved" /\ command'.wallet = a
                      \/ \E u \in Handlers : handler'[u].pc = "saving" /\ handler'[u].wallet = a
    BY DEF StoredOrPending
  <2>1. a # w
    BY <1>4, <1>6
  <2>2. repo'[a] = repo[a]
    BY <2>1, <1>6
  <2> QED BY <2>1, <2>2, <1>0, <1>3, <1>5 DEF StoredOrPending
<1> QED BY <1>7, <1>8, <1>9, <1>10, <1>11 DEF IInv

\* A handler that ends, with an announcement or without, writes nothing more.
LEMMA EndKeeps ==
  ASSUME IInv, NEW t \in Handlers, Skip(t) \/ Announce(t)
  PROVE  IInv'
<1>0. TypeOK /\ LaterHandlersFree /\ PassingIsKnown /\ PassingIsAlone /\ OrderStored /\ StoredOrPending
  BY DEF IInv
<1> DEFINE h == [handler[t] EXCEPT !.pc = "done"]
<1>1. handler[t] \in Handler /\ handler[t].pc \in {"queued", "saved"}
  BY <1>0 DEF TypeOK, Skip, Announce
<1>2. h \in Handler /\ h.pc = "done" /\ h.wallet = handler[t].wallet
  BY <1>1 DEF Handler
<1>3. /\ handler' = [handler EXCEPT ![t] = h]
      /\ UNCHANGED <<index, repo, traded, lookups, emitted, command, counts>>
  BY <1>0 DEF Skip, Announce, TypeOK
<1>4. notified' \in [Wallets -> Nat]
  BY <1>0, <1>1 DEF Skip, Announce, TypeOK
<1> HIDE DEF h
<1>5. /\ handler' \in [Handlers -> Handler]
      /\ handler'[t] = h
      /\ \A u \in Handlers : u # t => handler'[u] = handler[u]
  BY <1>0, <1>2, <1>3, HandlerFrame
<1>6. TypeOK'
  BY <1>0, <1>3, <1>4, <1>5 DEF TypeOK, lookups, counts
<1>7. PassingIsKnown' /\ PassingIsAlone'
  <2>1. \A a \in Wallets : Passing(a)' => Passing(a)
    BY <1>1, <1>2, <1>3, <1>5 DEF Passing, LetThrough
  <2> QED BY <1>0, <1>3, <2>1, PassingKeeps DEF lookups
<1>8. LaterHandlersFree' /\ OrderStored'
  BY <1>0, <1>1, <1>3, <1>5 DEF LaterHandlersFree, OrderStored
<1>9. StoredOrPending'
  BY <1>0, <1>1, <1>3, <1>5 DEF StoredOrPending
<1> QED BY <1>6, <1>7, <1>8, <1>9 DEF IInv

\* The operator's command: stored first, then in force.
LEMMA CommandKeeps ==
  ASSUME IInv,
         \/ \E w \in Wallets, status \in {"active", "rejected"} : Order(w, status)
         \/ CommitOrder \/ ApplyOrder
  PROVE  IInv'
<1>0. TypeOK /\ LaterHandlersFree /\ PassingIsKnown /\ PassingIsAlone /\ OrderStored /\ StoredOrPending
  BY DEF IInv
<1>1. /\ handler' = handler /\ emitted' = emitted /\ restarts' = restarts
      /\ notified' = notified /\ traded' = traded
      /\ deployerKnown' = deployerKnown /\ funderKnown' = funderKnown
  BY DEF Order, CommitOrder, ApplyOrder, lookups, counts
<1> DEFINE w == command.wallet
           e == [status |-> command.status, by |-> "operator"]
<1>2. w \in Wallets /\ e \in Entry /\ e.by = "operator"
      /\ index \in [Wallets -> Entry] /\ repo \in [Wallets -> Entry]
  BY <1>0 DEF TypeOK, Command, Entry
<1>3. CASE \E x \in Wallets, status \in {"active", "rejected"} : Order(x, status)
  <2>1. /\ command.pc = "idle" /\ command'.pc = "saving" /\ index' = index /\ repo' = repo
        /\ command' \in Command /\ commands < MaxCommands /\ commands' = commands + 1
    BY <1>3 DEF Order, Command, Statuses
  <2>2. TypeOK'
    <3>1. MaxCommands \in Nat
      BY DiscoveryAssumption
    <3>2. commands' \in 0..MaxCommands
      BY <1>0, <2>1, <3>1 DEF TypeOK
    <3> QED BY <1>0, <1>1, <2>1, <3>2 DEF TypeOK
  <2>3. PassingIsKnown' /\ PassingIsAlone'
    BY <1>0, <1>1, <2>1, PassingKeeps DEF Passing, LetThrough
  <2>4. LaterHandlersFree' /\ OrderStored' /\ StoredOrPending'
    BY <1>0, <1>1, <2>1 DEF LaterHandlersFree, OrderStored, StoredOrPending
  <2> QED BY <2>2, <2>3, <2>4 DEF IInv
<1>4. CASE CommitOrder
  <2>1. /\ command.pc = "saving" /\ index' = index /\ commands' = commands
        /\ repo' = [repo EXCEPT ![w] = e]
        /\ command' = [command EXCEPT !.pc = "saved"]
    BY <1>4 DEF CommitOrder, counts
  <2>2. /\ command' \in Command /\ command'.pc = "saved" /\ command'.wallet = w
        /\ command'.status = command.status
    BY <1>0, <2>1 DEF TypeOK, Command
  <2>3. [status |-> command'.status, by |-> "operator"] = e
    BY <2>2
  <2> HIDE DEF e
  <2>4. /\ repo' \in [Wallets -> Entry] /\ repo'[w] = e
        /\ \A a \in Wallets : a # w => repo'[a] = repo[a]
    BY <1>2, <2>1
  <2>5. TypeOK'
    BY <1>0, <1>1, <2>1, <2>2, <2>4 DEF TypeOK
  <2>6. PassingIsKnown' /\ PassingIsAlone'
    BY <1>0, <1>1, <2>1, PassingKeeps DEF Passing, LetThrough
  <2>7. LaterHandlersFree' /\ OrderStored'
    BY <1>0, <1>1, <2>2, <2>3, <2>4 DEF LaterHandlersFree, OrderStored
  <2>8. StoredOrPending'
    BY <1>0, <1>1, <2>1, <2>2, <2>4 DEF StoredOrPending
  <2> QED BY <2>5, <2>6, <2>7, <2>8 DEF IInv
<1>5. CASE ApplyOrder
  <2>1. /\ command.pc = "saved" /\ repo' = repo /\ commands' = commands
        /\ index' = [index EXCEPT ![w] = e]
        /\ command' = NoCommand /\ command'.pc = "idle"
    BY <1>5 DEF ApplyOrder, counts, NoCommand
  <2>2. repo[w].by = "operator" => repo[w] = e
    BY <1>0, <2>1 DEF OrderStored
  <2> HIDE DEF e
  <2>3. /\ index' \in [Wallets -> Entry] /\ index'[w] = e
        /\ \A a \in Wallets : a # w => index'[a] = index[a]
    BY <1>2, <2>1
  <2>4. TypeOK'
    BY <1>0, <1>1, <2>1, <2>3, Placeholders DEF TypeOK
  <2>5. PassingIsKnown' /\ PassingIsAlone'
    <3>1. \A a \in Wallets : Passing(a)' => Passing(a)
      BY <1>1, <1>2, <2>3 DEF Passing, LetThrough
    <3> QED BY <1>0, <1>1, <3>1, PassingKeeps
  <2>6. LaterHandlersFree' /\ OrderStored'
    BY <1>0, <1>1, <2>1 DEF LaterHandlersFree, OrderStored
  <2>7. StoredOrPending'
    BY <1>0, <1>1, <1>2, <2>1, <2>2, <2>3 DEF StoredOrPending
  <2> QED BY <2>4, <2>5, <2>6, <2>7 DEF IInv
<1> QED BY <1>3, <1>4, <1>5

\* A restart forgets every handler, and no status but the file's is in the index.
LEMMA RestartKeeps ==
  ASSUME IInv, Restart
  PROVE  IInv'
<1>0. TypeOK
  BY DEF IInv
<1> DEFINE r == [x \in Wallets |-> IF x \in Manual THEN FromFile
                                   ELSE IF repo[x] = Unstatused THEN Unstatused
                                   ELSE [repo[x] EXCEPT !.by = "earlier"]]
           g == [t \in Handlers |-> IF handler[t].pc = "none" THEN NoHandler
                                    ELSE [handler[t] EXCEPT !.pc = "done"]]
<1>1. /\ index' = LoadedIndex /\ repo' = r /\ handler' = g
      /\ traded' = {} /\ deployerKnown' = FALSE /\ funderKnown' = {}
      /\ command' = NoCommand /\ notified' = [x \in Wallets |-> 0]
      /\ emitted' = emitted /\ commands' = commands
      /\ restarts < MaxRestarts /\ restarts' = restarts + 1
  BY DEF Restart
<1>2. ASSUME NEW x \in Wallets
      PROVE  r[x] \in Entry /\ r[x].by # "operator"
  <2>1. repo[x] \in Entry
    BY <1>0 DEF TypeOK
  <2>2. CASE repo[x] = Unstatused
    BY <2>2 DEF FromFile, Unstatused, Entry, Statuses
  <2>3. CASE repo[x] # Unstatused
    BY <2>1, <2>3 DEF FromFile, Unstatused, Entry, Statuses
  <2> QED BY <2>2, <2>3
<1>3. ASSUME NEW t \in Handlers
      PROVE  g[t] \in Handler /\ g[t].pc \in {"none", "done"}
             /\ (handler[t].pc = "none" => g[t].pc = "none")
  <2>1. handler[t] \in Handler
    BY <1>0 DEF TypeOK
  <2>2. CASE handler[t].pc = "none"
    BY <2>2, Placeholders DEF NoHandler
  <2>3. CASE handler[t].pc # "none"
    BY <2>1, <2>3 DEF Handler
  <2> QED BY <2>2, <2>3
<1>4. r \in [Wallets -> Entry] /\ g \in [Handlers -> Handler]
  BY <1>2, <1>3
<1> HIDE DEF r, g
<1>5. TypeOK'
  <2>1. restarts' \in 0..MaxRestarts
    <3>1. MaxRestarts \in Nat
      BY DiscoveryAssumption
    <3> QED BY <3>1, <1>0, <1>1 DEF TypeOK
  <2>2. notified' \in [Wallets -> Nat]
    BY <1>1
  <2> QED BY <1>0, <1>1, <1>4, <2>1, <2>2, LoadedType, Placeholders DEF TypeOK
<1>6. \A x \in Wallets : ~Passing(x)'
  BY <1>1, <1>3, LoadedType DEF Passing, LetThrough
<1>7. PassingIsKnown' /\ PassingIsAlone'
  BY <1>6, DiscoveryAssumption DEF PassingIsKnown, PassingIsAlone
<1>8. LaterHandlersFree'
  BY <1>1, <1>3 DEF IInv, LaterHandlersFree
<1>9. OrderStored' /\ StoredOrPending'
  BY <1>1, <1>2 DEF OrderStored, StoredOrPending, NoCommand
<1> QED BY <1>5, <1>7, <1>8, <1>9 DEF IInv

\* Every step keeps the invariant.
LEMMA NextInvariant == IInv /\ [Next]_vars => IInv'
<1> SUFFICES ASSUME IInv, [Next]_vars PROVE IInv'
  OBVIOUS
<1>1. CASE UNCHANGED vars
  BY <1>1
     DEF vars, IInv, TypeOK, LaterHandlersFree, PassingIsKnown, PassingIsAlone, Passing,
         LetThrough, OrderStored, StoredOrPending
<1>2. CASE Next
  BY <1>2, TradeKeeps, LookupKeeps, EvaluateKeeps, SetStatusKeeps, CommitStatusKeeps,
     EndKeeps, CommandKeeps, RestartKeeps
     DEF Next, HandlerStep
<1> QED BY <1>1, <1>2

\* The strengthened invariant holds in every reachable state.
THEOREM Invariance == Spec => []IInv
<1> QED BY InitInvariant, NextInvariant, PTL DEF Spec

\* Every variable keeps its type.
THEOREM TypeCorrect == Spec => []TypeOK
<1>1. IInv => TypeOK
  BY DEF IInv
<1> QED BY <1>1, Invariance, PTL

\* Of two linked wallets discovery lets at most one through, however trades, lookups,
\* handlers, operator commands and restarts interleave.
THEOREM LinkedAreLetThroughOnce == Spec => []LinkedLetThroughOnce
<1>1. IInv => LinkedLetThroughOnce
  BY DEF IInv, PassingIsAlone, Passing, LinkedLetThroughOnce
<1> QED BY <1>1, Invariance, PTL

\* A stored decision of the operator is in force once everything is answered.
THEOREM StoredDecisionsAreInForce == Spec => []StoredDecisionInForce
<1>1. IInv => StoredDecisionInForce
  BY DEF IInv, StoredOrPending, StoredDecisionInForce, Quiet
<1> QED BY <1>1, Invariance, PTL
-----------------------------------------------------------------------------
(* Announcements.  A wallet is announced by handlers that were past their  *)
(* look at its status before the first of them gave it one.                *)

\* The handlers that may still announce w.
Overlapping(w) == {t \in InFlight : handler[t].wallet = w}

\* What is announced and what may still be share the room of the handlers in flight.
RoomKept == Cardinality(InFlight) <= MaxInFlight
AnnouncedOrPending ==
  \A w \in Wallets : notified[w] + Cardinality(Overlapping(w)) <= MaxInFlight

\* Nothing has been announced of a wallet without a status, nor is about to be: only
\* a restart takes a status away, and it ends the handlers and their count.
UntouchedIfUnstatused ==
  \A w \in Wallets : index[w] = Unstatused =>
    /\ notified[w] = 0
    /\ \A t \in Handlers : handler[t].wallet = w => handler[t].pc \notin {"saving", "saved"}

CountInv == RoomKept /\ AnnouncedOrPending /\ UntouchedIfUnstatused

\* Counting the handlers in flight makes sense.
LEMMA InFlightCount ==
  /\ IsFiniteSet(InFlight) /\ Cardinality(InFlight) \in Nat
  /\ \A w \in Wallets : /\ IsFiniteSet(Overlapping(w))
                        /\ Cardinality(Overlapping(w)) \in Nat
                        /\ Cardinality(Overlapping(w)) <= Cardinality(InFlight)
<1>1. IsFiniteSet(Handlers)
  <2>1. MaxTrades \in Int
    BY DiscoveryAssumption
  <2> QED BY <2>1, FS_Interval DEF Handlers
<1>2. InFlight \in SUBSET Handlers
  BY DEF InFlight
<1>3. IsFiniteSet(InFlight)
  BY <1>1, <1>2, FS_Subset
<1>4. ASSUME NEW w \in Wallets
      PROVE  /\ IsFiniteSet(Overlapping(w)) /\ Cardinality(Overlapping(w)) \in Nat
             /\ Cardinality(Overlapping(w)) <= Cardinality(InFlight)
  <2>1. Overlapping(w) \in SUBSET InFlight
    BY DEF Overlapping
  <2> QED BY <1>3, <2>1, FS_Subset, FS_CardinalityType
<1> QED BY <1>3, <1>4, FS_CardinalityType

\* A step that puts no handler in flight and announces nothing leaves the room.
LEMMA FewerKeeps ==
  ASSUME RoomKept, AnnouncedOrPending, TypeOK, notified' = notified,
         InFlight' \subseteq InFlight,
         \A w \in Wallets : Overlapping(w)' \subseteq Overlapping(w)
  PROVE  RoomKept' /\ AnnouncedOrPending'
<1>1. MaxInFlight \in Nat
  BY DiscoveryAssumption
<1>2. Cardinality(InFlight') \in Nat /\ Cardinality(InFlight') <= Cardinality(InFlight)
  <2>1. InFlight' \in SUBSET InFlight
    OBVIOUS
  <2> QED BY <2>1, InFlightCount, FS_Subset, FS_CardinalityType
<1>3. RoomKept'
  BY <1>1, <1>2, InFlightCount DEF RoomKept
<1>4. ASSUME NEW w \in Wallets
      PROVE  notified'[w] + Cardinality(Overlapping(w)') <= MaxInFlight
  <2>1. Overlapping(w)' \in SUBSET Overlapping(w)
    OBVIOUS
  <2>2. /\ Cardinality(Overlapping(w)') \in Nat
        /\ Cardinality(Overlapping(w)') <= Cardinality(Overlapping(w))
    BY <2>1, InFlightCount, FS_Subset, FS_CardinalityType
  <2>3. notified[w] \in Nat /\ notified'[w] = notified[w]
    BY DEF TypeOK
  <2>4. notified[w] + Cardinality(Overlapping(w)) <= MaxInFlight
    BY DEF AnnouncedOrPending
  <2>5. Cardinality(Overlapping(w)) \in Nat
    BY InFlightCount
  <2> QED BY <1>1, <2>2, <2>3, <2>4, <2>5
<1> QED BY <1>3, <1>4 DEF AnnouncedOrPending

\* At first nothing is in flight and nothing announced.
LEMMA CountInit == Init => CountInv
<1> SUFFICES ASSUME Init PROVE CountInv
  OBVIOUS
<1>1. \A t \in Handlers : handler[t].pc = "none"
  BY DEF Init, NoHandler
<1>2. InFlight = {} /\ \A w \in Wallets : Overlapping(w) = {}
  BY <1>1 DEF InFlight, Overlapping
<1>3. \A w \in Wallets : notified[w] = 0
  BY DEF Init
<1>4. MaxInFlight \in Nat
  BY DiscoveryAssumption
<1> QED BY <1>1, <1>2, <1>3, <1>4, FS_EmptySet
        DEF CountInv, RoomKept, AnnouncedOrPending, UntouchedIfUnstatused

\* A wallet that is judged has no status: nothing of it is announced yet, and all
\* that may still announce it is in flight now.
LEMMA EvaluateCounts ==
  ASSUME TypeOK, CountInv, NEW t \in Handlers, NEW timing \in BOOLEAN, Evaluate(t, timing)
  PROVE  CountInv'
<1> DEFINE x == handler[t].wallet
<1>0. RoomKept /\ AnnouncedOrPending /\ UntouchedIfUnstatused /\ MaxInFlight \in Nat
  BY DiscoveryAssumption DEF CountInv
<1>1. /\ x \in Wallets /\ index[x] = Unstatused /\ handler[t].pc = "queued"
      /\ Cardinality(InFlight) < MaxInFlight
      /\ UNCHANGED <<index, notified>>
  BY DEF TypeOK, Evaluate, Judge, Handler
<1>2. /\ handler'[t].pc = "detecting" /\ handler'[t].wallet = x
      /\ \A u \in Handlers : u # t => handler'[u] = handler[u]
  BY DEF TypeOK, Evaluate, Judge, Handler
<1>3. t \notin InFlight /\ InFlight' = InFlight \cup {t}
  BY <1>1, <1>2 DEF InFlight
<1>4. Cardinality(InFlight') \in Nat /\ Cardinality(InFlight') <= MaxInFlight
  <2>1. Cardinality(InFlight') = Cardinality(InFlight) + 1
    BY <1>3, InFlightCount, FS_AddElement
  <2>2. Cardinality(InFlight) \in Nat
    BY InFlightCount
  <2> QED BY <1>0, <1>1, <2>1, <2>2
<1>5. RoomKept'
  BY <1>4 DEF RoomKept
<1>6. ASSUME NEW w \in Wallets
      PROVE  notified'[w] + Cardinality(Overlapping(w)') <= MaxInFlight
  <2>1. CASE w = x
    <3>1. notified'[w] = 0
      BY <1>0, <1>1, <2>1 DEF UntouchedIfUnstatused
    <3>2. Overlapping(w)' \in SUBSET InFlight'
      BY DEF Overlapping
    <3>3. IsFiniteSet(InFlight')
      BY <1>3, InFlightCount, FS_AddElement
    <3>4. /\ Cardinality(Overlapping(w)') \in Nat
          /\ Cardinality(Overlapping(w)') <= Cardinality(InFlight')
      BY <3>2, <3>3, FS_Subset, FS_CardinalityType
    <3> QED BY <1>0, <1>4, <3>1, <3>4
  <2>2. CASE w # x
    <3>1. Overlapping(w)' = Overlapping(w)
      BY <1>2, <1>3, <2>2 DEF Overlapping, InFlight
    <3> QED BY <1>0, <1>1, <3>1 DEF AnnouncedOrPending
  <2> QED BY <2>1, <2>2
<1>7. AnnouncedOrPending'
  BY <1>6 DEF AnnouncedOrPending
<1>8. UntouchedIfUnstatused'
  BY <1>0, <1>1, <1>2 DEF UntouchedIfUnstatused
<1> QED BY <1>5, <1>7, <1>8 DEF CountInv

\* An announcement takes the place of the handler that made it.
LEMMA AnnounceCounts ==
  ASSUME TypeOK, CountInv, NEW t \in Handlers, Announce(t)
  PROVE  CountInv'
<1> DEFINE x == handler[t].wallet
<1>0. RoomKept /\ AnnouncedOrPending /\ UntouchedIfUnstatused /\ MaxInFlight \in Nat
  BY DiscoveryAssumption DEF CountInv
<1>1. x \in Wallets /\ handler[t].pc = "saved" /\ index' = index
      /\ notified \in [Wallets -> Nat]
  BY DEF TypeOK, Announce, Handler
<1>2. /\ notified'[x] \in Nat /\ notified'[x] <= notified[x] + 1
      /\ \A w \in Wallets : w # x => notified'[w] = notified[w]
  BY <1>1 DEF Announce
<1>3. /\ handler'[t].pc = "done" /\ handler'[t].wallet = x
      /\ \A u \in Handlers : u # t => handler'[u] = handler[u]
  BY DEF TypeOK, Announce, Handler
<1>4. InFlight' = InFlight \ {t} /\ t \in InFlight
  BY <1>1, <1>3 DEF InFlight
<1>5. RoomKept'
  BY <1>0, <1>4, InFlightCount, FS_RemoveElement DEF RoomKept
<1>6. ASSUME NEW w \in Wallets
      PROVE  notified'[w] + Cardinality(Overlapping(w)') <= MaxInFlight
  <2>1. notified[w] \in Nat /\ notified[w] + Cardinality(Overlapping(w)) <= MaxInFlight
    BY <1>0, <1>1 DEF AnnouncedOrPending
  <2>2. CASE w = x
    <3>1. Overlapping(w)' = Overlapping(w) \ {t} /\ t \in Overlapping(w)
      BY <1>3, <1>4, <2>2 DEF Overlapping, InFlight
    <3>2. Cardinality(Overlapping(w)') = Cardinality(Overlapping(w)) - 1
      BY <3>1, InFlightCount, FS_RemoveElement
    <3>3. Cardinality(Overlapping(w)) \in Nat
      BY InFlightCount
    <3> QED BY <1>0, <1>2, <2>1, <2>2, <3>2, <3>3
  <2>3. CASE w # x
    <3>1. Overlapping(w)' = Overlapping(w)
      BY <1>3, <1>4, <2>3 DEF Overlapping, InFlight
    <3> QED BY <1>2, <2>1, <2>3, <3>1
  <2> QED BY <2>2, <2>3
<1>7. AnnouncedOrPending'
  BY <1>6 DEF AnnouncedOrPending
<1>8. UntouchedIfUnstatused'
  <2>1. index[x] # Unstatused
    BY <1>0, <1>1 DEF UntouchedIfUnstatused
  <2> QED BY <1>0, <1>1, <1>2, <1>3, <2>1 DEF UntouchedIfUnstatused
<1> QED BY <1>5, <1>7, <1>8 DEF CountInv

\* A handler that only moves on within its flight, or never takes off.
LEMMA MoveCounts ==
  ASSUME TypeOK, CountInv, NEW t \in Handlers,
         Skip(t) \/ SetStatus(t) \/ CommitStatus(t)
  PROVE  CountInv'
<1>0. RoomKept /\ AnnouncedOrPending /\ UntouchedIfUnstatused
  BY DEF CountInv
<1>1. /\ handler[t].pc \in {"queued", "detecting", "saving"}
      /\ handler[t].pc = "queued" => handler'[t].pc = "done"
      /\ handler'[t].wallet = handler[t].wallet
      /\ \A u \in Handlers : u # t => handler'[u] = handler[u]
  BY DEF TypeOK, Skip, SetStatus, CommitStatus, Handler
<1>2. notified' = notified
  BY DEF Skip, SetStatus, CommitStatus
<1>3. InFlight' \subseteq InFlight
  BY <1>1 DEF InFlight
<1>4. \A w \in Wallets : Overlapping(w)' \subseteq Overlapping(w)
  BY <1>1, <1>3 DEF Overlapping, InFlight
<1>5. RoomKept' /\ AnnouncedOrPending'
  BY <1>0, <1>2, <1>3, <1>4, FewerKeeps
<1>6. UntouchedIfUnstatused'
  <2>1. CASE SetStatus(t)
    <3> DEFINE x == handler[t].wallet
    <3>1. x \in Wallets /\ index \in [Wallets -> Entry]
      BY DEF TypeOK, Handler
    <3>2. index'[x] # Unstatused /\ \A w \in Wallets : w # x => index'[w] = index[w]
      BY <2>1, <3>1 DEF SetStatus, Unstatused
    <3> QED BY <1>0, <1>1, <1>2, <3>2 DEF UntouchedIfUnstatused
  <2>2. CASE Skip(t)
    <3>1. index' = index /\ handler'[t].pc = "done"
      BY <2>2 DEF Skip, TypeOK, Handler
    <3> QED BY <1>0, <1>1, <1>2, <3>1 DEF UntouchedIfUnstatused
  <2>3. CASE CommitStatus(t)
    <3>1. index' = index /\ handler[t].pc = "saving"
      BY <2>3 DEF CommitStatus
    <3> QED BY <1>0, <1>1, <1>2, <3>1 DEF UntouchedIfUnstatused
  <2> QED BY <2>1, <2>2, <2>3
<1> QED BY <1>5, <1>6 DEF CountInv

\* A trade's handler starts outside the flight, and commands only give statuses.
LEMMA OthersCount ==
  ASSUME IInv, CountInv,
         \/ \E w \in Wallets : Trade(w) \/ LearnFunder(w)
         \/ LearnDeployer
         \/ \E w \in Wallets, status \in {"active", "rejected"} : Order(w, status)
         \/ CommitOrder \/ ApplyOrder
  PROVE  CountInv'
<1>0. RoomKept /\ AnnouncedOrPending /\ UntouchedIfUnstatused /\ TypeOK /\ LaterHandlersFree
  BY DEF CountInv, IInv
<1>1. notified' = notified
  BY DEF Trade, LearnFunder, LearnDeployer, Order, CommitOrder, ApplyOrder
<1>2. \A t \in Handlers :
        handler'[t] = handler[t] \/ (handler[t].pc = "none" /\ handler'[t].pc = "queued")
  <2>1. ASSUME NEW w \in Wallets, Trade(w), NEW t \in Handlers, handler'[t] # handler[t]
        PROVE  handler[t].pc = "none" /\ handler'[t].pc = "queued"
    <3>1. t = emitted + 1 /\ handler'[t].pc = "queued"
      BY <2>1, <1>0 DEF Trade, TypeOK, NoHandler
    <3>2. t > emitted
      BY <3>1, <1>0, DiscoveryAssumption DEF TypeOK
    <3> QED BY <3>1, <3>2, <1>0 DEF LaterHandlersFree
  <2>2. (~ \E w \in Wallets : Trade(w)) => handler' = handler
    BY DEF LearnFunder, LearnDeployer, Order, CommitOrder, ApplyOrder
  <2> QED BY <2>1, <2>2
<1>3. InFlight' \subseteq InFlight
  BY <1>2 DEF InFlight
<1>4. \A w \in Wallets : Overlapping(w)' \subseteq Overlapping(w)
  BY <1>2 DEF Overlapping, InFlight
<1>5. RoomKept' /\ AnnouncedOrPending'
  BY <1>0, <1>1, <1>3, <1>4, FewerKeeps
<1>6. \A w \in Wallets : index'[w] = index[w] \/ index'[w] # Unstatused
  <2>1. CASE ApplyOrder
    <3>1. command.wallet \in Wallets /\ index \in [Wallets -> Entry]
      BY <1>0 DEF TypeOK, Command
    <3> QED BY <2>1, <3>1 DEF ApplyOrder, Unstatused
  <2>2. CASE ~ApplyOrder
    <3>1. index' = index
      BY <2>2 DEF Trade, LearnFunder, LearnDeployer, Order, CommitOrder
    <3> QED BY <3>1
  <2> QED BY <2>1, <2>2
<1>7. UntouchedIfUnstatused'
  BY <1>0, <1>1, <1>2, <1>6 DEF UntouchedIfUnstatused
<1> QED BY <1>5, <1>7 DEF CountInv

\* A restart ends every handler and starts the count afresh.
LEMMA RestartCounts ==
  ASSUME CountInv, Restart
  PROVE  CountInv'
<1>1. \A t \in Handlers : handler'[t].pc \in {"none", "done"}
  BY DEF Restart, NoHandler
<1>2. InFlight' = {} /\ \A w \in Wallets : Overlapping(w)' = {}
  BY <1>1 DEF InFlight, Overlapping
<1>3. \A w \in Wallets : notified'[w] = 0
  BY DEF Restart
<1>4. MaxInFlight \in Nat
  BY DiscoveryAssumption
<1> QED BY <1>1, <1>2, <1>3, <1>4, FS_EmptySet
        DEF CountInv, RoomKept, AnnouncedOrPending, UntouchedIfUnstatused

\* Every step keeps the count.
LEMMA CountNext == IInv /\ CountInv /\ [Next]_vars => CountInv'
<1> SUFFICES ASSUME IInv, CountInv, [Next]_vars PROVE CountInv'
  OBVIOUS
<1>0. TypeOK
  BY DEF IInv
<1>1. CASE UNCHANGED vars
  BY <1>1 DEF vars, CountInv, RoomKept, AnnouncedOrPending, UntouchedIfUnstatused,
              Overlapping, InFlight
<1>2. CASE Next
  BY <1>0, <1>2, OthersCount, EvaluateCounts, AnnounceCounts, MoveCounts, RestartCounts
     DEF Next, HandlerStep
<1> QED BY <1>1, <1>2

\* However handlers, commands and restarts interleave, a wallet is announced at most
\* as often as handlers are in flight at a time: with one at a time, at most once
\* between two starts of the process.
THEOREM AnnouncementsAreBounded == Spec => []AnnouncementsBounded
<1>1. CountInv /\ TypeOK => AnnouncementsBounded
  <2> SUFFICES ASSUME CountInv, TypeOK, NEW w \in Wallets
               PROVE  notified[w] <= MaxInFlight
    BY DEF AnnouncementsBounded
  <2>1. notified[w] \in Nat /\ MaxInFlight \in Nat
    BY DiscoveryAssumption DEF TypeOK
  <2>2. notified[w] + Cardinality(Overlapping(w)) <= MaxInFlight
    BY DEF CountInv, AnnouncedOrPending
  <2> QED BY <2>1, <2>2, InFlightCount
<1> QED BY <1>1, Invariance, TypeCorrect, CountInit, CountNext, PTL DEF Spec
=============================================================================
