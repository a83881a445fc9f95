------------------------- MODULE TokenMetadataProofs -------------------------
(***************************************************************************)
(* The governor's promises for every set of keys and every budget: its     *)
(* invariant ties the history of starts to the two times that tryStart     *)
(* looks at.  lastStartedAt is the time of the last start, and             *)
(* lastAttemptAt[k] is no earlier than any start of k.                     *)
(*                                                                         *)
(* Promises of the metadata providers, for every set of mints and of       *)
(* values: an authority is only served as revoked when the chain says so,  *)
(* a concentration is cached by the refresh that measured it, and failed   *)
(* calls alone never flag a rug.  They are inductive once they also cover  *)
(* the answers on their way: what a call has reported, and what a refresh  *)
(* holds between two calls.  The governor's promises carry over.           *)
(***************************************************************************)
EXTENDS TokenMetadata, TLAPS

-----------------------------------------------------------------------------
(* The governor, whoever asks it.                                          *)

\* lastStartedAt is set by the first start, and every start happened at least a
\* spacing for each later start before it.
SpacedFromLast ==
  /\ starts # <<>> => lastStartedAt # Never
  /\ \A i \in DOMAIN starts :
       lastStartedAt - starts[i].at >= (Len(starts) - i) * MinInterval

\* lastAttemptAt remembers the latest start of its key.
AttemptsRemembered ==
  \A i \in DOMAIN starts : /\ lastAttemptAt[starts[i].key] # Never
                           /\ lastAttemptAt[starts[i].key] >= starts[i].at

\* No start lies ahead of the clock.
StartsPast == \A i \in DOMAIN starts : starts[i].at <= now

GovernorInv == /\ TypeOK
        /\ SpacedFromLast /\ AttemptsRemembered /\ StartsPast
        /\ RateLimited /\ ColdKeyCoolsDown /\ FreshNotRefetched

\* One spacing more.
LEMMA OneMoreSpacing ==
  ASSUME NEW n \in Nat, NEW m \in Nat
  PROVE  /\ (n + 1) * m = n * m + m
         /\ n * m \in Nat
  OBVIOUS

\* Every entry of the history is a start.
LEMMA StartTyped ==
  ASSUME TypeOK, NEW i \in DOMAIN starts
  PROVE  starts[i] \in Start /\ starts[i].key \in Keys /\ starts[i].at \in Nat
<1>1. starts \in Seq(Start)
  BY DEF TypeOK
<1>2. starts[i] \in Start
  <2> HIDE DEF Start
  <2> QED BY <1>1
<1> QED BY <1>2 DEF Start

\* The initial state satisfies the invariant.
LEMMA GovernorStarts == GovernorInit => GovernorInv
<1> SUFFICES ASSUME GovernorInit PROVE GovernorInv
  OBVIOUS
<1> USE DEF GovernorInit, Never
<1>1. starts = <<>> /\ DOMAIN starts = {}
  OBVIOUS
<1>2. TypeOK
  <2>1. <<>> \in Seq(Start)
    OBVIOUS
  <2> QED BY <2>1, GovernorAssumption DEF TypeOK
<1> QED
  BY <1>1, <1>2 DEF GovernorInv, SpacedFromLast, AttemptsRemembered, StartsPast, RateLimited,
                    ColdKeyCoolsDown, FreshNotRefetched

\* What a start adds to the history.
LEMMA Appended ==
  ASSUME TypeOK, NEW k \in Keys, Read(k)
  PROVE  /\ Len(starts) \in Nat
         /\ DOMAIN starts = 1..Len(starts)
         /\ starts' \in Seq(Start)
         /\ Len(starts') = Len(starts) + 1
         /\ DOMAIN starts' = 1..(Len(starts) + 1)
         /\ \A i \in 1..Len(starts) : starts'[i] = starts[i] /\ starts[i] \in Start
         /\ starts'[Len(starts) + 1] = [key |-> k, at |-> now, cold |-> ~Cached(k)]
<1>1. starts \in Seq(Start) /\ now \in Nat
  BY GovernorAssumption DEF TypeOK
<1>2. [key |-> k, at |-> now, cold |-> ~Cached(k)] \in Start
  BY <1>1 DEF Start, Cached
<1>3. starts' = Append(starts, [key |-> k, at |-> now, cold |-> ~Cached(k)])
  BY DEF Read
<1> DEFINE e == [key |-> k, at |-> now, cold |-> ~Cached(k)]
<1>4. e \in Start /\ starts' = Append(starts, e)
  BY <1>2, <1>3
<1> HIDE DEF e
<1>5. /\ Len(starts) \in Nat /\ DOMAIN starts = 1..Len(starts)
      /\ starts' \in Seq(Start)
      /\ Len(starts') = Len(starts) + 1
      /\ \A i \in 1..Len(starts) : starts'[i] = starts[i] /\ starts[i] \in Start
      /\ starts'[Len(starts) + 1] = e
  BY <1>1, <1>4
<1>6. DOMAIN starts' = 1..(Len(starts) + 1)
  BY <1>5
<1> QED BY <1>5, <1>6 DEF e

\* A start keeps the invariant.
LEMMA ReadKeeps ==
  ASSUME GovernorInv, NEW k \in Keys, Read(k)
  PROVE  GovernorInv'
<1> DEFINE n == Len(starts)
<1>0. TypeOK /\ SpacedFromLast /\ AttemptsRemembered /\ StartsPast
      /\ RateLimited /\ ColdKeyCoolsDown /\ FreshNotRefetched
  BY DEF GovernorInv
<1>1. /\ n \in Nat /\ DOMAIN starts = 1..n /\ starts' \in Seq(Start)
      /\ Len(starts') = n + 1 /\ DOMAIN starts' = 1..(n + 1)
      /\ \A i \in 1..n : starts'[i] = starts[i] /\ starts[i] \in Start
      /\ starts'[n + 1] = [key |-> k, at |-> now, cold |-> ~Cached(k)]
  BY <1>0, Appended
<1>2. /\ now \in Nat /\ now' = now /\ lastStartedAt' = now
      /\ cachedAt' = cachedAt
      /\ lastAttemptAt' = [lastAttemptAt EXCEPT ![k] = now]
      /\ refresh' = [refresh EXCEPT ![k] = "open"]
      /\ MinInterval \in Nat /\ RetryCooldown \in Nat /\ MaxTime \in Nat
      /\ lastStartedAt \in Never..now
      /\ lastAttemptAt \in [Keys -> Never..now]
      /\ cachedAt \in [Keys -> Never..now]
  BY <1>0, GovernorAssumption DEF Read, TypeOK
<1>3. /\ Due(k)
      /\ ~Cached(k) /\ lastAttemptAt[k] # Never => now - lastAttemptAt[k] >= RetryCooldown
      /\ lastStartedAt # Never => now - lastStartedAt >= MinInterval
  BY DEF Read, MayStart
<1>4. \A i \in 1..n : starts[i].at \in Nat /\ starts[i].key \in Keys
  BY <1>1 DEF Start
<1>5. starts'[n + 1].key = k /\ starts'[n + 1].at = now /\ starts'[n + 1].cold = ~Cached(k)
  BY <1>1
<1> HIDE DEF n
<1>6. TypeOK'
  BY <1>0, <1>1, <1>2 DEF TypeOK, Never
\* Each earlier start is a spacing further away than it was from the last one.
<1>7. \A i \in 1..n : now - starts[i].at >= (n + 1 - i) * MinInterval
  <2> TAKE i \in 1..n
  <2>1. lastStartedAt # Never
    BY <1>0, <1>1 DEF SpacedFromLast
  <2>2. lastStartedAt - starts[i].at >= (n - i) * MinInterval
    BY <1>0, <1>1 DEF SpacedFromLast, n
  <2>3. n - i \in Nat
    BY <1>1
  <2>4. (n - i + 1) * MinInterval = (n - i) * MinInterval + MinInterval
        /\ (n - i) * MinInterval \in Nat
    BY <2>3, <1>2, OneMoreSpacing
  <2>5. n - i + 1 = n + 1 - i
    BY <1>1
  <2> QED BY <2>1, <2>2, <2>4, <2>5, <1>1, <1>2, <1>3, <1>4 DEF Never
<1>8. SpacedFromLast'
  <2>1. lastStartedAt' # Never
    BY <1>2 DEF Never
  <2>2. ASSUME NEW i \in 1..(n + 1)
        PROVE  lastStartedAt' - starts'[i].at >= (n + 1 - i) * MinInterval
    <3>1. CASE i \in 1..n
      BY <3>1, <1>1, <1>2, <1>7
    <3>2. CASE i = n + 1
      <4>1. (n + 1 - i) * MinInterval = 0
        BY <3>2, <1>1, <1>2
      <4> QED BY <4>1, <3>2, <1>2, <1>5
    <3> QED BY <3>1, <3>2, <1>1
  <2> QED BY <2>1, <2>2, <1>1 DEF SpacedFromLast
<1>9. RateLimited'
  <2> SUFFICES ASSUME NEW i \in 1..(n + 1), NEW j \in 1..(n + 1), i < j
               PROVE  starts'[j].at - starts'[i].at >= (j - i) * MinInterval
    BY <1>1 DEF RateLimited
  <2>1. i \in 1..n
    BY <1>1
  <2>2. CASE j \in 1..n
    BY <2>1, <2>2, <1>0, <1>1 DEF RateLimited
  <2>3. CASE j = n + 1
    BY <2>1, <2>3, <1>1, <1>5, <1>7
  <2> QED BY <2>2, <2>3, <1>1
<1>10. AttemptsRemembered'
  <2> SUFFICES ASSUME NEW i \in 1..(n + 1)
               PROVE  /\ lastAttemptAt'[starts'[i].key] # Never
                      /\ lastAttemptAt'[starts'[i].key] >= starts'[i].at
    BY <1>1 DEF AttemptsRemembered
  <2>1. lastAttemptAt'[k] = now
    BY <1>2
  <2>2. CASE i = n + 1
    BY <2>1, <2>2, <1>5, <1>2 DEF Never
  <2>3. CASE i \in 1..n /\ starts[i].key = k
    <3>1. starts'[i].key = k /\ starts'[i].at = starts[i].at
      BY <2>3, <1>1
    <3>2. starts[i].at <= now
      BY <2>3, <1>0, <1>1 DEF StartsPast
    <3> QED BY <2>1, <2>3, <3>1, <3>2, <1>2, <1>4 DEF Never
  <2>4. CASE i \in 1..n /\ starts[i].key # k
    <3>1. lastAttemptAt'[starts[i].key] = lastAttemptAt[starts[i].key]
      BY <2>4, <1>2, <1>4
    <3> QED BY <3>1, <2>4, <1>0, <1>1 DEF AttemptsRemembered
  <2> QED BY <2>2, <2>3, <2>4, <1>1
<1>11. StartsPast'
  <2> SUFFICES ASSUME NEW i \in 1..(n + 1) PROVE starts'[i].at <= now'
    BY <1>1 DEF StartsPast
  <2>1. CASE i = n + 1
    BY <2>1, <1>2, <1>5
  <2>2. CASE i \in 1..n
    BY <2>2, <1>0, <1>1, <1>2 DEF StartsPast
  <2> QED BY <2>1, <2>2, <1>1
<1>12. ColdKeyCoolsDown'
  <2> SUFFICES ASSUME NEW i \in 1..(n + 1), NEW j \in 1..(n + 1), i < j,
                      starts'[i].key = starts'[j].key, starts'[i].cold, starts'[j].cold
               PROVE  starts'[j].at - starts'[i].at >= RetryCooldown
    BY <1>1 DEF ColdKeyCoolsDown
  <2>1. i \in 1..n
    BY <1>1
  <2>2. CASE j \in 1..n
    BY <2>1, <2>2, <1>0, <1>1 DEF ColdKeyCoolsDown
  <2>3. CASE j = n + 1
    <3>1. starts[i].key = k /\ ~Cached(k)
      BY <2>1, <2>3, <1>1, <1>5
    <3>2. lastAttemptAt[k] # Never /\ lastAttemptAt[k] >= starts[i].at
      BY <2>1, <3>1, <1>0, <1>1 DEF AttemptsRemembered
    <3>3. now - lastAttemptAt[k] >= RetryCooldown /\ lastAttemptAt[k] \in Int
      BY <3>1, <3>2, <1>3, <1>2 DEF Never
    <3> QED BY <2>1, <2>3, <3>2, <3>3, <1>1, <1>2, <1>4, <1>5
  <2> QED BY <2>2, <2>3, <1>1
<1>13. FreshNotRefetched'
  <2> SUFFICES ASSUME NEW i \in 1..(n + 1), NEW c \in Keys, c = starts'[i].key,
                      cachedAt[c] # Never, starts'[i].at > cachedAt[c]
               PROVE  c \in Mints /\ starts'[i].at - cachedAt[c] > CacheTtl
    <3>1. \A i \in 1..(n + 1) : starts'[i].key \in Keys
      BY <1>1, <1>4, <1>5
    <3> QED BY <3>1, <1>1, <1>2 DEF FreshNotRefetched, Cached
  <2>1. CASE i = n + 1
    BY <2>1, <1>3, <1>5 DEF Due, Cached
  <2>2. CASE i \in 1..n
    BY <2>2, <1>0, <1>1 DEF FreshNotRefetched, Cached
  <2> QED BY <2>1, <2>2, <1>1
<1> QED BY <1>6, <1>8, <1>9, <1>10, <1>11, <1>12, <1>13 DEF GovernorInv

\* A successful refresh keeps the invariant: every start lies before the new entry.
LEMMA SucceedKeeps ==
  ASSUME GovernorInv, NEW k \in Keys, Succeed(k)
  PROVE  GovernorInv'
<1>0. TypeOK /\ SpacedFromLast /\ AttemptsRemembered /\ StartsPast
      /\ RateLimited /\ ColdKeyCoolsDown /\ FreshNotRefetched
  BY DEF GovernorInv
<1>1. /\ now' = now /\ starts' = starts /\ lastStartedAt' = lastStartedAt
      /\ lastAttemptAt' = lastAttemptAt
      /\ refresh' = [refresh EXCEPT ![k] = "settled"]
      /\ cachedAt' = [cachedAt EXCEPT ![k] = now]
      /\ now \in Nat
  BY <1>0, GovernorAssumption DEF Succeed, TypeOK
<1>2. TypeOK'
  BY <1>0, <1>1 DEF TypeOK, Never
<1>3. SpacedFromLast' /\ AttemptsRemembered' /\ StartsPast' /\ RateLimited' /\ ColdKeyCoolsDown'
  BY <1>0, <1>1 DEF SpacedFromLast, AttemptsRemembered, StartsPast, RateLimited, ColdKeyCoolsDown
<1>4. FreshNotRefetched'
  <2>1. ASSUME NEW i \in DOMAIN starts
        PROVE  starts[i].key \in Keys /\ starts[i].at \in Nat /\ starts[i].at <= now
    BY <1>0, <2>1, StartTyped DEF StartsPast
  <2> SUFFICES ASSUME NEW i \in DOMAIN starts, NEW c \in Keys, c = starts[i].key,
                      cachedAt'[c] # Never, starts[i].at > cachedAt'[c]
               PROVE  c \in Mints /\ starts[i].at - cachedAt'[c] > CacheTtl
    BY <1>1, <2>1 DEF FreshNotRefetched, Cached
  <2>2. c # k
    BY <1>0, <1>1, <2>1 DEF TypeOK
  <2>3. cachedAt'[c] = cachedAt[c]
    BY <2>2, <1>0, <1>1 DEF TypeOK
  <2> QED BY <2>3, <1>0 DEF FreshNotRefetched, Cached
<1> QED BY <1>2, <1>3, <1>4 DEF GovernorInv

\* Every step keeps the invariant.
LEMMA GovernorStep == GovernorInv /\ [GovernorNext]_governor => GovernorInv'
<1> SUFFICES ASSUME GovernorInv, [GovernorNext]_governor PROVE GovernorInv'
  OBVIOUS
<1>0. TypeOK /\ SpacedFromLast /\ AttemptsRemembered /\ StartsPast
      /\ RateLimited /\ ColdKeyCoolsDown /\ FreshNotRefetched
  BY DEF GovernorInv
<1>1. ASSUME NEW k \in Keys, Read(k) PROVE GovernorInv'
  BY <1>1, ReadKeeps
<1>2. ASSUME NEW k \in Keys, Succeed(k) PROVE GovernorInv'
  BY <1>2, SucceedKeeps
<1>3. ASSUME NEW k \in Keys, Fail(k) \/ Release(k) PROVE GovernorInv'
  <2>1. TypeOK'
    BY <1>0, <1>3 DEF TypeOK, Fail, Release
  <2> QED
    BY <2>1, <1>0, <1>3
       DEF GovernorInv, Fail, Release, SpacedFromLast, AttemptsRemembered, StartsPast,
           RateLimited, ColdKeyCoolsDown, FreshNotRefetched, Cached
<1>4. CASE Tick
  <2>1. /\ now \in Nat /\ now' = now + 1 /\ now' \in 0..MaxTime
        /\ UNCHANGED <<refresh, lastAttemptAt, lastStartedAt, cachedAt, starts>>
    BY <1>0, <1>4, GovernorAssumption DEF Tick, TypeOK
  <2>2. Never..now \subseteq Never..(now + 1)
    BY <2>1 DEF Never
  <2>3. TypeOK'
    BY <1>0, <2>1, <2>2 DEF TypeOK
  <2>4. \A i \in DOMAIN starts : starts[i].at \in Nat
    BY <1>0, StartTyped
  <2>5. StartsPast'
    BY <1>0, <2>1, <2>4 DEF StartsPast
  <2> QED
    BY <2>1, <2>3, <2>5, <1>0
       DEF GovernorInv, SpacedFromLast, AttemptsRemembered,
           RateLimited, ColdKeyCoolsDown, FreshNotRefetched, Cached
<1>5. CASE UNCHANGED governor
  BY <1>0, <1>5
     DEF governor, GovernorInv, TypeOK, SpacedFromLast, AttemptsRemembered, StartsPast,
         RateLimited, ColdKeyCoolsDown, FreshNotRefetched, Cached
<1> QED BY <1>1, <1>2, <1>3, <1>4, <1>5 DEF GovernorNext

\* The strengthened invariant holds in every reachable state.
THEOREM GovernorInvariance == GovernorSpec => []GovernorInv
<1> QED BY GovernorStarts, GovernorStep, PTL DEF GovernorSpec

\* Every variable keeps its type and no recorded time lies ahead of the clock.
THEOREM TypeCorrect == GovernorSpec => []TypeOK
<1>1. GovernorInv => TypeOK
  BY DEF GovernorInv
<1> QED BY <1>1, GovernorInvariance, PTL

\* Whatever the consumers read and however the endpoint answers, refreshes keep
\* the spacing the quota was tuned to.
THEOREM RefreshesAreSpaced == GovernorSpec => []RateLimited
<1>1. GovernorInv => RateLimited
  BY DEF GovernorInv
<1> QED BY <1>1, GovernorInvariance, PTL

\* A key that was never fetched successfully waits out its cooldown.
THEOREM ColdKeysCoolDown == GovernorSpec => []ColdKeyCoolsDown
<1>1. GovernorInv => ColdKeyCoolsDown
  BY DEF GovernorInv
<1> QED BY <1>1, GovernorInvariance, PTL

\* No refresh is spent on a known fact or on a mint's entry that is still good.
THEOREM FreshIsNotRefetched == GovernorSpec => []FreshNotRefetched
<1>1. GovernorInv => FreshNotRefetched
  BY DEF GovernorInv
<1> QED BY <1>1, GovernorInvariance, PTL
-----------------------------------------------------------------------------
(* The providers.                                                          *)

\* A step of the module is a step of the governor, or none.
LEMMA StepRefines == [Next]_vars => [GovernorNext]_governor
<1> SUFFICES ASSUME [Next]_vars, UNCHANGED governor => FALSE
             PROVE  GovernorNext
  BY DEF governor
<1>1. ASSUME NEW k \in Keys, Read(k) \/ Succeed(k) \/ Fail(k) \/ Release(k)
      PROVE  GovernorNext
  BY <1>1 DEF GovernorNext
<1>2. Mints \subseteq Keys /\ Facts \subseteq Keys
  BY DEF Keys
<1>3. CASE UNCHANGED vars
  BY <1>3 DEF vars
<1>4. ASSUME NEW m \in Mints, Trade(m) PROVE GovernorNext
  BY <1>1, <1>2, <1>4 DEF Trade, TriggerRpc
<1>5. ASSUME NEW m \in Mints,
             \/ ChainMoves(m) \/ DexAnswers(m) \/ DexArrives(m) \/ DexFails(m)
             \/ AccountAnswers(m) \/ BalancesAnswer(m)
             \/ MetaAnswers(m) \/ MetaFails(m) \/ BodyThrows(m) \/ HoldersAnswer(m)
             \/ ActivitiesAnswer(m)
      PROVE  UNCHANGED governor
  BY <1>5 DEF ChainMoves, DexAnswers, DexArrives, DexFails, AccountAnswers, BalancesAnswer,
              MetaAnswers, MetaFails, BodyThrows, HoldersAnswer, ActivitiesAnswer
<1>6. ASSUME NEW m \in Mints, RpcCompletes(m) \/ RpcFails(m) PROVE GovernorNext
  BY <1>1, <1>2, <1>6 DEF RpcCompletes, RpcFails
<1>7. ASSUME NEW k \in Facts, FunderLookup(k) PROVE GovernorNext
  BY <1>1, <1>2, <1>7 DEF FunderLookup
<1>8. ASSUME NEW k \in Mints \cup Facts, Settles(k) PROVE GovernorNext
  BY <1>1, <1>2, <1>8 DEF Settles
<1>9. CASE TimePasses
  BY <1>9 DEF TimePasses, GovernorNext
<1> QED
  BY <1>3, <1>4, <1>5, <1>6, <1>7, <1>8, <1>9 DEF Next

\* So the module's behaviours are the governor's, and what is proved of it holds here.
LEMMA ImplementsGovernor == Spec => GovernorSpec
<1>1. Init => GovernorInit
  BY DEF Init
<1> QED
  BY <1>1, StepRefines, PTL DEF Spec, GovernorSpec

\* The composite provider keeps the quota, cools down what it never fetched, and
\* does not fetch again what it has, however its three calls and the trades interleave.
THEOREM ProvidersKeepQuota ==
  Spec => [](RateLimited /\ ColdKeyCoolsDown /\ FreshNotRefetched)
<1> QED
  BY ImplementsGovernor, RefreshesAreSpaced, ColdKeysCoolDown, FreshIsNotRefetched, PTL
-----------------------------------------------------------------------------
Report == [Authorities -> {"null", "address", "absent"}]
Mint == [pool : Liquidities, top10 : Tops, revoked : SUBSET Authorities]
Calls == [account : Report \cup {None}, top10 : Tops \cup {None}]
Fetch == [stage : {"idle", "meta", "holders", "activities"},
          meta : Report \cup {None}, top10 : Tops \cup {None}]

sources == <<provider, chain, calls, rpcCache, solFetch, solCache>>

\* The shapes of what the fact about revocations is read from.
Shaped ==
  /\ chain \in [Mints -> Mint]
  /\ calls \in [Mints -> Calls]
  /\ solFetch \in [Mints -> Fetch]
  /\ DOMAIN rpcCache = Mints /\ rpcCache = [m \in Mints |-> rpcCache[m]]
  /\ DOMAIN solCache = Mints /\ solCache = [m \in Mints |-> solCache[m]]

\* Nothing on its way or in a cache says "revoked" of an authority that is not.
Truthful(m) ==
  /\ calls[m].account # None => RevokedIn(calls[m].account) \subseteq chain[m].revoked
  /\ solFetch[m].stage \in {"holders", "activities"} =>
       RevokedIn(solFetch[m].meta) \subseteq chain[m].revoked
  /\ rpcCache[m] # None => rpcCache[m].revoked \subseteq chain[m].revoked
  /\ solCache[m] # None => solCache[m].seed.revoked \subseteq chain[m].revoked

RInv == Shaped /\ \A m \in Mints : Truthful(m)

\* A report of the mint says no more than the chain.
LEMMA ReportsTrue ==
  ASSUME NEW m \in Mints, NEW report \in Reports(m)
  PROVE  report \in Report /\ RevokedIn(report) \subseteq chain[m].revoked
<1>1. report \in Report
  BY DEF Reports, Report
<1>2. ASSUME NEW a \in Authorities, report[a] = "null" PROVE a \in chain[m].revoked
  BY <1>2 DEF Reports
<1> QED
  BY <1>1, <1>2 DEF RevokedIn

\* The invariant implies the property.
LEMMA InvariantImplies == RInv => RevokedIsReal
<1> SUFFICES ASSUME RInv, NEW m \in Mints
             PROVE  Served(m).revoked \subseteq chain[m].revoked
  BY DEF RevokedIsReal
<1>1. Truthful(m)
  BY DEF RInv
<1>2. Unknown.revoked = {}
  BY DEF Unknown
<1>3. CASE provider = "solscan"
  BY <1>1, <1>2, <1>3 DEF Truthful, Served
<1>4. CASE provider # "solscan"
  <2>1. Served(m).revoked = IF rpcCache[m] = None THEN {} ELSE rpcCache[m].revoked
    BY <1>4 DEF Served, Unknown
  <2> QED
    BY <2>1, <1>1 DEF Truthful
<1> QED
  BY <1>3, <1>4

\* It holds at the start.
LEMMA InitTruthful == Init => RInv
<1> SUFFICES ASSUME Init PROVE RInv
  OBVIOUS
<1>1. chain \in [Mints -> Mint]
  BY DEF Init, Mint
<1>2. NoCalls \in Calls /\ Idle \in Fetch
  BY DEF NoCalls, Idle, Calls, Fetch
<1>3. Shaped
  BY <1>1, <1>2 DEF Init, Shaped
<1>4. ASSUME NEW m \in Mints PROVE Truthful(m)
  <2>1. calls[m].account = None /\ solFetch[m].stage = "idle"
        /\ rpcCache[m] = None /\ solCache[m] = None
    BY DEF Init, NoCalls, Idle
  <2> QED
    BY <2>1 DEF Truthful
<1> QED
  BY <1>3, <1>4 DEF RInv

\* The invariant only reads these variables.
LEMMA StutterTruthful == ASSUME RInv, UNCHANGED sources PROVE RInv'
BY DEF RInv, Shaped, Truthful, sources, RevokedIn

\* One entry of one of the maps is replaced by one that tells the truth.
LEMMA CallsReplaced ==
  ASSUME RInv, NEW m \in Mints, NEW entry \in Calls,
         entry.account # None => RevokedIn(entry.account) \subseteq chain[m].revoked,
         calls' = [calls EXCEPT ![m] = entry],
         UNCHANGED <<chain, rpcCache, solFetch, solCache>>
  PROVE  RInv'
<1>1. Shaped'
  BY DEF RInv, Shaped
<1>2. ASSUME NEW n \in Mints PROVE Truthful(n)'
  <2>1. calls'[n] = IF n = m THEN entry ELSE calls[n]
    BY DEF RInv, Shaped
  <2> QED
    BY <2>1 DEF RInv, Truthful, RevokedIn
<1> QED
  BY <1>1, <1>2 DEF RInv

\* So does another entry of a Solscan refresh that is true of the chain.
LEMMA FetchReplaced ==
  ASSUME RInv, NEW m \in Mints, NEW entry \in Fetch,
         entry.stage \in {"holders", "activities"} =>
           RevokedIn(entry.meta) \subseteq chain[m].revoked,
         solFetch' = [solFetch EXCEPT ![m] = entry],
         UNCHANGED <<chain, calls, rpcCache, solCache>>
  PROVE  RInv'
<1>1. Shaped'
  BY DEF RInv, Shaped
<1>2. ASSUME NEW n \in Mints PROVE Truthful(n)'
  <2>1. solFetch'[n] = IF n = m THEN entry ELSE solFetch[n]
    BY DEF RInv, Shaped
  <2> QED
    BY <2>1 DEF RInv, Truthful, RevokedIn
<1> QED
  BY <1>1, <1>2 DEF RInv

\* The trade's read starts calls afresh, and may start a Solscan refresh.
LEMMA TradeTruthful == ASSUME RInv, NEW m \in Mints, Trade(m) PROVE RInv'
<1>1. NoCalls \in Calls /\ NoCalls.account = None
  BY DEF NoCalls, Calls
<1>2. calls' = [calls EXCEPT ![m] = NoCalls] \/ calls' = calls
  BY DEF Trade, TriggerRpc
<1>3. UNCHANGED <<chain, rpcCache, solCache>>
  BY DEF Trade, world
<1> DEFINE entry == [stage |-> "meta", meta |-> solFetch[m].meta, top10 |-> solFetch[m].top10]
<1>4. solFetch[m] \in Fetch
  BY DEF RInv, Shaped
<1>5. entry \in Fetch
  BY <1>4 DEF Fetch
<1>6. [solFetch[m] EXCEPT !.stage = "meta"] = entry
  BY <1>4 DEF Fetch
<1>7. solFetch' = [solFetch EXCEPT ![m] = entry] \/ solFetch' = solFetch
  <2>1. CASE provider = "solscan" /\ Stale(solCache[m]) /\ solFetch[m] = Idle
    <3>1. solFetch' = [solFetch EXCEPT ![m].stage = "meta"]
      BY <2>1 DEF Trade, TriggerSolscan
    <3> QED
      BY <3>1, <1>6, Zenon
  <2>2. CASE ~(provider = "solscan" /\ Stale(solCache[m]) /\ solFetch[m] = Idle)
    BY <2>2 DEF Trade, TriggerSolscan
  <2> QED
    BY <2>1, <2>2
<1>8. entry.stage = "meta"
  OBVIOUS
<1> HIDE DEF entry
<1>9. Shaped'
  BY <1>1, <1>2, <1>3, <1>5, <1>7 DEF RInv, Shaped
<1>10. ASSUME NEW n \in Mints PROVE Truthful(n)'
  <2>1. calls'[n] = calls[n] \/ calls'[n] = NoCalls
    BY <1>2 DEF RInv, Shaped
  <2>2. solFetch'[n] = solFetch[n] \/ solFetch'[n].stage = "meta"
    BY <1>7, <1>8 DEF RInv, Shaped
  <2> QED
    BY <1>1, <1>3, <2>1, <2>2 DEF RInv, Truthful, RevokedIn
<1> QED
  BY <1>9, <1>10 DEF RInv

\* The three RPC calls.
LEMMA RpcTruthful ==
  ASSUME RInv, NEW m \in Mints, AccountAnswers(m) \/ BalancesAnswer(m) \/ RpcCompletes(m)
  PROVE  RInv'
<1>1. calls[m] \in Calls /\ chain[m] \in Mint /\ Truthful(m)
  BY DEF RInv, Shaped
<1>2. CASE AccountAnswers(m)
  <2>1. PICK report \in Reports(m) : calls' = [calls EXCEPT ![m].account = report]
    BY <1>2 DEF AccountAnswers
  <2>2. report \in Report /\ RevokedIn(report) \subseteq chain[m].revoked
    BY ReportsTrue
  <2> DEFINE entry == [account |-> report, top10 |-> calls[m].top10]
  <2>3. [calls[m] EXCEPT !.account = report] = entry
    BY <1>1 DEF Calls
  <2>4. entry \in Calls /\ entry.account = report
    BY <1>1, <2>2 DEF Calls
  <2>5. calls' = [calls EXCEPT ![m] = entry]
    BY <2>1, <2>3, Zenon
  <2>6. UNCHANGED <<chain, rpcCache, solFetch, solCache>>
    BY <1>2 DEF AccountAnswers, world, solscan
  <2> HIDE DEF entry
  <2> QED
    BY <2>2, <2>4, <2>5, <2>6, CallsReplaced
<1>3. CASE BalancesAnswer(m)
  <2> DEFINE entry == [account |-> calls[m].account, top10 |-> chain[m].top10]
  <2>1. [calls[m] EXCEPT !.top10 = chain[m].top10] = entry
    BY <1>1 DEF Calls
  <2>2. entry \in Calls /\ entry.account = calls[m].account
    BY <1>1 DEF Calls, Mint
  <2>3. calls' = [calls EXCEPT ![m].top10 = chain[m].top10]
    BY <1>3 DEF BalancesAnswer
  <2>4. calls' = [calls EXCEPT ![m] = entry]
    BY <2>1, <2>3, Zenon
  <2>5. UNCHANGED <<chain, rpcCache, solFetch, solCache>>
    BY <1>3 DEF BalancesAnswer, world, solscan
  <2>6. entry.account # None => RevokedIn(entry.account) \subseteq chain[m].revoked
    BY <1>1, <2>2 DEF Truthful
  <2> HIDE DEF entry
  <2> QED
    BY <2>2, <2>4, <2>5, <2>6, CallsReplaced
<1>4. CASE RpcCompletes(m)
  <2> DEFINE facts == [top10 |-> calls[m].top10, revoked |-> RevokedIn(calls[m].account)]
  <2>1. rpcCache' = [rpcCache EXCEPT ![m] = facts] /\ calls[m].account # None
    BY <1>4 DEF RpcCompletes
  <2>2. UNCHANGED <<chain, calls, solFetch, solCache>>
    BY <1>4 DEF RpcCompletes, world, solscan
  <2>3. facts.revoked \subseteq chain[m].revoked
    BY <1>1, <2>1 DEF Truthful
  <2> HIDE DEF facts
  <2>4. Shaped'
    BY <2>1, <2>2 DEF RInv, Shaped
  <2>5. ASSUME NEW n \in Mints PROVE Truthful(n)'
    <3>1. rpcCache'[n] = IF n = m THEN facts ELSE rpcCache[n]
      BY <2>1 DEF RInv, Shaped
    <3> QED
      BY <2>2, <2>3, <3>1 DEF RInv, Truthful, RevokedIn
  <2> QED
    BY <2>4, <2>5 DEF RInv
<1> QED
  BY <1>2, <1>3, <1>4

\* The Solscan calls.
LEMMA SolscanTruthful ==
  ASSUME RInv, NEW m \in Mints,
         \/ MetaAnswers(m) \/ MetaFails(m) \/ BodyThrows(m)
         \/ HoldersAnswer(m) \/ ActivitiesAnswer(m)
  PROVE  RInv'
<1>1. solFetch[m] \in Fetch /\ chain[m] \in Mint /\ Truthful(m)
  BY DEF RInv, Shaped
<1>2. Idle \in Fetch /\ Idle.stage = "idle"
  BY DEF Idle, Fetch
<1>3. CASE MetaAnswers(m)
  <2>1. PICK report \in Reports(m) :
          solFetch' = [solFetch EXCEPT ![m] =
                         [stage |-> "holders", meta |-> report, top10 |-> None]]
    BY <1>3 DEF MetaAnswers
  <2>2. report \in Report /\ RevokedIn(report) \subseteq chain[m].revoked
    BY ReportsTrue
  <2> DEFINE entry == [stage |-> "holders", meta |-> report, top10 |-> None]
  <2>3. entry \in Fetch /\ entry.meta = report
    BY <2>2 DEF Fetch
  <2>4. solFetch' = [solFetch EXCEPT ![m] = entry]
    BY <2>1
  <2>5. UNCHANGED <<chain, calls, rpcCache, solCache>>
    BY <1>3 DEF MetaAnswers, world, rpc
  <2> HIDE DEF entry
  <2> QED
    BY <2>2, <2>3, <2>4, <2>5, FetchReplaced
<1>4. CASE MetaFails(m) \/ BodyThrows(m)
  <2>1. solFetch' = [solFetch EXCEPT ![m] = Idle]
    BY <1>4 DEF MetaFails, BodyThrows
  <2>2. UNCHANGED <<chain, calls, rpcCache, solCache>>
    BY <1>4 DEF MetaFails, BodyThrows, world, rpc
  <2> QED
    BY <1>2, <2>1, <2>2, FetchReplaced
<1>5. CASE HoldersAnswer(m)
  <2>1. PICK top10 \in {chain[m].top10, None} :
          solFetch' = [solFetch EXCEPT ![m] =
                         [stage |-> "activities", meta |-> solFetch[m].meta, top10 |-> top10]]
    BY <1>5 DEF HoldersAnswer
  <2> DEFINE entry == [stage |-> "activities", meta |-> solFetch[m].meta, top10 |-> top10]
  <2>2. entry \in Fetch /\ entry.meta = solFetch[m].meta
    BY <1>1 DEF Fetch, Mint
  <2>3. solFetch' = [solFetch EXCEPT ![m] = entry]
    BY <2>1
  <2>4. UNCHANGED <<chain, calls, rpcCache, solCache>>
    BY <1>5 DEF HoldersAnswer, world, rpc
  <2>5. RevokedIn(entry.meta) \subseteq chain[m].revoked
    BY <1>1, <1>5, <2>2 DEF HoldersAnswer, Truthful
  <2> HIDE DEF entry
  <2> QED
    BY <2>2, <2>3, <2>4, <2>5, FetchReplaced
<1>6. CASE ActivitiesAnswer(m)
  <2>1. PICK launches \in {None, 1} : solCache' = [solCache EXCEPT ![m] =
          [at |-> now,
           seed |-> [liquidity |-> 0, launches |-> launches, revoked |-> RevokedIn(solFetch[m].meta),
                     top10 |-> IF solFetch[m].top10 = None THEN 100 ELSE solFetch[m].top10]]]
    BY <1>6 DEF ActivitiesAnswer
  <2> DEFINE entry ==
        [at |-> now,
         seed |-> [liquidity |-> 0, launches |-> launches, revoked |-> RevokedIn(solFetch[m].meta),
                   top10 |-> IF solFetch[m].top10 = None THEN 100 ELSE solFetch[m].top10]]
  <2>2. solCache' = [solCache EXCEPT ![m] = entry]
    BY <2>1
  <2>3. entry.seed.revoked \subseteq chain[m].revoked
    BY <1>1, <1>6 DEF ActivitiesAnswer, Truthful
  <2>4. solFetch' = [solFetch EXCEPT ![m] = Idle] /\ UNCHANGED <<chain, calls, rpcCache>>
    BY <1>6 DEF ActivitiesAnswer, world, rpc
  <2> HIDE DEF entry
  <2>5. Shaped'
    BY <1>2, <2>2, <2>4 DEF RInv, Shaped
  <2>6. ASSUME NEW n \in Mints PROVE Truthful(n)'
    <3>1. /\ solCache'[n] = IF n = m THEN entry ELSE solCache[n]
          /\ solFetch'[n] = IF n = m THEN Idle ELSE solFetch[n]
      BY <2>2, <2>4 DEF RInv, Shaped
    <3> QED
      BY <1>2, <2>3, <2>4, <3>1 DEF RInv, Truthful, RevokedIn
  <2> QED
    BY <2>5, <2>6 DEF RInv
<1> QED
  BY <1>3, <1>4, <1>5, <1>6

\* An authority once revoked stays so.
LEMMA ChainTruthful == ASSUME RInv, NEW m \in Mints, ChainMoves(m) PROVE RInv'
<1>1. PICK after \in Mint : /\ chain[m].revoked \subseteq after.revoked
                            /\ chain' = [chain EXCEPT ![m] = after]
  BY DEF ChainMoves, Mint
<1>2. UNCHANGED <<calls, rpcCache, solFetch, solCache>>
  BY DEF ChainMoves, rpc, solscan
<1>3. Shaped'
  BY <1>1, <1>2 DEF RInv, Shaped
<1>4. ASSUME NEW n \in Mints PROVE Truthful(n)'
  <2>1. chain[n].revoked \subseteq chain'[n].revoked
    BY <1>1 DEF RInv, Shaped
  <2> QED
    BY <1>2, <2>1 DEF RInv, Truthful, RevokedIn
<1> QED
  BY <1>3, <1>4 DEF RInv

\* Every step keeps the invariant.
LEMMA StepTruthful == RInv /\ [Next]_vars => RInv'
<1> SUFFICES ASSUME RInv, [Next]_vars PROVE RInv'
  OBVIOUS
<1>1. CASE UNCHANGED vars
  BY <1>1, StutterTruthful DEF vars, world, rpc, solscan, sources
<1>2. ASSUME NEW m \in Mints, DexAnswers(m) \/ DexArrives(m) \/ DexFails(m) \/ RpcFails(m)
      PROVE  RInv'
  BY <1>2, StutterTruthful
     DEF DexAnswers, DexArrives, DexFails, RpcFails, world, rpc, solscan, sources
<1>3. ASSUME NEW k \in Mints \cup Facts, FunderLookup(k) \/ Settles(k) PROVE RInv'
  BY <1>3, StutterTruthful DEF FunderLookup, Settles, world, rpc, solscan, sources
<1>4. CASE TimePasses
  BY <1>4, StutterTruthful DEF TimePasses, world, rpc, solscan, sources
<1> QED
  BY <1>1, <1>2, <1>3, <1>4, TradeTruthful, RpcTruthful, SolscanTruthful, ChainTruthful DEF Next

\* Whichever provider is chosen, and whatever answers are lost, malformed or late:
\* what is served as revoked is revoked.
THEOREM ServedRevocationsAreReal == Spec => []RevokedIsReal
<1> QED
  BY InitTruthful, StepTruthful, InvariantImplies, PTL DEF Spec
-----------------------------------------------------------------------------
(* What is cached as measured was measured by the refresh that caches it.  *)
(* Only one kind of refresh runs in a deployment, so a refresh that starts *)
(* has nothing of an earlier one beside it.                                *)

\* What the refresh under way has read of m's concentration was true since it began.
ReadSince(m) ==
  /\ chain[m].top10 \in since[m]
  /\ refresh[m] = "open" /\ calls[m].top10 # None => calls[m].top10 \in since[m]
  /\ solFetch[m].stage # "idle" /\ solFetch[m].top10 # None => solFetch[m].top10 \in since[m]
  /\ provider # "dexscreener+rpc" => refresh[m] = "idle"
  /\ provider # "solscan" => solFetch[m] = Idle

MInv ==
  /\ refresh \in [Keys -> {"idle", "open", "settled"}]
  /\ DOMAIN since = Mints /\ since = [m \in Mints |-> since[m]]
  /\ \A m \in Mints : ReadSince(m)

\* Mints are keys, of refreshes and of nothing else.
LEMMA MintsAreKeys == Mints \subseteq Keys /\ Facts \subseteq Keys /\ Mints \cap Facts = {}
BY MetadataAssumption DEF Keys

\* Nothing has been read at the start.
LEMMA InitMeasured == Init => MInv
<1> SUFFICES ASSUME Init PROVE MInv
  OBVIOUS
<1>1. refresh = [k \in Keys |-> "idle"]
  BY DEF Init, GovernorInit
<1>2. ASSUME NEW m \in Mints PROVE ReadSince(m)
  <2>1. refresh[m] = "idle" /\ solFetch[m] = Idle /\ since[m] = {chain[m].top10}
    BY <1>1, MintsAreKeys DEF Init
  <2> QED
    BY <2>1 DEF ReadSince, Idle
<1> QED
  BY <1>1, <1>2 DEF Init, MInv

\* A refresh that ends, or one of another key, leaves what the others have read.
LEMMA QuietMeasured ==
  ASSUME MInv, refresh' \in [Keys -> {"idle", "open", "settled"}],
         \A m \in Mints : /\ refresh'[m] = "open" => refresh[m] = "open"
                          /\ refresh[m] = "idle" => refresh'[m] = "idle",
         UNCHANGED <<provider, chain, since, calls, solFetch>>
  PROVE  MInv'
<1>1. ASSUME NEW m \in Mints PROVE ReadSince(m)'
  BY DEF MInv, ReadSince
<1> QED
  BY <1>1 DEF MInv

\* A step that leaves these variables alone keeps the invariant.
LEMMA StutterMeasured ==
  ASSUME MInv, UNCHANGED <<provider, chain, since, calls, solFetch, refresh>>
  PROVE  MInv'
BY QuietMeasured DEF MInv

\* An answer of the RPC calls is true of the chain as it is.
LEMMA CallsMeasured ==
  ASSUME RInv, MInv, NEW m \in Mints, AccountAnswers(m) \/ BalancesAnswer(m)
  PROVE  MInv'
<1>1. UNCHANGED <<provider, chain, since, solFetch, refresh>>
  BY DEF AccountAnswers, BalancesAnswer, world, governor, solscan
<1>2. calls'[m].top10 \in {calls[m].top10, chain[m].top10}
  BY DEF AccountAnswers, BalancesAnswer, RInv, Shaped, Calls
<1>3. \A n \in Mints : n # m => calls'[n] = calls[n]
  BY DEF AccountAnswers, BalancesAnswer, RInv, Shaped
<1>4. ASSUME NEW n \in Mints PROVE ReadSince(n)'
  BY <1>1, <1>2, <1>3 DEF MInv, ReadSince
<1> QED
  BY <1>1, <1>4 DEF MInv

\* The ends of refreshes, and the lookups of funders, which are of other keys.
LEMMA GovernorMeasured ==
  ASSUME MInv,
         \/ \E m \in Mints : RpcCompletes(m) \/ RpcFails(m)
         \/ \E k \in Facts : FunderLookup(k)
         \/ \E k \in Mints \cup Facts : Settles(k)
  PROVE  MInv'
<1>1. UNCHANGED <<provider, chain, since, calls, solFetch>>
  BY DEF RpcCompletes, RpcFails, FunderLookup, Settles, world, rpc, solscan
<1> DEFINE Changed(k) ==
             \/ k \in Facts /\ refresh' = [refresh EXCEPT ![k] = "open"]
             \/ refresh[k] = "open" /\ refresh' = [refresh EXCEPT ![k] = "settled"]
             \/ refresh' = [refresh EXCEPT ![k] = "idle"]
<1>2. PICK k \in Keys : Changed(k)
  <2>1. ASSUME NEW m \in Mints, RpcCompletes(m) \/ RpcFails(m) PROVE Changed(m)
    BY <2>1 DEF RpcCompletes, RpcFails, Succeed, Fail
  <2>2. ASSUME NEW k \in Facts, FunderLookup(k) PROVE Changed(k)
    BY <2>2 DEF FunderLookup, Read, Succeed, Fail
  <2>3. ASSUME NEW k \in Mints \cup Facts, Settles(k) PROVE Changed(k)
    BY <2>3 DEF Settles, Release
  <2> HIDE DEF Changed
  <2> QED
    BY <2>1, <2>2, <2>3, MintsAreKeys
<1>3. refresh' \in [Keys -> {"idle", "open", "settled"}]
  BY <1>2 DEF MInv
<1>4. \A m \in Mints : /\ refresh'[m] = "open" => refresh[m] = "open"
                       /\ refresh[m] = "idle" => refresh'[m] = "idle"
  BY <1>2, MintsAreKeys DEF MInv
<1> QED
  BY <1>1, <1>3, <1>4, QuietMeasured

\* The Solscan refresh under way reads on, or ends.
LEMMA SolscanMeasured ==
  ASSUME RInv, MInv, NEW m \in Mints,
         \/ MetaAnswers(m) \/ MetaFails(m) \/ BodyThrows(m)
         \/ HoldersAnswer(m) \/ ActivitiesAnswer(m)
  PROVE  MInv'
<1>1. UNCHANGED <<provider, chain, since, calls, refresh>>
  BY DEF MetaAnswers, MetaFails, BodyThrows, HoldersAnswer, ActivitiesAnswer, world, governor, rpc
<1>2. provider = "solscan"
  <2>1. solFetch[m].stage # "idle"
    BY DEF MetaAnswers, MetaFails, BodyThrows, HoldersAnswer, ActivitiesAnswer
  <2> QED
    BY <2>1 DEF MInv, ReadSince, Idle
<1>3. /\ solFetch'[m] = Idle \/ solFetch'[m].top10 \in {None, chain[m].top10}
      /\ \A n \in Mints : n # m => solFetch'[n] = solFetch[n]
  BY DEF MetaAnswers, MetaFails, BodyThrows, HoldersAnswer, ActivitiesAnswer, RInv, Shaped
<1>4. ASSUME NEW n \in Mints PROVE ReadSince(n)'
  BY <1>1, <1>2, <1>3 DEF MInv, ReadSince, Idle
<1> QED
  BY <1>1, <1>4 DEF MInv

\* The chain moves, and what it was stays remembered.
LEMMA ChainMeasured == ASSUME RInv, MInv, NEW m \in Mints, ChainMoves(m) PROVE MInv'
<1>1. PICK after \in Mint : /\ chain' = [chain EXCEPT ![m] = after]
                            /\ since' = [since EXCEPT ![m] = @ \cup {after.top10}]
  BY DEF ChainMoves, Mint
<1>2. UNCHANGED <<provider, calls, solFetch, refresh>>
  BY DEF ChainMoves, governor, rpc, solscan
<1>3. ASSUME NEW n \in Mints
      PROVE  since[n] \subseteq since'[n] /\ chain'[n].top10 \in {chain[n].top10} \cup since'[n]
  BY <1>1 DEF MInv, RInv, Shaped
<1>4. ASSUME NEW n \in Mints PROVE ReadSince(n)'
  BY <1>2, <1>3 DEF MInv, ReadSince
<1>5. since' = [n \in Mints |-> since'[n]] /\ DOMAIN since' = Mints
  BY <1>1 DEF MInv
<1> QED
  BY <1>2, <1>4, <1>5 DEF MInv

\* A trade's read may start a refresh, which has read nothing yet.
LEMMA TradeMeasured == ASSUME RInv, MInv, NEW m \in Mints, Trade(m) PROVE MInv'
<1> DEFINE started == ~(refresh' = refresh /\ solFetch' = solFetch)
<1>1. /\ UNCHANGED <<provider, chain>>
      /\ since' = [since EXCEPT ![m] = IF started THEN {chain[m].top10} ELSE since[m]]
  BY DEF Trade
<1>2. m \in Keys /\ refresh \in [Keys -> {"idle", "open", "settled"}] /\ solFetch[m] \in Fetch
  BY MintsAreKeys DEF MInv, RInv, Shaped
<1>3. \/ UNCHANGED <<refresh, calls>>
      \/ /\ provider = "dexscreener+rpc"
         /\ refresh' = [refresh EXCEPT ![m] = "open"] /\ refresh[m] = "idle"
         /\ calls' = [calls EXCEPT ![m] = NoCalls]
  BY DEF Trade, TriggerRpc, Read, MayStart, governor
<1>4. \/ solFetch' = solFetch
      \/ /\ provider = "solscan" /\ solFetch[m] = Idle
         /\ solFetch' = [solFetch EXCEPT ![m].stage = "meta"]
  BY DEF Trade, TriggerSolscan
<1>5. refresh' \in [Keys -> {"idle", "open", "settled"}]
  BY <1>2, <1>3
<1>6. ASSUME NEW n \in Mints, n # m PROVE ReadSince(n)'
  <2>1. /\ since'[n] = since[n] /\ refresh'[n] = refresh[n]
        /\ calls'[n] = calls[n] /\ solFetch'[n] = solFetch[n]
    BY <1>1, <1>2, <1>3, <1>4, <1>6, MintsAreKeys DEF MInv, RInv, Shaped
  <2> QED
    BY <1>1, <2>1 DEF MInv, ReadSince
<1>7. ReadSince(m)'
  <2>1. CASE UNCHANGED <<refresh, calls, solFetch>>
    <3>1. since'[m] = since[m]
      BY <1>1, <2>1 DEF MInv
    <3> QED
      BY <1>1, <2>1, <3>1 DEF MInv, ReadSince
  <2>2. CASE ~UNCHANGED <<refresh, calls>>
    <3>1. /\ provider = "dexscreener+rpc" /\ refresh[m] = "idle" /\ refresh'[m] = "open"
          /\ calls'[m] = NoCalls /\ solFetch' = solFetch
      BY <1>2, <1>3, <1>4, <2>2 DEF RInv, Shaped
    <3>2. since'[m] = {chain[m].top10}
      BY <1>1, <3>1 DEF MInv
    <3>3. solFetch[m] = Idle
      BY <3>1 DEF MInv, ReadSince
    <3> QED
      BY <1>1, <3>1, <3>2, <3>3 DEF ReadSince, NoCalls, Idle
  <2>3. CASE UNCHANGED <<refresh, calls>> /\ solFetch' # solFetch
    <3>1. provider = "solscan" /\ solFetch'[m].stage = "meta" /\ solFetch'[m].top10 = None
      BY <1>4, <2>3 DEF RInv, Shaped, Fetch, Idle
    <3>2. since'[m] = {chain[m].top10}
      BY <1>1, <2>3 DEF MInv
    <3>3. refresh[m] = "idle"
      BY <3>1 DEF MInv, ReadSince
    <3> QED
      BY <1>1, <2>3, <3>1, <3>2, <3>3 DEF ReadSince
  <2> QED
    BY <2>1, <2>2, <2>3
<1>8. since' = [n \in Mints |-> since'[n]] /\ DOMAIN since' = Mints
  BY <1>1 DEF MInv
<1> QED
  BY <1>5, <1>6, <1>7, <1>8 DEF MInv

\* Every step keeps the invariant.
LEMMA StepMeasured == RInv /\ MInv /\ [Next]_vars => MInv'
<1> SUFFICES ASSUME RInv, MInv, [Next]_vars PROVE MInv'
  OBVIOUS
<1>1. CASE UNCHANGED vars
  BY <1>1, StutterMeasured DEF vars, world, governor, rpc, solscan
<1>2. ASSUME NEW m \in Mints, DexAnswers(m) \/ DexArrives(m) \/ DexFails(m) PROVE MInv'
  BY <1>2, StutterMeasured DEF DexAnswers, DexArrives, DexFails, world, governor, rpc, solscan
<1>3. CASE TimePasses
  BY <1>3, StutterMeasured DEF TimePasses, Tick, world, rpc, solscan
<1> QED
  BY <1>1, <1>2, <1>3, CallsMeasured, GovernorMeasured, SolscanMeasured, ChainMeasured,
     TradeMeasured DEF Next

\* A step that caches a concentration caches what its refresh has read.
LEMMA StepCaches ==
  ASSUME RInv, MInv, [Next]_vars, NEW m \in Mints
  PROVE  /\ rpcCache'[m] # rpcCache[m] => rpcCache'[m].top10 \in since[m]
         /\ solCache'[m] # solCache[m] => solCache'[m].seed.top10 \in since[m] \cup {Unknown.top10}
<1>1. ASSUME rpcCache'[m] # rpcCache[m] PROVE rpcCache'[m].top10 \in since[m]
  <2>1. PICK n \in Mints : RpcCompletes(n)
    BY <1>1 DEF Next, vars, rpc, Trade, ChainMoves, DexAnswers, DexArrives, DexFails, AccountAnswers,
                BalancesAnswer, RpcFails, MetaAnswers, MetaFails, BodyThrows, HoldersAnswer,
                ActivitiesAnswer, FunderLookup, Settles, TimePasses
  <2>2. n = m /\ rpcCache'[m].top10 = calls[m].top10
    BY <1>1, <2>1 DEF RpcCompletes, RInv, Shaped
  <2>3. refresh[m] = "open" /\ calls[m].top10 # None
    BY <2>1, <2>2 DEF RpcCompletes, Succeed
  <2> QED
    BY <2>2, <2>3 DEF MInv, ReadSince
<1>2. ASSUME solCache'[m] # solCache[m]
      PROVE  solCache'[m].seed.top10 \in since[m] \cup {Unknown.top10}
  <2>1. PICK n \in Mints : ActivitiesAnswer(n)
    BY <1>2 DEF Next, vars, solscan, Trade, ChainMoves, DexAnswers, DexArrives, DexFails, AccountAnswers,
                BalancesAnswer, RpcCompletes, RpcFails, MetaAnswers, MetaFails, BodyThrows,
                HoldersAnswer, FunderLookup, Settles, TimePasses
  <2>2. n = m /\ solCache'[m].seed.top10 = IF solFetch[m].top10 = None THEN 100 ELSE solFetch[m].top10
    BY <1>2, <2>1 DEF ActivitiesAnswer, RInv, Shaped
  <2>3. solFetch[m].stage # "idle"
    BY <2>1, <2>2 DEF ActivitiesAnswer
  <2> QED
    BY <2>2, <2>3 DEF MInv, ReadSince, Unknown
<1> QED
  BY <1>1, <1>2

\* No retry mixes in what a failed attempt had read, and no concentration is cached
\* that the mint has not had since the refresh began.
THEOREM RefreshesMeasure == Spec => MeasuredByItsRefresh
<1>1. RInv /\ MInv /\ [Next]_vars =>
        [\A m \in Mints :
           /\ rpcCache'[m] # rpcCache[m] => rpcCache'[m].top10 \in since[m]
           /\ solCache'[m] # solCache[m] =>
                solCache'[m].seed.top10 \in since[m] \cup {Unknown.top10}]_vars
  BY StepCaches
<1> QED
  BY <1>1, InitTruthful, StepTruthful, InitMeasured, StepMeasured, PTL DEF Spec, MeasuredByItsRefresh
-----------------------------------------------------------------------------
(* A rug needs answers.  What is served of a pool's liquidity was answered *)
(* by DexScreener, or is the zero of a mint nobody has answered for; and   *)
(* once an answer has raised the peak, that zero is never served again,    *)
(* because an entry of the cache is replaced but never dropped.            *)

DexFetch == [stage : {"idle", "sent", "answered"}, liquidity : Nat]
DexEntry == [liquidity : Nat, at : Nat]

\* The shapes of what the liquidity passes through.
Piped ==
  /\ now \in Nat
  /\ chain \in [Mints -> [pool : Liquidities, top10 : Tops, revoked : SUBSET Authorities]]
  /\ dexFetch \in [Mints -> DexFetch]
  /\ dexCache \in [Mints -> DexEntry \cup {None}]
  /\ DOMAIN solCache = Mints /\ solCache = [m \in Mints |-> solCache[m]]
  /\ DOMAIN peak = Mints /\ peak = [m \in Mints |-> peak[m]]
  /\ DOMAIN answered = Mints /\ answered = [m \in Mints |-> answered[m]]

\* The liquidity of m on its way, in the cache or remembered was answered.
Heard(m) ==
  /\ dexFetch[m].stage = "answered" => dexFetch[m].liquidity \in answered[m]
  /\ dexCache[m] # None => dexCache[m].liquidity \in answered[m]
  /\ solCache[m] # None => solCache[m].seed.liquidity = 0
  /\ peak[m] = 0 \/ (peak[m] \in answered[m] /\ provider # "solscan" /\ dexCache[m] # None)

LInv == Piped /\ (\A m \in Mints : Heard(m)) /\ rugged \subseteq Mints /\ RugNeedsAnswers

\* What the read serves is the cached answer, or the zero of the unknown seed.
LEMMA ServedLiquidity ==
  ASSUME LInv, NEW m \in Mints
  PROVE  Served(m).liquidity =
           IF provider = "solscan" \/ dexCache[m] = None THEN 0 ELSE dexCache[m].liquidity
<1>1. Heard(m)
  BY DEF LInv
<1>2. CASE provider = "solscan"
  BY <1>1, <1>2 DEF Served, Unknown, Heard
<1>3. CASE provider # "solscan"
  BY <1>3 DEF Served, Unknown
<1> QED
  BY <1>2, <1>3

\* An answer's liquidity is a number, whichever pairs it carries.
LEMMA AnswerIsNumber ==
  ASSUME LInv, NEW m \in Mints, NEW pairs \in Answers(m)
  PROVE  LiquidityIn(pairs) \in Nat
<1>1. CASE pairs = {}
  BY <1>1 DEF LiquidityIn, Unknown
<1>2. CASE pairs # {}
  <2> DEFINE candidates == IF \E p \in pairs : p.solana THEN {p \in pairs : p.solana} ELSE pairs
             amounts == {p.usd : p \in candidates}
  <2>1. PICK p \in Pairs, q \in Pairs : pairs = {p, q}
    BY <1>2 DEF Answers
  <2>2. p.usd \in Nat /\ q.usd \in Nat
    BY MetadataAssumption DEF Pairs
  <2>3. candidates = {p} \/ candidates = {q} \/ candidates = {p, q}
    BY <2>1
  <2>4. amounts = {p.usd} \/ amounts = {q.usd} \/ amounts = {p.usd, q.usd}
    BY <2>3
  <2> HIDE DEF amounts, candidates
  <2>5. \E x \in amounts : \A y \in amounts : x >= y
    BY <2>2, <2>4
  <2>6. Max(amounts) \in amounts
    BY <2>5 DEF Max
  <2>7. LiquidityIn(pairs) = Max(amounts)
    BY <1>2 DEF LiquidityIn, amounts, candidates
  <2> QED
    BY <2>2, <2>4, <2>6, <2>7
<1> QED
  BY <1>1, <1>2

\* Nothing is on its way at the start.
LEMMA InitHeard == Init => LInv
<1> SUFFICES ASSUME Init PROVE LInv
  OBVIOUS
<1>1. NoFetch \in DexFetch /\ NoFetch.stage = "idle"
  BY DEF NoFetch, DexFetch
<1>2. now = 0
  BY DEF Init, GovernorInit
<1>3. Piped
  BY <1>1, <1>2 DEF Init, Piped
<1>4. ASSUME NEW m \in Mints PROVE Heard(m)
  BY <1>1 DEF Init, Heard
<1> QED
  BY <1>3, <1>4 DEF Init, LInv, RugNeedsAnswers

\* The clock only ticks.
LEMMA ClockIsNumber == ASSUME LInv, [Next]_vars PROVE now' \in Nat
<1>1. now' = now \/ now' = now + 1
  <2>1. [GovernorNext]_governor
    BY StepRefines
  <2> QED
    BY <2>1 DEF GovernorNext, governor, Read, Succeed, Fail, Release, Tick
<1> QED
  BY <1>1 DEF LInv, Piped

\* The invariant only reads these variables, and the clock as a number.
LEMMA StutterHeard ==
  ASSUME LInv, now' \in Nat, UNCHANGED <<provider, chain, dex, solCache, collector>>
  PROVE  LInv'
BY DEF LInv, Piped, Heard, RugNeedsAnswers, dex, collector

\* The trade's read: a call may leave; the peak and the verdict follow what is served.
LEMMA TradeHeard ==
  ASSUME LInv, NEW m \in Mints, Trade(m), now' \in Nat
  PROVE  LInv'
<1> DEFINE liquidity == Served(m).liquidity
           highest   == IF liquidity > peak[m] THEN liquidity ELSE peak[m]
<1>1. /\ peak' = [peak EXCEPT ![m] = highest]
      /\ rugged' = rugged \cup IF highest > 0 /\ 2 * liquidity < highest THEN {m} ELSE {}
      /\ UNCHANGED <<provider, chain, dexCache, answered, solCache>>
  BY DEF Trade, world
<1>2. dexFetch[m] \in DexFetch /\ Heard(m)
  BY DEF LInv, Piped
<1> DEFINE entry == [stage |-> "sent", liquidity |-> dexFetch[m].liquidity]
<1>3. [dexFetch[m] EXCEPT !.stage = "sent"] = entry
  BY <1>2 DEF DexFetch
<1>4. entry \in DexFetch /\ entry.stage = "sent"
  BY <1>2 DEF DexFetch
<1>5. dexFetch' = [dexFetch EXCEPT ![m] = entry] \/ dexFetch' = dexFetch
  <2>1. CASE provider # "solscan" /\ Stale(dexCache[m]) /\ dexFetch[m] = NoFetch
    <3>1. dexFetch' = [dexFetch EXCEPT ![m].stage = "sent"]
      BY <2>1 DEF Trade, TriggerDex
    <3> QED
      BY <3>1, <1>3, Zenon
  <2>2. CASE ~(provider # "solscan" /\ Stale(dexCache[m]) /\ dexFetch[m] = NoFetch)
    BY <2>2 DEF Trade, TriggerDex
  <2> QED
    BY <2>1, <2>2
<1>6. liquidity = IF provider = "solscan" \/ dexCache[m] = None THEN 0 ELSE dexCache[m].liquidity
  BY ServedLiquidity
<1> HIDE DEF entry, liquidity
<1>7. Piped'
  BY <1>1, <1>4, <1>5 DEF LInv, Piped
<1>8. \/ highest = 0
      \/ /\ highest \in answered[m] /\ liquidity \in answered[m]
         /\ provider # "solscan" /\ dexCache[m] # None
  BY <1>2, <1>6 DEF Heard
<1> HIDE DEF highest
<1>9. ASSUME NEW n \in Mints PROVE Heard(n)'
  <2>1. dexFetch'[n] = dexFetch[n] \/ dexFetch'[n].stage = "sent"
    BY <1>4, <1>5 DEF LInv, Piped
  <2>2. peak'[n] = IF n = m THEN highest ELSE peak[n]
    BY <1>1 DEF LInv, Piped
  <2> QED
    BY <1>1, <1>8, <2>1, <2>2 DEF LInv, Heard
<1>10. RugNeedsAnswers'
  <2>1. ASSUME highest > 0, 2 * liquidity < highest
        PROVE  \E high, low \in answered[m] : 2 * low < high
    BY <1>8, <2>1
  <2> QED
    BY <1>1, <2>1 DEF LInv, RugNeedsAnswers
<1> QED
  BY <1>1, <1>7, <1>9, <1>10 DEF LInv

\* An answer leaves the service, arrives, or is lost.
LEMMA DexHeard ==
  ASSUME LInv, NEW m \in Mints, DexAnswers(m) \/ DexArrives(m) \/ DexFails(m), now' \in Nat
  PROVE  LInv'
<1>1. dexFetch[m] \in DexFetch /\ Heard(m)
  BY DEF LInv, Piped
<1>2. UNCHANGED <<provider, chain, solCache, peak, rugged>>
  BY DEF DexAnswers, DexArrives, DexFails, world, solscan, collector
<1>3. NoFetch \in DexFetch /\ NoFetch.stage = "idle"
  BY DEF NoFetch, DexFetch
<1>4. CASE DexAnswers(m)
  <2>1. PICK pairs \in Answers(m) :
          /\ dexFetch' = [dexFetch EXCEPT ![m] =
                            [stage |-> "answered", liquidity |-> LiquidityIn(pairs)]]
          /\ answered' = [answered EXCEPT ![m] = @ \cup {LiquidityIn(pairs)}]
    BY <1>4 DEF DexAnswers
  <2>2. LiquidityIn(pairs) \in Nat /\ UNCHANGED dexCache
    BY <1>4, AnswerIsNumber DEF DexAnswers
  <2>3. Piped'
    BY <1>2, <2>1, <2>2 DEF LInv, Piped, DexFetch
  <2>4. \A n \in Mints : answered[n] \subseteq answered'[n]
    BY <2>1 DEF LInv, Piped
  <2>5. ASSUME NEW n \in Mints PROVE Heard(n)'
    <3>1. CASE n = m
      <4>1. dexFetch'[m].liquidity \in answered'[m]
        BY <2>1 DEF LInv, Piped
      <4> QED
        BY <1>1, <1>2, <2>2, <2>4, <3>1, <4>1 DEF Heard
    <3>2. CASE n # m
      <4>1. dexFetch'[n] = dexFetch[n]
        BY <2>1, <3>2 DEF LInv, Piped
      <4> QED
        BY <1>2, <2>2, <2>4, <4>1 DEF LInv, Heard
    <3> QED
      BY <3>1, <3>2
  <2>6. RugNeedsAnswers'
    BY <1>2, <2>4 DEF LInv, RugNeedsAnswers
  <2> QED
    BY <1>2, <2>3, <2>5, <2>6 DEF LInv
<1>5. CASE DexArrives(m)
  <2> DEFINE entry == [liquidity |-> dexFetch[m].liquidity, at |-> now]
  <2>1. /\ dexFetch[m].stage = "answered"
        /\ dexCache' = [dexCache EXCEPT ![m] = entry]
        /\ dexFetch' = [dexFetch EXCEPT ![m] = NoFetch]
        /\ UNCHANGED answered
    BY <1>5 DEF DexArrives
  <2>2. entry \in DexEntry /\ entry # None /\ entry.liquidity \in answered[m]
    BY <1>1, <2>1, MetadataAssumption DEF LInv, Piped, DexFetch, DexEntry, Heard
  <2> HIDE DEF entry
  <2>3. Piped'
    BY <1>2, <1>3, <2>1, <2>2 DEF LInv, Piped
  <2>4. ASSUME NEW n \in Mints PROVE Heard(n)'
    <3>1. /\ dexFetch'[n] = IF n = m THEN NoFetch ELSE dexFetch[n]
          /\ dexCache'[n] = IF n = m THEN entry ELSE dexCache[n]
      BY <2>1 DEF LInv, Piped
    <3> QED
      BY <1>2, <1>3, <2>1, <2>2, <3>1 DEF LInv, Heard
  <2> QED
    BY <1>2, <2>1, <2>3, <2>4 DEF LInv, RugNeedsAnswers
<1>6. CASE DexFails(m)
  <2>1. dexFetch' = [dexFetch EXCEPT ![m] = NoFetch] /\ UNCHANGED <<dexCache, answered>>
    BY <1>6 DEF DexFails
  <2>2. Piped'
    BY <1>2, <1>3, <2>1 DEF LInv, Piped
  <2>3. ASSUME NEW n \in Mints PROVE Heard(n)'
    <3>1. dexFetch'[n] = IF n = m THEN NoFetch ELSE dexFetch[n]
      BY <2>1 DEF LInv, Piped
    <3> QED
      BY <1>2, <1>3, <2>1, <3>1 DEF LInv, Heard
  <2> QED
    BY <1>2, <2>1, <2>2, <2>3 DEF LInv, RugNeedsAnswers
<1> QED
  BY <1>4, <1>5, <1>6

\* Solscan knows no liquidity.
LEMMA SolscanHeard ==
  ASSUME LInv, NEW m \in Mints, ActivitiesAnswer(m), now' \in Nat
  PROVE  LInv'
<1>1. PICK launches \in {None, 1} : solCache' = [solCache EXCEPT ![m] =
        [at |-> now,
         seed |-> [liquidity |-> 0, launches |-> launches, revoked |-> RevokedIn(solFetch[m].meta),
                   top10 |-> IF solFetch[m].top10 = None THEN 100 ELSE solFetch[m].top10]]]
  BY DEF ActivitiesAnswer
<1>2. UNCHANGED <<provider, chain, dexFetch, dexCache, answered, peak, rugged>>
  BY DEF ActivitiesAnswer, world, dex, collector
<1>3. Piped'
  BY <1>1, <1>2 DEF LInv, Piped
<1>4. ASSUME NEW n \in Mints PROVE Heard(n)'
  <2>1. solCache'[n] = solCache[n] \/ solCache'[n].seed.liquidity = 0
    BY <1>1 DEF LInv, Piped
  <2> QED
    BY <1>2, <2>1 DEF LInv, Heard
<1> QED
  BY <1>2, <1>3, <1>4 DEF LInv, RugNeedsAnswers

\* The pool moves.
LEMMA ChainHeard == ASSUME LInv, NEW m \in Mints, ChainMoves(m), now' \in Nat PROVE LInv'
<1>1. PICK after \in [pool : Liquidities, top10 : Tops, revoked : SUBSET Authorities] :
        chain' = [chain EXCEPT ![m] = after]
  BY DEF ChainMoves
<1>2. UNCHANGED <<provider, dexFetch, dexCache, answered, solCache, peak, rugged>>
  BY DEF ChainMoves, dex, solscan, collector
<1>3. Piped'
  BY <1>1, <1>2 DEF LInv, Piped
<1>4. ASSUME NEW n \in Mints PROVE Heard(n)'
  BY <1>2 DEF LInv, Heard
<1> QED
  BY <1>2, <1>3, <1>4 DEF LInv, RugNeedsAnswers

\* Every step keeps the invariant.
LEMMA StepHeard == LInv /\ [Next]_vars => LInv'
<1> SUFFICES ASSUME LInv, [Next]_vars PROVE LInv'
  OBVIOUS
<1>0. now' \in Nat
  BY ClockIsNumber
<1>1. CASE UNCHANGED vars
  BY <1>0, <1>1, StutterHeard DEF vars, world, solscan
<1>2. ASSUME NEW m \in Mints,
             \/ AccountAnswers(m) \/ BalancesAnswer(m) \/ RpcCompletes(m) \/ RpcFails(m)
             \/ MetaAnswers(m) \/ MetaFails(m) \/ BodyThrows(m) \/ HoldersAnswer(m)
      PROVE  LInv'
  BY <1>0, <1>2, StutterHeard
     DEF AccountAnswers, BalancesAnswer, RpcCompletes, RpcFails, MetaAnswers, MetaFails,
         BodyThrows, HoldersAnswer, world, solscan
<1>3. ASSUME NEW k \in Mints \cup Facts, FunderLookup(k) \/ Settles(k) PROVE LInv'
  BY <1>0, <1>3, StutterHeard DEF FunderLookup, Settles, world, solscan
<1>4. CASE TimePasses
  BY <1>0, <1>4, StutterHeard DEF TimePasses, world, solscan
<1> QED
  BY <1>0, <1>1, <1>2, <1>3, <1>4, TradeHeard, DexHeard, SolscanHeard, ChainHeard DEF Next

\* Lost calls, late answers and stale entries alone never flag a rug: DexScreener
\* has answered with less than half of what it had answered before.
THEOREM RugsNeedAnswers == Spec => []RugNeedsAnswers
<1>1. LInv => RugNeedsAnswers
  BY DEF LInv
<1> QED
  BY <1>1, InitHeard, StepHeard, PTL DEF Spec
=============================================================================
