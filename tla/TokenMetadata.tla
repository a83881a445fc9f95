---------------------------- MODULE TokenMetadata ----------------------------
(***************************************************************************)
(* Where a token's liquidity, holder concentration and authorities come    *)
(* from: DexScreener, Solana RPC through the composite provider and the    *)
(* shared RpcRefreshGovernor, or Solscan, whichever the deployment has     *)
(* chosen; and the read on every trade, which serves the cached seed,      *)
(* starts the refreshes that are due, and judges rugs by what is served.   *)
(*                                                                         *)
(* The chain moves on while answers travel, services fail, answer with     *)
(* fields missing, or do not answer.  An authority once revoked stays so.  *)
(* holderCount and marketCap, which nothing decides on, are left out.      *)
(***************************************************************************)
EXTENDS RpcRefreshGovernor, FiniteSetsExt

CONSTANTS
  Authorities,   \* "mint" and "freeze"
  Liquidities,   \* liquidity of a pool
  Tops,          \* percent of the supply the ten largest accounts hold
  None,          \* no pool, no entry, no answer
  MaxChanges     \* bound: changes on the chain

\* A missing entry is none of the entries a cache may hold, and the keys of facts
\* carry a prefix that no mint has.
ASSUME MetadataAssumption ==
  /\ Mints \cap Facts = {}
  /\ Liquidities \subseteq Nat
  /\ None \notin [liquidity : Nat, at : Nat]

VARIABLES
  provider,      \* TOKEN_DATA_PROVIDER
  chain,         \* [Mints -> what is true of the mint]
  changes,
  since,         \* history: [Mints -> concentrations it has had since its last refresh began]
  dexFetch,      \* [Mints -> the stage of the call, and its answer on the way]
  dexCache,      \* [Mints -> None, or [liquidity, at]]
  calls,         \* [Mints -> the answers of the three RPC calls]
  rpcCache,      \* [Mints -> None, or RpcTokenFacts]
  solFetch,      \* [Mints -> the stage of the Solscan refresh and what it has]
  solCache,      \* [Mints -> None, or [top10, revoked, launches, at]]
  unhandled,     \* refreshes that rejected with nobody to catch it
  peak, rugged,  \* TokenStatsCollector: peakLiquidityUsd, RuggedTokenRegistry
  answered       \* history: [Mints -> liquidities DexScreener has answered]

dex == <<dexFetch, dexCache, answered>>
rpc == <<calls, rpcCache>>
solscan == <<solFetch, solCache, unhandled>>
world == <<provider, chain, changes, since>>
collector == <<peak, rugged>>
vars == <<governor, world, dex, rpc, solscan, collector>>

\* conservativeUnknownSeed: what is unknown reads as the worst case
Unknown == [liquidity |-> 0, top10 |-> 100, revoked |-> {}, launches |-> None]

NoFetch == [stage |-> "idle", liquidity |-> 0]
NoCalls == [account |-> None, top10 |-> None]
Idle == [stage |-> "idle", meta |-> None, top10 |-> None]

Init ==
  /\ GovernorInit
  /\ provider \in {"dexscreener", "dexscreener+rpc", "solscan"}
  /\ chain \in [Mints -> [pool : Liquidities, top10 : Tops, revoked : {{}}]]
  /\ changes = 0 /\ since = [m \in Mints |-> {chain[m].top10}]
  /\ dexFetch = [m \in Mints |-> NoFetch] /\ dexCache = [m \in Mints |-> None]
  /\ calls = [m \in Mints |-> NoCalls] /\ rpcCache = [m \in Mints |-> None]
  /\ solFetch = [m \in Mints |-> Idle] /\ solCache = [m \in Mints |-> None]
  /\ unhandled = 0
  /\ peak = [m \in Mints |-> 0] /\ rugged = {}
  /\ answered = [m \in Mints |-> {}]
-----------------------------------------------------------------------------
(* The read: get() of the provider, on every trade.                        *)

\* field by field: liquidity from DexScreener, the rest from RPC, or all from Solscan
Served(m) ==
  CASE provider = "solscan" -> IF solCache[m] = None THEN Unknown ELSE solCache[m].seed
    [] OTHER -> [Unknown EXCEPT
         !.liquidity = IF dexCache[m] = None THEN @ ELSE dexCache[m].liquidity,
         !.top10     = IF rpcCache[m] = None THEN @ ELSE rpcCache[m].top10,
         !.revoked   = IF rpcCache[m] = None THEN @ ELSE rpcCache[m].revoked]

Stale(entry) == entry = None \/ now - entry.at > CacheTtl

TriggerDex(m) ==
  dexFetch' = IF provider # "solscan" /\ Stale(dexCache[m]) /\ dexFetch[m] = NoFetch
              THEN [dexFetch EXCEPT ![m].stage = "sent"] ELSE dexFetch

TriggerSolscan(m) ==
  solFetch' = IF provider = "solscan" /\ Stale(solCache[m]) /\ solFetch[m] = Idle
              THEN [solFetch EXCEPT ![m].stage = "meta"] ELSE solFetch

\* Mutant: the retry keeps what the failed refresh had read.
TriggerRpc_KeepsAnswers(m) ==
  IF provider = "dexscreener+rpc" /\ Due(m) /\ MayStart(m)
  THEN Read(m) /\ UNCHANGED calls
  ELSE UNCHANGED <<governor, calls>>

\* rpcFacts: the governor decides; a refresh it starts makes the three calls
TriggerRpc(m) ==
  IF provider = "dexscreener+rpc" /\ Due(m) /\ MayStart(m)
  THEN Read(m) /\ calls' = [calls EXCEPT ![m] = NoCalls]
  ELSE UNCHANGED <<governor, calls>>

\* TokenStatsCollector.handle reads the seed, and a drop below half of the
\* highest liquidity seen is a rug for good.
Trade(m) ==
  LET liquidity == Served(m).liquidity
      highest   == IF liquidity > peak[m] THEN liquidity ELSE peak[m]
  IN /\ TriggerDex(m) /\ TriggerSolscan(m) /\ TriggerRpc(m)
     /\ peak' = [peak EXCEPT ![m] = highest]
     /\ rugged' = rugged \cup IF highest > 0 /\ 2 * liquidity < highest THEN {m} ELSE {}
     /\ since' = [since EXCEPT ![m] = IF refresh' = refresh /\ solFetch' = solFetch THEN @ ELSE {chain[m].top10}]
     /\ UNCHANGED <<provider, chain, changes, dexCache, answered, rpcCache, solCache, unhandled>>
-----------------------------------------------------------------------------
(* DexScreener: one call, aborted after five seconds.                      *)

Pairs == [solana : BOOLEAN, usd : Liquidities]

\* What DexScreener may answer of a mint, as far as the best pair can tell: the
\* pool, when it is listed, and pairs elsewhere; two of them at most.
Answers(m) ==
  {{}} \cup {{p, q} : p, q \in {r \in Pairs : r.solana => r.usd = chain[m].pool}}

\* pickBestPair and mapResponseToSeed: the deepest pair, on Solana if any is; no
\* pair is the unknown seed
LiquidityIn(pairs) ==
  LET candidates == IF \E p \in pairs : p.solana THEN {p \in pairs : p.solana} ELSE pairs
  IN IF pairs = {} THEN Unknown.liquidity ELSE Max({p.usd : p \in candidates})

\* The answer leaves the service.
DexAnswers(m) ==
  /\ dexFetch[m].stage = "sent"
  /\ \E pairs \in Answers(m) :
        /\ dexFetch' = [dexFetch EXCEPT ![m] = [stage |-> "answered", liquidity |-> LiquidityIn(pairs)]]
        /\ answered' = [answered EXCEPT ![m] = @ \cup {LiquidityIn(pairs)}]
  /\ UNCHANGED <<governor, world, dexCache, rpc, solscan, collector>>

\* It is cached.
DexArrives(m) ==
  /\ dexFetch[m].stage = "answered"
  /\ dexCache' = [dexCache EXCEPT ![m] = [liquidity |-> dexFetch[m].liquidity, at |-> now]]
  /\ dexFetch' = [dexFetch EXCEPT ![m] = NoFetch]
  /\ UNCHANGED <<governor, world, answered, rpc, solscan, collector>>

\* Mutant: a failure caches the unknown seed.
DexFails_CachesUnknown(m) ==
  /\ dexFetch[m] # NoFetch
  /\ dexFetch' = [dexFetch EXCEPT ![m] = NoFetch]
  /\ dexCache' = [dexCache EXCEPT ![m] = [liquidity |-> 0, at |-> now]]
  /\ UNCHANGED <<governor, world, answered, rpc, solscan, collector>>

\* An error status, a network error or the abort leaves the entry in place.
DexFails(m) ==
  /\ dexFetch[m] # NoFetch
  /\ dexFetch' = [dexFetch EXCEPT ![m] = NoFetch]
  /\ UNCHANGED <<governor, world, dexCache, answered, rpc, solscan, collector>>
-----------------------------------------------------------------------------
(* Solana RPC: three calls at once, no deadline.                           *)

\* What a mint account may report of its authorities: null when revoked, the
\* address when not, or nothing when the response is malformed.
Reports(m) ==
  {r \in [Authorities -> {"null", "address", "absent"}] :
     \A a \in Authorities : r[a] # "absent" => (r[a] = "null" <=> a \in chain[m].revoked)}

\* Mutant: a field that is absent counts as null.
RevokedIn_NotAnAddress(report) == {a \in Authorities : report[a] # "address"}

\* only an explicit null is "revoked"
RevokedIn(report) == {a \in Authorities : report[a] = "null"}

AccountAnswers(m) ==
  /\ refresh[m] = "open" /\ calls[m].account = None
  /\ \E report \in Reports(m) : calls' = [calls EXCEPT ![m].account = report]
  /\ UNCHANGED <<governor, world, dex, rpcCache, solscan, collector>>

\* top10ConcentrationFrom the largest accounts and the supply, one answer of two
\* calls: the supply is taken not to change while a refresh reads it
BalancesAnswer(m) ==
  /\ refresh[m] = "open" /\ calls[m].top10 = None
  /\ calls' = [calls EXCEPT ![m].top10 = chain[m].top10]
  /\ UNCHANGED <<governor, world, dex, rpcCache, solscan, collector>>

\* Promise.all: with all answers in, the facts are cached.
RpcCompletes(m) ==
  /\ calls[m].account # None /\ calls[m].top10 # None
  /\ Succeed(m)
  /\ rpcCache' = [rpcCache EXCEPT ![m] =
                    [top10 |-> calls[m].top10, revoked |-> RevokedIn(calls[m].account)]]
  /\ UNCHANGED <<world, dex, calls, solscan, collector>>

\* One call fails, or finds no mint, supply or balance: nothing is cached.
RpcFails(m) ==
  /\ Fail(m)
  /\ UNCHANGED <<world, dex, rpc, solscan, collector>>

\* The wallet relationship source spends the same quota.
FunderLookup(k) ==
  /\ provider = "dexscreener+rpc"
  /\ Read(k) \/ Succeed(k) \/ Fail(k)
  /\ UNCHANGED <<world, dex, rpc, solscan, collector>>

\* tryStart's `finally`
Settles(k) ==
  /\ Release(k)
  /\ UNCHANGED <<world, dex, rpc, solscan, collector>>
-----------------------------------------------------------------------------
(* Solscan: three calls in a row, each aborted after five seconds.         *)

MetaAnswers(m) ==
  /\ solFetch[m].stage = "meta"
  /\ \E report \in Reports(m) :
       solFetch' = [solFetch EXCEPT ![m] = [stage |-> "holders", meta |-> report, top10 |-> None]]
  /\ UNCHANGED <<governor, world, dex, rpc, solCache, unhandled, collector>>

\* Mutant: a refresh that failed stays in flight.
MetaFails_StaysInFlight(m) ==
  /\ solFetch[m].stage = "meta"
  /\ solFetch' = [solFetch EXCEPT ![m].stage = "failed"]
  /\ UNCHANGED <<governor, world, dex, rpc, solCache, unhandled, collector>>

\* The call that matters failed: the entry stays.
MetaFails(m) ==
  /\ solFetch[m].stage = "meta"
  /\ solFetch' = [solFetch EXCEPT ![m] = Idle]
  /\ UNCHANGED <<governor, world, dex, rpc, solCache, unhandled, collector>>

\* A body is `null`, the meta's or the activities', or a holder's item is: reading
\* it throws outside of any try.
BodyThrows(m) ==
  /\ solFetch[m].stage \in {"meta", "activities"} /\ unhandled = 0
  /\ solFetch' = [solFetch EXCEPT ![m] = Idle]
  /\ unhandled' = unhandled + 1
  /\ UNCHANGED <<governor, world, dex, rpc, solCache, collector>>

\* The holders, or nothing when the call fails.
HoldersAnswer(m) ==
  /\ solFetch[m].stage = "holders"
  /\ \E top10 \in {chain[m].top10, None} :
       solFetch' = [solFetch EXCEPT ![m] = [stage |-> "activities", meta |-> @.meta, top10 |-> top10]]
  /\ UNCHANGED <<governor, world, dex, rpc, solCache, unhandled, collector>>

\* The creator's launches, or nothing when the call fails or there is no creator;
\* the seed is cached, a concentration nobody answered as the worst case.
ActivitiesAnswer(m) ==
  /\ solFetch[m].stage = "activities"
  /\ \E launches \in {None, 1} :
       solCache' = [solCache EXCEPT ![m] =
         [at |-> now,
          seed |-> [liquidity |-> 0, launches |-> launches, revoked |-> RevokedIn(solFetch[m].meta),
                    top10 |-> IF solFetch[m].top10 = None THEN 100 ELSE solFetch[m].top10]]]
  /\ solFetch' = [solFetch EXCEPT ![m] = Idle]
  /\ UNCHANGED <<governor, world, dex, rpc, unhandled, collector>>
-----------------------------------------------------------------------------
(* The chain, and time.                                                    *)

ChainMoves(m) ==
  /\ changes < MaxChanges
  /\ changes' = changes + 1
  /\ \E after \in [pool : Liquidities, top10 : Tops, revoked : SUBSET Authorities] :
        /\ chain[m].revoked \subseteq after.revoked
        /\ chain' = [chain EXCEPT ![m] = after]
        /\ since' = [since EXCEPT ![m] = @ \cup {after.top10}]
  /\ UNCHANGED <<governor, provider, dex, rpc, solscan, collector>>

TimePasses ==
  /\ Tick
  /\ UNCHANGED <<world, dex, rpc, solscan, collector>>

Next ==
  \/ \E m \in Mints :
       \/ Trade(m) \/ ChainMoves(m)
       \/ DexAnswers(m) \/ DexArrives(m) \/ DexFails(m)
       \/ AccountAnswers(m) \/ BalancesAnswer(m) \/ RpcCompletes(m) \/ RpcFails(m)
       \/ MetaAnswers(m) \/ MetaFails(m) \/ BodyThrows(m) \/ HoldersAnswer(m) \/ ActivitiesAnswer(m)
  \/ \E k \in Facts : FunderLookup(k)
  \/ \E k \in Mints \cup Facts : Settles(k)
  \/ TimePasses

Spec == Init /\ [][Next]_vars

\* What the runtime guarantees: a fetch is aborted after five seconds and its
\* continuations run.  Nothing of the kind holds for an RPC call.
FairSpec ==
  Spec /\ \A m \in Mints : /\ WF_vars(DexFails(m)) /\ WF_vars(DexArrives(m))
                           /\ WF_vars(MetaFails(m)) /\ WF_vars(HoldersAnswer(m))
                           /\ WF_vars(ActivitiesAnswer(m))
-----------------------------------------------------------------------------
(* Properties.                                                             *)

\* "Missing data has to read as risky, not safe" (tokenMetadataProvider.ts:84-98):
\* an authority served as revoked is revoked on the chain, whatever provider is
\* chosen, whichever answers were lost, malformed, late or mixed.
RevokedIsReal == \A m \in Mints : Served(m).revoked \subseteq chain[m].revoked

\* A rug is for good, and counts against every wallet that sells the token: failed
\* calls alone never flag one, DexScreener must have answered with less than half
\* of what it had answered before.  (An answer without pairs is such an answer.)
RugNeedsAnswers ==
  \A m \in rugged : \E high, low \in answered[m] : 2 * low < high

\* A refresh over HTTP ends, so its token can be refreshed again.
HttpRefreshEnds ==
  \A m \in Mints : /\ dexFetch[m] # NoFetch ~> dexFetch[m] = NoFetch
                   /\ solFetch[m] # Idle ~> solFetch[m] = Idle

\* "A half-read seed would silently mix real and worst-case data"
\* (solanaRpcTokenMetadataProvider.ts:319-321): a concentration that is cached as
\* measured was the mint's at some time since the refresh that caches it began, not
\* what an earlier attempt had read before it failed, however answers, failures,
\* retries and changes on the chain interleave; or, from Solscan, the worst case.
MeasuredByItsRefresh ==
  [][\A m \in Mints :
       /\ rpcCache'[m] # rpcCache[m] => rpcCache'[m].top10 \in since[m]
       /\ solCache'[m] # solCache[m] => solCache'[m].seed.top10 \in since[m] \cup {Unknown.top10}]_vars
=============================================================================
