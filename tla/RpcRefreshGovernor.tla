-------------------------- MODULE RpcRefreshGovernor --------------------------
(***************************************************************************)
(* The one RpcRefreshGovernor of the process and the caches filled through *)
(* it: CompositeTokenMetadataProvider's facts about a mint, which expire,  *)
(* and SolanaRpcWalletRelationshipSource's funders and deployers, which    *)
(* never do.  Every consumer works the same way: a synchronous read finds  *)
(* its key missing or stale and asks tryStart for a background refresh; a  *)
(* read that is refused changes nothing and is no step of this module.     *)
(*                                                                         *)
(* now is Date.now() in units of the smallest time that matters.  What a   *)
(* fetch returns is left out: it is conclusive and cached, or it is not.   *)
(***************************************************************************)
EXTENDS Integers, Sequences, FiniteSets

CONSTANTS
  Mints,         \* keys whose cache entries expire
  Facts,         \* funder:<wallet> and deployer:<mint> keys, cached for good
  MinInterval,   \* minIntervalMs
  MaxConcurrent, \* maxConcurrent
  RetryCooldown, \* perMintRetryCooldownMs
  CacheTtl,      \* cacheTtlMs
  MaxTime        \* bound: how far the clock runs

ASSUME GovernorAssumption ==
  /\ MinInterval \in Nat /\ RetryCooldown \in Nat /\ CacheTtl \in Nat
  /\ MaxConcurrent \in Nat \ {0}
  /\ MaxTime \in Nat

Keys == Mints \cup Facts

\* Before any time: no entry in a map, lastStartedAt = -Infinity.
Never == -1

VARIABLES
  now,
  refresh,        \* [Keys -> its refresh: "idle", "open", or "settled" but still in flight]
  lastAttemptAt,  \* [Keys -> start of its last refresh, or Never]
  lastStartedAt,  \* start of the last refresh of any key, or Never
  cachedAt,       \* [Keys -> fetchedAt of its cache entry, or Never]
  starts          \* history: the refreshes started, with their time

governor == <<now, refresh, lastAttemptAt, lastStartedAt, cachedAt, starts>>

Start == [key : Keys, at : Nat, cold : BOOLEAN]

GovernorInit ==
  /\ now = 0
  /\ refresh = [k \in Keys |-> "idle"]
  /\ lastAttemptAt = [k \in Keys |-> Never]
  /\ lastStartedAt = Never
  /\ cachedAt = [k \in Keys |-> Never]
  /\ starts = <<>>
-----------------------------------------------------------------------------
(* A read of one key.                                                      *)

InFlight == {k \in Keys : refresh[k] # "idle"}

Cached(k) == cachedAt[k] # Never

\* What makes a consumer ask for a refresh.
Due(k) == ~Cached(k) \/ (k \in Mints /\ now - cachedAt[k] > CacheTtl)

\* Mutant: every consumer skips the retry cooldown.
MayStart_SkipAlways(k) ==
  /\ refresh[k] = "idle"
  /\ Cardinality(InFlight) < MaxConcurrent
  /\ lastStartedAt # Never => now - lastStartedAt >= MinInterval

\* tryStart's conditions; the consumers skip the cooldown for a cached key.
MayStart(k) ==
  /\ refresh[k] = "idle"
  /\ ~Cached(k) /\ lastAttemptAt[k] # Never => now - lastAttemptAt[k] >= RetryCooldown
  /\ Cardinality(InFlight) < MaxConcurrent
  /\ lastStartedAt # Never => now - lastStartedAt >= MinInterval

\* Mutant: the start is only remembered for its key.
Read_OwnSpacing(k) ==
  /\ Due(k) /\ MayStart(k)
  /\ refresh' = [refresh EXCEPT ![k] = "open"]
  /\ lastAttemptAt' = [lastAttemptAt EXCEPT ![k] = now]
  /\ starts' = Append(starts, [key |-> k, at |-> now, cold |-> ~Cached(k)])
  /\ UNCHANGED <<now, lastStartedAt, cachedAt>>

\* A read that starts a refresh.
Read(k) ==
  /\ Due(k) /\ MayStart(k)
  /\ refresh' = [refresh EXCEPT ![k] = "open"]
  /\ lastAttemptAt' = [lastAttemptAt EXCEPT ![k] = now]
  /\ lastStartedAt' = now
  /\ starts' = Append(starts, [key |-> k, at |-> now, cold |-> ~Cached(k)])
  /\ UNCHANGED <<now, cachedAt>>
-----------------------------------------------------------------------------
(* The refresh, in the background.                                         *)

\* A conclusive answer is cached; the key is still in flight.
Succeed(k) ==
  /\ refresh[k] = "open"
  /\ refresh' = [refresh EXCEPT ![k] = "settled"]
  /\ cachedAt' = [cachedAt EXCEPT ![k] = now]
  /\ UNCHANGED <<now, lastAttemptAt, lastStartedAt, starts>>

\* An error or an inconclusive answer leaves the cache alone.
Fail(k) ==
  /\ refresh[k] = "open"
  /\ refresh' = [refresh EXCEPT ![k] = "settled"]
  /\ UNCHANGED <<now, lastAttemptAt, lastStartedAt, cachedAt, starts>>

\* tryStart's `finally`.
Release(k) ==
  /\ refresh[k] = "settled"
  /\ refresh' = [refresh EXCEPT ![k] = "idle"]
  /\ UNCHANGED <<now, lastAttemptAt, lastStartedAt, cachedAt, starts>>

Tick ==
  /\ now < MaxTime
  /\ now' = now + 1
  /\ UNCHANGED <<refresh, lastAttemptAt, lastStartedAt, cachedAt, starts>>

GovernorNext ==
  \/ \E k \in Keys : Read(k) \/ Succeed(k) \/ Fail(k) \/ Release(k)
  \/ Tick

GovernorSpec == GovernorInit /\ [][GovernorNext]_governor
-----------------------------------------------------------------------------
(* Properties.                                                             *)

\* Every variable has its type, and no time lies ahead of the clock.
TypeOK ==
  /\ now \in 0..MaxTime
  /\ refresh \in [Keys -> {"idle", "open", "settled"}]
  /\ lastAttemptAt \in [Keys -> Never..now]
  /\ lastStartedAt \in Never..now
  /\ cachedAt \in [Keys -> Never..now]
  /\ starts \in Seq(Start)

\* The refreshes of all consumers together keep their spacing: n starts after any
\* start, at least n times minIntervalMs have passed, so no stretch of time holds
\* more refreshes than the quota it was tuned to.
RateLimited ==
  \A i, j \in DOMAIN starts :
    i < j => starts[j].at - starts[i].at >= (j - i) * MinInterval

\* A key that has never been fetched is not tried twice within the cooldown,
\* however often it is read and however its attempts end.
ColdKeyCoolsDown ==
  \A i, j \in DOMAIN starts :
    /\ i < j
    /\ starts[i].key = starts[j].key
    /\ starts[i].cold /\ starts[j].cold
    => starts[j].at - starts[i].at >= RetryCooldown

\* No refresh is spent on an entry that is still good: none ever on a fact that is
\* known, none on a mint within the time to live of its entry.
FreshNotRefetched ==
  \A i \in DOMAIN starts :
    LET k == starts[i].key IN
      Cached(k) /\ starts[i].at > cachedAt[k]
        => k \in Mints /\ starts[i].at - cachedAt[k] > CacheTtl
=============================================================================
