---------------------------- MODULE ProviderBalances ---------------------------
(***************************************************************************)
(* The balances of the upstream accounts at their providers                *)
(* (balance_service.go, balance_handler.go): a sweep asks for all active   *)
(* accounts, one goroutine each, a few at a time; a call of an             *)
(* administrator asks for one.  Every answer, failed or not, goes to a map *)
(* in memory that nothing expires from, and then to Redis.                 *)
(***************************************************************************)
EXTENDS Integers, FiniteSets

CONSTANTS
  Providers,     \* the accounts; each names the goroutine a sweep starts for it
  BalanceCalls,  \* GET and POST of the balance of one account
  AtOnce         \* slots of the semaphore of a sweep, 5

ASSUME BalanceAssumption ==
  /\ IsFiniteSet(Providers)
  /\ Providers \cap BalanceCalls = {}
  /\ AtOnce \in Nat \ {0}

VARIABLES
  sweep,        \* where QueryAllBalances is
  listed,       \* the accounts it found active
  taken,        \* what its semaphore holds
  results,      \* the accounts it has a result for, and how many results
  job,          \* where a goroutine of the sweep, or a call, is
  cacheMap,     \* what is known of each account in memory
  redisBalance  \* and in Redis

balanceVars == <<sweep, listed, taken, results, job, cacheMap, redisBalance>>

Jobs == Providers \cup BalanceCalls

Infos == {"balance", "error"}

JobPCs == {"idle", "loading", "reading", "filling", "waiting", "fetching", "querying",
           "storing", "copying", "reporting", "done"}
-------------------------------------------------------------------------------
(* A definition named after a mistake is a mutant that PROJECT.json lists. *)
BalanceInit ==
  /\ sweep = "idle"
  /\ listed = {}
  /\ taken = 0
  /\ results = [accounts |-> {}, count |-> 0]
  /\ job = [j \in Jobs |-> [pc |-> "idle", account |-> IF j \in Providers THEN j ELSE "none",
                            info |-> "none"]]
  /\ cacheMap = [a \in Providers |-> "none"]
  /\ redisBalance \in [Providers -> {"none", "balance"}]  \* of an earlier process

JobGoes(j, pc) == job' = [job EXCEPT ![j].pc = pc]

(* The query of the accounts' rows, and a goroutine for each.              *)
ListActive(S) ==
  /\ sweep # "running"
  /\ sweep' = "running"
  /\ listed' = S
  /\ results' = [accounts |-> {}, count |-> 0]
  /\ job' = [j \in Jobs |-> IF j \in S THEN [job[j] EXCEPT !.pc = "waiting"] ELSE job[j]]
  /\ UNCHANGED <<taken, cacheMap, redisBalance>>

Acquire(a) ==
  /\ job[a].pc = "waiting"
  /\ taken < AtOnce
  /\ taken' = taken + 1
  /\ JobGoes(a, "querying")
  /\ UNCHANGED <<sweep, listed, results, cacheMap, redisBalance>>

(* The provider (external) answers, or fails, or does not answer in 30     *)
(* seconds; without a key, or on a platform of another kind, it is not     *)
(* asked.  An error becomes an answer that carries it.                     *)
queryPlatformBalance(j, info) ==
  /\ job[j].pc = "querying"
  /\ job' = [job EXCEPT ![j].pc = "storing", ![j].info = info]
  /\ UNCHANGED <<sweep, listed, taken, results, cacheMap, redisBalance>>

StoreLocal(j) ==
  /\ job[j].pc = "storing"
  /\ cacheMap' = [cacheMap EXCEPT ![job[j].account] = job[j].info]
  /\ JobGoes(j, "copying")
  /\ UNCHANGED <<sweep, listed, taken, results, redisBalance>>

(* A SET that fails is logged. *)
updateRedisCache(j, ok) ==
  /\ job[j].pc = "copying"
  /\ redisBalance' = IF ok THEN [redisBalance EXCEPT ![job[j].account] = job[j].info] ELSE redisBalance
  /\ JobGoes(j, IF j \in Providers THEN "reporting" ELSE "done")
  /\ UNCHANGED <<sweep, listed, taken, results, cacheMap>>

ReportKeepingSlot(a) ==
  /\ job[a].pc = "reporting"
  /\ results' = [accounts |-> results.accounts \cup {a}, count |-> results.count + 1]
  /\ taken' = IF job[a].info = "error" THEN taken ELSE taken - 1
  /\ JobGoes(a, "done")
  /\ UNCHANGED <<sweep, listed, cacheMap, redisBalance>>

(* The result under the mutex, then the deferred calls: the slot and the    *)
(* WaitGroup.                                                              *)
Report(a) ==
  /\ job[a].pc = "reporting"
  /\ results' = [accounts |-> results.accounts \cup {a}, count |-> results.count + 1]
  /\ taken' = taken - 1
  /\ JobGoes(a, "done")
  /\ UNCHANGED <<sweep, listed, cacheMap, redisBalance>>

SweepReturns ==
  /\ sweep = "running"
  /\ \A a \in listed : job[a].pc = "done"
  /\ sweep' = "done"
  /\ UNCHANGED <<listed, taken, results, job, cacheMap, redisBalance>>
-------------------------------------------------------------------------------
(* GetBalance asks the caches first, RefreshBalance does not. *)
GetBalance(c, a) ==
  /\ job[c].pc = "idle"
  /\ job' = [job EXCEPT ![c].pc = "loading", ![c].account = a]
  /\ UNCHANGED <<sweep, listed, taken, results, cacheMap, redisBalance>>

RefreshBalance(c, a) ==
  /\ job[c].pc = "idle"
  /\ job' = [job EXCEPT ![c].pc = "fetching", ![c].account = a]
  /\ UNCHANGED <<sweep, listed, taken, results, cacheMap, redisBalance>>

(* GetCachedBalance: what is in memory is answered, however old.            *)
LoadLocal(c) ==
  /\ job[c].pc = "loading"
  /\ JobGoes(c, IF cacheMap[job[c].account] # "none" THEN "done" ELSE "reading")
  /\ UNCHANGED <<sweep, listed, taken, results, cacheMap, redisBalance>>

ReadRedis(c, ok) ==
  /\ job[c].pc = "reading"
  /\ LET info == redisBalance[job[c].account]
     IN job' = IF ok /\ info # "none"
               THEN [job EXCEPT ![c].pc = "filling", ![c].info = info]
               ELSE [job EXCEPT ![c].pc = "fetching"]
  /\ UNCHANGED <<sweep, listed, taken, results, cacheMap, redisBalance>>

(* Over what a query may have stored since.                                *)
FillLocal(c) ==
  /\ job[c].pc = "filling"
  /\ cacheMap' = [cacheMap EXCEPT ![job[c].account] = job[c].info]
  /\ JobGoes(c, "done")
  /\ UNCHANGED <<sweep, listed, taken, results, redisBalance>>

(* QueryBalance: the row of the account; without one nothing is asked.     *)
QueryBalance(c, found) ==
  /\ job[c].pc = "fetching"
  /\ JobGoes(c, IF found THEN "querying" ELSE "done")
  /\ UNCHANGED <<sweep, listed, taken, results, cacheMap, redisBalance>>

(* Five minutes after it was stored. *)
BalanceExpires(a) ==
  /\ redisBalance[a] # "none"
  /\ redisBalance' = [redisBalance EXCEPT ![a] = "none"]
  /\ UNCHANGED <<sweep, listed, taken, results, job, cacheMap>>

Working(j) ==
  \/ \E info \in Infos : queryPlatformBalance(j, info)
  \/ StoreLocal(j)
  \/ \E ok \in BOOLEAN : updateRedisCache(j, ok)
  \/ j \in Providers /\ (Acquire(j) \/ Report(j))
  \/ j \in BalanceCalls /\ \/ LoadLocal(j) \/ FillLocal(j)
                           \/ \E ok \in BOOLEAN : ReadRedis(j, ok) \/ QueryBalance(j, ok)

BalanceNext ==
  \/ \E S \in SUBSET Providers : ListActive(S)
  \/ \E j \in Jobs : Working(j)
  \/ SweepReturns
  \/ \E c \in BalanceCalls, a \in Providers : GetBalance(c, a) \/ RefreshBalance(c, a)
  \/ \E a \in Providers : BalanceExpires(a)

BalanceSpec == BalanceInit /\ [][BalanceNext]_balanceVars
-------------------------------------------------------------------------------
BalancesTypeOK ==
  /\ sweep \in {"idle", "running", "done"}
  /\ listed \subseteq Providers
  /\ taken \in 0..AtOnce
  /\ results.accounts \subseteq Providers /\ results.count \in Nat
  /\ \A j \in Jobs : job[j].pc \in JobPCs /\ job[j].account \in Providers \cup {"none"}
  /\ cacheMap \in [Providers -> Infos \cup {"none"}]
  /\ redisBalance \in [Providers -> Infos \cup {"none"}]

(* A sweep that has begun returns, with one result for every account that  *)
(* was active, which memory knows too, however many of the queries fail    *)
(* and whatever calls for the same accounts are under way.                 *)
SweepReportsAll ==
  sweep = "running" ~> /\ sweep = "done"
                       /\ results.accounts = listed /\ results.count = Cardinality(listed)
                       /\ \A a \in listed : cacheMap[a] # "none"
===============================================================================
