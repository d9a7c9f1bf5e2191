--------------------------- MODULE AccountScheduler ---------------------------
(***************************************************************************)
(* The account scheduler and the life of a gateway request                 *)
(* (account_service.go, gateway_service.go, openai_gateway_service.go).    *)
(*                                                                         *)
(* A request looks up its sticky session, chooses an account from the      *)
(* accounts' possibly cached loads, takes a slot by INCR, calls the        *)
(* upstream and gives the slot back by a deferred DECR.  The account rows  *)
(* are in PostgreSQL, the counters, the cached loads and the sticky        *)
(* bindings in Redis, the "unschedulable" marks in the memory of the       *)
(* process.  A request runs once; its context dies when the client hangs   *)
(* up, and from then on every database and Redis call it makes fails.      *)
(***************************************************************************)
EXTENDS Integers, FiniteSets, GatewayEndpoints

CONSTANTS
  Accounts,        \* the upstream accounts
  Sessions,        \* the session ids clients send
  Requests,        \* the requests, each of which runs at most once
  Tiers,           \* the routing tiers of SelectAccountWithTier
  Endpoints,       \* the handlers clients call, a subset of EndpointNames
  PlatformOf,      \* the platform of an account
  TiersOf,         \* the tiers checkAccountTierMatch accepts for an account
  MaxConcurrency,  \* max_concurrency of every account
  RpmLimit,        \* rpm_limit of every account
  ErrorThreshold,  \* errors of one day that take an account out, 5 in the code
  AdminStatuses,   \* the statuses an administrator sets, {} when none acts
  Faults,          \* what goes wrong: a subset of FaultKinds
  NoAccount, NoSession, NoTier, NoLoad

FaultKinds == {"cancel", "redis", "db", "crash"}
Statuses   == {"active", "disabled", "unschedulable"}

ASSUME SchedulerAssumption ==
  /\ IsFiniteSet(Requests)
  /\ Endpoints \subseteq EndpointNames
  /\ PlatformOf \in [Accounts -> {"claude", "openai", "gemini", "self_hosted"}]
  /\ TiersOf \in [Accounts -> SUBSET Tiers]
  /\ MaxConcurrency \in Nat \ {0}
  /\ RpmLimit \in Nat \ {0}
  /\ ErrorThreshold \in Nat \ {0}
  /\ AdminStatuses \subseteq Statuses
  /\ Faults \subseteq FaultKinds
  /\ NoAccount \notin Accounts
  /\ NoSession \notin Sessions
  /\ NoTier \notin Tiers
  /\ NoLoad \notin [conc : Int, rpm : Nat]

VARIABLES
  status,     \* accounts.status in the database
  unsched,    \* accounts with a live mark in unschedulableAccounts
  conc,       \* account:concurrency:<id>
  rpm,        \* account:rpm:<id>:<this minute>
  errs,       \* account:errors:<id>:<today>
  loadCache,  \* the cached AccountLoad of an account, or NoLoad
  sticky,     \* sticky:session:<id>
  pc,         \* where a request is
  call,       \* its handler, session and tier
  acct,       \* the account selected for it
  ctx,        \* "live", or "done" once the client hung up
  fault,      \* the Redis faults and the crash that hit it
  outcome,    \* what the upstream call came to
  recorded    \* its usage was handed to the billing service

accountVars == <<status, unsched, conc, rpm, errs, loadCache>>
requestVars == <<pc, call, acct, ctx, fault, outcome, recorded>>
vars == <<accountVars, sticky, requestVars>>

PCs      == {"idle", "lookup", "choosing", "selected", "calling", "releasing", "ended"}
Outcomes == {"none", "neterr", "status", "broken", "ok"}
Calls    == [endpoint : Endpoints, session : Sessions \cup {NoSession},
             tier : Tiers \cup {NoTier}]
Loads    == [conc : Int, rpm : Nat]

ProfileOf(r) == Profile[call[r].endpoint]
(* The session id a handler passes on: none where it passes "". *)
SessionOf(r) == IF ProfileOf(r).sticky THEN call[r].session ELSE NoSession

(* The requests that will still give back a slot of account a. *)
Holders(a) == {r \in Requests : /\ acct[r] = a
                                /\ ProfileOf(r).counted
                                /\ pc[r] \in {"calling", "releasing"}}
InProgress(r) == pc[r] \notin {"idle", "ended"}
-------------------------------------------------------------------------------
(* Definitions named after a mistake (AfterCallUndeferred and so on) are    *)
(* the mutants PROJECT.json lists: no specification uses them, and each     *)
(* would break the property it is listed with.                              *)
Init ==
  /\ status = [a \in Accounts |-> "active"]
  /\ unsched = {}
  /\ conc = [a \in Accounts |-> 0]
  /\ rpm = [a \in Accounts |-> 0]
  /\ errs = [a \in Accounts |-> 0]
  /\ loadCache = [a \in Accounts |-> NoLoad]
  /\ sticky = [s \in Sessions |-> NoAccount]
  /\ pc = [r \in Requests |-> "idle"]
  /\ call \in [Requests -> Calls]
  /\ acct = [r \in Requests |-> NoAccount]
  /\ ctx = [r \in Requests |-> "live"]
  /\ fault = [r \in Requests |-> {}]
  /\ outcome = [r \in Requests |-> "none"]
  /\ recorded = [r \in Requests |-> FALSE]

(* A client's call reaches its handler. *)
Arrive(r) ==
  /\ pc[r] = "idle"
  /\ pc' = [pc EXCEPT ![r] = "lookup"]
  /\ UNCHANGED <<accountVars, sticky, call, acct, ctx, fault, outcome, recorded>>

(* getStickyAccount: the binding is used when its account is active; the   *)
(* mark, the limits and the platform are not looked at.                    *)
StickyHit(r) == LET s == SessionOf(r) IN
  /\ s # NoSession
  /\ ctx[r] = "live"
  /\ sticky[s] # NoAccount
  /\ status[sticky[s]] = "active"

LookupSticky(r) ==
  /\ pc[r] = "lookup"
  /\ \/ /\ StickyHit(r)
        /\ pc' = [pc EXCEPT ![r] = "selected"]
        /\ acct' = [acct EXCEPT ![r] = sticky[SessionOf(r)]]
     \/ /\ ~StickyHit(r) \/ Faults \cap {"redis", "db"} # {}
        /\ pc' = [pc EXCEPT ![r] = "choosing"]
        /\ UNCHANGED acct
  /\ UNCHANGED <<accountVars, sticky, call, ctx, fault, outcome, recorded>>

(* getAvailableAccounts, and the marks that SelectAccount skips. *)
Available(platform) ==
  {a \in Accounts : /\ PlatformOf[a] = platform
                    /\ status[a] = "active"
                    /\ a \notin unsched}

(* GetAccountLoad: the cached load, or else the counters.  A counter that  *)
(* cannot be read counts as 0 (the accounts in blind).                     *)
FreshLoad(a, blind) == IF a \in blind THEN [conc |-> 0, rpm |-> 0]
                                      ELSE [conc |-> conc[a], rpm |-> rpm[a]]
Load(a, blind) == IF loadCache[a] = NoLoad THEN FreshLoad(a, blind)
                                           ELSE loadCache[a]

UnderLimits(load) == load.conc < MaxConcurrency /\ load.rpm < RpmLimit

(* SelectAccountWithTier: the accounts of the tier, when there is one. *)
Preferred(eligible, tier) ==
  LET matching == {a \in eligible : tier \in TiersOf[a]} IN
  IF tier # NoTier /\ matching # {} THEN matching ELSE eligible

(* The rest of SelectAccount: the load of every available account is read  *)
(* and cached (an account whose row cannot be read is skipped), one        *)
(* account under its limits is drawn (any: the draw is weighted, but       *)
(* random) and bound to the session; a failed binding is only logged.      *)
LoadsRead(read, blind) ==
  [a \in Accounts |-> IF a \in read THEN Load(a, blind) ELSE loadCache[a]]

Readable(r) == IF "db" \in Faults THEN SUBSET Available(ProfileOf(r).platform)
                                  ELSE {Available(ProfileOf(r).platform)}
Blind(read) == IF "redis" \in Faults THEN SUBSET read ELSE {{}}

Choose(r) ==
  /\ pc[r] = "choosing"
  /\ ctx[r] = "live"
  /\ \E read \in Readable(r) : \E blind \in Blind(read) :
       LET eligible == {a \in read : UnderLimits(Load(a, blind))} IN
       /\ loadCache' = LoadsRead(read, blind)
       /\ \E a \in Preferred(eligible, call[r].tier) :
            /\ acct' = [acct EXCEPT ![r] = a]
            /\ \/ /\ SessionOf(r) # NoSession
                  /\ sticky' = [sticky EXCEPT ![SessionOf(r)] = a]
               \/ /\ SessionOf(r) = NoSession \/ "redis" \in Faults
                  /\ UNCHANGED sticky
  /\ pc' = [pc EXCEPT ![r] = "selected"]
  /\ UNCHANGED <<status, unsched, conc, rpm, errs, call, ctx, fault, outcome, recorded>>

(* SelectAccount returns an error: the client is gone, or no account that  *)
(* could be read is under its limits.                                      *)
ChooseFails(r) ==
  /\ pc[r] = "choosing"
  /\ \/ ctx[r] = "done" /\ UNCHANGED loadCache
     \/ /\ ctx[r] = "live"
        /\ \E read \in Readable(r) : \E blind \in Blind(read) :
             /\ \A a \in read : ~UnderLimits(Load(a, blind))
             /\ loadCache' = LoadsRead(read, blind)
  /\ pc' = [pc EXCEPT ![r] = "ended"]
  /\ UNCHANGED <<status, unsched, conc, rpm, errs, sticky, call, acct, ctx, fault,
                 outcome, recorded>>
-------------------------------------------------------------------------------
(* IncrementConcurrency succeeds.  The result of the INCR of the minute's  *)
(* counter is ignored.                                                     *)
IncrementConcurrency(r) == LET a == acct[r] IN
  /\ pc[r] = "selected"
  /\ ProfileOf(r).counted
  /\ ctx[r] = "live"
  /\ conc' = [conc EXCEPT ![a] = @ + 1]
  /\ \/ rpm' = [rpm EXCEPT ![a] = @ + 1]
     \/ "redis" \in Faults /\ UNCHANGED rpm
  /\ pc' = [pc EXCEPT ![r] = "calling"]
  /\ UNCHANGED <<status, unsched, errs, loadCache, sticky, call, acct, ctx, fault,
                 outcome, recorded>>

(* IncrementConcurrency returns an error: the client is gone, or Redis     *)
(* failed before or after it applied the INCR.  The handler returns, but   *)
(* the deferred DecrementConcurrency is already registered.                *)
IncrementFails(r) == LET a == acct[r] IN
  /\ pc[r] = "selected"
  /\ ProfileOf(r).counted
  /\ \/ ctx[r] = "done" /\ UNCHANGED conc
     \/ /\ ctx[r] = "live"
        /\ "redis" \in Faults
        /\ conc' \in {conc, [conc EXCEPT ![a] = @ + 1]}
  /\ fault' = [fault EXCEPT ![r] = @ \cup {"incr"}]
  /\ pc' = [pc EXCEPT ![r] = "releasing"]
  /\ UNCHANGED <<status, unsched, rpm, errs, loadCache, sticky, call, acct, ctx,
                 outcome, recorded>>

(* CountTokens, ListModels and GetModel call the upstream without a slot. *)
CallUncounted(r) ==
  /\ pc[r] = "selected"
  /\ ~ProfileOf(r).counted
  /\ pc' = [pc EXCEPT ![r] = "calling"]
  /\ UNCHANGED <<accountVars, sticky, call, acct, ctx, fault, outcome, recorded>>

(* RecordError: the day's counter goes up and, when it reads at least      *)
(* ErrorThreshold, the account is marked; a counter that cannot be read is *)
(* 0.  With a dead context nothing is written or read.                     *)
RecordError(r) == LET a == acct[r] IN
  \/ ctx[r] = "done" /\ UNCHANGED <<errs, unsched>>
  \/ /\ ctx[r] = "live"
     /\ \/ errs' = [errs EXCEPT ![a] = @ + 1]
        \/ "redis" \in Faults /\ UNCHANGED errs
     /\ \/ errs'[a] >= ErrorThreshold /\ unsched' = unsched \cup {a}
        \/ /\ errs'[a] < ErrorThreshold \/ "redis" \in Faults
           /\ UNCHANGED unsched

AfterCallUndeferred(r) ==
  IF ProfileOf(r).counted /\ outcome'[r] = "ok" THEN "releasing" ELSE "ended"

AfterCall(r) == IF ProfileOf(r).counted THEN "releasing" ELSE "ended"

(* The upstream does not answer, or answers with status >= 400. *)
UpstreamFails(r) ==
  /\ pc[r] = "calling"
  /\ \/ /\ outcome' = [outcome EXCEPT ![r] = "neterr"]
        /\ IF ProfileOf(r).recordsNet THEN RecordError(r) ELSE UNCHANGED <<errs, unsched>>
     \/ /\ outcome' = [outcome EXCEPT ![r] = "status"]
        /\ IF ProfileOf(r).recordsStatus THEN RecordError(r) ELSE UNCHANGED <<errs, unsched>>
  /\ pc' = [pc EXCEPT ![r] = AfterCall(r)]
  /\ UNCHANGED <<status, conc, rpm, loadCache, sticky, call, acct, ctx, fault, recorded>>

(* The answer cannot be decoded, or the stream breaks off on either side:  *)
(* the handler returns before it records the usage.                        *)
AnswerBroken(r) ==
  /\ pc[r] = "calling"
  /\ outcome' = [outcome EXCEPT ![r] = "broken"]
  /\ pc' = [pc EXCEPT ![r] = AfterCall(r)]
  /\ UNCHANGED <<accountVars, sticky, call, acct, ctx, fault, recorded>>

(* The answer is complete and the handler records its usage. *)
AnswerComplete(r) ==
  /\ pc[r] = "calling"
  /\ outcome' = [outcome EXCEPT ![r] = "ok"]
  /\ \E reported \in BOOLEAN :
       recorded' = [recorded EXCEPT ![r] =
         \/ ProfileOf(r).usage = "always"
         \/ ProfileOf(r).usage = "ifReported" /\ reported]
  /\ pc' = [pc EXCEPT ![r] = AfterCall(r)]
  /\ UNCHANGED <<accountVars, sticky, call, acct, ctx, fault>>

(* The deferred DecrementConcurrency(ctx).  Its error is not looked at. *)
DecrementConcurrency(r) == LET a == acct[r] IN
  /\ pc[r] = "releasing"
  /\ \/ /\ ctx[r] = "live"
        /\ conc' = [conc EXCEPT ![a] = @ - 1]
        /\ UNCHANGED fault
     \/ /\ ctx[r] = "done" \/ "redis" \in Faults
        /\ UNCHANGED conc
        /\ fault' = [fault EXCEPT ![r] = @ \cup {"decr"}]
  /\ pc' = [pc EXCEPT ![r] = "ended"]
  /\ UNCHANGED <<status, unsched, rpm, errs, loadCache, sticky, call, acct, ctx,
                 outcome, recorded>>
-------------------------------------------------------------------------------
(* UpdateAccountStatus. *)
UpdateAccountStatus(a, new) ==
  /\ status' = [status EXCEPT ![a] = new]
  /\ unsched' = IF new = "unschedulable" THEN unsched \cup {a} ELSE unsched
  /\ UNCHANGED <<conc, rpm, errs, loadCache, sticky, requestVars>>

(* Five minutes after it was set a mark is gone, whether isUnschedulable   *)
(* or the cleanup task removes it.                                         *)
MarkExpires(a) ==
  /\ a \in unsched
  /\ unsched' = unsched \ {a}
  /\ UNCHANGED <<status, conc, rpm, errs, loadCache, sticky, requestVars>>

(* A cached load lives one minute. *)
LoadExpires(a) ==
  /\ loadCache[a] # NoLoad
  /\ loadCache' = [loadCache EXCEPT ![a] = NoLoad]
  /\ UNCHANGED <<status, unsched, conc, rpm, errs, sticky, requestVars>>

(* A binding lives thirty minutes. *)
StickyExpires(s) ==
  /\ sticky[s] # NoAccount
  /\ sticky' = [sticky EXCEPT ![s] = NoAccount]
  /\ UNCHANGED <<accountVars, requestVars>>

(* The keys of rpm and errs carry the minute and the day. *)
NextMinuteRefill ==
  /\ rpm' = [a \in Accounts |-> rpm[a] - RpmLimit]
  /\ UNCHANGED <<status, unsched, conc, errs, loadCache, sticky, requestVars>>

NextMinute ==
  /\ \E a \in Accounts : rpm[a] > 0
  /\ rpm' = [a \in Accounts |-> 0]
  /\ UNCHANGED <<status, unsched, conc, errs, loadCache, sticky, requestVars>>

NextDay ==
  /\ \E a \in Accounts : errs[a] > 0
  /\ errs' = [a \in Accounts |-> 0]
  /\ rpm' = [a \in Accounts |-> 0]
  /\ UNCHANGED <<status, unsched, conc, loadCache, sticky, requestVars>>

(* The client hangs up. *)
Cancel(r) ==
  /\ "cancel" \in Faults
  /\ InProgress(r)
  /\ ctx[r] = "live"
  /\ ctx' = [ctx EXCEPT ![r] = "done"]
  /\ UNCHANGED <<accountVars, sticky, pc, call, acct, fault, outcome, recorded>>

(* The process dies and starts again: the marks and the requests in        *)
(* progress are lost, what is in Redis and in the database stays.          *)
Crash ==
  /\ "crash" \in Faults
  /\ \E r \in Requests : InProgress(r)
  /\ unsched' = {}
  /\ pc' = [r \in Requests |-> IF InProgress(r) THEN "ended" ELSE pc[r]]
  /\ fault' = [r \in Requests |-> IF InProgress(r) THEN fault[r] \cup {"crash"}
                                                   ELSE fault[r]]
  /\ UNCHANGED <<status, conc, rpm, errs, loadCache, sticky, call, acct, ctx,
                 outcome, recorded>>
-------------------------------------------------------------------------------
RequestStep(r) ==
  \/ LookupSticky(r)
  \/ Choose(r)
  \/ ChooseFails(r)
  \/ IncrementConcurrency(r)
  \/ IncrementFails(r)
  \/ CallUncounted(r)
  \/ UpstreamFails(r)
  \/ AnswerBroken(r)
  \/ AnswerComplete(r)
  \/ DecrementConcurrency(r)

AccountStep(a) ==
  \/ \E new \in AdminStatuses : UpdateAccountStatus(a, new)
  \/ MarkExpires(a)
  \/ LoadExpires(a)

Next ==
  \/ \E r \in Requests : Arrive(r) \/ RequestStep(r) \/ Cancel(r)
  \/ \E a \in Accounts : AccountStep(a)
  \/ \E s \in Sessions : StickyExpires(s)
  \/ NextMinute
  \/ NextDay
  \/ Crash

Spec == Init /\ [][Next]_vars

(* A handler that started is scheduled until it returns (the client of the *)
(* upstream has a timeout), and the lifetimes of the marks, of the cached  *)
(* loads and of the minute's counters run out.                             *)
FairSpec ==
  /\ Spec
  /\ \A r \in Requests : WF_vars(RequestStep(r))
  /\ \A a \in Accounts : WF_vars(MarkExpires(a)) /\ WF_vars(LoadExpires(a))
  /\ WF_vars(NextMinute)
-------------------------------------------------------------------------------
TypeOK ==
  /\ status \in [Accounts -> Statuses]
  /\ unsched \subseteq Accounts
  /\ conc \in [Accounts -> Int]
  /\ rpm \in [Accounts -> Nat]
  /\ errs \in [Accounts -> Nat]
  /\ loadCache \in [Accounts -> Loads \cup {NoLoad}]
  /\ sticky \in [Sessions -> Accounts \cup {NoAccount}]
  /\ pc \in [Requests -> PCs]
  /\ call \in [Requests -> Calls]
  /\ acct \in [Requests -> Accounts \cup {NoAccount}]
  /\ ctx \in [Requests -> {"live", "done"}]
  /\ fault \in [Requests -> SUBSET {"incr", "decr", "crash"}]
  /\ outcome \in [Requests -> Outcomes]
  /\ recorded \in [Requests -> BOOLEAN]

(* A request past its selection has an account: TypeOK rests on it, since  *)
(* the account of a failing call is what gets marked.                      *)
PlacedBeforeCall ==
  \A r \in Requests : pc[r] \in {"selected", "calling", "releasing"} => acct[r] \in Accounts

(* The requests whose INCR failed and whose deferred DECR runs all the     *)
(* same, and those that ended without a DECR that is known to have worked. *)
Unincremented(a) == {r \in Requests : acct[r] = a /\ "incr" \in fault[r]}
Unreleased(a)    == {r \in Requests : /\ acct[r] = a
                                      /\ pc[r] = "ended"
                                      /\ fault[r] \cap {"decr", "crash"} # {}}

(* The Redis counter of an account is the number of requests that hold a   *)
(* slot of it, give or take one per request that met a fault: a failed     *)
(* INCR can only lower it, a lost DECR can only raise it.  In particular   *)
(* an account no request ever met a fault on has an exact counter.         *)
CounterBracket ==
  \A a \in Accounts :
    /\ conc[a] >= Cardinality(Holders(a)) - Cardinality(Unincremented(a))
    /\ conc[a] <= Cardinality(Holders(a)) + Cardinality(Unreleased(a))

(* Why the bracket is inductive: a request meets no fault before its INCR, *)
(* no fault but a failed INCR before its end, and only a request that      *)
(* tried its INCR comes to the DECR.                                       *)
FaultOrder ==
  \A r \in Requests :
    /\ pc[r] \in {"idle", "lookup", "choosing", "selected"} => fault[r] = {}
    /\ pc[r] # "ended" => fault[r] \subseteq {"incr"}
    /\ pc[r] = "releasing" => ProfileOf(r).counted

BracketInv == FaultOrder /\ CounterBracket

(* An account that stays active is again and again open to new requests:   *)
(* marks, full slots and exhausted minutes pass.                           *)
AccountReturns ==
  \A a \in Accounts :
    []<>(status[a] = "active" => a \notin unsched /\ UnderLimits(Load(a, {})))

-------------------------------------------------------------------------------
(* What comments of the code say and the code does not do. *)

(* The counter GetAccountLoad reads is the number of requests of the       *)
(* account in real time: at the least, an account that no request is on    *)
(* has a counter of 0.  (While requests come and go the two may differ by  *)
(* those between two steps of theirs; this claim leaves them out.)         *)
AtRest(a) == \A r \in Requests : acct[r] = a => ~InProgress(r)
CounterIsRealTime == \A a \in Accounts : AtRest(a) => conc[a] = 0

(* The account selected for a request is one of the request's platform. *)
SelectedOnPlatform ==
  \A r \in Requests : acct[r] # NoAccount => PlatformOf[acct[r]] = ProfileOf(r).platform
===============================================================================
