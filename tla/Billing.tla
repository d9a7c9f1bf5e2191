-------------------------------- MODULE Billing --------------------------------
(***************************************************************************)
(* Charging for answered requests (billing_service.go, the recordUsage of  *)
(* the gateway handlers) and the other writers and readers of the balance: *)
(* the administrator's AdjustBalance, UpdateBalance and CheckBalance.      *)
(*                                                                         *)
(* A handler starts RecordUsage in a goroutine of its own and returns; the *)
(* request's context, which the goroutine goes on using, dies with the     *)
(* handler.  A call on a dead context fails and an open transaction is     *)
(* rolled back.                                                            *)
(***************************************************************************)
EXTENDS UserRow, FiniteSets

CONSTANTS
  Requests,        \* answered requests, each billed by its own goroutine
  Adjustments,     \* calls of AdjustBalance
  TopUps,          \* calls of UpdateBalance, which adds any amount unconditionally
  Readers,         \* goroutines that call CheckBalance, again and again
  UserOf,          \* the user of a request, an adjustment, a top-up, a reader
  RequestIDs,
  RequestIDOf,     \* X-Request-ID: a client that retries may send it again
  Usage,           \* a request's handler, model and token counts
  Models,          \* the models of the pricing table
  InputPrice, OutputPrice,
  MinChargeUnit,
  AmountOf,        \* the amount of an adjustment or a top-up
  BillingEnabled,  \* cfg.Billing.Enabled
  DatabaseFails    \* whether a database call of a live context may fail

Handlers == {"Messages", "ChatCompletions", "Gemini", "Embeddings",
             "Responses", "ImageGenerations"}
UnknownModel == "unknown model"

ASSUME BillingAssumption ==
  /\ Requests \cap Adjustments = {}
  /\ UserOf \in [Requests \cup Adjustments \cup TopUps \cup Readers -> Users]
  /\ RequestIDOf \in [Requests -> RequestIDs]
  /\ Usage \in [Requests -> [handler : Handlers, model : Models \cup {UnknownModel},
                             prompt : Nat, completion : Nat]]
  /\ InputPrice \in [Models -> Nat]
  /\ OutputPrice \in [Models -> Nat]
  /\ MinChargeUnit \in Nat
  /\ AmountOf \in [Adjustments \cup TopUps -> Int]
  /\ BillingEnabled \in BOOLEAN
  /\ DatabaseFails \in BOOLEAN

VARIABLES
  charging,         \* where a request's RecordUsage is
  ctx,        \* the request's context: "live", or "done"
  seen,       \* the balance a transaction has read
  records,    \* the requests with a row in usage_records
  charges,    \* history: how often a request was charged
  lateCache,  \* user:balance:<id> in Redis, written after a charge
  adjust,     \* where an adjustment is
  toppedUp,   \* the top-ups that were made
  reader      \* where a CheckBalance is, and the balance it has read

usageVars   == <<charging, ctx, records, charges>>
billingVars == <<usageVars, seen, lateCache, adjust, toppedUp, reader>>

ChargingPCs == {"answered", "recording", "deducting", "read", "caching", "done"}
AdjustPCs   == {"idle", "read", "refused", "committed"}
-------------------------------------------------------------------------------
(* The prices of the table are per million tokens and the amounts of the   *)
(* model are millionths, so that a cost is tokens times price.             *)
DefaultPricing == [input |-> 3, output |-> 15]
PricingOf(model) == IF model \in Models
  THEN [input |-> InputPrice[model], output |-> OutputPrice[model]]
  ELSE DefaultPricing

CalculateCost(model, prompt, completion) ==
  LET cost == prompt * PricingOf(model).input + completion * PricingOf(model).output
  IN  IF cost > 0 /\ cost < MinChargeUnit THEN MinChargeUnit ELSE cost

(* The token counts a handler passes to recordUsage: none for Responses    *)
(* and ImageGenerations, no completion for Embeddings.                     *)
Reported(r) ==
  LET handler == Usage[r].handler IN
  [prompt     |-> IF handler \in {"Responses", "ImageGenerations"} THEN 0 ELSE Usage[r].prompt,
   completion |-> IF handler \in {"Responses", "ImageGenerations", "Embeddings"}
                  THEN 0 ELSE Usage[r].completion]
Cost(r) == CalculateCost(Usage[r].model, Reported(r).prompt, Reported(r).completion)
-------------------------------------------------------------------------------
(* A definition named after a mistake is a mutant that PROJECT.json lists. *)
BillingInit ==
  /\ charging = [r \in Requests |-> "answered"]
  /\ ctx = [r \in Requests |-> "live"]
  /\ seen = [x \in Requests \cup Adjustments |-> 0]
  /\ records = {}
  /\ charges = [r \in Requests |-> 0]
  /\ lateCache = [u \in Users |-> NotCached]
  /\ adjust = [a \in Adjustments |-> "idle"]
  /\ toppedUp = {}
  /\ reader = [c \in Readers |-> NotCached]

(* recordUsage of a handler: go RecordUsage(c.Request.Context(), record).  *)
HandOver(r) ==
  /\ charging[r] = "answered"
  /\ charging' = [charging EXCEPT ![r] = "recording"]
  /\ UNCHANGED <<rowVars, ctx, records, charges, seen, lateCache, adjust, toppedUp, reader>>

(* The handler returns, or the client hangs up: the context is done. *)
ContextEnds(r) ==
  /\ charging[r] \notin {"answered", "done"}
  /\ ctx[r] = "live"
  /\ ctx' = [ctx EXCEPT ![r] = "done"]
  /\ UNCHANGED <<rowVars, charging, records, charges, seen, lateCache, adjust, toppedUp, reader>>

(* RecordUsage inserts the usage record; request_id is unique.  When the   *)
(* record has no cost, or charging is switched off, that was all.          *)
IDTakenUnindexed(r) == FALSE
IDTaken(r) == \E x \in records : RequestIDOf[x] = RequestIDOf[r]

AfterRecordUnknown(r) == IF Cost(r) > 0 THEN "charging" ELSE "done"
AfterRecord(r) == IF Cost(r) > 0 /\ BillingEnabled THEN "deducting" ELSE "done"

CreateRecord(r) ==
  /\ charging[r] = "recording"
  /\ \/ /\ ctx[r] = "live"
        /\ ~IDTaken(r)
        /\ records' = records \cup {r}
        /\ charging' = [charging EXCEPT ![r] = AfterRecord(r)]
     \/ /\ ctx[r] = "done" \/ IDTaken(r) \/ DatabaseFails
        /\ charging' = [charging EXCEPT ![r] = "done"]
        /\ UNCHANGED records
  /\ UNCHANGED <<rowVars, ctx, charges, seen, lateCache, adjust, toppedUp, reader>>

(* DeductBalance, first half: the SELECT of the transaction and the check. *)
AffordableUnchecked(old, cost) == TRUE
Affordable(old, cost) == old >= cost

ReadBalance(r) ==
  /\ charging[r] = "deducting"
  /\ \/ /\ ctx[r] = "live"
        /\ Affordable(balance[UserOf[r]], Cost(r))
        /\ seen' = [seen EXCEPT ![r] = balance[UserOf[r]]]
        /\ charging' = [charging EXCEPT ![r] = "read"]
     \/ /\ \/ ctx[r] = "done"
           \/ ~Affordable(balance[UserOf[r]], Cost(r))
           \/ DatabaseFails
        /\ charging' = [charging EXCEPT ![r] = "done"]
        /\ UNCHANGED seen
  /\ UNCHANGED <<rowVars, ctx, records, charges, lateCache, adjust, toppedUp, reader>>

(* DeductBalance, second half: the UPDATE with the balance computed from   *)
(* the SELECT, and the COMMIT.  A failure rolls back; it is only logged.   *)
CommitDeduction(r) ==
  /\ charging[r] = "read"
  /\ \/ /\ ctx[r] = "live"
        /\ SetBalance(UserOf[r], seen[r], -Cost(r))
        /\ charges' = [charges EXCEPT ![r] = @ + 1]
        /\ charging' = [charging EXCEPT ![r] = "caching"]
     \/ /\ ctx[r] = "done" \/ DatabaseFails
        /\ charging' = [charging EXCEPT ![r] = "done"]
        /\ UNCHANGED <<balance, granted, spent, charges>>
  /\ UNCHANGED <<freshCache, ctx, records, seen, lateCache, adjust, toppedUp, reader>>

(* The redis.Set that ends DeductBalance.  No read in the program uses the *)
(* key; updateRedisStats after it only adds to statistics nobody reads.    *)
CacheDeductionWaits(r) ==
  /\ charging[r] = "caching" /\ ctx[r] = "live"
  /\ charging' = [charging EXCEPT ![r] = "done"]
  /\ lateCache' = [lateCache EXCEPT ![UserOf[r]] = seen[r] - Cost(r)]
  /\ UNCHANGED <<rowVars, ctx, records, charges, seen, adjust, toppedUp, reader>>

CacheDeduction(r) ==
  /\ charging[r] = "caching"
  /\ charging' = [charging EXCEPT ![r] = "done"]
  /\ lateCache' = IF ctx[r] = "live"
                  THEN [lateCache EXCEPT ![UserOf[r]] = seen[r] - Cost(r)]
                  ELSE lateCache
  /\ UNCHANGED <<rowVars, ctx, records, charges, seen, adjust, toppedUp, reader>>

RecordUsage(r) ==
  \/ CreateRecord(r) \/ ReadBalance(r) \/ CommitDeduction(r) \/ CacheDeduction(r)
-------------------------------------------------------------------------------
(* UserRepository.AdjustBalance: SELECT, check, UPDATE and COMMIT.  It     *)
(* leaves both caches alone.                                               *)
AdjustReadUnchecked(a) ==
  /\ adjust[a] = "idle"
  /\ adjust' = [adjust EXCEPT ![a] = "read"]
  /\ seen' = [seen EXCEPT ![a] = balance[UserOf[a]]]
  /\ UNCHANGED <<rowVars, usageVars, lateCache, toppedUp, reader>>

AdjustRead(a) ==
  /\ adjust[a] = "idle"
  /\ IF balance[UserOf[a]] + AmountOf[a] < 0
     THEN adjust' = [adjust EXCEPT ![a] = "refused"] /\ UNCHANGED seen
     ELSE /\ adjust' = [adjust EXCEPT ![a] = "read"]
          /\ seen' = [seen EXCEPT ![a] = balance[UserOf[a]]]
  /\ UNCHANGED <<rowVars, usageVars, lateCache, toppedUp, reader>>

AdjustCommit(a) ==
  /\ adjust[a] = "read"
  /\ adjust' = [adjust EXCEPT ![a] = "committed"]
  /\ SetBalance(UserOf[a], seen[a], AmountOf[a])
  /\ UNCHANGED <<freshCache, usageVars, seen, lateCache, toppedUp, reader>>

(* UpdateBalance: one UPDATE by an amount of any sign, without a look at   *)
(* the balance; then both cached copies it knows are deleted               *)
(* (maas:user:<id> is not read for money).                                 *)
UpdateBalance(t) ==
  /\ t \notin toppedUp
  /\ toppedUp' = toppedUp \cup {t}
  /\ AddBalance(UserOf[t], AmountOf[t])
  /\ freshCache' = [freshCache EXCEPT ![UserOf[t]] = NotCached]
  /\ UNCHANGED <<usageVars, seen, lateCache, adjust, reader>>

(* CheckBalance: a hit returns the cached balance; a miss reads the row    *)
(* and stores what it read for five minutes.                               *)
CheckBalanceMiss(c) ==
  /\ reader[c] = NotCached
  /\ freshCache[UserOf[c]] = NotCached
  /\ reader' = [reader EXCEPT ![c] = balance[UserOf[c]]]
  /\ UNCHANGED <<rowVars, usageVars, seen, lateCache, adjust, toppedUp>>

CheckBalanceStore(c) ==
  /\ reader[c] # NotCached
  /\ freshCache' = [freshCache EXCEPT ![UserOf[c]] = reader[c]]
  /\ reader' = [reader EXCEPT ![c] = NotCached]
  /\ UNCHANGED <<balance, granted, spent, usageVars, seen, lateCache, adjust, toppedUp>>

CacheExpires(u) ==
  /\ freshCache[u] # NotCached
  /\ freshCache' = [freshCache EXCEPT ![u] = NotCached]
  /\ UNCHANGED <<balance, granted, spent, usageVars, seen, lateCache, adjust, toppedUp, reader>>

BillingNext ==
  \/ \E r \in Requests : HandOver(r) \/ ContextEnds(r) \/ RecordUsage(r)
  \/ \E a \in Adjustments : AdjustRead(a) \/ AdjustCommit(a)
  \/ \E t \in TopUps : UpdateBalance(t)
  \/ \E c \in Readers : CheckBalanceMiss(c) \/ CheckBalanceStore(c)
  \/ \E u \in Users : CacheExpires(u)

-------------------------------------------------------------------------------
BillingTypeOK ==
  /\ charging \in [Requests -> ChargingPCs]
  /\ ctx \in [Requests -> {"live", "done"}]
  /\ seen \in [Requests \cup Adjustments -> Int]
  /\ records \subseteq Requests
  /\ charges \in [Requests -> Nat]
  /\ lateCache \in [Users -> Int \cup {NotCached}]
  /\ adjust \in [Adjustments -> AdjustPCs]
  /\ toppedUp \subseteq TopUps
  /\ reader \in [Readers -> Int \cup {NotCached}]

(* A retried call with the same request id is charged at most once, even   *)
(* when the two calls are billed concurrently, and never without a record. *)
ChargedOncePerID ==
  \A r1, r2 \in Requests :
    /\ charges[r1] <= 1
    /\ charges[r1] > 0 => r1 \in records
    /\ charges[r1] > 0 /\ charges[r2] > 0 /\ RequestIDOf[r1] = RequestIDOf[r2] => r1 = r2

(* Every RecordUsage that was started comes to its end. *)
RecordingEnds == \A r \in Requests : charging[r] = "recording" ~> charging[r] = "done"
===============================================================================
