# Verification of maas-router

maas-router is a gateway to AI models. Clients call it with an API key; it
picks an upstream account (Claude, OpenAI, Gemini or self-hosted), forwards the
request, records the usage and charges the user's balance. This directory holds
TLA+ modules of the parts that carry that logic, the TLC configurations that
check them on small instances, and proofs that TLAPS checks for every value of
the constants. Paths below are relative to `src/`.

- Run a check: `tlc -workers 2 -config GatewayParts.cfg GatewayParts` (the
  module and configuration of every run are in [Runs](#runs)).
- Check proofs: `tlapm WalletProofs.tla`.
- `PROJECT.json` lists the components, the runs, for every property a mutant of
  the model that breaks it, the source lines behind every definition, the
  findings, the hazards and the theorems.

## The system

Two backends share the repository. The Go one (`backend/cmd`,
`backend/internal`, gin, ent, PostgreSQL, Redis) is the gateway proper and what
this project models first. The Python one (`backend/app`, FastAPI) repeats chat,
billing and administration in a smaller form. Around them are `judge-agent` (a
service that scores how complex a prompt is), `contracts` (Solidity), and three
frontends. There are no Go tests, so the interleavings below are not exercised
by anything in the repository.

| Component | State it keeps | Operations | What makes it hard | What makes it correct |
|---|---|---|---|---|
| Account scheduler (`service/account_service.go`) | rows of accounts (PostgreSQL); counters of concurrency, requests of the minute and errors of the day, cached loads, session bindings (Redis); marks of unschedulable accounts (memory) | `SelectAccount`, `IncrementConcurrency`, `DecrementConcurrency`, `RecordError`, `UpdateAccountStatus` | limits checked against a cached load before the slot is taken; the DECR runs on the context of a client that may be gone; three stores without a transaction | a counter is off by no more than the requests that met a fault; accounts are taken out for a cause and come back |
| Gateway services (`gateway_service.go`, `openai_gateway_service.go`) | none | ten handlers: sticky or not, counted or not | each takes and gives back its slot its own way | see the scheduler |
| Retry loop (`handler/retry.go`) | the excluded accounts, the open response of a request | `DoRequestWithRetry` | context death between attempts; a failed selection after a failed attempt | distinct accounts, no leaked body, every request is answered |
| Billing (`billing_service.go`) | `users.balance`, usage records, two cached balances | `RecordUsage`, `DeductBalance`, `CheckBalance`, `UpdateBalance`, `AdjustBalance` | SELECT then UPDATE of a computed value; a detached goroutine on the request's context | no overdraft but by `UpdateBalance`, no money from nothing, one charge for a request id |
| Redeem codes | codes and their status | generate, validate, redeem, disable, expire | validation and use are separate transactions | a used code was paid, and paid out once; a call that begins after it is over is refused |
| Affiliate rebates | invite codes, links, rebate balances and records | invite, rebate, transfer | four statements, each of which may be the last | earnings are accounted for |
| Payments (`payment_handler.go`, `payment/`) | `payment_orders` | create, query, cancel, refund, notifications | notifications in any order and number; ids that are not unique | an order is paid once; refunds are of paid payments; an order that was never paid is not refunded |
| API keys (`api_key_service.go`) | `api_keys`, a cache by hash | validate, update, revoke, regenerate, delete, expire | row and cache entry are written apart; writes by id after an unguarded read | the cache follows the row; a key that is refused stays refused until somebody reopens it |
| Rate limiter (`middleware/rate_limiter.go`) | a sorted set in Redis | one Lua script a request | the boundary between the script and its caller; Redis down | no window passes more than the maximum |
| Batch writer (`batch_writer.go`) | a channel, atomic counters, a mutex | `Submit`, `Flush`, the ticker, `Stop` | senders, flushers and Stop race | nothing accepted is lost, repeated or reordered |
| Health monitor (`health_monitor.go`) | a ring of results per account | `RecordResult`, `IsHealthy`, `SetThreshold` | ring arithmetic; thresholds that change | the answers follow the latest results |
| Provider balances (`balance_service.go`, `balance_handler.go`) | a map in memory, copies in Redis | a sweep over the active accounts, queries of one | a goroutine for each account, a semaphore, results collected over a channel | a sweep returns, with one result for every account |
| Router rules (`router_service.go`, `admin/router_rule_handler.go`) | rules, a cached copy in memory | match, change, `ImportRules`, invalidate | a cache read, filled and cleared without a lock; a handler that changes the table past it | a request is routed by the rules as they are |
| Users and sessions (`user_service.go`, `auth_handler.go`, the JWT middlewares) | users, a refresh token, blacklists of tokens, a cached profile | log in, refresh, log out, change password, status, role or profile | a token checked, used and revoked by different calls; two ways to log in that share little | what ended a session keeps it ended; the profile follows its row |
| Sign-up (`auth_oauth.go`, registration) | users, identities of providers, a cookie for the state | register, begin and finish an OAuth login, unbind | look-ups and insertions without a transaction; e-mails from elsewhere | one person of a provider is one user |
| Administrators' tables (`handler/admin`, repositories) | groups, accounts, users, pairs | create, update, delete, add and remove | look up in one query, write in another | changes of different columns do not undo each other |
| Gateway handlers (`gateway_handler.go`, `openai_gateway_handler.go`, `gemini_gateway_handler.go`) | the request | analyse, map, select, forward, stream, record | a model that is replaced between permission and billing; usage spread over a stream | what is billed is what was served and reported |
| Complexity (`internal/complexity`, `complexity_service.go`) | a cache of profiles, counters of feedback | classify locally, remotely or both, with retries | a remote answer that fails, is late or less certain; levels at their thresholds | an answer is no worse than the local one |
| Model mapping (`model_mapping_service.go`) | aliases in memory, a copy in the cache | resolve a chain, set, delete, restart | cycles; memory and copy are written apart | a restart keeps the mapping that was set |
| Chat service (Python) | balances, transactions, idempotency records | check the balance, call a provider, deduct, record | a key is looked up and marked without a lock, the response is stored before the commit, an adjustment writes a value computed from an old balance | a balance within what was given and taken; no charge after an answer |
| Circuit breaker (Python) | state, failure count, time | call, reset | answers that come after the state changed | half open admits, any failure opens |
| Contracts | settlements, minted supply | submit, mint | caps checked on another figure than is minted | the supply stays below its maximum |

Components share little. A handler calls the retry loop, which calls the
scheduler; the answer goes to `recordUsage`, which starts the billing goroutine;
billing, codes, rebates and administrators meet in one column, `users.balance`;
the middlewares (API key, rate limit) stand in front. The batch writer and the
health monitor are constructed by nothing in the repository: they are modelled
as the libraries they are.

## Modules

| Module | Models | State and actions |
|---|---|---|
| `GatewayEndpoints` | the ten handlers of the gateway services | `Profile[endpoint]`: whether the handler is sticky, counts its slot, which failures mark the account |
| `AccountScheduler` | `account_service.go` and the life of a request | `pc[r]` goes lookup, choosing, selected, calling, releasing, ended; the account variables are named after their Redis keys and columns. Hang-ups (`Cancel`), Redis errors, database errors and `Crash` are actions, each allowed by a member of `Faults` |
| `UserRow` | the row of a user and its Redis copy | `SetBalance` (an UPDATE with a value computed from an earlier SELECT: at read committed it loses what was written in between) and `AddBalance` (an UPDATE that adds) |
| `Billing`, `RedeemCode`, `Affiliate` | the three services | one action per SQL transaction or Redis call; a `pc` per call |
| `Wallet` | the three on one table | a step is a step of one of them |
| `RetryLoop` | `DoRequestWithRetry` inside `Messages` or `ChatCompletions` | `at` is the place in the loop; `tried` the exclusions, `asked` a history |
| `BatchWriter` | `batch_writer.go` | a flusher for the ticker, for Stop and for every Submit that met a full buffer; each statement that other goroutines can see is an action |
| `HealthMonitor` | `health_monitor.go` | the ring with its index and counters, beside a history of the latest results |
| `PaymentOrder` | `payment_handler.go`, `payment/` | openings, notifications and calls at each of the three providers, split where they wait for one; what Stripe's, Alipay's and WeChat's clients ask, answer and read of a notification |
| `APIKeys` | `api_key_service.go`, and the update of `api_key_handler.go` by `api_key_repository.go` | validations and changing calls, split at every database or Redis call; the handler's update (`HandlerUpdate`) writes any status and any expiry, or none, and leaves the cache alone |
| `ChatBilling` | Python: `ChatService.complete`, `adjust_balance`, `idempotency.py`, `get_db` | a `step` per call; the UPDATE of a deduction holds the row (`rowLock`) until `get_db` commits, which is after the response was stored; any step may fail |
| `RateLimiter` | the script and the middleware | `Limit` is the script and the decision, since Redis runs the script as one step; a member of the sorted set is named by the clock, because the `X-Request-ID` that the middleware looks for in its context is stored there as `request_id` |
| `Handoff` | what a batch writer promises | `Accept`, `Deliver` any number, `Close` |
| `ProviderBalances` | `balance_service.go`, `balance_handler.go` | the sweep, its goroutines (`job`), the two caches; every call to a provider, to Redis or to the semaphore is an action |
| `RouterRules` | `router_service.go`, its repository and the administrators' handler | evaluations split at every unlocked access of the cache and every query; `MatchRules`, conditions, actions and defaults are operators |
| `Sessions` | logins, refreshes, logouts and changes of one user, by the service and by the handler | a `session` per call, split at every database or Redis call; a version of the tokens is the ordinal of its value among those that the row had |
| `SignUp` | `auth_oauth.go` and registration | a `signIn` per call: the redirection, the two calls to the provider, each look-up and each insertion; the unique indexes refuse what they refuse |
| `AdminTables` | groups, accounts, users and their pairs | look-up and write of a request are two actions; histories keep what requests sent (`sent`) and which rows' last update sent no limit (`silent`) |
| `HandlerCalls` | the handlers of the three APIs | a request from its permission to its record, and every event of its stream |
| `Complexity` | `classifier.go`, `complexity_service.go` | the levels as operators, `AnalyzeWithCache` with its attempts and back-off, the counters of feedback |
| `ModelMapping` | `model_mapping_service.go` | chains link by link, settings split between memory and cache, restarts |
| `GatewayParts`, `AccountParts`, `BackendParts` | several parts in one run | the parts share no state, so a behaviour runs one of them: `part` says which |
| `MCWalletScenes` | the instance of `Wallet` | a behaviour plays one of two sets of calls: `scene` says which |
| `MC*` | instances for TLC | functions that a `.cfg` cannot write, and symmetry |
| `*Proofs` | theorems | see [Proofs](#proofs) |

Data is abstracted to what the code tells apart. A prompt, an answer and a
credential do not exist in the model; a response is one of a handful of
outcomes; a token count is a small number; money is a whole number of cents; an
HTTP error is the step that it ends. Time is steps that may happen
(`EntryExpires`, `NextMinute`, `HourPasses`), so every order of a timeout and
what it races with is explored.

Definitions whose names name a mistake (`LockUnguarded`, `RevokeKeepingEntry`)
are used by no specification. `PROJECT.json` lists each as a mutant: put in the
place of the definition it follows, it breaks the property it is listed with,
which shows that the property depends on that code.

## Runs

Sizes are distinct states; each run takes about two and a half minutes or less with two workers.

| Run | Module, configuration | Instance | States |
|---|---|---|---|
| `scheduler_counter` | `MCAccountScheduler`, `SchedulerCounter.cfg` | 3 requests on 1 account of 2 slots; hang-ups, Redis errors, one crash; requests are symmetric | 805 k |
| `scheduler_returns` | `MCAccountScheduler`, `SchedulerReturns.cfg` | 2 requests with a session, administrators, database errors, threshold 2 | 92 k |
| `wallet` | `MCWalletScenes`, `Wallet.cfg` | a balance of 3, in three scenes: a call and its retry and a reader beside a redemption and an adjustment; a call and a reader beside an adjustment and a top-up of -2; or redemptions, disabling, expiry, a top-up, an invitation, a recharge and a transfer beside an adjustment | 657 k |
| `gateway_parts` | `GatewayParts`, `GatewayParts.cfg` | 3 records, buffer of 2; a window of 3 results; 2 retries over 3 accounts; a sweep of 2 accounts with one slot beside a call for one | 195 k |
| `account_parts` | `MCAccountParts`, `AccountParts.cfg` | 2 payments, 2 orders, 2 provider ids, 2 calls; 2 keys, 2 hashes, 2 validations, 2 changing calls; 4 requests at a limit of 2 in 2 seconds; 3 chats and 2 adjustments of a balance of 3, 4 of them with one key | 1 110 k |
| `backend_parts` | `MCBackendParts`, `BackendParts.cfg` | 3 calls for sessions, sign-ups (3 providers), administrators and aliases (chains of up to 2 links); 2 evaluations beside a change of the rules; a request with a stream of 2 events; 2 analyses of 3 questions and a feedback | 596 k |

What they show, property by property:

- `CounterBracket`: the concurrency counter of an account equals the slots held,
  give or take one per request that met a fault. `AccountReturns`: an account
  that stays active is open to new requests again and again.
- `NeverOverdrawn`, `NoMoneyFromNothing`, `CachedBalanceBacked`: over all
  interleavings of charges, credits, adjustments and cached reads, a balance is
  at most what was granted, and below 0 by no more than what `UpdateBalance`
  took: it adds an amount of any sign and looks at nothing
  (`service/user_service.go:470`, which has no caller). `ChargedOncePerID`: a
  retry with the same `X-Request-ID` is not charged again, since the usage record's id is unique.
  `RecordingEnds`: every billing goroutine ends.
- `CreditsAreSourced`, `EarningsAccountedFor`: a credit and its
  own record are committed together, wherever a call stops.
  `LateCallsRefused`: a redemption that begins when its code is used, disabled,
  expired or past its date is not paid, although other redemptions, disablings
  and markings go on writing the row by id; whether a code that was paid out
  ends as `used` is not promised, since `DisableCode` may overwrite it.
- `FlushedInOrder`: what the channel took is what was handled, then what one
  flusher holds, then the channel. `PendingAccounts`: `pendingCount` is explained
  by what is in the channel, in a batch, uncounted or failed. `StopFlushesAll`: Stop
  leaves nothing behind that was accepted before it. `ImplementsHandoff`: see
  [Refinement](#refinement).
- `HealthFollowsRecent`: what the monitor answers follows the last `WindowSize`
  results, whatever the ring has overwritten, unless a threshold changed since
  the last one.
- `TriesDistinctAccounts`, `RequestEnds`: the retry loop asks no account twice
  and comes to an end.
- `SweepReportsAll`: a sweep that has begun returns, with exactly one result for
  every account that was active, although the goroutines wait for slots, fail,
  and share the caches with other calls.
- `OnePaidPerOrder`: however notifications repeat and overtake each other, one
  row of an order is paid at most. `PendingIsUnidentified`: a pending row has no
  provider id, so nothing gets past the payment service for it.
  `RefundsAreBacked`: a refund is of a payment that was paid, and of a payment at
  Stripe the refunds table never claims more than was paid back.
- `CacheFollowsRow`: when the calls that changed a key are through, the cache
  holds its row or nothing, unless a validation stored a row it had read before,
  or the invalidation failed, or the handler changed the row, which leaves the
  cache alone: what the code leaves open is named by `excused`, until the entry
  is deleted or written anew. `RefusedUntilReopened`: a validation that begins
  with a hash that neither table nor cache takes is refused, unless a request
  sets its row to active or moves the expiry of an active row meanwhile. The
  handler does set revoked keys to active; what does not let a hash in is the
  late write of an update that checked the status before a revocation, of a
  mark, a clean-up, a regeneration or another validation.
- `CredBacked`: chats and adjustments interleave as they may, and an adjustment
  writes a value it computed from an old balance; still the Python balance stays
  within what administrators gave and took. `RetryIsFree`: who asks again after
  an answer is not charged again, since the response is stored before the commit.
- `RoutesByTable`: a request is routed by an active rule that matches and that
  none precedes, and by default only if there is none. This holds of an
  evaluation that nothing disturbed (`quiet`): the table did not change while
  the rules it holds were read, and the cache was not passed by or filled late.
  The disturbed ones may use older rules, or, when the cache is cleared between
  the check and the return, none.
- `OldTokensDoNotRefresh`: whatever is left in the refresh key, no refresh that
  begins after the version rose takes a token from before it.
  A version is new with every rise: the service and the reset add one, the
  handler's change of the password stores 32 random bits
  (`repository/user_repository.go:296`), taken not to be a value that the row
  had before; versions are only compared for being equal, so that the model
  numbers them in the order in which the row had them. `LogoutEndsSession`: once
  the key is deleted and no login or refresh is under way, nothing refreshes until somebody logs in. `ProfileFollowsRow`: the cached
  profile is the row's, but for the late fill and the failed clearing the code
  leaves open.
- `OneUserPerIdentity`: all logins of one identity reach one user, two first
  logins at a time included; the exceptions the code leaves open are `loose`.
- `ColumnsHoldLastSent`: a column has the value that a request last sent for
  it, though every administrator looked the row up before another one wrote.
  The exception is `rpm_override` of a group, which is null after any update
  that did not send it (`repository/group_repository.go:202`), so that an
  administrator who renames a group undoes the limit another one set.
- `BilledModelIsServed`: what is billed is the model the upstream was asked for,
  except where a recommended or mapped model replaces the client's and the body
  is forwarded as it came. `TokensAsReported`: the tokens recorded are those of
  the last report, also of a stream that broke.
- `NeverBelowLocal`: where a local answer exists, no failure of the remote
  service and no cached profile makes the answer less confident than it.
- `MappingSurvivesRestart`: a new process resolves by the mapping that was set
  last, unless the copy was lost, overtaken or is empty.

Six runs end in a violation on purpose: a comment or message of the code says
something the code does not do. `PROJECT.json` quotes the lines.

| Run | Says | Does |
|---|---|---|
| `scheduler_real_time` | the counter read from Redis is real-time data | a client that hangs up leaves it one too high when no request is on the account any more: the DECR runs on a dead context, the key has no expiry and nothing else lowers it |
| `scheduler_platform` | the candidates are the accounts of the platform | a session bound by a Claude request sends an OpenAI request to the Claude account |
| `wallet_lost_credit` | redeeming adds to the balance, a charge subtracts | a credit between the charge's SELECT and UPDATE is wiped out |
| `redeem_twice` | a used code is refused | two redemptions that validated before either used the code are both paid |
| `duplicate_charge` | prevents duplicate processing of the same request | two calls with one idempotency key that look before either has stored its response are both charged |
| `rate_limit` | the maximum number of requests in a window | the script returns at most the maximum, the middleware refuses above it: nobody is refused |

### Bounds, and why they are enough

The races here are between two calls, so every kind of call that can race with
itself appears twice (redemptions, validations, calls that change a key,
payments, retries of a request), and a third one appears where two can be held
up at once (requests of the scheduler, records of the batch writer, which then
meet a full buffer of two). Capacities are the least that have an inside and an
edge: a limit of 2, a window of 3, a buffer of 2. Amounts are the least that
make a balance suffice for one charge and not for two. Histories (`sent`,
`asked`, `granted`, `excused`) grow with the calls, so finite sets of calls
bound every behaviour; `LastHour`, `LastSecond` and `MaxRetries` bound the rest.
`MCAccountParts`, `MCBackendParts` and `MCAccountScheduler` declare the calls
interchangeable; no definition tells two of them apart, and the runs with
symmetry check invariants and action properties, not liveness. A run of several
parts runs one part in each behaviour: the parts share no state and no call, so
that their interleavings show nothing that one alone does not. A chain of
aliases needs one link more than `MaxHops` to be cut, versions of a user one
more than the two that a token and its successor have. Deadlock is not checked: calls
run once, and then a behaviour stops.

### Fairness

Weak fairness is assumed only of what the Go runtime or a timeout provides: a
handler, a goroutine or a flusher that can step does (a client that waits for
an upstream has a timeout), the ticker of the batch writer ticks until its
context is cancelled, and expiries come. Nothing is assumed of clients,
administrators, Redis or the database: arrivals, hang-ups, failures and crashes
need never happen, and may.

- `FairSpec` of `AccountScheduler`: the steps of a request, expiries of marks
  and loads, the next minute (`AccountReturns`).
- `StagedSpec` of `MCWalletScenes`: the goroutine of `RecordUsage`
  (`RecordingEnds`).
- `FairSpec` of `GatewayParts`: submitters, flushers and the ticker
  (`ImplementsHandoff`), the attempts and answers of the retry loop
  (`RequestEnds`), the goroutines of a sweep, and its return
  (`SweepReportsAll`). A sweep need not begin.
- `FairHandoffSpec`: what was accepted is delivered while nobody closed the
  hand-over.

### Refinement

`BatchWriter` implements `Handoff` under the mapping `accepted <- sent`,
`delivered <- handled`, `closed <- signal # {}`: a send on the channel is an
`Accept`, the return of `flushFunc` a `Deliver` of a whole batch, the first
signal to stop a `Close`, and everything else (counters, the mutex, draining,
failed sends) a stutter. The safety half is proved for every number of records
and every buffer (`WriterImplementsHandoff`); the liveness half, that an open
writer does not keep what it accepted, is checked by TLC in `gateway_parts`.
After the signal the abstract specification owes nothing: a record that is sent
while Stop drains may stay, and `StopFlushesAll` says which may not.

## Proofs

A theorem holds for any number of accounts, users, requests, records and
payments, and for any limits, under the assumptions on constants that the
modules name (`SchedulerAssumption`, `BatchAssumption` and so on), which every
run evaluates. Each proof has the same shape: the initial states satisfy the
invariant, one lemma or step per action preserves it, and PTL puts them together.
Every invariant and every action property that a passing run checks is the
statement of a theorem.

| Module | Theorems | The inductive invariant, and why it is needed |
|---|---|---|
| `AccountSchedulerProofs` | `SchedulerTypeCorrect`, `SchedulerCounterBracket` | The bracket compares a counter with the sizes of three sets of requests, so each action needs to know how it moves a request between the sets: inductive only with `PlacedBeforeCall` (a request past its selection has an account) and `FaultOrder` (a fault is only met at the step that can meet it). |
| `WalletProofs` | `WalletTypeCorrect`, `WalletNeverOverdrawn`, `WalletNoMoneyFromNothing`, `WalletCacheBacked` | An overdraft could come from a write of a stale value, so the invariant speaks of the values in flight: a charge or an adjustment that has read the row holds a value that is at most what was granted and at least what it subtracts (`DeductionBacked`, `AdjustmentBacked`), as does a reader about to store (`ReaderBacked`). Grants and unchecked debits only grow, which keeps what was read backed. |
| | `WalletChargedOncePerID` | The unique column makes the ids of the records distinct (`DistinctIDs`), and only a request with a record charges (`ChargeFollowsRecord`). |
| | `WalletLateCallsRefused` | A code that is over stays over, whichever call writes its row by id (`OverStays`); so a redemption that was idle when its code was over is idle with its code over, or refused, from then on (`StopsHere`). |
| | `WalletEarningsAccountedFor` | A rebate is recorded before it is credited, so the records are ahead of the earnings by the sum of what is owed (`RecordsCoverOwed`). |
| | `WalletCreditsAreSourced` | An equation of five sums over sets that grow; each step adds one element to one of them (`FiniteSources`). |
| `BatchWriterProofs` | `BatchTypeCorrect`, `OrderOfFlushes`, `StopIsComplete` | `OneFlusher`: whoever is past the lock holds the mutex, and only it has a batch. `StopOwes` carries what Stop found when it was called to the flush that Stop itself performs. |
| | `WriterImplementsHandoff` | A record is sent by its own Submit and once (`SentBySubmit`), so that every send is an `Accept` of something new, and a batch that is being written is not empty (`WrittenNotEmpty`). |
| | `PendingCountIsExact` | The equation itself, with the cardinality of the sends not counted yet. |
| `GatewayPartsProofs` | `RetryTypeCorrect`, `RetryTriesDistinctAccounts` | Who was asked is excluded by the time of the next selection (`AskedAreTried`); while an attempt runs, its account is the one that is not. |
| | `HealthTypeCorrect`, `MonitorFollowsRecent` | The ring, read backwards from its index, is the history of the last results (`RingsHoldRecent`), and the mark is what they said when the account was last judged (`MarkFollowsRecent`). |
| | `BalancesTypeCorrect`, `SweepIsComplete` | The semaphore holds as many slots as goroutines are between acquiring and releasing (`SlotsCounted`); results are those of the goroutines that are done (`ResultsOfReported`), whose accounts memory knows (`KnownWhenCopied`). |
| `AccountPartsProofs` | `PaymentTypeCorrect`, `OrderPaidOnce`, `NoCallGetsThrough` | `RowFollowsOpening` ties a row to the opening that made it; a notification writes all rows of an order at once, and the unique index (`Storable`) makes it fail when there is more than one. |
| | `RefundsOnlyOfPaid` | A call that has asked for a refund knows that its payment was settled (`RefundsOfSettled`); what Stripe paid back covers the refunds table and all that calls have yet to save (`StripePaidUnsaved`). |
| | `ChatTypeCorrect`, `ChatCredBacked`, `ChatRetryIsFree` | Who deducted and has not committed holds the row, and the balance covers its price (`RowHolder`); what an adjustment read is within bounds that only widen (`ReadsBacked`). An answer was stored before it was given (`AnswersStored`), so a later call is replayed (`LateReplayed`). |
| `APIKeysProofs` | `KeyTypeCorrect`, `KeyCacheFollowsRow`, `KeyRefusedUntilReopened` | Every cache entry that differs from its row needs a reason: a call that has yet to delete it, or an excuse (`EntryExplained`), and so does what a validation read and has not stored yet (`StoringHolds`). A hash belongs to one row at most, and one that was replaced is not issued again (`HashesIssued`); the hash of a barred validation goes on being refused by table and cache, and the validation holds nothing (`BarredRefused`). |
| `SessionsProofs` | `SessionTypeCorrect`, `SessionOldTokensDoNotRefresh`, `SessionLogoutEnds`, `SessionProfileFollows` | Versions only grow, so the version at which a refresh began is a floor for the one it compares with (`FloorsArePast`); that a session stays over needs what calls under way may still store, and the profile what its readers hold (`FillersAreKnown`). |
| `BackendPartsProofs` | `HandlerTypeCorrect`, `HandlerBilledModelIsServed`, `HandlerTokensAsReported` | A record is written from the request alone, so the invariant says of every request what its record will say (`ServedRight`, `ModelRight`, `TokensRight`). |
| | `RuleTypeCorrect`, `RequestsRouteByTable` | While nothing disturbs it, an evaluation holds a list of the active rows by priority (`EvalsRight`), and so does the cache unless a change has yet to clear it (`CacheIsTable`). There are several such lists when priorities are equal: they are equally long (`ListsAreComplete`), and their first matches decide alike (`FirstMatchDecides`). |
| | `SignUpTypeCorrect`, `LoginsReachOneUser` | E-mails are unique (`MailsUnique`) and an identity's row has the e-mail of its user (`RowsHaveMails`), so that a login which was beaten to the user or to the row finds the same one; from there it knows the user its identity is bound to (`CallRight`). |
| | `AdminTypeCorrect`, `UpdatesKeepColumns` | A pair has both its rows (`PairsExist`) and a request's row was one of the table. What was sent for a row that exists is a row (`SentRows`), and every statement, whatever its request had read, sets the columns that it sends and the limit of a group (`SentColumns`). |
| | `ComplexityTypeCorrect`, `LocalIsAFloor` | Whatever is cached under a key, and what a call has kept while it asks, is no less confident than the local answer to some question with that key (`CacheRight`, `AnalysisRight`); counters are bounded by the calls that raised them. |
| | `MappingTypeCorrect`, `LastMappingSurvives` | Until something speaks for another mapping, memory has the last one, and the cache has it or the call that set it is about to store it (`CopyFollows`). |

**Composed specifications.** `GatewayPartsImplementEach`,
`AccountPartsImplementEach` and `BackendPartsImplementEach` prove that a
behaviour of the composed module is a behaviour of every part, step by step; so
the theorems about the parts apply to what TLC runs, and `PartsTypeCorrect`,
`AccountTypeCorrect` and `BackendTypeCorrect` follow.

**Sums and counters.** The provers have no induction over data. Where a counter
meets the size of a set, each action is shown to add or remove one element, by
the theorems about cardinality. The sums of `WalletProofs` are functions that
the community modules define by recursion: `WalletProofs` shows once that a sum
is the number of units of its elements (a finite set of pairs), by taking a
least set for which it is not, and from that how one more element changes it.
The least index of a set (`LeastIndex`) is found in the same way, by the
well-foundedness of inclusion among finite sets.

**Assumptions.** Nothing is assumed of the sign of a top-up: `AmountOf` is of
adjustments and top-ups any integer. Beyond types they are of three kinds, all of which the code
meets. Calls and rows are finite in number (`IsFiniteSet`), as they are in a run
of the program. A value that stands for "nothing" is not a value (`NoRules`, a
nil cache, is no list of rules; `NoRecord` no row; `NoWindow` no ring). And what
a schema or a constructor says of its input: redeem codes are worth something,
`WindowSize` and the buffer are positive, the thresholds a monitor starts with
are among those it can be given, rules have priorities that are numbers.

Only model-checked: liveness (`AccountReturns`, `RecordingEnds`, `RequestEnds`,
`SweepReportsAll`, the liveness half of `ImplementsHandoff`), which is out of
the prover's reach; of the last two the safety half is proved
(`SweepIsComplete`, `WriterImplementsHandoff`). What the six violated properties
say is false of the code, so nothing is proved of them.

## Not modelled

Formats of requests and answers, server-sent events, signatures of providers,
password hashing, the contents of OAuth exchanges, metrics, logging, configuration, the
frontends and the deployment. Whole parts: the caches (thin wrappers of Redis,
whose keys and times to live are in the modules of the services), channel tests
and branding, the judge agent and its client (a score comes from outside), and
in Python the circuit breaker, the rate limiter, the workers and
administration; and the contracts. Within the modelled parts:
`ForwardRequest` and `GetAccountByID` of the scheduler, which no handler calls;
the quotas of billing, which nothing checks; statistics queries;
`CheckPermissions` of a key; the features of a text that make a complexity
score; the converters of `ConvertOpenAIToGemini` and its like, which have no
caller; `BindOAuth`, which does not bind; `GetByEmail`; the periodic query of
balances, which nothing starts; the creation of a user's Python balance;
response headers of the limiter; and a second `Stop` of the batch writer.
Anything the code cannot meet is left out too: nothing is persisted by the
batch writer, so it has no crash.

Behaviour that was met while modelling and that no property states:

- A usage record whose deduction fails is never charged
  (`handler/gateway_handler.go`, `service/billing_service.go`).
- Image generations, Responses calls and OpenAI streams report no tokens and
  cost nothing (`handler/openai_gateway_handler.go`).
- A balance read through `CheckBalance` is up to five minutes old: the charge
  refreshes another key.
- Every cancellation of a pending order is refused: it has no provider id yet,
  and the payment service wants one (`PendingIsUnidentified`).
- The clients of Alipay and WeChat sign what they would send and send nothing
  (`payment/alipay.go`, `payment/wechat.go`): their refunds are reported as
  successes, and recorded, while nobody was asked to pay.
- A failure at Stripe changes no order: failures are looked up by
  `out_trade_no`, which Stripe does not give (`handler/payment_handler.go`). A
  success at WeChat stores an empty provider id, so the unique index refuses
  the second one.
- An e-mail made of a WeChat union id is looked up among the users, one made of
  an openid is not (`handler/auth_oauth.go`): the test only knows the latter.
- A chat whose commit fails after its response was stored is free, and so are
  its retries (`app/services/chat_service.py`).
- An adjustment that dies between SETNX and EXPIRE leaves its key locked for
  ever (`app/middleware/idempotency.py`).
- `UpdateBalance` checks neither the sign of the amount nor the balance
  (`service/user_service.go:470`).
- The handler's update of a key sets a revoked or expired key to active, clears
  the limits and the expiry that were not sent, and leaves the cache as it is
  (`repository/api_key_repository.go:203`).
- Of a notification of Alipay's a part is verified, and the order is read
  beside it (`payment/alipay.go:255`), so that the model lets it name any order.
- A refund that Stripe made and whose answer was lost has no row
  (`handler/payment_handler.go:509`).
- More requests than `max_concurrency` may be on an account, since each chose
  it by a load of its own time.
- `GetUserRedeemRecords` lists codes that are `used`: one that was disabled
  after it was paid out is not among them (`service/redeem_code_service.go`).
- A chat that asks for a stream calls `complete_stream`, which does not exist
  (`app/api_server/router.py`).
- When every attempt fails, the retry loop returns the last response with its
  body closed, and a stream is answered 200 and empty.
- A flush of the batch writer is not limited to `maxBatchSize`: the `break`
  leaves the `select`, not the loop (`service/batch_writer.go`).
- A deleted or regenerated key's old entry is never removed from the cache.
- Two invitations may overwrite each other's code, and `DisableCode` may
  overwrite the status of a code that was used.
- The comment at `server/middleware/jwt_auth.go:50` promises that the token
  version is checked; the middleware stores it and nothing compares it, so an
  access token outlives a change of the password.
- A recommended model is billed and selects the account, but the client's body
  is forwarded and names the old one (`handler/gateway_handler.go:257`).
- The administrators' handler of rules never clears the router's cache, and
  the cache of users by e-mail is never cleared.
- Three calls of `recordUsage` in `handler/openai_gateway_handler.go` pass too
  few arguments and `handler/gateway_handler.go` assigns an undeclared
  `account`: what the surrounding code says is modelled.

## Plan

In the order of what matters most. The runs each answer a question of their
own, so further parts join `account_parts` or `backend_parts`, and a property
of theirs replaces a shallower one.

1. Proofs: that the scheduler implements a counting semaphore as long as no
   fault is met (an abstract specification with a refinement mapping), and that
   a `Wallet` without concurrent charges keeps a ledger, `balance = granted -
   spent`; both say how far the violated properties would hold.
2. Proofs of what the safety of liveness needs: that a request of the retry
   loop closes every body but the one it returns, that a recording ends at one
   of its ends, and that attempts are bounded.
3. The rest of the Python backend: the breaker against its own comments, the
   limiter that checks and then adds, the queue of the billing worker, and the
   choice of a provider.
4. `AccountCache` (`GetAccountByID` and its two caches) and the quotas of
   billing, once something calls them.
5. `Settlement`, the contracts, with the maximum supply.
