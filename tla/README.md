# A TLA+ model of LightBridge

LightBridge is a gateway in front of AI providers: users and their API keys,
upstream accounts and their scheduling, billing by usage, and a payment system
that sells balance and subscriptions. The backend (Go, `src/backend`) is a
handful of processes around PostgreSQL and Redis. What is hard in it is what
several processes and outside parties do to the same rows and keys, and what is
left behind when one of the steps fails. This directory models the parts where
that matters: payments and refunds, idempotent requests and the system operation
lock, the scheduler's cache of accounts, the refresh of OAuth tokens, the charge
for usage, and the quotas of platforms.

Paths below are relative to `src/backend/internal/`.

## 1. Inventory

| Component | State | Operations | What is hard | Module |
|---|---|---|---|---|
| **Payment orders** `service/payment_order*.go`, `service/payment_fulfillment.go` | a row of `payment_orders` (status, paid_at, trade number, updated_at), `payment_audit_logs`, the redeem code of the order, the provider's view of the payment | create, cancel, expire, verify, webhook, fulfil, retry | all of them run at once on one order; fulfillment is five writes without a transaction around them; notifications are delivered until acknowledged | `PaymentOrder` |
| **Refunds** `service/payment_refund.go` | the same row, the balance or subscription it bought, what the gateway paid back | request, prepare, execute, roll back | lock, deduction, gateway and record are four systems' writes; the plan is older than the lock; the gateway may act and report an error | `PaymentRefund` |
| **Providers, webhooks** `payment/provider/*`, `handler/payment_webhook_handler.go` | the configuration of instances | create, query, cancel, refund, verify a notification | which errors are answered with 2xx; refunds that settle later | as their users see them |
| **Redeem codes** `service/redeem_service.go` | a code, unused or used | create, redeem | one transaction marks the code and credits | in `PaymentOrder` |
| **Subscriptions** `service/subscription_service.go` | term, status, usage windows | assign or extend, adjust, revoke, expire | the new term is computed from a read made outside the update | its payments only |
| **Affiliate rebates** `service/affiliate_service.go` | quota ledger of an inviter | accrue, freeze, transfer | claimed once per order by an audit row | the claim only |
| **Idempotency records** `service/idempotency.go`, `repository/idempotency_repo.go` | a row per key: status, lock, expiry, response | claim, reclaim, finish, clean up | leases that end before the work does; writes by id without an owner; decisions by a time read before | `SystemOperation` |
| **System operation lock** `service/system_operation_lock_service.go` | one row of the same table | acquire, renew, release | a lease lapses, is taken over, and is released by the one that lost it | `SystemOperation` |
| **Scheduler snapshots** `service/scheduler_snapshot_service.go`, `repository/scheduler_cache.go` | an outbox, a watermark, versioned lists of a bucket, cached accounts | enqueue, poll, rebuild, fall back | ids that commit out of order; older reads with newer versions; rebuilds skipped while another holds the lock | `SchedulerSnapshot` |
| **OAuth refresh** `service/oauth_refresh_api.go` | tokens of an account, a lease in Redis, a mutex, a token cache | refresh, recover, cache | a refresh token is spent once; the provider and the database cannot be written together | `OAuthRefresh` |
| **Usage billing** `repository/usage_billing_repo.go`, `service/billing_cache_service.go` | charged request ids and their archive, a balance in the database and one in Redis | apply, archive, cache | a usage that is sent again; writes to the cached balance in any order | `UsageBilling`, `UsageLedger` |
| **Platform quotas** `service/user_platform_quota_flusher.go`, `service/gateway_billing_platform_quota.go` | an entry and a dirty set in Redis, a row in SQL, each with its window | count, reset, flush, re-add | midnight between two steps; a crash between the pop and the write | `QuotaUsage` |
| Concurrency slots, user message queue `repository/concurrency_cache.go`, `service/user_msg_queue_service.go` | sorted sets and leases in Redis | acquire, release, clean up | a time to live against the length of a request | none |
| WebSocket pool, user sessions, API key cache, account scheduling, background jobs, modules, promotions, moderation, protocol conversion | see `PROJECT.json` | | | none (section 6) |

How they meet in the payment system:

```
user ──CreateOrder──▶ payment service ──CreatePayment──▶ provider ◀── user pays
                          ▲   ▲   ▲                          │
       expiry loop ───────┘   │   └──── webhook, repeated ───┘
       administrator ─────────┘         until answered with 2xx
                          │
                          ├── balance order: redeem code ──▶ users.balance, rebate
                          ├── subscription order ──────────▶ user_subscriptions
                          └── refund: takes it back ───────▶ gateway
```

Every arrow is a call that may fail before or after its effect; the arrows of
different requests interleave freely; a process may stop at any point.

How the others meet:

```
                 ┌── SchedulerSnapshot: which account? ◀── outbox ── any change to an account
request ── checks┤── UsageBilling, QuotaUsage: may this user? (Redis, else database)
                 └── OAuthRefresh: its access token (Redis, else database, else provider)
   │ answered
   └── UsageBilling: one transaction, then Redis   └── QuotaUsage: Redis, then row or flusher
administrator ── SystemOperation: record of the key, then the lock, then the operation
```

The first four read Redis first and repair it afterwards, so their modules keep both
copies and the steps between them: what is read is kept in the state of the
request, job or poller that read it until it is written somewhere.

What makes the modelled components correct:

* an order is credited at most once, only for a payment in full, and is reported
  complete only when it was;
* the locks (`RECHARGING`, `REFUNDING`) exclude what they are meant to exclude,
  although some writes under them carry no condition;
* a payment the provider has forgotten about is on record here, and ends in a
  credit or in a state an administrator can act on;
* what a refund takes it gives back, or the order says that it holds it;
* a key is executed by one request at a time and its effect is not repeated while
  its record should live; a lease that is renewed keeps others out;
* the scheduler's list ends as the accounts that can be scheduled, and whoever is
  in it can be read;
* a race of refreshes costs nobody an account, and an expiring token is renewed;
* a usage is charged once, with its record, and the balance that admits requests
  catches up with the one that is charged;
* usage is not counted twice, and what the database does not know yet is known to
  be missing.

## 2. Modules

| Module | Models | Proofs | Abstract specification |
|---|---|---|---|
| `PaymentStatus` | statuses; which statuses a refund starts from; the moves the refund code makes | | |
| `PaymentOrder` | the life of an order up to its credit | `PaymentOrderProofs` | `OrderLedger`: paid, given once, done |
| `PaymentRefund` | the refund of completed orders of one user | `PaymentRefundProofs` | `RefundMoves` of `PaymentStatus`, on which `PaymentOrder` builds |
| `SystemOperation` | idempotency records and the lock over the same table | `SystemOperationProofs` | |
| `SchedulerSnapshot` | the scheduler's cache of one bucket | `SchedulerSnapshotProofs` | |
| `OAuthRefresh` | the tokens of one account | `OAuthRefreshProofs` | |
| `UsageBilling` | charges and the cached balance of one user | `UsageBillingProofs` | `UsageLedger`: one bill per key, a balance they add up to |
| `QuotaUsage` | the quota of one user on one platform | `QuotaUsageProofs` | |
| `MC...` | constants and symmetry for TLC | | |

Common to all: a worker, request or process has a program counter `pc`; one call to
the database, to Redis or to a provider is one step. `Crash` stops a process between
any two. Constants named `Max...` are bounds of the instances, not of the code.
A few variables are read by properties only (`credits`, `valid`, `handled`, `missed`,
`charged`, `spent`, `grown`, `lost`): no guard depends on them.

### 2.1 PaymentOrder

A *worker* is one goroutine in the payment service; `pc` is the next statement it
executes against the database or the provider, `job` the order and `op` the
handler. One statement is one step, so that everything another worker can see
between two statements happens. A read whose result is used by a later
conditional update is not carried along: the update decides again, as in the
code. Where the code acts on what it read (`ExecuteFulfillment` before
`LockOrder`, the queried payment, the audit log) the two are separate steps.

| Code | Actions |
|---|---|
| `CreateOrder`, `createOrderInTx`, `invokeProvider` | `CreateOrder`, `InsertOrder`, `InvokeProvider`, `SavePayURL`, `CreateFailed` |
| `CancelOrder`, `AdminCancelOrder`, `ExpireTimedOutOrders`, `cancelCore` | `CancelOrder`, `ExpireTimedOutOrder`, `CheckPaid`, `ClosePayment`, `CancelCore` |
| `VerifyOrderByOutTradeNo`, `ReconcilePendingWxpayOrders` | `VerifyOrder`, `CheckPaid` |
| `checkPaidWithOptions` of a paid order | `PersistTradeNo`, then the notification |
| `handleNotify`, `HandlePaymentNotification`, `confirmPayment`, `toPaid`, `alreadyProcessed` | `Webhook`, `ConfirmPayment`, `ToPaid`, `AlreadyProcessed`, `Respond` |
| `RetryFulfillment` | `RetryFulfillment`, `ResetForRetry` |
| `executeFulfillment` and the lock of both kinds | `ExecuteFulfillment`, `LockOrder` |
| `doBalance` | `LookupCode`, `CreateCode`, `RedeemCode`, `ApplyAffiliateRebate` |
| `doSub` | `CheckGranted`, `AssignSubscription` |
| `markCompleted`, `markFailed` | `MarkCompleted`, `AuditSuccess`, `MarkFailed` |

`audit` keeps the three audit actions the code reads back or an operator depends
on. `grace` says whether `updated_at` lies within the grace period in which an
expired order can still be paid; every update of the row refreshes it, as the
schema's `UpdateDefault` does. `credits` counts what the user was given.
`upstream` is the provider's state and `owed` its promise to notify again.
`Refund` stands for module `PaymentRefund`: any of the moves in `RefundMoves`,
which `MovesAsAssumed` checks and proves on the other side.

Failure. A step in `Unreliable` may fail; a failed single statement has no
effect, a failed call of several statements (`RedeemCode`, `AssignSubscription`,
`InvokeProvider`) may fail after its effect. `Crash` stops every handler.
`MaxFaults` bounds how many of these happen.

What the model takes for granted: the user can pay only after `CreateOrder`
answered with the link (so the unconditional `FAILED` in `CreateOrder` meets no
payment); a provider does not report a payment nobody made; redeem codes of
orders are unique. Amounts are abstracted to *the amount asked for* (`paid`) and
*another* (`mispaid`); the limits are counted in orders; the provider mismatch and
invalid-amount checks before `toPaid` are part of `AmountMatches`.

### 2.2 PaymentRefund

The refund acts on orders that are `COMPLETED`, of one user with one balance.
`taken` is what refunds of an order hold back now, `refunded` what the gateway has
paid back. A subscription's remaining term is one of `long`, `short` (the
deduction would expire it, so it is revoked), `expired`, `revoked`.

| Code | Actions |
|---|---|
| `RequestRefund` | `RequestRefund`, `MarkRequested` |
| `PrepareRefund`, `prepDeduct` | `PrepareRefund` |
| `ExecuteRefund` | `LockOrder`, `CheckHeld`, `DeductBalance`, `DeductSubscription`, `RereadSubscription` |
| `gwRefund`, the adapters' `Refund` | `GatewayRefund` |
| `markRefundOk` | `MarkRefundOk` |
| `handleGwFail`, `RollbackRefund`, `restoreStatus` | `GatewayFailed`, `RollbackRefund`, `LogRollbackFailed`, `MarkRefundFailed`, `RestoreStatus` |

The plan is made before the lock; meanwhile the user may `Spend`, time may pass,
and another refund may run. `PendingIsError` are the orders of a provider that
reports an accepted refund as an error until it is settled.

### 2.3 SystemOperation

| Code | Actions |
|---|---|
| `IdempotencyCoordinator.Execute` up to its claim | `Begin`, `CreateProcessing`, `GetExisting`, `ReclaimExpired`, `GetLatest`, `ReclaimFailed` |
| the two final writes | `MarkFinished` |
| `SystemOperationLockService.Acquire` | `AcquireNew`, `AcquireRead`, `AcquireReclaim` |
| `renewLoop`, `Release` | `Renew`, `Release` |
| the executed function | `Run` |
| `cleanupOnce` | `Cleanup` |

Time is an integer `clock`. A request compares rows with `start`, the time it read
when it began, as the code does (`idempotency.go:252`), so every decision may be
late by up to `ClaimTime`. `valid` remembers until when the last effect of a key must
not be repeated: `TTL` from the start of its request, which is what its record says.
The system operations are requests whose function runs under the lock; the lock's
row has its own key, and the same statements work on it. `buildSystemOperationID`
derives an operation's id from its key, so the key stands for the id.

`Tick` carries the assumptions about time: `ClaimTime`, `RunTime`, and that
`renewLoop`, which runs three times per lease, renews in time *what it can renew*.
A cancelled request context makes the final writes fail: that is `Fault`. Left out:
requests without a key, which the default configuration (`ObserveOnly`) executes
without a record; the stored response; `RestoreBackup`, which takes the lock in the
same way.

### 2.4 SchedulerSnapshot

| Code | Actions |
|---|---|
| a change of an account: update, outbox row, cached account | `Change`, `Enqueue`, `SyncRead`, `Sync`; `InsertInTx`, `Commit` when usage billing changes it; `Used` |
| `pollOutbox` and its handlers | `ListAfter`, `Handle`, `Stamp`, `SetAccount`, `SetWatermark` |
| `rebuildBucket` | `LockAndLoad`, the steps of `SetSnapshot`, and `Fail`, which also ends a poller's failed batch |
| `SetSnapshot` | `Version`, `WriteAccounts`, `Activate` (a script compares versions) |
| `ListSchedulableAccounts` | `Fallback`, `Load` |
| the lock's time to live | `LockExpires` |

A row of `outbox` is not visible before its transaction commits, whatever its id:
that is how a poller can step over one, and `missed` remembers it. A snapshot is
represented by the database it was read from, versions by their order. A fallback
of a request rebuilds without the bucket's lock. The lock may end at any time: its
time to live is as long as the timeout of a rebuild (30 s). Left out: the limit of
200 events per batch; the rebuild that lag or backlog triggers, which is one of the
rebuilds that can happen at any time; events of groups and of bulk changes, which
are sequences of the modelled ones; the setting that turns the periodic rebuild off
(its default is 300 s).

### 2.5 OAuthRefresh

| Code | Actions |
|---|---|
| `RefreshIfNeeded` | `LockLocal`, `AcquireRefreshLock`, `GetByID`, `Refresh`, `TryRecover`, `Persist`, `Unlock` |
| `processRefresh`, `refreshWithRetry`, `postRefreshActions` | `ListActive`, `SetError`, `InvalidateToken` |
| `OpenAITokenProvider.GetAccessToken` | `Begin`, `GetAccessToken`, `Wait`, `CheckTokenVersion`, `SetAccessToken` |
| tokens come into the refresh window, entries end | `Age`, `CacheExpires`, `LockExpires` |

Credentials are numbers in the order of their issue; the provider accepts the newest
and each once, so `stored < issued` with nobody about to store is a token that is
lost for ever (`Lost`). Workers have a `host`: the mutex is per process, the lock in
Redis is shared, has no owner when it is deleted, and may fail. A refresh whose first
read fails works on the account of its caller, which gets the new credentials whether
the row is written or not (`shared`, `Persist`); that takes two failures where
`oauth_all` has one, and is met by the proofs of section 4. Left out: Gemini,
Antigravity and Grok, which share `RefreshIfNeeded` and wait otherwise; accounts
without a refresh token; retry counts and cooldowns; a new authorisation by an
administrator.

### 2.6 UsageBilling

| Code | Actions |
|---|---|
| `checkBalanceEligibility`, `GetUserBalance` | `GetUserBalance`, `Load`, `SetUserBalance` (a task of the write queue) |
| `usageBillingRepository.Apply`, `claimUsageBillingKey` | `Insert`, `CompareFingerprint`, `CheckArchive`, `Commit`, `CommitFails` |
| `finalizePostUsageBilling` | `DeductUserBalance` |
| `CleanupUsageBillingDedup` | `Cleanup` |
| redeem codes, refunds | `Credit`, `InvalidateUserBalance`, `Refund` |

The transaction is three steps because other transactions see one thing of it before
it commits: an insert of the same key waits. `Commit` may succeed without an answer.
The effects on subscriptions, keys and accounts are in the same transaction and are
one with the charge. A refund takes the balance and leaves the cache alone
(`payment_refund.go:288`, `415`); each deduction renews the entry's time to live
(5 minutes), so convergence waits for a pause.

### 2.7 QuotaUsage

| Code | Actions |
|---|---|
| `checkUserPlatformQuotaEligibility` | `Hit`, `Miss`, `Load`, `Set` |
| `persistUserPlatformQuotaUsage` | `Serve`, `IncrUsageCache`, `Stamp`, `IncrementUsageWithReset` |
| `flushOneBatch`, `readdOrCountLost` | `PopDirty`, `BatchGet`, `BatchSnapshotUsage`, `ReaddOrCountLost` |
| an administrator's reset | `Reset`, `DeleteCache` |
| the clock, Redis, a stop | `Midnight`, `EntryExpires`, `Crash`, `FlusherCrash` |

Usage belongs to a window, a day here; the usage of a week follows the same rule. The
month has one of its own, 30 days that roll (`monthlyMaybeReset`,
`monthlyQuotaWindowExpired`), and its usage is not modelled. What week and month do to
the day is: either may make a check write the entry anew at any time (`Hit`), and
either may not have begun (`others`). Rows are created without windows (`NewRow`), the
load copies that into the entry, and the flusher drops the key of such an entry
(`Whole`, `BatchGet`). The initial state chooses between such a row and one that was
used before, and whether the flusher is enabled. `spent` counts what was used in a
window, as the entry and the row should. Left out: users without a limit, deleted
users, the time to live of the dirty set, more than one flusher.

## 3. What TLC checks

| Run | Instance | Shows |
|---|---|---|
| `order_balance` | 1 balance order, 3 workers, 1 failure or restart in any step but two reads | `OrderInv`, `CreditedOnce`, `CreditedOnlyIfPaid`, `CompletedIsCredited`, `OneFulfiller`, `AcknowledgedIsRecorded`, `CreditsUnderLock`, and that the service implements `OrderLedger` |
| `order_sub` | 1 popup subscription order, 3 workers, 1 failure in any step but the two writes after the assignment | the same invariant, and that the days are given once |
| `order_live` | 1 balance order, 2 workers, 2 failures the service repairs by itself | `PaidIsProcessed`, `PaidIsSettled` |
| `refund_all` | a balance order whose provider reports pending refunds as errors and a subscription order, 2 workers, 1 failure, timeouts of the gateway included | `OneRefund`, `TakenOnce`, `RefundedIsPaidBack`, `HeldIsOnRecord`, `MovesAsAssumed` |
| `refund_live` | 1 subscription order, 2 workers, 2 failures | `RefundEnds`, `PaidBackIsRefunded` |
| `system_all` | 2 keys of system operations, 2 requests at a time, 1 failure, 5 instants | `OneExecutor`, `AtMostOnce`, `RenewedLeaseExcludes` |
| `scheduler_all` | 1 account changed twice and used once, 1 poller, 1 rebuilder, 1 failure | `HandledBeforeWatermark` |
| `scheduler_live` | 1 account changed once, with a request that may miss, 1 failure | `ListedIsCached`, `SnapshotConverges` |
| `oauth_all` | the loop and 2 requests on one process or two, 2 refreshes, 1 failure | `DisabledOnlyIfLost`, `Renewed`, `CacheCatchesUp` |
| `billing_all` | 2 requests, 1 id, 2 usages of which one exceeds the balance, 2 other changes | `ChargedAsRecorded`, `ImplementsLedger`, `CacheConverges` |
| `quota_all` | 2 requests at a time, 3 answered, 2 days, 1 reset, a new row or a used one, with the flusher and without | `NeverOvercounted`, `MirroredWithWindow` |
| `system_lock` | 3 operations one after another, no failure | finds `OneOperation` violated |

Each run of a module checks its type invariant besides.

**Bounds.** *Payments.* Orders interact only through the limits, the user's balance
and the workers, so one order per kind exercises every race on an order. Three
workers are one that holds the lock, one that competes for it and one that runs
another handler; a fourth repeats one of these. One failure leads from every step to
every error path, and the retry after it needs no second one; in `refund_all` the
gateway refuses without one as well (a pending refund, a refund beyond what was
paid), so that the single failure can hit the rollback. `credits` saturates at two,
the first wrong value. With `Amount = 2` a refund may be partial and two of them
exceed the payment. *Others.* Two requests are the one that acts and the one that
takes over; a third would only repeat what either may do after it has ended, since
the workers begin again. `Lease`, `TTL` and `MaxTime` of `system_all` let a record
expire, be taken over and expire again, and a backoff pass. Two changes of an account
are what it takes for an older read to be written after a newer one. Two refreshes
are one that succeeds and one that finds the token spent. One id of a request
meets itself in both tables; ids share nothing but the balance. Two days meet at one
midnight, and a third would find what the second found. The theorems of section 4
lift every safety property of these runs to every size.

Deadlock is not checked: in every module the system may come to rest, a settled
order, an answered request, a bound.

**Fairness.** In every module it is the least the property needs.
*PaymentOrder, PaymentRefund*: a handler that has begun goes on to its next statement
(weak fairness of each busy worker: goroutines are scheduled and every statement has a
timeout); a provider that was not answered with 2xx is served again and again (strong
fairness of `Webhook`, because all workers may be busy in between). Nobody has to
cancel, verify, pay, retry or expire an order. *SchedulerSnapshot*: tickers run the
poller and the rebuilder again, a change and a fallback that began go on, the lock
expires. *OAuthRefresh*: the loop's ticker, requests that began, the two times to
live. *UsageBilling*: the workers of the write queue, and the entry's time to live.
The safety runs of `SystemOperation` and `QuotaUsage` need none.

The passing runs leave out exactly the failures that the findings below are about,
and say so in their configuration: `StepsButReads` (`ack_lost`), `StepsButCredit`
(`double_sub`), `RepairableSteps` (`stuck`), `StepsOnRecord` (an audit row that is
not written or read is only logged, `payment_stats.go:153`, and the deduction is then
repeated), `PendingIsError = {}` in `refund_live`, and its lack of timeouts: a gateway
that carries a refund out and reports an error leaves the order COMPLETED with the
money paid back, and a partial refund sent again under a new request number is paid
twice. `StepsButRecover`, `LockMayFail = FALSE` and `Refusals` leave out `race`: the
read after an `invalid_grant` works, the provider answers with that code, and the
lock holds across processes. `MinRun` and `RunTime` in `system_all` leave out
`double`: an execution is longer than a claim is late, and shorter than the life of
its record.

### Where the code and its documentation disagree

TLC finds a counterexample to each statement. `system_lock` is one of the runs above;
the others are shown by configurations to run by hand, each named by its last word:
`tlc -config MCPaymentOrder_stuck.cfg MCPaymentOrder`. Section 4 says for the payment
system what the code keeps of each.

| Configuration | Statement, property | What happens |
|---|---|---|
| `MCSystemOperation_lock` | "another system operation is in progress" (`OneOperation`) | a reclaim leaves the first operation's fingerprint in the row, so from the second operation on the lease cannot be renewed, lapses, and a third runs beside it |
| `MCSystemOperation_double` | "business side-effect once" (`AtMostOnce`) | a request delayed longer than an execution, whose record has expired by the time it read, takes the new record over |
| `MCSchedulerSnapshot_account` | the cached account shows "the latest account state" (`AccountConverges`) | an older read is written after the change; once the account has left the list no rebuild rewrites it |
| `MCOAuthRefresh_race` | an `invalid_grant` may be a race (`RaceIsRecovered`) | when the lock ended early the other worker has not stored its token yet: the account is disabled |
| `MCQuotaUsage_overspend` | overspend within the requests in flight (`OverspendBounded`) | an entry loaded from a new row, or from one of yesterday, counts today's usage and is then reset |
| `MCQuotaUsage_unmirrored` | what leaves the dirty set unwritten is counted as lost and heals itself (`MirroredUnlessLost`) | rows are created without windows: the flusher drops the key of an entry loaded from one, and the next check resets its usage |
| `MCPaymentOrder_double_sub` | the audit log "prevents double-extension on retry after markCompleted fails" (`SubscriptionCreditedOnce`) | the row is written by `markCompleted`, after the update that failed |
| `MCPaymentOrder_stuck` | an order that is PAID or RECHARGING "is being processed" (`PaidIsProcessed`) | not after a restart |
| `MCPaymentOrder_ack_lost` | only a notification for an unknown order is acknowledged (`AcknowledgedIsRecorded`) | so is one whose order could not be read |
| `MCPaymentOrder_pending` | maximum concurrent pending orders per user (`PendingWithinLimit`) | count and insert are two statements without a lock |
| `MCPaymentRefund_lost` | a failed refund was "rolled back" (`FailedIsGivenBack`) | not the deduction of the attempt before it |
| `MCPaymentRefund_pending` | a pending refund is accepted (`PaidBackIsRefunded`) | Airwallex's is an error, hence rolled back while the money is on its way |
| `MCPaymentRefund_notrade` | REFUNDED: refund completed (`RefundedIsPaidBack`) | without a trade number the gateway is never asked |

Findings without a run of their own in `PROJECT.json` are read off the code next to
the property that allows for them: an outbox row that is dropped because a younger
one was handled, a charge that is logged and not repeated when it fails, the check and
the write of a token with a refresh between them, two flushers at once, and
`refresh_token_reused`, which is not taken for a race.

## 4. What is proved

`tlapm` checks every proof to its leaves. The theorems hold for any sets of
orders, keys, accounts and processes, any limits and any number of failures.

**Orders** (`PaymentOrderProofs`). `TypeCorrect`; then `OrderInvCorrect`: the
conjunction `OrderInv` is inductive. The property `CreditedOnce` alone is not: it
needs that the code is used exactly when the balance was credited
(`CodeIsCredit`), which needs that only the holder of the lock is between
`LookupCode` and `MarkCompleted` (`OneFulfiller`), which needs that no handler
leaves an order in `RECHARGING` that it did not lock, and that fulfillment begins
only with a payment (`PaidBeforeFulfillment`, `UnpaidIsUntouched`, and
`OneCreator`, which keeps the creation of an order apart from its payment). There
is one lemma per part of the invariant, one step per action in each. From
`OrderInv` follow `CreditedOnceCorrect`, `CreditedOnlyIfPaidCorrect`,
`CompletedIsCreditedCorrect`, `OneFulfillerCorrect`, the action property
`CreditsUnderLockCorrect`, and `LedgerImplemented`: every step of the service is
a step of `OrderLedger` or leaves it alone. `AcknowledgedIsRecordedCorrect` rests
on a second invariant, `RecordInv`, and on the assumption that the reads of
`confirmPayment` and `alreadyProcessed` do not fail, which `ack_lost` shows to be
needed.

Where a configuration of section 3 refutes a statement, a theorem names the failures
it takes, and proves the statement without them, whatever else fails (with any one of
them in `Unreliable`, TLC finds a counterexample again):

* `SubscriptionCreditedOnceCorrect`: only a failure of the assignment or of
  `markCompleted`'s update credits a subscription twice. `GivenInv`: until one of them
  fails, days that were given leave their order locked or settled, and nobody who
  may still fail holds it. Under the same assumption `FullLedgerImplemented` extends
  the refinement from balance orders to all.
* `PaidIsProcessedCorrect`: an order that is PAID or RECHARGING has its handler unless
  the process stops, the check or the lock of a fulfillment fails, or `markFailed`
  does. Each is between a status and the write that leaves it.
  `ProcessedInv` keeps the handlers of the two statuses apart, because a handler that
  only competes for the lock does not count for an order that is locked.
* `PendingNearLimitCorrect`: the count without a lock costs less than the number of
  requests at a time. The limit holds for the pending orders *together with* the
  requests that have passed the check (`PendingInv`), less one worker, the one that
  counted last; the proof counts finite sets.

`StepFitsKind`, which says that each kind of order has steps of its own, includes the
rebate for the sake of `GivenInv`.

**Refunds** (`PaymentRefundProofs`). `TypeCorrect`, `OneRefundCorrect` and
`MovesAsAssumedCorrect` need no assumption: the unconditional writes at the end of
a refund are safe because `REFUNDING` is taken by one refund at a time.
`RefundedIsPaidBackCorrect` assumes that every order has a trade number.
`TakenOnceCorrect` and `HeldIsOnRecordCorrect` follow from `HeldInv`: between lock
and end an order holds what its plan took, unless the audit log says an earlier
attempt still holds it. They assume that this audit row is written and read and
that a subscription can be read back after its deduction.

Further theorems say what the findings leave: without timeouts and without refunds that
are reported as errors while they are pending, `PaidBackIsRefundedCorrect` (an order
that was paid back does not become open to refunds again) and `PaidBackOnceCorrect` (no
retry pays back twice) follow from `RepaidInv`, by which nothing was paid back yet when
a refund asks the gateway. `BalanceIsGivenBackCorrect` needs only that `UpdateBalance`
works: until then every order holds what its plan took (`GivenBackInv`), and the state
in which `lost` goes wrong is not reached. `RefundingIsInRefundCorrect`: an order is
REFUNDING only while a handler refunds it, unless the process stops or the last write
of a refund fails; with `RefundEnds` this is why the lock is released.

`PendingNearLimit`, `PaidBackOnce`, `BalanceIsGivenBack` and `RefundingIsInRefund` are not
properties of the runs in `PROJECT.json`;
`MCPaymentOrder_limit.cfg` and `MCPaymentRefund_kept.cfg` check them on small instances.
`ImplementsFullLedger` can be added to `MCPaymentOrder_sub.cfg`, `OnePlace` to those of
the scheduler.

**Records and lock** (`SystemOperationProofs`). `TypeCorrect` needs no assumption.
`OneExecutes`, `ExecutesOnce` and `LeaseIsExclusive` assume `Timely`: a claim is
faster than a lease and than an execution, an execution ends within the life of its
record. Neither `OneExecutor` nor `AtMostOnce` is inductive. `RecordInv` says why a
second claim fails: the record of an executor stays as its claim left it, and who
has read it as expired began before that claim. `EffectInv` says why an effect is not
repeated: its record is there, succeeded or still in progress, and nobody is about to
reclaim it. `RequestInv` bounds how late a request's time may be, `LeaseInv` says that
a lease somebody can renew has not ended. `double` shows that the second assumption
is needed.

**Scheduler** (`SchedulerSnapshotProofs`). `ListsCached` follows from `CachedInv`: a
writer that may activate its list has stored its accounts, and a cached account
is only taken out after it was deleted. `HandlesBefore` follows from `HandledInv`:
whatever a poller has listed and not handled is in its batch, whatever it may set the
watermark to, so another process's watermark cannot make it forget. Both hold for
any number of pollers and rebuilders, where the runs have one of each. `TypeCorrect`
adds the type of `versions`, which no other part needs: an activation cuts the
sequence at the writer's place and a writer that gives up is taken out of it.
`PlaceIsUnique` shows that this place is one: a writer has at most one version above
the active one, and only between `INCR` and the activation.

**Tokens** (`OAuthRefreshProofs`). `TypeCorrect`; `DisablesOnlyLost` under `Reliable`
(the assumptions `race` needs). `LockInv`: one worker at a time is between the
locks, and it holds the one in Redis; `CredentialInv`: only a worker that persists
still has credentials to store that are newer than those stored, and only credentials
due, which are no newer than those stored, are refreshed, so a refusal the second read does not
explain means that they are lost; and what is lost stays so.

**Charges** (`UsageBillingProofs`). `TypeCorrect`, `Charges` and `LedgerImplemented`
rest on `BillingInv`: by the time of a commit its key is in neither table, because the
open transaction keeps others from inserting it and so keeps the cleanup from
archiving it. `LedgerImplemented` maps a key's bill to whichever table has it; that the
archive never holds another one is the part that takes the invariant.

**Quotas** (`QuotaUsageProofs`). `TypeCorrect`, `CountsOnce`, `Mirrors`. What is held
anywhere, to be written later, is no more than was used (`HeldInv`), and neither is the
row *with the requests that will still increase it* (`RoomInv`, a sum over a set of
requests: the cardinality lemmas are there for it). For the flusher, `MirrorInv`: a
snapshot about to be written is the entry, or the key is dirty again. `Mirrors` proves
`MirroredWithWindow`, what the code keeps of `MirroredUnlessLost`: the entry of a new
row is out of the flusher's sight until a check has given it its windows.

**Only model-checked**: what is liveness (`PaidIsSettled`, `RefundEnds`,
`SnapshotConverges`, `Renewed`, `CacheCatchesUp`, `CacheConverges`; fairness is out of
the prover's reach), and `OverspendBounded`, `MirroredUnlessLost`, `OneOperation`, `AccountConverges`,
`RaceIsRecovered`, `PendingWithinLimit`, `FailedIsGivenBack`, which TLC refutes.

## 5. What could follow

`SubscriptionTerm` (a term read outside its update, the expiry job, several orders of
one group), `ConcurrencySlots` and the message queue (a limit over leases that live),
user sessions (a refresh token spent twice revokes its family), the WebSocket pool,
the two levels of the API key cache. Each would be a module like those above.

## 6. Not modelled, and why

Account scheduling is policy: a sort over scores without shared state of its own.
Protocol conversion, content moderation and privacy are pure text and JSON, which the
tests beside them check better. Modules and features install packages: file and process
I/O. Background jobs are timers around single statements; the generated code under
`ent/` and the front end hold no logic of their own: the share of the repository's
lines that a model can say something about is small. Signatures and request formats
of the providers, the load balancer's choice, currencies and fees are data without
control. Freezing and withdrawal of rebates, usage windows of subscriptions and the
components of section 5 have state worth a model and do not have one yet.
`PROJECT.json` lists every component, and every hazard with the property that covers
it or the reason why none does.

To run a configuration: `tlc -workers 2 -config MCPaymentOrder_balance.cfg
MCPaymentOrder`; to check the proofs: `tlapm PaymentOrderProofs.tla`.
