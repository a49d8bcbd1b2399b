---------------------------- MODULE PaymentOrder ----------------------------
(***************************************************************************)
(* The life of a payment order, from its creation to the credit of what    *)
(* was bought: backend/internal/service/payment_order.go,                  *)
(* payment_order_lifecycle.go and payment_fulfillment.go.                  *)
(*                                                                         *)
(* A worker is one goroutine inside the payment service: an HTTP request   *)
(* that creates, cancels or verifies an order, a provider's webhook, an    *)
(* administrator's retry, or the expiry loop.  It runs one handler at a    *)
(* time, one statement against the database or the provider per step, and  *)
(* the steps of all workers interleave.                                    *)
(***************************************************************************)
EXTENDS Naturals, FiniteSets, PaymentStatus

CONSTANTS
    BalanceOrders,    \* orders that buy balance, fulfilled through a redeem code
    SubOrders,        \* orders that buy days of a subscription
    PopupOrders,      \* EasyPay popup orders: the provider's trade number is
                      \* known from its webhook only
    Workers,          \* concurrent executions of handlers
    NoOrder,          \* the job of an idle worker
    MaxPending,       \* PaymentConfig.MaxPendingOrders
    DailyLimit,       \* PaymentConfig.DailyLimit, counted in orders
    Unreliable,       \* steps whose call to the database or the provider may fail
    MaxFaults         \* bound: how many of those failures and crashes happen

Orders == BalanceOrders \cup SubOrders

ASSUME OrderAssumption ==
    /\ BalanceOrders \cap SubOrders = {}
    /\ PopupOrders \subseteq Orders
    /\ NoOrder \notin Orders
ASSUME LimitAssumption ==
    MaxPending \in Nat /\ DailyLimit \in Nat /\ MaxFaults \in Nat

VARIABLES
    status,     \* payment_orders.status
    paidAt,     \* payment_orders.paid_at is set
    tradeNo,    \* payment_orders.payment_trade_no is not empty
    grace,      \* payment_orders.updated_at is within paymentGraceMinutes
    audit,      \* the actions in payment_audit_logs that the code reads back
    code,       \* the redeem code named by payment_orders.recharge_code
    credits,    \* how often the user was given what the order buys, up to 2
    upstream,   \* the payment as the provider knows it
    owed,       \* the provider will deliver its notification again
    pc,         \* the next step of a worker
    job,        \* the order it works on
    op,         \* the handler it runs
    faults      \* failures and crashes so far

order == <<status, paidAt, tradeNo, grace, audit, code, credits>>
provider == <<upstream, owed>>
worker == <<pc, job, op>>
vars == <<order, provider, worker, faults>>

CreateSteps == {"insert", "invoke", "save", "createfail"}
QuerySteps == {"query", "close", "cas"}
ConfirmSteps == {"tradeno", "confirm", "topaid", "already", "reset", "fulfil", "lock"}
\* between the lock of a fulfillment and the write that ends it
FulfilSteps == {"lookup", "mkcode", "redeem", "rebate", "grant", "assign",
                "complete", "failed"}
Steps == {"idle", "audit"} \cup CreateSteps \cup QuerySteps
           \cup ConfirmSteps \cup FulfilSteps

AuditActions == {"SUCCESS", "REBATE", "PAYMENT_AFTER_EXPIRY"}
Handlers == {"none", "create", "cancel", "expire", "verify", "webhook", "retry"}
Upstream == {"none", "created", "offered", "closed", "paid", "mispaid"}

TypeOK ==
    /\ status \in [Orders -> Statuses]
    /\ paidAt \in [Orders -> BOOLEAN]
    /\ tradeNo \in [Orders -> BOOLEAN]
    /\ grace \in [Orders -> BOOLEAN]
    /\ audit \in [Orders -> SUBSET AuditActions]
    /\ code \in [Orders -> {"absent", "unused", "used"}]
    /\ credits \in [Orders -> 0..2]
    /\ upstream \in [Orders -> Upstream]
    /\ owed \in [Orders -> BOOLEAN]
    /\ pc \in [Workers -> Steps]
    /\ job \in [Workers -> Orders \cup {NoOrder}]
    /\ op \in [Workers -> Handlers]
    /\ faults \in Nat

Init ==
    /\ status = [o \in Orders |-> "NONE"]
    /\ paidAt = [o \in Orders |-> FALSE]
    /\ tradeNo = [o \in Orders |-> FALSE]
    /\ grace = [o \in Orders |-> FALSE]
    /\ audit = [o \in Orders |-> {}]
    /\ code = [o \in Orders |-> "absent"]
    /\ credits = [o \in Orders |-> 0]
    /\ upstream = [o \in Orders |-> "none"]
    /\ owed = [o \in Orders |-> FALSE]
    /\ pc = [w \in Workers |-> "idle"]
    /\ job = [w \in Workers |-> NoOrder]
    /\ op = [w \in Workers |-> "none"]
    /\ faults = 0

-----------------------------------------------------------------------------
(* Control of a worker *)

At(w, step) == pc[w] = step

Start(w, o, handler, step) ==
    /\ At(w, "idle")
    /\ pc' = [pc EXCEPT ![w] = step]
    /\ job' = [job EXCEPT ![w] = o]
    /\ op' = [op EXCEPT ![w] = handler]

Goto(w, step) == pc' = [pc EXCEPT ![w] = step] /\ UNCHANGED <<job, op>>

Leave(w) ==
    /\ pc' = [pc EXCEPT ![w] = "idle"]
    /\ job' = [job EXCEPT ![w] = NoOrder]
    /\ op' = [op EXCEPT ![w] = "none"]

Return(w) == Leave(w) /\ UNCHANGED provider

\* mutant: the webhook handler answers 2xx whatever the error
RespondAlwaysOk(w, answer) ==
    /\ Leave(w)
    /\ owed' = IF op[w] = "webhook" THEN [owed EXCEPT ![job[w]] = FALSE] ELSE owed
    /\ UNCHANGED upstream

\* HandlePaymentNotification returns.  The webhook handler answers 2xx when it
\* returned no error, and the provider stops; after a 500 it delivers again.
\* The other callers of HandlePaymentNotification ignore its error.
Respond(w, answer) ==
    /\ Leave(w)
    /\ owed' = IF answer = "ok" /\ op[w] = "webhook" THEN [owed EXCEPT ![job[w]] = FALSE] ELSE owed
    /\ UNCHANGED upstream

Reliable == UNCHANGED faults
Fault(w) ==
    /\ pc[w] \in Unreliable
    /\ faults < MaxFaults
    /\ faults' = faults + 1

SetStatus(o, s) == status' = [status EXCEPT ![o] = s]
Credit(o) == credits' = [credits EXCEPT ![o] = IF @ = 2 THEN 2 ELSE @ + 1]
Log(o, action) == audit' = [audit EXCEPT ![o] = @ \cup {action}]

-----------------------------------------------------------------------------
(* CreateOrder *)

Pending == {o \in Orders : status[o] = "PENDING"}
PendingCount == Cardinality(Pending)
PaidToday == Cardinality({o \in Orders :
                 paidAt[o] /\ status[o] \in {"PAID", "RECHARGING", "COMPLETED"}})

\* The limits are counted in the transaction that inserts the order, at an
\* isolation level that lets another transaction insert in between.
CreateOrder(w, o) ==
    /\ status[o] = "NONE"
    /\ \A v \in Workers : job[v] # o
    /\ PendingCount < MaxPending
    /\ PaidToday < DailyLimit
    /\ Start(w, o, "create", "insert")
    /\ Reliable /\ UNCHANGED <<order, provider>>

InsertOrder(w) ==
    /\ At(w, "insert")
    /\ \/ /\ SetStatus(job[w], "PENDING")
          /\ Goto(w, "invoke")
          /\ Reliable /\ UNCHANGED provider
       \/ Fault(w) /\ Return(w) /\ UNCHANGED status
    /\ UNCHANGED <<paidAt, tradeNo, grace, audit, code, credits>>

InvokeProvider(w) ==
    /\ At(w, "invoke")
    /\ \/ /\ upstream' = [upstream EXCEPT ![job[w]] = "created"]
          /\ \/ Goto(w, "save") /\ Reliable
             \/ Goto(w, "createfail") /\ Fault(w)
       \/ Goto(w, "createfail") /\ Fault(w) /\ UNCHANGED upstream
    /\ UNCHANGED <<order, owed>>

\* From here on the user has the provider's link, or the order has failed.  Like
\* every update of the order this one refreshes updated_at.
SavePayURL(w) ==
    /\ At(w, "save")
    /\ \/ /\ tradeNo' = [tradeNo EXCEPT ![job[w]] = job[w] \notin PopupOrders]
          /\ grace' = [grace EXCEPT ![job[w]] = (status[job[w]] = "EXPIRED")]
          /\ upstream' = [upstream EXCEPT ![job[w]] = "offered"]
          /\ Leave(w) /\ Reliable
       \/ Fault(w) /\ Goto(w, "createfail") /\ UNCHANGED <<tradeNo, grace, upstream>>
    /\ UNCHANGED <<status, paidAt, audit, code, credits, owed>>

CreateFailed(w) ==
    /\ At(w, "createfail")
    /\ \/ SetStatus(job[w], "FAILED") /\ Reliable
       \/ Fault(w) /\ UNCHANGED status
    /\ Return(w)
    /\ UNCHANGED <<paidAt, tradeNo, grace, audit, code, credits>>

Create(w) ==
    \/ \E o \in Orders : CreateOrder(w, o)
    \/ InsertOrder(w) \/ InvokeProvider(w) \/ SavePayURL(w) \/ CreateFailed(w)

-----------------------------------------------------------------------------
(* CancelOrder, AdminCancelOrder, ExpireTimedOutOrders, and the two ways to *)
(* reconcile an order with the provider without closing it there.           *)

CancelOrder(w, o) ==
    /\ status[o] = "PENDING"
    /\ Start(w, o, "cancel", "query")
    /\ Reliable /\ UNCHANGED <<order, provider>>

\* expires_at has passed; the timer is not modelled, so it may have
ExpireTimedOutOrder(w, o) ==
    /\ status[o] = "PENDING"
    /\ Start(w, o, "expire", "query")
    /\ Reliable /\ UNCHANGED <<order, provider>>

\* VerifyOrderByOutTradeNo, and ReconcilePendingWxpayOrders for pending orders
VerifyOrder(w, o) ==
    /\ status[o] \in {"PENDING", "EXPIRED"}
    /\ Start(w, o, "verify", "query")
    /\ Reliable /\ UNCHANGED <<order, provider>>

\* checkPaidWithOptions: a failed query counts as "not paid"
CheckPaid(w) ==
    /\ At(w, "query")
    /\ LET o == job[w]
           unpaid(next) == IF op[w] = "verify" THEN Return(w)
                           ELSE Goto(w, next) /\ UNCHANGED provider
       IN \/ /\ upstream[o] \in {"paid", "mispaid"}
             /\ Goto(w, "tradeno") /\ Reliable /\ UNCHANGED provider
          \/ upstream[o] \notin {"paid", "mispaid"} /\ unpaid("close") /\ Reliable
          \/ Fault(w) /\ unpaid("cas")
    /\ UNCHANGED order

\* CancelPayment at the provider: its result is ignored, EasyPay has none
ClosePayment(w) ==
    /\ At(w, "close")
    /\ \/ /\ upstream[job[w]] \in {"created", "offered"}
          /\ upstream' = [upstream EXCEPT ![job[w]] = "closed"]
       \/ UNCHANGED upstream
    /\ Goto(w, "cas") /\ Reliable /\ UNCHANGED <<order, owed>>

\* The update that stores a new trade number refreshes updated_at as well
PersistTradeNo(w) ==
    /\ At(w, "tradeno")
    /\ \/ /\ job[w] \notin PopupOrders
          /\ tradeNo' = [tradeNo EXCEPT ![job[w]] = TRUE]
          /\ grace' = [grace EXCEPT ![job[w]] = (status[job[w]] = "EXPIRED")]
       \/ UNCHANGED <<tradeNo, grace>>
    /\ Goto(w, "confirm") /\ Reliable
    /\ UNCHANGED <<status, paidAt, audit, code, credits, provider>>

\* mutant: one of the two spellings of the word
FinalStatusMisspelt(w) == IF op[w] = "expire" THEN "EXPIRED" ELSE "CANCELED"
FinalStatus(w) == IF op[w] = "expire" THEN "EXPIRED" ELSE "CANCELLED"

\* the conditional update at the end of cancelCore
CancelCore(w) ==
    /\ At(w, "cas")
    /\ LET o == job[w]
           final == FinalStatus(w)
       IN \/ /\ status[o] = "PENDING"
             /\ SetStatus(o, final)
             /\ grace' = [grace EXCEPT ![o] = (final = "EXPIRED")]
             /\ Reliable
          \/ /\ status[o] # "PENDING" /\ Reliable
             /\ UNCHANGED <<status, grace>>
          \/ Fault(w) /\ UNCHANGED <<status, grace>>
    /\ Return(w)
    /\ UNCHANGED <<paidAt, tradeNo, audit, code, credits>>

Lifecycle(w) ==
    \/ \E o \in Orders : CancelOrder(w, o) \/ ExpireTimedOutOrder(w, o) \/ VerifyOrder(w, o)
    \/ CheckPaid(w) \/ ClosePayment(w) \/ PersistTradeNo(w) \/ CancelCore(w)

-----------------------------------------------------------------------------
(* HandlePaymentNotification *)

Webhook(w, o) ==
    /\ upstream[o] \in {"paid", "mispaid"}
    /\ Start(w, o, "webhook", "confirm")
    /\ Reliable /\ UNCHANGED <<order, provider>>

\* mutant: the amount is not compared
AnyAmount(o) == upstream[o] \in {"paid", "mispaid"}
AmountMatches(o) == upstream[o] = "paid"

\* The reads before anything is written, in one step: handleNotify's choice of the
\* provider, the lookup by out_trade_no, confirmPayment's read of the order.  If the
\* second fails the answer is an error; if the first or the third fails, it is not.
ConfirmPayment(w) ==
    /\ At(w, "confirm")
    /\ \/ /\ AmountMatches(job[w])
          /\ Goto(w, "topaid") /\ Reliable /\ UNCHANGED provider
       \/ ~AmountMatches(job[w]) /\ Respond(w, "error") /\ Reliable
       \/ Fault(w) /\ \E answer \in {"ok", "error"} : Respond(w, answer)
    /\ UNCHANGED order

Payable(o) == status[o] \in {"PENDING", "CANCELLED"} \/ (status[o] = "EXPIRED" /\ grace[o])

ToPaid(w) ==
    /\ At(w, "topaid")
    /\ LET o == job[w]
       IN \/ /\ Payable(o)
             /\ SetStatus(o, "PAID")
             /\ paidAt' = [paidAt EXCEPT ![o] = TRUE]
             /\ tradeNo' = IF op[w] = "webhook" THEN [tradeNo EXCEPT ![o] = TRUE] ELSE tradeNo
             /\ Goto(w, "fulfil") /\ Reliable /\ UNCHANGED provider
          \/ /\ ~Payable(o) /\ Goto(w, "already") /\ Reliable
             /\ UNCHANGED <<status, paidAt, tradeNo, provider>>
          \/ Fault(w) /\ Respond(w, "error") /\ UNCHANGED <<status, paidAt, tradeNo>>
    /\ UNCHANGED <<grace, audit, code, credits>>

AlreadyProcessed(w) ==
    /\ At(w, "already")
    /\ LET o == job[w]
       IN \/ /\ status[o] = "FAILED" /\ Goto(w, "fulfil") /\ Reliable
             /\ UNCHANGED <<audit, provider>>
          \/ /\ status[o] \in {"PAID", "RECHARGING"} /\ Respond(w, "error") /\ Reliable
             /\ UNCHANGED audit
          \/ /\ status[o] = "EXPIRED" /\ Respond(w, "ok") /\ Reliable
             /\ Log(o, "PAYMENT_AFTER_EXPIRY")
          \/ /\ status[o] \notin {"FAILED", "PAID", "RECHARGING", "EXPIRED"}
             /\ Respond(w, "ok") /\ Reliable /\ UNCHANGED audit
          \/ Fault(w) /\ Respond(w, "ok") /\ UNCHANGED audit
    /\ UNCHANGED <<status, paidAt, tradeNo, grace, code, credits>>

\* RetryFulfillment by an administrator: the checks, then the reset
RetryFulfillment(w, o) ==
    /\ paidAt[o]
    /\ status[o] \in {"PAID", "FAILED"}
    /\ Start(w, o, "retry", "reset")
    /\ Reliable /\ UNCHANGED <<order, provider>>

ResetForRetry(w) ==
    /\ At(w, "reset")
    /\ LET o == job[w]
       IN \/ /\ status' = [status EXCEPT ![o] = IF @ = "FAILED" THEN "PAID" ELSE @]
             /\ Goto(w, "fulfil") /\ Reliable /\ UNCHANGED provider
          \/ Fault(w) /\ Return(w) /\ UNCHANGED status
    /\ UNCHANGED <<paidAt, tradeNo, grace, audit, code, credits>>

Notification(w) ==
    \/ \E o \in Orders : Webhook(w, o) \/ RetryFulfillment(w, o)
    \/ ConfirmPayment(w) \/ ToPaid(w) \/ AlreadyProcessed(w) \/ ResetForRetry(w)

-----------------------------------------------------------------------------
(* executeFulfillment: the two kinds share the checks and the lock *)

\* mutants: the lock does not exclude, lets a settled order in again, or a paid
\* one never
FulfillableWhileLocked == {"PAID", "FAILED", "RECHARGING"}
FulfillableAgain == {"PAID", "FAILED", "COMPLETED"}
FulfillableOnRetry == {"FAILED"}
Fulfillable == {"PAID", "FAILED"}

ExecuteFulfillment(w) ==
    /\ At(w, "fulfil")
    /\ LET s == status[job[w]]
       IN \/ s \in Fulfillable /\ Goto(w, "lock") /\ Reliable /\ UNCHANGED provider
          \/ s = "COMPLETED" /\ Respond(w, "ok") /\ Reliable
          \/ s \notin Fulfillable \cup {"COMPLETED"} /\ Respond(w, "error") /\ Reliable
          \/ Fault(w) /\ Respond(w, "error")
    /\ UNCHANGED order

LockOrder(w) ==
    /\ At(w, "lock")
    /\ LET o == job[w]
       IN \/ /\ status[o] \in Fulfillable
             /\ SetStatus(o, "RECHARGING")
             /\ Goto(w, IF o \in BalanceOrders THEN "lookup" ELSE "grant")
             /\ Reliable /\ UNCHANGED provider
          \/ /\ status[o] \notin Fulfillable
             /\ Respond(w, "ok") /\ Reliable /\ UNCHANGED status
          \/ Fault(w) /\ Respond(w, "error") /\ UNCHANGED status
    /\ UNCHANGED <<paidAt, tradeNo, grace, audit, code, credits>>

\* mutant: a code that exists counts as redeemed
RedeemActionIfExists(o) == IF code[o] = "absent" THEN "mkcode" ELSE "rebate"
\* resolveRedeemAction: a used code was redeemed by an earlier attempt
RedeemAction(o) == CASE code[o] = "used"   -> "rebate"
                     [] code[o] = "unused" -> "redeem"
                     [] OTHER              -> "mkcode"

\* doBalance; a read that fails counts as a code that is not there
LookupCode(w) ==
    /\ At(w, "lookup")
    /\ \/ Goto(w, RedeemAction(job[w])) /\ Reliable
       \/ Fault(w) /\ Goto(w, "mkcode")
    /\ UNCHANGED <<order, provider>>

\* redeem_codes.code is unique
CreateCode(w) ==
    /\ At(w, "mkcode")
    /\ LET o == job[w]
       IN \/ /\ code[o] = "absent"
             /\ code' = [code EXCEPT ![o] = "unused"]
             /\ Goto(w, "redeem") /\ Reliable
          \/ code[o] # "absent" /\ Goto(w, "failed") /\ Reliable /\ UNCHANGED code
          \/ Fault(w) /\ Goto(w, "failed") /\ UNCHANGED code
    /\ UNCHANGED <<status, paidAt, tradeNo, grace, audit, credits, provider>>

\* mutant: the balance is added outside the transaction that uses the code
UseCodeApart(o) == Credit(o) /\ code' \in {code, [code EXCEPT ![o] = "used"]}
\* One transaction marks the code used and adds to the balance.
UseCode(o) == Credit(o) /\ code' = [code EXCEPT ![o] = "used"]

\* Redeem may return an error after the commit, when it reads the code again.
RedeemCode(w) ==
    /\ At(w, "redeem")
    /\ LET o == job[w]
       IN \/ /\ code[o] = "unused"
             /\ UseCode(o)
             /\ \/ Goto(w, "rebate") /\ Reliable
                \/ Goto(w, "failed") /\ Fault(w)
          \/ /\ code[o] # "unused" /\ Goto(w, "failed") /\ Reliable
             /\ UNCHANGED <<code, credits>>
          \/ Fault(w) /\ Goto(w, "failed") /\ UNCHANGED <<code, credits>>
    /\ UNCHANGED <<status, paidAt, tradeNo, grace, audit, provider>>

\* One transaction claims the audit row and accrues the inviter's rebate
ApplyAffiliateRebate(w) ==
    /\ At(w, "rebate")
    /\ \/ Log(job[w], "REBATE") /\ Goto(w, "complete") /\ Reliable
       \/ Fault(w) /\ Goto(w, "failed") /\ UNCHANGED audit
    /\ UNCHANGED <<status, paidAt, tradeNo, grace, code, credits, provider>>

\* doSub: the audit log tells whether an earlier attempt assigned the days
CheckGranted(w) ==
    /\ At(w, "grant")
    /\ \/ /\ Goto(w, IF "SUCCESS" \in audit[job[w]] THEN "complete" ELSE "assign")
          /\ Reliable
       \/ Fault(w) /\ pc' \in {[pc EXCEPT ![w] = "failed"], [pc EXCEPT ![w] = "assign"]}
          /\ UNCHANGED <<job, op>>
    /\ UNCHANGED <<order, provider>>

AssignSubscription(w) ==
    /\ At(w, "assign")
    /\ \/ Credit(job[w]) /\ \/ Goto(w, "complete") /\ Reliable
                            \/ Goto(w, "failed") /\ Fault(w)
       \/ Fault(w) /\ Goto(w, "failed") /\ UNCHANGED credits
    /\ UNCHANGED <<status, paidAt, tradeNo, grace, audit, code, provider>>

MarkCompleted(w) ==
    /\ At(w, "complete")
    /\ \/ /\ status' = [status EXCEPT ![job[w]] = IF @ = "RECHARGING" THEN "COMPLETED" ELSE @]
          /\ Goto(w, "audit") /\ Reliable
       \/ Fault(w) /\ Goto(w, "failed") /\ UNCHANGED status
    /\ UNCHANGED <<paidAt, tradeNo, grace, audit, code, credits, provider>>

\* writeAuditLog only logs its own failure
AuditSuccess(w) ==
    /\ At(w, "audit")
    /\ \/ Log(job[w], "SUCCESS") /\ Reliable
       \/ Fault(w) /\ UNCHANGED audit
    /\ Respond(w, "ok")
    /\ UNCHANGED <<status, paidAt, tradeNo, grace, code, credits>>

MarkFailed(w) ==
    /\ At(w, "failed")
    /\ \/ /\ status' = [status EXCEPT ![job[w]] = IF @ = "RECHARGING" THEN "FAILED" ELSE @]
          /\ Reliable
       \/ Fault(w) /\ UNCHANGED status
    /\ Respond(w, "error")
    /\ UNCHANGED <<paidAt, tradeNo, grace, audit, code, credits>>

Fulfillment(w) ==
    \/ ExecuteFulfillment(w) \/ LockOrder(w)
    \/ LookupCode(w) \/ CreateCode(w) \/ RedeemCode(w) \/ ApplyAffiliateRebate(w)
    \/ CheckGranted(w) \/ AssignSubscription(w)
    \/ MarkCompleted(w) \/ AuditSuccess(w) \/ MarkFailed(w)

-----------------------------------------------------------------------------
(* The world around the service *)

\* The user pays what the provider asks for, or another amount
UserPays(o) ==
    /\ upstream[o] = "offered"
    /\ \E result \in {"paid", "mispaid"} : upstream' = [upstream EXCEPT ![o] = result]
    /\ owed' = [owed EXCEPT ![o] = TRUE]
    /\ UNCHANGED <<order, worker, faults>>

GraceElapses(o) ==
    /\ status[o] = "EXPIRED" /\ grace[o]
    /\ grace' = [grace EXCEPT ![o] = FALSE]
    /\ UNCHANGED <<status, paidAt, tradeNo, audit, code, credits, provider, worker, faults>>

\* What module PaymentRefund does to the status of an order, step by step
Refund(o) ==
    /\ \E s \in Statuses : <<status[o], s>> \in RefundMoves /\ SetStatus(o, s)
    /\ UNCHANGED <<paidAt, tradeNo, grace, audit, code, credits, provider, worker, faults>>

\* The process restarts: every handler is gone, the database is not
Crash ==
    /\ "crash" \in Unreliable /\ faults < MaxFaults
    /\ \E w \in Workers : ~At(w, "idle")
    /\ pc' = [w \in Workers |-> "idle"]
    /\ job' = [w \in Workers |-> NoOrder]
    /\ op' = [w \in Workers |-> "none"]
    /\ faults' = faults + 1
    /\ UNCHANGED <<order, provider>>

Step(w) == Create(w) \/ Lifecycle(w) \/ Notification(w) \/ Fulfillment(w)

Next ==
    \/ \E w \in Workers : Step(w)
    \/ \E o \in Orders : UserPays(o) \/ GraceElapses(o) \/ Refund(o)
    \/ Crash

Spec == Init /\ [][Next]_vars

\* A handler that started goes on; a provider that got no 2xx delivers again.
\* Nobody has to cancel, verify, pay or retry anything.
Fairness ==
    /\ \A w \in Workers : WF_vars(pc[w] # "idle" /\ Step(w))
    /\ \A o \in Orders : SF_vars(owed[o] /\ \E w \in Workers : Webhook(w, o))

FairSpec == Spec /\ Fairness

-----------------------------------------------------------------------------
(* Properties *)

Settled == {"COMPLETED"} \cup RefundStatuses

\* The balance of a user is credited at most once for an order, however many
\* webhooks, verifications and retries fulfil it and wherever they fail.
CreditedOnce == \A o \in BalanceOrders : credits[o] <= 1

\* Nobody is given anything unless the provider holds the payment in full.
CreditedOnlyIfPaid == \A o \in Orders : credits[o] > 0 => upstream[o] = "paid"

\* An order is COMPLETED, and can be refunded, only after it was credited.
CompletedIsCredited == \A o \in Orders : status[o] \in Settled => credits[o] > 0

\* RECHARGING is a lock: at most one handler is fulfilling an order, and the
\* order keeps that status as long as it does.
OneFulfiller ==
    \A w \in Workers : pc[w] \in FulfilSteps =>
        /\ status[job[w]] = "RECHARGING"
        /\ \A v \in Workers \ {w} : pc[v] \in FulfilSteps => job[v] # job[w]

\* When the provider was told to stop, the payment is on record: the order has
\* its paid_at, or it expired for good and is reported as such.
AcknowledgedIsRecorded ==
    \A o \in Orders : upstream[o] = "paid" /\ ~owed[o] =>
        paidAt[o] \/ "PAYMENT_AFTER_EXPIRY" \in audit[o]

\* Nothing is credited outside the lock, in particular not once a refund has
\* begun, and an order that was settled is never again up for fulfillment.
CreditsUnderLock ==
    [][\A o \in Orders :
          /\ credits'[o] # credits[o] => status[o] = "RECHARGING"
          /\ status[o] \in Settled => status'[o] \in Settled]_vars

\* A payment does not get lost: the user is credited, or the order waits for an
\* administrator as FAILED, or it was paid after its expiry and reported.
PaidIsSettled ==
    \A o \in Orders : upstream[o] = "paid" ~>
        \/ credits[o] > 0
        \/ status[o] = "FAILED" /\ paidAt[o]
        \/ "PAYMENT_AFTER_EXPIRY" \in audit[o]

\* For balance orders the service implements the ledger: paid, given once, done.
Ledger == INSTANCE OrderLedger WITH
    Orders <- BalanceOrders,
    paid   <- {o \in BalanceOrders : upstream[o] = "paid"},
    given  <- [o \in BalanceOrders |-> credits[o]],
    done   <- {o \in BalanceOrders : status[o] \in Settled}

ImplementsLedger == Ledger!LedgerSpec

\* And for all orders, as far as the days of a subscription are given once.
FullLedger == INSTANCE OrderLedger WITH
    paid  <- {o \in Orders : upstream[o] = "paid"},
    given <- credits,
    done  <- {o \in Orders : status[o] \in Settled}

ImplementsFullLedger == FullLedger!LedgerSpec

-----------------------------------------------------------------------------
(* Why they hold: the parts of an invariant that every step preserves *)

\* steps that are reached only for an order that was paid in full
PaidSteps == {"topaid", "already", "reset", "fulfil", "lock", "audit"} \cup FulfilSteps

UnpaidStatuses == {"NONE", "PENDING", "CANCELLED", "EXPIRED", "FAILED"}

BusyHasJob == \A w \in Workers : pc[w] # "idle" => job[w] \in Orders

\* One request creates an order, and the user cannot pay before it has answered.
OneCreator ==
    \A w \in Workers : pc[w] \in CreateSteps =>
        /\ upstream[job[w]] \in {"none", "created", "closed"}
        /\ pc[w] = "insert" <=> status[job[w]] = "NONE"
        /\ \A v \in Workers \ {w} : pc[v] \in CreateSteps => job[v] # job[w]

PaidBeforeFulfillment == \A w \in Workers : pc[w] \in PaidSteps => upstream[job[w]] = "paid"

StepFitsKind ==
    \A w \in Workers :
        /\ pc[w] \in {"lookup", "mkcode", "redeem", "rebate"} => job[w] \in BalanceOrders
        /\ pc[w] \in {"grant", "assign"} => job[w] \in SubOrders

CreditedBeforeCompletion ==
    \A w \in Workers : pc[w] \in {"rebate", "complete", "audit"} => credits[job[w]] > 0

NewIsUnknown == \A o \in Orders : status[o] = "NONE" => upstream[o] = "none"

UnpaidIsUntouched ==
    \A o \in Orders : upstream[o] # "paid" =>
        /\ status[o] \in UnpaidStatuses
        /\ ~paidAt[o]
        /\ code[o] = "absent"
        /\ credits[o] = 0

CodeIsCredit == \A o \in BalanceOrders : credits[o] = IF code[o] = "used" THEN 1 ELSE 0

SuccessIsCredited == \A o \in Orders : "SUCCESS" \in audit[o] => credits[o] > 0

\* Together with the type invariant they imply the safety properties above.
OrderInv ==
    /\ BusyHasJob /\ OneCreator /\ OneFulfiller
    /\ PaidBeforeFulfillment /\ StepFitsKind /\ CreditedBeforeCompletion
    /\ NewIsUnknown /\ UnpaidIsUntouched /\ CodeIsCredit
    /\ SuccessIsCredited /\ CompletedIsCredited

\* The same for AcknowledgedIsRecorded, as long as the reads of confirmPayment and
\* alreadyProcessed work: a payment a handler has got hold of is on record.
RecordInv ==
    /\ \A o \in Orders :
          /\ status[o] \in {"PAID", "RECHARGING"} \cup Settled => paidAt[o]
          /\ status[o] = "FAILED" => paidAt[o] \/ upstream[o] \notin {"offered", "paid"}
    /\ \A w \in Workers :
          /\ pc[w] \in CreateSteps => status[job[w]] # "FAILED"
          /\ pc[w] = "already" => status[job[w]] \notin {"NONE", "PENDING", "CANCELLED"}
          /\ pc[w] \in PaidSteps \ {"topaid", "already"} => paidAt[job[w]]
    /\ AcknowledgedIsRecorded

-----------------------------------------------------------------------------
(* What the documentation and the comments say, and the code does not keep *)

\* payment_fulfillment.go:433, "Prevents double-extension on retry after
\* markCompleted fails."
SubscriptionCreditedOnce == \A o \in SubOrders : credits[o] <= 1

\* docs/PAYMENT.md:65, "Maximum concurrent pending orders per user".
PendingWithinLimit == PendingCount <= MaxPending

Processing(o) == \E w \in Workers :
    job[w] = o /\ pc[w] \in {"fulfil", "lock"} \cup FulfilSteps

\* payment_fulfillment.go:192 and :619, an order that is PAID or RECHARGING "is
\* being processed": the one tells the provider so, the other an administrator
\* whose retry it refuses.
PaidIsProcessed == \A o \in Orders : status[o] \in {"PAID", "RECHARGING"} => Processing(o)

-----------------------------------------------------------------------------
(* What the code keeps of these statements, and why *)

\* As long as neither the assignment nor markCompleted fails, days that were given
\* leave their order locked or settled, so that nobody comes back to give them.
GivenInv ==
    /\ \A o \in SubOrders : credits[o] > 0 => status[o] \in {"RECHARGING"} \cup Settled
    /\ \A w \in Workers :
          job[w] \in SubOrders /\ pc[w] \in {"grant", "assign", "failed"} => credits[job[w]] = 0
    /\ SubscriptionCreditedOnce

\* As long as no handler is lost between PAID and the write that ends RECHARGING,
\* each of the two statuses has its own handlers.
ProcessedInv ==
    \A o \in Orders :
        /\ status[o] = "PAID" => \E w \in Workers : job[w] = o /\ pc[w] \in {"fulfil", "lock"}
        /\ status[o] = "RECHARGING" => \E w \in Workers : job[w] = o /\ pc[w] \in FulfilSteps

\* The limit on pending orders is exceeded by less than the number of requests
\* that run at a time: one of them was counted by nobody.
PendingNearLimit == PendingCount < MaxPending + Cardinality(Workers)

\* A request that has passed the check is one order more that will be pending.
Inserting == {w \in Workers : pc[w] = "insert"}
PendingInv ==
    /\ IsFiniteSet(Pending)
    /\ PendingCount + Cardinality(Inserting) < MaxPending + Cardinality(Workers)
=============================================================================
