--------------------------- MODULE PaymentRefund ---------------------------
(***************************************************************************)
(* The refund of completed payment orders of one user:                     *)
(* backend/internal/service/payment_refund.go.                             *)
(*                                                                         *)
(* A user may ask for a refund; an administrator's request plans one        *)
(* (PrepareRefund) and carries it out at once (ExecuteRefund): it locks the *)
(* order as REFUNDING, takes the purchase back, asks the payment gateway,   *)
(* and either records the refund or gives the purchase back.  The plan is   *)
(* made of what was read before the lock and is used after it.              *)
(***************************************************************************)
EXTENDS Integers, PaymentStatus

CONSTANTS
    BalanceOrders,    \* orders that bought balance: the amount is taken back
    SubOrders,        \* orders that bought days: the days are taken back
    NoTradeNo,        \* orders that were completed without a trade number
    PendingIsError,   \* orders whose provider reports an accepted refund as an
                      \* error until it is settled (Airwallex)
    Workers,          \* concurrent executions of handlers
    NoOrder,          \* the job of an idle worker
    Amount,           \* the amount of an order
    InitialBalance,   \* the user's balance when the orders are complete
    Unreliable,       \* steps whose call may fail
    MaxFaults         \* bound: how many of those failures and crashes happen

Orders == BalanceOrders \cup SubOrders

ASSUME RefundAssumption ==
    /\ BalanceOrders \cap SubOrders = {}
    /\ NoTradeNo \subseteq Orders /\ PendingIsError \subseteq Orders
    /\ NoOrder \notin Orders
    /\ Amount \in Nat \ {0} /\ InitialBalance \in Nat
    /\ MaxFaults \in Nat

VARIABLES
    status,      \* payment_orders.status
    rolledBack,  \* FALSE once REFUND_ROLLBACK_FAILED is in the audit log
    balance,     \* users.balance
    term,        \* the subscription a subscription order paid for
    taken,       \* what refunds of the order hold back from the user now
    refunded,    \* what the gateway has paid back to the user
    pc, job,     \* the step and the order of a worker
    plan,        \* its RefundPlan: the status read, the amount, what to take
    faults

user == <<balance, term, taken>>
vars == <<status, rolledBack, user, refunded, pc, job, plan, faults>>

\* "long" outlasts a deduction; to deduct from "short" would expire it
Terms == {"long", "short", "expired", "revoked"}

\* between the lock and the write that ends the refund
RefundSteps == {"held", "deduct", "reread", "gateway", "markok", "rollback",
                "logfailed", "markfailed", "restore"}
Steps == {"idle", "request", "execute"} \cup RefundSteps

NoPlan == [seen |-> "NONE", amount |-> 0, take |-> 0]
Plans == [seen : Statuses, amount : 0..Amount, take : 0..Amount]

TypeOK ==
    /\ status \in [Orders -> Statuses]
    /\ rolledBack \in [Orders -> BOOLEAN]
    /\ balance \in Int
    /\ term \in [SubOrders -> Terms]
    /\ taken \in [Orders -> Int]
    /\ refunded \in [Orders -> 0..Amount]
    /\ pc \in [Workers -> Steps]
    /\ job \in [Workers -> Orders \cup {NoOrder}]
    /\ plan \in [Workers -> Plans]
    /\ faults \in Nat

Init ==
    /\ status = [o \in Orders |-> "COMPLETED"]
    /\ rolledBack = [o \in Orders |-> TRUE]
    /\ balance = InitialBalance
    /\ term = [o \in SubOrders |-> "long"]
    /\ taken = [o \in Orders |-> 0]
    /\ refunded = [o \in Orders |-> 0]
    /\ pc = [w \in Workers |-> "idle"]
    /\ job = [w \in Workers |-> NoOrder]
    /\ plan = [w \in Workers |-> NoPlan]
    /\ faults = 0

-----------------------------------------------------------------------------

At(w, step) == pc[w] = step
Start(w, o, step) ==
    /\ At(w, "idle")
    /\ pc' = [pc EXCEPT ![w] = step]
    /\ job' = [job EXCEPT ![w] = o]
Goto(w, step) == pc' = [pc EXCEPT ![w] = step] /\ UNCHANGED <<job, plan>>
Return(w) ==
    /\ pc' = [pc EXCEPT ![w] = "idle"]
    /\ job' = [job EXCEPT ![w] = NoOrder]
    /\ plan' = [plan EXCEPT ![w] = NoPlan]

Reliable == UNCHANGED faults
Fault(w) ==
    /\ pc[w] \in Unreliable
    /\ faults < MaxFaults
    /\ faults' = faults + 1

SetStatus(o, s) == status' = [status EXCEPT ![o] = s]
Smaller(a, b) == IF a < b THEN a ELSE b

-----------------------------------------------------------------------------
(* RequestRefund: the checks, then the conditional update *)

RequestRefund(w, o) ==
    /\ o \in BalanceOrders
    /\ status[o] = "COMPLETED"
    /\ balance >= Amount
    /\ Start(w, o, "request")
    /\ Reliable /\ UNCHANGED <<status, rolledBack, user, refunded, plan>>

MarkRequested(w) ==
    /\ At(w, "request")
    /\ \/ status[job[w]] = "COMPLETED" /\ SetStatus(job[w], "REFUND_REQUESTED") /\ Reliable
       \/ status[job[w]] # "COMPLETED" /\ Reliable /\ UNCHANGED status
       \/ Fault(w) /\ UNCHANGED status
    /\ Return(w)
    /\ UNCHANGED <<rolledBack, user, refunded>>

(* PrepareRefund: an administrator chooses the amount and whether to deduct; *)
(* a subscription that is gone can only be refunded by force, with nothing   *)
(* to deduct.                                                                *)
PrepareRefund(w, o) ==
    /\ status[o] \in Refundable
    /\ Start(w, o, "execute")
    /\ \E amount \in 1..Amount, deduct \in BOOLEAN :
          LET held == IF o \in BalanceOrders
                      THEN IF balance > 0 THEN Smaller(amount, balance) ELSE 0
                      ELSE IF term[o] \in {"long", "short"} THEN 1 ELSE 0
          IN plan' = [plan EXCEPT ![w] = [seen |-> status[o], amount |-> amount,
                                          take |-> IF deduct THEN held ELSE 0]]
    /\ Reliable /\ UNCHANGED <<status, rolledBack, user, refunded>>

(* ExecuteRefund *)

LockOrder(w) ==
    /\ At(w, "execute")
    /\ \/ /\ status[job[w]] \in Refundable
          /\ SetStatus(job[w], "REFUNDING")
          /\ Goto(w, IF plan[w].take > 0 THEN "held" ELSE "gateway") /\ Reliable
       \/ status[job[w]] \notin Refundable /\ Return(w) /\ Reliable /\ UNCHANGED status
       \/ Fault(w) /\ Return(w) /\ UNCHANGED status
    /\ UNCHANGED <<rolledBack, user, refunded>>

\* mutant: the audit log is not consulted
NeverHeld(o) == FALSE
\* An earlier attempt took the purchase and could not give it back
AlreadyHeld(o) == ~rolledBack[o]

\* hasAuditLog takes a failed read for an empty log
CheckHeld(w) ==
    /\ At(w, "held")
    /\ \/ /\ AlreadyHeld(job[w])
          /\ plan' = [plan EXCEPT ![w].take = 0]
          /\ pc' = [pc EXCEPT ![w] = "gateway"]
          /\ Reliable /\ UNCHANGED job
       \/ ~AlreadyHeld(job[w]) /\ Goto(w, "deduct") /\ Reliable
       \/ Fault(w) /\ Goto(w, "deduct")
    /\ UNCHANGED <<status, rolledBack, user, refunded>>

\* DeductBalance overdraws once: it only refuses a balance below zero
DeductBalance(w) ==
    /\ At(w, "deduct")
    /\ job[w] \in BalanceOrders
    /\ \/ /\ balance >= 0
          /\ balance' = balance - plan[w].take
          /\ taken' = [taken EXCEPT ![job[w]] = @ + plan[w].take]
          /\ Goto(w, "gateway") /\ Reliable
       \/ balance < 0 /\ Goto(w, "restore") /\ Reliable /\ UNCHANGED <<balance, taken>>
       \/ Fault(w) /\ Goto(w, "restore") /\ UNCHANGED <<balance, taken>>
    /\ UNCHANGED <<status, rolledBack, term, refunded>>

\* ExtendSubscription by minus the days or, where that would expire it,
\* RevokeSubscription
DeductSubscription(w) ==
    /\ At(w, "deduct")
    /\ job[w] \in SubOrders
    /\ LET o == job[w]
           took == taken' = [taken EXCEPT ![o] = @ + plan[w].take]
       IN \/ /\ term[o] = "long"
             /\ \E t \in {"long", "short"} : term' = [term EXCEPT ![o] = t]
             /\ took /\ Goto(w, "reread") /\ Reliable
          \/ /\ term[o] = "short" /\ term' = [term EXCEPT ![o] = "revoked"]
             /\ took /\ Goto(w, "gateway") /\ Reliable
          \/ /\ term[o] \in {"expired", "revoked"} /\ Goto(w, "restore") /\ Reliable
             /\ UNCHANGED <<term, taken>>
          \/ Fault(w) /\ Goto(w, "restore") /\ UNCHANGED <<term, taken>>
    /\ UNCHANGED <<status, rolledBack, balance, refunded>>

\* ExtendSubscription ends by reading the row it wrote; if that fails the refund
\* is called off with the days taken
RereadSubscription(w) ==
    /\ At(w, "reread")
    /\ \/ Goto(w, "gateway") /\ Reliable
       \/ Fault(w) /\ Goto(w, "restore")
    /\ UNCHANGED <<status, rolledBack, user, refunded>>

\* The gateway refuses to pay back more than was paid
PaysBack(o, amount) == refunded[o] + amount <= Amount
PayBack(o, amount) == refunded' = [refunded EXCEPT ![o] = @ + amount]

\* mutants: the error is ignored; nothing is given back; an early return
GatewayFailedIgnored(w) == Goto(w, "markok")
GatewayFailedHeld(w) == Goto(w, "restore")
GatewayFailedReturns(w) == Return(w)
\* handleGwFail
GatewayFailed(w) == Goto(w, "rollback")

\* gwRefund.  A failed call may have been carried out by the gateway.
GatewayRefund(w) ==
    /\ At(w, "gateway")
    /\ LET o == job[w]
           amount == plan[w].amount
           settled == o \in PendingIsError /\ refunded[o] = amount
       IN \/ /\ o \in NoTradeNo \/ settled
             /\ Goto(w, "markok") /\ Reliable /\ UNCHANGED refunded
          \/ /\ o \notin NoTradeNo /\ ~settled /\ PaysBack(o, amount)
             /\ PayBack(o, amount)
             /\ IF o \in PendingIsError THEN GatewayFailed(w) ELSE Goto(w, "markok")
             /\ Reliable
          \/ /\ o \notin NoTradeNo /\ ~settled /\ ~PaysBack(o, amount)
             /\ GatewayFailed(w) /\ Reliable /\ UNCHANGED refunded
          \/ /\ o \notin NoTradeNo
             /\ Fault(w) /\ GatewayFailed(w)
             /\ \/ UNCHANGED refunded
                \/ "timeout" \in Unreliable /\ PaysBack(o, amount) /\ PayBack(o, amount)
    /\ UNCHANGED <<status, rolledBack, user>>

\* mutants: a misspelt status; the order stays completed after part of it
RecordedMisspelt(amount) == IF amount < Amount THEN "PARTIAL_REFUNDED" ELSE "REFUNDED"
RecordedCompleted(amount) == IF amount < Amount THEN "COMPLETED" ELSE "REFUNDED"
Recorded(amount) == IF amount < Amount THEN "PARTIALLY_REFUNDED" ELSE "REFUNDED"

MarkRefundOk(w) ==
    /\ At(w, "markok")
    /\ \/ SetStatus(job[w], Recorded(plan[w].amount)) /\ Reliable
       \/ Fault(w) /\ UNCHANGED status
    /\ Return(w)
    /\ UNCHANGED <<rolledBack, user, refunded>>

\* RollbackRefund: UpdateBalance, or ExtendSubscription, which may fail after it
\* gave the days back
RollbackRefund(w) ==
    /\ At(w, "rollback")
    /\ LET o == job[w]
           take == plan[w].take
           given == taken' = [taken EXCEPT ![o] = @ - take]
       IN \/ /\ take = 0
             /\ Goto(w, "restore") /\ Reliable /\ UNCHANGED user
          \/ /\ take > 0 /\ o \in BalanceOrders
             /\ balance' = balance + take /\ given
             /\ Goto(w, "restore") /\ Reliable /\ UNCHANGED term
          \/ /\ take > 0 /\ o \in SubOrders /\ term[o] # "revoked"
             /\ term' = [term EXCEPT ![o] = "long"] /\ given
             /\ Goto(w, "restore") /\ Reliable /\ UNCHANGED balance
          \/ /\ take > 0 /\ o \in SubOrders /\ term[o] = "revoked"
             /\ Goto(w, "logfailed") /\ Reliable /\ UNCHANGED user
          \/ /\ take > 0 /\ Fault(w) /\ Goto(w, "logfailed") /\ UNCHANGED balance
             /\ \/ UNCHANGED <<term, taken>>
                \/ /\ o \in SubOrders /\ term[o] # "revoked"
                   /\ term' = [term EXCEPT ![o] = "long"] /\ given
    /\ UNCHANGED <<status, rolledBack, refunded>>

\* the audit row REFUND_ROLLBACK_FAILED; a failure to write it is only logged
LogRollbackFailed(w) ==
    /\ At(w, "logfailed")
    /\ \/ rolledBack' = [rolledBack EXCEPT ![job[w]] = FALSE] /\ Reliable
       \/ Fault(w) /\ UNCHANGED rolledBack
    /\ Goto(w, "markfailed")
    /\ UNCHANGED <<status, user, refunded>>

MarkRefundFailed(w) ==
    /\ At(w, "markfailed")
    /\ \/ SetStatus(job[w], "REFUND_FAILED") /\ Reliable
       \/ Fault(w) /\ UNCHANGED status
    /\ Return(w)
    /\ UNCHANGED <<rolledBack, user, refunded>>

\* mutant: the status of a failed payment instead of a failed refund
RestoredFailed(seen) == IF seen = "REFUND_FAILED" THEN "FAILED" ELSE seen
\* back to the status the plan saw, as far as restoreStatus knows it
Restored(seen) == IF seen = "REFUND_REQUESTED" THEN "REFUND_REQUESTED" ELSE "COMPLETED"

RestoreStatus(w) ==
    /\ At(w, "restore")
    /\ \/ SetStatus(job[w], Restored(plan[w].seen)) /\ Reliable
       \/ Fault(w) /\ UNCHANGED status
    /\ Return(w)
    /\ UNCHANGED <<rolledBack, user, refunded>>

ExecuteRefund(w) ==
    \/ LockOrder(w) \/ CheckHeld(w)
    \/ DeductBalance(w) \/ DeductSubscription(w) \/ RereadSubscription(w)
    \/ GatewayRefund(w) \/ MarkRefundOk(w)
    \/ RollbackRefund(w) \/ LogRollbackFailed(w) \/ MarkRefundFailed(w) \/ RestoreStatus(w)

-----------------------------------------------------------------------------

\* The user goes on using the service: DeductBalance on the billing path
Spend ==
    /\ balance >= 0 /\ BalanceOrders # {}
    /\ balance' = balance - 1
    /\ UNCHANGED <<status, rolledBack, term, taken, refunded, pc, job, plan, faults>>

TimePasses(o) ==
    /\ \/ term[o] = "long" /\ term' = [term EXCEPT ![o] = "short"]
       \/ term[o] = "short" /\ term' = [term EXCEPT ![o] = "expired"]
    /\ UNCHANGED <<status, rolledBack, balance, taken, refunded, pc, job, plan, faults>>

Crash ==
    /\ "crash" \in Unreliable /\ faults < MaxFaults
    /\ \E w \in Workers : ~At(w, "idle")
    /\ pc' = [w \in Workers |-> "idle"]
    /\ job' = [w \in Workers |-> NoOrder]
    /\ plan' = [w \in Workers |-> NoPlan]
    /\ faults' = faults + 1
    /\ UNCHANGED <<status, rolledBack, user, refunded>>

Step(w) ==
    \/ \E o \in Orders : RequestRefund(w, o) \/ PrepareRefund(w, o)
    \/ MarkRequested(w) \/ ExecuteRefund(w)

Next ==
    \/ \E w \in Workers : Step(w)
    \/ Spend \/ \E o \in SubOrders : TimePasses(o)
    \/ Crash

Spec == Init /\ [][Next]_vars

\* A handler that started goes on.
FairSpec == Spec /\ \A w \in Workers : WF_vars(pc[w] # "idle" /\ Step(w))

-----------------------------------------------------------------------------
(* Properties *)

InRefund(o) == \E w \in Workers : job[w] = o /\ pc[w] \in RefundSteps

\* REFUNDING is a lock: one refund of an order at a time, and its writes to the
\* status, which no condition guards, find the order as it left it.
OneRefund ==
    \A w \in Workers : pc[w] \in RefundSteps =>
        /\ status[job[w]] = "REFUNDING"
        /\ \A v \in Workers \ {w} : pc[v] \in RefundSteps => job[v] # job[w]

\* However often a refund is retried, it never holds back more than was bought,
\* and never gives back more than it took.
TakenOnce == \A o \in Orders : taken[o] \in 0..Amount

\* An order that ends as refunded was paid back, by the amount it says.
RefundedIsPaidBack ==
    \A o \in Orders :
        /\ status[o] = "REFUNDED" => refunded[o] = Amount
        /\ status[o] = "PARTIALLY_REFUNDED" => refunded[o] > 0

\* What a refund took and did not give back stays on record, however its
\* attempts fail: the order is in refund or refunded, or its audit log says
\* REFUND_ROLLBACK_FAILED.
HeldIsOnRecord ==
    \A o \in Orders : taken[o] > 0 =>
        status[o] \in {"REFUNDING", "REFUNDED", "PARTIALLY_REFUNDED"} \/ ~rolledBack[o]

\* A refund that did not happen leaves the user what was bought
\* (payment_refund.go:391, "gateway failed: ..., rolled back").
FailedIsGivenBack ==
    \A o \in Orders : status[o] \in {"COMPLETED", "REFUND_REQUESTED"} => taken[o] = 0

\* Money the gateway paid back is never lost sight of: an order whose refund is
\* accepted is not open to be used as if it were not
\* (payment_refund_test.go:205, ValidateRefundProviderResponseAcceptsPending).
PaidBackIsRefunded ==
    \A o \in Orders : refunded[o] > 0 /\ ~InRefund(o) => status[o] \notin Refundable

\* The same for the balance alone, which can always be given back.
BalanceIsGivenBack ==
    \A o \in BalanceOrders : status[o] \in {"COMPLETED", "REFUND_REQUESTED"} => taken[o] = 0

\* An order that is REFUNDING is being refunded: no request has left it behind.
RefundingIsInRefund == \A o \in Orders : status[o] = "REFUNDING" => InRefund(o)

\* The gateway is made to pay an order back once, however often its refund is tried.
PaidBackOnce == [][\A o \in Orders : refunded'[o] # refunded[o] => refunded[o] = 0]_vars

\* The status only moves as module PaymentOrder assumes.
MovesAsAssumed ==
    [][\A o \in Orders : status'[o] # status[o] => <<status[o], status'[o]>> \in RefundMoves]_vars

\* A refund in progress comes to an end.
RefundEnds == \A o \in Orders : status[o] = "REFUNDING" ~> status[o] # "REFUNDING"

-----------------------------------------------------------------------------
(* Why they hold: the parts of the invariants that every step preserves *)

RefundInv ==
    /\ \A w \in Workers :
          /\ pc[w] # "idle" => job[w] \in Orders
          /\ pc[w] \in {"execute"} \cup RefundSteps => plan[w].amount > 0
    /\ OneRefund

\* The gateway paid before the refund is recorded.
PaidBackInv ==
    /\ \A w \in Workers : pc[w] = "markok" => refunded[job[w]] >= plan[w].amount
    /\ RefundedIsPaidBack

\* What an order holds back is what the plan of its refund took, unless the audit
\* log says that an earlier refund still holds it.
HeldInv ==
    /\ \A w \in Workers :
          LET o == job[w]
          IN /\ pc[w] \in {"held", "restore"} => (rolledBack[o] => taken[o] = 0)
             /\ pc[w] = "deduct" => rolledBack[o] /\ taken[o] = 0
             /\ pc[w] \in {"reread", "gateway", "rollback"} =>
                   (rolledBack[o] => taken[o] = plan[w].take) /\ (~rolledBack[o] => plan[w].take = 0)
             /\ pc[w] = "markfailed" => ~rolledBack[o]
    /\ TakenOnce
    /\ HeldIsOnRecord

\* What the gateway has paid back cannot fail any more, if its answer is to be
\* relied on: only MarkRefundOk is left to do, and whatever becomes of that the
\* order is not open for another refund.
RepaidInv ==
    /\ \A o \in Orders :
          refunded[o] > 0 => status[o] \in {"REFUNDING", "REFUNDED", "PARTIALLY_REFUNDED"}
    /\ \A w \in Workers : pc[w] \in RefundSteps \ {"markok"} => refunded[job[w]] = 0

\* Where a balance is always given back, an order holds what the plan of its refund
\* took until it is, and the audit log is never needed.
BalancesGivenBack ==
    \A o \in BalanceOrders : rolledBack[o] /\ (status[o] \in Refundable => taken[o] = 0)

PlansToGiveBack ==
    \A w \in Workers : job[w] \in BalanceOrders =>
        /\ pc[w] \notin {"reread", "logfailed", "markfailed"}
        /\ pc[w] \in {"held", "deduct", "restore"} => taken[job[w]] = 0
        /\ pc[w] \in {"gateway", "rollback"} => taken[job[w]] = plan[w].take

GivenBackInv == BalancesGivenBack /\ PlansToGiveBack
=============================================================================
