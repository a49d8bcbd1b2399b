------------------------ MODULE PaymentOrderProofs ------------------------
(***************************************************************************)
(* Proofs about PaymentOrder, for every set of orders and workers, every   *)
(* limit and every choice of the steps that may fail.                      *)
(*                                                                         *)
(* OrderInv, with the type invariant, is inductive: TypeStep and           *)
(* OrderInvStep go through the actions one by one.  The safety properties  *)
(* are conjuncts or consequences of it; the action property and the        *)
(* refinement of OrderLedger are step properties that hold in the states   *)
(* it allows.  AcknowledgedIsRecorded needs a second invariant and the     *)
(* hypothesis that two reads do not fail.                                  *)
(***************************************************************************)
EXTENDS PaymentOrder, FiniteSetTheorems, TLAPS

-----------------------------------------------------------------------------
(* Types *)

\* The program starts with values of the types.
LEMMA TypeInit == Init => TypeOK
BY DEF Init, TypeOK, Statuses, Steps, Handlers, Upstream

\* What the answer to a notification does to the redelivery of it.
LEMMA OwedType ==
  ASSUME TypeOK, NEW w \in Workers, ConfirmPayment(w)
  PROVE  owed' \in [Orders -> BOOLEAN]
<1>1. owed' = owed \/ owed' = [owed EXCEPT ![job[w]] = FALSE]
  BY DEF ConfirmPayment, Respond, provider
<1> QED BY <1>1 DEF TypeOK

\* The two steps that store a trade number, under a condition.
LEMMA TradeNoType ==
  ASSUME TypeOK, NEW w \in Workers, SavePayURL(w) \/ ToPaid(w)
  PROVE  tradeNo' \in [Orders -> BOOLEAN]
<1>1. CASE SavePayURL(w)
  BY <1>1 DEF SavePayURL, TypeOK
<1>2. CASE ToPaid(w)
  BY <1>2 DEF ToPaid, TypeOK
<1> QED BY <1>1, <1>2

\* Whatever the answer, it leaves the types of what the provider knows.
LEMMA RespondType ==
  ASSUME TypeOK, NEW w \in Workers, NEW answer, Respond(w, answer)
  PROVE  owed' \in [Orders -> BOOLEAN]
BY DEF TypeOK, Respond

\* Every step keeps the types.
LEMMA TypeStep ==
  ASSUME TypeOK, [Next]_vars
  PROVE  TypeOK'
<1> USE DEF TypeOK, order, provider, worker, At, Goto, Leave, Return, Respond, Start,
            Reliable, Fault, SetStatus, Credit, Log, FinalStatus, RedeemAction,
            UseCode
<1> USE OrderAssumption DEF Orders, Statuses, RefundStatuses, AuditActions, Upstream, Handlers,
            Steps, CreateSteps, QuerySteps, ConfirmSteps, FulfilSteps
<1>1. CASE UNCHANGED vars
  BY <1>1 DEF vars
<1>2. ASSUME NEW w \in Workers, Create(w) PROVE TypeOK'
  <2>1. ASSUME NEW o \in Orders, CreateOrder(w, o) PROVE TypeOK'
    BY <2>1 DEF CreateOrder
  <2>2. CASE InsertOrder(w)
    BY <2>2 DEF InsertOrder
  <2>3. CASE InvokeProvider(w)
    BY <2>3 DEF InvokeProvider
  <2>4. CASE SavePayURL(w)
    <3>1. tradeNo' \in [Orders -> BOOLEAN]
      BY <2>4, TradeNoType
    <3>2. grace' \in [Orders -> BOOLEAN]
      BY ONLY <2>4, TypeOK DEF TypeOK, SavePayURL
    <3>3. upstream' \in [Orders -> Upstream] /\ faults' \in Nat
      BY <2>4 DEF SavePayURL
    <3>4. pc' \in [Workers -> Steps] /\ job' \in [Workers -> Orders \cup {NoOrder}] /\ op' \in [Workers -> Handlers]
      BY <2>4 DEF SavePayURL
    <3>5. UNCHANGED <<status, paidAt, audit, code, credits, owed>>
      BY <2>4 DEF SavePayURL
    <3> QED BY <3>1, <3>2, <3>3, <3>4, <3>5
  <2>5. CASE CreateFailed(w)
    BY <2>5 DEF CreateFailed
  <2> QED BY ONLY <1>2, <2>1, <2>2, <2>3, <2>4, <2>5 DEF Create
<1>3. ASSUME NEW w \in Workers, Lifecycle(w) PROVE TypeOK'
  <2>1. ASSUME NEW o \in Orders, CancelOrder(w, o) PROVE TypeOK'
    BY <2>1 DEF CancelOrder
  <2>2. ASSUME NEW o \in Orders, ExpireTimedOutOrder(w, o) PROVE TypeOK'
    BY <2>2 DEF ExpireTimedOutOrder
  <2>3. ASSUME NEW o \in Orders, VerifyOrder(w, o) PROVE TypeOK'
    BY <2>3 DEF VerifyOrder
  <2>4. CASE CheckPaid(w)
    BY <2>4 DEF CheckPaid
  <2>5. CASE ClosePayment(w)
    BY <2>5 DEF ClosePayment
  <2>6. CASE PersistTradeNo(w)
    BY ZenonT(60), <2>6 DEF PersistTradeNo
  <2>7. CASE CancelCore(w)
    <3>1. grace' \in [Orders -> BOOLEAN]
      BY <2>7 DEF CancelCore
    <3> QED BY <2>7, <3>1 DEF CancelCore
  <2> QED BY ONLY <1>3, <2>1, <2>2, <2>3, <2>4, <2>5, <2>6, <2>7 DEF Lifecycle
<1>4. ASSUME NEW w \in Workers, Notification(w) PROVE TypeOK'
  <2>1. ASSUME NEW o \in Orders, Webhook(w, o) PROVE TypeOK'
    BY <2>1 DEF Webhook
  <2>2. ASSUME NEW o \in Orders, RetryFulfillment(w, o) PROVE TypeOK'
    BY <2>2 DEF RetryFulfillment
  <2>3. CASE ConfirmPayment(w)
    <3>1. owed' \in [Orders -> BOOLEAN]
      BY <2>3, OwedType
    <3> QED BY <2>3, <3>1 DEF ConfirmPayment
  <2>4. CASE ToPaid(w)
    <3>1. tradeNo' \in [Orders -> BOOLEAN]
      BY <2>4, TradeNoType
    <3>2. owed' \in [Orders -> BOOLEAN]
      BY <2>4 DEF ToPaid
    <3>3. paidAt' \in [Orders -> BOOLEAN]
      BY <2>4 DEF ToPaid
    <3>4. status' \in [Orders -> Statuses] /\ upstream' = upstream
      BY <2>4 DEF ToPaid
    <3>5. pc' \in [Workers -> Steps] /\ job' \in [Workers -> Orders \cup {NoOrder}] /\ op' \in [Workers -> Handlers]
      BY <2>4 DEF ToPaid
    <3>6. faults' \in Nat /\ UNCHANGED <<grace, audit, code, credits>>
      BY <2>4 DEF ToPaid
    <3> QED BY <3>1, <3>2, <3>3, <3>4, <3>5, <3>6
  <2>5. CASE AlreadyProcessed(w)
    <3>1. owed' \in [Orders -> BOOLEAN]
      BY ZenonT(60), <2>5 DEF AlreadyProcessed
    <3> QED BY <2>5, <3>1 DEF AlreadyProcessed
  <2>6. CASE ResetForRetry(w)
    BY <2>6 DEF ResetForRetry
  <2> QED BY ONLY <1>4, <2>1, <2>2, <2>3, <2>4, <2>5, <2>6 DEF Notification
<1>5. ASSUME NEW w \in Workers, Fulfillment(w) PROVE TypeOK'
  <2>1. CASE ExecuteFulfillment(w)
    <3>1. owed' \in [Orders -> BOOLEAN]
      BY ONLY <2>1, TypeOK, RespondType DEF TypeOK, ExecuteFulfillment, provider
    <3> QED BY <2>1, <3>1 DEF ExecuteFulfillment
  <2>2. CASE LockOrder(w)
    <3>1. owed' \in [Orders -> BOOLEAN]
      BY ZenonT(60), <2>2 DEF LockOrder
    <3> QED BY <2>2, <3>1 DEF LockOrder
  <2>3. CASE LookupCode(w)
    BY <2>3 DEF LookupCode
  <2>4. CASE CreateCode(w)
    BY <2>4 DEF CreateCode
  <2>5. CASE RedeemCode(w)
    BY <2>5 DEF RedeemCode
  <2>6. CASE ApplyAffiliateRebate(w)
    BY <2>6 DEF ApplyAffiliateRebate
  <2>7. CASE CheckGranted(w)
    BY <2>7 DEF CheckGranted
  <2>8. CASE AssignSubscription(w)
    BY <2>8 DEF AssignSubscription
  <2>9. CASE MarkCompleted(w)
    BY <2>9 DEF MarkCompleted
  <2>10. CASE AuditSuccess(w)
    <3>1. owed' \in [Orders -> BOOLEAN]
      BY <2>10 DEF AuditSuccess
    <3> QED BY <2>10, <3>1 DEF AuditSuccess
  <2>11. CASE MarkFailed(w)
    BY <2>11 DEF MarkFailed
  <2> QED BY ONLY <1>5, <2>1, <2>2, <2>3, <2>4, <2>5, <2>6, <2>7, <2>8, <2>9, <2>10, <2>11 DEF Fulfillment
<1>6. ASSUME NEW o \in Orders, UserPays(o) PROVE TypeOK'
  BY <1>6 DEF UserPays
<1>7. ASSUME NEW o \in Orders, GraceElapses(o) PROVE TypeOK'
  BY <1>7 DEF GraceElapses
<1>8. ASSUME NEW o \in Orders, Refund(o) PROVE TypeOK'
  BY <1>8 DEF Refund, RefundMoves, Refundable
<1>9. CASE Crash
  BY <1>9 DEF Crash
<1> QED BY ONLY [Next]_vars, <1>1, <1>2, <1>3, <1>4, <1>5, <1>6, <1>7, <1>8, <1>9 DEF Next, Step

\* Every column of an order, what the provider knows and what a worker does
\* keep their types, whatever fails.
THEOREM TypeCorrect == Spec => []TypeOK
<1> QED BY TypeInit, TypeStep, PTL DEF Spec

-----------------------------------------------------------------------------
(* The inductive invariant *)

\* No order exists and no worker runs at first.
LEMMA OrderInvInit == Init => OrderInv
<1> SUFFICES ASSUME Init PROVE OrderInv
  OBVIOUS
<1> USE DEF OrderInv, BusyHasJob, OneCreator, OneFulfiller, PaidBeforeFulfillment, StepFitsKind,
            CreditedBeforeCompletion, NewIsUnknown, UnpaidIsUntouched, CodeIsCredit,
            SuccessIsCredited, CompletedIsCredited
<1> USE OrderAssumption DEF Orders, RefundStatuses, UnpaidStatuses, Settled, Steps, CreateSteps,
            QuerySteps, ConfirmSteps, FulfilSteps, PaidSteps, Fulfillable, Payable
<1> QED BY DEF Init

\* Every step keeps it.
LEMMA OrderInvStep ==
  ASSUME TypeOK, TypeOK', OrderInv, [Next]_vars
  PROVE  OrderInv'
<1> USE DEF TypeOK, order, provider, worker, At, Goto, Leave, Return, Respond, Start,
            Reliable, Fault, SetStatus, Credit, Log, FinalStatus, AmountMatches, RedeemAction,
            UseCode
<1> USE DEF OrderInv, BusyHasJob, OneCreator, OneFulfiller, PaidBeforeFulfillment, StepFitsKind,
            CreditedBeforeCompletion, NewIsUnknown, UnpaidIsUntouched, CodeIsCredit,
            SuccessIsCredited, CompletedIsCredited
<1> USE OrderAssumption DEF Orders, RefundStatuses, UnpaidStatuses, Settled, Steps, CreateSteps,
            QuerySteps, ConfirmSteps, FulfilSteps, PaidSteps, Fulfillable, Payable
<1>1. CASE UNCHANGED vars
  BY <1>1 DEF vars
<1>2. ASSUME NEW w \in Workers, Create(w) PROVE OrderInv'
  <2>1. ASSUME NEW o \in Orders, CreateOrder(w, o) PROVE OrderInv'
    BY <2>1 DEF CreateOrder
  <2>2. CASE InsertOrder(w)
    BY SMTT(30), <2>2 DEF InsertOrder
  <2>3. CASE InvokeProvider(w)
    BY <2>3 DEF InvokeProvider
  <2>4. CASE SavePayURL(w)
    BY <2>4 DEF SavePayURL
  <2>5. CASE CreateFailed(w)
    BY <2>5 DEF CreateFailed
  <2> QED BY ONLY <1>2, <2>1, <2>2, <2>3, <2>4, <2>5 DEF Create
<1>3. ASSUME NEW w \in Workers, Lifecycle(w) PROVE OrderInv'
  <2>1. ASSUME NEW o \in Orders, CancelOrder(w, o) PROVE OrderInv'
    BY <2>1 DEF CancelOrder
  <2>2. ASSUME NEW o \in Orders, ExpireTimedOutOrder(w, o) PROVE OrderInv'
    BY <2>2 DEF ExpireTimedOutOrder
  <2>3. ASSUME NEW o \in Orders, VerifyOrder(w, o) PROVE OrderInv'
    BY <2>3 DEF VerifyOrder
  <2>4. CASE CheckPaid(w)
    BY <2>4 DEF CheckPaid
  <2>5. CASE ClosePayment(w)
    BY <2>5 DEF ClosePayment
  <2>6. CASE PersistTradeNo(w)
    BY <2>6 DEF PersistTradeNo
  <2>7. CASE CancelCore(w)
    BY <2>7 DEF CancelCore
  <2> QED BY ONLY <1>3, <2>1, <2>2, <2>3, <2>4, <2>5, <2>6, <2>7 DEF Lifecycle
<1>4. ASSUME NEW w \in Workers, Notification(w) PROVE OrderInv'
  <2>1. ASSUME NEW o \in Orders, Webhook(w, o) PROVE OrderInv'
    BY <2>1 DEF Webhook
  <2>2. ASSUME NEW o \in Orders, RetryFulfillment(w, o) PROVE OrderInv'
    BY <2>2 DEF RetryFulfillment
  <2>3. CASE ConfirmPayment(w)
    BY SMTT(30), <2>3 DEF ConfirmPayment
  <2>4. CASE ToPaid(w)
    BY <2>4 DEF ToPaid
  <2>5. CASE AlreadyProcessed(w)
    BY SMTT(30), <2>5 DEF AlreadyProcessed
  <2>6. CASE ResetForRetry(w)
    BY <2>6 DEF ResetForRetry
  <2> QED BY ONLY <1>4, <2>1, <2>2, <2>3, <2>4, <2>5, <2>6 DEF Notification
<1>5. ASSUME NEW w \in Workers, Fulfillment(w) PROVE OrderInv'
  <2>1. CASE ExecuteFulfillment(w)
    BY SMTT(30), <2>1 DEF ExecuteFulfillment
  <2>2. CASE LockOrder(w)
    BY SMTT(30), <2>2 DEF LockOrder
  <2>3. CASE LookupCode(w)
    BY <2>3 DEF LookupCode
  <2>4. CASE CreateCode(w)
    BY <2>4 DEF CreateCode
  <2>5. CASE RedeemCode(w)
    BY <2>5 DEF RedeemCode
  <2>6. CASE ApplyAffiliateRebate(w)
    BY <2>6 DEF ApplyAffiliateRebate
  <2>7. CASE CheckGranted(w)
    BY <2>7 DEF CheckGranted
  <2>8. CASE AssignSubscription(w)
    BY <2>8 DEF AssignSubscription
  <2>9. CASE MarkCompleted(w)
    BY <2>9 DEF MarkCompleted
  <2>10. CASE AuditSuccess(w)
    BY <2>10 DEF AuditSuccess
  <2>11. CASE MarkFailed(w)
    BY <2>11 DEF MarkFailed
  <2> QED BY ONLY <1>5, <2>1, <2>2, <2>3, <2>4, <2>5, <2>6, <2>7, <2>8, <2>9, <2>10, <2>11 DEF Fulfillment
<1>6. ASSUME NEW o \in Orders, UserPays(o) PROVE OrderInv'
  BY <1>6 DEF UserPays
<1>7. ASSUME NEW o \in Orders, GraceElapses(o) PROVE OrderInv'
  BY <1>7 DEF GraceElapses
<1>8. ASSUME NEW o \in Orders, Refund(o) PROVE OrderInv'
  BY <1>8 DEF Refund, RefundMoves, Refundable
<1>9. CASE Crash
  BY <1>9 DEF Crash
<1> QED BY ONLY [Next]_vars, <1>1, <1>2, <1>3, <1>4, <1>5, <1>6, <1>7, <1>8, <1>9 DEF Next, Step

\* Whatever the handlers do in parallel, wherever they fail and whenever the
\* process restarts: credits follow payments, under the lock, once per code.
THEOREM OrderInvCorrect == Spec => [](TypeOK /\ OrderInv)
<1>1. Init => TypeOK /\ OrderInv
  BY TypeInit, OrderInvInit
<1>2. TypeOK /\ OrderInv /\ [Next]_vars => (TypeOK /\ OrderInv)'
  BY TypeStep, OrderInvStep
<1> QED BY <1>1, <1>2, PTL DEF Spec

\* The balance is credited at most once for an order: redeem codes are unique
\* and are used once (payment_fulfillment.go, doBalance).
THEOREM CreditedOnceCorrect == Spec => []CreditedOnce
<1>1. TypeOK /\ OrderInv => CreditedOnce
  BY DEF OrderInv, CodeIsCredit, CreditedOnce
<1> QED BY <1>1, OrderInvCorrect, PTL

\* Nothing is credited for an order that was not paid in full
\* (confirmPayment checks the amount before toPaid).
THEOREM CreditedOnlyIfPaidCorrect == Spec => []CreditedOnlyIfPaid
<1>1. TypeOK /\ OrderInv => CreditedOnlyIfPaid
  BY DEF OrderInv, UnpaidIsUntouched, CreditedOnlyIfPaid, TypeOK
<1> QED BY <1>1, OrderInvCorrect, PTL

\* An order that is COMPLETED, or was when its refund began, was credited
\* (markCompleted comes after the credit on every path).
THEOREM CompletedIsCreditedCorrect == Spec => []CompletedIsCredited
<1>1. TypeOK /\ OrderInv => CompletedIsCredited
  BY DEF OrderInv
<1> QED BY <1>1, OrderInvCorrect, PTL

\* RECHARGING excludes every other fulfillment of the order (the conditional
\* updates at the start of ExecuteBalanceFulfillment and
\* ExecuteSubscriptionFulfillment).
THEOREM OneFulfillerCorrect == Spec => []OneFulfiller
<1>1. TypeOK /\ OrderInv => OneFulfiller
  BY DEF OrderInv
<1> QED BY <1>1, OrderInvCorrect, PTL

-----------------------------------------------------------------------------
(* Steps *)

LockedCredit ==
    \A o \in Orders :
        /\ credits'[o] # credits[o] => status[o] = "RECHARGING"
        /\ status[o] \in Settled => status'[o] \in Settled

\* Credits change only under the lock, and what is settled stays settled.
LEMMA LockedCreditStep ==
  ASSUME TypeOK, OrderInv, [Next]_vars
  PROVE  LockedCredit
<1> USE DEF TypeOK, order, provider, worker, At, Goto, Leave, Return, Respond, Start,
            Reliable, Fault, SetStatus, Credit, Log, FinalStatus, AmountMatches, RedeemAction,
            UseCode
<1> USE DEF OrderInv, BusyHasJob, OneCreator, OneFulfiller, PaidBeforeFulfillment, StepFitsKind,
            CreditedBeforeCompletion, NewIsUnknown, UnpaidIsUntouched, CodeIsCredit,
            SuccessIsCredited, CompletedIsCredited
<1> USE OrderAssumption DEF Orders, RefundStatuses, UnpaidStatuses, Settled, Steps, CreateSteps,
            QuerySteps, ConfirmSteps, FulfilSteps, PaidSteps, Fulfillable, Payable
<1> USE DEF LockedCredit
<1>1. CASE UNCHANGED vars
  BY <1>1 DEF vars
<1>2. ASSUME NEW w \in Workers, Create(w) PROVE LockedCredit
  <2>1. ASSUME NEW o \in Orders, CreateOrder(w, o) PROVE LockedCredit
    BY <2>1 DEF CreateOrder
  <2>2. CASE InsertOrder(w)
    BY <2>2 DEF InsertOrder
  <2>3. CASE InvokeProvider(w)
    BY <2>3 DEF InvokeProvider
  <2>4. CASE SavePayURL(w)
    BY <2>4 DEF SavePayURL
  <2>5. CASE CreateFailed(w)
    BY <2>5 DEF CreateFailed
  <2> QED BY ONLY <1>2, <2>1, <2>2, <2>3, <2>4, <2>5 DEF Create
<1>3. ASSUME NEW w \in Workers, Lifecycle(w) PROVE LockedCredit
  <2>1. ASSUME NEW o \in Orders, CancelOrder(w, o) PROVE LockedCredit
    BY <2>1 DEF CancelOrder
  <2>2. ASSUME NEW o \in Orders, ExpireTimedOutOrder(w, o) PROVE LockedCredit
    BY <2>2 DEF ExpireTimedOutOrder
  <2>3. ASSUME NEW o \in Orders, VerifyOrder(w, o) PROVE LockedCredit
    BY <2>3 DEF VerifyOrder
  <2>4. CASE CheckPaid(w)
    BY <2>4 DEF CheckPaid
  <2>5. CASE ClosePayment(w)
    BY <2>5 DEF ClosePayment
  <2>6. CASE PersistTradeNo(w)
    BY <2>6 DEF PersistTradeNo
  <2>7. CASE CancelCore(w)
    BY <2>7 DEF CancelCore
  <2> QED BY ONLY <1>3, <2>1, <2>2, <2>3, <2>4, <2>5, <2>6, <2>7 DEF Lifecycle
<1>4. ASSUME NEW w \in Workers, Notification(w) PROVE LockedCredit
  <2>1. ASSUME NEW o \in Orders, Webhook(w, o) PROVE LockedCredit
    BY <2>1 DEF Webhook
  <2>2. ASSUME NEW o \in Orders, RetryFulfillment(w, o) PROVE LockedCredit
    BY <2>2 DEF RetryFulfillment
  <2>3. CASE ConfirmPayment(w)
    BY <2>3 DEF ConfirmPayment
  <2>4. CASE ToPaid(w)
    BY <2>4 DEF ToPaid
  <2>5. CASE AlreadyProcessed(w)
    BY <2>5 DEF AlreadyProcessed
  <2>6. CASE ResetForRetry(w)
    BY <2>6 DEF ResetForRetry
  <2> QED BY ONLY <1>4, <2>1, <2>2, <2>3, <2>4, <2>5, <2>6 DEF Notification
<1>5. ASSUME NEW w \in Workers, Fulfillment(w) PROVE LockedCredit
  <2>1. CASE ExecuteFulfillment(w)
    BY <2>1 DEF ExecuteFulfillment
  <2>2. CASE LockOrder(w)
    BY <2>2 DEF LockOrder
  <2>3. CASE LookupCode(w)
    BY <2>3 DEF LookupCode
  <2>4. CASE CreateCode(w)
    BY <2>4 DEF CreateCode
  <2>5. CASE RedeemCode(w)
    BY <2>5 DEF RedeemCode
  <2>6. CASE ApplyAffiliateRebate(w)
    BY <2>6 DEF ApplyAffiliateRebate
  <2>7. CASE CheckGranted(w)
    BY <2>7 DEF CheckGranted
  <2>8. CASE AssignSubscription(w)
    BY <2>8 DEF AssignSubscription
  <2>9. CASE MarkCompleted(w)
    BY <2>9 DEF MarkCompleted
  <2>10. CASE AuditSuccess(w)
    BY <2>10 DEF AuditSuccess
  <2>11. CASE MarkFailed(w)
    BY <2>11 DEF MarkFailed
  <2> QED BY ONLY <1>5, <2>1, <2>2, <2>3, <2>4, <2>5, <2>6, <2>7, <2>8, <2>9, <2>10, <2>11 DEF Fulfillment
<1>6. ASSUME NEW o \in Orders, UserPays(o) PROVE LockedCredit
  BY <1>6 DEF UserPays
<1>7. ASSUME NEW o \in Orders, GraceElapses(o) PROVE LockedCredit
  BY <1>7 DEF GraceElapses
<1>8. ASSUME NEW o \in Orders, Refund(o) PROVE LockedCredit
  BY <1>8 DEF Refund, RefundMoves, Refundable
<1>9. CASE Crash
  BY <1>9 DEF Crash
<1> QED BY ONLY [Next]_vars, <1>1, <1>2, <1>3, <1>4, <1>5, <1>6, <1>7, <1>8, <1>9 DEF Next, Step

\* No credit without the lock of the order, no fulfillment of a settled order.
THEOREM CreditsUnderLockCorrect == Spec => CreditsUnderLock
<1>1. TypeOK /\ OrderInv /\ [Next]_vars => LockedCredit
  BY LockedCreditStep
<1>2. LockedCredit => [LockedCredit]_vars
  OBVIOUS
<1> QED BY <1>1, <1>2, OrderInvCorrect, PTL DEF Spec, CreditsUnderLock, LockedCredit

\* A step of the ledger, or one the ledger does not see.
LedgerStep == [Ledger!LedgerNext]_(Ledger!ledger)
SameEntry(o) ==
    /\ upstream'[o] = "paid" <=> upstream[o] = "paid"
    /\ credits'[o] = credits[o]
    /\ status'[o] \in Settled <=> status[o] \in Settled
SameLedger == \A o \in BalanceOrders : SameEntry(o)
SameFullLedger == \A o \in Orders : SameEntry(o)

\* The ledger is a function of what SameLedger compares.
LEMMA SameLedgerStutters == ASSUME SameLedger PROVE LedgerStep
BY DEF SameLedger, SameEntry, LedgerStep, Ledger!ledger

\* The user's payment is the ledger's.
LEMMA PayStep ==
  ASSUME TypeOK, OrderInv, NEW o \in Orders, UserPays(o)
  PROVE  LedgerStep
<1> USE OrderAssumption DEF TypeOK, UserPays, order, worker, Orders
<1>1. CASE o \notin BalanceOrders \/ upstream'[o] # "paid"
  <2>1. SameLedger
    BY <1>1 DEF SameLedger, SameEntry
  <2> QED BY <2>1, SameLedgerStutters
<1>2. CASE o \in BalanceOrders /\ upstream'[o] = "paid"
  <2>1. Ledger!Pay(o)
    BY <1>2 DEF Ledger!Pay
  <2> QED BY <1>2, <2>1 DEF LedgerStep, Ledger!LedgerNext
<1> QED BY <1>1, <1>2

\* Redeeming the code of an order gives what it buys.
LEMMA GiveStep ==
  ASSUME TypeOK, OrderInv, NEW w \in Workers, RedeemCode(w)
  PROVE  LedgerStep
<1> PICK o \in BalanceOrders : o = job[w]
  BY DEF OrderInv, StepFitsKind, RedeemCode, At
<1> USE OrderAssumption DEF TypeOK, RedeemCode, UseCode, At, Credit, provider, Orders
<1>1. CASE UNCHANGED credits
  <2>1. SameLedger
    BY <1>1 DEF SameLedger, SameEntry
  <2> QED BY <2>1, SameLedgerStutters
<1>2. CASE code[o] = "unused" /\ Credit(o)
  <2>1. upstream[o] = "paid" /\ credits[o] = 0
    BY <1>2 DEF OrderInv, PaidBeforeFulfillment, PaidSteps, FulfilSteps, CodeIsCredit
  <2>2. credits' = [credits EXCEPT ![o] = 1] /\ UNCHANGED <<status, upstream>>
    BY <1>2, <2>1
  <2>3. Ledger!Give(o)
    <3>1. credits \in [Orders -> 0..2]
      BY DEF TypeOK
    <3>2. \A x \in BalanceOrders : credits'[x] = IF x = o THEN 1 ELSE credits[x]
      BY ONLY <2>2, <3>1 DEF Orders
    <3> QED BY ONLY <2>1, <2>2, <3>2 DEF Ledger!Give
  <2> QED BY ONLY <2>3 DEF LedgerStep, Ledger!LedgerNext
<1> QED BY <1>1, <1>2

\* markCompleted reports an order that was given what it buys.
LEMMA CloseStep ==
  ASSUME TypeOK, OrderInv, NEW w \in Workers, MarkCompleted(w)
  PROVE  LedgerStep
<1> PICK o \in Orders : o = job[w]
  BY DEF OrderInv, BusyHasJob, MarkCompleted, At
<1> USE OrderAssumption DEF TypeOK, MarkCompleted, At, provider, Orders
<1>1. CASE UNCHANGED status \/ o \notin BalanceOrders
  <2>1. SameLedger
    BY <1>1 DEF SameLedger, SameEntry
  <2> QED BY <2>1, SameLedgerStutters
<1>2. CASE o \in BalanceOrders /\ status' = [status EXCEPT ![o] = "COMPLETED"]
  <2>1. status[o] = "RECHARGING" /\ credits[o] = 1
    BY <1>2 DEF OrderInv, OneFulfiller, FulfilSteps, CreditedBeforeCompletion, CodeIsCredit
  <2>2. Ledger!Close(o)
    BY <1>2, <2>1 DEF Ledger!Close, Settled, RefundStatuses
  <2> QED BY ONLY <1>2, <2>2 DEF LedgerStep, Ledger!LedgerNext
<1>3. status[o] = "RECHARGING"
  BY DEF OrderInv, OneFulfiller, FulfilSteps
<1> QED BY <1>1, <1>2, <1>3

\* Every other step leaves all entries as they are.
LEMMA OtherSteps ==
  ASSUME TypeOK, OrderInv, [Next]_vars
  PROVE  \/ SameFullLedger
         \/ \E w \in Workers : RedeemCode(w) \/ AssignSubscription(w) \/ MarkCompleted(w)
         \/ \E o \in Orders : UserPays(o)
<1> USE DEF TypeOK, order, provider, worker, At, Goto, Leave, Return, Respond, Start,
            Reliable, Fault, SetStatus, Credit, Log, FinalStatus, AmountMatches, RedeemAction,
            UseCode
<1> USE DEF SameFullLedger, SameEntry
<1> USE DEF OrderInv, BusyHasJob, OneCreator, OneFulfiller, PaidBeforeFulfillment, StepFitsKind,
            CreditedBeforeCompletion, NewIsUnknown, UnpaidIsUntouched, CodeIsCredit,
            SuccessIsCredited, CompletedIsCredited
<1> USE OrderAssumption DEF Orders, RefundStatuses, UnpaidStatuses, Settled, Steps, CreateSteps,
            QuerySteps, ConfirmSteps, FulfilSteps, PaidSteps, Fulfillable, Payable
<1> SUFFICES ASSUME ~ \E w \in Workers : RedeemCode(w) \/ AssignSubscription(w) \/ MarkCompleted(w),
                    ~ \E o \in Orders : UserPays(o)
             PROVE  SameFullLedger
  OBVIOUS
<1>1. CASE UNCHANGED vars
  BY <1>1 DEF vars
<1>2. ASSUME NEW w \in Workers, Create(w) PROVE SameFullLedger
  <2>1. ASSUME NEW o \in Orders, CreateOrder(w, o) PROVE SameFullLedger
    BY <2>1 DEF CreateOrder
  <2>2. CASE InsertOrder(w)
    BY <2>2 DEF InsertOrder
  <2>3. CASE InvokeProvider(w)
    BY <2>3 DEF InvokeProvider
  <2>4. CASE SavePayURL(w)
    BY <2>4 DEF SavePayURL
  <2>5. CASE CreateFailed(w)
    BY <2>5 DEF CreateFailed
  <2> QED BY ONLY <1>2, <2>1, <2>2, <2>3, <2>4, <2>5 DEF Create
<1>3. ASSUME NEW w \in Workers, Lifecycle(w) PROVE SameFullLedger
  <2>1. ASSUME NEW o \in Orders, CancelOrder(w, o) PROVE SameFullLedger
    BY <2>1 DEF CancelOrder
  <2>2. ASSUME NEW o \in Orders, ExpireTimedOutOrder(w, o) PROVE SameFullLedger
    BY <2>2 DEF ExpireTimedOutOrder
  <2>3. ASSUME NEW o \in Orders, VerifyOrder(w, o) PROVE SameFullLedger
    BY <2>3 DEF VerifyOrder
  <2>4. CASE CheckPaid(w)
    BY <2>4 DEF CheckPaid
  <2>5. CASE ClosePayment(w)
    BY <2>5 DEF ClosePayment
  <2>6. CASE PersistTradeNo(w)
    BY <2>6 DEF PersistTradeNo
  <2>7. CASE CancelCore(w)
    BY <2>7 DEF CancelCore
  <2> QED BY ONLY <1>3, <2>1, <2>2, <2>3, <2>4, <2>5, <2>6, <2>7 DEF Lifecycle
<1>4. ASSUME NEW w \in Workers, Notification(w) PROVE SameFullLedger
  <2>1. ASSUME NEW o \in Orders, Webhook(w, o) PROVE SameFullLedger
    BY <2>1 DEF Webhook
  <2>2. ASSUME NEW o \in Orders, RetryFulfillment(w, o) PROVE SameFullLedger
    BY <2>2 DEF RetryFulfillment
  <2>3. CASE ConfirmPayment(w)
    BY <2>3 DEF ConfirmPayment
  <2>4. CASE ToPaid(w)
    BY <2>4 DEF ToPaid
  <2>5. CASE AlreadyProcessed(w)
    BY <2>5 DEF AlreadyProcessed
  <2>6. CASE ResetForRetry(w)
    BY <2>6 DEF ResetForRetry
  <2> QED BY ONLY <1>4, <2>1, <2>2, <2>3, <2>4, <2>5, <2>6 DEF Notification
<1>5. ASSUME NEW w \in Workers, Fulfillment(w) PROVE SameFullLedger
  <2>1. CASE ExecuteFulfillment(w)
    BY <2>1 DEF ExecuteFulfillment
  <2>2. CASE LockOrder(w)
    BY <2>2 DEF LockOrder
  <2>3. CASE LookupCode(w)
    BY <2>3 DEF LookupCode
  <2>4. CASE CreateCode(w)
    BY <2>4 DEF CreateCode
  <2>5. CASE RedeemCode(w)
    BY <2>5
  <2>6. CASE ApplyAffiliateRebate(w)
    BY <2>6 DEF ApplyAffiliateRebate
  <2>7. CASE CheckGranted(w)
    BY <2>7 DEF CheckGranted
  <2>8. CASE AssignSubscription(w)
    BY <2>8
  <2>9. CASE MarkCompleted(w)
    BY <2>9
  <2>10. CASE AuditSuccess(w)
    BY <2>10 DEF AuditSuccess
  <2>11. CASE MarkFailed(w)
    BY <2>11 DEF MarkFailed
  <2> QED BY ONLY <1>5, <2>1, <2>2, <2>3, <2>4, <2>5, <2>6, <2>7, <2>8, <2>9, <2>10, <2>11 DEF Fulfillment
<1>6. ASSUME NEW o \in Orders, UserPays(o) PROVE SameFullLedger
  BY <1>6
<1>7. ASSUME NEW o \in Orders, GraceElapses(o) PROVE SameFullLedger
  BY <1>7 DEF GraceElapses
<1>8. ASSUME NEW o \in Orders, Refund(o) PROVE SameFullLedger
  BY <1>8 DEF Refund, RefundMoves, Refundable
<1>9. CASE Crash
  BY <1>9 DEF Crash
<1> QED BY ONLY [Next]_vars, <1>1, <1>2, <1>3, <1>4, <1>5, <1>6, <1>7, <1>8, <1>9 DEF Next, Step

\* The days of a subscription are not in the ledger of balance orders.
LEMMA AssignStep ==
  ASSUME TypeOK, OrderInv, NEW w \in Workers, AssignSubscription(w)
  PROVE  SameLedger
<1>1. job[w] \in SubOrders
  BY DEF OrderInv, StepFitsKind, AssignSubscription, At
<1>2. /\ UNCHANGED <<status, upstream>>
      /\ \A o \in Orders : o # job[w] => credits'[o] = credits[o]
  BY DEF AssignSubscription, Credit, provider, TypeOK
<1> QED BY <1>1, <1>2, OrderAssumption DEF SameLedger, SameEntry, Orders

\* The service implements the ledger for its balance orders: what is paid is
\* given once, and is reported as done only after it was given.
THEOREM LedgerImplemented == Spec => ImplementsLedger
<1>1. Init => Ledger!LedgerInit
  BY OrderAssumption DEF Init, Ledger!LedgerInit, Orders, Settled, RefundStatuses
<1>2. TypeOK /\ OrderInv /\ [Next]_vars => [Ledger!LedgerNext]_(Ledger!ledger)
  <2> SUFFICES ASSUME TypeOK, OrderInv, [Next]_vars PROVE LedgerStep
    BY DEF LedgerStep
  <2>1. SameFullLedger => SameLedger
    BY DEF SameFullLedger, SameLedger, Orders
  <2> QED BY <2>1, OtherSteps, SameLedgerStutters, PayStep, GiveStep, AssignStep, CloseStep
<1> QED BY <1>1, <1>2, OrderInvCorrect, PTL DEF Spec, ImplementsLedger, Ledger!LedgerSpec

-----------------------------------------------------------------------------
(* Acknowledgements *)

\* Every step keeps it while the two reads work.
LEMMA RecordInvStep ==
  ASSUME TypeOK, TypeOK', OrderInv, RecordInv, [Next]_vars,
         Unreliable \cap {"confirm", "already"} = {}
  PROVE  RecordInv'
<1> USE DEF RecordInv, AcknowledgedIsRecorded
<1> USE DEF TypeOK, order, provider, worker, At, Goto, Leave, Return, Respond, Start,
            Reliable, Fault, SetStatus, Credit, Log, FinalStatus, AmountMatches, RedeemAction,
            UseCode
<1> USE DEF OrderInv, BusyHasJob, OneCreator, OneFulfiller, PaidBeforeFulfillment, StepFitsKind,
            CreditedBeforeCompletion, NewIsUnknown, UnpaidIsUntouched, CodeIsCredit,
            SuccessIsCredited, CompletedIsCredited
<1> USE OrderAssumption DEF Orders, RefundStatuses, UnpaidStatuses, Settled, Steps, CreateSteps,
            QuerySteps, ConfirmSteps, FulfilSteps, PaidSteps, Fulfillable, Payable
<1>1. CASE UNCHANGED vars
  BY <1>1 DEF vars
<1>2. ASSUME NEW w \in Workers, Create(w) PROVE RecordInv'
  <2>1. ASSUME NEW o \in Orders, CreateOrder(w, o) PROVE RecordInv'
    BY <2>1 DEF CreateOrder
  <2>2. CASE InsertOrder(w)
    BY <2>2 DEF InsertOrder
  <2>3. CASE InvokeProvider(w)
    BY <2>3 DEF InvokeProvider
  <2>4. CASE SavePayURL(w)
    BY <2>4 DEF SavePayURL
  <2>5. CASE CreateFailed(w)
    BY <2>5 DEF CreateFailed
  <2> QED BY ONLY <1>2, <2>1, <2>2, <2>3, <2>4, <2>5 DEF Create
<1>3. ASSUME NEW w \in Workers, Lifecycle(w) PROVE RecordInv'
  <2>1. ASSUME NEW o \in Orders, CancelOrder(w, o) PROVE RecordInv'
    BY <2>1 DEF CancelOrder
  <2>2. ASSUME NEW o \in Orders, ExpireTimedOutOrder(w, o) PROVE RecordInv'
    BY <2>2 DEF ExpireTimedOutOrder
  <2>3. ASSUME NEW o \in Orders, VerifyOrder(w, o) PROVE RecordInv'
    BY <2>3 DEF VerifyOrder
  <2>4. CASE CheckPaid(w)
    BY <2>4 DEF CheckPaid
  <2>5. CASE ClosePayment(w)
    BY <2>5 DEF ClosePayment
  <2>6. CASE PersistTradeNo(w)
    BY <2>6 DEF PersistTradeNo
  <2>7. CASE CancelCore(w)
    BY <2>7 DEF CancelCore
  <2> QED BY ONLY <1>3, <2>1, <2>2, <2>3, <2>4, <2>5, <2>6, <2>7 DEF Lifecycle
<1>4. ASSUME NEW w \in Workers, Notification(w) PROVE RecordInv'
  <2>1. ASSUME NEW o \in Orders, Webhook(w, o) PROVE RecordInv'
    BY <2>1 DEF Webhook
  <2>2. ASSUME NEW o \in Orders, RetryFulfillment(w, o) PROVE RecordInv'
    BY <2>2 DEF RetryFulfillment
  <2>3. CASE ConfirmPayment(w)
    BY <2>3 DEF ConfirmPayment
  <2>4. CASE ToPaid(w)
    BY <2>4 DEF ToPaid
  <2>5. CASE AlreadyProcessed(w)
    <3>1. CASE status[job[w]] = "FAILED"
      BY <2>5, <3>1 DEF AlreadyProcessed
    <3>2. CASE status[job[w]] = "EXPIRED"
      <4>1. "PAYMENT_AFTER_EXPIRY" \in audit'[job[w]]
        BY <2>5, <3>2 DEF AlreadyProcessed
      <4>2. \A o \in Orders : audit[o] \subseteq audit'[o]
        BY <2>5, <3>2 DEF AlreadyProcessed
      <4> QED BY <2>5, <3>2, <4>1, <4>2 DEF AlreadyProcessed
    <3>3. CASE status[job[w]] \notin {"FAILED", "EXPIRED"}
      BY <2>5, <3>3 DEF AlreadyProcessed, Statuses
    <3> QED BY <3>1, <3>2, <3>3
  <2>6. CASE ResetForRetry(w)
    BY <2>6 DEF ResetForRetry
  <2> QED BY ONLY <1>4, <2>1, <2>2, <2>3, <2>4, <2>5, <2>6 DEF Notification
<1>5. ASSUME NEW w \in Workers, Fulfillment(w) PROVE RecordInv'
  <2>1. CASE ExecuteFulfillment(w)
    BY <2>1 DEF ExecuteFulfillment
  <2>2. CASE LockOrder(w)
    BY <2>2 DEF LockOrder
  <2>3. CASE LookupCode(w)
    BY <2>3 DEF LookupCode
  <2>4. CASE CreateCode(w)
    BY <2>4 DEF CreateCode
  <2>5. CASE RedeemCode(w)
    BY <2>5 DEF RedeemCode
  <2>6. CASE ApplyAffiliateRebate(w)
    BY <2>6 DEF ApplyAffiliateRebate
  <2>7. CASE CheckGranted(w)
    BY <2>7 DEF CheckGranted
  <2>8. CASE AssignSubscription(w)
    BY <2>8 DEF AssignSubscription
  <2>9. CASE MarkCompleted(w)
    BY <2>9 DEF MarkCompleted
  <2>10. CASE AuditSuccess(w)
    BY <2>10 DEF AuditSuccess
  <2>11. CASE MarkFailed(w)
    BY <2>11 DEF MarkFailed
  <2> QED BY ONLY <1>5, <2>1, <2>2, <2>3, <2>4, <2>5, <2>6, <2>7, <2>8, <2>9, <2>10, <2>11 DEF Fulfillment
<1>6. ASSUME NEW o \in Orders, UserPays(o) PROVE RecordInv'
  BY <1>6 DEF UserPays
<1>7. ASSUME NEW o \in Orders, GraceElapses(o) PROVE RecordInv'
  BY <1>7 DEF GraceElapses
<1>8. ASSUME NEW o \in Orders, Refund(o) PROVE RecordInv'
  BY <1>8 DEF Refund, RefundMoves, Refundable
<1>9. CASE Crash
  BY <1>9 DEF Crash
<1> QED BY ONLY [Next]_vars, <1>1, <1>2, <1>3, <1>4, <1>5, <1>6, <1>7, <1>8, <1>9 DEF Next, Step

\* If the reads of confirmPayment and alreadyProcessed do not fail, the provider
\* is told to stop only once the payment is on record.
THEOREM AcknowledgedIsRecordedCorrect ==
  ASSUME Unreliable \cap {"confirm", "already"} = {}
  PROVE  Spec => []AcknowledgedIsRecorded
<1>1. Init => RecordInv
  BY OrderAssumption DEF Init, RecordInv, AcknowledgedIsRecorded, Orders, Settled,
     RefundStatuses, CreateSteps, PaidSteps, FulfilSteps
<1>2. TypeOK /\ OrderInv /\ (TypeOK /\ OrderInv)' /\ RecordInv /\ [Next]_vars => RecordInv'
  BY RecordInvStep
<1>3. RecordInv => AcknowledgedIsRecorded
  BY DEF RecordInv
<1> QED BY <1>1, <1>2, <1>3, OrderInvCorrect, PTL DEF Spec

-----------------------------------------------------------------------------
(* Subscriptions *)

\* Every step keeps it while an assignment and markCompleted work.
LEMMA GivenInvStep ==
  ASSUME TypeOK, TypeOK', OrderInv, GivenInv, [Next]_vars,
         Unreliable \cap {"assign", "complete"} = {}
  PROVE  GivenInv'
<1> USE DEF GivenInv, SubscriptionCreditedOnce
<1> USE DEF TypeOK, order, provider, worker, At, Goto, Leave, Return, Respond, Start,
            Reliable, Fault, SetStatus, Credit, Log, FinalStatus, AmountMatches, RedeemAction,
            UseCode
<1> USE DEF OrderInv, BusyHasJob, OneCreator, OneFulfiller, PaidBeforeFulfillment, StepFitsKind,
            CreditedBeforeCompletion, NewIsUnknown, UnpaidIsUntouched, CodeIsCredit,
            SuccessIsCredited, CompletedIsCredited
<1> USE OrderAssumption DEF Orders, RefundStatuses, UnpaidStatuses, Settled, Steps, CreateSteps,
            QuerySteps, ConfirmSteps, FulfilSteps, PaidSteps, Fulfillable, Payable
<1>1. CASE UNCHANGED vars
  BY <1>1 DEF vars
<1>2. ASSUME NEW w \in Workers, Create(w) PROVE GivenInv'
  <2>1. ASSUME NEW o \in Orders, CreateOrder(w, o) PROVE GivenInv'
    BY <2>1 DEF CreateOrder
  <2>2. CASE InsertOrder(w)
    BY <2>2 DEF InsertOrder
  <2>3. CASE InvokeProvider(w)
    BY <2>3 DEF InvokeProvider
  <2>4. CASE SavePayURL(w)
    BY <2>4 DEF SavePayURL
  <2>5. CASE CreateFailed(w)
    BY <2>5 DEF CreateFailed
  <2> QED BY ONLY <1>2, <2>1, <2>2, <2>3, <2>4, <2>5 DEF Create
<1>3. ASSUME NEW w \in Workers, Lifecycle(w) PROVE GivenInv'
  <2>1. ASSUME NEW o \in Orders, CancelOrder(w, o) PROVE GivenInv'
    BY <2>1 DEF CancelOrder
  <2>2. ASSUME NEW o \in Orders, ExpireTimedOutOrder(w, o) PROVE GivenInv'
    BY <2>2 DEF ExpireTimedOutOrder
  <2>3. ASSUME NEW o \in Orders, VerifyOrder(w, o) PROVE GivenInv'
    BY <2>3 DEF VerifyOrder
  <2>4. CASE CheckPaid(w)
    BY <2>4 DEF CheckPaid
  <2>5. CASE ClosePayment(w)
    BY <2>5 DEF ClosePayment
  <2>6. CASE PersistTradeNo(w)
    BY <2>6 DEF PersistTradeNo
  <2>7. CASE CancelCore(w)
    BY <2>7 DEF CancelCore
  <2> QED BY ONLY <1>3, <2>1, <2>2, <2>3, <2>4, <2>5, <2>6, <2>7 DEF Lifecycle
<1>4. ASSUME NEW w \in Workers, Notification(w) PROVE GivenInv'
  <2>1. ASSUME NEW o \in Orders, Webhook(w, o) PROVE GivenInv'
    BY <2>1 DEF Webhook
  <2>2. ASSUME NEW o \in Orders, RetryFulfillment(w, o) PROVE GivenInv'
    BY <2>2 DEF RetryFulfillment
  <2>3. CASE ConfirmPayment(w)
    BY <2>3 DEF ConfirmPayment
  <2>4. CASE ToPaid(w)
    BY <2>4 DEF ToPaid
  <2>5. CASE AlreadyProcessed(w)
    BY <2>5 DEF AlreadyProcessed
  <2>6. CASE ResetForRetry(w)
    BY <2>6 DEF ResetForRetry
  <2> QED BY ONLY <1>4, <2>1, <2>2, <2>3, <2>4, <2>5, <2>6 DEF Notification
<1>5. ASSUME NEW w \in Workers, Fulfillment(w) PROVE GivenInv'
  <2>1. CASE ExecuteFulfillment(w)
    BY <2>1 DEF ExecuteFulfillment
  <2>2. CASE LockOrder(w)
    BY <2>2 DEF LockOrder
  <2>3. CASE LookupCode(w)
    BY <2>3 DEF LookupCode
  <2>4. CASE CreateCode(w)
    BY <2>4 DEF CreateCode
  <2>5. CASE RedeemCode(w)
    BY <2>5 DEF RedeemCode
  <2>6. CASE ApplyAffiliateRebate(w)
    BY <2>6 DEF ApplyAffiliateRebate
  <2>7. CASE CheckGranted(w)
    BY <2>7 DEF CheckGranted
  <2>8. CASE AssignSubscription(w)
    BY <2>8 DEF AssignSubscription
  <2>9. CASE MarkCompleted(w)
    BY <2>9 DEF MarkCompleted
  <2>10. CASE AuditSuccess(w)
    BY <2>10 DEF AuditSuccess
  <2>11. CASE MarkFailed(w)
    BY <2>11 DEF MarkFailed
  <2> QED BY ONLY <1>5, <2>1, <2>2, <2>3, <2>4, <2>5, <2>6, <2>7, <2>8, <2>9, <2>10, <2>11 DEF Fulfillment
<1>6. ASSUME NEW o \in Orders, UserPays(o) PROVE GivenInv'
  BY <1>6 DEF UserPays
<1>7. ASSUME NEW o \in Orders, GraceElapses(o) PROVE GivenInv'
  BY <1>7 DEF GraceElapses
<1>8. ASSUME NEW o \in Orders, Refund(o) PROVE GivenInv'
  BY <1>8 DEF Refund, RefundMoves, Refundable
<1>9. CASE Crash
  BY <1>9 DEF Crash
<1> QED BY ONLY [Next]_vars, <1>1, <1>2, <1>3, <1>4, <1>5, <1>6, <1>7, <1>8, <1>9 DEF Next, Step

\* And so it always holds.
LEMMA GivenInvCorrect ==
  ASSUME Unreliable \cap {"assign", "complete"} = {}
  PROVE  Spec => []GivenInv
<1>1. Init => GivenInv
  BY OrderAssumption DEF Init, GivenInv, SubscriptionCreditedOnce, Orders
<1>2. TypeOK /\ OrderInv /\ (TypeOK /\ OrderInv)' /\ GivenInv /\ [Next]_vars => GivenInv'
  BY GivenInvStep
<1> QED BY <1>1, <1>2, OrderInvCorrect, PTL DEF Spec

\* The days of a subscription are given once, by whichever handlers and with
\* whatever failures and restarts, if the assignment itself and markCompleted
\* never fail: the audit row that should protect a retry is written after them.
THEOREM SubscriptionCreditedOnceCorrect ==
  ASSUME Unreliable \cap {"assign", "complete"} = {}
  PROVE  Spec => []SubscriptionCreditedOnce
<1>1. GivenInv => SubscriptionCreditedOnce
  BY DEF GivenInv
<1> QED BY <1>1, GivenInvCorrect, PTL

\* A step of the ledger of all orders, or one it does not see.
FullLedgerStep == [FullLedger!LedgerNext]_(FullLedger!ledger)

\* The full ledger is a function of what SameFullLedger compares.
LEMMA SameFullLedgerStutters ==
  ASSUME TypeOK, TypeOK', SameFullLedger
  PROVE  FullLedgerStep
<1>1. credits' = credits
  BY DEF TypeOK, SameFullLedger, SameEntry
<1> QED BY <1>1 DEF SameFullLedger, SameEntry, FullLedgerStep, FullLedger!ledger

\* A payment of any order.
LEMMA PayFullStep ==
  ASSUME TypeOK, TypeOK', OrderInv, NEW o \in Orders, UserPays(o)
  PROVE  FullLedgerStep
<1> USE DEF TypeOK, UserPays, order, worker
<1>1. CASE upstream'[o] # "paid"
  <2>1. SameFullLedger
    BY <1>1 DEF SameFullLedger, SameEntry
  <2> QED BY <2>1, SameFullLedgerStutters
<1>2. CASE upstream'[o] = "paid"
  <2>1. FullLedger!Pay(o)
    BY <1>2 DEF FullLedger!Pay
  <2> QED BY <2>1 DEF FullLedgerStep, FullLedger!LedgerNext
<1> QED BY <1>1, <1>2

\* Redeeming a code and assigning days give what an order buys, once.
LEMMA GiveFullStep ==
  ASSUME TypeOK, TypeOK', OrderInv, GivenInv, GivenInv', NEW w \in Workers,
         RedeemCode(w) \/ AssignSubscription(w)
  PROVE  FullLedgerStep
<1> PICK o \in Orders : o = job[w]
  BY DEF OrderInv, BusyHasJob, RedeemCode, AssignSubscription, At
<1>1. /\ UNCHANGED <<status, upstream>>
      /\ UNCHANGED credits \/ Credit(o)
  BY DEF RedeemCode, UseCode, AssignSubscription, provider
<1>2. CASE UNCHANGED credits
  <2>1. SameFullLedger
    BY <1>1, <1>2 DEF SameFullLedger, SameEntry
  <2> QED BY <2>1, SameFullLedgerStutters
<1>3. CASE Credit(o)
  <2>1. upstream[o] = "paid"
    BY DEF OrderInv, PaidBeforeFulfillment, PaidSteps, FulfilSteps, RedeemCode,
       AssignSubscription, At
  <2>2. CASE credits'[o] = credits[o]
    <3>1. SameFullLedger
      BY <1>1, <1>3, <2>2 DEF SameFullLedger, SameEntry, Credit, TypeOK
    <3> QED BY <3>1, SameFullLedgerStutters
  <2>3. CASE credits'[o] # credits[o]
    <3>1. credits'[o] <= 1
      <4>1. credits'[o] <= 1 \/ o \in BalanceOrders
        BY DEF GivenInv, SubscriptionCreditedOnce, Orders
      <4>2. o \in BalanceOrders => credits[o] = 0 \/ (credits[o] = 1 /\ UNCHANGED credits)
        BY OrderAssumption DEF OrderInv, StepFitsKind, CodeIsCredit, RedeemCode, AssignSubscription, At
      <4>3. credits[o] = 0 => credits'[o] = 1
        BY <1>3 DEF Credit, TypeOK
      <4>4. UNCHANGED credits => credits'[o] = credits[o]
        OBVIOUS
      <4> QED BY ONLY <4>1, <4>2, <4>3, <4>4, <2>3
    <3>2. credits[o] = 0 /\ credits' = [credits EXCEPT ![o] = 1]
      <4>1. credits \in [Orders -> 0..2] /\ credits[o] \in 0..2
        BY DEF TypeOK
      <4>2. credits' = [credits EXCEPT ![o] = IF credits[o] = 2 THEN 2 ELSE credits[o] + 1]
        BY <1>3 DEF Credit
      <4>3. credits[o] = 0
        BY ONLY <4>1, <4>2, <3>1, <2>3
      <4> QED BY ONLY <4>2, <4>3
    <3>3. FullLedger!Give(o)
      BY <1>1, <2>1, <3>2 DEF FullLedger!Give
    <3> QED BY <3>3 DEF FullLedgerStep, FullLedger!LedgerNext
  <2> QED BY <2>2, <2>3
<1> QED BY <1>1, <1>2, <1>3

\* markCompleted reports an order of either kind that was given what it buys.
LEMMA CloseFullStep ==
  ASSUME TypeOK, TypeOK', OrderInv, GivenInv, NEW w \in Workers, MarkCompleted(w)
  PROVE  FullLedgerStep
<1> PICK o \in Orders : o = job[w]
  BY DEF OrderInv, BusyHasJob, MarkCompleted, At
<1>1. status[o] = "RECHARGING" /\ credits[o] = 1
  <2>1. status[o] = "RECHARGING" /\ credits[o] > 0
    BY DEF OrderInv, OneFulfiller, FulfilSteps, CreditedBeforeCompletion, MarkCompleted, At
  <2>2. credits[o] <= 1
    BY DEF OrderInv, CodeIsCredit, GivenInv, SubscriptionCreditedOnce, Orders
  <2> QED BY <2>1, <2>2 DEF TypeOK
<1>2. /\ UNCHANGED <<credits, upstream>>
      /\ UNCHANGED status \/ status' = [status EXCEPT ![o] = "COMPLETED"]
  BY <1>1 DEF MarkCompleted, provider
<1>3. CASE UNCHANGED status
  <2>1. SameFullLedger
    BY <1>2, <1>3 DEF SameFullLedger, SameEntry
  <2> QED BY <2>1, SameFullLedgerStutters
<1>4. CASE status' = [status EXCEPT ![o] = "COMPLETED"]
  <2>1. FullLedger!Close(o)
    BY <1>1, <1>2, <1>4 DEF FullLedger!Close, Settled, RefundStatuses, TypeOK
  <2> QED BY <2>1 DEF FullLedgerStep, FullLedger!LedgerNext
<1> QED BY <1>2, <1>3, <1>4

\* Under the same hypothesis the service implements the ledger for all its orders.
THEOREM FullLedgerImplemented ==
  ASSUME Unreliable \cap {"assign", "complete"} = {}
  PROVE  Spec => ImplementsFullLedger
<1>1. Init => FullLedger!LedgerInit
  BY DEF Init, FullLedger!LedgerInit, Settled, RefundStatuses
<1>2. TypeOK /\ OrderInv /\ GivenInv /\ (TypeOK /\ OrderInv /\ GivenInv)' /\ [Next]_vars
        => [FullLedger!LedgerNext]_(FullLedger!ledger)
  <2> SUFFICES ASSUME TypeOK, OrderInv, GivenInv, TypeOK', GivenInv', [Next]_vars
               PROVE  FullLedgerStep
    BY DEF FullLedgerStep
  <2> QED BY OtherSteps, SameFullLedgerStutters, PayFullStep, GiveFullStep, CloseFullStep
<1> QED BY <1>1, <1>2, OrderInvCorrect, GivenInvCorrect, PTL
        DEF Spec, ImplementsFullLedger, FullLedger!LedgerSpec

-----------------------------------------------------------------------------
(* Orders in progress *)

\* Every step keeps it while no handler is lost between PAID and its last write.
LEMMA ProcessedInvStep ==
  ASSUME TypeOK, TypeOK', OrderInv, ProcessedInv, [Next]_vars,
         Unreliable \cap {"crash", "fulfil", "lock", "failed"} = {}
  PROVE  ProcessedInv'
<1> USE DEF ProcessedInv
<1> USE DEF TypeOK, order, provider, worker, At, Goto, Leave, Return, Respond, Start,
            Reliable, Fault, SetStatus, Credit, Log, FinalStatus, AmountMatches, RedeemAction,
            UseCode
<1> USE DEF OrderInv, BusyHasJob, OneCreator, OneFulfiller, PaidBeforeFulfillment, StepFitsKind,
            CreditedBeforeCompletion, NewIsUnknown, UnpaidIsUntouched, CodeIsCredit,
            SuccessIsCredited, CompletedIsCredited
<1> USE OrderAssumption DEF Orders, RefundStatuses, UnpaidStatuses, Settled, Steps, CreateSteps,
            QuerySteps, ConfirmSteps, FulfilSteps, PaidSteps, Fulfillable, Payable
<1>1. CASE UNCHANGED vars
  BY <1>1 DEF vars
<1>2. ASSUME NEW w \in Workers, Create(w) PROVE ProcessedInv'
  <2>1. ASSUME NEW o \in Orders, CreateOrder(w, o) PROVE ProcessedInv'
    BY <2>1 DEF CreateOrder
  <2>2. CASE InsertOrder(w)
    BY <2>2 DEF InsertOrder
  <2>3. CASE InvokeProvider(w)
    BY <2>3 DEF InvokeProvider
  <2>4. CASE SavePayURL(w)
    BY <2>4 DEF SavePayURL
  <2>5. CASE CreateFailed(w)
    BY <2>5 DEF CreateFailed
  <2> QED BY ONLY <1>2, <2>1, <2>2, <2>3, <2>4, <2>5 DEF Create
<1>3. ASSUME NEW w \in Workers, Lifecycle(w) PROVE ProcessedInv'
  <2>1. ASSUME NEW o \in Orders, CancelOrder(w, o) PROVE ProcessedInv'
    BY <2>1 DEF CancelOrder
  <2>2. ASSUME NEW o \in Orders, ExpireTimedOutOrder(w, o) PROVE ProcessedInv'
    BY <2>2 DEF ExpireTimedOutOrder
  <2>3. ASSUME NEW o \in Orders, VerifyOrder(w, o) PROVE ProcessedInv'
    BY <2>3 DEF VerifyOrder
  <2>4. CASE CheckPaid(w)
    BY <2>4 DEF CheckPaid
  <2>5. CASE ClosePayment(w)
    BY <2>5 DEF ClosePayment
  <2>6. CASE PersistTradeNo(w)
    BY <2>6 DEF PersistTradeNo
  <2>7. CASE CancelCore(w)
    BY <2>7 DEF CancelCore
  <2> QED BY ONLY <1>3, <2>1, <2>2, <2>3, <2>4, <2>5, <2>6, <2>7 DEF Lifecycle
<1>4. ASSUME NEW w \in Workers, Notification(w) PROVE ProcessedInv'
  <2>1. ASSUME NEW o \in Orders, Webhook(w, o) PROVE ProcessedInv'
    BY <2>1 DEF Webhook
  <2>2. ASSUME NEW o \in Orders, RetryFulfillment(w, o) PROVE ProcessedInv'
    BY <2>2 DEF RetryFulfillment
  <2>3. CASE ConfirmPayment(w)
    BY <2>3 DEF ConfirmPayment
  <2>4. CASE ToPaid(w)
    BY <2>4 DEF ToPaid
  <2>5. CASE AlreadyProcessed(w)
    BY <2>5 DEF AlreadyProcessed
  <2>6. CASE ResetForRetry(w)
    BY <2>6 DEF ResetForRetry
  <2> QED BY ONLY <1>4, <2>1, <2>2, <2>3, <2>4, <2>5, <2>6 DEF Notification
<1>5. ASSUME NEW w \in Workers, Fulfillment(w) PROVE ProcessedInv'
  <2>1. CASE ExecuteFulfillment(w)
    BY <2>1 DEF ExecuteFulfillment
  <2>2. CASE LockOrder(w)
    BY <2>2 DEF LockOrder
  <2>3. CASE LookupCode(w)
    BY <2>3 DEF LookupCode
  <2>4. CASE CreateCode(w)
    BY <2>4 DEF CreateCode
  <2>5. CASE RedeemCode(w)
    BY <2>5 DEF RedeemCode
  <2>6. CASE ApplyAffiliateRebate(w)
    BY <2>6 DEF ApplyAffiliateRebate
  <2>7. CASE CheckGranted(w)
    BY <2>7 DEF CheckGranted
  <2>8. CASE AssignSubscription(w)
    BY <2>8 DEF AssignSubscription
  <2>9. CASE MarkCompleted(w)
    BY <2>9 DEF MarkCompleted
  <2>10. CASE AuditSuccess(w)
    BY <2>10 DEF AuditSuccess
  <2>11. CASE MarkFailed(w)
    BY <2>11 DEF MarkFailed
  <2> QED BY ONLY <1>5, <2>1, <2>2, <2>3, <2>4, <2>5, <2>6, <2>7, <2>8, <2>9, <2>10, <2>11 DEF Fulfillment
<1>6. ASSUME NEW o \in Orders, UserPays(o) PROVE ProcessedInv'
  BY <1>6 DEF UserPays
<1>7. ASSUME NEW o \in Orders, GraceElapses(o) PROVE ProcessedInv'
  BY <1>7 DEF GraceElapses
<1>8. ASSUME NEW o \in Orders, Refund(o) PROVE ProcessedInv'
  BY <1>8 DEF Refund, RefundMoves, Refundable
<1>9. CASE Crash
  BY <1>9 DEF Crash
<1> QED BY ONLY [Next]_vars, <1>1, <1>2, <1>3, <1>4, <1>5, <1>6, <1>7, <1>8, <1>9 DEF Next, Step

\* An order that is PAID or RECHARGING is being processed, as the provider and an
\* administrator are told, if the process lives and neither the checks before the
\* lock nor the write of markFailed fail; any other failure may happen.
THEOREM PaidIsProcessedCorrect ==
  ASSUME Unreliable \cap {"crash", "fulfil", "lock", "failed"} = {}
  PROVE  Spec => []PaidIsProcessed
<1>1. Init => ProcessedInv
  BY DEF Init, ProcessedInv
<1>2. TypeOK /\ OrderInv /\ (TypeOK /\ OrderInv)' /\ ProcessedInv /\ [Next]_vars => ProcessedInv'
  BY ProcessedInvStep
<1>3. ProcessedInv => PaidIsProcessed
  BY DEF ProcessedInv, PaidIsProcessed, Processing
<1> QED BY <1>1, <1>2, <1>3, OrderInvCorrect, PTL DEF Spec

-----------------------------------------------------------------------------
(* The limit on pending orders *)

NoNewPending == Pending' \subseteq Pending /\ Inserting' \subseteq Inserting

\* Only createOrderInTx makes an order pending.
LEMMA NoNewPendingStep ==
  ASSUME TypeOK, OrderInv, [Next]_vars
  PROVE  \/ NoNewPending
         \/ \E w \in Workers : InsertOrder(w)
         \/ \E w \in Workers, o \in Orders : CreateOrder(w, o)
<1> USE DEF NoNewPending, Pending, Inserting
<1> USE DEF TypeOK, order, provider, worker, At, Goto, Leave, Return, Respond, Start,
            Reliable, Fault, SetStatus, Credit, Log, FinalStatus, AmountMatches, RedeemAction,
            UseCode
<1> USE DEF OrderInv, BusyHasJob, OneCreator, OneFulfiller, PaidBeforeFulfillment, StepFitsKind,
            CreditedBeforeCompletion, NewIsUnknown, UnpaidIsUntouched, CodeIsCredit,
            SuccessIsCredited, CompletedIsCredited
<1> USE OrderAssumption DEF Orders, RefundStatuses, UnpaidStatuses, Settled, Steps, CreateSteps,
            QuerySteps, ConfirmSteps, FulfilSteps, PaidSteps, Fulfillable, Payable
<1> SUFFICES ASSUME ~ \E w \in Workers : InsertOrder(w),
                    ~ \E w \in Workers, o \in Orders : CreateOrder(w, o)
             PROVE  NoNewPending
  OBVIOUS
<1>1. CASE UNCHANGED vars
  BY <1>1 DEF vars
<1>2. ASSUME NEW w \in Workers, Create(w) PROVE NoNewPending
  <2>1. ASSUME NEW o \in Orders, CreateOrder(w, o) PROVE NoNewPending
    BY <2>1
  <2>2. CASE InsertOrder(w)
    BY <2>2
  <2>3. CASE InvokeProvider(w)
    BY <2>3 DEF InvokeProvider
  <2>4. CASE SavePayURL(w)
    BY <2>4 DEF SavePayURL
  <2>5. CASE CreateFailed(w)
    BY <2>5 DEF CreateFailed
  <2> QED BY ONLY <1>2, <2>1, <2>2, <2>3, <2>4, <2>5 DEF Create
<1>3. ASSUME NEW w \in Workers, Lifecycle(w) PROVE NoNewPending
  <2>1. ASSUME NEW o \in Orders, CancelOrder(w, o) PROVE NoNewPending
    BY <2>1 DEF CancelOrder
  <2>2. ASSUME NEW o \in Orders, ExpireTimedOutOrder(w, o) PROVE NoNewPending
    BY <2>2 DEF ExpireTimedOutOrder
  <2>3. ASSUME NEW o \in Orders, VerifyOrder(w, o) PROVE NoNewPending
    BY <2>3 DEF VerifyOrder
  <2>4. CASE CheckPaid(w)
    BY <2>4 DEF CheckPaid
  <2>5. CASE ClosePayment(w)
    BY <2>5 DEF ClosePayment
  <2>6. CASE PersistTradeNo(w)
    BY <2>6 DEF PersistTradeNo
  <2>7. CASE CancelCore(w)
    BY <2>7 DEF CancelCore
  <2> QED BY ONLY <1>3, <2>1, <2>2, <2>3, <2>4, <2>5, <2>6, <2>7 DEF Lifecycle
<1>4. ASSUME NEW w \in Workers, Notification(w) PROVE NoNewPending
  <2>1. ASSUME NEW o \in Orders, Webhook(w, o) PROVE NoNewPending
    BY <2>1 DEF Webhook
  <2>2. ASSUME NEW o \in Orders, RetryFulfillment(w, o) PROVE NoNewPending
    BY <2>2 DEF RetryFulfillment
  <2>3. CASE ConfirmPayment(w)
    BY <2>3 DEF ConfirmPayment
  <2>4. CASE ToPaid(w)
    BY <2>4 DEF ToPaid
  <2>5. CASE AlreadyProcessed(w)
    BY <2>5 DEF AlreadyProcessed
  <2>6. CASE ResetForRetry(w)
    BY <2>6 DEF ResetForRetry
  <2> QED BY ONLY <1>4, <2>1, <2>2, <2>3, <2>4, <2>5, <2>6 DEF Notification
<1>5. ASSUME NEW w \in Workers, Fulfillment(w) PROVE NoNewPending
  <2>1. CASE ExecuteFulfillment(w)
    BY <2>1 DEF ExecuteFulfillment
  <2>2. CASE LockOrder(w)
    BY <2>2 DEF LockOrder
  <2>3. CASE LookupCode(w)
    BY <2>3 DEF LookupCode
  <2>4. CASE CreateCode(w)
    BY <2>4 DEF CreateCode
  <2>5. CASE RedeemCode(w)
    BY <2>5 DEF RedeemCode
  <2>6. CASE ApplyAffiliateRebate(w)
    BY <2>6 DEF ApplyAffiliateRebate
  <2>7. CASE CheckGranted(w)
    BY <2>7 DEF CheckGranted
  <2>8. CASE AssignSubscription(w)
    BY <2>8 DEF AssignSubscription
  <2>9. CASE MarkCompleted(w)
    BY <2>9 DEF MarkCompleted
  <2>10. CASE AuditSuccess(w)
    BY <2>10 DEF AuditSuccess
  <2>11. CASE MarkFailed(w)
    BY <2>11 DEF MarkFailed
  <2> QED BY ONLY <1>5, <2>1, <2>2, <2>3, <2>4, <2>5, <2>6, <2>7, <2>8, <2>9, <2>10, <2>11 DEF Fulfillment
<1>6. ASSUME NEW o \in Orders, UserPays(o) PROVE NoNewPending
  BY <1>6 DEF UserPays
<1>7. ASSUME NEW o \in Orders, GraceElapses(o) PROVE NoNewPending
  BY <1>7 DEF GraceElapses
<1>8. ASSUME NEW o \in Orders, Refund(o) PROVE NoNewPending
  BY <1>8 DEF Refund, RefundMoves, Refundable
<1>9. CASE Crash
  BY <1>9 DEF Crash
<1> QED BY ONLY [Next]_vars, <1>1, <1>2, <1>3, <1>4, <1>5, <1>6, <1>7, <1>8, <1>9 DEF Next, Step

\* A request that is about to insert an order was counted with the workers, an
\* order it inserts was counted with the request.
LEMMA PendingInvStep ==
  ASSUME TypeOK, OrderInv, PendingInv, [Next]_vars, IsFiniteSet(Workers)
  PROVE  PendingInv'
<1>1. /\ Inserting \subseteq Workers /\ Inserting' \subseteq Workers
      /\ IsFiniteSet(Inserting) /\ IsFiniteSet(Inserting')
  BY FS_Subset DEF Inserting
<1>2. /\ PendingCount \in Nat /\ Cardinality(Inserting) \in Nat
      /\ Cardinality(Inserting') \in Nat /\ Cardinality(Workers) \in Nat
  BY <1>1, FS_CardinalityType DEF PendingInv, PendingCount
<1>3. MaxPending \in Nat
  BY LimitAssumption
<1>4. CASE NoNewPending
  <2>1. /\ IsFiniteSet(Pending') /\ PendingCount' <= PendingCount
        /\ Cardinality(Inserting') <= Cardinality(Inserting)
    BY <1>1, <1>4, FS_Subset DEF NoNewPending, PendingInv, PendingCount
  <2>2. PendingCount' \in Nat
    BY <2>1, FS_CardinalityType DEF PendingCount
  <2> QED BY <1>2, <1>3, <2>1, <2>2 DEF PendingInv
<1>5. ASSUME NEW w \in Workers, NEW o \in Orders, CreateOrder(w, o) PROVE PendingInv'
  <2>1. Pending' = Pending /\ PendingCount < MaxPending
    BY <1>5 DEF CreateOrder, Pending, order
  <2>2. Cardinality(Inserting') <= Cardinality(Workers)
    BY <1>1, FS_Subset
  <2>3. PendingCount' = PendingCount
    BY <2>1 DEF PendingCount
  <2> QED BY <1>2, <1>3, <2>1, <2>2, <2>3 DEF PendingInv
<1>6. ASSUME NEW w \in Workers, InsertOrder(w) PROVE PendingInv'
  <2>1. w \in Inserting /\ Inserting' \subseteq Inserting \ {w}
    BY <1>6 DEF InsertOrder, At, Goto, Return, Leave, Inserting, TypeOK
  <2>2. Pending' \subseteq Pending \cup {job[w]}
    BY <1>6 DEF InsertOrder, SetStatus, Pending, TypeOK
  <2>3. Cardinality(Inserting') <= Cardinality(Inserting) - 1
    <3>1. IsFiniteSet(Inserting \ {w}) /\ Cardinality(Inserting \ {w}) = Cardinality(Inserting) - 1
      BY <1>1, <2>1, FS_RemoveElement
    <3> QED BY <2>1, <3>1, FS_Subset
  <2>4. IsFiniteSet(Pending') /\ PendingCount' <= PendingCount + 1
    <3>1. /\ IsFiniteSet(Pending \cup {job[w]})
          /\ Cardinality(Pending \cup {job[w]}) \in {PendingCount, PendingCount + 1}
      BY FS_AddElement DEF PendingInv, PendingCount
    <3>2. /\ IsFiniteSet(Pending')
          /\ PendingCount' <= Cardinality(Pending \cup {job[w]})
      BY <2>2, <3>1, FS_Subset DEF PendingCount
    <3>3. PendingCount' \in Nat
      BY <3>2, FS_CardinalityType DEF PendingCount
    <3> QED BY <1>2, <3>1, <3>2, <3>3
  <2>5. PendingCount' \in Nat
    BY <2>4, FS_CardinalityType DEF PendingCount
  <2> QED BY <1>2, <1>3, <2>3, <2>4, <2>5 DEF PendingInv
<1> QED BY <1>4, <1>5, <1>6, NoNewPendingStep

\* The limit on pending orders is missed by less than the requests that run at a
\* time, whatever the number of orders (checkPendingLimit counts before
\* createOrderInTx inserts); a single one keeps it.
THEOREM PendingNearLimitCorrect ==
  ASSUME IsFiniteSet(Workers), Workers # {}
  PROVE  Spec => []PendingNearLimit
<1>1. Init => PendingInv
  <2> SUFFICES ASSUME Init PROVE PendingInv
    OBVIOUS
  <2>1. Pending = {} /\ Inserting = {}
    BY DEF Init, Pending, Inserting
  <2>2. Cardinality(Workers) \in Nat /\ Cardinality(Workers) # 0
    BY FS_CardinalityType, FS_EmptySet
  <2> QED BY <2>1, <2>2, FS_EmptySet, LimitAssumption DEF PendingInv, PendingCount
<1>2. TypeOK /\ OrderInv /\ PendingInv /\ [Next]_vars => PendingInv'
  BY PendingInvStep
<1>3. PendingInv => PendingNearLimit
  <2> SUFFICES ASSUME PendingInv PROVE PendingNearLimit
    OBVIOUS
  <2>1. /\ PendingCount \in Nat /\ Cardinality(Workers) \in Nat
        /\ Cardinality(Inserting) \in Nat
    BY FS_CardinalityType, FS_Subset DEF PendingInv, PendingCount, Inserting
  <2> QED BY <2>1, LimitAssumption DEF PendingInv, PendingNearLimit
<1> QED BY <1>1, <1>2, <1>3, OrderInvCorrect, PTL DEF Spec
===========================================================================
