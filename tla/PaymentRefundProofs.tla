------------------------ MODULE PaymentRefundProofs ------------------------
(***************************************************************************)
(* Proofs about PaymentRefund, for every set of orders and workers, every  *)
(* amount and balance and every choice of the steps that may fail.         *)
(*                                                                         *)
(* RefundInv, the mutual exclusion of refunds, carries the rest: that the  *)
(* gateway paid before a refund is recorded (PaidBackInv) and that what is *)
(* held back is on record (HeldInv) both rest on an order that nobody else *)
(* touches while it is in refund.                                          *)
(***************************************************************************)
EXTENDS PaymentRefund, TLAPS

-----------------------------------------------------------------------------
(* Types and mutual exclusion *)

\* The orders are complete and nothing is running at first.
LEMMA RefundInit == Init => TypeOK /\ RefundInv /\ PaidBackInv /\ HeldInv
BY RefundAssumption DEF Init, TypeOK, RefundInv, PaidBackInv, HeldInv, OneRefund, TakenOnce,
   RefundedIsPaidBack, HeldIsOnRecord, Orders, Statuses, RefundStatuses, Terms, Steps,
   RefundSteps, Plans, NoPlan

\* Whether the purchase is already held changes only what the plan takes.
LEMMA CheckHeldPlan ==
  ASSUME TypeOK, NEW w \in Workers, CheckHeld(w)
  PROVE  /\ plan' \in [Workers -> Plans]
         /\ plan'[w].amount = plan[w].amount
         /\ plan'[w].take = plan[w].take \/ (AlreadyHeld(job[w]) /\ plan'[w].take = 0)
         /\ \A v \in Workers : v # w => plan'[v] = plan[v]
<1>1. CASE UNCHANGED plan
  BY <1>1 DEF TypeOK
<1>2. CASE AlreadyHeld(job[w]) /\ plan' = [plan EXCEPT ![w].take = 0]
  <2> DEFINE p == [plan[w] EXCEPT !.take = 0]
  <2>1. plan[w] \in Plans /\ plan \in [Workers -> Plans]
    BY DEF TypeOK
  <2>2. p \in Plans /\ p.take = 0 /\ p.amount = plan[w].amount
    BY <2>1, RefundAssumption DEF Plans
  <2>3. plan' = [plan EXCEPT ![w] = p]
    BY <1>2
  <2> HIDE DEF p
  <2> QED BY <1>2, <2>1, <2>2, <2>3
<1> QED BY <1>1, <1>2 DEF CheckHeld, Goto

\* Every step keeps the types.
LEMMA TypeStep ==
  ASSUME TypeOK, [Next]_vars
  PROVE  TypeOK'
<1> USE RefundAssumption DEF TypeOK, user, At, Start, Goto, Return, Reliable, Fault, SetStatus,
            Smaller, PaysBack, PayBack, AlreadyHeld, GatewayFailed, Recorded, Restored,
            Orders, Statuses, RefundStatuses, Refundable, Terms, Steps, RefundSteps, Plans, NoPlan
<1>1. CASE UNCHANGED vars
  BY <1>1 DEF vars
<1>2. ASSUME NEW w \in Workers, NEW o \in Orders, RequestRefund(w, o) PROVE TypeOK'
  BY <1>2 DEF RequestRefund
<1>3. ASSUME NEW w \in Workers, NEW o \in Orders, PrepareRefund(w, o) PROVE TypeOK'
  BY <1>3 DEF PrepareRefund
<1>4. ASSUME NEW w \in Workers, MarkRequested(w) PROVE TypeOK'
  BY <1>4 DEF MarkRequested
<1>5. ASSUME NEW w \in Workers, ExecuteRefund(w) PROVE TypeOK'
  <2>1. CASE LockOrder(w)
    <3>1. status' \in [Orders -> Statuses]
      BY <2>1 DEF LockOrder
    <3>2. CASE Return(w)
      BY <2>1, <3>1, <3>2 DEF LockOrder
    <3>3. CASE \E step \in {"held", "gateway"} : Goto(w, step)
      BY <2>1, <3>1, <3>3 DEF LockOrder
    <3> QED BY ONLY <2>1, <3>2, <3>3 DEF LockOrder
  <2>2. CASE CheckHeld(w)
    BY <2>2, CheckHeldPlan DEF CheckHeld
  <2>3. CASE DeductBalance(w)
    BY <2>3 DEF DeductBalance
  <2>4. CASE DeductSubscription(w)
    BY <2>4 DEF DeductSubscription
  <2>5. CASE RereadSubscription(w)
    BY <2>5 DEF RereadSubscription
  <2>6. CASE GatewayRefund(w)
    BY <2>6 DEF GatewayRefund
  <2>7. CASE MarkRefundOk(w)
    BY <2>7 DEF MarkRefundOk
  <2>8. CASE RollbackRefund(w)
    BY <2>8 DEF RollbackRefund
  <2>9. CASE LogRollbackFailed(w)
    <3>1. rolledBack' \in [Orders -> BOOLEAN]
      BY <2>9 DEF LogRollbackFailed
    <3> QED BY <2>9, <3>1 DEF LogRollbackFailed
  <2>10. CASE MarkRefundFailed(w)
    BY <2>10 DEF MarkRefundFailed
  <2>11. CASE RestoreStatus(w)
    BY <2>11 DEF RestoreStatus
  <2> QED BY ONLY <1>5, <2>1, <2>2, <2>3, <2>4, <2>5, <2>6, <2>7, <2>8, <2>9, <2>10, <2>11 DEF ExecuteRefund
<1>6. CASE Spend
  BY <1>6 DEF Spend
<1>7. ASSUME NEW o \in SubOrders, TimePasses(o) PROVE TypeOK'
  BY <1>7 DEF TimePasses
<1>8. CASE Crash
  BY <1>8 DEF Crash
<1> QED BY ONLY [Next]_vars, <1>1, <1>2, <1>3, <1>4, <1>5, <1>6, <1>7, <1>8 DEF Next, Step

\* Every step keeps the mutual exclusion.
LEMMA RefundInvStep ==
  ASSUME TypeOK, TypeOK', RefundInv, [Next]_vars
  PROVE  RefundInv'
<1> USE RefundAssumption DEF TypeOK, user, At, Start, Goto, Return, Reliable, Fault, SetStatus,
            Smaller, PaysBack, PayBack, AlreadyHeld, GatewayFailed, Recorded, Restored,
            Orders, Statuses, RefundStatuses, Refundable, Terms, Steps, RefundSteps, Plans, NoPlan
<1> USE DEF RefundInv, OneRefund
<1>1. CASE UNCHANGED vars
  BY <1>1 DEF vars
<1>2. ASSUME NEW w \in Workers, NEW o \in Orders, RequestRefund(w, o) PROVE RefundInv'
  BY <1>2 DEF RequestRefund
<1>3. ASSUME NEW w \in Workers, NEW o \in Orders, PrepareRefund(w, o) PROVE RefundInv'
  BY <1>3 DEF PrepareRefund
<1>4. ASSUME NEW w \in Workers, MarkRequested(w) PROVE RefundInv'
  BY <1>4 DEF MarkRequested
<1>5. ASSUME NEW w \in Workers, ExecuteRefund(w) PROVE RefundInv'
  <2>1. CASE LockOrder(w)
    <3>1. CASE Return(w) /\ UNCHANGED status
      BY <2>1, <3>1 DEF LockOrder
    <3>2. CASE /\ status[job[w]] \in Refundable /\ SetStatus(job[w], "REFUNDING")
               /\ Goto(w, IF plan[w].take > 0 THEN "held" ELSE "gateway")
      <4>1. \A v \in Workers : pc[v] \in RefundSteps => job[v] # job[w]
        BY <3>2
      <4> QED BY <2>1, <3>2, <4>1 DEF LockOrder
    <3> QED BY ONLY <2>1, <3>1, <3>2 DEF LockOrder
  <2>2. CASE CheckHeld(w)
    BY ONLY TypeOK, RefundInv, <2>2, CheckHeldPlan DEF TypeOK, CheckHeld, At, Goto, RefundInv, OneRefund, RefundSteps, Steps
  <2>3. CASE DeductBalance(w)
    BY <2>3 DEF DeductBalance
  <2>4. CASE DeductSubscription(w)
    BY <2>4 DEF DeductSubscription
  <2>5. CASE RereadSubscription(w)
    BY <2>5 DEF RereadSubscription
  <2>6. CASE GatewayRefund(w)
    BY <2>6 DEF GatewayRefund
  <2>7. CASE MarkRefundOk(w)
    BY <2>7 DEF MarkRefundOk
  <2>8. CASE RollbackRefund(w)
    BY <2>8 DEF RollbackRefund
  <2>9. CASE LogRollbackFailed(w)
    BY <2>9 DEF LogRollbackFailed
  <2>10. CASE MarkRefundFailed(w)
    BY <2>10 DEF MarkRefundFailed
  <2>11. CASE RestoreStatus(w)
    BY <2>11 DEF RestoreStatus
  <2> QED BY ONLY <1>5, <2>1, <2>2, <2>3, <2>4, <2>5, <2>6, <2>7, <2>8, <2>9, <2>10, <2>11 DEF ExecuteRefund
<1>6. CASE Spend
  BY <1>6 DEF Spend
<1>7. ASSUME NEW o \in SubOrders, TimePasses(o) PROVE RefundInv'
  BY <1>7 DEF TimePasses
<1>8. CASE Crash
  BY <1>8 DEF Crash
<1> QED BY ONLY [Next]_vars, <1>1, <1>2, <1>3, <1>4, <1>5, <1>6, <1>7, <1>8 DEF Next, Step

\* The orders, the user's balance and subscriptions and the plans keep their types.
THEOREM TypeCorrect == Spec => []TypeOK
<1> QED BY RefundInit, TypeStep, PTL DEF Spec

\* The two hold together, whatever fails.
LEMMA RefundInvCorrect == Spec => [](TypeOK /\ RefundInv)
<1>1. TypeOK /\ RefundInv /\ [Next]_vars => (TypeOK /\ RefundInv)'
  BY TypeStep, RefundInvStep
<1> QED BY RefundInit, <1>1, PTL DEF Spec

\* REFUNDING is a lock (the conditional update in ExecuteRefund): an order is in
\* one refund at a time, however many administrators press the button.
THEOREM OneRefundCorrect == Spec => []OneRefund
<1>1. TypeOK /\ RefundInv => OneRefund
  BY DEF RefundInv
<1> QED BY <1>1, RefundInvCorrect, PTL

-----------------------------------------------------------------------------
(* Moves *)

Moves == \A o \in Orders : status'[o] # status[o] => <<status[o], status'[o]>> \in RefundMoves

\* Every change of a status is one that PaymentOrder expects.
LEMMA MovesStep ==
  ASSUME TypeOK, RefundInv, [Next]_vars
  PROVE  Moves
<1> USE RefundAssumption DEF TypeOK, user, At, Start, Goto, Return, Reliable, Fault, SetStatus,
            Smaller, PaysBack, PayBack, AlreadyHeld, GatewayFailed, Recorded, Restored,
            Orders, Statuses, RefundStatuses, Refundable, Terms, Steps, RefundSteps, Plans, NoPlan
<1> USE DEF RefundInv, OneRefund, Moves, RefundMoves
<1>1. CASE UNCHANGED vars
  BY <1>1 DEF vars
<1>2. ASSUME NEW w \in Workers, NEW o \in Orders, RequestRefund(w, o) PROVE Moves
  BY <1>2 DEF RequestRefund
<1>3. ASSUME NEW w \in Workers, NEW o \in Orders, PrepareRefund(w, o) PROVE Moves
  BY <1>3 DEF PrepareRefund
<1>4. ASSUME NEW w \in Workers, MarkRequested(w) PROVE Moves
  BY <1>4 DEF MarkRequested
<1>5. ASSUME NEW w \in Workers, ExecuteRefund(w) PROVE Moves
  <2>1. CASE LockOrder(w)
    BY <2>1 DEF LockOrder
  <2>2. CASE CheckHeld(w)
    BY <2>2 DEF CheckHeld
  <2>3. CASE DeductBalance(w)
    BY <2>3 DEF DeductBalance
  <2>4. CASE DeductSubscription(w)
    BY <2>4 DEF DeductSubscription
  <2>5. CASE RereadSubscription(w)
    BY <2>5 DEF RereadSubscription
  <2>6. CASE GatewayRefund(w)
    BY <2>6 DEF GatewayRefund
  <2>7. CASE MarkRefundOk(w)
    BY <2>7 DEF MarkRefundOk
  <2>8. CASE RollbackRefund(w)
    BY <2>8 DEF RollbackRefund
  <2>9. CASE LogRollbackFailed(w)
    BY <2>9 DEF LogRollbackFailed
  <2>10. CASE MarkRefundFailed(w)
    BY <2>10 DEF MarkRefundFailed
  <2>11. CASE RestoreStatus(w)
    BY <2>11 DEF RestoreStatus
  <2> QED BY ONLY <1>5, <2>1, <2>2, <2>3, <2>4, <2>5, <2>6, <2>7, <2>8, <2>9, <2>10, <2>11 DEF ExecuteRefund
<1>6. CASE Spend
  BY <1>6 DEF Spend
<1>7. ASSUME NEW o \in SubOrders, TimePasses(o) PROVE Moves
  BY <1>7 DEF TimePasses
<1>8. CASE Crash
  BY <1>8 DEF Crash
<1> QED BY ONLY [Next]_vars, <1>1, <1>2, <1>3, <1>4, <1>5, <1>6, <1>7, <1>8 DEF Next, Step

\* What PaymentOrder assumes of refunds is what they do: a refund never takes
\* an order back to a status from which it could be fulfilled again.
THEOREM MovesAsAssumedCorrect == Spec => MovesAsAssumed
<1>1. TypeOK /\ RefundInv /\ [Next]_vars => [Moves]_vars
  BY MovesStep
<1> QED BY <1>1, RefundInvCorrect, PTL DEF Spec, MovesAsAssumed, Moves

-----------------------------------------------------------------------------
(* Paid back *)

\* A refund is recorded by the amount its plan says, which the gateway has paid.
LEMMA MarkRefundOkKeeps ==
  ASSUME TypeOK, RefundInv, PaidBackInv, NEW w \in Workers, MarkRefundOk(w)
  PROVE  PaidBackInv'
<1> PICK o \in Orders : o = job[w]
  BY DEF RefundInv, MarkRefundOk, At
<1> DEFINE recorded == Recorded(plan[w].amount)
<1>1. /\ plan[w].amount \in 1..Amount
      /\ refunded[o] \in plan[w].amount..Amount
  <2>1. plan[w].amount \in 0..Amount /\ refunded[o] \in 0..Amount
    BY DEF TypeOK, Plans
  <2>2. plan[w].amount > 0 /\ refunded[o] >= plan[w].amount
    BY DEF RefundInv, PaidBackInv, MarkRefundOk, At, RefundSteps
  <2> QED BY <2>1, <2>2, RefundAssumption
<1>2. /\ recorded = "REFUNDED" => refunded[o] = Amount
      /\ recorded = "PARTIALLY_REFUNDED" => refunded[o] > 0
  BY <1>1, RefundAssumption DEF Recorded
<1>3. status' = status \/ status' = [status EXCEPT ![o] = recorded]
  BY DEF MarkRefundOk, SetStatus
<1>4. UNCHANGED refunded
  BY DEF MarkRefundOk
<1>5. \A v \in Workers : pc'[v] = "markok" =>
         pc[v] = "markok" /\ job'[v] = job[v] /\ plan'[v] = plan[v]
  BY DEF MarkRefundOk, Return, TypeOK
<1>6. \A v \in Workers : pc'[v] = "markok" => refunded'[job'[v]] >= plan'[v].amount
  BY <1>4, <1>5 DEF PaidBackInv
<1>7. RefundedIsPaidBack'
  BY <1>2, <1>3, <1>4 DEF PaidBackInv, RefundedIsPaidBack, TypeOK, Recorded
<1> QED BY <1>6, <1>7 DEF PaidBackInv

\* Every step keeps it, for orders that have a trade number.
LEMMA PaidBackInvStep ==
  ASSUME TypeOK, TypeOK', RefundInv, PaidBackInv, [Next]_vars, NoTradeNo = {}
  PROVE  PaidBackInv'
<1> USE RefundAssumption DEF TypeOK, user, At, Start, Goto, Return, Reliable, Fault, SetStatus,
            Smaller, PaysBack, PayBack, AlreadyHeld, GatewayFailed, Recorded, Restored,
            Orders, Statuses, RefundStatuses, Refundable, Terms, Steps, RefundSteps, Plans, NoPlan
<1> USE DEF RefundInv, OneRefund, PaidBackInv, RefundedIsPaidBack
<1>1. CASE UNCHANGED vars
  BY <1>1 DEF vars
<1>2. ASSUME NEW w \in Workers, NEW o \in Orders, RequestRefund(w, o) PROVE PaidBackInv'
  BY <1>2 DEF RequestRefund
<1>3. ASSUME NEW w \in Workers, NEW o \in Orders, PrepareRefund(w, o) PROVE PaidBackInv'
  BY <1>3 DEF PrepareRefund
<1>4. ASSUME NEW w \in Workers, MarkRequested(w) PROVE PaidBackInv'
  BY <1>4 DEF MarkRequested
<1>5. ASSUME NEW w \in Workers, ExecuteRefund(w) PROVE PaidBackInv'
  <2>1. CASE LockOrder(w)
    BY <2>1 DEF LockOrder
  <2>2. CASE CheckHeld(w)
    BY <2>2 DEF CheckHeld
  <2>3. CASE DeductBalance(w)
    BY <2>3 DEF DeductBalance
  <2>4. CASE DeductSubscription(w)
    BY <2>4 DEF DeductSubscription
  <2>5. CASE RereadSubscription(w)
    BY <2>5 DEF RereadSubscription
  <2>6. CASE GatewayRefund(w)
    <3>1. \A o \in Orders : refunded'[o] >= refunded[o]
      <4>1. UNCHANGED refunded \/ PayBack(job[w], plan[w].amount)
        BY ONLY <2>6 DEF GatewayRefund
      <4>2. plan[w].amount \in Nat
        BY <2>6 DEF GatewayRefund
      <4> QED BY SMTT(30), <4>1, <4>2
    <3>2. pc'[w] = "markok" => refunded'[job[w]] >= plan[w].amount
      BY <2>6 DEF GatewayRefund
    <3>3. UNCHANGED <<status, job, plan>> /\ \A v \in Workers : v # w => pc'[v] = pc[v]
      BY <2>6 DEF GatewayRefund
    <3> QED BY <3>1, <3>2, <3>3
  <2>7. CASE MarkRefundOk(w)
    BY <2>7, MarkRefundOkKeeps
  <2>8. CASE RollbackRefund(w)
    BY <2>8 DEF RollbackRefund
  <2>9. CASE LogRollbackFailed(w)
    BY <2>9 DEF LogRollbackFailed
  <2>10. CASE MarkRefundFailed(w)
    BY <2>10 DEF MarkRefundFailed
  <2>11. CASE RestoreStatus(w)
    BY <2>11 DEF RestoreStatus
  <2> QED BY ONLY <1>5, <2>1, <2>2, <2>3, <2>4, <2>5, <2>6, <2>7, <2>8, <2>9, <2>10, <2>11 DEF ExecuteRefund
<1>6. CASE Spend
  BY <1>6 DEF Spend
<1>7. ASSUME NEW o \in SubOrders, TimePasses(o) PROVE PaidBackInv'
  BY <1>7 DEF TimePasses
<1>8. CASE Crash
  BY <1>8 DEF Crash
<1> QED BY ONLY [Next]_vars, <1>1, <1>2, <1>3, <1>4, <1>5, <1>6, <1>7, <1>8 DEF Next, Step

\* An order that is recorded as refunded was paid back by the gateway, as long as
\* every order has its trade number (gwRefund does nothing for one without).
THEOREM RefundedIsPaidBackCorrect ==
  ASSUME NoTradeNo = {}
  PROVE  Spec => []RefundedIsPaidBack
<1>1. TypeOK /\ RefundInv /\ (TypeOK /\ RefundInv)' /\ PaidBackInv /\ [Next]_vars => PaidBackInv'
  BY PaidBackInvStep
<1>2. PaidBackInv => RefundedIsPaidBack
  BY DEF PaidBackInv
<1> QED BY RefundInit, RefundInvCorrect, <1>1, <1>2, PTL DEF Spec

-----------------------------------------------------------------------------
(* Held back *)

\* Every step keeps it while the audit log can be written and read and a deduction
\* that was made is not reported as failed.
LEMMA HeldInvStep ==
  ASSUME TypeOK, TypeOK', RefundInv, HeldInv, [Next]_vars, Unreliable \cap {"logfailed", "held", "reread"} = {}
  PROVE  HeldInv'
<1> USE RefundAssumption DEF TypeOK, user, At, Start, Goto, Return, Reliable, Fault, SetStatus,
            Smaller, PaysBack, PayBack, AlreadyHeld, GatewayFailed, Recorded, Restored,
            Orders, Statuses, RefundStatuses, Refundable, Terms, Steps, RefundSteps, Plans, NoPlan
<1> USE DEF RefundInv, OneRefund, HeldInv, TakenOnce, HeldIsOnRecord
<1>1. CASE UNCHANGED vars
  BY <1>1 DEF vars
<1>2. ASSUME NEW w \in Workers, NEW o \in Orders, RequestRefund(w, o) PROVE HeldInv'
  BY <1>2 DEF RequestRefund
<1>3. ASSUME NEW w \in Workers, NEW o \in Orders, PrepareRefund(w, o) PROVE HeldInv'
  BY <1>3 DEF PrepareRefund
<1>4. ASSUME NEW w \in Workers, MarkRequested(w) PROVE HeldInv'
  BY <1>4 DEF MarkRequested
<1>5. ASSUME NEW w \in Workers, ExecuteRefund(w) PROVE HeldInv'
  <2>1. CASE LockOrder(w)
    <3>1. CASE Return(w) /\ UNCHANGED status
      BY <2>1, <3>1 DEF LockOrder
    <3>2. CASE /\ status[job[w]] \in Refundable /\ SetStatus(job[w], "REFUNDING")
               /\ Goto(w, IF plan[w].take > 0 THEN "held" ELSE "gateway")
      <4>1. \A v \in Workers : pc[v] \in RefundSteps => job[v] # job[w]
        BY <3>2
      <4> QED BY <2>1, <3>2, <4>1 DEF LockOrder
    <3> QED BY ONLY <2>1, <3>1, <3>2 DEF LockOrder
  <2>2. CASE CheckHeld(w)
    BY <2>2, CheckHeldPlan DEF CheckHeld
  <2>3. CASE DeductBalance(w)
    <3>1. CASE Goto(w, "restore") /\ UNCHANGED taken
      BY <2>3, <3>1 DEF DeductBalance
    <3>2. CASE (Goto(w, "gateway") \/ Goto(w, "reread")) /\ taken' = [taken EXCEPT ![job[w]] = @ + plan[w].take]
      <4>1. /\ taken[job[w]] = 0 /\ taken'[job[w]] = plan[w].take
            /\ rolledBack[job[w]] /\ status[job[w]] = "REFUNDING"
        BY <2>3, <3>2 DEF DeductBalance
      <4> QED BY <2>3, <3>2, <4>1 DEF DeductBalance
    <3> QED BY <2>3, <3>1, <3>2 DEF DeductBalance
  <2>4. CASE DeductSubscription(w)
    <3>1. CASE Goto(w, "restore") /\ UNCHANGED taken
      BY <2>4, <3>1 DEF DeductSubscription
    <3>2. CASE (Goto(w, "gateway") \/ Goto(w, "reread")) /\ taken' = [taken EXCEPT ![job[w]] = @ + plan[w].take]
      <4>1. /\ taken[job[w]] = 0 /\ taken'[job[w]] = plan[w].take
            /\ rolledBack[job[w]] /\ status[job[w]] = "REFUNDING"
        BY <2>4, <3>2 DEF DeductSubscription
      <4> QED BY <2>4, <3>2, <4>1 DEF DeductSubscription
    <3> QED BY <2>4, <3>1, <3>2 DEF DeductSubscription
  <2>5. CASE RereadSubscription(w)
    BY <2>5 DEF RereadSubscription
  <2>6. CASE GatewayRefund(w)
    BY <2>6 DEF GatewayRefund
  <2>7. CASE MarkRefundOk(w)
    BY <2>7 DEF MarkRefundOk
  <2>8. CASE RollbackRefund(w)
    <3>1. UNCHANGED <<status, rolledBack, job, plan>>
      BY <2>8 DEF RollbackRefund
    <3>2. /\ pc' = [pc EXCEPT ![w] = pc'[w]]
          /\ pc'[w] \in {"restore", "logfailed"}
      BY <2>8 DEF RollbackRefund
    <3>3. \E t \in {taken[job[w]], taken[job[w]] - plan[w].take} :
             /\ taken' = [taken EXCEPT ![job[w]] = t]
             /\ pc'[w] = "restore" => t = taken[job[w]] - plan[w].take
      BY <2>8 DEF RollbackRefund
    <3>4. pc[w] = "rollback" /\ plan[w].take \in 0..Amount /\ taken[job[w]] \in 0..Amount
      BY <2>8 DEF RollbackRefund
    <3> QED BY ONLY RefundAssumption, TypeOK, RefundInv, HeldInv, <3>1, <3>2, <3>3, <3>4
      DEF TypeOK, RefundInv, HeldInv, OneRefund, TakenOnce, HeldIsOnRecord, RefundSteps, Steps
  <2>9. CASE LogRollbackFailed(w)
    BY <2>9 DEF LogRollbackFailed
  <2>10. CASE MarkRefundFailed(w)
    BY <2>10 DEF MarkRefundFailed
  <2>11. CASE RestoreStatus(w)
    BY <2>11 DEF RestoreStatus
  <2> QED BY ONLY <1>5, <2>1, <2>2, <2>3, <2>4, <2>5, <2>6, <2>7, <2>8, <2>9, <2>10, <2>11 DEF ExecuteRefund
<1>6. CASE Spend
  BY <1>6 DEF Spend
<1>7. ASSUME NEW o \in SubOrders, TimePasses(o) PROVE HeldInv'
  BY <1>7 DEF TimePasses
<1>8. CASE Crash
  BY <1>8 DEF Crash
<1> QED BY ONLY [Next]_vars, <1>1, <1>2, <1>3, <1>4, <1>5, <1>6, <1>7, <1>8 DEF Next, Step

\* And so it always holds.
LEMMA HeldInvCorrect ==
  ASSUME Unreliable \cap {"logfailed", "held", "reread"} = {}
  PROVE  Spec => []HeldInv
<1>1. TypeOK /\ RefundInv /\ (TypeOK /\ RefundInv)' /\ HeldInv /\ [Next]_vars => HeldInv'
  BY HeldInvStep
<1> QED BY RefundInit, RefundInvCorrect, <1>1, PTL DEF Spec

\* While the audit row REFUND_ROLLBACK_FAILED can be written and read, retries never take
\* the purchase twice (the skip in ExecuteRefund).
THEOREM TakenOnceCorrect ==
  ASSUME Unreliable \cap {"logfailed", "held", "reread"} = {}
  PROVE  Spec => []TakenOnce
<1>1. HeldInv => TakenOnce
  BY DEF HeldInv
<1> QED BY <1>1, HeldInvCorrect, PTL

\* And what a failed refund still holds back can be found in the audit log.
THEOREM HeldIsOnRecordCorrect ==
  ASSUME Unreliable \cap {"logfailed", "held", "reread"} = {}
  PROVE  Spec => []HeldIsOnRecord
<1>1. HeldInv => HeldIsOnRecord
  BY DEF HeldInv
<1> QED BY <1>1, HeldInvCorrect, PTL

-----------------------------------------------------------------------------
(* Paid back, once *)

\* Every step keeps it when the answer of the gateway can be relied on.
LEMMA RepaidInvStep ==
  ASSUME TypeOK, TypeOK', RefundInv, RepaidInv, [Next]_vars,
         PendingIsError = {}, "timeout" \notin Unreliable
  PROVE  RepaidInv'
<1> USE DEF RepaidInv
<1> USE RefundAssumption DEF TypeOK, user, At, Start, Goto, Return, Reliable, Fault, SetStatus,
            Smaller, PaysBack, PayBack, AlreadyHeld, GatewayFailed, Recorded, Restored,
            Orders, Statuses, RefundStatuses, Refundable, Terms, Steps, RefundSteps, Plans, NoPlan
<1> USE DEF RefundInv, OneRefund
<1>1. CASE UNCHANGED vars
  BY <1>1 DEF vars
<1>2. ASSUME NEW w \in Workers, NEW o \in Orders, RequestRefund(w, o) PROVE RepaidInv'
  BY <1>2 DEF RequestRefund
<1>3. ASSUME NEW w \in Workers, NEW o \in Orders, PrepareRefund(w, o) PROVE RepaidInv'
  BY <1>3 DEF PrepareRefund
<1>4. ASSUME NEW w \in Workers, MarkRequested(w) PROVE RepaidInv'
  BY <1>4 DEF MarkRequested
<1>5. ASSUME NEW w \in Workers, ExecuteRefund(w) PROVE RepaidInv'
  <2>1. CASE LockOrder(w)
    BY <2>1 DEF LockOrder
  <2>2. CASE CheckHeld(w)
    BY <2>2 DEF CheckHeld
  <2>3. CASE DeductBalance(w)
    BY <2>3 DEF DeductBalance
  <2>4. CASE DeductSubscription(w)
    BY <2>4 DEF DeductSubscription
  <2>5. CASE RereadSubscription(w)
    BY <2>5 DEF RereadSubscription
  <2>6. CASE GatewayRefund(w)
    <3>1. UNCHANGED <<status, job>> /\ \A v \in Workers : v # w => pc'[v] = pc[v]
      BY <2>6 DEF GatewayRefund
    <3>2. pc'[w] \in {"markok", "rollback"} /\ status[job[w]] = "REFUNDING"
      BY <2>6 DEF GatewayRefund
    <3>3. /\ \A o \in Orders : o # job[w] => refunded'[o] = refunded[o]
          /\ pc'[w] = "rollback" => refunded'[job[w]] = 0
      BY <2>6 DEF GatewayRefund
    <3> QED BY <2>6, <3>1, <3>2, <3>3 DEF GatewayRefund
  <2>7. CASE MarkRefundOk(w)
    BY <2>7 DEF MarkRefundOk
  <2>8. CASE RollbackRefund(w)
    BY <2>8 DEF RollbackRefund
  <2>9. CASE LogRollbackFailed(w)
    BY <2>9 DEF LogRollbackFailed
  <2>10. CASE MarkRefundFailed(w)
    BY <2>10 DEF MarkRefundFailed
  <2>11. CASE RestoreStatus(w)
    <3>1. pc[w] = "restore" /\ refunded[job[w]] = 0
      BY <2>11 DEF RestoreStatus
    <3>2. \A o \in Orders : o # job[w] => status'[o] = status[o]
      BY <2>11 DEF RestoreStatus
    <3>3. UNCHANGED refunded /\ Return(w)
      BY <2>11 DEF RestoreStatus
    <3> QED BY <3>1, <3>2, <3>3
  <2> QED BY ONLY <1>5, <2>1, <2>2, <2>3, <2>4, <2>5, <2>6, <2>7, <2>8, <2>9, <2>10, <2>11 DEF ExecuteRefund
<1>6. CASE Spend
  BY <1>6 DEF Spend
<1>7. ASSUME NEW o \in SubOrders, TimePasses(o) PROVE RepaidInv'
  BY <1>7 DEF TimePasses
<1>8. CASE Crash
  BY <1>8 DEF Crash
<1> QED BY ONLY [Next]_vars, <1>1, <1>2, <1>3, <1>4, <1>5, <1>6, <1>7, <1>8 DEF Next, Step

\* And so it always holds.
LEMMA RepaidInvCorrect ==
  ASSUME PendingIsError = {}, "timeout" \notin Unreliable
  PROVE  Spec => []RepaidInv
<1>1. Init => RepaidInv
  BY RefundAssumption DEF Init, RepaidInv, RefundSteps
<1>2. TypeOK /\ RefundInv /\ (TypeOK /\ RefundInv)' /\ RepaidInv /\ [Next]_vars => RepaidInv'
  BY RepaidInvStep
<1> QED BY <1>1, <1>2, RefundInvCorrect, PTL DEF Spec

\* Once the gateway has paid an order back it is not open for a refund any more,
\* wherever handlers fail or stop, if the gateway reports no refund it has accepted
\* as an error and none of its answers is lost.
THEOREM PaidBackIsRefundedCorrect ==
  ASSUME PendingIsError = {}, "timeout" \notin Unreliable
  PROVE  Spec => []PaidBackIsRefunded
<1>1. RepaidInv => PaidBackIsRefunded
  BY DEF RepaidInv, PaidBackIsRefunded, Refundable
<1> QED BY <1>1, RepaidInvCorrect, PTL

OncePaidBack == \A o \in Orders : refunded'[o] # refunded[o] => refunded[o] = 0

\* Only gwRefund makes the gateway pay, and its order was not paid back before.
LEMMA OncePaidBackStep ==
  ASSUME TypeOK, RefundInv, RepaidInv, [Next]_vars
  PROVE  OncePaidBack
<1> USE DEF RepaidInv, OncePaidBack
<1> USE RefundAssumption DEF TypeOK, user, At, Start, Goto, Return, Reliable, Fault, SetStatus,
            Smaller, PaysBack, PayBack, AlreadyHeld, GatewayFailed, Recorded, Restored,
            Orders, Statuses, RefundStatuses, Refundable, Terms, Steps, RefundSteps, Plans, NoPlan
<1> USE DEF RefundInv, OneRefund
<1>1. CASE UNCHANGED vars
  BY <1>1 DEF vars
<1>2. ASSUME NEW w \in Workers, NEW o \in Orders, RequestRefund(w, o) PROVE OncePaidBack
  BY <1>2 DEF RequestRefund
<1>3. ASSUME NEW w \in Workers, NEW o \in Orders, PrepareRefund(w, o) PROVE OncePaidBack
  BY <1>3 DEF PrepareRefund
<1>4. ASSUME NEW w \in Workers, MarkRequested(w) PROVE OncePaidBack
  BY <1>4 DEF MarkRequested
<1>5. ASSUME NEW w \in Workers, ExecuteRefund(w) PROVE OncePaidBack
  <2>1. CASE LockOrder(w)
    BY <2>1 DEF LockOrder
  <2>2. CASE CheckHeld(w)
    BY <2>2 DEF CheckHeld
  <2>3. CASE DeductBalance(w)
    BY <2>3 DEF DeductBalance
  <2>4. CASE DeductSubscription(w)
    BY <2>4 DEF DeductSubscription
  <2>5. CASE RereadSubscription(w)
    BY <2>5 DEF RereadSubscription
  <2>6. CASE GatewayRefund(w)
    BY <2>6 DEF GatewayRefund
  <2>7. CASE MarkRefundOk(w)
    BY <2>7 DEF MarkRefundOk
  <2>8. CASE RollbackRefund(w)
    BY <2>8 DEF RollbackRefund
  <2>9. CASE LogRollbackFailed(w)
    BY <2>9 DEF LogRollbackFailed
  <2>10. CASE MarkRefundFailed(w)
    BY <2>10 DEF MarkRefundFailed
  <2>11. CASE RestoreStatus(w)
    BY <2>11 DEF RestoreStatus
  <2> QED BY ONLY <1>5, <2>1, <2>2, <2>3, <2>4, <2>5, <2>6, <2>7, <2>8, <2>9, <2>10, <2>11 DEF ExecuteRefund
<1>6. CASE Spend
  BY <1>6 DEF Spend
<1>7. ASSUME NEW o \in SubOrders, TimePasses(o) PROVE OncePaidBack
  BY <1>7 DEF TimePasses
<1>8. CASE Crash
  BY <1>8 DEF Crash
<1> QED BY ONLY [Next]_vars, <1>1, <1>2, <1>3, <1>4, <1>5, <1>6, <1>7, <1>8 DEF Next, Step

\* An order is paid back at most once, by whatever number of requests and retries.
THEOREM PaidBackOnceCorrect ==
  ASSUME PendingIsError = {}, "timeout" \notin Unreliable
  PROVE  Spec => PaidBackOnce
<1>1. TypeOK /\ RefundInv /\ RepaidInv /\ [Next]_vars => [OncePaidBack]_vars
  BY OncePaidBackStep
<1> QED BY <1>1, RefundInvCorrect, RepaidInvCorrect, PTL DEF Spec, PaidBackOnce, OncePaidBack

-----------------------------------------------------------------------------
(* Refunds in progress *)

\* Every step keeps it while the process lives and the last write of a refund works.
LEMMA RefundingStep ==
  ASSUME TypeOK, TypeOK', RefundInv, RefundingIsInRefund, [Next]_vars,
         Unreliable \cap {"crash", "markok", "markfailed", "restore"} = {}
  PROVE  RefundingIsInRefund'
<1> USE DEF RefundingIsInRefund, InRefund
<1> USE RefundAssumption DEF TypeOK, user, At, Start, Goto, Return, Reliable, Fault, SetStatus,
            Smaller, PaysBack, PayBack, AlreadyHeld, GatewayFailed, Recorded, Restored,
            Orders, Statuses, RefundStatuses, Refundable, Terms, Steps, RefundSteps, Plans, NoPlan
<1> USE DEF RefundInv, OneRefund
<1>1. CASE UNCHANGED vars
  BY <1>1 DEF vars
<1>2. ASSUME NEW w \in Workers, NEW o \in Orders, RequestRefund(w, o) PROVE RefundingIsInRefund'
  BY <1>2 DEF RequestRefund
<1>3. ASSUME NEW w \in Workers, NEW o \in Orders, PrepareRefund(w, o) PROVE RefundingIsInRefund'
  BY <1>3 DEF PrepareRefund
<1>4. ASSUME NEW w \in Workers, MarkRequested(w) PROVE RefundingIsInRefund'
  BY <1>4 DEF MarkRequested
<1>5. ASSUME NEW w \in Workers, ExecuteRefund(w) PROVE RefundingIsInRefund'
  <2>1. CASE LockOrder(w)
    BY <2>1 DEF LockOrder
  <2>2. CASE CheckHeld(w)
    BY <2>2 DEF CheckHeld
  <2>3. CASE DeductBalance(w)
    BY <2>3 DEF DeductBalance
  <2>4. CASE DeductSubscription(w)
    BY <2>4 DEF DeductSubscription
  <2>5. CASE RereadSubscription(w)
    BY <2>5 DEF RereadSubscription
  <2>6. CASE GatewayRefund(w)
    BY <2>6 DEF GatewayRefund
  <2>7. CASE MarkRefundOk(w)
    <3>1. status' = [status EXCEPT ![job[w]] = Recorded(plan[w].amount)] /\ Return(w)
      BY <2>7 DEF MarkRefundOk
    <3>2. job[w] \in Orders /\ status'[job[w]] # "REFUNDING"
      BY <2>7, <3>1 DEF MarkRefundOk
    <3>3. ASSUME NEW o \in Orders, status'[o] = "REFUNDING" PROVE InRefund(o)'
      <4>1. o # job[w] /\ status[o] = "REFUNDING"
        BY ONLY <3>1, <3>2, <3>3, TypeOK DEF TypeOK
      <4>2. PICK v \in Workers : job[v] = o /\ pc[v] \in RefundSteps
        BY ONLY <4>1, RefundingIsInRefund DEF RefundingIsInRefund, InRefund
      <4>3. job'[v] = o /\ pc'[v] = pc[v]
        BY ONLY <4>1, <4>2, <3>1, TypeOK DEF TypeOK, Return
      <4> QED BY ONLY <4>2, <4>3 DEF InRefund
    <3> QED BY ONLY <3>3 DEF RefundingIsInRefund
  <2>8. CASE RollbackRefund(w)
    BY <2>8 DEF RollbackRefund
  <2>9. CASE LogRollbackFailed(w)
    BY <2>9 DEF LogRollbackFailed
  <2>10. CASE MarkRefundFailed(w)
    BY <2>10 DEF MarkRefundFailed
  <2>11. CASE RestoreStatus(w)
    <3>1. status' = [status EXCEPT ![job[w]] = Restored(plan[w].seen)] /\ Return(w)
      BY <2>11 DEF RestoreStatus
    <3>2. job[w] \in Orders /\ status'[job[w]] # "REFUNDING"
      BY <2>11, <3>1 DEF RestoreStatus
    <3>3. ASSUME NEW o \in Orders, status'[o] = "REFUNDING" PROVE InRefund(o)'
      <4>1. o # job[w] /\ status[o] = "REFUNDING"
        BY ONLY <3>1, <3>2, <3>3, TypeOK DEF TypeOK
      <4>2. PICK v \in Workers : job[v] = o /\ pc[v] \in RefundSteps
        BY ONLY <4>1, RefundingIsInRefund DEF RefundingIsInRefund, InRefund
      <4>3. job'[v] = o /\ pc'[v] = pc[v]
        BY ONLY <4>1, <4>2, <3>1, TypeOK DEF TypeOK, Return
      <4> QED BY ONLY <4>2, <4>3 DEF InRefund
    <3> QED BY ONLY <3>3 DEF RefundingIsInRefund
  <2> QED BY ONLY <1>5, <2>1, <2>2, <2>3, <2>4, <2>5, <2>6, <2>7, <2>8, <2>9, <2>10, <2>11 DEF ExecuteRefund
<1>6. CASE Spend
  BY <1>6 DEF Spend
<1>7. ASSUME NEW o \in SubOrders, TimePasses(o) PROVE RefundingIsInRefund'
  BY <1>7 DEF TimePasses
<1>8. CASE Crash
  BY <1>8 DEF Crash
<1> QED BY ONLY [Next]_vars, <1>1, <1>2, <1>3, <1>4, <1>5, <1>6, <1>7, <1>8 DEF Next, Step

\* REFUNDING has an owner as long as the process lives and the writes that end a
\* refund work: there is then always a handler whose next steps end it.
THEOREM RefundingIsInRefundCorrect ==
  ASSUME Unreliable \cap {"crash", "markok", "markfailed", "restore"} = {}
  PROVE  Spec => []RefundingIsInRefund
<1>1. Init => RefundingIsInRefund
  BY DEF Init, RefundingIsInRefund
<1>2. TypeOK /\ RefundInv /\ (TypeOK /\ RefundInv)' /\ RefundingIsInRefund /\ [Next]_vars
        => RefundingIsInRefund'
  BY RefundingStep
<1> QED BY <1>1, <1>2, RefundInvCorrect, PTL DEF Spec

-----------------------------------------------------------------------------
(* Given back *)

\* Every step keeps it while UpdateBalance works.
LEMMA GivenBackInvStep ==
  ASSUME TypeOK, TypeOK', RefundInv, GivenBackInv, [Next]_vars,
         "rollback" \notin Unreliable
  PROVE  GivenBackInv'
<1> USE DEF GivenBackInv, BalancesGivenBack, PlansToGiveBack
<1> USE RefundAssumption DEF TypeOK, user, At, Start, Goto, Return, Reliable, Fault, SetStatus,
            Smaller, PaysBack, PayBack, AlreadyHeld, GatewayFailed, Recorded, Restored,
            Orders, Statuses, RefundStatuses, Refundable, Terms, Steps, RefundSteps, Plans, NoPlan
<1> USE DEF RefundInv, OneRefund
<1>1. CASE UNCHANGED vars
  BY <1>1 DEF vars
<1>2. ASSUME NEW w \in Workers, NEW o \in Orders, RequestRefund(w, o) PROVE GivenBackInv'
  BY <1>2 DEF RequestRefund
<1>3. ASSUME NEW w \in Workers, NEW o \in Orders, PrepareRefund(w, o) PROVE GivenBackInv'
  BY <1>3 DEF PrepareRefund
<1>4. ASSUME NEW w \in Workers, MarkRequested(w) PROVE GivenBackInv'
  BY <1>4 DEF MarkRequested
<1>5. ASSUME NEW w \in Workers, ExecuteRefund(w) PROVE GivenBackInv'
  <2>1. CASE LockOrder(w)
    BY <2>1 DEF LockOrder
  <2>2. CASE CheckHeld(w)
    BY <2>2 DEF CheckHeld
  <2>3. CASE DeductBalance(w)
    BY <2>3 DEF DeductBalance
  <2>4. CASE DeductSubscription(w)
    BY <2>4 DEF DeductSubscription
  <2>5. CASE RereadSubscription(w)
    BY <2>5 DEF RereadSubscription
  <2>6. CASE GatewayRefund(w)
    BY <2>6 DEF GatewayRefund
  <2>7. CASE MarkRefundOk(w)
    <3>1. \A o \in Orders : status'[o] = status[o] \/ status'[o] \notin Refundable
      BY <2>7 DEF MarkRefundOk
    <3>2. UNCHANGED <<rolledBack, taken>> /\ Return(w)
      BY <2>7 DEF MarkRefundOk
    <3>3. BalancesGivenBack'
      BY ONLY GivenBackInv, <3>1, <3>2 DEF GivenBackInv, BalancesGivenBack, Orders
    <3>4. PlansToGiveBack'
      BY ONLY TypeOK, GivenBackInv, <3>2, RefundAssumption
         DEF TypeOK, Return, GivenBackInv, PlansToGiveBack, RefundSteps, Steps, Orders
    <3> QED BY ONLY <3>3, <3>4 DEF GivenBackInv
  <2>8. CASE RollbackRefund(w)
    BY <2>8 DEF RollbackRefund
  <2>9. CASE LogRollbackFailed(w)
    BY <2>9 DEF LogRollbackFailed
  <2>10. CASE MarkRefundFailed(w)
    BY <2>10 DEF MarkRefundFailed
  <2>11. CASE RestoreStatus(w)
    <3>1. pc[w] = "restore" /\ (job[w] \in BalanceOrders => taken[job[w]] = 0)
      BY <2>11 DEF RestoreStatus
    <3>2. \A o \in Orders : o # job[w] => status'[o] = status[o]
      BY <2>11 DEF RestoreStatus
    <3>3. UNCHANGED <<rolledBack, taken>> /\ Return(w)
      BY <2>11 DEF RestoreStatus
    <3>4. BalancesGivenBack'
      BY ONLY GivenBackInv, <3>1, <3>2, <3>3 DEF GivenBackInv, BalancesGivenBack, Orders
    <3>5. PlansToGiveBack'
      BY ONLY TypeOK, GivenBackInv, <3>3, RefundAssumption
         DEF TypeOK, Return, GivenBackInv, PlansToGiveBack, RefundSteps, Steps, Orders
    <3> QED BY ONLY <3>4, <3>5 DEF GivenBackInv
  <2> QED BY ONLY <1>5, <2>1, <2>2, <2>3, <2>4, <2>5, <2>6, <2>7, <2>8, <2>9, <2>10, <2>11 DEF ExecuteRefund
<1>6. CASE Spend
  BY <1>6 DEF Spend
<1>7. ASSUME NEW o \in SubOrders, TimePasses(o) PROVE GivenBackInv'
  BY <1>7 DEF TimePasses
<1>8. CASE Crash
  BY <1>8 DEF Crash
<1> QED BY ONLY [Next]_vars, <1>1, <1>2, <1>3, <1>4, <1>5, <1>6, <1>7, <1>8 DEF Next, Step

\* A balance that was deducted for a refund is given back with the status of the
\* order, whatever else fails or stops: that of a retry is only lost after the
\* rollback of an earlier attempt has failed.
THEOREM BalanceIsGivenBackCorrect ==
  ASSUME "rollback" \notin Unreliable
  PROVE  Spec => []BalanceIsGivenBack
<1>1. Init => GivenBackInv
  BY RefundAssumption DEF Init, GivenBackInv, BalancesGivenBack, PlansToGiveBack, Orders
<1>2. TypeOK /\ RefundInv /\ (TypeOK /\ RefundInv)' /\ GivenBackInv /\ [Next]_vars => GivenBackInv'
  BY GivenBackInvStep
<1>3. GivenBackInv => BalanceIsGivenBack
  BY DEF GivenBackInv, BalancesGivenBack, BalanceIsGivenBack, Refundable
<1> QED BY <1>1, <1>2, <1>3, RefundInvCorrect, PTL DEF Spec
============================================================================
