-------------------------- MODULE MCPaymentRefund --------------------------
(***************************************************************************)
(* Instances of PaymentRefund for TLC.                                     *)
(***************************************************************************)
EXTENDS PaymentRefund, TLC

WorkerSymmetry == Permutations(Workers)

EveryStep == Steps \cup {"crash"}

\* "timeout": the gateway carries a refund out and the call still fails
WithTimeout == EveryStep \cup {"timeout"}

\* without the failures after which nothing says what a refund holds: to write
\* or to read the audit row, and to read the subscription back
StepsOnRecord == WithTimeout \ {"logfailed", "held", "reread"}

\* those that do not end in a write to the status
RepairableSteps == {"request", "execute", "held", "deduct", "reread", "gateway",
                    "rollback", "logfailed"}

\* and a balance that can always be given back
BalanceSteps == RepairableSteps \ {"rollback"}
=============================================================================
