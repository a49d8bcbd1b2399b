-------------------------- MODULE MCPaymentOrder --------------------------
(***************************************************************************)
(* Instances of PaymentOrder for TLC.                                      *)
(***************************************************************************)
EXTENDS PaymentOrder, TLC

\* workers are interchangeable: each runs any handler
WorkerSymmetry == Permutations(Workers)

EveryStep == Steps \cup {"crash"}

\* all but those that credit a subscription or record that it was credited
StepsButCredit == EveryStep \ {"assign", "complete"}

\* all but the two reads whose failure is answered as success
StepsButReads == EveryStep \ {"confirm", "already"}

\* the steps whose failure the service repairs by itself: not the reads above,
\* not those between PAID and RECHARGING, not the write of markFailed
RepairableSteps == {"query", "cas", "topaid", "lookup", "mkcode", "redeem",
                    "rebate", "complete", "audit"}
=============================================================================
