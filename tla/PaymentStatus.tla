--------------------------- MODULE PaymentStatus ---------------------------
(***************************************************************************)
(* The statuses of a payment order (internal/payment/types.go) and what    *)
(* the two halves of its life, PaymentOrder and PaymentRefund, rely on.    *)
(***************************************************************************)

\* statuses psIsRefundStatus recognises
RefundStatuses == {"REFUND_REQUESTED", "REFUNDING", "PARTIALLY_REFUNDED",
                   "REFUNDED", "REFUND_FAILED"}

\* "NONE": the row is not there yet
Statuses == {"NONE", "PENDING", "PAID", "RECHARGING", "COMPLETED", "EXPIRED",
             "CANCELLED", "FAILED"} \cup RefundStatuses

\* mutant: the lock does not exclude
RefundableWhileLocked == {"COMPLETED", "REFUND_REQUESTED", "REFUND_FAILED", "REFUNDING"}
\* statuses from which ExecuteRefund takes an order
Refundable == {"COMPLETED", "REFUND_REQUESTED", "REFUND_FAILED"}

\* every change of status the refund code makes
RefundMoves ==
    {<<"COMPLETED", "REFUND_REQUESTED">>}
      \cup (Refundable \X {"REFUNDING"})
      \cup ({"REFUNDING"} \X (Refundable \cup {"REFUNDED", "PARTIALLY_REFUNDED"}))
=============================================================================
