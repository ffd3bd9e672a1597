---------------------------- MODULE PaymentState ----------------------------
(***************************************************************************)
(* The payment life cycle as apps/api/src/payments/payment-state.ts tables *)
(* it: the states of a payment and the edges between them.  "none" stands  *)
(* for a payment row that does not exist.                                  *)
(***************************************************************************)

\* enum PaymentStatus of the database
PaymentStatus == {"PENDING", "PROCESSING", "COMPLETED", "FAILED", "CANCELLED",
                  "REFUNDED", "PARTIALLY_REFUNDED"}

PAYMENT_TRANSITIONS ==
  [ PENDING            |-> {"PROCESSING", "COMPLETED", "FAILED", "CANCELLED"},
    PROCESSING         |-> {"COMPLETED", "FAILED", "CANCELLED"},
    COMPLETED          |-> {"REFUNDED", "PARTIALLY_REFUNDED"},
    FAILED             |-> {"PENDING"},
    CANCELLED          |-> {"PENDING"},
    REFUNDED           |-> {},
    PARTIALLY_REFUNDED |-> {} ]

\* assertValidPaymentTransition: the same state passes as already observed.
ValidPaymentTransition(from, to) ==
  from = to \/ to \in PAYMENT_TRANSITIONS[from]

COMPLETABLE_PAYMENT_STATES == {"PENDING", "PROCESSING"}

\* The states that say the money of a payment has arrived.
Settled == {"COMPLETED", "REFUNDED", "PARTIALLY_REFUNDED"}

=============================================================================
