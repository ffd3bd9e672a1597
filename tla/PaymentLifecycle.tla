-------------------------- MODULE PaymentLifecycle --------------------------
(***************************************************************************)
(* What the payments service promises of every payment, with no requests,  *)
(* gateways or tables: its status moves along PAYMENT_TRANSITIONS only,    *)
(* the effects of a completion (ledger entry, invoice, entitlements) are   *)
(* applied by the one step that completes it, and money goes back by the   *)
(* one step that refunds it.  Payments.tla is shown to implement it.       *)
(***************************************************************************)
EXTENDS PaymentState, Naturals

CONSTANT Orders     \* every order has at most one payment: Payment.orderId is unique

VARIABLES
  status,           \* status[o]: the payment of order o
  completions,      \* completions[o]: how often its completion took effect
  refunds           \* refunds[o]: how often money was returned for it

vars == <<status, completions, refunds>>

Init ==
  /\ status \in [Orders -> {"none", "COMPLETED"}]
  /\ completions = [o \in Orders |-> IF status[o] = "COMPLETED" THEN 1 ELSE 0]
  /\ refunds = [o \in Orders |-> 0]

Open(o) ==
  /\ status[o] = "none"
  /\ status' = [status EXCEPT ![o] = "PENDING"]
  /\ UNCHANGED <<completions, refunds>>

Complete(o) ==
  /\ status[o] \in COMPLETABLE_PAYMENT_STATES
  /\ status' = [status EXCEPT ![o] = "COMPLETED"]
  /\ completions' = [completions EXCEPT ![o] = @ + 1]
  /\ UNCHANGED refunds

Refund(o) ==
  /\ \E to \in {"REFUNDED", "PARTIALLY_REFUNDED"} :
        /\ status[o] = "COMPLETED"
        /\ status' = [status EXCEPT ![o] = to]
  /\ refunds' = [refunds EXCEPT ![o] = @ + 1]
  /\ UNCHANGED completions

\* Every other edge of the table: a failure, a cancellation, processing, a retry.
Move(o) ==
  /\ status[o] # "none"
  /\ \E to \in PAYMENT_TRANSITIONS[status[o]] \ Settled :
        status' = [status EXCEPT ![o] = to]
  /\ UNCHANGED <<completions, refunds>>

Next == \E o \in Orders : Open(o) \/ Complete(o) \/ Refund(o) \/ Move(o)

Spec == Init /\ [][Next]_vars

-----------------------------------------------------------------------------

TypeOK ==
  /\ status \in [Orders -> PaymentStatus \cup {"none"}]
  /\ completions \in [Orders -> Nat]
  /\ refunds \in [Orders -> Nat]

(***************************************************************************)
(* The effects of a completion are applied exactly once to a payment whose *)
(* money has arrived and never to another, retries included, and money is  *)
(* returned at most once (the "exactly once" of completePayment and        *)
(* refundPayment).                                                         *)
(***************************************************************************)
ExactlyOnce ==
  \A o \in Orders :
    /\ completions[o] = IF status[o] \in Settled THEN 1 ELSE 0
    /\ refunds[o] = IF status[o] \in Settled \ {"COMPLETED"} THEN 1 ELSE 0

=============================================================================
