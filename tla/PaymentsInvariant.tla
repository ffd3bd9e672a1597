------------------------- MODULE PaymentsInvariant --------------------------
(***************************************************************************)
(* The inductive invariant behind the safety properties of Payments: what  *)
(* a request knows at each of its steps, and how the ledger entry of a     *)
(* payment determines its completion, its refund and its invoice.          *)
(***************************************************************************)
EXTENDS Payments

\* A session the gateway has opened belongs to an order.
SessionsOK == \A s \in Sessions : session[s] # "free" => sessionOf[s] \in Orders

\* The steps of a webhook, and of the other requests where they share them.
EventSteps == {"webhook", "complete", "commit", "clearCart", "release"}

\* What a request has read or been given stays true of it until it ends.
RequestOK(q) ==
  /\ q.pc \notin {"idle", "adjust"} => q.o \in Orders
  /\ q.pc = "idle" => q = Idle
  /\ q.event => q.s \in Sessions /\ q.o \in Orders /\ q.pc \in EventSteps
  /\ q.pc \in {"webhook", "release"} => q.event
  /\ q.pc = "adjust" => q.u \in Users /\ q.bal + q.amt >= 0
  /\ q.pc = "refund" => q.amt > 0 /\ q.seen \in {"COMPLETED", "REFUNDED"}
  /\ q.pc \in {"placeOrder", "createPayment", "retryPayment", "reopenOrder"} =>
       q.o \notin Legacy
  /\ q.pc = "retryPayment" => q.seen \notin Settled
  /\ q.pc \in {"retryPayment", "reopenOrder"} => "retry" \in Kinds

RequestsOK == \A r \in Requests : RequestOK(req[r])

\* A ledger entry is the trace of the one completion or refund of its payment.
BooksOK ==
  \A o \in Orders :
    /\ completions[o] = IF o \in Legacy \/ ledgerRow[o] = "DEBIT" THEN 1 ELSE 0
    /\ refunds[o] = IF ledgerRow[o] = "CREDIT" THEN 1 ELSE 0
    /\ o \in invoice <=> o \in Legacy \/ ledgerRow[o] = "DEBIT"
    /\ o \in Legacy => order[o] \in {"PAID", "REFUNDED"} /\ ledgerRow[o] # "DEBIT"
    /\ o \in Legacy <=> payment[o] \in Settled /\ ledgerRow[o] # "DEBIT"
    /\ payment[o] \in {"REFUNDED", "PARTIALLY_REFUNDED"} <=> ledgerRow[o] = "CREDIT"
    /\ order[o] \in {"PAID", "REFUNDED"} => o \in invoice
    /\ payment[o] \notin {"PROCESSING", "CANCELLED"}

\* Where the requests and the gateway stand, and what the tables hold.
Control == GatewayOK /\ SessionsOK /\ req \in [Requests -> Request] /\ RequestsOK
Data == TablesOK /\ BooksOK

Inv == Control /\ Data

\* Without retries: who is about to write an order or a payment, and what that
\* says of the rows.  Only one request is about to create an order.
AgreementOf(r) ==
  LET o == req[r].o IN
  /\ At(r, "placeOrder") =>
       /\ order[o] = "none"
       /\ \A q \in Requests : At(q, "placeOrder") /\ req[q].o = o => q = r
  /\ At(r, "createPayment") => order[o] # "none"
  /\ req[r].pc \in {"openSession", "verify", "failPayment", "failOrder"} =>
       payment[o] # "none"
  /\ At(r, "failOrder") => payment[o] \notin {"PENDING", "PROCESSING"}

RequestsAgree == \A r \in Requests : AgreementOf(r)

\* A session, and so the webhook of a paid one, belongs to a payment that is there.
SessionsAgree == \A s \in Sessions : session[s] # "free" => payment[sessionOf[s]] # "none"

\* An enrolled roadmap was sold to its learner by the order it names.
RoadmapsOK ==
  \A u \in Users, b \in Bundles :
    enrolled[u][b] \in Orders =>
      LET o == enrolled[u][b] IN Owner[o] = u /\ b \in items[o]

RowsAgree ==
  /\ OrderMatchesPayment /\ RoadmapIsPaid /\ RoadmapsOK
  /\ \A o \in Orders : payment[o] # "none" => order[o] # "none"

(***************************************************************************)
(* The invariant behind OrderMatchesPayment and RoadmapIsPaid, which hold  *)
(* as long as no retry runs: rows are created in order, so that whoever    *)
(* fails an order has failed its payment (verifyGatewayCallback).          *)
(***************************************************************************)
Agreement == RowsAgree /\ SessionsAgree /\ RequestsAgree

\* A webhook being processed holds the row of its event, and no other does.
Claims ==
  /\ \A r \in Requests : req[r].event => req[r].s \in events
  /\ OneHandlerPerEvent

=============================================================================
