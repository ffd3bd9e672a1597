---------------------- MODULE PaymentsInvariantProofs -----------------------
(***************************************************************************)
(* Inv is an invariant of Payments for every number of learners, items,    *)
(* orders, gateway sessions and requests in flight, with the type          *)
(* correctness and the safety properties it implies.                       *)
(*                                                                         *)
(* Inv splits into Control (requests and gateway) and Data (tables): each  *)
(* half is preserved by one lemma per handler, and NextInv combines them.  *)
(***************************************************************************)
EXTENDS PaymentsInvariant, TLAPS

\* A free slot is well-formed.
LEMMA IdleOK == Idle \in Request /\ RequestOK(Idle)
<1>1. Idle \in Request
  BY PaymentsAssumption DEF Idle, Request, Steps, Refs, PaymentStatus
<1>2. RequestOK(Idle)
  BY DEF Idle, RequestOK
<1>. QED  BY <1>1, <1>2

\* A request that goes on to its next step stays well-formed.
LEMMA StepOK ==
  ASSUME NEW q \in Request, RequestOK(q), q.o \in Orders,
         NEW step \in Steps \ {"adjust", "refund"},
         step \in {"placeOrder", "createPayment", "retryPayment", "reopenOrder"}
           => q.o \notin Legacy,
         step # "retryPayment", step = "reopenOrder" => "retry" \in Kinds,
         q.event => step \in EventSteps, step \in {"webhook", "release"} => q.event
  PROVE  [q EXCEPT !.pc = step] \in Request /\ RequestOK([q EXCEPT !.pc = step])
<1>. DEFINE next == [q EXCEPT !.pc = step]
<1>1. next \in Request
  BY Zenon DEF Request, Steps
<1>2. next.pc = step /\ next.o = q.o /\ next.s = q.s /\ next.event = q.event
  BY Zenon DEF Request
<1>3. RequestOK(next)
  <2>. HIDE DEF next
  <2>. QED  BY <1>1, <1>2 DEF RequestOK, Steps
<1>. QED  BY <1>1, <1>3

\* Handing a well-formed request to a slot keeps all requests well-formed ...
LEMMA BeginTypes ==
  ASSUME req \in [Requests -> Request], RequestsOK, NEW r \in Requests,
         NEW new \in Request, RequestOK(new), Begin(r, new)
  PROVE  req' \in [Requests -> Request] /\ RequestsOK'
  BY DEF Begin, RequestsOK, RequestOK

\* ... and with them Control, when the gateway does not move.
LEMMA BeginControl ==
  ASSUME Control, NEW r \in Requests, NEW new \in Request, RequestOK(new),
         Begin(r, new), UNCHANGED gatewayVars
  PROVE  Control'
<1>1. req' \in [Requests -> Request] /\ RequestsOK'
  BY BeginTypes DEF Control
<1>2. GatewayOK' /\ SessionsOK'
  BY DEF Control, GatewayOK, SessionsOK, gatewayVars
<1>. QED  BY <1>1, <1>2 DEF Control

\* The same for a request that moves to its next step,
LEMMA GotoControl ==
  ASSUME Control, NEW r \in Requests, req[r].o \in Orders,
         NEW step \in Steps \ {"adjust", "refund"},
         step \in {"placeOrder", "createPayment", "retryPayment", "reopenOrder"}
           => req[r].o \notin Legacy,
         step # "retryPayment", step = "reopenOrder" => "retry" \in Kinds,
         req[r].event => step \in EventSteps,
         step \in {"webhook", "release"} => req[r].event,
         Goto(r, step), UNCHANGED gatewayVars
  PROVE  Control'
<1>. DEFINE next == [req[r] EXCEPT !.pc = step]
<1>1. req[r] \in Request /\ RequestOK(req[r])
  BY DEF Control, RequestsOK
<1>2. next \in Request /\ RequestOK(next)
  BY <1>1, StepOK
<1>3. Begin(r, next)
  BY DEF Goto
<1>. HIDE DEF next
<1>. QED  BY <1>2, <1>3, BeginControl

\* that ends,
LEMMA FinishControl ==
  ASSUME Control, NEW r \in Requests, Finish(r)
  PROVE  Control'
<1>1. req' \in [Requests -> Request] /\ RequestsOK'
  BY IdleOK DEF Control, Finish, Begin, RequestsOK, RequestOK
<1>2. GatewayOK' /\ SessionsOK'
  <2>1. acked' \in SUBSET Sessions
    BY DEF Control, Finish, GatewayOK, RequestsOK, RequestOK
  <2>. QED  BY <2>1 DEF Control, Finish, GatewayOK, SessionsOK
<1>. QED  BY <1>1, <1>2 DEF Control

\* or that throws.
LEMMA ThrowControl ==
  ASSUME Control, NEW r \in Requests, Throw(r)
  PROVE  Control'
<1>1. CASE req[r].event
  <2>1. req[r].o \in Orders
    BY <1>1 DEF Control, RequestsOK, RequestOK
  <2>. QED  BY <1>1, <2>1, GotoControl DEF Throw, Steps, EventSteps
<1>2. CASE ~req[r].event
  BY <1>2, IdleOK, BeginControl DEF Throw
<1>. QED  BY <1>1, <1>2

\* Steps that write no table keep Data.
LEMMA TablesUnchanged ==
  ASSUME Data, UNCHANGED tables
  PROVE  Data'
  BY DEF Data, TablesOK, BooksOK, tables, orderVars, paymentVars, walletVars,
         accessVars, history


-----------------------------------------------------------------------------
(* The requests: every handler hands on a well-formed request. *)

\* createCheckout and checkoutCart: the order is new, so not one of the Legacy.
LEMMA CheckoutControl ==
  ASSUME Inv, NEW r \in Requests, NEW o \in Orders, Checkout(r, o) \/ CheckoutCart(r, o)
  PROVE  Control'
<1>1. o \notin Legacy
  BY DEF Inv, Data, BooksOK, Checkout, CheckoutCart, Fresh
<1>2. ASSUME NEW L \in SUBSET Items, NEW from \in {"CART", "DIRECT"},
             Begin(r, NewOrder(o, L, from)), UNCHANGED gatewayVars
      PROVE  Control'
  <2>. DEFINE new == NewOrder(o, L, from)
  <2>1. new \in Request
    BY IdleOK, Zenon DEF NewOrder, Request, Steps
  <2>2. new.pc = "placeOrder" /\ new.o = o /\ new.event = Idle.event
    BY IdleOK, Zenon DEF NewOrder, Request
  <2>3. RequestOK(new)
    <3>. HIDE DEF new
    <3>. QED  BY <1>1, <2>1, <2>2 DEF RequestOK, Idle
  <2>. QED  BY <1>2, <2>1, <2>3, BeginControl DEF Inv
<1>3. CASE Checkout(r, o)
  <2>1. PICK L \in (SUBSET (Items \ Bundles)) \cup {{b} : b \in Bundles} :
          Begin(r, NewOrder(o, L, "DIRECT"))
    BY <1>3 DEF Checkout
  <2>2. L \in SUBSET Items
    BY <2>1, PaymentsAssumption
  <2>3. UNCHANGED gatewayVars
    BY <1>3 DEF Checkout
  <2>. QED  BY <1>2, <2>1, <2>2, <2>3
<1>4. CASE CheckoutCart(r, o)
  <2>. DEFINE L == Unowned(Owner[o], cart[Owner[o]])
  <2>1. L \in SUBSET Items
    BY PaymentsAssumption DEF Unowned, Inv, Data, TablesOK
  <2>2. CASE Begin(r, NewOrder(o, L, "CART"))
    BY <1>2, <1>4, <2>1, <2>2 DEF CheckoutCart
  <2>3. CASE UNCHANGED req
    BY <1>4, <2>3 DEF CheckoutCart, Inv, Control, GatewayOK, SessionsOK, RequestsOK,
                      gatewayVars
  <2>. QED  BY <1>4, <2>2, <2>3 DEF CheckoutCart
<1>. QED  BY <1>3, <1>4

\* retryPayment: the payment it read is not settled, so the order is not Legacy.
LEMMA RetryControl ==
  ASSUME Inv, NEW r \in Requests, NEW o \in Orders, Retry(r, o)
  PROVE  Control'
<1>. DEFINE new == [Idle EXCEPT !.pc = "retryPayment", !.o = o, !.seen = payment[o]]
<1>1. /\ payment[o] \in PaymentStatus \cup {"none"} /\ payment[o] \notin Settled
      /\ o \notin Legacy /\ "retry" \in Kinds
  BY DEF Inv, Data, TablesOK, BooksOK, Retry, Free
<1>2. new \in Request
  BY <1>1, IdleOK, Zenon DEF Request, Steps
<1>3. /\ new.pc = "retryPayment" /\ new.o = o /\ new.event = Idle.event
      /\ new.seen = payment[o]
  BY IdleOK, Zenon DEF Request
<1>4. RequestOK(new)
  <2>. HIDE DEF new
  <2>. QED  BY <1>1, <1>2, <1>3 DEF RequestOK, Idle
<1>. QED  BY <1>2, <1>4, BeginControl DEF Retry, Inv

\* verifyGatewayCallback: a payment of the shop, with any authority or with none.
LEMMA CallbackControl ==
  ASSUME Inv, NEW r \in Requests, NEW o \in Orders, NEW s \in Sessions \cup {None},
         NEW public \in BOOLEAN, Callback(r, o, s, public)
  PROVE  Control'
<1>. DEFINE new == [Idle EXCEPT !.pc = "verify", !.o = o, !.s = s, !.ref = gatewayRef[o]]
<1>1. gatewayRef[o] \in Refs
  BY DEF Inv, Data, TablesOK
<1>2. new \in Request
  BY <1>1, IdleOK, Zenon DEF Request, Steps
<1>3. new.pc = "verify" /\ new.o = o /\ new.event = Idle.event
  BY IdleOK, Zenon DEF Request
<1>4. RequestOK(new)
  <2>. HIDE DEF new
  <2>. QED  BY <1>1, <1>2, <1>3 DEF RequestOK, Idle
<1>. QED  BY <1>2, <1>4, BeginControl DEF Callback, Inv

\* confirmPayment.
LEMMA ConfirmControl ==
  ASSUME Inv, NEW r \in Requests, NEW o \in Orders, Confirm(r, o)
  PROVE  Control'
<1>. DEFINE new == [Idle EXCEPT !.pc = "complete", !.o = o]
<1>1. new \in Request
  BY IdleOK, Zenon DEF Request, Steps
<1>2. new.pc = "complete" /\ new.o = o /\ new.event = Idle.event
  BY IdleOK, Zenon DEF Request
<1>3. RequestOK(new)
  <2>. HIDE DEF new
  <2>. QED  BY <1>1, <1>2 DEF RequestOK, Idle
<1>. QED  BY <1>1, <1>3, BeginControl DEF Confirm, Inv

\* handleStripeWebhook.
LEMMA WebhookControl ==
  ASSUME Inv, NEW r \in Requests, NEW s \in Sessions, Webhook(r, s)
  PROVE  Control'
<1>. DEFINE new == [Idle EXCEPT !.pc = "webhook", !.o = sessionOf[s], !.s = s,
                                !.ref = s, !.event = TRUE]
<1>1. sessionOf[s] \in Orders
  BY DEF Inv, Control, SessionsOK, Webhook
<1>2. new \in Request
  BY <1>1, IdleOK, Zenon DEF Request, Steps, Refs
<1>3. new.pc = "webhook" /\ new.o = sessionOf[s] /\ new.s = s /\ new.event
  BY IdleOK, Zenon DEF Request
<1>4. RequestOK(new)
  <2>. HIDE DEF new
  <2>. QED  BY <1>1, <1>2, <1>3 DEF RequestOK, EventSteps
<1>. QED  BY <1>2, <1>4, BeginControl DEF Webhook, Inv

\* The states assertValidPaymentTransition lets a refund start from.
LEMMA Refundable ==
  ASSUME NEW status \in PaymentStatus, ValidPaymentTransition(status, "REFUNDED")
  PROVE  status \in {"COMPLETED", "REFUNDED"}
  BY DEF ValidPaymentTransition, PAYMENT_TRANSITIONS, PaymentStatus

\* refundPayment: the amount is positive, the state it read refundable.
LEMMA RefundControl ==
  ASSUME Inv, NEW r \in Requests, NEW o \in Orders, Refund(r, o)
  PROVE  Control'
<1>1. Amount(o) \in Nat
  BY PaymentsAssumption DEF Amount, Inv, Data, TablesOK
<1>2. PICK amt \in 1 .. Amount(o) :
        Begin(r, [Idle EXCEPT !.pc = "refund", !.o = o, !.seen = payment[o], !.amt = amt])
  BY DEF Refund
<1>. DEFINE new == [Idle EXCEPT !.pc = "refund", !.o = o, !.seen = payment[o], !.amt = amt]
<1>3. amt \in Int /\ amt > 0
  BY <1>1
<1>4. payment[o] \in {"COMPLETED", "REFUNDED"}
  BY Refundable DEF Inv, Data, TablesOK, Refund
<1>5. new \in Request
  BY <1>3, <1>4, IdleOK, Zenon DEF Request, Steps, PaymentStatus
<1>6. new.pc = "refund" /\ new.o = o /\ new.event = Idle.event /\ new.amt = amt
        /\ new.seen = payment[o]
  BY IdleOK, Zenon DEF Request
<1>7. RequestOK(new)
  <2>. HIDE DEF new
  <2>. QED  BY <1>3, <1>4, <1>5, <1>6 DEF RequestOK, Idle
<1>. QED  BY <1>2, <1>5, <1>7, BeginControl DEF Refund, Inv

\* adjustWallet: the balance it read covers what it takes.
LEMMA AdjustControl ==
  ASSUME Inv, NEW r \in Requests, NEW u \in Users, AdjustWallet(r, u)
  PROVE  Control'
<1>1. balance[u] \in Nat
  BY DEF Inv, Data, TablesOK
<1>2. PICK amt \in (-MaxMoney .. MaxMoney) \ {0} :
        /\ amt < 0 => balance[u] >= -amt
        /\ Begin(r, [Idle EXCEPT !.pc = "adjust", !.u = u, !.amt = amt,
                                 !.bal = balance[u]])
  BY DEF AdjustWallet
<1>. DEFINE new == [Idle EXCEPT !.pc = "adjust", !.u = u, !.amt = amt, !.bal = balance[u]]
<1>3. amt \in Int /\ balance[u] + amt >= 0
  BY <1>1, <1>2, PaymentsAssumption
<1>4. new \in Request
  BY <1>1, <1>3, IdleOK, Zenon DEF Request, Steps
<1>5. new.pc = "adjust" /\ new.u = u /\ new.event = Idle.event /\ new.amt = amt
        /\ new.bal = balance[u]
  BY IdleOK, Zenon DEF Request
<1>6. RequestOK(new)
  <2>. HIDE DEF new
  <2>. QED  BY <1>3, <1>4, <1>5 DEF RequestOK, Idle
<1>. QED  BY <1>2, <1>4, <1>6, BeginControl DEF AdjustWallet, Inv


\* The gateway's new session belongs to the order it was opened for.
LEMMA SessionControl ==
  ASSUME Inv, NEW r \in Requests, OpenSession(r)
  PROVE  Control'
<1>1. /\ req[r] \in Request /\ RequestOK(req[r])
      /\ req[r].pc = "openSession" /\ req[r].o \in Orders /\ ~req[r].event
  BY DEF Inv, Control, RequestsOK, RequestOK, EventSteps, OpenSession, At
<1>2. CASE Provider = "dev"
  BY <1>1, <1>2, GotoControl DEF OpenSession, Steps, Inv
<1>3. CASE Provider # "dev"
  <2>1. PICK s \in Sessions :
          /\ session' = [session EXCEPT ![s] = "created"]
          /\ sessionOf' = [sessionOf EXCEPT ![s] = req[r].o]
          /\ Begin(r, [req[r] EXCEPT !.pc = "saveSession", !.s = s])
          /\ UNCHANGED acked
    BY <1>3 DEF OpenSession
  <2>. DEFINE new == [req[r] EXCEPT !.pc = "saveSession", !.s = s]
  <2>2. new \in Request
    BY <1>1, <2>1, Zenon DEF Request, Steps
  <2>3. /\ new.pc = "saveSession" /\ new.o = req[r].o /\ new.s = s
        /\ new.event = req[r].event
    BY <1>1, <2>1, Zenon DEF Request
  <2>4. RequestOK(new)
    <3>. HIDE DEF new
    <3>. QED  BY <1>1, <2>1, <2>2, <2>3 DEF RequestOK, EventSteps
  <2>5. req' \in [Requests -> Request] /\ RequestsOK'
    <3>1. Begin(r, new)
      BY <2>1
    <3>. HIDE DEF new
    <3>. QED  BY <2>2, <2>4, <3>1, BeginTypes DEF Inv, Control
  <2>6. GatewayOK' /\ SessionsOK'
    BY <1>1, <2>1 DEF Inv, Control, GatewayOK, SessionsOK
  <2>. QED  BY <2>5, <2>6 DEF Control
<1>. QED  BY <1>2, <1>3

\* The answers of the gateway to a verification.
LEMMA VerifyControl ==
  ASSUME Inv, NEW r \in Requests, VerifySucceeds(r) \/ VerifyFails(r) \/ VerifyThrows(r)
  PROVE  Control'
<1>1. /\ req[r] \in Request /\ RequestOK(req[r])
      /\ req[r].pc = "verify" /\ req[r].o \in Orders /\ ~req[r].event
  BY DEF Inv, Control, RequestsOK, RequestOK, EventSteps, VerifySucceeds, VerifyFails,
         VerifyThrows, At
<1>2. ASSUME NEW step \in {"complete", "failPayment"}, NEW ref \in Refs,
             Begin(r, [req[r] EXCEPT !.pc = step, !.ref = ref]), UNCHANGED gatewayVars
      PROVE  Control'
  <2>. DEFINE new == [req[r] EXCEPT !.pc = step, !.ref = ref]
  <2>1. new \in Request
    BY <1>1, Zenon DEF Request, Steps
  <2>2. /\ new.pc = step /\ new.o = req[r].o /\ new.s = req[r].s
        /\ new.event = req[r].event
    BY <1>1, Zenon DEF Request
  <2>3. RequestOK(new)
    <3>. HIDE DEF new
    <3>. QED  BY <1>1, <2>1, <2>2 DEF RequestOK
  <2>. QED  BY <1>2, <2>1, <2>3, BeginControl DEF Inv
<1>3. CASE VerifySucceeds(r)
  <2>1. PICK ref \in Refs : Begin(r, [req[r] EXCEPT !.pc = "complete", !.ref = ref])
    BY <1>1, <1>3 DEF VerifySucceeds, Request, Refs
  <2>. QED  BY <1>2, <1>3, <2>1 DEF VerifySucceeds
<1>4. CASE VerifyFails(r)
  <2>1. req[r].ref \in Refs /\ Asked(r) \in Refs
    BY <1>1 DEF Request, Refs, Asked
  <2>2. PICK ref \in Refs : Begin(r, [req[r] EXCEPT !.pc = "failPayment", !.ref = ref])
    BY <1>4, <2>1 DEF VerifyFails
  <2>. QED  BY <1>2, <1>4, <2>2 DEF VerifyFails
<1>5. CASE VerifyThrows(r)
  BY <1>5, ThrowControl DEF VerifyThrows, Inv
<1>. QED  BY <1>3, <1>4, <1>5

\* Every step of a request keeps Control.
LEMMA StepControl ==
  ASSUME Inv, NEW r \in Requests, Step(r)
  PROVE  Control'
<1>1. /\ req[r] \in Request /\ RequestOK(req[r])
      /\ req[r].pc \notin {"idle", "adjust"} => req[r].o \in Orders
      /\ req[r].pc \in {"placeOrder", "createPayment", "retryPayment", "reopenOrder"}
           => req[r].o \notin Legacy
      /\ req[r].pc = "retryPayment" => "retry" \in Kinds
      /\ req[r].event => req[r].pc \in EventSteps
  BY DEF Inv, Control, RequestsOK, RequestOK
<1>2. CASE PlaceOrder(r)
  BY <1>1, <1>2, GotoControl DEF PlaceOrder, At, Steps, EventSteps, Inv
<1>3. CASE CreatePayment(r)
  BY <1>1, <1>3, GotoControl, ThrowControl
     DEF CreatePayment, InsertPayment, At, Steps, EventSteps, Inv
<1>4. CASE OpenSession(r)
  BY <1>4, SessionControl
<1>5. CASE ProviderUnavailable(r)
  BY <1>5, ThrowControl DEF ProviderUnavailable, Inv
<1>6. CASE SaveSession(r)
  <2>1. req' \in [Requests -> Request] /\ RequestsOK'
    BY <1>6, IdleOK, BeginTypes DEF SaveSession, Inv, Control
  <2>2. GatewayOK' /\ SessionsOK'
    BY <1>6 DEF SaveSession, Inv, Control, GatewayOK, SessionsOK
  <2>. QED  BY <2>1, <2>2 DEF Control
<1>7. CASE RetryPayment(r)
  BY <1>1, <1>7, GotoControl, ThrowControl
     DEF RetryPayment, ResetPayment, InsertPayment, At, Steps, EventSteps, Inv
<1>8. CASE ReopenOrder(r)
  BY <1>1, <1>8, GotoControl DEF ReopenOrder, At, Steps, EventSteps, Inv
<1>9. CASE VerifySucceeds(r) \/ VerifyFails(r) \/ VerifyThrows(r)
  BY <1>9, VerifyControl
<1>10. CASE FailPayment(r)
  BY <1>1, <1>10, GotoControl DEF FailPayment, At, Steps, EventSteps, Inv
<1>11. CASE FailOrder(r)
  BY <1>11, IdleOK, BeginControl DEF FailOrder, Inv
<1>12. CASE HandleCheckoutCompleted(r)
  BY <1>1, <1>12, GotoControl, FinishControl
     DEF HandleCheckoutCompleted, At, Steps, EventSteps, Inv
<1>13. CASE ReleaseEvent(r)
  BY <1>13, IdleOK, BeginControl DEF ReleaseEvent, Inv
<1>14. CASE ReadForCompletion(r)
  BY <1>1, <1>14, GotoControl, FinishControl, ThrowControl
     DEF ReadForCompletion, At, Steps, EventSteps, Inv, gatewayVars
<1>15. CASE CompletePayment(r) \/ LoseCompletionRace(r)
  BY <1>1, <1>15, GotoControl, FinishControl
     DEF CompletePayment, LoseCompletionRace, AfterCommit, At, Steps, EventSteps, Inv
<1>16. CASE AbortCompletion(r)
  BY <1>16, ThrowControl DEF AbortCompletion, Inv
<1>17. CASE ClearCart(r)
  BY <1>17, FinishControl DEF ClearCart, Inv
<1>18. CASE RefundPayment(r)
  BY <1>18, IdleOK, BeginControl DEF RefundPayment, Inv
<1>19. CASE AbortRefund(r)
  BY <1>19, ThrowControl DEF AbortRefund, Inv
<1>20. CASE WriteAdjustment(r)
  BY <1>20, IdleOK, BeginControl DEF WriteAdjustment, Inv
<1>. QED  BY <1>2, <1>3, <1>4, <1>5, <1>6, <1>7, <1>8, <1>9, <1>10, <1>11, <1>12,
            <1>13, <1>14, <1>15, <1>16, <1>17, <1>18, <1>19, <1>20 DEF Step

\* So do the gateway, the admin's grants and the cart.
LEMMA EnvironmentControl ==
  ASSUME Inv, Environment
  PROVE  Control'
<1>1. ASSUME NEW s \in Sessions, SettleSession(s)
      PROVE  Control'
  BY <1>1 DEF SettleSession, Inv, Control, GatewayOK, SessionsOK, RequestsOK
<1>2. ASSUME NEW s \in Sessions, DuplicateWebhook(s)
      PROVE  Control'
  BY <1>2 DEF DuplicateWebhook, Inv, Control, GatewayOK, SessionsOK, RequestsOK
<1>3. CASE UNCHANGED <<gatewayVars, req>>
  BY <1>3 DEF Inv, Control, GatewayOK, SessionsOK, RequestsOK, gatewayVars
<1>. QED  BY <1>1, <1>2, <1>3 DEF Environment, EnsureWallet, GrantEntitlement,
                                  RevokeEntitlement, Enroll, AddCourse, RemoveCourse,
                                  gatewayVars

(***************************************************************************)
(* Every step keeps Control: requests carry what their next statement      *)
(* relies on (the awaits of payments.service.ts).                          *)
(***************************************************************************)
THEOREM NextControl ==
  ASSUME Inv, [Next]_vars
  PROVE  Control'
<1>1. ASSUME NEW r \in Requests, Arrive(r)
      PROVE  Control'
  BY <1>1, CheckoutControl, RetryControl, ConfirmControl, RefundControl, WebhookControl,
     CallbackControl, AdjustControl DEF Arrive
<1>2. ASSUME NEW r \in Requests, Step(r)
      PROVE  Control'
  BY <1>2, StepControl
<1>3. ASSUME NEW r \in Requests, Crash(r)
      PROVE  Control'
  BY <1>3, IdleOK, BeginControl DEF Crash, Inv
<1>4. ASSUME NEW r \in Requests, DatabaseError(r)
      PROVE  Control'
  BY <1>4, ThrowControl DEF DatabaseError, Inv
<1>5. CASE UNCHANGED vars
  BY <1>5 DEF Inv, Control, GatewayOK, SessionsOK, RequestsOK, vars, gatewayVars
<1>. QED  BY <1>1, <1>2, <1>3, <1>4, <1>5, EnvironmentControl DEF Next


-----------------------------------------------------------------------------
(* The tables. *)

\* What the ledger says of each payment depends on these rows alone.
LEMMA BooksUnchanged ==
  ASSUME Inv, UNCHANGED <<order, payment, invoice, ledgerRow, history>>
  PROVE  BooksOK'
  BY DEF Inv, Data, BooksOK, history

\* A request that arrives writes the cart or the event table at most.
LEMMA ArriveData ==
  ASSUME Inv, NEW r \in Requests, Arrive(r)
  PROVE  Data'
<1>1. ASSUME NEW o \in Orders, CheckoutCart(r, o)
      PROVE  Data'
  <2>1. TablesOK'
    BY <1>1, PaymentsAssumption DEF Inv, Data, TablesOK, CheckoutCart, Unowned, orderVars,
       paymentVars, walletVars, accessVars, history
  <2>2. BooksOK'
    BY <1>1, BooksUnchanged DEF CheckoutCart, orderVars, paymentVars, walletVars
  <2>. QED  BY <2>1, <2>2 DEF Data
<1>2. ASSUME NEW s \in Sessions, Webhook(r, s)
      PROVE  Data'
  <2>1. TablesOK'
    BY <1>2 DEF Inv, Data, TablesOK, Webhook, orderVars,
       paymentVars, walletVars, accessVars, history
  <2>2. BooksOK'
    BY <1>2, BooksUnchanged DEF Webhook, orderVars, paymentVars, walletVars
  <2>. QED  BY <2>1, <2>2 DEF Data
<1>3. CASE UNCHANGED tables
  BY <1>3, TablesUnchanged DEF Inv
<1>. QED  BY <1>1, <1>2, <1>3 DEF Arrive, Checkout, Retry, Confirm, Refund, Callback,
                                  AdjustWallet

\* The operations without a request in flight leave the books alone.
LEMMA EnvironmentData ==
  ASSUME Inv, Environment
  PROVE  Data'
<1>1. ASSUME NEW u \in Users, EnsureWallet(u)
      PROVE  Data'
  <2>1. TablesOK'
    BY <1>1 DEF Inv, Data, TablesOK, EnsureWallet, orderVars, paymentVars, accessVars, history
  <2>2. BooksOK'
    BY <1>1, BooksUnchanged DEF EnsureWallet, orderVars, paymentVars
  <2>. QED  BY <2>1, <2>2 DEF Data
<1>2. ASSUME NEW u \in Users, NEW i \in Items,
             GrantEntitlement(u, i) \/ RevokeEntitlement(u, i)
      PROVE  Data'
  <2>1. access' \in [Users -> [Items -> Sources \cup {"none"}]]
    <3>1. PICK a \in Sources \cup {"none"} : access' = [access EXCEPT ![u][i] = a]
      BY <1>2 DEF GrantEntitlement, RevokeEntitlement, Sources
    <3>. QED  BY <3>1 DEF Inv, Data, TablesOK
  <2>2. TablesOK'
    BY <1>2, <2>1 DEF Inv, Data, TablesOK, GrantEntitlement, RevokeEntitlement, orderVars,
       paymentVars, walletVars, history
  <2>3. BooksOK'
    BY <1>2, BooksUnchanged DEF GrantEntitlement, RevokeEntitlement, orderVars,
       paymentVars, walletVars
  <2>. QED  BY <2>2, <2>3 DEF Data
<1>3. ASSUME NEW u \in Users, NEW i \in Items, AddCourse(u, i) \/ RemoveCourse(u, i)
      PROVE  Data'
  <2>1. cart' \in [Users -> SUBSET Items]
    <3>1. PICK C : cart' = [cart EXCEPT ![u] = Unowned(u, C)] /\ C \subseteq cart[u] \cup {i}
      BY <1>3 DEF AddCourse, RemoveCourse
    <3>2. Unowned(u, C) \in SUBSET Items
      BY <3>1 DEF Unowned, Inv, Data, TablesOK
    <3>. QED  BY <3>1, <3>2 DEF Inv, Data, TablesOK
  <2>2. TablesOK'
    BY <1>3, <2>1 DEF Inv, Data, TablesOK, AddCourse, RemoveCourse, orderVars, paymentVars,
       walletVars, accessVars, history
  <2>3. BooksOK'
    BY <1>3, BooksUnchanged DEF AddCourse, RemoveCourse, orderVars, paymentVars, walletVars
  <2>. QED  BY <2>2, <2>3 DEF Data
<1>4. ASSUME NEW u \in Users, NEW i \in Items, Enroll(u, i)
      PROVE  Data'
  <2>1. enrolled' \in [Users -> [Items -> Enrollments]]
    BY <1>4 DEF Enroll, Enrollments, Inv, Data, TablesOK
  <2>2. TablesOK'
    BY <1>4, <2>1 DEF Inv, Data, TablesOK, Enroll, orderVars, paymentVars, walletVars,
       history
  <2>3. BooksOK'
    BY <1>4, BooksUnchanged DEF Enroll, orderVars, paymentVars, walletVars
  <2>. QED  BY <2>2, <2>3 DEF Data
<1>5. CASE UNCHANGED tables
  BY <1>5, TablesUnchanged DEF Inv
<1>. QED  BY <1>1, <1>2, <1>3, <1>4, <1>5 DEF Environment, SettleSession, DuplicateWebhook


\* order.create of an order that has no row yet.
LEMMA PlaceOrderData ==
  ASSUME Inv, NEW r \in Requests, PlaceOrder(r)
  PROVE  Data'
<1>1. /\ req[r] \in Request /\ RequestOK(req[r])
      /\ req[r].o \in Orders /\ req[r].o \notin Legacy
  BY DEF Inv, Control, RequestsOK, RequestOK, At, PlaceOrder
<1>2. TablesOK'
  BY <1>1 DEF Inv, Data, TablesOK, Request, PlaceOrder, OrderStatus, orderVars, paymentVars,
     walletVars, accessVars, history
<1>3. BooksOK'
  BY <1>1 DEF Inv, Data, TablesOK, BooksOK, PlaceOrder, orderVars, paymentVars,
     walletVars, history, Settled, PaymentStatus, OrderStatus
<1>. QED  BY <1>2, <1>3 DEF Data

\* payment.create: the payment begins unsettled and without a ledger entry.
LEMMA InsertPaymentData ==
  ASSUME Inv, NEW r \in Requests, req[r].o \in Orders, NEW step, InsertPayment(r, step)
  PROVE  Data'
<1>1. TablesOK'
  BY DEF Inv, Data, TablesOK, InsertPayment, PaymentStatus, orderVars, walletVars,
     accessVars, history
<1>2. BooksOK'
  BY DEF Inv, Data, TablesOK, BooksOK, InsertPayment, Settled, orderVars, walletVars, history
<1>. QED  BY <1>1, <1>2 DEF Data

\* The reset of retryPayment: the DEBIT entry of a completed payment stays,
\* which is why BooksOK does not tie it to the status COMPLETED.
LEMMA ResetPaymentData ==
  ASSUME Inv, NEW r \in Requests, req[r].o \in Orders \ Legacy, ResetPayment(r)
  PROVE  Data'
<1>1. TablesOK'
  BY DEF Inv, Data, TablesOK, ResetPayment, Refs, PaymentStatus, orderVars, walletVars,
     accessVars, history
<1>2. BooksOK'
  BY DEF Inv, Data, TablesOK, BooksOK, ResetPayment, Settled, orderVars, walletVars, history
<1>. QED  BY <1>1, <1>2 DEF Data

\* startProviderCheckout stores the session.
LEMMA SaveSessionData ==
  ASSUME Inv, NEW r \in Requests, SaveSession(r)
  PROVE  Data'
<1>1. /\ req[r] \in Request /\ RequestOK(req[r])
      /\ req[r].o \in Orders
  BY DEF Inv, Control, RequestsOK, RequestOK, At, SaveSession
<1>2. TablesOK'
  BY <1>1 DEF Inv, Data, TablesOK, Request, Refs, SaveSession, orderVars, paymentVars,
     walletVars, accessVars, history
<1>3. BooksOK'
  BY BooksUnchanged DEF SaveSession, orderVars, paymentVars, walletVars
<1>. QED  BY <1>2, <1>3 DEF Data

\* retryPayment reopens the order.
LEMMA ReopenOrderData ==
  ASSUME Inv, NEW r \in Requests, ReopenOrder(r)
  PROVE  Data'
<1>1. /\ req[r] \in Request /\ RequestOK(req[r])
      /\ req[r].o \in Orders /\ req[r].o \notin Legacy
  BY DEF Inv, Control, RequestsOK, RequestOK, At, ReopenOrder
<1>2. TablesOK'
  BY <1>1 DEF Inv, Data, TablesOK, Request, ReopenOrder, OrderStatus, orderVars, paymentVars,
     walletVars, accessVars, history
<1>3. BooksOK'
  BY <1>1 DEF Inv, Data, TablesOK, BooksOK, ReopenOrder, orderVars, paymentVars,
     walletVars, history, Settled, PaymentStatus, OrderStatus
<1>. QED  BY <1>2, <1>3 DEF Data

\* The failed verification marks the payment ...
LEMMA FailPaymentData ==
  ASSUME Inv, NEW r \in Requests, FailPayment(r)
  PROVE  Data'
<1>1. /\ req[r] \in Request /\ RequestOK(req[r])
      /\ req[r].o \in Orders
  BY DEF Inv, Control, RequestsOK, RequestOK, At, FailPayment
<1>2. req[r].ref \in Refs
  BY <1>1 DEF Request
<1>3. payment' \in [Orders -> PaymentStatus \cup {"none"}] /\ gatewayRef' \in [Orders -> Refs]
  BY <1>1, <1>2 DEF Inv, Data, TablesOK, FailPayment, PaymentStatus, paymentVars
<1>4. TablesOK'
  BY <1>3 DEF Inv, Data, TablesOK, FailPayment, orderVars, walletVars, accessVars, history
<1>5. BooksOK'
  BY <1>1 DEF Inv, Data, TablesOK, BooksOK, FailPayment, orderVars, paymentVars,
     walletVars, history, Settled, PaymentStatus, OrderStatus
<1>. QED  BY <1>4, <1>5 DEF Data

\* ... and then the order, unless it is paid.
LEMMA FailOrderData ==
  ASSUME Inv, NEW r \in Requests, FailOrder(r)
  PROVE  Data'
<1>1. /\ req[r] \in Request /\ RequestOK(req[r])
      /\ req[r].o \in Orders
  BY DEF Inv, Control, RequestsOK, RequestOK, At, FailOrder
<1>2. TablesOK'
  BY <1>1 DEF Inv, Data, TablesOK, Request, FailOrder, OrderStatus, orderVars, paymentVars,
     walletVars, accessVars, history
<1>3. BooksOK'
  BY <1>1 DEF Inv, Data, TablesOK, BooksOK, FailOrder, orderVars, paymentVars,
     walletVars, history, Settled, PaymentStatus, OrderStatus
<1>. QED  BY <1>2, <1>3 DEF Data

\* A webhook that failed releases its event.
LEMMA ReleaseEventData ==
  ASSUME Inv, NEW r \in Requests, ReleaseEvent(r)
  PROVE  Data'
<1>1. /\ req[r] \in Request /\ RequestOK(req[r])
      /\ req[r].o \in Orders
  BY DEF Inv, Control, RequestsOK, RequestOK, At, ReleaseEvent
<1>2. TablesOK'
  BY <1>1 DEF Inv, Data, TablesOK, Request, ReleaseEvent, orderVars, paymentVars,
     walletVars, accessVars, history
<1>3. BooksOK'
  BY BooksUnchanged DEF ReleaseEvent, orderVars, paymentVars, walletVars
<1>. QED  BY <1>2, <1>3 DEF Data

\* The cart of a completed cart order is emptied.
LEMMA ClearCartData ==
  ASSUME Inv, NEW r \in Requests, ClearCart(r)
  PROVE  Data'
<1>1. /\ req[r] \in Request /\ RequestOK(req[r])
      /\ req[r].o \in Orders
  BY DEF Inv, Control, RequestsOK, RequestOK, At, ClearCart
<1>2. TablesOK'
  BY <1>1 DEF Inv, Data, TablesOK, Request, ClearCart, orderVars, paymentVars,
     walletVars, accessVars, history
<1>3. BooksOK'
  BY BooksUnchanged DEF ClearCart, orderVars, paymentVars, walletVars
<1>. QED  BY <1>2, <1>3 DEF Data

\* The adjustment writes the sum computed from the balance read before.
LEMMA WriteAdjustmentData ==
  ASSUME Inv, NEW r \in Requests, WriteAdjustment(r)
  PROVE  Data'
<1>1. /\ req[r].u \in Users /\ req[r].amt \in Int
      /\ req[r].bal \in Nat /\ req[r].bal + req[r].amt >= 0
  BY DEF Inv, Control, RequestsOK, RequestOK, Request, WriteAdjustment, At
<1>2. TablesOK'
  BY <1>1 DEF Inv, Data, TablesOK, WriteAdjustment, orderVars, paymentVars, accessVars,
     history
<1>3. BooksOK'
  BY BooksUnchanged DEF WriteAdjustment, orderVars, paymentVars
<1>. QED  BY <1>2, <1>3 DEF Data


\* Prices are natural numbers.
LEMMA AmountNat ==
  ASSUME Inv, NEW o \in Orders
  PROVE  Amount(o) \in Nat
  BY PaymentsAssumption DEF Amount, Inv, Data, TablesOK

\* The transaction of completePayment: the ledger had no entry of this payment,
\* so by BooksOK it was never completed and has no invoice.
LEMMA CompletePaymentData ==
  ASSUME Inv, NEW r \in Requests, CompletePayment(r)
  PROVE  Data'
<1>. DEFINE o == req[r].o
            u == Owner[o]
<1>1. /\ o \in Orders /\ u \in Users /\ Amount(o) \in Nat
      /\ req[r].ref \in Refs
  <2>1. req[r] \in Request /\ RequestOK(req[r]) /\ req[r].pc = "commit"
    BY DEF Inv, Control, RequestsOK, CompletePayment, At
  <2>2. o \in Orders /\ req[r].ref \in Refs
    BY <2>1 DEF RequestOK, Request
  <2>. QED  BY <2>2, AmountNat, PaymentsAssumption
<1>2. /\ payment[o] \in COMPLETABLE_PAYMENT_STATES
      /\ payment' = [payment EXCEPT ![o] = "COMPLETED"]
      /\ gatewayRef' = IF req[r].ref = None THEN gatewayRef
                       ELSE [gatewayRef EXCEPT ![o] = req[r].ref]
      /\ GrantEntitlements(u, o) /\ RecordWalletDebit(u, o)
      /\ MarkOrderPaidAndCreateInvoice(o)
      /\ completions' = [completions EXCEPT ![o] = @ + 1]
      /\ UNCHANGED <<items, source, cart, events, refunds>>
  BY DEF CompletePayment
<1>. HIDE DEF o, u
<1>3. /\ payment' \in [Orders -> PaymentStatus \cup {"none"}]
      /\ gatewayRef' \in [Orders -> Refs]
      /\ completions' \in [Orders -> Nat]
  BY <1>1, <1>2 DEF Inv, Data, TablesOK, PaymentStatus
<1>4. /\ order' \in [Orders -> OrderStatus \cup {"none"}]
      /\ invoice' \in SUBSET Orders
  <2>1. MarkOrderPaidAndCreateInvoice(o) /\ o \in Orders
    BY <1>1, <1>2
  <2>2. order \in [Orders -> OrderStatus \cup {"none"}] /\ invoice \in SUBSET Orders
    BY DEF Inv, Data, TablesOK
  <2>. QED  BY <2>1, <2>2 DEF MarkOrderPaidAndCreateInvoice, OrderStatus
<1>5. /\ wallet' \in SUBSET Users
      /\ balance' \in [Users -> Nat] /\ ledger' \in [Users -> Int]
      /\ ledgerRow' \in [Orders -> {"none", "DEBIT", "CREDIT"}]
  <2>1. RecordWalletDebit(u, o)
    BY <1>2
  <2>2. /\ wallet \in SUBSET Users
        /\ balance \in [Users -> Nat] /\ ledger \in [Users -> Int]
        /\ ledgerRow \in [Orders -> {"none", "DEBIT", "CREDIT"}]
    BY DEF Inv, Data, TablesOK
  <2>. QED  BY <1>1, <2>1, <2>2 DEF RecordWalletDebit
<1>6. /\ access' \in [Users -> [Items -> Sources \cup {"none"}]]
      /\ enrolled' \in [Users -> [Items -> Enrollments]]
  <2>1. GrantEntitlements(u, o)
    BY <1>2
  <2>2. /\ access \in [Users -> [Items -> Sources \cup {"none"}]]
        /\ enrolled \in [Users -> [Items -> Enrollments]]
    BY DEF Inv, Data, TablesOK
  <2>. QED  BY <1>1, <2>1, <2>2 DEF GrantEntitlements, Sources, Enrollments
<1>7. TablesOK'
  BY <1>2, <1>3, <1>4, <1>5, <1>6 DEF Inv, Data, TablesOK
<1>8. BooksOK'
  BY <1>1, <1>2 DEF Inv, Data, TablesOK, BooksOK, RecordWalletDebit,
     MarkOrderPaidAndCreateInvoice, COMPLETABLE_PAYMENT_STATES, Settled
<1>. QED  BY <1>7, <1>8 DEF Data

\* The transaction of refundPayment: without a ledger entry the payment is one
\* of the Legacy, completed and not yet refunded.
LEMMA RefundPaymentData ==
  ASSUME Inv, NEW r \in Requests, RefundPayment(r)
  PROVE  Data'
<1>. DEFINE o == req[r].o
            u == Owner[o]
            amt == req[r].amt
            full == amt = Amount(o)
<1>1. /\ o \in Orders /\ u \in Users /\ Amount(o) \in Nat
      /\ amt \in Int /\ amt > 0 /\ payment[o] \in {"COMPLETED", "REFUNDED"}
  <2>1. req[r] \in Request /\ RequestOK(req[r]) /\ req[r].pc = "refund"
    BY DEF Inv, Control, RequestsOK, RefundPayment, At
  <2>2. o \in Orders /\ amt \in Int /\ amt > 0 /\ payment[o] \in {"COMPLETED", "REFUNDED"}
    BY <2>1 DEF RequestOK, Request, RefundPayment
  <2>. QED  BY <2>2, AmountNat, PaymentsAssumption
<1>2. /\ payment' = [payment EXCEPT ![o] = IF full THEN "REFUNDED" ELSE "PARTIALLY_REFUNDED"]
      /\ RecordWalletCredit(u, o, amt)
      /\ IF full
         THEN /\ RevokeEntitlements(u, o)
              /\ order' = IF order[o] = "PAID" THEN [order EXCEPT ![o] = "REFUNDED"] ELSE order
         ELSE UNCHANGED <<access, enrolled, order>>
      /\ refunds' = [refunds EXCEPT ![o] = @ + 1]
      /\ UNCHANGED <<items, source, invoice, gatewayRef, cart, events, completions>>
  BY DEF RefundPayment, accessVars
<1>. HIDE DEF o, u, amt, full
<1>3. /\ payment' \in [Orders -> PaymentStatus \cup {"none"}]
      /\ order' \in [Orders -> OrderStatus \cup {"none"}]
      /\ refunds' \in [Orders -> Nat]
  BY <1>1, <1>2 DEF Inv, Data, TablesOK, PaymentStatus, OrderStatus
<1>4. /\ wallet' \in SUBSET Users
      /\ balance' \in [Users -> Nat] /\ ledger' \in [Users -> Int]
      /\ ledgerRow' \in [Orders -> {"none", "DEBIT", "CREDIT"}]
  BY <1>1, <1>2 DEF Inv, Data, TablesOK, RecordWalletCredit
<1>5. /\ access' \in [Users -> [Items -> Sources \cup {"none"}]]
      /\ enrolled' \in [Users -> [Items -> Enrollments]]
  <2>1. CASE full
    <3>1. RevokeEntitlements(u, o)
      BY <1>2, <2>1
    <3>2. access' \in [Users -> [Items -> Sources \cup {"none"}]]
      BY <1>1, <3>1 DEF Inv, Data, TablesOK, RevokeEntitlements
    <3>3. enrolled' \in [Users -> [Items -> Enrollments]]
      BY <1>1, <3>1 DEF Inv, Data, TablesOK, RevokeEntitlements, Enrollments
    <3>. QED  BY <3>2, <3>3
  <2>2. CASE ~full
    BY <1>2, <2>2 DEF Inv, Data, TablesOK
  <2>. QED  BY <2>1, <2>2
<1>6. TablesOK'
  BY <1>2, <1>3, <1>4, <1>5 DEF Inv, Data, TablesOK
<1>7. BooksOK'
  BY <1>1, <1>2 DEF Inv, Data, TablesOK, BooksOK, RecordWalletCredit, Settled
<1>. QED  BY <1>6, <1>7 DEF Data

\* Every step of a request keeps Data.
LEMMA StepData ==
  ASSUME Inv, NEW r \in Requests, Step(r)
  PROVE  Data'
<1>1. /\ req[r].pc \notin {"idle", "adjust"} => req[r].o \in Orders
      /\ req[r].pc \in {"placeOrder", "createPayment", "retryPayment", "reopenOrder"}
           => req[r].o \notin Legacy
  BY DEF Inv, Control, RequestsOK, RequestOK
<1>2. CASE UNCHANGED tables
  BY <1>2, TablesUnchanged DEF Inv
<1>3. CASE CreatePayment(r)
  BY <1>1, <1>2, <1>3, InsertPaymentData DEF CreatePayment, Throw, At
<1>4. CASE RetryPayment(r)
  BY <1>1, <1>2, <1>4, InsertPaymentData, ResetPaymentData DEF RetryPayment, Throw, At
<1>5. CASE ReadForCompletion(r)
  BY <1>2, <1>5 DEF ReadForCompletion, Throw
<1>. QED
  BY <1>2, <1>3, <1>4, <1>5, PlaceOrderData, SaveSessionData, ReopenOrderData,
     FailPaymentData, FailOrderData, ReleaseEventData, CompletePaymentData, ClearCartData,
     RefundPaymentData, WriteAdjustmentData
  DEF Step, OpenSession, ProviderUnavailable, VerifySucceeds, VerifyFails, VerifyThrows,
      HandleCheckoutCompleted, LoseCompletionRace, AbortCompletion, AbortRefund, Throw

-----------------------------------------------------------------------------
(* The invariant. *)

\* The database as the ledger migration finds it.
LEMMA InitInv == Init => Inv
<1>. SUFFICES ASSUME Init PROVE Inv
  OBVIOUS
<1>1. Control
  BY IdleOK DEF Init, Control, GatewayOK, SessionsOK, RequestsOK
<1>2. access \in [Users -> [Items -> Sources \cup {"none"}]]
  BY DEF Init, Sources
<1>3. enrolled \in [Users -> [Items -> Enrollments]]
  <2>1. \A u \in Users, i \in Items :
          LegacyPurchases(u, i) # {} => (CHOOSE o \in LegacyPurchases(u, i) : TRUE) \in Orders
    BY PaymentsAssumption DEF LegacyPurchases
  <2>. QED  BY <2>1 DEF Init, Enrollments
<1>4. TablesOK
  <2>1. /\ order \in [Orders -> OrderStatus \cup {"none"}]
        /\ payment \in [Orders -> PaymentStatus \cup {"none"}]
        /\ gatewayRef \in [Orders -> Refs]
    BY DEF Init, OrderStatus, PaymentStatus, Refs
  <2>2. /\ items \in [Orders -> SUBSET Items] /\ invoice \in SUBSET Orders
        /\ wallet \in SUBSET Users /\ cart \in [Users -> SUBSET Items]
        /\ events \in SUBSET Sessions
    BY PaymentsAssumption DEF Init
  <2>3. /\ source \in [Orders -> {"CART", "DIRECT"}]
        /\ balance \in [Users -> Nat] /\ ledger \in [Users -> Int]
        /\ ledgerRow \in [Orders -> {"none", "DEBIT", "CREDIT"}]
        /\ completions \in [Orders -> Nat] /\ refunds \in [Orders -> Nat]
    BY PaymentsAssumption DEF Init
  <2>. QED  BY <1>2, <1>3, <2>1, <2>2, <2>3 DEF TablesOK
<1>5. BooksOK
  BY PaymentsAssumption DEF Init, BooksOK, Settled
<1>. QED  BY <1>1, <1>4, <1>5 DEF Inv, Data

(***************************************************************************)
(* Inv is inductive: no handler, interleaved with any other between two    *)
(* awaits, breaks it (payments.service.ts, adminService.adjustWallet).     *)
(***************************************************************************)
THEOREM NextInv == Inv /\ [Next]_vars => Inv'
<1>. SUFFICES ASSUME Inv, [Next]_vars PROVE Inv'
  OBVIOUS
<1>1. Control'
  BY NextControl
<1>2. Data'
  <2>1. CASE UNCHANGED tables
    BY <2>1, TablesUnchanged DEF Inv
  <2>. QED  BY <2>1, ArriveData, StepData, EnvironmentData DEF Next, Crash, DatabaseError,
                                                           Throw, vars
<1>. QED  BY <1>1, <1>2 DEF Inv

(***************************************************************************)
(* Inv holds of every reachable state, for any number of learners, orders, *)
(* sessions and requests in flight.                                        *)
(***************************************************************************)
THEOREM Invariant == Spec => []Inv
  BY InitInv, NextInv, PTL DEF Spec

(***************************************************************************)
(* The tables hold what their columns allow; among it no wallet is ever    *)
(* negative (the CHECK of the wallet migration is never needed by          *)
(* adjustWallet).                                                          *)
(***************************************************************************)
THEOREM TypeCorrect == Spec => []TypeOK
<1>1. Inv => TypeOK
  BY DEF Inv, Control, Data, TypeOK
<1>. QED  BY <1>1, Invariant, PTL

(***************************************************************************)
(* completePayment takes effect at most once per order and refundPayment   *)
(* returns money at most once, for any number of concurrent callbacks,     *)
(* webhooks, confirmations, retries and refunds.                           *)
(***************************************************************************)
THEOREM MoneyOnce == Spec => []MoneyMovesOnce
<1>1. Inv => MoneyMovesOnce
  BY DEF Inv, Data, TablesOK, BooksOK, MoneyMovesOnce
<1>. QED  BY <1>1, Invariant, PTL

(***************************************************************************)
(* Paid orders and settled payments have their completion, invoice and, if *)
(* younger than the ledger, wallet entry (completePayment's transaction).  *)
(***************************************************************************)
THEOREM Booked == Spec => []SettledIsBooked
<1>1. Inv => SettledIsBooked
  BY DEF Inv, Data, TablesOK, BooksOK, SettledIsBooked, Settled
<1>. QED  BY <1>1, Invariant, PTL

=============================================================================
