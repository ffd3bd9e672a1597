------------------------------ MODULE Payments ------------------------------
(***************************************************************************)
(* Checkout, gateway callback, Stripe webhook, retry, confirmation and     *)
(* refund of apps/api/src/payments/payments.service.ts, with the wallet    *)
(* ledger, the invoices, the entitlements and the cart they write, and the *)
(* admin operations (apps/api/src/admin/admin.service.ts) on the same      *)
(* tables.                                                                 *)
(*                                                                         *)
(* A request runs in a slot r of Requests; between two of its awaits any   *)
(* other request may run.  A $transaction is one step: the conditional     *)
(* UPDATE it starts with locks the payment row and Postgres serialises the *)
(* rest on the rows it shares with others.  An order and its payment share *)
(* an identifier, for Payment.orderId is unique.                           *)
(***************************************************************************)
EXTENDS PaymentState, Integers

CONSTANTS
  Users, Items,
  Bundles,          \* the items sold as ROADMAP_BUNDLE; the others are courses
  Orders, Owner,    \* Owner[o]: the learner order o belongs to
  Total,            \* Total[L]: the price of the lines L, in cents
  Sessions,         \* the sessions the gateway can still open (bound)
  Requests,         \* slots for requests in flight (bound)
  Provider,         \* the payment provider of the site settings
  Kinds,            \* the kinds of request of this instance, and its failures:
                    \* "errors" of the database, "faults": these and crashes
  Legacy, LegacyLines,   \* orders completed before the ledger existed; their lines
  InitialBalance,   \* InitialBalance[u]: the wallet u starts with
  MaxMoney,         \* bound on balance and ledger where the admin adjusts
  None

ASSUME PaymentsAssumption ==
  /\ Bundles \subseteq Items
  /\ Owner \in [Orders -> Users]
  /\ Total \in [SUBSET Items -> Nat]
  /\ Provider \in {"zarinpal", "idpay", "stripe", "dev"}
  /\ Legacy \subseteq Orders
  /\ LegacyLines \in [Legacy -> SUBSET Items]
  /\ InitialBalance \in [Users -> Nat]
  /\ MaxMoney \in Nat
  /\ None \notin Orders \cup Sessions \cup Users
  /\ "ref_id" \notin Sessions
  /\ "unlinked" \notin Orders

VARIABLES
  order, items, source, invoice,    \* Order and Invoice rows, by order
  payment, gatewayRef,              \* Payment.status and Payment.gatewayRef
  wallet, balance,                  \* the learners with a wallet; its balance
  ledger, ledgerRow,                \* sum of a wallet's entries; the entry of a payment
  access, enrolled,                 \* Entitlement.source; Enrollment or Roadmap.paymentId
  cart, events,                     \* CartItem and PaymentWebhookEvent rows
  sessionOf, session, acked,        \* the gateway: sessions, acknowledged webhooks
  req,                              \* the requests in flight
  completions, refunds              \* history: committed completions and refunds

orderVars == <<order, items, source, invoice>>
paymentVars == <<payment, gatewayRef>>
walletVars == <<wallet, balance, ledger, ledgerRow>>
accessVars == <<access, enrolled>>
gatewayVars == <<sessionOf, session, acked>>
history == <<completions, refunds>>
tables == <<orderVars, paymentVars, walletVars, accessVars, cart, events, history>>
vars == <<tables, gatewayVars, req>>

OrderStatus == {"PENDING", "AWAITING_PAYMENT", "PAID", "FAILED", "CANCELLED", "REFUNDED"}
Sources == {"PURCHASE", "BUNDLE", "FREE", "CHALLENGE"}
\* What Payment.gatewayRef may hold: "ref_id" is the receipt a verification returns.
Refs == Sessions \cup {"ref_id", None}
\* A course enrollment names no payment; an enrolled roadmap names one.
Enrollments == Orders \cup {"unlinked", None}

Steps == {"placeOrder", "createPayment", "openSession", "saveSession",
          "retryPayment", "reopenOrder", "verify", "failPayment", "failOrder",
          "complete", "commit", "clearCart", "webhook", "release",
          "refund", "adjust"}

\* What a request carries across its awaits: its target, what it has read.
Request ==
  [ pc    : Steps \cup {"idle"},
    o     : Orders \cup {None},
    s     : Sessions \cup {None},
    u     : Users \cup {None},
    seen  : PaymentStatus \cup {"none"},
    ref   : Refs,
    lines : SUBSET Items,
    from  : {"CART", "DIRECT"},
    event : BOOLEAN,
    amt   : Int,
    bal   : Nat ]

Idle == [ pc |-> "idle", o |-> None, s |-> None, u |-> None, seen |-> "none",
          ref |-> None, lines |-> {}, from |-> "DIRECT", event |-> FALSE,
          amt |-> 0, bal |-> 0 ]

-----------------------------------------------------------------------------
(* Requests *)

At(r, step) == req[r].pc = step
Free(r, kind) == At(r, "idle") /\ kind \in Kinds
Begin(r, new) == req' = [req EXCEPT ![r] = new]
Goto(r, step) == Begin(r, [req[r] EXCEPT !.pc = step])

\* The request ends; a webhook that ran to its end is acknowledged to Stripe.
Finish(r) ==
  /\ Begin(r, Idle)
  /\ acked' = IF req[r].event THEN acked \cup {req[r].s} ELSE acked
  /\ UNCHANGED <<sessionOf, session>>

\* Slip: a webhook that failed keeps the row of its event.
ThrowWithoutRelease(r) ==
  /\ Begin(r, Idle)
  /\ UNCHANGED <<tables, gatewayVars>>

\* The handler throws: only the webhook catches, to release its event row.
Throw(r) ==
  /\ IF req[r].event THEN Goto(r, "release") ELSE Begin(r, Idle)
  /\ UNCHANGED <<tables, gatewayVars>>

Amount(o) == Total[items[o]]

\* hasCourseEntitlement for a course, Roadmap.enrolled for a bundle
Owned(u, i) == IF i \in Bundles THEN enrolled[u][i] # None
                                ELSE access[u][i] # "none"

\* toResponse of the cart, which ends every reading of it, drops what is owned.
Unowned(u, C) == {i \in C : ~Owned(u, i)}

-----------------------------------------------------------------------------
LegacyPurchases(u, i) == {o \in Legacy : Owner[o] = u /\ i \in LegacyLines[o]}

Init ==
  /\ order = [o \in Orders |-> IF o \in Legacy THEN "PAID" ELSE "none"]
  /\ items = [o \in Orders |-> IF o \in Legacy THEN LegacyLines[o] ELSE {}]
  /\ source = [o \in Orders |-> "DIRECT"]
  /\ invoice = Legacy
  /\ payment = [o \in Orders |-> IF o \in Legacy THEN "COMPLETED" ELSE "none"]
  /\ gatewayRef = [o \in Orders |-> IF o \in Legacy THEN "ref_id" ELSE None]
  /\ wallet = {u \in Users : InitialBalance[u] > 0}
  /\ balance = InitialBalance
  /\ ledger = InitialBalance
  /\ ledgerRow = [o \in Orders |-> "none"]
  /\ access = [u \in Users |-> [i \in Items |->
       IF LegacyPurchases(u, i) = {} THEN "none"
       ELSE IF i \in Bundles THEN "BUNDLE" ELSE "PURCHASE"]]
  /\ enrolled = [u \in Users |-> [i \in Items |->
       IF LegacyPurchases(u, i) = {} THEN None
       ELSE IF i \in Bundles THEN CHOOSE o \in LegacyPurchases(u, i) : TRUE
       ELSE "unlinked"]]
  /\ cart = [u \in Users |-> {}]
  /\ events = {}
  /\ sessionOf = [s \in Sessions |-> None]
  /\ session = [s \in Sessions |-> "free"]
  /\ acked = {}
  /\ req = [r \in Requests |-> Idle]
  /\ completions = [o \in Orders |-> IF o \in Legacy THEN 1 ELSE 0]
  /\ refunds = [o \in Orders |-> 0]

-----------------------------------------------------------------------------
(* Checkout: createCheckout, checkoutCart, createOrderAndPay,              *)
(* startProviderCheckout.                                                  *)

\* Order ids are fresh: nobody else is about to create this one.
Fresh(o) == order[o] = "none" /\ \A q \in Requests : req[q].o # o

NewOrder(o, L, from) ==
  [Idle EXCEPT !.pc = "placeOrder", !.o = o, !.lines = L, !.from = from]

\* Courses, or one roadmap, none of them owned yet (assertNotAlreadyOwned).
Checkout(r, o) ==
  /\ Free(r, "checkout") /\ Fresh(o)
  /\ \E L \in (SUBSET (Items \ Bundles)) \cup {{b} : b \in Bundles} :
        /\ L # {}
        /\ \A i \in L : ~Owned(Owner[o], i)
        /\ Begin(r, NewOrder(o, L, "DIRECT"))
  /\ UNCHANGED <<tables, gatewayVars>>

\* Reading the cart drops the courses already owned; an empty one is refused.
CheckoutCart(r, o) ==
  LET u == Owner[o]
      L == Unowned(u, cart[u])
  IN
  /\ Free(r, "cart") /\ Fresh(o)
  /\ cart' = [cart EXCEPT ![u] = L]
  /\ IF L = {} THEN UNCHANGED req ELSE Begin(r, NewOrder(o, L, "CART"))
  /\ UNCHANGED <<orderVars, paymentVars, walletVars, accessVars, events, history,
                 gatewayVars>>

PlaceOrder(r) ==
  LET o == req[r].o IN
  /\ At(r, "placeOrder")
  /\ order' = [order EXCEPT ![o] = "AWAITING_PAYMENT"]
  /\ items' = [items EXCEPT ![o] = req[r].lines]
  /\ source' = [source EXCEPT ![o] = req[r].from]
  /\ Goto(r, "createPayment")
  /\ UNCHANGED <<invoice, paymentVars, walletVars, accessVars, cart, events, history,
                 gatewayVars>>

\* Payment.orderId is unique: the second of two creations throws.
InsertPayment(r, next) ==
  LET o == req[r].o IN
  /\ payment[o] = "none"
  /\ payment' = [payment EXCEPT ![o] = "PENDING"]
  /\ Goto(r, next)
  /\ UNCHANGED <<orderVars, gatewayRef, walletVars, accessVars, cart, events, history,
                 gatewayVars>>

CreatePayment(r) ==
  /\ At(r, "createPayment")
  /\ \/ InsertPayment(r, "openSession")
     \/ payment[req[r].o] # "none" /\ Throw(r)

\* provider.createPayment answers with a new session (the dev provider with none) ...
OpenSession(r) ==
  /\ At(r, "openSession")
  /\ IF Provider = "dev"
     THEN Goto(r, "saveSession") /\ UNCHANGED gatewayVars
     ELSE \E s \in Sessions :
            /\ session[s] = "free"
            /\ session' = [session EXCEPT ![s] = "created"]
            /\ sessionOf' = [sessionOf EXCEPT ![s] = req[r].o]
            /\ Begin(r, [req[r] EXCEPT !.pc = "saveSession", !.s = s])
            /\ UNCHANGED acked
  /\ UNCHANGED tables

\* ... or throws: gateway unreachable, request rejected.
ProviderUnavailable(r) == At(r, "openSession") /\ Throw(r)

\* The answer carries the redirect: only now can the learner pay.
SaveSession(r) ==
  /\ At(r, "saveSession")
  /\ gatewayRef' = [gatewayRef EXCEPT ![req[r].o] = req[r].s]
  /\ session' = [s \in Sessions |->
       IF s = req[r].s /\ session[s] = "created" THEN "open" ELSE session[s]]
  /\ Begin(r, Idle)
  /\ UNCHANGED <<orderVars, payment, walletVars, accessVars, cart, events, history,
                 sessionOf, acked>>

-----------------------------------------------------------------------------
(* retryPayment: the guards read order and payment, the writes that follow *)
(* are unconditional.                                                      *)

\* Slip: only the order is looked at, not its payment.
RetryWithoutPaymentGuard(r, o) ==
  /\ Free(r, "retry")
  /\ order[o] \notin {"none", "PAID"}
  /\ Begin(r, [Idle EXCEPT !.pc = "retryPayment", !.o = o, !.seen = payment[o]])
  /\ UNCHANGED <<tables, gatewayVars>>

Retry(r, o) ==
  /\ Free(r, "retry")
  /\ order[o] \notin {"none", "PAID"}
  /\ payment[o] \notin Settled
  /\ Begin(r, [Idle EXCEPT !.pc = "retryPayment", !.o = o, !.seen = payment[o]])
  /\ UNCHANGED <<tables, gatewayVars>>

ResetPayment(r) ==
  /\ payment' = [payment EXCEPT ![req[r].o] = "PENDING"]
  /\ gatewayRef' = [gatewayRef EXCEPT ![req[r].o] = None]
  /\ Goto(r, "reopenOrder")
  /\ UNCHANGED <<orderVars, walletVars, accessVars, cart, events, history, gatewayVars>>

RetryPayment(r) ==
  /\ At(r, "retryPayment")
  /\ \/ req[r].seen # "none" /\ ResetPayment(r)
     \/ req[r].seen = "none" /\ InsertPayment(r, "reopenOrder")
     \/ req[r].seen = "none" /\ payment[req[r].o] # "none" /\ Throw(r)

ReopenOrder(r) ==
  /\ At(r, "reopenOrder")
  /\ order' = [order EXCEPT ![req[r].o] = "AWAITING_PAYMENT"]
  /\ Goto(r, "openSession")
  /\ UNCHANGED <<items, source, invoice, paymentVars, walletVars, accessVars, cart,
                 events, history, gatewayVars>>

-----------------------------------------------------------------------------
(* verifyGatewayCallback: a client names a payment and sends along what    *)
(* the gateway's redirect told it, an authority and a status, at any time  *)
(* and whatever became of the session: its page may still be open.  A      *)
(* callback without the learner's token must carry the current gatewayRef; *)
(* a completed payment is answered without a step.                         *)

\* The sessions a client can know of; None: it sends no authority.  One that no
\* gateway has issued is as good as the session of another order.
Callback(r, o, s, public) ==
  /\ Free(r, "callback")
  /\ payment[o] \notin {"none", "COMPLETED"}
  /\ s # None => session[s] \in {"open", "paid", "cancelled"}
  /\ public => s # None /\ gatewayRef[o] = s
  /\ Begin(r, [Idle EXCEPT !.pc = "verify", !.o = o, !.s = s, !.ref = gatewayRef[o]])
  /\ UNCHANGED <<tables, gatewayVars>>

\* confirmPayment and the simulators answer outside production only.
Development == "confirm" \in Kinds

\* ZarinPal and Stripe take the word of a status that says the payment failed,
\* before they look at session or reference; IDPay asks the gateway.
BelievesStatus == Provider \in {"zarinpal", "stripe"}

\* The session the gateway is asked about: input.authority || input.gatewayRef
Asked(r) == IF req[r].s = None THEN req[r].ref ELSE req[r].s

\* The gateway compares the amount; IDPay is told the order as well.
Vouched(s, o) ==
  /\ s \in Sessions
  /\ session[s] = "paid"
  /\ IF Provider = "idpay" THEN sessionOf[s] = o ELSE Amount(sessionOf[s]) = Amount(o)

\* A Stripe payment whose reference was not there when the callback read it.
Unreferenced(r) == Provider = "stripe" /\ req[r].ref = None

\* The gateway vouches for the session and answers with its receipt.  Outside
\* production the dev provider agrees to all, Stripe to an unreferenced payment.
VerifySucceeds(r) ==
  /\ At(r, "verify")
  /\ CASE Provider = "stripe" -> Unreferenced(r) /\ Development
       [] Provider = "dev"    -> Development
       [] OTHER               -> Vouched(Asked(r), req[r].o)
  /\ Begin(r, [req[r] EXCEPT !.pc = "complete",
                 !.ref = IF Provider = "stripe" THEN req[r].s ELSE "ref_id"])
  /\ UNCHANGED <<tables, gatewayVars>>

\* The status sent along says so; the gateway does not vouch for the session, or
\* ZarinPal cannot be reached; the provider is not to be used in production.
\* ZarinPal may name the session it was asked about, else the reference that was
\* read is written back.
VerifyFails(r) ==
  /\ At(r, "verify")
  /\ \/ BelievesStatus
     \/ Provider = "idpay" /\ ~Vouched(Asked(r), req[r].o)
     \/ Provider = "dev" /\ ~Development
  /\ \E ref \in (IF Provider = "zarinpal" THEN {Asked(r)} ELSE {}) \cup {req[r].ref} :
        Begin(r, [req[r] EXCEPT !.pc = "failPayment", !.ref = ref])
  /\ UNCHANGED <<tables, gatewayVars>>

\* IDPay cannot be reached; Stripe leaves the completion to the webhook.
VerifyThrows(r) ==
  /\ At(r, "verify")
  /\ \/ Provider = "idpay" /\ Asked(r) # None
     \/ Provider = "stripe" /\ ~Unreferenced(r)
  /\ Throw(r)

\* Slip: update instead of updateMany, the status is not in its condition.
FailPaymentUnconditionally(r) ==
  /\ At(r, "failPayment")
  /\ payment' = [payment EXCEPT ![req[r].o] = "FAILED"]
  /\ gatewayRef' = [gatewayRef EXCEPT ![req[r].o] = req[r].ref]
  /\ Goto(r, "failOrder")
  /\ UNCHANGED <<orderVars, walletVars, accessVars, cart, events, history, gatewayVars>>

\* updateMany with its status condition: a settled payment is left alone.
FailPayment(r) ==
  LET o == req[r].o IN
  /\ At(r, "failPayment")
  /\ IF payment[o] \in {"PENDING", "PROCESSING"}
     THEN /\ payment' = [payment EXCEPT ![o] = "FAILED"]
          /\ gatewayRef' = [gatewayRef EXCEPT ![o] = req[r].ref]
     ELSE UNCHANGED paymentVars
  /\ Goto(r, "failOrder")
  /\ UNCHANGED <<orderVars, walletVars, accessVars, cart, events, history, gatewayVars>>

\* Slip: the order is failed whatever its status.
FailOrderUnconditionally(r) ==
  /\ At(r, "failOrder")
  /\ order' = [order EXCEPT ![req[r].o] = "FAILED"]
  /\ Begin(r, Idle)
  /\ UNCHANGED <<items, source, invoice, paymentVars, walletVars, accessVars, cart,
                 events, history, gatewayVars>>

FailOrder(r) ==
  LET o == req[r].o IN
  /\ At(r, "failOrder")
  /\ order' = IF order[o] \in {"PENDING", "AWAITING_PAYMENT"}
              THEN [order EXCEPT ![o] = "FAILED"] ELSE order
  /\ Begin(r, Idle)
  /\ UNCHANGED <<items, source, invoice, paymentVars, walletVars, accessVars, cart,
                 events, history, gatewayVars>>

-----------------------------------------------------------------------------
(* confirmPayment, outside production: refused for the references of a     *)
(* live ZarinPal or Stripe session.                                        *)

Confirm(r, o) ==
  /\ Free(r, "confirm")
  /\ payment[o] # "none"
  /\ Provider \in {"zarinpal", "stripe"} => gatewayRef[o] = None
  /\ Begin(r, [Idle EXCEPT !.pc = "complete", !.o = o])
  /\ UNCHANGED <<tables, gatewayVars>>

(* handleStripeWebhook: Stripe delivers the event of a paid session until  *)
(* it is acknowledged; its row in PaymentWebhookEvent is the claim.        *)

\* Slip: the event is processed whether or not its row could be inserted.
WebhookWithoutClaim(r, s) ==
  /\ Free(r, "webhook") /\ Provider = "stripe"
  /\ session[s] = "paid" /\ s \notin acked
  /\ events' = events \cup {s}
  /\ Begin(r, [Idle EXCEPT !.pc = "webhook", !.o = sessionOf[s], !.s = s,
                           !.ref = s, !.event = TRUE])
  /\ UNCHANGED <<orderVars, paymentVars, walletVars, accessVars, cart, history,
                 gatewayVars>>

Webhook(r, s) ==
  /\ Free(r, "webhook") /\ Provider = "stripe"
  /\ session[s] = "paid" /\ s \notin acked
  /\ s \notin events
  /\ events' = events \cup {s}
  /\ Begin(r, [Idle EXCEPT !.pc = "webhook", !.o = sessionOf[s], !.s = s,
                           !.ref = s, !.event = TRUE])
  /\ UNCHANGED <<orderVars, paymentVars, walletVars, accessVars, cart, history,
                 gatewayVars>>

DuplicateWebhook(s) ==
  /\ "webhook" \in Kinds /\ Provider = "stripe"
  /\ session[s] = "paid" /\ s \notin acked
  /\ s \in events
  /\ acked' = acked \cup {s}
  /\ UNCHANGED <<tables, sessionOf, session, req>>

\* handleCheckoutCompleted: an event about a completed payment is done.
HandleCheckoutCompleted(r) ==
  /\ At(r, "webhook")
  /\ IF payment[req[r].o] = "COMPLETED"
     THEN Finish(r)
     ELSE Goto(r, "complete") /\ UNCHANGED gatewayVars
  /\ UNCHANGED tables

ReleaseEvent(r) ==
  /\ At(r, "release")
  /\ events' = events \ {req[r].s}
  /\ Begin(r, Idle)
  /\ UNCHANGED <<orderVars, paymentVars, walletVars, accessVars, cart, history,
                 gatewayVars>>

-----------------------------------------------------------------------------
(* completePayment, which callback, webhook and confirmation share.        *)

ReadForCompletion(r) ==
  /\ At(r, "complete")
  /\ LET from == payment[req[r].o] IN
     \/ from = "COMPLETED" /\ Finish(r) /\ UNCHANGED tables
     \/ /\ from # "COMPLETED" /\ ValidPaymentTransition(from, "COMPLETED")
        /\ Goto(r, "commit") /\ UNCHANGED <<tables, gatewayVars>>
     \/ ~ValidPaymentTransition(from, "COMPLETED") /\ Throw(r)

\* After the transaction: the cart of a cart order is emptied, or the request ends.
AfterCommit(r) ==
  IF source[req[r].o] = "CART" THEN Goto(r, "clearCart") /\ UNCHANGED gatewayVars
                               ELSE Finish(r)

\* grantEntitlements: a purchase overwrites the source of an earlier grant.
GrantEntitlements(u, o) ==
  /\ access' = [access EXCEPT ![u] = [i \in Items |->
       IF i \notin items[o] THEN @[i]
       ELSE IF i \in Bundles THEN "BUNDLE" ELSE "PURCHASE"]]
  /\ enrolled' = [enrolled EXCEPT ![u] = [i \in Items |->
       IF i \notin items[o] THEN @[i]
       ELSE IF i \in Bundles THEN o ELSE "unlinked"]]

\* Slips: no CHECK on the balance, no unique paymentId in the ledger.
DebitWithoutCheck(u, o) ==
  /\ ledgerRow[o] = "none"
  /\ wallet' = wallet \cup {u}
  /\ ledgerRow' = [ledgerRow EXCEPT ![o] = "DEBIT"]
  /\ ledger' = [ledger EXCEPT ![u] = @ - Amount(o)]
  /\ balance' = [balance EXCEPT ![u] = @ - Amount(o)]

DebitAgain(u, o) ==
  /\ balance[u] >= Amount(o)
  /\ wallet' = wallet \cup {u}
  /\ ledgerRow' = [ledgerRow EXCEPT ![o] = "DEBIT"]
  /\ ledger' = [ledger EXCEPT ![u] = @ - Amount(o)]
  /\ balance' = [balance EXCEPT ![u] = @ - Amount(o)]

\* One ledger entry per payment (unique paymentId) and no negative balance
\* (CHECK) are the database's: a transaction that breaks one aborts.
RecordWalletDebit(u, o) ==
  /\ ledgerRow[o] = "none" /\ balance[u] >= Amount(o)
  /\ wallet' = wallet \cup {u}
  /\ ledgerRow' = [ledgerRow EXCEPT ![o] = "DEBIT"]
  /\ ledger' = [ledger EXCEPT ![u] = @ - Amount(o)]
  /\ balance' = [balance EXCEPT ![u] = @ - Amount(o)]

\* Slips: no unique paymentId; a partial refund gives the whole price back.
CreditAgain(u, o, amt) ==
  /\ wallet' = wallet \cup {u}
  /\ ledgerRow' = [ledgerRow EXCEPT ![o] = "CREDIT"]
  /\ ledger' = [ledger EXCEPT ![u] = @ + amt]
  /\ balance' = [balance EXCEPT ![u] = @ + amt]

CreditWholePrice(u, o, amt) ==
  /\ ledgerRow[o] = "none"
  /\ wallet' = wallet \cup {u}
  /\ ledgerRow' = [ledgerRow EXCEPT ![o] = "CREDIT"]
  /\ ledger' = [ledger EXCEPT ![u] = @ + amt]
  /\ balance' = [balance EXCEPT ![u] = @ + Amount(o)]

RecordWalletCredit(u, o, amt) ==
  /\ ledgerRow[o] = "none"
  /\ wallet' = wallet \cup {u}
  /\ ledgerRow' = [ledgerRow EXCEPT ![o] = "CREDIT"]
  /\ ledger' = [ledger EXCEPT ![u] = @ + amt]
  /\ balance' = [balance EXCEPT ![u] = @ + amt]

\* Slip: the invoice is left to a later step.
MarkOrderPaidOnly(o) ==
  /\ order' = [order EXCEPT ![o] = "PAID"]
  /\ UNCHANGED invoice

MarkOrderPaidAndCreateInvoice(o) ==
  IF o \in invoice THEN UNCHANGED <<order, invoice>>
  ELSE /\ order' = [order EXCEPT ![o] = "PAID"]
       /\ invoice' = invoice \cup {o}

CompletePayment(r) ==
  LET o == req[r].o
      u == Owner[o]
  IN
  /\ At(r, "commit")
  /\ payment[o] \in COMPLETABLE_PAYMENT_STATES
  /\ payment' = [payment EXCEPT ![o] = "COMPLETED"]
  /\ gatewayRef' = IF req[r].ref = None THEN gatewayRef
                   ELSE [gatewayRef EXCEPT ![o] = req[r].ref]
  /\ GrantEntitlements(u, o)
  /\ RecordWalletDebit(u, o)
  /\ MarkOrderPaidAndCreateInvoice(o)
  /\ completions' = [completions EXCEPT ![o] = @ + 1]
  /\ AfterCommit(r)
  /\ UNCHANGED <<items, source, cart, events, refunds>>

\* The claim finds the payment completed by another request: same answer.
LoseCompletionRace(r) ==
  /\ At(r, "commit")
  /\ payment[req[r].o] = "COMPLETED"
  /\ AfterCommit(r)
  /\ UNCHANGED tables

\* The claim finds another state, or the ledger's constraints abort the rest.
AbortCompletion(r) ==
  LET o == req[r].o IN
  /\ At(r, "commit")
  /\ \/ payment[o] \notin COMPLETABLE_PAYMENT_STATES \cup {"COMPLETED"}
     \/ /\ payment[o] \in COMPLETABLE_PAYMENT_STATES
        /\ ledgerRow[o] # "none" \/ balance[Owner[o]] < Amount(o)
  /\ Throw(r)

ClearCart(r) ==
  /\ At(r, "clearCart")
  /\ cart' = [cart EXCEPT ![Owner[req[r].o]] = {}]
  /\ Finish(r)
  /\ UNCHANGED <<orderVars, paymentVars, walletVars, accessVars, events, history>>

-----------------------------------------------------------------------------
(* refundPayment: a full refund revokes what the purchase granted.         *)

Refund(r, o) ==
  /\ Free(r, "refund")
  /\ payment[o] # "none"
  /\ ValidPaymentTransition(payment[o], "REFUNDED")
  /\ \E amt \in 1 .. Amount(o) :
        /\ amt < Amount(o) => ValidPaymentTransition(payment[o], "PARTIALLY_REFUNDED")
        /\ Begin(r, [Idle EXCEPT !.pc = "refund", !.o = o, !.seen = payment[o],
                                 !.amt = amt])
  /\ UNCHANGED <<tables, gatewayVars>>

\* Slip: the grants of the items go whatever their source.
RevokeAnySource(u, o) ==
  /\ access' = [access EXCEPT ![u] = [i \in Items |->
       IF i \in items[o] THEN "none" ELSE @[i]]]
  /\ enrolled' = [enrolled EXCEPT ![u] = [i \in Items |->
       IF i \in items[o] /\ (i \in Bundles => @[i] = o) THEN None ELSE @[i]]]

\* Slip: the entitlements go, the enrollments stay.
RevokeAccessOnly(u, o) ==
  /\ access' = [access EXCEPT ![u] = [i \in Items |->
       IF i \in items[o] /\ (@[i] = "PURCHASE" \/ (i \in Bundles /\ @[i] = "BUNDLE"))
       THEN "none" ELSE @[i]]]
  /\ UNCHANGED enrolled

\* revokeEntitlementsTx: purchased grants only; a roadmap only if o enrolled it.
RevokeEntitlements(u, o) ==
  /\ access' = [access EXCEPT ![u] = [i \in Items |->
       IF i \in items[o] /\ (@[i] = "PURCHASE" \/ (i \in Bundles /\ @[i] = "BUNDLE"))
       THEN "none" ELSE @[i]]]
  /\ enrolled' = [enrolled EXCEPT ![u] = [i \in Items |->
       IF i \in items[o] /\ (i \in Bundles => @[i] = o) THEN None ELSE @[i]]]

RefundPayment(r) ==
  LET o == req[r].o
      u == Owner[o]
      full == req[r].amt = Amount(o)
  IN
  /\ At(r, "refund")
  /\ payment[o] = req[r].seen
  /\ payment' = [payment EXCEPT ![o] = IF full THEN "REFUNDED" ELSE "PARTIALLY_REFUNDED"]
  /\ RecordWalletCredit(u, o, req[r].amt)
  /\ IF full
     THEN /\ RevokeEntitlements(u, o)
          /\ order' = IF order[o] = "PAID" THEN [order EXCEPT ![o] = "REFUNDED"] ELSE order
     ELSE UNCHANGED <<accessVars, order>>
  /\ refunds' = [refunds EXCEPT ![o] = @ + 1]
  /\ Begin(r, Idle)
  /\ UNCHANGED <<items, source, invoice, gatewayRef, cart, events, completions,
                 gatewayVars>>

AbortRefund(r) ==
  LET o == req[r].o IN
  /\ At(r, "refund")
  /\ payment[o] # req[r].seen \/ ledgerRow[o] # "none"
  /\ Throw(r)

-----------------------------------------------------------------------------
(* The admin's wallet adjustment (amt < 0 is a DEBIT) reads the balance    *)
(* first and writes the sum it has computed; the admin grants and revokes  *)
(* entitlements directly; a learner edits the cart, enrolls in what an      *)
(* entitlement covers and opens the wallet.                                *)

AdjustWallet(r, u) ==
  /\ Free(r, "adjust")
  /\ u \in wallet
  /\ \E amt \in (-MaxMoney .. MaxMoney) \ {0} :
        /\ amt < 0 => balance[u] >= -amt
        /\ {balance[u] + amt, ledger[u] + amt} \subseteq -MaxMoney .. MaxMoney
        /\ Begin(r, [Idle EXCEPT !.pc = "adjust", !.u = u, !.amt = amt,
                                 !.bal = balance[u]])
  /\ UNCHANGED <<tables, gatewayVars>>

WriteAdjustment(r) ==
  LET u == req[r].u IN
  /\ At(r, "adjust")
  /\ ledger' = [ledger EXCEPT ![u] = @ + req[r].amt]
  /\ balance' = [balance EXCEPT ![u] = req[r].bal + req[r].amt]
  /\ Begin(r, Idle)
  /\ UNCHANGED <<orderVars, paymentVars, wallet, ledgerRow, accessVars, cart, events,
                 history, gatewayVars>>

GrantEntitlement(u, i) ==
  /\ "grant" \in Kinds
  /\ access[u][i] = "none"
  /\ \E from \in Sources : access' = [access EXCEPT ![u][i] = from]
  /\ UNCHANGED <<orderVars, paymentVars, walletVars, enrolled, cart, events, history,
                 gatewayVars, req>>

RevokeEntitlement(u, i) ==
  /\ "revoke" \in Kinds
  /\ access[u][i] # "none"
  /\ access' = [access EXCEPT ![u][i] = "none"]
  /\ UNCHANGED <<orderVars, paymentVars, walletVars, enrolled, cart, events, history,
                 gatewayVars, req>>

\* The learner enrolls: in a course once, in a roadmap as often as he likes.
Enroll(u, i) ==
  /\ "enroll" \in Kinds
  /\ access[u][i] # "none" /\ enrolled[u][i] = None
  /\ enrolled' = [enrolled EXCEPT ![u][i] = "unlinked"]
  /\ UNCHANGED <<orderVars, paymentVars, walletVars, access, cart, events, history,
                 gatewayVars, req>>

AddCourse(u, i) ==
  /\ "cart" \in Kinds
  /\ i \notin Bundles /\ ~Owned(u, i) /\ i \notin cart[u]
  /\ cart' = [cart EXCEPT ![u] = Unowned(u, @ \cup {i})]
  /\ UNCHANGED <<orderVars, paymentVars, walletVars, accessVars, events, history,
                 gatewayVars, req>>

\* removeCourse, removeItem; getCart where i is in no cart
RemoveCourse(u, i) ==
  /\ "cart" \in Kinds
  /\ cart' = [cart EXCEPT ![u] = Unowned(u, @ \ {i})]
  /\ UNCHANGED <<orderVars, paymentVars, walletVars, accessVars, events, history,
                 gatewayVars, req>>

EnsureWallet(u) ==
  /\ "adjust" \in Kinds
  /\ u \notin wallet
  /\ wallet' = wallet \cup {u}
  /\ UNCHANGED <<orderVars, paymentVars, balance, ledger, ledgerRow, accessVars, cart,
                 events, history, gatewayVars, req>>

-----------------------------------------------------------------------------
(* The gateway and the failures of this side.                              *)

\* The learner pays on the gateway's page, or the session ends unpaid: cancelled
\* there, or expired.  Who leaves the page of Stripe leaves its session open.
SettleSession(s) ==
  /\ session[s] = "open"
  /\ \E outcome \in {"paid", "cancelled"} : session' = [session EXCEPT ![s] = outcome]
  /\ UNCHANGED <<tables, sessionOf, acked, req>>

\* The process dies: the request is gone, nothing it would have caught runs.
Crash(r) ==
  /\ "faults" \in Kinds
  /\ ~At(r, "idle")
  /\ Begin(r, Idle)
  /\ UNCHANGED <<tables, gatewayVars>>

\* A database error (deadlock, lost connection, two lazily created wallets)
\* aborts the statement or transaction and the handler throws.  Clearing the cart
\* and releasing an event catch theirs: the row stays, as after a crash there.
DatabaseError(r) ==
  /\ Kinds \cap {"faults", "errors"} # {}
  /\ req[r].pc \notin {"idle", "clearCart", "release"}
  /\ Throw(r)

-----------------------------------------------------------------------------
\* The steps that carry a request already accepted towards its end.
Step(r) ==
  \/ PlaceOrder(r) \/ CreatePayment(r) \/ OpenSession(r) \/ ProviderUnavailable(r)
  \/ SaveSession(r) \/ RetryPayment(r) \/ ReopenOrder(r)
  \/ VerifySucceeds(r) \/ VerifyFails(r) \/ VerifyThrows(r)
  \/ FailPayment(r) \/ FailOrder(r)
  \/ HandleCheckoutCompleted(r) \/ ReleaseEvent(r)
  \/ ReadForCompletion(r) \/ CompletePayment(r) \/ LoseCompletionRace(r)
  \/ AbortCompletion(r) \/ ClearCart(r)
  \/ RefundPayment(r) \/ AbortRefund(r) \/ WriteAdjustment(r)

Arrive(r) ==
  \/ \E o \in Orders :
       Checkout(r, o) \/ CheckoutCart(r, o) \/ Retry(r, o) \/ Confirm(r, o) \/ Refund(r, o)
  \/ \E s \in Sessions : Webhook(r, s)
  \/ \E o \in Orders, s \in Sessions \cup {None}, public \in BOOLEAN :
       Callback(r, o, s, public)
  \/ \E u \in Users : AdjustWallet(r, u)

Environment ==
  \/ \E s \in Sessions : SettleSession(s) \/ DuplicateWebhook(s)
  \/ \E u \in Users : EnsureWallet(u)
  \/ \E u \in Users, i \in Items :
       GrantEntitlement(u, i) \/ RevokeEntitlement(u, i) \/ Enroll(u, i)
         \/ AddCourse(u, i) \/ RemoveCourse(u, i)

Next ==
  \/ \E r \in Requests : Arrive(r) \/ Step(r) \/ Crash(r) \/ DatabaseError(r)
  \/ Environment

Spec == Init /\ [][Next]_vars

\* The request that holds the event of session s.
Handles(r, s) == req[r].event /\ req[r].s = s

\* A request once accepted runs on, Stripe redelivers what is not acknowledged, and
\* a database error passes: what is tried for an event again and again succeeds.
FairSpec ==
  /\ Spec
  /\ \A r \in Requests : WF_vars(Step(r))
  /\ \A s \in Sessions :
       /\ SF_vars(DuplicateWebhook(s) \/ \E r \in Requests : Webhook(r, s))
       /\ SF_vars(\E r \in Requests : Handles(r, s) /\ HandleCheckoutCompleted(r))
       /\ SF_vars(\E r \in Requests : Handles(r, s) /\ ReadForCompletion(r))
       /\ SF_vars(\E r \in Requests : Handles(r, s) /\ CompletePayment(r))

-----------------------------------------------------------------------------
(* Properties *)

TablesOK ==
  /\ order \in [Orders -> OrderStatus \cup {"none"}]
  /\ items \in [Orders -> SUBSET Items]
  /\ source \in [Orders -> {"CART", "DIRECT"}]
  /\ invoice \in SUBSET Orders
  /\ payment \in [Orders -> PaymentStatus \cup {"none"}]
  /\ gatewayRef \in [Orders -> Refs]
  /\ wallet \in SUBSET Users
  /\ balance \in [Users -> Nat]
  /\ ledger \in [Users -> Int]
  /\ ledgerRow \in [Orders -> {"none", "DEBIT", "CREDIT"}]
  /\ access \in [Users -> [Items -> Sources \cup {"none"}]]
  /\ enrolled \in [Users -> [Items -> Enrollments]]
  /\ cart \in [Users -> SUBSET Items]
  /\ events \in SUBSET Sessions
  /\ completions \in [Orders -> Nat]
  /\ refunds \in [Orders -> Nat]

GatewayOK ==
  /\ sessionOf \in [Sessions -> Orders \cup {None}]
  /\ session \in [Sessions -> {"free", "created", "open", "paid", "cancelled"}]
  /\ acked \in SUBSET Sessions

\* The type invariant: the tables, the gateway and the requests in flight.
TypeOK == TablesOK /\ GatewayOK /\ req \in [Requests -> Request]

(***************************************************************************)
(* The effects of completing a payment (ledger entry, invoice, access) are *)
(* applied at most once in the life of an order and money is returned at   *)
(* most once, however callbacks, webhooks, confirmations, retries and      *)
(* refunds of that order interleave (completePayment, refundPayment).      *)
(***************************************************************************)
MoneyMovesOnce == \A o \in Orders : completions[o] <= 1 /\ refunds[o] <= 1

(***************************************************************************)
(* A paid or refunded order, and a payment that counts as settled, has its *)
(* completion, its invoice and, unless it is older than the ledger, its    *)
(* wallet entry: no interleaving leaves money without its records (the     *)
(* transaction of completePayment and markOrderPaidAndCreateInvoiceTx).    *)
(***************************************************************************)
SettledIsBooked ==
  \A o \in Orders :
    order[o] \in {"PAID", "REFUNDED"} \/ payment[o] \in Settled =>
      /\ o \in invoice /\ completions[o] = 1
      /\ o \notin Legacy => ledgerRow[o] = "DEBIT"

(***************************************************************************)
(* No two requests process the same Stripe event, although a failed one    *)
(* releases it again: the event row is the claim (handleStripeWebhook).    *)
(***************************************************************************)
OneHandlerPerEvent ==
  \A q, r \in Requests :
    req[q].event /\ req[r].event /\ req[q].s = req[r].s => q = r

(***************************************************************************)
(* As long as no retry runs, order and payment tell the same story although*)
(* verifyGatewayCallback writes them in two separate statements: an order  *)
(* is paid exactly when its payment is, and fails only with its payment.   *)
(***************************************************************************)
OrderMatchesPayment ==
  \A o \in Orders :
    /\ order[o] = "PAID" <=> payment[o] \in {"COMPLETED", "PARTIALLY_REFUNDED"}
    /\ order[o] = "REFUNDED" <=> payment[o] = "REFUNDED"
    /\ order[o] = "FAILED" => payment[o] = "FAILED"

(***************************************************************************)
(* Balance and ledger of a wallet move together, except in adjustWallet    *)
(* when the balance it has read is no longer the wallet's.                 *)
(***************************************************************************)
DriftOnlyByStaleAdjustment ==
  [][\A u \in Users :
       balance'[u] - ledger'[u] # balance[u] - ledger[u] =>
         \E r \in Requests : /\ At(r, "adjust") /\ req[r].u = u
                             /\ req[r].bal # balance[u]
                             /\ req'[r] = Idle]_vars

(***************************************************************************)
(* A refund never takes away access that does not come from a purchase: an *)
(* admin's gift goes only by revokeEntitlement (revokeEntitlementsTx).     *)
(***************************************************************************)
RefundSparesGifts ==
  [][\A u \in Users, i \in Items :
       access[u][i] \in {"FREE", "CHALLENGE"} /\ access'[u][i] = "none" =>
         RevokeEntitlement(u, i)]_vars

(***************************************************************************)
(* An enrolled roadmap names, if any, a payment whose money has arrived    *)
(* and was not returned, while retries leave completed payments alone and  *)
(* whatever was bought, refunded, granted and revoked around it            *)
(* (grantEntitlements, revokeEntitlementsTx, Roadmap.paymentId).           *)
(***************************************************************************)
RoadmapIsPaid ==
  \A u \in Users, b \in Bundles :
    enrolled[u][b] \in Orders =>
      payment[enrolled[u][b]] \in {"COMPLETED", "PARTIALLY_REFUNDED"}

(***************************************************************************)
(* Payments implements the abstract life cycle (payment-state.ts).         *)
(***************************************************************************)
Lifecycle == INSTANCE PaymentLifecycle WITH status <- payment

ImplementsLifecycle == Lifecycle!Spec

(***************************************************************************)
(* With retries, the one step that leaves the life cycle is the reset in   *)
(* retryPayment of a payment that is no longer in the status it has read.  *)
(***************************************************************************)
StaleReset(r) ==
  At(r, "retryPayment") /\ ResetPayment(r) /\ payment[req[r].o] # req[r].seen

LeavesLifecycleByStaleReset ==
  [][Lifecycle!Next \/ \E r \in Requests : StaleReset(r)]_<<payment, completions, refunds>>

\* A callback is about to fail a payment that is still open.
ReportedFailed(o) ==
  \E r \in Requests :
    At(r, "failPayment") /\ req[r].o = o /\ payment[o] \in {"PENDING", "PROCESSING"}

\* A handler has failed after another delivery of its event was acknowledged.
AcknowledgedInVain(o) ==
  \E r \in Requests : At(r, "release") /\ req[r].o = o /\ req[r].s \in acked

(***************************************************************************)
(* A payment made on Stripe's page ends up COMPLETED by its webhook, how-  *)
(* ever often its handler fails, releases the event and is called again    *)
(* (handleStripeWebhook).  Two races alone prevent it.  A callback whose   *)
(* status says the payment failed finds it open, before it was paid or     *)
(* after: FAILED is never completed, whatever Stripe delivers.  A delivery *)
(* is acknowledged as a duplicate of the handler that then fails: the row  *)
(* released is claimed by nobody again.                                    *)
(***************************************************************************)
PaidIsCompleted ==
  \A o \in Orders :
    []~(ReportedFailed(o) \/ AcknowledgedInVain(o)) =>
      ((\E s \in Sessions : sessionOf[s] = o /\ session[s] = "paid")
         ~> payment[o] = "COMPLETED")

-----------------------------------------------------------------------------
(* What the repository says of the program and the program does not do.    *)

(***************************************************************************)
(* payment-state.ts: "The ONLY way a payment may change state is along one *)
(* of these edges, enforced both here (service layer) and with atomic      *)
(* conditional UPDATE claims".                                             *)
(***************************************************************************)
OnlyTabledEdges ==
  [][\A o \in Orders :
       payment'[o] = payment[o] \/ payment[o] = "none"
         \/ payment'[o] \in PAYMENT_TRANSITIONS[payment[o]]]_vars

(***************************************************************************)
(* recordWalletDebitTx creates the wallet of a learner who has none, at 0, *)
(* and decrements it: a verified payment completes (the unit tests expect  *)
(* a balance of -1000).                                                    *)
(***************************************************************************)
VerifiedIsCompleted ==
  \A o \in Orders :
    (\E r \in Requests : At(r, "commit") /\ req[r].o = o) ~> payment[o] = "COMPLETED"

(***************************************************************************)
(* recordWalletCreditTx: a refund accepted for a completed payment gets    *)
(* its CREDIT entry, linked to the original payment.                       *)
(***************************************************************************)
RefundIsRecorded ==
  \A o \in Orders :
    (\E r \in Requests : At(r, "refund") /\ req[r].o = o) ~> refunds[o] > 0

(***************************************************************************)
(* PaymentWebhookEvent: an event acknowledged as a duplicate has had its   *)
(* side effects ("already processed"), or is having them.                  *)
(***************************************************************************)
AcknowledgedIsProcessed ==
  \A s \in acked :
    \/ payment[sessionOf[s]] # "PENDING"
    \/ \E r \in Requests : Handles(r, s)

=============================================================================
