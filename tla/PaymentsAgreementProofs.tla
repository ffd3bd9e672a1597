---------------------- MODULE PaymentsAgreementProofs -----------------------
(***************************************************************************)
(* Without retries, order and payment tell the same story and an enrolled  *)
(* roadmap is a paid one, for every number of learners, orders, sessions   *)
(* and requests.                                                           *)
(*                                                                         *)
(* Agreement splits into the rows, the gateway's sessions and the requests.*)
(* The rows are shown first, with RowsKept: what no step undoes.  What the *)
(* other two say follows for whoever does not take the step from RowsKept. *)
(***************************************************************************)
EXTENDS PaymentsInvariantProofs

\* Rows stay, and so does the outcome of a payment.
RowsKept ==
  \A o \in Orders :
    /\ order[o] # "none" => order'[o] # "none"
    /\ payment[o] # "none" => payment'[o] # "none"
    /\ payment[o] \notin {"none", "PENDING", "PROCESSING"} =>
         payment'[o] \notin {"none", "PENDING", "PROCESSING"}

\* An order row appears only under the request about to create it.
CreatesOwn(r) ==
  \A o \in Orders : order[o] = "none" /\ order'[o] # "none" =>
                      At(r, "placeOrder") /\ req[r].o = o

rows == <<order, items, payment, enrolled>>

\* Nobody is in a retry.
LEMMA NoRetry ==
  ASSUME "retry" \notin Kinds, Inv, NEW r \in Requests
  PROVE  ~At(r, "retryPayment") /\ ~At(r, "reopenOrder") /\ \A o \in Orders : ~Retry(r, o)
  BY DEF Inv, Control, RequestsOK, RequestOK, At, Retry, Free

-----------------------------------------------------------------------------
(* The rows. *)

\* Steps that write none of them.
LEMMA RowsUnchanged ==
  ASSUME Agreement, UNCHANGED rows
  PROVE  RowsAgree' /\ RowsKept /\ \A r : CreatesOwn(r)
  BY DEF Agreement, RowsAgree, OrderMatchesPayment, RoadmapIsPaid, RoadmapsOK, RowsKept,
         CreatesOwn, rows

\* createOrderAndPay: the new order has no payment yet, so no roadmap names it.
LEMMA PlaceOrderRows ==
  ASSUME Inv, Agreement, NEW r \in Requests, PlaceOrder(r)
  PROVE  RowsAgree' /\ RowsKept /\ CreatesOwn(r)
<1>. DEFINE o == req[r].o
<1>1. /\ o \in Orders /\ order[o] = "none" /\ payment[o] = "none"
      /\ req[r].lines \in SUBSET Items
  BY DEF Inv, Control, RequestsOK, RequestOK, Request, Agreement, RequestsAgree, AgreementOf,
         RowsAgree, PlaceOrder, At
<1>2. /\ order' = [order EXCEPT ![o] = "AWAITING_PAYMENT"]
      /\ items' = [items EXCEPT ![o] = req[r].lines]
      /\ UNCHANGED <<payment, enrolled>> /\ At(r, "placeOrder")
  BY DEF PlaceOrder, paymentVars, accessVars
<1>3. order \in [Orders -> OrderStatus \cup {"none"}] /\ items \in [Orders -> SUBSET Items]
  BY DEF Inv, Data, TablesOK
<1>4. OrderMatchesPayment' /\ RowsKept /\ CreatesOwn(r)
        /\ \A p \in Orders : payment'[p] # "none" => order'[p] # "none"
  BY <1>1, <1>2, <1>3 DEF Agreement, RowsAgree, OrderMatchesPayment, RowsKept, CreatesOwn
<1>5. RoadmapIsPaid' /\ RoadmapsOK'
  BY <1>1, <1>2, <1>3 DEF Agreement, RowsAgree, RoadmapIsPaid, RoadmapsOK
<1>. QED  BY <1>4, <1>5 DEF RowsAgree

\* A payment status that is not a settled one disturbs no roadmap.
LEMMA OpenPaymentRows ==
  ASSUME Inv, Agreement, NEW o \in Orders, payment[o] \notin Settled, NEW status,
         payment' = [payment EXCEPT ![o] = status], UNCHANGED <<items, enrolled>>
  PROVE  RoadmapIsPaid' /\ RoadmapsOK'
<1>1. payment \in [Orders -> PaymentStatus \cup {"none"}]
  BY DEF Inv, Data, TablesOK
<1>. QED  BY <1>1 DEF Agreement, RowsAgree, RoadmapIsPaid, RoadmapsOK, Settled

\* createOrderAndPay: the payment follows its order.
LEMMA CreatePaymentRows ==
  ASSUME Inv, Agreement, NEW r \in Requests, CreatePayment(r), ~UNCHANGED rows
  PROVE  RowsAgree' /\ RowsKept /\ CreatesOwn(r)
<1>. DEFINE o == req[r].o
<1>1. o \in Orders /\ order[o] # "none"
  BY DEF Inv, Control, RequestsOK, RequestOK, Agreement, RequestsAgree, AgreementOf,
         CreatePayment, At
<1>2. payment[o] = "none" /\ payment' = [payment EXCEPT ![o] = "PENDING"]
        /\ UNCHANGED <<order, items, enrolled>>
  BY DEF CreatePayment, InsertPayment, Throw, tables, rows, orderVars, paymentVars, accessVars
<1>3. payment \in [Orders -> PaymentStatus \cup {"none"}]
  BY DEF Inv, Data, TablesOK
<1>4. OrderMatchesPayment' /\ RowsKept /\ CreatesOwn(r)
        /\ \A p \in Orders : payment'[p] # "none" => order'[p] # "none"
  BY <1>1, <1>2, <1>3 DEF Agreement, RowsAgree, OrderMatchesPayment, RowsKept, CreatesOwn
<1>. QED  BY <1>1, <1>2, <1>4, OpenPaymentRows DEF RowsAgree, Settled

\* verifyGatewayCallback fails the payment: an open payment has an open order, ...
LEMMA FailPaymentRows ==
  ASSUME Inv, Agreement, NEW r \in Requests, FailPayment(r), ~UNCHANGED rows
  PROVE  RowsAgree' /\ RowsKept /\ CreatesOwn(r)
<1>. DEFINE o == req[r].o
<1>1. o \in Orders
  BY DEF Inv, Control, RequestsOK, RequestOK, FailPayment, At
<1>2. payment[o] \in {"PENDING", "PROCESSING"} /\ payment' = [payment EXCEPT ![o] = "FAILED"]
        /\ UNCHANGED <<order, items, enrolled>>
  BY DEF FailPayment, rows, orderVars, paymentVars, accessVars
<1>3. payment \in [Orders -> PaymentStatus \cup {"none"}]
  BY DEF Inv, Data, TablesOK
<1>4. OrderMatchesPayment' /\ RowsKept /\ CreatesOwn(r)
        /\ \A p \in Orders : payment'[p] # "none" => order'[p] # "none"
  BY <1>1, <1>2, <1>3 DEF Agreement, RowsAgree, OrderMatchesPayment, RowsKept, CreatesOwn
<1>. QED  BY <1>1, <1>2, <1>4, OpenPaymentRows DEF RowsAgree, Settled

\* ... then the order: its payment has failed, for a settled one has a paid order.
LEMMA FailOrderRows ==
  ASSUME Inv, Agreement, NEW r \in Requests, FailOrder(r), ~UNCHANGED rows
  PROVE  RowsAgree' /\ RowsKept /\ CreatesOwn(r)
<1>. DEFINE o == req[r].o
<1>1. o \in Orders /\ payment[o] \notin {"none", "PENDING", "PROCESSING"}
  BY DEF Inv, Control, RequestsOK, RequestOK, Agreement, RequestsAgree, AgreementOf,
         FailOrder, At
<1>2. order[o] \in {"PENDING", "AWAITING_PAYMENT"} /\ order' = [order EXCEPT ![o] = "FAILED"]
        /\ UNCHANGED <<payment, items, enrolled>>
  BY DEF FailOrder, rows, paymentVars, accessVars
<1>3. order \in [Orders -> OrderStatus \cup {"none"}] /\ payment[o] = "FAILED"
  BY <1>1, <1>2 DEF Inv, Data, TablesOK, BooksOK, PaymentStatus, Agreement, RowsAgree,
                    OrderMatchesPayment
<1>4. OrderMatchesPayment' /\ RowsKept /\ CreatesOwn(r)
        /\ \A p \in Orders : payment'[p] # "none" => order'[p] # "none"
  BY <1>1, <1>2, <1>3 DEF Agreement, RowsAgree, OrderMatchesPayment, RowsKept, CreatesOwn
<1>5. RoadmapIsPaid' /\ RoadmapsOK'
  BY <1>2 DEF Agreement, RowsAgree, RoadmapIsPaid, RoadmapsOK
<1>. QED  BY <1>4, <1>5 DEF RowsAgree

\* completePayment: without a ledger entry there is no invoice, so the order is paid.
LEMMA CompletePaymentRows ==
  ASSUME Inv, Agreement, NEW r \in Requests, CompletePayment(r)
  PROVE  RowsAgree' /\ RowsKept /\ CreatesOwn(r)
<1>. DEFINE o == req[r].o
            u == Owner[o]
<1>1. o \in Orders /\ u \in Users
  <2>1. o \in Orders
    BY DEF Inv, Control, RequestsOK, RequestOK, CompletePayment, At
  <2>. QED  BY <2>1, PaymentsAssumption
<1>2. /\ payment[o] \in COMPLETABLE_PAYMENT_STATES
      /\ payment' = [payment EXCEPT ![o] = "COMPLETED"]
      /\ GrantEntitlements(u, o) /\ ledgerRow[o] = "none"
      /\ MarkOrderPaidAndCreateInvoice(o) /\ UNCHANGED items
  BY DEF CompletePayment, RecordWalletDebit
<1>. HIDE DEF o, u
<1>3. /\ payment \in [Orders -> PaymentStatus \cup {"none"}]
      /\ order \in [Orders -> OrderStatus \cup {"none"}]
      /\ enrolled \in [Users -> [Items -> Enrollments]]
  BY DEF Inv, Data, TablesOK
<1>4. order' = [order EXCEPT ![o] = "PAID"] /\ order[o] # "none"
  <2>1. o \notin invoice
    BY <1>1, <1>2 DEF Inv, Data, BooksOK, COMPLETABLE_PAYMENT_STATES, Settled
  <2>2. order[o] # "none"
    BY <1>1, <1>2 DEF Agreement, RowsAgree, COMPLETABLE_PAYMENT_STATES
  <2>. QED  BY <1>2, <2>1, <2>2 DEF MarkOrderPaidAndCreateInvoice
<1>5. OrderMatchesPayment' /\ RowsKept /\ CreatesOwn(r)
        /\ \A p \in Orders : payment'[p] # "none" => order'[p] # "none"
  BY <1>1, <1>2, <1>3, <1>4 DEF Agreement, RowsAgree, OrderMatchesPayment, RowsKept, CreatesOwn,
     COMPLETABLE_PAYMENT_STATES
<1>6. ASSUME NEW v \in Users, NEW b \in Bundles, enrolled'[v][b] \in Orders
      PROVE  /\ payment'[enrolled'[v][b]] \in {"COMPLETED", "PARTIALLY_REFUNDED"}
             /\ Owner[enrolled'[v][b]] = v /\ b \in items'[enrolled'[v][b]]
  <2>1. b \in Items
    BY PaymentsAssumption
  <2>2. \/ enrolled'[v][b] = o /\ v = u /\ b \in items[o]
        \/ enrolled'[v][b] = enrolled[v][b]
    BY <1>1, <1>2, <1>3, <2>1 DEF GrantEntitlements
  <2>3. CASE enrolled'[v][b] = o /\ v = u /\ b \in items[o]
    BY <1>1, <1>2, <1>3, <2>3 DEF u
  <2>4. CASE enrolled'[v][b] = enrolled[v][b]
    BY <1>1, <1>2, <1>3, <1>6, <2>4 DEF Agreement, RowsAgree, RoadmapIsPaid, RoadmapsOK
  <2>. QED  BY <2>2, <2>3, <2>4
<1>7. RoadmapIsPaid' /\ RoadmapsOK'
  BY <1>6 DEF RoadmapIsPaid, RoadmapsOK
<1>. QED  BY <1>5, <1>7 DEF RowsAgree

\* refundPayment: a full refund takes back the roadmaps that name the order.
LEMMA RefundPaymentRows ==
  ASSUME Inv, Agreement, NEW r \in Requests, RefundPayment(r)
  PROVE  RowsAgree' /\ RowsKept /\ CreatesOwn(r)
<1>. DEFINE o == req[r].o
            u == Owner[o]
            full == req[r].amt = Amount(o)
<1>1. o \in Orders /\ u \in Users /\ payment[o] \in {"COMPLETED", "REFUNDED"}
  <2>1. o \in Orders /\ payment[o] \in {"COMPLETED", "REFUNDED"}
    BY DEF Inv, Control, RequestsOK, RequestOK, RefundPayment, At
  <2>. QED  BY <2>1, PaymentsAssumption
<1>2. /\ payment' = [payment EXCEPT ![o] = IF full THEN "REFUNDED" ELSE "PARTIALLY_REFUNDED"]
      /\ ledgerRow[o] = "none" /\ UNCHANGED items
      /\ IF full
         THEN /\ RevokeEntitlements(u, o)
              /\ order' = IF order[o] = "PAID" THEN [order EXCEPT ![o] = "REFUNDED"] ELSE order
         ELSE UNCHANGED <<enrolled, order>>
  BY DEF RefundPayment, RecordWalletCredit, accessVars
<1>. HIDE DEF o, u, full
<1>3. /\ payment \in [Orders -> PaymentStatus \cup {"none"}]
      /\ order \in [Orders -> OrderStatus \cup {"none"}]
      /\ enrolled \in [Users -> [Items -> Enrollments]]
  BY DEF Inv, Data, TablesOK
<1>4. payment[o] = "COMPLETED" /\ order[o] = "PAID"
  BY <1>1, <1>2 DEF Inv, Data, BooksOK, Agreement, RowsAgree, OrderMatchesPayment
<1>5. OrderMatchesPayment' /\ RowsKept /\ CreatesOwn(r)
        /\ \A p \in Orders : payment'[p] # "none" => order'[p] # "none"
  BY <1>1, <1>2, <1>3, <1>4 DEF Agreement, RowsAgree, OrderMatchesPayment, RowsKept, CreatesOwn
<1>6. ASSUME NEW v \in Users, NEW b \in Bundles, enrolled'[v][b] \in Orders
      PROVE  /\ payment'[enrolled'[v][b]] \in {"COMPLETED", "PARTIALLY_REFUNDED"}
             /\ Owner[enrolled'[v][b]] = v /\ b \in items'[enrolled'[v][b]]
  <2>1. b \in Items /\ None \notin Orders
    BY PaymentsAssumption
  <2>2. enrolled'[v][b] = enrolled[v][b]
    BY <1>1, <1>2, <1>3, <1>6, <2>1 DEF RevokeEntitlements
  <2>3. /\ payment[enrolled[v][b]] \in {"COMPLETED", "PARTIALLY_REFUNDED"}
        /\ Owner[enrolled[v][b]] = v /\ b \in items[enrolled[v][b]]
    BY <1>6, <2>2 DEF Agreement, RowsAgree, RoadmapIsPaid, RoadmapsOK
  <2>4. full => enrolled[v][b] # o
    BY <1>1, <1>2, <1>3, <1>6, <2>1, <2>2, <2>3 DEF RevokeEntitlements, u
  <2>. QED  BY <1>1, <1>2, <1>3, <1>6, <2>2, <2>3, <2>4
<1>7. RoadmapIsPaid' /\ RoadmapsOK'
  BY <1>6 DEF RoadmapIsPaid, RoadmapsOK
<1>. QED  BY <1>5, <1>7 DEF RowsAgree

-----------------------------------------------------------------------------
(* The requests. *)

\* What a request that begins or goes on must find in the rows; the others keep
\* what they had.
LEMMA BeginAgrees ==
  ASSUME Inv, RequestsAgree, RowsKept, NEW r \in Requests, CreatesOwn(r),
         NEW new, Begin(r, new),
         new.pc = "placeOrder" =>
           order'[new.o] = "none" /\ \A q \in Requests \ {r} : req[q].o # new.o,
         new.pc = "createPayment" => order'[new.o] # "none",
         new.pc \in {"openSession", "verify", "failPayment", "failOrder"} =>
           payment'[new.o] # "none",
         new.pc = "failOrder" => payment'[new.o] \notin {"PENDING", "PROCESSING"}
  PROVE  RequestsAgree'
<1>1. req' = [req EXCEPT ![r] = new] /\ req \in [Requests -> Request]
  BY DEF Begin, Inv, Control
<1>2. AgreementOf(r)'
  BY <1>1 DEF AgreementOf, At
<1>3. ASSUME NEW q \in Requests \ {r}
      PROVE  AgreementOf(q)'
  <2>. DEFINE o == req[q].o
  <2>1. AgreementOf(q) /\ AgreementOf(r) /\ req'[q] = req[q] /\ req'[r] = new
    BY <1>1 DEF RequestsAgree
  <2>2. req[q].pc \notin {"idle", "adjust"} => o \in Orders
    BY DEF Inv, Control, RequestsOK, RequestOK
  <2>3. At(q, "placeOrder") =>
          order'[o] = "none" /\ \A p \in Requests : At(p, "placeOrder") /\ req[p].o = o => p = q
    BY <2>1, <2>2 DEF AgreementOf, CreatesOwn, At
  <2>4. At(q, "placeOrder")' =>
          /\ order'[req'[q].o] = "none"
          /\ \A p \in Requests : At(p, "placeOrder")' /\ req'[p].o = req'[q].o => p = q
    BY <1>1, <2>1, <2>3 DEF At
  <2>5. /\ At(q, "createPayment")' => order'[req'[q].o] # "none"
        /\ req'[q].pc \in {"openSession", "verify", "failPayment", "failOrder"} =>
             payment'[req'[q].o] # "none"
        /\ At(q, "failOrder")' => payment'[req'[q].o] \notin {"PENDING", "PROCESSING"}
    BY <2>1, <2>2 DEF AgreementOf, At, RowsKept
  <2>. QED  BY <2>4, <2>5 DEF AgreementOf
<1>. QED  BY <1>2, <1>3 DEF RequestsAgree

\* The same for a request that moves to its next step, ...
LEMMA GotoAgrees ==
  ASSUME Inv, RequestsAgree, RowsKept, NEW r \in Requests, CreatesOwn(r),
         NEW step \in Steps \ {"placeOrder"}, Goto(r, step),
         step = "createPayment" => order'[req[r].o] # "none",
         step \in {"openSession", "verify", "failPayment", "failOrder"} =>
           payment'[req[r].o] # "none",
         step = "failOrder" => payment'[req[r].o] \notin {"PENDING", "PROCESSING"}
  PROVE  RequestsAgree'
<1>. DEFINE next == [req[r] EXCEPT !.pc = step]
<1>1. req[r] \in Request
  BY DEF Inv, Control
<1>2. next.pc = step /\ next.o = req[r].o
  BY <1>1, Zenon DEF Request
<1>3. Begin(r, next)
  BY DEF Goto
<1>. HIDE DEF next
<1>. QED  BY <1>2, <1>3, BeginAgrees

\* ... that ends, ...
LEMMA IdleAgrees ==
  ASSUME Inv, RequestsAgree, RowsKept, NEW r \in Requests, CreatesOwn(r), Begin(r, Idle)
  PROVE  RequestsAgree'
<1>1. Idle.pc = "idle"
  BY DEF Idle
<1>. QED  BY <1>1, BeginAgrees

\* ... or throws.
LEMMA ThrowAgrees ==
  ASSUME Inv, RequestsAgree, RowsKept, NEW r \in Requests, CreatesOwn(r), Throw(r)
  PROVE  RequestsAgree'
  BY GotoAgrees, IdleAgrees DEF Throw, Steps

\* A new request: the order of a checkout is fresh, a callback names a payment.
LEMMA ArriveAgrees ==
  ASSUME "retry" \notin Kinds, Inv, RequestsAgree, RowsKept,
         NEW r \in Requests, CreatesOwn(r), Arrive(r)
  PROVE  RequestsAgree'
<1>1. req \in [Requests -> Request] /\ \A o \in Orders : ~Retry(r, o)
  BY NoRetry DEF Inv, Control
<1>2. UNCHANGED <<order, payment>>
  BY DEF Arrive, Checkout, CheckoutCart, Retry, Confirm, Refund, Webhook, Callback,
         AdjustWallet, tables, orderVars, paymentVars
<1>3. ASSUME NEW o \in Orders, Fresh(o), NEW L, NEW from, Begin(r, NewOrder(o, L, from))
      PROVE  RequestsAgree'
  <2>. DEFINE new == NewOrder(o, L, from)
  <2>1. new.pc = "placeOrder" /\ new.o = o
    BY IdleOK, Zenon DEF NewOrder, Request
  <2>2. order'[o] = "none" /\ \A q \in Requests : req[q].o # o
    BY <1>2, <1>3 DEF Fresh
  <2>. HIDE DEF new
  <2>. QED  BY <1>3, <2>1, <2>2, BeginAgrees DEF new
<1>4. ASSUME NEW o \in Orders, Checkout(r, o) \/ CheckoutCart(r, o)
      PROVE  RequestsAgree'
  <2>1. CASE UNCHANGED req
    <3>1. order' = order /\ payment' = payment /\ req' = req
      BY <1>2, <2>1
    <3>. QED  BY <3>1 DEF RequestsAgree, AgreementOf, At
  <2>2. CASE ~UNCHANGED req
    BY <1>3, <1>4, <2>2 DEF Checkout, CheckoutCart
  <2>. QED  BY <2>1, <2>2
<1>5. ASSUME NEW new, Begin(r, new), new.pc \in {"complete", "refund", "webhook", "adjust"}
      PROVE  RequestsAgree'
  BY <1>5, BeginAgrees
<1>6. ASSUME NEW o \in Orders, Confirm(r, o)
      PROVE  RequestsAgree'
  <2>. DEFINE new == [Idle EXCEPT !.pc = "complete", !.o = o]
  <2>1. new.pc = "complete"
    BY IdleOK, Zenon DEF Request
  <2>2. Begin(r, new)
    BY <1>6 DEF Confirm
  <2>. HIDE DEF new
  <2>. QED  BY <1>5, <2>1, <2>2
<1>7. ASSUME NEW o \in Orders, Refund(r, o)
      PROVE  RequestsAgree'
  <2>1. PICK amt : Begin(r, [Idle EXCEPT !.pc = "refund", !.o = o, !.seen = payment[o],
                                         !.amt = amt])
    BY <1>7 DEF Refund
  <2>. DEFINE new == [Idle EXCEPT !.pc = "refund", !.o = o, !.seen = payment[o], !.amt = amt]
  <2>2. new.pc = "refund"
    BY IdleOK, Zenon DEF Request
  <2>3. Begin(r, new)
    BY <2>1
  <2>. HIDE DEF new
  <2>. QED  BY <1>5, <2>2, <2>3
<1>8. ASSUME NEW u \in Users, AdjustWallet(r, u)
      PROVE  RequestsAgree'
  <2>1. PICK amt : Begin(r, [Idle EXCEPT !.pc = "adjust", !.u = u, !.amt = amt,
                                         !.bal = balance[u]])
    BY <1>8 DEF AdjustWallet
  <2>. DEFINE new == [Idle EXCEPT !.pc = "adjust", !.u = u, !.amt = amt, !.bal = balance[u]]
  <2>2. new.pc = "adjust"
    BY IdleOK, Zenon DEF Request
  <2>3. Begin(r, new)
    BY <2>1
  <2>. HIDE DEF new
  <2>. QED  BY <1>5, <2>2, <2>3
<1>9. ASSUME NEW s \in Sessions, Webhook(r, s)
      PROVE  RequestsAgree'
  <2>. DEFINE new == [Idle EXCEPT !.pc = "webhook", !.o = sessionOf[s], !.s = s,
                                  !.ref = s, !.event = TRUE]
  <2>1. new.pc = "webhook"
    BY IdleOK, Zenon DEF Request
  <2>2. Begin(r, new)
    BY <1>9 DEF Webhook
  <2>. HIDE DEF new
  <2>. QED  BY <1>5, <2>1, <2>2
<1>10. ASSUME NEW o \in Orders, NEW s \in Sessions \cup {None}, NEW public \in BOOLEAN,
              Callback(r, o, s, public)
       PROVE  RequestsAgree'
  <2>. DEFINE new == [Idle EXCEPT !.pc = "verify", !.o = o, !.s = s, !.ref = gatewayRef[o]]
  <2>1. new.pc = "verify" /\ new.o = o
    BY IdleOK, Zenon DEF Request
  <2>2. Begin(r, new) /\ payment'[o] # "none"
    BY <1>2, <1>10 DEF Callback
  <2>. HIDE DEF new
  <2>. QED  BY <2>1, <2>2, BeginAgrees
<1>. QED  BY <1>1, <1>4, <1>6, <1>7, <1>8, <1>9, <1>10 DEF Arrive

\* Every step of a request finds the rows its next step relies on.
LEMMA StepAgrees ==
  ASSUME "retry" \notin Kinds, Inv, RequestsAgree, RowsKept,
         NEW r \in Requests, CreatesOwn(r), Step(r)
  PROVE  RequestsAgree'
<1>. DEFINE o == req[r].o
<1>1. /\ req[r] \in Request /\ AgreementOf(r)
      /\ req[r].pc \notin {"idle", "adjust"} => o \in Orders
      /\ ~RetryPayment(r) /\ ~ReopenOrder(r)
  BY NoRetry DEF Inv, Control, RequestsOK, RequestOK, RequestsAgree, RetryPayment, ReopenOrder
<1>2. order \in [Orders -> OrderStatus \cup {"none"}]
        /\ payment \in [Orders -> PaymentStatus \cup {"none"}]
  BY DEF Inv, Data, TablesOK
<1>3. CASE PlaceOrder(r)
  <2>1. Goto(r, "createPayment") /\ order'[o] # "none"
    BY <1>1, <1>2, <1>3 DEF PlaceOrder, At
  <2>. QED  BY <2>1, GotoAgrees DEF Steps
<1>4. CASE CreatePayment(r)
  <2>1. CASE InsertPayment(r, "openSession")
    <3>1. Goto(r, "openSession") /\ payment'[o] # "none"
      BY <1>1, <1>2, <1>4, <2>1 DEF CreatePayment, InsertPayment, At
    <3>. QED  BY <3>1, GotoAgrees DEF Steps
  <2>. QED  BY <1>4, <2>1, ThrowAgrees DEF CreatePayment
<1>5. CASE OpenSession(r)
  <2>1. CASE Provider = "dev"
    BY <1>5, <2>1, GotoAgrees DEF OpenSession, Steps
  <2>2. CASE Provider # "dev"
    <3>1. PICK s : Begin(r, [req[r] EXCEPT !.pc = "saveSession", !.s = s])
      BY <1>5, <2>2 DEF OpenSession
    <3>. DEFINE new == [req[r] EXCEPT !.pc = "saveSession", !.s = s]
    <3>2. new.pc = "saveSession"
      BY <1>1, Zenon DEF Request
    <3>3. Begin(r, new)
      BY <3>1
    <3>. HIDE DEF new
    <3>. QED  BY <3>2, <3>3, BeginAgrees
  <2>. QED  BY <2>1, <2>2
<1>6. CASE VerifySucceeds(r) \/ VerifyFails(r)
  <2>1. payment'[o] # "none"
    BY <1>1, <1>6 DEF AgreementOf, VerifySucceeds, VerifyFails, At, tables, paymentVars
  <2>2. ASSUME NEW step \in {"complete", "failPayment"}, NEW ref,
               Begin(r, [req[r] EXCEPT !.pc = step, !.ref = ref])
        PROVE  RequestsAgree'
    <3>. DEFINE new == [req[r] EXCEPT !.pc = step, !.ref = ref]
    <3>1. new.pc = step /\ new.o = o
      BY <1>1, Zenon DEF Request
    <3>2. Begin(r, new)
      BY <2>2
    <3>. HIDE DEF new
    <3>. QED  BY <2>1, <3>1, <3>2, BeginAgrees
  <2>3. CASE VerifySucceeds(r)
    BY <2>2, <2>3 DEF VerifySucceeds
  <2>4. CASE VerifyFails(r)
    BY <2>2, <2>4 DEF VerifyFails
  <2>. QED  BY <1>6, <2>3, <2>4
<1>7. CASE FailPayment(r)
  <2>1. /\ Goto(r, "failOrder")
        /\ payment'[o] \notin {"none", "PENDING", "PROCESSING"}
    BY <1>1, <1>2, <1>7 DEF FailPayment, AgreementOf, At, paymentVars
  <2>. QED  BY <2>1, GotoAgrees DEF Steps
<1>8. CASE SaveSession(r) \/ FailOrder(r) \/ ReleaseEvent(r) \/ RefundPayment(r)
             \/ WriteAdjustment(r) \/ ClearCart(r)
  BY <1>8, IdleAgrees DEF SaveSession, FailOrder, ReleaseEvent, RefundPayment, WriteAdjustment,
     ClearCart, Finish
<1>9. CASE HandleCheckoutCompleted(r) \/ ReadForCompletion(r)
  BY <1>9, GotoAgrees, IdleAgrees, ThrowAgrees
     DEF HandleCheckoutCompleted, ReadForCompletion, Finish, Steps
<1>10. CASE CompletePayment(r) \/ LoseCompletionRace(r)
  BY <1>10, GotoAgrees, IdleAgrees DEF CompletePayment, LoseCompletionRace, AfterCommit, Finish,
     Steps
<1>. QED
  BY <1>1, <1>3, <1>4, <1>5, <1>6, <1>7, <1>8, <1>9, <1>10, ThrowAgrees
  DEF Step, ProviderUnavailable, VerifyThrows, AbortCompletion, AbortRefund

-----------------------------------------------------------------------------
(* The invariant. *)

\* Every step leaves the rows in agreement.
LEMMA NextRows ==
  ASSUME "retry" \notin Kinds, Inv, Agreement, Next
  PROVE  RowsAgree' /\ RowsKept
         /\ \A r \in Requests : Arrive(r) \/ Step(r) \/ Crash(r) \/ DatabaseError(r) =>
              CreatesOwn(r)
<1>1. CASE UNCHANGED rows
  BY <1>1, RowsUnchanged
<1>2. ASSUME NEW u \in Users, NEW i \in Items, Enroll(u, i)
      PROVE  RowsAgree' /\ RowsKept /\ \A r : CreatesOwn(r)
  <2>1. /\ enrolled' = [enrolled EXCEPT ![u][i] = "unlinked"]
        /\ UNCHANGED <<order, items, payment>>
    BY <1>2 DEF Enroll, orderVars, paymentVars
  <2>2. enrolled \in [Users -> [Items -> Enrollments]] /\ Bundles \subseteq Items
          /\ "unlinked" \notin Orders
    BY PaymentsAssumption DEF Inv, Data, TablesOK
  <2>3. RoadmapIsPaid' /\ RoadmapsOK'
    BY <2>1, <2>2 DEF Agreement, RowsAgree, RoadmapIsPaid, RoadmapsOK
  <2>. QED  BY <2>1, <2>3 DEF Agreement, RowsAgree, OrderMatchesPayment, RowsKept, CreatesOwn
<1>3. CASE Environment
  BY <1>1, <1>2, <1>3 DEF Environment, SettleSession, DuplicateWebhook, EnsureWallet,
     GrantEntitlement, RevokeEntitlement, AddCourse, RemoveCourse, tables, orderVars,
     paymentVars, accessVars, rows
<1>4. ASSUME NEW r \in Requests, Arrive(r) \/ Crash(r) \/ DatabaseError(r)
      PROVE  UNCHANGED rows
  BY <1>4 DEF Arrive, Checkout, CheckoutCart, Retry, Confirm, Refund, Webhook, Callback,
     AdjustWallet, Crash, DatabaseError, Throw, tables, orderVars, paymentVars, accessVars, rows
<1>5. ASSUME NEW r \in Requests, Step(r), ~UNCHANGED rows
      PROVE  RowsAgree' /\ RowsKept /\ CreatesOwn(r)
  <2>1. ~RetryPayment(r) /\ ~ReopenOrder(r)
    BY NoRetry DEF RetryPayment, ReopenOrder
  <2>. QED
    BY <1>5, <2>1, PlaceOrderRows, CreatePaymentRows, FailPaymentRows, FailOrderRows,
       CompletePaymentRows, RefundPaymentRows
    DEF Step, OpenSession, ProviderUnavailable, SaveSession, VerifySucceeds, VerifyFails,
        VerifyThrows, HandleCheckoutCompleted, ReleaseEvent, ReadForCompletion,
        LoseCompletionRace, AbortCompletion, ClearCart, AbortRefund, WriteAdjustment, Throw,
        tables, orderVars, paymentVars, accessVars, rows
<1>. QED  BY <1>1, <1>3, <1>4, <1>5 DEF Next

\* Sessions are opened for payments that are there, and payments stay.
LEMMA NextSessions ==
  ASSUME Inv, Agreement, Next, RowsKept
  PROVE  SessionsAgree'
<1>1. /\ sessionOf \in [Sessions -> Orders \cup {None}]
      /\ session \in [Sessions -> {"free", "created", "open", "paid", "cancelled"}]
      /\ \A s \in Sessions : session[s] # "free" => sessionOf[s] \in Orders
  BY DEF Inv, Control, GatewayOK, SessionsOK
<1>2. CASE UNCHANGED <<sessionOf, session>>
  BY <1>1, <1>2 DEF Agreement, SessionsAgree, RowsKept
<1>3. ASSUME NEW s \in Sessions, SettleSession(s)
      PROVE  SessionsAgree'
  BY <1>1, <1>3 DEF SettleSession, Agreement, SessionsAgree, RowsKept
<1>4. ASSUME NEW r \in Requests, SaveSession(r)
      PROVE  SessionsAgree'
  BY <1>1, <1>4 DEF SaveSession, Agreement, SessionsAgree, RowsKept
<1>5. ASSUME NEW r \in Requests, OpenSession(r)
      PROVE  SessionsAgree'
  <2>. DEFINE o == req[r].o
  <2>1. o \in Orders /\ payment'[o] # "none"
    BY <1>5 DEF Inv, Control, RequestsOK, RequestOK, Agreement, RequestsAgree, AgreementOf,
       OpenSession, At, tables, paymentVars
  <2>2. CASE Provider = "dev"
    BY <1>2, <1>5, <2>2 DEF OpenSession, gatewayVars
  <2>3. CASE Provider # "dev"
    <3>1. PICK s \in Sessions : /\ session' = [session EXCEPT ![s] = "created"]
                                /\ sessionOf' = [sessionOf EXCEPT ![s] = o]
      BY <1>5, <2>3 DEF OpenSession
    <3>. QED  BY <1>1, <2>1, <3>1 DEF Agreement, SessionsAgree, RowsKept
  <2>. QED  BY <2>2, <2>3
<1>6. ASSUME NEW r \in Requests, Arrive(r) \/ Crash(r) \/ DatabaseError(r)
      PROVE  UNCHANGED <<sessionOf, session>>
  BY <1>6 DEF Arrive, Checkout, CheckoutCart, Retry, Confirm, Refund, Webhook, Callback,
     AdjustWallet, Crash, DatabaseError, Throw, gatewayVars
<1>7. ASSUME NEW r \in Requests, Step(r)
      PROVE  SessionsAgree'
  BY <1>2, <1>4, <1>5, <1>7 DEF Step, PlaceOrder, CreatePayment, InsertPayment,
     ProviderUnavailable, RetryPayment, ResetPayment, ReopenOrder, VerifySucceeds, VerifyFails,
     VerifyThrows, FailPayment, FailOrder, HandleCheckoutCompleted, ReleaseEvent,
     ReadForCompletion, CompletePayment, LoseCompletionRace, AbortCompletion, AfterCommit,
     ClearCart, RefundPayment, AbortRefund, WriteAdjustment, Finish, Throw, gatewayVars
<1>8. CASE Environment
  BY <1>2, <1>3, <1>8 DEF Environment, DuplicateWebhook, EnsureWallet, GrantEntitlement,
     RevokeEntitlement, Enroll, AddCourse, RemoveCourse, gatewayVars
<1>. QED  BY <1>2, <1>6, <1>7, <1>8 DEF Next

\* Every step leaves the requests in agreement.
LEMMA NextRequests ==
  ASSUME "retry" \notin Kinds, Inv, Agreement, Next
  PROVE  RequestsAgree'
<1>1. CASE Environment
  <2>1. UNCHANGED <<order, payment, req>>
    BY <1>1 DEF Environment, SettleSession, DuplicateWebhook, EnsureWallet, GrantEntitlement,
       RevokeEntitlement, Enroll, AddCourse, RemoveCourse, tables, orderVars, paymentVars
  <2>. QED  BY <2>1 DEF Agreement, RequestsAgree, AgreementOf, At
<1>2. ASSUME NEW r \in Requests, Crash(r) \/ DatabaseError(r)
      PROVE  RequestsAgree'
  <2>1. RowsKept /\ CreatesOwn(r)
    BY <1>2, NextRows
  <2>. QED  BY <1>2, <2>1, IdleAgrees, ThrowAgrees DEF Crash, DatabaseError, Agreement
<1>. QED  BY <1>1, <1>2, NextRows, ArriveAgrees, StepAgrees DEF Next, Agreement

\* The database as the ledger migration finds it: paid orders, and their roadmaps.
LEMMA InitAgreement == Init => Agreement
<1>. SUFFICES ASSUME Init PROVE Agreement
  OBVIOUS
<1>1. OrderMatchesPayment /\ \A o \in Orders : payment[o] # "none" => order[o] # "none"
  BY DEF Init, OrderMatchesPayment
<1>2. ASSUME NEW u \in Users, NEW b \in Bundles, enrolled[u][b] \in Orders
      PROVE  /\ payment[enrolled[u][b]] \in {"COMPLETED", "PARTIALLY_REFUNDED"}
             /\ Owner[enrolled[u][b]] = u /\ b \in items[enrolled[u][b]]
  <2>1. b \in Items /\ None \notin Orders /\ Legacy \subseteq Orders
    BY PaymentsAssumption
  <2>2. enrolled[u][b] \in LegacyPurchases(u, b)
    BY <1>2, <2>1 DEF Init
  <2>. QED  BY <2>1, <2>2 DEF LegacyPurchases, Init
<1>3. RowsAgree
  BY <1>1, <1>2 DEF RowsAgree, RoadmapIsPaid, RoadmapsOK
<1>4. SessionsAgree /\ RequestsAgree
  BY DEF Init, SessionsAgree, RequestsAgree, AgreementOf, At, Idle
<1>. QED  BY <1>3, <1>4 DEF Agreement

(***************************************************************************)
(* Where nobody retries, rows, sessions and requests agree in every        *)
(* reachable state, for any number of them.                                *)
(***************************************************************************)
THEOREM Agrees ==
  ASSUME "retry" \notin Kinds
  PROVE  Spec => []Agreement
<1>1. Inv /\ Agreement /\ [Next]_vars => Agreement'
  <2>. SUFFICES ASSUME Inv, Agreement, [Next]_vars PROVE Agreement'
    OBVIOUS
  <2>1. CASE Next
    BY <2>1, NextRows, NextSessions, NextRequests DEF Agreement
  <2>2. CASE UNCHANGED vars
    <3>1. UNCHANGED <<rows, sessionOf, session, req>>
      BY <2>2 DEF vars, tables, orderVars, paymentVars, accessVars, gatewayVars, rows
    <3>2. RowsAgree'
      BY <3>1, RowsUnchanged
    <3>. QED  BY <3>1, <3>2 DEF Agreement, SessionsAgree, RequestsAgree, AgreementOf, At, rows
  <2>. QED  BY <2>1, <2>2
<1>. QED  BY <1>1, Invariant, InitAgreement, PTL DEF Spec

(***************************************************************************)
(* An order is paid or refunded exactly when its payment is, and fails     *)
(* only with it, although verifyGatewayCallback writes them apart.         *)
(***************************************************************************)
THEOREM OrdersMatch ==
  ASSUME "retry" \notin Kinds
  PROVE  Spec => []OrderMatchesPayment
<1>1. Agreement => OrderMatchesPayment
  BY DEF Agreement, RowsAgree
<1>. QED  BY <1>1, Agrees, PTL

(***************************************************************************)
(* A roadmap enrolled by a purchase names an order whose money is there,   *)
(* whatever is bought twice, refunded, granted and revoked around it.      *)
(***************************************************************************)
THEOREM RoadmapsPaid ==
  ASSUME "retry" \notin Kinds
  PROVE  Spec => []RoadmapIsPaid
<1>1. Agreement => RoadmapIsPaid
  BY DEF Agreement, RowsAgree
<1>. QED  BY <1>1, Agrees, PTL

=============================================================================
