--------------------------- MODULE PaymentsProofs ---------------------------
(***************************************************************************)
(* The action properties of Payments, its refinement of PaymentLifecycle   *)
(* and the claim of webhook events, from the invariant of                  *)
(* PaymentsInvariantProofs.                                                *)
(***************************************************************************)
EXTENDS PaymentsInvariantProofs

-----------------------------------------------------------------------------
(* The action properties. *)

(***************************************************************************)
(* Only adjustWallet, and only with a balance read before another request  *)
(* changed it, makes a wallet's balance and ledger drift apart.            *)
(***************************************************************************)
THEOREM DriftCause == Spec => DriftOnlyByStaleAdjustment
<1>. DEFINE Drift(u) == balance'[u] - ledger'[u] # balance[u] - ledger[u]
            Cause(u) == \E r \in Requests : /\ At(r, "adjust") /\ req[r].u = u
                                            /\ req[r].bal # balance[u]
                                            /\ req'[r] = Idle
<1>1. Inv /\ [Next]_vars => [\A u \in Users : Drift(u) => Cause(u)]_vars
  <2>. SUFFICES ASSUME Inv, Next, NEW u \in Users, Drift(u)
                PROVE  Cause(u)
    BY DEF vars
  <2>1. balance \in [Users -> Nat] /\ ledger \in [Users -> Int]
    BY DEF Inv, Data, TablesOK
  <2>2. ~UNCHANGED <<balance, ledger>>
    BY DEF walletVars
  <2>3. ASSUME NEW r \in Requests, CompletePayment(r)
        PROVE  FALSE
    <3>1. Amount(req[r].o) \in Int /\ Owner[req[r].o] \in Users
      <4>1. req[r].o \in Orders
        BY <2>3 DEF Inv, Control, RequestsOK, RequestOK, CompletePayment, At
      <4>. QED  BY <4>1, AmountNat, PaymentsAssumption
    <3>. QED  BY <2>1, <2>3, <3>1 DEF CompletePayment, RecordWalletDebit
  <2>4. ASSUME NEW r \in Requests, RefundPayment(r)
        PROVE  FALSE
    <3>1. req[r].amt \in Int /\ Owner[req[r].o] \in Users
      <4>1. req[r].o \in Orders /\ req[r].amt \in Int
        BY <2>4 DEF Inv, Control, RequestsOK, RequestOK, Request, RefundPayment, At
      <4>. QED  BY <4>1, PaymentsAssumption
    <3>. QED  BY <2>1, <2>4, <3>1 DEF RefundPayment, RecordWalletCredit
  <2>5. ASSUME NEW r \in Requests, WriteAdjustment(r)
        PROVE  Cause(u)
    <3>1. req \in [Requests -> Request] /\ req[r].amt \in Int /\ req[r].bal \in Nat
          /\ req[r].u \in Users
      BY <2>5 DEF Inv, Control, RequestsOK, RequestOK, Request, WriteAdjustment, At
    <3>2. req[r].u = u /\ req[r].bal # balance[u]
      BY <2>1, <2>5, <3>1 DEF WriteAdjustment
    <3>3. At(r, "adjust") /\ req'[r] = Idle
      BY <2>5, <3>1 DEF WriteAdjustment, Begin
    <3>. QED  BY <3>2, <3>3
  <2>6. CASE Environment
    BY <2>2, <2>6 DEF Environment, SettleSession, DuplicateWebhook, EnsureWallet,
       GrantEntitlement, RevokeEntitlement, Enroll, AddCourse, RemoveCourse, tables, walletVars
  <2>7. ASSUME NEW r \in Requests, Arrive(r)
        PROVE  FALSE
    BY <2>2, <2>7 DEF Arrive, Checkout, CheckoutCart, Retry, Confirm, Refund, Webhook,
       Callback, AdjustWallet, tables, walletVars
  <2>8. ASSUME NEW r \in Requests, Step(r)
        PROVE  Cause(u)
    BY <2>2, <2>3, <2>4, <2>5, <2>8 DEF Step, PlaceOrder, CreatePayment, InsertPayment,
       OpenSession, ProviderUnavailable, SaveSession, RetryPayment, ResetPayment, ReopenOrder,
       VerifySucceeds, VerifyFails, VerifyThrows, FailPayment, FailOrder,
       HandleCheckoutCompleted, ReleaseEvent, ReadForCompletion, LoseCompletionRace,
       AbortCompletion, ClearCart, AbortRefund, Throw, tables, walletVars
  <2>9. ASSUME NEW r \in Requests, Crash(r) \/ DatabaseError(r)
        PROVE  FALSE
    BY <2>2, <2>9 DEF Crash, DatabaseError, Throw, tables, walletVars
  <2>. QED  BY <2>6, <2>7, <2>8, <2>9 DEF Next
<1>. QED  BY <1>1, Invariant, PTL DEF Spec, DriftOnlyByStaleAdjustment


(***************************************************************************)
(* A refund removes no entitlement that was not bought                     *)
(* (revokeEntitlementsTx).                                                 *)
(***************************************************************************)
THEOREM GiftsSpared == Spec => RefundSparesGifts
<1>. DEFINE Lost(u, i) == access[u][i] \in {"FREE", "CHALLENGE"} /\ access'[u][i] = "none"
<1>1. Inv /\ [Next]_vars =>
        [\A u \in Users, i \in Items : Lost(u, i) => RevokeEntitlement(u, i)]_vars
  <2>. SUFFICES ASSUME Inv, Next, NEW u \in Users, NEW i \in Items, Lost(u, i)
                PROVE  RevokeEntitlement(u, i)
    BY DEF vars
  <2>1. access \in [Users -> [Items -> Sources \cup {"none"}]]
    BY DEF Inv, Data, TablesOK
  <2>2. ~UNCHANGED access
    OBVIOUS
  <2>3. ASSUME NEW r \in Requests, CompletePayment(r)
        PROVE  FALSE
    <3>1. GrantEntitlements(Owner[req[r].o], req[r].o)
      BY <2>3 DEF CompletePayment
    <3>. QED  BY <2>1, <3>1 DEF GrantEntitlements
  <2>4. ASSUME NEW r \in Requests, RefundPayment(r)
        PROVE  FALSE
    <3>1. RevokeEntitlements(Owner[req[r].o], req[r].o)
      BY <2>2, <2>4 DEF RefundPayment, accessVars
    <3>. QED  BY <2>1, <3>1 DEF RevokeEntitlements
  <2>5. ASSUME NEW v \in Users, NEW j \in Items, GrantEntitlement(v, j)
        PROVE  FALSE
    BY <2>1, <2>5 DEF GrantEntitlement
  <2>6. ASSUME NEW v \in Users, NEW j \in Items, RevokeEntitlement(v, j)
        PROVE  RevokeEntitlement(u, i)
    <3>1. v = u /\ j = i
      BY <2>1, <2>6 DEF RevokeEntitlement
    <3>. QED  BY <2>6, <3>1
  <2>7. CASE Environment
    BY <2>2, <2>5, <2>6, <2>7 DEF Environment, SettleSession, DuplicateWebhook, EnsureWallet,
       Enroll, AddCourse, RemoveCourse, tables, accessVars
  <2>8. ASSUME NEW r \in Requests, Arrive(r) \/ Crash(r) \/ DatabaseError(r)
        PROVE  FALSE
    BY <2>2, <2>8 DEF Arrive, Checkout, CheckoutCart, Retry, Confirm, Refund, Webhook,
       Callback, AdjustWallet, Crash, DatabaseError, Throw, tables, accessVars
  <2>9. ASSUME NEW r \in Requests, Step(r)
        PROVE  FALSE
    BY <2>2, <2>3, <2>4, <2>9 DEF Step, PlaceOrder, CreatePayment, InsertPayment,
       OpenSession, ProviderUnavailable, SaveSession, RetryPayment, ResetPayment, ReopenOrder,
       VerifySucceeds, VerifyFails, VerifyThrows, FailPayment, FailOrder,
       HandleCheckoutCompleted, ReleaseEvent, ReadForCompletion, LoseCompletionRace,
       AbortCompletion, ClearCart, AbortRefund, WriteAdjustment, Throw, tables, accessVars
  <2>. QED  BY <2>7, <2>8, <2>9 DEF Next
<1>. QED  BY <1>1, Invariant, PTL DEF Spec, RefundSparesGifts

-----------------------------------------------------------------------------
(* The abstract life cycle. *)

\* The variables of the life cycle under the mapping.
lifecycleVars == <<payment, completions, refunds>>

\* The refinement mapping takes initial states to initial states.
LEMMA LifecycleInit == Init => Lifecycle!Init
  BY DEF Init, Lifecycle!Init

\* The edges a failure and a retry take.
LEMMA LifecycleEdges ==
  /\ "FAILED" \in Lifecycle!PAYMENT_TRANSITIONS["PENDING"] \ Lifecycle!Settled
  /\ "FAILED" \in Lifecycle!PAYMENT_TRANSITIONS["PROCESSING"] \ Lifecycle!Settled
  /\ "PENDING" \in Lifecycle!PAYMENT_TRANSITIONS["FAILED"] \ Lifecycle!Settled
  BY DEF Lifecycle!PAYMENT_TRANSITIONS, Lifecycle!Settled

\* Every step is a step of the life cycle, or leaves it alone, or is a stale reset.
LEMMA LifecycleStep ==
  ASSUME Inv, [Next]_vars
  PROVE  [Lifecycle!Next \/ \E r \in Requests : StaleReset(r)]_lifecycleVars
<1>. DEFINE Goal == Lifecycle!Next \/ \E r \in Requests : StaleReset(r)
<1>. SUFFICES ASSUME Next, ~UNCHANGED lifecycleVars
              PROVE  Goal
  BY DEF vars, tables, paymentVars, history, lifecycleVars
<1>1. payment \in [Orders -> PaymentStatus \cup {"none"}]
  BY DEF Inv, Data, TablesOK
<1>2. ASSUME NEW r \in Requests, req[r].o \in Orders, NEW step, InsertPayment(r, step)
      PROVE  Goal
  <2>1. Lifecycle!Open(req[r].o)
    BY <1>2 DEF InsertPayment, Lifecycle!Open, history
  <2>. QED  BY <1>2, <2>1 DEF Lifecycle!Next
<1>3. ASSUME NEW r \in Requests, At(r, "retryPayment"), ResetPayment(r)
      PROVE  Goal
  <2>. DEFINE o == req[r].o
  <2>1. o \in Orders /\ o \notin Legacy /\ req[r].seen \notin Settled
    BY <1>3 DEF Inv, Control, RequestsOK, RequestOK, At
  <2>2. payment' = [payment EXCEPT ![o] = "PENDING"] /\ UNCHANGED <<completions, refunds>>
    BY <1>3 DEF ResetPayment, history
  <2>3. CASE payment[o] # req[r].seen
    BY <1>3, <2>3 DEF StaleReset
  <2>4. CASE payment[o] \in {"PENDING", "none"}
    <3>1. CASE payment[o] = "PENDING"
      BY <1>1, <2>1, <2>2, <3>1 DEF lifecycleVars
    <3>2. CASE payment[o] = "none"
      BY <2>1, <2>2, <3>2 DEF Lifecycle!Next, Lifecycle!Open
    <3>. QED  BY <2>4, <3>1, <3>2
  <2>5. CASE payment[o] = "FAILED"
    <3>1. Lifecycle!Move(o)
      BY <2>2, <2>5, LifecycleEdges DEF Lifecycle!Move
    <3>. QED  BY <2>1, <3>1 DEF Lifecycle!Next
  <2>6. payment[o] = req[r].seen => payment[o] \in {"PENDING", "none", "FAILED"}
    BY <1>1, <2>1 DEF Inv, Data, BooksOK, PaymentStatus, Settled
  <2>. QED  BY <2>3, <2>4, <2>5, <2>6
<1>4. ASSUME NEW r \in Requests, FailPayment(r)
      PROVE  Goal
  <2>. DEFINE o == req[r].o
  <2>1. o \in Orders
    BY <1>4 DEF Inv, Control, RequestsOK, RequestOK, FailPayment, At
  <2>2. payment[o] \in {"PENDING", "PROCESSING"} /\ payment' = [payment EXCEPT ![o] = "FAILED"]
          /\ UNCHANGED <<completions, refunds>>
    BY <1>4 DEF FailPayment, history, paymentVars, lifecycleVars
  <2>3. Lifecycle!Move(o)
    BY <2>2, LifecycleEdges DEF Lifecycle!Move
  <2>. QED  BY <2>1, <2>3 DEF Lifecycle!Next
<1>5. ASSUME NEW r \in Requests, CompletePayment(r)
      PROVE  Goal
  <2>1. req[r].o \in Orders
    BY <1>5 DEF Inv, Control, RequestsOK, RequestOK, CompletePayment, At
  <2>2. Lifecycle!Complete(req[r].o)
    BY <1>5 DEF CompletePayment, Lifecycle!Complete, COMPLETABLE_PAYMENT_STATES,
       Lifecycle!COMPLETABLE_PAYMENT_STATES
  <2>. QED  BY <2>1, <2>2 DEF Lifecycle!Next
<1>6. ASSUME NEW r \in Requests, RefundPayment(r)
      PROVE  Goal
  <2>. DEFINE o == req[r].o
  <2>1. o \in Orders /\ payment[o] \in {"COMPLETED", "REFUNDED"}
    BY <1>6 DEF Inv, Control, RequestsOK, RequestOK, RefundPayment, At
  <2>2. payment[o] = "COMPLETED"
    BY <1>6, <2>1 DEF Inv, Data, BooksOK, RefundPayment, RecordWalletCredit
  <2>3. Lifecycle!Refund(o)
    BY <1>6, <2>2 DEF RefundPayment, Lifecycle!Refund
  <2>. QED  BY <2>1, <2>3 DEF Lifecycle!Next
<1>7. ASSUME NEW r \in Requests, Arrive(r) \/ Crash(r) \/ DatabaseError(r)
      PROVE  FALSE
  BY <1>7 DEF Arrive, Checkout, CheckoutCart, Retry, Confirm, Refund, Webhook, Callback,
     AdjustWallet, Crash, DatabaseError, Throw, tables, paymentVars, history, lifecycleVars
<1>8. CASE Environment
  BY <1>8 DEF Environment, SettleSession, DuplicateWebhook, EnsureWallet, GrantEntitlement,
     RevokeEntitlement, Enroll, AddCourse, RemoveCourse, tables, paymentVars, history, lifecycleVars
<1>9. ASSUME NEW r \in Requests, Step(r)
      PROVE  Goal
  <2>1. req[r].pc \in {"createPayment", "retryPayment"} => req[r].o \in Orders
    BY DEF Inv, Control, RequestsOK, RequestOK
  <2>2. CASE CreatePayment(r)
    BY <1>2, <2>1, <2>2 DEF CreatePayment, At, Throw, tables, paymentVars, history,
       lifecycleVars
  <2>3. CASE RetryPayment(r)
    BY <1>2, <1>3, <2>1, <2>3 DEF RetryPayment, At, Throw, tables, paymentVars, history,
       lifecycleVars
  <2>. HIDE DEF Goal
  <2>. QED
    BY <1>4, <1>5, <1>6, <1>9, <2>2, <2>3 DEF Step, PlaceOrder, OpenSession,
       ProviderUnavailable, SaveSession, ReopenOrder, VerifySucceeds, VerifyFails,
       VerifyThrows, FailOrder, HandleCheckoutCompleted, ReleaseEvent, ReadForCompletion,
       LoseCompletionRace, AbortCompletion, ClearCart, AbortRefund, WriteAdjustment, Throw,
       tables, paymentVars, history, lifecycleVars
<1>. QED  BY <1>7, <1>8, <1>9 DEF Next

(***************************************************************************)
(* The only step outside the life cycle of payment-state.ts is the reset   *)
(* by a retryPayment whose reading of the payment is stale.                *)
(***************************************************************************)
THEOREM LeavesByStaleReset == Spec => LeavesLifecycleByStaleReset
  BY Invariant, LifecycleStep, PTL DEF Spec, LeavesLifecycleByStaleReset, lifecycleVars

(***************************************************************************)
(* Where nobody retries, the payments service implements the abstract life *)
(* cycle, for every number of orders and requests.                         *)
(***************************************************************************)
THEOREM Refinement ==
  ASSUME "retry" \notin Kinds
  PROVE  Spec => ImplementsLifecycle
<1>1. Inv /\ [Next]_vars => [Lifecycle!Next]_lifecycleVars
  <2>. SUFFICES ASSUME Inv, [Next]_vars PROVE [Lifecycle!Next]_lifecycleVars
    OBVIOUS
  <2>1. ~\E r \in Requests : StaleReset(r)
    BY DEF Inv, Control, RequestsOK, RequestOK, StaleReset, At
  <2>. QED  BY <2>1, LifecycleStep
<1>. QED  BY <1>1, Invariant, LifecycleInit, PTL
          DEF Spec, ImplementsLifecycle, Lifecycle!Spec, Lifecycle!vars, lifecycleVars


-----------------------------------------------------------------------------
(* The claim of a webhook event. *)

\* A slot that gets no new event keeps the claims ...
LEMMA KeepClaims ==
  ASSUME Inv, Claims, NEW r \in Requests, NEW new, Begin(r, new), UNCHANGED events,
         new.event => req[r].event /\ new.s = req[r].s
  PROVE  Claims'
<1>1. req \in [Requests -> Request]
  BY DEF Inv, Control
<1>. QED  BY <1>1 DEF Claims, OneHandlerPerEvent, Begin

\* ... so does a request that moves on ...
LEMMA GotoClaims ==
  ASSUME Inv, Claims, NEW r \in Requests, NEW step, Goto(r, step), UNCHANGED events
  PROVE  Claims'
<1>. DEFINE next == [req[r] EXCEPT !.pc = step]
<1>1. req[r] \in Request
  BY DEF Inv, Control
<1>2. next.event = req[r].event /\ next.s = req[r].s
  BY <1>1, Zenon DEF Request
<1>3. Begin(r, next)
  BY DEF Goto
<1>. HIDE DEF next
<1>. QED  BY <1>2, <1>3, KeepClaims

\* ... or ends.
LEMMA IdleClaims ==
  ASSUME Inv, Claims, NEW r \in Requests, Begin(r, Idle), UNCHANGED events
  PROVE  Claims'
<1>1. ~Idle.event
  BY DEF Idle
<1>. QED  BY <1>1, KeepClaims

\* Only a webhook brings an event, and it has just inserted its row.
LEMMA ArriveClaims ==
  ASSUME Inv, Claims, NEW r \in Requests, Arrive(r)
  PROVE  Claims'
<1>1. ~Idle.event
  BY DEF Idle
<1>2. ASSUME NEW o, NEW L, NEW from, Begin(r, NewOrder(o, L, from)), UNCHANGED events
      PROVE  Claims'
  <2>. DEFINE new == NewOrder(o, L, from)
  <2>1. new.event = Idle.event
    BY IdleOK, Zenon DEF NewOrder, Request
  <2>. HIDE DEF new
  <2>. QED  BY <1>1, <1>2, <2>1, KeepClaims DEF new
<1>3. ASSUME NEW o \in Orders, Checkout(r, o)
      PROVE  Claims'
  BY <1>2, <1>3 DEF Checkout, tables
<1>4. ASSUME NEW o \in Orders, CheckoutCart(r, o)
      PROVE  Claims'
  BY <1>2, <1>4 DEF CheckoutCart, Claims, OneHandlerPerEvent
<1>5. ASSUME NEW o \in Orders, Retry(r, o)
      PROVE  Claims'
  <2>. DEFINE new == [Idle EXCEPT !.pc = "retryPayment", !.o = o, !.seen = payment[o]]
  <2>1. new.event = Idle.event
    BY IdleOK, Zenon DEF Request
  <2>2. Begin(r, new) /\ UNCHANGED events
    BY <1>5 DEF Retry, tables
  <2>. HIDE DEF new
  <2>. QED  BY <1>1, <2>1, <2>2, KeepClaims
<1>6. ASSUME NEW o \in Orders, Confirm(r, o)
      PROVE  Claims'
  <2>. DEFINE new == [Idle EXCEPT !.pc = "complete", !.o = o]
  <2>1. new.event = Idle.event
    BY IdleOK, Zenon DEF Request
  <2>2. Begin(r, new) /\ UNCHANGED events
    BY <1>6 DEF Confirm, tables
  <2>. HIDE DEF new
  <2>. QED  BY <1>1, <2>1, <2>2, KeepClaims
<1>7. ASSUME NEW o \in Orders, Refund(r, o)
      PROVE  Claims'
  <2>1. PICK amt : Begin(r, [Idle EXCEPT !.pc = "refund", !.o = o, !.seen = payment[o],
                                         !.amt = amt])
    BY <1>7 DEF Refund
  <2>. DEFINE new == [Idle EXCEPT !.pc = "refund", !.o = o, !.seen = payment[o], !.amt = amt]
  <2>2. new.event = Idle.event
    BY IdleOK, Zenon DEF Request
  <2>3. Begin(r, new) /\ UNCHANGED events
    BY <1>7, <2>1 DEF Refund, tables
  <2>. HIDE DEF new
  <2>. QED  BY <1>1, <2>2, <2>3, KeepClaims
<1>8. ASSUME NEW u \in Users, AdjustWallet(r, u)
      PROVE  Claims'
  <2>1. PICK amt : Begin(r, [Idle EXCEPT !.pc = "adjust", !.u = u, !.amt = amt,
                                         !.bal = balance[u]])
    BY <1>8 DEF AdjustWallet
  <2>. DEFINE new == [Idle EXCEPT !.pc = "adjust", !.u = u, !.amt = amt, !.bal = balance[u]]
  <2>2. new.event = Idle.event
    BY IdleOK, Zenon DEF Request
  <2>3. Begin(r, new) /\ UNCHANGED events
    BY <1>8, <2>1 DEF AdjustWallet, tables
  <2>. HIDE DEF new
  <2>. QED  BY <1>1, <2>2, <2>3, KeepClaims
<1>9. ASSUME NEW o \in Orders, NEW s \in Sessions \cup {None}, NEW public \in BOOLEAN,
             Callback(r, o, s, public)
      PROVE  Claims'
  <2>. DEFINE new == [Idle EXCEPT !.pc = "verify", !.o = o, !.s = s, !.ref = gatewayRef[o]]
  <2>1. new.event = Idle.event
    BY IdleOK, Zenon DEF Request
  <2>2. Begin(r, new) /\ UNCHANGED events
    BY <1>9 DEF Callback, tables
  <2>. HIDE DEF new
  <2>. QED  BY <1>1, <2>1, <2>2, KeepClaims
<1>10. ASSUME NEW s \in Sessions, Webhook(r, s)
       PROVE  Claims'
  <2>. DEFINE new == [Idle EXCEPT !.pc = "webhook", !.o = sessionOf[s], !.s = s,
                                  !.ref = s, !.event = TRUE]
  <2>1. new.s = s
    BY IdleOK, Zenon DEF Request
  <2>2. Begin(r, new) /\ s \notin events /\ events' = events \cup {s}
    BY <1>10 DEF Webhook
  <2>3. req \in [Requests -> Request]
    BY DEF Inv, Control
  <2>. HIDE DEF new
  <2>. QED  BY <2>1, <2>2, <2>3 DEF Claims, OneHandlerPerEvent, Begin
<1>. QED  BY <1>3, <1>4, <1>5, <1>6, <1>7, <1>8, <1>9, <1>10 DEF Arrive

\* A webhook that throws keeps its row until it releases it.
LEMMA ThrowClaims ==
  ASSUME Inv, Claims, NEW r \in Requests, Throw(r)
  PROVE  Claims'
  BY GotoClaims, IdleClaims DEF Throw, tables

\* Every step keeps the claims; the release gives up a row nobody else uses.
LEMMA StepClaims ==
  ASSUME Inv, Claims, NEW r \in Requests, Step(r)
  PROVE  Claims'
<1>1. req \in [Requests -> Request] /\ RequestOK(req[r])
  BY DEF Inv, Control, RequestsOK
<1>2. CASE CreatePayment(r) \/ RetryPayment(r)
  BY <1>2, GotoClaims, ThrowClaims
     DEF CreatePayment, RetryPayment, InsertPayment, ResetPayment
<1>3. CASE OpenSession(r)
  <2>1. CASE Provider = "dev"
    BY <1>3, <2>1, GotoClaims DEF OpenSession, tables
  <2>2. CASE Provider # "dev"
    <3>1. PICK s : Begin(r, [req[r] EXCEPT !.pc = "saveSession", !.s = s])
      BY <1>3, <2>2 DEF OpenSession
    <3>. DEFINE new == [req[r] EXCEPT !.pc = "saveSession", !.s = s]
    <3>2. new.event = req[r].event
      BY <1>1, Zenon DEF Request
    <3>3. ~req[r].event
      BY <1>1, <1>3 DEF RequestOK, EventSteps, OpenSession, At
    <3>4. Begin(r, new) /\ UNCHANGED events
      BY <1>3, <3>1 DEF OpenSession, tables
    <3>. HIDE DEF new
    <3>. QED  BY <3>2, <3>3, <3>4, KeepClaims
  <2>. QED  BY <2>1, <2>2
<1>4. CASE VerifySucceeds(r) \/ VerifyFails(r)
  <2>1. PICK step, ref : Begin(r, [req[r] EXCEPT !.pc = step, !.ref = ref])
    BY <1>4 DEF VerifySucceeds, VerifyFails
  <2>. DEFINE new == [req[r] EXCEPT !.pc = step, !.ref = ref]
  <2>2. new.event = req[r].event /\ new.s = req[r].s
    BY <1>1, Zenon DEF Request
  <2>3. Begin(r, new) /\ UNCHANGED events
    BY <1>4, <2>1 DEF VerifySucceeds, VerifyFails, tables
  <2>. HIDE DEF new
  <2>. QED  BY <2>2, <2>3, KeepClaims
<1>5. CASE ReleaseEvent(r)
  <2>1. ~Idle.event
    BY DEF Idle
  <2>2. req[r].event
    BY <1>1, <1>5 DEF RequestOK, ReleaseEvent, At
  <2>. QED  BY <1>1, <1>5, <2>1, <2>2 DEF ReleaseEvent, Begin, Claims, OneHandlerPerEvent
<1>6. CASE PlaceOrder(r) \/ SaveSession(r) \/ ReopenOrder(r) \/ FailPayment(r) \/ FailOrder(r)
             \/ RefundPayment(r) \/ WriteAdjustment(r)
  BY <1>6, GotoClaims, IdleClaims DEF PlaceOrder, SaveSession, ReopenOrder, FailPayment,
     FailOrder, RefundPayment, WriteAdjustment
<1>7. CASE HandleCheckoutCompleted(r) \/ ReadForCompletion(r)
  BY <1>7, GotoClaims, IdleClaims, ThrowClaims
     DEF HandleCheckoutCompleted, ReadForCompletion, Finish, tables
<1>8. CASE CompletePayment(r) \/ LoseCompletionRace(r) \/ ClearCart(r)
  BY <1>8, GotoClaims, IdleClaims
     DEF CompletePayment, LoseCompletionRace, ClearCart, AfterCommit, Finish, tables
<1>. QED
  BY <1>2, <1>3, <1>4, <1>5, <1>6, <1>7, <1>8, ThrowClaims
  DEF Step, ProviderUnavailable, VerifyThrows, AbortCompletion, AbortRefund

(***************************************************************************)
(* A webhook being processed holds the row of its event                    *)
(* (handleStripeWebhook).                                                  *)
(***************************************************************************)
THEOREM ClaimsInvariant == Spec => []Claims
<1>1. Init => Claims
  BY DEF Init, Claims, OneHandlerPerEvent, Idle
<1>2. Inv /\ Claims /\ [Next]_vars => Claims'
  <2>. SUFFICES ASSUME Inv, Claims, [Next]_vars PROVE Claims'
    OBVIOUS
  <2>1. CASE Environment \/ UNCHANGED vars
    BY <2>1 DEF Environment, SettleSession, DuplicateWebhook, EnsureWallet, GrantEntitlement,
       RevokeEntitlement, Enroll, AddCourse, RemoveCourse, vars, tables, Claims, OneHandlerPerEvent
  <2>2. ASSUME NEW r \in Requests, Crash(r) \/ DatabaseError(r)
        PROVE  Claims'
    BY <2>2, IdleClaims, ThrowClaims DEF Crash, DatabaseError, tables
  <2>. QED  BY <2>1, <2>2, ArriveClaims, StepClaims DEF Next
<1>. QED  BY <1>1, <1>2, Invariant, PTL DEF Spec

(***************************************************************************)
(* No two requests process the same Stripe event at once (the unique       *)
(* eventId of PaymentWebhookEvent).                                        *)
(***************************************************************************)
THEOREM EventClaimed == Spec => []OneHandlerPerEvent
<1>1. Claims => OneHandlerPerEvent
  BY DEF Claims
<1>. QED  BY <1>1, ClaimsInvariant, PTL

=============================================================================
