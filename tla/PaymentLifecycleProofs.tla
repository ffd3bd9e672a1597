----------------------- MODULE PaymentLifecycleProofs -----------------------
(***************************************************************************)
(* The abstract life cycle applies the effects of a payment exactly once,  *)
(* for any number of orders.                                               *)
(***************************************************************************)
EXTENDS PaymentLifecycle, TLAPS

LifecycleInv == TypeOK /\ ExactlyOnce

\* A move along the table touches no settled payment and settles none.
LEMMA MovesAreUnsettled ==
  ASSUME NEW from \in PaymentStatus, NEW to \in PAYMENT_TRANSITIONS[from] \ Settled
  PROVE  from \notin Settled /\ to \in PaymentStatus
  BY DEF PAYMENT_TRANSITIONS, PaymentStatus, Settled

(***************************************************************************)
(* However payments fail, are retried and are refunded, the effects of a   *)
(* completion are there once when the money has arrived and never without  *)
(* it: what completePayment and refundPayment promise.                     *)
(***************************************************************************)
THEOREM LifecycleExactlyOnce == Spec => [](TypeOK /\ ExactlyOnce)
<1>1. Init => LifecycleInv
  BY DEF Init, LifecycleInv, TypeOK, ExactlyOnce, PaymentStatus, Settled
<1>2. LifecycleInv /\ [Next]_vars => LifecycleInv'
  <2>. SUFFICES ASSUME LifecycleInv, [Next]_vars PROVE LifecycleInv'
    OBVIOUS
  <2>1. ASSUME NEW o \in Orders, Open(o)
        PROVE  LifecycleInv'
    BY <2>1 DEF Open, LifecycleInv, TypeOK, ExactlyOnce, PaymentStatus, Settled
  <2>2. ASSUME NEW o \in Orders, Complete(o)
        PROVE  LifecycleInv'
    BY <2>2 DEF Complete, COMPLETABLE_PAYMENT_STATES, LifecycleInv, TypeOK, ExactlyOnce,
       PaymentStatus, Settled
  <2>3. ASSUME NEW o \in Orders, Refund(o)
        PROVE  LifecycleInv'
    BY <2>3 DEF Refund, LifecycleInv, TypeOK, ExactlyOnce, PaymentStatus, Settled
  <2>4. ASSUME NEW o \in Orders, Move(o)
        PROVE  LifecycleInv'
    <3>1. PICK to \in PAYMENT_TRANSITIONS[status[o]] \ Settled :
            status' = [status EXCEPT ![o] = to]
      BY <2>4 DEF Move
    <3>2. status[o] \notin Settled /\ to \in PaymentStatus \ Settled
      BY <2>4, <3>1, MovesAreUnsettled DEF Move, LifecycleInv, TypeOK
    <3>3. UNCHANGED <<completions, refunds>>
      BY <2>4 DEF Move
    <3>. QED  BY <3>1, <3>2, <3>3 DEF LifecycleInv, TypeOK, ExactlyOnce, PaymentStatus, Settled
  <2>5. CASE UNCHANGED vars
    BY <2>5 DEF vars, LifecycleInv, TypeOK, ExactlyOnce
  <2>. QED  BY <2>1, <2>2, <2>3, <2>4, <2>5 DEF Next
<1>. QED  BY <1>1, <1>2, PTL DEF Spec, LifecycleInv

=============================================================================
