----------------------------- MODULE MCPayments -----------------------------
(***************************************************************************)
(* Instances of Payments for TLC: one learner, prices of one cent an item. *)
(***************************************************************************)
EXTENDS PaymentsInvariant, FiniteSets, TLC

CONSTANTS u1, o1

MCOwner == [o \in Orders |-> u1]
MCTotal == [L \in SUBSET Items |-> 2 * Cardinality(L)]
\* o1 sold the courses, another order of old the bundles.
MCLegacyLines == [o \in Legacy |-> IF o = o1 THEN Items \ Bundles ELSE Bundles]
MCNoBalance == [u \in Users |-> 0]
MCBalance == [u \in Users |-> 2]
MCDoubleBalance == [u \in Users |-> 4]

\* The slots of the requests are alike; so are the sessions, and the orders of one
\* learner but for those of old.  For runs that check no liveness.
MCSlotSymmetry == Permutations(Requests)
MCSymmetry == MCSlotSymmetry \cup Permutations(Orders) \cup Permutations(Sessions)

=============================================================================
