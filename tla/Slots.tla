------------------------------- MODULE Slots --------------------------------
(***************************************************************************)
(* The requests in flight on the API, one slot each. A handler is a series *)
(* of steps, one for each statement that reads or writes the database; the *)
(* steps of two handlers interleave. The process may die between two steps *)
(* of a handler: what it has written stays, and nobody goes on with it.    *)
(***************************************************************************)
EXTENDS Naturals, FiniteSets

CONSTANTS
  Requests,         \* the requests that may be in flight together
  None              \* null

ASSUME SlotAssumption == Requests # {} /\ IsFiniteSet(Requests)

VARIABLE req        \* where each request is, and what it has read

Idle == [pc |-> "idle"]

InitSlots == req = [r \in Requests |-> Idle]

At(r, pc) == req[r].pc = pc

Become(r, q) == req' = [req EXCEPT ![r] = q]
Goto(r, pc) == req' = [req EXCEPT ![r].pc = pc]
Finish(r) == Become(r, Idle)

InFlight(r) == req[r] # Idle

Die(r) == InFlight(r) /\ Finish(r)
=============================================================================
