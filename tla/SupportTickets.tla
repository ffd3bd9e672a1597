--------------------------- MODULE SupportTickets ---------------------------
(***************************************************************************)
(* The status of one support ticket, between the learner and the staff:    *)
(* apps/api/src/tickets/tickets.service.ts and, for the staff,             *)
(* apps/api/src/admin/admin.service.ts. Attachments are left out.          *)
(***************************************************************************)
EXTENDS Slots

VARIABLES
  ticket,           \* SupportTicket.status
  waiting,          \* whether the learner wrote since the staff last acted
  missed            \* whether that reply could not see the ticket's status,
                    \* or died before it reopened it

ticketVars == <<ticket, waiting, missed>>

TicketStatus == {"OPEN", "IN_PROGRESS", "RESOLVED", "CLOSED"}

\* TicketsService.create
TicketsInit == ticket = "OPEN" /\ waiting = TRUE /\ missed = FALSE

ReadTicket(r, pc) ==
  /\ At(r, "idle")
  /\ Become(r, [pc |-> pc, seen |-> ticket])
  /\ UNCHANGED ticketVars

-----------------------------------------------------------------------------
(* TicketsService.reply *)

Reply(r) == ticket # "CLOSED" /\ ReadTicket(r, "createReply")

NextOfReply(r, next) ==
  /\ At(r, "createReply")
  /\ waiting' = TRUE
  /\ missed' = (missed \/ ticket # req[r].seen)
  /\ IF next = "idle" THEN Finish(r) ELSE Goto(r, next)
  /\ UNCHANGED ticket

\* Slip: a reply is a reply.
CreateReplyOnly(r) == NextOfReply(r, "idle")

CreateReply(r) == NextOfReply(r, IF req[r].seen = "RESOLVED" THEN "reopen" ELSE "idle")

\* update({ where: { id } }): whatever the status is by now
Reopen(r) ==
  /\ At(r, "reopen")
  /\ ticket' = "OPEN"
  /\ Finish(r)
  /\ UNCHANGED <<waiting, missed>>

-----------------------------------------------------------------------------
(* AdminService.replyToTicket, updateTicket *)

Acted == waiting' = FALSE /\ missed' = FALSE

ReplyToTicket(r) == ReadTicket(r, "createStaffReply")

CreateStaffReply(r) ==
  /\ At(r, "createStaffReply")
  /\ Acted
  /\ IF req[r].seen = "OPEN" THEN Goto(r, "progress") ELSE Finish(r)
  /\ UNCHANGED ticket

Progress(r) ==
  /\ At(r, "progress")
  /\ ticket' = "IN_PROGRESS"
  /\ Finish(r)
  /\ UNCHANGED <<waiting, missed>>

UpdateTicket ==
  /\ ticket' \in TicketStatus
  /\ Acted
  /\ UNCHANGED req

LoseRequest(r) ==
  /\ Die(r)
  /\ missed' = (missed \/ At(r, "reopen"))
  /\ UNCHANGED <<ticket, waiting>>

TicketsNext ==
  \/ \E r \in Requests :
       \/ Reply(r) \/ CreateReply(r) \/ Reopen(r)
       \/ ReplyToTicket(r) \/ CreateStaffReply(r) \/ Progress(r) \/ LoseRequest(r)
  \/ UpdateTicket

-----------------------------------------------------------------------------
(* Property *)

\* A learner who wrote last does not wait on a ticket that is resolved or
\* closed, but while the reply reopens it, or when the staff changed the status
\* after the reply had read it, or the process died before it reopened it.
LearnerIsHeard ==
  waiting /\ ticket \in {"RESOLVED", "CLOSED"} =>
    missed \/ \E r \in Requests : At(r, "reopen")
=============================================================================
