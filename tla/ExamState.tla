----------------------------- MODULE ExamState ------------------------------
(***************************************************************************)
(* What the course exams and the readiness exam of apps/api/src share: the *)
(* status of an attempt, the sheets of answers a learner sends and the     *)
(* grading of one response.  Both services are modelled for one learner,   *)
(* and the course exams for one exam: every query of theirs is confined to *)
(* the rows of one, and so is the unique index over active attempts.       *)
(*                                                                         *)
(* A request runs in a slot r of Requests; between two of its awaits any   *)
(* other may run, or the process may die.  It reads the attempt it acts on *)
(* once, and most writes that follow name the row by its id alone: what    *)
(* the read saw need no longer be true.                                    *)
(***************************************************************************)
EXTENDS Integers, Sequences, FiniteSets, TLC

CONSTANTS
  MaxAttempts,  \* bound on the attempts, numbered in the order of their creation
  Requests,     \* slots for requests in flight (bound)
  Questions,
  Responses,    \* the answers to a question a client can send
  Papers,       \* the versions of the questions an admin may save
  Inputs,       \* the answers a client may send along
  MaxNow,       \* bound on the clock, in minutes
  None

Attempts == 1..MaxAttempts

ASSUME ExamAssumption ==
  /\ MaxAttempts \in Nat
  /\ Requests # {} /\ IsFiniteSet(Requests)
  /\ \A sheet \in Inputs : sheet \in [DOMAIN sheet -> Responses] /\ DOMAIN sheet \subseteq Questions
  /\ \A paper \in Papers :
        /\ DOMAIN paper \subseteq Questions /\ IsFiniteSet(DOMAIN paper)
        /\ \A q \in DOMAIN paper :
              /\ paper[q].accepted \subseteq Responses
              /\ paper[q].points \in Nat
  /\ MaxNow \in Nat
  /\ None \notin Attempts /\ None \notin Papers

VARIABLES
  attempts,         \* attempts[a]: a CourseExamAttempt or an ExamAttempt row
  req,              \* the requests in flight
  now,              \* the clock
  overtaken         \* history: the attempts expired after they were claimed

Status == {"IN_PROGRESS", "PROCESSING", "SUBMITTED", "EXPIRED"}

\* The index "active_unique" admits one row of these per learner (and exam).
Active == {"IN_PROGRESS", "PROCESSING"}

\* The JSON object of answers: some questions are answered, others not, and
\* every answer is one the learner has sent.
Sent == UNION {{<<q, sheet[q]>> : q \in DOMAIN sheet} : sheet \in Inputs}
Sheets ==
  {sheet \in UNION {[Q -> {sent[2] : sent \in Sent}] : Q \in SUBSET {sent[1] : sent \in Sent}} :
     \A q \in DOMAIN sheet : <<q, sheet[q]>> \in Sent}
NoAnswers == [q \in {} |-> None]

\* { ...saved, ...sent }
Merge(saved, sent) ==
  [q \in DOMAIN saved \cup DOMAIN sent |-> IF q \in DOMAIN sent THEN sent[q] ELSE saved[q]]

-----------------------------------------------------------------------------
(* Grading *)

\* A question stands for the responses gradeResponse accepts: those of its own type
\* that choose, order or fill in what its answer says.
Correct(question, response) == response \in question.accepted

Right(paper, sheet) ==
  {q \in DOMAIN paper \cap DOMAIN sheet : Correct(paper[q], sheet[q])}

\* Math.round((part / whole) * 100), zero for an empty whole
Percent(part, whole) ==
  IF whole = 0 THEN 0 ELSE (200 * part + whole) \div (2 * whole)

-----------------------------------------------------------------------------
\* An ungraded row has no score; "graded" tells the two apart.
NoGrade == [graded |-> FALSE]

\* "none": not created yet; "deleted": an id is never used again.
NoRow == [status |-> "none", paper |-> None, startedAt |-> 0,
          answers |-> NoAnswers, grade |-> NoGrade]
NewRow(paper) == [NoRow EXCEPT !.status = "IN_PROGRESS", !.paper = paper, !.startedAt = now]

\* What a request carries: its attempt, the row it read and what else it has
\* read by now, and the answers of its body.
Idle == [pc |-> "idle", a |-> None, seen |-> NoRow, read |-> None, input |-> NoAnswers]

-----------------------------------------------------------------------------
(* Rows and requests *)

At(r, step) == req[r].pc = step
Goto(r, step) == req' = [req EXCEPT ![r].pc = step]
Finish(r) == req' = [req EXCEPT ![r] = Idle]

Exists(a) == attempts[a].status \in Status
ActiveAttempts == {a \in Attempts : attempts[a].status \in Active}
Submitted == {a \in Attempts : attempts[a].status = "SUBMITTED"}
SetStatus(a, status) == attempts' = [attempts EXCEPT ![a].status = status]

\* The request begins with a read of attempt a.
Read(r, step, a, read, input) ==
  /\ At(r, "idle")
  /\ Exists(a)
  /\ req' = [req EXCEPT ![r] = [pc |-> step, a |-> a, seen |-> attempts[a],
                                read |-> read, input |-> input]]
  /\ UNCHANGED <<attempts, now, overtaken>>

\* Slip: no index refuses a second active attempt.
CreateBesideActive(paper, last) ==
  \E a \in 1..last :
    /\ \A b \in Attempts : attempts[b].status = "none" <=> b >= a
    /\ attempts' = [attempts EXCEPT ![a] = NewRow(paper)]

\* create, unless the unique index refuses a second active attempt: the caller
\* is then answered with the one there is.
Create(paper, last) ==
  IF ActiveAttempts = {}
  THEN \E a \in 1..last :
         /\ \A b \in Attempts : attempts[b].status = "none" <=> b >= a
         /\ attempts' = [attempts EXCEPT ![a] = NewRow(paper)]
  ELSE UNCHANGED attempts

\* update({ where: { id } }) to EXPIRED, with the history it leaves
Expire(a) ==
  /\ SetStatus(a, "EXPIRED")
  /\ overtaken' = IF attempts[a].status \in {"PROCESSING", "SUBMITTED"}
                  THEN overtaken \cup {a} ELSE overtaken

InitState ==
  /\ attempts = [a \in Attempts |-> NoRow]
  /\ req = [r \in Requests |-> Idle]
  /\ now = 0
  /\ overtaken = {}

\* Slip: an expired attempt is claimed, too.
ClaimExpired(r, next) ==
  /\ At(r, "claim")
  /\ attempts[req[r].a].status \in {"IN_PROGRESS", "EXPIRED"}
  /\ SetStatus(req[r].a, "PROCESSING") /\ Goto(r, "grade")
  /\ UNCHANGED <<now, overtaken>>

\* Slip: what is late is turned away once it is claimed.
ClaimThenRefuse(r, next) ==
  /\ At(r, "claim")
  /\ IF attempts[req[r].a].status = "IN_PROGRESS"
     THEN SetStatus(req[r].a, "PROCESSING") /\ IF next = "idle" THEN Goto(r, "grade") ELSE Finish(r)
     ELSE /\ IF next = "idle" THEN Finish(r) ELSE Goto(r, next)
          /\ UNCHANGED attempts
  /\ UNCHANGED <<now, overtaken>>

\* updateMany({ where: { status: IN_PROGRESS } }) of a submission: the first one
\* claims the attempt, in time or late; the others go on to "next".
Claim(r, next) ==
  /\ At(r, "claim")
  /\ IF attempts[req[r].a].status = "IN_PROGRESS"
     THEN SetStatus(req[r].a, "PROCESSING") /\ Goto(r, "grade")
     ELSE /\ IF next = "idle" THEN Finish(r) ELSE Goto(r, next)
          /\ UNCHANGED attempts
  /\ UNCHANGED <<now, overtaken>>

\* The clock, and a process that dies between two steps of a request
Tick == now < MaxNow /\ now' = now + 1 /\ UNCHANGED <<attempts, req, overtaken>>
Crash(r) == ~At(r, "idle") /\ Finish(r) /\ UNCHANGED <<attempts, now, overtaken>>
=============================================================================
