----------------------------- MODULE ExamPages ------------------------------
(***************************************************************************)
(* The page on which a learner takes an exam, and how it saves the answers *)
(* as they are given: ExamPlayer.tsx for the readiness exam, ExamRunner.tsx *)
(* for the exams of a course (both in apps/web), against saveAnswers of the *)
(* API. The answers on the page are one value: every save sends all of     *)
(* them. A slot is a save, on its way or at the API. Grading is in Exams.  *)
(***************************************************************************)
EXTENDS Slots

CONSTANT Answers    \* what a learner may answer

VARIABLES
  player,           \* which of the two pages it is
  seen,             \* the answers on the page
  stored,           \* the answers of the attempt's row
  inProgress,       \* whether the row is IN_PROGRESS
  timer,            \* whether the delayed save is due
  saveState,        \* ExamRunner's saveState; "saved" in ExamPlayer is ~dirty
  crossed             \* whether a save was on its way when the page last
                    \* changed or was opened

examPageVars == <<player, seen, stored, inProgress, timer, saveState, crossed>>

Players == {"ExamPlayer", "ExamRunner"}

Saves == {"save", "update", "ok"}
Saving == \E r \in Requests : req[r].pc \in Saves

\* A page just opened: dirty is false, saveState is idle.
Opened == IF player = "ExamPlayer" THEN "saved" ELSE "idle"

ExamPagesInit ==
  /\ player \in Players
  /\ seen = None /\ stored = None
  /\ inProgress = TRUE /\ timer = FALSE /\ crossed = FALSE
  /\ saveState = Opened

-----------------------------------------------------------------------------
(* The page *)

\* Every change starts the delay anew, also of a save that is due.
SetAnswer ==
  /\ seen' \in Answers
  /\ timer' = TRUE
  /\ saveState' = "saving"
  /\ crossed' = Saving
  /\ UNCHANGED <<req, player, stored, inProgress>>

Send(r) ==
  /\ timer /\ At(r, "idle")
  /\ timer' = FALSE
  /\ Become(r, [pc |-> "save", answers |-> seen, open |-> TRUE])

\* Slip: the page takes for saved what it has only sent.
PersistEagerly(r) ==
  /\ Send(r)
  /\ saveState' = "saved"
  /\ UNCHANGED <<player, seen, stored, inProgress, crossed>>

\* A failed save is not repeated: "retry on next change / submit".
Persist(r) ==
  /\ Send(r)
  /\ UNCHANGED <<player, seen, stored, inProgress, saveState, crossed>>

\* ExamPlayer goes from dirty to clean, which also drops a save that is due.
Saved(r) ==
  /\ At(r, "ok")
  /\ Finish(r)
  /\ saveState' = IF req[r].open THEN "saved" ELSE saveState
  /\ timer' = (timer /\ ~(req[r].open /\ player = "ExamPlayer"))
  /\ UNCHANGED <<player, seen, stored, inProgress, crossed>>

\* The page learns that a save failed: its own answer was lost, or the API
\* refused it or died. What it sent may still be under way.
LoseSave(r) ==
  /\ req[r].pc \in Saves
  /\ \/ Finish(r)
     \/ req[r].open /\ Become(r, [req[r] EXCEPT !.open = FALSE])
  /\ saveState' = IF req[r].open /\ player = "ExamRunner" THEN "idle" ELSE saveState
  /\ UNCHANGED <<player, seen, stored, inProgress, timer, crossed>>

\* The page is left or reloaded and opened again: startExam, startAttempt answer
\* the attempt in progress. A delayed save that still fires after the page was
\* left is one sent just before.
OpenAgain ==
  /\ inProgress
  /\ seen' = stored
  /\ timer' = FALSE
  /\ saveState' = Opened
  /\ crossed' = Saving
  /\ req' = [r \in Requests |->
               IF req[r].pc \in Saves THEN [req[r] EXCEPT !.open = FALSE] ELSE req[r]]
  /\ UNCHANGED <<player, stored, inProgress>>

-----------------------------------------------------------------------------
(* The API *)

ReadAttempt(r) ==
  /\ At(r, "save") /\ inProgress
  /\ Goto(r, "update")
  /\ UNCHANGED examPageVars

UpdateAnswers(r) ==
  /\ At(r, "update")
  /\ stored' = req[r].answers
  /\ Goto(r, "ok")
  /\ UNCHANGED <<player, seen, inProgress, timer, saveState, crossed>>

\* The attempt is submitted or has expired.
Close ==
  /\ inProgress' = FALSE
  /\ UNCHANGED <<req, player, seen, stored, timer, saveState, crossed>>

ExamPagesNext ==
  \/ \E r \in Requests :
       Persist(r) \/ Saved(r) \/ LoseSave(r) \/ ReadAttempt(r) \/ UpdateAnswers(r)
  \/ SetAnswer \/ OpenAgain \/ Close

-----------------------------------------------------------------------------
(* Property *)

\* A page that shows its answers as saved (ExamRunner), or holds nothing to be
\* saved (ExamPlayer), shows what is stored, unless an answer was given, or the
\* page opened, while an earlier save was on its way: then the answer to that
\* save stands for the new one, or the two are written in the other order.
SavedIsStored ==
  inProgress /\ saveState = "saved" => stored = seen \/ crossed
=============================================================================
