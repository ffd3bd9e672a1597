---------------------------- MODULE CourseExams -----------------------------
(***************************************************************************)
(* The attempts of one enrolled learner on one course exam, and the admin  *)
(* who edits or deletes the exam meanwhile:                                *)
(* apps/api/src/course-exams/course-exams.service.ts.                      *)
(***************************************************************************)
EXTENDS ExamState, FiniteSetsExt

CONSTANTS
  Budgets, Durations, PassScores,   \* what an admin may set
  MaxEdits                          \* bound on the admin's edits

ASSUME CourseExamAssumption ==
  /\ Budgets \subseteq Nat /\ Durations \subseteq Nat /\ PassScores \subseteq Nat
  /\ MaxEdits \in Nat

VARIABLES
  exam,             \* the CourseExam row
  edits             \* the edits of the admin so far

courseVars == <<exam, edits>>

Exams == [published : BOOLEAN, paper : Papers, maxAttempts : Budgets,
          durationMin : Durations, passScore : PassScores, deleted : BOOLEAN]

CourseGradeOf(paper, sheet, passScore) ==
  LET Points(Q) == MapThenSumSet(LAMBDA q : paper[q].points, Q)
      score == Percent(Points(Right(paper, sheet)), Points(DOMAIN paper))
  IN  [graded |-> TRUE, score |-> score, passed |-> score >= passScore]

\* Slip: the questions of the day are graded.
ResolveLive(pinned, live) == live

\* resolveAttemptQuestions: a snapshot without questions falls back to the live ones
Resolve(pinned, live) == IF DOMAIN pinned = {} THEN live ELSE pinned

\* What an attempt pinned to a version may be graded with.
CourseGrades ==
  [pinned \in Papers |-> [sheet \in Sheets |->
     {CourseGradeOf(paper, sheet, pass) :
        paper \in IF DOMAIN pinned = {} THEN Papers ELSE {pinned}, pass \in PassScores}]]

CourseInit ==
  /\ exam \in {e \in Exams : e.published /\ ~e.deleted}
  /\ edits = 0

-----------------------------------------------------------------------------
(* startAttempt: the learner is enrolled, or nothing happens *)

StartAttempt(r) ==
  /\ At(r, "idle")
  /\ ~exam.deleted /\ exam.published
  /\ req' = [req EXCEPT ![r] = [Idle EXCEPT !.pc = "countAttempts", !.read = exam]]
  /\ UNCHANGED <<attempts, now, overtaken, courseVars>>

\* Slip: one attempt too many.
CountAttemptsInclusive(r) ==
  /\ At(r, "countAttempts")
  /\ IF Cardinality(Submitted) > req[r].read.maxAttempts
     THEN Finish(r)
     ELSE Goto(r, "findActive")
  /\ UNCHANGED <<attempts, now, overtaken, courseVars>>

CountAttempts(r) ==
  /\ At(r, "countAttempts")
  /\ IF Cardinality(Submitted) >= req[r].read.maxAttempts
     THEN Finish(r)
     ELSE Goto(r, "findActive")
  /\ UNCHANGED <<attempts, now, overtaken, courseVars>>

\* An attempt under way is answered; one being graded falls through, too.
FindActive(r) ==
  /\ At(r, "findActive")
  /\ \/ /\ \A a \in ActiveAttempts : attempts[a].status = "PROCESSING"
        /\ Goto(r, "createAttempt")
     \/ \E a \in ActiveAttempts :
          /\ attempts[a].status = "IN_PROGRESS"
          /\ IF now > attempts[a].startedAt + req[r].read.durationMin
             THEN req' = [req EXCEPT ![r].pc = "expireAttempt", ![r].a = a,
                                     ![r].seen = attempts[a]]
             ELSE Finish(r)
  /\ UNCHANGED <<attempts, now, overtaken, courseVars>>

\* update({ where: { id } }): whatever has become of the attempt meanwhile
ExpireAttempt(r) ==
  /\ At(r, "expireAttempt")
  /\ IF Exists(req[r].a)
     THEN Expire(req[r].a) /\ Goto(r, "createAttempt")
     ELSE Finish(r) /\ UNCHANGED <<attempts, overtaken>>
  /\ UNCHANGED <<now, courseVars>>

\* The snapshot pins the questions read when the request began.
CreateAttempt(r) ==
  /\ At(r, "createAttempt")
  /\ IF exam.deleted THEN UNCHANGED attempts ELSE Create(req[r].read.paper, MaxAttempts)
  /\ Finish(r)
  /\ UNCHANGED <<now, overtaken, courseVars>>

-----------------------------------------------------------------------------
(* saveAnswers: the new answers replace the saved ones *)

\* Slip: the status is not checked.
RequestSaveUnchecked(r) ==
  \E a \in Attempts, input \in Inputs :
    Read(r, "saveAnswers", a, None, input) /\ UNCHANGED courseVars

RequestSave(r) ==
  \E a \in Attempts, input \in Inputs :
    /\ attempts[a].status = "IN_PROGRESS"
    /\ Read(r, "saveAnswers", a, None, input)
    /\ UNCHANGED courseVars

SaveAnswers(r) ==
  /\ At(r, "saveAnswers")
  /\ IF Exists(req[r].a)
     THEN attempts' = [attempts EXCEPT ![req[r].a].answers = req[r].input]
     ELSE UNCHANGED attempts
  /\ Finish(r)
  /\ UNCHANGED <<now, overtaken, courseVars>>

-----------------------------------------------------------------------------
(* submitAttempt *)

RequestSubmit(r) ==
  \E a \in Attempts, input \in Inputs \cup {NoAnswers} :
    /\ attempts[a].status \in {"IN_PROGRESS", "EXPIRED"}
    /\ ~exam.deleted
    /\ Read(r, "claim", a, exam, input)
    /\ UNCHANGED courseVars

ClaimAttempt(r) ==
  LET overdue == now >= req[r].seen.startedAt + req[r].read.durationMin
  IN  Claim(r, IF overdue THEN "refuse" ELSE "idle") /\ UNCHANGED courseVars

\* The loser of the claim expires what is overdue, then answers what it finds.
RefuseSubmit(r) ==
  /\ At(r, "refuse")
  /\ IF attempts[req[r].a].status = "IN_PROGRESS"
     THEN Expire(req[r].a)
     ELSE UNCHANGED <<attempts, overtaken>>
  /\ Finish(r)
  /\ UNCHANGED <<now, courseVars>>

\* The answers are those read before the claim, merged with those sent along.
GradeAttempt(r) ==
  LET seen == req[r].seen
      live == req[r].read
      sheet == Merge(seen.answers, req[r].input)
      grade == CourseGradeOf(Resolve(seen.paper, live.paper), sheet, live.passScore)
  IN  /\ At(r, "grade")
      /\ IF Exists(req[r].a)
         THEN attempts' = [attempts EXCEPT ![req[r].a].status = "SUBMITTED",
                             ![req[r].a].answers = sheet, ![req[r].a].grade = grade]
         ELSE UNCHANGED attempts
      /\ Finish(r)
      /\ UNCHANGED <<now, overtaken, courseVars>>

-----------------------------------------------------------------------------
(* updateAdmin, deleteAdmin *)

UpdateExam ==
  /\ edits < MaxEdits /\ ~exam.deleted
  /\ exam' \in {e \in Exams : ~e.deleted}
  /\ edits' = edits + 1
  /\ UNCHANGED <<attempts, req, now, overtaken>>

RequestDelete(r) ==
  /\ At(r, "idle")
  /\ edits < MaxEdits /\ ~exam.deleted
  /\ Goto(r, "deleteAttempts")
  /\ edits' = edits + 1
  /\ UNCHANGED <<attempts, now, overtaken, exam>>

DeleteRows ==
  attempts' = [a \in Attempts |->
                 IF Exists(a) THEN [attempts[a] EXCEPT !.status = "deleted"] ELSE attempts[a]]

DeleteAttempts(r) ==
  /\ At(r, "deleteAttempts")
  /\ DeleteRows
  /\ Goto(r, "deleteExam")
  /\ UNCHANGED <<now, overtaken, courseVars>>

\* The foreign key cascades to what was started in between.
DeleteExam(r) ==
  /\ At(r, "deleteExam")
  /\ DeleteRows
  /\ exam' = [exam EXCEPT !.deleted = TRUE]
  /\ Finish(r)
  /\ UNCHANGED <<now, overtaken, edits>>

CourseRequest(r) ==
  \/ StartAttempt(r) \/ CountAttempts(r) \/ FindActive(r) \/ ExpireAttempt(r)
  \/ CreateAttempt(r) \/ RequestSave(r) \/ SaveAnswers(r)
  \/ RequestSubmit(r) \/ ClaimAttempt(r) \/ RefuseSubmit(r) \/ GradeAttempt(r)
  \/ RequestDelete(r) \/ DeleteAttempts(r) \/ DeleteExam(r)

CourseNext == (\E r \in Requests : CourseRequest(r)) \/ UpdateExam
=============================================================================
