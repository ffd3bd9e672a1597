------------------------------- MODULE Exams --------------------------------
(***************************************************************************)
(* The two exam services, of which a behaviour follows one: they share the *)
(* life cycle of an attempt and no table.                                  *)
(***************************************************************************)
EXTENDS CourseExams, ReadinessExams

VARIABLE service      \* "course" or "readiness", fixed from the start

vars == <<attempts, req, now, overtaken, courseVars, readinessVars, service>>

\* The tables of the other service are left blank.
Init ==
  /\ InitState
  /\ \/ /\ service = "course" /\ CourseInit
        /\ bank = None /\ passThreshold = None /\ bankEdits = 0 /\ roadmap = None
     \/ /\ service = "readiness" /\ ReadinessInit
        /\ exam = None /\ edits = 0

Course == service = "course" /\ CourseNext /\ UNCHANGED <<readinessVars, service>>
Readiness == service = "readiness" /\ ReadinessNext /\ UNCHANGED <<courseVars, service>>
Environment ==
  (Tick \/ \E r \in Requests : Crash(r)) /\ UNCHANGED <<courseVars, readinessVars, service>>

Next == Course \/ Readiness \/ Environment

Spec == Init /\ [][Next]_vars

-----------------------------------------------------------------------------
(* Properties *)

Grades == [paper \in Papers |-> [sheet \in Sheets |->
             CourseGrades[paper][sheet] \cup ReadinessGrades[paper][sheet]]]

Contract == INSTANCE ExamContract WITH
  NoPaper <- None,
  pinned <- [a \in Attempts |-> attempts[a].paper],
  answers <- [a \in Attempts |-> attempts[a].answers],
  grade <- [a \in Attempts |-> attempts[a].grade]

\* An attempt is graded at most once, the answers then stored on the questions
\* pinned when it was started: neither a second submission nor an edit of the
\* questions changes the grade.
ImplementsContract == Contract!Spec

\* The graded attempts of a course exam exceed its budget only by what was
\* started beside the submission that used it up, one for each other request in
\* flight, and by the attempts a start expired while they were graded.
GradedWithinBudget ==
  service = "course" =>
    \A most \in Budgets :
      (\A other \in Budgets : other <= most) =>
        Cardinality(Submitted) <=
          most + Cardinality(Requests) - 1 + Cardinality(overtaken)

\* Once graded, a row changes only under a request that read it before it was
\* claimed: a save under way, or a start that found it overdue.
LeavesGradedOnlyByStaleRead ==
  [][\A a \in Submitted :
       attempts'[a] # attempts[a] =>
         \/ ~Exists(a)'
         \/ \E r \in Requests : /\ req[r].a = a /\ req'[r] # req[r]
                                /\ req[r].seen.status = "IN_PROGRESS"]_vars

\* The comment at the index: "One active (non-terminal) attempt per user per
\* exam", through starts, claims, expiries and late gradings.
OneActive == \A a, b \in ActiveAttempts : a = b

\* "EXPIRED is terminal": an expired attempt is graded only by the request that
\* had claimed it when it was expired.
ExpiredIsFinal ==
  [][\A a \in Attempts :
       attempts[a].status = "EXPIRED" /\ attempts'[a].status \notin {"EXPIRED", "deleted"} =>
         attempts'[a].status = "SUBMITTED" /\ a \in overtaken]_vars

\* An attempt under grading that nobody grades: no request can revive it.
Grading == {"grade", "updateRoadmap", "gradeExam"}
Stranded(a) ==
  /\ attempts[a].status = "PROCESSING"
  /\ \A r \in Requests : req[r].pc \in Grading => req[r].a # a

\* Whoever claims an attempt grades it, however late it is, whatever was deleted
\* or expired meanwhile: one is stranded only when the request that grades it dies.
StrandedOnlyByCrash ==
  [][\A a \in Attempts :
       Stranded(a)' =>
         \/ Stranded(a)
         \/ \E r \in Requests : req[r].pc \in Grading /\ req[r].a = a /\ Crash(r)]_vars

\* A failed readiness exam has its refreshers on the roadmap, unless an attempt
\* was expired while it was graded and another was graded beside it.
FailedIsCovered ==
  service = "readiness" /\ overtaken = {} =>
    \A a \in Submitted :
      attempts[a].grade.onRoadmap /\ ~attempts[a].grade.passed =>
        ToSet(attempts[a].grade.weak) \subseteq ToSet(roadmap.modules)

KeepsModules(map) ==
  /\ ToSet(Modules) \subseteq ToSet(map.modules)
  /\ IsInjective(Modules) => IsInjective(map.modules)

\* However often it is rebuilt, a roadmap keeps every module the learner paid
\* for, and repeats none, unless the admin's track did (its DTO allows it).
RoadmapKeepsModules == roadmap # None => KeepsModules(roadmap)

\* Who fails with an average below the half that makes a domain weak finds a
\* refresher on the roadmap.  From there up to the pass threshold of the admin
\* a failure may go without one.
FailureHasRefresher ==
  service = "readiness" /\ overtaken = {} =>
    \A a \in Submitted :
      LET grade == attempts[a].grade
      IN  grade.onRoadmap /\ ~grade.passed /\ grade.average < 50 =>
            ToSet(EXAM_DOMAINS) \cap ToSet(roadmap.modules) # {}

\* A comment of submitExam says: "Server-authoritative expiration: a submission
\* after endsAt is rejected, even if the client never saw the countdown finish."
LateIsRejected ==
  [][\A r \in Requests :
       service = "readiness" /\ At(r, "claim") /\ ReadinessOverdue(req[r].seen) =>
         ~At(r, "grade")']_vars

-----------------------------------------------------------------------------
(* The inductive invariant *)

AnyGrade == UNION {Grades[p][s] : p \in Papers, s \in Sheets}
Rows == [status : Status \cup {"none", "deleted"}, paper : Papers \cup {None},
         startedAt : Nat, answers : Sheets, grade : AnyGrade \cup {NoGrade}]

CourseSteps == {"countAttempts", "findActive", "expireAttempt", "createAttempt",
                "saveAnswers", "refuse", "deleteAttempts", "deleteExam"}
ReadinessSteps == {"expireAndStart", "expire", "createExam", "saveExam",
                   "updateRoadmap", "gradeExam"}

RowOK(row) ==
  /\ row \in Rows
  /\ row.status = "none" <=> row.paper = None
  /\ row.status \in Active \cup {"none"} => row.grade = NoGrade
  /\ row.status = "none" => row.answers = NoAnswers

\* What a request has read still holds where its writes rely on it.
RequestOK(q) ==
  /\ q = [pc |-> q.pc, a |-> q.a, seen |-> q.seen, read |-> q.read, input |-> q.input]
  /\ q.pc \in {"idle", "claim", "grade"} \cup
             (IF service = "course" THEN CourseSteps ELSE ReadinessSteps)
  /\ q.seen \in Rows /\ q.input \in Sheets
  /\ q.pc \in {"countAttempts", "findActive", "createAttempt", "expireAttempt", "refuse"} =>
       q.read \in Exams
  /\ q.pc \in {"claim", "grade"} /\ service = "course" => q.read \in Exams
  /\ q.pc \in {"saveAnswers", "saveExam", "expireAttempt", "expireAndStart",
               "expire", "claim", "refuse"} \cup Grading =>
       /\ q.a \in Attempts
       /\ attempts[q.a].status # "none" /\ attempts[q.a].paper = q.seen.paper
  /\ q.pc \in {"saveAnswers", "saveExam", "expireAttempt"} => q.seen.status = "IN_PROGRESS"
  /\ q.pc \in {"updateRoadmap", "gradeExam"} =>
       q.read.grade \in Grades[q.seen.paper][q.input]

\* The attempt a request grades has no grade yet and is still its to grade:
\* processing, unless it was expired under it or deleted.
Gradable(a) ==
  /\ attempts[a].grade = NoGrade
  /\ attempts[a].status \in {"PROCESSING", "EXPIRED", "deleted"}
  /\ attempts[a].status = "EXPIRED" => a \in overtaken
GraderOK(q) == q.pc \in Grading => Gradable(q.a)

OneGrader ==
  \A r, s \in Requests :
    req[r].pc \in Grading /\ req[s].pc \in Grading /\ req[r].a = req[s].a => r = s

TypeOK ==
  /\ attempts \in [Attempts -> Rows]
  /\ req = [r \in Requests |-> req[r]]
  /\ now \in Nat
  /\ service \in {"course", "readiness"}
  /\ service = "course" => exam \in Exams
  /\ service = "readiness" => bank \in Papers /\ passThreshold \in Thresholds

Inv ==
  /\ TypeOK
  /\ \A a \in Attempts : RowOK(attempts[a])
  /\ \A r \in Requests : RequestOK(req[r]) /\ GraderOK(req[r])
  /\ OneGrader
  /\ OneActive

(* The roadmap: it is kept by what a request is about to write, too, and what *)
(* a failed attempt still to be graded needs is on it. Only while no attempt  *)
(* was expired under its grader there is one grader, whose outcome is current.*)
Refreshed(grade, map) ==
  /\ ToSet(grade.weak) \subseteq ToSet(map.modules)
  /\ grade.average < 50 => ToSet(EXAM_DOMAINS) \cap ToSet(map.modules) # {}

Covered(grade) ==
  grade.onRoadmap /\ ~grade.passed => roadmap # None /\ Refreshed(grade, roadmap)

OutcomeOK(read) ==
  /\ roadmap # None /\ read.roadmap \in Roadmaps /\ KeepsModules(read.roadmap)
  /\ overtaken = {} =>
       /\ ToSet(roadmap.modules) \subseteq ToSet(read.roadmap.modules)
       /\ ~read.grade.passed => Refreshed(read.grade, read.roadmap)

RoadmapInv ==
  /\ service = "course" => roadmap = None
  /\ service = "readiness" =>
       /\ roadmap # None => roadmap \in Roadmaps /\ KeepsModules(roadmap)
       /\ \A a \in Attempts : attempts[a].status # "deleted"
       /\ \A r \in Requests : At(r, "updateRoadmap") => OutcomeOK(req[r].read)
       /\ overtaken = {} =>
            /\ \A a \in Submitted : Covered(attempts[a].grade)
            /\ \A r \in Requests : At(r, "gradeExam") => Covered(req[r].read.grade)
=============================================================================
