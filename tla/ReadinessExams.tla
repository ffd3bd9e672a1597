--------------------------- MODULE ReadinessExams ---------------------------
(***************************************************************************)
(* The readiness exam of one learner, whose result rewrites the learner's  *)
(* roadmap: apps/api/src/readiness/readiness.service.ts with gradeAttempt  *)
(* and buildExamOutcome of packages/shared/src/exam.                       *)
(***************************************************************************)
EXTENDS ExamState, SequencesExt

CONSTANTS
  EXAM_DOMAINS,     \* the domains of the questions, in their order
  Modules, Levels,  \* a roadmap as it is generated: its modules and a level
  Thresholds,       \* the pass thresholds an admin may set
  EXAM_DURATION,    \* EXAM_DURATION_SEC, in minutes
  MaxExams,         \* bound on the readiness attempts
  MaxBankEdits      \* bound on the edits of the test bank and the threshold

\* What a roadmap may become: modules and refreshers, and a level that may rise.
Roadmaps == [modules : Seq(ToSet(EXAM_DOMAINS) \cup ToSet(Modules)),
             level : Levels \cup {"confidentBeginner"}]

ASSUME ReadinessAssumption ==
  /\ Thresholds \subseteq Nat /\ EXAM_DURATION \in Nat /\ MaxExams \in 0..MaxAttempts /\ MaxBankEdits \in Nat
  /\ EXAM_DOMAINS \in Seq(ToSet(EXAM_DOMAINS)) \ {<<>>} /\ IsInjective(EXAM_DOMAINS)
  /\ Modules \in Seq(ToSet(Modules))
  /\ None \notin Roadmaps

VARIABLES
  bank,             \* the questions of the readiness test bank
  passThreshold,    \* SiteSettings.readiness.passThreshold
  bankEdits,        \* the admin's edits of the two
  roadmap           \* the learner's Roadmap row, or None

readinessVars == <<bank, passThreshold, bankEdits, roadmap>>

\* s.filter((x) => x \in S)
Filter(s, S) ==
  LET kept[i \in 0..Len(s)] ==
        IF i = 0 THEN <<>>
        ELSE IF s[i] \in S THEN Append(kept[i - 1], s[i]) ELSE kept[i - 1]
  IN  kept[Len(s)]

Domain(paper, d) == {q \in DOMAIN paper : paper[q].domain = d}
DomainPercent(paper, sheet, d) ==
  Percent(Cardinality(Right(paper, sheet) \cap Domain(paper, d)),
          Cardinality(Domain(paper, d)))

\* Slip: the last domain is left out.
TotalButLast(score, n) ==
  LET sum[i \in 0..n] == IF i = 0 THEN 0 ELSE sum[i - 1] + score[i]
  IN  sum[n - 1]

\* domainScores.reduce((sum, s) => sum + s.percent, 0)
Total(score, n) ==
  LET sum[i \in 0..n] == IF i = 0 THEN 0 ELSE sum[i - 1] + score[i]
  IN  sum[n]

\* gradeAttempt with the weak domains of buildExamOutcome; the refresher of a
\* domain goes by the domain's name.
ReadinessGradeOf(paper, sheet, threshold, onRoadmap) ==
  LET percent(d) == DomainPercent(paper, sheet, d)
      n == Len(EXAM_DOMAINS)
      sum == Total([i \in 1..n |-> percent(EXAM_DOMAINS[i])], n)
      average == IF n = 0 THEN 0 ELSE (2 * sum + n) \div (2 * n)
  IN  [graded |-> TRUE, average |-> average, passed |-> average >= threshold,
       weak |-> Filter(EXAM_DOMAINS, {d \in ToSet(EXAM_DOMAINS) : percent(d) < 50}), onRoadmap |-> onRoadmap]

ReadinessGrades ==
  [paper \in Papers |-> [sheet \in Sheets |->
     {ReadinessGradeOf(paper, sheet, threshold, onRoadmap) :
        threshold \in Thresholds, onRoadmap \in BOOLEAN}]]

\* Slip: a failure leaves the modules alone.
RebuiltWithoutRefreshers(map, grade) ==
  [map EXCEPT !.level = IF grade.passed /\ grade.average >= 85 /\ @ = "absoluteBeginner"
                        THEN "confidentBeginner" ELSE @]
\* Slip: refreshers of an earlier failure are repeated.
RebuiltWithRepetitions(map, grade) ==
  IF grade.passed THEN map ELSE [map EXCEPT !.modules = grade.weak \o @]

\* A pass raises a beginner; a failure puts the refreshers first.
Rebuilt(map, grade) ==
  IF grade.passed
  THEN [map EXCEPT !.level = IF grade.average >= 85 /\ @ = "absoluteBeginner"
                             THEN "confidentBeginner" ELSE @]
  ELSE [map EXCEPT !.modules =
          grade.weak \o Filter(@, ToSet(@) \ ToSet(grade.weak))]

ReadinessInit ==
  /\ bank \in {p \in Papers : DOMAIN p # {}}
  /\ passThreshold \in Thresholds
  /\ bankEdits = 0
  /\ roadmap = None

-----------------------------------------------------------------------------
(* startExam, getExamAttempt *)

ReadinessOverdue(row) == row.startedAt + EXAM_DURATION <= now

\* No attempt in progress: one is created.  An overdue one is expired first; one
\* in time is answered, which changes nothing.
StartExam(r) ==
  /\ At(r, "idle")
  /\ \/ /\ \A a \in Attempts : attempts[a].status # "IN_PROGRESS"
        /\ Goto(r, "createExam")
        /\ UNCHANGED <<attempts, now, overtaken>>
     \/ \E a \in Attempts : /\ attempts[a].status = "IN_PROGRESS"
                            /\ ReadinessOverdue(attempts[a])
                            /\ Read(r, "expireAndStart", a, None, NoAnswers)
  /\ UNCHANGED readinessVars

\* Also the first step of saveAnswers: an overdue attempt is expired and refused.
GetExamAttempt(r) ==
  /\ \E a \in Attempts : /\ attempts[a].status = "IN_PROGRESS"
                         /\ ReadinessOverdue(attempts[a])
                         /\ Read(r, "expire", a, None, NoAnswers)
  /\ UNCHANGED readinessVars

\* expireAttempt: an atomic update of the active row, one being graded included
ExpireExam(r) ==
  /\ req[r].pc \in {"expireAndStart", "expire"}
  /\ IF attempts[req[r].a].status \in Active
     THEN Expire(req[r].a) ELSE UNCHANGED <<attempts, overtaken>>
  /\ IF At(r, "expireAndStart") THEN Goto(r, "createExam") ELSE Finish(r)
  /\ UNCHANGED <<now, readinessVars>>

CreateExam(r) ==
  /\ At(r, "createExam")
  /\ Create(bank, MaxExams)
  /\ Finish(r)
  /\ UNCHANGED <<now, overtaken, readinessVars>>

-----------------------------------------------------------------------------
(* saveAnswers: merged into the answers as they were read *)

RequestSaveExam(r) ==
  /\ \E a \in Attempts, input \in Inputs :
       /\ attempts[a].status = "IN_PROGRESS"
       /\ ~ReadinessOverdue(attempts[a])
       /\ Read(r, "saveExam", a, None, input)
  /\ UNCHANGED readinessVars

SaveExam(r) ==
  /\ At(r, "saveExam")
  /\ attempts' = [attempts EXCEPT ![req[r].a].answers =
                    Merge(req[r].seen.answers, req[r].input)]
  /\ Finish(r)
  /\ UNCHANGED <<now, overtaken, readinessVars>>

-----------------------------------------------------------------------------
(* submitExam *)

RequestSubmitExam(r) ==
  /\ \E a \in Attempts, input \in Inputs \cup {NoAnswers} :
       /\ attempts[a].status \in {"IN_PROGRESS", "EXPIRED"}
       /\ Read(r, "claim", a, None, input)
  /\ UNCHANGED readinessVars

\* The loser of the claim expires what is overdue, even while it is graded.
ClaimExam(r) ==
  /\ Claim(r, IF ReadinessOverdue(req[r].seen) THEN "expire" ELSE "idle")
  /\ UNCHANGED readinessVars

\* The settings and the roadmap are read, and the outcome built from them.  A
\* roadmap without modules is not written.
BuildOutcome(r) ==
  LET seen == req[r].seen
      sheet == Merge(seen.answers, req[r].input)
      grade == ReadinessGradeOf(seen.paper, sheet, passThreshold, roadmap # None)
      rebuilt == IF roadmap = None THEN None ELSE Rebuilt(roadmap, grade)
  IN  /\ At(r, "grade")
      /\ req' = [req EXCEPT
           ![r].pc = IF roadmap = None \/ rebuilt.modules = <<>>
                     THEN "gradeExam" ELSE "updateRoadmap",
           ![r].read = [grade |-> grade, roadmap |-> rebuilt],
           ![r].input = sheet]
      /\ UNCHANGED <<attempts, now, overtaken, readinessVars>>

UpdateRoadmap(r) ==
  /\ At(r, "updateRoadmap")
  /\ roadmap' = req[r].read.roadmap
  /\ Goto(r, "gradeExam")
  /\ UNCHANGED <<attempts, now, overtaken, bank, passThreshold, bankEdits>>

\* The ReadinessTest row for older clients and the e-mail that follow are left
\* out: only reports read them.
GradeExam(r) ==
  /\ At(r, "gradeExam")
  /\ attempts' = [attempts EXCEPT ![req[r].a].status = "SUBMITTED",
                    ![req[r].a].answers = req[r].input,
                    ![req[r].a].grade = req[r].read.grade]
  /\ Finish(r)
  /\ UNCHANGED <<now, overtaken, readinessVars>>

-----------------------------------------------------------------------------
(* The admin and the learner beside the exam *)

SaveBank ==
  /\ bankEdits < MaxBankEdits
  /\ bank' \in {p \in Papers : DOMAIN p # {}}
  /\ passThreshold' \in Thresholds
  /\ bankEdits' = bankEdits + 1
  /\ UNCHANGED <<attempts, req, now, overtaken, roadmap>>

CreateRoadmap ==
  /\ roadmap = None
  /\ \E level \in Levels : roadmap' = [modules |-> Modules, level |-> level]
  /\ UNCHANGED <<attempts, req, now, overtaken, bank, passThreshold, bankEdits>>

ReadinessRequest(r) ==
  \/ StartExam(r) \/ GetExamAttempt(r) \/ ExpireExam(r) \/ CreateExam(r)
  \/ RequestSaveExam(r) \/ SaveExam(r) \/ RequestSubmitExam(r) \/ ClaimExam(r)
  \/ BuildOutcome(r) \/ UpdateRoadmap(r) \/ GradeExam(r)

ReadinessNext == (\E r \in Requests : ReadinessRequest(r)) \/ SaveBank \/ CreateRoadmap
=============================================================================
