---------------------------- MODULE ExamsProofs -----------------------------
(***************************************************************************)
(* The invariant of Exams and what follows from it: one active attempt, an *)
(* expired attempt that stays so, a grade that stays, that both exam       *)
(* services implement ExamContract, the budget of a course exam, and what  *)
(* the readiness exam makes of the roadmap.                                *)
(***************************************************************************)
EXTENDS Exams, FiniteSetTheorems, WellFoundedInduction, TLAPS

-----------------------------------------------------------------------------
(* Sheets of answers *)

LEMMA InputSheets == Inputs \subseteq Sheets /\ NoAnswers \in Sheets
<1>1. ASSUME NEW sheet \in Inputs  PROVE  sheet \in Sheets
  <2>1. sheet \in [DOMAIN sheet -> Responses] /\ DOMAIN sheet \subseteq Questions
    BY ExamAssumption
  <2>2. \A q \in DOMAIN sheet : <<q, sheet[q]>> \in Sent
    BY DEF Sent
  <2>3. sheet \in [DOMAIN sheet -> {sent[2] : sent \in Sent}]
    <3>1. \A q \in DOMAIN sheet : sheet[q] = <<q, sheet[q]>>[2]
      OBVIOUS
    <3>2. \A q \in DOMAIN sheet : sheet[q] \in {sent[2] : sent \in Sent}
      BY <2>2, <3>1
    <3>. QED  BY <2>1, <3>2
  <2>5. DOMAIN sheet \in SUBSET {sent[1] : sent \in Sent}
    <3>1. \A q \in DOMAIN sheet : q = <<q, sheet[q]>>[1]
      OBVIOUS
    <3>. QED  BY <2>2, <3>1
  <2>4. sheet \in UNION {[Q -> {sent[2] : sent \in Sent}] : Q \in SUBSET {sent[1] : sent \in Sent}}
    BY <2>3, <2>5
  <2>. QED  BY <2>2, <2>4 DEF Sheets
<1>2. NoAnswers \in Sheets
  <2>1. NoAnswers \in [{} -> {sent[2] : sent \in Sent}] /\ DOMAIN NoAnswers = {}
        /\ {} \in SUBSET {sent[1] : sent \in Sent}
    BY DEF NoAnswers
  <2>. QED  BY <2>1 DEF Sheets
<1>. QED  BY <1>1, <1>2

LEMMA MergeSheets ==
  ASSUME NEW saved \in Sheets, NEW sent \in Sheets
  PROVE  Merge(saved, sent) \in Sheets
<1>. DEFINE merged == Merge(saved, sent)
            Q == {pair[1] : pair \in Sent}
            V == {pair[2] : pair \in Sent}
<1>1. /\ DOMAIN saved \subseteq Q /\ saved \in [DOMAIN saved -> V]
      /\ DOMAIN sent \subseteq Q /\ sent \in [DOMAIN sent -> V]
      /\ \A q \in DOMAIN saved : <<q, saved[q]>> \in Sent
      /\ \A q \in DOMAIN sent : <<q, sent[q]>> \in Sent
  BY DEF Sheets
<1>2. merged \in [DOMAIN saved \cup DOMAIN sent -> V]
  BY <1>1 DEF Merge
<1>3. \A q \in DOMAIN merged : <<q, merged[q]>> \in Sent
  BY <1>1 DEF Merge
<1>. QED  BY <1>1, <1>2, <1>3 DEF Sheets

-----------------------------------------------------------------------------
(* Rows and requests *)

LEMMA NoRowOK == RowOK(NoRow)
BY InputSheets DEF RowOK, NoRow, Rows, NoGrade, Status, Active

LEMMA IdleOK == RequestOK(Idle) /\ GraderOK(Idle)
BY NoRowOK, InputSheets DEF Idle, RequestOK, GraderOK, RowOK, Grading

(***************************************************************************)
(* A step of one request preserves the invariant if it keeps what the      *)
(* others rely on: papers, attempts under grading and one active attempt.  *)
(***************************************************************************)
LEMMA Preserve ==
  ASSUME Inv, TypeOK', NEW r \in Requests, NEW new,
         req' = [req EXCEPT ![r] = new], service' = service,
         \A a \in Attempts : RowOK(attempts'[a]),
         \A a \in Attempts : attempts[a].status # "none" =>
            attempts'[a].status # "none" /\ attempts'[a].paper = attempts[a].paper,
         \A a \in Attempts : Gradable(a) /\ ~(req[r].pc \in Grading /\ a = req[r].a) =>
            Gradable(a)',
         RequestOK(new)',
         new.pc \in Grading => /\ Gradable(new.a)'
                               /\ \/ req[r].pc \in Grading /\ req[r].a = new.a
                                  \/ ~Gradable(new.a),
         OneActive'
  PROVE  Inv'
<1>1. ASSUME NEW s \in Requests  PROVE  RequestOK(req[s])'
  <2>1. CASE s = r
    BY <2>1 DEF Inv, TypeOK
  <2>2. CASE s # r
    <3>1. req'[s] = req[s] /\ RequestOK(req[s])
      BY <2>2 DEF Inv, TypeOK
    <3>. QED  BY <3>1 DEF RequestOK
  <2>. QED  BY <2>1, <2>2
<1>2. ASSUME NEW s \in Requests  PROVE  GraderOK(req[s])'
  <2>1. CASE s = r
    BY <2>1 DEF Inv, TypeOK, GraderOK
  <2>2. CASE s # r
    <3>1. req'[s] = req[s] /\ GraderOK(req[s]) /\ RequestOK(req[s])
      BY <2>2 DEF Inv, TypeOK
    <3>2. req[s].pc \in Grading => req[s].a \in Attempts /\ Gradable(req[s].a)
      BY <3>1 DEF RequestOK, GraderOK
    <3>3. req[s].pc \in Grading /\ req[r].pc \in Grading => req[s].a # req[r].a
      BY <2>2 DEF Inv, OneGrader
    <3>. QED  BY <3>1, <3>2, <3>3 DEF GraderOK
  <2>. QED  BY <2>1, <2>2
<1>3. OneGrader'
  <2>. SUFFICES ASSUME NEW s \in Requests, NEW t \in Requests, s # t,
                       req'[s].pc \in Grading, req'[t].pc \in Grading,
                       req'[s].a = req'[t].a
                PROVE  FALSE
    BY DEF OneGrader
  <2>1. ASSUME NEW u \in Requests, u # r, req'[u].pc \in Grading, new.pc \in Grading,
               req'[u].a = new.a
        PROVE  FALSE
    <3>1. req'[u] = req[u] /\ GraderOK(req[u])
      BY <2>1 DEF Inv, TypeOK
    <3>2. Gradable(new.a)
      BY <2>1, <3>1 DEF GraderOK
    <3>. QED  BY <2>1, <3>1, <3>2 DEF Inv, OneGrader
  <2>2. req'[r] = new
    BY DEF Inv, TypeOK
  <2>3. CASE s # r /\ t # r
    BY <2>3 DEF Inv, TypeOK, OneGrader
  <2>. QED  BY <2>1, <2>2, <2>3
<1>. QED  BY <1>1, <1>2, <1>3 DEF Inv

(***************************************************************************)
(* Most steps leave the attempts alone.                                    *)
(***************************************************************************)
LEMMA PreserveReq ==
  ASSUME Inv, NEW r \in Requests, NEW new, req' = [req EXCEPT ![r] = new],
         UNCHANGED <<attempts, now, overtaken, service>>,
         UNCHANGED <<exam, bank, passThreshold>>,
         RequestOK(new),
         new.pc \in Grading => req[r].pc \in Grading /\ req[r].a = new.a
  PROVE  Inv'
<1>1. TypeOK'
  <2>1. req' = [s \in Requests |-> req'[s]]
    BY DEF Inv, TypeOK
  <2>. QED  BY <2>1 DEF Inv, TypeOK
<1>2. RequestOK(new)'
  BY DEF RequestOK
<1>3. OneActive'
  BY DEF Inv, OneActive, ActiveAttempts
<1>4. \A a : Gradable(a) => Gradable(a)'
  BY DEF Gradable
<1>5. new.pc \in Grading => Gradable(new.a)'
  BY <1>4 DEF Inv, GraderOK
<1>. QED  BY <1>1, <1>2, <1>3, <1>4, <1>5, Preserve DEF Inv

-----------------------------------------------------------------------------
(* Grades *)

LEMMA CourseGrade ==
  ASSUME NEW pinned \in Papers, NEW sheet \in Sheets, NEW live \in Papers,
         NEW pass \in PassScores
  PROVE  CourseGradeOf(Resolve(pinned, live), sheet, pass) \in Grades[pinned][sheet]
<1>1. PICK paper : paper = Resolve(pinned, live)
  OBVIOUS
<1>2. paper \in IF DOMAIN pinned = {} THEN Papers ELSE {pinned}
  BY <1>1 DEF Resolve
<1>3. CourseGradeOf(paper, sheet, pass) \in CourseGrades[pinned][sheet]
  BY <1>2 DEF CourseGrades
<1>. QED  BY <1>1, <1>3 DEF Grades

LEMMA ReadinessGrade ==
  ASSUME NEW paper \in Papers, NEW sheet \in Sheets, NEW threshold \in Thresholds,
         NEW onRoadmap \in BOOLEAN
  PROVE  ReadinessGradeOf(paper, sheet, threshold, onRoadmap) \in Grades[paper][sheet]
BY DEF Grades, ReadinessGrades

LEMMA GradeTyped ==
  ASSUME NEW p \in Papers, NEW s \in Sheets
  PROVE  Grades[p][s] \subseteq AnyGrade
BY DEF AnyGrade

-----------------------------------------------------------------------------
(* The steps of one request that leave the attempts alone *)

\* The request ends.
LEMMA EndsOK ==
  ASSUME Inv, NEW r \in Requests, Finish(r),
         UNCHANGED <<attempts, now, overtaken, service, exam, bank, passThreshold>>
  PROVE  Inv'
BY IdleOK, PreserveReq DEF Finish, Idle, Grading

\* The request goes on.
LEMMA GoesOK ==
  ASSUME Inv, NEW r \in Requests, NEW step, Goto(r, step),
         UNCHANGED <<attempts, now, overtaken, service, exam, bank, passThreshold>>,
         RequestOK([req[r] EXCEPT !.pc = step]),
         step \in Grading => req[r].pc \in Grading
  PROVE  Inv'
<1>. DEFINE new == [req[r] EXCEPT !.pc = step]
<1>1. req' = [req EXCEPT ![r] = new]
  BY DEF Goto
<1>2. new.pc = step /\ new.a = req[r].a
  BY DEF Inv, RequestOK
<1>. QED  BY <1>1, <1>2, PreserveReq

\* The request begins by reading an attempt.
LEMMA ReadOK ==
  ASSUME Inv, NEW r \in Requests, NEW step, NEW a \in Attempts, NEW read, NEW input \in Sheets,
         Read(r, step, a, read, input),
         UNCHANGED <<service, exam, bank, passThreshold>>,
         step \in {"claim", IF service = "course" THEN "saveAnswers" ELSE "saveExam"} \cup
                 (IF service = "course" THEN {} ELSE {"expire", "expireAndStart"}),
         step \in {"saveAnswers", "saveExam"} => attempts[a].status = "IN_PROGRESS",
         service = "course" /\ step = "claim" => read \in Exams
  PROVE  Inv'
<1>. DEFINE new == [pc |-> step, a |-> a, seen |-> attempts[a], read |-> read, input |-> input]
<1>1. RequestOK(new) /\ new.pc \notin Grading
  <2>1. attempts[a] \in Rows /\ attempts[a].status # "none"
    BY DEF Inv, TypeOK, Read, Exists, Status
  <2>. QED  BY <2>1 DEF RequestOK, CourseSteps, ReadinessSteps, Grading
<1>. QED  BY <1>1, PreserveReq DEF Read

-----------------------------------------------------------------------------
(* The steps that write an attempt *)

LEMMA ReqShape ==
  ASSUME Inv, NEW r \in Requests, NEW new, req' = [req EXCEPT ![r] = new]
  PROVE  req' = [s \in Requests |-> req'[s]]
BY DEF Inv, TypeOK

LEMMA FewerActive ==
  ASSUME Inv, \A a \in Attempts : attempts'[a].status \in Active => attempts[a].status \in Active
  PROVE  OneActive'
BY DEF Inv, OneActive, ActiveAttempts

\* An attempt expires; whoever grades it finds that in the history.
LEMMA ExpireOK ==
  ASSUME Inv, NEW r \in Requests, NEW new, req' = [req EXCEPT ![r] = new],
         NEW a \in Attempts, attempts[a].status \in Status, Expire(a),
         UNCHANGED <<now, service, exam, bank, passThreshold>>,
         RequestOK(new), new.pc \notin Grading
  PROVE  Inv'
<1>1. attempts[a] \in Rows /\ RowOK(attempts[a]) /\ attempts[a].status # "none"
  BY DEF Inv, TypeOK, Status
<1>2. /\ attempts'[a] = [attempts[a] EXCEPT !.status = "EXPIRED"]
      /\ \A b \in Attempts : b # a => attempts'[b] = attempts[b]
      /\ attempts' = [b \in Attempts |-> attempts'[b]]
  BY DEF Expire, SetStatus, Inv, TypeOK
<1>3. attempts'[a] \in Rows /\ RowOK(attempts'[a])
  BY <1>1, <1>2 DEF Rows, RowOK, Status, Active
<1>4. /\ attempts'[a].status = "EXPIRED" /\ attempts'[a].grade = attempts[a].grade
      /\ attempts'[a].paper = attempts[a].paper
  BY <1>1, <1>2 DEF Rows
<1>5. TypeOK'
  BY <1>2, <1>3, ReqShape DEF Inv, TypeOK
<1>6. \A b \in Attempts : RowOK(attempts'[b])
  BY <1>2, <1>3 DEF Inv
<1>7. \A b \in Attempts : Gradable(b) => Gradable(b)'
  <2>. SUFFICES ASSUME NEW b \in Attempts, Gradable(b)  PROVE  Gradable(b)'
    OBVIOUS
  <2>1. overtaken \subseteq overtaken'
    BY DEF Expire
  <2>2. CASE b # a
    BY <1>2, <2>1, <2>2 DEF Gradable
  <2>3. CASE b = a
    BY <1>4, <2>3 DEF Gradable, Expire, Status
  <2>. QED  BY <2>2, <2>3
<1>8. \A b \in Attempts : attempts[b].status # "none" =>
         attempts'[b].status # "none" /\ attempts'[b].paper = attempts[b].paper
  BY <1>2, <1>4
<1>9. RequestOK(new)'
  BY <1>8 DEF RequestOK
<1>10. OneActive'
  BY <1>2, <1>4, FewerActive DEF Active
<1>. QED  BY <1>5, <1>6, <1>7, <1>8, <1>9, <1>10, Preserve

\* An attempt is created where none is active, or the active one answered.
LEMMA CreateOK ==
  ASSUME Inv, NEW r \in Requests, Finish(r), NEW paper \in Papers, NEW last \in 0..MaxAttempts,
         Create(paper, last),
         UNCHANGED <<now, overtaken, service, exam, bank, passThreshold>>
  PROVE  Inv'
<1>1. CASE UNCHANGED attempts
  BY <1>1, EndsOK
<1>2. ASSUME ActiveAttempts = {}, NEW a \in 1..last, attempts[a].status = "none",
             attempts' = [attempts EXCEPT ![a] = NewRow(paper)]
      PROVE  Inv'
  <2>1. a \in Attempts
    BY <1>2, ExamAssumption DEF Attempts
  <2>2. /\ attempts'[a] = NewRow(paper)
        /\ \A b \in Attempts : b # a => attempts'[b] = attempts[b]
        /\ attempts' = [b \in Attempts |-> attempts'[b]]
    BY <1>2, <2>1 DEF Inv, TypeOK
  <2>3. attempts'[a] \in Rows /\ RowOK(attempts'[a])
    <3>1. now \in Nat /\ paper # None
      BY ExamAssumption DEF Inv, TypeOK
    <3>. QED  BY <2>2, <3>1, InputSheets DEF NewRow, NoRow, Rows, RowOK, Status, Active
  <2>4. TypeOK'
    BY <2>2, <2>3, ReqShape DEF Inv, TypeOK, Finish
  <2>5. \A b \in Attempts : RowOK(attempts'[b])
    BY <2>2, <2>3 DEF Inv
  <2>6. \A b \in Attempts : Gradable(b) => Gradable(b)'
    BY <1>2, <2>2 DEF Gradable
  <2>7. \A b \in Attempts : attempts[b].status # "none" =>
           attempts'[b].status # "none" /\ attempts'[b].paper = attempts[b].paper
    BY <1>2, <2>2
  <2>8. OneActive'
    BY <1>2, <2>2 DEF OneActive, ActiveAttempts
  <2>9. RequestOK(Idle)' /\ Idle.pc \notin Grading
    BY IdleOK DEF RequestOK, Idle, Grading
  <2>. QED  BY <2>4, <2>5, <2>6, <2>7, <2>8, <2>9, Preserve DEF Finish
<1>3. ASSUME NEW a \in 1..last, \A b \in Attempts : attempts[b].status = "none" <=> b >= a
      PROVE  attempts[a].status = "none"
  <2>1. a \in Attempts /\ a >= a
    BY <1>3, ExamAssumption DEF Attempts
  <2>. QED  BY <1>3, <2>1
<1>. QED  BY <1>1, <1>2, <1>3 DEF Create

\* New answers are stored.
LEMMA SaveOK ==
  ASSUME Inv, NEW r \in Requests, Finish(r), NEW a \in Attempts, NEW sheet \in Sheets,
         attempts[a].status # "none",
         attempts' = [attempts EXCEPT ![a].answers = sheet],
         UNCHANGED <<now, overtaken, service, exam, bank, passThreshold>>
  PROVE  Inv'
<1>1. attempts[a] \in Rows /\ RowOK(attempts[a])
  BY DEF Inv, TypeOK
<1>2. /\ attempts'[a] = [attempts[a] EXCEPT !.answers = sheet]
      /\ \A b \in Attempts : b # a => attempts'[b] = attempts[b]
      /\ attempts' = [b \in Attempts |-> attempts'[b]]
  BY DEF Inv, TypeOK
<1>3. attempts'[a] \in Rows /\ RowOK(attempts'[a])
  BY <1>1, <1>2 DEF Rows, RowOK
<1>4. \A b \in Attempts : /\ attempts'[b].status = attempts[b].status
                          /\ attempts'[b].paper = attempts[b].paper
                          /\ attempts'[b].grade = attempts[b].grade
  BY <1>1, <1>2 DEF Rows
<1>5. TypeOK'
  BY <1>2, <1>3, ReqShape DEF Inv, TypeOK, Finish
<1>6. \A b \in Attempts : RowOK(attempts'[b])
  BY <1>2, <1>3 DEF Inv
<1>7. \A b \in Attempts : Gradable(b) => Gradable(b)'
  BY <1>4 DEF Gradable
<1>8. RequestOK(Idle)' /\ Idle.pc \notin Grading
  BY IdleOK DEF RequestOK, Idle, Grading
<1>9. OneActive'
  BY <1>4, FewerActive
<1>. QED  BY <1>4, <1>5, <1>6, <1>7, <1>8, <1>9, Preserve DEF Finish

\* A submission claims the attempt, which nobody was grading.
LEMMA ClaimOK ==
  ASSUME Inv, NEW r \in Requests, NEW next, Claim(r, next),
         attempts[req[r].a].status = "IN_PROGRESS",
         UNCHANGED <<service, exam, bank, passThreshold>>
  PROVE  Inv'
<1>. PICK a, new : a = req[r].a /\ new = [req[r] EXCEPT !.pc = "grade"]
  OBVIOUS
<1>0. attempts[a].status = "IN_PROGRESS"
  OBVIOUS
<1>1. a \in Attempts /\ RequestOK(req[r]) /\ req[r].pc = "claim"
  BY DEF Inv, RequestOK, Claim, At
<1>2. attempts[a] \in Rows /\ RowOK(attempts[a])
  BY <1>1 DEF Inv, TypeOK
<1>3. /\ attempts'[a] = [attempts[a] EXCEPT !.status = "PROCESSING"]
      /\ \A b \in Attempts : b # a => attempts'[b] = attempts[b]
      /\ attempts' = [b \in Attempts |-> attempts'[b]]
  BY <1>0, <1>1 DEF Claim, SetStatus, Inv, TypeOK
<1>4. attempts'[a] \in Rows /\ RowOK(attempts'[a])
  BY <1>0, <1>2, <1>3 DEF Rows, RowOK, Status, Active
<1>5. /\ attempts'[a].status = "PROCESSING" /\ attempts'[a].paper = attempts[a].paper
      /\ attempts'[a].grade = NoGrade
  BY <1>0, <1>2, <1>3 DEF Rows, RowOK, Active
<1>6. req' = [req EXCEPT ![r] = new] /\ new.pc = "grade" /\ new.a = a
  BY <1>0, <1>1 DEF Claim, Goto, RequestOK
<1>7. TypeOK'
  BY <1>3, <1>4, <1>6, ReqShape DEF Inv, TypeOK, Claim
<1>8. \A b \in Attempts : RowOK(attempts'[b])
  BY <1>3, <1>4 DEF Inv
<1>9. \A b \in Attempts : Gradable(b) => Gradable(b)'
  BY <1>0, <1>3 DEF Gradable, Claim
<1>10. \A b \in Attempts : attempts[b].status # "none" =>
          attempts'[b].status # "none" /\ attempts'[b].paper = attempts[b].paper
  BY <1>3, <1>5
<1>11. RequestOK(new)'
  BY <1>1, <1>10 DEF RequestOK, CourseSteps, ReadinessSteps
<1>12. Gradable(a)' /\ ~Gradable(a)
  BY <1>0, <1>5 DEF Gradable
<1>13. OneActive'
  BY <1>0, <1>3, FewerActive DEF Active
<1>. QED  BY <1>1, <1>6, <1>7, <1>8, <1>9, <1>10, <1>11, <1>12, <1>13, Preserve DEF Claim

LEMMA GradedRow ==
  ASSUME NEW row \in Rows, NEW grade \in AnyGrade
  PROVE  /\ [row EXCEPT !.grade = grade] \in Rows
         /\ [row EXCEPT !.grade = grade].status = row.status
         /\ [row EXCEPT !.grade = grade].paper = row.paper
BY DEF Rows

\* The claimed attempt is graded, whatever became of its status.
LEMMA GradeOK ==
  ASSUME Inv, NEW r \in Requests, Finish(r), req[r].pc \in Grading, NEW a, a = req[r].a,
         NEW sheet \in Sheets, NEW grade \in Grades[attempts[a].paper][sheet],
         attempts' = [attempts EXCEPT ![a].status = "SUBMITTED",
                        ![a].answers = sheet, ![a].grade = grade],
         UNCHANGED <<now, overtaken, service, exam, bank, passThreshold>>
  PROVE  Inv'
<1>1. a \in Attempts /\ attempts[a].status # "none" /\ Gradable(a)
  BY DEF Inv, RequestOK, GraderOK
<1>2. attempts[a] \in Rows /\ RowOK(attempts[a])
  BY <1>1 DEF Inv, TypeOK
<1>3. attempts[a].paper \in Papers
  BY <1>1, <1>2 DEF RowOK, Rows
<1>4. /\ attempts'[a] = [attempts[a] EXCEPT !.status = "SUBMITTED", !.answers = sheet, !.grade = grade]
      /\ \A b \in Attempts : b # a => attempts'[b] = attempts[b]
      /\ attempts' = [b \in Attempts |-> attempts'[b]]
  BY <1>1 DEF Inv, TypeOK
<1>5. grade \in AnyGrade
  BY <1>3, GradeTyped
<1>6. /\ attempts'[a] \in Rows /\ attempts'[a].status = "SUBMITTED"
      /\ attempts'[a].paper = attempts[a].paper
  <2>1. [attempts[a] EXCEPT !.status = "SUBMITTED"] \in Rows
    BY <1>2 DEF Rows, Status
  <2>2. [attempts[a] EXCEPT !.status = "SUBMITTED", !.answers = sheet] \in Rows
    BY <1>2, <2>1 DEF Rows
  <2>3. PICK row \in Rows : row = [attempts[a] EXCEPT !.status = "SUBMITTED", !.answers = sheet]
    BY <2>2
  <2>4. row.status = "SUBMITTED" /\ row.paper = attempts[a].paper
    BY <1>2, <2>3 DEF Rows
  <2>5. attempts'[a] = [row EXCEPT !.grade = grade]
    BY <1>4, <2>3
  <2>. QED  BY <1>5, <2>4, <2>5, GradedRow
<1>7. RowOK(attempts'[a])
  BY <1>1, <1>2, <1>6 DEF RowOK, Active
<1>8. TypeOK'
  BY <1>4, <1>6, ReqShape DEF Inv, TypeOK, Finish
<1>9. \A b \in Attempts : RowOK(attempts'[b])
  BY <1>4, <1>7 DEF Inv
<1>10. \A b \in Attempts : Gradable(b) /\ b # a => Gradable(b)'
  BY <1>4 DEF Gradable
<1>11. \A b \in Attempts : attempts[b].status # "none" =>
          attempts'[b].status # "none" /\ attempts'[b].paper = attempts[b].paper
  BY <1>4, <1>6
<1>12. RequestOK(Idle)' /\ Idle.pc \notin Grading
  BY IdleOK DEF RequestOK, Idle, Grading
<1>13. OneActive'
  BY <1>4, <1>6, FewerActive DEF Active
<1>. QED  BY <1>8, <1>9, <1>10, <1>11, <1>12, <1>13, Preserve DEF Finish

\* Every attempt is deleted: who grades one finds it gone.
LEMMA DeleteOK ==
  ASSUME Inv, NEW r \in Requests, NEW new, req' = [req EXCEPT ![r] = new], DeleteRows,
         UNCHANGED <<now, overtaken, service, bank, passThreshold>>,
         service = "course" => exam' \in Exams,
         RequestOK(new), new.pc \notin Grading
  PROVE  Inv'
<1>1. attempts' = [a \in Attempts |-> attempts'[a]]
  BY DEF DeleteRows
<1>2. ASSUME NEW a \in Attempts
      PROVE  /\ attempts'[a] \in Rows /\ RowOK(attempts'[a])
             /\ attempts'[a].paper = attempts[a].paper /\ attempts'[a].grade = attempts[a].grade
             /\ attempts'[a].status = IF attempts[a].status = "none" THEN "none" ELSE "deleted"
  <2>1. attempts[a] \in Rows /\ RowOK(attempts[a])
    BY DEF Inv, TypeOK
  <2>2. attempts'[a] = IF Exists(a) THEN [attempts[a] EXCEPT !.status = "deleted"] ELSE attempts[a]
    BY DEF DeleteRows
  <2>3. CASE Exists(a)
    BY <2>1, <2>2, <2>3 DEF Rows, RowOK, Active, Exists, Status
  <2>4. CASE ~Exists(a)
    BY <2>1, <2>2, <2>4 DEF Rows, Exists
  <2>. QED  BY <2>3, <2>4
<1>3. TypeOK'
  BY <1>1, <1>2, ReqShape DEF Inv, TypeOK
<1>4. \A a \in Attempts : Gradable(a) => Gradable(a)'
  BY <1>2 DEF Gradable
<1>5. RequestOK(new)'
  BY <1>2 DEF RequestOK
<1>6. OneActive'
  BY <1>2, FewerActive DEF Active
<1>. QED  BY <1>2, <1>3, <1>4, <1>5, <1>6, Preserve

-----------------------------------------------------------------------------
(* The actions *)

LEMMA CourseOK ==
  ASSUME Inv, service = "course", NEW r \in Requests, CourseRequest(r),
         UNCHANGED <<readinessVars, service>>
  PROVE  Inv'
<1>. UNCHANGED <<bank, passThreshold, service>>
  BY DEF readinessVars
<1>0. RequestOK(req[r]) /\ exam \in Exams /\ NoAnswers \in Sheets
  BY InputSheets DEF Inv, TypeOK
<1>1. CASE StartAttempt(r)
  <2>1. PICK one, new : /\ one = [Idle EXCEPT !.pc = "countAttempts"]
                        /\ new = [one EXCEPT !.read = exam]
    OBVIOUS
  <2>2. /\ new.pc = "countAttempts" /\ new.seen \in Rows /\ new.read = exam
        /\ new.input \in Sheets
        /\ new = [pc |-> new.pc, a |-> new.a, seen |-> new.seen, read |-> new.read,
                  input |-> new.input]
    BY <2>1, IdleOK DEF RequestOK
  <2>3. RequestOK(new) /\ new.pc \notin Grading
    BY <1>0, <2>2 DEF RequestOK, CourseSteps, Grading
  <2>. QED  BY <1>1, <2>1, <2>3, PreserveReq DEF StartAttempt, courseVars
<1>2. CASE CountAttempts(r)
  <2>1. req[r].pc = "countAttempts"
    BY <1>2 DEF CountAttempts, At
  <2>2. RequestOK([req[r] EXCEPT !.pc = "findActive"])
    BY <1>0, <2>1 DEF RequestOK, CourseSteps, Grading
  <2>. QED  BY <1>2, <2>2, EndsOK, GoesOK DEF CountAttempts, courseVars, Grading
<1>3. CASE FindActive(r)
  <2>0. req[r].pc = "findActive"
    BY <1>3 DEF FindActive, At
  <2>1. CASE Goto(r, "createAttempt")
    <3>1. RequestOK([req[r] EXCEPT !.pc = "createAttempt"])
      BY <1>0, <2>0 DEF RequestOK, CourseSteps, Grading
    <3>. QED  BY <1>3, <2>1, <3>1, GoesOK DEF FindActive, courseVars, Grading
  <2>2. CASE Finish(r)
    BY <1>3, <2>2, EndsOK DEF FindActive, courseVars
  <2>3. ASSUME NEW a \in ActiveAttempts, attempts[a].status = "IN_PROGRESS",
               req' = [req EXCEPT ![r].pc = "expireAttempt", ![r].a = a, ![r].seen = attempts[a]]
        PROVE  Inv'
    <3>. PICK one, two, new :
           /\ one = [req[r] EXCEPT !.pc = "expireAttempt"]
           /\ two = [one EXCEPT !.a = a]
           /\ new = [two EXCEPT !.seen = attempts[a]]
      OBVIOUS
    <3>1. req' = [req EXCEPT ![r] = new]
      BY <2>3
    <3>4. /\ new.pc = "expireAttempt" /\ new.a = a /\ new.seen = attempts[a]
          /\ new.input = req[r].input /\ new.read = req[r].read
          /\ new = [pc |-> new.pc, a |-> new.a, seen |-> new.seen, read |-> new.read,
                    input |-> new.input]
      BY <1>0 DEF RequestOK
    <3>2. a \in Attempts /\ attempts[a] \in Rows
      BY DEF ActiveAttempts, Inv, TypeOK
    <3>3. RequestOK(new) /\ new.pc \notin Grading
      BY <1>0, <2>0, <2>3, <3>2, <3>4 DEF RequestOK, CourseSteps, Grading
    <3>. QED  BY <1>3, <3>1, <3>3, PreserveReq DEF FindActive, courseVars
  <2>. QED  BY <1>3, <2>1, <2>2, <2>3 DEF FindActive
<1>4. CASE ExpireAttempt(r)
  <2>1. CASE Exists(req[r].a)
    <3>. PICK new : new = [req[r] EXCEPT !.pc = "createAttempt"]
      OBVIOUS
    <3>1. RequestOK(new) /\ new.pc \notin Grading /\ req[r].a \in Attempts
      BY <1>0, <1>4 DEF ExpireAttempt, At, RequestOK, CourseSteps, Grading
    <3>. QED  BY <1>4, <2>1, <3>1, ExpireOK DEF ExpireAttempt, Goto, Exists, courseVars
  <2>2. CASE ~Exists(req[r].a)
    BY <1>4, <2>2, EndsOK DEF ExpireAttempt, courseVars
  <2>. QED  BY <2>1, <2>2
<1>5. CASE CreateAttempt(r)
  <2>1. req[r].read.paper \in Papers
    BY <1>0, <1>5 DEF CreateAttempt, At, RequestOK, Exams
  <2>2. MaxAttempts \in 0..MaxAttempts
    BY ExamAssumption
  <2>. QED  BY <1>5, <2>1, <2>2, EndsOK, CreateOK DEF CreateAttempt, courseVars
<1>6. CASE RequestSave(r)
  BY <1>0, <1>6, InputSheets, ReadOK DEF RequestSave, courseVars
<1>7. CASE SaveAnswers(r)
  <2>1. /\ req[r].a \in Attempts /\ req[r].input \in Sheets
        /\ attempts[req[r].a].status # "none"
    BY <1>0, <1>7 DEF SaveAnswers, At, RequestOK
  <2>. QED  BY <1>7, <2>1, EndsOK, SaveOK DEF SaveAnswers, courseVars
<1>8. CASE RequestSubmit(r)
  BY <1>0, <1>8, InputSheets, ReadOK DEF RequestSubmit, courseVars
<1>9. CASE ClaimAttempt(r)
  <2>1. req[r].pc = "claim"
    BY <1>9 DEF ClaimAttempt, Claim, At
  <2>2. RequestOK([req[r] EXCEPT !.pc = "refuse"]) /\ "refuse" \notin Grading
    BY <1>0, <2>1 DEF RequestOK, CourseSteps, Grading
  <2>3. UNCHANGED <<service, exam, bank, passThreshold>>
    BY <1>9 DEF ClaimAttempt, courseVars
  <2>4. CASE attempts[req[r].a].status = "IN_PROGRESS"
    BY <1>9, <2>3, <2>4, ClaimOK DEF ClaimAttempt
  <2>5. CASE attempts[req[r].a].status # "IN_PROGRESS"
    BY <1>9, <2>2, <2>3, <2>5, EndsOK, GoesOK DEF ClaimAttempt, Claim
  <2>. QED  BY <2>4, <2>5
<1>10. CASE RefuseSubmit(r)
  <2>1. req[r].a \in Attempts
    BY <1>0, <1>10 DEF RefuseSubmit, At, RequestOK
  <2>2. RequestOK(Idle) /\ Idle.pc \notin Grading
    BY IdleOK DEF Idle, Grading
  <2>. QED  BY <1>10, <2>1, <2>2, EndsOK, ExpireOK DEF RefuseSubmit, Finish, Status, courseVars
<1>11. CASE GradeAttempt(r)
  <2>. PICK sheet, grade :
         /\ sheet = Merge(req[r].seen.answers, req[r].input)
         /\ grade = CourseGradeOf(Resolve(req[r].seen.paper, req[r].read.paper), sheet,
                                  req[r].read.passScore)
    OBVIOUS
  <2>1. /\ req[r].pc \in Grading /\ req[r].a \in Attempts /\ req[r].read \in Exams
        /\ req[r].seen \in Rows /\ req[r].input \in Sheets
        /\ attempts[req[r].a].status # "none" /\ attempts[req[r].a].paper = req[r].seen.paper
    BY <1>0, <1>11 DEF GradeAttempt, At, RequestOK, Grading
  <2>2. attempts[req[r].a].paper \in Papers
    BY <2>1 DEF Inv, RowOK, Rows
  <2>3. sheet \in Sheets
    BY <2>1, MergeSheets DEF Rows
  <2>4. req[r].read.paper \in Papers /\ req[r].read.passScore \in PassScores
    BY <2>1 DEF Exams
  <2>5. grade \in Grades[attempts[req[r].a].paper][sheet]
    BY <2>1, <2>2, <2>3, <2>4, CourseGrade
  <2>6. CASE Exists(req[r].a)
    BY <1>11, <2>1, <2>3, <2>5, <2>6, GradeOK DEF GradeAttempt, courseVars
  <2>7. CASE ~Exists(req[r].a)
    BY <1>11, <2>7, EndsOK DEF GradeAttempt, courseVars
  <2>. QED  BY <2>6, <2>7
<1>12. CASE RequestDelete(r)
  <2>1. RequestOK([req[r] EXCEPT !.pc = "deleteAttempts"])
    BY <1>0, <1>12 DEF RequestDelete, At, RequestOK, CourseSteps, Grading
  <2>. QED  BY <1>12, <2>1, GoesOK DEF RequestDelete, Grading
<1>13. CASE DeleteAttempts(r)
  <2>. PICK new : new = [req[r] EXCEPT !.pc = "deleteExam"]
    OBVIOUS
  <2>1. RequestOK(new) /\ new.pc \notin Grading
    BY <1>0, <1>13 DEF DeleteAttempts, At, RequestOK, CourseSteps, Grading
  <2>. QED  BY <1>0, <1>13, <2>1, DeleteOK DEF DeleteAttempts, Goto, courseVars
<1>14. CASE DeleteExam(r)
  <2>1. [exam EXCEPT !.deleted = TRUE] \in Exams
    BY <1>0 DEF Exams
  <2>2. RequestOK(Idle) /\ Idle.pc \notin Grading
    BY IdleOK DEF Idle, Grading
  <2>. QED  BY <1>14, <2>1, <2>2, DeleteOK DEF DeleteExam, Finish
<1>. QED
  BY <1>1, <1>2, <1>3, <1>4, <1>5, <1>6, <1>7, <1>8, <1>9, <1>10, <1>11, <1>12, <1>13, <1>14
  DEF CourseRequest

LEMMA ReadinessOK ==
  ASSUME Inv, service = "readiness", NEW r \in Requests, ReadinessRequest(r),
         UNCHANGED <<courseVars, service>>
  PROVE  Inv'
<1>0. RequestOK(req[r]) /\ bank \in Papers /\ NoAnswers \in Sheets
  BY InputSheets DEF Inv, TypeOK
<1>. UNCHANGED <<service, exam>>
  BY DEF courseVars
<1>. service # "course"
  OBVIOUS
<1>1. CASE StartExam(r)
  <2>0. req[r].pc = "idle" /\ UNCHANGED <<bank, passThreshold>>
    BY <1>1 DEF StartExam, At, Read, readinessVars
  <2>1. CASE Goto(r, "createExam") /\ UNCHANGED <<attempts, now, overtaken>>
    <3>1. RequestOK([req[r] EXCEPT !.pc = "createExam"])
      BY <1>0, <2>0 DEF RequestOK, ReadinessSteps, Grading
    <3>. QED  BY <2>0, <2>1, <3>1, GoesOK DEF Grading
  <2>2. ASSUME NEW a \in Attempts, Read(r, "expireAndStart", a, None, NoAnswers)
        PROVE  Inv'
    BY <1>0, <2>0, <2>2, ReadOK
  <2>. QED  BY <1>1, <2>1, <2>2 DEF StartExam
<1>2. CASE GetExamAttempt(r)
  BY <1>0, <1>2, ReadOK DEF GetExamAttempt, readinessVars
<1>3. CASE ExpireExam(r)
  <2>0. req[r].pc \in {"expireAndStart", "expire"} /\ UNCHANGED <<now, bank, passThreshold>>
    BY <1>3 DEF ExpireExam, readinessVars
  <2>1. PICK new : /\ req' = [req EXCEPT ![r] = new]
                   /\ new = Idle \/ new = [req[r] EXCEPT !.pc = "createExam"]
    BY <1>3 DEF ExpireExam, Goto, Finish
  <2>2. RequestOK(new) /\ new.pc \notin Grading
    <3>1. CASE new = Idle
      BY <3>1, IdleOK DEF Idle, Grading
    <3>2. CASE new = [req[r] EXCEPT !.pc = "createExam"]
      BY <1>0, <2>0, <3>2 DEF RequestOK, ReadinessSteps, Grading
    <3>. QED  BY <2>1, <3>1, <3>2
  <2>3. req[r].a \in Attempts
    BY <1>0, <2>0 DEF RequestOK
  <2>4. CASE attempts[req[r].a].status \in Active
    <3>1. Expire(req[r].a) /\ attempts[req[r].a].status \in Status
      BY <1>3, <2>4 DEF ExpireExam, Active, Status
    <3>. QED  BY <2>0, <2>1, <2>2, <2>3, <3>1, ExpireOK
  <2>5. CASE attempts[req[r].a].status \notin Active
    BY <1>3, <2>0, <2>1, <2>2, <2>5, PreserveReq DEF ExpireExam
  <2>. QED  BY <2>4, <2>5
<1>4. CASE CreateExam(r)
  <2>1. MaxExams \in 0..MaxAttempts
    BY ReadinessAssumption
  <2>. QED  BY <1>0, <1>4, <2>1, CreateOK DEF CreateExam, readinessVars
<1>5. CASE RequestSaveExam(r)
  BY <1>0, <1>5, InputSheets, ReadOK DEF RequestSaveExam, readinessVars
<1>6. CASE SaveExam(r)
  <2>1. /\ req[r].a \in Attempts /\ attempts[req[r].a].status # "none"
        /\ req[r].input \in Sheets /\ req[r].seen.answers \in Sheets
    BY <1>0, <1>6 DEF SaveExam, At, RequestOK, Rows
  <2>2. Merge(req[r].seen.answers, req[r].input) \in Sheets
    BY <2>1, MergeSheets
  <2>. QED  BY <1>6, <2>1, <2>2, SaveOK DEF SaveExam, readinessVars
<1>7. CASE RequestSubmitExam(r)
  BY <1>0, <1>7, InputSheets, ReadOK DEF RequestSubmitExam, readinessVars
<1>8. CASE ClaimExam(r)
  <2>1. req[r].pc = "claim"
    BY <1>8 DEF ClaimExam, Claim, At
  <2>2. RequestOK([req[r] EXCEPT !.pc = "expire"]) /\ "expire" \notin Grading
    BY <1>0, <2>1 DEF RequestOK, ReadinessSteps, Grading
  <2>3. UNCHANGED <<service, exam, bank, passThreshold>>
    BY <1>8 DEF ClaimExam, readinessVars
  <2>4. CASE attempts[req[r].a].status = "IN_PROGRESS"
    BY <1>8, <2>3, <2>4, ClaimOK DEF ClaimExam
  <2>5. CASE attempts[req[r].a].status # "IN_PROGRESS"
    BY <1>8, <2>2, <2>3, <2>5, EndsOK, GoesOK DEF ClaimExam, Claim
  <2>. QED  BY <2>4, <2>5
<1>9. CASE BuildOutcome(r)
  <2>1. /\ req[r].pc = "grade" /\ req[r].seen \in Rows /\ req[r].input \in Sheets
        /\ req[r].a \in Attempts /\ attempts[req[r].a].status # "none"
        /\ attempts[req[r].a].paper = req[r].seen.paper
    BY <1>0, <1>9 DEF BuildOutcome, At, RequestOK, Grading
  <2>2. req[r].seen.paper \in Papers
    BY <2>1 DEF Inv, RowOK, Rows
  <2>3. PICK sheet, grade, rebuilt :
          /\ sheet = Merge(req[r].seen.answers, req[r].input)
          /\ grade = ReadinessGradeOf(req[r].seen.paper, sheet, passThreshold, roadmap # None)
          /\ rebuilt = IF roadmap = None THEN None ELSE Rebuilt(roadmap, grade)
    OBVIOUS
  <2>4. sheet \in Sheets
    BY <2>1, <2>3, MergeSheets DEF Rows
  <2>5. grade \in Grades[req[r].seen.paper][sheet]
    BY <2>2, <2>3, <2>4, ReadinessGrade DEF Inv, TypeOK
  <2>6. PICK step, read, one, two, new :
          /\ step = IF roadmap = None \/ rebuilt.modules = <<>>
                      THEN "gradeExam" ELSE "updateRoadmap"
          /\ read = [grade |-> grade, roadmap |-> rebuilt]
          /\ one = [req[r] EXCEPT !.pc = step]
          /\ two = [one EXCEPT !.read = read]
          /\ new = [two EXCEPT !.input = sheet]
    OBVIOUS
  <2>7. req' = [req EXCEPT ![r] = new]
    BY <1>9, <2>3, <2>6 DEF BuildOutcome
  <2>8. /\ new.pc \in {"gradeExam", "updateRoadmap"} /\ new.a = req[r].a
        /\ new.seen = req[r].seen /\ new.read.grade = grade /\ new.input = sheet
        /\ new = [pc |-> new.pc, a |-> new.a, seen |-> new.seen, read |-> new.read,
                  input |-> new.input]
    BY <1>0, <2>6 DEF RequestOK
  <2>9. RequestOK(new) /\ new.pc \in Grading /\ req[r].pc \in Grading
    BY <2>1, <2>4, <2>5, <2>8 DEF RequestOK, ReadinessSteps, Grading
  <2>. QED  BY <1>9, <2>7, <2>8, <2>9, PreserveReq DEF BuildOutcome, readinessVars
<1>10. CASE UpdateRoadmap(r)
  <2>1. req[r].pc = "updateRoadmap"
    BY <1>10 DEF UpdateRoadmap, At
  <2>2. RequestOK([req[r] EXCEPT !.pc = "gradeExam"]) /\ req[r].pc \in Grading
    BY <1>0, <2>1 DEF RequestOK, ReadinessSteps, Grading
  <2>. QED  BY <1>10, <2>2, GoesOK DEF UpdateRoadmap
<1>11. CASE GradeExam(r)
  <2>1. /\ req[r].pc = "gradeExam" /\ req[r].pc \in Grading /\ req[r].input \in Sheets
        /\ attempts[req[r].a].paper = req[r].seen.paper
        /\ req[r].read.grade \in Grades[req[r].seen.paper][req[r].input]
    BY <1>0, <1>11 DEF GradeExam, At, RequestOK, Grading
  <2>. QED  BY <1>11, <2>1, GradeOK DEF GradeExam, readinessVars
<1>. QED
  BY <1>1, <1>2, <1>3, <1>4, <1>5, <1>6, <1>7, <1>8, <1>9, <1>10, <1>11 DEF ReadinessRequest

(***************************************************************************)
(* What no request relies on: the clock, and the live questions.           *)
(***************************************************************************)
LEMMA QuietOK ==
  ASSUME Inv, TypeOK', UNCHANGED <<attempts, req, overtaken, service>>
  PROVE  Inv'
<1>1. \A r \in Requests : (RequestOK(req[r]) /\ GraderOK(req[r]))'
  <2>. SUFFICES ASSUME NEW r \in Requests  PROVE  (RequestOK(req[r]) /\ GraderOK(req[r]))'
    OBVIOUS
  <2>1. RequestOK(req[r]) /\ GraderOK(req[r])
    BY DEF Inv
  <2>2. RequestOK(req[r])'
    BY <2>1 DEF RequestOK
  <2>3. GraderOK(req[r])'
    BY <2>1 DEF GraderOK, Gradable
  <2>. QED  BY <2>2, <2>3
<1>2. OneGrader' /\ OneActive'
  BY DEF Inv, OneGrader, OneActive, ActiveAttempts
<1>. QED  BY <1>1, <1>2 DEF Inv

LEMMA InitOK == Init => Inv
<1>. SUFFICES ASSUME Init  PROVE  Inv
  OBVIOUS
<1>1. /\ attempts = [a \in Attempts |-> NoRow] /\ req = [r \in Requests |-> Idle]
      /\ now = 0
  BY DEF Init, InitState
<1>2. TypeOK
  <2>1. attempts \in [Attempts -> Rows] /\ req = [r \in Requests |-> req[r]]
    BY <1>1, NoRowOK DEF RowOK
  <2>2. service = "course" => exam \in Exams
    BY DEF Init, CourseInit
  <2>3. service = "readiness" => bank \in Papers /\ passThreshold \in Thresholds
    BY DEF Init, ReadinessInit
  <2>4. service \in {"course", "readiness"}
    BY DEF Init
  <2>. QED  BY <1>1, <2>1, <2>2, <2>3, <2>4 DEF TypeOK
<1>3. ActiveAttempts = {}
  BY <1>1 DEF ActiveAttempts, NoRow, Active
<1>4. OneActive
  BY <1>3 DEF OneActive
<1>5. OneGrader
  BY <1>1 DEF OneGrader, Idle, Grading
<1>. QED  BY <1>1, <1>2, <1>4, <1>5, NoRowOK, IdleOK DEF Inv

LEMMA StepOK == Inv /\ [Next]_vars => Inv'
<1>. SUFFICES ASSUME Inv, [Next]_vars  PROVE  Inv'
  OBVIOUS
<1>1. CASE Course
  <2>1. CASE \E r \in Requests : CourseRequest(r)
    BY <1>1, <2>1, CourseOK DEF Course
  <2>2. CASE UpdateExam
    <3>1. TypeOK'
      BY <1>1, <2>2 DEF Course, UpdateExam, Inv, TypeOK
    <3>. QED  BY <1>1, <2>2, <3>1, QuietOK DEF Course, UpdateExam
  <2>. QED  BY <1>1, <2>1, <2>2 DEF Course, CourseNext
<1>2. CASE Readiness
  <2>1. CASE \E r \in Requests : ReadinessRequest(r)
    BY <1>2, <2>1, ReadinessOK DEF Readiness
  <2>2. CASE SaveBank
    <3>1. TypeOK'
      BY <1>2, <2>2 DEF Readiness, SaveBank, Inv, TypeOK
    <3>. QED  BY <1>2, <2>2, <3>1, QuietOK DEF Readiness, SaveBank
  <2>3. CASE CreateRoadmap
    <3>1. TypeOK'
      BY <1>2, <2>3 DEF Readiness, CreateRoadmap, courseVars, Inv, TypeOK
    <3>. QED  BY <1>2, <2>3, <3>1, QuietOK DEF Readiness, CreateRoadmap
  <2>. QED  BY <1>2, <2>1, <2>2, <2>3 DEF Readiness, ReadinessNext
<1>3. CASE Environment
  <2>1. CASE Tick
    <3>1. TypeOK'
      BY <1>3, <2>1 DEF Environment, Tick, courseVars, readinessVars, Inv, TypeOK
    <3>. QED  BY <1>3, <2>1, <3>1, QuietOK DEF Environment, Tick
  <2>2. ASSUME NEW r \in Requests, Crash(r)  PROVE  Inv'
    BY <1>3, <2>2, EndsOK DEF Environment, Crash, courseVars, readinessVars
  <2>. QED  BY <1>3, <2>1, <2>2 DEF Environment
<1>4. CASE UNCHANGED vars
  <2>1. TypeOK'
    BY <1>4 DEF vars, courseVars, readinessVars, Inv, TypeOK
  <2>. QED  BY <1>4, <2>1, QuietOK DEF vars
<1>. QED  BY <1>1, <1>2, <1>3, <1>4 DEF Next

\* Every behaviour of either service keeps the invariant: the rows are typed and
\* graded or not as their status says, what a request has read still holds where
\* it relies on it, and no attempt is graded by two requests.
THEOREM Invariant == Spec => []Inv
BY InitOK, StepOK, PTL DEF Spec

\* The learner never has two active attempts.
THEOREM AtMostOneActive == Spec => []OneActive
<1>1. Inv => OneActive
  BY DEF Inv
<1>. QED  BY <1>1, Invariant, PTL

-----------------------------------------------------------------------------
(***************************************************************************)
(* What a step may do to the attempts                                      *)
(***************************************************************************)
ByStaleRead(a) ==
  \E r \in Requests : req[r].a = a /\ req'[r] # req[r] /\ req[r].seen.status = "IN_PROGRESS"

Opens(a) ==
  /\ attempts[a].status = "none"
  /\ \E paper \in Papers : attempts' = [attempts EXCEPT ![a] = NewRow(paper)]
Saves(a) ==
  /\ attempts[a].status # "none"
  /\ ByStaleRead(a)
  /\ \E sheet \in Sheets : attempts' = [attempts EXCEPT ![a].answers = sheet]
Expires(a) ==
  /\ attempts[a].status \in Status
  /\ attempts[a].status \in Active \/ ByStaleRead(a)
  /\ SetStatus(a, "EXPIRED")
Claims(a) ==
  /\ attempts[a].status = "IN_PROGRESS"
  /\ SetStatus(a, "PROCESSING")
GradesRow(a) ==
  /\ Gradable(a)
  /\ \E sheet \in Sheets : \E grade \in Grades[attempts[a].paper][sheet] :
       attempts' = [attempts EXCEPT ![a].status = "SUBMITTED",
                      ![a].answers = sheet, ![a].grade = grade]
Writes ==
  \/ \E a \in Attempts : Opens(a) \/ Saves(a) \/ Expires(a) \/ Claims(a) \/ GradesRow(a)
  \/ DeleteRows

LEMMA CreateWrites ==
  ASSUME Inv, NEW paper \in Papers, NEW last \in 0..MaxAttempts, Create(paper, last)
  PROVE  UNCHANGED attempts \/ Writes
<1>1. ASSUME NEW a \in 1..last, \A b \in Attempts : attempts[b].status = "none" <=> b >= a,
             attempts' = [attempts EXCEPT ![a] = NewRow(paper)]
      PROVE  Writes
  <2>1. a \in Attempts /\ a >= a
    BY <1>1, ExamAssumption DEF Attempts
  <2>2. Opens(a)
    BY <1>1, <2>1 DEF Opens
  <2>. QED  BY <2>1, <2>2 DEF Writes
<1>. QED  BY <1>1 DEF Create

LEMMA CourseWrites ==
  ASSUME Inv, service = "course", NEW r \in Requests, CourseRequest(r)
  PROVE  UNCHANGED attempts \/ Writes
<1>0. RequestOK(req[r]) /\ req = [s \in Requests |-> req[s]]
  BY DEF Inv, TypeOK
<1>1. CASE ExpireAttempt(r) /\ Exists(req[r].a)
  <2>1. /\ req[r].pc = "expireAttempt" /\ req[r].a \in Attempts
        /\ req[r].seen.status = "IN_PROGRESS"
    BY <1>0, <1>1 DEF ExpireAttempt, At, RequestOK
  <2>2. req'[r].pc = "createAttempt"
    BY <1>0, <1>1 DEF ExpireAttempt, Goto, RequestOK
  <2>3. Expires(req[r].a)
    BY <1>1, <2>1, <2>2 DEF ExpireAttempt, Expire, Exists, Expires, ByStaleRead
  <2>. QED  BY <2>1, <2>3 DEF Writes
<1>2. CASE CreateAttempt(r)
  <2>1. req[r].read.paper \in Papers
    BY <1>0, <1>2 DEF CreateAttempt, At, RequestOK, Exams
  <2>2. MaxAttempts \in 0..MaxAttempts
    BY ExamAssumption
  <2>. QED  BY <1>2, <2>1, <2>2, CreateWrites DEF CreateAttempt
<1>3. CASE SaveAnswers(r) /\ Exists(req[r].a)
  <2>1. /\ req[r].pc = "saveAnswers" /\ req[r].a \in Attempts /\ req[r].input \in Sheets
        /\ req[r].seen.status = "IN_PROGRESS" /\ attempts[req[r].a].status # "none"
    BY <1>0, <1>3 DEF SaveAnswers, At, RequestOK
  <2>2. req'[r].pc = "idle"
    BY <1>0, <1>3 DEF SaveAnswers, Finish, Idle
  <2>3. Saves(req[r].a)
    BY <1>3, <2>1, <2>2 DEF SaveAnswers, Saves, ByStaleRead
  <2>. QED  BY <2>1, <2>3 DEF Writes
<1>4. CASE ClaimAttempt(r)
  <2>1. req[r].a \in Attempts
    BY <1>0, <1>4 DEF ClaimAttempt, Claim, At, RequestOK
  <2>. QED  BY <1>4, <2>1 DEF ClaimAttempt, Claim, Claims, Writes
<1>5. CASE RefuseSubmit(r)
  <2>1. req[r].a \in Attempts
    BY <1>0, <1>5 DEF RefuseSubmit, At, RequestOK
  <2>. QED  BY <1>5, <2>1 DEF RefuseSubmit, Expire, Expires, Status, Active, Writes
<1>6. CASE GradeAttempt(r) /\ Exists(req[r].a)
  <2>. PICK sheet, grade :
         /\ sheet = Merge(req[r].seen.answers, req[r].input)
         /\ grade = CourseGradeOf(Resolve(req[r].seen.paper, req[r].read.paper), sheet,
                                  req[r].read.passScore)
    OBVIOUS
  <2>1. /\ req[r].pc \in Grading /\ req[r].a \in Attempts /\ req[r].read \in Exams
        /\ req[r].seen \in Rows /\ req[r].input \in Sheets
        /\ attempts[req[r].a].status # "none" /\ attempts[req[r].a].paper = req[r].seen.paper
    BY <1>0, <1>6 DEF GradeAttempt, At, RequestOK, Grading
  <2>2. attempts[req[r].a].paper \in Papers /\ Gradable(req[r].a)
    BY <2>1 DEF Inv, RowOK, Rows, GraderOK
  <2>3. sheet \in Sheets
    BY <2>1, MergeSheets DEF Rows
  <2>4. req[r].read.paper \in Papers /\ req[r].read.passScore \in PassScores
    BY <2>1 DEF Exams
  <2>5. grade \in Grades[attempts[req[r].a].paper][sheet]
    BY <2>1, <2>2, <2>3, <2>4, CourseGrade
  <2>6. attempts' = [attempts EXCEPT ![req[r].a].status = "SUBMITTED",
                       ![req[r].a].answers = sheet, ![req[r].a].grade = grade]
    BY <1>6 DEF GradeAttempt
  <2>7. GradesRow(req[r].a)
    BY <2>2, <2>3, <2>5, <2>6 DEF GradesRow
  <2>. QED  BY <2>1, <2>7 DEF Writes
<1>7. CASE DeleteAttempts(r) \/ DeleteExam(r)
  BY <1>7 DEF DeleteAttempts, DeleteExam, Writes
<1>8. CASE UNCHANGED attempts
  BY <1>8
<1>. QED
  BY <1>1, <1>2, <1>3, <1>4, <1>5, <1>6, <1>7, <1>8
  DEF CourseRequest, StartAttempt, CountAttempts, FindActive, ExpireAttempt, RequestSave,
      SaveAnswers, RequestSubmit, Read, GradeAttempt, RequestDelete

LEMMA ReadinessWrites ==
  ASSUME Inv, service = "readiness", NEW r \in Requests, ReadinessRequest(r)
  PROVE  UNCHANGED attempts \/ Writes
<1>0. RequestOK(req[r]) /\ req = [s \in Requests |-> req[s]]
  BY DEF Inv, TypeOK
<1>1. CASE ExpireExam(r)
  <2>1. req[r].a \in Attempts
    BY <1>0, <1>1 DEF ExpireExam, RequestOK
  <2>. QED  BY <1>1, <2>1 DEF ExpireExam, Expire, Expires, Status, Active, Writes
<1>2. CASE CreateExam(r)
  <2>1. MaxExams \in 0..MaxAttempts /\ bank \in Papers
    BY ReadinessAssumption DEF Inv, TypeOK
  <2>. QED  BY <1>2, <2>1, CreateWrites DEF CreateExam
<1>3. CASE SaveExam(r)
  <2>1. /\ req[r].pc = "saveExam" /\ req[r].a \in Attempts /\ req[r].input \in Sheets
        /\ req[r].seen.status = "IN_PROGRESS" /\ attempts[req[r].a].status # "none"
        /\ req[r].seen.answers \in Sheets
    BY <1>0, <1>3 DEF SaveExam, At, RequestOK, Rows
  <2>2. req'[r].pc = "idle"
    BY <1>0, <1>3 DEF SaveExam, Finish, Idle
  <2>3. Merge(req[r].seen.answers, req[r].input) \in Sheets
    BY <2>1, MergeSheets
  <2>4. Saves(req[r].a)
    BY <1>3, <2>1, <2>2, <2>3 DEF SaveExam, Saves, ByStaleRead
  <2>. QED  BY <2>1, <2>4 DEF Writes
<1>4. CASE ClaimExam(r)
  <2>1. req[r].a \in Attempts
    BY <1>0, <1>4 DEF ClaimExam, Claim, At, RequestOK
  <2>. QED  BY <1>4, <2>1 DEF ClaimExam, Claim, Claims, Writes
<1>5. CASE GradeExam(r)
  <2>1. /\ req[r].pc = "gradeExam" /\ req[r].pc \in Grading /\ req[r].input \in Sheets
        /\ req[r].a \in Attempts /\ attempts[req[r].a].paper = req[r].seen.paper
        /\ req[r].read.grade \in Grades[req[r].seen.paper][req[r].input]
    BY <1>0, <1>5 DEF GradeExam, At, RequestOK, Grading
  <2>2. Gradable(req[r].a)
    BY <2>1 DEF Inv, GraderOK
  <2>3. GradesRow(req[r].a)
    BY <1>5, <2>1, <2>2 DEF GradeExam, GradesRow
  <2>. QED  BY <2>1, <2>3 DEF Writes
<1>6. CASE UNCHANGED attempts
  BY <1>6
<1>. QED
  BY <1>1, <1>2, <1>3, <1>4, <1>5, <1>6
  DEF ReadinessRequest, StartExam, GetExamAttempt, RequestSaveExam, RequestSubmitExam,
      BuildOutcome, UpdateRoadmap, Read

LEMMA StepWrites ==
  ASSUME Inv, [Next]_vars
  PROVE  UNCHANGED attempts \/ Writes
<1>1. CASE Course
  <2>1. CASE \E r \in Requests : CourseRequest(r)
    BY <1>1, <2>1, CourseWrites DEF Course
  <2>. QED  BY <1>1, <2>1 DEF Course, CourseNext, UpdateExam
<1>2. CASE Readiness
  <2>1. CASE \E r \in Requests : ReadinessRequest(r)
    BY <1>2, <2>1, ReadinessWrites DEF Readiness
  <2>. QED  BY <1>2, <2>1 DEF Readiness, ReadinessNext, SaveBank, CreateRoadmap
<1>3. CASE Environment
  BY <1>3 DEF Environment, Tick, Crash
<1>4. CASE UNCHANGED vars
  BY <1>4 DEF vars
<1>. QED  BY <1>1, <1>2, <1>3, <1>4 DEF Next

\* What each write leaves of the rows
LEMMA RowAfter ==
  ASSUME Inv, NEW a \in Attempts, NEW b \in Attempts
  PROVE  /\ Opens(a) => attempts'[b] = attempts[b] \/ (b = a /\ attempts[b].status = "none")
         /\ Saves(a) => attempts'[b].status = attempts[b].status
                       /\ attempts'[b].grade = attempts[b].grade
                       /\ (b # a => attempts'[b] = attempts[b])
         /\ Expires(a) => attempts'[b] = IF b = a THEN [attempts[b] EXCEPT !.status = "EXPIRED"]
                                         ELSE attempts[b]
         /\ Claims(a) => attempts'[b] = IF b = a THEN [attempts[b] EXCEPT !.status = "PROCESSING"]
                                        ELSE attempts[b]
         /\ GradesRow(a) => (b # a => attempts'[b] = attempts[b]) /\ Gradable(a)
         /\ DeleteRows => attempts'[b] = IF Exists(b) THEN [attempts[b] EXCEPT !.status = "deleted"]
                                         ELSE attempts[b]
<1>1. attempts \in [Attempts -> Rows]
  BY DEF Inv, TypeOK
<1>2. attempts[b] \in Rows
  BY <1>1
<1>3. Opens(a) => attempts'[b] = attempts[b] \/ (b = a /\ attempts[b].status = "none")
  BY <1>1 DEF Opens
<1>4. Saves(a) => /\ attempts'[b].status = attempts[b].status
                  /\ attempts'[b].grade = attempts[b].grade
                  /\ (b # a => attempts'[b] = attempts[b])
  <2>. SUFFICES ASSUME NEW sheet, attempts' = [attempts EXCEPT ![a].answers = sheet]
                PROVE  /\ attempts'[b].status = attempts[b].status
                       /\ attempts'[b].grade = attempts[b].grade
                       /\ (b # a => attempts'[b] = attempts[b])
    BY DEF Saves
  <2>1. attempts'[b] = IF b = a THEN [attempts[b] EXCEPT !.answers = sheet] ELSE attempts[b]
    BY <1>1
  <2>. QED  BY <1>2, <2>1 DEF Rows
<1>5. Expires(a) => attempts'[b] = IF b = a THEN [attempts[b] EXCEPT !.status = "EXPIRED"]
                                   ELSE attempts[b]
  BY <1>1 DEF Expires, SetStatus
<1>6. Claims(a) => attempts'[b] = IF b = a THEN [attempts[b] EXCEPT !.status = "PROCESSING"]
                                  ELSE attempts[b]
  BY <1>1 DEF Claims, SetStatus
<1>7. GradesRow(a) => (b # a => attempts'[b] = attempts[b]) /\ Gradable(a)
  BY <1>1 DEF GradesRow
<1>8. DeleteRows => attempts'[b] = IF Exists(b) THEN [attempts[b] EXCEPT !.status = "deleted"]
                                   ELSE attempts[b]
  BY DEF DeleteRows
<1>. QED  BY <1>3, <1>4, <1>5, <1>6, <1>7, <1>8

\* An expired attempt stays expired, unless it had been claimed when it expired.
THEOREM ExpiredStays == Spec => ExpiredIsFinal
<1>1. ASSUME Inv, [Next]_vars, NEW b \in Attempts,
             attempts[b].status = "EXPIRED", attempts'[b].status \notin {"EXPIRED", "deleted"}
      PROVE  attempts'[b].status = "SUBMITTED" /\ b \in overtaken
  <2>0. attempts[b] \in Rows /\ attempts \in [Attempts -> Rows]
    BY <1>1 DEF Inv, TypeOK
  <2>1. PICK a \in Attempts : Opens(a) \/ Saves(a) \/ Expires(a) \/ Claims(a) \/ GradesRow(a)
    <3>1. ~DeleteRows
      BY <1>1, <2>0, RowAfter DEF Exists, Status, Rows
    <3>. QED  BY <1>1, <3>1, StepWrites DEF Writes
  <2>2. CASE Opens(a) \/ Saves(a)
    BY <1>1, <2>2, RowAfter
  <2>3. CASE Expires(a)
    BY <1>1, <2>0, <2>3, RowAfter DEF Rows
  <2>4. CASE Claims(a)
    BY <1>1, <2>0, <2>4, RowAfter DEF Rows, Claims
  <2>5. CASE GradesRow(a)
    <3>1. b = a /\ b \in overtaken
      BY <1>1, <2>5, RowAfter DEF Gradable
    <3>2. PICK sheet, grade :
            attempts' = [attempts EXCEPT ![a].status = "SUBMITTED",
                           ![a].answers = sheet, ![a].grade = grade]
      BY <2>5 DEF GradesRow
    <3>3. attempts'[a].status = "SUBMITTED"
      <4>1. attempts'[a] = [attempts[a] EXCEPT !.status = "SUBMITTED",
                              !.answers = sheet, !.grade = grade]
        BY <2>0, <3>2
      <4>. QED  BY <2>0, <3>1, <4>1 DEF Rows
    <3>. QED  BY <3>1, <3>3
  <2>. QED  BY <2>1, <2>2, <2>3, <2>4, <2>5
<1>2. Inv /\ [Next]_vars =>
        [\A a \in Attempts :
           attempts[a].status = "EXPIRED" /\ attempts'[a].status \notin {"EXPIRED", "deleted"} =>
             attempts'[a].status = "SUBMITTED" /\ a \in overtaken]_vars
  BY <1>1
<1>. QED  BY <1>2, Invariant, PTL DEF Spec, ExpiredIsFinal

\* A graded row is changed only by a request that read it before it was claimed,
\* and by the deletion of the exam.
THEOREM SubmittedStays == Spec => LeavesGradedOnlyByStaleRead
<1>1. ASSUME Inv, [Next]_vars, NEW b \in Submitted, attempts'[b] # attempts[b]
      PROVE  ~Exists(b)' \/ ByStaleRead(b)
  <2>0. b \in Attempts /\ attempts[b].status = "SUBMITTED" /\ attempts[b] \in Rows
    BY <1>1 DEF Submitted, Inv, TypeOK
  <2>1. CASE DeleteRows
    BY <1>1, <2>0, <2>1, RowAfter DEF Exists, Status, Rows
  <2>2. ASSUME NEW a \in Attempts,
               Opens(a) \/ Saves(a) \/ Expires(a) \/ Claims(a) \/ GradesRow(a)
        PROVE  ByStaleRead(b)
    <3>1. a = b /\ (Saves(b) \/ Expires(b))
      BY <1>1, <2>0, <2>2, RowAfter DEF Claims, Gradable
    <3>. QED  BY <2>0, <3>1 DEF Saves, Expires, Active
  <2>. QED  BY <1>1, <2>1, <2>2, StepWrites DEF Writes
<1>2. Inv /\ [Next]_vars =>
        [\A a \in Submitted :
           attempts'[a] # attempts[a] =>
             \/ ~Exists(a)'
             \/ \E r \in Requests : /\ req[r].a = a /\ req'[r] # req[r]
                                    /\ req[r].seen.status = "IN_PROGRESS"]_vars
  BY <1>1 DEF ByStaleRead
<1>. QED  BY <1>2, Invariant, PTL DEF Spec, LeavesGradedOnlyByStaleRead

-----------------------------------------------------------------------------
(***************************************************************************)
(* The two services implement ExamContract: opening, saving and grading    *)
(* are steps of it, the rest stutters.                                     *)
(***************************************************************************)
Pinned == [a \in Attempts |-> attempts[a].paper]
Answers == [a \in Attempts |-> attempts[a].answers]
Graded == [a \in Attempts |-> attempts[a].grade]

LEMMA PinnedMoves ==
  ASSUME NEW a \in Attempts, NEW v,
         \A b \in Attempts : attempts'[b].paper = IF b = a THEN v ELSE attempts[b].paper
  PROVE  Pinned' = [Pinned EXCEPT ![a] = v]
<1>1. Pinned' = [b \in Attempts |-> attempts'[b].paper]
  BY DEF Pinned
<1>2. [Pinned EXCEPT ![a] = v] = [b \in Attempts |-> IF b = a THEN v ELSE attempts[b].paper]
  BY DEF Pinned
<1>. QED  BY <1>1, <1>2

LEMMA PinnedStays ==
  ASSUME \A b \in Attempts : attempts'[b].paper = attempts[b].paper
  PROVE  Pinned' = Pinned
BY DEF Pinned

LEMMA AnswersMoves ==
  ASSUME NEW a \in Attempts, NEW v,
         \A b \in Attempts : attempts'[b].answers = IF b = a THEN v ELSE attempts[b].answers
  PROVE  Answers' = [Answers EXCEPT ![a] = v]
<1>1. Answers' = [b \in Attempts |-> attempts'[b].answers]
  BY DEF Answers
<1>2. [Answers EXCEPT ![a] = v] = [b \in Attempts |-> IF b = a THEN v ELSE attempts[b].answers]
  BY DEF Answers
<1>. QED  BY <1>1, <1>2

LEMMA AnswersStays ==
  ASSUME \A b \in Attempts : attempts'[b].answers = attempts[b].answers
  PROVE  Answers' = Answers
BY DEF Answers

LEMMA GradedMoves ==
  ASSUME NEW a \in Attempts, NEW v,
         \A b \in Attempts : attempts'[b].grade = IF b = a THEN v ELSE attempts[b].grade
  PROVE  Graded' = [Graded EXCEPT ![a] = v]
<1>1. Graded' = [b \in Attempts |-> attempts'[b].grade]
  BY DEF Graded
<1>2. [Graded EXCEPT ![a] = v] = [b \in Attempts |-> IF b = a THEN v ELSE attempts[b].grade]
  BY DEF Graded
<1>. QED  BY <1>1, <1>2

LEMMA GradedStays ==
  ASSUME \A b \in Attempts : attempts'[b].grade = attempts[b].grade
  PROVE  Graded' = Graded
BY DEF Graded

LEMMA ContractOpens ==
  ASSUME Inv, NEW a \in Attempts, Opens(a)  PROVE  Contract!Open(a)
<1>1. PICK paper \in Papers : attempts' = [attempts EXCEPT ![a] = NewRow(paper)]
  BY DEF Opens
<1>2. PICK row : row = NewRow(paper)
  OBVIOUS
<1>3. row.paper = paper /\ row.answers = NoAnswers /\ row.grade = NoGrade
  BY <1>2 DEF NewRow, NoRow
<1>4. attempts[a] \in Rows /\ RowOK(attempts[a]) /\ attempts[a].status = "none"
  BY DEF Inv, TypeOK, Opens
<1>5. attempts[a].paper = None /\ attempts[a].grade = NoGrade /\ attempts[a].answers = NoAnswers
  BY <1>4 DEF RowOK
<1>6. attempts' = [attempts EXCEPT ![a] = row]
  BY <1>1, <1>2
<1>7. /\ Pinned[a] = None /\ Pinned' = [Pinned EXCEPT ![a] = paper]
      /\ UNCHANGED <<Answers, Graded>>
  <2>1. \A b \in Attempts : /\ attempts'[b].paper = IF b = a THEN paper ELSE attempts[b].paper
                            /\ attempts'[b].answers = attempts[b].answers
                            /\ attempts'[b].grade = attempts[b].grade
    BY <1>3, <1>5, <1>6 DEF Inv, TypeOK
  <2>2. Pinned' = [Pinned EXCEPT ![a] = paper]
    BY <2>1, PinnedMoves
  <2>3. Answers' = Answers /\ Graded' = Graded
    BY <2>1, AnswersStays, GradedStays
  <2>. QED  BY <1>5, <2>2, <2>3 DEF Pinned
<1>. QED  BY <1>7 DEF Contract!Open, Pinned, Answers, Graded

LEMMA ContractSaves ==
  ASSUME Inv, NEW a \in Attempts, Saves(a)  PROVE  Contract!Save(a)
<1>1. PICK sheet \in Sheets : attempts' = [attempts EXCEPT ![a].answers = sheet]
  BY DEF Saves
<1>2. PICK row : row = [attempts[a] EXCEPT !.answers = sheet]
  OBVIOUS
<1>3. attempts[a] \in Rows /\ RowOK(attempts[a]) /\ attempts[a].status # "none"
  BY DEF Inv, TypeOK, Saves
<1>4. row.paper = attempts[a].paper /\ row.answers = sheet /\ row.grade = attempts[a].grade
  BY <1>2, <1>3 DEF Rows
<1>5. /\ Pinned[a] # None /\ Answers' = [Answers EXCEPT ![a] = sheet]
      /\ UNCHANGED <<Pinned, Graded>>
  <2>1. attempts' = [attempts EXCEPT ![a] = row]
    BY <1>1, <1>2
  <2>2. \A b \in Attempts : /\ attempts'[b].paper = attempts[b].paper
                            /\ attempts'[b].answers = IF b = a THEN sheet ELSE attempts[b].answers
                            /\ attempts'[b].grade = attempts[b].grade
    BY <1>4, <2>1 DEF Inv, TypeOK
  <2>3. Answers' = [Answers EXCEPT ![a] = sheet]
    BY <2>2, AnswersMoves
  <2>4. Pinned' = Pinned /\ Graded' = Graded
    BY <2>2, PinnedStays, GradedStays
  <2>. QED  BY <1>3, <2>3, <2>4 DEF Pinned, RowOK
<1>. QED  BY <1>5 DEF Contract!Save, Pinned, Answers, Graded

LEMMA ContractGrades ==
  ASSUME Inv, NEW a \in Attempts, GradesRow(a)  PROVE  Contract!Grade(a)
<1>0. attempts[a] \in Rows /\ RowOK(attempts[a]) /\ Gradable(a)
  BY DEF Inv, TypeOK, GradesRow
<1>1. PICK sheet \in Sheets : \E grade \in Grades[attempts[a].paper][sheet] :
        attempts' = [attempts EXCEPT ![a].status = "SUBMITTED",
                       ![a].answers = sheet, ![a].grade = grade]
  BY DEF GradesRow
<1>2. PICK grade \in Grades[attempts[a].paper][sheet] :
        attempts' = [attempts EXCEPT ![a].status = "SUBMITTED",
                       ![a].answers = sheet, ![a].grade = grade]
  BY <1>1
<1>3. PICK one, two, row : /\ one = [attempts[a] EXCEPT !.status = "SUBMITTED"]
                           /\ two = [one EXCEPT !.answers = sheet]
                           /\ row = [two EXCEPT !.grade = grade]
  OBVIOUS
<1>4. row.paper = attempts[a].paper /\ row.answers = sheet /\ row.grade = grade
  BY <1>0, <1>3 DEF Rows
<1>5. attempts' = [attempts EXCEPT ![a] = row]
  BY <1>2, <1>3
<1>6. /\ Pinned[a] # None /\ Graded[a] = NoGrade /\ Pinned[a] = attempts[a].paper
      /\ UNCHANGED Pinned
      /\ Answers' = [Answers EXCEPT ![a] = sheet] /\ Graded' = [Graded EXCEPT ![a] = grade]
  <2>1. \A b \in Attempts : /\ attempts'[b].paper = attempts[b].paper
                            /\ attempts'[b].answers = IF b = a THEN sheet ELSE attempts[b].answers
                            /\ attempts'[b].grade = IF b = a THEN grade ELSE attempts[b].grade
    BY <1>4, <1>5 DEF Inv, TypeOK
  <2>2. Answers' = [Answers EXCEPT ![a] = sheet]
    BY <2>1, AnswersMoves
  <2>3. Graded' = [Graded EXCEPT ![a] = grade]
    BY <2>1, GradedMoves
  <2>4. Pinned' = Pinned
    BY <2>1, PinnedStays
  <2>. QED  BY <1>0, <2>2, <2>3, <2>4 DEF Pinned, Graded, Gradable, RowOK
<1>. QED  BY <1>2, <1>6 DEF Contract!Grade, Pinned, Answers, Graded

\* An expiry, a claim and a deletion change only the status.
LEMMA ContractStutters ==
  ASSUME Inv, \/ \E a \in Attempts : Expires(a) \/ Claims(a)
              \/ DeleteRows
  PROVE  UNCHANGED <<Pinned, Answers, Graded>>
<1>1. ASSUME NEW b \in Attempts
      PROVE  /\ attempts'[b].paper = attempts[b].paper
             /\ attempts'[b].answers = attempts[b].answers
             /\ attempts'[b].grade = attempts[b].grade
  <2>1. attempts[b] \in Rows
    BY DEF Inv, TypeOK
  <2>2. attempts'[b] = attempts[b] \/ \E status : attempts'[b] = [attempts[b] EXCEPT !.status = status]
    <3>1. CASE DeleteRows
      BY <3>1, RowAfter
    <3>2. ASSUME NEW a \in Attempts, Expires(a)
          PROVE  attempts'[b] \in {attempts[b], [attempts[b] EXCEPT !.status = "EXPIRED"]}
      BY <3>2, RowAfter
    <3>3. ASSUME NEW a \in Attempts, Claims(a)
          PROVE  attempts'[b] \in {attempts[b], [attempts[b] EXCEPT !.status = "PROCESSING"]}
      BY <3>3, RowAfter
    <3>. QED  BY <3>1, <3>2, <3>3
  <2>. QED  BY <2>1, <2>2 DEF Rows
<1>. QED  BY <1>1 DEF Pinned, Answers, Graded

\* Each service grades an attempt at most once, on the questions it was started
\* with and on the answers it stores: both implement ExamContract.
THEOREM Implements == Spec => ImplementsContract
<1>1. Init => Contract!Init
  <2>. SUFFICES ASSUME attempts = [a \in Attempts |-> NoRow]  PROVE  Contract!Init
    BY DEF Init, InitState
  <2>1. NoRow.paper = None /\ NoRow.answers = NoAnswers /\ NoRow.grade = NoGrade
    BY DEF NoRow
  <2>. QED  BY <2>1 DEF Contract!Init
<1>2. ASSUME Inv, [Next]_vars  PROVE  [Contract!Next]_Contract!vars
  <2>1. CASE UNCHANGED attempts
    BY <2>1 DEF Contract!vars
  <2>2. ASSUME NEW a \in Attempts, Opens(a)  PROVE  Contract!Next
    <3>1. Contract!Open(a)
      BY <1>2, <2>2, ContractOpens
    <3>. QED  BY <3>1 DEF Contract!Next
  <2>3. ASSUME NEW a \in Attempts, Saves(a)  PROVE  Contract!Next
    <3>1. Contract!Save(a)
      BY <1>2, <2>3, ContractSaves
    <3>. QED  BY <3>1 DEF Contract!Next
  <2>4. ASSUME NEW a \in Attempts, GradesRow(a)  PROVE  Contract!Next
    <3>1. Contract!Grade(a)
      BY <1>2, <2>4, ContractGrades
    <3>. QED  BY <3>1 DEF Contract!Next
  <2>5. CASE DeleteRows \/ \E a \in Attempts : Expires(a) \/ Claims(a)
    <3>1. UNCHANGED <<Pinned, Answers, Graded>>
      BY <1>2, <2>5, ContractStutters
    <3>. QED  BY <3>1 DEF Contract!vars, Pinned, Answers, Graded
  <2>. QED  BY <1>2, <2>1, <2>2, <2>3, <2>4, <2>5, StepWrites DEF Writes
<1>. QED  BY <1>1, <1>2, Invariant, PTL DEF Spec, ImplementsContract, Contract!Spec

-----------------------------------------------------------------------------
(***************************************************************************)
(* Nobody but a dying request strands an attempt: every other step leaves  *)
(* the graders of others alone and claims nothing, or goes on grading.     *)
(***************************************************************************)
Spares(r) ==
  /\ req[r].pc \notin Grading
  /\ \A s \in Requests : s # r => req'[s] = req[s]
  /\ \A a \in Attempts : attempts'[a].status = "PROCESSING" => attempts[a].status = "PROCESSING"

GradesOn(r) ==
  /\ \A s \in Requests : s # r => req'[s] = req[s]
  /\ \A a \in Attempts \ {req[r].a} : attempts'[a] = attempts[a]
  /\ \/ req'[r].pc \in Grading /\ req'[r].a = req[r].a
     \/ attempts'[req[r].a].status # "PROCESSING"

LEMMA HeldStays ==
  ASSUME NEW r \in Requests, Spares(r) \/ GradesOn(r), NEW a \in Attempts, Stranded(a)'
  PROVE  Stranded(a)
BY DEF Spares, GradesOn, Stranded

\* One slot is written.
LEMMA SlotsStay ==
  ASSUME Inv, NEW r \in Requests
  PROVE  /\ \A new : req' = [req EXCEPT ![r] = new] =>
              req'[r] = new /\ \A s \in Requests : s # r => req'[s] = req[s]
         /\ \A step : Goto(r, step) =>
              /\ req'[r].pc = step /\ req'[r].a = req[r].a
              /\ \A s \in Requests : s # r => req'[s] = req[s]
         /\ Finish(r) => req'[r] = Idle /\ \A s \in Requests : s # r => req'[s] = req[s]
<1>1. req = [s \in Requests |-> req[s]] /\ RequestOK(req[r])
  BY DEF Inv, TypeOK
<1>2. ASSUME NEW step, Goto(r, step)
      PROVE  /\ req'[r].pc = step /\ req'[r].a = req[r].a
             /\ \A s \in Requests : s # r => req'[s] = req[s]
  <2>1. req' = [req EXCEPT ![r] = [req[r] EXCEPT !.pc = step]]
    BY <1>2 DEF Goto
  <2>2. req'[r] = [req[r] EXCEPT !.pc = step] /\ \A s \in Requests : s # r => req'[s] = req[s]
    BY <1>1, <2>1
  <2>3. req[r] = [pc |-> req[r].pc, a |-> req[r].a, seen |-> req[r].seen,
                  read |-> req[r].read, input |-> req[r].input]
    BY <1>1 DEF RequestOK
  <2>. QED  BY <2>2, <2>3
<1>3. ASSUME NEW new, req' = [req EXCEPT ![r] = new]
      PROVE  req'[r] = new /\ \A s \in Requests : s # r => req'[s] = req[s]
  BY <1>1, <1>3
<1>. QED  BY <1>2, <1>3 DEF Finish

LEMMA ExpireSpares ==
  ASSUME Inv, NEW b \in Attempts, Expire(b)
  PROVE  \A a \in Attempts :
           attempts'[a].status = "PROCESSING" => attempts[a].status = "PROCESSING"
<1>1. attempts \in [Attempts -> Rows]
  BY DEF Inv, TypeOK
<1>2. \A a \in Attempts : attempts'[a] = IF a = b THEN [attempts[b] EXCEPT !.status = "EXPIRED"]
                                         ELSE attempts[a]
  BY <1>1 DEF Expire, SetStatus
<1>3. [attempts[b] EXCEPT !.status = "EXPIRED"].status = "EXPIRED"
  BY <1>1 DEF Rows
<1>. QED  BY <1>2, <1>3

LEMMA CreateSpares ==
  ASSUME Inv, NEW paper, NEW last \in 0..MaxAttempts, Create(paper, last)
  PROVE  \A a \in Attempts :
           attempts'[a].status = "PROCESSING" => attempts[a].status = "PROCESSING"
<1>. SUFFICES ASSUME NEW b, attempts' = [attempts EXCEPT ![b] = NewRow(paper)],
                     NEW a \in Attempts, attempts'[a].status = "PROCESSING"
              PROVE  attempts[a].status = "PROCESSING"
  BY DEF Create
<1>1. NewRow(paper).status = "IN_PROGRESS"
  BY DEF NewRow, NoRow
<1>. QED  BY <1>1 DEF Inv, TypeOK

LEMMA DeleteSpares ==
  ASSUME Inv, DeleteRows
  PROVE  \A a \in Attempts :
           attempts'[a].status = "PROCESSING" => attempts[a].status = "PROCESSING"
BY DEF Inv, TypeOK, Rows, DeleteRows

LEMMA SaveSpares ==
  ASSUME Inv, NEW b, NEW sheet, attempts' = [attempts EXCEPT ![b].answers = sheet]
  PROVE  \A a \in Attempts :
           attempts'[a].status = "PROCESSING" => attempts[a].status = "PROCESSING"
<1>1. attempts \in [Attempts -> Rows]
  BY DEF Inv, TypeOK
<1>. SUFFICES ASSUME NEW a \in Attempts  PROVE attempts'[a].status = attempts[a].status
  OBVIOUS
<1>2. attempts'[a] = IF a = b THEN [attempts[a] EXCEPT !.answers = sheet] ELSE attempts[a]
  BY <1>1
<1>. QED  BY <1>1, <1>2 DEF Rows

\* The winner of a claim grades.
LEMMA ClaimHolds ==
  ASSUME Inv, NEW r \in Requests, NEW next, Claim(r, next), NEW a \in Attempts, Stranded(a)'
  PROVE  Stranded(a)
<1>1. req[r].pc = "claim" /\ req[r].pc \notin Grading
  BY DEF Claim, At, Grading
<1>2. CASE attempts[req[r].a].status = "IN_PROGRESS"
  <2>1. SetStatus(req[r].a, "PROCESSING") /\ Goto(r, "grade")
    BY <1>2 DEF Claim
  <2>2. /\ req'[r].pc \in Grading /\ req'[r].a = req[r].a
        /\ \A s \in Requests : s # r => req'[s] = req[s]
    BY <2>1, SlotsStay DEF Grading
  <2>3. a # req[r].a
    BY <2>2 DEF Stranded
  <2>4. attempts'[a] = attempts[a]
    BY <2>1, <2>3 DEF SetStatus, Inv, TypeOK
  <2>. QED  BY <1>1, <2>2, <2>4 DEF Stranded
<1>3. CASE attempts[req[r].a].status # "IN_PROGRESS"
  <2>1. Spares(r)
    BY <1>1, <1>3, SlotsStay DEF Claim, Spares
  <2>. QED  BY <2>1, HeldStays
<1>. QED  BY <1>2, <1>3

LEMMA CourseHolds ==
  ASSUME Inv, service = "course", NEW r \in Requests, CourseRequest(r),
         NEW a \in Attempts, Stranded(a)'
  PROVE  Stranded(a)
<1>0. RequestOK(req[r]) /\ attempts \in [Attempts -> Rows]
  BY DEF Inv, TypeOK
<1>1. CASE ClaimAttempt(r)
  BY <1>1, ClaimHolds DEF ClaimAttempt
<1>2. CASE GradeAttempt(r)
  <2>1. Finish(r) /\ req[r].pc = "grade" /\ req[r].a \in Attempts
    BY <1>0, <1>2 DEF GradeAttempt, At, RequestOK, Grading
  <2>2. CASE Exists(req[r].a)
    <3>1. PICK sheet, grade :
            attempts' = [attempts EXCEPT ![req[r].a].status = "SUBMITTED",
                           ![req[r].a].answers = sheet, ![req[r].a].grade = grade]
      BY <1>2, <2>2 DEF GradeAttempt
    <3>2. attempts'[req[r].a] = [attempts[req[r].a] EXCEPT !.status = "SUBMITTED",
                                   !.answers = sheet, !.grade = grade]
      BY <1>0, <2>1, <3>1
    <3>3. attempts'[req[r].a].status = "SUBMITTED"
      BY <1>0, <2>1, <3>2 DEF Rows
    <3>4. \A b \in Attempts \ {req[r].a} : attempts'[b] = attempts[b]
      BY <1>0, <3>1
    <3>. QED  BY <2>1, <3>3, <3>4, SlotsStay, HeldStays DEF GradesOn
  <2>3. CASE ~Exists(req[r].a)
    <3>1. UNCHANGED attempts /\ attempts[req[r].a].status # "PROCESSING"
      BY <1>2, <2>3 DEF GradeAttempt, Exists, Status
    <3>. QED  BY <2>1, <3>1, SlotsStay, HeldStays DEF GradesOn
  <2>. QED  BY <2>2, <2>3
<1>3. CASE ExpireAttempt(r) \/ RefuseSubmit(r)
  <2>1. req[r].a \in Attempts /\ req[r].pc \notin Grading
    BY <1>0, <1>3 DEF ExpireAttempt, RefuseSubmit, At, RequestOK, Grading
  <2>2. \A b \in Attempts :
          attempts'[b].status = "PROCESSING" => attempts[b].status = "PROCESSING"
    BY <1>3, <2>1, ExpireSpares DEF ExpireAttempt, RefuseSubmit
  <2>3. \A s \in Requests : s # r => req'[s] = req[s]
    BY <1>3, SlotsStay DEF ExpireAttempt, RefuseSubmit
  <2>. QED  BY <2>1, <2>2, <2>3, HeldStays DEF Spares
<1>4. CASE CreateAttempt(r) \/ SaveAnswers(r) \/ DeleteAttempts(r) \/ DeleteExam(r)
  <2>1. req[r].pc \notin Grading
    BY <1>4 DEF CreateAttempt, SaveAnswers, DeleteAttempts, DeleteExam, At, Grading
  <2>2. MaxAttempts \in 0..MaxAttempts
    BY ExamAssumption
  <2>3. \A b \in Attempts :
          attempts'[b].status = "PROCESSING" => attempts[b].status = "PROCESSING"
    BY <1>4, <2>2, CreateSpares, SaveSpares, DeleteSpares
    DEF CreateAttempt, SaveAnswers, DeleteAttempts, DeleteExam
  <2>4. \A s \in Requests : s # r => req'[s] = req[s]
    BY <1>4, SlotsStay DEF CreateAttempt, SaveAnswers, DeleteAttempts, DeleteExam
  <2>. QED  BY <2>1, <2>3, <2>4, HeldStays DEF Spares
<1>5. CASE \/ StartAttempt(r) \/ CountAttempts(r) \/ FindActive(r)
           \/ RequestSave(r) \/ RequestSubmit(r) \/ RequestDelete(r)
  <2>1. req[r].pc \notin Grading /\ UNCHANGED attempts
    BY <1>5 DEF StartAttempt, CountAttempts, FindActive, RequestSave, RequestSubmit,
                RequestDelete, Read, At, Grading
  <2>2. \A s \in Requests : s # r => req'[s] = req[s]
    <3>1. CASE FindActive(r)
      BY <3>1, SlotsStay DEF FindActive, Inv, TypeOK
    <3>2. CASE StartAttempt(r) \/ RequestSave(r) \/ RequestSubmit(r)
      BY <3>2, SlotsStay DEF StartAttempt, RequestSave, RequestSubmit, Read
    <3>3. CASE CountAttempts(r) \/ RequestDelete(r)
      BY <3>3, SlotsStay DEF CountAttempts, RequestDelete
    <3>. QED  BY <1>5, <3>1, <3>2, <3>3
  <2>. QED  BY <2>1, <2>2, HeldStays DEF Spares
<1>. QED  BY <1>1, <1>2, <1>3, <1>4, <1>5 DEF CourseRequest

LEMMA ReadinessHolds ==
  ASSUME Inv, service = "readiness", NEW r \in Requests, ReadinessRequest(r),
         NEW a \in Attempts, Stranded(a)'
  PROVE  Stranded(a)
<1>0. RequestOK(req[r]) /\ attempts \in [Attempts -> Rows] /\ req = [s \in Requests |-> req[s]]
  BY DEF Inv, TypeOK
<1>1. CASE ClaimExam(r)
  BY <1>1, ClaimHolds DEF ClaimExam
<1>2. CASE BuildOutcome(r)
  <2>1. UNCHANGED attempts /\ req[r].pc = "grade"
    BY <1>2 DEF BuildOutcome, At
  <2>. PICK input, grade, rebuilt, read, pc :
         /\ input = Merge(req[r].seen.answers, req[r].input)
         /\ grade = ReadinessGradeOf(req[r].seen.paper, input, passThreshold, roadmap # None)
         /\ rebuilt = IF roadmap = None THEN None ELSE Rebuilt(roadmap, grade)
         /\ read = [grade |-> grade, roadmap |-> rebuilt]
         /\ pc = IF roadmap = None \/ rebuilt.modules = <<>>
                      THEN "gradeExam" ELSE "updateRoadmap"
    OBVIOUS
  <2>2. /\ pc \in Grading
        /\ req' = [req EXCEPT ![r].pc = pc, ![r].read = read, ![r].input = input]
    BY <1>2 DEF BuildOutcome, Grading
  <2>3. /\ req'[r] = [req[r] EXCEPT !.pc = pc, !.read = read, !.input = input]
        /\ \A s \in Requests : s # r => req'[s] = req[s]
    BY <1>0, <2>2
  <2>4. req[r] = [pc |-> req[r].pc, a |-> req[r].a, seen |-> req[r].seen,
                  read |-> req[r].read, input |-> req[r].input]
    BY <1>0 DEF RequestOK
  <2>5. req'[r].pc = pc /\ req'[r].a = req[r].a
    BY <2>3, <2>4
  <2>. QED  BY <2>1, <2>2, <2>3, <2>5, HeldStays DEF GradesOn
<1>3. CASE UpdateRoadmap(r)
  <2>1. UNCHANGED attempts /\ Goto(r, "gradeExam")
    BY <1>3 DEF UpdateRoadmap
  <2>. QED  BY <2>1, SlotsStay, HeldStays DEF GradesOn, Grading
<1>4. CASE GradeExam(r)
  <2>1. Finish(r) /\ req[r].pc = "gradeExam" /\ req[r].a \in Attempts
    BY <1>0, <1>4 DEF GradeExam, At, RequestOK, Grading
  <2>2. PICK sheet, grade :
          attempts' = [attempts EXCEPT ![req[r].a].status = "SUBMITTED",
                         ![req[r].a].answers = sheet, ![req[r].a].grade = grade]
    BY <1>4 DEF GradeExam
  <2>3. attempts'[req[r].a] = [attempts[req[r].a] EXCEPT !.status = "SUBMITTED",
                                 !.answers = sheet, !.grade = grade]
    BY <1>0, <2>1, <2>2
  <2>4. attempts'[req[r].a].status = "SUBMITTED"
    BY <1>0, <2>1, <2>3 DEF Rows
  <2>5. \A b \in Attempts \ {req[r].a} : attempts'[b] = attempts[b]
    BY <1>0, <2>2
  <2>. QED  BY <2>1, <2>4, <2>5, SlotsStay, HeldStays DEF GradesOn
<1>5. CASE ExpireExam(r)
  <2>1. req[r].a \in Attempts /\ req[r].pc \notin Grading
    BY <1>0, <1>5 DEF ExpireExam, RequestOK, Grading
  <2>2. \A b \in Attempts :
          attempts'[b].status = "PROCESSING" => attempts[b].status = "PROCESSING"
    BY <1>5, <2>1, ExpireSpares DEF ExpireExam
  <2>3. \A s \in Requests : s # r => req'[s] = req[s]
    BY <1>5, SlotsStay DEF ExpireExam
  <2>. QED  BY <2>1, <2>2, <2>3, HeldStays DEF Spares
<1>6. CASE CreateExam(r) \/ SaveExam(r)
  <2>1. req[r].pc \notin Grading /\ MaxExams \in 0..MaxAttempts
    BY <1>6, ReadinessAssumption DEF CreateExam, SaveExam, At, Grading
  <2>2. \A b \in Attempts :
          attempts'[b].status = "PROCESSING" => attempts[b].status = "PROCESSING"
    BY <1>6, <2>1, CreateSpares, SaveSpares DEF CreateExam, SaveExam
  <2>3. \A s \in Requests : s # r => req'[s] = req[s]
    BY <1>6, SlotsStay DEF CreateExam, SaveExam
  <2>. QED  BY <2>1, <2>2, <2>3, HeldStays DEF Spares
<1>7. CASE StartExam(r) \/ GetExamAttempt(r) \/ RequestSaveExam(r) \/ RequestSubmitExam(r)
  <2>1. req[r].pc \notin Grading /\ UNCHANGED attempts
    BY <1>7 DEF StartExam, GetExamAttempt, RequestSaveExam, RequestSubmitExam, Read, At, Grading
  <2>2. \A s \in Requests : s # r => req'[s] = req[s]
    BY <1>7, SlotsStay DEF StartExam, GetExamAttempt, RequestSaveExam, RequestSubmitExam, Read
  <2>. QED  BY <2>1, <2>2, HeldStays DEF Spares
<1>. QED  BY <1>1, <1>2, <1>3, <1>4, <1>5, <1>6, <1>7 DEF ReadinessRequest

\* An attempt is left under grading with nobody to grade it only by the death of
\* the request that did.
THEOREM StrandedByCrash == Spec => StrandedOnlyByCrash
<1>1. ASSUME Inv, [Next]_vars, NEW a \in Attempts, Stranded(a)'
      PROVE  \/ Stranded(a)
             \/ \E r \in Requests : req[r].pc \in Grading /\ req[r].a = a /\ Crash(r)
  <2>1. CASE \E r \in Requests : Course /\ CourseRequest(r)
    BY <1>1, <2>1, CourseHolds DEF Course
  <2>2. CASE \E r \in Requests : Readiness /\ ReadinessRequest(r)
    BY <1>1, <2>2, ReadinessHolds DEF Readiness
  <2>3. ASSUME NEW r \in Requests, Crash(r)
        PROVE  \/ Stranded(a)
               \/ \E s \in Requests : req[s].pc \in Grading /\ req[s].a = a /\ Crash(s)
    <3>1. UNCHANGED attempts /\ \A s \in Requests : s # r => req'[s] = req[s]
      BY <1>1, <2>3, SlotsStay DEF Crash
    <3>. QED  BY <1>1, <2>3, <3>1 DEF Stranded
  <2>4. CASE UNCHANGED <<req, attempts>>
    BY <1>1, <2>4 DEF Stranded
  <2>. QED
    BY <1>1, <2>1, <2>2, <2>3, <2>4
    DEF Next, Course, CourseNext, UpdateExam, Readiness, ReadinessNext, SaveBank, CreateRoadmap,
        Environment, Tick, vars
<1>2. Inv /\ [Next]_vars =>
        [\A a \in Attempts :
           Stranded(a)' =>
             \/ Stranded(a)
             \/ \E r \in Requests : req[r].pc \in Grading /\ req[r].a = a /\ Crash(r)]_vars
  BY <1>1
<1>. QED  BY <1>2, Invariant, PTL DEF Spec, StrandedOnlyByCrash

-----------------------------------------------------------------------------
(***************************************************************************)
(* The budget: what is graded is counted together with what will be, the   *)
(* active attempt and the starts that have passed the count. An attempt    *)
(* that was expired while it was graded is left to the property.           *)
(***************************************************************************)
Starting == {"findActive", "expireAttempt", "createAttempt"}
Starters == {r \in Requests : req[r].pc \in Starting}
Counted == Submitted \ overtaken
Taken == Counted \cup ActiveAttempts

Most == Cardinality(Requests)
BudgetKept(most) ==
  Cardinality(Counted) >= most => Cardinality(Taken) + Cardinality(Starters) <= most + Most - 1

BudgetInv ==
  service = "course" =>
    /\ overtaken \subseteq Attempts
    /\ \A most \in Budgets : (\A other \in Budgets : other <= most) => BudgetKept(most)

LEMMA Fewer ==
  ASSUME NEW T, IsFiniteSet(T), NEW S, S \subseteq T
  PROVE  /\ IsFiniteSet(S) /\ Cardinality(S) \in Nat /\ Cardinality(T) \in Nat
         /\ Cardinality(S) <= Cardinality(T)
BY FS_Subset, FS_CardinalityType

LEMMA AddsOne ==
  ASSUME NEW T, IsFiniteSet(T), NEW x, NEW S, S \subseteq T \cup {x}
  PROVE  Cardinality(S) <= Cardinality(T) + 1
<1>1. /\ IsFiniteSet(T \cup {x}) /\ Cardinality(T) \in Nat
      /\ Cardinality(T \cup {x}) = IF x \in T THEN Cardinality(T) ELSE Cardinality(T) + 1
  BY FS_AddElement, FS_CardinalityType
<1>2. Cardinality(S) \in Nat /\ Cardinality(S) <= Cardinality(T \cup {x})
  BY <1>1, Fewer
<1>. QED  BY <1>1, <1>2

LEMMA LosesOne ==
  ASSUME NEW T, IsFiniteSet(T), NEW x \in T, NEW S, S \subseteq T, x \notin S
  PROVE  Cardinality(S) + 1 <= Cardinality(T)
<1>1. IsFiniteSet(T \ {x}) /\ Cardinality(T) \in Nat /\ Cardinality(T \ {x}) = Cardinality(T) - 1
  BY FS_RemoveElement, FS_CardinalityType
<1>2. Cardinality(S) \in Nat /\ Cardinality(S) <= Cardinality(T \ {x})
  BY <1>1, Fewer
<1>. QED  BY <1>1, <1>2

LEMMA AllFinite ==
  /\ Most \in Nat /\ Most >= 1 /\ IsFiniteSet(Requests)
  /\ \A S \in SUBSET Requests : IsFiniteSet(S) /\ Cardinality(S) \in Nat /\ Cardinality(S) <= Most
  /\ \A S \in SUBSET Attempts : IsFiniteSet(S) /\ Cardinality(S) \in Nat
<1>1. IsFiniteSet(Attempts)
  BY ExamAssumption, FS_Interval DEF Attempts
<1>2. Most \in Nat /\ Most # 0
  BY ExamAssumption, FS_EmptySet, FS_CardinalityType DEF Most
<1>. QED  BY <1>1, <1>2, ExamAssumption, Fewer DEF Most

LEMMA SetsFinite ==
  /\ Starters \subseteq Requests /\ Counted \subseteq Attempts /\ Taken \subseteq Attempts
  /\ Submitted \subseteq Attempts /\ Starters' \subseteq Requests
  /\ Counted' \subseteq Attempts /\ Taken' \subseteq Attempts
BY DEF Starters, Counted, Taken, Submitted, ActiveAttempts

\* A step that adds nothing keeps the budget.
LEMMA AddsNothing ==
  ASSUME Counted' \subseteq Counted, Taken' \subseteq Taken, Starters' \subseteq Starters,
         NEW most \in Nat, BudgetKept(most)
  PROVE  BudgetKept(most)'
<1>1. /\ Cardinality(Counted') <= Cardinality(Counted) /\ Cardinality(Counted') \in Nat
      /\ Cardinality(Counted) \in Nat
  BY AllFinite, SetsFinite, Fewer
<1>2. /\ Cardinality(Taken') <= Cardinality(Taken) /\ Cardinality(Taken') \in Nat
      /\ Cardinality(Taken) \in Nat
  BY AllFinite, SetsFinite, Fewer
<1>3. /\ Cardinality(Starters') <= Cardinality(Starters) /\ Cardinality(Starters') \in Nat
      /\ Cardinality(Starters) \in Nat
  BY AllFinite, SetsFinite, Fewer
<1>. QED  BY <1>1, <1>2, <1>3, AllFinite DEF BudgetKept, Most

\* A start that has counted fewer may go on.
LEMMA PassesTheCount ==
  ASSUME UNCHANGED <<attempts, overtaken>>, NEW most \in Nat, Cardinality(Submitted) < most
  PROVE  BudgetKept(most)'
<1>1. Counted' = Counted
  BY DEF Counted, Submitted
<1>2. /\ Cardinality(Counted) <= Cardinality(Submitted) /\ Cardinality(Counted) \in Nat
      /\ Cardinality(Submitted) \in Nat
  BY AllFinite, SetsFinite, Fewer DEF Counted
<1>. QED  BY <1>1, <1>2 DEF BudgetKept

\* The attempt it creates was counted with the start.
LEMMA CreatesItsOwn ==
  ASSUME Counted' \subseteq Counted, NEW a, Taken' \subseteq Taken \cup {a},
         NEW r \in Starters, Starters' \subseteq Starters \ {r},
         NEW most \in Nat, BudgetKept(most)
  PROVE  BudgetKept(most)'
<1>1. /\ Cardinality(Counted') <= Cardinality(Counted) /\ Cardinality(Counted') \in Nat
      /\ Cardinality(Counted) \in Nat
  BY AllFinite, SetsFinite, Fewer
<1>2. /\ Cardinality(Taken') <= Cardinality(Taken) + 1 /\ Cardinality(Taken') \in Nat
      /\ Cardinality(Taken) \in Nat
  BY AllFinite, SetsFinite, AddsOne
<1>3. /\ Cardinality(Starters') + 1 <= Cardinality(Starters) /\ Cardinality(Starters') \in Nat
      /\ Cardinality(Starters) \in Nat
  BY AllFinite, SetsFinite, LosesOne
<1>. QED  BY <1>1, <1>2, <1>3, AllFinite DEF BudgetKept, Most

\* The one active attempt is graded, by a request that starts none.
LEMMA GradesTheActive ==
  ASSUME NEW a, Counted' \subseteq Counted \cup {a}, Taken' \subseteq Counted \cup {a},
         a \in Taken, Taken' \subseteq Taken,
         NEW r \in Requests, r \notin Starters, Starters' \subseteq Starters,
         NEW most \in Nat, BudgetKept(most)
  PROVE  BudgetKept(most)'
<1>1. /\ Cardinality(Taken') <= Cardinality(Counted) + 1 /\ Cardinality(Taken') \in Nat
      /\ Cardinality(Counted) \in Nat /\ Cardinality(Taken) \in Nat
      /\ Cardinality(Taken') <= Cardinality(Taken)
  BY AllFinite, SetsFinite, AddsOne, Fewer
<1>2. /\ Cardinality(Starters') <= Cardinality(Starters) /\ Cardinality(Starters') \in Nat
      /\ Cardinality(Starters) \in Nat
  BY AllFinite, SetsFinite, Fewer
<1>3. Cardinality(Starters) + 1 <= Most
  BY AllFinite, SetsFinite, LosesOne DEF Most
<1>4. CASE Cardinality(Counted) >= most
  BY <1>1, <1>2, <1>4, AllFinite DEF BudgetKept, Most
<1>5. CASE Cardinality(Counted) < most
  BY <1>1, <1>2, <1>3, <1>5, AllFinite DEF BudgetKept, Most
<1>. QED  BY <1>1, <1>4, <1>5

\* No attempt becomes active, and none becomes graded.
Tame ==
  \A a \in Attempts :
    /\ attempts'[a].status \in Active => attempts[a].status \in Active
    /\ attempts'[a].status = "SUBMITTED" => attempts[a].status = "SUBMITTED"

LEMMA TameWrites ==
  ASSUME Inv, NEW b \in Attempts,
         \/ Expire(b)
         \/ \E sheet : attempts' = [attempts EXCEPT ![b].answers = sheet]
         \/ attempts[b].status = "IN_PROGRESS" /\ SetStatus(b, "PROCESSING")
  PROVE  Tame
<1>1. attempts \in [Attempts -> Rows]
  BY DEF Inv, TypeOK
<1>2. ASSUME NEW status, SetStatus(b, status), NEW a \in Attempts
      PROVE  attempts'[a].status = IF a = b THEN status ELSE attempts[a].status
  <2>1. attempts'[a] = IF a = b THEN [attempts[a] EXCEPT !.status = status] ELSE attempts[a]
    BY <1>1, <1>2 DEF SetStatus
  <2>. QED  BY <1>1, <2>1 DEF Rows
<1>3. ASSUME NEW sheet, attempts' = [attempts EXCEPT ![b].answers = sheet], NEW a \in Attempts
      PROVE  attempts'[a].status = attempts[a].status
  <2>1. attempts'[a] = IF a = b THEN [attempts[a] EXCEPT !.answers = sheet] ELSE attempts[a]
    BY <1>1, <1>3
  <2>. QED  BY <1>1, <2>1 DEF Rows
<1>. QED  BY <1>2, <1>3 DEF Tame, Expire, Active

LEMMA TameDeletion == Inv /\ DeleteRows => Tame
BY DEF Inv, TypeOK, Rows, DeleteRows, Tame, Active

LEMMA TameTakesNothing ==
  ASSUME Tame, overtaken \subseteq overtaken'
  PROVE  Counted' \subseteq Counted /\ Taken' \subseteq Taken
BY DEF Tame, Counted, Taken, Submitted, ActiveAttempts

\* Whoever does not start is no starter.
LEMMA OneStarts ==
  ASSUME NEW r \in Requests, \A s \in Requests : s # r => req'[s] = req[s]
  PROVE  /\ (req'[r].pc \in Starting => req[r].pc \in Starting) => Starters' \subseteq Starters
         /\ req'[r].pc \notin Starting => Starters' \subseteq Starters \ {r}
BY DEF Starters

LEMMA CreateBudget ==
  ASSUME Inv, NEW r \in Requests, CreateAttempt(r), NEW most \in Nat, BudgetKept(most)
  PROVE  BudgetKept(most)'
<1>1. /\ r \in Starters /\ Starters' \subseteq Starters \ {r} /\ UNCHANGED overtaken
  BY SlotsStay, OneStarts DEF CreateAttempt, At, Starters, Starting, Idle
<1>2. CASE UNCHANGED attempts
  <2>1. Tame
    BY <1>2 DEF Tame
  <2>. QED  BY <1>1, <2>1, TameTakesNothing, AddsNothing
<1>3. ASSUME NEW a, attempts' = [attempts EXCEPT ![a] = NewRow(req[r].read.paper)]
      PROVE  BudgetKept(most)'
  <2>1. \A b \in Attempts : attempts'[b] = IF b = a THEN NewRow(req[r].read.paper) ELSE attempts[b]
    BY <1>3 DEF Inv, TypeOK
  <2>2. NewRow(req[r].read.paper).status = "IN_PROGRESS"
    BY DEF NewRow, NoRow
  <2>3. Counted' \subseteq Counted /\ Taken' \subseteq Taken \cup {a}
    BY <1>1, <2>1, <2>2 DEF Counted, Taken, Submitted, ActiveAttempts
  <2>. QED  BY <1>1, <2>3, CreatesItsOwn
<1>. QED  BY <1>2, <1>3 DEF CreateAttempt, Create

LEMMA GradeBudget ==
  ASSUME Inv, service = "course", NEW r \in Requests, GradeAttempt(r), NEW most \in Nat,
         BudgetKept(most)
  PROVE  BudgetKept(most)'
<1>. PICK a : a = req[r].a
  OBVIOUS
<1>1. /\ r \notin Starters /\ Starters' \subseteq Starters /\ UNCHANGED overtaken
  BY SlotsStay, OneStarts DEF GradeAttempt, At, Starters, Starting, Idle
<1>2. a \in Attempts /\ Gradable(a) /\ attempts \in [Attempts -> Rows]
  BY DEF GradeAttempt, At, Inv, TypeOK, RequestOK, GraderOK, Grading
<1>3. CASE UNCHANGED attempts
  <2>1. Tame
    BY <1>3 DEF Tame
  <2>. QED  BY <1>1, <2>1, TameTakesNothing, AddsNothing
<1>4. CASE Exists(a)
  <2>1. PICK sheet, grade :
          attempts' = [attempts EXCEPT ![a].status = "SUBMITTED",
                         ![a].answers = sheet, ![a].grade = grade]
    BY <1>4 DEF GradeAttempt
  <2>2. attempts'[a] = [attempts[a] EXCEPT !.status = "SUBMITTED", !.answers = sheet,
                                           !.grade = grade]
    BY <1>2, <2>1
  <2>3. attempts'[a].status = "SUBMITTED"
    BY <1>2, <2>2 DEF Rows
  <2>4. \A b \in Attempts \ {a} : attempts'[b] = attempts[b]
    BY <1>2, <2>1
  <2>5. CASE attempts[a].status = "PROCESSING"
    <3>1. ActiveAttempts = {a}
      BY <1>2, <2>5 DEF Inv, OneActive, ActiveAttempts, Active
    <3>2. ActiveAttempts' = {}
      BY <2>3, <2>4, <3>1 DEF ActiveAttempts, Active
    <3>3. Counted' \subseteq Counted \cup {a}
      BY <1>1, <2>4 DEF Counted, Submitted
    <3>4. /\ Taken' \subseteq Counted \cup {a}
          /\ a \in Taken /\ Taken' \subseteq Taken
      BY <3>1, <3>2, <3>3 DEF Taken
    <3>. QED  BY <1>1, <3>3, <3>4, GradesTheActive
  <2>6. CASE attempts[a].status = "EXPIRED"
    <3>1. a \in overtaken
      BY <1>2, <2>6 DEF Gradable
    <3>2. Counted' \subseteq Counted
      BY <1>1, <2>4, <3>1 DEF Counted, Submitted
    <3>3. ActiveAttempts' \subseteq ActiveAttempts
      BY <2>3, <2>4 DEF ActiveAttempts, Active
    <3>. QED  BY <1>1, <3>2, <3>3, AddsNothing DEF Taken
  <2>. QED  BY <1>2, <1>4, <2>5, <2>6 DEF Gradable, Exists, Status
<1>. QED  BY <1>3, <1>4 DEF GradeAttempt

LEMMA CourseBudget ==
  ASSUME Inv, service = "course", NEW r \in Requests, CourseRequest(r),
         NEW most \in Nat, \A other \in Budgets : other <= most, BudgetKept(most)
  PROVE  BudgetKept(most)'
<1>0. RequestOK(req[r]) /\ attempts \in [Attempts -> Rows]
  BY DEF Inv, TypeOK
<1>1. ASSUME Tame, overtaken \subseteq overtaken', \A s \in Requests : s # r => req'[s] = req[s],
             req'[r].pc \in Starting => req[r].pc \in Starting
      PROVE  BudgetKept(most)'
  BY <1>1, TameTakesNothing, OneStarts, AddsNothing
<1>2. CASE CountAttempts(r) /\ Cardinality(Submitted) < req[r].read.maxAttempts
  <2>1. req[r].read.maxAttempts \in Budgets
    BY <1>0, <1>2 DEF CountAttempts, At, RequestOK, Exams
  <2>2. req[r].read.maxAttempts \in Nat /\ req[r].read.maxAttempts <= most
    BY <2>1, CourseExamAssumption
  <2>3. Cardinality(Submitted) \in Nat
    BY AllFinite, SetsFinite
  <2>4. Cardinality(Submitted) < most
    BY <1>2, <2>2, <2>3
  <2>. QED  BY <1>2, <2>4, PassesTheCount DEF CountAttempts
<1>3. CASE CountAttempts(r) /\ ~(Cardinality(Submitted) < req[r].read.maxAttempts)
  <2>1. req[r].read.maxAttempts \in Nat
    BY <1>0, <1>3, CourseExamAssumption DEF CountAttempts, At, RequestOK, Exams
  <2>2. Finish(r) /\ UNCHANGED <<attempts, overtaken>>
    BY <1>3, <2>1, AllFinite, SetsFinite DEF CountAttempts
  <2>. QED  BY <1>1, <2>2, SlotsStay DEF Tame, Idle, Starting
<1>4. CASE StartAttempt(r) \/ RequestSave(r) \/ RequestSubmit(r) \/ RequestDelete(r)
  <2>1. Tame /\ UNCHANGED overtaken
    BY <1>4 DEF StartAttempt, RequestSave, RequestSubmit, RequestDelete, Read, Tame
  <2>2. \A s \in Requests : s # r => req'[s] = req[s]
    BY <1>4, SlotsStay DEF StartAttempt, RequestSave, RequestSubmit, RequestDelete, Read
  <2>3. req'[r].pc \notin Starting
    <3>1. CASE StartAttempt(r)
      <4>1. req'[r] = [Idle EXCEPT !.pc = "countAttempts", !.read = exam]
        BY <3>1, SlotsStay DEF StartAttempt
      <4>. QED  BY <4>1 DEF Idle, Starting
    <3>2. ASSUME NEW step, NEW a, NEW read, NEW input, Read(r, step, a, read, input)
          PROVE  req'[r].pc = step
      <4>1. req'[r] = [pc |-> step, a |-> a, seen |-> attempts[a], read |-> read, input |-> input]
        BY <3>2, SlotsStay DEF Read
      <4>. QED  BY <4>1
    <3>3. CASE RequestSave(r) \/ RequestSubmit(r)
      BY <3>2, <3>3 DEF RequestSave, RequestSubmit, Starting
    <3>4. CASE RequestDelete(r)
      BY <3>4, SlotsStay DEF RequestDelete, Starting
    <3>. QED  BY <1>4, <3>1, <3>3, <3>4
  <2>. QED  BY <1>1, <2>1, <2>2, <2>3
<1>5. CASE FindActive(r)
  <2>1. Tame /\ UNCHANGED overtaken /\ req[r].pc \in Starting
    BY <1>5 DEF FindActive, At, Tame, Starting
  <2>2. \A s \in Requests : s # r => req'[s] = req[s]
    BY <1>5, SlotsStay DEF FindActive, Inv, TypeOK
  <2>. QED  BY <1>1, <2>1, <2>2
<1>6. CASE ExpireAttempt(r) \/ RefuseSubmit(r)
  <2>1. req[r].a \in Attempts
    BY <1>0, <1>6 DEF ExpireAttempt, RefuseSubmit, At, RequestOK
  <2>2. Tame /\ overtaken \subseteq overtaken'
    BY <1>6, <2>1, TameWrites DEF ExpireAttempt, RefuseSubmit, Expire, Tame
  <2>3. \A s \in Requests : s # r => req'[s] = req[s]
    BY <1>6, SlotsStay DEF ExpireAttempt, RefuseSubmit
  <2>4. req'[r].pc \in Starting => req[r].pc \in Starting
    BY <1>6, SlotsStay DEF ExpireAttempt, RefuseSubmit, At, Idle, Starting
  <2>. QED  BY <1>1, <2>2, <2>3, <2>4
<1>7. CASE SaveAnswers(r) \/ ClaimAttempt(r)
  <2>1. req[r].a \in Attempts
    BY <1>0, <1>7 DEF SaveAnswers, ClaimAttempt, Claim, At, RequestOK
  <2>2. Tame /\ UNCHANGED overtaken
    BY <1>7, <2>1, TameWrites DEF SaveAnswers, ClaimAttempt, Claim, Tame
  <2>3. \A s \in Requests : s # r => req'[s] = req[s]
    BY <1>7, SlotsStay DEF SaveAnswers, ClaimAttempt, Claim
  <2>4. req'[r].pc \notin Starting
    BY <1>7, SlotsStay DEF SaveAnswers, ClaimAttempt, Claim, Idle, Starting
  <2>. QED  BY <1>1, <2>2, <2>3, <2>4
<1>8. CASE DeleteAttempts(r) \/ DeleteExam(r)
  <2>1. Tame /\ UNCHANGED overtaken
    BY <1>8, TameDeletion DEF DeleteAttempts, DeleteExam
  <2>2. \A s \in Requests : s # r => req'[s] = req[s]
    BY <1>8, SlotsStay DEF DeleteAttempts, DeleteExam
  <2>3. req'[r].pc \notin Starting
    BY <1>8, SlotsStay DEF DeleteAttempts, DeleteExam, Idle, Starting
  <2>. QED  BY <1>1, <2>1, <2>2, <2>3
<1>. QED
  BY <1>2, <1>3, <1>4, <1>5, <1>6, <1>7, <1>8, CreateBudget, GradeBudget DEF CourseRequest

LEMMA BudgetStart == Init => BudgetInv
<1>. SUFFICES ASSUME Init  PROVE BudgetInv
  OBVIOUS
<1>1. overtaken = {} /\ Counted = {} /\ Taken = {} /\ Starters = {}
  BY DEF Init, InitState, Taken, Counted, Submitted, ActiveAttempts, Active, Starters, Starting,
         NoRow, Idle
<1>2. Cardinality({}) = 0
  BY FS_EmptySet
<1>3. ASSUME service = "course", NEW most \in Budgets  PROVE BudgetKept(most)
  <2>1. most \in Nat
    BY <1>3, CourseExamAssumption
  <2>. QED  BY <1>1, <1>2, <2>1, AllFinite DEF BudgetKept
<1>. QED  BY <1>1, <1>3 DEF BudgetInv

LEMMA BudgetStep == Inv /\ BudgetInv /\ [Next]_vars => BudgetInv'
<1>. SUFFICES ASSUME Inv, BudgetInv, [Next]_vars, service' = "course"
              PROVE  BudgetInv'
  BY DEF BudgetInv
<1>1. service = "course"
  BY DEF Next, Course, Readiness, Environment, vars
<1>2. overtaken' \subseteq Attempts
  <2>1. CASE \E r \in Requests : CourseRequest(r)
    <3>. PICK r \in Requests : CourseRequest(r)
      BY <2>1
    <3>1. RequestOK(req[r])
      BY DEF Inv
    <3>2. CASE ExpireAttempt(r) \/ RefuseSubmit(r)
      <4>1. req[r].a \in Attempts
        BY <3>1, <3>2 DEF ExpireAttempt, RefuseSubmit, At, RequestOK
      <4>. QED  BY <1>1, <3>2, <4>1 DEF ExpireAttempt, RefuseSubmit, Expire, BudgetInv
    <3>3. CASE UNCHANGED overtaken
      BY <1>1, <3>3 DEF BudgetInv
    <3>. QED
      BY <3>2, <3>3
      DEF CourseRequest, StartAttempt, CountAttempts, FindActive, CreateAttempt, RequestSave,
          SaveAnswers, RequestSubmit, Read, ClaimAttempt, Claim, GradeAttempt, RequestDelete,
          DeleteAttempts, DeleteExam
  <2>2. CASE UNCHANGED overtaken
    BY <1>1, <2>2 DEF BudgetInv
  <2>. QED
    BY <1>1, <2>1, <2>2 DEF Next, Course, CourseNext, UpdateExam, Readiness, Environment, Tick,
                            Crash, vars
<1>3. ASSUME NEW most \in Budgets, \A other \in Budgets : other <= most
      PROVE  BudgetKept(most)'
  <2>1. most \in Nat /\ BudgetKept(most)
    BY <1>1, <1>3, CourseExamAssumption DEF BudgetInv
  <2>2. CASE \E r \in Requests : CourseRequest(r)
    BY <1>1, <1>3, <2>1, <2>2, CourseBudget
  <2>3. ASSUME NEW r \in Requests, Crash(r)
        PROVE  BudgetKept(most)'
    <3>1. /\ UNCHANGED <<attempts, overtaken>> /\ req'[r].pc \notin Starting
          /\ \A s \in Requests : s # r => req'[s] = req[s]
      BY <2>3, SlotsStay DEF Crash, Idle, Starting
    <3>2. Tame
      BY <3>1 DEF Tame
    <3>. QED  BY <2>1, <3>1, <3>2, TameTakesNothing, OneStarts, AddsNothing
  <2>4. CASE UNCHANGED <<req, attempts, overtaken>>
    BY <2>1, <2>4 DEF BudgetKept, Counted, Taken, Starters, Submitted, ActiveAttempts, Most
  <2>. QED
    BY <1>1, <2>2, <2>3, <2>4 DEF Next, Course, CourseNext, UpdateExam, Readiness, Environment,
                                  Tick, vars
<1>. QED  BY <1>2, <1>3 DEF BudgetInv

\* The graded attempts of a course exam exceed its budget only by the starts
\* beside the last submission and the attempts expired while they were graded
\* (CourseExamsService.startAttempt).
THEOREM BudgetHolds == Spec => []GradedWithinBudget
<1>1. BudgetInv => GradedWithinBudget
  <2>. SUFFICES ASSUME BudgetInv, service = "course", NEW most \in Budgets,
                       \A other \in Budgets : other <= most
                PROVE  Cardinality(Submitted)
                         <= most + Cardinality(Requests) - 1 + Cardinality(overtaken)
    BY DEF GradedWithinBudget
  <2>1. /\ most \in Nat /\ BudgetKept(most) /\ overtaken \subseteq Attempts
        /\ IsFiniteSet(overtaken) /\ Cardinality(overtaken) \in Nat
    BY CourseExamAssumption, AllFinite DEF BudgetInv
  <2>2. /\ IsFiniteSet(Counted) /\ Cardinality(Counted) \in Nat /\ Cardinality(Taken) \in Nat
        /\ Cardinality(Counted) <= Cardinality(Taken)
        /\ Cardinality(Starters) \in Nat
    BY AllFinite, SetsFinite, Fewer DEF Taken
  <2>3. Cardinality(Counted) <= most + Most - 1
    BY <2>1, <2>2, AllFinite DEF BudgetKept
  <2>4. /\ IsFiniteSet(Counted \cup overtaken)
        /\ Cardinality(Counted \cup overtaken) <= Cardinality(Counted) + Cardinality(overtaken)
        /\ Cardinality(Counted \cup overtaken) \in Nat
    <3>1. /\ IsFiniteSet(Counted \cup overtaken)
          /\ Cardinality(Counted \cup overtaken) =
               Cardinality(Counted) + Cardinality(overtaken) - Cardinality(Counted \cap overtaken)
      BY <2>1, <2>2, FS_Union
    <3>2. Cardinality(Counted \cap overtaken) \in Nat
      BY <2>2, Fewer
    <3>. QED  BY <2>1, <2>2, <3>1, <3>2, FS_CardinalityType
  <2>5. Submitted \subseteq Counted \cup overtaken
    BY DEF Counted
  <2>6. Cardinality(Submitted) <= Cardinality(Counted \cup overtaken) /\ Cardinality(Submitted) \in Nat
    BY <2>4, <2>5, Fewer
  <2>. QED  BY <2>1, <2>2, <2>3, <2>4, <2>6, AllFinite DEF Most
<1>. QED  BY <1>1, BudgetStart, BudgetStep, Invariant, PTL DEF Spec

-----------------------------------------------------------------------------
(***************************************************************************)
(* Induction on sets: no operator is passed, so the provers apply it.      *)
(***************************************************************************)
LEMMA Counting ==
  ASSUME NEW S, 0 \in S, \A n \in Nat : n \in S => n + 1 \in S
  PROVE  Nat \subseteq S
<1>. SUFFICES ASSUME Nat \ S # {}  PROVE FALSE
  OBVIOUS
<1>1. IsWellFoundedOn(OpToRel(<, Nat), Nat)
  BY NatLessThanWellFounded
<1>2. PICK n \in Nat \ S : \A m \in Nat \ S : <<m, n>> \notin OpToRel(<, Nat)
  BY <1>1, WFMin
<1>3. \A m \in Nat \ S : ~(m < n)
  BY <1>2 DEF OpToRel
<1>4. n - 1 \in Nat /\ n - 1 \notin S
  OBVIOUS
<1>. QED  BY <1>3, <1>4

\* What a filter has kept of the first i elements of s.
Kept(s, S, n) ==
  {f \in [0..n -> Seq(ToSet(s))] :
     /\ f[0] = <<>>
     /\ \A i \in 1..n : f[i] = IF s[i] \in S THEN Append(f[i - 1], s[i]) ELSE f[i - 1]}

LEMMA KeptExists ==
  ASSUME NEW T, NEW s \in Seq(T), NEW S
  PROVE  \A n \in 0..Len(s) : Kept(s, S, n) # {}
<1>. DEFINE P == {n \in Nat : n \in 0..Len(s) => Kept(s, S, n) # {}}
<1>1. 0 \in P
  <2>1. [i \in 0..0 |-> <<>>] \in Kept(s, S, 0)
    BY DEF Kept
  <2>. QED  BY <2>1
<1>2. ASSUME NEW n \in Nat, n \in P  PROVE n + 1 \in P
  <2>. SUFFICES ASSUME n + 1 \in 0..Len(s)  PROVE Kept(s, S, n + 1) # {}
    OBVIOUS
  <2>1. PICK f \in Kept(s, S, n) : TRUE
    BY <1>2
  <2>. DEFINE last == IF s[n + 1] \in S THEN Append(f[n], s[n + 1]) ELSE f[n]
              g == [i \in 0..(n + 1) |-> IF i = n + 1 THEN last ELSE f[i]]
  <2>2. f \in [0..n -> Seq(ToSet(s))] /\ f[0] = <<>>
        /\ \A i \in 1..n : f[i] = IF s[i] \in S THEN Append(f[i - 1], s[i]) ELSE f[i - 1]
    BY <2>1 DEF Kept
  <2>3. s[n + 1] \in ToSet(s)
    BY DEF ToSet
  <2>4. last \in Seq(ToSet(s))
    BY <2>2, <2>3
  <2>5. g \in [0..(n + 1) -> Seq(ToSet(s))] /\ g[0] = <<>>
    BY <2>2, <2>4
  <2>6. \A i \in 1..(n + 1) : g[i] = IF s[i] \in S THEN Append(g[i - 1], s[i]) ELSE g[i - 1]
    <3>. TAKE i \in 1..(n + 1)
    <3>1. CASE i = n + 1
      BY <3>1
    <3>2. CASE i # n + 1
      BY <2>2, <3>2
    <3>. QED  BY <3>1, <3>2
  <2>7. g \in Kept(s, S, n + 1)
    BY <2>5, <2>6 DEF Kept
  <2>. QED  BY <2>7
<1>. HIDE DEF P
<1>3. Nat \subseteq P
  BY <1>1, <1>2, Counting
<1>. QED  BY <1>3 DEF P

LEMMA FilterKept ==
  ASSUME NEW T, NEW s \in Seq(T), NEW S
  PROVE  \E f \in Kept(s, S, Len(s)) : Filter(s, S) = f[Len(s)]
<1>. DEFINE kept == CHOOSE k : k = [i \in 0..Len(s) |->
                      IF i = 0 THEN <<>>
                      ELSE IF s[i] \in S THEN Append(k[i - 1], s[i]) ELSE k[i - 1]]
<1>1. PICK f \in Kept(s, S, Len(s)) : TRUE
  BY KeptExists
<1>2. /\ f = [i \in 0..Len(s) |-> f[i]] /\ f[0] = <<>>
      /\ \A i \in 1..Len(s) : f[i] = IF s[i] \in S THEN Append(f[i - 1], s[i]) ELSE f[i - 1]
  BY <1>1 DEF Kept
<1>3. f = [i \in 0..Len(s) |->
             IF i = 0 THEN <<>> ELSE IF s[i] \in S THEN Append(f[i - 1], s[i]) ELSE f[i - 1]]
  <2>1. \A i \in 0..Len(s) :
          f[i] = IF i = 0 THEN <<>> ELSE IF s[i] \in S THEN Append(f[i - 1], s[i]) ELSE f[i - 1]
    BY <1>2
  <2>. QED  BY <1>2, <2>1
<1>4. kept = [i \in 0..Len(s) |->
             IF i = 0 THEN <<>>
             ELSE IF s[i] \in S THEN Append(kept[i - 1], s[i]) ELSE kept[i - 1]]
  BY <1>3
<1>5. Filter(s, S) = kept[Len(s)]
  BY DEF Filter
<1>. HIDE DEF kept
<1>. DEFINE P == {n \in Nat : n \in 0..Len(s) => kept[n] = f[n]}
<1>6. 0 \in P
  BY <1>2, <1>4
<1>7. ASSUME NEW n \in Nat, n \in P  PROVE n + 1 \in P
  <2>. SUFFICES ASSUME n + 1 \in 0..Len(s)  PROVE kept[n + 1] = f[n + 1]
    OBVIOUS
  <2>1. kept[n] = f[n] /\ n + 1 \in 1..Len(s) /\ n + 1 # 0 /\ (n + 1) - 1 = n
    BY <1>7
  <2>2. kept[n + 1] = IF s[n + 1] \in S THEN Append(kept[n], s[n + 1]) ELSE kept[n]
    BY <1>4, <2>1
  <2>3. f[n + 1] = IF s[n + 1] \in S THEN Append(f[n], s[n + 1]) ELSE f[n]
    BY <1>2, <2>1
  <2>. QED  BY <2>1, <2>2, <2>3
<1>. HIDE DEF P
<1>8. Nat \subseteq P
  BY <1>6, <1>7, Counting
<1>9. kept[Len(s)] = f[Len(s)]
  BY <1>8 DEF P
<1>. QED  BY <1>1, <1>5, <1>9

LEMMA Appended ==
  ASSUME NEW T, NEW s \in Seq(T), NEW x \in T
  PROVE  /\ Append(s, x) \in Seq(T)
         /\ ToSet(Append(s, x)) = ToSet(s) \cup {x}
         /\ IsInjective(s) /\ x \notin ToSet(s) => IsInjective(Append(s, x))
<1>1. /\ Append(s, x) \in Seq(T) /\ DOMAIN Append(s, x) = 1..Len(s) + 1 /\ DOMAIN s = 1..Len(s)
      /\ Append(s, x)[Len(s) + 1] = x /\ \A i \in 1..Len(s) : Append(s, x)[i] = s[i]
      /\ Len(s) \in Nat
  OBVIOUS
<1>2. ToSet(Append(s, x)) = ToSet(s) \cup {x}
  BY <1>1 DEF ToSet
<1>3. ASSUME IsInjective(s), x \notin ToSet(s)  PROVE IsInjective(Append(s, x))
  <2>1. \A i \in 1..Len(s) : s[i] # x
    BY <1>1, <1>3 DEF ToSet
  <2>. QED  BY <1>1, <1>3, <2>1 DEF IsInjective
<1>. QED  BY <1>1, <1>2, <1>3

LEMMA Joined ==
  ASSUME NEW T, NEW s \in Seq(T), NEW t \in Seq(T)
  PROVE  /\ s \o t \in Seq(T) /\ ToSet(s \o t) = ToSet(s) \cup ToSet(t)
         /\ IsInjective(s) /\ IsInjective(t) /\ ToSet(s) \cap ToSet(t) = {} => IsInjective(s \o t)
<1>1. /\ s \o t \in Seq(T) /\ DOMAIN (s \o t) = 1..Len(s) + Len(t)
      /\ DOMAIN s = 1..Len(s) /\ DOMAIN t = 1..Len(t) /\ Len(s) \in Nat /\ Len(t) \in Nat
      /\ \A i \in 1..Len(s) + Len(t) : (s \o t)[i] = IF i <= Len(s) THEN s[i] ELSE t[i - Len(s)]
  OBVIOUS
<1>2. \A i \in 1..Len(t) : (s \o t)[Len(s) + i] = t[i]
  BY <1>1
<1>3. ToSet(s \o t) = ToSet(s) \cup ToSet(t)
  <2>1. ASSUME NEW i \in 1..Len(s) + Len(t)  PROVE (s \o t)[i] \in ToSet(s) \cup ToSet(t)
    BY <1>1 DEF ToSet
  <2>2. \A i \in 1..Len(s) : s[i] \in ToSet(s \o t)
    BY <1>1 DEF ToSet
  <2>3. \A i \in 1..Len(t) : t[i] \in ToSet(s \o t)
    <3>. TAKE i \in 1..Len(t)
    <3>1. Len(s) + i \in 1..Len(s) + Len(t)
      BY <1>1
    <3>. QED  BY <1>1, <1>2, <3>1 DEF ToSet
  <2>. QED  BY <1>1, <2>1, <2>2, <2>3 DEF ToSet
<1>4. ASSUME IsInjective(s), IsInjective(t), ToSet(s) \cap ToSet(t) = {}
      PROVE  IsInjective(s \o t)
  <2>. SUFFICES ASSUME NEW i \in 1..Len(s) + Len(t), NEW j \in 1..Len(s) + Len(t),
                       (s \o t)[i] = (s \o t)[j]
                PROVE  i = j
    BY <1>1 DEF IsInjective
  <2>1. \A k \in 1..Len(s), l \in 1..Len(t) : s[k] # t[l]
    BY <1>1, <1>4 DEF ToSet
  <2>2. CASE i <= Len(s) /\ j <= Len(s)
    BY <1>1, <1>4, <2>2 DEF IsInjective
  <2>3. CASE i > Len(s) /\ j > Len(s)
    <3>1. i - Len(s) \in 1..Len(t) /\ j - Len(s) \in 1..Len(t)
      BY <1>1, <2>3
    <3>2. t[i - Len(s)] = t[j - Len(s)]
      BY <1>1, <2>3
    <3>3. i - Len(s) = j - Len(s)
      BY <1>1, <1>4, <3>1, <3>2 DEF IsInjective
    <3>. QED  BY <1>1, <3>3
  <2>4. CASE i <= Len(s) /\ j > Len(s)
    <3>1. i \in 1..Len(s) /\ j - Len(s) \in 1..Len(t)
      BY <1>1, <2>4
    <3>. QED  BY <1>1, <2>1, <2>4, <3>1
  <2>5. CASE i > Len(s) /\ j <= Len(s)
    <3>1. j \in 1..Len(s) /\ i - Len(s) \in 1..Len(t)
      BY <1>1, <2>5
    <3>. QED  BY <1>1, <2>1, <2>5, <3>1
  <2>. QED  BY <1>1, <2>2, <2>3, <2>4, <2>5
<1>. QED  BY <1>1, <1>3, <1>4

\* filter keeps the elements of S, and repeats none.
LEMMA Filtered ==
  ASSUME NEW T, NEW s \in Seq(T), NEW S
  PROVE  /\ Filter(s, S) \in Seq(T)
         /\ ToSet(Filter(s, S)) = ToSet(s) \cap S
         /\ IsInjective(s) => IsInjective(Filter(s, S))
<1>1. PICK f \in Kept(s, S, Len(s)) : Filter(s, S) = f[Len(s)]
  BY FilterKept
<1>2. /\ f \in [0..Len(s) -> Seq(ToSet(s))] /\ f[0] = <<>>
      /\ \A i \in 1..Len(s) : f[i] = IF s[i] \in S THEN Append(f[i - 1], s[i]) ELSE f[i - 1]
  BY <1>1 DEF Kept
<1>. DEFINE First(n) == {s[j] : j \in 1..n}
            P == {n \in Nat : n \in 0..Len(s) =>
                    /\ ToSet(f[n]) = First(n) \cap S
                    /\ IsInjective(s) => IsInjective(f[n])}
<1>3. 0 \in P
  BY <1>2 DEF ToSet, IsInjective
<1>4. ASSUME NEW n \in Nat, n \in P  PROVE n + 1 \in P
  <2>. SUFFICES ASSUME n + 1 \in 0..Len(s)
                PROVE  /\ ToSet(f[n + 1]) = First(n + 1) \cap S
                       /\ IsInjective(s) => IsInjective(f[n + 1])
    OBVIOUS
  <2>1. /\ n \in 0..Len(s) /\ n + 1 \in 1..Len(s) /\ (n + 1) - 1 = n /\ n + 1 \in DOMAIN s
    OBVIOUS
  <2>7. s[n + 1] \in ToSet(s) /\ f[n] \in Seq(ToSet(s))
    BY <1>2, <2>1 DEF ToSet
  <2>8. f[n + 1] = IF s[n + 1] \in S THEN Append(f[n], s[n + 1]) ELSE f[n]
    BY <1>2, <2>1
  <2>2. ToSet(f[n]) = First(n) \cap S /\ (IsInjective(s) => IsInjective(f[n]))
    BY <1>4, <2>1
  <2>3. First(n + 1) = First(n) \cup {s[n + 1]}
    <3>1. 1..n + 1 = 1..n \cup {n + 1}
      OBVIOUS
    <3>. QED  BY <3>1
  <2>4. IsInjective(s) => s[n + 1] \notin First(n)
    <3>1. \A j \in 1..n : j \in DOMAIN s /\ j # n + 1
      BY <2>1
    <3>. QED  BY <2>1, <3>1 DEF IsInjective
  <2>. HIDE DEF First, P
  <2>5. CASE s[n + 1] \in S
    BY <2>7, <2>8, <2>2, <2>3, <2>4, <2>5, Appended
  <2>6. CASE s[n + 1] \notin S
    BY <2>8, <2>2, <2>3, <2>6
  <2>. QED  BY <2>5, <2>6
<1>. HIDE DEF P
<1>5. Nat \subseteq P
  BY <1>3, <1>4, Counting
<1>6. ToSet(f[Len(s)]) = First(Len(s)) \cap S /\ (IsInjective(s) => IsInjective(f[Len(s)]))
  <2>1. Len(s) \in Nat /\ Len(s) \in 0..Len(s)
    OBVIOUS
  <2>. QED  BY <1>5, <2>1 DEF P
<1>7. First(Len(s)) = ToSet(s)
  BY DEF ToSet
<1>8. f[Len(s)] \in Seq(T)
  <2>1. ToSet(s) \subseteq T
    BY DEF ToSet
  <2>2. f[Len(s)] \in Seq(ToSet(s))
    BY <1>2
  <2>. QED  BY <2>1, <2>2
<1>. QED  BY <1>1, <1>6, <1>7, <1>8

-----------------------------------------------------------------------------
(***************************************************************************)
(* The mean of the scores: sums are bounded by induction on the number of  *)
(* scores, and rounding keeps a bound that is whole.                       *)
(***************************************************************************)
LEMMA Division ==
  ASSUME NEW a \in Int, NEW b \in Nat \ {0}
  PROVE  a \div b \in Int /\ a < b * (a \div b) + b
OBVIOUS

\* The rounded mean of scores that reach the half reaches it, too.
LEMMA RoundedMean ==
  ASSUME NEW n \in Nat \ {0}, NEW sum \in Int, sum >= 50 * n
  PROVE  (2 * sum + n) \div (2 * n) >= 50
<1>. DEFINE q == (2 * sum + n) \div (2 * n)
<1>1. 2 * n \in Nat \ {0} /\ 2 * sum + n \in Int
  OBVIOUS
<1>2. q \in Int /\ 2 * sum + n < (2 * n) * q + 2 * n
  BY <1>1, Division
<1>. HIDE DEF q
<1>3. ASSUME q <= 49  PROVE FALSE
  <2>1. n * q <= n * 49
    BY <1>2, <1>3
  <2>2. (2 * n) * q = 2 * (n * q) /\ n * q \in Int
    BY <1>2
  <2>. QED  BY <1>2, <2>1, <2>2
<1>. QED  BY <1>2, <1>3 DEF q

\* The sums of the first scores, each at least "least"
Sums(score, n) ==
  {f \in [0..n -> Int] : f[0] = 0 /\ \A i \in 1..n : f[i] = f[i - 1] + score[i]}

LEMMA SumsExist ==
  ASSUME NEW n \in Nat, NEW score \in [1..n -> Int]
  PROVE  \A k \in 0..n : Sums(score, k) # {}
<1>. DEFINE P == {k \in Nat : k \in 0..n => Sums(score, k) # {}}
<1>1. 0 \in P
  <2>1. [i \in 0..0 |-> 0] \in Sums(score, 0)
    BY DEF Sums
  <2>. QED  BY <2>1
<1>2. ASSUME NEW k \in Nat, k \in P  PROVE k + 1 \in P
  <2>. SUFFICES ASSUME k + 1 \in 0..n  PROVE Sums(score, k + 1) # {}
    OBVIOUS
  <2>1. PICK f : f \in Sums(score, k)
    BY <1>2
  <2>2. /\ f \in [0..k -> Int] /\ f[0] = 0
        /\ \A i \in 1..k : f[i] = f[i - 1] + score[i]
        /\ score[k + 1] \in Int
    BY <2>1 DEF Sums
  <2>. DEFINE g == [i \in 0..k + 1 |-> IF i = k + 1 THEN f[k] + score[k + 1] ELSE f[i]]
  <2>3. g \in [0..k + 1 -> Int] /\ g[0] = 0
    BY <2>2
  <2>4. ASSUME NEW i \in 1..k + 1  PROVE g[i] = g[i - 1] + score[i]
    <3>1. i \in 0..k + 1 /\ i - 1 \in 0..k + 1 /\ i - 1 # k + 1
      OBVIOUS
    <3>2. g[i - 1] = f[i - 1]
      BY <3>1
    <3>3. CASE i = k + 1
      BY <3>1, <3>2, <3>3
    <3>4. CASE i # k + 1
      <4>1. i \in 1..k /\ g[i] = f[i]
        BY <3>1, <3>4
      <4>. QED  BY <2>2, <3>2, <4>1
    <3>. QED  BY <3>3, <3>4
  <2>. HIDE DEF g
  <2>. QED  BY <2>3, <2>4 DEF Sums
<1>. HIDE DEF P
<1>3. Nat \subseteq P
  BY <1>1, <1>2, Counting
<1>. QED  BY <1>3 DEF P

LEMMA TotalIsSum ==
  ASSUME NEW n \in Nat, NEW score \in [1..n -> Int]
  PROVE  \E f \in Sums(score, n) : Total(score, n) = f[n]
<1>. DEFINE Recursive(f) ==
       f = [i \in 0..n |-> IF i = 0 THEN 0 ELSE f[i - 1] + score[i]]
<1>1. Total(score, n) = (CHOOSE f : Recursive(f))[n]
  BY DEF Total
<1>2. PICK f : f \in Sums(score, n)
  BY SumsExist
<1>3. Recursive(f)
  BY <1>2 DEF Sums
<1>4. Recursive(CHOOSE g : Recursive(g))
  BY <1>3
<1>5. PICK g : g = (CHOOSE h : Recursive(h))
  OBVIOUS
<1>6. g = [i \in 0..n |-> IF i = 0 THEN 0 ELSE g[i - 1] + score[i]]
  BY <1>4, <1>5
<1>. HIDE DEF Recursive
<1>. DEFINE P == {k \in Nat : k \in 0..n => g[k] = f[k]}
<1>7. 0 \in P
  BY <1>2, <1>6 DEF Sums
<1>8. ASSUME NEW k \in Nat, k \in P  PROVE k + 1 \in P
  BY <1>2, <1>6, <1>8 DEF Sums
<1>. HIDE DEF P
<1>9. n \in P
  BY <1>7, <1>8, Counting
<1>10. g[n] = f[n]
  BY <1>9 DEF P
<1>11. Total(score, n) = g[n]
  BY <1>1, <1>5
<1>. QED  BY <1>2, <1>10, <1>11

LEMMA TotalAtLeast ==
  ASSUME NEW n \in Nat, NEW score \in [1..n -> Int], NEW least \in Int,
         \A i \in 1..n : score[i] >= least
  PROVE  Total(score, n) \in Int /\ Total(score, n) >= least * n
<1>. PICK f \in Sums(score, n) : Total(score, n) = f[n]
  BY TotalIsSum
<1>1. /\ f \in [0..n -> Int] /\ f[0] = 0
      /\ \A i \in 1..n : f[i] = f[i - 1] + score[i]
  BY DEF Sums
<1>. DEFINE P == {k \in Nat : k \in 0..n => f[k] >= least * k}
<1>2. 0 \in P
  BY <1>1
<1>3. ASSUME NEW k \in Nat, k \in P  PROVE k + 1 \in P
  <2>. SUFFICES ASSUME k + 1 \in 0..n  PROVE f[k + 1] >= least * (k + 1)
    OBVIOUS
  <2>1. f[k + 1] = f[k] + score[k + 1] /\ f[k] \in Int /\ score[k + 1] \in Int
    BY <1>1
  <2>2. f[k] >= least * k /\ score[k + 1] >= least
    BY <1>3
  <2>3. least * (k + 1) = least * k + least /\ least * k \in Int
    OBVIOUS
  <2>. QED  BY <2>1, <2>2, <2>3
<1>. HIDE DEF P
<1>4. n \in P
  BY <1>2, <1>3, Counting
<1>. QED  BY <1>1, <1>4 DEF P

LEMMA PercentTyped ==
  ASSUME NEW paper \in Papers, NEW sheet, NEW d
  PROVE  DomainPercent(paper, sheet, d) \in Int
<1>1. IsFiniteSet(Domain(paper, d)) /\ IsFiniteSet(Right(paper, sheet) \cap Domain(paper, d))
  BY ExamAssumption, FS_Subset DEF Domain
<1>2. /\ Cardinality(Domain(paper, d)) \in Nat
      /\ Cardinality(Right(paper, sheet) \cap Domain(paper, d)) \in Nat
  BY <1>1, FS_CardinalityType
<1>. PICK part, whole : /\ part = Cardinality(Right(paper, sheet) \cap Domain(paper, d))
                       /\ whole = Cardinality(Domain(paper, d))
  OBVIOUS
<1>3. part \in Nat /\ whole \in Nat /\ DomainPercent(paper, sheet, d) = Percent(part, whole)
  BY <1>2 DEF DomainPercent
<1>4. CASE whole = 0
  BY <1>3, <1>4 DEF Percent
<1>5. CASE whole # 0
  <2>1. 2 * whole \in Nat \ {0} /\ 200 * part + whole \in Int
    BY <1>3, <1>5
  <2>2. (200 * part + whole) \div (2 * whole) \in Int
    BY <2>1, Division
  <2>. QED  BY <1>3, <1>5, <2>2 DEF Percent
<1>. QED  BY <1>4, <1>5

-----------------------------------------------------------------------------
(***************************************************************************)
(* The roadmap: what a request is about to write to it keeps its modules,  *)
(* and covers what the attempt it grades was weak in.                      *)
(***************************************************************************)
LEMMA WeakDomains ==
  ASSUME NEW paper \in Papers, NEW sheet, NEW threshold, NEW onRoadmap, NEW grade,
         grade = ReadinessGradeOf(paper, sheet, threshold, onRoadmap)
  PROVE  /\ grade.weak \in Seq(ToSet(EXAM_DOMAINS)) /\ IsInjective(grade.weak)
         /\ grade.onRoadmap = onRoadmap
         /\ grade.average < 50 => grade.weak # <<>>
<1>. DEFINE percent(d) == DomainPercent(paper, sheet, d)
            n == Len(EXAM_DOMAINS)
            score == [i \in 1..n |-> percent(EXAM_DOMAINS[i])]
            low == {d \in ToSet(EXAM_DOMAINS) : percent(d) < 50}
<1>1. /\ grade.weak = Filter(EXAM_DOMAINS, low) /\ grade.onRoadmap = onRoadmap
      /\ low \subseteq ToSet(EXAM_DOMAINS)
      /\ grade.average = IF n = 0 THEN 0 ELSE (2 * Total(score, n) + n) \div (2 * n)
  BY DEF ReadinessGradeOf
<1>2. n \in Nat \ {0} /\ EXAM_DOMAINS \in Seq(ToSet(EXAM_DOMAINS)) /\ IsInjective(EXAM_DOMAINS)
  BY ReadinessAssumption
<1>3. /\ grade.weak \in Seq(ToSet(EXAM_DOMAINS)) /\ IsInjective(grade.weak)
      /\ ToSet(grade.weak) = low
  <2>1. PICK D, L : D = EXAM_DOMAINS /\ L = low
    OBVIOUS
  <2>2. D \in Seq(ToSet(D)) /\ IsInjective(D) /\ L \subseteq ToSet(D) /\ grade.weak = Filter(D, L)
    BY <1>1, <1>2, <2>1
  <2>3. /\ Filter(D, L) \in Seq(ToSet(D)) /\ IsInjective(Filter(D, L))
        /\ ToSet(Filter(D, L)) = ToSet(D) \cap L
    BY <2>2, Filtered
  <2>. QED  BY <2>1, <2>2, <2>3
<1>4. ASSUME grade.weak = <<>>  PROVE grade.average \in Int /\ grade.average >= 50
  <2>1. low = {}
    BY <1>3, <1>4 DEF ToSet
  <2>2. score \in [1..n -> Int] /\ \A i \in 1..n : score[i] >= 50
    <3>. SUFFICES ASSUME NEW i \in 1..n
                  PROVE  percent(EXAM_DOMAINS[i]) \in Int /\ percent(EXAM_DOMAINS[i]) >= 50
      OBVIOUS
    <3>1. EXAM_DOMAINS[i] \in ToSet(EXAM_DOMAINS)
      BY <1>2 DEF ToSet
    <3>2. percent(EXAM_DOMAINS[i]) \in Int
      BY PercentTyped
    <3>3. ~(percent(EXAM_DOMAINS[i]) < 50)
      BY <2>1, <3>1
    <3>. HIDE DEF percent
    <3>. QED  BY <3>2, <3>3
  <2>. HIDE DEF score, n
  <2>3. Total(score, n) \in Int /\ Total(score, n) >= 50 * n
    BY <1>2, <2>2, TotalAtLeast
  <2>. PICK sum : sum = Total(score, n)
    OBVIOUS
  <2>4. /\ sum \in Int /\ sum >= 50 * n /\ n \in Nat \ {0}
        /\ grade.average = (2 * sum + n) \div (2 * n)
    BY <1>1, <1>2, <2>3
  <2>5. 2 * n \in Nat \ {0} /\ 2 * sum + n \in Int
    BY <2>4
  <2>. QED  BY <2>4, <2>5, RoundedMean, Division
<1>. QED  BY <1>1, <1>3, <1>4

LEMMA RebuiltKeeps ==
  ASSUME NEW map \in Roadmaps, KeepsModules(map), NEW grade,
         grade.weak \in Seq(ToSet(EXAM_DOMAINS)), IsInjective(grade.weak),
         grade.average < 50 => grade.weak # <<>>
  PROVE  /\ Rebuilt(map, grade) \in Roadmaps /\ KeepsModules(Rebuilt(map, grade))
         /\ ToSet(map.modules) \subseteq ToSet(Rebuilt(map, grade).modules)
         /\ ~grade.passed => Refreshed(grade, Rebuilt(map, grade))
<1>. DEFINE Topics == ToSet(EXAM_DOMAINS) \cup ToSet(Modules)
            others == Filter(map.modules, ToSet(map.modules) \ ToSet(grade.weak))
<1>1. map.modules \in Seq(Topics) /\ map.level \in Levels \cup {"confidentBeginner"}
      /\ map = [modules |-> map.modules, level |-> map.level]
  BY DEF Roadmaps
<1>2. CASE grade.passed
  <2>. DEFINE level == IF grade.average >= 85 /\ map.level = "absoluteBeginner"
                       THEN "confidentBeginner" ELSE map.level
  <2>1. Rebuilt(map, grade) = [modules |-> map.modules, level |-> level]
    <3>1. Rebuilt(map, grade) = [map EXCEPT !.level = level]
      BY <1>2 DEF Rebuilt
    <3>. QED  BY <1>1, <3>1
  <2>2. level \in Levels \cup {"confidentBeginner"}
    BY <1>1
  <2>. QED  BY <1>1, <1>2, <2>1, <2>2 DEF Roadmaps, KeepsModules
<1>3. CASE ~grade.passed
  <2>1. /\ others \in Seq(Topics)
        /\ ToSet(others) = ToSet(map.modules) \ ToSet(grade.weak)
        /\ IsInjective(map.modules) => IsInjective(others)
    BY <1>1, Filtered
  <2>2. grade.weak \in Seq(Topics)
    OBVIOUS
  <2>3. Rebuilt(map, grade) = [modules |-> grade.weak \o others, level |-> map.level]
    <3>1. Rebuilt(map, grade) =
            [map EXCEPT !.modules = grade.weak \o others]
      BY <1>3 DEF Rebuilt
    <3>. HIDE DEF others
    <3>. QED  BY <1>1, <3>1
  <2>. HIDE DEF others, Topics
  <2>4. /\ grade.weak \o others \in Seq(Topics)
        /\ ToSet(grade.weak \o others) = ToSet(grade.weak) \cup ToSet(map.modules)
        /\ IsInjective(map.modules) => IsInjective(grade.weak \o others)
    <3>1. /\ grade.weak \o others \in Seq(Topics)
          /\ ToSet(grade.weak \o others) = ToSet(grade.weak) \cup ToSet(others)
      BY <2>1, <2>2, Joined
    <3>2. ToSet(grade.weak) \cap ToSet(others) = {}
      BY <2>1
    <3>3. ASSUME IsInjective(others)  PROVE IsInjective(grade.weak \o others)
      BY <2>1, <2>2, <3>2, <3>3, Joined
    <3>. QED  BY <2>1, <3>1, <3>3
  <2>5. Rebuilt(map, grade) \in Roadmaps
    BY <1>1, <2>3, <2>4 DEF Roadmaps, Topics
  <2>6. /\ ToSet(grade.weak) \subseteq ToSet(EXAM_DOMAINS)
        /\ grade.weak # <<>> => ToSet(grade.weak) # {}
    <3>1. grade.weak # <<>> => 1 \in DOMAIN grade.weak
      OBVIOUS
    <3>2. ToSet(grade.weak) \subseteq ToSet(EXAM_DOMAINS)
      <4>. PICK T : T = ToSet(EXAM_DOMAINS)
        OBVIOUS
      <4>. QED  BY DEF ToSet
    <3>3. grade.weak # <<>> => grade.weak[1] \in ToSet(grade.weak)
      BY <3>1 DEF ToSet
    <3>. QED  BY <3>2, <3>3
  <2>. QED  BY <1>3, <2>3, <2>4, <2>5, <2>6 DEF KeepsModules, Refreshed
<1>. QED  BY <1>2, <1>3

\* While nothing was expired under its grader, one request grades.
LEMMA OneOutcome ==
  ASSUME Inv, RoadmapInv, service = "readiness", overtaken = {},
         NEW r \in Requests, NEW s \in Requests, req[r].pc \in Grading, req[s].pc \in Grading
  PROVE  r = s
<1>1. ASSUME NEW q \in Requests, req[q].pc \in Grading
      PROVE  req[q].a \in ActiveAttempts
  <2>1. req[q].a \in Attempts /\ Gradable(req[q].a)
    BY <1>1 DEF Inv, RequestOK, GraderOK
  <2>2. attempts[req[q].a].status = "PROCESSING"
    BY <2>1 DEF Gradable, RoadmapInv
  <2>. QED  BY <2>1, <2>2 DEF ActiveAttempts, Active
<1>. QED  BY <1>1 DEF Inv, OneActive, OneGrader

\* Only the grading of an attempt makes it graded, and nothing deletes it.
LEMMA ReadinessRows ==
  ASSUME Inv, NEW r \in Requests, ReadinessRequest(r), NEW a \in Attempts,
         attempts[a].status # "deleted"
  PROVE  /\ attempts'[a].status # "deleted"
         /\ attempts'[a].status = "SUBMITTED" =>
              \/ attempts[a].status = "SUBMITTED" /\ attempts'[a].grade = attempts[a].grade
              \/ At(r, "gradeExam") /\ attempts'[a].grade = req[r].read.grade
<1>0. attempts \in [Attempts -> Rows] /\ attempts[a] \in Rows
  BY DEF Inv, TypeOK
<1>1. ASSUME NEW b, NEW status, SetStatus(b, status), status \notin {"deleted", "SUBMITTED"}
      PROVE  /\ attempts'[a].status # "deleted"
             /\ attempts'[a].status = "SUBMITTED" =>
                  attempts[a].status = "SUBMITTED" /\ attempts'[a].grade = attempts[a].grade
  <2>1. attempts'[a] = IF a = b THEN [attempts[a] EXCEPT !.status = status] ELSE attempts[a]
    BY <1>0, <1>1 DEF SetStatus
  <2>. QED  BY <1>0, <1>1, <2>1 DEF Rows
<1>2. CASE ExpireExam(r)
  BY <1>1, <1>2 DEF ExpireExam, Expire
<1>3. CASE ClaimExam(r)
  BY <1>1, <1>3 DEF ClaimExam, Claim
<1>4. CASE CreateExam(r)
  <2>1. ASSUME NEW b, attempts' = [attempts EXCEPT ![b] = NewRow(bank)]
        PROVE  attempts'[a] = IF a = b THEN NewRow(bank) ELSE attempts[a]
    BY <1>0, <2>1
  <2>2. NewRow(bank).status = "IN_PROGRESS"
    BY DEF NewRow, NoRow
  <2>. QED  BY <1>4, <2>1, <2>2 DEF CreateExam, Create
<1>5. CASE SaveExam(r)
  <2>. PICK b, sheet : b = req[r].a /\ attempts' = [attempts EXCEPT ![b].answers = sheet]
    BY <1>5 DEF SaveExam
  <2>1. attempts'[a] = IF a = b THEN [attempts[a] EXCEPT !.answers = sheet] ELSE attempts[a]
    BY <1>0
  <2>. QED  BY <1>0, <2>1 DEF Rows
<1>6. CASE GradeExam(r)
  <2>. PICK b, sheet, grade :
         /\ grade = req[r].read.grade
         /\ attempts' = [attempts EXCEPT ![b].status = "SUBMITTED", ![b].answers = sheet,
                           ![b].grade = grade]
    BY <1>6 DEF GradeExam
  <2>1. attempts'[a] = IF a = b THEN [attempts[a] EXCEPT !.status = "SUBMITTED",
                                        !.answers = sheet, !.grade = grade]
                       ELSE attempts[a]
    BY <1>0
  <2>2. At(r, "gradeExam")
    BY <1>6 DEF GradeExam
  <2>. QED  BY <1>0, <2>1, <2>2 DEF Rows
<1>7. CASE UNCHANGED attempts
  BY <1>7
<1>. QED
  BY <1>2, <1>3, <1>4, <1>5, <1>6, <1>7
  DEF ReadinessRequest, StartExam, GetExamAttempt, RequestSaveExam, RequestSubmitExam,
      BuildOutcome, UpdateRoadmap, Read

\* A request that goes on to nothing of the roadmap leaves it as it is.
LEMMA RoadmapStays ==
  ASSUME RoadmapInv, UNCHANGED <<roadmap, service>>, overtaken' = {} => overtaken = {},
         \A s \in Requests :
           req'[s].pc \in {"updateRoadmap", "gradeExam"} => req'[s] = req[s],
         service = "readiness" =>
           \A a \in Attempts :
             /\ attempts'[a].status # "deleted"
             /\ attempts'[a].status = "SUBMITTED" /\ overtaken' = {} =>
                  \/ attempts[a].status = "SUBMITTED" /\ attempts'[a].grade = attempts[a].grade
                  \/ Covered(attempts'[a].grade)
  PROVE  RoadmapInv'
<1>. SUFFICES ASSUME service = "readiness"  PROVE RoadmapInv'
  BY DEF RoadmapInv
<1>1. \A read : OutcomeOK(read) => OutcomeOK(read)'
  BY DEF OutcomeOK, KeepsModules, Refreshed
<1>2. \A grade : Covered(grade) => Covered(grade)'
  BY DEF Covered, Refreshed
<1>3. \A r \in Requests : At(r, "updateRoadmap")' => OutcomeOK(req[r].read)'
  BY <1>1 DEF RoadmapInv, At
<1>4. ASSUME overtaken' = {}
      PROVE  /\ \A a \in Submitted' : Covered(attempts[a].grade)'
             /\ \A r \in Requests : At(r, "gradeExam")' => Covered(req[r].read.grade)'
  BY <1>2, <1>4 DEF RoadmapInv, Submitted, At, Covered, Refreshed
<1>. QED  BY <1>3, <1>4 DEF RoadmapInv, KeepsModules

LEMMA RoadmapStart == Init => RoadmapInv
<1>. SUFFICES ASSUME Init  PROVE  RoadmapInv
  OBVIOUS
<1>1. /\ attempts = [a \in Attempts |-> NoRow] /\ req = [r \in Requests |-> Idle]
      /\ roadmap = None
  BY DEF Init, InitState, ReadinessInit
<1>. QED  BY <1>1 DEF RoadmapInv, NoRow, Idle, At, Submitted

\* The outcome is built from the roadmap as it is: it covers the attempt.
LEMMA OutcomeBuilt ==
  ASSUME Inv, RoadmapInv, service = "readiness", NEW r \in Requests, BuildOutcome(r),
         UNCHANGED service
  PROVE  RoadmapInv'
<1>. PICK sheet, grade, rebuilt, read, step :
       /\ sheet = Merge(req[r].seen.answers, req[r].input)
       /\ grade = ReadinessGradeOf(req[r].seen.paper, sheet, passThreshold, roadmap # None)
       /\ rebuilt = IF roadmap = None THEN None ELSE Rebuilt(roadmap, grade)
       /\ read = [grade |-> grade, roadmap |-> rebuilt]
       /\ step = IF roadmap = None \/ rebuilt.modules = <<>>
                      THEN "gradeExam" ELSE "updateRoadmap"
  OBVIOUS
<1>1. /\ req' = [req EXCEPT ![r].pc = step, ![r].read = read, ![r].input = sheet]
      /\ UNCHANGED <<attempts, overtaken, roadmap>>
  BY DEF BuildOutcome, readinessVars
<1>2. /\ req'[r] = [req[r] EXCEPT !.pc = step, !.read = read, !.input = sheet]
      /\ \A s \in Requests : s # r => req'[s] = req[s]
  BY <1>1 DEF Inv, TypeOK
<1>3. req[r] = [pc |-> req[r].pc, a |-> req[r].a, seen |-> req[r].seen,
                read |-> req[r].read, input |-> req[r].input]
  BY DEF Inv, RequestOK
<1>4. req'[r].pc = step /\ req'[r].read = read
  BY <1>2, <1>3
<1>5. /\ grade.weak \in Seq(ToSet(EXAM_DOMAINS)) /\ IsInjective(grade.weak)
      /\ grade.onRoadmap = (roadmap # None)
      /\ grade.average < 50 => grade.weak # <<>>
  <2>1. req[r].seen.paper \in Papers
    BY DEF BuildOutcome, At, Inv, RequestOK, RowOK, Rows, Grading
  <2>. QED  BY <2>1, WeakDomains
<1>6. ASSUME roadmap # None
      PROVE  /\ rebuilt \in Roadmaps /\ KeepsModules(rebuilt)
             /\ ToSet(roadmap.modules) \subseteq ToSet(rebuilt.modules)
             /\ ~grade.passed => Refreshed(grade, rebuilt)
  BY <1>5, <1>6, RebuiltKeeps DEF RoadmapInv
<1>7. roadmap # None => OutcomeOK(read)
  BY <1>6 DEF OutcomeOK
<1>11. step = "gradeExam" => Covered(read.grade)
  <2>1. CASE roadmap = None
    BY <1>5, <2>1 DEF Covered
  <2>2. CASE roadmap # None /\ rebuilt.modules = <<>>
    <3>1. ToSet(rebuilt.modules) = {}
      BY <2>2 DEF ToSet
    <3>. QED  BY <1>6, <2>2, <3>1 DEF Covered, Refreshed
  <2>. QED  BY <2>1, <2>2
<1>8. /\ \A old : OutcomeOK(old) => OutcomeOK(old)'
      /\ \A old : Covered(old) => Covered(old)'
  BY <1>1 DEF OutcomeOK, KeepsModules, Covered, Refreshed
<1>9. \A s \in Requests : At(s, "updateRoadmap")' => OutcomeOK(req[s].read)'
  <2>. SUFFICES ASSUME NEW s \in Requests, req'[s].pc = "updateRoadmap"
                PROVE  OutcomeOK(req'[s].read)
    BY <1>8 DEF At, OutcomeOK, KeepsModules, Refreshed
  <2>. QED  BY <1>2, <1>4, <1>7 DEF RoadmapInv, At
<1>10. ASSUME overtaken = {}, NEW s \in Requests, req'[s].pc = "gradeExam"
       PROVE  Covered(req'[s].read.grade)
  BY <1>2, <1>4, <1>10, <1>11 DEF RoadmapInv, At
<1>. QED  BY <1>1, <1>8, <1>9, <1>10 DEF RoadmapInv, KeepsModules, Submitted, At, Covered, Refreshed

\* What it writes to the roadmap loses nothing of it.
LEMMA RoadmapUpdated ==
  ASSUME Inv, RoadmapInv, service = "readiness", NEW r \in Requests, UpdateRoadmap(r),
         UNCHANGED service
  PROVE  RoadmapInv'
<1>1. /\ req' = [req EXCEPT ![r] = [req[r] EXCEPT !.pc = "gradeExam"]]
      /\ UNCHANGED <<attempts, overtaken>>
      /\ roadmap' = req[r].read.roadmap /\ req[r].pc = "updateRoadmap"
  BY DEF UpdateRoadmap, Goto, At
<1>2. /\ req'[r] = [req[r] EXCEPT !.pc = "gradeExam"]
      /\ \A s \in Requests : s # r => req'[s] = req[s]
  BY <1>1, SlotsStay
<1>3. req[r] = [pc |-> req[r].pc, a |-> req[r].a, seen |-> req[r].seen,
                read |-> req[r].read, input |-> req[r].input]
  BY DEF Inv, RequestOK
<1>4. req'[r].pc = "gradeExam" /\ req'[r].read = req[r].read
  BY <1>2, <1>3
<1>5. OutcomeOK(req[r].read)
  BY <1>1 DEF RoadmapInv, At
<1>6. roadmap' # None /\ roadmap' \in Roadmaps /\ KeepsModules(roadmap)'
  BY <1>1, <1>5, ReadinessAssumption DEF OutcomeOK, KeepsModules
<1>7. ASSUME overtaken = {}, NEW s \in Requests, req[s].pc \in {"updateRoadmap", "gradeExam"}
      PROVE  s = r
  BY <1>1, <1>7, OneOutcome DEF Grading
<1>8. \A s \in Requests : At(s, "updateRoadmap")' => OutcomeOK(req[s].read)'
  <2>. SUFFICES ASSUME NEW s \in Requests, req'[s].pc = "updateRoadmap"
                PROVE  OutcomeOK(req[s].read)'
    BY DEF At
  <2>1. s # r /\ req'[s] = req[s] /\ overtaken # {}
    BY <1>2, <1>4, <1>7
  <2>2. OutcomeOK(req[s].read)
    BY <2>1 DEF RoadmapInv, At
  <2>. QED  BY <1>1, <1>6, <2>1, <2>2 DEF OutcomeOK, KeepsModules, Refreshed
<1>9. ASSUME overtaken = {}, NEW grade, Covered(grade)
      PROVE  Covered(grade)'
  BY <1>1, <1>5, <1>6, <1>9 DEF Covered, Refreshed, OutcomeOK
<1>10. ASSUME overtaken = {}, NEW s \in Requests, req'[s].pc = "gradeExam"
       PROVE  Covered(req[s].read.grade)'
  <2>1. s = r
    BY <1>2, <1>7, <1>10
  <2>. QED  BY <1>1, <1>4, <1>5, <1>6, <1>10, <2>1 DEF Covered, Refreshed, OutcomeOK
<1>. QED  BY <1>1, <1>6, <1>8, <1>9, <1>10 DEF RoadmapInv, Submitted, At

LEMMA RoadmapRequest ==
  ASSUME Inv, RoadmapInv, service = "readiness", NEW r \in Requests, ReadinessRequest(r),
         UNCHANGED service
  PROVE  RoadmapInv'
<1>1. CASE BuildOutcome(r)
  BY <1>1, OutcomeBuilt
<1>2. CASE UpdateRoadmap(r)
  BY <1>2, RoadmapUpdated
<1>3. CASE ~BuildOutcome(r) /\ ~UpdateRoadmap(r)
  <2>1. UNCHANGED roadmap
    BY <1>3 DEF ReadinessRequest, StartExam, GetExamAttempt, ExpireExam, CreateExam,
                RequestSaveExam, SaveExam, RequestSubmitExam, ClaimExam, GradeExam, readinessVars
  <2>2. overtaken' = {} => overtaken = {}
    BY <1>3 DEF ReadinessRequest, StartExam, GetExamAttempt, ExpireExam, Expire, CreateExam,
                RequestSaveExam, SaveExam, RequestSubmitExam, ClaimExam, Claim, GradeExam, Read
  <2>3. req'[r].pc \notin {"updateRoadmap", "gradeExam"}
        /\ \A s \in Requests : s # r => req'[s] = req[s]
    <3>1. CASE \E new : /\ req' = [req EXCEPT ![r] = new]
                        /\ new.pc \notin {"updateRoadmap", "gradeExam"}
      BY <3>1, SlotsStay
    <3>2. CASE Finish(r)
      BY <3>2, SlotsStay DEF Idle
    <3>3. CASE Goto(r, "createExam") \/ Goto(r, "grade") \/ Goto(r, "expire")
      BY <3>3, SlotsStay
    <3>4. CASE \E step, a, read, input : /\ Read(r, step, a, read, input)
                                         /\ step \notin {"updateRoadmap", "gradeExam"}
      <4>. PICK step, a, read, input : Read(r, step, a, read, input)
                                       /\ step \notin {"updateRoadmap", "gradeExam"}
        BY <3>4
      <4>1. PICK new : /\ req' = [req EXCEPT ![r] = new]
                       /\ new = [pc |-> step, a |-> a, seen |-> attempts[a],
                                 read |-> read, input |-> input]
        BY DEF Read
      <4>2. new.pc \notin {"updateRoadmap", "gradeExam"}
        BY <4>1
      <4>. QED  BY <3>1, <4>1, <4>2
    <3>5. CASE ClaimExam(r)
      BY <3>2, <3>3, <3>5 DEF ClaimExam, Claim
    <3>6. CASE StartExam(r) \/ GetExamAttempt(r) \/ RequestSaveExam(r) \/ RequestSubmitExam(r)
      BY <3>3, <3>4, <3>6 DEF StartExam, GetExamAttempt, RequestSaveExam, RequestSubmitExam
    <3>7. CASE ExpireExam(r) \/ CreateExam(r) \/ SaveExam(r) \/ GradeExam(r)
      BY <3>2, <3>3, <3>7 DEF ExpireExam, CreateExam, SaveExam, GradeExam
    <3>8. CASE BuildOutcome(r) \/ UpdateRoadmap(r)
      BY <1>3, <3>8
    <3>. QED  BY <3>5, <3>6, <3>7, <3>8 DEF ReadinessRequest
  <2>4. ASSUME NEW a \in Attempts
        PROVE  /\ attempts'[a].status # "deleted"
               /\ attempts'[a].status = "SUBMITTED" /\ overtaken' = {} =>
                    \/ attempts[a].status = "SUBMITTED" /\ attempts'[a].grade = attempts[a].grade
                    \/ Covered(attempts'[a].grade)
    <3>1. attempts[a].status # "deleted"
      BY DEF RoadmapInv
    <3>2. overtaken = {} /\ At(r, "gradeExam") => Covered(req[r].read.grade)
      BY DEF RoadmapInv
    <3>. QED  BY <2>2, <3>1, <3>2, ReadinessRows
  <2>. QED  BY <2>1, <2>2, <2>3, <2>4, RoadmapStays
<1>. QED  BY <1>1, <1>2, <1>3

\* The track of the admin comes onto an empty roadmap.
LEMMA RoadmapCreated ==
  ASSUME RoadmapInv, service = "readiness", CreateRoadmap, UNCHANGED service
  PROVE  RoadmapInv'
<1>1. roadmap = None /\ UNCHANGED <<attempts, req, overtaken>>
  BY DEF CreateRoadmap
<1>2. PICK level \in Levels : roadmap' = [modules |-> Modules, level |-> level]
  BY DEF CreateRoadmap
<1>3. Modules \in Seq(ToSet(EXAM_DOMAINS) \cup ToSet(Modules))
  BY ReadinessAssumption
<1>4. roadmap' \in Roadmaps /\ KeepsModules(roadmap)'
  BY <1>2, <1>3 DEF Roadmaps, KeepsModules
<1>5. \A r \in Requests : ~At(r, "updateRoadmap")
  BY <1>1 DEF RoadmapInv, OutcomeOK
<1>6. \A grade : Covered(grade) => Covered(grade)'
  BY <1>1 DEF Covered
<1>. QED  BY <1>1, <1>4, <1>5, <1>6 DEF RoadmapInv, Submitted, At

LEMMA RoadmapStep == Inv /\ RoadmapInv /\ [Next]_vars => RoadmapInv'
<1>. SUFFICES ASSUME Inv, RoadmapInv, [Next]_vars  PROVE  RoadmapInv'
  OBVIOUS
<1>1. CASE Course
  BY <1>1 DEF Course, readinessVars, RoadmapInv
<1>2. CASE Readiness
  <2>1. CASE \E r \in Requests : ReadinessRequest(r)
    BY <1>2, <2>1, RoadmapRequest DEF Readiness
  <2>2. CASE SaveBank
    BY <1>2, <2>2, RoadmapStays DEF Readiness, SaveBank, RoadmapInv
  <2>3. CASE CreateRoadmap
    BY <1>2, <2>3, RoadmapCreated DEF Readiness
  <2>. QED  BY <1>2, <2>1, <2>2, <2>3 DEF Readiness, ReadinessNext
<1>3. CASE Environment
  <2>1. CASE Tick
    BY <1>3, <2>1, RoadmapStays DEF Environment, Tick, readinessVars, RoadmapInv
  <2>2. ASSUME NEW r \in Requests, Crash(r)
        PROVE  RoadmapInv'
    <3>1. /\ req'[r].pc = "idle" /\ UNCHANGED <<attempts, overtaken, roadmap, service>>
          /\ \A s \in Requests : s # r => req'[s] = req[s]
      BY <1>3, <2>2, SlotsStay DEF Environment, Crash, Idle, readinessVars
    <3>. QED  BY <3>1, RoadmapStays DEF RoadmapInv
  <2>. QED  BY <1>3, <2>1, <2>2 DEF Environment
<1>4. CASE UNCHANGED vars
  BY <1>4, RoadmapStays DEF vars, readinessVars, RoadmapInv
<1>. QED  BY <1>1, <1>2, <1>3, <1>4 DEF Next

\* However often the readiness exam rebuilds it (buildExamOutcome, written by
\* readiness.service.ts), and however stale the roadmap it read, the roadmap
\* keeps the modules it was created with and repeats none.
THEOREM RoadmapKept == Spec => []RoadmapKeepsModules
<1>1. Inv /\ RoadmapInv => RoadmapKeepsModules
  BY DEF Inv, TypeOK, RoadmapInv, RoadmapKeepsModules
<1>. QED  BY <1>1, RoadmapStart, RoadmapStep, Invariant, PTL DEF Spec

\* What a failed readiness exam found weak is on the roadmap, as long as no
\* attempt was expired under its grading (submitExam of readiness.service.ts).
THEOREM FailuresCovered == Spec => []FailedIsCovered
<1>1. RoadmapInv => FailedIsCovered
  BY DEF RoadmapInv, FailedIsCovered, Covered, Refreshed
<1>. QED  BY <1>1, RoadmapStart, RoadmapStep, Invariant, PTL DEF Spec

\* A failure below the half of a weak domain leaves a refresher on the roadmap:
\* the rounded mean of gradeAttempt is below the half only if a domain is.
THEOREM FailuresRefreshed == Spec => []FailureHasRefresher
<1>1. RoadmapInv => FailureHasRefresher
  BY DEF RoadmapInv, FailureHasRefresher, Covered, Refreshed
<1>. QED  BY <1>1, RoadmapStart, RoadmapStep, Invariant, PTL DEF Spec
=============================================================================
