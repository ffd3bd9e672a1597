---------------------------- MODULE ExamContract ----------------------------
(***************************************************************************)
(* What both exam services promise, with no requests, deadlines or races:  *)
(* an attempt is opened on one version of the questions and keeps it; it   *)
(* is graded at most once, on that version and on the answers stored by    *)
(* the same step, whatever the admin has done to the live questions since. *)
(* Exams.tla is shown to implement it.                                     *)
(***************************************************************************)
CONSTANTS
  Attempts, Papers, Sheets,
  Grades,           \* Grades[p][s]: what the answers s can earn on version p
  NoPaper, NoAnswers, NoGrade

VARIABLES
  pinned,           \* pinned[a]: the version attempt a was opened on
  answers,          \* answers[a]: the answers stored for it
  grade             \* grade[a]: its grade, once it has one

vars == <<pinned, answers, grade>>

Init ==
  /\ pinned = [a \in Attempts |-> NoPaper]
  /\ answers = [a \in Attempts |-> NoAnswers]
  /\ grade = [a \in Attempts |-> NoGrade]

Open(a) ==
  /\ pinned[a] = NoPaper
  /\ \E p \in Papers : pinned' = [pinned EXCEPT ![a] = p]
  /\ UNCHANGED <<answers, grade>>

Save(a) ==
  /\ pinned[a] # NoPaper
  /\ \E s \in Sheets : answers' = [answers EXCEPT ![a] = s]
  /\ UNCHANGED <<pinned, grade>>

Grade(a) ==
  /\ pinned[a] # NoPaper
  /\ grade[a] = NoGrade
  /\ \E s \in Sheets :
       /\ answers' = [answers EXCEPT ![a] = s]
       /\ \E g \in Grades[pinned[a]][s] : grade' = [grade EXCEPT ![a] = g]
  /\ UNCHANGED pinned

Next == \E a \in Attempts : Open(a) \/ Save(a) \/ Grade(a)

Spec == Init /\ [][Next]_vars

=============================================================================
