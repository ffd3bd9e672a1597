------------------------------ MODULE MCExams -------------------------------
(***************************************************************************)
(* The instance of Exams for TLC: two versions of a paper over two domains *)
(* and one without questions, and one set of answers, sent or not.         *)
(***************************************************************************)
EXTENDS Exams

CONSTANTS q1, q2, q3, q4, a, b

Question(answer, domain) == [accepted |-> {answer}, points |-> 1, domain |-> domain]

\* The answers of MCInputs pass the first and, half right in each domain, fail
\* the second without a weak domain; no answers fail in both.
Both == q1 :> Question(a, "codeSense") @@ q3 :> Question(b, "techReading")
Halves == Both @@ q2 :> Question(a, "codeSense") @@ q4 :> Question(b, "techReading")

MCPapers == {NoAnswers, Both, Halves}
MCInputs == { q1 :> a @@ q3 :> b }
MCDomains == <<"codeSense", "techReading">>
MCModules == <<"m1", "m2">>
Symmetry == Permutations(Requests)
=============================================================================
