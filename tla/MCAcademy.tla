----------------------------- MODULE MCAcademy ------------------------------
(***************************************************************************)
(* The instance of Academy for TLC: two tabs of one browser, and two super *)
(* admins, who are the learners, too.                                      *)
(***************************************************************************)
EXTENDS Academy, TLC

CONSTANTS t1, t2, browser, u1, u2

MCBrowserOf == t1 :> browser @@ t2 :> browser
Symmetry == Permutations(Requests) \cup Permutations({t1, t2}) \cup Permutations({u1, u2})
=============================================================================
