------------------------------ MODULE Academy -------------------------------
(***************************************************************************)
(* The services around accounts, lessons and support, of which a behaviour *)
(* follows one: they share the requests in flight and no table that a      *)
(* property relates.                                                       *)
(***************************************************************************)
EXTENDS Sessions, OneTimeCodes, TwoFactor, StaffAccounts, Challenges, SupportTickets,
        LessonVideos, ExamPages

VARIABLE service      \* the service at work, fixed from the start

vars == <<req, sessionVars, codeVars, twoFactorVars, staffVars, challengeVars, ticketVars,
          videoVars, examPageVars, service>>

Services == {"sessions", "codes", "links", "twoFactor", "staff", "challenges", "tickets", "videos",
             "examPages"}

Init ==
  /\ InitSlots
  /\ SessionsInit /\ CodesInit /\ TwoFactorInit /\ StaffInit
  /\ ChallengesInit /\ TicketsInit /\ VideosInit /\ ExamPagesInit
  /\ service \in Services
  /\ service # "codes" => ~registered
  /\ service # "examPages" => player = "ExamPlayer"

Sessions ==
  /\ service = "sessions" /\ SessionsNext
  /\ UNCHANGED <<codeVars, twoFactorVars, staffVars, challengeVars, ticketVars, videoVars,
                 examPageVars, service>>
Codes ==
  /\ \/ service = "codes" /\ CodesNext
     \/ service = "links" /\ LinksNext
  /\ UNCHANGED <<sessionVars, twoFactorVars, staffVars, challengeVars, ticketVars, videoVars,
                 examPageVars, service>>
SecondFactor ==
  /\ service = "twoFactor" /\ TwoFactorNext
  /\ UNCHANGED <<sessionVars, codeVars, staffVars, challengeVars, ticketVars, videoVars,
                 examPageVars, service>>
Staff ==
  /\ service = "staff" /\ StaffNext
  /\ UNCHANGED <<sessionVars, codeVars, twoFactorVars, challengeVars, ticketVars, videoVars,
                 examPageVars, service>>
Bootcamp ==
  /\ service = "challenges" /\ ChallengesNext
  /\ UNCHANGED <<sessionVars, codeVars, twoFactorVars, staffVars, ticketVars, videoVars,
                 examPageVars, service>>
Support ==
  /\ service = "tickets" /\ TicketsNext
  /\ UNCHANGED <<sessionVars, codeVars, twoFactorVars, staffVars, challengeVars, videoVars,
                 examPageVars, service>>
Media ==
  /\ service = "videos" /\ VideosNext
  /\ UNCHANGED <<sessionVars, codeVars, twoFactorVars, staffVars, challengeVars, ticketVars,
                 examPageVars, service>>

Exam ==
  /\ service = "examPages" /\ ExamPagesNext
  /\ UNCHANGED <<sessionVars, codeVars, twoFactorVars, staffVars, challengeVars, ticketVars,
                 videoVars, service>>

Next == Sessions \/ Codes \/ SecondFactor \/ Staff \/ Bootcamp \/ Support \/ Media \/ Exam

Spec == Init /\ [][Next]_vars

-----------------------------------------------------------------------------
(* Properties of the two services of OneTimeCodes *)

\* "max codes generated per window regardless of IP": the counts of requests in
\* flight together let through one more for each of them, and no window holds
\* more.
CodesBounded ==
  service = "codes" => \A c \in Secrets : sent[c].state # "none" => WindowBounded(c)

\* "a replayed link loses the race and changes nothing": a link resets the
\* password once. A code is consumed without a condition, and may sign in once
\* for each request that had read it.
UsedOnce ==
  \A c \in Secrets :
    sent[c].uses <= IF service = "links" THEN 1 ELSE Cardinality(Requests)

\* The "email-bomb protection" of forgotPassword counts rows that every request
\* deletes: with fewer requests in flight than the cap, it is never reached.
CapNeverReached ==
  service = "links" =>
    Cardinality({c \in CodeRows : Within(c, RESET_EMAIL_WINDOW)}) < RESET_EMAIL_MAX
=============================================================================
