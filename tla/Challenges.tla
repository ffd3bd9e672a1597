----------------------------- MODULE Challenges -----------------------------
(***************************************************************************)
(* The submissions to one open challenge:                                  *)
(* apps/api/src/challenges/challenges.service.ts. The score of a piece of  *)
(* code is given; the course the challenge unlocks exists.                 *)
(***************************************************************************)
EXTENDS Slots, FiniteSetsExt

CONSTANTS
  Learners,
  Scores,           \* what code may score
  UnlockScore       \* settings.bootcamp.unlockScoreThreshold

ASSUME ChallengeAssumption == Scores \subseteq Nat /\ IsFiniteSet(Scores) /\ UnlockScore \in Nat

VARIABLES
  submissions,      \* the learners and scores of the ChallengeSubmission rows
  points,           \* BootcampProfile.points
  entitled,         \* the learners with the Entitlement of the course
  unrewarded        \* those whose reward died, or overtook a better one

challengeVars == <<submissions, points, entitled, unrewarded>>

ChallengesInit ==
  /\ submissions = {}
  /\ points = [u \in Learners |-> 0]
  /\ entitled = {} /\ unrewarded = {}

BestOf(rows) == Max({s[2] : s \in rows})

\* create: the row is committed before the reward.
CreateSubmission(r) ==
  \E u \in Learners, score \in Scores :
    /\ At(r, "idle")
    /\ submissions' = submissions \cup {<<u, score>>}
    /\ IF score >= UnlockScore
       THEN Become(r, [pc |-> "aggregate", user |-> u, score |-> score])
       ELSE UNCHANGED req
    /\ UNCHANGED <<points, entitled, unrewarded>>

Found(r, best) ==
  /\ At(r, "aggregate")
  /\ Become(r, [pc |-> "reward", user |-> req[r].user, score |-> req[r].score,
                best |-> best, seen |-> submissions])
  /\ UNCHANGED challengeVars

\* Slip: the score of the submission is written.
AggregateOwn(r) == Found(r, req[r].score)

\* The best of the challenge, whoever scored it
AggregateBest(r) == Found(r, BestOf(submissions))

\* The transaction reads committed rows: the best may be older than the write.
Reward(r) ==
  LET u == req[r].user
  IN  /\ At(r, "reward")
      /\ points' = [points EXCEPT ![u] = req[r].best]
      /\ entitled' = entitled \cup {u}
      /\ unrewarded' = IF \E row \in submissions \ req[r].seen : row[1] = u /\ row[2] > req[r].best
                       THEN unrewarded \cup {u} ELSE unrewarded \ {u}
      /\ Finish(r)
      /\ UNCHANGED submissions

\* The row stays, and nothing retries the reward.
LoseReward(r) ==
  /\ Die(r)
  /\ unrewarded' = unrewarded \cup {req[r].user}
  /\ UNCHANGED <<submissions, points, entitled>>

ChallengesNext ==
  \E r \in Requests : CreateSubmission(r) \/ AggregateBest(r) \/ Reward(r) \/ LoseReward(r)

-----------------------------------------------------------------------------
(* Property *)

\* Whoever reached the unlock score has the course, and points no lower than
\* any of those scores, once the requests are answered: the exceptions are a
\* process that died before the reward, and a reward that had looked for the best
\* before a better score of the same learner was there.
TopIsRewarded ==
  \A row \in submissions :
    row[2] >= UnlockScore =>
      \/ row[1] \in entitled /\ points[row[1]] >= row[2]
      \/ row[1] \in unrewarded
      \/ \E r \in Requests : InFlight(r) /\ req[r].user = row[1]
=============================================================================
