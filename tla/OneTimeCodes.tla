---------------------------- MODULE OneTimeCodes ----------------------------
(***************************************************************************)
(* What apps/api/src/auth/auth.service.ts sends to be used once: the codes *)
(* a phone number signs in with (PhoneOtp), or the links that reset the    *)
(* password of one account (PasswordResetToken). A behaviour follows one.  *)
(***************************************************************************)
EXTENDS Slots

CONSTANTS
  OTP_TTL, OTP_MAX_ATTEMPTS, OTP_PHONE_WINDOW, OTP_MAX_PER_PHONE,
  RESET_TOKEN_TTL, RESET_EMAIL_WINDOW, RESET_EMAIL_MAX,
  MaxSent,          \* bound on what is sent
  MaxNow            \* bound on the clock

ASSUME CodeAssumption ==
  /\ OTP_TTL \in Nat /\ OTP_PHONE_WINDOW \in Nat
  /\ OTP_MAX_ATTEMPTS \in Nat /\ OTP_MAX_PER_PHONE \in Nat
  /\ RESET_TOKEN_TTL \in Nat /\ RESET_EMAIL_WINDOW \in Nat /\ RESET_EMAIL_MAX \in Nat
  /\ MaxSent \in Nat /\ MaxNow \in Nat

VARIABLES
  sent,             \* the rows ever created, in the order of createdAt
  registered,       \* whether the phone has an account
  clock

codeVars == <<sent, registered, clock>>

Secrets == 1..MaxSent

\* after is the last row its request had superseded, uses how often it worked.
Unsent == [state |-> "none", at |-> 0, attempts |-> 0, after |-> 0, uses |-> 0]

CodesInit ==
  /\ sent = [c \in Secrets |-> Unsent]
  /\ registered \in BOOLEAN
  /\ clock = 0

Valid(c) == sent[c].state = "live"
CodeRows == {c \in Secrets : sent[c].state \notin {"none", "deleted"}}
LastSent == Cardinality({c \in Secrets : sent[c].state # "none"})
Within(c, window) == sent[c].at + window >= clock

-----------------------------------------------------------------------------
(* Both are requested in three statements: count, supersede, create         *)

Count(r, window, most, next) ==
  /\ At(r, "idle")
  /\ Cardinality({c \in CodeRows : Within(c, window)}) < most
  /\ Become(r, [pc |-> next])
  /\ UNCHANGED codeVars

\* The rows are consumed or deleted, and the new one comes after them.
Supersede(r, rows, state, next) ==
  /\ sent' = [c \in Secrets |-> IF c \in rows THEN [sent[c] EXCEPT !.state = state] ELSE sent[c]]
  /\ Become(r, [pc |-> next, after |-> LastSent])
  /\ UNCHANGED <<registered, clock>>

Create(r) ==
  LET c == LastSent + 1
  IN  /\ c \in Secrets
      /\ sent' = [sent EXCEPT ![c] = [Unsent EXCEPT !.state = "live", !.at = clock,
                                                    !.after = req[r].after]]
      /\ Finish(r)
      /\ UNCHANGED <<registered, clock>>

-----------------------------------------------------------------------------
(* requestOtp, verifyOtp                                                    *)

\* Slip: the codes of the window are not counted.
RequestOtpUncounted(r) == Count(r, 0, MaxSent, "consumeCodes")

RequestOtp(r) == Count(r, OTP_PHONE_WINDOW, OTP_MAX_PER_PHONE, "consumeCodes")

\* Slip: the older codes stay valid.
KeepCodes(r) == At(r, "consumeCodes") /\ Supersede(r, {}, "consumed", "createCode")

ConsumeCodes(r) ==
  /\ At(r, "consumeCodes")
  /\ Supersede(r, {c \in Secrets : Valid(c)}, "consumed", "createCode")

CreateCode(r) == At(r, "createCode") /\ Create(r)

\* The newest code that is not consumed is compared with the one submitted.
Compare(r, c, next) ==
  /\ At(r, "idle")
  /\ Valid(c) /\ \A d \in Secrets : Valid(d) => d <= c
  /\ sent[c].at + OTP_TTL >= clock
  /\ Become(r, [pc |-> next, code |-> c])
  /\ UNCHANGED codeVars

\* Slip: attempts are counted, never checked.
VerifyOtpUnlimited(r) ==
  \E c \in Secrets, next \in {"increment", "consume"} : Compare(r, c, next)

VerifyOtp(r) ==
  \E c \in Secrets, next \in {"increment", "consume"} :
    sent[c].attempts < OTP_MAX_ATTEMPTS /\ Compare(r, c, next)

IncrementAttempts(r) ==
  /\ At(r, "increment")
  /\ sent' = [sent EXCEPT ![req[r].code].attempts = @ + 1]
  /\ Finish(r)
  /\ UNCHANGED <<registered, clock>>

\* update({ where: { id } }): whoever consumed it meanwhile
Consume(r) ==
  /\ At(r, "consume")
  /\ sent' = [sent EXCEPT ![req[r].code].state = "consumed", ![req[r].code].uses = @ + 1]
  /\ Goto(r, "findUser")
  /\ UNCHANGED <<registered, clock>>

FindUser(r) ==
  /\ At(r, "findUser")
  /\ IF registered THEN Finish(r) ELSE Goto(r, "createUser")
  /\ UNCHANGED codeVars

\* The loser breaks the unique key on the phone: its code is used up.
RegisterPhone(r) ==
  /\ At(r, "createUser")
  /\ registered' = TRUE
  /\ Finish(r)
  /\ UNCHANGED <<sent, clock>>

-----------------------------------------------------------------------------
(* forgotPassword, resetPassword                                            *)

ForgotPassword(r) == Count(r, RESET_EMAIL_WINDOW, RESET_EMAIL_MAX, "deleteLinks")

\* Slip: the links that were used are kept.
DeleteUnused(r) ==
  At(r, "deleteLinks") /\ Supersede(r, {c \in CodeRows : Valid(c)}, "deleted", "createLink")

DeleteLinks(r) == At(r, "deleteLinks") /\ Supersede(r, CodeRows, "deleted", "createLink")

CreateLink(r) == At(r, "createLink") /\ Create(r)

ResetPassword(r) ==
  \E c \in Secrets :
    /\ At(r, "idle")
    /\ Valid(c) /\ sent[c].at + RESET_TOKEN_TTL >= clock
    /\ Become(r, [pc |-> "claimLink", code |-> c])
    /\ UNCHANGED codeVars

UseLink(r) ==
  LET c == req[r].code
  IN  sent' = [sent EXCEPT ![c].state = "consumed", ![c].uses = @ + 1]

\* Slip: update({ where: { id } }).
ClaimLinkFound(r) ==
  /\ At(r, "claimLink")
  /\ IF req[r].code \in CodeRows THEN UseLink(r) ELSE UNCHANGED sent
  /\ Finish(r)
  /\ UNCHANGED <<registered, clock>>

\* updateMany where usedAt is null, in the transaction that sets the password
ClaimLink(r) ==
  /\ At(r, "claimLink")
  /\ IF Valid(req[r].code) THEN UseLink(r) ELSE UNCHANGED sent
  /\ Finish(r)
  /\ UNCHANGED <<registered, clock>>

-----------------------------------------------------------------------------
ClockTick ==
  /\ clock < MaxNow /\ clock' = clock + 1
  /\ UNCHANGED <<sent, registered, req>>

CodesNext ==
  \/ \E r \in Requests :
       \/ RequestOtp(r) \/ ConsumeCodes(r) \/ CreateCode(r)
       \/ VerifyOtp(r) \/ IncrementAttempts(r) \/ Consume(r) \/ FindUser(r) \/ RegisterPhone(r)
       \/ Die(r) /\ UNCHANGED codeVars
  \/ ClockTick

LinksNext ==
  \/ \E r \in Requests :
       \/ ForgotPassword(r) \/ DeleteLinks(r) \/ CreateLink(r)
       \/ ResetPassword(r) \/ ClaimLink(r)
       \/ Die(r) /\ UNCHANGED codeVars
  \/ ClockTick

-----------------------------------------------------------------------------
(* Properties *)

\* "Any older token for the account becomes unusable - only the newest link
\* works", and a new code consumes the older ones: two are valid together only
\* when the older was created after the request for the newer had done so.
NewestOnly ==
  \A c, d \in Secrets : Valid(c) /\ Valid(d) /\ c < d => sent[d].after < c

\* Wrong guesses at a code end at the limit, but for those that read it below.
AttemptsBounded ==
  \A c \in Secrets : sent[c].attempts <= OTP_MAX_ATTEMPTS + Cardinality(Requests) - 1

\* The codes of a window that ends with a code, and their bound.
SentInWindow(c, window) ==
  {d \in 1..c : sent[d].state # "none" /\ sent[d].at + window >= sent[c].at}
WindowBounded(c) ==
  Cardinality(SentInWindow(c, OTP_PHONE_WINDOW)) <= OTP_MAX_PER_PHONE + Cardinality(Requests) - 1
=============================================================================
