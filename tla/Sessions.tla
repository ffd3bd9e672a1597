------------------------------ MODULE Sessions ------------------------------
(***************************************************************************)
(* The sessions of one user: the refresh tokens of                         *)
(* apps/api/src/auth/auth.service.ts, the cookie each browser keeps, and   *)
(* the tabs of apps/web that exchange it. Passwords and codes are right,   *)
(* the access token of a tab expires at any time, and no refresh token     *)
(* reaches its seven days.                                                 *)
(***************************************************************************)
EXTENDS Slots

CONSTANTS
  Tabs, Browsers,
  BrowserOf,        \* the browser of each tab: its tabs share a cookie
  MaxTokens,        \* bound on the tokens ever issued
  MaxRevocations    \* bound on the revocations

ASSUME SessionAssumption ==
  /\ BrowserOf \in [Tabs -> Browsers]
  /\ MaxTokens \in Nat /\ MaxRevocations \in Nat
  /\ None \notin Tabs /\ None \notin Nat /\ "lost" \notin Tabs

VARIABLES
  tokens,           \* the RefreshToken rows ever created
  cookie,           \* the refresh token in each browser
  access,           \* the token each tab's access token was answered with
  accountStatus,    \* User.status
  revocations       \* how often every session was revoked

sessionVars == <<tokens, cookie, access, accountStatus, revocations>>

Tokens == 1..MaxTokens

\* One row. "used" and "revoked" rows are deleted in the database; what they
\* were is kept for the properties: parent is the token it was exchanged for,
\* by the tab that exchanged it under the shared promise, since the number of
\* revocations when the session's credentials were last checked, across
\* whether one came between that check and the row.
NoToken == [state |-> "none", parent |-> None, by |-> None, since |-> 0, across |-> FALSE]

Live(n) == n \in Tokens /\ tokens[n].state = "live"

SessionsInit ==
  /\ tokens = [n \in Tokens |-> NoToken]
  /\ cookie = [b \in Browsers |-> None]
  /\ access = [t \in Tabs |-> None]
  /\ accountStatus = "ACTIVE"
  /\ revocations = 0

\* The rows after a deleteMany of a set of tokens.
Revoked(gone) ==
  [n \in Tokens |-> IF n \in gone /\ tokens[n].state = "live"
                    THEN [tokens[n] EXCEPT !.state = "revoked"] ELSE tokens[n]]

\* A request whose credentials were checked before a revocation is across it.
Crossed == [r \in Requests |-> IF At(r, "issue") THEN [req[r] EXCEPT !.across = TRUE] ELSE req[r]]

-----------------------------------------------------------------------------
(* login, completeTwoFactorLogin and verifyOtp: an active account is read,  *)
(* and a token created                                                      *)

MayIssue(r, t, token, since, across) ==
  Become(r, [pc |-> "issue", tab |-> t, shared |-> FALSE, token |-> token,
             since |-> since, across |-> across])

SignIn(r, t) ==
  /\ At(r, "idle")
  /\ accountStatus = "ACTIVE"
  /\ MayIssue(r, t, None, revocations, FALSE)
  /\ UNCHANGED sessionVars

\* "Also clears any refresh token that survived"
SignInInactive ==
  /\ accountStatus = "SUSPENDED"
  /\ \E n \in Tokens : Live(n)
  /\ revocations < MaxRevocations
  /\ tokens' = Revoked(Tokens) /\ revocations' = revocations + 1
  /\ req' = Crossed
  /\ UNCHANGED <<cookie, access, accountStatus>>

\* completeProfile, updateProfile: whoever shows an access token gets another
\* session, beside the one it came with.
SaveProfile(r, t) ==
  LET n == access[t]
  IN  /\ At(r, "idle")
      /\ n # None /\ accountStatus = "ACTIVE"
      /\ MayIssue(r, t, None, tokens[n].since,
                  tokens[n].across \/ tokens[n].since < revocations)
      /\ UNCHANGED sessionVars

\* createTokens
Issue(r) ==
  /\ At(r, "issue")
  /\ \E n \in Tokens :
       /\ tokens[n].state = "none"
       /\ \A m \in Tokens : tokens[m].state = "none" => n <= m
       /\ tokens' = [tokens EXCEPT ![n] =
            [state |-> "live", parent |-> req[r].token, by |-> None,
             since |-> req[r].since, across |-> req[r].across]]
       /\ Become(r, [pc |-> "answer", tab |-> req[r].tab, shared |-> req[r].shared,
                     token |-> req[r].token, fresh |-> n])
  /\ UNCHANGED <<cookie, access, accountStatus, revocations>>

\* Slip: the token of a refresh stays in the body.
AnswerWithoutCookie(r) ==
  /\ At(r, "answer")
  /\ cookie' = IF req[r].token = None
               THEN [cookie EXCEPT ![BrowserOf[req[r].tab]] = req[r].fresh] ELSE cookie
  /\ access' = [access EXCEPT ![req[r].tab] = req[r].fresh]
  /\ Finish(r)
  /\ UNCHANGED <<tokens, accountStatus, revocations>>

\* setRefreshCookie and setAccessToken: answers reach the browser in any order.
Answer(r) ==
  /\ At(r, "answer")
  /\ cookie' = [cookie EXCEPT ![BrowserOf[req[r].tab]] = req[r].fresh]
  /\ access' = [access EXCEPT ![req[r].tab] = req[r].fresh]
  /\ Finish(r)
  /\ UNCHANGED <<tokens, accountStatus, revocations>>

\* The process dies or the answer is lost. A tab that waited for it to refresh
\* or to log out drops its access token.
Lose(r) ==
  LET exchanging == req[r].pc \in {"issue", "answer"} /\ req[r].token # None
  IN  /\ InFlight(r)
      /\ tokens' = IF exchanging THEN [tokens EXCEPT ![req[r].token].by = "lost"] ELSE tokens
      /\ access' = IF exchanging \/ req[r].pc \in {"claim", "clear"}
                   THEN [access EXCEPT ![req[r].tab] = None] ELSE access
      /\ Finish(r)
      /\ UNCHANGED <<cookie, accountStatus, revocations>>

-----------------------------------------------------------------------------
(* refresh: the guard looks the token up, the service claims it             *)

RefreshingIn(r, t) == InFlight(r) /\ req[r].shared /\ req[r].tab = t
Refreshing(t) == \E r \in Requests : RefreshingIn(r, t)

Refused(t) == access' = [access EXCEPT ![t] = None]   \* clearTokens

\* validateRefreshToken
Validate(r, t, shared) ==
  LET n == cookie[BrowserOf[t]]
  IN  /\ At(r, "idle")
      /\ IF Live(n) /\ accountStatus = "ACTIVE"
         THEN /\ Become(r, [pc |-> "claim", tab |-> t, shared |-> shared, token |-> n])
              /\ UNCHANGED access
         ELSE Refused(t) /\ UNCHANGED req
      /\ UNCHANGED <<tokens, cookie, accountStatus, revocations>>

\* Slip: every request that is refused refreshes.
SharedRefreshEach(r, t) == Validate(r, t, TRUE)

\* refreshPromise: the requests of a tab that are refused wait for one refresh.
SharedRefresh(r, t) == ~Refreshing(t) /\ Validate(r, t, TRUE)

\* AuthProvider.refreshSession calls api.refresh() beside it.
SessionRefresh(r, t) == access[t] = None /\ Validate(r, t, FALSE)

Exchange(r) ==
  LET n == req[r].token
  IN  /\ tokens' = [tokens EXCEPT ![n].state = "used",
                                  ![n].by = IF req[r].shared THEN req[r].tab ELSE None]
      /\ Become(r, [pc |-> "issue", tab |-> req[r].tab, shared |-> req[r].shared, token |-> n,
                    since |-> tokens[n].since, across |-> tokens[n].across])
      /\ UNCHANGED access

\* Slip: the row that was found is deleted, whether it is still there or not.
ClaimFound(r) ==
  /\ At(r, "claim")
  /\ Exchange(r)
  /\ UNCHANGED <<cookie, accountStatus, revocations>>

\* deleteMany, and its count
Claim(r) ==
  /\ At(r, "claim")
  /\ IF Live(req[r].token)
     THEN Exchange(r)
     ELSE Refused(req[r].tab) /\ Finish(r) /\ UNCHANGED tokens
  /\ UNCHANGED <<cookie, accountStatus, revocations>>

-----------------------------------------------------------------------------
(* logout: this browser's token, or all of them                             *)

Logout(r, t) ==
  LET n == cookie[BrowserOf[t]]
      clearing == [pc |-> "clear", tab |-> t, shared |-> FALSE]
  IN  /\ At(r, "idle")
      /\ access[t] # None /\ accountStatus = "ACTIVE"
      /\ \/ /\ n # None
            /\ tokens' = Revoked({n})
            /\ Become(r, clearing)
            /\ UNCHANGED revocations
         \/ /\ n = None
            /\ revocations < MaxRevocations
            /\ tokens' = Revoked(Tokens) /\ revocations' = revocations + 1
            /\ req' = [Crossed EXCEPT ![r] = clearing]
      /\ UNCHANGED <<cookie, access, accountStatus>>

\* clearRefreshCookie and clearTokens, when the answer arrives
ClearCookie(r) ==
  /\ At(r, "clear")
  /\ cookie' = [cookie EXCEPT ![BrowserOf[req[r].tab]] = None]
  /\ Refused(req[r].tab)
  /\ Finish(r)
  /\ UNCHANGED <<tokens, accountStatus, revocations>>

-----------------------------------------------------------------------------
(* Revocations                                                              *)

\* changePassword: the cookie sent with the request names the token to keep.
ChangePassword(r, t) ==
  /\ At(r, "idle")
  /\ access[t] # None /\ accountStatus = "ACTIVE"
  /\ Become(r, [pc |-> "revokeOthers", tab |-> t, shared |-> FALSE,
                token |-> cookie[BrowserOf[t]]])
  /\ UNCHANGED sessionVars

RevokeOthers(r) ==
  LET kept == req[r].token
  IN  /\ At(r, "revokeOthers")
      /\ revocations < MaxRevocations
      /\ revocations' = revocations + 1
      /\ tokens' = [n \in Tokens |-> IF n = kept THEN [tokens[n] EXCEPT !.since = revocations + 1]
                                     ELSE Revoked(Tokens)[n]]
      /\ req' = [Crossed EXCEPT ![r] = Idle]
      /\ UNCHANGED <<cookie, access, accountStatus>>

\* Slip: the new role or status is written, the sessions are left.
RevokeNothing(status) ==
  /\ revocations < MaxRevocations
  /\ revocations' = revocations + 1
  /\ req' = Crossed
  /\ accountStatus' = status
  /\ UNCHANGED <<tokens, cookie, access>>

\* resetPassword, updateUserRole and updateUserStatus delete them all, in the
\* transaction of their write.
RevokeAll(status) ==
  /\ revocations < MaxRevocations
  /\ tokens' = Revoked(Tokens) /\ revocations' = revocations + 1
  /\ req' = Crossed
  /\ accountStatus' = status
  /\ UNCHANGED <<cookie, access>>

\* updateUserStatus again: nothing is revoked.
Reactivate ==
  /\ accountStatus = "SUSPENDED" /\ accountStatus' = "ACTIVE"
  /\ UNCHANGED <<tokens, cookie, access, revocations, req>>

SessionsNext ==
  \/ \E r \in Requests, t \in Tabs :
       \/ SignIn(r, t) \/ SaveProfile(r, t) \/ SharedRefresh(r, t) \/ SessionRefresh(r, t)
       \/ Logout(r, t) \/ ChangePassword(r, t)
  \/ \E r \in Requests :
       \/ Issue(r) \/ Answer(r) \/ Lose(r) \/ Claim(r) \/ ClearCookie(r) \/ RevokeOthers(r)
  \/ \E status \in {accountStatus, "SUSPENDED"} : RevokeAll(status)
  \/ SignInInactive \/ Reactivate

-----------------------------------------------------------------------------
(* Properties *)

\* A comment of refresh says "exactly ONE concurrent caller can delete the row":
\* no token is exchanged for two others, however many requests present it.
RotationOnce ==
  \A m, n \in Tokens :
    tokens[m].parent = tokens[n].parent /\ tokens[m].parent # None => m = n

\* A comment of updateUserStatus says suspended users "lose every active session
\* immediately"; a reset, a new role and a new password revoke them, too. What
\* survives, or comes later without another check of the credentials, was
\* claimed, checked or shown an access token from before the revocation.
RevokedForGood ==
  \A n \in Tokens : Live(n) => tokens[n].since = revocations \/ tokens[n].across

\* A browser is left with a used token only while the answer that replaces it
\* is on its way, or when that answer is lost.
CookieIsLive ==
  \A b \in Browsers :
    cookie[b] # None /\ tokens[cookie[b]].state = "used" =>
      \/ \E r \in Requests : req[r].pc \in {"issue", "answer"} /\ req[r].token = cookie[b]
      \/ tokens[cookie[b]].by = "lost"

\* The shared refresh of a tab never finds its token exchanged by another one
\* of the same tab.
LosesOnlyToOthers ==
  \A r \in Requests :
    At(r, "claim") /\ req[r].shared => tokens[req[r].token].by # req[r].tab

-----------------------------------------------------------------------------
(* The inductive invariant *)

TokenRow == [state : {"none", "live", "used", "revoked"}, parent : Tokens \cup {None},
             by : Tabs \cup {None, "lost"}, since : 0..revocations, across : BOOLEAN]

Issuing(r) == At(r, "issue") /\ req[r].token # None

SessionTypeOK ==
  /\ tokens \in [Tokens -> TokenRow]
  /\ cookie \in [Browsers -> Tokens \cup {None}]
  /\ access \in [Tabs -> Tokens \cup {None}]
  /\ revocations \in Nat
  /\ req = [r \in Requests |-> req[r]]

SessionRequestOK(q) ==
  \/ q.pc = "idle" /\ q = Idle
  \/ q.pc = "issue" /\ q \in [pc : {"issue"}, tab : Tabs, shared : BOOLEAN,
                             token : Tokens \cup {None}, since : 0..revocations,
                             across : BOOLEAN]
  \/ q.pc = "answer" /\ q \in [pc : {"answer"}, tab : Tabs, shared : BOOLEAN,
                              token : Tokens \cup {None}, fresh : Tokens]
  \/ q.pc = "claim" /\ q \in [pc : {"claim"}, tab : Tabs, shared : BOOLEAN, token : Tokens]
  \/ q.pc = "clear" /\ q \in [pc : {"clear"}, tab : Tabs, shared : {FALSE}]
  \/ q.pc = "revokeOthers" /\ q \in [pc : {"revokeOthers"}, tab : Tabs, shared : {FALSE},
                                    token : Tokens \cup {None}]

\* A token is exchanged once: it is used from its claim on, one request issues
\* the token that replaces it, and no other has been issued.
ExchangeOK ==
  /\ \A n \in Tokens : tokens[n].parent # None => tokens[tokens[n].parent].state = "used"
  /\ \A r \in Requests :
       Issuing(r) => /\ tokens[req[r].token].state = "used"
                     /\ \A n \in Tokens : tokens[n].parent # req[r].token
  /\ \A r, s \in Requests :
       Issuing(r) /\ Issuing(s) /\ req[r].token = req[s].token => r = s

\* A request that has checked its credentials knows when they were checked.
CheckedOK ==
  \A r \in Requests : At(r, "issue") => req[r].since = revocations \/ req[r].across

SessionsInv ==
  /\ SessionTypeOK
  /\ \A r \in Requests : SessionRequestOK(req[r])
  /\ ExchangeOK /\ CheckedOK
  /\ RotationOnce /\ RevokedForGood

\* Beside the shared refresh of a tab there is no other.
SingleFlight ==
  \A r, s \in Requests, t \in Tabs : RefreshingIn(r, t) /\ RefreshingIn(s, t) => r = s

\* What nobody has exchanged has nobody who did.
ByOK == \A n \in Tokens : tokens[n].state \in {"none", "live"} => tokens[n].by = None

LosersInv == SessionsInv /\ SingleFlight /\ ByOK /\ LosesOnlyToOthers

\* A token is known to one browser, the one it was answered to, and to nobody
\* before it is.
Presented(r, n) == req[r].pc \in {"claim", "issue", "answer"} /\ req[r].token = n
HoldersOK ==
  /\ \A b \in Browsers : cookie[b] # None => tokens[cookie[b]].state # "none"
  /\ \A b, c \in Browsers : cookie[b] = cookie[c] /\ cookie[b] # None => b = c
  /\ \A r \in Requests, n \in Tokens :
       Presented(r, n) => /\ tokens[n].state # "none"
                          /\ \A b \in Browsers : cookie[b] = n => b = BrowserOf[req[r].tab]
FreshOK ==
  \A r \in Requests :
    At(r, "answer") =>
      /\ tokens[req[r].fresh].state \in {"live", "revoked"}
      /\ req[r].token # None => tokens[req[r].token].state = "used"
      /\ \A b \in Browsers : cookie[b] # req[r].fresh
      /\ \A s \in Requests : At(s, "answer") /\ req[s].fresh = req[r].fresh => r = s
      /\ \A s \in Requests : ~Presented(s, req[r].fresh)

CookieInv == SessionsInv /\ HoldersOK /\ FreshOK /\ CookieIsLive
=============================================================================
