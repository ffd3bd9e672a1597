--------------------------- MODULE SessionsProofs ---------------------------
(***************************************************************************)
(* Every step of Sessions preserves its invariants: a refresh token is     *)
(* exchanged for one other, a revocation holds, a tab does not lose        *)
(* against itself, and a browser holds a used token only while the answer  *)
(* is on its way or lost.                                                  *)
(***************************************************************************)
EXTENDS Sessions, TLAPS

-----------------------------------------------------------------------------
(* Requests *)

\* What each kind of request holds.
LEMMA RequestFields ==
  ASSUME NEW q, SessionRequestOK(q)
  PROVE  /\ q.pc \in {"idle", "issue", "answer", "claim", "clear", "revokeOthers"}
         /\ q.pc = "idle" => q = Idle
         /\ q.pc = "issue" => /\ q.tab \in Tabs /\ q.shared \in BOOLEAN
                              /\ q.token \in Tokens \cup {None}
                              /\ q.since \in 0..revocations /\ q.across \in BOOLEAN
         /\ q.pc = "answer" => /\ q.tab \in Tabs /\ q.shared \in BOOLEAN
                               /\ q.token \in Tokens \cup {None} /\ q.fresh \in Tokens
         /\ q.pc = "claim" => q.tab \in Tabs /\ q.shared \in BOOLEAN /\ q.token \in Tokens
         /\ q.pc = "clear" => q.tab \in Tabs /\ q.shared = FALSE
         /\ q.pc = "revokeOthers" => /\ q.tab \in Tabs /\ q.shared = FALSE
                                     /\ q.token \in Tokens \cup {None}
<1>1. CASE q.pc = "idle" /\ q = Idle
  BY <1>1
<1>2. CASE q.pc = "issue" /\ q \in [pc : {"issue"}, tab : Tabs, shared : BOOLEAN,
                                   token : Tokens \cup {None}, since : 0..revocations,
                                   across : BOOLEAN]
  BY <1>2
<1>3. CASE q.pc = "answer" /\ q \in [pc : {"answer"}, tab : Tabs, shared : BOOLEAN,
                                    token : Tokens \cup {None}, fresh : Tokens]
  BY <1>3
<1>4. CASE q.pc = "claim" /\ q \in [pc : {"claim"}, tab : Tabs, shared : BOOLEAN, token : Tokens]
  BY <1>4
<1>5. CASE q.pc = "clear" /\ q \in [pc : {"clear"}, tab : Tabs, shared : {FALSE}]
  BY <1>5
<1>6. CASE q.pc = "revokeOthers" /\ q \in [pc : {"revokeOthers"}, tab : Tabs, shared : {FALSE},
                                          token : Tokens \cup {None}]
  BY <1>6
<1>. QED  BY <1>1, <1>2, <1>3, <1>4, <1>5, <1>6 DEF SessionRequestOK

\* A request that does not issue stays well formed whatever is revoked.
LEMMA RequestKept ==
  ASSUME NEW q, SessionRequestOK(q), revocations \in Nat, revocations' \in Nat,
         revocations <= revocations'
  PROVE  SessionRequestOK(q)'
<1>1. 0..revocations \subseteq 0..revocations'
  OBVIOUS
<1>2. CASE q.pc = "issue"
  <2>1. q \in [pc : {"issue"}, tab : Tabs, shared : BOOLEAN, token : Tokens \cup {None},
               since : 0..revocations, across : BOOLEAN]
    BY <1>2 DEF SessionRequestOK
  <2>2. q \in [pc : {"issue"}, tab : Tabs, shared : BOOLEAN, token : Tokens \cup {None},
               since : 0..revocations', across : BOOLEAN]
    BY <2>1, <1>1
  <2>. QED  BY <2>2, <1>2 DEF SessionRequestOK
<1>3. CASE q.pc # "issue"
  BY <1>3 DEF SessionRequestOK
<1>. QED  BY <1>2, <1>3

\* One slot of the requests is written.
LEMMA SlotWritten ==
  ASSUME NEW r \in Requests, NEW q, req = [s \in Requests |-> req[s]],
         req' = [req EXCEPT ![r] = q]
  PROVE  /\ req' = [s \in Requests |-> req'[s]]
         /\ req'[r] = q
         /\ \A s \in Requests : s # r => req'[s] = req[s]
OBVIOUS

-----------------------------------------------------------------------------
(* A request goes on and the tokens stay. *)

LEMMA TokensKept ==
  ASSUME SessionsInv,
         NEW r \in Requests, NEW q, req' = [req EXCEPT ![r] = q],
         UNCHANGED <<tokens, revocations>>,
         cookie' \in [Browsers -> Tokens \cup {None}],
         access' \in [Tabs -> Tokens \cup {None}],
         SessionRequestOK(q),
         q.pc = "issue" => q.token = None /\ (q.since = revocations \/ q.across)
  PROVE  SessionsInv'
<1>. USE DEF SessionsInv
<1>1. /\ req' = [s \in Requests |-> req'[s]] /\ req'[r] = q
      /\ \A s \in Requests : s # r => req'[s] = req[s]
  BY SlotWritten DEF SessionTypeOK
<1>2. SessionTypeOK'
  BY <1>1 DEF SessionTypeOK, Tokens, TokenRow
<1>3. \A s \in Requests : SessionRequestOK(req[s])'
  <2>1. SessionRequestOK(q)' /\
        \A s \in Requests : SessionRequestOK(req[s]) /\ s # r => SessionRequestOK(req[s])'
    BY <1>1 DEF SessionRequestOK, Tokens
  <2>. QED  BY <1>1, <2>1 DEF SessionRequestOK, Tokens
<1>4. ExchangeOK'
  BY <1>1 DEF ExchangeOK, Issuing, At, Tokens
<1>5. CheckedOK'
  BY <1>1 DEF CheckedOK, At
<1>6. RotationOnce' /\ RevokedForGood'
  BY DEF RotationOnce, RevokedForGood, Live, Tokens
<1>. QED  BY <1>2, <1>3, <1>4, <1>5, <1>6

LEMMA KindsOfRequest ==
  /\ SessionRequestOK(Idle)
  /\ \A t \in Tabs, shared \in BOOLEAN, token \in Tokens \cup {None}, fresh \in Tokens :
       SessionRequestOK([pc |-> "answer", tab |-> t, shared |-> shared, token |-> token,
                         fresh |-> fresh])
  /\ \A t \in Tabs, shared \in BOOLEAN, token \in Tokens :
       SessionRequestOK([pc |-> "claim", tab |-> t, shared |-> shared, token |-> token])
  /\ \A t \in Tabs : SessionRequestOK([pc |-> "clear", tab |-> t, shared |-> FALSE])
  /\ \A t \in Tabs, token \in Tokens \cup {None} :
       SessionRequestOK([pc |-> "revokeOthers", tab |-> t, shared |-> FALSE, token |-> token])
  /\ \A t \in Tabs, shared \in BOOLEAN, token \in Tokens \cup {None},
        since \in 0..revocations, across \in BOOLEAN :
       SessionRequestOK([pc |-> "issue", tab |-> t, shared |-> shared, token |-> token,
                         since |-> since, across |-> across])
BY DEF SessionRequestOK, Idle

LEMMA SignInKeeps ==
  ASSUME SessionsInv, NEW r \in Requests, NEW t \in Tabs, SignIn(r, t)
  PROVE  SessionsInv'
<1>. PICK q : q = [pc |-> "issue", tab |-> t, shared |-> FALSE, token |-> None,
                   since |-> revocations, across |-> FALSE]
  OBVIOUS
<1>1. /\ req' = [req EXCEPT ![r] = q] /\ UNCHANGED sessionVars
  BY DEF SignIn, MayIssue, Become
<1>2. SessionRequestOK(q) /\ q.token = None /\ q.since = revocations
  <2>1. revocations \in 0..revocations
    BY DEF SessionsInv, SessionTypeOK
  <2>. QED  BY <2>1, KindsOfRequest
<1>. QED
  BY <1>1, <1>2, TokensKept DEF sessionVars, SessionsInv, SessionTypeOK, Tokens

LEMMA SaveProfileKeeps ==
  ASSUME SessionsInv, NEW r \in Requests, NEW t \in Tabs, SaveProfile(r, t)
  PROVE  SessionsInv'
<1>. PICK n : n = access[t]
  OBVIOUS
<1>1. n \in Tokens /\ tokens[n].since \in 0..revocations /\ tokens[n].across \in BOOLEAN
      /\ revocations \in Nat
  BY DEF SaveProfile, SessionsInv, SessionTypeOK, TokenRow
<1>. PICK since : since = tokens[n].since
  OBVIOUS
<1>. PICK across : across = (tokens[n].across \/ tokens[n].since < revocations)
  OBVIOUS
<1>. PICK q : q = [pc |-> "issue", tab |-> t, shared |-> FALSE, token |-> None,
                   since |-> since, across |-> across]
  OBVIOUS
<1>2. req' = [req EXCEPT ![r] = q] /\ UNCHANGED sessionVars
  BY DEF SaveProfile, MayIssue, Become
<1>3. across \in BOOLEAN /\ since \in 0..revocations /\ (since = revocations \/ across)
  <2>1. since \in 0..revocations /\ revocations \in Nat
    BY <1>1
  <2>2. since = revocations \/ tokens[n].since < revocations
    BY <2>1
  <2>. QED  BY <2>1, <2>2
<1>4. SessionRequestOK(q) /\ q.token = None /\ (q.since = revocations \/ q.across)
  BY <1>3, KindsOfRequest
<1>. QED
  BY <1>2, <1>4, TokensKept DEF sessionVars, SessionsInv, SessionTypeOK, Tokens

\* What a tab or a browser is given is a token or none.
LEMMA HoldingsTyped ==
  ASSUME SessionsInv
  PROVE  /\ cookie \in [Browsers -> Tokens \cup {None}]
         /\ access \in [Tabs -> Tokens \cup {None}]
         /\ \A t \in Tabs, n \in Tokens \cup {None} :
              /\ [access EXCEPT ![t] = n] \in [Tabs -> Tokens \cup {None}]
              /\ [cookie EXCEPT ![BrowserOf[t]] = n] \in [Browsers -> Tokens \cup {None}]
              /\ cookie[BrowserOf[t]] \in Tokens \cup {None}
BY SessionAssumption DEF SessionsInv, SessionTypeOK

LEMMA AnswerKeeps ==
  ASSUME SessionsInv, NEW r \in Requests, Answer(r)
  PROVE  SessionsInv'
<1>1. req[r].tab \in Tabs /\ req[r].fresh \in Tokens
  BY RequestFields DEF SessionsInv, Answer, At
<1>2. /\ req' = [req EXCEPT ![r] = Idle] /\ UNCHANGED <<tokens, revocations>>
      /\ cookie' \in [Browsers -> Tokens \cup {None}]
      /\ access' \in [Tabs -> Tokens \cup {None}]
  BY <1>1, HoldingsTyped DEF Answer, Finish, Become
<1>3. SessionRequestOK(Idle) /\ Idle.pc # "issue"
  BY KindsOfRequest DEF Idle
<1>. QED  BY <1>2, <1>3, TokensKept

LEMMA ValidateKeeps ==
  ASSUME SessionsInv, NEW r \in Requests, NEW t \in Tabs, NEW shared \in BOOLEAN,
         Validate(r, t, shared)
  PROVE  SessionsInv'
<1>. PICK n : n = cookie[BrowserOf[t]]
  OBVIOUS
<1>0. req = [req EXCEPT ![r] = req[r]] /\ req[r] = Idle
  BY RequestFields DEF SessionsInv, SessionTypeOK, Validate, At
<1>1. CASE Live(n) /\ accountStatus = "ACTIVE"
  <2>. PICK q : q = [pc |-> "claim", tab |-> t, shared |-> shared, token |-> n]
    OBVIOUS
  <2>1. req' = [req EXCEPT ![r] = q] /\ UNCHANGED <<tokens, cookie, access, revocations>>
    BY <1>1 DEF Validate, Become
  <2>2. SessionRequestOK(q) /\ q.pc # "issue"
    BY <1>1, KindsOfRequest DEF Live
  <2>. QED  BY <2>1, <2>2, TokensKept, HoldingsTyped
<1>2. CASE ~(Live(n) /\ accountStatus = "ACTIVE")
  <2>1. /\ req' = [req EXCEPT ![r] = Idle] /\ UNCHANGED <<tokens, cookie, revocations>>
        /\ access' = [access EXCEPT ![t] = None]
    BY <1>2, <1>0 DEF Validate, Refused
  <2>2. SessionRequestOK(Idle) /\ Idle.pc # "issue"
    BY KindsOfRequest DEF Idle
  <2>. QED  BY <2>1, <2>2, TokensKept, HoldingsTyped
<1>. QED  BY <1>1, <1>2

LEMMA ClearCookieKeeps ==
  ASSUME SessionsInv, NEW r \in Requests, ClearCookie(r)
  PROVE  SessionsInv'
<1>1. req[r].tab \in Tabs
  BY RequestFields DEF SessionsInv, ClearCookie, At
<1>2. /\ req' = [req EXCEPT ![r] = Idle] /\ UNCHANGED <<tokens, revocations>>
      /\ cookie' \in [Browsers -> Tokens \cup {None}]
      /\ access' \in [Tabs -> Tokens \cup {None}]
  BY <1>1, HoldingsTyped DEF ClearCookie, Refused, Finish, Become
<1>3. SessionRequestOK(Idle) /\ Idle.pc # "issue"
  BY KindsOfRequest DEF Idle
<1>. QED  BY <1>2, <1>3, TokensKept

LEMMA ChangePasswordKeeps ==
  ASSUME SessionsInv, NEW r \in Requests, NEW t \in Tabs, ChangePassword(r, t)
  PROVE  SessionsInv'
<1>. PICK n : n = cookie[BrowserOf[t]]
  OBVIOUS
<1>. PICK q : q = [pc |-> "revokeOthers", tab |-> t, shared |-> FALSE, token |-> n]
  OBVIOUS
<1>1. req' = [req EXCEPT ![r] = q] /\ UNCHANGED sessionVars
  BY DEF ChangePassword, Become
<1>2. SessionRequestOK(q) /\ q.pc # "issue"
  BY KindsOfRequest, HoldingsTyped
<1>. QED  BY <1>1, <1>2, TokensKept, HoldingsTyped DEF sessionVars

-----------------------------------------------------------------------------
(* createTokens: a row that was none is live. *)

LEMMA IssueKeeps ==
  ASSUME SessionsInv, NEW r \in Requests, Issue(r)
  PROVE  SessionsInv'
<1>. PICK token : token = req[r].token
  OBVIOUS
<1>1. /\ req[r].pc = "issue" /\ req[r].tab \in Tabs /\ req[r].shared \in BOOLEAN
      /\ token \in Tokens \cup {None}
      /\ req[r].since \in 0..revocations /\ req[r].across \in BOOLEAN
      /\ req[r].since = revocations \/ req[r].across
  BY RequestFields DEF SessionsInv, Issue, At, CheckedOK
<1>. PICK n \in Tokens :
       /\ tokens[n].state = "none"
       /\ tokens' = [tokens EXCEPT ![n] =
            [state |-> "live", parent |-> req[r].token, by |-> None,
             since |-> req[r].since, across |-> req[r].across]]
       /\ Become(r, [pc |-> "answer", tab |-> req[r].tab, shared |-> req[r].shared,
                     token |-> req[r].token, fresh |-> n])
  BY DEF Issue
<1>. PICK row : row = [state |-> "live", parent |-> token, by |-> None,
                       since |-> req[r].since, across |-> req[r].across]
  OBVIOUS
<1>. PICK q : q = [pc |-> "answer", tab |-> req[r].tab, shared |-> req[r].shared,
                   token |-> token, fresh |-> n]
  OBVIOUS
<1>2. /\ tokens' = [tokens EXCEPT ![n] = row] /\ req' = [req EXCEPT ![r] = q]
      /\ UNCHANGED <<cookie, access, revocations>>
  BY DEF Become, Issue
<1>3. /\ req' = [s \in Requests |-> req'[s]] /\ req'[r] = q
      /\ \A s \in Requests : s # r => req'[s] = req[s]
  BY <1>2, SlotWritten DEF SessionsInv, SessionTypeOK
<1>4. tokens \in [Tokens -> TokenRow] /\ row \in TokenRow
  BY <1>1 DEF SessionsInv, SessionTypeOK, TokenRow
<1>5. /\ tokens'[n] = row /\ \A m \in Tokens : m # n => tokens'[m] = tokens[m]
      /\ tokens' \in [Tokens -> TokenRow]
  BY <1>2, <1>4
<1>6. SessionTypeOK'
  BY <1>2, <1>3, <1>5 DEF SessionsInv, SessionTypeOK, TokenRow, Tokens
<1>7. \A s \in Requests : SessionRequestOK(req[s])'
  <2>1. SessionRequestOK(q)
    BY <1>1, KindsOfRequest
  <2>2. ASSUME NEW s \in Requests  PROVE  SessionRequestOK(req[s])'
    <3>1. SessionRequestOK(req[s]) /\ SessionRequestOK(q)
      BY <2>1 DEF SessionsInv
    <3>2. SessionRequestOK(req'[s])
      BY <3>1, <1>3
    <3>. QED  BY <3>2, <1>2 DEF SessionRequestOK, Tokens
  <2>. QED  BY <2>2
<1>8. ASSUME token # None
      PROVE  /\ tokens[token].state = "used" /\ token # n
             /\ \A m \in Tokens : tokens[m].parent # token
             /\ \A s \in Requests : Issuing(s) /\ req[s].token = token => s = r
  BY <1>1, <1>8 DEF SessionsInv, ExchangeOK, Issuing, At
<1>9. ExchangeOK'
  <2>1. \A m \in Tokens : tokens'[m].parent # None => tokens'[tokens'[m].parent].state = "used"
    <3>. SUFFICES ASSUME NEW m \in Tokens, tokens'[m].parent # None
                  PROVE  tokens'[tokens'[m].parent].state = "used"
      OBVIOUS
    <3>1. CASE m = n
      <4>1. tokens'[m].parent = token /\ token \in Tokens
        BY <3>1, <1>5, <1>1
      <4>. QED  BY <4>1, <1>8, <1>5
    <3>2. CASE m # n
      <4>1. /\ tokens'[m].parent = tokens[m].parent /\ tokens[m].parent \in Tokens
            /\ tokens[tokens[m].parent].state = "used"
        BY <3>2, <1>5, <1>4 DEF SessionsInv, ExchangeOK, TokenRow
      <4>. QED  BY <4>1, <1>5
    <3>. QED  BY <3>1, <3>2
  <2>2. \A s \in Requests : Issuing(s)' => s # r /\ Issuing(s) /\ req'[s] = req[s]
    BY <1>3 DEF Issuing, At
  <2>3. ASSUME NEW s \in Requests, Issuing(s)'
        PROVE  /\ tokens'[req'[s].token].state = "used"
               /\ \A m \in Tokens : tokens'[m].parent # req'[s].token
    <3>1. /\ s # r /\ Issuing(s) /\ req'[s] = req[s] /\ req[s].token \in Tokens
          /\ tokens[req[s].token].state = "used"
          /\ \A m \in Tokens : tokens[m].parent # req[s].token
      BY <2>2, <2>3, RequestFields DEF SessionsInv, ExchangeOK, Issuing, At
    <3>2. token # req[s].token
      BY <3>1, <1>8 DEF Issuing
    <3>. QED  BY <3>1, <3>2, <1>5
  <2>4. \A s, u \in Requests :
          Issuing(s)' /\ Issuing(u)' /\ req'[s].token = req'[u].token => s = u
    BY <2>2 DEF SessionsInv, ExchangeOK
  <2>. QED  BY <2>1, <2>3, <2>4, <1>2 DEF ExchangeOK, Tokens
<1>10. CheckedOK'
  BY <1>3, <1>2 DEF SessionsInv, CheckedOK, At
<1>11. RotationOnce'
  BY <1>5, <1>8 DEF SessionsInv, RotationOnce, Tokens
<1>12. RevokedForGood'
  BY <1>1, <1>2, <1>5 DEF SessionsInv, RevokedForGood, Live, Tokens
<1>. QED  BY <1>6, <1>7, <1>9, <1>10, <1>11, <1>12 DEF SessionsInv

-----------------------------------------------------------------------------
(* refresh: a live row is used. *)

LEMMA ExchangeKeeps ==
  ASSUME SessionsInv, NEW r \in Requests, At(r, "claim"), Live(req[r].token),
         Exchange(r), UNCHANGED <<cookie, revocations>>
  PROVE  SessionsInv'
<1>. PICK n : n = req[r].token
  OBVIOUS
<1>1. /\ req[r].tab \in Tabs /\ req[r].shared \in BOOLEAN /\ n \in Tokens
      /\ tokens \in [Tokens -> TokenRow] /\ tokens[n].state = "live"
  BY RequestFields DEF SessionsInv, SessionTypeOK, At, Live
<1>2. /\ tokens[n].since \in 0..revocations /\ tokens[n].across \in BOOLEAN
      /\ tokens[n].since = revocations \/ tokens[n].across
  BY <1>1 DEF SessionsInv, RevokedForGood, Live, TokenRow
<1>. PICK by : by = IF req[r].shared THEN req[r].tab ELSE None
  OBVIOUS
<1>. PICK since : since = tokens[n].since
  OBVIOUS
<1>. PICK across : across = tokens[n].across
  OBVIOUS
<1>. PICK q : q = [pc |-> "issue", tab |-> req[r].tab, shared |-> req[r].shared, token |-> n,
                   since |-> since, across |-> across]
  OBVIOUS
<1>3. /\ tokens' = [tokens EXCEPT ![n].state = "used", ![n].by = by]
      /\ req' = [req EXCEPT ![r] = q] /\ UNCHANGED <<cookie, access, revocations>>
  BY DEF Exchange, Become
<1>4. /\ req' = [s \in Requests |-> req'[s]] /\ req'[r] = q
      /\ \A s \in Requests : s # r => req'[s] = req[s]
  BY <1>3, SlotWritten DEF SessionsInv, SessionTypeOK
<1>5. by \in Tabs \cup {None, "lost"}
  BY <1>1
<1>. PICK row : row = [tokens[n] EXCEPT !.state = "used", !.by = by]
  OBVIOUS
<1>6. /\ tokens' = [tokens EXCEPT ![n] = row] /\ row \in TokenRow
      /\ row.state = "used" /\ row.parent = tokens[n].parent
  <2>1. tokens[n] \in TokenRow
    BY <1>1
  <2>2. row \in TokenRow /\ row.state = "used" /\ row.parent = tokens[n].parent
    BY <2>1, <1>5 DEF TokenRow
  <2>3. tokens' = [tokens EXCEPT ![n] = row]
    BY <1>3
  <2>. QED  BY <2>2, <2>3
<1>7. /\ tokens'[n] = row /\ \A m \in Tokens : m # n => tokens'[m] = tokens[m]
      /\ tokens' \in [Tokens -> TokenRow]
      /\ \A m \in Tokens : tokens'[m].parent = tokens[m].parent
  BY <1>1, <1>6
<1>8. SessionTypeOK'
  BY <1>3, <1>4, <1>7 DEF SessionsInv, SessionTypeOK, TokenRow, Tokens
<1>9. \A s \in Requests : SessionRequestOK(req[s])'
  <2>1. SessionRequestOK(q)
    BY <1>1, <1>2, KindsOfRequest
  <2>2. ASSUME NEW s \in Requests  PROVE  SessionRequestOK(req[s])'
    <3>1. SessionRequestOK(req[s]) /\ SessionRequestOK(q)
      BY <2>1 DEF SessionsInv
    <3>2. SessionRequestOK(req'[s])
      BY <3>1, <1>4
    <3>. QED  BY <3>2, <1>3 DEF SessionRequestOK, Tokens
  <2>. QED  BY <2>2
<1>10. /\ \A m \in Tokens : tokens[m].parent # n
       /\ \A s \in Requests : Issuing(s) => req[s].token # n
  <2>1. n # None
    BY <1>1, SessionAssumption DEF Tokens
  <2>2. tokens[n].state # "used"
    BY <1>1
  <2>. QED  BY <2>1, <2>2 DEF SessionsInv, ExchangeOK
<1>11. ExchangeOK'
  <2>1. \A m \in Tokens : tokens'[m].parent # None => tokens'[tokens'[m].parent].state = "used"
    <3>. SUFFICES ASSUME NEW m \in Tokens, tokens'[m].parent # None
                  PROVE  tokens'[tokens'[m].parent].state = "used"
      OBVIOUS
    <3>1. /\ tokens'[m].parent = tokens[m].parent /\ tokens[m].parent \in Tokens
          /\ tokens[tokens[m].parent].state = "used"
      BY <1>7, <1>1 DEF SessionsInv, ExchangeOK, TokenRow
    <3>. QED  BY <3>1, <1>6, <1>7
  <2>2. ASSUME NEW s \in Requests, Issuing(s)', s # r
        PROVE  Issuing(s) /\ req'[s] = req[s]
    BY <1>4, <2>2 DEF Issuing, At
  <2>3. ASSUME NEW s \in Requests, Issuing(s)'
        PROVE  /\ tokens'[req'[s].token].state = "used"
               /\ \A m \in Tokens : tokens'[m].parent # req'[s].token
    <3>1. CASE s = r
      <4>1. req'[s].token = n
        BY <3>1, <1>4
      <4>. QED  BY <4>1, <1>6, <1>7, <1>10
    <3>2. CASE s # r
      <4>1. /\ req'[s] = req[s] /\ req[s].token \in Tokens
            /\ tokens[req[s].token].state = "used"
            /\ \A m \in Tokens : tokens[m].parent # req[s].token
        BY <2>2, <2>3, <3>2, RequestFields DEF SessionsInv, ExchangeOK, Issuing, At
      <4>. QED  BY <4>1, <1>6, <1>7
    <3>. QED  BY <3>1, <3>2
  <2>4. ASSUME NEW s \in Requests, NEW u \in Requests,
               Issuing(s)', Issuing(u)', req'[s].token = req'[u].token
        PROVE  s = u
    <3>1. req'[r].token = n
      BY <1>4
    <3>2. CASE s # r /\ u # r
      BY <3>2, <2>2, <2>4 DEF SessionsInv, ExchangeOK
    <3>3. CASE s = r /\ u # r
      BY <3>1, <3>3, <2>2, <2>4, <1>10
    <3>4. CASE s # r /\ u = r
      BY <3>1, <3>4, <2>2, <2>4, <1>10
    <3>. QED  BY <3>2, <3>3, <3>4
  <2>. QED  BY <2>1, <2>3, <2>4, <1>3 DEF ExchangeOK, Tokens
<1>12. CheckedOK'
  <2>1. ASSUME NEW s \in Requests, At(s, "issue")'
        PROVE  req'[s].since = revocations \/ req'[s].across
    <3>1. CASE s = r
      BY <3>1, <1>2, <1>4
    <3>2. CASE s # r
      BY <3>2, <2>1, <1>4 DEF SessionsInv, CheckedOK, At
    <3>. QED  BY <3>1, <3>2
  <2>. QED  BY <2>1, <1>3 DEF CheckedOK
<1>13. RotationOnce'
  BY <1>7, <1>3 DEF SessionsInv, RotationOnce, Tokens
<1>14. RevokedForGood'
  BY <1>3, <1>6, <1>7 DEF SessionsInv, RevokedForGood, Live, Tokens
<1>. QED  BY <1>8, <1>9, <1>11, <1>12, <1>13, <1>14 DEF SessionsInv

LEMMA ClaimKeeps ==
  ASSUME SessionsInv, NEW r \in Requests, Claim(r)
  PROVE  SessionsInv'
<1>1. CASE Live(req[r].token)
  BY <1>1, ExchangeKeeps DEF Claim
<1>2. CASE ~Live(req[r].token)
  <2>1. req[r].tab \in Tabs
    BY RequestFields DEF SessionsInv, Claim, At
  <2>2. /\ req' = [req EXCEPT ![r] = Idle] /\ UNCHANGED <<tokens, cookie, revocations>>
        /\ access' = [access EXCEPT ![req[r].tab] = None]
    BY <1>2 DEF Claim, Refused, Finish, Become
  <2>3. SessionRequestOK(Idle) /\ Idle.pc # "issue"
    BY KindsOfRequest DEF Idle
  <2>. QED  BY <2>1, <2>2, <2>3, TokensKept, HoldingsTyped
<1>. QED  BY <1>1, <1>2

-----------------------------------------------------------------------------
(* The answer of an exchange is lost: only who asked for it changes. *)

LEMMA LoseKeeps ==
  ASSUME SessionsInv, NEW r \in Requests, Lose(r)
  PROVE  SessionsInv'
<1>. DEFINE exchanging == req[r].pc \in {"issue", "answer"} /\ req[r].token # None
<1>1. req[r] # Idle /\ req' = [req EXCEPT ![r] = Idle] /\ UNCHANGED <<cookie, revocations>>
  BY DEF Lose, InFlight, Finish, Become
<1>2. req[r].tab \in Tabs
  BY <1>1, RequestFields DEF SessionsInv
<1>3. access' \in [Tabs -> Tokens \cup {None}]
  BY <1>2, HoldingsTyped DEF Lose
<1>4. SessionRequestOK(Idle) /\ Idle.pc # "issue"
  BY KindsOfRequest DEF Idle
<1>5. CASE ~exchanging
  <2>1. tokens' = tokens
    BY <1>5 DEF Lose
  <2>. QED  BY <2>1, <1>1, <1>3, <1>4, TokensKept DEF SessionsInv, SessionTypeOK, Tokens
<1>6. CASE exchanging
  <2>. PICK n : n = req[r].token
    OBVIOUS
  <2>1. n \in Tokens /\ tokens \in [Tokens -> TokenRow]
    BY <1>6, RequestFields DEF SessionsInv, SessionTypeOK
  <2>. PICK row : row = [tokens[n] EXCEPT !.by = "lost"]
    OBVIOUS
  <2>2. tokens' = [tokens EXCEPT ![n] = row] /\ row \in TokenRow
    BY <1>6, <2>1 DEF Lose, TokenRow
  <2>3. /\ row.state = tokens[n].state /\ row.parent = tokens[n].parent
        /\ row.since = tokens[n].since /\ row.across = tokens[n].across
    BY <2>1 DEF TokenRow
  <2>4. /\ tokens' \in [Tokens -> TokenRow]
        /\ \A m \in Tokens : /\ tokens'[m].state = tokens[m].state
                             /\ tokens'[m].parent = tokens[m].parent
                             /\ tokens'[m].since = tokens[m].since
                             /\ tokens'[m].across = tokens[m].across
    BY <2>1, <2>2, <2>3
  <2>5. /\ req' = [s \in Requests |-> req'[s]] /\ req'[r] = Idle
        /\ \A s \in Requests : s # r => req'[s] = req[s]
    BY <1>1, SlotWritten DEF SessionsInv, SessionTypeOK
  <2>6. SessionTypeOK'
    BY <1>1, <1>3, <2>4, <2>5 DEF SessionsInv, SessionTypeOK, TokenRow, Tokens
  <2>7. \A s \in Requests : SessionRequestOK(req[s])'
    <3>1. ASSUME NEW s \in Requests  PROVE  SessionRequestOK(req[s])'
      <4>1. SessionRequestOK(req'[s])
        BY <1>4, <2>5 DEF SessionsInv
      <4>. QED  BY <4>1, <1>1 DEF SessionRequestOK, Tokens
    <3>. QED  BY <3>1
  <2>8. \A s \in Requests : Issuing(s)' => Issuing(s) /\ req'[s] = req[s] /\ req[s].token \in Tokens
    BY <1>4, <2>5, RequestFields DEF SessionsInv, Issuing, At
  <2>9. ExchangeOK'
    <3>1. \A m \in Tokens : tokens'[m].parent # None => tokens'[tokens'[m].parent].state = "used"
      BY <2>1, <2>4 DEF SessionsInv, ExchangeOK, TokenRow
    <3>2. \A s \in Requests : Issuing(s)' =>
            /\ tokens'[req'[s].token].state = "used"
            /\ \A m \in Tokens : tokens'[m].parent # req'[s].token
      BY <2>4, <2>8 DEF SessionsInv, ExchangeOK
    <3>3. \A s, u \in Requests :
            Issuing(s)' /\ Issuing(u)' /\ req'[s].token = req'[u].token => s = u
      BY <2>8 DEF SessionsInv, ExchangeOK
    <3>. QED  BY <3>1, <3>2, <3>3 DEF ExchangeOK, Tokens
  <2>10. CheckedOK'
    BY <1>1, <1>4, <2>5 DEF SessionsInv, CheckedOK, At
  <2>11. RotationOnce'
    BY <2>4 DEF SessionsInv, RotationOnce, Tokens
  <2>12. RevokedForGood'
    BY <1>1, <2>4 DEF SessionsInv, RevokedForGood, Live, Tokens
  <2>. QED  BY <2>6, <2>7, <2>9, <2>10, <2>11, <2>12 DEF SessionsInv
<1>. QED  BY <1>5, <1>6

-----------------------------------------------------------------------------
(* Revocations: live rows are revoked, requests that checked are across. *)

LEMMA CrossedRequest ==
  ASSUME SessionsInv, NEW s \in Requests, NEW q, q = Crossed[s],
         revocations' = revocations + 1
  PROVE  /\ q.pc = req[s].pc /\ SessionRequestOK(q)'
         /\ q.pc = "issue" => q.across /\ q.token = req[s].token
         /\ q.pc # "issue" => q = req[s]
<1>1. SessionRequestOK(req[s]) /\ revocations \in Nat
  BY DEF SessionsInv, SessionTypeOK
<1>2. CASE req[s].pc = "issue"
  <2>1. req[s] \in [pc : {"issue"}, tab : Tabs, shared : BOOLEAN, token : Tokens \cup {None},
                    since : 0..revocations, across : BOOLEAN]
    BY <1>1, <1>2 DEF SessionRequestOK
  <2>2. q = [req[s] EXCEPT !.across = TRUE]
    BY <1>2 DEF Crossed, At
  <2>3. 0..revocations \subseteq 0..revocations'
    BY <1>1
  <2>4. /\ q \in [pc : {"issue"}, tab : Tabs, shared : BOOLEAN, token : Tokens \cup {None},
                  since : 0..revocations', across : BOOLEAN]
        /\ q.pc = "issue" /\ q.across /\ q.token = req[s].token
    BY <2>1, <2>2, <2>3
  <2>. QED  BY <2>4, <1>2 DEF SessionRequestOK
<1>3. CASE req[s].pc # "issue"
  <2>1. q = req[s]
    BY <1>3 DEF Crossed, At
  <2>2. SessionRequestOK(q)'
    BY <1>1, <2>1, RequestKept
  <2>. QED  BY <1>3, <2>1, <2>2
<1>. QED  BY <1>2, <1>3

LEMMA Revoking ==
  ASSUME SessionsInv, revocations' = revocations + 1, UNCHANGED <<cookie, access>>,
         tokens' = [n \in Tokens |-> tokens'[n]],
         \A n \in Tokens : tokens'[n] \in TokenRow' /\ tokens'[n].parent = tokens[n].parent,
         \A n \in Tokens : tokens[n].state = "used" => tokens'[n].state = "used",
         \A n \in Tokens : tokens'[n].state = "live" => tokens'[n].since = revocations',
         req' = [s \in Requests |-> req'[s]],
         \A s \in Requests :
           \/ req'[s] = Crossed[s]
           \/ SessionRequestOK(req'[s]) /\ req'[s].pc # "issue"
  PROVE  SessionsInv'
<1>1. ASSUME NEW s \in Requests
      PROVE  /\ SessionRequestOK(req[s])'
             /\ req'[s].pc = "issue" => /\ req[s].pc = "issue" /\ req'[s].across
                                        /\ req'[s].token = req[s].token
  <2>. PICK q : q = req'[s]
    OBVIOUS
  <2>1. /\ SessionRequestOK(q)'
        /\ q.pc = "issue" => req[s].pc = "issue" /\ q.across /\ q.token = req[s].token
    <3>1. CASE q = Crossed[s]
      BY <3>1, CrossedRequest
    <3>2. CASE SessionRequestOK(q) /\ q.pc # "issue"
      <4>1. revocations \in Nat
        BY DEF SessionsInv, SessionTypeOK
      <4>. QED  BY <3>2, <4>1, RequestKept
    <3>. QED  BY <3>1, <3>2
  <2>2. SessionRequestOK(req[s])'
    BY <2>1 DEF SessionRequestOK, Tokens
  <2>. QED  BY <2>1, <2>2
<1>2. \A s \in Requests : SessionRequestOK(req[s])'
  BY <1>1
<1>3. SessionTypeOK'
  BY DEF SessionsInv, SessionTypeOK, Tokens
<1>4. ExchangeOK'
  <2>1. \A n \in Tokens : tokens'[n].parent # None => tokens'[tokens'[n].parent].state = "used"
    <3>1. \A n \in Tokens : tokens[n].parent \in Tokens \cup {None}
      BY DEF SessionsInv, SessionTypeOK, TokenRow
    <3>. QED  BY <3>1 DEF SessionsInv, ExchangeOK
  <2>2. \A s \in Requests : Issuing(s)' => Issuing(s) /\ req'[s].token = req[s].token
    BY <1>1 DEF Issuing, At
  <2>3. \A s \in Requests : Issuing(s) => req[s].token \in Tokens
    BY RequestFields DEF SessionsInv, Issuing, At
  <2>4. \A s \in Requests : Issuing(s)' =>
          /\ tokens'[req'[s].token].state = "used"
          /\ \A n \in Tokens : tokens'[n].parent # req'[s].token
    BY <2>2, <2>3 DEF SessionsInv, ExchangeOK
  <2>5. \A s, u \in Requests :
          Issuing(s)' /\ Issuing(u)' /\ req'[s].token = req'[u].token => s = u
    BY <2>2 DEF SessionsInv, ExchangeOK
  <2>. QED  BY <2>1, <2>4, <2>5 DEF ExchangeOK, Tokens
<1>5. CheckedOK'
  BY <1>1 DEF CheckedOK, At
<1>6. RotationOnce'
  BY DEF SessionsInv, RotationOnce, Tokens
<1>7. RevokedForGood'
  BY DEF RevokedForGood, Live, Tokens
<1>. QED  BY <1>2, <1>3, <1>4, <1>5, <1>6, <1>7 DEF SessionsInv

\* The rows after a revocation, whatever it spares.
LEMMA RevokedRows ==
  ASSUME SessionsInv, NEW gone, NEW n \in Tokens, NEW row, row = Revoked(gone)[n]
  PROVE  /\ row \in TokenRow
         /\ row.parent = tokens[n].parent /\ row.by = tokens[n].by
         /\ row.since = tokens[n].since /\ row.across = tokens[n].across
         /\ n \in gone /\ tokens[n].state = "live" => row.state = "revoked"
         /\ ~(n \in gone /\ tokens[n].state = "live") => row.state = tokens[n].state
<1>1. tokens[n] \in TokenRow
  BY DEF SessionsInv, SessionTypeOK
<1>2. CASE n \in gone /\ tokens[n].state = "live"
  <2>1. row = [tokens[n] EXCEPT !.state = "revoked"]
    BY <1>2 DEF Revoked
  <2>. QED  BY <1>1, <1>2, <2>1 DEF TokenRow
<1>3. CASE ~(n \in gone /\ tokens[n].state = "live")
  <2>1. row = tokens[n]
    BY <1>3 DEF Revoked
  <2>. QED  BY <1>1, <1>3, <2>1
<1>. QED  BY <1>2, <1>3

LEMMA LaterRow ==
  ASSUME revocations \in Nat, revocations' = revocations + 1
  PROVE  TokenRow \subseteq TokenRow'
<1>1. 0..revocations \subseteq 0..revocations'
  OBVIOUS
<1>. QED  BY <1>1 DEF TokenRow, Tokens

\* Every session goes at once.
LEMMA RevokingAll ==
  ASSUME SessionsInv, tokens' = Revoked(Tokens), revocations' = revocations + 1,
         UNCHANGED <<cookie, access>>,
         req' = [s \in Requests |-> req'[s]],
         \A s \in Requests :
           \/ req'[s] = Crossed[s]
           \/ SessionRequestOK(req'[s]) /\ req'[s].pc # "issue"
  PROVE  SessionsInv'
<1>1. TokenRow \subseteq TokenRow'
  BY LaterRow DEF SessionsInv, SessionTypeOK
<1>2. tokens' = [n \in Tokens |-> tokens'[n]]
  BY DEF Revoked
<1>3. ASSUME NEW n \in Tokens
      PROVE  /\ tokens'[n] \in TokenRow' /\ tokens'[n].parent = tokens[n].parent
             /\ tokens[n].state = "used" => tokens'[n].state = "used"
             /\ tokens'[n].state # "live"
  <2>. PICK row : row = Revoked(Tokens)[n]
    OBVIOUS
  <2>1. row \in TokenRow /\ row.parent = tokens[n].parent
        /\ (tokens[n].state = "used" => row.state = "used") /\ row.state # "live"
    BY RevokedRows
  <2>. QED  BY <1>1, <2>1
<1>. QED  BY <1>2, <1>3, Revoking

LEMMA CrossedIsFunction ==
  /\ Crossed = [s \in Requests |-> Crossed[s]]
  /\ \A r \in Requests : \A q :
       LET after == [Crossed EXCEPT ![r] = q]
       IN  /\ after = [s \in Requests |-> after[s]] /\ after[r] = q
           /\ \A s \in Requests : s # r => after[s] = Crossed[s]
BY DEF Crossed

LEMMA RevokeAllKeeps ==
  ASSUME SessionsInv, NEW status, RevokeAll(status)
  PROVE  SessionsInv'
BY RevokingAll, CrossedIsFunction DEF RevokeAll

LEMMA SignInInactiveKeeps ==
  ASSUME SessionsInv, SignInInactive
  PROVE  SessionsInv'
BY RevokingAll, CrossedIsFunction DEF SignInInactive

LEMMA LogoutKeeps ==
  ASSUME SessionsInv, NEW r \in Requests, NEW t \in Tabs, Logout(r, t)
  PROVE  SessionsInv'
<1>. PICK n : n = cookie[BrowserOf[t]]
  OBVIOUS
<1>. PICK q : q = [pc |-> "clear", tab |-> t, shared |-> FALSE]
  OBVIOUS
<1>1. SessionRequestOK(q) /\ q.pc # "issue"
  BY KindsOfRequest
<1>2. CASE n = None
  <2>1. /\ tokens' = Revoked(Tokens) /\ revocations' = revocations + 1
        /\ UNCHANGED <<cookie, access>> /\ req' = [Crossed EXCEPT ![r] = q]
    BY <1>2 DEF Logout
  <2>. QED  BY <1>1, <2>1, CrossedIsFunction, RevokingAll
<1>3. CASE n # None
  <2>1. /\ tokens' = Revoked({n}) /\ req' = [req EXCEPT ![r] = q]
        /\ UNCHANGED <<cookie, access, revocations>>
    BY <1>3 DEF Logout, Become
  <2>2. /\ req' = [s \in Requests |-> req'[s]] /\ req'[r] = q
        /\ \A s \in Requests : s # r => req'[s] = req[s]
    BY <2>1, SlotWritten DEF SessionsInv, SessionTypeOK
  <2>3. ASSUME NEW m \in Tokens
        PROVE  /\ tokens'[m] \in TokenRow /\ tokens'[m].parent = tokens[m].parent
               /\ tokens'[m].since = tokens[m].since /\ tokens'[m].across = tokens[m].across
               /\ tokens[m].state = "used" => tokens'[m].state = "used"
               /\ tokens'[m].state = "live" => tokens[m].state = "live"
    <3>. PICK row : row = Revoked({n})[m]
      OBVIOUS
    <3>1. /\ row \in TokenRow /\ row.parent = tokens[m].parent
          /\ row.since = tokens[m].since /\ row.across = tokens[m].across
          /\ tokens[m].state = "used" => row.state = "used"
          /\ row.state = "live" => tokens[m].state = "live"
      BY RevokedRows
    <3>. QED  BY <2>1, <3>1
  <2>4. tokens' \in [Tokens -> TokenRow]
    BY <2>1, <2>3 DEF Revoked
  <2>5. SessionTypeOK'
    BY <2>1, <2>2, <2>4 DEF SessionsInv, SessionTypeOK, TokenRow, Tokens
  <2>6. \A s \in Requests : SessionRequestOK(req[s])'
    <3>1. ASSUME NEW s \in Requests  PROVE  SessionRequestOK(req[s])'
      <4>1. SessionRequestOK(req'[s])
        BY <1>1, <2>2 DEF SessionsInv
      <4>. QED  BY <4>1, <2>1 DEF SessionRequestOK, Tokens
    <3>. QED  BY <3>1
  <2>7. \A s \in Requests : Issuing(s)' => Issuing(s) /\ req'[s] = req[s] /\ req[s].token \in Tokens
    BY <1>1, <2>2, RequestFields DEF SessionsInv, Issuing, At
  <2>8. ExchangeOK'
    <3>1. \A m \in Tokens : tokens'[m].parent # None => tokens'[tokens'[m].parent].state = "used"
      <4>1. \A m \in Tokens : tokens[m].parent \in Tokens \cup {None}
        BY DEF SessionsInv, SessionTypeOK, TokenRow
      <4>. QED  BY <4>1, <2>3 DEF SessionsInv, ExchangeOK
    <3>2. \A s \in Requests : Issuing(s)' =>
            /\ tokens'[req'[s].token].state = "used"
            /\ \A m \in Tokens : tokens'[m].parent # req'[s].token
      BY <2>3, <2>7 DEF SessionsInv, ExchangeOK
    <3>3. \A s, u \in Requests :
            Issuing(s)' /\ Issuing(u)' /\ req'[s].token = req'[u].token => s = u
      BY <2>7 DEF SessionsInv, ExchangeOK
    <3>. QED  BY <3>1, <3>2, <3>3 DEF ExchangeOK, Tokens
  <2>9. CheckedOK'
    BY <1>1, <2>1, <2>2 DEF SessionsInv, CheckedOK, At
  <2>10. RotationOnce'
    BY <2>3 DEF SessionsInv, RotationOnce, Tokens
  <2>11. RevokedForGood'
    BY <2>1, <2>3 DEF SessionsInv, RevokedForGood, Live, Tokens
  <2>. QED  BY <2>5, <2>6, <2>8, <2>9, <2>10, <2>11 DEF SessionsInv
<1>. QED  BY <1>2, <1>3

LEMMA RevokeOthersKeeps ==
  ASSUME SessionsInv, NEW r \in Requests, RevokeOthers(r)
  PROVE  SessionsInv'
<1>. PICK kept : kept = req[r].token
  OBVIOUS
<1>1. /\ revocations' = revocations + 1 /\ UNCHANGED <<cookie, access>>
      /\ tokens' = [n \in Tokens |-> IF n = kept THEN [tokens[n] EXCEPT !.since = revocations + 1]
                                     ELSE Revoked(Tokens)[n]]
      /\ req' = [Crossed EXCEPT ![r] = Idle]
  BY DEF RevokeOthers
<1>2. TokenRow \subseteq TokenRow' /\ revocations \in Nat /\ revocations' \in Nat
  BY <1>1, LaterRow DEF SessionsInv, SessionTypeOK
<1>3. tokens' = [n \in Tokens |-> tokens'[n]]
  BY <1>1
<1>4. ASSUME NEW n \in Tokens
      PROVE  /\ tokens'[n] \in TokenRow' /\ tokens'[n].parent = tokens[n].parent
             /\ tokens[n].state = "used" => tokens'[n].state = "used"
             /\ tokens'[n].state = "live" => tokens'[n].since = revocations'
  <2>1. CASE n = kept
    <3>. PICK row : row = [tokens[n] EXCEPT !.since = revocations']
      OBVIOUS
    <3>1. tokens'[n] = row
      BY <1>1, <2>1
    <3>2. tokens[n] \in TokenRow /\ tokens[n] \in TokenRow'
      BY <1>2 DEF SessionsInv, SessionTypeOK
    <3>3. revocations' \in 0..revocations'
      BY <1>2
    <3>4. /\ row \in TokenRow' /\ row.parent = tokens[n].parent
          /\ row.state = tokens[n].state /\ row.since = revocations'
      BY <3>2, <3>3 DEF TokenRow
    <3>. QED  BY <3>1, <3>4
  <2>2. CASE n # kept
    <3>. PICK row : row = Revoked(Tokens)[n]
      OBVIOUS
    <3>1. tokens'[n] = row
      BY <1>1, <2>2
    <3>2. row \in TokenRow /\ row.parent = tokens[n].parent
          /\ (tokens[n].state = "used" => row.state = "used") /\ row.state # "live"
      BY RevokedRows
    <3>. QED  BY <1>2, <3>1, <3>2
  <2>. QED  BY <2>1, <2>2
<1>5. /\ req' = [s \in Requests |-> req'[s]] /\ req'[r] = Idle
      /\ \A s \in Requests : s # r => req'[s] = Crossed[s]
  BY <1>1, CrossedIsFunction
<1>6. SessionRequestOK(Idle) /\ Idle.pc # "issue"
  BY KindsOfRequest DEF Idle
<1>. QED  BY <1>1, <1>3, <1>4, <1>5, <1>6, Revoking

LEMMA ReactivateKeeps ==
  ASSUME SessionsInv, UNCHANGED <<tokens, cookie, access, revocations, req>>
  PROVE  SessionsInv'
<1>. USE DEF SessionsInv
<1>1. SessionTypeOK' /\ \A r \in Requests : SessionRequestOK(req[r])'
  BY DEF SessionTypeOK, SessionRequestOK, TokenRow, Tokens
<1>2. ExchangeOK' /\ CheckedOK'
  BY DEF ExchangeOK, CheckedOK, Issuing, At, Tokens
<1>3. RotationOnce' /\ RevokedForGood'
  BY DEF RotationOnce, RevokedForGood, Live, Tokens
<1>. QED  BY <1>1, <1>2, <1>3

LEMMA SessionsStart == InitSlots /\ SessionsInit => SessionsInv
<1>. SUFFICES ASSUME InitSlots, SessionsInit  PROVE SessionsInv
  OBVIOUS
<1>1. SessionTypeOK
  <2>1. NoToken \in TokenRow
    BY DEF SessionsInit, TokenRow, NoToken
  <2>. QED  BY <2>1 DEF InitSlots, SessionsInit, SessionTypeOK
<1>2. \A r \in Requests : req[r] = Idle /\ SessionRequestOK(req[r]) /\ req[r].pc = "idle"
  BY KindsOfRequest DEF InitSlots, Idle
<1>3. ExchangeOK /\ CheckedOK
  BY <1>2 DEF SessionsInit, NoToken, ExchangeOK, CheckedOK, Issuing, At
<1>4. RotationOnce /\ RevokedForGood
  BY DEF SessionsInit, NoToken, RotationOnce, RevokedForGood, Live
<1>. QED  BY <1>1, <1>2, <1>3, <1>4 DEF SessionsInv

LEMMA SessionsStep == SessionsInv /\ SessionsNext => SessionsInv'
<1>. SUFFICES ASSUME SessionsInv, SessionsNext  PROVE SessionsInv'
  OBVIOUS
<1>1. ASSUME NEW r \in Requests, NEW t \in Tabs,
             \/ SignIn(r, t) \/ SaveProfile(r, t) \/ SharedRefresh(r, t) \/ SessionRefresh(r, t)
             \/ Logout(r, t) \/ ChangePassword(r, t)
      PROVE  SessionsInv'
  BY <1>1, SignInKeeps, SaveProfileKeeps, ValidateKeeps, LogoutKeeps, ChangePasswordKeeps
     DEF SharedRefresh, SessionRefresh
<1>2. ASSUME NEW r \in Requests,
             \/ Issue(r) \/ Answer(r) \/ Lose(r) \/ Claim(r) \/ ClearCookie(r) \/ RevokeOthers(r)
      PROVE  SessionsInv'
  BY <1>2, IssueKeeps, AnswerKeeps, LoseKeeps, ClaimKeeps, ClearCookieKeeps, RevokeOthersKeeps
<1>3. ASSUME NEW status, RevokeAll(status)  PROVE SessionsInv'
  BY <1>3, RevokeAllKeeps
<1>4. CASE SignInInactive
  BY <1>4, SignInInactiveKeeps
<1>5. CASE Reactivate
  BY <1>5, ReactivateKeeps DEF Reactivate
<1>. QED  BY <1>1, <1>2, <1>3, <1>4, <1>5 DEF SessionsNext

-----------------------------------------------------------------------------
(* Tabs and browsers. Most steps leave the exchanges alone: a request      *)
(* stays, or is across a revocation, or begins or ends without a token.    *)

BrowsersInv == LosersInv /\ CookieInv

Follows(s) == \/ req'[s] = req[s]
              \/ At(s, "issue") /\ req'[s] = [req[s] EXCEPT !.across = TRUE]
Free(s) == req[s].pc \in {"issue", "answer"} => req[s].token = None
Harmless(s) == /\ req'[s].pc \notin {"claim", "answer"}
               /\ req'[s].pc = "issue" => req'[s].token = None
               /\ req'[s] # Idle => ~req'[s].shared

LEMMA AcrossOnly ==
  ASSUME NEW q, SessionRequestOK(q), q.pc = "issue", NEW p, p = [q EXCEPT !.across = TRUE]
  PROVE  p.pc = "issue" /\ p.tab = q.tab /\ p.shared = q.shared /\ p.token = q.token
<1>1. q \in [pc : {"issue"}, tab : Tabs, shared : BOOLEAN, token : Tokens \cup {None},
             since : 0..revocations, across : BOOLEAN]
  BY DEF SessionRequestOK
<1>. QED  BY <1>1

LEMMA Following ==
  ASSUME BrowsersInv, SessionsInv',
         \A b \in Browsers : cookie'[b] \in {cookie[b], None},
         \A n \in Tokens :
           /\ tokens'[n].by = tokens[n].by
           /\ \/ tokens'[n].state = tokens[n].state
              \/ tokens[n].state = "live" /\ tokens'[n].state = "revoked",
         \A s \in Requests : Follows(s) \/ (Free(s) /\ Harmless(s))
  PROVE  BrowsersInv'
<1>0. /\ SessionsInv /\ None \notin Tokens
      /\ \A b \in Browsers : cookie[b] \in Tokens \cup {None}
      /\ \A n \in Tokens : tokens[n].by \in Tabs \cup {None, "lost"}
  BY SessionAssumption
     DEF BrowsersInv, LosersInv, SessionsInv, SessionTypeOK, TokenRow, Tokens
<1>1. ASSUME NEW s \in Requests
      PROVE  /\ \A t \in Tabs : RefreshingIn(s, t)' => RefreshingIn(s, t)
             /\ At(s, "claim")' => req'[s] = req[s]
             /\ \A n \in Tokens : Presented(s, n)' => Presented(s, n) /\ req'[s].tab = req[s].tab
             /\ At(s, "answer")' => req'[s] = req[s]
             /\ \A n \in Tokens : req[s].pc \in {"issue", "answer"} /\ req[s].token = n =>
                  req'[s].pc \in {"issue", "answer"} /\ req'[s].token = n
  <2>1. CASE req'[s] = req[s]
    BY <2>1 DEF RefreshingIn, InFlight, Presented
  <2>2. CASE At(s, "issue") /\ req'[s] = [req[s] EXCEPT !.across = TRUE]
    <3>. PICK p : p = [req[s] EXCEPT !.across = TRUE]
      OBVIOUS
    <3>1. /\ req[s].pc = "issue" /\ p.pc = "issue" /\ p.tab = req[s].tab
          /\ p.shared = req[s].shared /\ p.token = req[s].token
      BY <2>2, <1>0, AcrossOnly DEF SessionsInv, At
    <3>2. req'[s] = p /\ req[s] # Idle /\ p # Idle
      <4>1. Idle.pc = "idle"
        BY DEF Idle
      <4>. QED  BY <2>2, <3>1, <4>1
    <3>3. \A t \in Tabs : RefreshingIn(s, t)' => RefreshingIn(s, t)
      BY <3>1, <3>2 DEF RefreshingIn, InFlight
    <3>4. /\ ~At(s, "claim")' /\ ~At(s, "answer")'
          /\ req'[s].pc = "issue" /\ req'[s].tab = req[s].tab /\ req'[s].token = req[s].token
      BY <3>1, <3>2 DEF At
    <3>. QED  BY <3>1, <3>3, <3>4 DEF Presented
  <2>3. CASE Free(s) /\ Harmless(s)
    <3>1. req'[s].pc \notin {"claim", "answer"} /\ (req'[s].pc = "issue" => req'[s].token = None)
          /\ (req'[s] # Idle => ~req'[s].shared)
      BY <2>3 DEF Harmless
    <3>2. req[s].pc \in {"issue", "answer"} => req[s].token = None
      BY <2>3 DEF Free
    <3>. QED  BY <3>1, <3>2, <1>0 DEF RefreshingIn, InFlight, Presented, At
  <2>. QED  BY <2>1, <2>2, <2>3 DEF Follows
<1>2. SingleFlight'
  BY <1>1 DEF BrowsersInv, LosersInv, SingleFlight
<1>3. ByOK'
  BY DEF BrowsersInv, LosersInv, ByOK, Tokens
<1>4. LosesOnlyToOthers'
  <2>1. ASSUME NEW s \in Requests, At(s, "claim")', req'[s].shared
        PROVE  tokens'[req'[s].token].by # req'[s].tab
    <3>1. req'[s] = req[s] /\ At(s, "claim") /\ req[s].token \in Tokens
      BY <1>0, <1>1, <2>1, RequestFields DEF SessionsInv, At
    <3>2. tokens[req[s].token].by # req[s].tab
      BY <2>1, <3>1 DEF BrowsersInv, LosersInv, LosesOnlyToOthers
    <3>. QED  BY <3>1, <3>2
  <2>. QED  BY <2>1 DEF LosesOnlyToOthers
<1>5. HoldersOK'
  BY <1>0, <1>1 DEF BrowsersInv, CookieInv, HoldersOK, Tokens
<1>6. FreshOK'
  <2>1. ASSUME NEW s \in Requests, At(s, "answer")'
        PROVE  /\ tokens'[req'[s].fresh].state \in {"live", "revoked"}
               /\ req'[s].token # None => tokens'[req'[s].token].state = "used"
               /\ \A b \in Browsers : cookie'[b] # req'[s].fresh
               /\ \A u \in Requests : At(u, "answer")' /\ req'[u].fresh = req'[s].fresh => s = u
               /\ \A u \in Requests : ~Presented(u, req[s].fresh)'
    <3>1. req'[s] = req[s] /\ At(s, "answer") /\ req[s].fresh \in Tokens
      BY <1>0, <1>1, <2>1, RequestFields DEF SessionsInv, At
    <3>2. /\ tokens[req[s].fresh].state \in {"live", "revoked"}
          /\ \A b \in Browsers : cookie[b] # req[s].fresh
          /\ \A u \in Requests : At(u, "answer") /\ req[u].fresh = req[s].fresh => s = u
          /\ \A u \in Requests : ~Presented(u, req[s].fresh)
      BY <3>1 DEF BrowsersInv, CookieInv, FreshOK
    <3>3. \A u \in Requests : ~(req'[u].pc \in {"claim", "issue", "answer"} /\ req'[u].token = req[s].fresh)
      BY <1>1, <3>1, <3>2 DEF Presented
    <3>4. req'[s].fresh = req[s].fresh /\ tokens'[req[s].fresh].state \in {"live", "revoked"}
      BY <3>1, <3>2
    <3>5. \A b \in Browsers : cookie'[b] # req[s].fresh
      BY <1>0, <3>1, <3>2
    <3>6. \A u \in Requests : At(u, "answer")' /\ req'[u].fresh = req[s].fresh => s = u
      BY <1>1, <3>2 DEF At
    <3>7. \A u \in Requests : ~Presented(u, req[s].fresh)'
      BY <3>3, <3>4 DEF Presented
    <3>8. req[s].token # None => tokens'[req[s].token].state = "used"
      <4>1. req[s].token \in Tokens \cup {None}
        BY <1>0, <3>1, RequestFields DEF SessionsInv, At
      <4>2. req[s].token # None => tokens[req[s].token].state = "used"
        BY <3>1 DEF BrowsersInv, CookieInv, FreshOK
      <4>. QED  BY <4>1, <4>2
    <3>. QED  BY <3>1, <3>4, <3>5, <3>6, <3>7, <3>8
  <2>. QED  BY <2>1 DEF FreshOK
<1>7. CookieIsLive'
  <2>1. ASSUME NEW b \in Browsers, cookie'[b] # None, tokens'[cookie'[b]].state = "used"
        PROVE  \/ \E s \in Requests : req'[s].pc \in {"issue", "answer"} /\ req'[s].token = cookie'[b]
               \/ tokens'[cookie'[b]].by = "lost"
    <3>1. cookie'[b] = cookie[b] /\ cookie[b] \in Tokens
      BY <1>0, <2>1
    <3>2. tokens[cookie[b]].state = "used"
      BY <2>1, <3>1
    <3>3. \/ \E s \in Requests : req[s].pc \in {"issue", "answer"} /\ req[s].token = cookie[b]
          \/ tokens[cookie[b]].by = "lost"
      BY <2>1, <3>1, <3>2 DEF BrowsersInv, CookieInv, CookieIsLive
    <3>. QED  BY <1>1, <3>1, <3>3
  <2>. QED  BY <2>1 DEF CookieIsLive
<1>. QED  BY <1>2, <1>3, <1>4, <1>5, <1>6, <1>7 DEF BrowsersInv, LosersInv, CookieInv

LEMMA BrowsersTyped ==
  ASSUME BrowsersInv
  PROVE  /\ SessionsInv /\ None \notin Tokens
         /\ tokens \in [Tokens -> TokenRow]
         /\ \A b \in Browsers : cookie[b] \in Tokens \cup {None}
         /\ \A t \in Tabs : BrowserOf[t] \in Browsers
         /\ req = [s \in Requests |-> req[s]]
BY SessionAssumption DEF BrowsersInv, LosersInv, SessionsInv, SessionTypeOK, Tokens

LEMMA OneFollows ==
  ASSUME NEW r \in Requests, NEW q, req = [s \in Requests |-> req[s]],
         req' = [req EXCEPT ![r] = q], Free(r),
         q.pc \notin {"claim", "answer"}, q.pc = "issue" => q.token = None,
         q # Idle => ~q.shared
  PROVE  \A s \in Requests : Follows(s) \/ (Free(s) /\ Harmless(s))
<1>1. req'[r] = q /\ \A s \in Requests : s # r => req'[s] = req[s]
  BY SlotWritten
<1>. QED  BY <1>1 DEF Follows, Harmless

LEMMA CrossedFollows ==
  ASSUME NEW s \in Requests, req'[s] = Crossed[s]
  PROVE  Follows(s)
BY DEF Follows, Crossed, At

LEMMA RevokedFollows ==
  ASSUME BrowsersInv, NEW gone, NEW n \in Tokens, NEW row, row = Revoked(gone)[n]
  PROVE  /\ row.by = tokens[n].by
         /\ \/ row.state = tokens[n].state
            \/ tokens[n].state = "live" /\ row.state = "revoked"
BY RevokedRows, BrowsersTyped

LEMMA StartBrowses ==
  ASSUME BrowsersInv, SessionsInv', NEW r \in Requests, NEW q,
         At(r, "idle"), req' = [req EXCEPT ![r] = q], UNCHANGED <<tokens, cookie>>,
         q.pc \notin {"claim", "answer"}, q.pc = "issue" => q.token = None, ~q.shared
  PROVE  BrowsersInv'
<1>1. Free(r)
  BY DEF Free, At
<1>2. \A s \in Requests : Follows(s) \/ (Free(s) /\ Harmless(s))
  BY <1>1, OneFollows, BrowsersTyped
<1>. QED  BY <1>2, Following

LEMMA SignInBrowses ==
  ASSUME BrowsersInv, SessionsInv', NEW r \in Requests, NEW t \in Tabs,
         SignIn(r, t) \/ SaveProfile(r, t) \/ ChangePassword(r, t)
  PROVE  BrowsersInv'
<1>0. At(r, "idle") /\ UNCHANGED <<tokens, cookie>>
  BY DEF SignIn, SaveProfile, ChangePassword, sessionVars
<1>1. CASE SignIn(r, t)
  <2>. PICK q : q = [pc |-> "issue", tab |-> t, shared |-> FALSE, token |-> None,
                     since |-> revocations, across |-> FALSE]
    OBVIOUS
  <2>1. req' = [req EXCEPT ![r] = q]
    BY <1>1 DEF SignIn, MayIssue, Become
  <2>2. q.pc = "issue" /\ q.token = None /\ ~q.shared
    OBVIOUS
  <2>. QED  BY <1>0, <2>1, <2>2, StartBrowses
<1>2. CASE SaveProfile(r, t)
  <2>. PICK since : since = tokens[access[t]].since
    OBVIOUS
  <2>. PICK across : across = (tokens[access[t]].across \/ tokens[access[t]].since < revocations)
    OBVIOUS
  <2>. PICK q : q = [pc |-> "issue", tab |-> t, shared |-> FALSE, token |-> None,
                     since |-> since, across |-> across]
    OBVIOUS
  <2>1. req' = [req EXCEPT ![r] = q]
    BY <1>2 DEF SaveProfile, MayIssue, Become
  <2>2. q.pc = "issue" /\ q.token = None /\ ~q.shared
    OBVIOUS
  <2>. QED  BY <1>0, <2>1, <2>2, StartBrowses
<1>3. CASE ChangePassword(r, t)
  <2>. PICK q : q = [pc |-> "revokeOthers", tab |-> t, shared |-> FALSE,
                     token |-> cookie[BrowserOf[t]]]
    OBVIOUS
  <2>1. req' = [req EXCEPT ![r] = q]
    BY <1>3 DEF ChangePassword, Become
  <2>2. q.pc = "revokeOthers" /\ ~q.shared
    OBVIOUS
  <2>. QED  BY <1>0, <2>1, <2>2, StartBrowses
<1>. QED  BY <1>1, <1>2, <1>3

LEMMA ClearCookieBrowses ==
  ASSUME BrowsersInv, SessionsInv', NEW r \in Requests, ClearCookie(r)
  PROVE  BrowsersInv'
<1>1. req' = [req EXCEPT ![r] = Idle] /\ UNCHANGED tokens /\ Free(r)
  BY DEF ClearCookie, Finish, Become, Free, At
<1>2. \A b \in Browsers : cookie'[b] \in {cookie[b], None}
  BY BrowsersTyped DEF ClearCookie, SessionsInv, SessionTypeOK
<1>3. \A s \in Requests : Follows(s) \/ (Free(s) /\ Harmless(s))
  BY <1>1, OneFollows, BrowsersTyped DEF Idle
<1>. QED  BY <1>1, <1>2, <1>3, Following

LEMMA RevocationBrowses ==
  ASSUME BrowsersInv, SessionsInv', NEW status,
         RevokeAll(status) \/ SignInInactive \/ Reactivate
  PROVE  BrowsersInv'
<1>1. CASE Reactivate
  <2>1. \A s \in Requests : Follows(s)
    BY <1>1 DEF Reactivate, Follows
  <2>. QED  BY <1>1, <2>1, Following DEF Reactivate
<1>2. CASE RevokeAll(status) \/ SignInInactive
  <2>1. tokens' = Revoked(Tokens) /\ req' = Crossed /\ UNCHANGED cookie
    BY <1>2 DEF RevokeAll, SignInInactive
  <2>2. \A s \in Requests : Follows(s)
    BY <2>1, CrossedFollows
  <2>. QED  BY <2>1, <2>2, RevokedFollows, Following
<1>. QED  BY <1>1, <1>2

LEMMA LogoutBrowses ==
  ASSUME BrowsersInv, SessionsInv', NEW r \in Requests, NEW t \in Tabs, Logout(r, t)
  PROVE  BrowsersInv'
<1>. PICK q : q = [pc |-> "clear", tab |-> t, shared |-> FALSE]
  OBVIOUS
<1>. PICK n : n = cookie[BrowserOf[t]]
  OBVIOUS
<1>1. q.pc = "clear" /\ ~q.shared /\ Free(r) /\ UNCHANGED cookie
  BY DEF Logout, Free, At
<1>2. CASE n # None
  <2>1. tokens' = Revoked({n}) /\ req' = [req EXCEPT ![r] = q]
    BY <1>2 DEF Logout, Become
  <2>2. \A s \in Requests : Follows(s) \/ (Free(s) /\ Harmless(s))
    BY <1>1, <2>1, OneFollows, BrowsersTyped
  <2>. QED  BY <1>1, <2>1, <2>2, RevokedFollows, Following
<1>3. CASE n = None
  <2>1. tokens' = Revoked(Tokens) /\ req' = [Crossed EXCEPT ![r] = q]
    BY <1>3 DEF Logout
  <2>2. req'[r] = q /\ \A s \in Requests : s # r => req'[s] = Crossed[s]
    BY <2>1, CrossedIsFunction
  <2>3. \A s \in Requests : Follows(s) \/ (Free(s) /\ Harmless(s))
    BY <1>1, <2>2, CrossedFollows DEF Harmless
  <2>. QED  BY <1>1, <2>1, <2>3, RevokedFollows, Following
<1>. QED  BY <1>2, <1>3

LEMMA RevokeOthersBrowses ==
  ASSUME BrowsersInv, SessionsInv', NEW r \in Requests, RevokeOthers(r)
  PROVE  BrowsersInv'
<1>. PICK kept : kept = req[r].token
  OBVIOUS
<1>1. /\ UNCHANGED cookie
      /\ tokens' = [n \in Tokens |-> IF n = kept THEN [tokens[n] EXCEPT !.since = revocations + 1]
                                     ELSE Revoked(Tokens)[n]]
      /\ req' = [Crossed EXCEPT ![r] = Idle]
      /\ Free(r)
  BY DEF RevokeOthers, Free, At
<1>2. ASSUME NEW n \in Tokens
      PROVE  /\ tokens'[n].by = tokens[n].by
             /\ \/ tokens'[n].state = tokens[n].state
                \/ tokens[n].state = "live" /\ tokens'[n].state = "revoked"
  <2>1. CASE n = kept
    <3>. PICK row : row = [tokens[n] EXCEPT !.since = revocations + 1]
      OBVIOUS
    <3>1. tokens[n] \in TokenRow
      BY BrowsersTyped
    <3>2. row.by = tokens[n].by /\ row.state = tokens[n].state
      BY <3>1 DEF TokenRow
    <3>. QED  BY <1>1, <2>1, <3>2
  <2>2. CASE n # kept
    <3>. PICK row : row = Revoked(Tokens)[n]
      OBVIOUS
    <3>1. tokens'[n] = row
      BY <1>1, <2>2
    <3>. QED  BY <3>1, RevokedFollows
  <2>. QED  BY <2>1, <2>2
<1>3. req'[r] = Idle /\ \A s \in Requests : s # r => req'[s] = Crossed[s]
  BY <1>1, CrossedIsFunction
<1>4. \A s \in Requests : Follows(s) \/ (Free(s) /\ Harmless(s))
  BY <1>1, <1>3, CrossedFollows DEF Harmless, Idle
<1>. QED  BY <1>1, <1>2, <1>4, Following

-----------------------------------------------------------------------------
(* A refresh, from the token the browser shows to the one it is answered.   *)

LEMMA ValidateBrowses ==
  ASSUME BrowsersInv, SessionsInv', NEW r \in Requests, NEW t \in Tabs, NEW shared \in BOOLEAN,
         Validate(r, t, shared), shared => ~Refreshing(t)
  PROVE  BrowsersInv'
<1>. PICK n : n = cookie[BrowserOf[t]]
  OBVIOUS
<1>0. /\ At(r, "idle") /\ req[r] = Idle /\ req[r].pc = "idle" /\ UNCHANGED <<tokens, cookie>>
  BY RequestFields, BrowsersTyped DEF SessionsInv, Validate, At
<1>1. CASE ~(Live(n) /\ accountStatus = "ACTIVE")
  <2>1. \A s \in Requests : Follows(s)
    BY <1>1 DEF Validate, Follows
  <2>. QED  BY <1>0, <2>1, Following
<1>2. CASE Live(n) /\ accountStatus = "ACTIVE"
  <2>. PICK q : q = [pc |-> "claim", tab |-> t, shared |-> shared, token |-> n]
    OBVIOUS
  <2>1. req' = [req EXCEPT ![r] = q]
    BY <1>2 DEF Validate, Become
  <2>2. /\ req'[r] = q /\ \A s \in Requests : s # r => req'[s] = req[s]
        /\ q.pc = "claim" /\ q.tab = t /\ (q.shared <=> shared) /\ q.token = n
    BY <2>1, SlotWritten, BrowsersTyped
  <2>3. n \in Tokens /\ tokens[n].state = "live" /\ n # None
    BY <1>2, BrowsersTyped DEF Live
  <2>4. SingleFlight'
    <3>1. ASSUME NEW s \in Requests, NEW u \in Tabs, RefreshingIn(s, u)'
          PROVE  RefreshingIn(s, u) \/ (s = r /\ u = t /\ shared)
      BY <2>2, <3>1 DEF RefreshingIn, InFlight
    <3>2. \A s \in Requests : shared => ~RefreshingIn(s, t)
      BY DEF Refreshing
    <3>. QED  BY <3>1, <3>2 DEF BrowsersInv, LosersInv, SingleFlight
  <2>5. ByOK'
    BY <1>0 DEF BrowsersInv, LosersInv, ByOK, Tokens
  <2>6. LosesOnlyToOthers'
    <3>1. tokens[n].by # t
      BY <2>3, SessionAssumption DEF BrowsersInv, LosersInv, ByOK
    <3>. QED  BY <1>0, <2>2, <3>1 DEF BrowsersInv, LosersInv, LosesOnlyToOthers, At
  <2>7. HoldersOK'
    <3>1. ASSUME NEW b \in Browsers, cookie[b] = n  PROVE b = BrowserOf[t]
      BY <2>3, <3>1, BrowsersTyped DEF BrowsersInv, CookieInv, HoldersOK
    <3>2. ASSUME NEW s \in Requests, NEW m \in Tokens, Presented(s, m)'
          PROVE  /\ tokens[m].state # "none"
                 /\ \A b \in Browsers : cookie[b] = m => b = BrowserOf[req'[s].tab]
      <4>1. CASE s = r
        BY <2>2, <2>3, <3>1, <3>2, <4>1 DEF Presented
      <4>2. CASE s # r
        BY <2>2, <3>2, <4>2 DEF Presented, BrowsersInv, CookieInv, HoldersOK
      <4>. QED  BY <4>1, <4>2
    <3>. QED  BY <1>0, <3>2 DEF BrowsersInv, CookieInv, HoldersOK, Tokens
  <2>8. FreshOK'
    <3>1. ASSUME NEW s \in Requests, At(s, "answer")'
          PROVE  s # r /\ req'[s] = req[s] /\ At(s, "answer") /\ n # req[s].fresh
      <4>1. s # r /\ req'[s] = req[s] /\ At(s, "answer")
        BY <2>2, <3>1 DEF At
      <4>. QED  BY <4>1, BrowsersTyped DEF BrowsersInv, CookieInv, FreshOK
    <3>2. ASSUME NEW s \in Requests, At(s, "answer")', NEW u \in Requests
          PROVE  ~(req'[u].pc \in {"claim", "issue", "answer"} /\ req'[u].token = req[s].fresh)
      <4>1. CASE u = r
        BY <2>2, <3>1, <3>2, <4>1
      <4>2. CASE u # r
        BY <2>2, <3>1, <3>2, <4>2 DEF BrowsersInv, CookieInv, FreshOK, Presented
      <4>. QED  BY <4>1, <4>2
    <3>. QED  BY <1>0, <3>1, <3>2 DEF BrowsersInv, CookieInv, FreshOK, Presented
  <2>9. CookieIsLive'
    BY <1>0, <2>2 DEF BrowsersInv, CookieInv, CookieIsLive
  <2>. QED  BY <2>4, <2>5, <2>6, <2>7, <2>8, <2>9 DEF BrowsersInv, LosersInv, CookieInv
<1>. QED  BY <1>1, <1>2

LEMMA ClaimBrowses ==
  ASSUME BrowsersInv, SessionsInv', NEW r \in Requests, Claim(r)
  PROVE  BrowsersInv'
<1>. PICK n : n = req[r].token
  OBVIOUS
<1>0. /\ req[r].pc = "claim" /\ At(r, "claim") /\ n \in Tokens /\ UNCHANGED cookie
      /\ n # None /\ req[r].tab \in Tabs /\ req[r].shared \in BOOLEAN /\ req[r] # Idle
  BY RequestFields, BrowsersTyped DEF SessionsInv, Claim, At, Idle
<1>1. CASE ~Live(n)
  <2>1. req' = [req EXCEPT ![r] = Idle] /\ UNCHANGED tokens /\ Free(r)
    BY <1>0, <1>1 DEF Claim, Finish, Become, Free
  <2>2. \A s \in Requests : Follows(s) \/ (Free(s) /\ Harmless(s))
    BY <2>1, OneFollows, BrowsersTyped DEF Idle
  <2>. QED  BY <1>0, <2>1, <2>2, Following
<1>2. CASE Live(n)
  <2>. PICK by : by = IF req[r].shared THEN req[r].tab ELSE None
    OBVIOUS
  <2>. PICK since : since = tokens[n].since
    OBVIOUS
  <2>. PICK across : across = tokens[n].across
    OBVIOUS
  <2>. PICK q : q = [pc |-> "issue", tab |-> req[r].tab, shared |-> req[r].shared, token |-> n,
                     since |-> since, across |-> across]
    OBVIOUS
  <2>. PICK row : row = [tokens[n] EXCEPT !.state = "used", !.by = by]
    OBVIOUS
  <2>1. /\ tokens' = [tokens EXCEPT ![n] = row] /\ req' = [req EXCEPT ![r] = q]
    <3>1. tokens' = [tokens EXCEPT ![n].state = "used", ![n].by = by]
      BY <1>2 DEF Claim, Exchange
    <3>2. req' = [req EXCEPT ![r] = q]
      BY <1>2 DEF Claim, Exchange, Become
    <3>. QED  BY <3>1, <3>2
  <2>2. row.state = "used" /\ row.by = by /\ tokens[n].state = "live"
    BY <1>0, <1>2, BrowsersTyped DEF TokenRow, Live
  <2>3. /\ tokens'[n] = row /\ \A m \in Tokens : m # n => tokens'[m] = tokens[m]
    BY <1>0, <2>1, BrowsersTyped
  <2>4. /\ req'[r] = q /\ \A s \in Requests : s # r => req'[s] = req[s]
        /\ q.pc = "issue" /\ q.tab = req[r].tab /\ q.shared = req[r].shared /\ q.token = n
        /\ q # Idle
    <3>1. Idle.pc = "idle"
      BY DEF Idle
    <3>. QED  BY <2>1, <3>1, SlotWritten, BrowsersTyped
  <2>5. ASSUME NEW s \in Requests
        PROVE  /\ \A t \in Tabs : RefreshingIn(s, t)' => RefreshingIn(s, t)
               /\ \A m : Presented(s, m)' => Presented(s, m) /\ req'[s].tab = req[s].tab
    <3>1. CASE s = r
      BY <1>0, <2>4, <3>1 DEF RefreshingIn, InFlight, Presented
    <3>2. CASE s # r
      BY <2>4, <3>2 DEF RefreshingIn, InFlight, Presented
    <3>. QED  BY <3>1, <3>2
  <2>6. SingleFlight'
    BY <2>5 DEF BrowsersInv, LosersInv, SingleFlight
  <2>7. ByOK'
    <3>1. ASSUME NEW m \in Tokens, tokens'[m].state \in {"none", "live"}
          PROVE  tokens'[m].by = None
      <4>1. m # n
        BY <2>2, <2>3, <3>1
      <4>. QED  BY <2>3, <3>1, <4>1 DEF BrowsersInv, LosersInv, ByOK
    <3>. QED  BY <3>1 DEF ByOK, Tokens
  <2>8. LosesOnlyToOthers'
    <3>1. ASSUME NEW s \in Requests, At(s, "claim")', req'[s].shared
          PROVE  tokens'[req'[s].token].by # req'[s].tab
      <4>1. /\ s # r /\ req'[s] = req[s] /\ At(s, "claim") /\ req[s].token \in Tokens
            /\ req[s].tab \in Tabs /\ req[s] # Idle /\ req[s].shared
        <5>1. s # r /\ req'[s] = req[s] /\ req[s].pc = "claim" /\ req[s].shared
          BY <2>4, <3>1 DEF At
        <5>2. Idle.pc = "idle"
          BY DEF Idle
        <5>. QED  BY <5>1, <5>2, RequestFields, BrowsersTyped DEF SessionsInv, At
      <4>2. CASE req[s].token # n
        <5>1. tokens[req[s].token].by # req[s].tab
          BY <4>1 DEF BrowsersInv, LosersInv, LosesOnlyToOthers
        <5>. QED  BY <2>3, <4>1, <4>2, <5>1
      <4>3. CASE req[s].token = n
        <5>1. CASE req[r].shared
          <6>1. req[r].tab # req[s].tab
            BY <1>0, <4>1, <5>1 DEF BrowsersInv, LosersInv, SingleFlight, RefreshingIn, InFlight
          <6>2. tokens'[n].by = req[r].tab
            BY <2>2, <2>3, <5>1
          <6>. QED  BY <4>1, <4>3, <6>1, <6>2
        <5>2. CASE ~req[r].shared
          <6>1. tokens'[n].by = None
            BY <2>2, <2>3, <5>2
          <6>2. req[s].tab # None
            BY <4>1, SessionAssumption
          <6>. QED  BY <4>1, <4>3, <6>1, <6>2
        <5>. QED  BY <5>1, <5>2
      <4>. QED  BY <4>2, <4>3
    <3>. QED  BY <3>1 DEF LosesOnlyToOthers
  <2>9. HoldersOK'
    <3>1. \A m \in Tokens : tokens[m].state # "none" => tokens'[m].state # "none"
      BY <2>2, <2>3
    <3>2. ASSUME NEW s \in Requests, NEW m \in Tokens, Presented(s, m)'
          PROVE  /\ tokens'[m].state # "none"
                 /\ \A b \in Browsers : cookie'[b] = m => b = BrowserOf[req'[s].tab]
      <4>1. Presented(s, m) /\ req'[s].tab = req[s].tab
        BY <2>5, <3>2
      <4>. QED  BY <1>0, <3>1, <4>1 DEF BrowsersInv, CookieInv, HoldersOK
    <3>3. \A b \in Browsers : cookie'[b] # None => tokens'[cookie'[b]].state # "none"
      BY <1>0, <3>1, BrowsersTyped DEF BrowsersInv, CookieInv, HoldersOK
    <3>. QED  BY <1>0, <3>2, <3>3 DEF BrowsersInv, CookieInv, HoldersOK, Tokens
  <2>10. FreshOK'
    <3>1. ASSUME NEW s \in Requests, At(s, "answer")'
          PROVE  /\ s # r /\ req'[s] = req[s] /\ At(s, "answer") /\ n # req[s].fresh
                 /\ req[s].fresh \in Tokens /\ req[s].token \in Tokens \cup {None}
                 /\ req[s].token # n
      <4>1. /\ s # r /\ req'[s] = req[s] /\ At(s, "answer") /\ req[s].fresh \in Tokens
            /\ req[s].token \in Tokens \cup {None}
        BY <2>4, <3>1, RequestFields, BrowsersTyped DEF SessionsInv, At
      <4>2. Presented(r, n)
        BY <1>0 DEF Presented
      <4>3. req[s].token # None => tokens[req[s].token].state = "used"
        BY <4>1 DEF BrowsersInv, CookieInv, FreshOK
      <4>. QED  BY <1>0, <2>2, <4>1, <4>2, <4>3 DEF BrowsersInv, CookieInv, FreshOK
    <3>2. ASSUME NEW s \in Requests, At(s, "answer")', NEW u \in Requests
          PROVE  /\ At(u, "answer")' /\ req'[u].fresh = req'[s].fresh => s = u
                 /\ ~Presented(u, req[s].fresh)'
      <4>1. ~Presented(u, req[s].fresh) /\ req'[s] = req[s]
        BY <3>1, <3>2 DEF BrowsersInv, CookieInv, FreshOK
      <4>2. ~(req'[u].pc \in {"claim", "issue", "answer"} /\ req'[u].token = req[s].fresh)
        BY <1>0, <2>4, <4>1 DEF Presented
      <4>3. At(u, "answer")' => At(u, "answer") /\ req'[u] = req[u]
        BY <3>1, <3>2
      <4>4. At(u, "answer") /\ req[u].fresh = req[s].fresh => s = u
        BY <3>1, <3>2 DEF BrowsersInv, CookieInv, FreshOK
      <4>. QED  BY <4>1, <4>2, <4>3, <4>4 DEF Presented
    <3>3. ASSUME NEW s \in Requests, At(s, "answer")'
          PROVE  /\ tokens'[req'[s].fresh].state \in {"live", "revoked"}
                 /\ req'[s].token # None => tokens'[req'[s].token].state = "used"
                 /\ \A b \in Browsers : cookie'[b] # req'[s].fresh
      BY <1>0, <2>3, <3>1, <3>3 DEF BrowsersInv, CookieInv, FreshOK
    <3>. QED  BY <3>2, <3>3 DEF FreshOK
  <2>11. CookieIsLive'
    <3>1. ASSUME NEW b \in Browsers, cookie'[b] # None, tokens'[cookie'[b]].state = "used"
          PROVE  \/ \E s \in Requests : req'[s].pc \in {"issue", "answer"} /\ req'[s].token = cookie'[b]
                 \/ tokens'[cookie'[b]].by = "lost"
      <4>1. CASE cookie[b] = n
        BY <1>0, <2>4, <4>1
      <4>2. CASE cookie[b] # n
        <5>1. cookie[b] \in Tokens /\ cookie'[b] = cookie[b] /\ tokens'[cookie[b]] = tokens[cookie[b]]
          BY <1>0, <2>3, <3>1, <4>2, BrowsersTyped
        <5>2. \/ \E s \in Requests : req[s].pc \in {"issue", "answer"} /\ req[s].token = cookie[b]
              \/ tokens[cookie[b]].by = "lost"
          BY <3>1, <5>1 DEF BrowsersInv, CookieInv, CookieIsLive
        <5>3. \A s \in Requests : req[s].pc \in {"issue", "answer"} => req'[s] = req[s]
          BY <1>0, <2>4
        <5>. QED  BY <5>1, <5>2, <5>3
      <4>. QED  BY <4>1, <4>2
    <3>. QED  BY <3>1 DEF CookieIsLive
  <2>. QED  BY <2>6, <2>7, <2>8, <2>9, <2>10, <2>11 DEF BrowsersInv, LosersInv, CookieInv
<1>. QED  BY <1>1, <1>2

LEMMA IssueBrowses ==
  ASSUME BrowsersInv, SessionsInv', NEW r \in Requests, Issue(r)
  PROVE  BrowsersInv'
<1>. PICK n \in Tokens :
       /\ tokens[n].state = "none"
       /\ tokens' = [tokens EXCEPT ![n] =
            [state |-> "live", parent |-> req[r].token, by |-> None,
             since |-> req[r].since, across |-> req[r].across]]
       /\ Become(r, [pc |-> "answer", tab |-> req[r].tab, shared |-> req[r].shared,
                     token |-> req[r].token, fresh |-> n])
  BY DEF Issue
<1>. PICK row : row = [state |-> "live", parent |-> req[r].token, by |-> None,
                       since |-> req[r].since, across |-> req[r].across]
  OBVIOUS
<1>. PICK q : q = [pc |-> "answer", tab |-> req[r].tab, shared |-> req[r].shared,
                   token |-> req[r].token, fresh |-> n]
  OBVIOUS
<1>0. /\ req[r].pc = "issue" /\ At(r, "issue") /\ UNCHANGED cookie
      /\ n # None /\ req[r].tab \in Tabs /\ req[r].token \in Tokens \cup {None} /\ req[r] # Idle
  <2>1. At(r, "issue") /\ UNCHANGED cookie /\ Idle.pc = "idle"
    BY DEF Issue, Idle
  <2>. QED  BY <2>1, RequestFields, BrowsersTyped DEF SessionsInv, At
<1>1. tokens' = [tokens EXCEPT ![n] = row] /\ req' = [req EXCEPT ![r] = q]
  BY DEF Become
<1>2. /\ tokens'[n] = row /\ \A m \in Tokens : m # n => tokens'[m] = tokens[m]
      /\ row.state = "live" /\ row.by = None /\ tokens[n].state = "none"
  BY <1>1, BrowsersTyped
<1>3. /\ req'[r] = q /\ \A s \in Requests : s # r => req'[s] = req[s]
      /\ q.pc = "answer" /\ q.tab = req[r].tab /\ q.shared = req[r].shared
      /\ q.token = req[r].token /\ q.fresh = n /\ q # Idle
  <2>1. Idle.pc = "idle"
    BY DEF Idle
  <2>. QED  BY <1>1, <2>1, SlotWritten, BrowsersTyped
<1>4. ASSUME NEW s \in Requests
      PROVE  /\ \A t \in Tabs : RefreshingIn(s, t)' => RefreshingIn(s, t)
             /\ \A m : Presented(s, m)' => Presented(s, m) /\ req'[s].tab = req[s].tab
             /\ ~Presented(s, n)
  <2>0. ~Presented(s, n)
    BY <1>2 DEF BrowsersInv, CookieInv, HoldersOK
  <2>1. CASE s = r
    <3>1. /\ req'[s].pc = "answer" /\ req'[s].tab = req[s].tab /\ req'[s].token = req[s].token
          /\ req'[s].shared = req[s].shared /\ req[s].pc = "issue" /\ req[s] # Idle
      BY <1>0, <1>3, <2>1
    <3>2. \A t \in Tabs : RefreshingIn(s, t)' => RefreshingIn(s, t)
      BY <3>1 DEF RefreshingIn, InFlight
    <3>3. \A m : Presented(s, m)' => Presented(s, m) /\ req'[s].tab = req[s].tab
      BY <3>1 DEF Presented
    <3>. QED  BY <2>0, <3>2, <3>3
  <2>2. CASE s # r
    <3>1. req'[s] = req[s]
      BY <1>3, <2>2
    <3>2. \A t \in Tabs : RefreshingIn(s, t)' => RefreshingIn(s, t)
      BY <3>1 DEF RefreshingIn, InFlight
    <3>3. \A m : Presented(s, m)' => Presented(s, m) /\ req'[s].tab = req[s].tab
      BY <3>1 DEF Presented
    <3>. QED  BY <2>0, <3>2, <3>3
  <2>. QED  BY <2>1, <2>2
<1>5. \A b \in Browsers : cookie[b] # n
  BY <1>0, <1>2 DEF BrowsersInv, CookieInv, HoldersOK
<1>6. req[r].token # None => req[r].token # n /\ tokens[req[r].token].state = "used"
  BY <1>0, <1>2 DEF BrowsersInv, CookieInv, SessionsInv, ExchangeOK, Issuing
<1>7. SingleFlight'
  BY <1>4 DEF BrowsersInv, LosersInv, SingleFlight
<1>8. ByOK'
  <2>1. ASSUME NEW m \in Tokens, tokens'[m].state \in {"none", "live"}
        PROVE  tokens'[m].by = None
    <3>1. CASE m = n
      BY <1>2, <3>1
    <3>2. CASE m # n
      BY <1>2, <2>1, <3>2 DEF BrowsersInv, LosersInv, ByOK
    <3>. QED  BY <3>1, <3>2
  <2>. QED  BY <2>1 DEF ByOK, Tokens
<1>9. LosesOnlyToOthers'
  <2>1. ASSUME NEW s \in Requests, At(s, "claim")', req'[s].shared
        PROVE  tokens'[req'[s].token].by # req'[s].tab
    <3>1. /\ s # r /\ req'[s] = req[s] /\ At(s, "claim") /\ req[s].token \in Tokens
          /\ req[s].shared
      BY <1>3, <2>1, RequestFields, BrowsersTyped DEF SessionsInv, At
    <3>2. req[s].token # n
      BY <1>4, <3>1 DEF Presented, At
    <3>3. tokens[req[s].token].by # req[s].tab
      BY <3>1 DEF BrowsersInv, LosersInv, LosesOnlyToOthers
    <3>. QED  BY <1>2, <3>1, <3>2, <3>3
  <2>. QED  BY <2>1 DEF LosesOnlyToOthers
<1>10. HoldersOK'
  <2>1. \A m \in Tokens : tokens[m].state # "none" => tokens'[m].state # "none"
    BY <1>2
  <2>2. ASSUME NEW s \in Requests, NEW m \in Tokens, Presented(s, m)'
        PROVE  /\ tokens'[m].state # "none"
               /\ \A b \in Browsers : cookie'[b] = m => b = BrowserOf[req'[s].tab]
    <3>1. Presented(s, m) /\ req'[s].tab = req[s].tab
      BY <1>4, <2>2
    <3>. QED  BY <1>0, <2>1, <3>1 DEF BrowsersInv, CookieInv, HoldersOK
  <2>3. \A b \in Browsers : cookie'[b] # None => tokens'[cookie'[b]].state # "none"
    BY <1>0, <2>1, BrowsersTyped DEF BrowsersInv, CookieInv, HoldersOK
  <2>. QED  BY <1>0, <2>2, <2>3 DEF BrowsersInv, CookieInv, HoldersOK, Tokens
<1>11. FreshOK'
  <2>1. ASSUME NEW s \in Requests, s # r, At(s, "answer")'
        PROVE  /\ req'[s] = req[s] /\ At(s, "answer")
               /\ req[s].fresh \in Tokens /\ req[s].token \in Tokens \cup {None}
               /\ tokens[req[s].fresh].state \in {"live", "revoked"}
               /\ req[s].token # None => tokens[req[s].token].state = "used"
               /\ req[s].fresh # n /\ req[s].token # n
    <3>1. /\ req'[s] = req[s] /\ At(s, "answer")
          /\ req[s].fresh \in Tokens /\ req[s].token \in Tokens \cup {None}
      BY <1>3, <2>1, RequestFields, BrowsersTyped DEF SessionsInv, At
    <3>2. /\ tokens[req[s].fresh].state \in {"live", "revoked"}
          /\ req[s].token # None => tokens[req[s].token].state = "used"
      BY <3>1 DEF BrowsersInv, CookieInv, FreshOK
    <3>. QED  BY <1>0, <1>2, <3>1, <3>2
  <2>2. ASSUME NEW s \in Requests, At(s, "answer")'
        PROVE  /\ tokens'[req'[s].fresh].state \in {"live", "revoked"}
               /\ req'[s].token # None => tokens'[req'[s].token].state = "used"
               /\ \A b \in Browsers : cookie'[b] # req'[s].fresh
    <3>1. CASE s = r
      BY <1>0, <1>2, <1>3, <1>5, <1>6, <3>1
    <3>2. CASE s # r
      <4>1. \A b \in Browsers : cookie[b] # req[s].fresh
        BY <2>1, <2>2, <3>2 DEF BrowsersInv, CookieInv, FreshOK
      <4>. QED  BY <1>0, <1>2, <2>1, <2>2, <3>2, <4>1
    <3>. QED  BY <3>1, <3>2
  <2>3. ASSUME NEW s \in Requests, At(s, "answer")', NEW u \in Requests
        PROVE  At(u, "answer")' /\ req'[u].fresh = req'[s].fresh => s = u
    <3>1. CASE s # r /\ u # r
      BY <2>1, <2>3, <3>1 DEF BrowsersInv, CookieInv, FreshOK
    <3>2. CASE s = r \/ u = r
      BY <1>3, <2>1, <2>3, <3>2
    <3>. QED  BY <3>1, <3>2
  <2>4. ASSUME NEW s \in Requests, At(s, "answer")', NEW u \in Requests,
               req'[u].pc \in {"claim", "issue", "answer"}
        PROVE  req'[u].token # req'[s].fresh
    <3>1. req[u].pc \in {"claim", "issue", "answer"} /\ req'[u].token = req[u].token
      BY <1>0, <1>3, <2>4
    <3>2. CASE s = r
      BY <1>3, <1>4, <3>1, <3>2 DEF Presented
    <3>3. CASE s # r
      BY <2>1, <2>4, <3>1, <3>3 DEF BrowsersInv, CookieInv, FreshOK, Presented
    <3>. QED  BY <3>2, <3>3
  <2>. QED  BY <2>2, <2>3, <2>4 DEF FreshOK, Presented
<1>12. CookieIsLive'
  <2>1. ASSUME NEW b \in Browsers, cookie'[b] # None, tokens'[cookie'[b]].state = "used"
        PROVE  \/ \E s \in Requests : req'[s].pc \in {"issue", "answer"} /\ req'[s].token = cookie'[b]
               \/ tokens'[cookie'[b]].by = "lost"
    <3>1. cookie[b] \in Tokens /\ cookie'[b] = cookie[b] /\ tokens'[cookie[b]] = tokens[cookie[b]]
      BY <1>0, <1>2, <1>5, <2>1, BrowsersTyped
    <3>2. \/ \E s \in Requests : req[s].pc \in {"issue", "answer"} /\ req[s].token = cookie[b]
          \/ tokens[cookie[b]].by = "lost"
      BY <2>1, <3>1 DEF BrowsersInv, CookieInv, CookieIsLive
    <3>3. \A s \in Requests : req[s].pc \in {"issue", "answer"} =>
            req'[s].pc \in {"issue", "answer"} /\ req'[s].token = req[s].token
      BY <1>3
    <3>. QED  BY <3>1, <3>2, <3>3
  <2>. QED  BY <2>1 DEF CookieIsLive
<1>. QED  BY <1>7, <1>8, <1>9, <1>10, <1>11, <1>12 DEF BrowsersInv, LosersInv, CookieInv

LEMMA AnswerBrowses ==
  ASSUME BrowsersInv, SessionsInv', NEW r \in Requests, Answer(r)
  PROVE  BrowsersInv'
<1>. PICK n : n = req[r].fresh
  OBVIOUS
<1>. PICK b0 : b0 = BrowserOf[req[r].tab]
  OBVIOUS
<1>0. /\ req[r].pc = "answer" /\ At(r, "answer") /\ n \in Tokens /\ n # None
      /\ req[r].tab \in Tabs /\ b0 \in Browsers /\ req[r].token \in Tokens \cup {None}
  <2>1. At(r, "answer")
    BY DEF Answer
  <2>. QED  BY <2>1, RequestFields, BrowsersTyped DEF SessionsInv, At
<1>1. /\ cookie' = [cookie EXCEPT ![b0] = n] /\ req' = [req EXCEPT ![r] = Idle]
      /\ UNCHANGED tokens
  BY DEF Answer, Finish, Become
<1>2. cookie'[b0] = n /\ \A b \in Browsers : b # b0 => cookie'[b] = cookie[b]
  BY <1>0, <1>1 DEF BrowsersInv, LosersInv, SessionsInv, SessionTypeOK
<1>3. /\ req'[r] = Idle /\ \A s \in Requests : s # r => req'[s] = req[s]
      /\ Idle.pc = "idle"
  BY <1>1, SlotWritten, BrowsersTyped DEF Idle
<1>4. /\ tokens[n].state \in {"live", "revoked"}
      /\ \A b \in Browsers : cookie[b] # n
      /\ \A s \in Requests : ~Presented(s, n)
      /\ \A s \in Requests : At(s, "answer") /\ req[s].fresh = n => s = r
  BY <1>0 DEF BrowsersInv, CookieInv, FreshOK
<1>5. ASSUME NEW s \in Requests, req'[s] # Idle
      PROVE  s # r /\ req'[s] = req[s]
  BY <1>3, <1>5
<1>6. SingleFlight'
  BY <1>5 DEF BrowsersInv, LosersInv, SingleFlight, RefreshingIn, InFlight
<1>7. ByOK'
  BY <1>1 DEF BrowsersInv, LosersInv, ByOK, Tokens
<1>8. LosesOnlyToOthers'
  <2>1. ASSUME NEW s \in Requests, At(s, "claim")', req'[s].shared
        PROVE  tokens'[req'[s].token].by # req'[s].tab
    <3>1. req'[s] = req[s] /\ At(s, "claim")
      BY <1>3, <2>1 DEF At
    <3>2. tokens[req[s].token].by # req[s].tab
      BY <2>1, <3>1 DEF BrowsersInv, LosersInv, LosesOnlyToOthers
    <3>. QED  BY <1>1, <3>1, <3>2
  <2>. QED  BY <2>1 DEF LosesOnlyToOthers
<1>9. HoldersOK'
  <2>1. \A b \in Browsers : cookie'[b] # None => tokens'[cookie'[b]].state # "none"
    BY <1>1, <1>2, <1>4 DEF BrowsersInv, CookieInv, HoldersOK
  <2>2. \A b, c \in Browsers : cookie'[b] = cookie'[c] /\ cookie'[b] # None => b = c
    BY <1>2, <1>4 DEF BrowsersInv, CookieInv, HoldersOK
  <2>3. ASSUME NEW s \in Requests, NEW m \in Tokens, Presented(s, m)'
        PROVE  /\ tokens'[m].state # "none"
               /\ \A b \in Browsers : cookie'[b] = m => b = BrowserOf[req'[s].tab]
    <3>1. req'[s] = req[s] /\ Presented(s, m)
      BY <1>3, <2>3 DEF Presented
    <3>2. m # n
      BY <1>4, <3>1
    <3>. QED  BY <1>1, <1>2, <3>1, <3>2 DEF BrowsersInv, CookieInv, HoldersOK
  <2>. QED  BY <2>1, <2>2, <2>3 DEF HoldersOK, Tokens
<1>10. FreshOK'
  <2>1. ASSUME NEW s \in Requests, At(s, "answer")'
        PROVE  /\ req'[s] = req[s] /\ At(s, "answer") /\ s # r
               /\ tokens[req[s].fresh].state \in {"live", "revoked"}
               /\ req[s].token # None => tokens[req[s].token].state = "used"
               /\ \A b \in Browsers : cookie[b] # req[s].fresh
               /\ req[s].fresh # n
    <3>1. req'[s] = req[s] /\ At(s, "answer") /\ s # r
      BY <1>3, <2>1 DEF At
    <3>. QED  BY <1>4, <3>1 DEF BrowsersInv, CookieInv, FreshOK
  <2>2. ASSUME NEW s \in Requests, At(s, "answer")'
        PROVE  /\ tokens'[req'[s].fresh].state \in {"live", "revoked"}
               /\ req'[s].token # None => tokens'[req'[s].token].state = "used"
               /\ \A b \in Browsers : cookie'[b] # req'[s].fresh
    BY <1>1, <1>2, <2>1, <2>2
  <2>3. ASSUME NEW s \in Requests, At(s, "answer")', NEW u \in Requests
        PROVE  At(u, "answer")' /\ req'[u].fresh = req'[s].fresh => s = u
    BY <2>1, <2>3 DEF BrowsersInv, CookieInv, FreshOK
  <2>4. ASSUME NEW s \in Requests, At(s, "answer")', NEW u \in Requests,
               req'[u].pc \in {"claim", "issue", "answer"}
        PROVE  req'[u].token # req'[s].fresh
    <3>1. req'[u] = req[u]
      BY <1>3, <2>4
    <3>. QED  BY <2>1, <2>4, <3>1 DEF BrowsersInv, CookieInv, FreshOK, Presented
  <2>. QED  BY <2>2, <2>3, <2>4 DEF FreshOK, Presented
<1>11. CookieIsLive'
  <2>1. ASSUME NEW b \in Browsers, cookie'[b] # None, tokens'[cookie'[b]].state = "used"
        PROVE  \/ \E s \in Requests : req'[s].pc \in {"issue", "answer"} /\ req'[s].token = cookie'[b]
               \/ tokens'[cookie'[b]].by = "lost"
    <3>1. b # b0 /\ cookie'[b] = cookie[b] /\ cookie[b] \in Tokens
      BY <1>1, <1>2, <1>4, <2>1, BrowsersTyped
    <3>2. \/ \E s \in Requests : req[s].pc \in {"issue", "answer"} /\ req[s].token = cookie[b]
          \/ tokens[cookie[b]].by = "lost"
      BY <1>1, <2>1, <3>1 DEF BrowsersInv, CookieInv, CookieIsLive
    <3>3. ASSUME req[r].token = cookie[b]  PROVE FALSE
      <4>1. Presented(r, cookie[b])
        BY <1>0, <3>3 DEF Presented
      <4>. QED  BY <3>1, <4>1 DEF BrowsersInv, CookieInv, HoldersOK
    <3>4. \A s \in Requests : req[s].token = cookie[b] => req'[s] = req[s]
      BY <1>3, <3>3
    <3>. QED  BY <1>1, <3>1, <3>2, <3>4
  <2>. QED  BY <2>1 DEF CookieIsLive
<1>. QED  BY <1>6, <1>7, <1>8, <1>9, <1>10, <1>11 DEF BrowsersInv, LosersInv, CookieInv

LEMMA LoseBrowses ==
  ASSUME BrowsersInv, SessionsInv', NEW r \in Requests, Lose(r)
  PROVE  BrowsersInv'
<1>. PICK n : n = req[r].token
  OBVIOUS
<1>0. /\ req' = [req EXCEPT ![r] = Idle] /\ UNCHANGED cookie
      /\ req'[r] = Idle /\ \A s \in Requests : s # r => req'[s] = req[s]
      /\ Idle.pc = "idle"
  <2>1. req' = [req EXCEPT ![r] = Idle] /\ UNCHANGED cookie
    BY DEF Lose, Finish, Become
  <2>. QED  BY <2>1, SlotWritten, BrowsersTyped DEF Idle
<1>1. CASE ~(req[r].pc \in {"issue", "answer"} /\ n # None)
  <2>1. UNCHANGED tokens /\ Free(r)
    BY <1>1 DEF Lose, Free
  <2>2. \A s \in Requests : Follows(s) \/ (Free(s) /\ Harmless(s))
    BY <1>0, <2>1, OneFollows, BrowsersTyped
  <2>. QED  BY <1>0, <2>1, <2>2, Following
<1>2. CASE req[r].pc \in {"issue", "answer"} /\ n # None
  <2>1. /\ n \in Tokens /\ n # None /\ req[r].tab \in Tabs
        /\ tokens' = [tokens EXCEPT ![n].by = "lost"]
    BY <1>2, RequestFields, BrowsersTyped DEF SessionsInv, Lose
  <2>2. tokens[n].state = "used"
    BY <1>2 DEF BrowsersInv, CookieInv, FreshOK, SessionsInv, ExchangeOK, Issuing, At
  <2>. PICK row : row = [tokens[n] EXCEPT !.by = "lost"]
    OBVIOUS
  <2>3. /\ tokens'[n] = row /\ \A m \in Tokens : m # n => tokens'[m] = tokens[m]
        /\ row.by = "lost" /\ row.state = "used"
    BY <2>1, <2>2, BrowsersTyped DEF TokenRow
  <2>4. \A m \in Tokens : tokens'[m].state = tokens[m].state
    BY <2>2, <2>3
  <2>5. ASSUME NEW s \in Requests, req'[s].pc # "idle"
        PROVE  s # r /\ req'[s] = req[s]
    BY <1>0, <2>5
  <2>6. SingleFlight'
    BY <1>0 DEF BrowsersInv, LosersInv, SingleFlight, RefreshingIn, InFlight
  <2>7. ByOK'
    BY <2>2, <2>3 DEF BrowsersInv, LosersInv, ByOK, Tokens
  <2>8. LosesOnlyToOthers'
    <3>1. ASSUME NEW s \in Requests, At(s, "claim")', req'[s].shared
          PROVE  tokens'[req'[s].token].by # req'[s].tab
      <4>1. /\ req'[s] = req[s] /\ At(s, "claim") /\ req[s].token \in Tokens
            /\ req[s].tab \in Tabs
        BY <2>5, <3>1, RequestFields, BrowsersTyped DEF SessionsInv, At
      <4>2. tokens[req[s].token].by # req[s].tab /\ req[s].tab # "lost"
        BY <3>1, <4>1, SessionAssumption DEF BrowsersInv, LosersInv, LosesOnlyToOthers
      <4>3. CASE req[s].token = n
        <5>1. tokens'[n].by = "lost"
          BY <2>3
        <5>. QED  BY <4>1, <4>2, <4>3, <5>1
      <4>4. CASE req[s].token # n
        BY <2>3, <4>1, <4>2, <4>4
      <4>. QED  BY <4>3, <4>4
    <3>. QED  BY <3>1 DEF LosesOnlyToOthers
  <2>9. HoldersOK'
    <3>1. ASSUME NEW s \in Requests, NEW m \in Tokens, Presented(s, m)'
          PROVE  /\ tokens'[m].state # "none"
                 /\ \A b \in Browsers : cookie'[b] = m => b = BrowserOf[req'[s].tab]
      <4>1. req'[s] = req[s] /\ Presented(s, m)
        BY <2>5, <3>1 DEF Presented
      <4>. QED  BY <1>0, <2>4, <4>1 DEF BrowsersInv, CookieInv, HoldersOK
    <3>2. \A b \in Browsers : cookie'[b] # None => tokens'[cookie'[b]].state # "none"
      BY <1>0, <2>4, BrowsersTyped DEF BrowsersInv, CookieInv, HoldersOK
    <3>. QED  BY <1>0, <3>1, <3>2 DEF BrowsersInv, CookieInv, HoldersOK, Tokens
  <2>10. FreshOK'
    <3>1. ASSUME NEW s \in Requests, At(s, "answer")'
          PROVE  /\ req'[s] = req[s] /\ At(s, "answer")
                 /\ tokens'[req[s].fresh].state \in {"live", "revoked"}
                 /\ req[s].token # None => tokens'[req[s].token].state = "used"
                 /\ \A b \in Browsers : cookie[b] # req[s].fresh
      <4>1. /\ req'[s] = req[s] /\ At(s, "answer")
            /\ req[s].fresh \in Tokens /\ req[s].token \in Tokens \cup {None}
        BY <2>5, <3>1, RequestFields, BrowsersTyped DEF SessionsInv, At
      <4>. QED  BY <2>4, <4>1 DEF BrowsersInv, CookieInv, FreshOK
    <3>2. ASSUME NEW s \in Requests, At(s, "answer")', NEW u \in Requests
          PROVE  At(u, "answer")' /\ req'[u].fresh = req'[s].fresh => s = u
      BY <3>1, <3>2 DEF BrowsersInv, CookieInv, FreshOK
    <3>3. ASSUME NEW s \in Requests, At(s, "answer")', NEW u \in Requests,
                 req'[u].pc \in {"claim", "issue", "answer"}
          PROVE  req'[u].token # req'[s].fresh
      <4>1. req'[u] = req[u]
        BY <2>5, <3>3
      <4>. QED  BY <3>1, <3>3, <4>1 DEF BrowsersInv, CookieInv, FreshOK, Presented
    <3>. QED  BY <1>0, <3>1, <3>2, <3>3 DEF FreshOK, Presented
  <2>11. CookieIsLive'
    <3>1. ASSUME NEW b \in Browsers, cookie'[b] # None, tokens'[cookie'[b]].state = "used"
          PROVE  \/ \E s \in Requests : req'[s].pc \in {"issue", "answer"} /\ req'[s].token = cookie'[b]
                 \/ tokens'[cookie'[b]].by = "lost"
      <4>1. CASE cookie[b] = n
        BY <1>0, <2>3, <4>1
      <4>2. CASE cookie[b] # n
        <5>1. cookie[b] \in Tokens /\ cookie'[b] = cookie[b] /\ tokens'[cookie[b]] = tokens[cookie[b]]
          BY <1>0, <2>3, <3>1, <4>2, BrowsersTyped
        <5>2. \/ \E s \in Requests : req[s].pc \in {"issue", "answer"} /\ req[s].token = cookie[b]
              \/ tokens[cookie[b]].by = "lost"
          BY <3>1, <5>1 DEF BrowsersInv, CookieInv, CookieIsLive
        <5>3. \A s \in Requests : req[s].token = cookie[b] => req'[s] = req[s]
          BY <1>0, <4>2
        <5>. QED  BY <5>1, <5>2, <5>3
      <4>. QED  BY <4>1, <4>2
    <3>. QED  BY <3>1 DEF CookieIsLive
  <2>. QED  BY <2>6, <2>7, <2>8, <2>9, <2>10, <2>11 DEF BrowsersInv, LosersInv, CookieInv
<1>. QED  BY <1>1, <1>2

-----------------------------------------------------------------------------
(* The invariant of tabs and browsers *)

LEMMA BrowsersStart == InitSlots /\ SessionsInit => BrowsersInv
<1>. SUFFICES ASSUME InitSlots, SessionsInit  PROVE BrowsersInv
  OBVIOUS
<1>1. SessionsInv
  BY SessionsStart
<1>2. /\ \A s \in Requests : req[s] = Idle /\ req[s].pc = "idle"
      /\ \A b \in Browsers : cookie[b] = None
      /\ \A n \in Tokens : tokens[n].by = None
  BY DEF InitSlots, SessionsInit, NoToken, Idle
<1>3. SingleFlight /\ ByOK /\ LosesOnlyToOthers
  BY <1>2 DEF SingleFlight, RefreshingIn, InFlight, ByOK, LosesOnlyToOthers, At
<1>4. HoldersOK
  BY <1>2 DEF HoldersOK, Presented
<1>5. FreshOK /\ CookieIsLive
  BY <1>2 DEF FreshOK, CookieIsLive, At
<1>. QED  BY <1>1, <1>3, <1>4, <1>5 DEF BrowsersInv, LosersInv, CookieInv

LEMMA BrowsersStep == BrowsersInv /\ SessionsNext => BrowsersInv'
<1>. SUFFICES ASSUME BrowsersInv, SessionsNext  PROVE BrowsersInv'
  OBVIOUS
<1>0. SessionsInv'
  BY SessionsStep, BrowsersTyped
<1>1. ASSUME NEW r \in Requests, NEW t \in Tabs,
             \/ SignIn(r, t) \/ SaveProfile(r, t) \/ SharedRefresh(r, t) \/ SessionRefresh(r, t)
             \/ Logout(r, t) \/ ChangePassword(r, t)
      PROVE  BrowsersInv'
  <2>1. CASE SignIn(r, t) \/ SaveProfile(r, t) \/ ChangePassword(r, t)
    BY <1>0, <2>1, SignInBrowses
  <2>2. CASE SharedRefresh(r, t)
    <3>1. ~Refreshing(t) /\ Validate(r, t, TRUE)
      BY <2>2 DEF SharedRefresh
    <3>. QED  BY <1>0, <3>1, ValidateBrowses
  <2>3. CASE SessionRefresh(r, t)
    <3>1. Validate(r, t, FALSE)
      BY <2>3 DEF SessionRefresh
    <3>. QED  BY <1>0, <3>1, ValidateBrowses
  <2>4. CASE Logout(r, t)
    BY <1>0, <2>4, LogoutBrowses
  <2>. QED  BY <1>1, <2>1, <2>2, <2>3, <2>4
<1>2. ASSUME NEW r \in Requests,
             \/ Issue(r) \/ Answer(r) \/ Lose(r) \/ Claim(r) \/ ClearCookie(r) \/ RevokeOthers(r)
      PROVE  BrowsersInv'
  BY <1>0, <1>2, IssueBrowses, AnswerBrowses, LoseBrowses, ClaimBrowses, ClearCookieBrowses,
     RevokeOthersBrowses
<1>3. ASSUME NEW status, RevokeAll(status) \/ SignInInactive \/ Reactivate
      PROVE  BrowsersInv'
  BY <1>0, <1>3, RevocationBrowses
<1>. QED  BY <1>1, <1>2, <1>3 DEF SessionsNext

=============================================================================
