---------------------------- MODULE CodesProofs -----------------------------
(***************************************************************************)
(* The invariants of OneTimeCodes, for any number of requests, codes and   *)
(* links: a request on its way adds one to what was counted when it was    *)
(* let in, so the counts are kept with the requests that will add to them. *)
(***************************************************************************)
EXTENDS OneTimeCodes, FiniteSetTheorems, TLAPS

Slotted == req = [r \in Requests |-> req[r]]

\* One slot is written, or all are left.
LEMMA Written ==
  ASSUME Slotted, NEW r \in Requests, NEW q, req' = [req EXCEPT ![r] = q]
  PROVE  /\ Slotted'
         /\ req'[r] = q /\ \A s \in Requests : s # r => req'[s] = req[s]
BY DEF Slotted

\* Finish and Goto write one slot, too.
LEMMA Gone ==
  ASSUME Slotted, NEW r \in Requests, Finish(r)
  PROVE  /\ Slotted'
         /\ req'[r] = Idle /\ req'[r].pc = "idle"
         /\ \A s \in Requests : s # r => req'[s] = req[s]
<1>1. req' = [req EXCEPT ![r] = Idle] /\ Idle.pc = "idle"
  BY DEF Finish, Become, Idle
<1>. QED  BY <1>1, Written

LEMMA AllIdle ==
  ASSUME InitSlots
  PROVE  Slotted /\ \A r \in Requests : req[r] = Idle /\ req[r].pc = "idle"
BY DEF InitSlots, Slotted, Idle

-----------------------------------------------------------------------------
(* Counting *)

LEMMA Fewer ==
  ASSUME NEW T, IsFiniteSet(T), NEW S, S \subseteq T
  PROVE  /\ IsFiniteSet(S) /\ Cardinality(S) \in Nat /\ Cardinality(T) \in Nat
         /\ Cardinality(S) <= Cardinality(T)
BY FS_Subset, FS_CardinalityType

LEMMA OneMore ==
  ASSUME NEW T, IsFiniteSet(T), NEW x, NEW S, S \subseteq T \cup {x}
  PROVE  Cardinality(S) <= Cardinality(T) + 1
<1>1. /\ IsFiniteSet(T \cup {x}) /\ Cardinality(T) \in Nat
      /\ Cardinality(T \cup {x}) = IF x \in T THEN Cardinality(T) ELSE Cardinality(T) + 1
  BY FS_AddElement, FS_CardinalityType
<1>2. Cardinality(S) \in Nat /\ Cardinality(S) <= Cardinality(T \cup {x})
  BY <1>1, Fewer
<1>. QED  BY <1>1, <1>2

LEMMA OneFewer ==
  ASSUME NEW T, IsFiniteSet(T), NEW x \in T, NEW S, S \subseteq T, x \notin S
  PROVE  Cardinality(S) + 1 <= Cardinality(T)
<1>1. IsFiniteSet(T \ {x}) /\ Cardinality(T) \in Nat /\ Cardinality(T \ {x}) = Cardinality(T) - 1
  BY FS_RemoveElement, FS_CardinalityType
<1>2. Cardinality(S) \in Nat /\ Cardinality(S) <= Cardinality(T \ {x})
  BY <1>1, Fewer
<1>. QED  BY <1>1, <1>2

\* as many requests as may be in flight together
Most == Cardinality(Requests)

LEMMA SomeRequests ==
  /\ Most \in Nat /\ Most >= 1
  /\ \A S \in SUBSET Requests : IsFiniteSet(S) /\ Cardinality(S) \in Nat /\ Cardinality(S) <= Most
BY SlotAssumption, FS_EmptySet, FS_CardinalityType, Fewer DEF Most

LEMMA SomeSecrets ==
  \A S \in SUBSET Secrets : IsFiniteSet(S) /\ Cardinality(S) \in Nat
<1>1. IsFiniteSet(Secrets)
  BY CodeAssumption, FS_Interval DEF Secrets
<1>. QED  BY <1>1, Fewer

-----------------------------------------------------------------------------
(* The rows *)

Row == [state : {"none", "live", "consumed", "deleted"},
        at : Nat, attempts : Nat, after : Nat, uses : Nat]

Created(c) == sent[c].state # "none"
Over(c) == sent[c].state \in {"consumed", "deleted"}

RowsOK ==
  /\ sent \in [Secrets -> Row]
  /\ clock \in Nat
  /\ \E k \in 0..MaxSent : \A c \in Secrets : Created(c) <=> c <= k
  /\ \A c \in Secrets : ~Created(c) => sent[c].attempts = 0
  /\ \A c \in Secrets : ~Over(c) => sent[c].uses = 0
  /\ NewestOnly

\* What a request supersedes stays so, and what it read was created.
RequestOK(q) ==
  \/ q = Idle
  \/ q \in [pc : {"consumeCodes", "deleteLinks"}]
  \/ /\ q \in [pc : {"createCode", "createLink"}, after : Nat]
     /\ \A c \in Secrets : c <= q.after => Over(c)
  \/ /\ q \in [pc : {"increment", "consume", "findUser", "createUser", "claimLink"}, code : Secrets]
     /\ Created(q.code)

SecretsOK ==
  /\ Slotted /\ RowsOK
  /\ \A r \in Requests : RequestOK(req[r])

LEMMA LastIsLast ==
  ASSUME RowsOK
  PROVE  LastSent \in 0..MaxSent /\ \A c \in Secrets : Created(c) <=> c <= LastSent
<1>. PICK k \in 0..MaxSent : \A c \in Secrets : Created(c) <=> c <= k
  BY DEF RowsOK
<1>1. {c \in Secrets : sent[c].state # "none"} = 1..k
  BY CodeAssumption DEF Created, Secrets
<1>2. Cardinality(1..k) = k
  BY CodeAssumption, FS_Interval
<1>. QED  BY <1>1, <1>2 DEF LastSent

\* Rows go on: none is created or valid again, none forgets when it was sent.
Moves ==
  \A c \in Secrets :
    /\ Created(c)' <=> Created(c)
    /\ Over(c) => Over(c)'
    /\ Valid(c)' => Valid(c)
    /\ sent'[c].at = sent[c].at /\ sent'[c].after = sent[c].after
    /\ ~Created(c) => sent'[c] = sent[c]
    /\ ~Over(c)' => sent'[c].uses = sent[c].uses

LEMMA RowsMove ==
  ASSUME RowsOK, Moves, sent' \in [Secrets -> Row], clock' \in Nat
  PROVE  RowsOK'
<1>1. \E k \in 0..MaxSent : \A c \in Secrets : Created(c)' <=> c <= k
  BY DEF RowsOK, Moves
<1>2. \A c \in Secrets : ~Created(c)' => sent'[c].attempts = 0
  BY DEF RowsOK, Moves
<1>3. \A c \in Secrets : ~Over(c)' => sent'[c].uses = 0
  BY DEF RowsOK, Moves
<1>4. NewestOnly'
  BY DEF RowsOK, Moves, NewestOnly
<1>. QED  BY <1>1, <1>2, <1>3, <1>4 DEF RowsOK, Created, Over

LEMMA SecretRequestKept ==
  ASSUME NEW q, RequestOK(q),
         \A c \in Secrets : (Created(c) => Created(c)') /\ (Over(c) => Over(c)')
  PROVE  RequestOK(q)'
BY DEF RequestOK, Idle

\* What the request r becomes, beside rows that go on.
LEMMA Proceeds ==
  ASSUME SecretsOK, NEW r \in Requests, NEW q, req' = [req EXCEPT ![r] = q], RequestOK(q)',
         Moves, sent' \in [Secrets -> Row], clock' \in Nat
  PROVE  SecretsOK'
<1>1. Slotted' /\ req'[r] = q /\ \A s \in Requests : s # r => req'[s] = req[s]
  BY Written DEF SecretsOK
<1>2. RowsOK'
  BY RowsMove DEF SecretsOK
<1>3. ASSUME NEW s \in Requests  PROVE RequestOK(req[s])'
  <2>1. CASE s = r
    BY <1>1, <2>1 DEF RequestOK
  <2>2. CASE s # r
    <3>. PICK p : p = req[s]
      OBVIOUS
    <3>1. RequestOK(p) /\ req'[s] = p
      BY <1>1, <2>2 DEF SecretsOK
    <3>2. RequestOK(p)'
      BY <3>1, SecretRequestKept DEF Moves
    <3>. QED  BY <3>1, <3>2 DEF RequestOK
  <2>. QED  BY <2>1, <2>2
<1>. QED  BY <1>1, <1>2, <1>3 DEF SecretsOK

LEMMA SecretsStart == InitSlots /\ CodesInit => SecretsOK
<1>. SUFFICES ASSUME InitSlots, CodesInit  PROVE SecretsOK
  OBVIOUS
<1>1. \A c \in Secrets : /\ sent[c].state = "none" /\ sent[c].at = 0 /\ sent[c].attempts = 0
                         /\ sent[c].after = 0 /\ sent[c].uses = 0
  BY DEF CodesInit, Unsent
<1>2. sent \in [Secrets -> Row] /\ clock \in Nat
  BY DEF CodesInit, Unsent, Row
<1>3. 0 \in 0..MaxSent /\ \A c \in Secrets : Created(c) <=> c <= 0
  BY <1>1, CodeAssumption DEF Created, Secrets
<1>4. RowsOK
  BY <1>1, <1>2, <1>3 DEF RowsOK, Created, Over, Valid, NewestOnly
<1>. QED  BY <1>4, AllIdle DEF SecretsOK, RequestOK

-----------------------------------------------------------------------------
(* The steps keep SecretsOK *)

LEMMA RowChanges ==
  ASSUME RowsOK, NEW c \in Secrets, Created(c), NEW row \in Row, sent' = [sent EXCEPT ![c] = row],
         row.at = sent[c].at, row.after = sent[c].after,
         \/ row.state = "consumed"
         \/ row.state = sent[c].state /\ row.uses = sent[c].uses
  PROVE  /\ Moves /\ sent' \in [Secrets -> Row]
         /\ sent'[c] = row /\ \A d \in Secrets : d # c => sent'[d] = sent[d]
<1>1. sent \in [Secrets -> Row]
  BY DEF RowsOK
<1>2. /\ sent' \in [Secrets -> Row] /\ sent'[c] = row
      /\ \A d \in Secrets : d # c => sent'[d] = sent[d]
  BY <1>1
<1>3. Moves
  BY <1>2 DEF Moves, Created, Over, Valid
<1>. QED  BY <1>2, <1>3

LEMMA RowsStay ==
  ASSUME RowsOK, UNCHANGED sent
  PROVE  Moves /\ sent' \in [Secrets -> Row]
BY DEF RowsOK, Moves, Created, Over, Valid

\* A request that writes no row of sent
LEMMA Reads ==
  ASSUME SecretsOK, NEW r \in Requests, NEW q, req' = [req EXCEPT ![r] = q], RequestOK(q),
         UNCHANGED sent, UNCHANGED clock
  PROVE  SecretsOK'
<1>1. Moves /\ sent' \in [Secrets -> Row] /\ clock' \in Nat
  BY RowsStay DEF SecretsOK, RowsOK
<1>2. RequestOK(q)'
  BY <1>1, SecretRequestKept DEF Moves
<1>. QED  BY <1>1, <1>2, Proceeds

LEMMA Ends ==
  ASSUME SecretsOK, NEW r \in Requests, Finish(r), UNCHANGED sent, UNCHANGED clock
  PROVE  SecretsOK'
<1>1. req' = [req EXCEPT ![r] = Idle] /\ RequestOK(Idle)
  BY DEF Finish, Become, RequestOK
<1>. QED  BY <1>1, Reads

LEMMA Counts ==
  ASSUME SecretsOK, NEW r \in Requests, NEW window, NEW most, NEW next,
         next \in {"consumeCodes", "deleteLinks"}, Count(r, window, most, next)
  PROVE  SecretsOK'
<1>. PICK q : q = [pc |-> next]
  OBVIOUS
<1>1. req' = [req EXCEPT ![r] = q] /\ UNCHANGED sent /\ UNCHANGED clock
  BY DEF Count, Become, codeVars
<1>2. RequestOK(q)
  BY DEF RequestOK
<1>. QED  BY <1>1, <1>2, Reads

LEMMA Reading ==
  ASSUME SecretsOK, NEW r \in Requests, NEW c \in Secrets, Created(c),
         NEW next, next \in {"increment", "consume", "claimLink"},
         Become(r, [pc |-> next, code |-> c]), UNCHANGED codeVars
  PROVE  SecretsOK'
<1>. PICK q : q = [pc |-> next, code |-> c]
  OBVIOUS
<1>1. req' = [req EXCEPT ![r] = q] /\ UNCHANGED sent /\ UNCHANGED clock
  BY DEF Become, codeVars
<1>2. RequestOK(q)
  BY DEF RequestOK
<1>. QED  BY <1>1, <1>2, Reads

\* The rows that are valid are among those superseded.
LEMMA Supersedes ==
  ASSUME SecretsOK, NEW r \in Requests, NEW rows \in SUBSET Secrets,
         \A c \in Secrets : Valid(c) => c \in rows, \A c \in rows : Created(c),
         NEW state, state \in {"consumed", "deleted"},
         NEW next, next \in {"createCode", "createLink"}, Supersede(r, rows, state, next)
  PROVE  /\ SecretsOK' /\ Moves
         /\ \A c \in rows : sent'[c].state = state /\ sent'[c].uses = sent[c].uses
                            /\ sent'[c].attempts = sent[c].attempts
         /\ \A c \in Secrets \ rows : sent'[c] = sent[c]
<1>1. sent \in [Secrets -> Row] /\ clock' \in Nat
  BY DEF SecretsOK, RowsOK, Supersede
<1>2. ASSUME NEW c \in rows
      PROVE  /\ sent'[c] \in Row /\ sent'[c].state = state /\ sent'[c].at = sent[c].at
             /\ sent'[c].after = sent[c].after /\ sent'[c].uses = sent[c].uses
             /\ sent'[c].attempts = sent[c].attempts
  <2>. PICK row : row = [sent[c] EXCEPT !.state = state]
    OBVIOUS
  <2>1. sent'[c] = row
    BY DEF Supersede
  <2>2. sent[c] \in Row
    BY <1>1
  <2>3. row \in Row /\ row.state = state /\ row.at = sent[c].at
        /\ row.after = sent[c].after /\ row.uses = sent[c].uses
        /\ row.attempts = sent[c].attempts
    BY <2>2 DEF Row
  <2>. QED  BY <2>1, <2>3
<1>3. \A c \in Secrets \ rows : sent'[c] = sent[c]
  BY DEF Supersede
<1>4. sent' \in [Secrets -> Row]
  <2>1. \A c \in Secrets : sent'[c] \in Row
    BY <1>1, <1>2, <1>3
  <2>. QED  BY <2>1 DEF Supersede
<1>5. Moves
  <2>1. ASSUME NEW c \in Secrets, c \in rows
        PROVE  Created(c) /\ Over(c)' /\ Created(c)' /\ ~Valid(c)'
    BY <1>2, <2>1 DEF Created, Over, Valid
  <2>2. ASSUME NEW c \in Secrets, c \notin rows
        PROVE  ~Valid(c) /\ sent'[c] = sent[c]
    BY <1>3, <2>2
  <2>. QED  BY <1>2, <2>1, <2>2 DEF Moves, Created, Over, Valid
<1>. PICK q : q = [pc |-> next, after |-> LastSent]
  OBVIOUS
<1>6. req' = [req EXCEPT ![r] = q]
  BY DEF Supersede, Become
<1>7. RequestOK(q)'
  <2>1. LastSent \in Nat /\ \A c \in Secrets : Created(c) <=> c <= LastSent
    BY LastIsLast, CodeAssumption DEF SecretsOK
  <2>2. ASSUME NEW c \in Secrets, c <= LastSent  PROVE Over(c)'
    <3>1. CASE c \in rows
      BY <1>2, <3>1 DEF Over
    <3>2. CASE c \notin rows
      <4>1. ~Valid(c) /\ Created(c) /\ sent'[c] = sent[c] /\ sent[c] \in Row
        BY <1>1, <1>3, <2>1, <2>2, <3>2
      <4>. QED  BY <4>1 DEF Valid, Created, Over, Row
    <3>. QED  BY <3>1, <3>2
  <2>3. q \in [pc : {"createCode", "createLink"}, after : Nat] /\ q.after = LastSent
    BY <2>1
  <2>. QED  BY <2>2, <2>3 DEF RequestOK
<1>8. SecretsOK'
  BY <1>1, <1>4, <1>5, <1>6, <1>7, Proceeds
<1>. QED  BY <1>2, <1>3, <1>5, <1>8

LEMMA Creates ==
  ASSUME SecretsOK, NEW r \in Requests, req[r].pc \in {"createCode", "createLink"}, Create(r),
         NEW n, n = LastSent + 1
  PROVE  /\ SecretsOK' /\ UNCHANGED clock
         /\ n \in Secrets /\ ~Created(n) /\ Created(n)' /\ Valid(n)'
         /\ sent'[n].at = clock /\ sent'[n].attempts = 0 /\ sent'[n].uses = 0
         /\ \A c \in Secrets : c # n => sent'[c] = sent[c]
<1>1. LastSent \in 0..MaxSent /\ \A c \in Secrets : Created(c) <=> c <= LastSent
  BY LastIsLast DEF SecretsOK
<1>2. n \in Secrets /\ Finish(r) /\ UNCHANGED clock
      /\ sent' = [sent EXCEPT ![n] = [Unsent EXCEPT !.state = "live", !.at = clock,
                                                    !.after = req[r].after]]
  BY DEF Create
<1>3. /\ req[r].after \in Nat /\ \A c \in Secrets : c <= req[r].after => Over(c)
  BY DEF SecretsOK, RequestOK, Idle
<1>4. PICK row : row = [Unsent EXCEPT !.state = "live", !.at = clock, !.after = req[r].after]
  OBVIOUS
<1>5. /\ row \in Row /\ row.state = "live" /\ row.at = clock /\ row.attempts = 0
      /\ row.after = req[r].after /\ row.uses = 0
  BY <1>3, <1>4 DEF Unsent, Row, SecretsOK, RowsOK
<1>6. sent \in [Secrets -> Row] /\ clock \in Nat
  BY DEF SecretsOK, RowsOK
<1>7. /\ sent' \in [Secrets -> Row] /\ sent'[n] = row
      /\ \A c \in Secrets : c # n => sent'[c] = sent[c]
  BY <1>2, <1>4, <1>5, <1>6
<1>8. ~Created(n) /\ Created(n)' /\ Valid(n)' /\ ~Over(n)'
  <2>1. ~Created(n)
    BY <1>1, <1>2, CodeAssumption DEF Secrets
  <2>. QED  BY <1>5, <1>7, <2>1 DEF Created, Valid, Over
<1>9. RowsOK'
  <2>1. \E k \in 0..MaxSent : \A c \in Secrets : Created(c)' <=> c <= k
    <3>1. n \in 0..MaxSent
      BY <1>2, CodeAssumption DEF Secrets
    <3>2. \A c \in Secrets : c # n => (Created(c)' <=> Created(c))
      BY <1>7 DEF Created
    <3>3. \A c \in Secrets : Created(c)' <=> c <= n
      BY <1>1, <1>2, <1>8, <3>2 DEF Secrets
    <3>. QED  BY <3>1, <3>3
  <2>2. \A c \in Secrets : ~Created(c)' => sent'[c].attempts = 0
    BY <1>5, <1>7 DEF SecretsOK, RowsOK, Created
  <2>3. \A c \in Secrets : ~Over(c)' => sent'[c].uses = 0
    BY <1>5, <1>7 DEF SecretsOK, RowsOK, Over
  <2>4. ASSUME NEW c \in Secrets, NEW d \in Secrets, Valid(c)', Valid(d)', c < d
        PROVE  sent'[d].after < c
    <3>1. CASE d = n
      <4>1. Valid(c)
        BY <1>7, <2>4, <3>1 DEF Valid, Secrets
      <4>2. ~(c <= req[r].after)
        BY <1>3, <4>1 DEF Over, Valid
      <4>. QED  BY <1>3, <1>5, <1>7, <3>1, <4>2 DEF Secrets
    <3>2. CASE d # n
      <4>1. Valid(d) /\ sent'[d] = sent[d]
        BY <1>7, <2>4, <3>2 DEF Valid
      <4>2. d <= LastSent
        BY <1>1, <4>1 DEF Created, Valid
      <4>3. c # n
        BY <1>1, <2>4, <4>2 DEF Secrets
      <4>4. Valid(c)
        BY <1>7, <2>4, <4>3 DEF Valid
      <4>. QED  BY <2>4, <4>1, <4>4 DEF SecretsOK, RowsOK, NewestOnly
    <3>. QED  BY <3>1, <3>2
  <2>5. NewestOnly'
    BY <2>4 DEF NewestOnly
  <2>. QED  BY <1>2, <1>6, <1>7, <2>1, <2>2, <2>3, <2>5 DEF RowsOK
<1>10. \A c \in Secrets : (Created(c) => Created(c)') /\ (Over(c) => Over(c)')
  <2>1. \A c \in Secrets : Over(c) => Created(c)
    BY DEF Over, Created
  <2>. QED  BY <1>7, <1>8, <2>1 DEF Created, Over
<1>11. Slotted' /\ req'[r] = Idle /\ \A s \in Requests : s # r => req'[s] = req[s]
  BY <1>2, Gone DEF SecretsOK
<1>12. ASSUME NEW s \in Requests  PROVE RequestOK(req[s])'
  <2>1. CASE s = r
    BY <1>11, <2>1 DEF RequestOK, Idle
  <2>2. CASE s # r
    <3>. PICK p : p = req[s]
      OBVIOUS
    <3>1. RequestOK(p) /\ req'[s] = p
      BY <1>11, <2>2 DEF SecretsOK
    <3>2. RequestOK(p)'
      BY <1>10, <3>1, SecretRequestKept
    <3>. QED  BY <3>1, <3>2 DEF RequestOK, Idle
  <2>. QED  BY <2>1, <2>2
<1>13. SecretsOK'
  BY <1>9, <1>11, <1>12 DEF SecretsOK
<1>. QED  BY <1>2, <1>5, <1>7, <1>8, <1>13

LEMMA Guesses ==
  ASSUME SecretsOK, NEW r \in Requests, IncrementAttempts(r)
  PROVE  /\ SecretsOK' /\ Moves /\ UNCHANGED clock
         /\ req[r].code \in Secrets /\ Created(req[r].code)
         /\ sent'[req[r].code].state = sent[req[r].code].state
         /\ sent'[req[r].code].uses = sent[req[r].code].uses
         /\ sent'[req[r].code].attempts = sent[req[r].code].attempts + 1
         /\ \A d \in Secrets : d # req[r].code => sent'[d] = sent[d]
<1>1. req[r].code \in Secrets /\ Created(req[r].code)
  BY DEF SecretsOK, RequestOK, Idle, IncrementAttempts, At
<1>. PICK c \in Secrets : c = req[r].code
  BY <1>1
<1>2. RowsOK /\ sent[c] \in Row /\ clock \in Nat
  BY DEF SecretsOK, RowsOK
<1>3. PICK row : row = [sent[c] EXCEPT !.attempts = @ + 1]
  OBVIOUS
<1>4. /\ row \in Row /\ row.state = sent[c].state /\ row.at = sent[c].at
      /\ row.attempts = sent[c].attempts + 1
      /\ row.after = sent[c].after /\ row.uses = sent[c].uses
  BY <1>2, <1>3 DEF Row
<1>5. sent' = [sent EXCEPT ![c] = row]
  BY <1>3 DEF IncrementAttempts
<1>6. /\ Moves /\ sent' \in [Secrets -> Row]
      /\ sent'[c] = row /\ \A d \in Secrets : d # c => sent'[d] = sent[d]
  BY <1>1, <1>2, <1>4, <1>5, RowChanges
<1>7. UNCHANGED clock /\ req' = [req EXCEPT ![r] = Idle]
  BY DEF IncrementAttempts, Finish, Become
<1>8. RequestOK(Idle)'
  BY DEF RequestOK
<1>9. SecretsOK'
  BY <1>2, <1>6, <1>7, <1>8, Proceeds
<1>. QED  BY <1>1, <1>4, <1>6, <1>7, <1>9

\* A code or a link is used: it may have been superseded or used meanwhile.
LEMMA Uses ==
  ASSUME RowsOK, NEW c \in Secrets, Created(c),
         sent' = [sent EXCEPT ![c].state = "consumed", ![c].uses = @ + 1]
  PROVE  /\ Moves /\ sent' \in [Secrets -> Row]
         /\ sent'[c].state = "consumed" /\ sent'[c].uses = sent[c].uses + 1
         /\ sent'[c].attempts = sent[c].attempts
         /\ \A d \in Secrets : d # c => sent'[d] = sent[d]
<1>1. sent \in [Secrets -> Row] /\ sent[c] \in Row
  BY DEF RowsOK
<1>2. PICK half : half = [sent[c] EXCEPT !.state = "consumed"]
  OBVIOUS
<1>3. PICK row : row = [half EXCEPT !.uses = @ + 1]
  OBVIOUS
<1>4. /\ half \in Row /\ half.state = "consumed" /\ half.at = sent[c].at
      /\ half.attempts = sent[c].attempts
      /\ half.after = sent[c].after /\ half.uses = sent[c].uses
  BY <1>1, <1>2 DEF Row
<1>5. /\ row \in Row /\ row.state = "consumed" /\ row.at = sent[c].at
      /\ row.attempts = sent[c].attempts
      /\ row.after = sent[c].after /\ row.uses = sent[c].uses + 1
  BY <1>3, <1>4 DEF Row
<1>6. sent' = [sent EXCEPT ![c] = row]
  <2>1. sent' = [[sent EXCEPT ![c].state = "consumed"] EXCEPT ![c].uses = @ + 1]
    OBVIOUS
  <2>2. [sent EXCEPT ![c].state = "consumed"] = [sent EXCEPT ![c] = half]
    BY <1>2
  <2>3. [sent EXCEPT ![c] = half][c] = half
    BY <1>1
  <2>4. [[sent EXCEPT ![c] = half] EXCEPT ![c].uses = @ + 1]
        = [[sent EXCEPT ![c] = half] EXCEPT ![c] = row]
    BY <1>3, <2>3
  <2>5. [[sent EXCEPT ![c] = half] EXCEPT ![c] = row] = [sent EXCEPT ![c] = row]
    BY <1>1
  <2>. QED  BY <2>1, <2>2, <2>4, <2>5
<1>7. /\ Moves /\ sent' \in [Secrets -> Row]
      /\ sent'[c] = row /\ \A d \in Secrets : d # c => sent'[d] = sent[d]
  BY <1>5, <1>6, RowChanges
<1>. QED  BY <1>5, <1>7

\* Goto keeps what was read.
LEMMA Goes ==
  ASSUME SecretsOK, NEW r \in Requests, req[r].pc \in {"consume", "findUser"},
         NEW next, next \in {"findUser", "createUser"}, Goto(r, next)
  PROVE  /\ Slotted' /\ \A s \in Requests : s # r => req'[s] = req[s]
         /\ req'[r].pc = next
         /\ \E q : req' = [req EXCEPT ![r] = q] /\ q.pc = next /\ RequestOK(q)
<1>. PICK old : old = req[r]
  OBVIOUS
<1>1. /\ old \in [pc : {"increment", "consume", "findUser", "createUser", "claimLink"},
                  code : Secrets]
      /\ Created(old.code)
  BY DEF SecretsOK, RequestOK, Idle
<1>2. PICK q : q = [old EXCEPT !.pc = next]
  OBVIOUS
<1>3. /\ q \in [pc : {"increment", "consume", "findUser", "createUser", "claimLink"},
                code : Secrets]
      /\ q.code = old.code /\ q.pc = next
  BY <1>1, <1>2
<1>4. req' = [req EXCEPT ![r] = q]
  BY <1>2 DEF Goto
<1>5. RequestOK(q)
  BY <1>1, <1>3 DEF RequestOK
<1>6. Slotted' /\ req'[r] = q /\ \A s \in Requests : s # r => req'[s] = req[s]
  BY <1>4, Written DEF SecretsOK
<1>. QED  BY <1>3, <1>4, <1>5, <1>6

LEMMA Consumes ==
  ASSUME SecretsOK, NEW r \in Requests, Consume(r)
  PROVE  /\ SecretsOK' /\ Moves /\ UNCHANGED clock
         /\ req[r].code \in Secrets
         /\ sent'[req[r].code].state = "consumed"
         /\ sent'[req[r].code].uses = sent[req[r].code].uses + 1
         /\ sent'[req[r].code].attempts = sent[req[r].code].attempts
         /\ \A d \in Secrets : d # req[r].code => sent'[d] = sent[d]
<1>1. req[r].code \in Secrets /\ Created(req[r].code)
  BY DEF SecretsOK, RequestOK, Idle, Consume, At
<1>. PICK c \in Secrets : c = req[r].code
  BY <1>1
<1>2. /\ Moves /\ sent' \in [Secrets -> Row]
      /\ sent'[c].state = "consumed" /\ sent'[c].uses = sent[c].uses + 1
      /\ sent'[c].attempts = sent[c].attempts
      /\ \A d \in Secrets : d # c => sent'[d] = sent[d]
  BY <1>1, Uses DEF Consume, SecretsOK
<1>3. PICK q : req' = [req EXCEPT ![r] = q] /\ RequestOK(q)
  BY Goes DEF Consume, At
<1>4. RequestOK(q)'
  BY <1>2, <1>3, SecretRequestKept DEF Moves
<1>5. UNCHANGED clock /\ clock' \in Nat
  BY DEF Consume, SecretsOK, RowsOK
<1>6. SecretsOK'
  BY <1>2, <1>3, <1>4, <1>5, Proceeds
<1>. QED  BY <1>1, <1>2, <1>5, <1>6

\* A link is used only while it is valid.
LEMMA Claims ==
  ASSUME SecretsOK, NEW r \in Requests, ClaimLink(r)
  PROVE  /\ SecretsOK' /\ Moves /\ UNCHANGED clock
         /\ \A c \in Secrets :
              /\ sent'[c].attempts = sent[c].attempts
              /\ \/ sent'[c] = sent[c]
                 \/ Valid(c) /\ sent'[c].uses = sent[c].uses + 1
              /\ c \in CodeRows' => c \in CodeRows
<1>1. req[r].code \in Secrets /\ Created(req[r].code)
  BY DEF SecretsOK, RequestOK, Idle, ClaimLink, At
<1>. PICK c \in Secrets : c = req[r].code
  BY <1>1
<1>2. /\ UNCHANGED clock /\ clock' \in Nat
      /\ req' = [req EXCEPT ![r] = Idle] /\ RequestOK(Idle)' /\ RequestOK(Idle)
  BY DEF ClaimLink, SecretsOK, RowsOK, Finish, Become, RequestOK
<1>3. CASE Valid(c)
  <2>1. /\ Moves /\ sent' \in [Secrets -> Row]
        /\ sent'[c].state = "consumed" /\ sent'[c].uses = sent[c].uses + 1
        /\ sent'[c].attempts = sent[c].attempts
        /\ \A d \in Secrets : d # c => sent'[d] = sent[d]
    <3>1. sent' = [sent EXCEPT ![c].state = "consumed", ![c].uses = @ + 1]
      BY <1>3 DEF ClaimLink, UseLink
    <3>. QED  BY <1>1, <3>1, Uses DEF SecretsOK
  <2>2. SecretsOK'
    BY <1>2, <2>1, Proceeds
  <2>. QED  BY <1>2, <1>3, <2>1, <2>2 DEF CodeRows, Valid
<1>4. CASE ~Valid(c)
  <2>1. UNCHANGED sent
    BY <1>4 DEF ClaimLink
  <2>2. Moves /\ SecretsOK'
    BY <1>2, <2>1, Reads, RowsStay DEF SecretsOK
  <2>. QED  BY <1>2, <2>1, <2>2 DEF CodeRows
<1>. QED  BY <1>3, <1>4

LEMMA Ticks ==
  ASSUME SecretsOK, ClockTick
  PROVE  SecretsOK' /\ Moves /\ clock' \in Nat /\ clock' >= clock
<1>1. clock \in Nat /\ clock' = clock + 1 /\ UNCHANGED <<sent, req>>
  BY DEF ClockTick, SecretsOK, RowsOK
<1>2. Moves /\ sent' \in [Secrets -> Row]
  BY <1>1, RowsStay DEF SecretsOK
<1>3. RowsOK'
  BY <1>1, <1>2, RowsMove DEF SecretsOK
<1>4. ASSUME NEW s \in Requests  PROVE RequestOK(req[s])'
  <2>1. RequestOK(req[s]) /\ req'[s] = req[s] /\ sent' = sent
    BY <1>1 DEF SecretsOK
  <2>. QED  BY <2>1 DEF RequestOK, Created, Over
<1>5. Slotted'
  BY <1>1 DEF Slotted, SecretsOK
<1>. QED  BY <1>1, <1>2, <1>3, <1>4, <1>5 DEF SecretsOK

-----------------------------------------------------------------------------
(* Who waits to count an attempt or a use, or to create a row               *)

Waiting(pc, c) == {r \in Requests : At(r, pc) /\ req[r].code = c}
Requesting(pcs) == {r \in Requests : req[r].pc \in pcs}

LEMMA WaitingFinite ==
  ASSUME NEW pc, NEW c
  PROVE  /\ IsFiniteSet(Waiting(pc, c)) /\ Cardinality(Waiting(pc, c)) \in Nat
         /\ IsFiniteSet(Waiting(pc, c)') /\ Cardinality(Waiting(pc, c)') \in Nat
         /\ Cardinality(Waiting(pc, c)) <= Most /\ Cardinality(Waiting(pc, c)') <= Most
BY SomeRequests DEF Waiting

LEMMA RequestingFinite ==
  ASSUME NEW pcs
  PROVE  /\ IsFiniteSet(Requesting(pcs)) /\ Cardinality(Requesting(pcs)) \in Nat
         /\ IsFiniteSet(Requesting(pcs)') /\ Cardinality(Requesting(pcs)') \in Nat
         /\ Cardinality(Requesting(pcs)) <= Most /\ Cardinality(Requesting(pcs)') <= Most
BY SomeRequests DEF Requesting

LEMMA NobodyJoins ==
  ASSUME NEW r \in Requests, \A s \in Requests : s # r => req'[s] = req[s],
         NEW pc, req'[r].pc # pc, NEW c
  PROVE  /\ Cardinality(Waiting(pc, c)') <= Cardinality(Waiting(pc, c))
         /\ r \in Waiting(pc, c) =>
              Cardinality(Waiting(pc, c)') + 1 <= Cardinality(Waiting(pc, c))
<1>1. Waiting(pc, c)' \subseteq Waiting(pc, c) /\ r \notin Waiting(pc, c)'
  BY DEF Waiting, At
<1>. QED  BY <1>1, WaitingFinite, Fewer, OneFewer

LEMMA NobodyRequests ==
  ASSUME NEW r \in Requests, \A s \in Requests : s # r => req'[s] = req[s],
         NEW pcs, req'[r].pc \in pcs => req[r].pc \in pcs
  PROVE  /\ Cardinality(Requesting(pcs)') <= Cardinality(Requesting(pcs))
         /\ req[r].pc \in pcs /\ req'[r].pc \notin pcs =>
              Cardinality(Requesting(pcs)') + 1 <= Cardinality(Requesting(pcs))
<1>1. /\ Requesting(pcs)' \subseteq Requesting(pcs)
      /\ req'[r].pc \notin pcs => r \notin Requesting(pcs)'
      /\ req[r].pc \in pcs => r \in Requesting(pcs)
  BY DEF Requesting
<1>. QED  BY <1>1, RequestingFinite, Fewer, OneFewer

-----------------------------------------------------------------------------
(* The codes of a phone. A wrong guess on its way counts as made, a sign-in *)
(* as used, and a request that passed the count as a code of the window.    *)

Recent == {c \in Secrets : Created(c) /\ Within(c, OTP_PHONE_WINDOW)}
Coming == Requesting({"consumeCodes", "createCode"})

PhoneInv ==
  /\ SecretsOK
  /\ \A c \in Secrets : sent[c].state # "deleted"
  /\ \A c \in Secrets :
       /\ sent[c].attempts + Cardinality(Waiting("increment", c)) <= OTP_MAX_ATTEMPTS + Most - 1
       /\ sent[c].uses + Cardinality(Waiting("consume", c)) <= Most
  /\ Cardinality(Recent) + Cardinality(Coming) <= OTP_MAX_PER_PHONE + Most - 1
  /\ \A c \in Secrets : Created(c) => WindowBounded(c)

LEMMA FieldTypes ==
  ASSUME SecretsOK, NEW c \in Secrets
  PROVE  /\ sent[c].attempts \in Nat /\ sent[c].uses \in Nat /\ sent[c].at \in Nat
         /\ sent[c].state \in {"none", "live", "consumed", "deleted"}
BY DEF SecretsOK, RowsOK, Row

LEMMA RecentFinite ==
  /\ IsFiniteSet(Recent) /\ Cardinality(Recent) \in Nat
  /\ IsFiniteSet(Recent') /\ Cardinality(Recent') \in Nat
BY SomeSecrets DEF Recent

\* A step that creates no code.
LEMMA PhoneKeeps ==
  ASSUME PhoneInv, SecretsOK', Moves, clock' \in Nat, clock' >= clock,
         \A c \in Secrets : sent'[c].state # "deleted",
         \A c \in Secrets :
           /\ sent'[c].attempts + Cardinality(Waiting("increment", c)')
                <= OTP_MAX_ATTEMPTS + Most - 1
           /\ sent'[c].uses + Cardinality(Waiting("consume", c)') <= Most,
         \/ Cardinality(Coming') <= Cardinality(Coming)
         \/ Cardinality(Recent) < OTP_MAX_PER_PHONE
  PROVE  PhoneInv'
<1>1. Recent' \subseteq Recent
  <2>1. ASSUME NEW c \in Secrets, Created(c)', Within(c, OTP_PHONE_WINDOW)'
        PROVE  Created(c) /\ Within(c, OTP_PHONE_WINDOW)
    <3>1. Created(c) /\ sent'[c].at = sent[c].at
      BY <2>1 DEF Moves
    <3>2. sent[c].at \in Nat /\ clock \in Nat
      BY FieldTypes DEF PhoneInv, SecretsOK, RowsOK
    <3>. QED  BY <2>1, <3>1, <3>2, CodeAssumption DEF Within
  <2>. QED  BY <2>1 DEF Recent
<1>2. Cardinality(Recent') <= Cardinality(Recent)
  BY <1>1, RecentFinite, Fewer
<1>3. Cardinality(Recent') + Cardinality(Coming') <= OTP_MAX_PER_PHONE + Most - 1
  <2>1. /\ Cardinality(Coming) \in Nat /\ Cardinality(Coming') \in Nat
        /\ Cardinality(Coming') <= Most
    BY RequestingFinite DEF Coming
  <2>2. Cardinality(Recent) + Cardinality(Coming) <= OTP_MAX_PER_PHONE + Most - 1
    BY DEF PhoneInv
  <2>. QED  BY <1>2, <2>1, <2>2, RecentFinite, SomeRequests, CodeAssumption
<1>4. ASSUME NEW c \in Secrets, Created(c)'  PROVE WindowBounded(c)'
  <2>1. WindowBounded(c)
    BY <1>4 DEF PhoneInv, Moves
  <2>2. \A d \in 1..c : d \in Secrets
    BY CodeAssumption DEF Secrets
  <2>3. SentInWindow(c, OTP_PHONE_WINDOW)' = SentInWindow(c, OTP_PHONE_WINDOW)
    BY <2>2 DEF SentInWindow, Moves, Created
  <2>. QED  BY <2>1, <2>3 DEF WindowBounded
<1>. QED  BY <1>3, <1>4 DEF PhoneInv

LEMMA PhoneStart == InitSlots /\ CodesInit => PhoneInv
<1>. SUFFICES ASSUME InitSlots, CodesInit  PROVE PhoneInv
  OBVIOUS
<1>1. SecretsOK
  BY SecretsStart
<1>2. \A c \in Secrets : ~Created(c) /\ sent[c].state = "none"
                         /\ sent[c].attempts = 0 /\ sent[c].uses = 0
  BY DEF CodesInit, Unsent, Created
<1>3. \A r \in Requests : req[r].pc = "idle"
  BY AllIdle
<1>4. /\ Coming = {} /\ Recent = {}
      /\ \A c \in Secrets : Waiting("increment", c) = {} /\ Waiting("consume", c) = {}
  BY <1>2, <1>3 DEF Coming, Requesting, Recent, Waiting, At
<1>5. Cardinality({}) = 0
  BY FS_EmptySet
<1>6. /\ Most \in Nat /\ Most >= 1
      /\ OTP_MAX_PER_PHONE \in Nat /\ OTP_MAX_ATTEMPTS \in Nat
  BY SomeRequests, CodeAssumption
<1>7. Cardinality(Recent) + Cardinality(Coming) <= OTP_MAX_PER_PHONE + Most - 1
  BY <1>4, <1>5, <1>6
<1>8. ASSUME NEW c \in Secrets
      PROVE  /\ sent[c].attempts + Cardinality(Waiting("increment", c)) <= OTP_MAX_ATTEMPTS + Most - 1
             /\ sent[c].uses + Cardinality(Waiting("consume", c)) <= Most
  <2>1. Waiting("increment", c) = {} /\ Waiting("consume", c) = {}
    BY <1>4
  <2>2. Cardinality(Waiting("increment", c)) = 0 /\ Cardinality(Waiting("consume", c)) = 0
    BY <1>5, <2>1
  <2>3. sent[c].attempts = 0 /\ sent[c].uses = 0
    BY <1>2
  <2>. QED  BY <1>6, <2>2, <2>3
<1>. QED  BY <1>1, <1>2, <1>7, <1>8 DEF PhoneInv

\* The request ends or goes on to where nothing is counted, and sent stays.
LEMMA PhoneIdles ==
  ASSUME PhoneInv, SecretsOK', UNCHANGED sent, UNCHANGED clock,
         NEW r \in Requests, \A s \in Requests : s # r => req'[s] = req[s],
         req'[r].pc \notin {"increment", "consume"},
         \/ req'[r].pc \notin {"consumeCodes", "createCode"}
         \/ Cardinality(Recent) < OTP_MAX_PER_PHONE
  PROVE  PhoneInv'
<1>1. Moves /\ clock' \in Nat /\ clock' >= clock
  BY RowsStay DEF PhoneInv, SecretsOK, RowsOK
<1>2. ASSUME NEW c \in Secrets
      PROVE  /\ sent'[c].attempts + Cardinality(Waiting("increment", c)')
                  <= OTP_MAX_ATTEMPTS + Most - 1
             /\ sent'[c].uses + Cardinality(Waiting("consume", c)') <= Most
  <2>1. /\ Cardinality(Waiting("increment", c)') <= Cardinality(Waiting("increment", c))
        /\ Cardinality(Waiting("consume", c)') <= Cardinality(Waiting("consume", c))
    BY NobodyJoins
  <2>2. /\ sent[c].attempts \in Nat /\ sent[c].uses \in Nat
        /\ sent'[c].attempts = sent[c].attempts /\ sent'[c].uses = sent[c].uses
    BY FieldTypes DEF PhoneInv
  <2>3. /\ sent[c].attempts + Cardinality(Waiting("increment", c)) <= OTP_MAX_ATTEMPTS + Most - 1
        /\ sent[c].uses + Cardinality(Waiting("consume", c)) <= Most
    BY DEF PhoneInv
  <2>. QED  BY <2>1, <2>2, <2>3, WaitingFinite, SomeRequests, CodeAssumption
<1>3. \/ Cardinality(Coming') <= Cardinality(Coming)
      \/ Cardinality(Recent) < OTP_MAX_PER_PHONE
  BY NobodyRequests DEF Coming
<1>4. \A c \in Secrets : sent'[c].state # "deleted"
  BY DEF PhoneInv
<1>. QED  BY <1>1, <1>2, <1>3, <1>4, PhoneKeeps

LEMMA PhoneStep == PhoneInv /\ CodesNext => PhoneInv'
<1>. SUFFICES ASSUME PhoneInv, CodesNext  PROVE PhoneInv'
  OBVIOUS
<1>0. SecretsOK /\ Slotted /\ RowsOK
  BY DEF PhoneInv, SecretsOK
<1>1. ASSUME NEW r \in Requests, RequestOtp(r)  PROVE PhoneInv'
  <2>. PICK q : q = [pc |-> "consumeCodes"]
    OBVIOUS
  <2>1. /\ req' = [req EXCEPT ![r] = q] /\ UNCHANGED sent /\ UNCHANGED clock
        /\ Cardinality({c \in CodeRows : Within(c, OTP_PHONE_WINDOW)}) < OTP_MAX_PER_PHONE
    BY <1>1 DEF RequestOtp, Count, Become, codeVars
  <2>2. SecretsOK'
    BY <1>0, <1>1, Counts DEF RequestOtp
  <2>3. {c \in CodeRows : Within(c, OTP_PHONE_WINDOW)} = Recent
    BY DEF PhoneInv, CodeRows, Recent, Created
  <2>4. req'[r] = q /\ (\A s \in Requests : s # r => req'[s] = req[s]) /\ q.pc = "consumeCodes"
    BY <1>0, <2>1, Written
  <2>. QED  BY <2>1, <2>2, <2>3, <2>4, PhoneIdles
<1>2. ASSUME NEW r \in Requests, ConsumeCodes(r)  PROVE PhoneInv'
  <2>. PICK rows : rows = {c \in Secrets : Valid(c)}
    OBVIOUS
  <2>1. Supersede(r, rows, "consumed", "createCode") /\ At(r, "consumeCodes")
    BY <1>2 DEF ConsumeCodes
  <2>2. rows \in SUBSET Secrets /\ (\A c \in Secrets : Valid(c) => c \in rows)
        /\ \A c \in rows : Created(c)
    BY DEF Valid, Created
  <2>3. /\ SecretsOK' /\ Moves
        /\ \A c \in rows : sent'[c].state = "consumed" /\ sent'[c].uses = sent[c].uses
                           /\ sent'[c].attempts = sent[c].attempts
        /\ \A c \in Secrets \ rows : sent'[c] = sent[c]
    BY <1>0, <2>1, <2>2, Supersedes
  <2>. PICK q : q = [pc |-> "createCode", after |-> LastSent]
    OBVIOUS
  <2>4. /\ req'[r] = q /\ (\A s \in Requests : s # r => req'[s] = req[s])
        /\ q.pc = "createCode"
    BY <1>0, <2>1, Written DEF Supersede, Become
  <2>5. ASSUME NEW c \in Secrets
        PROVE  /\ sent'[c].state # "deleted"
               /\ sent'[c].attempts + Cardinality(Waiting("increment", c)')
                    <= OTP_MAX_ATTEMPTS + Most - 1
               /\ sent'[c].uses + Cardinality(Waiting("consume", c)') <= Most
    <3>1. /\ sent'[c].attempts = sent[c].attempts /\ sent'[c].uses = sent[c].uses
          /\ sent'[c].state # "deleted"
      BY <2>3 DEF PhoneInv
    <3>2. /\ Cardinality(Waiting("increment", c)') <= Cardinality(Waiting("increment", c))
          /\ Cardinality(Waiting("consume", c)') <= Cardinality(Waiting("consume", c))
      BY <2>4, NobodyJoins
    <3>3. /\ sent[c].attempts + Cardinality(Waiting("increment", c)) <= OTP_MAX_ATTEMPTS + Most - 1
          /\ sent[c].uses + Cardinality(Waiting("consume", c)) <= Most
          /\ sent[c].attempts \in Nat /\ sent[c].uses \in Nat
      BY FieldTypes DEF PhoneInv
    <3>. QED  BY <3>1, <3>2, <3>3, WaitingFinite, SomeRequests, CodeAssumption
  <2>6. Cardinality(Coming') <= Cardinality(Coming)
    BY <2>1, <2>4, NobodyRequests DEF Coming, At
  <2>7. clock' \in Nat /\ clock' >= clock
    BY <1>0, <2>1 DEF Supersede, RowsOK
  <2>. QED  BY <2>3, <2>5, <2>6, <2>7, PhoneKeeps
<1>3. ASSUME NEW r \in Requests, CreateCode(r)  PROVE PhoneInv'
  <2>. PICK n : n = LastSent + 1
    OBVIOUS
  <2>1. /\ SecretsOK' /\ UNCHANGED clock
        /\ n \in Secrets /\ ~Created(n) /\ Created(n)' /\ Valid(n)'
        /\ sent'[n].at = clock /\ sent'[n].attempts = 0 /\ sent'[n].uses = 0
        /\ \A c \in Secrets : c # n => sent'[c] = sent[c]
    BY <1>0, <1>3, Creates DEF CreateCode, At
  <2>2. /\ req'[r] = Idle /\ req'[r].pc = "idle" /\ req[r].pc = "createCode"
        /\ \A s \in Requests : s # r => req'[s] = req[s]
    BY <1>0, <1>3, Gone DEF CreateCode, Create, At
  <2>3. ASSUME NEW c \in Secrets
        PROVE  /\ sent'[c].state # "deleted"
               /\ sent'[c].attempts + Cardinality(Waiting("increment", c)')
                    <= OTP_MAX_ATTEMPTS + Most - 1
               /\ sent'[c].uses + Cardinality(Waiting("consume", c)') <= Most
    <3>1. /\ Cardinality(Waiting("increment", c)') <= Cardinality(Waiting("increment", c))
          /\ Cardinality(Waiting("consume", c)') <= Cardinality(Waiting("consume", c))
      BY <2>2, NobodyJoins
    <3>2. /\ sent[c].attempts + Cardinality(Waiting("increment", c)) <= OTP_MAX_ATTEMPTS + Most - 1
          /\ sent[c].uses + Cardinality(Waiting("consume", c)) <= Most
          /\ sent[c].attempts \in Nat /\ sent[c].uses \in Nat
      BY FieldTypes, <1>0 DEF PhoneInv
    <3>3. /\ \/ sent'[c].attempts = sent[c].attempts /\ sent'[c].uses = sent[c].uses
             \/ sent'[c].attempts = 0 /\ sent'[c].uses = 0
          /\ sent'[c].state # "deleted"
      BY <2>1 DEF PhoneInv, Valid
    <3>. QED  BY <3>1, <3>2, <3>3, WaitingFinite, SomeRequests, CodeAssumption
  <2>4. Recent' \subseteq Recent \cup {n}
    BY <2>1 DEF Recent, Created, Within
  <2>5. Cardinality(Recent') <= Cardinality(Recent) + 1
    BY <2>4, RecentFinite, OneMore
  <2>6. Cardinality(Coming') + 1 <= Cardinality(Coming)
    BY <2>2, NobodyRequests DEF Coming
  <2>7. /\ Cardinality(Recent') + Cardinality(Coming') <= OTP_MAX_PER_PHONE + Most - 1
        /\ Cardinality(Recent') <= OTP_MAX_PER_PHONE + Most - 1
    <3>1. Cardinality(Recent) + Cardinality(Coming) <= OTP_MAX_PER_PHONE + Most - 1
      BY DEF PhoneInv
    <3>2. Cardinality(Coming) \in Nat /\ Cardinality(Coming') \in Nat
      BY RequestingFinite DEF Coming
    <3>. QED  BY <2>5, <2>6, <3>1, <3>2, RecentFinite, SomeRequests, CodeAssumption
  <2>8. ASSUME NEW c \in Secrets, Created(c)'  PROVE WindowBounded(c)'
    <3>1. \A d \in 1..c : d \in Secrets
      BY CodeAssumption DEF Secrets
    <3>2. CASE c = n
      <4>1. SentInWindow(n, OTP_PHONE_WINDOW)' \subseteq Recent'
        BY <2>1, <3>1, <3>2 DEF SentInWindow, Recent, Created, Within
      <4>2. Cardinality(SentInWindow(n, OTP_PHONE_WINDOW)') <= Cardinality(Recent')
            /\ Cardinality(SentInWindow(n, OTP_PHONE_WINDOW)') \in Nat
        BY <4>1, RecentFinite, Fewer
      <4>. QED  BY <2>7, <3>2, <4>2, RecentFinite, SomeRequests, CodeAssumption DEF WindowBounded, Most
    <3>3. CASE c # n
      <4>1. Created(c) /\ sent'[c] = sent[c]
        BY <2>1, <2>8, <3>3 DEF Created
      <4>2. c <= LastSent
        BY <1>0, <4>1, LastIsLast
      <4>3. \A d \in 1..c : d # n
        BY <1>0, <4>2, LastIsLast, CodeAssumption DEF Secrets
      <4>4. SentInWindow(c, OTP_PHONE_WINDOW)' = SentInWindow(c, OTP_PHONE_WINDOW)
        BY <2>1, <3>1, <4>1, <4>3 DEF SentInWindow
      <4>. QED  BY <4>1, <4>4 DEF PhoneInv, WindowBounded
    <3>. QED  BY <3>2, <3>3
  <2>. QED  BY <2>1, <2>3, <2>7, <2>8 DEF PhoneInv
<1>4. ASSUME NEW r \in Requests, VerifyOtp(r)  PROVE PhoneInv'
  <2>. PICK c \in Secrets, next \in {"increment", "consume"} :
         sent[c].attempts < OTP_MAX_ATTEMPTS /\ Compare(r, c, next)
    BY <1>4 DEF VerifyOtp
  <2>1. /\ At(r, "idle") /\ Valid(c) /\ UNCHANGED codeVars /\ UNCHANGED sent /\ UNCHANGED clock
        /\ Become(r, [pc |-> next, code |-> c])
    BY DEF Compare, codeVars
  <2>2. SecretsOK' /\ Created(c)
    <3>1. Created(c)
      BY <2>1 DEF Valid, Created
    <3>. QED  BY <1>0, <2>1, <3>1, Reading
  <2>. PICK q : q = [pc |-> next, code |-> c]
    OBVIOUS
  <2>3. /\ req'[r] = q /\ (\A s \in Requests : s # r => req'[s] = req[s])
        /\ q.pc = next /\ q.code = c
    BY <1>0, <2>1, Written DEF Become
  <2>4. Moves /\ clock' \in Nat /\ clock' >= clock
    BY <1>0, <2>1, RowsStay DEF RowsOK
  <2>5. ASSUME NEW d \in Secrets
        PROVE  /\ sent'[d].attempts + Cardinality(Waiting("increment", d)')
                    <= OTP_MAX_ATTEMPTS + Most - 1
               /\ sent'[d].uses + Cardinality(Waiting("consume", d)') <= Most
    <3>1. /\ sent[d].attempts + Cardinality(Waiting("increment", d)) <= OTP_MAX_ATTEMPTS + Most - 1
          /\ sent[d].uses + Cardinality(Waiting("consume", d)) <= Most
          /\ sent[d].attempts \in Nat /\ sent[d].uses \in Nat
      BY FieldTypes, <1>0 DEF PhoneInv
    <3>2. CASE d = c
      <4>1. sent[d].uses = 0
        BY <1>0, <2>1, <3>2 DEF RowsOK, Over, Valid
      <4>2. sent[d].attempts <= OTP_MAX_ATTEMPTS - 1
        BY <3>1, <3>2, CodeAssumption
      <4>3. sent'[d] = sent[d]
        BY <2>1
      <4>. QED  BY <3>1, <4>1, <4>2, <4>3, WaitingFinite, SomeRequests, CodeAssumption
    <3>3. CASE d # c
      <4>1. /\ Waiting("increment", d)' \subseteq Waiting("increment", d)
            /\ Waiting("consume", d)' \subseteq Waiting("consume", d)
        BY <2>3, <3>3 DEF Waiting, At
      <4>2. /\ Cardinality(Waiting("increment", d)') <= Cardinality(Waiting("increment", d))
            /\ Cardinality(Waiting("consume", d)') <= Cardinality(Waiting("consume", d))
        BY <4>1, WaitingFinite, Fewer
      <4>3. sent'[d] = sent[d]
        BY <2>1
      <4>. QED  BY <3>1, <4>2, <4>3, WaitingFinite, SomeRequests, CodeAssumption
    <3>. QED  BY <3>2, <3>3
  <2>6. Cardinality(Coming') <= Cardinality(Coming)
    BY <2>3, NobodyRequests DEF Coming
  <2>7. \A d \in Secrets : sent'[d].state # "deleted"
    BY <2>1 DEF PhoneInv
  <2>. QED  BY <2>2, <2>4, <2>5, <2>6, <2>7, PhoneKeeps
<1>5. ASSUME NEW r \in Requests, IncrementAttempts(r)  PROVE PhoneInv'
  <2>. PICK c : c = req[r].code
    OBVIOUS
  <2>1. /\ SecretsOK' /\ Moves /\ UNCHANGED clock
        /\ c \in Secrets /\ Created(c)
        /\ sent'[c].state = sent[c].state /\ sent'[c].uses = sent[c].uses
        /\ sent'[c].attempts = sent[c].attempts + 1
        /\ \A d \in Secrets : d # c => sent'[d] = sent[d]
    BY <1>0, <1>5, Guesses
  <2>2. /\ req'[r].pc = "idle" /\ req[r].pc = "increment"
        /\ \A s \in Requests : s # r => req'[s] = req[s]
    BY <1>0, <1>5, Gone DEF IncrementAttempts, At
  <2>3. ASSUME NEW d \in Secrets
        PROVE  /\ sent'[d].attempts + Cardinality(Waiting("increment", d)')
                    <= OTP_MAX_ATTEMPTS + Most - 1
               /\ sent'[d].uses + Cardinality(Waiting("consume", d)') <= Most
    <3>1. /\ sent[d].attempts + Cardinality(Waiting("increment", d)) <= OTP_MAX_ATTEMPTS + Most - 1
          /\ sent[d].uses + Cardinality(Waiting("consume", d)) <= Most
          /\ sent[d].attempts \in Nat /\ sent[d].uses \in Nat
      BY FieldTypes, <1>0 DEF PhoneInv
    <3>2. /\ Cardinality(Waiting("increment", d)') <= Cardinality(Waiting("increment", d))
          /\ Cardinality(Waiting("consume", d)') <= Cardinality(Waiting("consume", d))
          /\ d = c => Cardinality(Waiting("increment", d)') + 1
                        <= Cardinality(Waiting("increment", d))
      <4>1. d = c => r \in Waiting("increment", d)
        BY <2>2 DEF Waiting, At
      <4>. QED  BY <2>2, <4>1, NobodyJoins
    <3>3. /\ d = c => sent'[d].attempts = sent[d].attempts + 1
          /\ d # c => sent'[d].attempts = sent[d].attempts
          /\ sent'[d].uses = sent[d].uses
      BY <2>1
    <3>. QED  BY <3>1, <3>2, <3>3, WaitingFinite, SomeRequests, CodeAssumption
  <2>4. Cardinality(Coming') <= Cardinality(Coming)
    BY <2>2, NobodyRequests DEF Coming
  <2>5. (\A d \in Secrets : sent'[d].state # "deleted") /\ clock' \in Nat /\ clock' >= clock
    BY <1>0, <2>1 DEF PhoneInv, RowsOK
  <2>. QED  BY <2>1, <2>3, <2>4, <2>5, PhoneKeeps
<1>6. ASSUME NEW r \in Requests, Consume(r)  PROVE PhoneInv'
  <2>. PICK c : c = req[r].code
    OBVIOUS
  <2>1. /\ SecretsOK' /\ Moves /\ UNCHANGED clock
        /\ c \in Secrets /\ sent'[c].state = "consumed"
        /\ sent'[c].uses = sent[c].uses + 1 /\ sent'[c].attempts = sent[c].attempts
        /\ \A d \in Secrets : d # c => sent'[d] = sent[d]
    BY <1>0, <1>6, Consumes
  <2>2. /\ req'[r].pc = "findUser" /\ req[r].pc = "consume"
        /\ \A s \in Requests : s # r => req'[s] = req[s]
    BY <1>0, <1>6, Goes DEF Consume, At
  <2>3. ASSUME NEW d \in Secrets
        PROVE  /\ sent'[d].attempts + Cardinality(Waiting("increment", d)')
                    <= OTP_MAX_ATTEMPTS + Most - 1
               /\ sent'[d].uses + Cardinality(Waiting("consume", d)') <= Most
    <3>1. /\ sent[d].attempts + Cardinality(Waiting("increment", d)) <= OTP_MAX_ATTEMPTS + Most - 1
          /\ sent[d].uses + Cardinality(Waiting("consume", d)) <= Most
          /\ sent[d].attempts \in Nat /\ sent[d].uses \in Nat
      BY FieldTypes, <1>0 DEF PhoneInv
    <3>2. /\ Cardinality(Waiting("increment", d)') <= Cardinality(Waiting("increment", d))
          /\ Cardinality(Waiting("consume", d)') <= Cardinality(Waiting("consume", d))
          /\ d = c => Cardinality(Waiting("consume", d)') + 1
                        <= Cardinality(Waiting("consume", d))
      <4>1. d = c => r \in Waiting("consume", d)
        BY <2>2 DEF Waiting, At
      <4>. QED  BY <2>2, <4>1, NobodyJoins
    <3>3. /\ d = c => sent'[d].uses = sent[d].uses + 1
          /\ d # c => sent'[d].uses = sent[d].uses
          /\ sent'[d].attempts = sent[d].attempts
      BY <2>1
    <3>. QED  BY <3>1, <3>2, <3>3, WaitingFinite, SomeRequests, CodeAssumption
  <2>4. Cardinality(Coming') <= Cardinality(Coming)
    BY <2>2, NobodyRequests DEF Coming
  <2>5. (\A d \in Secrets : sent'[d].state # "deleted") /\ clock' \in Nat /\ clock' >= clock
    BY <1>0, <2>1 DEF PhoneInv, RowsOK
  <2>. QED  BY <2>1, <2>3, <2>4, <2>5, PhoneKeeps
<1>7. ASSUME NEW r \in Requests, Finish(r), UNCHANGED sent, UNCHANGED clock  PROVE PhoneInv'
  <2>1. SecretsOK'
    BY <1>0, <1>7, Ends
  <2>2. req'[r].pc = "idle" /\ \A s \in Requests : s # r => req'[s] = req[s]
    BY <1>0, <1>7, Gone
  <2>. QED  BY <1>7, <2>1, <2>2, PhoneIdles
<1>8. ASSUME NEW r \in Requests, FindUser(r)  PROVE PhoneInv'
  <2>1. UNCHANGED sent /\ UNCHANGED clock /\ At(r, "findUser")
        /\ (Finish(r) \/ Goto(r, "createUser"))
    BY <1>8 DEF FindUser, codeVars
  <2>2. CASE Goto(r, "createUser")
    <3>1. /\ \A s \in Requests : s # r => req'[s] = req[s]
          /\ req'[r].pc = "createUser"
      BY <1>0, <2>1, <2>2, Goes DEF At
    <3>2. PICK q : req' = [req EXCEPT ![r] = q] /\ RequestOK(q)
      BY <1>0, <2>1, <2>2, Goes DEF At
    <3>3. SecretsOK'
      BY <1>0, <2>1, <3>2, Reads
    <3>. QED  BY <2>1, <3>1, <3>3, PhoneIdles
  <2>. QED  BY <1>7, <2>1, <2>2
<1>9. ASSUME ClockTick  PROVE PhoneInv'
  <2>1. SecretsOK' /\ Moves /\ clock' \in Nat /\ clock' >= clock
    BY <1>0, <1>9, Ticks
  <2>2. UNCHANGED <<sent, req>>
    BY <1>9 DEF ClockTick
  <2>3. /\ Coming' = Coming
        /\ \A c : Waiting("increment", c)' = Waiting("increment", c)
                  /\ Waiting("consume", c)' = Waiting("consume", c)
    BY <2>2 DEF Coming, Requesting, Waiting, At
  <2>4. ASSUME NEW c \in Secrets
        PROVE  /\ sent'[c].state # "deleted"
               /\ sent'[c].attempts + Cardinality(Waiting("increment", c)')
                    <= OTP_MAX_ATTEMPTS + Most - 1
               /\ sent'[c].uses + Cardinality(Waiting("consume", c)') <= Most
    BY <2>2, <2>3 DEF PhoneInv
  <2>5. Cardinality(Coming') <= Cardinality(Coming)
    BY <2>3, RequestingFinite DEF Coming
  <2>. QED  BY <2>1, <2>4, <2>5, PhoneKeeps
<1>. QED
  <2>1. \A r \in Requests : (RegisterPhone(r) \/ (Die(r) /\ UNCHANGED codeVars))
                              => Finish(r) /\ UNCHANGED sent /\ UNCHANGED clock
    BY DEF RegisterPhone, Die, codeVars
  <2>. QED  BY <1>1, <1>2, <1>3, <1>4, <1>5, <1>6, <1>7, <1>8, <1>9, <2>1 DEF CodesNext

-----------------------------------------------------------------------------
(* The links of an account: a request that deleted them all will create one *)

Replacing == Requesting({"createLink"})

LinksInv ==
  /\ SecretsOK
  /\ \A c \in Secrets : sent[c].attempts = 0 /\ sent[c].uses <= 1
  /\ Cardinality(CodeRows) + Cardinality(Replacing) <= Most

LEMMA CodeRowsFinite ==
  /\ IsFiniteSet(CodeRows) /\ Cardinality(CodeRows) \in Nat
  /\ IsFiniteSet(CodeRows') /\ Cardinality(CodeRows') \in Nat
BY SomeSecrets DEF CodeRows

LEMMA LinksStart == InitSlots /\ CodesInit => LinksInv
<1>. SUFFICES ASSUME InitSlots, CodesInit  PROVE LinksInv
  OBVIOUS
<1>1. SecretsOK
  BY SecretsStart
<1>2. \A c \in Secrets : sent[c].state = "none" /\ sent[c].attempts = 0 /\ sent[c].uses = 0
  BY DEF CodesInit, Unsent
<1>3. Replacing = {} /\ CodeRows = {}
  BY <1>2, AllIdle DEF Replacing, Requesting, CodeRows
<1>4. Cardinality(CodeRows) + Cardinality(Replacing) <= Most
  BY <1>3, SomeRequests, FS_EmptySet
<1>. QED  BY <1>1, <1>2, <1>4 DEF LinksInv

\* A step that creates no link.
LEMMA LinksKeep ==
  ASSUME LinksInv, SecretsOK',
         \A c \in Secrets : sent'[c].attempts = 0 /\ sent'[c].uses <= 1,
         CodeRows' \subseteq CodeRows, Cardinality(Replacing') <= Cardinality(Replacing)
  PROVE  LinksInv'
<1>1. Cardinality(CodeRows') <= Cardinality(CodeRows)
  BY CodeRowsFinite, Fewer
<1>2. /\ Cardinality(CodeRows) + Cardinality(Replacing) <= Most
      /\ Cardinality(Replacing) \in Nat /\ Cardinality(Replacing') \in Nat
  BY RequestingFinite DEF LinksInv, Replacing
<1>3. Cardinality(CodeRows') + Cardinality(Replacing') <= Most
  BY <1>1, <1>2, CodeRowsFinite, SomeRequests
<1>. QED  BY <1>3 DEF LinksInv

LEMMA LinksIdle ==
  ASSUME LinksInv, SecretsOK', UNCHANGED sent,
         NEW r \in Requests, \A s \in Requests : s # r => req'[s] = req[s],
         req'[r].pc # "createLink"
  PROVE  LinksInv'
<1>1. Cardinality(Replacing') <= Cardinality(Replacing)
  BY NobodyRequests DEF Replacing
<1>2. CodeRows' \subseteq CodeRows
  BY DEF CodeRows
<1>3. \A c \in Secrets : sent'[c].attempts = 0 /\ sent'[c].uses <= 1
  BY DEF LinksInv
<1>. QED  BY <1>1, <1>2, <1>3, LinksKeep

LEMMA LinksStep == LinksInv /\ LinksNext => LinksInv'
<1>. SUFFICES ASSUME LinksInv, LinksNext  PROVE LinksInv'
  OBVIOUS
<1>0. SecretsOK /\ Slotted /\ RowsOK
  BY DEF LinksInv, SecretsOK
<1>1. ASSUME NEW r \in Requests, ForgotPassword(r)  PROVE LinksInv'
  <2>. PICK q : q = [pc |-> "deleteLinks"]
    OBVIOUS
  <2>1. req' = [req EXCEPT ![r] = q] /\ UNCHANGED sent
    BY <1>1 DEF ForgotPassword, Count, Become, codeVars
  <2>2. SecretsOK'
    BY <1>0, <1>1, Counts DEF ForgotPassword
  <2>3. req'[r] = q /\ (\A s \in Requests : s # r => req'[s] = req[s]) /\ q.pc = "deleteLinks"
    BY <1>0, <2>1, Written
  <2>. QED  BY <2>1, <2>2, <2>3, LinksIdle
<1>2. ASSUME NEW r \in Requests, DeleteLinks(r)  PROVE LinksInv'
  <2>1. Supersede(r, CodeRows, "deleted", "createLink")
    BY <1>2 DEF DeleteLinks
  <2>2. CodeRows \in SUBSET Secrets /\ (\A c \in Secrets : Valid(c) => c \in CodeRows)
        /\ \A c \in CodeRows : Created(c)
    BY DEF CodeRows, Valid, Created
  <2>3. /\ SecretsOK' /\ Moves
        /\ \A c \in CodeRows : sent'[c].state = "deleted" /\ sent'[c].uses = sent[c].uses
                               /\ sent'[c].attempts = sent[c].attempts
        /\ \A c \in Secrets \ CodeRows : sent'[c] = sent[c]
    BY <1>0, <2>1, <2>2, Supersedes
  <2>4. CodeRows' = {}
    BY <2>3 DEF CodeRows
  <2>5. Cardinality(CodeRows') + Cardinality(Replacing') <= Most
    BY <2>4, FS_EmptySet, RequestingFinite, SomeRequests DEF Replacing
  <2>6. ASSUME NEW c \in Secrets  PROVE sent'[c].attempts = 0 /\ sent'[c].uses <= 1
    <3>1. sent'[c].attempts = sent[c].attempts /\ sent'[c].uses = sent[c].uses
      BY <2>3
    <3>. QED  BY <3>1 DEF LinksInv
  <2>. QED  BY <2>3, <2>5, <2>6 DEF LinksInv
<1>3. ASSUME NEW r \in Requests, CreateLink(r)  PROVE LinksInv'
  <2>. PICK n : n = LastSent + 1
    OBVIOUS
  <2>1. /\ SecretsOK' /\ n \in Secrets
        /\ sent'[n].attempts = 0 /\ sent'[n].uses = 0
        /\ \A c \in Secrets : c # n => sent'[c] = sent[c]
    BY <1>0, <1>3, Creates DEF CreateLink, At
  <2>2. /\ req'[r].pc = "idle" /\ req[r].pc = "createLink"
        /\ \A s \in Requests : s # r => req'[s] = req[s]
    BY <1>0, <1>3, Gone DEF CreateLink, Create, At
  <2>3. CodeRows' \subseteq CodeRows \cup {n}
    BY <2>1 DEF CodeRows
  <2>4. Cardinality(CodeRows') <= Cardinality(CodeRows) + 1
    BY <2>3, CodeRowsFinite, OneMore
  <2>5. Cardinality(Replacing') + 1 <= Cardinality(Replacing)
    BY <2>2, NobodyRequests DEF Replacing
  <2>6. /\ Cardinality(CodeRows) + Cardinality(Replacing) <= Most
        /\ Cardinality(Replacing) \in Nat /\ Cardinality(Replacing') \in Nat
    BY RequestingFinite DEF LinksInv, Replacing
  <2>7. Cardinality(CodeRows') + Cardinality(Replacing') <= Most
    BY <2>4, <2>5, <2>6, CodeRowsFinite, SomeRequests
  <2>8. \A c \in Secrets : sent'[c].attempts = 0 /\ sent'[c].uses <= 1
    BY <2>1 DEF LinksInv
  <2>. QED  BY <2>1, <2>7, <2>8 DEF LinksInv
<1>4. ASSUME NEW r \in Requests, ResetPassword(r)  PROVE LinksInv'
  <2>. PICK c \in Secrets :
         Valid(c) /\ Become(r, [pc |-> "claimLink", code |-> c]) /\ UNCHANGED codeVars
    BY <1>4 DEF ResetPassword
  <2>. PICK q : q = [pc |-> "claimLink", code |-> c]
    OBVIOUS
  <2>1. Created(c) /\ UNCHANGED sent
    BY DEF Valid, Created, codeVars
  <2>2. SecretsOK'
    BY <1>0, <2>1, Reading
  <2>3. req'[r] = q /\ (\A s \in Requests : s # r => req'[s] = req[s]) /\ q.pc = "claimLink"
    BY <1>0, Written DEF Become
  <2>. QED  BY <2>1, <2>2, <2>3, LinksIdle
<1>5. ASSUME NEW r \in Requests, ClaimLink(r)  PROVE LinksInv'
  <2>1. /\ SecretsOK'
        /\ \A c \in Secrets :
             /\ sent'[c].attempts = sent[c].attempts
             /\ \/ sent'[c] = sent[c]
                \/ Valid(c) /\ sent'[c].uses = sent[c].uses + 1
             /\ c \in CodeRows' => c \in CodeRows
    BY <1>0, <1>5, Claims
  <2>2. ASSUME NEW c \in Secrets  PROVE sent'[c].attempts = 0 /\ sent'[c].uses <= 1
    <3>1. Valid(c) => sent[c].uses = 0
      BY <1>0 DEF RowsOK, Valid, Over
    <3>2. sent'[c].uses <= 1
      BY <2>1, <3>1 DEF LinksInv
    <3>. QED  BY <2>1, <3>2 DEF LinksInv
  <2>3. CodeRows' \subseteq CodeRows
    BY <2>1 DEF CodeRows
  <2>4. (\A s \in Requests : s # r => req'[s] = req[s]) /\ req'[r].pc = "idle"
    BY <1>0, <1>5, Gone DEF ClaimLink
  <2>5. Cardinality(Replacing') <= Cardinality(Replacing)
    BY <2>4, NobodyRequests DEF Replacing
  <2>. QED  BY <2>1, <2>2, <2>3, <2>5, LinksKeep
<1>6. ASSUME NEW r \in Requests, Die(r), UNCHANGED codeVars  PROVE LinksInv'
  <2>1. Finish(r) /\ UNCHANGED sent /\ UNCHANGED clock
    BY <1>6 DEF Die, codeVars
  <2>2. SecretsOK'
    BY <1>0, <2>1, Ends
  <2>3. req'[r].pc = "idle" /\ \A s \in Requests : s # r => req'[s] = req[s]
    BY <1>0, <2>1, Gone
  <2>. QED  BY <2>1, <2>2, <2>3, LinksIdle
<1>7. ASSUME ClockTick  PROVE LinksInv'
  <2>1. SecretsOK'
    BY <1>0, <1>7, Ticks
  <2>2. UNCHANGED <<sent, req>>
    BY <1>7 DEF ClockTick
  <2>3. Replacing' = Replacing /\ CodeRows' = CodeRows
    BY <2>2 DEF Replacing, Requesting, CodeRows
  <2>. QED  BY <2>1, <2>2, <2>3 DEF LinksInv
<1>. QED  BY <1>1, <1>2, <1>3, <1>4, <1>5, <1>6, <1>7 DEF LinksNext
=============================================================================
