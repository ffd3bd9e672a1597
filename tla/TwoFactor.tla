----------------------------- MODULE TwoFactor ------------------------------
(***************************************************************************)
(* The second factor of one staff account:                                 *)
(* apps/api/src/auth/two-factor/two-factor.service.ts. The codes entered   *)
(* match the secret that is compared with them, and the eight recovery     *)
(* codes of a batch are one. The watermark against the replay of a TOTP    *)
(* step is left out.                                                       *)
(***************************************************************************)
EXTENDS Slots

CONSTANTS
  MaxSecrets, MaxBatches      \* bounds on the secrets and recovery codes made

ASSUME TwoFactorAssumption == MaxSecrets \in Nat /\ MaxBatches \in Nat

VARIABLES
  twoFactor,        \* the columns of User
  recovery,         \* the TwoFactorRecoveryCode rows, a batch each
  lastSecret

twoFactorVars == <<twoFactor, recovery, lastSecret>>

Batches == 1..MaxBatches
LiveBatch(b) == recovery[b].state = "live"
LastBatch == {b \in Batches : recovery[b].state # "none"}

\* confirmed is the secret whose code enabled the factor, overtaken whether the
\* secret was written while that code was checked.
NoFactor == [enabled |-> FALSE, secret |-> None, confirmed |-> None, overtaken |-> FALSE]

TwoFactorInit ==
  /\ twoFactor = NoFactor
  /\ recovery = [b \in Batches |-> [state |-> "none", uses |-> 0]]
  /\ lastSecret = 0

Overtake(r, q) ==
  [[s \in Requests |-> IF At(s, "enable") THEN [req[s] EXCEPT !.overtaken = TRUE] ELSE req[s]]
     EXCEPT ![r] = q]

Deleted(batches) ==
  [b \in Batches |-> IF b \in batches /\ LiveBatch(b)
                     THEN [recovery[b] EXCEPT !.state = "deleted"] ELSE recovery[b]]

\* The codes are shown once; those of the batches given are deleted.
NewBatch(gone) ==
  \E b \in Batches :
    /\ b \notin LastBatch /\ \A c \in Batches \ LastBatch : b <= c
    /\ recovery' = [Deleted(gone) EXCEPT ![b].state = "live"]

-----------------------------------------------------------------------------
(* setup, confirm                                                           *)

Setup(r) ==
  /\ At(r, "idle")
  /\ ~twoFactor.enabled
  /\ Become(r, [pc |-> "storeSecret"])
  /\ UNCHANGED twoFactorVars

Store(r, enabled) ==
  /\ At(r, "storeSecret")
  /\ lastSecret < MaxSecrets
  /\ lastSecret' = lastSecret + 1
  /\ twoFactor' = [twoFactor EXCEPT !.secret = lastSecret', !.enabled = enabled]
  /\ req' = Overtake(r, Idle)
  /\ UNCHANGED recovery

\* Slip: the flag is left as it is.
StoreSecretOnly(r) == Store(r, twoFactor.enabled)

\* update({ where: { id } }): a factor enabled since the check is disabled.
StoreSecret(r) == Store(r, FALSE)

Confirm(r) ==
  /\ At(r, "idle")
  /\ twoFactor.secret # None /\ ~twoFactor.enabled
  /\ Become(r, [pc |-> "enable", secret |-> twoFactor.secret, overtaken |-> FALSE])
  /\ UNCHANGED twoFactorVars

Enable(r) ==
  /\ At(r, "enable")
  /\ twoFactor' = [twoFactor EXCEPT !.enabled = TRUE, !.confirmed = req[r].secret,
                                    !.overtaken = req[r].overtaken]
  /\ NewBatch(Batches)
  /\ Finish(r)
  /\ UNCHANGED lastSecret

-----------------------------------------------------------------------------
(* regenerateRecoveryCodes, disable, disableForUser                         *)

RegenerateRecoveryCodes(r) ==
  /\ At(r, "idle")
  /\ twoFactor.enabled /\ twoFactor.secret # None
  /\ Become(r, [pc |-> "replaceCodes", seen |-> LastBatch])
  /\ UNCHANGED twoFactorVars

\* deleteMany sees what was committed when it began, after the check at least.
ReplaceCodes(r) ==
  /\ At(r, "replaceCodes")
  /\ \E gone \in {req[r].seen, LastBatch} : NewBatch(gone)
  /\ Finish(r)
  /\ UNCHANGED <<twoFactor, lastSecret>>

Disable(r) ==
  /\ At(r, "idle")
  /\ twoFactor.enabled /\ twoFactor.secret # None
  /\ Become(r, [pc |-> "disable"])
  /\ UNCHANGED twoFactorVars

Clear(r) ==
  /\ twoFactor' = [twoFactor EXCEPT !.enabled = FALSE, !.secret = None]
  /\ recovery' = Deleted(Batches)
  /\ req' = Overtake(r, Idle)
  /\ UNCHANGED lastSecret

ClearFactor(r) == At(r, "disable") /\ Clear(r)

\* A super admin's override: whatever the state is
DisableForUser(r) == At(r, "idle") /\ Clear(r)

-----------------------------------------------------------------------------
(* loginGate, verifyTwoFactorLogin with a recovery code                     *)

VerifyTwoFactorLogin(r) ==
  \E b \in Batches :
    /\ At(r, "idle")
    /\ twoFactor.enabled /\ twoFactor.secret # None
    /\ LiveBatch(b)
    /\ Become(r, [pc |-> "claimCode", code |-> b])
    /\ UNCHANGED twoFactorVars

Burn(r) == recovery' = [recovery EXCEPT ![req[r].code].state = "used",
                                        ![req[r].code].uses = @ + 1]

\* Slip: update({ where: { id } }).
ClaimCodeFound(r) ==
  /\ At(r, "claimCode")
  /\ IF recovery[req[r].code].state = "deleted" THEN UNCHANGED recovery ELSE Burn(r)
  /\ Finish(r)
  /\ UNCHANGED <<twoFactor, lastSecret>>

\* updateMany where usedAt is null
ClaimCode(r) ==
  /\ At(r, "claimCode")
  /\ IF LiveBatch(req[r].code) THEN Burn(r) ELSE UNCHANGED recovery
  /\ Finish(r)
  /\ UNCHANGED <<twoFactor, lastSecret>>

TwoFactorNext ==
  \E r \in Requests :
    \/ Setup(r) \/ StoreSecret(r) \/ Confirm(r) \/ Enable(r)
    \/ RegenerateRecoveryCodes(r) \/ ReplaceCodes(r)
    \/ Disable(r) \/ ClearFactor(r) \/ DisableForUser(r)
    \/ VerifyTwoFactorLogin(r) \/ ClaimCode(r)
    \/ Die(r) /\ UNCHANGED twoFactorVars

-----------------------------------------------------------------------------
(* Properties *)

\* An enabled factor asks for codes of the secret whose code was entered, so
\* that its owner can sign in, unless a setup or an override wrote the secret
\* between the check and the write of a confirmation.
EnabledIsConfirmed ==
  twoFactor.enabled => twoFactor.secret = twoFactor.confirmed \/ twoFactor.overtaken

\* "parallel replays lose the race": a recovery code signs in once.
RecoveryOnce == \A b \in Batches : recovery[b].uses <= 1
=============================================================================
