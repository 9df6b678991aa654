-------------------------------- MODULE Mfa --------------------------------
(***************************************************************************)
(* The second factor of one account: TOTP codes, recovery codes and        *)
(* trusted devices (internal/mfa) and the handlers that use them           *)
(* (internal/platform/http/mfa.go, completeLogin).  A repository method is *)
(* one atomic step; a service method reads the credential first and writes *)
(* later, with nothing held in between.                                    *)
(*                                                                         *)
(* Random values are identified with the request that drew them: a TOTP    *)
(* secret and a set of recovery codes with the setup or regeneration, a    *)
(* trusted device token with the login.  A TOTP code is the pair of secret *)
(* and time step it was computed from.  The current password, which the    *)
(* account handlers ask for, is the subject of module Passwords; a device  *)
(* token presented by another browser is not found and changes nothing.    *)
(* A request that is refused without a write (an account deactivated       *)
(* between the factors, a locked credential) takes no further step, and a  *)
(* second attempt at the same challenge is another login at "verify".      *)
(***************************************************************************)
EXTENDS Naturals, FiniteSets

CONSTANTS
    Requests,
    Initial,       \* the enrolment the account may have at the start
    None,          \* no secret, no code, no token
    CodeNumbers,   \* the recovery codes of one set (ten in the code)
    MaxDevices,    \* trustedDeviceMax (ten in the code)
    Threshold,     \* failures that lock the credential (5 in the code)
    RequestKinds,  \* bound: the kinds of requests a run explores
    LastStep       \* bound: the last time step

ASSUME MfaAssumption ==
    /\ Initial \notin Requests /\ None \notin Requests \union {Initial}
    /\ MaxDevices \in Nat \ {0} /\ Threshold \in Nat \ {0} /\ LastStep \in Nat \ {0}

VARIABLES
    credential,    \* the MFA credential; secret = None when there is none
    trusted,       \* the trusted devices
    now,           \* the current 30 second step
    req            \* the requests

vars == <<credential, trusted, now, req>>

Enrolments == Requests \union {Initial}
RecoveryCodes == Enrolments \X CodeNumbers
NewRecoveryCodes(r) == {r} \X CodeNumbers

Credential ==
    [secret : Enrolments \union {None}, enabled : BOOLEAN,
     lastUsedStep : Nat, failedAttempts : Nat,
     lockedUntil : {"none", "future", "past"}, recoveryCodes : SUBSET RecoveryCodes]

\* lastUsed is the step of LastUsedAt.
TrustedDevice == [token : Requests, lastUsed : Nat, expired : BOOLEAN]

Kinds == {"login", "setup", "enable", "regenerate", "disable", "reset", "untrust"}

\* secret and step are the TOTP code presented, code the recovery code, token the
\* device token.
Request ==
    [pc : {"idle", "challenge", "verify", "useTOTP", "useRecovery", "failure",
           "replace", "enable", "regenerate", "delete", "remember", "session",
           "refused", "done"},
     kind : Kinds \union {"none"},
     secret : Enrolments \union {None}, step : Nat,
     code : RecoveryCodes \union {None}, token : Requests \union {None},
     attempts : Nat, factor : {"none", "totp", "recovery", "device"}]

TypeOK ==
    /\ credential \in Credential
    /\ trusted \in SUBSET TrustedDevice
    /\ now \in 1..LastStep
    /\ req \in [Requests -> Request]

NoCredential == [secret |-> None, enabled |-> FALSE, lastUsedStep |-> 0,
                 failedAttempts |-> 0, lockedUntil |-> "none", recoveryCodes |-> {}]

Init ==
    /\ credential \in {NoCredential,
          [NoCredential EXCEPT !.secret = Initial, !.enabled = TRUE,
                               !.recoveryCodes = NewRecoveryCodes(Initial)]}
    /\ trusted = {}
    /\ now = 1
    /\ req = [r \in Requests |->
                [pc |-> "idle", kind |-> "none", secret |-> None, step |-> 0,
                 code |-> None, token |-> None, attempts |-> 0,
                 factor |-> "none"]]

GoTo(r, pc) == req' = [req EXCEPT ![r].pc = pc]

-----------------------------------------------------------------------------
(***************************************************************************)
(* Repository methods.                                                     *)
(***************************************************************************)
Exists == credential.secret # None
Enabled == Exists /\ credential.enabled

\* A new secret and new recovery codes, not enabled; the devices are forgotten.
ReplacePending(r) ==
    /\ credential' = [NoCredential EXCEPT !.secret = r,
                                          !.recoveryCodes = NewRecoveryCodes(r)]
    /\ trusted' = {}

\* Mutant: the devices of the previous enrolment are kept.
DeleteKeepsDevices ==
    credential' = NoCredential /\ UNCHANGED trusted

\* A credential that is not there is an error, and nothing is deleted.
Delete ==
    /\ credential' = NoCredential
    /\ trusted' = IF Exists THEN {} ELSE trusted

\* Enable stores what it is given over whatever credential is there by now.
EnableCredential(step) ==
    credential' = [credential EXCEPT !.enabled = TRUE, !.lastUsedStep = step,
                                     !.failedAttempts = 0, !.lockedUntil = "none"]

\* Mutant: the step is compared when the code is matched, not when it is used.
TOTPUsableAlways(step) == Enabled

TOTPUsable(step) == Enabled /\ step > credential.lastUsedStep

\* Mutant: a success takes back one failure, whether there was one or not.
UseTOTPTakesBack(step) ==
    credential' = [credential EXCEPT !.lastUsedStep = step,
                                     !.failedAttempts = @ - 1, !.lockedUntil = "none"]

UseTOTP(step) ==
    credential' = [credential EXCEPT !.lastUsedStep = step,
                                     !.failedAttempts = 0, !.lockedUntil = "none"]

UseRecoveryCode(code) ==
    credential' = [credential EXCEPT !.recoveryCodes = @ \ {code},
                                     !.failedAttempts = 0, !.lockedUntil = "none"]

\* The caller's count and lock are stored as they are, an absent lock too.
StoreFailure(attempts) ==
    credential' = [credential EXCEPT
        !.failedAttempts = attempts,
        !.lockedUntil = IF attempts >= Threshold THEN "future" ELSE "none"]

NewDevice(r) == [token |-> r, lastUsed |-> now, expired |-> FALSE]

LiveDevices == {device \in trusted : ~device.expired}

\* The choices of at most max devices of which no other one was used later.  The
\* sort is not stable and a clock is read before the lock is taken: devices used
\* in one step go in any order.
MostRecent(devices, max) ==
    {kept \in SUBSET devices :
        /\ Cardinality(kept) =
             IF Cardinality(devices) > max THEN max ELSE Cardinality(devices)
        /\ \A d \in kept, e \in devices \ kept : d.lastUsed >= e.lastUsed}

\* Mutant: the limit is checked before the device is added.
StoreTrustedDeviceFirst(r) ==
    \E kept \in MostRecent(LiveDevices, MaxDevices) :
        trusted' = kept \union {NewDevice(r)}

\* Expired devices go, the new one comes, the least recently used ones go.
StoreTrustedDevice(r) ==
    trusted' \in MostRecent(LiveDevices \union {NewDevice(r)}, MaxDevices)

\* The new token takes the place of the old one, expiry included.
RotateTrustedDevice(r, device) ==
    trusted' = (trusted \ {device}) \union {NewDevice(r)}

-----------------------------------------------------------------------------
(***************************************************************************)
(* Login: completeLogin after the first factor.                            *)
(***************************************************************************)
\* RequiresChallenge: an account without MFA gets its session at once.
completeLogin(r) ==
    /\ req[r].pc = "idle" /\ "login" \in RequestKinds
    /\ req' = [req EXCEPT ![r].kind = "login",
                          ![r].pc = IF Enabled THEN "challenge" ELSE "session"]
    /\ UNCHANGED <<credential, trusted, now>>

\* UseTrustedDevice; an expired device is deleted and the challenge follows.
completeLoginWithTrustedDevice(r) ==
    /\ req[r].pc = "challenge"
    /\ \E device \in trusted :
         IF device.expired
           THEN trusted' = trusted \ {device} /\ GoTo(r, "verify")
           ELSE /\ RotateTrustedDevice(r, device)
                /\ req' = [req EXCEPT ![r].pc = "session", ![r].token = device.token,
                                      ![r].factor = "device"]
    /\ UNCHANGED <<credential, now>>

\* The form of the challenge comes back; the browser had no device token.
mfaLoginVerify(r) ==
    /\ req[r].pc = "challenge" /\ GoTo(r, "verify")
    /\ UNCHANGED <<credential, trusted, now>>

\* RememberDevice; its errors are logged and the login goes on.
RememberDevice(r) ==
    /\ req[r].pc = "remember"
    /\ IF Enabled THEN StoreTrustedDevice(r) ELSE UNCHANGED trusted
    /\ GoTo(r, "session")
    /\ UNCHANGED <<credential, now>>

createLoginSession(r) ==
    /\ req[r].pc = "session" /\ GoTo(r, "done")
    /\ UNCHANGED <<credential, trusted, now>>

-----------------------------------------------------------------------------
(***************************************************************************)
(* Verify, called by a login, a regeneration and a deactivation.           *)
(***************************************************************************)
\* The account handlers call Verify after the password check.
StartVerified(r) ==
    /\ req[r].pc = "idle"
    /\ \E kind \in {"regenerate", "disable"} \intersect RequestKinds :
         req' = [req EXCEPT ![r].pc = "verify", ![r].kind = kind]
    /\ UNCHANGED <<credential, trusted, now>>

Verifiable(r) ==
    req[r].pc = "verify" /\ Enabled /\ credential.lockedUntil # "future"

\* matchTOTP: the code belongs to the secret and to a step next to the current one.
Matches(secret, step) == secret = credential.secret /\ step \in {now - 1, now, now + 1}

\* A code that was used before is refused without counting as a failure.
VerifyTOTP(r) ==
    /\ Verifiable(r)
    /\ \E step \in 1..LastStep :
         /\ Matches(credential.secret, step)
         /\ req' = [req EXCEPT
              ![r].pc = IF step > credential.lastUsedStep THEN "useTOTP" ELSE "refused",
              ![r].secret = credential.secret, ![r].step = step]
    /\ UNCHANGED <<credential, trusted, now>>

\* Any other six digits, and anything that is no code at all.
VerifyWrong(r) ==
    /\ Verifiable(r)
    /\ req' = [req EXCEPT ![r].pc = "failure", ![r].attempts = credential.failedAttempts]
    /\ UNCHANGED <<credential, trusted, now>>

VerifyRecovery(r) ==
    /\ Verifiable(r)
    /\ \E code \in RecoveryCodes :
         req' = [req EXCEPT ![r].pc = "useRecovery", ![r].code = code,
                            ![r].attempts = credential.failedAttempts]
    /\ UNCHANGED <<credential, trusted, now>>

\* What follows a successful verification; a login may remember the device.
Verified(r, factor) ==
    \E pc \in CASE req[r].kind = "login"      -> {"remember", "session"}
                [] req[r].kind = "regenerate" -> {"regenerate"}
                [] OTHER                      -> {"delete"} :
        req' = [req EXCEPT ![r].pc = pc, ![r].factor = factor]

ConsumeTOTP(r) ==
    /\ req[r].pc = "useTOTP"
    /\ IF TOTPUsable(req[r].step)
         THEN UseTOTP(req[r].step) /\ Verified(r, "totp")
         ELSE UNCHANGED credential /\ GoTo(r, "refused")
    /\ UNCHANGED <<trusted, now>>

ConsumeRecovery(r) ==
    /\ req[r].pc = "useRecovery"
    /\ IF Enabled /\ req[r].code \in credential.recoveryCodes
         THEN UseRecoveryCode(req[r].code) /\ Verified(r, "recovery")
         ELSE UNCHANGED credential /\ GoTo(r, "failure")
    /\ UNCHANGED <<trusted, now>>

RecordFailure(r) ==
    /\ req[r].pc = "failure"
    /\ Exists /\ StoreFailure(req[r].attempts + 1)
    /\ GoTo(r, "refused")
    /\ UNCHANGED <<trusted, now>>

-----------------------------------------------------------------------------
(***************************************************************************)
(* Account and administration handlers.                                    *)
(***************************************************************************)
\* Setup is refused while MFA is enabled; the check and the write are two calls.
setupAccountMFA(r) ==
    /\ req[r].pc = "idle" /\ "setup" \in RequestKinds
    /\ ~Enabled
    /\ req' = [req EXCEPT ![r].pc = "replace", ![r].kind = "setup"]
    /\ UNCHANGED <<credential, trusted, now>>

StoreSetup(r) ==
    /\ req[r].pc = "replace"
    /\ ReplacePending(r)
    /\ GoTo(r, "done")
    /\ UNCHANGED now

\* Enable: a matching code of the pending secret that was read.
enableAccountMFA(r) ==
    /\ req[r].pc = "idle" /\ "enable" \in RequestKinds
    /\ Exists /\ ~credential.enabled
    /\ \E step \in 1..LastStep :
         /\ Matches(credential.secret, step) /\ step > credential.lastUsedStep
         /\ req' = [req EXCEPT ![r].pc = "enable", ![r].kind = "enable",
                               ![r].secret = credential.secret, ![r].step = step]
    /\ UNCHANGED <<credential, trusted, now>>

StoreEnabled(r) ==
    /\ req[r].pc = "enable"
    /\ Exists /\ EnableCredential(req[r].step)
    /\ GoTo(r, "done")
    /\ UNCHANGED <<trusted, now>>

\* RegenerateRecoveryCodes; ReplaceRecoveryCodes looks at enabled under its lock.
regenerateAccountMFARecoveryCodes(r) ==
    /\ req[r].pc = "regenerate" /\ Enabled
    /\ credential' = [credential EXCEPT !.recoveryCodes = NewRecoveryCodes(r)]
    /\ GoTo(r, "done")
    /\ UNCHANGED <<trusted, now>>

\* Disable; a credential that is gone already is no error.
disableAccountMFA(r) ==
    /\ req[r].pc = "delete" /\ Delete
    /\ GoTo(r, "done")
    /\ UNCHANGED now

resetAdminUserMFA(r) ==
    /\ req[r].pc = "idle" /\ "reset" \in RequestKinds /\ Delete
    /\ req' = [req EXCEPT ![r].pc = "done", ![r].kind = "reset"]
    /\ UNCHANGED now

\* Also the last call of a password change or reset.
revokeAccountMFATrustedDevices(r) ==
    /\ req[r].pc = "idle" /\ "untrust" \in RequestKinds
    /\ trusted' = {}
    /\ req' = [req EXCEPT ![r].pc = "done", ![r].kind = "untrust"]
    /\ UNCHANGED <<credential, now>>

\* Time: the next step begins, a lock or the 30 days of a device run out.
Tick ==
    /\ now < LastStep /\ now' = now + 1
    /\ UNCHANGED <<credential, trusted, req>>

LockOver ==
    /\ credential.lockedUntil = "future"
    /\ credential' = [credential EXCEPT !.lockedUntil = "past"]
    /\ UNCHANGED <<trusted, now, req>>

ExpireDevice ==
    /\ \E device \in LiveDevices :
         trusted' = (trusted \ {device}) \union {[device EXCEPT !.expired = TRUE]}
    /\ UNCHANGED <<credential, now, req>>

Next ==
    \/ \E r \in Requests :
         \/ completeLogin(r) \/ completeLoginWithTrustedDevice(r) \/ mfaLoginVerify(r)
         \/ RememberDevice(r) \/ createLoginSession(r)
         \/ StartVerified(r) \/ VerifyTOTP(r) \/ VerifyWrong(r) \/ VerifyRecovery(r)
         \/ ConsumeTOTP(r) \/ ConsumeRecovery(r) \/ RecordFailure(r)
         \/ setupAccountMFA(r) \/ StoreSetup(r)
         \/ enableAccountMFA(r) \/ StoreEnabled(r)
         \/ regenerateAccountMFARecoveryCodes(r) \/ disableAccountMFA(r)
         \/ resetAdminUserMFA(r) \/ revokeAccountMFATrustedDevices(r)
    \/ Tick \/ LockOver \/ ExpireDevice

Spec == Init /\ [][Next]_vars

-----------------------------------------------------------------------------
(***************************************************************************)
(* Properties.                                                             *)
(***************************************************************************)
\* The request stored an activation.
Activated(x) == req[x].kind = "enable" /\ req[x].pc = "done"

\* README "the last successful time step is recorded atomically and the replay of
\* a code is refused": however requests interleave, no two of them pass a
\* verification with the same TOTP code.  The one way around it is Enable, which
\* stores its step unconditionally, while UseTOTP compares steps and not secrets:
\* it takes an activation that sets the step back, after the one that made the
\* secret of the code the enabled one.
TOTPOnce ==
    \A q, r \in Requests :
        /\ q # r
        /\ req[q].factor = "totp" /\ req[r].factor = "totp"
        /\ req[q].secret = req[r].secret /\ req[q].step = req[r].step
        => \E x, y \in Requests :
              /\ Activated(x) /\ Activated(y)
              /\ req[q].secret # Initial => x # y

\* README "a recovery code is void once it was used": the same for recovery codes,
\* across regenerations and enrolments.
RecoveryCodeOnce ==
    \A q, r \in Requests :
        /\ req[q].factor = "recovery" /\ req[r].factor = "recovery"
        /\ req[q].code = req[r].code
        => q = r

\* The token of a trusted device stands for the second factor of one login.
DeviceTokenOnce ==
    \A q, r \in Requests :
        /\ req[q].factor = "device" /\ req[r].factor = "device"
        /\ req[q].token = req[r].token
        => q = r

\* What stood for a second factor never does so again: neither a time based code
\* nor a recovery code nor the token of a trusted device lets two requests pass.
FactorsServeOnce == TOTPOnce /\ RecoveryCodeOnce /\ DeviceTokenOnce

\* Trust never outlives the enrolment it was given under: while MFA is off or not
\* yet enabled the account has no trusted device, and it never has more than the
\* limit, whatever logins in flight still remember.
TrustedOnlyWhileEnabled ==
    /\ trusted # {} => Enabled
    /\ Cardinality(trusted) <= MaxDevices

=============================================================================
