----------------------------- MODULE MfaProofs -----------------------------
(***************************************************************************)
(* The second factor of an account, for any number of requests, recovery   *)
(* codes, trusted devices and time steps.                                  *)
(*                                                                         *)
(* Every action moves one request forward, or none; Advance says how a     *)
(* request may move, and the parts of the invariant are each disturbed by  *)
(* few actions beyond that.                                                *)
(***************************************************************************)
EXTENDS Mfa, FiniteSetTheorems, TLAPS

\* Where a request is once a factor has let it pass.
Passed == {"remember", "session", "regenerate", "delete", "done"}

\* A request passes once, and only activations are stored by Enable.
FlowInv ==
    \A r \in Requests :
        /\ req[r].factor # "none" => req[r].pc \in Passed
        /\ req[r].pc = "enable" => req[r].kind = "enable"

DeviceInv == IsFiniteSet(trusted) /\ TrustedOnlyWhileEnabled

\* The request that drew a device token has stored it.
Stored(t) == req[t].pc \in {"session", "done"}

\* The tokens of the devices, and those that were used, are known ones; a token
\* names one device, and none once it was used.
TokenInv ==
    /\ \A d \in trusted : Stored(d.token)
    /\ \A d, e \in trusted : d.token = e.token => d = e
    /\ \A q \in Requests : req[q].factor = "device" =>
         /\ req[q].token \in Requests /\ Stored(req[q].token)
         /\ \A d \in trusted : d.token # req[q].token
    /\ DeviceTokenOnce

\* The set of codes was stored by the request it is named after.
Issued(code) == code[1] = Initial \/ req[code[1]].pc = "done"

\* The codes there are, and those that were used, are issued; none is both.
CodeInv ==
    /\ \A code \in credential.recoveryCodes : Issued(code)
    /\ \A q \in Requests : req[q].factor = "recovery" =>
         /\ req[q].code \in RecoveryCodes /\ Issued(req[q].code)
         /\ req[q].code \notin credential.recoveryCodes
    /\ RecoveryCodeOnce

\* The passes with a code of one of the given secrets: no two with the same step,
\* and while MFA is enabled the last used step is not before any of them.
Counted(secrets) ==
    \A q \in Requests : req[q].factor = "totp" /\ req[q].secret \in secrets =>
        /\ Enabled => req[q].step <= credential.lastUsedStep
        /\ \A r \in Requests :
             req[r].factor = "totp" /\ req[r].secret \in secrets /\ req[r].step = req[q].step
               => r = q

\* A secret other than the initial one is enabled by an activation; the steps are
\* counted until the first activation, and from it to the second.
StepInv ==
    /\ \A q \in Requests :
         req[q].pc = "useTOTP" \/ req[q].factor = "totp" =>
           /\ req[q].secret \in Enrolments
           /\ req[q].secret # Initial => \E x \in Requests : Activated(x)
    /\ Enabled /\ credential.secret # Initial => \E x \in Requests : Activated(x)
    /\ (\A x \in Requests : ~Activated(x)) => Counted({Initial})
    /\ (\A x, y \in Requests : Activated(x) /\ Activated(y) => x = y) => Counted(Requests)

MfaInv == TypeOK /\ FlowInv /\ DeviceInv /\ TokenInv /\ CodeInv /\ StepInv

\* A request moves: the others stay, it has neither ended nor, once it has
\* passed, does it change what it passed with.
Advance(r) ==
    /\ req' \in [Requests -> Request]
    /\ \A q \in Requests : q # r => req'[q] = req[q]
    /\ req[r].pc # "done" /\ (req[r].pc = "session" => req'[r].pc = "done")
    /\ req[r].pc = "enable" => req'[r].kind = req[r].kind
    /\ req[r].factor # "none" =>
         /\ req'[r].factor = req[r].factor /\ req'[r].token = req[r].token
         /\ req'[r].code = req[r].code
         /\ req'[r].secret = req[r].secret /\ req'[r].step = req[r].step
    /\ req'[r].factor # "none" => req'[r].pc \in Passed
    /\ req'[r].pc = "enable" => req'[r].kind = "enable"

\* The request does not pass with the given factor in this step.
NoPass(r, factor) == req'[r].factor = factor => req[r].factor = factor

-----------------------------------------------------------------------------
(***************************************************************************)
(* Every action of a request is an Advance.                                *)
(***************************************************************************)
LEMMA LoginAdvances ==
    ASSUME TypeOK, FlowInv, NEW r \in Requests,
           \/ completeLogin(r) \/ completeLoginWithTrustedDevice(r) \/ mfaLoginVerify(r)
           \/ RememberDevice(r) \/ createLoginSession(r)
    PROVE  Advance(r)
<1> USE DEF TypeOK, FlowInv, Advance, GoTo, Passed
<1>0. req[r] \in Request
  OBVIOUS
<1>1. CASE completeLogin(r)
  BY <1>0, <1>1 DEF completeLogin, Request, Kinds
<1>2. CASE completeLoginWithTrustedDevice(r)
  <2>1. PICK device \in trusted :
          IF device.expired
            THEN req' = [req EXCEPT ![r].pc = "verify"]
            ELSE req' = [req EXCEPT ![r].pc = "session", ![r].token = device.token,
                                    ![r].factor = "device"]
    BY <1>2 DEF completeLoginWithTrustedDevice
  <2>2. req[r].pc = "challenge"
    BY <1>2 DEF completeLoginWithTrustedDevice
  <2>3. device.token \in Requests
    BY DEF TrustedDevice
  <2>4. CASE device.expired
    BY <1>0, <2>1, <2>2, <2>4 DEF Request
  <2>5. CASE ~device.expired
    BY <1>0, <2>1, <2>2, <2>3, <2>5 DEF Request
  <2> QED  BY <2>4, <2>5
<1>3. CASE mfaLoginVerify(r)
  BY <1>0, <1>3 DEF mfaLoginVerify, Request
<1>4. CASE RememberDevice(r)
  BY <1>0, <1>4 DEF RememberDevice, Request
<1>5. CASE createLoginSession(r)
  BY <1>0, <1>5 DEF createLoginSession, Request
<1> QED  BY <1>1, <1>2, <1>3, <1>4, <1>5

LEMMA VerifyAdvances ==
    ASSUME TypeOK, FlowInv, NEW r \in Requests,
           \/ StartVerified(r) \/ VerifyTOTP(r) \/ VerifyWrong(r) \/ VerifyRecovery(r)
    PROVE  Advance(r)
<1> USE DEF TypeOK, FlowInv, Advance, Passed
<1>0. req[r] \in Request
  OBVIOUS
<1>1. CASE StartVerified(r)
  <2>1. PICK kind \in {"regenerate", "disable"} :
          req' = [req EXCEPT ![r].pc = "verify", ![r].kind = kind]
    BY <1>1 DEF StartVerified
  <2>2. req[r].pc = "idle"
    BY <1>1 DEF StartVerified
  <2> QED  BY <1>0, <2>1, <2>2 DEF Request, Kinds
<1>2. CASE VerifyTOTP(r)
  <2>1. PICK step \in 1..LastStep, pc \in {"useTOTP", "refused"} :
          req' = [req EXCEPT ![r].pc = pc,
                             ![r].secret = credential.secret, ![r].step = step]
    BY <1>2 DEF VerifyTOTP
  <2>2. step \in Nat /\ credential.secret \in Enrolments \union {None}
    BY MfaAssumption DEF Credential
  <2>3. req[r].pc = "verify"
    BY <1>2 DEF VerifyTOTP, Verifiable
  <2> QED  BY <1>0, <2>1, <2>2, <2>3 DEF Request
<1>3. CASE VerifyWrong(r)
  <2>1. credential.failedAttempts \in Nat
    BY DEF Credential
  <2> QED  BY <1>0, <1>3, <2>1 DEF VerifyWrong, Verifiable, Request
<1>4. CASE VerifyRecovery(r)
  <2>1. credential.failedAttempts \in Nat
    BY DEF Credential
  <2>2. PICK code \in RecoveryCodes :
          req' = [req EXCEPT ![r].pc = "useRecovery", ![r].code = code,
                             ![r].attempts = credential.failedAttempts]
    BY <1>4 DEF VerifyRecovery
  <2>3. req[r].pc = "verify"
    BY <1>4 DEF VerifyRecovery, Verifiable
  <2> QED  BY <1>0, <2>1, <2>2, <2>3 DEF Request
<1> QED  BY <1>1, <1>2, <1>3, <1>4

LEMMA ConsumeAdvances ==
    ASSUME TypeOK, FlowInv, NEW r \in Requests,
           ConsumeTOTP(r) \/ ConsumeRecovery(r) \/ RecordFailure(r)
    PROVE  Advance(r)
<1> USE DEF TypeOK, FlowInv, Advance, GoTo, Passed
<1>0. req[r] \in Request
  OBVIOUS
<1>1. ASSUME NEW factor \in {"totp", "recovery"}, Verified(r, factor),
             req[r].pc \in {"useTOTP", "useRecovery"}
      PROVE  Advance(r)
  <2>1. PICK pc \in {"remember", "session", "regenerate", "delete"} :
          req' = [req EXCEPT ![r].pc = pc, ![r].factor = factor]
    BY <1>1 DEF Verified
  <2> QED  BY <1>0, <1>1, <2>1 DEF Request
<1>2. ASSUME NEW pc \in {"refused", "failure"}, GoTo(r, pc),
             req[r].pc \in {"useTOTP", "useRecovery", "failure"}
      PROVE  Advance(r)
  BY <1>0, <1>2 DEF Request
<1>3. CASE ConsumeTOTP(r)
  BY <1>1, <1>2, <1>3 DEF ConsumeTOTP
<1>4. CASE ConsumeRecovery(r)
  BY <1>1, <1>2, <1>4 DEF ConsumeRecovery
<1>5. CASE RecordFailure(r)
  BY <1>2, <1>5 DEF RecordFailure
<1> QED  BY <1>3, <1>4, <1>5

LEMMA AccountAdvances ==
    ASSUME TypeOK, FlowInv, NEW r \in Requests,
           \/ setupAccountMFA(r) \/ StoreSetup(r)
           \/ enableAccountMFA(r) \/ StoreEnabled(r)
           \/ regenerateAccountMFARecoveryCodes(r) \/ disableAccountMFA(r)
           \/ resetAdminUserMFA(r) \/ revokeAccountMFATrustedDevices(r)
    PROVE  Advance(r)
<1> USE DEF TypeOK, FlowInv, Advance, GoTo, Passed
<1>0. req[r] \in Request
  OBVIOUS
<1>1. CASE setupAccountMFA(r)
  BY <1>0, <1>1 DEF setupAccountMFA, Request, Kinds
<1>2. CASE StoreSetup(r)
  BY <1>0, <1>2 DEF StoreSetup, Request
<1>3. CASE enableAccountMFA(r)
  <2>1. PICK step \in 1..LastStep :
          req' = [req EXCEPT ![r].pc = "enable", ![r].kind = "enable",
                             ![r].secret = credential.secret, ![r].step = step]
    BY <1>3 DEF enableAccountMFA
  <2>2. step \in Nat /\ credential.secret \in Enrolments \union {None}
    BY MfaAssumption DEF Credential
  <2>3. req[r].pc = "idle"
    BY <1>3 DEF enableAccountMFA
  <2> QED  BY <1>0, <2>1, <2>2, <2>3 DEF Request, Kinds
<1>4. CASE StoreEnabled(r)
  BY <1>0, <1>4 DEF StoreEnabled, Request
<1>5. CASE regenerateAccountMFARecoveryCodes(r)
  BY <1>0, <1>5 DEF regenerateAccountMFARecoveryCodes, Request
<1>6. CASE disableAccountMFA(r)
  BY <1>0, <1>6 DEF disableAccountMFA, Request
<1>7. CASE resetAdminUserMFA(r)
  BY <1>0, <1>7 DEF resetAdminUserMFA, Request, Kinds
<1>8. CASE revokeAccountMFATrustedDevices(r)
  BY <1>0, <1>8 DEF revokeAccountMFATrustedDevices, Request, Kinds
<1> QED  BY <1>1, <1>2, <1>3, <1>4, <1>5, <1>6, <1>7, <1>8

\* The actions after which a request has passed no more than before.
LEMMA FactorKept ==
    ASSUME TypeOK, NEW r \in Requests,
           \/ completeLogin(r) \/ mfaLoginVerify(r) \/ createLoginSession(r)
           \/ RememberDevice(r)
           \/ StartVerified(r) \/ VerifyTOTP(r) \/ VerifyWrong(r) \/ VerifyRecovery(r)
           \/ setupAccountMFA(r) \/ enableAccountMFA(r) \/ StoreEnabled(r)
           \/ regenerateAccountMFARecoveryCodes(r) \/ RecordFailure(r)
           \/ StoreSetup(r) \/ disableAccountMFA(r) \/ resetAdminUserMFA(r)
           \/ revokeAccountMFATrustedDevices(r)
    PROVE  req'[r].factor = req[r].factor
<1> USE DEF TypeOK, Request, GoTo
<1>1. CASE completeLogin(r) \/ mfaLoginVerify(r) \/ createLoginSession(r) \/ RememberDevice(r)
  BY <1>1 DEF completeLogin, mfaLoginVerify, createLoginSession, RememberDevice
<1>2. CASE StartVerified(r) \/ VerifyWrong(r)
  BY <1>2 DEF StartVerified, VerifyWrong
<1>3. CASE VerifyTOTP(r)
  <2>1. PICK step, pc :
          req' = [req EXCEPT ![r].pc = pc,
                             ![r].secret = credential.secret, ![r].step = step]
    BY <1>3 DEF VerifyTOTP
  <2> QED  BY <2>1
<1>4. CASE VerifyRecovery(r)
  BY <1>4 DEF VerifyRecovery
<1>5. CASE setupAccountMFA(r) \/ StoreEnabled(r)
  BY <1>5 DEF setupAccountMFA, StoreEnabled
<1>6. CASE enableAccountMFA(r)
  <2>1. PICK step :
          req' = [req EXCEPT ![r].pc = "enable", ![r].kind = "enable",
                             ![r].secret = credential.secret, ![r].step = step]
    BY <1>6 DEF enableAccountMFA
  <2> QED  BY <2>1
<1>7. CASE regenerateAccountMFARecoveryCodes(r) \/ RecordFailure(r) \/ StoreSetup(r)
  BY <1>7 DEF regenerateAccountMFARecoveryCodes, RecordFailure, StoreSetup
<1>8. CASE disableAccountMFA(r) \/ resetAdminUserMFA(r) \/ revokeAccountMFATrustedDevices(r)
  BY <1>8 DEF disableAccountMFA, resetAdminUserMFA, revokeAccountMFATrustedDevices
<1> QED  BY <1>1, <1>2, <1>3, <1>4, <1>5, <1>6, <1>7, <1>8

\* A trusted device stands for the factor, or the request goes on to verify one.
LEMMA DevicePass ==
    ASSUME TypeOK, NEW r \in Requests, completeLoginWithTrustedDevice(r)
    PROVE  /\ UNCHANGED credential
           /\ req'[r].factor = req[r].factor \/ req'[r].factor = "device"
           /\ req'[r].pc # "useTOTP"
<1>1. PICK device \in trusted :
        \/ req' = [req EXCEPT ![r].pc = "verify"]
        \/ req' = [req EXCEPT ![r].pc = "session", ![r].token = device.token,
                              ![r].factor = "device"]
  BY DEF completeLoginWithTrustedDevice, GoTo
<1>2. req'[r].factor = req[r].factor \/ req'[r].factor = "device"
  BY <1>1 DEF TypeOK, Request
<1>3. req'[r].pc # "useTOTP"
  BY <1>1 DEF TypeOK, Request
<1> QED  BY <1>2, <1>3 DEF completeLoginWithTrustedDevice

\* A verification changes the factor to the one it verified, or not at all.
LEMMA PassedWith ==
    ASSUME TypeOK, NEW r \in Requests, ConsumeTOTP(r) \/ ConsumeRecovery(r)
    PROVE  /\ req'[r].factor = req[r].factor
              \/ (ConsumeTOTP(r) /\ req'[r].factor = "totp")
              \/ (ConsumeRecovery(r) /\ req'[r].factor = "recovery")
           /\ req'[r].secret = req[r].secret /\ req'[r].step = req[r].step
           /\ req'[r].code = req[r].code
<1> USE DEF TypeOK, Request
<1>1. ASSUME NEW factor, Verified(r, factor)
      PROVE  /\ req'[r].factor = factor
             /\ req'[r].secret = req[r].secret /\ req'[r].step = req[r].step
             /\ req'[r].code = req[r].code
  <2>1. PICK pc : req' = [req EXCEPT ![r].pc = pc, ![r].factor = factor]
    BY <1>1 DEF Verified
  <2> QED  BY <2>1
<1>2. ASSUME NEW pc, GoTo(r, pc)
      PROVE  /\ req'[r].factor = req[r].factor
             /\ req'[r].secret = req[r].secret /\ req'[r].step = req[r].step
             /\ req'[r].code = req[r].code
  BY <1>2 DEF GoTo
<1>3. CASE ConsumeTOTP(r)
  BY <1>1, <1>2, <1>3 DEF ConsumeTOTP
<1>4. CASE ConsumeRecovery(r)
  BY <1>1, <1>2, <1>4 DEF ConsumeRecovery
<1> QED  BY <1>3, <1>4

\* The credential and the devices keep their types.
LEMMA StoreTypes ==
    ASSUME TypeOK, Next
    PROVE  credential' \in Credential /\ trusted' \in SUBSET TrustedDevice /\ now' \in 1..LastStep
<1> USE MfaAssumption DEF TypeOK
<1>0. /\ NoCredential \in Credential
      /\ \A r \in Requests :
           [NoCredential EXCEPT !.secret = r, !.recoveryCodes = NewRecoveryCodes(r)] \in Credential
  BY DEF NoCredential, NewRecoveryCodes, RecoveryCodes, Enrolments, Credential
<1>1. \A r \in Requests : NewDevice(r) \in TrustedDevice
  BY DEF NewDevice, TrustedDevice
<1>2. ASSUME NEW r \in Requests,
             \/ completeLogin(r) \/ mfaLoginVerify(r) \/ createLoginSession(r)
             \/ StartVerified(r) \/ VerifyTOTP(r) \/ VerifyWrong(r) \/ VerifyRecovery(r)
             \/ setupAccountMFA(r) \/ enableAccountMFA(r)
      PROVE  UNCHANGED <<credential, trusted, now>>
  BY <1>2 DEF completeLogin, mfaLoginVerify, createLoginSession, StartVerified,
       VerifyTOTP, VerifyWrong, VerifyRecovery, setupAccountMFA, enableAccountMFA
<1>3. ASSUME NEW r \in Requests, completeLoginWithTrustedDevice(r) \/ RememberDevice(r)
      PROVE  UNCHANGED <<credential, now>> /\ trusted' \in SUBSET TrustedDevice
  BY <1>1, <1>3 DEF completeLoginWithTrustedDevice, RememberDevice, RotateTrustedDevice,
       StoreTrustedDevice, MostRecent, LiveDevices
<1>4. ASSUME NEW r \in Requests,
             ConsumeTOTP(r) \/ ConsumeRecovery(r) \/ RecordFailure(r) \/ StoreEnabled(r)
             \/ regenerateAccountMFARecoveryCodes(r)
      PROVE  credential' \in Credential /\ UNCHANGED <<trusted, now>>
  <2>1. req[r].step \in Nat /\ req[r].attempts \in Nat
    BY DEF Request
  <2>2. NewRecoveryCodes(r) \subseteq RecoveryCodes
    BY DEF NewRecoveryCodes, RecoveryCodes, Enrolments
  <2>3. CASE ConsumeTOTP(r)
    <3>1. ASSUME UseTOTP(req[r].step)  PROVE credential' \in Credential
      BY <2>1, <3>1 DEF UseTOTP, Credential
    <3> QED  BY <2>3, <3>1 DEF ConsumeTOTP
  <2>4. CASE ConsumeRecovery(r)
    <3>1. ASSUME UseRecoveryCode(req[r].code)  PROVE credential' \in Credential
      <4>1. credential.recoveryCodes \ {req[r].code} \in SUBSET RecoveryCodes
        BY DEF Credential
      <4> QED  BY <3>1, <4>1 DEF UseRecoveryCode, Credential
    <3> QED  BY <2>4, <3>1 DEF ConsumeRecovery
  <2>5. CASE RecordFailure(r)
    <3>1. PICK locked \in {"none", "future"} :
            credential' = [credential EXCEPT !.failedAttempts = req[r].attempts + 1,
                                             !.lockedUntil = locked]
      BY <2>5 DEF RecordFailure, StoreFailure
    <3> DEFINE attempts == req[r].attempts + 1
    <3>2. attempts \in Nat /\ locked \in {"none", "future", "past"}
      BY <2>1
    <3>3. credential' = [credential EXCEPT !.failedAttempts = attempts, !.lockedUntil = locked]
      BY <3>1
    <3> HIDE DEF attempts
    <3>4. credential' \in Credential
      BY <3>2, <3>3 DEF Credential
    <3> QED  BY <2>5, <3>4 DEF RecordFailure
  <2>6. CASE StoreEnabled(r)
    BY <2>1, <2>6 DEF StoreEnabled, EnableCredential, Credential
  <2>7. CASE regenerateAccountMFARecoveryCodes(r)
    BY <2>2, <2>7 DEF regenerateAccountMFARecoveryCodes, Credential
  <2> QED  BY <1>4, <2>3, <2>4, <2>5, <2>6, <2>7
<1>5. ASSUME NEW r \in Requests,
             \/ StoreSetup(r) \/ disableAccountMFA(r) \/ resetAdminUserMFA(r)
             \/ revokeAccountMFATrustedDevices(r)
      PROVE  credential' \in Credential /\ trusted' \in SUBSET TrustedDevice /\ UNCHANGED now
  BY <1>0, <1>5 DEF StoreSetup, ReplacePending, disableAccountMFA, resetAdminUserMFA, Delete,
       revokeAccountMFATrustedDevices
<1>6. CASE Tick
  BY <1>6 DEF Tick
<1>7. CASE LockOver
  BY <1>7 DEF LockOver, Credential
<1>8. CASE ExpireDevice
  <2>1. PICK device \in LiveDevices :
          trusted' = (trusted \ {device}) \union {[device EXCEPT !.expired = TRUE]}
    BY <1>8 DEF ExpireDevice
  <2>2. device \in TrustedDevice
    BY DEF LiveDevices
  <2> QED  BY <1>8, <2>1, <2>2 DEF ExpireDevice, TrustedDevice
<1> QED  BY <1>2, <1>3, <1>4, <1>5, <1>6, <1>7, <1>8 DEF Next

-----------------------------------------------------------------------------
(***************************************************************************)
(* The devices: their number and their tokens.                             *)
(***************************************************************************)
\* One device in the place of another: there are no more of them.
LEMMA Exchanged ==
    ASSUME NEW S, IsFiniteSet(S), NEW d \in S, NEW e
    PROVE  /\ IsFiniteSet((S \ {d}) \union {e})
           /\ Cardinality((S \ {d}) \union {e}) <= Cardinality(S)
<1>1. IsFiniteSet(S \ {d}) /\ Cardinality(S \ {d}) = Cardinality(S) - 1
  BY FS_RemoveElement
<1>2. Cardinality(S) \in Nat /\ Cardinality(S \ {d}) \in Nat
  BY <1>1, FS_CardinalityType
<1>3. /\ IsFiniteSet((S \ {d}) \union {e})
      /\ Cardinality((S \ {d}) \union {e}) \in {Cardinality(S \ {d}), Cardinality(S \ {d}) + 1}
  BY <1>1, FS_AddElement
<1> QED  BY <1>1, <1>2, <1>3

\* Fewer devices, none if MFA is not enabled.
LEMMA FewerDevices ==
    ASSUME DeviceInv, trusted' \subseteq trusted,
           trusted' # {} => (Enabled => Enabled')
    PROVE  DeviceInv'
<1>1. IsFiniteSet(trusted') /\ Cardinality(trusted') <= Cardinality(trusted)
  BY FS_Subset DEF DeviceInv
<1>2. Cardinality(trusted) \in Nat /\ Cardinality(trusted') \in Nat
  BY <1>1, FS_CardinalityType DEF DeviceInv
<1>3. Cardinality(trusted') <= MaxDevices
  BY <1>1, <1>2, MfaAssumption DEF DeviceInv, TrustedOnlyWhileEnabled
<1>4. trusted' # {} => Enabled'
  BY DEF DeviceInv, TrustedOnlyWhileEnabled
<1> QED  BY <1>1, <1>3, <1>4 DEF DeviceInv, TrustedOnlyWhileEnabled

LEMMA ExchangedDevice ==
    ASSUME DeviceInv, NEW d \in trusted, NEW e, trusted' = (trusted \ {d}) \union {e},
           UNCHANGED credential
    PROVE  DeviceInv'
<1>1. IsFiniteSet(trusted') /\ Cardinality(trusted') <= Cardinality(trusted)
  BY Exchanged DEF DeviceInv
<1>2. Cardinality(trusted) \in Nat /\ Cardinality(trusted') \in Nat
  BY <1>1, FS_CardinalityType DEF DeviceInv
<1>3. Cardinality(trusted') <= MaxDevices
  BY <1>1, <1>2, MfaAssumption DEF DeviceInv, TrustedOnlyWhileEnabled
<1>4. Enabled'
  BY DEF DeviceInv, TrustedOnlyWhileEnabled, Enabled, Exists
<1> QED  BY <1>1, <1>3, <1>4 DEF DeviceInv, TrustedOnlyWhileEnabled

\* A device is stored while MFA is enabled, and within the limit.
LEMMA StoredDevice ==
    ASSUME DeviceInv, NEW r, StoreTrustedDevice(r), Enabled, UNCHANGED credential
    PROVE  DeviceInv'
<1> DEFINE all == LiveDevices \union {NewDevice(r)}
<1>1. IsFiniteSet(all)
  <2>1. IsFiniteSet(LiveDevices)
    BY FS_Subset DEF LiveDevices, DeviceInv
  <2> QED  BY <2>1, FS_AddElement
<1>2. /\ trusted' \in SUBSET all
      /\ Cardinality(trusted') = IF Cardinality(all) > MaxDevices THEN MaxDevices ELSE Cardinality(all)
  BY DEF StoreTrustedDevice, MostRecent
<1>3. IsFiniteSet(trusted') /\ Cardinality(all) \in Nat
  BY <1>1, <1>2, FS_Subset, FS_CardinalityType
<1>4. Cardinality(trusted') <= MaxDevices
  BY <1>2, <1>3, MfaAssumption
<1>5. Enabled'
  BY DEF Enabled, Exists
<1> QED  BY <1>3, <1>4, <1>5 DEF DeviceInv, TrustedOnlyWhileEnabled

LEMMA DevicesKept ==
    ASSUME TypeOK, DeviceInv, Next
    PROVE  DeviceInv'
<1>1. ASSUME NEW r \in Requests,
             \/ completeLogin(r) \/ mfaLoginVerify(r) \/ createLoginSession(r)
             \/ StartVerified(r) \/ VerifyTOTP(r) \/ VerifyWrong(r) \/ VerifyRecovery(r)
             \/ setupAccountMFA(r) \/ enableAccountMFA(r)
      PROVE  DeviceInv'
  <2>1. UNCHANGED <<credential, trusted>>
    BY <1>1 DEF completeLogin, mfaLoginVerify, createLoginSession, StartVerified,
         VerifyTOTP, VerifyWrong, VerifyRecovery, setupAccountMFA, enableAccountMFA
  <2> QED  BY <2>1, FewerDevices DEF Enabled, Exists
<1>2. ASSUME NEW r \in Requests, completeLoginWithTrustedDevice(r)
      PROVE  DeviceInv'
  <2>1. UNCHANGED credential
    BY <1>2 DEF completeLoginWithTrustedDevice
  <2>2. PICK device \in trusted :
          \/ trusted' = trusted \ {device}
          \/ trusted' = (trusted \ {device}) \union {NewDevice(r)}
    BY <1>2 DEF completeLoginWithTrustedDevice, RotateTrustedDevice
  <2>3. CASE trusted' = trusted \ {device}
    BY <2>1, <2>3, FewerDevices DEF Enabled, Exists
  <2>4. CASE trusted' = (trusted \ {device}) \union {NewDevice(r)}
    BY <2>1, <2>4, ExchangedDevice
  <2> QED  BY <2>2, <2>3, <2>4
<1>3. ASSUME NEW r \in Requests, RememberDevice(r)
      PROVE  DeviceInv'
  <2>1. CASE Enabled
    BY <1>3, <2>1, StoredDevice DEF RememberDevice
  <2>2. CASE ~Enabled
    BY <1>3, <2>2, FewerDevices DEF RememberDevice
  <2> QED  BY <2>1, <2>2
<1>4. ASSUME NEW r \in Requests,
             ConsumeTOTP(r) \/ ConsumeRecovery(r) \/ RecordFailure(r) \/ StoreEnabled(r)
             \/ regenerateAccountMFARecoveryCodes(r)
      PROVE  DeviceInv'
  <2>1. UNCHANGED trusted
    BY <1>4 DEF ConsumeTOTP, ConsumeRecovery, RecordFailure, StoreEnabled,
         regenerateAccountMFARecoveryCodes
  <2>2. credential'.secret = credential.secret /\ (credential.enabled => credential'.enabled)
    BY <1>4 DEF ConsumeTOTP, UseTOTP, ConsumeRecovery, UseRecoveryCode, RecordFailure,
         StoreFailure, StoreEnabled, EnableCredential, regenerateAccountMFARecoveryCodes,
         TypeOK, Credential
  <2> QED  BY <2>1, <2>2, FewerDevices DEF Enabled, Exists
<1>5. ASSUME NEW r \in Requests, StoreSetup(r) \/ revokeAccountMFATrustedDevices(r)
      PROVE  DeviceInv'
  BY <1>5, FewerDevices DEF StoreSetup, ReplacePending, revokeAccountMFATrustedDevices
<1>6. ASSUME NEW r \in Requests, disableAccountMFA(r) \/ resetAdminUserMFA(r)
      PROVE  DeviceInv'
  <2>1. trusted' \subseteq trusted /\ (trusted' # {} => ~Exists)
    BY <1>6 DEF disableAccountMFA, resetAdminUserMFA, Delete
  <2> QED  BY <2>1, FewerDevices DEF Enabled
<1>7. CASE Tick
  BY <1>7, FewerDevices DEF Tick, Enabled, Exists
<1>8. CASE LockOver
  <2>1. credential'.secret = credential.secret /\ credential'.enabled = credential.enabled
    BY <1>8 DEF LockOver, TypeOK, Credential
  <2> QED  BY <1>8, <2>1, FewerDevices DEF LockOver, Enabled, Exists
<1>9. CASE ExpireDevice
  BY <1>9, ExchangedDevice DEF ExpireDevice, LiveDevices
<1> QED
  BY <1>1, <1>2, <1>3, <1>4, <1>5, <1>6, <1>7, <1>8, <1>9 DEF Next

\* Tokens when no request passes with one and no device is new.
LEMMA TokensStay ==
    ASSUME TypeOK, FlowInv, TokenInv, NEW r \in Requests, Advance(r),
           trusted' \subseteq trusted, NoPass(r, "device")
    PROVE  TokenInv'
<1>1. \A t \in Requests : Stored(t) => Stored(t)'
  BY DEF Advance, Stored
<1>2. \A q \in Requests : req'[q].factor = "device" =>
        req[q].factor = "device" /\ req'[q].token = req[q].token
  BY DEF Advance, NoPass
<1>3. \A d \in trusted : d.token \in Requests
  BY DEF TypeOK, TrustedDevice
<1>4. \A d \in trusted' : Stored(d.token)'
  BY <1>1, <1>3 DEF TokenInv
<1>5. \A q \in Requests : req'[q].factor = "device" =>
        /\ req'[q].token \in Requests /\ Stored(req[q].token)'
        /\ \A d \in trusted' : d.token # req'[q].token
  BY <1>1, <1>2 DEF TokenInv
<1>6. DeviceTokenOnce'
  BY <1>2 DEF TokenInv, DeviceTokenOnce
<1>7. \A d, e \in trusted' : d.token = e.token => d = e
  BY DEF TokenInv
<1> QED  BY <1>4, <1>5, <1>6, <1>7 DEF TokenInv

\* A device of a request that had none before.
LEMMA TokenStored ==
    ASSUME TypeOK, FlowInv, TokenInv, NEW r \in Requests, Advance(r),
           ~Stored(r), Stored(r)', NoPass(r, "device"),
           trusted' \subseteq trusted \union {NewDevice(r)}
    PROVE  TokenInv'
<1>0. NewDevice(r).token = r
  BY DEF NewDevice
<1>1. \A t \in Requests : Stored(t) => Stored(t)' /\ t # r
  BY DEF Advance, Stored
<1>2. \A q \in Requests : req'[q].factor = "device" =>
        req[q].factor = "device" /\ req'[q].token = req[q].token
  BY DEF Advance, NoPass
<1>3. \A d \in trusted : d.token \in Requests /\ Stored(d.token)
  BY DEF TypeOK, TrustedDevice, TokenInv
<1>4. \A d \in trusted' : Stored(d.token)'
  BY <1>0, <1>1, <1>3
<1>5. \A q \in Requests : req'[q].factor = "device" =>
        /\ req'[q].token \in Requests /\ Stored(req[q].token)'
        /\ \A d \in trusted' : d.token # req'[q].token
  BY <1>0, <1>1, <1>2 DEF TokenInv
<1>6. DeviceTokenOnce'
  BY <1>2 DEF TokenInv, DeviceTokenOnce
<1>7. \A d, e \in trusted' : d.token = e.token => d = e
  BY <1>0, <1>1, <1>3 DEF TokenInv
<1> QED  BY <1>4, <1>5, <1>6, <1>7 DEF TokenInv

\* A login passes with the token of a device, which is replaced by its own.
LEMMA TokenRotated ==
    ASSUME TypeOK, FlowInv, TokenInv, NEW r \in Requests, Advance(r),
           NEW device \in trusted, RotateTrustedDevice(r, device),
           req[r].pc = "challenge", req'[r].pc = "session",
           req'[r].token = device.token, req'[r].factor = "device"
    PROVE  TokenInv'
<1>0. NewDevice(r).token = r
  BY DEF NewDevice
<1>1. \A t \in Requests : Stored(t) => Stored(t)' /\ t # r
  BY DEF Advance, Stored
<1>2. Stored(r)' /\ req[r].factor = "none"
  BY DEF Stored, FlowInv, Passed
<1>3. \A q \in Requests : q # r => req'[q] = req[q]
  BY DEF Advance
<1>4. \A d \in trusted : d.token \in Requests /\ Stored(d.token)
  BY DEF TypeOK, TrustedDevice, TokenInv
<1>5. \A d \in trusted' : d = NewDevice(r) \/ (d \in trusted /\ d.token # device.token)
  BY DEF RotateTrustedDevice, TokenInv
<1>6. \A d \in trusted' : Stored(d.token)'
  BY <1>0, <1>1, <1>2, <1>4, <1>5
<1>7. ASSUME NEW q \in Requests, req'[q].factor = "device"
      PROVE  /\ req'[q].token \in Requests /\ Stored(req[q].token)'
             /\ \A d \in trusted' : d.token # req'[q].token
  <2>1. CASE q = r
    BY <1>0, <1>1, <1>4, <1>5, <2>1
  <2>2. CASE q # r
    BY <1>0, <1>1, <1>3, <1>5, <1>7, <2>2 DEF TokenInv
  <2> QED  BY <2>1, <2>2
<1>8. DeviceTokenOnce'
  <2>1. \A q \in Requests : q # r /\ req'[q].factor = "device" => req'[q].token # device.token
    BY <1>3 DEF TokenInv
  <2> QED  BY <1>3, <2>1 DEF TokenInv, DeviceTokenOnce
<1>9. \A d, e \in trusted' : d.token = e.token => d = e
  BY <1>0, <1>1, <1>4, <1>5 DEF TokenInv
<1> QED  BY <1>6, <1>7, <1>8, <1>9 DEF TokenInv

LEMMA TokensKept ==
    ASSUME TypeOK, FlowInv, TokenInv, Next
    PROVE  TokenInv'
<1>1. ASSUME NEW r \in Requests,
             \/ completeLogin(r) \/ mfaLoginVerify(r) \/ createLoginSession(r)
             \/ StartVerified(r) \/ VerifyTOTP(r) \/ VerifyWrong(r) \/ VerifyRecovery(r)
             \/ setupAccountMFA(r) \/ enableAccountMFA(r) \/ StoreEnabled(r)
             \/ regenerateAccountMFARecoveryCodes(r) \/ RecordFailure(r)
             \/ StoreSetup(r) \/ disableAccountMFA(r) \/ resetAdminUserMFA(r)
             \/ revokeAccountMFATrustedDevices(r)
      PROVE  TokenInv'
  <2>1. trusted' \subseteq trusted
    BY <1>1 DEF completeLogin, mfaLoginVerify, createLoginSession, StartVerified,
         VerifyTOTP, VerifyWrong, VerifyRecovery, setupAccountMFA, enableAccountMFA,
         StoreEnabled, regenerateAccountMFARecoveryCodes, RecordFailure, StoreSetup,
         ReplacePending, disableAccountMFA, resetAdminUserMFA, Delete,
         revokeAccountMFATrustedDevices
  <2>3. req'[r].factor = req[r].factor
    BY <1>1, FactorKept
  <2>2. Advance(r)
    BY <1>1, LoginAdvances, VerifyAdvances, ConsumeAdvances, AccountAdvances
  <2> QED  BY <2>1, <2>2, <2>3, TokensStay DEF NoPass
<1>2. ASSUME NEW r \in Requests, ConsumeTOTP(r) \/ ConsumeRecovery(r)
      PROVE  TokenInv'
  <2>1. trusted' = trusted /\ NoPass(r, "device")
    BY <1>2, PassedWith DEF ConsumeTOTP, ConsumeRecovery, NoPass
  <2>2. Advance(r)
    BY <1>2, ConsumeAdvances
  <2> QED  BY <2>1, <2>2, TokensStay
<1>3. ASSUME NEW r \in Requests, completeLoginWithTrustedDevice(r)
      PROVE  TokenInv'
  <2>1. Advance(r)
    BY <1>3, LoginAdvances
  <2>2. PICK device \in trusted :
          IF device.expired
            THEN trusted' = trusted \ {device} /\ GoTo(r, "verify")
            ELSE /\ RotateTrustedDevice(r, device)
                 /\ req' = [req EXCEPT ![r].pc = "session", ![r].token = device.token,
                                       ![r].factor = "device"]
    BY <1>3 DEF completeLoginWithTrustedDevice
  <2>3. CASE device.expired
    <3>1. req'[r].factor = req[r].factor
      BY <2>2, <2>3 DEF GoTo, TypeOK, Request
    <3> QED  BY <2>1, <2>2, <2>3, <3>1, TokensStay DEF NoPass
  <2>4. CASE ~device.expired
    <3>1. /\ req'[r].pc = "session"
          /\ req'[r].token = device.token /\ req'[r].factor = "device"
      BY <2>2, <2>4 DEF TypeOK, Request
    <3>2. req[r].pc = "challenge" /\ RotateTrustedDevice(r, device)
      BY <1>3, <2>2, <2>4 DEF completeLoginWithTrustedDevice
    <3> QED  BY <2>1, <3>1, <3>2, TokenRotated
  <2> QED  BY <2>3, <2>4
<1>4. ASSUME NEW r \in Requests, RememberDevice(r)
      PROVE  TokenInv'
  <2>1. /\ req[r].pc = "remember" /\ req'[r].pc = "session"
        /\ req'[r].factor = req[r].factor
    BY <1>4 DEF RememberDevice, GoTo, TypeOK, Request
  <2>2. trusted' \subseteq trusted \union {NewDevice(r)}
    BY <1>4 DEF RememberDevice, StoreTrustedDevice, MostRecent, LiveDevices
  <2>3. Advance(r)
    BY <1>4, LoginAdvances
  <2> QED  BY <2>1, <2>2, <2>3, TokenStored DEF NoPass, Stored
<1>5. CASE Tick \/ LockOver
  BY <1>5 DEF Tick, LockOver, TokenInv, DeviceTokenOnce, Stored
<1>6. CASE ExpireDevice
  <2>1. PICK device \in trusted :
          trusted' = (trusted \ {device}) \union {[device EXCEPT !.expired = TRUE]}
    BY <1>6 DEF ExpireDevice, LiveDevices
  <2>2. [device EXCEPT !.expired = TRUE].token = device.token
    BY DEF TypeOK, TrustedDevice
  <2>3. req' = req
    BY <1>6 DEF ExpireDevice
  <2> DEFINE e == [device EXCEPT !.expired = TRUE]
  <2>4. e.token = device.token /\ trusted' = (trusted \ {device}) \union {e}
    BY <2>1, <2>2
  <2> HIDE DEF e
  <2>5. \A d \in trusted' : \E d0 \in trusted : d.token = d0.token
    BY <2>4
  <2>6. \A d1, d2 \in trusted' : d1.token = d2.token => d1 = d2
    BY <2>4 DEF TokenInv
  <2>7. DeviceTokenOnce'
    BY <2>3 DEF TokenInv, DeviceTokenOnce
  <2> QED  BY <2>3, <2>5, <2>6, <2>7 DEF TokenInv, Stored
<1> QED
  BY <1>1, <1>2, <1>3, <1>4, <1>5, <1>6 DEF Next

-----------------------------------------------------------------------------
(***************************************************************************)
(* Recovery codes.                                                         *)
(***************************************************************************)
\* No request passes with a code; what codes come are those of a request that
\* has just ended.
LEMMA CodesStay ==
    ASSUME TypeOK, FlowInv, CodeInv, NEW r \in Requests, Advance(r), NoPass(r, "recovery"),
           \A code \in credential'.recoveryCodes :
              \/ code \in credential.recoveryCodes
              \/ code[1] = r /\ req'[r].pc = "done"
    PROVE  CodeInv'
<1>1. \A code \in RecoveryCodes : Issued(code) => Issued(code)' /\ code[1] # r
  BY MfaAssumption DEF Advance, Issued, RecoveryCodes, Enrolments
<1>2. \A q \in Requests : req'[q].factor = "recovery" =>
        req[q].factor = "recovery" /\ req'[q].code = req[q].code
  BY DEF Advance, NoPass
<1>3. credential.recoveryCodes \subseteq RecoveryCodes
  BY DEF TypeOK, Credential
<1>4. \A code \in credential'.recoveryCodes : Issued(code)'
  BY <1>1, <1>3 DEF CodeInv, Issued
<1>5. \A q \in Requests : req'[q].factor = "recovery" =>
        /\ req'[q].code \in RecoveryCodes /\ Issued(req[q].code)'
        /\ req'[q].code \notin credential'.recoveryCodes
  BY <1>1, <1>2 DEF CodeInv
<1>6. RecoveryCodeOnce'
  BY <1>2 DEF CodeInv, RecoveryCodeOnce
<1> QED  BY <1>4, <1>5, <1>6 DEF CodeInv

\* A request passes with a code that is there, and the code goes.
LEMMA CodeUsed ==
    ASSUME TypeOK, FlowInv, CodeInv, NEW r \in Requests, Advance(r),
           req[r].pc = "useRecovery",
           req[r].code \in credential.recoveryCodes, UseRecoveryCode(req[r].code),
           req'[r].code = req[r].code
    PROVE  CodeInv'
<1>0. credential'.recoveryCodes = credential.recoveryCodes \ {req[r].code}
  BY DEF UseRecoveryCode, TypeOK, Credential
<1>1. credential.recoveryCodes \subseteq RecoveryCodes
  BY DEF TypeOK, Credential
<1>2. \A code \in RecoveryCodes : Issued(code) => Issued(code)'
  BY MfaAssumption DEF Advance, Issued, RecoveryCodes, Enrolments
<1>3. \A q \in Requests : q # r => req'[q] = req[q]
  BY DEF Advance
<1>4. \A code \in credential'.recoveryCodes : Issued(code)'
  BY <1>0, <1>1, <1>2 DEF CodeInv
<1>5. ASSUME NEW q \in Requests, req'[q].factor = "recovery"
      PROVE  /\ req'[q].code \in RecoveryCodes /\ Issued(req[q].code)'
             /\ req'[q].code \notin credential'.recoveryCodes
  BY <1>0, <1>1, <1>2, <1>3, <1>5 DEF CodeInv
<1>6. RecoveryCodeOnce'
  <2>1. \A q \in Requests : q # r /\ req'[q].factor = "recovery" => req'[q].code # req'[r].code
    BY <1>3 DEF CodeInv
  <2> QED  BY <1>3, <2>1 DEF CodeInv, RecoveryCodeOnce
<1> QED  BY <1>4, <1>5, <1>6 DEF CodeInv

LEMMA CodesKept ==
    ASSUME TypeOK, FlowInv, CodeInv, Next
    PROVE  CodeInv'
<1>1. ASSUME NEW r \in Requests,
             \/ completeLogin(r) \/ mfaLoginVerify(r) \/ createLoginSession(r)
             \/ RememberDevice(r)
             \/ StartVerified(r) \/ VerifyTOTP(r) \/ VerifyWrong(r) \/ VerifyRecovery(r)
             \/ setupAccountMFA(r) \/ enableAccountMFA(r) \/ StoreEnabled(r)
             \/ RecordFailure(r) \/ disableAccountMFA(r) \/ resetAdminUserMFA(r)
             \/ revokeAccountMFATrustedDevices(r)
      PROVE  CodeInv'
  <2>2. credential'.recoveryCodes \subseteq credential.recoveryCodes
    <3>2. CASE StoreEnabled(r) \/ RecordFailure(r)
      BY <3>2 DEF StoreEnabled, EnableCredential, RecordFailure, StoreFailure,
           TypeOK, Credential
    <3>3. CASE disableAccountMFA(r) \/ resetAdminUserMFA(r)
      BY <3>3 DEF disableAccountMFA, resetAdminUserMFA, Delete, NoCredential
    <3>4. CASE \/ completeLogin(r) \/ mfaLoginVerify(r) \/ createLoginSession(r)
               \/ RememberDevice(r)
               \/ StartVerified(r) \/ VerifyTOTP(r) \/ VerifyWrong(r) \/ VerifyRecovery(r)
               \/ setupAccountMFA(r) \/ enableAccountMFA(r)
               \/ revokeAccountMFATrustedDevices(r)
      BY <3>4 DEF completeLogin, mfaLoginVerify, createLoginSession, RememberDevice,
           StartVerified, VerifyTOTP, VerifyWrong, VerifyRecovery, setupAccountMFA,
           enableAccountMFA, revokeAccountMFATrustedDevices
    <3> QED  BY <1>1, <3>2, <3>3, <3>4
  <2>3. req'[r].factor = req[r].factor
    BY <1>1, FactorKept
  <2>4. Advance(r)
    BY <1>1, LoginAdvances, VerifyAdvances, ConsumeAdvances, AccountAdvances
  <2> QED  BY <2>2, <2>3, <2>4, CodesStay DEF NoPass
<1>2. ASSUME NEW r \in Requests, StoreSetup(r) \/ regenerateAccountMFARecoveryCodes(r)
      PROVE  CodeInv'
  <2>1. credential'.recoveryCodes = NewRecoveryCodes(r) /\ req'[r].pc = "done"
    <3>1. GoTo(r, "done")
      BY <1>2 DEF StoreSetup, regenerateAccountMFARecoveryCodes
    <3>2. req'[r].pc = "done"
      BY <3>1 DEF GoTo, TypeOK, Request
    <3>3. CASE StoreSetup(r)
      BY <3>2, <3>3 DEF StoreSetup, ReplacePending, NoCredential
    <3>4. CASE regenerateAccountMFARecoveryCodes(r)
      BY <3>2, <3>4 DEF regenerateAccountMFARecoveryCodes, TypeOK, Credential
    <3> QED  BY <1>2, <3>3, <3>4
  <2>2. req'[r].factor = req[r].factor
    BY <1>2, FactorKept
  <2>3. Advance(r)
    BY <1>2, AccountAdvances
  <2>4. \A code \in credential'.recoveryCodes : code[1] = r
    BY <2>1 DEF NewRecoveryCodes
  <2> QED  BY <2>1, <2>2, <2>3, <2>4, CodesStay DEF NoPass
<1>3. ASSUME NEW r \in Requests, completeLoginWithTrustedDevice(r)
      PROVE  CodeInv'
  <2>1. UNCHANGED credential /\ (req'[r].factor = req[r].factor \/ req'[r].factor = "device")
    BY <1>3, DevicePass
  <2>2. Advance(r)
    BY <1>3, LoginAdvances
  <2> QED  BY <2>1, <2>2, CodesStay DEF NoPass
<1>4. ASSUME NEW r \in Requests, ConsumeTOTP(r)
      PROVE  CodeInv'
  <2>1. credential'.recoveryCodes = credential.recoveryCodes
    BY <1>4 DEF ConsumeTOTP, UseTOTP, TypeOK, Credential
  <2>2. NoPass(r, "recovery")
    <3>1. req[r].pc # "useRecovery"
      BY <1>4 DEF ConsumeTOTP
    <3> QED  BY <1>4, <3>1, PassedWith DEF ConsumeRecovery, NoPass
  <2>3. Advance(r)
    BY <1>4, ConsumeAdvances
  <2> QED  BY <2>1, <2>2, <2>3, CodesStay
<1>5. ASSUME NEW r \in Requests, ConsumeRecovery(r)
      PROVE  CodeInv'
  <2>1. Advance(r)
    BY <1>5, ConsumeAdvances
  <2>2. CASE Enabled /\ req[r].code \in credential.recoveryCodes
    <3>1. UseRecoveryCode(req[r].code) /\ req[r].pc = "useRecovery"
      BY <1>5, <2>2 DEF ConsumeRecovery
    <3>2. req'[r].code = req[r].code
      BY <1>5, PassedWith
    <3> QED  BY <2>1, <2>2, <3>1, <3>2, CodeUsed
  <2>3. CASE ~(Enabled /\ req[r].code \in credential.recoveryCodes)
    <3>1. UNCHANGED credential /\ req'[r].factor = req[r].factor
      BY <1>5, <2>3 DEF ConsumeRecovery, GoTo, TypeOK, Request
    <3> QED  BY <2>1, <3>1, CodesStay DEF NoPass
  <2> QED  BY <2>2, <2>3
<1>6. CASE Tick \/ LockOver \/ ExpireDevice
  <2>1. req' = req /\ credential'.recoveryCodes = credential.recoveryCodes
    BY <1>6 DEF Tick, LockOver, ExpireDevice, TypeOK, Credential
  <2> QED  BY <2>1 DEF CodeInv, RecoveryCodeOnce, Issued
<1> QED
  BY <1>1, <1>2, <1>3, <1>4, <1>5, <1>6 DEF Next

-----------------------------------------------------------------------------
(***************************************************************************)
(* Time based codes.                                                       *)
(***************************************************************************)
\* An activation that was stored stays stored.
LEMMA ActivationsStay ==
    ASSUME NEW r \in Requests, Advance(r)
    PROVE  \A x \in Requests : Activated(x) => Activated(x)' /\ x # r
BY DEF Advance, Activated

\* No request passes with a code, and the counter of an enabled credential stays.
LEMMA CountedStays ==
    ASSUME TypeOK, NEW r \in Requests, Advance(r), NoPass(r, "totp"),
           NEW secrets, Counted(secrets),
           Enabled' => Enabled /\ credential'.lastUsedStep = credential.lastUsedStep
    PROVE  Counted(secrets)'
<1>1. \A q \in Requests : req'[q].factor = "totp" =>
        /\ req[q].factor = "totp"
        /\ req'[q].secret = req[q].secret /\ req'[q].step = req[q].step
  BY DEF Advance, NoPass
<1> QED  BY <1>1 DEF Counted

LEMMA StepsStay ==
    ASSUME TypeOK, FlowInv, StepInv, NEW r \in Requests, Advance(r), NoPass(r, "totp"),
           Enabled' => /\ Enabled /\ credential'.lastUsedStep = credential.lastUsedStep
                       /\ credential'.secret = credential.secret,
           req'[r].pc = "useTOTP" => Enabled /\ req'[r].secret = credential.secret
    PROVE  StepInv'
<1>1. \A x \in Requests : Activated(x) => Activated(x)'
  BY ActivationsStay
<1>2. ASSUME NEW q \in Requests, req'[q].pc = "useTOTP" \/ req'[q].factor = "totp"
      PROVE  /\ req'[q].secret \in Enrolments
             /\ req'[q].secret # Initial => \E x \in Requests : Activated(x)
  <2>1. CASE q # r \/ req'[r].factor = "totp"
    <3>1. req[q].pc = "useTOTP" \/ req[q].factor = "totp"
      BY <1>2, <2>1 DEF Advance, NoPass, Passed
    <3>2. req'[q].secret = req[q].secret
      BY <1>2, <2>1 DEF Advance, NoPass
    <3> QED  BY <3>1, <3>2 DEF StepInv
  <2>2. CASE q = r /\ req'[r].pc = "useTOTP"
    BY <2>2 DEF StepInv, Enabled, Exists, TypeOK, Credential
  <2> QED  BY <1>2, <2>1, <2>2
<1>3. Enabled' /\ credential'.secret # Initial => \E x \in Requests : Activated(x)
  BY DEF StepInv
<1>4. (\A x \in Requests : ~Activated(x)') => Counted({Initial})'
  BY <1>1, CountedStays DEF StepInv
<1>5. (\A x, y \in Requests : Activated(x)' /\ Activated(y)' => x = y) => Counted(Requests)'
  BY <1>1, CountedStays DEF StepInv
<1> QED  BY <1>1, <1>2, <1>3, <1>4, <1>5 DEF StepInv

\* UseTOTP: the step is behind those of all passes that are counted.
LEMMA CountedStep ==
    ASSUME TypeOK, FlowInv, NEW r \in Requests, Advance(r),
           req[r].pc = "useTOTP", TOTPUsable(req[r].step), UseTOTP(req[r].step),
           req'[r].secret = req[r].secret, req'[r].step = req[r].step,
           NEW secrets, Counted(secrets)
    PROVE  Counted(secrets)'
<1>1. \A q \in Requests : q # r => req'[q] = req[q]
  BY DEF Advance
<1>2. /\ credential'.lastUsedStep = req[r].step
      /\ req[r].step \in Nat /\ credential.lastUsedStep \in Nat
  BY DEF UseTOTP, TypeOK, Credential, Request
<1>3. \A q \in Requests : req[q].step \in Nat
  BY DEF TypeOK, Request
<1>4. \A q \in Requests : q # r /\ req[q].factor = "totp" /\ req[q].secret \in secrets
        => req[q].step < req[r].step
  BY <1>2, <1>3 DEF Counted, TOTPUsable
<1>5. ASSUME NEW q \in Requests, req'[q].factor = "totp", req'[q].secret \in secrets
      PROVE  /\ req'[q].step <= credential'.lastUsedStep
             /\ \A x \in Requests :
                  req'[x].factor = "totp" /\ req'[x].secret \in secrets /\ req'[x].step = req'[q].step
                    => x = q
  <2>1. CASE q = r
    BY <1>1, <1>2, <1>3, <1>4, <2>1
  <2>2. CASE q # r
    <3>1. req'[q].step < req[r].step /\ req'[q].factor = "totp"
      BY <1>1, <1>4, <1>5, <2>2
    <3> QED  BY <1>1, <1>2, <1>3, <1>5, <2>2, <3>1 DEF Counted
  <2> QED  BY <2>1, <2>2
<1> QED  BY <1>5 DEF Counted

LEMMA StepUsed ==
    ASSUME TypeOK, FlowInv, StepInv, NEW r \in Requests, Advance(r),
           req[r].pc = "useTOTP", TOTPUsable(req[r].step), UseTOTP(req[r].step),
           req'[r].secret = req[r].secret, req'[r].step = req[r].step
    PROVE  StepInv'
<1>1. \A x \in Requests : Activated(x) => Activated(x)'
  BY ActivationsStay
<1>2. \A q \in Requests : req'[q].secret = req[q].secret /\ (q # r => req'[q] = req[q])
  BY DEF Advance
<1>3. \A q \in Requests :
        req'[q].pc = "useTOTP" \/ req'[q].factor = "totp" =>
           /\ req'[q].secret \in Enrolments
           /\ req'[q].secret # Initial => \E x \in Requests : Activated(x)
  BY <1>2 DEF StepInv
<1>4. credential'.secret = credential.secret
  BY DEF UseTOTP, TypeOK, Credential
<1>5. Enabled' /\ credential'.secret # Initial => \E x \in Requests : Activated(x)
  BY <1>4 DEF StepInv, TOTPUsable
<1>6. (\A x \in Requests : ~Activated(x)') => Counted({Initial})'
  BY <1>1, CountedStep DEF StepInv
<1>7. (\A x, y \in Requests : Activated(x)' /\ Activated(y)' => x = y) => Counted(Requests)'
  BY <1>1, CountedStep DEF StepInv
<1> QED  BY <1>1, <1>3, <1>5, <1>6, <1>7 DEF StepInv

\* The first activation begins a new count, the second ends it.
LEMMA StepActivated ==
    ASSUME TypeOK, FlowInv, StepInv, NEW r \in Requests, Advance(r), NoPass(r, "totp"),
           req[r].pc = "enable", req'[r].pc = "done"
    PROVE  StepInv'
<1>1. \A x \in Requests : Activated(x) => Activated(x)' /\ x # r
  BY ActivationsStay
<1>2. Activated(r)'
  BY DEF Advance, FlowInv, Activated
<1>3. \A q \in Requests : req'[q].factor = "totp" =>
        req[q].factor = "totp" /\ req'[q].secret = req[q].secret
  BY DEF Advance, NoPass
<1>4. \A q \in Requests :
        req'[q].pc = "useTOTP" \/ req'[q].factor = "totp" => req'[q].secret \in Enrolments
  BY <1>3 DEF Advance, StepInv
<1>5. ASSUME \A x, y \in Requests : Activated(x)' /\ Activated(y)' => x = y
      PROVE  Counted(Requests)'
  <2>1. \A x \in Requests : ~Activated(x)
    BY <1>1, <1>2, <1>5
  <2>2. \A q \in Requests : req[q].factor = "totp" => req[q].secret = Initial
    BY <2>1 DEF StepInv
  <2>3. \A q \in Requests : req'[q].factor = "totp" => req'[q].secret \notin Requests
    BY <1>3, <2>2, MfaAssumption
  <2> QED  BY <2>3 DEF Counted
<1> QED  BY <1>2, <1>4, <1>5 DEF StepInv

LEMMA StepsKept ==
    ASSUME TypeOK, FlowInv, StepInv, Next
    PROVE  StepInv'
<1>1. ASSUME NEW r \in Requests,
             \/ completeLogin(r) \/ mfaLoginVerify(r) \/ createLoginSession(r)
             \/ RememberDevice(r)
             \/ StartVerified(r) \/ VerifyWrong(r) \/ VerifyRecovery(r)
             \/ setupAccountMFA(r) \/ enableAccountMFA(r)
             \/ RecordFailure(r) \/ revokeAccountMFATrustedDevices(r)
             \/ StoreSetup(r) \/ disableAccountMFA(r) \/ resetAdminUserMFA(r)
             \/ regenerateAccountMFARecoveryCodes(r)
      PROVE  StepInv'
  <2>1. Enabled' => /\ Enabled /\ credential'.lastUsedStep = credential.lastUsedStep
                    /\ credential'.secret = credential.secret
    <3>1. CASE RecordFailure(r) \/ regenerateAccountMFARecoveryCodes(r)
      <4>1. /\ credential'.secret = credential.secret /\ credential'.enabled = credential.enabled
            /\ credential'.lastUsedStep = credential.lastUsedStep
        BY <3>1 DEF RecordFailure, StoreFailure, regenerateAccountMFARecoveryCodes, TypeOK,
             Credential
      <4> QED  BY <4>1 DEF Enabled, Exists
    <3>2. CASE disableAccountMFA(r) \/ resetAdminUserMFA(r) \/ StoreSetup(r)
      <4>1. CASE StoreSetup(r)
        BY <4>1 DEF StoreSetup, ReplacePending, NoCredential, Enabled
      <4>2. CASE disableAccountMFA(r) \/ resetAdminUserMFA(r)
        <5>1. credential' = NoCredential
          BY <4>2 DEF disableAccountMFA, resetAdminUserMFA, Delete
        <5> QED  BY <5>1 DEF NoCredential, Enabled
      <4> QED  BY <3>2, <4>1, <4>2
    <3>3. CASE \/ completeLogin(r) \/ mfaLoginVerify(r) \/ createLoginSession(r)
               \/ RememberDevice(r)
               \/ StartVerified(r) \/ VerifyWrong(r) \/ VerifyRecovery(r)
               \/ setupAccountMFA(r) \/ enableAccountMFA(r)
               \/ revokeAccountMFATrustedDevices(r)
      <4>1. UNCHANGED credential
        BY <3>3 DEF completeLogin, mfaLoginVerify, createLoginSession, RememberDevice,
             StartVerified, VerifyWrong, VerifyRecovery, setupAccountMFA,
             enableAccountMFA, revokeAccountMFATrustedDevices
      <4> QED  BY <4>1 DEF Enabled, Exists
    <3> QED  BY <1>1, <3>1, <3>2, <3>3
  <2>2. req'[r].pc # "useTOTP"
    <3> USE DEF TypeOK, Request, GoTo
    <3>1. CASE completeLogin(r) \/ mfaLoginVerify(r) \/ createLoginSession(r) \/ RememberDevice(r)
      BY <3>1 DEF completeLogin, mfaLoginVerify, createLoginSession, RememberDevice
    <3>2. CASE StartVerified(r) \/ VerifyWrong(r)
      BY <3>2 DEF StartVerified, VerifyWrong
    <3>3. CASE VerifyRecovery(r)
      BY <3>3 DEF VerifyRecovery
    <3>4. CASE setupAccountMFA(r) \/ RecordFailure(r) \/ revokeAccountMFATrustedDevices(r)
      BY <3>4 DEF setupAccountMFA, RecordFailure, revokeAccountMFATrustedDevices
    <3>5. CASE enableAccountMFA(r)
      <4>1. PICK step :
              req' = [req EXCEPT ![r].pc = "enable", ![r].kind = "enable",
                                 ![r].secret = credential.secret, ![r].step = step]
        BY <3>5 DEF enableAccountMFA
      <4> QED  BY <4>1
    <3>6. CASE \/ StoreSetup(r) \/ disableAccountMFA(r) \/ resetAdminUserMFA(r)
               \/ regenerateAccountMFARecoveryCodes(r)
      BY <3>6 DEF StoreSetup, disableAccountMFA, resetAdminUserMFA,
           regenerateAccountMFARecoveryCodes
    <3> QED  BY <1>1, <3>1, <3>2, <3>3, <3>4, <3>5, <3>6
  <2>3. req'[r].factor = req[r].factor
    BY <1>1, FactorKept
  <2>4. Advance(r)
    BY <1>1, LoginAdvances, VerifyAdvances, ConsumeAdvances, AccountAdvances
  <2> QED  BY <2>1, <2>2, <2>3, <2>4, StepsStay DEF NoPass
<1>2. ASSUME NEW r \in Requests, VerifyTOTP(r)
      PROVE  StepInv'
  <2>1. Enabled /\ UNCHANGED credential
    BY <1>2 DEF VerifyTOTP, Verifiable
  <2>2. req'[r].secret = credential.secret
    <3>1. PICK step, pc :
            req' = [req EXCEPT ![r].pc = pc,
                               ![r].secret = credential.secret, ![r].step = step]
      BY <1>2 DEF VerifyTOTP
    <3> QED  BY <3>1 DEF TypeOK, Request
  <2>3. req'[r].factor = req[r].factor
    BY <1>2, FactorKept
  <2>4. Advance(r)
    BY <1>2, VerifyAdvances
  <2> QED  BY <2>1, <2>2, <2>3, <2>4, StepsStay DEF NoPass
<1>3. ASSUME NEW r \in Requests, completeLoginWithTrustedDevice(r)
      PROVE  StepInv'
  <2>1. Advance(r)
    BY <1>3, LoginAdvances
  <2>2. /\ UNCHANGED credential /\ req'[r].pc # "useTOTP"
        /\ req'[r].factor = req[r].factor \/ req'[r].factor = "device"
    BY <1>3, DevicePass
  <2> QED  BY <2>1, <2>2, StepsStay DEF NoPass, Enabled, Exists
<1>4. ASSUME NEW r \in Requests, ConsumeRecovery(r)
      PROVE  StepInv'
  <2>1. Advance(r)
    BY <1>4, ConsumeAdvances
  <2>2. NoPass(r, "totp")
    <3>1. req[r].pc # "useTOTP"
      BY <1>4 DEF ConsumeRecovery
    <3> QED  BY <1>4, <3>1, PassedWith DEF ConsumeTOTP, NoPass
  <2>3. /\ credential'.secret = credential.secret /\ credential'.enabled = credential.enabled
        /\ credential'.lastUsedStep = credential.lastUsedStep
    BY <1>4 DEF ConsumeRecovery, UseRecoveryCode, TypeOK, Credential
  <2>4. req'[r].pc # "useTOTP"
    <3>1. ASSUME NEW factor, Verified(r, factor)  PROVE req'[r].pc # "useTOTP"
      <4>1. PICK pc \in {"remember", "session", "regenerate", "delete"} :
              req' = [req EXCEPT ![r].pc = pc, ![r].factor = factor]
        BY <3>1 DEF Verified
      <4> QED  BY <4>1 DEF TypeOK, Request
    <3>2. ASSUME GoTo(r, "failure")  PROVE req'[r].pc # "useTOTP"
      BY <3>2 DEF GoTo, TypeOK, Request
    <3> QED  BY <1>4, <3>1, <3>2 DEF ConsumeRecovery
  <2> QED  BY <2>1, <2>2, <2>3, <2>4, StepsStay DEF Enabled, Exists
<1>5. ASSUME NEW r \in Requests, ConsumeTOTP(r)
      PROVE  StepInv'
  <2>1. Advance(r)
    BY <1>5, ConsumeAdvances
  <2>2. CASE TOTPUsable(req[r].step)
    <3>1. UseTOTP(req[r].step) /\ req[r].pc = "useTOTP"
      BY <1>5, <2>2 DEF ConsumeTOTP
    <3>2. req'[r].secret = req[r].secret /\ req'[r].step = req[r].step
      BY <1>5, PassedWith
    <3> QED  BY <2>1, <2>2, <3>1, <3>2, StepUsed
  <2>3. CASE ~TOTPUsable(req[r].step)
    <3>1. UNCHANGED credential /\ req'[r].factor = req[r].factor /\ req'[r].pc = "refused"
      BY <1>5, <2>3 DEF ConsumeTOTP, GoTo, TypeOK, Request
    <3> QED  BY <2>1, <3>1, StepsStay DEF NoPass, Enabled, Exists
  <2> QED  BY <2>2, <2>3
<1>6. ASSUME NEW r \in Requests, StoreEnabled(r)
      PROVE  StepInv'
  <2>1. Advance(r) /\ req'[r].factor = req[r].factor
    BY <1>6, AccountAdvances, FactorKept
  <2>2. req[r].pc = "enable" /\ req'[r].pc = "done"
    BY <1>6 DEF StoreEnabled, GoTo, TypeOK, Request
  <2> QED  BY <2>1, <2>2, StepActivated DEF NoPass
<1>7. CASE Tick \/ LockOver \/ ExpireDevice
  <2>1. /\ req' = req /\ credential'.secret = credential.secret
        /\ credential'.enabled = credential.enabled
        /\ credential'.lastUsedStep = credential.lastUsedStep
    BY <1>7 DEF Tick, LockOver, ExpireDevice, TypeOK, Credential
  <2> QED  BY <2>1 DEF StepInv, Counted, Activated, Enabled, Exists
<1> QED
  BY <1>1, <1>2, <1>3, <1>4, <1>5, <1>6, <1>7 DEF Next

-----------------------------------------------------------------------------
(***************************************************************************)
(* The theorems.                                                           *)
(***************************************************************************)
LEMMA MfaInitial == Init => MfaInv
<1> SUFFICES ASSUME Init  PROVE MfaInv
  OBVIOUS
<1>0. \/ credential.secret = None /\ credential.recoveryCodes = {}
      \/ credential.secret = Initial /\ credential.recoveryCodes = NewRecoveryCodes(Initial)
  <2>1. CASE credential = NoCredential
    BY <2>1 DEF NoCredential
  <2>2. CASE credential = [NoCredential EXCEPT !.secret = Initial, !.enabled = TRUE,
                                    !.recoveryCodes = NewRecoveryCodes(Initial)]
    BY <2>2 DEF NoCredential
  <2> QED  BY <2>1, <2>2 DEF Init
<1>1. TypeOK
  <2>1. credential \in Credential
    <3>1. NoCredential \in Credential
      BY DEF NoCredential, Credential
    <3>2. NewRecoveryCodes(Initial) \in SUBSET RecoveryCodes
      BY DEF NewRecoveryCodes, RecoveryCodes, Enrolments
    <3>3. [NoCredential EXCEPT !.secret = Initial, !.enabled = TRUE,
                               !.recoveryCodes = NewRecoveryCodes(Initial)] \in Credential
      BY <3>1, <3>2 DEF Credential, Enrolments
    <3> QED  BY <3>1, <3>3 DEF Init
  <2>2. [pc |-> "idle", kind |-> "none", secret |-> None, step |-> 0,
         code |-> None, token |-> None, attempts |-> 0, factor |-> "none"] \in Request
    BY DEF Request
  <2> QED  BY <2>1, <2>2, MfaAssumption DEF Init, TypeOK
<1>2. \A r \in Requests : req[r].pc = "idle" /\ req[r].factor = "none" /\ req[r].kind = "none"
  BY DEF Init
<1>3. DeviceInv
  BY FS_EmptySet, MfaAssumption DEF Init, DeviceInv, TrustedOnlyWhileEnabled
<1>4. FlowInv
  BY <1>2 DEF FlowInv
<1>5. TokenInv
  BY <1>2 DEF Init, TokenInv, DeviceTokenOnce
<1>6. CodeInv
  <2>1. credential.recoveryCodes = {} \/ credential.recoveryCodes = NewRecoveryCodes(Initial)
    BY <1>0
  <2> QED  BY <1>2, <2>1 DEF CodeInv, RecoveryCodeOnce, Issued, NewRecoveryCodes
<1>7. StepInv
  <2> QED  BY <1>0, <1>2 DEF StepInv, Counted, Enabled, Exists
<1> QED  BY <1>1, <1>3, <1>4, <1>5, <1>6, <1>7 DEF MfaInv

LEMMA MfaStep == MfaInv /\ [Next]_vars => MfaInv'
<1> SUFFICES ASSUME MfaInv, [Next]_vars  PROVE MfaInv'
  OBVIOUS
<1>1. CASE Next
  <2>1. DeviceInv' /\ TokenInv' /\ CodeInv' /\ StepInv'
    BY <1>1, DevicesKept, TokensKept, CodesKept, StepsKept DEF MfaInv
  <2>2. \/ \E r \in Requests : Advance(r)
        \/ UNCHANGED req
    <3>1. TypeOK /\ FlowInv
      BY DEF MfaInv
    <3>2. Tick \/ LockOver \/ ExpireDevice => UNCHANGED req
      BY DEF Tick, LockOver, ExpireDevice
    <3> QED
      BY <1>1, <3>1, <3>2, LoginAdvances, VerifyAdvances, ConsumeAdvances, AccountAdvances DEF Next
  <2>3. req' \in [Requests -> Request] /\ FlowInv'
    <3>1. CASE UNCHANGED req
      BY <3>1 DEF MfaInv, TypeOK, FlowInv
    <3>2. ASSUME NEW r \in Requests, Advance(r)
          PROVE  req' \in [Requests -> Request] /\ FlowInv'
      <4>1. \A q \in Requests : /\ req'[q].factor # "none" => req'[q].pc \in Passed
                                /\ req'[q].pc = "enable" => req'[q].kind = "enable"
        BY <3>2 DEF Advance, MfaInv, FlowInv
      <4> QED  BY <3>2, <4>1 DEF Advance, FlowInv
    <3> QED  BY <2>2, <3>1, <3>2
  <2>5. TypeOK'
    BY <1>1, <2>3, StoreTypes DEF MfaInv, TypeOK
  <2> QED  BY <2>1, <2>3, <2>5 DEF MfaInv
<1>2. CASE UNCHANGED vars
  BY <1>2 DEF vars, MfaInv, TypeOK, FlowInv, DeviceInv, TrustedOnlyWhileEnabled, TokenInv,
       DeviceTokenOnce, Stored, CodeInv, RecoveryCodeOnce, Issued, StepInv, Counted,
       Activated, Enabled, Exists
<1> QED  BY <1>1, <1>2

LEMMA MfaInvariant == Spec => []MfaInv
BY MfaInitial, MfaStep, PTL DEF Spec

\* The credential, the trusted devices and the requests are always well formed;
\* in particular the count of failures never goes below zero.
THEOREM MfaTypes == Spec => []TypeOK
<1>1. MfaInv => TypeOK
  BY DEF MfaInv
<1> QED  BY <1>1, MfaInvariant, PTL

\* No second factor lets two requests pass (UseTOTP, UseRecoveryCode and
\* RotateTrustedDevice), however many there are and however they interleave.
THEOREM FactorsOnce == Spec => []FactorsServeOnce
<1>1. StepInv => TOTPOnce
  <2> SUFFICES ASSUME StepInv, NEW q \in Requests, NEW r \in Requests, q # r,
                      req[q].factor = "totp", req[r].factor = "totp",
                      req[q].secret = req[r].secret, req[q].step = req[r].step
               PROVE  \E x, y \in Requests :
                         /\ Activated(x) /\ Activated(y)
                         /\ req[q].secret # Initial => x # y
    BY DEF TOTPOnce
  <2>1. req[q].secret \in Enrolments
    BY DEF StepInv
  <2>2. CASE req[q].secret = Initial
    BY <2>2 DEF StepInv, Counted
  <2>3. CASE req[q].secret \in Requests
    BY <2>3 DEF StepInv, Counted
  <2> QED  BY <2>1, <2>2, <2>3 DEF Enrolments
<1>2. MfaInv => FactorsServeOnce
  BY <1>1 DEF MfaInv, FactorsServeOnce, CodeInv, TokenInv
<1> QED  BY <1>2, MfaInvariant, PTL

\* Trusted devices exist only while MFA is enabled, and never more than the limit
\* (StoreTrustedDevice, RotateTrustedDevice, ReplacePending, Delete).
THEOREM TrustEnds == Spec => []TrustedOnlyWhileEnabled
<1>1. MfaInv => TrustedOnlyWhileEnabled
  BY DEF MfaInv, DeviceInv
<1> QED  BY <1>1, MfaInvariant, PTL

=============================================================================
