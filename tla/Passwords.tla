----------------------------- MODULE Passwords -----------------------------
(***************************************************************************)
(* The password of one account (internal/identity/password.go) and the     *)
(* handlers that check or replace it.  Other accounts have records of      *)
(* their own and are not touched.  Every repository method holds the       *)
(* repository mutex; between the methods a handler hashes with Argon2id    *)
(* and holds nothing, so what it read may be old when it writes.           *)
(*                                                                         *)
(* A request that returns early and leaves no trace takes no further step: *)
(* a locked credential, an inactive user, a reset token that is not there, *)
(* a storage error of SetPassword or RecordPasswordSuccess.                *)
(***************************************************************************)
EXTENDS Naturals, FiniteSets

CONSTANTS
    Requests,     \* HTTP requests
    Tokens,       \* the reset tokens administrators issue, one after another
    Words,        \* the passwords people type and choose
    NoWord, NoToken, NoRequest,
    FirstWord,    \* the password of the account at the start
    Threshold,    \* attempts at which the credential is locked (5 in the code)
    RequestKinds, \* bound: the kinds of requests a run explores
    Faulty        \* bound: the requests whose failure cannot be recorded

ASSUME PasswordAssumption ==
    /\ IsFiniteSet(Requests) /\ NoRequest \notin Requests
    /\ NoToken \notin Tokens /\ NoWord \notin Words /\ FirstWord \in Words
    /\ Threshold \in Nat \ {0}

VARIABLES
    credential,   \* the stored PasswordCredential
    resetToken,   \* the one reset token of the account that can be consumed
    issued,       \* the reset tokens drawn so far
    active,       \* User.Status = UserActive
    sessions,     \* the sessions the login requests created
    req           \* the requests

vars == <<credential, resetToken, issued, active, sessions, req>>

\* hash: an Argon2id hash, a migrated digest, or one past its expiry date.
\* LockedUntil is absent, lies in the future, or is over.  `version', which no
\* guard reads, counts the passwords chosen so far.
PasswordCredential ==
    [word : Words, hash : {"argon2id", "legacy", "lapsed"},
     failedAttempts : Nat, lockedUntil : {"none", "future", "past"},
     version : Nat]

Kinds == {"login", "change", "reset", "set", "disable"}

\* attempts is FailedAttempts as Authenticate read it, version the one it read
\* or the one the request wrote.
Request ==
    [pc : {"idle", "failure", "upgrade", "success", "session", "write", "sweep",
           "wrong", "done"},
     kind : Kinds \union {"none"},
     typed : Words \union {NoWord}, chosen : Words \union {NoWord},
     token : Tokens \union {NoToken}, keep : Requests \union {NoRequest},
     attempts : Nat, version : Nat]

TypeOK ==
    /\ credential \in PasswordCredential
    /\ resetToken \in Tokens \union {NoToken}
    /\ issued \subseteq Tokens
    /\ active \in BOOLEAN
    /\ sessions \in [Requests -> {"none", "active", "revoked"}]
    /\ req \in [Requests -> Request]

\* The account was registered here, or imported with its legacy digest.
Init ==
    /\ \E hash \in {"argon2id", "legacy"} :
         credential = [word |-> FirstWord, hash |-> hash, failedAttempts |-> 0,
                       lockedUntil |-> "none", version |-> 0]
    /\ resetToken = NoToken /\ issued = {}
    /\ active = TRUE
    /\ sessions = [r \in Requests |-> "none"]
    /\ req = [r \in Requests |->
                [pc |-> "idle", kind |-> "none", typed |-> NoWord,
                 chosen |-> NoWord, token |-> NoToken, keep |-> NoRequest,
                 attempts |-> 0, version |-> 0]]

-----------------------------------------------------------------------------
(***************************************************************************)
(* Repository methods.                                                     *)
(***************************************************************************)
\* SetPassword replaces the whole record: attempts and lock are forgotten.
SetPassword(word, version) ==
    credential' = [word |-> word, hash |-> "argon2id", failedAttempts |-> 0,
                   lockedUntil |-> "none", version |-> version]

\* Mutant: wrong passwords are counted twice.
RecordPasswordFailureTwice(attempts) ==
    credential' = [credential EXCEPT
        !.failedAttempts = attempts + 1,
        !.lockedUntil = IF attempts + 1 >= Threshold THEN "future" ELSE @]

\* The caller's count is stored as it is; a zero time leaves the lock alone.
RecordPasswordFailure(attempts) ==
    credential' = [credential EXCEPT
        !.failedAttempts = attempts,
        !.lockedUntil = IF attempts >= Threshold THEN "future" ELSE @]

\* Mutant: a success takes back one failure, whether there was one or not.
RecordPasswordSuccessTakesBack ==
    credential' = [credential EXCEPT !.failedAttempts = @ - 1, !.lockedUntil = "none"]

RecordPasswordSuccess ==
    credential' = [credential EXCEPT !.failedAttempts = 0, !.lockedUntil = "none"]

\* Saving a reset token deletes the ones the user had before.
SavePasswordReset(t) ==
    /\ t \notin issued
    /\ issued' = issued \union {t}
    /\ resetToken' = t

\* Mutant: the token stays in the store.
PeekPasswordReset(t) == resetToken = t /\ UNCHANGED resetToken

ConsumePasswordReset(t) == resetToken = t /\ resetToken' = NoToken

\* RevokeAll on the sessions of the user.
RevokeAllExcept(keep) ==
    sessions' = [r \in Requests |->
        IF sessions[r] = "active" /\ r # keep THEN "revoked" ELSE sessions[r]]

-----------------------------------------------------------------------------
(***************************************************************************)
(* Authenticate, called by a login and by a password change.               *)
(***************************************************************************)
\* verifyStoredPassword on the record FindPasswordByUsername returned.
Verdict(word) ==
    IF word # credential.word \/ credential.hash = "lapsed" THEN "failure"
    ELSE IF credential.hash = "legacy" THEN "upgrade" ELSE "success"

Authenticate(r, kind, word, chosen, keep) ==
    /\ req[r].pc = "idle" /\ kind \in RequestKinds
    /\ active /\ credential.lockedUntil # "future"
    /\ req' = [req EXCEPT ![r] =
          [pc |-> Verdict(word), kind |-> kind, typed |-> word, chosen |-> chosen,
           token |-> NoToken, keep |-> keep,
           attempts |-> credential.failedAttempts, version |-> credential.version]]
    /\ UNCHANGED <<credential, resetToken, issued, active, sessions>>

loginPassword(r) ==
    \E word \in Words : Authenticate(r, "login", word, NoWord, NoRequest)

\* requireCurrentSession: a password is changed within a session.
changeAccountPassword(r) ==
    \E word, chosen \in Words, s \in Requests :
        sessions[s] = "active" /\ Authenticate(r, "change", word, chosen, s)

\* An error of RecordPasswordFailure is ignored.
RecordFailure(r) ==
    /\ req[r].pc = "failure"
    /\ \/ RecordPasswordFailure(req[r].attempts + 1)
       \/ r \in Faulty /\ UNCHANGED credential
    /\ req' = [req EXCEPT ![r].pc = "wrong"]
    /\ UNCHANGED <<resetToken, issued, active, sessions>>

\* Authenticate has succeeded; a change goes on with Set.
Accepted(r) ==
    req' = [req EXCEPT ![r].pc = IF req[r].kind = "login" THEN "session" ELSE "write"]

\* A migrated digest is replaced by a hash of the password that was typed.
UpgradePassword(r) ==
    /\ req[r].pc = "upgrade"
    /\ SetPassword(req[r].typed, credential.version)
    /\ Accepted(r)
    /\ UNCHANGED <<resetToken, issued, active, sessions>>

RecordSuccess(r) ==
    /\ req[r].pc = "success"
    /\ RecordPasswordSuccess
    /\ Accepted(r)
    /\ UNCHANGED <<resetToken, issued, active, sessions>>

\* createLoginSession; completeLogin reads neither user nor credential again.
CreateLoginSession(r) ==
    /\ req[r].pc = "session"
    /\ sessions' = [sessions EXCEPT ![r] = "active"]
    /\ req' = [req EXCEPT ![r].pc = "done"]
    /\ UNCHANGED <<credential, resetToken, issued, active>>

-----------------------------------------------------------------------------
(***************************************************************************)
(* The handlers that replace the password or stop the user.                *)
(***************************************************************************)
Begin(r, kind, word, t, pc) ==
    /\ req[r].pc = "idle" /\ kind \in RequestKinds
    /\ req' = [req EXCEPT ![r] =
          [pc |-> pc, kind |-> kind, typed |-> NoWord, chosen |-> word, token |-> t,
           keep |-> NoRequest, attempts |-> 0, version |-> 0]]

issueUserPasswordReset(t) ==
    /\ "reset" \in RequestKinds
    /\ SavePasswordReset(t)
    /\ UNCHANGED <<credential, active, sessions, req>>

\* Reset: the token is consumed before the password is stored.
resetAccountPassword(r) ==
    \E word \in Words, t \in Tokens :
        /\ ConsumePasswordReset(t)
        /\ Begin(r, "reset", word, t, "write")
        /\ UNCHANGED <<credential, issued, active, sessions>>

setUserPassword(r) ==
    \E word \in Words :
        /\ Begin(r, "set", word, NoToken, "write")
        /\ UNCHANGED <<credential, resetToken, issued, active, sessions>>

WritePassword(r) ==
    /\ req[r].pc = "write"
    /\ SetPassword(req[r].chosen, credential.version + 1)
    /\ req' = [req EXCEPT ![r].pc = "sweep", ![r].version = credential.version + 1]
    /\ UNCHANGED <<resetToken, issued, active, sessions>>

replaceUser(r) ==
    /\ Begin(r, "disable", NoWord, NoToken, "sweep")
    /\ active' = FALSE
    /\ UNCHANGED <<credential, resetToken, issued, sessions>>

ActivateUser ==
    /\ ~active /\ active' = TRUE
    /\ UNCHANGED <<credential, resetToken, issued, sessions, req>>

RevokeSessions(r) ==
    /\ req[r].pc = "sweep"
    /\ RevokeAllExcept(req[r].keep)
    /\ req' = [req EXCEPT ![r].pc = "done"]
    /\ UNCHANGED <<credential, resetToken, issued, active>>

\* The 15 minutes of a lock, the validity of a reset token, the expiry date of a
\* migrated digest.
Elapse ==
    /\ \/ /\ credential.lockedUntil = "future"
          /\ credential' = [credential EXCEPT !.lockedUntil = "past"]
          /\ UNCHANGED resetToken
       \/ /\ credential.hash = "legacy"
          /\ credential' = [credential EXCEPT !.hash = "lapsed"]
          /\ UNCHANGED resetToken
       \/ resetToken # NoToken /\ resetToken' = NoToken /\ UNCHANGED credential
    /\ UNCHANGED <<issued, active, sessions, req>>

Next ==
    \/ \E r \in Requests :
         \/ loginPassword(r) \/ changeAccountPassword(r) \/ RecordFailure(r)
         \/ UpgradePassword(r) \/ RecordSuccess(r) \/ CreateLoginSession(r)
         \/ resetAccountPassword(r) \/ setUserPassword(r) \/ WritePassword(r)
         \/ replaceUser(r) \/ RevokeSessions(r)
    \/ \E t \in Tokens : issueUserPasswordReset(t)
    \/ ActivateUser \/ Elapse

Spec == Init /\ [][Next]_vars

-----------------------------------------------------------------------------
(***************************************************************************)
(* Properties.                                                             *)
(***************************************************************************)
\* The requests that presented a wrong password.
Wrong == {r \in Requests : req[r].pc \in {"failure", "wrong"}}

\* A user is never locked out by others' races: however the reads and writes of
\* concurrent logins fall, the credential is locked only after `Threshold' wrong
\* passwords were really presented, and never counts more than there were.
LockNeedsFailures ==
    /\ credential.failedAttempts <= Cardinality(Wrong)
    /\ credential.lockedUntil # "none" => Cardinality(Wrong) >= Threshold

\* ConsumePasswordReset is single-use: two reset requests that present the same
\* token never both choose a password.
ResetTokenOnce ==
    \A q, r \in Requests :
        /\ req[q].kind = "reset" /\ req[r].kind = "reset"
        /\ req[q].token = req[r].token
        => q = r

=============================================================================
