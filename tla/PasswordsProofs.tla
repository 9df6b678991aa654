-------------------------- MODULE PasswordsProofs --------------------------
(***************************************************************************)
(* Passwords, for every set of requests, tokens and passwords and every    *)
(* threshold.                                                              *)
(*                                                                         *)
(* A request that is about to record a failure carries a count it read     *)
(* before; `Counted' bounds that count, too, by the wrong passwords that   *)
(* were presented, its own among them.  `Spent' says that a token in the   *)
(* hands of a reset request was issued and has left the store.             *)
(***************************************************************************)
EXTENDS Passwords, FiniteSetTheorems, TLAPS

LEMMA PasswordTypeInit == Init => TypeOK
<1> SUFFICES ASSUME Init PROVE TypeOK
  OBVIOUS
<1>1. credential \in PasswordCredential
  BY PasswordAssumption DEF Init, PasswordCredential
<1>2. req \in [Requests -> Request]
  BY DEF Init, Request, Kinds
<1> QED BY <1>1, <1>2 DEF Init, TypeOK

\* The requests of a handler that only moves its record on.
LEMMA MovedRequest ==
    ASSUME TypeOK, NEW r \in Requests,
           NEW pc \in {"upgrade", "success", "session", "write", "sweep", "wrong", "done"},
           req' = [req EXCEPT ![r].pc = pc]
    PROVE  req' \in [Requests -> Request]
BY DEF TypeOK, Request

LEMMA WrittenCredential ==
    ASSUME TypeOK, NEW w \in Words, NEW v \in Nat, SetPassword(w, v)
    PROVE  credential' \in PasswordCredential
BY DEF SetPassword, PasswordCredential

LEMMA AuthenticateType ==
    ASSUME TypeOK, NEW r \in Requests, NEW kind \in {"login", "change"},
           NEW word \in Words, NEW chosen \in Words \union {NoWord},
           NEW keep \in Requests \union {NoRequest},
           Authenticate(r, kind, word, chosen, keep)
    PROVE  TypeOK'
<1>1. Verdict(word) \in {"failure", "upgrade", "success"}
  BY DEF Verdict
<1>2. credential.failedAttempts \in Nat /\ credential.version \in Nat
  BY DEF TypeOK, PasswordCredential
<1>3. [pc |-> Verdict(word), kind |-> kind, typed |-> word, chosen |-> chosen,
       token |-> NoToken, keep |-> keep,
       attempts |-> credential.failedAttempts, version |-> credential.version] \in Request
  BY <1>1, <1>2 DEF Request, Kinds
<1>4. req' \in [Requests -> Request]
  BY <1>3 DEF TypeOK, Authenticate
<1> QED BY <1>4 DEF TypeOK, Authenticate

LEMMA BeginType ==
    ASSUME TypeOK, NEW r \in Requests, NEW kind \in Kinds,
           NEW word \in Words \union {NoWord}, NEW t \in Tokens \union {NoToken},
           NEW pc \in {"write", "sweep"}, Begin(r, kind, word, t, pc)
    PROVE  /\ req' \in [Requests -> Request]
           /\ req'[r].pc = pc /\ req'[r].kind = kind /\ req'[r].chosen = word
           /\ req'[r].token = t
           /\ \A q \in Requests \ {r} : req'[q] = req[q]
<1> DEFINE x == [pc |-> pc, kind |-> kind, typed |-> NoWord, chosen |-> word,
                 token |-> t, keep |-> NoRequest, attempts |-> 0, version |-> 0]
<1>1. x \in Request
  BY DEF Request, Kinds
<1>2. x.pc = pc /\ x.kind = kind /\ x.chosen = word /\ x.token = t
  OBVIOUS
<1>3. req' = [req EXCEPT ![r] = x]
  BY DEF Begin
<1> HIDE DEF x
<1> QED BY <1>1, <1>2, <1>3 DEF TypeOK

\* A request at "write" carries the password it will store, one at "upgrade"
\* the password that was typed.
Carries ==
    \A r \in Requests :
        /\ req[r].pc \in {"failure", "upgrade", "success"} =>
             /\ req[r].kind \in {"login", "change"} /\ req[r].typed \in Words
             /\ req[r].kind = "change" => req[r].chosen \in Words
        /\ req[r].pc = "write" => req[r].chosen \in Words

PasswordTypeInv == TypeOK /\ Carries

LEMMA PasswordTypeStep == PasswordTypeInv /\ [Next]_vars => PasswordTypeInv'
<1> SUFFICES ASSUME TypeOK, Carries, [Next]_vars PROVE PasswordTypeInv'
  BY DEF PasswordTypeInv
<1>1. ASSUME NEW r \in Requests, loginPassword(r) PROVE PasswordTypeInv'
  <2> PICK word \in Words : Authenticate(r, "login", word, NoWord, NoRequest)
    BY <1>1 DEF loginPassword
  <2>1. TypeOK'
    BY AuthenticateType
  <2>2. Carries'
    BY DEF Authenticate, Carries, TypeOK, Verdict
  <2> QED BY <2>1, <2>2 DEF PasswordTypeInv
<1>2. ASSUME NEW r \in Requests, changeAccountPassword(r) PROVE PasswordTypeInv'
  <2> PICK word, chosen \in Words, s \in Requests :
        Authenticate(r, "change", word, chosen, s)
    BY <1>2 DEF changeAccountPassword
  <2>1. TypeOK'
    BY AuthenticateType
  <2>2. Carries'
    BY DEF Authenticate, Carries, TypeOK, Verdict
  <2> QED BY <2>1, <2>2 DEF PasswordTypeInv
<1>3. ASSUME NEW r \in Requests, RecordFailure(r) PROVE PasswordTypeInv'
  <2>1. req' \in [Requests -> Request]
    BY <1>3, MovedRequest DEF RecordFailure
  <2>2. req[r].attempts \in Nat
    BY DEF TypeOK, Request
  <2>3. credential' \in PasswordCredential
    <3> DEFINE n == req[r].attempts + 1
    <3>1. n \in Nat
      BY <2>2
    <3> HIDE DEF n
    <3>2. CASE RecordPasswordFailure(n)
      BY <3>1, <3>2 DEF RecordPasswordFailure, TypeOK, PasswordCredential
    <3>3. CASE UNCHANGED credential
      BY <3>3 DEF TypeOK
    <3> QED BY <1>3, <3>2, <3>3 DEF RecordFailure, n
  <2>4. TypeOK'
    BY <1>3, <2>1, <2>3 DEF RecordFailure, TypeOK
  <2>5. Carries'
    BY <1>3 DEF RecordFailure, Carries, TypeOK, Request
  <2> QED BY <2>4, <2>5 DEF PasswordTypeInv
<1>4. ASSUME NEW r \in Requests, Accepted(r),
             req[r].pc \in {"upgrade", "success"}
      PROVE  req' \in [Requests -> Request] /\ Carries'
  <2> DEFINE pc == IF req[r].kind = "login" THEN "session" ELSE "write"
  <2>1. req' = [req EXCEPT ![r].pc = pc] /\ pc \in {"session", "write"}
    BY <1>4 DEF Accepted
  <2>2. pc = "write" => req[r].chosen \in Words
    BY <1>4 DEF Carries
  <2> HIDE DEF pc
  <2>3. req' \in [Requests -> Request]
    BY <2>1, MovedRequest
  <2>4. Carries'
    BY <2>1, <2>2 DEF Carries, TypeOK, Request
  <2> QED BY <2>3, <2>4
<1>5. ASSUME NEW r \in Requests, UpgradePassword(r) PROVE PasswordTypeInv'
  <2>1. req[r].typed \in Words /\ credential.version \in Nat
    BY <1>5 DEF UpgradePassword, Carries, TypeOK, PasswordCredential
  <2>2. credential' \in PasswordCredential
    BY <1>5, <2>1, WrittenCredential DEF UpgradePassword
  <2> QED BY <1>4, <1>5, <2>2 DEF UpgradePassword, PasswordTypeInv, TypeOK
<1>6. ASSUME NEW r \in Requests, RecordSuccess(r) PROVE PasswordTypeInv'
  <2>1. credential' \in PasswordCredential
    BY <1>6 DEF RecordSuccess, RecordPasswordSuccess, TypeOK, PasswordCredential
  <2> QED BY <1>4, <1>6, <2>1 DEF RecordSuccess, PasswordTypeInv, TypeOK
<1>7. ASSUME NEW r \in Requests, CreateLoginSession(r) PROVE PasswordTypeInv'
  <2>1. req' \in [Requests -> Request]
    BY <1>7, MovedRequest DEF CreateLoginSession
  <2>2. Carries'
    BY <1>7 DEF CreateLoginSession, Carries, TypeOK, Request
  <2> QED BY <1>7, <2>1, <2>2 DEF CreateLoginSession, PasswordTypeInv, TypeOK
<1>8. ASSUME NEW r \in Requests, resetAccountPassword(r) PROVE PasswordTypeInv'
  <2> PICK word \in Words, t \in Tokens :
        /\ ConsumePasswordReset(t) /\ Begin(r, "reset", word, t, "write")
        /\ UNCHANGED <<credential, issued, active, sessions>>
    BY <1>8 DEF resetAccountPassword
  <2>1. /\ req' \in [Requests -> Request]
        /\ req'[r].pc = "write" /\ req'[r].chosen = word
        /\ \A q \in Requests \ {r} : req'[q] = req[q]
    BY BeginType DEF Kinds
  <2>2. Carries'
    BY <2>1 DEF Carries
  <2> QED BY <2>1, <2>2 DEF ConsumePasswordReset, PasswordTypeInv, TypeOK
<1>9. ASSUME NEW r \in Requests, setUserPassword(r) PROVE PasswordTypeInv'
  <2> PICK word \in Words :
        /\ Begin(r, "set", word, NoToken, "write")
        /\ UNCHANGED <<credential, resetToken, issued, active, sessions>>
    BY <1>9 DEF setUserPassword
  <2>1. /\ req' \in [Requests -> Request]
        /\ req'[r].pc = "write" /\ req'[r].chosen = word
        /\ \A q \in Requests \ {r} : req'[q] = req[q]
    BY BeginType DEF Kinds
  <2>2. Carries'
    BY <2>1 DEF Carries
  <2> QED BY <2>1, <2>2 DEF PasswordTypeInv, TypeOK
<1>10. ASSUME NEW r \in Requests, WritePassword(r) PROVE PasswordTypeInv'
  <2> DEFINE x == [req[r] EXCEPT !.pc = "sweep", !.version = credential.version + 1]
  <2>1. credential.version + 1 \in Nat /\ req[r] \in Request /\ req[r].chosen \in Words
    BY <1>10 DEF WritePassword, Carries, TypeOK, PasswordCredential
  <2>2. credential' \in PasswordCredential
    BY <1>10, <2>1, WrittenCredential DEF WritePassword
  <2>3. x \in Request /\ x.pc = "sweep"
    BY <2>1 DEF Request
  <2>4. req' = [req EXCEPT ![r] = x]
    BY <1>10 DEF WritePassword, TypeOK
  <2> HIDE DEF x
  <2>5. req' \in [Requests -> Request] /\ Carries'
    BY <2>3, <2>4 DEF TypeOK, Carries
  <2> QED BY <1>10, <2>2, <2>5 DEF WritePassword, PasswordTypeInv, TypeOK
<1>11. ASSUME NEW r \in Requests, replaceUser(r) PROVE PasswordTypeInv'
  <2>1. /\ req' \in [Requests -> Request] /\ req'[r].pc = "sweep"
        /\ \A q \in Requests \ {r} : req'[q] = req[q]
    BY <1>11, BeginType DEF replaceUser, Kinds
  <2>2. Carries'
    BY <2>1 DEF Carries
  <2> QED BY <1>11, <2>1, <2>2 DEF replaceUser, PasswordTypeInv, TypeOK
<1>12. ASSUME NEW r \in Requests, RevokeSessions(r) PROVE PasswordTypeInv'
  <2>1. req' \in [Requests -> Request]
    BY <1>12, MovedRequest DEF RevokeSessions
  <2>2. Carries'
    BY <1>12 DEF RevokeSessions, Carries, TypeOK, Request
  <2> QED BY <1>12, <2>1, <2>2
        DEF RevokeSessions, RevokeAllExcept, PasswordTypeInv, TypeOK
<1>13. ASSUME NEW t \in Tokens, issueUserPasswordReset(t) PROVE PasswordTypeInv'
  BY <1>13 DEF issueUserPasswordReset, SavePasswordReset, PasswordTypeInv, TypeOK, Carries
<1>14. CASE ActivateUser
  BY <1>14 DEF ActivateUser, PasswordTypeInv, TypeOK, Carries
<1>15. CASE Elapse
  <2>1. credential' \in PasswordCredential
    BY <1>15 DEF Elapse, TypeOK, PasswordCredential
  <2> QED BY <1>15, <2>1 DEF Elapse, PasswordTypeInv, TypeOK, Carries
<1>16. CASE UNCHANGED vars
  BY <1>16 DEF vars, PasswordTypeInv, TypeOK, Carries
<1> QED
  BY <1>1, <1>2, <1>3, <1>5, <1>6, <1>7, <1>8, <1>9, <1>10, <1>11, <1>12, <1>13,
     <1>14, <1>15, <1>16 DEF Next

\* The records of the password store and of every request on it keep their types,
\* however many requests overlap.
THEOREM PasswordTypes == Spec => []TypeOK
<1>1. Init => PasswordTypeInv
  BY PasswordTypeInit DEF PasswordTypeInv, Carries, Init
<1> QED BY <1>1, PasswordTypeStep, PTL DEF Spec, PasswordTypeInv

-----------------------------------------------------------------------------
(***************************************************************************)
(* The lock.                                                               *)
(***************************************************************************)
Counted ==
    /\ LockNeedsFailures
    /\ \A r \in Requests :
         req[r].pc = "failure" => req[r].attempts + 1 <= Cardinality(Wrong)

LEMMA WrongFinite ==
    /\ IsFiniteSet(Wrong)
    /\ Cardinality(Wrong) \in Nat
<1>1. Wrong \subseteq Requests
  BY DEF Wrong
<1> QED BY <1>1, PasswordAssumption, FS_Subset, FS_CardinalityType

LEMMA AuthenticateCounts ==
    ASSUME TypeOK, Counted, NEW r \in Requests, NEW kind, NEW word, NEW chosen, NEW keep,
           Authenticate(r, kind, word, chosen, keep)
    PROVE  Counted'
<1>1. /\ credential' = credential
      /\ \A q \in Requests \ {r} : req'[q] = req[q]
      /\ req[r].pc = "idle" /\ req'[r].pc \in {"failure", "upgrade", "success"}
      /\ req'[r].attempts = credential.failedAttempts
  BY DEF Authenticate, Verdict, TypeOK
<1>2. credential.failedAttempts \in Nat /\ Threshold \in Nat
  BY PasswordAssumption DEF TypeOK, PasswordCredential
<1>3. \A q \in Requests : req[q].attempts \in Nat
  BY DEF TypeOK, Request
<1>4. CASE req'[r].pc = "failure"
  <2>1. r \notin Wrong /\ Wrong' = Wrong \union {r}
    BY <1>1, <1>4 DEF Wrong
  <2>2. Cardinality(Wrong') = Cardinality(Wrong) + 1
    BY <2>1, WrongFinite, FS_AddElement
  <2> QED BY <1>1, <1>2, <1>3, <2>2, WrongFinite DEF Counted, LockNeedsFailures
<1>5. CASE req'[r].pc # "failure"
  <2>1. Wrong' = Wrong
    BY <1>1, <1>5 DEF Wrong
  <2> QED BY <1>1, <1>5, <2>1 DEF Counted, LockNeedsFailures
<1> QED BY <1>4, <1>5

\* A handler outside Authenticate that moves one request and leaves the count
\* and the lock alone, or clears them.
LEMMA OtherCounts ==
    ASSUME Counted, NEW r \in Requests,
           \A q \in Requests \ {r} : req'[q] = req[q],
           req[r].pc \notin {"failure", "wrong"},
           req'[r].pc \notin {"failure", "wrong"},
           \/ credential' = credential
           \/ credential'.failedAttempts = 0 /\ credential'.lockedUntil = "none"
    PROVE  Counted'
<1>1. Wrong' = Wrong
  BY DEF Wrong
<1>2. 0 <= Cardinality(Wrong)
  BY WrongFinite
<1> QED BY <1>1, <1>2 DEF Counted, LockNeedsFailures

LEMMA CountedStep == TypeOK /\ TypeOK' /\ Counted /\ [Next]_vars => Counted'
<1> SUFFICES ASSUME TypeOK, TypeOK', Counted, [Next]_vars PROVE Counted'
  OBVIOUS
<1>1. ASSUME NEW r \in Requests, loginPassword(r) \/ changeAccountPassword(r)
      PROVE  Counted'
  BY <1>1, AuthenticateCounts DEF loginPassword, changeAccountPassword
<1>2. ASSUME NEW r \in Requests, RecordFailure(r) PROVE Counted'
  <2>1. /\ \A q \in Requests \ {r} : req'[q] = req[q]
        /\ req[r].pc = "failure" /\ req'[r].pc = "wrong"
    BY <1>2 DEF RecordFailure, TypeOK, Request
  <2>2. Wrong' = Wrong
    BY <2>1 DEF Wrong
  <2>3. /\ req[r].attempts + 1 \in Nat /\ Threshold \in Nat
        /\ req[r].attempts + 1 <= Cardinality(Wrong)
    BY <2>1, PasswordAssumption DEF TypeOK, Request, Counted
  <2>4. CASE RecordPasswordFailure(req[r].attempts + 1)
    <3>1. /\ credential'.failedAttempts = req[r].attempts + 1
          /\ credential'.lockedUntil # "none" =>
               req[r].attempts + 1 >= Threshold \/ credential.lockedUntil # "none"
      BY <2>4 DEF RecordPasswordFailure, TypeOK, PasswordCredential
    <3> QED BY <2>1, <2>2, <2>3, <3>1, WrongFinite DEF Counted, LockNeedsFailures
  <2>5. CASE UNCHANGED credential
    BY <2>1, <2>2, <2>5 DEF Counted, LockNeedsFailures
  <2> QED BY <1>2, <2>4, <2>5 DEF RecordFailure
<1>3. ASSUME NEW r \in Requests, UpgradePassword(r) PROVE Counted'
  BY <1>3, OtherCounts DEF UpgradePassword, SetPassword, Accepted, TypeOK, Request
<1>4. ASSUME NEW r \in Requests, RecordSuccess(r) PROVE Counted'
  <2>1. credential'.failedAttempts = 0 /\ credential'.lockedUntil = "none"
    BY <1>4 DEF RecordSuccess, RecordPasswordSuccess, TypeOK, PasswordCredential
  <2> QED BY <1>4, <2>1, OtherCounts DEF RecordSuccess, Accepted, TypeOK, Request
<1>5. ASSUME NEW r \in Requests, CreateLoginSession(r) \/ RevokeSessions(r)
      PROVE  Counted'
  BY <1>5, OtherCounts DEF CreateLoginSession, RevokeSessions, TypeOK, Request
<1>6. ASSUME NEW r \in Requests, NEW kind, NEW word, NEW t, NEW pc \in {"write", "sweep"},
             Begin(r, kind, word, t, pc), UNCHANGED credential
      PROVE  Counted'
  BY <1>6, OtherCounts DEF Begin, TypeOK
<1>7. ASSUME NEW r \in Requests,
             resetAccountPassword(r) \/ setUserPassword(r) \/ replaceUser(r)
      PROVE  Counted'
  BY <1>6, <1>7 DEF resetAccountPassword, setUserPassword, replaceUser
<1>8. ASSUME NEW r \in Requests, WritePassword(r) PROVE Counted'
  BY <1>8, OtherCounts DEF WritePassword, SetPassword, TypeOK, Request
<1>9. ASSUME UNCHANGED req,
             credential'.failedAttempts = credential.failedAttempts,
             credential.lockedUntil = "none" => credential'.lockedUntil = "none"
      PROVE  Counted'
  BY <1>9 DEF Counted, LockNeedsFailures, Wrong
<1>10. CASE (\E t \in Tokens : issueUserPasswordReset(t)) \/ ActivateUser \/ UNCHANGED vars
  BY <1>9, <1>10 DEF issueUserPasswordReset, ActivateUser, vars
<1>11. CASE Elapse
  <2>1. /\ credential'.failedAttempts = credential.failedAttempts
        /\ credential.lockedUntil = "none" => credential'.lockedUntil = "none"
    BY <1>11 DEF Elapse, TypeOK, PasswordCredential
  <2> QED BY <1>9, <1>11, <2>1 DEF Elapse
<1> QED
  BY <1>1, <1>2, <1>3, <1>4, <1>5, <1>7, <1>8, <1>10, <1>11 DEF Next

\* For any number of concurrent requests and any threshold: the count Authenticate
\* stores is never ahead of the wrong passwords that were presented, and the
\* credential is not locked before there were Threshold of them.
THEOREM LockEarned == Spec => []LockNeedsFailures
<1>1. Init => PasswordTypeInv /\ Counted
  <2> SUFFICES ASSUME Init PROVE PasswordTypeInv /\ Counted
    OBVIOUS
  <2>1. PasswordTypeInv
    BY PasswordTypeInit DEF PasswordTypeInv, Carries, Init
  <2>2. credential.failedAttempts = 0 /\ credential.lockedUntil = "none"
    BY DEF Init
  <2>3. \A r \in Requests : req[r].pc = "idle"
    BY DEF Init
  <2>4. 0 <= Cardinality(Wrong)
    BY WrongFinite
  <2>5. Counted
    BY <2>2, <2>3, <2>4 DEF Counted, LockNeedsFailures
  <2> QED BY <2>1, <2>5
<1>2. PasswordTypeInv /\ Counted /\ [Next]_vars => PasswordTypeInv' /\ Counted'
  BY PasswordTypeStep, CountedStep DEF PasswordTypeInv
<1>3. Counted => LockNeedsFailures
  BY DEF Counted
<1> QED BY <1>1, <1>2, <1>3, PTL DEF Spec

-----------------------------------------------------------------------------
(***************************************************************************)
(* Reset tokens.                                                           *)
(***************************************************************************)
Spent ==
    /\ resetToken # NoToken => resetToken \in issued
    /\ \A r \in Requests : req[r].kind = "reset" =>
         req[r].token \in issued /\ req[r].token # resetToken
    /\ ResetTokenOnce

\* Steps that start no reset request.
LEMMA SpentKept ==
    ASSUME Spent, UNCHANGED issued, resetToken' \in {resetToken, NoToken},
           NoToken \notin issued,
           \A q \in Requests : req'[q].kind = "reset" =>
               req[q].kind = "reset" /\ req'[q].token = req[q].token
    PROVE  Spent'
BY DEF Spent, ResetTokenOnce

LEMMA SpentStep == PasswordTypeInv /\ Spent /\ [Next]_vars => Spent'
<1> SUFFICES ASSUME TypeOK, Carries, Spent, [Next]_vars PROVE Spent'
  BY DEF PasswordTypeInv
<1> NoToken \notin issued /\ NoToken \notin Tokens
  BY PasswordAssumption DEF TypeOK
<1>1. ASSUME NEW r \in Requests, loginPassword(r) \/ changeAccountPassword(r)
      PROVE  Spent'
  <2> PICK kind \in {"login", "change"} :
        \E word, chosen, keep : Authenticate(r, kind, word, chosen, keep)
    BY <1>1 DEF loginPassword, changeAccountPassword
  <2> QED BY SpentKept DEF Authenticate, TypeOK
<1>2. ASSUME NEW r \in Requests,
             \/ RecordFailure(r) \/ UpgradePassword(r) \/ RecordSuccess(r)
             \/ CreateLoginSession(r) \/ RevokeSessions(r) \/ WritePassword(r)
      PROVE  Spent'
  <2>1. \A q \in Requests : req'[q].kind = req[q].kind /\ req'[q].token = req[q].token
    BY <1>2 DEF RecordFailure, UpgradePassword, RecordSuccess, Accepted,
                CreateLoginSession, RevokeSessions, WritePassword, TypeOK, Request
  <2>2. UNCHANGED <<issued, resetToken>>
    BY <1>2 DEF RecordFailure, UpgradePassword, RecordSuccess,
                CreateLoginSession, RevokeSessions, WritePassword
  <2> QED BY <2>1, <2>2, SpentKept
<1>3. ASSUME NEW r \in Requests, resetAccountPassword(r) PROVE Spent'
  <2> PICK word \in Words, t \in Tokens :
        /\ ConsumePasswordReset(t) /\ Begin(r, "reset", word, t, "write")
        /\ UNCHANGED <<credential, issued, active, sessions>>
    BY <1>3 DEF resetAccountPassword
  <2>1. /\ req'[r].token = t
        /\ \A q \in Requests \ {r} : req'[q] = req[q]
    BY BeginType DEF Kinds
  <2>2. resetToken = t /\ resetToken' = NoToken /\ issued' = issued /\ t \in issued
    BY DEF ConsumePasswordReset, Spent
  <2>3. \A q \in Requests \ {r} : req'[q].kind = "reset" =>
          req'[q].token \in issued /\ req'[q].token # t
    BY <2>1, <2>2 DEF Spent
  <2>4. ResetTokenOnce'
    BY <2>1, <2>3 DEF Spent, ResetTokenOnce
  <2> QED BY <2>1, <2>2, <2>3, <2>4 DEF Spent
<1>4. ASSUME NEW r \in Requests, setUserPassword(r) \/ replaceUser(r) PROVE Spent'
  <2> PICK kind \in {"set", "disable"} : \E word, pc : Begin(r, kind, word, NoToken, pc)
    BY <1>4 DEF setUserPassword, replaceUser
  <2>1. \A q \in Requests : req'[q].kind = "reset" =>
          req[q].kind = "reset" /\ req'[q].token = req[q].token
    BY DEF Begin, TypeOK
  <2> QED BY <1>4, <2>1, SpentKept DEF setUserPassword, replaceUser
<1>5. ASSUME NEW t \in Tokens, issueUserPasswordReset(t) PROVE Spent'
  BY <1>5 DEF issueUserPasswordReset, SavePasswordReset, Spent, ResetTokenOnce
<1>6. CASE ActivateUser \/ Elapse \/ UNCHANGED vars
  BY <1>6, SpentKept DEF ActivateUser, Elapse, vars
<1> QED
  BY <1>1, <1>2, <1>3, <1>4, <1>5, <1>6 DEF Next

\* ConsumePasswordReset is single-use for any number of concurrent resets: two of
\* them never choose a password with the same token.
THEOREM ResetOnce == Spec => []ResetTokenOnce
<1>1. Init => PasswordTypeInv /\ Spent
  BY PasswordTypeInit DEF PasswordTypeInv, Carries, Spent, ResetTokenOnce, Init
<1>2. Spent => ResetTokenOnce
  BY DEF Spent
<1> QED BY <1>1, <1>2, PasswordTypeStep, SpentStep, PTL DEF Spec
=============================================================================
