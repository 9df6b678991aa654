-------------------------- MODULE DirectoryProofs --------------------------
(***************************************************************************)
(* The user directory, for every number of accounts, addresses, identities *)
(* and concurrent requests: its types, that a verified address was         *)
(* confirmed, that a super administrator remains, and that the last way to *)
(* log in stays.                                                           *)
(***************************************************************************)
EXTENDS Directory, FiniteSetTheorems, TLAPS

(***************************************************************************)
(* What a request has in its hands by the statement it has come to; TypeOK *)
(* leaves open that it is nothing.                                         *)
(***************************************************************************)
Holds(q) ==
    /\ q.pc # "idle" => q.user \in Users
    /\ q.pc \in {"lock", "check", "remove"} => q.external \in Identities
    /\ q.pc \in {"delete", "insert"} => q.email \in Emails

DirectoryTypeInv == TypeOK /\ \A h \in Handlers : Holds(handler[h])

HandlersOK ==
    handler \in [Handlers -> Handler] /\ \A h \in Handlers : Holds(handler[h])

LEMMA IdleHandler == Idle \in Handler /\ Holds(Idle)
BY DEF Idle, Handler, Holds, User, Absent, Address, Status

LEMMA NewUserType ==
    /\ Absent \in User
    /\ \A e \in Address, status \in Status : NewUser(e, status) \in User
    /\ \A user \in User, e \in Address, status \in Status :
          ReplaceUser(user, e, status) \in User
BY DEF NewUser, ReplaceUser, User, Absent, Address, Status

LEMMA SetHandler ==
    ASSUME HandlersOK, NEW h \in Handlers, NEW q \in Handler, Holds(q),
           handler' = [handler EXCEPT ![h] = q]
    PROVE  HandlersOK'
BY DEF HandlersOK

LEMMA FinishHandler ==
    ASSUME HandlersOK, NEW h \in Handlers, Finish(h)
    PROVE  HandlersOK'
BY IdleHandler, SetHandler DEF Finish

\* A request moves to a statement that needs no more than it holds.
LEMMA GotoHandler ==
    ASSUME HandlersOK, NEW h \in Handlers, NEW pc, Goto(h, pc),
           handler[h].pc # "idle",
           \/ pc \in {"list", "roles", "replace"}
           \/ pc = "insert" /\ handler[h].pc = "delete"
           \/ /\ pc \in {"check", "remove"}
              /\ handler[h].pc \in {"lock", "check"}
    PROVE  HandlersOK'
<1> DEFINE q == [handler[h] EXCEPT !.pc = pc]
<1>1. handler[h] \in Handler /\ Holds(handler[h])
  BY DEF HandlersOK
<1>2. q \in Handler /\ Holds(q)
  BY <1>1 DEF Handler, Holds
<1>3. handler' = [handler EXCEPT ![h] = q]
  BY <1>1 DEF Goto, HandlersOK
<1> QED BY <1>2, <1>3, SetHandler

LEMMA MappedSeq ==
    ASSUME NEW S, NEW s \in Seq(S), NEW t \in [DOMAIN s -> S]
    PROVE  t \in Seq(S) /\ Len(t) = Len(s)
<1>1. DOMAIN s = 1..Len(s) /\ Len(s) \in Nat
  OBVIOUS
<1> QED BY <1>1

-----------------------------------------------------------------------------
(***************************************************************************)
(* Types.                                                                  *)
(***************************************************************************)
LEMMA StartType ==
    ASSUME DirectoryTypeInv, NEW h \in Handlers, NEW u \in Users, Starts(h, u)
    PROVE  DirectoryTypeInv'
<1>0. HandlersOK /\ users[u] \in User /\ Idle \in Handler
  BY IdleHandler DEF DirectoryTypeInv, TypeOK, HandlersOK
<1>1. ASSUME NEW kind \in Kinds, Arrives(kind)
      PROVE  (load \in Workloads /\ requests \in 0..MaxRequests)'
  BY <1>1, DirectoryAssumption DEF DirectoryTypeInv, TypeOK, Arrives
<1>2. ASSUME HandlersOK', (load \in Workloads /\ requests \in 0..MaxRequests)',
             UNCHANGED <<users, accountVars, mailVars, rowLock>>
      PROVE  DirectoryTypeInv'
  BY <1>2 DEF DirectoryTypeInv, TypeOK, HandlersOK, accountVars, mailVars
<1>3. ASSUME NEW kind \in {"register", "create"}, NEW e \in Address, NEW status \in Status,
             Created(h, kind, u, NewUser(e, status)), passwords' \subseteq Users
      PROVE  DirectoryTypeInv'
  <2> DEFINE q == [Idle EXCEPT !.pc = "token", !.kind = kind, !.user = u]
  <2>1. q \in Handler /\ Holds(q)
    BY DEF Idle, Handler, Holds, Kinds, User, Absent, Address, Status
  <2> HIDE DEF q
  <2>2. HandlersOK'
    BY <1>0, <1>3, <2>1, SetHandler, IdleHandler DEF Created, q
  <2>3. users' \in [Users -> User]
    BY <1>3, NewUserType DEF Created, DirectoryTypeInv, TypeOK
  <2>4. (load \in Workloads /\ requests \in 0..MaxRequests)'
    BY <1>1, <1>3 DEF Created, Kinds
  <2> QED
    BY <1>3, <2>2, <2>3, <2>4
    DEF DirectoryTypeInv, TypeOK, HandlersOK, Created, mailVars
<1>4. ASSUME NEW kind \in Kinds, NEW pc \in {"grants", "replace", "token"},
             NEW e \in Address, NEW status \in Status, Read(h, kind, u, pc, e, status)
      PROVE  DirectoryTypeInv'
  <2> DEFINE row == ReplaceUser(users[u], e, status)
             announce == (e # NoEmail /\ e # users[u].email)
             q == [Idle EXCEPT !.pc = pc, !.kind = kind, !.user = u, !.row = row,
                               !.announce = announce]
  <2>1. row \in User /\ announce \in BOOLEAN
    BY <1>0, NewUserType
  <2> HIDE DEF row, announce
  <2>2. q \in Handler /\ Holds(q)
    BY <2>1 DEF Idle, Handler, Holds, Address
  <2> HIDE DEF q
  <2>3. handler' = [handler EXCEPT ![h] = q]
    BY <1>4 DEF Read, q, row, announce
  <2>4. HandlersOK'
    BY <1>0, <2>2, <2>3, SetHandler
  <2> QED BY <1>1, <1>2, <1>4, <2>4 DEF Read
<1>5. ASSUME NEW e \in Address, register(h, u, e) \/ changeAccountEmail(h, u, e)
      PROVE  DirectoryTypeInv'
  <2>1. CASE register(h, u, e)
    BY <1>3, <2>1 DEF register, Status, DirectoryTypeInv, TypeOK
  <2>2. CASE changeAccountEmail(h, u, e)
    <3>1. users[u].status \in Status
      BY <1>0 DEF User
    <3> QED BY <1>4, <2>2, <3>1 DEF changeAccountEmail, Kinds
  <2> QED BY <1>5, <2>1, <2>2
<1>9. ASSUME NEW e \in Address, NEW status \in Status,
             createUser(h, u, e, status) \/ replaceUser(h, u, e, status)
      PROVE  DirectoryTypeInv'
  <2>1. CASE createUser(h, u, e, status)
    BY <1>3, <2>1 DEF createUser, DirectoryTypeInv, TypeOK
  <2>2. CASE replaceUser(h, u, e, status)
    BY <1>4, <2>2 DEF replaceUser, Kinds
  <2> QED BY <1>9, <2>1, <2>2
<1>6. ASSUME NEW super \in BOOLEAN, replaceUserAdministratorRoles(h, u, super)
      PROVE  DirectoryTypeInv'
  <2> DEFINE q == [Idle EXCEPT !.pc = IF super THEN "roles" ELSE "grants",
                               !.kind = "roles", !.user = u, !.super = super]
  <2>1. q \in Handler /\ Holds(q)
    BY DEF Idle, Handler, Holds, Kinds, User, Absent, Address, Status
  <2> QED
    BY <1>0, <1>1, <1>2, <1>6, <2>1, SetHandler
    DEF replaceUserAdministratorRoles, Kinds
<1>7. ASSUME NEW kind \in {"resend", "mark"}, NEW pc \in {"token", "mark"}, Arrives(kind),
             handler' = [handler EXCEPT ![h] =
                 [Idle EXCEPT !.pc = pc, !.kind = kind, !.user = u]],
             UNCHANGED <<users, accountVars, mailVars, rowLock>>
      PROVE  DirectoryTypeInv'
  <2> DEFINE q == [Idle EXCEPT !.pc = pc, !.kind = kind, !.user = u]
  <2>1. q \in Handler /\ Holds(q)
    BY DEF Idle, Handler, Holds, Kinds, User, Absent, Address, Status
  <2> QED BY <1>0, <1>1, <1>2, <1>7, <2>1, SetHandler DEF Kinds
<1>8. ASSUME NEW x \in Identities, deleteUserExternalIdentity(h, u, x)
      PROVE  DirectoryTypeInv'
  <2> DEFINE q == [Idle EXCEPT !.pc = "lock", !.kind = "unlink", !.user = u,
                               !.external = x]
  <2>1. q \in Handler /\ Holds(q)
    BY DEF Idle, Handler, Holds, Kinds, User, Absent, Address, Status
  <2> QED
    BY <1>0, <1>1, <1>2, <1>8, <2>1, SetHandler DEF deleteUserExternalIdentity, Kinds
<1> QED
  BY <1>5, <1>6, <1>7, <1>8, <1>9
  DEF Starts, issueAccountEmailVerification, verifyAdminUserEmail

LEMMA ContinueType ==
    ASSUME DirectoryTypeInv, NEW h \in Handlers, Continues(h)
    PROVE  DirectoryTypeInv'
<1> DEFINE u == handler[h].user
<1>0. /\ HandlersOK /\ handler[h] \in Handler /\ Holds(handler[h])
      /\ handler[h].row \in User /\ handler[h].super \in BOOLEAN
  BY DEF DirectoryTypeInv, TypeOK, HandlersOK, Handler
<1>1. ASSUME HandlersOK', UNCHANGED <<users, accountVars, mailVars, rowLock, boundVars>>
      PROVE  DirectoryTypeInv'
  BY <1>1 DEF DirectoryTypeInv, TypeOK, HandlersOK, accountVars, mailVars, boundVars
<1>2. CASE Replace(h)
  <2> DEFINE row == ReplaceRow(h, u)
             q == [handler[h] EXCEPT !.pc = "token", !.row = Absent]
  <2>1. row \in User /\ u \in Users
    BY <1>0, <1>2 DEF Replace, ReplaceRow, User, Holds
  <2>2. q \in Handler /\ Holds(q)
    BY <1>0, <2>1, NewUserType DEF Handler, Holds
  <2>3. \/ handler' = [handler EXCEPT ![h] = q]
        \/ Finish(h)
    BY <1>0, <1>2 DEF Replace, HandlersOK, Handler
  <2> HIDE DEF q, row
  <2>4. HandlersOK'
    BY <1>0, <2>2, <2>3, SetHandler, FinishHandler
  <2>5. users' \in [Users -> User]
    BY <1>2, <2>1 DEF Replace, DirectoryTypeInv, TypeOK, row
  <2> QED
    BY <1>2, <2>4, <2>5
    DEF Replace, DirectoryTypeInv, TypeOK, HandlersOK, accountVars, mailVars, boundVars
<1>3. CASE CheckGrants(h)
  BY <1>0, <1>1, <1>3, GotoHandler DEF CheckGrants, Write
<1>4. CASE ListRoleUsers(h)
  <2> DEFINE q == [handler[h] EXCEPT !.pc = "find",
                                     !.others = superAdmins \ {handler[h].user}]
  <2>1. superAdmins \ {handler[h].user} \in SUBSET Users
    BY DEF DirectoryTypeInv, TypeOK
  <2>2. q \in Handler /\ Holds(q)
    BY <1>0, <1>4, <2>1 DEF Handler, Holds, ListRoleUsers
  <2>3. handler' = [handler EXCEPT ![h] = q]
    BY <1>0, <1>4 DEF ListRoleUsers, HandlersOK, Handler
  <2> QED BY <1>0, <1>1, <1>4, <2>2, <2>3, SetHandler DEF ListRoleUsers
<1>5. CASE ensureOtherActiveSuperAdministrator(h)
  <2>1. CASE Finish(h)
    BY <1>0, <1>1, <1>5, <2>1, FinishHandler DEF ensureOtherActiveSuperAdministrator
  <2>2. ASSUME NEW v \in handler[h].others,
               handler' = [handler EXCEPT
                   ![h].pc = IF users[v].status = "active" THEN Write(h) ELSE @,
                   ![h].others = IF users[v].status = "active" THEN {} ELSE @ \ {v}]
        PROVE  DirectoryTypeInv'
    <3> DEFINE pc == IF users[v].status = "active" THEN Write(h) ELSE handler[h].pc
               rest == IF users[v].status = "active" THEN {} ELSE handler[h].others \ {v}
               q == [handler[h] EXCEPT !.pc = pc, !.others = rest]
    <3>1. pc \in {"roles", "replace", "find"} /\ rest \in SUBSET Users
      BY <1>0, <1>5 DEF ensureOtherActiveSuperAdministrator, Write, Handler
    <3>2. handler' = [handler EXCEPT ![h] = q]
      BY <1>0, <2>2 DEF HandlersOK, Handler
    <3> HIDE DEF pc, rest
    <3>3. q \in Handler /\ Holds(q)
      BY <1>0, <1>5, <3>1 DEF Handler, Holds, ensureOtherActiveSuperAdministrator
    <3> QED
      BY <1>0, <1>1, <1>5, <3>2, <3>3, SetHandler DEF ensureOtherActiveSuperAdministrator
  <2> QED BY <1>5, <2>1, <2>2 DEF ensureOtherActiveSuperAdministrator
<1>6. CASE ReplaceUserRoles(h)
  <2>1. u \in Users
    BY <1>0, <1>6 DEF Holds, ReplaceUserRoles
  <2> QED
    BY <1>0, <1>6, <2>1, FinishHandler
    DEF ReplaceUserRoles, DirectoryTypeInv, TypeOK, HandlersOK, mailVars, boundVars
<1>7. CASE Issue(h)
  <2> DEFINE q == [handler[h] EXCEPT !.pc = "delete", !.email = users[u].email]
  <2>1. users[u].email \in Emails
    BY <1>0, <1>7 DEF Issue, Holds, DirectoryTypeInv, TypeOK, User, Address
  <2>2. q \in Handler /\ Holds(q)
    BY <1>0, <1>7, <2>1 DEF Issue, Handler, Holds, Address
  <2>3. handler' = [handler EXCEPT ![h] = q]
    BY <1>0, <1>7 DEF Issue, HandlersOK, Handler
  <2> QED BY <1>0, <1>1, <1>7, <2>2, <2>3, SetHandler DEF Issue
<1>8. CASE DeleteVerifications(h)
  <2>1. HandlersOK'
    BY <1>0, <1>8, GotoHandler DEF DeleteVerifications
  <2>2. tokens' \in Seq(Token) /\ Len(tokens') = Len(tokens)
    <3>1. \A t \in DOMAIN tokens : tokens[t] \in Token
      BY DEF DirectoryTypeInv, TypeOK
    <3>2. \A r \in Token : [r EXCEPT !.row = "deleted"] \in Token
      BY DEF Token
    <3>3. tokens' \in [DOMAIN tokens -> Token]
      BY <1>8, <3>1, <3>2 DEF DeleteVerifications
    <3> QED BY <3>3, MappedSeq DEF DirectoryTypeInv, TypeOK
  <2> QED
    BY <1>8, <2>1, <2>2
    DEF DeleteVerifications, DirectoryTypeInv, TypeOK, HandlersOK, accountVars, boundVars
<1>9. CASE SaveEmailVerification(h)
  <2>1. HandlersOK'
    BY <1>0, <1>9, FinishHandler DEF SaveEmailVerification
  <2>2. PICK mailed \in BOOLEAN :
          tokens' = Append(tokens, [user |-> handler[h].user, email |-> handler[h].email,
                                    row |-> "live", mailed |-> mailed])
    BY <1>9 DEF SaveEmailVerification
  <2>3. [user |-> handler[h].user, email |-> handler[h].email, row |-> "live",
         mailed |-> mailed] \in Token
    BY <1>0, <1>9 DEF Token, Holds, SaveEmailVerification
  <2>4. tokens' \in Seq(Token) /\ Len(tokens') <= MaxTokens
    BY <1>9, <2>2, <2>3, DirectoryAssumption
    DEF SaveEmailVerification, DirectoryTypeInv, TypeOK
  <2> QED
    BY <1>9, <2>1, <2>4
    DEF SaveEmailVerification, DirectoryTypeInv, TypeOK, HandlersOK, accountVars, boundVars
<1>10. CASE SetEmailVerified(h)
  <2>1. u \in Users /\ users[u] \in User
    BY <1>0, <1>10 DEF Holds, SetEmailVerified, DirectoryTypeInv, TypeOK
  <2>2. users[u].email \in Emails /\ [users[u] EXCEPT !.verified = TRUE] \in User
    BY <1>10, <2>1 DEF SetEmailVerified, User, Address
  <2>3. users' \in [Users -> User]
    BY <1>10, <2>1, <2>2 DEF SetEmailVerified, DirectoryTypeInv, TypeOK
  <2>4. confirmed' \subseteq Users \X Emails
    BY <1>10, <2>1, <2>2 DEF SetEmailVerified, DirectoryTypeInv, TypeOK
  <2> QED
    BY <1>0, <1>10, <2>3, <2>4, FinishHandler
    DEF SetEmailVerified, DirectoryTypeInv, TypeOK, HandlersOK, accountVars, boundVars
<1>11. CASE LockForDeletion(h)
  <2>1. HandlersOK'
    BY <1>0, <1>11, GotoHandler DEF LockForDeletion
  <2> QED
    BY <1>11, <2>1 DEF LockForDeletion, LockUserRow, DirectoryTypeInv, TypeOK, HandlersOK,
                       accountVars, mailVars, boundVars
<1>12. CASE CheckRemaining(h)
  BY <1>0, <1>1, <1>12, GotoHandler DEF CheckRemaining
<1>13. CASE DeleteExternalIdentity(h)
  BY <1>0, <1>13, FinishHandler
  DEF DeleteExternalIdentity, DirectoryTypeInv, TypeOK, HandlersOK, mailVars, boundVars
<1>14. CASE Abandon(h)
  BY <1>0, <1>14, FinishHandler
  DEF Abandon, DirectoryTypeInv, TypeOK, HandlersOK, accountVars, mailVars, boundVars
<1> QED
  BY <1>2, <1>3, <1>4, <1>5, <1>6, <1>7, <1>8, <1>9, <1>10, <1>11, <1>12, <1>13, <1>14
  DEF Continues

LEMMA ExternalType ==
    ASSUME DirectoryTypeInv, NEW x \in Identities, NEW e \in Address,
           loginLDAP(x, e) \/ loginOIDCCallback(x, e)
    PROVE  DirectoryTypeInv'
<1>1. PICK profile \in [email : Address, trusted : BOOLEAN, verified : BOOLEAN] :
         ResolveExternalIdentity(x, profile)
  BY DEF loginLDAP, loginOIDCCallback
<1>2. profile.email \in Address /\ profile.verified \in BOOLEAN
  OBVIOUS
<1>3. users \in [Users -> User] /\ confirmed \subseteq Users \X Emails
  BY DEF DirectoryTypeInv, TypeOK
<1>4. ASSUME NEW u \in Users, LoggedIn(u, profile)
      PROVE  users' \in [Users -> User] /\ confirmed' \subseteq Users \X Emails
  <2>1. \A b \in BOOLEAN : [users[u] EXCEPT !.verified = b] \in User
    BY <1>3 DEF User
  <2>2. users[u].verified \/ Vouched(u, profile) \in BOOLEAN
    BY <1>3 DEF Vouched, User
  <2>3. users' = [users EXCEPT ![u] =
            [users[u] EXCEPT !.verified = (users[u].verified \/ Vouched(u, profile))]]
    BY <1>4 DEF LoggedIn
  <2>4. users' \in [Users -> User]
    BY <1>3, <2>1, <2>2, <2>3
  <2>5. confirmed' \subseteq Users \X Emails
    BY <1>2, <1>3, <1>4 DEF LoggedIn, Vouched, Address
  <2> QED BY <2>4, <2>5
<1>5. /\ users' \in [Users -> User] /\ confirmed' \subseteq Users \X Emails
      /\ links' \in [Identities -> Users \union {NoUser}]
  <2>1. CASE KnownIdentity(x, profile)
    BY <1>4, <2>1 DEF KnownIdentity, DirectoryTypeInv, TypeOK
  <2>2. ASSUME NEW u \in Users, LinkIdentity(x, profile, u)
        PROVE  /\ users' \in [Users -> User] /\ confirmed' \subseteq Users \X Emails
               /\ links' \in [Identities -> Users \union {NoUser}]
    BY <1>4, <2>2 DEF LinkIdentity, DirectoryTypeInv, TypeOK
  <2>3. ASSUME NEW u \in Users, ProvisionUser(x, profile, u)
        PROVE  /\ users' \in [Users -> User] /\ confirmed' \subseteq Users \X Emails
               /\ links' \in [Identities -> Users \union {NoUser}]
    <3> DEFINE new == [exists |-> TRUE, email |-> profile.email, status |-> "active",
                       verified |-> profile.verified /\ profile.email # NoEmail]
    <3>1. new \in User
      BY <1>2 DEF User, Status
    <3>2. users' \in [Users -> User]
      BY <1>3, <2>3, <3>1 DEF ProvisionUser
    <3>3. confirmed' \subseteq Users \X Emails
      BY <1>2, <1>3, <2>3 DEF ProvisionUser, Address
    <3> QED BY <2>3, <3>2, <3>3 DEF ProvisionUser, DirectoryTypeInv, TypeOK
  <2> QED BY <1>1, <2>1, <2>2, <2>3 DEF ResolveExternalIdentity
<1>6. (load \in Workloads /\ requests \in 0..MaxRequests)'
  BY <1>1, DirectoryAssumption DEF ResolveExternalIdentity, DirectoryTypeInv, TypeOK, Arrives
<1> QED
  BY <1>1, <1>5, <1>6 DEF ResolveExternalIdentity, DirectoryTypeInv, TypeOK

LEMMA DirectoryTypeStep == DirectoryTypeInv /\ [Next]_vars => DirectoryTypeInv'
<1> SUFFICES ASSUME DirectoryTypeInv, [Next]_vars PROVE DirectoryTypeInv'
  OBVIOUS
<1>1. CASE UNCHANGED vars
  BY <1>1 DEF vars, accountVars, mailVars, boundVars, DirectoryTypeInv, TypeOK
<1>2. ASSUME NEW batch \in SUBSET Users, NEW mail \in [batch -> Address],
             importUsers(batch, mail)
      PROVE  DirectoryTypeInv'
  <2>1. \A u \in batch : NewUser(mail[u], "active") \in User
    BY NewUserType DEF Status
  <2>2. users' \in [Users -> User]
    BY <1>2, <2>1 DEF importUsers, DirectoryTypeInv, TypeOK
  <2> QED
    BY <1>2, <2>2, DirectoryAssumption
    DEF importUsers, DirectoryTypeInv, TypeOK, Arrives, mailVars
<1>3. ASSUME NEW u \in Users, SetPassword(u)
      PROVE  DirectoryTypeInv'
  BY <1>3, DirectoryAssumption
  DEF SetPassword, DirectoryTypeInv, TypeOK, Arrives, mailVars
<1>4. ASSUME NEW u \in Users, NEW t \in DOMAIN tokens, verifyAccountEmail(u, t)
      PROVE  DirectoryTypeInv'
  <2>1. tokens[t] \in Token /\ users[u] \in User
    BY DEF DirectoryTypeInv, TypeOK
  <2>2. /\ [tokens[t] EXCEPT !.row = "consumed"] \in Token
        /\ [users[u] EXCEPT !.verified = TRUE] \in User
        /\ tokens[t].email \in Emails
    BY <2>1 DEF Token, User
  <2>3. tokens' \in [DOMAIN tokens -> Token]
    BY <1>4, <2>2 DEF verifyAccountEmail, DirectoryTypeInv, TypeOK
  <2>4. tokens' \in Seq(Token) /\ Len(tokens') = Len(tokens)
    BY <2>3, MappedSeq DEF DirectoryTypeInv, TypeOK
  <2>5. users' \in [Users -> User]
    BY <1>4, <2>2 DEF verifyAccountEmail, DirectoryTypeInv, TypeOK
  <2>6. confirmed' \subseteq Users \X Emails
    BY <1>4, <2>2 DEF verifyAccountEmail, DirectoryTypeInv, TypeOK
  <2> QED
    BY <1>4, <2>4, <2>5, <2>6
    DEF verifyAccountEmail, DirectoryTypeInv, TypeOK, accountVars, boundVars
<1> QED
  BY <1>1, <1>2, <1>3, <1>4, StartType, ContinueType, ExternalType DEF Next

LEMMA DirectoryTypeInit == Init => DirectoryTypeInv
<1> SUFFICES ASSUME Init PROVE DirectoryTypeInv
  OBVIOUS
<1>1. PICK founders \in SUBSET Users :
         /\ \E mail \in [founders -> Address] :
               users = [u \in Users |->
                   IF u \in founders
                      THEN [exists |-> TRUE, email |-> mail[u],
                            verified |-> FALSE, status |-> "active"]
                      ELSE Absent]
         /\ links \in [Identities -> founders \union {NoUser}]
         /\ passwords \in SUBSET founders
         /\ superAdmins \in (SUBSET founders) \ {{}}
  BY DEF Init
<1>2. users \in [Users -> User]
  <2>1. PICK mail \in [founders -> Address] :
           users = [u \in Users |->
               IF u \in founders
                  THEN [exists |-> TRUE, email |-> mail[u],
                        verified |-> FALSE, status |-> "active"]
                  ELSE Absent]
    BY <1>1
  <2>2. \A u \in founders : [exists |-> TRUE, email |-> mail[u], verified |-> FALSE,
                             status |-> "active"] \in User
    BY DEF User, Status
  <2> QED BY <2>1, <2>2, NewUserType
<1>3. /\ links \in [Identities -> Users \union {NoUser}]
      /\ passwords \subseteq Users /\ superAdmins \subseteq Users
  BY <1>1
<1>4. /\ tokens \in Seq(Token) /\ Len(tokens) <= MaxTokens
      /\ load \in Workloads /\ requests \in 0..MaxRequests
      /\ rowLock \in [Users -> Handlers \union {NoHandler}] /\ confirmed = {}
  BY DirectoryAssumption DEF Init
<1>5. handler \in [Handlers -> Handler] /\ \A h \in Handlers : Holds(handler[h])
  BY IdleHandler DEF Init
<1> QED BY <1>2, <1>3, <1>4, <1>5 DEF DirectoryTypeInv, TypeOK

\* Every reachable state of the user directory (tables, row locks and requests in
\* progress) is well typed.
THEOREM DirectoryTypes == Spec => []TypeOK
<1>1. DirectoryTypeInv => TypeOK
  BY DEF DirectoryTypeInv
<1> QED BY <1>1, DirectoryTypeInit, DirectoryTypeStep, PTL DEF Spec
-----------------------------------------------------------------------------
(***************************************************************************)
(* A verified address was confirmed.  The invariant adds what a request    *)
(* that writes back the row it has read knows: the address in that row was *)
(* confirmed too, if it says so.                                           *)
(***************************************************************************)
RowsConfirmed ==
    \A h \in Handlers :
        handler[h].row.verified => <<handler[h].user, handler[h].row.email>> \in confirmed

ConfirmedInv == VerifiedWasConfirmed /\ RowsConfirmed

\* A handler whose row is not verified, or is the one it had, asks for nothing.
LEMMA QuietHandler ==
    ASSUME DirectoryTypeInv, RowsConfirmed, NEW h \in Handlers, NEW q \in Handler,
           handler' = [handler EXCEPT ![h] = q], confirmed \subseteq confirmed',
           \/ ~q.row.verified
           \/ q.row = handler[h].row /\ q.user = handler[h].user
           \/ <<q.user, q.row.email>> \in confirmed
    PROVE  RowsConfirmed'
BY DEF RowsConfirmed, DirectoryTypeInv, TypeOK

LEMMA FinishConfirmed ==
    ASSUME DirectoryTypeInv, RowsConfirmed, NEW h \in Handlers, Finish(h),
           confirmed \subseteq confirmed'
    PROVE  RowsConfirmed'
<1>1. Idle \in Handler /\ ~Idle.row.verified
  BY IdleHandler DEF Idle, Absent
<1> QED BY <1>1, QuietHandler DEF Finish

LEMMA GotoConfirmed ==
    ASSUME DirectoryTypeInv, RowsConfirmed, NEW h \in Handlers, NEW pc, Goto(h, pc),
           confirmed \subseteq confirmed'
    PROVE  RowsConfirmed'
BY DEF RowsConfirmed, Goto, DirectoryTypeInv, TypeOK, Handler

LEMMA StartConfirmed ==
    ASSUME DirectoryTypeInv, ConfirmedInv, NEW h \in Handlers, NEW u \in Users, Starts(h, u)
    PROVE  ConfirmedInv'
<1>0. users \in [Users -> User] /\ handler \in [Handlers -> Handler]
  BY DEF DirectoryTypeInv, TypeOK
<1>1. ASSUME NEW q, ~q.row.verified, handler' = [handler EXCEPT ![h] = q],
             UNCHANGED confirmed
      PROVE  RowsConfirmed'
  BY <1>0, <1>1 DEF RowsConfirmed, ConfirmedInv
<1>2. ~Idle.row.verified
  BY DEF Idle, Absent
<1>3. ASSUME NEW kind, NEW e, NEW status, Created(h, kind, u, NewUser(e, status))
      PROVE  ConfirmedInv'
  <2>1. VerifiedWasConfirmed'
    BY <1>0, <1>3 DEF Created, NewUser, ConfirmedInv, VerifiedWasConfirmed, mailVars
  <2>2. RowsConfirmed'
    BY <1>1, <1>2, <1>3 DEF Created, Idle, mailVars
  <2> QED BY <2>1, <2>2 DEF ConfirmedInv
<1>4. ASSUME NEW kind, NEW pc, NEW e, NEW status, Read(h, kind, u, pc, e, status)
      PROVE  ConfirmedInv'
  <2> DEFINE row == ReplaceUser(users[u], e, status)
             q == [Idle EXCEPT !.pc = pc, !.kind = kind, !.user = u, !.row = row,
                               !.announce = (e # NoEmail /\ e # users[u].email)]
  <2>1. row.verified => users[u].verified /\ row.email = users[u].email
    BY <1>0 DEF ReplaceUser, User
  <2>2. row.verified => <<u, row.email>> \in confirmed
    BY <2>1 DEF ConfirmedInv, VerifiedWasConfirmed
  <2>3. handler' = [handler EXCEPT ![h] = q]
    BY <1>4 DEF Read
  <2>4. q.row = row /\ q.user = u
    BY DEF Idle
  <2> HIDE DEF q, row
  <2>5. RowsConfirmed'
    BY <1>0, <1>4, <2>2, <2>3, <2>4 DEF RowsConfirmed, ConfirmedInv, Read, mailVars
  <2> QED BY <1>4, <2>5 DEF ConfirmedInv, VerifiedWasConfirmed, Read, mailVars
<1>5. ASSUME NEW q, ~q.row.verified, handler' = [handler EXCEPT ![h] = q],
             UNCHANGED <<users, mailVars>>
      PROVE  ConfirmedInv'
  BY <1>1, <1>5 DEF ConfirmedInv, VerifiedWasConfirmed, mailVars
<1>6. ASSUME NEW e, register(h, u, e) \/ changeAccountEmail(h, u, e)
      PROVE  ConfirmedInv'
  BY <1>3, <1>4, <1>6 DEF register, changeAccountEmail
<1>7. ASSUME NEW e, NEW status, createUser(h, u, e, status) \/ replaceUser(h, u, e, status)
      PROVE  ConfirmedInv'
  BY <1>3, <1>4, <1>7 DEF createUser, replaceUser
<1>8. ASSUME NEW super, replaceUserAdministratorRoles(h, u, super)
      PROVE  ConfirmedInv'
  BY <1>2, <1>5, <1>8 DEF replaceUserAdministratorRoles, Idle
<1>9. CASE issueAccountEmailVerification(h, u) \/ verifyAdminUserEmail(h, u)
  BY <1>2, <1>5, <1>9 DEF issueAccountEmailVerification, verifyAdminUserEmail, Idle
<1>10. ASSUME NEW x, deleteUserExternalIdentity(h, u, x)
       PROVE  ConfirmedInv'
  BY <1>2, <1>5, <1>10 DEF deleteUserExternalIdentity, Idle
<1> QED BY <1>6, <1>7, <1>8, <1>9, <1>10 DEF Starts

LEMMA ContinueConfirmed ==
    ASSUME DirectoryTypeInv, ConfirmedInv, NEW h \in Handlers, Continues(h)
    PROVE  ConfirmedInv'
<1> DEFINE u == handler[h].user
<1>0. /\ users \in [Users -> User] /\ handler \in [Handlers -> Handler]
      /\ handler[h] \in Handler /\ RowsConfirmed /\ VerifiedWasConfirmed
  BY DEF DirectoryTypeInv, TypeOK, ConfirmedInv
<1>1. ASSUME RowsConfirmed', UNCHANGED users, confirmed \subseteq confirmed'
      PROVE  ConfirmedInv'
  BY <1>1 DEF ConfirmedInv, VerifiedWasConfirmed
<1>2. CASE Replace(h)
  <2> DEFINE row == ReplaceRow(h, u)
  <2>1. row.verified => handler[h].row.verified /\ row.email = handler[h].row.email
    BY <1>0 DEF ReplaceRow, Handler, User
  <2>2. VerifiedWasConfirmed'
    BY <1>0, <1>2, <2>1 DEF Replace, VerifiedWasConfirmed, RowsConfirmed, mailVars
  <2>3. RowsConfirmed'
    <3>1. CASE Finish(h)
      BY <1>0, <1>2, <3>1, FinishConfirmed DEF Replace, mailVars
    <3>2. CASE handler' = [handler EXCEPT ![h].pc = "token", ![h].row = Absent]
      BY <1>0, <1>2, <3>2 DEF Replace, RowsConfirmed, Absent, Handler, mailVars
    <3> QED BY <1>2, <3>1, <3>2 DEF Replace
  <2> QED BY <2>2, <2>3 DEF ConfirmedInv
<1>3. CASE CheckGrants(h)
  BY <1>0, <1>1, <1>3, GotoConfirmed DEF CheckGrants, mailVars
<1>4. CASE ListRoleUsers(h)
  BY <1>0, <1>1, <1>4 DEF ListRoleUsers, mailVars, RowsConfirmed, Handler
<1>5. CASE ensureOtherActiveSuperAdministrator(h)
  <2>1. CASE Finish(h)
    BY <1>0, <1>1, <1>5, <2>1, FinishConfirmed
    DEF ensureOtherActiveSuperAdministrator, mailVars
  <2>2. ASSUME NEW v,
               handler' = [handler EXCEPT
                   ![h].pc = IF users[v].status = "active" THEN Write(h) ELSE @,
                   ![h].others = IF users[v].status = "active" THEN {} ELSE @ \ {v}]
        PROVE  RowsConfirmed'
    BY <1>0, <1>5, <2>2
    DEF ensureOtherActiveSuperAdministrator, RowsConfirmed, Handler, mailVars
  <2> QED
    BY <1>1, <1>5, <2>1, <2>2 DEF ensureOtherActiveSuperAdministrator, mailVars
<1>6. CASE ReplaceUserRoles(h)
  BY <1>0, <1>1, <1>6, FinishConfirmed DEF ReplaceUserRoles, mailVars
<1>7. CASE Issue(h)
  BY <1>0, <1>1, <1>7 DEF Issue, mailVars, RowsConfirmed, Handler
<1>8. CASE DeleteVerifications(h)
  BY <1>0, <1>1, <1>8, GotoConfirmed DEF DeleteVerifications
<1>9. CASE SaveEmailVerification(h)
  BY <1>0, <1>1, <1>9, FinishConfirmed DEF SaveEmailVerification
<1>10. CASE SetEmailVerified(h)
  <2>1. VerifiedWasConfirmed'
    BY <1>0, <1>10 DEF SetEmailVerified, VerifiedWasConfirmed, User
  <2>2. RowsConfirmed'
    BY <1>0, <1>10, FinishConfirmed DEF SetEmailVerified
  <2> QED BY <2>1, <2>2 DEF ConfirmedInv
<1>11. CASE LockForDeletion(h)
  BY <1>0, <1>1, <1>11, GotoConfirmed DEF LockForDeletion, mailVars
<1>12. CASE CheckRemaining(h)
  BY <1>0, <1>1, <1>12, GotoConfirmed DEF CheckRemaining, mailVars
<1>13. CASE DeleteExternalIdentity(h)
  BY <1>0, <1>1, <1>13, FinishConfirmed DEF DeleteExternalIdentity, mailVars
<1>14. CASE Abandon(h)
  BY <1>0, <1>1, <1>14, FinishConfirmed DEF Abandon, mailVars
<1> QED
  BY <1>2, <1>3, <1>4, <1>5, <1>6, <1>7, <1>8, <1>9, <1>10, <1>11, <1>12, <1>13, <1>14
  DEF Continues

LEMMA ExternalConfirmed ==
    ASSUME DirectoryTypeInv, ConfirmedInv, NEW x \in Identities, NEW profile,
           ResolveExternalIdentity(x, profile)
    PROVE  ConfirmedInv'
<1>0. users \in [Users -> User] /\ links[x] \in Users \union {NoUser}
  BY DEF DirectoryTypeInv, TypeOK
<1>1. ASSUME VerifiedWasConfirmed', confirmed \subseteq confirmed'
      PROVE  ConfirmedInv'
  BY <1>1 DEF ConfirmedInv, RowsConfirmed, ResolveExternalIdentity
<1>2. ASSUME NEW u \in Users, LoggedIn(u, profile)
      PROVE  ConfirmedInv'
  BY <1>0, <1>1, <1>2 DEF LoggedIn, Vouched, ConfirmedInv, VerifiedWasConfirmed, User
<1>3. ASSUME NEW u \in Users, ProvisionUser(x, profile, u)
      PROVE  ConfirmedInv'
  BY <1>0, <1>1, <1>3 DEF ProvisionUser, ConfirmedInv, VerifiedWasConfirmed, User
<1> QED
  BY <1>0, <1>2, <1>3 DEF ResolveExternalIdentity, KnownIdentity, LinkIdentity

LEMMA ConfirmedStep == DirectoryTypeInv /\ ConfirmedInv /\ [Next]_vars => ConfirmedInv'
<1> SUFFICES ASSUME DirectoryTypeInv, ConfirmedInv, [Next]_vars PROVE ConfirmedInv'
  OBVIOUS
<1>0. users \in [Users -> User]
  BY DEF DirectoryTypeInv, TypeOK
<1>1. CASE UNCHANGED vars
  BY <1>1 DEF vars, mailVars, ConfirmedInv, VerifiedWasConfirmed, RowsConfirmed
<1>2. ASSUME NEW batch \in SUBSET Users, NEW mail, importUsers(batch, mail)
      PROVE  ConfirmedInv'
  BY <1>0, <1>2
  DEF importUsers, NewUser, mailVars, ConfirmedInv, VerifiedWasConfirmed, RowsConfirmed
<1>3. ASSUME NEW u \in Users, SetPassword(u)
      PROVE  ConfirmedInv'
  BY <1>3 DEF SetPassword, mailVars, ConfirmedInv, VerifiedWasConfirmed, RowsConfirmed
<1>4. ASSUME NEW u \in Users, NEW t \in DOMAIN tokens, verifyAccountEmail(u, t)
      PROVE  ConfirmedInv'
  BY <1>0, <1>4
  DEF verifyAccountEmail, VerifyEmail, ConfirmedInv, VerifiedWasConfirmed, RowsConfirmed, User
<1> QED
  BY <1>1, <1>2, <1>3, <1>4, StartConfirmed, ContinueConfirmed, ExternalConfirmed
  DEF Next, loginLDAP, loginOIDCCallback

\* An account whose e-mail address counts as verified had this very address
\* confirmed by a link bound to it, by an administrator or by a provider, whatever
\* changes of the address, links and marks overlap.
THEOREM AddressesConfirmed == Spec => []VerifiedWasConfirmed
<1>1. Init => ConfirmedInv
  BY DEF Init, ConfirmedInv, VerifiedWasConfirmed, RowsConfirmed, Idle, Absent
<1>2. ConfirmedInv => VerifiedWasConfirmed
  BY DEF ConfirmedInv
<1> QED
  BY <1>1, <1>2, DirectoryTypeInit, DirectoryTypeStep, ConfirmedStep, PTL DEF Spec
-----------------------------------------------------------------------------
(***************************************************************************)
(* The last way to log in.  A deletion that has come to its DELETE holds   *)
(* the row of the account, and what it counted is still there: nobody else *)
(* deletes an identity of that account meanwhile, and passwords stay.      *)
(***************************************************************************)
Spare(u) ==
    \/ u \in passwords
    \/ \E x, y \in Identities : x # y /\ links[x] = u /\ links[y] = u

Deleting(q, h) ==
    /\ q.pc \in {"check", "remove"} => rowLock[q.user] = h
    /\ q.pc = "remove" => Spare(q.user)

DeletionInv == \A h \in Handlers : Deleting(handler[h], h)

\* Identities and passwords are only added, and locks are left as they are.
MethodsGrow ==
    /\ passwords \subseteq passwords' /\ UNCHANGED rowLock
    /\ \A x \in Identities : links[x] # NoUser => links'[x] = links[x]

LEMMA SpareGrows ==
    ASSUME DirectoryTypeInv, MethodsGrow, NEW u \in Users
    PROVE  /\ Spare(u) => Spare(u)'
           /\ HasMethod(u) => HasMethod(u)'
BY DirectoryAssumption
DEF MethodsGrow, Spare, HasMethod, Identified, DirectoryTypeInv, TypeOK

LEMMA GrowingKeeps ==
    ASSUME DirectoryTypeInv, DeletionInv, MethodsGrow,
           \A h \in Handlers : \/ handler'[h] = handler[h]
                               \/ handler'[h].pc \notin {"check", "remove"}
    PROVE  DeletionInv' /\ \A u \in Users : HasMethod(u) => HasMethod(u)'
<1>1. ASSUME NEW h \in Handlers, handler'[h] = handler[h] PROVE Deleting(handler[h], h)'
  <2>1. handler[h].pc = "remove" => handler[h].user \in Users
    BY DEF DirectoryTypeInv, Holds
  <2>2. Deleting(handler[h], h)
    BY DEF DeletionInv
  <2> QED BY <1>1, <2>1, <2>2, SpareGrows DEF Deleting, MethodsGrow
<1>2. DeletionInv'
  BY <1>1 DEF DeletionInv, Deleting
<1> QED BY <1>2, SpareGrows

\* Two of a finite set.
LEMMA TwoIdentities ==
    ASSUME NEW u, Cardinality(Identified(u)) > 1
    PROVE  \E x, y \in Identities : x # y /\ links[x] = u /\ links[y] = u
<1>1. IsFiniteSet(Identified(u))
  BY DirectoryAssumption, FS_Subset DEF Identified
<1>2. Identified(u) # {}
  BY FS_EmptySet
<1>3. PICK x \in Identified(u) : TRUE
  BY <1>2
<1>4. Identified(u) # {x}
  BY FS_Singleton
<1>5. PICK y \in Identified(u) : y # x
  BY <1>3, <1>4
<1> QED BY <1>3, <1>5 DEF Identified

LEMMA DeletionStep ==
    DirectoryTypeInv /\ DeletionInv /\ [Next]_vars =>
        DeletionInv' /\ \A u \in Users : HasMethod(u) => HasMethod(u)'
<1> SUFFICES ASSUME DirectoryTypeInv, DeletionInv, [Next]_vars
             PROVE  DeletionInv' /\ \A u \in Users : HasMethod(u) => HasMethod(u)'
  OBVIOUS
<1>0. /\ handler \in [Handlers -> Handler] /\ links \in [Identities -> Users \union {NoUser}]
      /\ rowLock \in [Users -> Handlers \union {NoHandler}]
      /\ \A h \in Handlers : handler[h] \in Handler
  BY DEF DirectoryTypeInv, TypeOK
<1>1. CASE UNCHANGED vars
  BY <1>1, GrowingKeeps DEF vars, accountVars, MethodsGrow
<1>2. ASSUME NEW batch, NEW mail, importUsers(batch, mail)
      PROVE  DeletionInv' /\ \A u \in Users : HasMethod(u) => HasMethod(u)'
  BY <1>2, GrowingKeeps DEF importUsers, MethodsGrow
<1>3. ASSUME NEW u \in Users, SetPassword(u)
      PROVE  DeletionInv' /\ \A v \in Users : HasMethod(v) => HasMethod(v)'
  BY <1>3, GrowingKeeps DEF SetPassword, MethodsGrow
<1>4. ASSUME NEW u \in Users, NEW t, verifyAccountEmail(u, t)
      PROVE  DeletionInv' /\ \A v \in Users : HasMethod(v) => HasMethod(v)'
  BY <1>4, GrowingKeeps DEF verifyAccountEmail, MethodsGrow, accountVars
<1>5. ASSUME NEW x \in Identities, NEW profile, ResolveExternalIdentity(x, profile)
      PROVE  DeletionInv' /\ \A u \in Users : HasMethod(u) => HasMethod(u)'
  <2>1. \A y \in Identities : links[y] # NoUser => links'[y] = links[y]
    BY <1>0, <1>5
    DEF ResolveExternalIdentity, KnownIdentity, LinkIdentity, ProvisionUser
  <2> QED BY <1>5, <2>1, GrowingKeeps DEF ResolveExternalIdentity, MethodsGrow
<1>6. ASSUME NEW h \in Handlers, NEW u \in Users, Starts(h, u)
      PROVE  DeletionInv' /\ \A v \in Users : HasMethod(v) => HasMethod(v)'
  <2>1. MethodsGrow
    BY <1>6
    DEF Starts, MethodsGrow, register, createUser, Created, changeAccountEmail, replaceUser,
        Read, replaceUserAdministratorRoles, issueAccountEmailVerification,
        verifyAdminUserEmail, deleteUserExternalIdentity, accountVars
  <2>2. ASSUME NEW kind, NEW user, Created(h, kind, u, user)
        PROVE  /\ handler'[h].pc \notin {"check", "remove"}
               /\ \A g \in Handlers : g # h => handler'[g] = handler[g]
    BY <1>0, <2>2 DEF Created, Idle
  <2>3. ASSUME NEW kind, NEW pc \in {"grants", "replace", "token"}, NEW e, NEW status,
               Read(h, kind, u, pc, e, status)
        PROVE  /\ handler'[h].pc \notin {"check", "remove"}
               /\ \A g \in Handlers : g # h => handler'[g] = handler[g]
    BY <1>0, <2>3 DEF Read, Idle
  <2>4. /\ handler'[h].pc \notin {"check", "remove"}
        /\ \A g \in Handlers : g # h => handler'[g] = handler[g]
    <3>1. ASSUME NEW e, register(h, u, e) \/ changeAccountEmail(h, u, e)
          PROVE  /\ handler'[h].pc \notin {"check", "remove"}
                 /\ \A g \in Handlers : g # h => handler'[g] = handler[g]
      BY <2>2, <2>3, <3>1 DEF register, changeAccountEmail
    <3>2. ASSUME NEW e, NEW status,
                 createUser(h, u, e, status) \/ replaceUser(h, u, e, status)
          PROVE  /\ handler'[h].pc \notin {"check", "remove"}
                 /\ \A g \in Handlers : g # h => handler'[g] = handler[g]
      BY <2>2, <2>3, <3>2 DEF createUser, replaceUser
    <3>3. ASSUME NEW super, replaceUserAdministratorRoles(h, u, super)
          PROVE  /\ handler'[h].pc \notin {"check", "remove"}
                 /\ \A g \in Handlers : g # h => handler'[g] = handler[g]
      BY <1>0, <3>3 DEF replaceUserAdministratorRoles, Idle
    <3>4. CASE issueAccountEmailVerification(h, u)
      BY <1>0, <3>4 DEF issueAccountEmailVerification, Idle
    <3>6. CASE verifyAdminUserEmail(h, u)
      BY <1>0, <3>6 DEF verifyAdminUserEmail, Idle
    <3>5. ASSUME NEW x, deleteUserExternalIdentity(h, u, x)
          PROVE  /\ handler'[h].pc \notin {"check", "remove"}
                 /\ \A g \in Handlers : g # h => handler'[g] = handler[g]
      BY <1>0, <3>5 DEF deleteUserExternalIdentity, Idle
    <3> QED BY <1>6, <3>1, <3>2, <3>3, <3>4, <3>5, <3>6 DEF Starts
  <2> QED BY <2>1, <2>4, GrowingKeeps
<1>7. ASSUME NEW h \in Handlers, Continues(h)
      PROVE  DeletionInv' /\ \A u \in Users : HasMethod(u) => HasMethod(u)'
  <2> DEFINE u == handler[h].user
  <2>0. handler[h].pc # "idle" => u \in Users
    BY DEF DirectoryTypeInv, Holds
  <2>1. ASSUME MethodsGrow, \A g \in Handlers : g # h => handler'[g] = handler[g],
               handler'[h].pc \notin {"check", "remove"}
        PROVE  DeletionInv' /\ \A v \in Users : HasMethod(v) => HasMethod(v)'
    BY <2>1, GrowingKeeps
  <2>2. ASSUME Finish(h)
        PROVE  /\ \A g \in Handlers : g # h => handler'[g] = handler[g]
               /\ handler'[h].pc \notin {"check", "remove"}
    BY <1>0, <2>2 DEF Finish, Idle
  <2>3. CASE Replace(h)
    BY <1>0, <2>1, <2>2, <2>3 DEF Replace, MethodsGrow, accountVars, Handler
  <2>4. CASE CheckGrants(h) \/ ListRoleUsers(h) \/ Issue(h)
    BY <1>0, <2>1, <2>4
    DEF CheckGrants, ListRoleUsers, Issue, Goto, Write, MethodsGrow, accountVars, Handler
  <2>5. CASE ensureOtherActiveSuperAdministrator(h)
    <3>1. ASSUME NEW v,
                 handler' = [handler EXCEPT
                   ![h].pc = IF users[v].status = "active" THEN Write(h) ELSE @,
                   ![h].others = IF users[v].status = "active" THEN {} ELSE @ \ {v}]
          PROVE  /\ \A g \in Handlers : g # h => handler'[g] = handler[g]
                 /\ handler'[h].pc \notin {"check", "remove"}
      BY <1>0, <2>5, <3>1 DEF ensureOtherActiveSuperAdministrator, Write, Handler
    <3> QED
      BY <2>1, <2>2, <2>5, <3>1
      DEF ensureOtherActiveSuperAdministrator, MethodsGrow, accountVars
  <2>6. CASE DeleteVerifications(h)
    BY <1>0, <2>1, <2>6 DEF DeleteVerifications, Goto, MethodsGrow, accountVars, Handler
  <2>7. CASE ReplaceUserRoles(h) \/ SaveEmailVerification(h) \/ SetEmailVerified(h)
    BY <2>1, <2>2, <2>7
    DEF ReplaceUserRoles, SaveEmailVerification, SetEmailVerified, MethodsGrow, accountVars
  <2>8. CASE LockForDeletion(h)
    <3>1. UNCHANGED <<passwords, links>> /\ rowLock[u] = NoHandler
      BY <2>8 DEF LockForDeletion, LockUserRow, accountVars
    <3>2. /\ handler'[h].user = u /\ handler'[h].pc = "check" /\ rowLock'[u] = h
          /\ \A g \in Handlers : g # h => handler'[g] = handler[g]
          /\ \A v \in Users : v # u => rowLock'[v] = rowLock[v]
      BY <1>0, <2>0, <2>8 DEF LockForDeletion, LockUserRow, Goto, Handler
    <3>3. ASSUME NEW g \in Handlers, g # h PROVE Deleting(handler[g], g)'
      <4>1. Deleting(handler[g], g) /\ (handler[g].pc # "idle" => handler[g].user \in Users)
        BY DEF DeletionInv, DirectoryTypeInv, Holds
      <4>2. g # NoHandler
        BY DirectoryAssumption
      <4>3. handler[g].pc \in {"check", "remove"} => handler[g].user # u
        BY <3>1, <4>1, <4>2 DEF Deleting
      <4> QED BY <3>1, <3>2, <3>3, <4>1, <4>3 DEF Deleting, Spare
    <3>4. DeletionInv'
      BY <3>2, <3>3 DEF DeletionInv, Deleting
    <3> QED BY <3>1, <3>4 DEF HasMethod, Identified
  <2>9. CASE CheckRemaining(h)
    <3>1. Spare(u)
      BY <2>9, TwoIdentities DEF CheckRemaining, Spare
    <3>2. UNCHANGED <<passwords, links, rowLock>>
      BY <2>9 DEF CheckRemaining, accountVars
    <3>3. /\ handler'[h].user = u /\ handler'[h].pc = "remove"
          /\ \A g \in Handlers : g # h => handler'[g] = handler[g]
      BY <1>0, <2>9 DEF CheckRemaining, Goto, Handler
    <3>4. rowLock[u] = h
      BY <2>9 DEF CheckRemaining, DeletionInv, Deleting
    <3>5. DeletionInv'
      BY <3>1, <3>2, <3>3, <3>4 DEF DeletionInv, Deleting, Spare
    <3> QED BY <3>2, <3>5 DEF HasMethod, Identified
  <2>10. CASE DeleteExternalIdentity(h)
    <3> DEFINE x == handler[h].external
    <3>0. x \in Identities /\ u \in Users /\ links[x] = u /\ u # NoUser
      BY <2>0, <2>10, DirectoryAssumption DEF DeleteExternalIdentity, DirectoryTypeInv, Holds
    <3>1. rowLock[u] = h /\ Spare(u)
      BY <2>10 DEF DeleteExternalIdentity, DeletionInv, Deleting
    <3>2. /\ links'[x] = NoUser /\ UNCHANGED passwords
          /\ \A y \in Identities : y # x => links'[y] = links[y]
          /\ \A v \in Users : v # u => rowLock'[v] = rowLock[v]
          /\ \A g \in Handlers : g # h => handler'[g] = handler[g]
          /\ handler'[h].pc = "idle"
      BY <1>0, <2>10, <3>0 DEF DeleteExternalIdentity, Finish, Idle
    <3>3. ASSUME NEW g \in Handlers, g # h PROVE Deleting(handler[g], g)'
      <4>1. Deleting(handler[g], g) /\ (handler[g].pc # "idle" => handler[g].user \in Users)
        BY DEF DeletionInv, DirectoryTypeInv, Holds
      <4>2. handler[g].pc \in {"check", "remove"} => handler[g].user # u
        BY <3>1, <3>3, <4>1 DEF Deleting
      <4>3. \A v \in Users : v # u /\ Spare(v) => Spare(v)'
        BY <3>0, <3>2 DEF Spare
      <4> QED BY <3>2, <3>3, <4>1, <4>2, <4>3 DEF Deleting
    <3>4. DeletionInv'
      BY <3>2, <3>3 DEF DeletionInv, Deleting
    <3>5. ASSUME NEW v \in Users, HasMethod(v) PROVE HasMethod(v)'
      <4>1. CASE v = u
        BY <3>0, <3>1, <3>2, <4>1 DEF Spare, HasMethod, Identified
      <4>2. CASE v # u
        BY <3>0, <3>2, <3>5, <4>2 DEF HasMethod, Identified
      <4> QED BY <4>1, <4>2
    <3> QED BY <3>4, <3>5
  <2>11. CASE Abandon(h)
    <3>1. UNCHANGED <<passwords, links>>
      BY <2>11 DEF Abandon, accountVars
    <3>2. /\ \A g \in Handlers : g # h => handler'[g] = handler[g]
          /\ handler'[h].pc = "idle"
          /\ \A v \in Users : rowLock[v] # h => rowLock'[v] = rowLock[v]
      BY <1>0, <2>11 DEF Abandon, Finish, Idle
    <3>3. ASSUME NEW g \in Handlers, g # h PROVE Deleting(handler[g], g)'
      <4>1. Deleting(handler[g], g) /\ (handler[g].pc # "idle" => handler[g].user \in Users)
        BY DEF DeletionInv, DirectoryTypeInv, Holds
      <4> QED BY <3>1, <3>2, <3>3, <4>1 DEF Deleting, Spare
    <3>4. DeletionInv'
      BY <3>2, <3>3 DEF DeletionInv, Deleting
    <3> QED BY <3>1, <3>4 DEF HasMethod, Identified
  <2> QED
    BY <1>7, <2>3, <2>4, <2>5, <2>6, <2>7, <2>8, <2>9, <2>10, <2>11 DEF Continues
<1> QED
  BY <1>1, <1>2, <1>3, <1>4, <1>5, <1>6, <1>7 DEF Next, loginLDAP, loginOIDCCallback

\* Deleting external identities, even several of one account at the same time and
\* whatever is linked, created or set meanwhile, never takes away the last way to
\* log in (the row lock of DeleteExternalIdentity).
THEOREM MethodKept == Spec => LastMethodKept
<1>1. Init => DeletionInv
  BY DEF Init, DeletionInv, Deleting, Idle
<1>2. DirectoryTypeInv /\ DeletionInv /\ [Next]_vars =>
        [\A u \in Users : HasMethod(u) => HasMethod(u)']_vars
  BY DeletionStep
<1>3. DirectoryTypeInv /\ DeletionInv /\ [Next]_vars => DeletionInv'
  BY DeletionStep
<1> QED
  BY <1>1, <1>2, <1>3, DirectoryTypeInit, DirectoryTypeStep, PTL DEF Spec, LastMethodKept

\* The last super administrator cannot be removed, although the handlers that check
\* it run concurrently and what they have read may be stale: the transaction of
\* ReplaceUserRoles counts again.
THEOREM SuperAdminKept == Spec => []SuperAdminRemains
<1>1. Init => SuperAdminRemains
  BY DEF Init, SuperAdminRemains
<1>2. SuperAdminRemains /\ [Next]_vars => SuperAdminRemains'
  <2> SUFFICES ASSUME SuperAdminRemains, [Next]_vars PROVE SuperAdminRemains'
    OBVIOUS
  <2>1. ASSUME NEW h \in Handlers, ReplaceUserRoles(h)
        PROVE  SuperAdminRemains'
    BY <2>1 DEF SuperAdminRemains, ReplaceUserRoles, KeepsSuperAdmin
  <2>2. ASSUME UNCHANGED superAdmins PROVE SuperAdminRemains'
    BY <2>2 DEF SuperAdminRemains
  <2>3. ASSUME NEW h \in Handlers, Continues(h) PROVE SuperAdminRemains'
    BY <2>1, <2>2, <2>3
    DEF Continues, Replace, CheckGrants, ListRoleUsers, ensureOtherActiveSuperAdministrator,
        Issue, DeleteVerifications, SaveEmailVerification, SetEmailVerified, LockForDeletion,
        CheckRemaining, DeleteExternalIdentity, Abandon, accountVars
  <2>4. ASSUME NEW h \in Handlers, NEW u \in Users, Starts(h, u) PROVE SuperAdminRemains'
    BY <2>2, <2>4
    DEF Starts, register, createUser, Created, changeAccountEmail, replaceUser, Read,
        replaceUserAdministratorRoles, issueAccountEmailVerification, verifyAdminUserEmail,
        deleteUserExternalIdentity, accountVars
  <2>5. CASE UNCHANGED vars
    BY <2>2, <2>5 DEF vars, accountVars
  <2> QED
    BY <2>2, <2>3, <2>4, <2>5
    DEF Next, importUsers, SetPassword, verifyAccountEmail, loginLDAP, loginOIDCCallback,
        ResolveExternalIdentity, accountVars
<1> QED BY <1>1, <1>2, PTL DEF Spec
=============================================================================
