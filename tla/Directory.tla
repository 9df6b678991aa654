----------------------------- MODULE Directory -----------------------------
(***************************************************************************)
(* The user directory: creating and changing accounts, verification of     *)
(* e-mail addresses, external identities and administrator roles.  The     *)
(* store is the PostgreSQL one at READ COMMITTED.  A handler reads a row,  *)
(* decides, and writes in a later statement; other requests run in between *)
(* and the row it writes back may be stale.                                *)
(***************************************************************************)
EXTENDS Integers, Sequences, FiniteSets

CONSTANTS
    Users, Emails,
    Identities,    \* a provider and the subject it knows a person by
    Handlers,      \* the requests the server works on at a time
    Workloads,     \* bound: the kinds of requests that occur together
    MaxRequests, MaxTokens,   \* bounds
    NoUser, NoEmail, NoHandler

Kinds == {"register", "create", "import", "replace", "change", "resend",
          "mark", "external", "unlink", "password", "roles"}

ASSUME DirectoryAssumption ==
    /\ NoUser \notin Users /\ NoEmail \notin Emails /\ NoHandler \notin Handlers
    /\ IsFiniteSet(Identities)
    /\ Workloads \subseteq SUBSET Kinds
    /\ MaxRequests \in Nat /\ MaxTokens \in Nat

VARIABLES
    users,        \* the rows of users
    passwords,    \* the users with a row in user_password_credentials
    links,        \* external_identities: the user of each identity
    superAdmins,  \* admin_role_grants with role super_admin
    tokens,       \* email_verification_tokens, in order of creation
    rowLock,      \* SELECT ... FOR UPDATE on a row of users
    handler,
    confirmed,    \* history: the addresses of users that somebody vouched for
    load,         \* the workload of this behaviour
    requests      \* how many requests there were

mailVars == <<tokens, confirmed>>
accountVars == <<passwords, links, superAdmins>>
boundVars == <<load, requests>>
vars == <<users, accountVars, mailVars, rowLock, handler, boundVars>>

Address == Emails \union {NoEmail}
Status == {"active", "disabled"}      \* locked is treated as disabled is

User == [exists : BOOLEAN, email : Address, verified : BOOLEAN, status : Status]

Absent ==
    [exists |-> FALSE, email |-> NoEmail, verified |-> FALSE,
     status |-> "disabled"]

Token == [user : Users, email : Emails, row : {"live", "consumed", "deleted"},
          mailed : BOOLEAN]           \* the link is in somebody's mailbox

Handler ==
    [pc : {"idle", "grants", "list", "find", "replace", "roles", "mark",
           "token", "delete", "insert", "lock", "check", "remove"},
     kind : Kinds \union {"none"},
     user : Users \union {NoUser},
     row : User,                      \* the row to be written
     email : Address,                 \* the address a token is bound to
     announce : BOOLEAN,              \* the address changes: send a link
     others : SUBSET Users,           \* super administrators still to look at
     super : BOOLEAN,                 \* the role to be written
     external : Identities \union {NoUser}]

Idle ==
    [pc |-> "idle", kind |-> "none", user |-> NoUser, row |-> Absent,
     email |-> NoEmail, announce |-> FALSE, others |-> {}, super |-> FALSE,
     external |-> NoUser]

TypeOK ==
    /\ users \in [Users -> User]
    /\ passwords \subseteq Users
    /\ links \in [Identities -> Users \union {NoUser}]
    /\ superAdmins \subseteq Users
    /\ tokens \in Seq(Token) /\ Len(tokens) <= MaxTokens
    /\ rowLock \in [Users -> Handlers \union {NoHandler}]
    /\ handler \in [Handlers -> Handler]
    /\ confirmed \subseteq Users \X Emails
    /\ load \in Workloads /\ requests \in 0..MaxRequests

Identified(u) == {x \in Identities : links[x] = u}

\* The ways to log in that DeleteExternalIdentity counts.
HasMethod(u) == u \in passwords \/ Identified(u) # {}

\* A directory some accounts of which exist.  Each has a way to log in, and some
\* are super administrators; their addresses are not verified.  (What the
\* workload does not touch starts in one way only.)
Init ==
    /\ load \in Workloads /\ requests = 0
    /\ \E founders \in SUBSET Users :
         /\ \E mail \in [founders -> Address] :
              /\ \A u, v \in founders :
                    mail[u] = mail[v] => u = v \/ mail[u] = NoEmail
              /\ users = [u \in Users |->
                   IF u \in founders
                      THEN [exists |-> TRUE, email |-> mail[u],
                            verified |-> FALSE, status |-> "active"]
                      ELSE Absent]
         /\ links \in [Identities -> founders \union {NoUser}]
         /\ passwords \in SUBSET founders
         /\ \A u \in founders : HasMethod(u)
         /\ superAdmins \in (SUBSET founders) \ {{}}
         /\ "unlink" \notin load =>
              passwords = founders /\ \A x \in Identities : links[x] = NoUser
         /\ IF "roles" \in load THEN \A u \in founders : users[u].email = NoEmail
                                ELSE superAdmins = founders
    /\ tokens = <<>>
    /\ rowLock = [u \in Users |-> NoHandler]
    /\ handler = [h \in Handlers |-> Idle]
    /\ confirmed = {}

\* A request of this kind arrives.
Arrives(kind) ==
    /\ kind \in load /\ requests < MaxRequests
    /\ requests' = requests + 1
    /\ UNCHANGED load

Goto(h, pc) == handler' = [handler EXCEPT ![h].pc = pc]
Finish(h) == handler' = [handler EXCEPT ![h] = Idle]

\* currentSession refuses the session of an account that is not active.
LoggedInUser(u) == users[u].exists /\ users[u].status = "active"

\* The unique index on lower(email).
Unused(e, u) == e = NoEmail \/ \A v \in Users \ {u} : users[v].email # e

-----------------------------------------------------------------------------
(***************************************************************************)
(* New accounts.                                                           *)
(***************************************************************************)
\* NewUser: the address of a new account is not verified.
NewUser(e, status) ==
    [exists |-> TRUE, email |-> e, verified |-> FALSE, status |-> status]

\* The account is created and the handler goes on to sendEmailVerification.
Created(h, kind, u, user) ==
    /\ ~users[u].exists /\ Unused(user.email, u)
    /\ users' = [users EXCEPT ![u] = user]
    /\ handler[h].pc = "idle"
    /\ Arrives(kind)
    /\ handler' = [handler EXCEPT ![h] =
          IF user.email = NoEmail THEN Idle
          ELSE [Idle EXCEPT !.pc = "token", !.kind = kind, !.user = u]]
    /\ UNCHANGED <<mailVars, links, superAdmins, rowLock>>

\* CreateWithPassword writes both rows in one transaction.
register(h, u, e) ==
    /\ Created(h, "register", u, NewUser(e, "active"))
    /\ passwords' = passwords \union {u}

createUser(h, u, e, status) ==
    /\ Created(h, "create", u, NewUser(e, status))
    /\ UNCHANGED passwords

\* CreateWithMigratedPasswords: all of the accounts or none, and no mail.
importUsers(batch, mail) ==
    /\ Arrives("import")
    /\ \A u \in batch :
         /\ ~users[u].exists /\ Unused(mail[u], u)
         /\ mail[u] = NoEmail \/ \A v \in batch \ {u} : mail[v] # mail[u]
    /\ users' = [u \in Users |->
          IF u \in batch THEN NewUser(mail[u], "active") ELSE users[u]]
    /\ passwords' = passwords \union batch
    /\ UNCHANGED <<mailVars, links, superAdmins, rowLock, handler>>

-----------------------------------------------------------------------------
(***************************************************************************)
(* Changing an account.                                                    *)
(***************************************************************************)
\* identity.Replace, on the row the handler read.
ReplaceUser(user, e, status) ==
    [user EXCEPT !.email = e, !.status = status,
                 !.verified = @ /\ e = user.email /\ e # NoEmail]

Read(h, kind, u, pc, e, status) ==
    /\ users[u].exists
    /\ handler[h].pc = "idle"
    /\ Arrives(kind)
    /\ handler' = [handler EXCEPT ![h] =
          [Idle EXCEPT !.pc = pc, !.kind = kind, !.user = u,
                       !.row = ReplaceUser(users[u], e, status),
                       !.announce = (e # NoEmail /\ e # users[u].email)]]
    /\ UNCHANGED <<users, accountVars, mailVars, rowLock>>

\* An administrator sets address and status.
replaceUser(h, u, e, status) ==
    Read(h, "replace", u,
         IF users[u].status = "active" /\ status # "active" THEN "grants"
                                                            ELSE "replace",
         e, status)

\* The user sets the address; the status is the one that was read.  The same
\* address again is a request to send the link again.
changeAccountEmail(h, u, e) ==
    /\ LoggedInUser(u) /\ e # NoEmail
    /\ \/ /\ e # users[u].email
          /\ Read(h, "change", u, "replace", e, users[u].status)
       \/ /\ e = users[u].email /\ ~users[u].verified
          /\ Read(h, "change", u, "token", e, users[u].status)

\* The row UPDATE writes: an address that is not the one in the table is not
\* verified, whatever the handler read.
ReplaceRow(h, u) ==
    LET new == handler[h].row IN
    [new EXCEPT !.verified =
        @ /\ new.email # NoEmail /\ users[u].email = new.email]

Replace(h) ==
    LET u == handler[h].user  row == ReplaceRow(h, u) IN
    /\ handler[h].pc = "replace"
    /\ Unused(row.email, u)
    /\ users' = [users EXCEPT ![u] = row]
    /\ IF handler[h].announce /\ ~row.verified
          THEN handler' = [handler EXCEPT ![h].pc = "token", ![h].row = Absent]
          ELSE Finish(h)
    /\ UNCHANGED <<accountVars, mailVars, rowLock, boundVars>>

-----------------------------------------------------------------------------
(***************************************************************************)
(* Administrator roles, and the deactivation of an administrator.          *)
(***************************************************************************)
\* Whether the target may be touched at all is decided before; a refusal leaves
\* no trace.
replaceUserAdministratorRoles(h, u, super) ==
    /\ users[u].exists
    /\ handler[h].pc = "idle"
    /\ Arrives("roles")
    /\ handler' = [handler EXCEPT ![h] =
          [Idle EXCEPT !.pc = IF super THEN "roles" ELSE "grants",
                       !.kind = "roles", !.user = u, !.super = super]]
    /\ UNCHANGED <<users, accountVars, mailVars, rowLock>>

Write(h) == IF handler[h].kind = "roles" THEN "roles" ELSE "replace"

\* authorizeAdministratorDeactivation, and the same test on losing the role.
CheckGrants(h) ==
    /\ handler[h].pc = "grants"
    /\ Goto(h, IF handler[h].user \in superAdmins THEN "list" ELSE Write(h))
    /\ UNCHANGED <<users, accountVars, mailVars, rowLock, boundVars>>

ListRoleUsers(h) ==
    /\ handler[h].pc = "list"
    /\ handler' = [handler EXCEPT
          ![h].pc = "find", ![h].others = superAdmins \ {handler[h].user}]
    /\ UNCHANGED <<users, accountVars, mailVars, rowLock, boundVars>>

\* One account is read at a time until an active one is found; without one the
\* request is refused.
ensureOtherActiveSuperAdministrator(h) ==
    /\ handler[h].pc = "find"
    /\ \/ \E v \in handler[h].others :
            handler' = [handler EXCEPT
                ![h].pc = IF users[v].status = "active" THEN Write(h) ELSE @,
                ![h].others = IF users[v].status = "active" THEN {} ELSE @ \ {v}]
       \/ handler[h].others = {} /\ Finish(h)
    /\ UNCHANGED <<users, accountVars, mailVars, rowLock, boundVars>>

\* Mutant: the transaction trusts the check of the handler.
GrantsStay(u, super) == TRUE

\* Under the advisory lock the transaction counts again.
KeepsSuperAdmin(u, super) == u \in superAdmins /\ ~super => superAdmins # {u}

ReplaceUserRoles(h) ==
    LET u == handler[h].user  super == handler[h].super IN
    /\ handler[h].pc = "roles"
    /\ KeepsSuperAdmin(u, super)
    /\ superAdmins' = IF super THEN superAdmins \union {u} ELSE superAdmins \ {u}
    /\ Finish(h)
    /\ UNCHANGED <<users, passwords, links, mailVars, rowLock, boundVars>>

-----------------------------------------------------------------------------
(***************************************************************************)
(* Verification of an address.                                             *)
(***************************************************************************)
\* The account is read for the mail ...
issueAccountEmailVerification(h, u) ==
    /\ LoggedInUser(u)
    /\ handler[h].pc = "idle"
    /\ Arrives("resend")
    /\ handler' = [handler EXCEPT ![h] =
          [Idle EXCEPT !.pc = "token", !.kind = "resend", !.user = u]]
    /\ UNCHANGED <<users, accountVars, mailVars, rowLock>>

\* Mutant: an account without an address gets a token too.
IssueAnyway(h) ==
    LET user == users[handler[h].user] IN
    /\ handler[h].pc = "token" /\ ~user.verified
    /\ handler' = [handler EXCEPT ![h].pc = "delete", ![h].email = user.email]
    /\ UNCHANGED <<users, accountVars, mailVars, rowLock, boundVars>>

\* ... and again by Issue for the address the token is bound to.
Issue(h) ==
    LET user == users[handler[h].user] IN
    /\ handler[h].pc = "token" /\ user.email # NoEmail /\ ~user.verified
    /\ handler' = [handler EXCEPT ![h].pc = "delete", ![h].email = user.email]
    /\ UNCHANGED <<users, accountVars, mailVars, rowLock, boundVars>>

\* The two statements of SaveEmailVerification.  Rows a concurrent transaction
\* has not committed are not seen by the DELETE.
DeleteVerifications(h) ==
    /\ handler[h].pc = "delete" /\ Len(tokens) < MaxTokens
    /\ tokens' = [t \in DOMAIN tokens |->
          IF tokens[t].user = handler[h].user
             THEN [tokens[t] EXCEPT !.row = "deleted"] ELSE tokens[t]]
    /\ Goto(h, "insert")
    /\ UNCHANGED <<users, accountVars, confirmed, rowLock, boundVars>>

\* The unique index: a user has one token that was not consumed.
NoLiveToken(u) ==
    \A t \in DOMAIN tokens : tokens[t].user = u => tokens[t].row # "live"

\* The INSERT commits and the link is mailed, to the address the handler read
\* first; an SMTP error leaves the token without a reader.
SaveEmailVerification(h) ==
    /\ handler[h].pc = "insert" /\ Len(tokens) < MaxTokens
    /\ NoLiveToken(handler[h].user)
    /\ \E mailed \in BOOLEAN :
          tokens' = Append(tokens,
              [user |-> handler[h].user, email |-> handler[h].email,
               row |-> "live", mailed |-> mailed])
    /\ Finish(h)
    /\ UNCHANGED <<users, accountVars, confirmed, rowLock, boundVars>>

\* Mutant: the account is updated whatever its address is by now.
VerifyAnyAddress(u, t) == tokens[t].row = "live" /\ tokens[t].user = u

\* The token must be the user's own, unused, and for the current address.
VerifyEmail(u, t) ==
    /\ tokens[t].row = "live" /\ tokens[t].user = u
    /\ users[u].email = tokens[t].email

\* Somebody opens the link in the mail while logged in as u.
verifyAccountEmail(u, t) ==
    /\ LoggedInUser(u) /\ tokens[t].mailed
    /\ VerifyEmail(u, t)
    /\ tokens' = [tokens EXCEPT ![t].row = "consumed"]
    /\ users' = [users EXCEPT ![u].verified = TRUE]
    /\ confirmed' = confirmed \union {<<u, tokens[t].email>>}
    /\ UNCHANGED <<accountVars, rowLock, handler, boundVars>>

\* An administrator marks the address as verified: read, then update.
verifyAdminUserEmail(h, u) ==
    /\ users[u].exists /\ users[u].email # NoEmail /\ ~users[u].verified
    /\ handler[h].pc = "idle"
    /\ Arrives("mark")
    /\ handler' = [handler EXCEPT ![h] =
          [Idle EXCEPT !.pc = "mark", !.kind = "mark", !.user = u]]
    /\ UNCHANGED <<users, accountVars, mailVars, rowLock>>

SetEmailVerified(h) ==
    LET u == handler[h].user IN
    /\ handler[h].pc = "mark" /\ users[u].email # NoEmail
    /\ users' = [users EXCEPT ![u].verified = TRUE]
    /\ confirmed' = confirmed \union {<<u, users[u].email>>}
    /\ Finish(h)
    /\ UNCHANGED <<accountVars, tokens, rowLock, boundVars>>

-----------------------------------------------------------------------------
(***************************************************************************)
(* External identities.  The advisory locks on identity and address make   *)
(* one step of ResolveExternalIdentity.                                    *)
(***************************************************************************)
\* A profile is what the provider says: an address, whether it may find an account
\* and whether it counts as verified.
\* verifyExternalEmail: the provider vouches for the very address of the account.
Vouched(u, profile) ==
    profile.verified /\ profile.email # NoEmail /\ users[u].email = profile.email

\* Identity x logs in as u: the address may become verified.
LoggedIn(u, profile) ==
    /\ users' = [users EXCEPT ![u].verified = @ \/ Vouched(u, profile)]
    /\ confirmed' = IF Vouched(u, profile)
          THEN confirmed \union {<<u, profile.email>>}
          ELSE confirmed

KnownIdentity(x, profile) ==
    /\ links[x] # NoUser
    /\ LoggedIn(links[x], profile)
    /\ UNCHANGED links

\* An address the source is trusted for finds the account; its row is locked.
LinkIdentity(x, profile, u) ==
    /\ links[x] = NoUser /\ profile.trusted /\ profile.email # NoEmail
    /\ users[u].email = profile.email /\ rowLock[u] = NoHandler
    /\ LoggedIn(u, profile)
    /\ links' = [links EXCEPT ![x] = u]

\* Otherwise an account is created; an address in use makes it a conflict.
ProvisionUser(x, profile, u) ==
    /\ links[x] = NoUser
    /\ ~users[u].exists /\ Unused(profile.email, u)
    /\ users' = [users EXCEPT ![u] =
          [exists |-> TRUE, email |-> profile.email, status |-> "active",
           verified |-> profile.verified /\ profile.email # NoEmail]]
    /\ confirmed' = IF profile.verified /\ profile.email # NoEmail
          THEN confirmed \union {<<u, profile.email>>}
          ELSE confirmed
    /\ links' = [links EXCEPT ![x] = u]

ResolveExternalIdentity(x, profile) ==
    /\ Arrives("external")
    /\ \/ KnownIdentity(x, profile)
       \/ \E u \in Users : LinkIdentity(x, profile, u)
       \/ \E u \in Users : ProvisionUser(x, profile, u)
    /\ UNCHANGED <<passwords, superAdmins, tokens, rowLock, handler>>

\* The directory has accepted the password; its address finds an account, but
\* is not thereby verified.
loginLDAP(x, e) ==
    ResolveExternalIdentity(x, [email |-> e, trusted |-> TRUE, verified |-> FALSE])

\* The provider's ID token: an address it has not verified is dropped.
loginOIDCCallback(x, e) ==
    ResolveExternalIdentity(x,
        [email |-> e, trusted |-> e # NoEmail, verified |-> e # NoEmail])

deleteUserExternalIdentity(h, u, x) ==
    /\ links[x] = u
    /\ handler[h].pc = "idle"
    /\ Arrives("unlink")
    /\ handler' = [handler EXCEPT ![h] =
          [Idle EXCEPT !.pc = "lock", !.kind = "unlink", !.user = u,
                       !.external = x]]
    /\ UNCHANGED <<users, accountVars, mailVars, rowLock>>

\* Mutant: the row of the account is read without FOR UPDATE.
ReadUserRow(h, u) == rowLock' = rowLock

\* SELECT 1 FROM users WHERE id = $1 FOR UPDATE.
LockUserRow(h, u) ==
    rowLock[u] = NoHandler /\ rowLock' = [rowLock EXCEPT ![u] = h]

\* DeleteExternalIdentity, a transaction of three statements.
LockForDeletion(h) ==
    /\ handler[h].pc = "lock"
    /\ LockUserRow(h, handler[h].user)
    /\ Goto(h, "check")
    /\ UNCHANGED <<users, accountVars, mailVars, boundVars>>

CheckRemaining(h) ==
    LET u == handler[h].user IN
    /\ handler[h].pc = "check"
    /\ u \in passwords \/ Cardinality(Identified(u)) > 1
    /\ Goto(h, "remove")
    /\ UNCHANGED <<users, accountVars, mailVars, rowLock, boundVars>>

DeleteExternalIdentity(h) ==
    LET u == handler[h].user  x == handler[h].external IN
    /\ handler[h].pc = "remove" /\ links[x] = u
    /\ links' = [links EXCEPT ![x] = NoUser]
    /\ rowLock' = [rowLock EXCEPT ![u] = NoHandler]
    /\ Finish(h)
    /\ UNCHANGED <<users, passwords, superAdmins, mailVars, boundVars>>

\* SetPassword, by an administrator or a reset (module Passwords).
SetPassword(u) ==
    /\ users[u].exists /\ u \notin passwords
    /\ Arrives("password")
    /\ passwords' = passwords \union {u}
    /\ UNCHANGED <<users, links, superAdmins, mailVars, rowLock, handler>>

\* A refusal, a conflict, a store error or a caller that went away: what the
\* handler wrote stays, an open transaction is rolled back.  (In "insert" that
\* undoes the DELETE, the same as stopping before it, unless it is because
\* another transaction has replaced the tokens by then.)
Abandon(h) ==
    /\ handler[h].pc # "idle"
    /\ handler[h].pc = "insert" => ~NoLiveToken(handler[h].user)
    /\ Finish(h)
    /\ rowLock' = [u \in Users |->
                      IF rowLock[u] = h THEN NoHandler ELSE rowLock[u]]
    /\ UNCHANGED <<users, accountVars, mailVars, boundVars>>

-----------------------------------------------------------------------------
Starts(h, u) ==
    \/ \E e \in Address :
         \/ register(h, u, e) \/ changeAccountEmail(h, u, e)
         \/ \E status \in Status :
              createUser(h, u, e, status) \/ replaceUser(h, u, e, status)
    \/ \E super \in BOOLEAN : replaceUserAdministratorRoles(h, u, super)
    \/ issueAccountEmailVerification(h, u) \/ verifyAdminUserEmail(h, u)
    \/ \E x \in Identities : deleteUserExternalIdentity(h, u, x)

Continues(h) ==
    \/ Replace(h)
    \/ CheckGrants(h) \/ ListRoleUsers(h)
    \/ ensureOtherActiveSuperAdministrator(h) \/ ReplaceUserRoles(h)
    \/ Issue(h) \/ DeleteVerifications(h) \/ SaveEmailVerification(h)
    \/ SetEmailVerified(h)
    \/ LockForDeletion(h) \/ CheckRemaining(h) \/ DeleteExternalIdentity(h)
    \/ Abandon(h)

Next ==
    \/ \E h \in Handlers : Continues(h) \/ \E u \in Users : Starts(h, u)
    \/ \E batch \in (SUBSET Users) \ {{}} : \E mail \in [batch -> Address] :
          importUsers(batch, mail)
    \/ \E u \in Users :
          SetPassword(u) \/ \E t \in DOMAIN tokens : verifyAccountEmail(u, t)
    \/ \E x \in Identities, e \in Address : loginLDAP(x, e) \/ loginOIDCCallback(x, e)

Spec == Init /\ [][Next]_vars

-----------------------------------------------------------------------------
(***************************************************************************)
(* Properties.                                                             *)
(***************************************************************************)
\* email_verified speaks of the current address: if it is set, this address of
\* this account was confirmed by a link bound to it, by an administrator or by a
\* provider.  Links, marks and changes of the address overlap in every order.
VerifiedWasConfirmed ==
    \A u \in Users : users[u].verified => <<u, users[u].email>> \in confirmed

\* Deleting external identities, even two of one account at the same time, never
\* takes away the last way to log in.
LastMethodKept == [][\A u \in Users : HasMethod(u) => HasMethod(u)']_vars

\* README.md:130: the last super_admin cannot be removed, though the handlers
\* that check it run concurrently.
SuperAdminRemains == superAdmins # {}

=============================================================================
