------------------------------- MODULE Access -------------------------------
(***************************************************************************)
(* Business roles and permissions of clients, beside the registry they     *)
(* hang on: a role or a permission belongs to a client and goes with it.   *)
(* Roles map to permissions and are granted to users.  As in Registry a    *)
(* request is a sequence of statements of the PostgreSQL store.            *)
(***************************************************************************)
EXTENDS Registry

CONSTANTS
    Roles, Permissions, Users,
    Clerks         \* the requests on roles the server works on at a time

ClerkKinds == {"role", "dropRole", "permission", "dropPermission", "map", "grant"}

ASSUME AccessAssumption ==
    /\ Roles \intersect Permissions = {}
    /\ NoHandler \notin Clerks
    /\ Workloads \subseteq SUBSET (Kinds \union ClerkKinds)

VARIABLES
    owner,       \* access_roles and access_permissions: the client of each
    mapping,     \* access_role_permissions
    grants,      \* access_user_roles
    objectLock,  \* SELECT ... FOR UPDATE on a role or a permission
    drawn,       \* the identifiers of roles and permissions drawn so far
    clerk

tableVars == <<owner, mapping, grants>>
accessVars == <<tableVars, objectLock, drawn, clerk>>
stillVars == <<clientVars, sources, handler>>
vars == <<registryVars, accessVars>>

Objects == Roles \union Permissions

Clerk ==
    [pc : {"idle", "insert", "lock", "use", "remove", "exist", "see", "commit"},
     kind : ClerkKinds \union {"none"},
     client : Clients \union {NoClient},
     of : Objects \union Users \union {NoClient},  \* whose rows are replaced
     asked : SUBSET Objects,                       \* by these
     seen : SUBSET ((Roles \X Permissions) \union (Users \X Roles))]

Off == [pc |-> "idle", kind |-> "none", client |-> NoClient, of |-> NoClient,
        asked |-> {}, seen |-> {}]

TypeOK ==
    /\ RegistryTypeOK
    /\ owner \in [Objects -> Registered \union {NoClient}]
    /\ mapping \subseteq Roles \X Permissions
    /\ grants \subseteq Users \X Roles
    /\ \A row \in mapping : owner[row[1]] # NoClient /\ owner[row[2]] # NoClient
    /\ \A row \in grants : owner[row[2]] # NoClient
    /\ objectLock \in [Objects -> Clerks \union {NoHandler}]
    /\ {o \in Objects : owner[o] # NoClient} \subseteq drawn /\ drawn \subseteq Objects
    /\ clerk \in [Clerks -> Clerk]

\* Roles and permissions that exist belong to a registered client, and a role
\* maps to permissions of its own.
Init ==
    /\ RegistryInit
    /\ IF load \intersect ClerkKinds = {}
          THEN owner = [o \in Objects |-> NoClient]
          ELSE owner \in [Objects -> Registered \union {NoClient}]
    /\ mapping \in SUBSET {row \in Roles \X Permissions :
                             owner[row[1]] = owner[row[2]] /\ owner[row[1]] # NoClient}
    /\ grants \in SUBSET {row \in Users \X Roles : owner[row[2]] # NoClient}
    /\ objectLock = [o \in Objects |-> NoHandler]
    /\ drawn = {o \in Objects : owner[o] # NoClient}
    /\ clerk = [k \in Clerks |-> Off]

\* accessClient
accessClient(c) == clients[c].exists /\ ~clients[c].archived

ClerkGoto(k, pc) == clerk' = [clerk EXCEPT ![k].pc = pc]
ClerkDone(k) == clerk' = [clerk EXCEPT ![k] = Off]

Begins(k, kind, pc, c, of, asked) ==
    /\ clerk[k].pc = "idle"
    /\ Counted(kind)
    /\ clerk' = [clerk EXCEPT ![k] =
                   [Off EXCEPT !.pc = pc, !.kind = kind, !.client = c,
                               !.of = of, !.asked = asked]]
    /\ UNCHANGED <<stillVars, tableVars, objectLock>>

-----------------------------------------------------------------------------
(***************************************************************************)
(* Roles and permissions.  (Replacing one changes its code and texts, not  *)
(* its identifier, a random UUID that is never drawn twice.)               *)
(***************************************************************************)
createRole(k) ==
    \E c \in Clients, r \in Roles :
        /\ accessClient(c) /\ r \notin drawn /\ drawn' = drawn \union {r}
        /\ Begins(k, "role", "insert", c, r, {})

createPermission(k) ==
    \E c \in Clients, p \in Permissions :
        /\ accessClient(c) /\ p \notin drawn /\ drawn' = drawn \union {p}
        /\ Begins(k, "permission", "insert", c, p, {})

\* The INSERT of CreateRole or CreatePermission: the client must still be there.
CreateObject(k) ==
    LET c == clerk[k].client
        o == clerk[k].of
    IN  /\ clerk[k].pc = "insert" /\ ~BeingDeleted(c)
        /\ owner' = IF clients[c].exists THEN [owner EXCEPT ![o] = c] ELSE owner
        /\ ClerkDone(k)
        /\ UNCHANGED <<registryVars, mapping, grants, objectLock, drawn>>

deleteRole(k) ==
    \E c \in Clients, r \in Roles :
        /\ accessClient(c) /\ UNCHANGED drawn
        /\ Begins(k, "dropRole", "lock", c, r, {})

deletePermission(k) ==
    \E c \in Clients, p \in Permissions :
        /\ accessClient(c) /\ UNCHANGED drawn
        /\ Begins(k, "dropPermission", "lock", c, p, {})

\* Mutant of LockObject: the row is read without FOR UPDATE.
FindObject(k) ==
    /\ clerk[k].pc = "lock"
    /\ IF owner[clerk[k].of] = clerk[k].client THEN ClerkGoto(k, "use")
                                               ELSE ClerkDone(k)
    /\ UNCHANGED <<registryVars, tableVars, objectLock, drawn>>

\* DeleteRole and DeletePermission, in one transaction: the row is locked, its
\* use is looked up, and it is deleted.
LockObject(k) ==
    LET o == clerk[k].of
    IN  /\ clerk[k].pc = "lock" /\ objectLock[o] = NoHandler
        /\ IF owner[o] = clerk[k].client
              THEN /\ ClerkGoto(k, "use")
                   /\ objectLock' = [objectLock EXCEPT ![o] = k]
              ELSE ClerkDone(k) /\ UNCHANGED objectLock
        /\ UNCHANGED <<registryVars, tableVars, drawn>>

InUse(o) == (\E u \in Users : <<u, o>> \in grants)
            \/ (\E r \in Roles : <<r, o>> \in mapping)

CheckUse(k) ==
    LET o == clerk[k].of
    IN  /\ clerk[k].pc = "use"
        /\ IF InUse(o)
              THEN ClerkDone(k) /\ objectLock' = [objectLock EXCEPT ![o] = NoHandler]
              ELSE ClerkGoto(k, "remove") /\ UNCHANGED objectLock
        /\ UNCHANGED <<registryVars, tableVars, drawn>>

\* Rows that name one of these roles and permissions go with it.
Cascade(gone) ==
    /\ owner' = [o \in Objects |-> IF o \in gone THEN NoClient ELSE owner[o]]
    /\ mapping' = {row \in mapping : row[1] \notin gone /\ row[2] \notin gone}
    /\ grants' = {row \in grants : row[2] \notin gone}

DeleteObject(k) ==
    LET o == clerk[k].of
    IN  /\ clerk[k].pc = "remove"
        /\ Cascade({o})
        /\ objectLock' = [objectLock EXCEPT ![o] = NoHandler]
        /\ ClerkDone(k)
        /\ UNCHANGED <<registryVars, drawn>>

-----------------------------------------------------------------------------
(***************************************************************************)
(* Replacing the permissions of a role, or the roles of a user: what is    *)
(* asked for is looked up, the rows in place are deleted, the new ones     *)
(* inserted.  The DELETE removes the rows its snapshot shows.              *)
(***************************************************************************)
replaceRolePermissions(k) ==
    \E c \in Clients, r \in Roles, asked \in SUBSET Permissions :
        /\ accessClient(c) /\ UNCHANGED drawn
        /\ Begins(k, "map", "exist", c, r, asked)

replaceUserRoles(k) ==
    \E u \in Users, asked \in SUBSET Roles :
        Begins(k, "grant", "exist", NoClient, u, asked) /\ UNCHANGED drawn

\* Both belong to the client of the request; a user is granted roles of any.
Exist(k) ==
    IF clerk[k].kind = "map"
       THEN \A o \in clerk[k].asked \union {clerk[k].of} : owner[o] = clerk[k].client
       ELSE \A o \in clerk[k].asked : owner[o] # NoClient

CheckExist(k) ==
    /\ clerk[k].pc = "exist"
    /\ IF Exist(k) THEN ClerkGoto(k, "see") ELSE ClerkDone(k)
    /\ UNCHANGED <<registryVars, tableVars, objectLock, drawn>>

SeeObjects(k) ==
    /\ clerk[k].pc = "see"
    /\ clerk' = [clerk EXCEPT ![k].pc = "commit",
                   ![k].seen = {row \in mapping \union grants : row[1] = clerk[k].of}]
    /\ UNCHANGED <<registryVars, tableVars, objectLock, drawn>>

\* The INSERTs wait for a transaction that holds a row they refer to, and fail
\* if it is gone or if another transaction inserted the same row.
Replaced(table, k) ==
    LET rest == table \ clerk[k].seen
        new == {clerk[k].of} \X clerk[k].asked
        missing == \E o \in clerk[k].asked \union ({clerk[k].of} \intersect Roles) :
                      owner[o] = NoClient
    IN  IF missing \/ new \intersect rest # {} THEN table ELSE rest \union new

CommitObjects(k) ==
    /\ clerk[k].pc = "commit"
    /\ \A o \in (clerk[k].asked \union {clerk[k].of}) \intersect Objects :
          objectLock[o] = NoHandler
    /\ IF clerk[k].kind = "map"
          THEN mapping' = Replaced(mapping, k) /\ UNCHANGED grants
          ELSE grants' = Replaced(grants, k) /\ UNCHANGED mapping
    /\ ClerkDone(k)
    /\ UNCHANGED <<registryVars, owner, objectLock, drawn>>

-----------------------------------------------------------------------------
(***************************************************************************)
(* The client goes, and its roles and permissions with it.  A transaction  *)
(* that holds one of them is waited for.                                   *)
(***************************************************************************)
DeleteClient(h) ==
    LET gone == {o \in Objects : owner[o] = handler[h].client}
    IN  /\ DeleteArchived(h)
        /\ \A o \in gone : objectLock[o] = NoHandler
        /\ Cascade(gone)
        /\ UNCHANGED <<objectLock, drawn, clerk>>

Next ==
    \/ RegistryNext /\ UNCHANGED accessVars
    \/ \E h \in Handlers : DeleteClient(h)
    \/ \E k \in Clerks :
          \/ createRole(k) \/ createPermission(k) \/ CreateObject(k)
          \/ deleteRole(k) \/ deletePermission(k)
          \/ LockObject(k) \/ CheckUse(k) \/ DeleteObject(k)
          \/ replaceRolePermissions(k) \/ replaceUserRoles(k)
          \/ CheckExist(k) \/ SeeObjects(k) \/ CommitObjects(k)

Spec == Init /\ [][Next]_vars

-----------------------------------------------------------------------------
(***************************************************************************)
(* Properties.                                                             *)
(***************************************************************************)
\* The row of a client and the rows of its five tables come from one request:
\* two administrators who replace it at a time never leave a mixture
\* (ClientRepository.Replace updates the row first, which serialises them).
ConfigIsWhole ==
    \A c \in Registered :
        /\ clients[c].oauth = written[c].oauth
        /\ clients[c].system = written[c].system
        /\ Related(c) = written[c].related

\* Nothing a request read before a client or a source was archived brings it
\* back or changes it: its row stays as it is until it is deleted, and rows of
\* its tables only go.
ArchivedIsFrozen ==
    [][/\ \A c \in Clients :
            clients[c].archived =>
                /\ clients'[c] = clients[c] \/ ~clients'[c].exists
                /\ {row \in relations' : row[1] = c} \subseteq relations
       /\ \A s \in Sources :
            sources[s].archived => sources'[s].archived /\ ~sources'[s].enabled]_vars

\* The secret of a client changes by the rotation that drew the new one only; a
\* replacement that read the client before a rotation does not write the old one
\* back.  The secret of a source changes by a replacement of that source only, never
\* by an instance that starts and seals the secrets again; and a replacement that
\* names no secret changes it only if another replacement was written since it
\* read the row.  Then it does: SourceRepository.Replace writes the ciphertext as
\* SourceService.Replace read it, and so brings back a secret that was replaced.
SecretsKept ==
    [][/\ \A c \in Clients :
            /\ clients[c].exists /\ clients'[c].exists
            /\ clients'[c].secret # clients[c].secret
            => \E h \in Handlers :
                 /\ handler[h].pc = "rotate" /\ handler[h].client = c
                 /\ handler[h].row.secret = clients'[c].secret
       /\ \A s \in Sources :
            ~SameSecret(sources[s].envelope, sources'[s].envelope)
            => \/ ~sources[s].exists
               \/ \E h \in Handlers :
                    LET row == handler[h].sourceRow
                    IN  /\ handler[h].pc = "source" /\ handler[h].source = s
                        /\ sources'[s].envelope = row.envelope
                        /\ handler[h].blank => row.version # sources[s].version]_vars

\* The rows of this user or role are being replaced in this step.
Commits(kind, of) ==
    \E k \in Clerks : /\ clerk[k].pc = "commit" /\ clerk'[k].pc = "idle"
                      /\ clerk[k].kind = kind /\ clerk[k].of = of

\* What users may do never changes as a side effect (README.md: a role still
\* granted, a permission still mapped is not deleted): a grant goes only when the
\* roles of its user are replaced, a mapping only when the permissions of its role
\* are replaced or the role is deleted, or with the client.
NothingLostSilently ==
    [][/\ \A row \in grants \ grants' :
            Commits("grant", row[1]) \/ ~clients'[owner[row[2]]].exists
       /\ \A row \in mapping \ mapping' :
            Commits("map", row[1]) \/ owner'[row[1]] = NoClient]_vars

=============================================================================
