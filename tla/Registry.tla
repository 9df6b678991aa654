------------------------------ MODULE Registry ------------------------------
(***************************************************************************)
(* The registry administrators keep: systems, the clients they own and the *)
(* external identity sources clients bind.  The store is the PostgreSQL    *)
(* one at READ COMMITTED: a handler reads, validates against other rows,   *)
(* and writes in a later transaction.  The five tables of values of a      *)
(* client (redirect URIs, login methods, identity sources, introspectors)  *)
(* are written alike; relations stands for them.                           *)
(***************************************************************************)
EXTENDS Integers, FiniteSets

CONSTANTS
    Clients, Sources,
    Systems,        \* identifiers of systems; a client's own is one of them
    Keys,           \* the primary keys of the key rings of the instances
    Handlers,       \* the requests the server works on at a time
    Inputs,         \* bound: the configurations administrators ask for
    Workloads,      \* bound: the kinds of requests that occur together
    MaxRequests,    \* bound
    NoSystem, NoClient, NoSource, NoHandler, NoKey, NoInput

Kinds == {"addSystem", "dropSystem", "create", "replace", "rotate", "archive",
          "delete", "addSource", "source", "archiveSource", "rewrap"}

\* The part of client.CreateClient and client.ReplaceClient that other rows
\* depend on.
Input ==
    [system : Systems \union {NoSystem}, oauth : BOOLEAN,
     enabled : {"yes", "no", "unset"},
     sources : SUBSET Sources, introspectableBy : SUBSET Clients]

ASSUME RegistryAssumption ==
    /\ Clients \subseteq Systems /\ Clients \intersect Sources = {}
    /\ Inputs \subseteq Input
    /\ MaxRequests \in Nat
    /\ NoSystem \notin Systems /\ NoHandler \notin Handlers
    /\ NoClient \notin Clients /\ NoSource \notin Sources
    /\ NoKey \notin Keys /\ NoInput \notin Inputs

VARIABLES
    systems,     \* the rows of access_systems
    clients,     \* the rows of oauth_clients
    relations,   \* a client and a source it binds or a client it trusts
    sources,     \* the rows of identity_sources
    rowLock,     \* the transaction that holds the row of a client
    handler,
    written,     \* history: what the last write of each client asked for
    load, requests

boundVars == <<load, requests>>
clientVars == <<systems, clients, relations, rowLock, written>>
registryVars == <<clientVars, sources, handler, boundVars>>

\* Secrets are numbered by the request that chose them; 0 is an earlier one.
Secret == 0..MaxRequests

Client ==
    [exists : BOOLEAN, archived : BOOLEAN, enabled : BOOLEAN,
     confidential : BOOLEAN, oauth : BOOLEAN,
     system : Systems \union {NoSystem}, secret : Secret]

NoRow ==
    [exists |-> FALSE, archived |-> FALSE, enabled |-> FALSE,
     confidential |-> FALSE, oauth |-> FALSE, system |-> NoSystem, secret |-> 0]

\* An envelope: the secret and the key that seals it.  Two envelopes of one
\* secret under one key are not told apart.
Unset == [secret |-> 0, key |-> NoKey]
Envelope == [secret : Secret, key : Keys] \union {Unset}

\* The same secret, or none, under whichever key.
SameSecret(a, b) == a.secret = b.secret /\ (a.key = NoKey <=> b.key = NoKey)

Source == [exists : BOOLEAN, archived : BOOLEAN, enabled : BOOLEAN,
           envelope : Envelope,
           version : Nat]           \* history: the replacements of the row

NoSourceRow == [exists |-> FALSE, archived |-> FALSE, enabled |-> FALSE,
                envelope |-> Unset, version |-> 0]

Handler ==
    [pc : {"idle", "system", "sources", "introspectors", "insert", "update",
           "rows", "commit", "rotate", "delete", "source", "archiveSource",
           "rewrap"},
     kind : Kinds \union {"none"},
     client : Clients \union {NoClient},
     input : Inputs \union {NoInput},
     row : Client,                            \* the row to be written
     seen : SUBSET (Clients \X (Sources \union Clients)),  \* to be deleted
     source : Sources \union {NoSource},
     sourceRow : Source,
     blank : BOOLEAN,                  \* history: the request names no secret
     records : [Sources -> Envelope],         \* envelopes still to be sealed
     key : Keys \union {NoKey}]

Idle ==
    [pc |-> "idle", kind |-> "none", client |-> NoClient, input |-> NoInput,
     row |-> NoRow, seen |-> {}, source |-> NoSource, sourceRow |-> NoSourceRow,
     blank |-> FALSE, records |-> [s \in Sources |-> Unset], key |-> NoKey]

Registered == {c \in Clients : clients[c].exists}
Related(c) == {x \in Sources \union Clients : <<c, x>> \in relations}

\* The references of the tables included: a client is in a system, and what it
\* binds and trusts is registered.
RegistryTypeOK ==
    /\ systems \subseteq Systems
    /\ clients \in [Clients -> Client]
    /\ \A c \in Registered : clients[c].system \in systems
    /\ sources \in [Sources -> Source]
    /\ relations \subseteq
         Registered \X (Registered \union {s \in Sources : sources[s].exists})
    /\ rowLock \in [Clients -> Handlers \union {NoHandler}]
    /\ handler \in [Handlers -> Handler]
    /\ load \in Workloads /\ requests \in 0..MaxRequests

\* A registry in use: a client is enabled, confidential and in a system of its
\* own, and trusts and binds nobody yet; a source is enabled and has a secret.
\* (What the workload does not touch starts in one way only.)
RegistryInit ==
    /\ load \in Workloads /\ requests = 0
    /\ systems \in {S \in SUBSET Systems : Clients \subseteq S}
    /\ "addSystem" \notin load => systems = Systems
    /\ \E known \in IF "create" \in load THEN SUBSET Clients ELSE {Clients} :
         clients = [c \in Clients |->
           IF c \in known
              THEN [exists |-> TRUE, archived |-> FALSE, enabled |-> TRUE,
                    confidential |-> TRUE, oauth |-> TRUE, system |-> c,
                    secret |-> 0]
              ELSE NoRow]
    /\ relations = {}
    /\ \E known \in IF "addSource" \in load THEN SUBSET Sources ELSE {Sources},
          key \in Keys :
         sources = [s \in Sources |->
           IF s \in known
              THEN [exists |-> TRUE, archived |-> FALSE, enabled |-> TRUE,
                    envelope |-> [secret |-> 0, key |-> key], version |-> 0]
              ELSE NoSourceRow]
    /\ rowLock = [c \in Clients |-> NoHandler]
    /\ handler = [h \in Handlers |-> Idle]
    /\ written = [c \in Clients |-> [oauth |-> TRUE, system |-> c, related |-> {}]]

\* A request of this kind arrives; handler h begins it.
Counted(kind) ==
    /\ kind \in load /\ requests < MaxRequests
    /\ requests' = requests + 1
    /\ UNCHANGED load

Arrives(h, kind) == handler[h].pc = "idle" /\ Counted(kind)

Fresh == requests + 1

Goto(h, pc) == handler' = [handler EXCEPT ![h].pc = pc]
Finish(h) == handler' = [handler EXCEPT ![h] = Idle]

\* A transaction that deletes a client holds its row FOR UPDATE, which a
\* statement that inserts a reference to the client waits for.
BeingDeleted(c) == \E g \in Handlers : rowLock[c] = g /\ handler[g].kind = "delete"

Locked(h, c) == rowLock' = [rowLock EXCEPT ![c] = h]
Unlocked(c) == rowLock' = [rowLock EXCEPT ![c] = NoHandler]

-----------------------------------------------------------------------------
(***************************************************************************)
(* Systems.                                                                *)
(***************************************************************************)
createSystem(h) ==
    /\ Arrives(h, "addSystem")
    /\ \E s \in Systems \ systems : systems' = systems \union {s}
    /\ UNCHANGED <<clients, relations, rowLock, written, sources, handler>>

\* The foreign key refuses a system that a client has, archived or not; a
\* transaction that has moved a client to it is waited for.
deleteSystem(h) ==
    /\ Arrives(h, "dropSystem")
    /\ \E s \in systems :
         /\ \A c \in Registered : clients[c].system # s
         /\ \A g \in Handlers :
              handler[g].pc \in {"rows", "commit"} => handler[g].row.system # s
         /\ systems' = systems \ {s}
    /\ UNCHANGED <<clients, relations, rowLock, written, sources, handler>>

-----------------------------------------------------------------------------
(***************************************************************************)
(* Creating and replacing a client.                                        *)
(***************************************************************************)
\* Client.Validate on what the input keeps.
Validate(c, input) ==
    /\ input.introspectableBy # {} => input.oauth
    /\ c \notin input.introspectableBy

effectiveSystemID(s, fallback) == IF s = NoSystem THEN fallback ELSE s

\* client.New: a confidential client gets a secret.
New(c, input, confidential) ==
    [exists |-> TRUE, archived |-> FALSE, enabled |-> input.enabled # "no",
     confidential |-> confidential, oauth |-> input.oauth,
     system |-> effectiveSystemID(input.system, c),
     secret |-> IF confidential THEN Fresh ELSE 0]

\* client.Replace: what the input leaves out stays as it was read.
Replace(current, input) ==
    [current EXCEPT
        !.enabled = IF input.enabled = "unset" THEN @ ELSE input.enabled = "yes",
        !.oauth = input.oauth,
        !.system = effectiveSystemID(input.system, @)]

createClient(h) ==
    /\ Arrives(h, "create")
    /\ \E c \in Clients, input \in Inputs, confidential \in BOOLEAN :
         /\ Validate(c, input)
         /\ handler' = [handler EXCEPT ![h] =
              [Idle EXCEPT !.pc = IF input.system = NoSystem THEN "sources"
                                                             ELSE "system",
                           !.kind = "create", !.client = c, !.input = input,
                           !.row = New(c, input, confidential)]]
    /\ UNCHANGED <<clientVars, sources>>

replaceClient(h) ==
    /\ Arrives(h, "replace")
    /\ \E c \in Registered, input \in Inputs :
         /\ ~clients[c].archived /\ Validate(c, input)
         /\ handler' = [handler EXCEPT ![h] =
              [Idle EXCEPT !.pc = "system", !.kind = "replace", !.client = c,
                           !.input = input, !.row = Replace(clients[c], input)]]
    /\ UNCHANGED <<clientVars, sources>>

validateClientSystem(h) ==
    /\ handler[h].pc = "system"
    /\ IF handler[h].row.system \in systems THEN Goto(h, "sources") ELSE Finish(h)
    /\ UNCHANGED <<clientVars, sources, boundVars>>

validateClientIdentitySources(h) ==
    /\ handler[h].pc = "sources"
    /\ IF \A s \in handler[h].input.sources :
            sources[s].exists /\ ~sources[s].archived /\ sources[s].enabled
          THEN Goto(h, "introspectors") ELSE Finish(h)
    /\ UNCHANGED <<clientVars, sources, boundVars>>

validateClientIntrospectionPermissions(h) ==
    /\ handler[h].pc = "introspectors"
    /\ IF \A i \in handler[h].input.introspectableBy :
            LET row == clients[i]
            IN  row.exists /\ ~row.archived /\ row.enabled /\ row.confidential
                /\ row.oauth
          THEN Goto(h, IF handler[h].kind = "create" THEN "insert" ELSE "update")
          ELSE Finish(h)
    /\ UNCHANGED <<clientVars, sources, boundVars>>

\* The rows of relations that the input of h asks for.
NewRows(h) == {handler[h].client} \X
    (handler[h].input.sources \union handler[h].input.introspectableBy)

Config(row, input) ==
    [oauth |-> row.oauth, system |-> row.system,
     related |-> input.sources \union input.introspectableBy]

\* The foreign keys of the inserted rows hold, and none is there already.
Insertable(h, rows) ==
    /\ \A i \in handler[h].input.introspectableBy : clients[i].exists
    /\ NewRows(h) \intersect rows = {}

\* Mutant of Create: the system of the client is taken to be there.
CreateOnly(h) ==
    LET c == handler[h].client
    IN  /\ handler[h].pc = "insert"
        /\ ~\E i \in handler[h].input.introspectableBy : BeingDeleted(i)
        /\ IF ~clients[c].exists /\ Insertable(h, relations)
              THEN /\ clients' = [clients EXCEPT ![c] = handler[h].row]
                   /\ relations' = relations \union NewRows(h)
                   /\ written' = [written EXCEPT
                        ![c] = Config(handler[h].row, handler[h].input)]
              ELSE UNCHANGED <<clients, relations, written>>
        /\ Finish(h)
        /\ UNCHANGED <<systems, rowLock, sources, boundVars>>

\* ClientRepository.Create: the system is made if it is missing.
Create(h) ==
    LET c == handler[h].client
        row == handler[h].row
    IN  /\ handler[h].pc = "insert"
        /\ ~\E i \in handler[h].input.introspectableBy : BeingDeleted(i)
        /\ IF ~clients[c].exists /\ Insertable(h, relations)
              THEN /\ systems' = systems \union {row.system}
                   /\ clients' = [clients EXCEPT ![c] = row]
                   /\ relations' = relations \union NewRows(h)
                   /\ written' = [written EXCEPT ![c] = Config(row, handler[h].input)]
              ELSE UNCHANGED <<systems, clients, relations, written>>
        /\ Finish(h)
        /\ UNCHANGED <<rowLock, sources, boundVars>>

\* Mutant of UpdateRow: archived_at is not looked at.
UpdateAnyRow(h) ==
    LET c == handler[h].client
    IN  /\ handler[h].pc = "update" /\ rowLock[c] = NoHandler
        /\ IF clients[c].exists /\ handler[h].row.system \in systems
              THEN Goto(h, "rows") /\ Locked(h, c)
              ELSE Finish(h) /\ UNCHANGED rowLock
        /\ UNCHANGED <<systems, clients, relations, written, sources, boundVars>>

\* ClientRepository.Replace, in one transaction.  The UPDATE takes the row; the
\* DELETEs remove the rows of relations they see; the INSERTs add the new ones.
UpdateRow(h) ==
    LET c == handler[h].client
    IN  /\ handler[h].pc = "update" /\ rowLock[c] = NoHandler
        /\ IF clients[c].exists /\ ~clients[c].archived
              /\ handler[h].row.system \in systems
              THEN Goto(h, "rows") /\ Locked(h, c)
              ELSE Finish(h) /\ UNCHANGED rowLock
        /\ UNCHANGED <<systems, clients, relations, written, sources, boundVars>>

\* Mutant of SeeRows: an empty list leaves the rows of the client in place.
SeeReplacedRows(h) ==
    /\ handler[h].pc = "rows"
    /\ handler' = [handler EXCEPT ![h].pc = "commit",
                     ![h].seen = IF NewRows(h) = {} THEN {}
                        ELSE {handler[h].client} \X Related(handler[h].client)]
    /\ UNCHANGED <<clientVars, sources, boundVars>>

SeeRows(h) ==
    /\ handler[h].pc = "rows"
    /\ handler' = [handler EXCEPT ![h].pc = "commit",
                                  ![h].seen = {handler[h].client} \X Related(handler[h].client)]
    /\ UNCHANGED <<clientVars, sources, boundVars>>

\* Mutant of SetColumns: the secret is written back as it was read.
SetEveryColumn(current, row) == row

\* The columns the UPDATE sets: the secret is not one of them.
SetColumns(current, row) ==
    [current EXCEPT !.enabled = row.enabled, !.oauth = row.oauth,
                    !.system = row.system]

CommitReplace(h) ==
    LET c == handler[h].client
        row == handler[h].row
        rest == relations \ handler[h].seen
    IN  /\ handler[h].pc = "commit"
        /\ ~\E i \in handler[h].input.introspectableBy : BeingDeleted(i)
        /\ IF Insertable(h, rest)
              THEN /\ clients' = [clients EXCEPT ![c] = SetColumns(@, row)]
                   /\ relations' = rest \union NewRows(h)
                   /\ written' = [written EXCEPT ![c] = Config(row, handler[h].input)]
              ELSE UNCHANGED <<clients, relations, written>>
        /\ Unlocked(c) /\ Finish(h)
        /\ UNCHANGED <<systems, sources, boundVars>>

-----------------------------------------------------------------------------
(***************************************************************************)
(* The secret of a client; archiving and deleting it.  (Disabling and      *)
(* archiving revoke its tokens afterwards: Revocation, kind "client".)     *)
(***************************************************************************)
rotateClientSecret(h) ==
    /\ Arrives(h, "rotate")
    /\ \E c \in Registered :
         /\ ~clients[c].archived /\ clients[c].confidential
         /\ handler' = [handler EXCEPT ![h] =
              [Idle EXCEPT !.pc = "rotate", !.kind = "rotate", !.client = c,
                           !.row = [clients[c] EXCEPT !.secret = Fresh]]]
    /\ UNCHANGED <<clientVars, sources>>

RotateSecret(h) ==
    LET c == handler[h].client
    IN  /\ handler[h].pc = "rotate" /\ rowLock[c] = NoHandler
        /\ clients' = IF clients[c].exists /\ clients[c].confidential
                         /\ ~clients[c].archived
                         THEN [clients EXCEPT ![c].secret = handler[h].row.secret]
                         ELSE clients
        /\ Finish(h)
        /\ UNCHANGED <<systems, relations, rowLock, written, sources, boundVars>>

archiveClient(h) ==
    /\ Arrives(h, "archive")
    /\ \E c \in Registered :
         /\ rowLock[c] = NoHandler
         /\ clients' = [clients EXCEPT ![c].archived = TRUE, ![c].enabled = FALSE]
    /\ UNCHANGED <<systems, relations, rowLock, written, sources, handler>>

\* DeleteArchived locks the row and refuses a client that is not archived.
deleteArchivedClient(h) ==
    /\ Arrives(h, "delete")
    /\ \E c \in Registered :
         /\ rowLock[c] = NoHandler /\ clients[c].archived
         /\ Locked(h, c)
         /\ handler' = [handler EXCEPT ![h] =
              [Idle EXCEPT !.pc = "delete", !.kind = "delete", !.client = c]]
    /\ UNCHANGED <<systems, clients, relations, written, sources>>

\* The rows that name the client go with it.
DeleteArchived(h) ==
    LET c == handler[h].client
    IN  /\ handler[h].pc = "delete"
        /\ clients' = [clients EXCEPT ![c] = NoRow]
        /\ relations' = {row \in relations : row[1] # c /\ row[2] # c}
        /\ written' = [d \in Clients |-> [written[d] EXCEPT !.related = @ \ {c}]]
        /\ Unlocked(c) /\ Finish(h)
        /\ UNCHANGED <<systems, sources, boundVars>>

\* A statement fails, as a victim of a deadlock does, and the transaction is
\* rolled back; a starting instance exits.
Abort(h) ==
    /\ handler[h].pc \in {"rows", "commit", "delete", "rewrap"}
    /\ rowLock' = [c \in Clients |->
                     IF rowLock[c] = h THEN NoHandler ELSE rowLock[c]]
    /\ Finish(h)
    /\ UNCHANGED <<systems, clients, relations, written, sources, boundVars>>

-----------------------------------------------------------------------------
(***************************************************************************)
(* Identity sources.                                                       *)
(***************************************************************************)
\* SourceService.encrypt: an envelope under the primary key of the instance.
encrypt(secret, key) == [secret |-> secret, key |-> key]

createIdentitySource(h) ==
    /\ Arrives(h, "addSource")
    /\ \E s \in Sources, enabled \in BOOLEAN, key \in Keys :
         /\ ~sources[s].exists
         /\ \E envelope \in {Unset, encrypt(Fresh, key)} :
              sources' = [sources EXCEPT ![s] =
                [exists |-> TRUE, archived |-> FALSE, enabled |-> enabled,
                 envelope |-> envelope, version |-> 0]]
    /\ UNCHANGED <<clientVars, handler>>

\* replaceSource: the secret is cleared, replaced, or stays as it was read.
replaceSource(current, envelope, enabled) ==
    [current EXCEPT !.enabled = enabled, !.envelope = envelope]

replaceIdentitySource(h) ==
    /\ Arrives(h, "source")
    /\ \E s \in Sources, enabled \in BOOLEAN, key \in Keys :
         /\ sources[s].exists /\ ~sources[s].archived
         /\ \E blank \in BOOLEAN, chosen \in {Unset, encrypt(Fresh, key)} :
              LET envelope == IF blank THEN sources[s].envelope ELSE chosen
              IN  handler' = [handler EXCEPT ![h] =
                    [Idle EXCEPT !.pc = "source", !.kind = "source", !.source = s,
                       !.sourceRow = replaceSource(sources[s], envelope, enabled),
                       !.blank = blank]]
    /\ UNCHANGED <<clientVars, sources>>

\* The UPDATE sets every column from the row that was read, the ciphertext too.
ReplaceSource(h) ==
    LET s == handler[h].source
    IN  /\ handler[h].pc = "source"
        /\ sources' = IF sources[s].archived THEN sources
                      ELSE [sources EXCEPT ![s] =
                        [handler[h].sourceRow EXCEPT !.version = sources[s].version + 1]]
        /\ Finish(h)
        /\ UNCHANGED <<clientVars, boundVars>>

\* A source that a client in use binds is not archived.
archiveIdentitySource(h) ==
    /\ Arrives(h, "archiveSource")
    /\ \E s \in Sources :
         /\ sources[s].exists
         /\ \A c \in Registered : s \in Related(c) => clients[c].archived
         /\ handler' = [handler EXCEPT ![h] =
              [Idle EXCEPT !.pc = "archiveSource", !.kind = "archiveSource",
                           !.source = s]]
    /\ UNCHANGED <<clientVars, sources>>

ArchiveSource(h) ==
    /\ handler[h].pc = "archiveSource"
    /\ sources' = [sources EXCEPT ![handler[h].source].archived = TRUE,
                                  ![handler[h].source].enabled = FALSE]
    /\ Finish(h)
    /\ UNCHANGED <<clientVars, boundVars>>

\* RewrapSourceSecrets of an instance that starts with this primary key: the
\* envelopes of another key are sealed again, one by one.
RewrapSourceSecrets(h) ==
    /\ Arrives(h, "rewrap")
    /\ \E key \in Keys :
         handler' = [handler EXCEPT ![h] =
           [Idle EXCEPT !.pc = "rewrap", !.kind = "rewrap", !.key = key,
              !.records = [s \in Sources |->
                 IF sources[s].envelope.key = key THEN Unset
                                                  ELSE sources[s].envelope]]]
    /\ UNCHANGED <<clientVars, sources>>

\* Mutant of ReplaceSourceSecretCiphertext: what is stored is not compared.
ReplaceAnySecretCiphertext(s, listed, sealed) ==
    sources' = [sources EXCEPT ![s].envelope = sealed]

\* ReplaceSourceSecretCiphertext writes over the envelope that was listed only.
ReplaceSourceSecretCiphertext(s, listed, sealed) ==
    sources' = IF sources[s].envelope = listed
                  THEN [sources EXCEPT ![s].envelope = sealed]
                  ELSE sources

RewrapNext(h) ==
    /\ handler[h].pc = "rewrap"
    /\ \E s \in Sources :
         LET listed == handler[h].records[s]
         IN  /\ listed # Unset
             /\ ReplaceSourceSecretCiphertext(
                   s, listed, encrypt(listed.secret, handler[h].key))
             /\ handler' = [handler EXCEPT ![h].records[s] = Unset]
    /\ UNCHANGED <<clientVars, boundVars>>

RewrapDone(h) ==
    /\ handler[h].pc = "rewrap"
    /\ \A s \in Sources : handler[h].records[s] = Unset
    /\ Finish(h)
    /\ UNCHANGED <<clientVars, sources, boundVars>>

RegistryNext ==
    \E h \in Handlers :
        \/ createSystem(h) \/ deleteSystem(h)
        \/ createClient(h) \/ replaceClient(h)
        \/ validateClientSystem(h) \/ validateClientIdentitySources(h)
        \/ validateClientIntrospectionPermissions(h)
        \/ Create(h) \/ UpdateRow(h) \/ SeeRows(h) \/ CommitReplace(h)
        \/ rotateClientSecret(h) \/ RotateSecret(h)
        \/ archiveClient(h) \/ deleteArchivedClient(h) \/ Abort(h)
        \/ createIdentitySource(h)
        \/ replaceIdentitySource(h) \/ ReplaceSource(h)
        \/ archiveIdentitySource(h) \/ ArchiveSource(h)
        \/ RewrapSourceSecrets(h) \/ RewrapNext(h) \/ RewrapDone(h)
=============================================================================
