---------------------------- MODULE AccessProofs ----------------------------
(***************************************************************************)
(* The registry and the roles of its clients, for any number of clients,   *)
(* sources, roles, permissions, users and requests under way.              *)
(*                                                                         *)
(* A request writes rows it has read or checked several statements before. *)
(* What has stayed as it was is what its locks protect: the row of a       *)
(* client from the UPDATE of a replacement to its commit, a role or a      *)
(* permission from the SELECT ... FOR UPDATE of a deletion to its DELETE.  *)
(***************************************************************************)
EXTENDS Access, TLAPS

\* The statements of a creation or a replacement, and those after each check.
Configuring == {"system", "sources", "introspectors", "insert", "update", "rows", "commit"}
SourcesSeen == {"introspectors", "insert", "update", "rows", "commit"}

\* What a request on a client knows.
ConfiguresOK(h) ==
    /\ handler[h].pc \in Configuring =>
         /\ handler[h].client \in Clients /\ handler[h].input \in Inputs
         /\ handler[h].row.exists /\ ~handler[h].row.archived
         /\ handler[h].row.system \in Systems
    /\ handler[h].pc \in SourcesSeen =>
         \A s \in handler[h].input.sources : sources[s].exists
    /\ handler[h].pc \in {"rows", "commit"} => handler[h].row.system \in systems

LocksOK(h) ==
    /\ handler[h].pc \in {"rotate", "delete"} => handler[h].client \in Clients
    /\ handler[h].pc \in {"rows", "commit", "delete"} =>
         rowLock[handler[h].client] = h /\ clients[handler[h].client].exists
    /\ handler[h].pc \in {"rows", "commit"} => ~clients[handler[h].client].archived
    /\ handler[h].pc = "commit" =>
         /\ \A row \in handler[h].seen : row[1] = handler[h].client
         /\ \A x \in Sources \union Clients :
              <<handler[h].client, x>> \in relations
                => <<handler[h].client, x>> \in handler[h].seen

\* A replacement under way knows the source as it was, and which version that was:
\* if nobody replaced it since, a secret it leaves blank is the one that is stored.
SourceOK(h) ==
    /\ handler[h].pc \in {"source", "archiveSource"} =>
         handler[h].source \in Sources /\ sources[handler[h].source].exists
    /\ handler[h].pc = "source" =>
         /\ handler[h].sourceRow.exists /\ ~handler[h].sourceRow.archived
         /\ handler[h].sourceRow.version <= sources[handler[h].source].version
         /\ /\ handler[h].blank
            /\ handler[h].sourceRow.version = sources[handler[h].source].version
            => SameSecret(sources[handler[h].source].envelope, handler[h].sourceRow.envelope)
    /\ handler[h].pc = "rewrap" => handler[h].key \in Keys

\* Archived rows are there, and disabled; locked ones are there.
ArchivedOK ==
    /\ \A c \in Clients : rowLock[c] # NoHandler => clients[c].exists
    /\ \A c \in Clients : clients[c].archived => clients[c].exists /\ ~clients[c].enabled
    /\ \A s \in Sources : sources[s].archived => sources[s].exists /\ ~sources[s].enabled

Configuration ==
    [oauth : BOOLEAN, system : Systems, related : SUBSET (Sources \union Clients)]

RegistryInv ==
    /\ RegistryTypeOK /\ written \in [Clients -> Configuration]
    /\ ArchivedOK /\ ConfigIsWhole
    /\ \A h \in Handlers : ConfiguresOK(h) /\ LocksOK(h) /\ SourceOK(h)

-----------------------------------------------------------------------------
\* An identifier that was drawn and whose row is not inserted yet.
Inserting(o) == \E k \in Clerks : clerk[k].pc = "insert" /\ clerk[k].of = o

\* What a request on a role or a permission knows.
ObjectOK(k) ==
    /\ clerk[k].pc \in {"insert", "lock", "use", "remove"} =>
         clerk[k].of \in Objects /\ clerk[k].client \in Clients
    /\ clerk[k].pc = "insert" =>
         /\ clerk[k].of \in drawn /\ owner[clerk[k].of] = NoClient
         /\ \A j \in Clerks : clerk[j].pc = "insert" /\ clerk[j].of = clerk[k].of => j = k
    /\ clerk[k].pc \in {"use", "remove"} => objectLock[clerk[k].of] = k
    /\ clerk[k].pc = "remove" => ~InUse(clerk[k].of)

\* What a request on mappings or grants knows: the objects of a mapping belong
\* to its client, or are gone; they do not come back.
RowsOK(k) ==
    /\ clerk[k].pc \in {"exist", "see", "commit"} =>
         \/ /\ clerk[k].kind = "map" /\ clerk[k].client \in Clients
            /\ clerk[k].of \in Roles /\ clerk[k].asked \subseteq Permissions
         \/ /\ clerk[k].kind = "grant"
            /\ clerk[k].of \in Users /\ clerk[k].asked \subseteq Roles
    /\ clerk[k].pc \in {"see", "commit"} /\ clerk[k].kind = "map" =>
         \A o \in clerk[k].asked \union {clerk[k].of} :
             /\ o \in drawn /\ ~Inserting(o)
             /\ owner[o] \in {clerk[k].client, NoClient}
    /\ clerk[k].pc = "commit" => \A row \in clerk[k].seen : row[1] = clerk[k].of

\* A role maps to permissions of its own client.
OwnMappings == \A row \in mapping : owner[row[1]] = owner[row[2]]

AccessInv == TypeOK /\ OwnMappings /\ \A k \in Clerks : ObjectOK(k) /\ RowsOK(k)
-----------------------------------------------------------------------------
(***************************************************************************)
(* The registry.  A step is one of handler h; what the others know stays.  *)
(***************************************************************************)
\* A source stays, and its secret stays until a replacement counts a new version.
SourceGrows(old, new) ==
    \/ new = old
    \/ old.exists => /\ new.exists /\ new.version \in Nat
                     /\ \/ new.version > old.version
                        \/ /\ new.version = old.version
                           /\ SameSecret(old.envelope, new.envelope)

StepKeeps(h) ==
    /\ \A g \in Handlers : g # h => handler'[g] = handler[g]
    /\ \A s \in Sources : SourceGrows(sources[s], sources'[s])
    /\ \A g \in Handlers : g # h /\ handler[g].pc \in {"rows", "commit"} =>
         (handler[g].row.system \in systems => handler[g].row.system \in systems')
    /\ \A c \in Clients : rowLock[c] # h /\ rowLock[c] # NoHandler =>
         /\ rowLock'[c] = rowLock[c]
         /\ clients'[c].exists = clients[c].exists
         /\ clients'[c].archived = clients[c].archived
         /\ \A x \in Sources \union Clients :
              <<c, x>> \in relations' => <<c, x>> \in relations

LEMMA OthersKeep ==
    ASSUME RegistryInv, NEW h \in Handlers, StepKeeps(h)
    PROVE  \A g \in Handlers : g # h => ConfiguresOK(g)' /\ LocksOK(g)' /\ SourceOK(g)'
<1> SUFFICES ASSUME NEW g \in Handlers, g # h
             PROVE  ConfiguresOK(g)' /\ LocksOK(g)' /\ SourceOK(g)'
  OBVIOUS
<1>0. /\ handler'[g] = handler[g] /\ handler[g] \in Handler /\ g # NoHandler
      /\ ConfiguresOK(g) /\ LocksOK(g) /\ SourceOK(g)
  BY RegistryAssumption DEF StepKeeps, RegistryInv, RegistryTypeOK
<1>1. ConfiguresOK(g)'
  <2>1. handler[g].pc \in Configuring => handler[g].input.sources \subseteq Sources
    BY <1>0, RegistryAssumption DEF ConfiguresOK, Input
  <2>2. SourcesSeen \subseteq Configuring
    BY DEF SourcesSeen, Configuring
  <2> QED BY <1>0, <2>1, <2>2 DEF ConfiguresOK, StepKeeps, SourceGrows
<1>2. LocksOK(g)'
  <2>1. handler[g].pc \in {"rows", "commit", "delete"} => handler[g].client \in Clients
    BY <1>0 DEF ConfiguresOK, LocksOK, Configuring
  <2> QED BY <1>0, <2>1 DEF LocksOK, StepKeeps
<1>3. SourceOK(g)'
  <2>1. CASE handler[g].pc = "source"
    <3>1. PICK s \in Sources : s = handler[g].source
      BY <1>0, <2>1 DEF SourceOK
    <3>2. SourceGrows(sources[s], sources'[s]) /\ sources[s].exists
      BY <1>0, <2>1, <3>1 DEF SourceOK, StepKeeps
    <3>3. sources[s].version \in Nat /\ handler[g].sourceRow.version \in Nat
      BY <1>0 DEF RegistryInv, RegistryTypeOK, Source, Handler
    <3>4. CASE sources'[s] = sources[s]
      BY <1>0, <2>1, <3>1, <3>4 DEF SourceOK
    <3>5. CASE sources'[s] # sources[s]
      <4>1. sources'[s].exists /\ handler[g].sourceRow.version <= sources'[s].version
        BY <1>0, <2>1, <3>1, <3>2, <3>3, <3>5 DEF SourceOK, SourceGrows
      <4>2. handler[g].blank /\ handler[g].sourceRow.version = sources'[s].version
            => SameSecret(sources'[s].envelope, handler[g].sourceRow.envelope)
        BY <1>0, <2>1, <3>1, <3>2, <3>3, <3>5 DEF SourceOK, SourceGrows, SameSecret
      <4> QED BY <1>0, <2>1, <3>1, <4>1, <4>2 DEF SourceOK
    <3> QED BY <3>4, <3>5
  <2>2. CASE handler[g].pc # "source"
    BY <1>0, <2>2 DEF SourceOK, StepKeeps, SourceGrows
  <2> QED BY <2>1, <2>2
<1> QED BY <1>1, <1>2, <1>3

LEMMA IdleTypes ==
    Idle \in Handler /\ NoRow \in Client /\ Unset \in Envelope /\ NoSourceRow \in Source
<1>1. 0 \in Secret
  BY RegistryAssumption DEF Secret
<1>2. NoRow \in Client /\ Unset \in Envelope /\ NoSourceRow \in Source
  BY <1>1 DEF NoRow, Client, Unset, Envelope, NoSourceRow, Source
<1> QED BY <1>2 DEF Idle, Handler

LEMMA CountedTypes ==
    ASSUME RegistryTypeOK, NEW kind, Counted(kind) \/ UNCHANGED boundVars
    PROVE  /\ load' \in Workloads /\ requests' \in 0..MaxRequests
           /\ Counted(kind) => Fresh \in Secret
BY RegistryAssumption DEF RegistryTypeOK, Counted, boundVars, Fresh, Secret

\* A step that only moves handler h on.
LEMMA HandlerMoves ==
    ASSUME RegistryInv, NEW h \in Handlers, NEW q \in Handler,
           handler' = [handler EXCEPT ![h] = q], UNCHANGED <<clientVars, sources>>,
           load' \in Workloads, requests' \in 0..MaxRequests,
           ConfiguresOK(h)', LocksOK(h)', SourceOK(h)'
    PROVE  RegistryInv'
<1>1. RegistryTypeOK' /\ written' \in [Clients -> Configuration]
  BY DEF RegistryInv, RegistryTypeOK, clientVars, Registered
<1>2. ArchivedOK' /\ ConfigIsWhole'
  BY DEF RegistryInv, ArchivedOK, ConfigIsWhole, clientVars, Registered, Related
<1>3. StepKeeps(h)
  BY DEF StepKeeps, SourceGrows, RegistryInv, RegistryTypeOK, clientVars
<1> QED BY <1>1, <1>2, <1>3, OthersKeep DEF RegistryInv

LEMMA HandlerEnds ==
    ASSUME RegistryInv, NEW h \in Handlers, Finish(h), UNCHANGED <<clientVars, sources>>,
           UNCHANGED boundVars
    PROVE  RegistryInv'
<1>1. ConfiguresOK(h)' /\ LocksOK(h)' /\ SourceOK(h)'
  BY DEF Finish, Idle, RegistryInv, RegistryTypeOK, ConfiguresOK, LocksOK, SourceOK,
         Configuring, SourcesSeen
<1> QED BY <1>1, HandlerMoves, IdleTypes DEF Finish, RegistryInv, RegistryTypeOK, boundVars

LEMMA OwnIdle ==
    ASSUME NEW h \in Handlers, handler'[h].pc = "idle"
    PROVE  ConfiguresOK(h)' /\ LocksOK(h)' /\ SourceOK(h)'
BY DEF ConfiguresOK, LocksOK, SourceOK, Configuring, SourcesSeen

LEMMA Ends ==
    ASSUME RegistryInv, NEW h \in Handlers, Finish(h)
    PROVE  /\ handler' \in [Handlers -> Handler] /\ handler'[h].pc = "idle"
           /\ \A g \in Handlers : g # h => handler'[g] = handler[g]
BY IdleTypes DEF RegistryInv, RegistryTypeOK, Finish, Idle

\* A step that changes the tables, after which h has nothing under way.
LEMMA TableStep ==
    ASSUME RegistryInv, NEW h \in Handlers, RegistryTypeOK',
           written' \in [Clients -> Configuration], ArchivedOK', ConfigIsWhole',
           StepKeeps(h), handler'[h].pc = "idle"
    PROVE  RegistryInv'
BY OwnIdle, OthersKeep DEF RegistryInv

LEMMA GotoKeeps ==
    ASSUME RegistryInv, NEW h \in Handlers, NEW pc, Goto(h, pc),
           pc \in {"system", "sources", "introspectors", "insert", "update", "rows", "commit"}
    PROVE  /\ handler' = [handler EXCEPT ![h] = handler'[h]]
           /\ handler'[h] \in Handler
           /\ handler'[h].pc = pc /\ handler'[h].client = handler[h].client
           /\ handler'[h].input = handler[h].input /\ handler'[h].row = handler[h].row
<1>1. handler \in [Handlers -> Handler] /\ handler' = [handler EXCEPT ![h].pc = pc]
  BY DEF RegistryInv, RegistryTypeOK, Goto
<1>2. handler'[h] = [handler[h] EXCEPT !.pc = pc]
      /\ handler' = [handler EXCEPT ![h] = handler'[h]]
  BY <1>1
<1> QED BY <1>1, <1>2 DEF Handler

LEMMA CreateClientKeeps ==
    ASSUME RegistryInv, NEW h \in Handlers, createClient(h)
    PROVE  RegistryInv'
<1>1. PICK c \in Clients, input \in Inputs, confidential \in BOOLEAN :
        handler' = [handler EXCEPT ![h] =
              [Idle EXCEPT !.pc = IF input.system = NoSystem THEN "sources"
                                                             ELSE "system",
                           !.kind = "create", !.client = c, !.input = input,
                           !.row = New(c, input, confidential)]]
  BY DEF createClient
<1>2. PICK pc \in {"sources", "system"} : pc = IF input.system = NoSystem THEN "sources" ELSE "system"
  OBVIOUS
<1>3. PICK row : row = New(c, input, confidential)
  OBVIOUS
<1>4. Fresh \in Secret /\ 0 \in Secret /\ load' \in Workloads /\ requests' \in 0..MaxRequests
  BY CountedTypes, RegistryAssumption DEF createClient, Arrives, RegistryInv, Secret
<1>5. input \in Input /\ c \in Systems
  BY RegistryAssumption
<1>6. row \in Client /\ row.exists /\ ~row.archived /\ row.system \in Systems
  BY <1>3, <1>4, <1>5 DEF New, Client, effectiveSystemID, Input
<1>7. PICK q : q = [Idle EXCEPT !.pc = pc, !.kind = "create", !.client = c,
                                !.input = input, !.row = row]
  OBVIOUS
<1>8. /\ q \in Handler /\ q.pc = pc /\ q.client = c /\ q.input = input /\ q.row = row
  BY <1>6, <1>7, IdleTypes DEF Idle, Handler, Kinds
<1>9. handler' = [handler EXCEPT ![h] = q]
  BY <1>1, <1>2, <1>3, <1>7
<1>10. handler'[h] = q
  BY <1>9 DEF RegistryInv, RegistryTypeOK
<1>11. ConfiguresOK(h)' /\ LocksOK(h)' /\ SourceOK(h)'
  BY <1>2, <1>6, <1>8, <1>10 DEF ConfiguresOK, LocksOK, SourceOK, Configuring, SourcesSeen
<1> QED BY <1>4, <1>8, <1>9, <1>11, HandlerMoves DEF createClient

LEMMA ReplaceClientKeeps ==
    ASSUME RegistryInv, NEW h \in Handlers, replaceClient(h)
    PROVE  RegistryInv'
<1>1. PICK c \in Registered, input \in Inputs :
        /\ ~clients[c].archived
        /\ handler' = [handler EXCEPT ![h] =
              [Idle EXCEPT !.pc = "system", !.kind = "replace", !.client = c,
                           !.input = input, !.row = Replace(clients[c], input)]]
  BY DEF replaceClient
<1>2. PICK row : row = Replace(clients[c], input)
  OBVIOUS
<1>3. load' \in Workloads /\ requests' \in 0..MaxRequests
  BY CountedTypes DEF replaceClient, Arrives, RegistryInv
<1>4. input \in Input /\ c \in Clients /\ clients[c] \in Client /\ clients[c].exists
      /\ clients[c].system \in Systems
  BY RegistryAssumption DEF Registered, RegistryInv, RegistryTypeOK
<1>5. row \in Client /\ row.exists /\ ~row.archived /\ row.system \in Systems
  BY <1>1, <1>2, <1>4 DEF Replace, Client, effectiveSystemID, Input
<1>6. PICK q : q = [Idle EXCEPT !.pc = "system", !.kind = "replace", !.client = c,
                                !.input = input, !.row = row]
  OBVIOUS
<1>7. q \in Handler /\ q.pc = "system" /\ q.client = c /\ q.input = input /\ q.row = row
  BY <1>4, <1>5, <1>6, IdleTypes DEF Idle, Handler, Kinds
<1>8. handler' = [handler EXCEPT ![h] = q] /\ handler'[h] = q
  BY <1>1, <1>2, <1>6 DEF RegistryInv, RegistryTypeOK
<1>9. ConfiguresOK(h)' /\ LocksOK(h)' /\ SourceOK(h)'
  BY <1>4, <1>5, <1>7, <1>8 DEF ConfiguresOK, LocksOK, SourceOK, Configuring, SourcesSeen
<1> QED BY <1>3, <1>7, <1>8, <1>9, HandlerMoves DEF replaceClient

LEMMA ValidationsKeep ==
    ASSUME RegistryInv, NEW h \in Handlers,
           \/ validateClientSystem(h) \/ validateClientIdentitySources(h)
           \/ validateClientIntrospectionPermissions(h)
    PROVE  RegistryInv'
<1>0. UNCHANGED <<clientVars, sources>> /\ UNCHANGED boundVars
  BY DEF validateClientSystem, validateClientIdentitySources,
         validateClientIntrospectionPermissions
<1>1. CASE Finish(h)
  BY <1>0, <1>1, HandlerEnds
<1>2. CASE ~Finish(h)
  <2>1. PICK pc \in {"sources", "introspectors", "insert", "update"} :
          /\ Goto(h, pc) /\ handler[h].pc \in {"system", "sources", "introspectors"}
          /\ pc \in SourcesSeen =>
               \/ \A s \in handler[h].input.sources : sources[s].exists
               \/ handler[h].pc = "introspectors"
    BY <1>2 DEF validateClientSystem, validateClientIdentitySources,
         validateClientIntrospectionPermissions, SourcesSeen
  <2>2. /\ handler' = [handler EXCEPT ![h] = handler'[h]]
        /\ handler'[h] \in Handler
        /\ handler'[h].pc = pc /\ handler'[h].client = handler[h].client
        /\ handler'[h].input = handler[h].input /\ handler'[h].row = handler[h].row
    BY <2>1, GotoKeeps
  <2>3. ConfiguresOK(h) /\ sources' = sources
    BY <1>0 DEF RegistryInv
  <2>4. ConfiguresOK(h)'
    BY <2>1, <2>2, <2>3 DEF ConfiguresOK, Configuring, SourcesSeen
  <2>5. LocksOK(h)' /\ SourceOK(h)'
    BY <2>2 DEF LocksOK, SourceOK
  <2>6. load' \in Workloads /\ requests' \in 0..MaxRequests
    BY <1>0 DEF RegistryInv, RegistryTypeOK, boundVars
  <2>7. PICK q \in Handler : q = handler'[h]
    BY <2>2
  <2>8. handler' = [handler EXCEPT ![h] = q]
    BY <2>2, <2>7
  <2> QED BY <1>0, <2>4, <2>5, <2>6, <2>8, HandlerMoves
<1> QED BY <1>1, <1>2

-----------------------------------------------------------------------------
(***************************************************************************)
(* Systems, and the writes of a client.                                    *)
(***************************************************************************)
LEMMA SystemsKeep ==
    ASSUME RegistryInv, NEW h \in Handlers, createSystem(h) \/ deleteSystem(h)
    PROVE  RegistryInv'
<1>1. /\ UNCHANGED <<clients, relations, rowLock, written, sources, handler>>
      /\ handler'[h].pc = "idle"
      /\ load' \in Workloads /\ requests' \in 0..MaxRequests
  BY CountedTypes DEF createSystem, deleteSystem, Arrives, RegistryInv
<1>2. /\ systems' \subseteq Systems
      /\ \A c \in Registered : clients[c].system \in systems'
      /\ \A g \in Handlers : handler[g].pc \in {"rows", "commit"}
           /\ handler[g].row.system \in systems => handler[g].row.system \in systems'
  BY DEF createSystem, deleteSystem, RegistryInv, RegistryTypeOK, ConfiguresOK
<1>3. RegistryTypeOK' /\ written' \in [Clients -> Configuration]
  BY <1>1, <1>2 DEF RegistryInv, RegistryTypeOK, Registered
<1>4. ArchivedOK' /\ ConfigIsWhole'
  BY <1>1 DEF RegistryInv, ArchivedOK, ConfigIsWhole, Registered, Related
<1>5. StepKeeps(h)
  BY <1>1, <1>2 DEF StepKeeps, SourceGrows
<1> QED BY <1>1, <1>3, <1>4, <1>5, TableStep

\* The rows of relations are pairs, so what they hold is what Related tells.
LEMMA RelationsOf ==
    ASSUME RegistryInv, NEW row \in relations
    PROVE  /\ row = <<row[1], row[2]>>
           /\ row[1] \in Registered /\ row[2] \in Sources \union Clients
           /\ row[2] \in Registered \/ (row[2] \in Sources /\ sources[row[2]].exists)
BY DEF RegistryInv, RegistryTypeOK, Registered

\* What a request asks for.
LEMMA Asked ==
    ASSUME RegistryInv, NEW h \in Handlers, handler[h].pc \in {"insert", "commit"},
           \A i \in handler[h].input.introspectableBy : clients[i].exists
    PROVE  /\ handler[h].client \in Clients
           /\ handler[h].row \in Client /\ handler[h].row.exists
           /\ ~handler[h].row.archived /\ handler[h].row.system \in Systems
           /\ Config(handler[h].row, handler[h].input) \in Configuration
           /\ \A x \in Config(handler[h].row, handler[h].input).related :
                x \in Registered \union {s \in Sources : sources[s].exists}
           /\ NewRows(h) = {handler[h].client} \X
                 Config(handler[h].row, handler[h].input).related
<1>1. ConfiguresOK(h) /\ handler[h] \in Handler
  BY DEF RegistryInv, RegistryTypeOK
<1>2. /\ handler[h].client \in Clients /\ handler[h].input \in Input
      /\ handler[h].row \in Client /\ handler[h].row.exists
      /\ ~handler[h].row.archived /\ handler[h].row.system \in Systems
      /\ \A s \in handler[h].input.sources : sources[s].exists
  BY <1>1, RegistryAssumption DEF ConfiguresOK, Configuring, SourcesSeen, Handler
<1>3. handler[h].input.sources \subseteq Sources
      /\ handler[h].input.introspectableBy \subseteq Clients
  BY <1>2 DEF Input
<1>4. handler[h].row.oauth \in BOOLEAN
  BY <1>2 DEF Client
<1> QED BY <1>2, <1>3, <1>4 DEF Config, Configuration, NewRows, Registered

\* The configuration of client c is written as a whole, those of others not at all.
LEMMA ConfigWritten ==
    ASSUME RegistryInv, NEW c \in Clients, NEW new \in Configuration,
           clients'[c].oauth = new.oauth, clients'[c].system = new.system,
           written'[c] = new,
           \A d \in Clients : d # c => clients'[d] = clients[d] /\ written'[d] = written[d],
           \A d \in Clients : {x \in Sources \union Clients : <<d, x>> \in relations'}
              = IF d = c THEN new.related
                ELSE {x \in Sources \union Clients : <<d, x>> \in relations}
    PROVE  ConfigIsWhole'
<1> SUFFICES ASSUME NEW d \in Clients, clients'[d].exists
             PROVE  /\ clients'[d].oauth = written'[d].oauth
                    /\ clients'[d].system = written'[d].system
                    /\ {x \in Sources \union Clients : <<d, x>> \in relations'}
                         = written'[d].related
  BY DEF ConfigIsWhole, Related, Registered
<1>1. CASE d = c
  BY <1>1
<1>2. CASE d # c
  <2>1. d \in Registered
    BY <1>2 DEF Registered
  <2>2. /\ clients[d].oauth = written[d].oauth
        /\ clients[d].system = written[d].system
        /\ {x \in Sources \union Clients : <<d, x>> \in relations} = written[d].related
    BY <2>1 DEF RegistryInv, ConfigIsWhole, Related
  <2> QED BY <1>2, <2>2
<1> QED BY <1>1, <1>2

LEMMA CreateKeeps ==
    ASSUME RegistryInv, NEW h \in Handlers, Create(h)
    PROVE  RegistryInv'
<1> DEFINE c == handler[h].client
           row == handler[h].row
<1>0. UNCHANGED <<rowLock, sources, boundVars>> /\ Finish(h) /\ handler[h].pc = "insert"
  BY DEF Create
<1>1. CASE ~(~clients[c].exists /\ Insertable(h, relations))
  BY <1>0, <1>1, HandlerEnds DEF Create, clientVars
<1>2. CASE ~clients[c].exists /\ Insertable(h, relations)
  <2>1. /\ systems' = systems \union {row.system}
        /\ clients' = [clients EXCEPT ![c] = row]
        /\ relations' = relations \union NewRows(h)
        /\ written' = [written EXCEPT ![c] = Config(row, handler[h].input)]
    BY <1>2 DEF Create
  <2>2. PICK new : new = Config(row, handler[h].input)
    OBVIOUS
  <2>3. /\ c \in Clients /\ row \in Client /\ row.exists /\ ~row.archived
        /\ row.system \in Systems /\ new \in Configuration
        /\ new.oauth = row.oauth /\ new.system = row.system
        /\ \A x \in new.related : x \in Registered \union {s \in Sources : sources[s].exists}
        /\ NewRows(h) = {c} \X new.related
    BY <1>0, <1>2, <2>2, Asked DEF Insertable, Config
  <2>4. handler' \in [Handlers -> Handler] /\ handler'[h].pc = "idle"
        /\ \A g \in Handlers : g # h => handler'[g] = handler[g]
    BY <1>0, Ends
  <2>5. /\ clients' \in [Clients -> Client] /\ clients'[c] = row
        /\ \A d \in Clients : d # c => clients'[d] = clients[d]
        /\ written' \in [Clients -> Configuration] /\ written'[c] = new
        /\ \A d \in Clients : d # c => written'[d] = written[d]
    BY <2>1, <2>2, <2>3 DEF RegistryInv, RegistryTypeOK
  <2>6. Registered' = Registered \union {c}
    BY <2>3, <2>5 DEF Registered
  <2>7. relations' \subseteq Registered' \X (Registered' \union {s \in Sources : sources'[s].exists})
    BY <1>0, <2>1, <2>3, <2>6 DEF RegistryInv, RegistryTypeOK
  <2>8. \A d \in Registered' : clients'[d].system \in systems'
    BY <2>1, <2>5, <2>6 DEF RegistryInv, RegistryTypeOK
  <2>9. RegistryTypeOK'
    BY <1>0, <2>1, <2>3, <2>4, <2>5, <2>7, <2>8 DEF RegistryInv, RegistryTypeOK, boundVars
  <2>10. ArchivedOK'
    BY <1>0, <2>3, <2>5 DEF RegistryInv, ArchivedOK
  <2>11. \A x \in Sources \union Clients : <<c, x>> \notin relations
    BY <1>2, RelationsOf DEF Registered
  <2>12. \A d \in Clients : {x \in Sources \union Clients : <<d, x>> \in relations'}
            = IF d = c THEN new.related
              ELSE {x \in Sources \union Clients : <<d, x>> \in relations}
    BY <2>1, <2>3, <2>11 DEF Configuration
  <2>13. \A d \in Clients : d # c => {x \in Sources \union Clients : <<d, x>> \in relations'}
                                   = {x \in Sources \union Clients : <<d, x>> \in relations}
    BY <2>12
  <2>14. ConfigIsWhole'
    BY <2>3, <2>5, <2>12, ConfigWritten
  <2>15. \A d \in Clients : rowLock[d] # h /\ rowLock[d] # NoHandler =>
         /\ clients'[d].exists = clients[d].exists
         /\ clients'[d].archived = clients[d].archived
         /\ \A x \in Sources \union Clients :
              <<d, x>> \in relations' => <<d, x>> \in relations
    <3>1. \A d \in Clients : rowLock[d] # NoHandler => d # c
      BY <1>2 DEF RegistryInv, ArchivedOK
    <3> QED BY <2>5, <2>13, <3>1
  <2>16. StepKeeps(h)
    BY <1>0, <2>1, <2>4, <2>15 DEF StepKeeps, SourceGrows
  <2> QED BY <2>4, <2>5, <2>9, <2>10, <2>14, <2>16, TableStep
<1> QED BY <1>1, <1>2

LEMMA UpdateRowKeeps ==
    ASSUME RegistryInv, NEW h \in Handlers, UpdateRow(h)
    PROVE  RegistryInv'
<1> DEFINE c == handler[h].client
<1>0. /\ UNCHANGED <<systems, clients, relations, written, sources, boundVars>>
      /\ handler[h].pc = "update" /\ rowLock[c] = NoHandler
  BY DEF UpdateRow
<1>1. CASE ~(clients[c].exists /\ ~clients[c].archived /\ handler[h].row.system \in systems)
  BY <1>0, <1>1, HandlerEnds DEF UpdateRow, clientVars
<1>2. CASE clients[c].exists /\ ~clients[c].archived /\ handler[h].row.system \in systems
  <2>1. Goto(h, "rows") /\ rowLock' = [rowLock EXCEPT ![c] = h]
    BY <1>2 DEF UpdateRow, Locked
  <2>2. /\ handler' = [handler EXCEPT ![h] = handler'[h]]
        /\ handler'[h] \in Handler
        /\ handler'[h].pc = "rows" /\ handler'[h].client = handler[h].client
        /\ handler'[h].input = handler[h].input /\ handler'[h].row = handler[h].row
    BY <2>1, GotoKeeps
  <2>3. ConfiguresOK(h) /\ c \in Clients
    BY <1>0 DEF RegistryInv, ConfiguresOK, Configuring
  <2>4. /\ rowLock' \in [Clients -> Handlers \union {NoHandler}] /\ rowLock'[c] = h
        /\ \A d \in Clients : d # c => rowLock'[d] = rowLock[d]
    BY <2>1, <2>3 DEF RegistryInv, RegistryTypeOK
  <2>5. ConfiguresOK(h)'
    BY <1>0, <1>2, <2>2, <2>3 DEF ConfiguresOK, Configuring, SourcesSeen
  <2>6. LocksOK(h)' /\ SourceOK(h)'
    BY <1>0, <1>2, <2>2, <2>4 DEF LocksOK, SourceOK
  <2>7. handler' \in [Handlers -> Handler] /\ \A g \in Handlers : g # h => handler'[g] = handler[g]
    BY <2>2 DEF RegistryInv, RegistryTypeOK
  <2>8. RegistryTypeOK' /\ written' \in [Clients -> Configuration]
    BY <1>0, <2>4, <2>7 DEF RegistryInv, RegistryTypeOK, Registered, boundVars
  <2>9. ArchivedOK' /\ ConfigIsWhole'
    BY <1>0, <1>2, <2>4 DEF RegistryInv, ArchivedOK, ConfigIsWhole, Registered, Related
  <2>10. StepKeeps(h)
    BY <1>0, <2>4, <2>7 DEF StepKeeps, SourceGrows
  <2> QED BY <2>5, <2>6, <2>8, <2>9, <2>10, OthersKeep DEF RegistryInv
<1> QED BY <1>1, <1>2

LEMMA SeeRowsKeeps ==
    ASSUME RegistryInv, NEW h \in Handlers, SeeRows(h)
    PROVE  RegistryInv'
<1> DEFINE c == handler[h].client
<1>1. /\ UNCHANGED <<clientVars, sources>> /\ UNCHANGED boundVars /\ handler[h].pc = "rows"
      /\ ConfiguresOK(h) /\ LocksOK(h) /\ handler[h] \in Handler
  BY DEF SeeRows, RegistryInv, RegistryTypeOK
<1>2. PICK seen : seen = {c} \X Related(c)
  OBVIOUS
<1>3. c \in Clients /\ seen \subseteq Clients \X (Sources \union Clients)
  BY <1>1, <1>2 DEF ConfiguresOK, Configuring, Related
<1>4. PICK q : q = [handler[h] EXCEPT !.pc = "commit", !.seen = seen]
  OBVIOUS
<1>5. q \in Handler /\ q.pc = "commit" /\ q.client = c /\ q.input = handler[h].input
      /\ q.row = handler[h].row /\ q.seen = seen
  BY <1>1, <1>3, <1>4 DEF Handler
<1>6. handler' = [handler EXCEPT ![h] = q] /\ handler'[h] = q
  BY <1>2, <1>4 DEF SeeRows, RegistryInv, RegistryTypeOK
<1>7. ConfiguresOK(h)'
  BY <1>1, <1>5, <1>6 DEF ConfiguresOK, Configuring, SourcesSeen, clientVars
<1>8. /\ \A row \in seen : row[1] = c
      /\ \A x \in Sources \union Clients : <<c, x>> \in relations => <<c, x>> \in seen
  BY <1>2 DEF Related
<1>9. LocksOK(h)' /\ SourceOK(h)'
  BY <1>1, <1>5, <1>6, <1>8 DEF LocksOK, SourceOK, clientVars
<1>10. load' \in Workloads /\ requests' \in 0..MaxRequests
  BY <1>1 DEF RegistryInv, RegistryTypeOK, boundVars
<1> QED BY <1>1, <1>5, <1>6, <1>7, <1>9, <1>10, HandlerMoves

\* The transaction of h ends and gives up the row of its client.
LEMMA Releases ==
    ASSUME RegistryInv, NEW h \in Handlers, handler[h].pc \in {"rows", "commit", "delete"},
           Unlocked(handler[h].client)
    PROVE  /\ handler[h].client \in Clients /\ rowLock[handler[h].client] = h
           /\ clients[handler[h].client].exists /\ h # NoHandler
           /\ rowLock' \in [Clients -> Handlers \union {NoHandler}]
           /\ rowLock'[handler[h].client] = NoHandler
           /\ \A d \in Clients : d # handler[h].client => rowLock'[d] = rowLock[d]
<1>1. handler[h].client \in Clients /\ rowLock[handler[h].client] = h
      /\ clients[handler[h].client].exists /\ h # NoHandler
  BY RegistryAssumption DEF RegistryInv, ConfiguresOK, LocksOK, Configuring
<1> QED BY <1>1 DEF Unlocked, RegistryInv, RegistryTypeOK

LEMMA CommitReplaceKeeps ==
    ASSUME RegistryInv, NEW h \in Handlers, CommitReplace(h)
    PROVE  RegistryInv'
<1> DEFINE c == handler[h].client
           row == handler[h].row
           rest == relations \ handler[h].seen
<1>0. UNCHANGED <<systems, sources, boundVars>> /\ Unlocked(c) /\ Finish(h)
      /\ handler[h].pc = "commit"
  BY DEF CommitReplace
<1>1. /\ c \in Clients /\ rowLock[c] = h /\ clients[c].exists /\ h # NoHandler
      /\ rowLock' \in [Clients -> Handlers \union {NoHandler}]
      /\ rowLock'[c] = NoHandler
      /\ \A d \in Clients : d # c => rowLock'[d] = rowLock[d]
  BY <1>0, Releases
<1>2. /\ handler' \in [Handlers -> Handler] /\ handler'[h].pc = "idle"
      /\ \A g \in Handlers : g # h => handler'[g] = handler[g]
  BY <1>0, Ends
<1>3. CASE ~Insertable(h, rest)
  <2>1. UNCHANGED <<clients, relations, written>>
    BY <1>3 DEF CommitReplace
  <2>2. RegistryTypeOK' /\ written' \in [Clients -> Configuration]
    BY <1>0, <1>1, <1>2, <2>1 DEF RegistryInv, RegistryTypeOK, Registered, boundVars
  <2>3. ArchivedOK' /\ ConfigIsWhole'
    BY <1>0, <1>1, <2>1 DEF RegistryInv, ArchivedOK, ConfigIsWhole, Registered, Related
  <2>4. StepKeeps(h)
    BY <1>0, <1>1, <1>2, <2>1 DEF StepKeeps, SourceGrows
  <2> QED BY <1>2, <2>2, <2>3, <2>4, TableStep
<1>4. CASE Insertable(h, rest)
  <2>1. /\ clients' = [clients EXCEPT ![c] = SetColumns(clients[c], row)]
        /\ relations' = rest \union NewRows(h)
        /\ written' = [written EXCEPT ![c] = Config(row, handler[h].input)]
    BY <1>4 DEF CommitReplace
  <2>2. PICK new : new = Config(row, handler[h].input)
    OBVIOUS
  <2>3. /\ row \in Client /\ row.system \in Systems /\ new \in Configuration
        /\ new.oauth = row.oauth /\ new.system = row.system
        /\ \A x \in new.related : x \in Registered \union {s \in Sources : sources[s].exists}
        /\ NewRows(h) = {c} \X new.related
    BY <1>0, <1>4, <2>2, Asked DEF Insertable, Config
  <2>4. LocksOK(h) /\ ConfiguresOK(h) /\ clients[c] \in Client
    BY <1>1 DEF RegistryInv, RegistryTypeOK
  <2>5. PICK r : r = SetColumns(clients[c], row)
    OBVIOUS
  <2>6. /\ r \in Client /\ r.exists /\ ~r.archived /\ r.oauth = row.oauth /\ r.system = row.system
    BY <1>0, <1>1, <2>3, <2>4, <2>5 DEF SetColumns, Client, LocksOK
  <2>7. /\ clients' \in [Clients -> Client] /\ clients'[c] = r
        /\ \A d \in Clients : d # c => clients'[d] = clients[d]
        /\ written' \in [Clients -> Configuration] /\ written'[c] = new
        /\ \A d \in Clients : d # c => written'[d] = written[d]
    BY <1>1, <2>1, <2>2, <2>3, <2>5, <2>6 DEF RegistryInv, RegistryTypeOK
  <2>8. Registered' = Registered
    BY <1>1, <2>6, <2>7 DEF Registered
  <2>9. relations' \subseteq Registered' \X (Registered' \union {s \in Sources : sources'[s].exists})
    BY <1>0, <1>1, <2>1, <2>3, <2>8 DEF RegistryInv, RegistryTypeOK, Registered
  <2>10. \A d \in Registered' : clients'[d].system \in systems'
    BY <1>0, <2>4, <2>6, <2>7, <2>8 DEF RegistryInv, RegistryTypeOK, Registered, ConfiguresOK
  <2>11. RegistryTypeOK'
    BY <1>0, <1>1, <1>2, <2>7, <2>9, <2>10 DEF RegistryInv, RegistryTypeOK, boundVars
  <2>12. ArchivedOK'
    BY <1>0, <1>1, <2>6, <2>7 DEF RegistryInv, ArchivedOK
  <2>13. \A d \in Clients : {x \in Sources \union Clients : <<d, x>> \in relations'}
            = IF d = c THEN new.related
              ELSE {x \in Sources \union Clients : <<d, x>> \in relations}
    <3>1. new.related \subseteq Sources \union Clients
      BY <2>3 DEF Configuration
    <3>2. \A x \in Sources \union Clients : <<c, x>> \notin rest
      BY <1>0, <2>4 DEF LocksOK
    <3>3. \A d \in Clients, x \in Sources \union Clients :
            d # c => (<<d, x>> \in rest <=> <<d, x>> \in relations)
      BY <1>0, <2>4 DEF LocksOK
    <3> QED BY <2>1, <2>3, <3>1, <3>2, <3>3
  <2>14. ConfigIsWhole'
    BY <1>1, <2>3, <2>6, <2>7, <2>13, ConfigWritten
  <2>15. \A d \in Clients : d # c => \A x \in Sources \union Clients :
              <<d, x>> \in relations' => <<d, x>> \in relations
    BY <2>13
  <2>16. StepKeeps(h)
    BY <1>0, <1>1, <1>2, <2>7, <2>15 DEF StepKeeps, SourceGrows
  <2> QED BY <1>2, <2>7, <2>11, <2>12, <2>14, <2>16, TableStep
<1> QED BY <1>3, <1>4

-----------------------------------------------------------------------------
(***************************************************************************)
(* Secrets, archiving and deleting.                                        *)
(***************************************************************************)
LEMMA RotateBegins ==
    ASSUME RegistryInv, NEW h \in Handlers, rotateClientSecret(h)
    PROVE  RegistryInv'
<1>1. PICK c \in Registered :
        handler' = [handler EXCEPT ![h] =
              [Idle EXCEPT !.pc = "rotate", !.kind = "rotate", !.client = c,
                           !.row = [clients[c] EXCEPT !.secret = Fresh]]]
  BY DEF rotateClientSecret
<1>2. PICK row : row = [clients[c] EXCEPT !.secret = Fresh]
  OBVIOUS
<1>3. Fresh \in Secret /\ load' \in Workloads /\ requests' \in 0..MaxRequests
  BY CountedTypes DEF rotateClientSecret, Arrives, RegistryInv
<1>4. c \in Clients /\ clients[c] \in Client
  BY DEF Registered, RegistryInv, RegistryTypeOK
<1>5. row \in Client
  BY <1>2, <1>3, <1>4 DEF Client
<1>6. PICK q : q = [Idle EXCEPT !.pc = "rotate", !.kind = "rotate", !.client = c, !.row = row]
  OBVIOUS
<1>7. q \in Handler /\ q.pc = "rotate" /\ q.client = c
  BY <1>4, <1>5, <1>6, IdleTypes DEF Idle, Handler, Kinds
<1>8. handler' = [handler EXCEPT ![h] = q] /\ handler'[h] = q
  BY <1>1, <1>2, <1>6 DEF RegistryInv, RegistryTypeOK
<1>9. ConfiguresOK(h)' /\ LocksOK(h)' /\ SourceOK(h)'
  BY <1>4, <1>7, <1>8 DEF ConfiguresOK, LocksOK, SourceOK, Configuring, SourcesSeen
<1> QED BY <1>3, <1>7, <1>8, <1>9, HandlerMoves DEF rotateClientSecret

\* A step that changes columns of clients which no reference depends on.
LEMMA ColumnsChange ==
    ASSUME RegistryInv, NEW h \in Handlers,
           UNCHANGED <<systems, relations, rowLock, written, sources>>,
           load' \in Workloads, requests' \in 0..MaxRequests,
           clients' \in [Clients -> Client],
           \A c \in Clients : /\ clients'[c].exists = clients[c].exists
                              /\ clients'[c].oauth = clients[c].oauth
                              /\ clients'[c].system = clients[c].system
                              /\ clients'[c].archived => clients'[c].exists /\ ~clients'[c].enabled
                              /\ rowLock[c] # NoHandler => clients'[c].archived = clients[c].archived,
           handler' \in [Handlers -> Handler], handler'[h].pc = "idle",
           \A g \in Handlers : g # h => handler'[g] = handler[g]
    PROVE  RegistryInv'
<1>1. Registered' = Registered
  BY DEF Registered
<1>2. RegistryTypeOK' /\ written' \in [Clients -> Configuration]
  BY <1>1 DEF RegistryInv, RegistryTypeOK, Registered
<1>3. ArchivedOK'
  BY DEF RegistryInv, ArchivedOK
<1>4. ConfigIsWhole'
  BY <1>1 DEF RegistryInv, ConfigIsWhole, Registered, Related
<1>5. StepKeeps(h)
  BY DEF StepKeeps, SourceGrows
<1> QED BY <1>2, <1>3, <1>4, <1>5, TableStep

LEMMA RotateSecretKeeps ==
    ASSUME RegistryInv, NEW h \in Handlers, RotateSecret(h)
    PROVE  RegistryInv'
<1> DEFINE c == handler[h].client
<1>0. /\ UNCHANGED <<systems, relations, rowLock, written, sources, boundVars>>
      /\ Finish(h) /\ handler[h].pc = "rotate"
      /\ clients' = clients \/ clients' = [clients EXCEPT ![c].secret = handler[h].row.secret]
  BY DEF RotateSecret
<1>1. c \in Clients /\ handler[h] \in Handler /\ clients \in [Clients -> Client] /\ clients[c] \in Client
  BY <1>0 DEF RegistryInv, RegistryTypeOK, LocksOK
<1>2. handler[h].row.secret \in Secret
  BY <1>1 DEF Handler, Client
<1>3. PICK r : r = [clients[c] EXCEPT !.secret = handler[h].row.secret]
  OBVIOUS
<1>4. /\ r \in Client /\ r.exists = clients[c].exists /\ r.oauth = clients[c].oauth
      /\ r.system = clients[c].system /\ r.archived = clients[c].archived
      /\ r.enabled = clients[c].enabled
  BY <1>1, <1>2, <1>3 DEF Client
<1>5. clients' = clients \/ clients' = [clients EXCEPT ![c] = r]
  BY <1>0, <1>1, <1>3
<1>6. /\ clients' \in [Clients -> Client]
      /\ \A d \in Clients : /\ clients'[d].exists = clients[d].exists
                            /\ clients'[d].oauth = clients[d].oauth
                            /\ clients'[d].system = clients[d].system
                            /\ clients'[d].archived = clients[d].archived
                            /\ clients'[d].enabled = clients[d].enabled
  BY <1>1, <1>4, <1>5
<1>7. \A d \in Clients : clients'[d].archived => clients'[d].exists /\ ~clients'[d].enabled
  BY <1>6 DEF RegistryInv, ArchivedOK
<1>8. load' \in Workloads /\ requests' \in 0..MaxRequests
  BY <1>0 DEF RegistryInv, RegistryTypeOK, boundVars
<1> QED BY <1>0, <1>6, <1>7, <1>8, Ends, ColumnsChange

LEMMA ArchiveClientKeeps ==
    ASSUME RegistryInv, NEW h \in Handlers, archiveClient(h)
    PROVE  RegistryInv'
<1>0. /\ UNCHANGED <<systems, relations, rowLock, written, sources>> /\ handler' = handler
      /\ handler[h].pc = "idle" /\ load' \in Workloads /\ requests' \in 0..MaxRequests
  BY CountedTypes DEF archiveClient, Arrives, RegistryInv
<1>1. PICK c \in Registered :
        /\ rowLock[c] = NoHandler
        /\ clients' = [clients EXCEPT ![c].archived = TRUE, ![c].enabled = FALSE]
  BY DEF archiveClient
<1>2. c \in Clients /\ clients \in [Clients -> Client] /\ clients[c] \in Client /\ clients[c].exists
  BY DEF RegistryInv, RegistryTypeOK, Registered
<1>3. PICK r : r = [clients[c] EXCEPT !.archived = TRUE, !.enabled = FALSE]
  OBVIOUS
<1>4. /\ r \in Client /\ r.exists = clients[c].exists /\ r.oauth = clients[c].oauth
      /\ r.system = clients[c].system /\ ~r.enabled
  BY <1>2, <1>3 DEF Client
<1>5. clients' = [clients EXCEPT ![c] = r]
  BY <1>1, <1>2, <1>3
<1>6. /\ clients' \in [Clients -> Client]
      /\ \A d \in Clients : /\ clients'[d].exists = clients[d].exists
                            /\ clients'[d].oauth = clients[d].oauth
                            /\ clients'[d].system = clients[d].system
      /\ \A d \in Clients : clients'[d].archived => clients'[d].exists /\ ~clients'[d].enabled
      /\ \A d \in Clients : rowLock[d] # NoHandler => clients'[d].archived = clients[d].archived
  BY <1>1, <1>2, <1>4, <1>5 DEF RegistryInv, ArchivedOK
<1>7. handler' \in [Handlers -> Handler]
  BY <1>0 DEF RegistryInv, RegistryTypeOK
<1> QED BY <1>0, <1>6, <1>7, ColumnsChange

LEMMA DeleteBegins ==
    ASSUME RegistryInv, NEW h \in Handlers, deleteArchivedClient(h)
    PROVE  RegistryInv'
<1>0. /\ UNCHANGED <<systems, clients, relations, written, sources>>
      /\ load' \in Workloads /\ requests' \in 0..MaxRequests
  BY CountedTypes DEF deleteArchivedClient, Arrives, RegistryInv
<1>1. PICK c \in Registered :
        /\ rowLock[c] = NoHandler /\ rowLock' = [rowLock EXCEPT ![c] = h]
        /\ handler' = [handler EXCEPT ![h] =
              [Idle EXCEPT !.pc = "delete", !.kind = "delete", !.client = c]]
  BY DEF deleteArchivedClient, Locked
<1>2. c \in Clients /\ clients[c].exists
  BY DEF Registered
<1>3. PICK q : q = [Idle EXCEPT !.pc = "delete", !.kind = "delete", !.client = c]
  OBVIOUS
<1>4. q \in Handler /\ q.pc = "delete" /\ q.client = c
  BY <1>2, <1>3, IdleTypes DEF Idle, Handler, Kinds
<1>5. /\ handler' \in [Handlers -> Handler] /\ handler'[h] = q
      /\ \A g \in Handlers : g # h => handler'[g] = handler[g]
  BY <1>1, <1>3, <1>4 DEF RegistryInv, RegistryTypeOK
<1>6. /\ rowLock' \in [Clients -> Handlers \union {NoHandler}] /\ rowLock'[c] = h
      /\ \A d \in Clients : d # c => rowLock'[d] = rowLock[d]
  BY <1>1, <1>2 DEF RegistryInv, RegistryTypeOK
<1>7. ConfiguresOK(h)' /\ LocksOK(h)' /\ SourceOK(h)'
  BY <1>0, <1>2, <1>4, <1>5, <1>6 DEF ConfiguresOK, LocksOK, SourceOK, Configuring, SourcesSeen
<1>8. RegistryTypeOK' /\ written' \in [Clients -> Configuration]
  BY <1>0, <1>5, <1>6 DEF RegistryInv, RegistryTypeOK, Registered
<1>9. ArchivedOK' /\ ConfigIsWhole'
  BY <1>0, <1>2, <1>6 DEF RegistryInv, ArchivedOK, ConfigIsWhole, Registered, Related
<1>10. StepKeeps(h)
  BY <1>0, <1>1, <1>5, <1>6 DEF StepKeeps, SourceGrows
<1> QED BY <1>7, <1>8, <1>9, <1>10, OthersKeep DEF RegistryInv

LEMMA DeleteArchivedKeeps ==
    ASSUME RegistryInv, NEW h \in Handlers, DeleteArchived(h)
    PROVE  RegistryInv'
<1> DEFINE c == handler[h].client
<1>0. UNCHANGED <<systems, sources, boundVars>> /\ Unlocked(c) /\ Finish(h)
      /\ handler[h].pc = "delete"
      /\ clients' = [clients EXCEPT ![c] = NoRow]
      /\ relations' = {row \in relations : row[1] # c /\ row[2] # c}
      /\ written' = [d \in Clients |-> [written[d] EXCEPT !.related = @ \ {c}]]
  BY DEF DeleteArchived
<1>1. /\ c \in Clients /\ rowLock[c] = h /\ clients[c].exists /\ h # NoHandler
      /\ rowLock' \in [Clients -> Handlers \union {NoHandler}]
      /\ rowLock'[c] = NoHandler
      /\ \A d \in Clients : d # c => rowLock'[d] = rowLock[d]
  BY <1>0, Releases
<1>2. /\ handler' \in [Handlers -> Handler] /\ handler'[h].pc = "idle"
      /\ \A g \in Handlers : g # h => handler'[g] = handler[g]
  BY <1>0, Ends
<1>3. /\ clients' \in [Clients -> Client] /\ clients'[c] = NoRow
      /\ \A d \in Clients : d # c => clients'[d] = clients[d]
  BY <1>0, <1>1, IdleTypes DEF RegistryInv, RegistryTypeOK
<1>4. ~NoRow.exists /\ ~NoRow.archived
  BY DEF NoRow
<1>5. Registered' = Registered \ {c}
  BY <1>3, <1>4 DEF Registered
<1>6. \A d \in Clients : /\ written'[d] \in Configuration
                         /\ written'[d].oauth = written[d].oauth
                         /\ written'[d].system = written[d].system
                         /\ written'[d].related = written[d].related \ {c}
  BY <1>0 DEF RegistryInv, Configuration
<1>7. written' \in [Clients -> Configuration]
  BY <1>0, <1>6
<1>8. relations' \subseteq Registered' \X (Registered' \union {s \in Sources : sources'[s].exists})
  BY <1>0, <1>5 DEF RegistryInv, RegistryTypeOK
<1>9. RegistryTypeOK'
  BY <1>0, <1>1, <1>2, <1>3, <1>5, <1>8 DEF RegistryInv, RegistryTypeOK, boundVars
<1>10. ArchivedOK'
  BY <1>0, <1>1, <1>3, <1>4 DEF RegistryInv, ArchivedOK
<1>11. ConfigIsWhole'
  <2> SUFFICES ASSUME NEW d \in Clients, clients'[d].exists
               PROVE  /\ clients'[d].oauth = written'[d].oauth
                      /\ clients'[d].system = written'[d].system
                      /\ {x \in Sources \union Clients : <<d, x>> \in relations'}
                           = written'[d].related
    BY DEF ConfigIsWhole, Related, Registered
  <2>1. d # c /\ clients'[d] = clients[d] /\ d \in Registered
    BY <1>3, <1>4 DEF Registered
  <2>2. /\ clients[d].oauth = written[d].oauth
        /\ clients[d].system = written[d].system
        /\ {x \in Sources \union Clients : <<d, x>> \in relations} = written[d].related
    BY <2>1 DEF RegistryInv, ConfigIsWhole, Related
  <2>3. {x \in Sources \union Clients : <<d, x>> \in relations'} =
        {x \in Sources \union Clients : <<d, x>> \in relations} \ {c}
    BY <1>0, <2>1
  <2> QED BY <1>6, <2>1, <2>2, <2>3
<1>12. StepKeeps(h)
  BY <1>0, <1>1, <1>2, <1>3 DEF StepKeeps, SourceGrows
<1> QED BY <1>2, <1>7, <1>9, <1>10, <1>11, <1>12, TableStep

LEMMA AbortKeeps ==
    ASSUME RegistryInv, NEW h \in Handlers, Abort(h)
    PROVE  RegistryInv'
<1>0. /\ rowLock' = [c \in Clients |-> IF rowLock[c] = h THEN NoHandler ELSE rowLock[c]]
      /\ Finish(h) /\ UNCHANGED <<systems, clients, relations, written, sources, boundVars>>
  BY DEF Abort
<1>1. /\ rowLock' \in [Clients -> Handlers \union {NoHandler}]
      /\ \A c \in Clients : rowLock[c] # h => rowLock'[c] = rowLock[c]
      /\ \A c \in Clients : rowLock'[c] # NoHandler => rowLock[c] # NoHandler
  BY <1>0 DEF RegistryInv, RegistryTypeOK
<1>2. /\ handler' \in [Handlers -> Handler] /\ handler'[h].pc = "idle"
      /\ \A g \in Handlers : g # h => handler'[g] = handler[g]
  BY <1>0, Ends
<1>3. RegistryTypeOK' /\ written' \in [Clients -> Configuration]
  BY <1>0, <1>1, <1>2 DEF RegistryInv, RegistryTypeOK, Registered, boundVars
<1>4. ArchivedOK' /\ ConfigIsWhole'
  BY <1>0, <1>1 DEF RegistryInv, ArchivedOK, ConfigIsWhole, Registered, Related
<1>5. StepKeeps(h)
  BY <1>0, <1>1, <1>2 DEF StepKeeps, SourceGrows
<1> QED BY <1>2, <1>3, <1>4, <1>5, TableStep

-----------------------------------------------------------------------------
(***************************************************************************)
(* Identity sources.                                                       *)
(***************************************************************************)
LEMMA SourcesChange ==
    ASSUME RegistryInv, NEW h \in Handlers, UNCHANGED clientVars,
           load' \in Workloads, requests' \in 0..MaxRequests,
           sources' \in [Sources -> Source],
           \A s \in Sources : /\ SourceGrows(sources[s], sources'[s])
                              /\ sources'[s].archived => sources'[s].exists /\ ~sources'[s].enabled,
           handler' \in [Handlers -> Handler],
           \A g \in Handlers : g # h => handler'[g] = handler[g],
           ConfiguresOK(h)' /\ LocksOK(h)' /\ SourceOK(h)'
    PROVE  RegistryInv'
<1>1. Registered' = Registered
  BY DEF Registered, clientVars
<1>2. RegistryTypeOK' /\ written' \in [Clients -> Configuration]
  <2>1. relations' \subseteq Registered' \X (Registered' \union {s \in Sources : sources'[s].exists})
    BY <1>1 DEF RegistryInv, RegistryTypeOK, clientVars, SourceGrows
  <2> QED BY <1>1, <2>1 DEF RegistryInv, RegistryTypeOK, clientVars
<1>3. ArchivedOK' /\ ConfigIsWhole'
  BY <1>1 DEF RegistryInv, ArchivedOK, ConfigIsWhole, Related, clientVars
<1>4. StepKeeps(h)
  BY DEF StepKeeps, SourceGrows, clientVars
<1> QED BY <1>2, <1>3, <1>4, OthersKeep DEF RegistryInv

LEMMA CreateSourceKeeps ==
    ASSUME RegistryInv, NEW h \in Handlers, createIdentitySource(h)
    PROVE  RegistryInv'
<1>0. /\ UNCHANGED clientVars /\ handler' = handler /\ handler[h].pc = "idle"
      /\ Fresh \in Secret /\ load' \in Workloads /\ requests' \in 0..MaxRequests
  BY CountedTypes DEF createIdentitySource, Arrives, RegistryInv
<1>1. PICK s \in Sources, enabled \in BOOLEAN, key \in Keys :
        /\ ~sources[s].exists
        /\ \E envelope \in {Unset, encrypt(Fresh, key)} :
              sources' = [sources EXCEPT ![s] =
                [exists |-> TRUE, archived |-> FALSE, enabled |-> enabled,
                 envelope |-> envelope, version |-> 0]]
  BY DEF createIdentitySource
<1>2. PICK envelope \in {Unset, encrypt(Fresh, key)} :
              sources' = [sources EXCEPT ![s] =
                [exists |-> TRUE, archived |-> FALSE, enabled |-> enabled,
                 envelope |-> envelope, version |-> 0]]
  BY <1>1
<1>3. envelope \in Envelope
  BY <1>0, IdleTypes DEF encrypt, Envelope
<1>4. PICK r : r = [exists |-> TRUE, archived |-> FALSE, enabled |-> enabled,
                    envelope |-> envelope, version |-> 0]
  OBVIOUS
<1>5. r \in Source /\ r.exists /\ ~r.archived
  BY <1>3, <1>4 DEF Source
<1>6. /\ sources' \in [Sources -> Source]
      /\ \A x \in Sources : /\ SourceGrows(sources[x], sources'[x])
                            /\ sources'[x].archived => sources'[x].exists /\ ~sources'[x].enabled
  BY <1>1, <1>2, <1>4, <1>5 DEF RegistryInv, RegistryTypeOK, ArchivedOK, SourceGrows
<1>7. ConfiguresOK(h)' /\ LocksOK(h)' /\ SourceOK(h)'
  BY <1>0, OwnIdle
<1>8. handler' \in [Handlers -> Handler] /\ \A g \in Handlers : g # h => handler'[g] = handler[g]
  BY <1>0 DEF RegistryInv, RegistryTypeOK
<1> QED BY <1>0, <1>6, <1>7, <1>8, SourcesChange

LEMMA ReplaceSourceBegins ==
    ASSUME RegistryInv, NEW h \in Handlers, replaceIdentitySource(h)
    PROVE  RegistryInv'
<1>0. Fresh \in Secret /\ load' \in Workloads /\ requests' \in 0..MaxRequests
  BY CountedTypes DEF replaceIdentitySource, Arrives, RegistryInv
<1>1. PICK s \in Sources, enabled \in BOOLEAN, key \in Keys :
         /\ sources[s].exists /\ ~sources[s].archived
         /\ \E blank \in BOOLEAN, chosen \in {Unset, encrypt(Fresh, key)} :
              handler' = [handler EXCEPT ![h] =
                [Idle EXCEPT !.pc = "source", !.kind = "source", !.source = s,
                   !.sourceRow = replaceSource(sources[s],
                      IF blank THEN sources[s].envelope ELSE chosen, enabled),
                   !.blank = blank]]
  BY Zenon DEF replaceIdentitySource
<1>2. PICK blank \in BOOLEAN, chosen \in {Unset, encrypt(Fresh, key)} :
              handler' = [handler EXCEPT ![h] =
                [Idle EXCEPT !.pc = "source", !.kind = "source", !.source = s,
                   !.sourceRow = replaceSource(sources[s],
                      IF blank THEN sources[s].envelope ELSE chosen, enabled),
                   !.blank = blank]]
  BY <1>1
<1>3. sources[s] \in Source
  BY DEF RegistryInv, RegistryTypeOK
<1>12. PICK envelope : envelope = IF blank THEN sources[s].envelope ELSE chosen
  OBVIOUS
<1>4. envelope \in Envelope
  BY <1>0, <1>3, <1>12, IdleTypes DEF encrypt, Envelope, Source
<1>5. PICK r : r = replaceSource(sources[s], envelope, enabled)
  OBVIOUS
<1>6. /\ r \in Source /\ r.exists /\ ~r.archived
      /\ r.version = sources[s].version /\ r.envelope = envelope
  BY <1>1, <1>3, <1>4, <1>5 DEF Source, replaceSource
<1>7. PICK q : q = [Idle EXCEPT !.pc = "source", !.kind = "source", !.source = s,
                                !.sourceRow = r, !.blank = blank]
  OBVIOUS
<1>8. q \in Handler /\ q.pc = "source" /\ q.source = s /\ q.sourceRow = r /\ q.blank = blank
  BY <1>6, <1>7, IdleTypes DEF Idle, Handler, Kinds
<1>9. handler' = [handler EXCEPT ![h] = q] /\ handler'[h] = q
  BY <1>2, <1>5, <1>7, <1>12 DEF RegistryInv, RegistryTypeOK
<1>10. sources' = sources
  BY DEF replaceIdentitySource
<1>11. ConfiguresOK(h)' /\ LocksOK(h)' /\ SourceOK(h)'
  <2>1. ConfiguresOK(h)' /\ LocksOK(h)'
    BY <1>8, <1>9 DEF ConfiguresOK, LocksOK, Configuring, SourcesSeen
  <2>2. r.version <= sources[s].version
    BY <1>3, <1>6 DEF Source
  <2>3. blank => SameSecret(sources[s].envelope, r.envelope)
    BY <1>6, <1>12 DEF SameSecret
  <2> QED BY <1>1, <1>6, <1>8, <1>9, <1>10, <2>1, <2>2, <2>3 DEF SourceOK
<1> QED BY <1>0, <1>8, <1>9, <1>11, HandlerMoves DEF replaceIdentitySource

LEMMA ReplaceSourceKeeps ==
    ASSUME RegistryInv, NEW h \in Handlers, ReplaceSource(h)
    PROVE  RegistryInv'
<1> DEFINE s == handler[h].source
<1>0. /\ UNCHANGED clientVars /\ UNCHANGED boundVars /\ Finish(h) /\ handler[h].pc = "source"
      /\ sources' = IF sources[s].archived THEN sources
                    ELSE [sources EXCEPT ![s] =
                      [handler[h].sourceRow EXCEPT !.version = sources[s].version + 1]]
  BY DEF ReplaceSource
<1>1. /\ s \in Sources /\ handler[h] \in Handler /\ SourceOK(h)
  BY <1>0 DEF RegistryInv, RegistryTypeOK, SourceOK
<1>2. /\ handler[h].sourceRow \in Source /\ handler[h].sourceRow.exists
      /\ ~handler[h].sourceRow.archived
  BY <1>0, <1>1 DEF Handler, SourceOK
<1>3. /\ sources' \in [Sources -> Source]
      /\ \A x \in Sources : /\ SourceGrows(sources[x], sources'[x])
                            /\ sources'[x].archived => sources'[x].exists /\ ~sources'[x].enabled
  <2>1. PICK r : r = [handler[h].sourceRow EXCEPT !.version = sources[s].version + 1]
    OBVIOUS
  <2>2. sources[s].version \in Nat
    BY <1>1 DEF RegistryInv, RegistryTypeOK, Source
  <2>3. /\ r \in Source /\ r.exists /\ ~r.archived
        /\ r.version \in Nat /\ r.version > sources[s].version
    BY <1>2, <2>1, <2>2 DEF Source
  <2>4. sources' = sources \/ sources' = [sources EXCEPT ![s] = r]
    BY <1>0, <2>1
  <2> QED BY <1>1, <2>3, <2>4 DEF RegistryInv, RegistryTypeOK, ArchivedOK, SourceGrows
<1>4. load' \in Workloads /\ requests' \in 0..MaxRequests
  BY <1>0 DEF RegistryInv, RegistryTypeOK, boundVars
<1> QED BY <1>0, <1>3, <1>4, Ends, OwnIdle, SourcesChange

LEMMA ArchiveSourceBegins ==
    ASSUME RegistryInv, NEW h \in Handlers, archiveIdentitySource(h)
    PROVE  RegistryInv'
<1>0. load' \in Workloads /\ requests' \in 0..MaxRequests /\ sources' = sources
  BY CountedTypes DEF archiveIdentitySource, Arrives, RegistryInv
<1>1. PICK s \in Sources :
         /\ sources[s].exists
         /\ handler' = [handler EXCEPT ![h] =
              [Idle EXCEPT !.pc = "archiveSource", !.kind = "archiveSource",
                           !.source = s]]
  BY DEF archiveIdentitySource
<1>2. PICK q : q = [Idle EXCEPT !.pc = "archiveSource", !.kind = "archiveSource",
                                !.source = s]
  OBVIOUS
<1>3. q \in Handler /\ q.pc = "archiveSource" /\ q.source = s
  BY <1>2, IdleTypes DEF Idle, Handler, Kinds
<1>4. handler' = [handler EXCEPT ![h] = q] /\ handler'[h] = q
  BY <1>1, <1>2 DEF RegistryInv, RegistryTypeOK
<1>5. ConfiguresOK(h)' /\ LocksOK(h)' /\ SourceOK(h)'
  BY <1>0, <1>1, <1>3, <1>4 DEF ConfiguresOK, LocksOK, SourceOK, Configuring, SourcesSeen
<1> QED BY <1>0, <1>3, <1>4, <1>5, HandlerMoves DEF archiveIdentitySource

LEMMA ArchiveSourceKeeps ==
    ASSUME RegistryInv, NEW h \in Handlers, ArchiveSource(h)
    PROVE  RegistryInv'
<1> DEFINE s == handler[h].source
<1>0. /\ UNCHANGED clientVars /\ UNCHANGED boundVars /\ Finish(h) /\ handler[h].pc = "archiveSource"
      /\ sources' = [sources EXCEPT ![s].archived = TRUE, ![s].enabled = FALSE]
  BY DEF ArchiveSource
<1>1. s \in Sources /\ sources[s].exists /\ sources[s] \in Source /\ sources \in [Sources -> Source]
  BY <1>0 DEF RegistryInv, RegistryTypeOK, SourceOK
<1>2. PICK r : r = [sources[s] EXCEPT !.archived = TRUE, !.enabled = FALSE]
  OBVIOUS
<1>3. /\ r \in Source /\ r.exists /\ ~r.enabled /\ r.version \in Nat
      /\ r.version = sources[s].version /\ r.envelope = sources[s].envelope
  BY <1>1, <1>2 DEF Source
<1>4. sources' = [sources EXCEPT ![s] = r]
  BY <1>0, <1>1, <1>2
<1>5. /\ sources' \in [Sources -> Source]
      /\ \A x \in Sources : /\ SourceGrows(sources[x], sources'[x])
                            /\ sources'[x].archived => sources'[x].exists /\ ~sources'[x].enabled
  BY <1>1, <1>3, <1>4 DEF RegistryInv, ArchivedOK, SourceGrows, SameSecret
<1>6. load' \in Workloads /\ requests' \in 0..MaxRequests
  BY <1>0 DEF RegistryInv, RegistryTypeOK, boundVars
<1> QED BY <1>0, <1>5, <1>6, Ends, OwnIdle, SourcesChange

LEMMA RewrapBegins ==
    ASSUME RegistryInv, NEW h \in Handlers, RewrapSourceSecrets(h)
    PROVE  RegistryInv'
<1>0. load' \in Workloads /\ requests' \in 0..MaxRequests
  BY CountedTypes DEF RewrapSourceSecrets, Arrives, RegistryInv
<1>1. PICK key \in Keys :
         handler' = [handler EXCEPT ![h] =
           [Idle EXCEPT !.pc = "rewrap", !.kind = "rewrap", !.key = key,
              !.records = [s \in Sources |->
                 IF sources[s].envelope.key = key THEN Unset
                                                  ELSE sources[s].envelope]]]
  BY DEF RewrapSourceSecrets
<1>2. PICK records : records = [s \in Sources |->
                 IF sources[s].envelope.key = key THEN Unset ELSE sources[s].envelope]
  OBVIOUS
<1>3. records \in [Sources -> Envelope]
  BY <1>2, IdleTypes DEF RegistryInv, RegistryTypeOK, Source
<1>4. PICK q : q = [Idle EXCEPT !.pc = "rewrap", !.kind = "rewrap", !.key = key,
                                !.records = records]
  OBVIOUS
<1>5. q \in Handler /\ q.pc = "rewrap" /\ q.key = key
  BY <1>3, <1>4, IdleTypes DEF Idle, Handler, Kinds
<1>6. handler' = [handler EXCEPT ![h] = q] /\ handler'[h] = q
  BY <1>1, <1>2, <1>4 DEF RegistryInv, RegistryTypeOK
<1>7. ConfiguresOK(h)' /\ LocksOK(h)' /\ SourceOK(h)'
  BY <1>5, <1>6 DEF ConfiguresOK, LocksOK, SourceOK, Configuring, SourcesSeen
<1> QED BY <1>0, <1>5, <1>6, <1>7, HandlerMoves DEF RewrapSourceSecrets

LEMMA RewrapNextKeeps ==
    ASSUME RegistryInv, NEW h \in Handlers, RewrapNext(h)
    PROVE  RegistryInv'
<1>0. UNCHANGED clientVars /\ UNCHANGED boundVars /\ handler[h].pc = "rewrap"
      /\ handler[h] \in Handler /\ handler[h].key \in Keys
  BY DEF RewrapNext, RegistryInv, RegistryTypeOK, SourceOK
<1>1. PICK s \in Sources :
         /\ handler[h].records[s] # Unset
         /\ handler' = [handler EXCEPT ![h].records[s] = Unset]
         /\ ReplaceSourceSecretCiphertext(s, handler[h].records[s],
                encrypt(handler[h].records[s].secret, handler[h].key))
  BY DEF RewrapNext
<1>2. PICK sealed : sealed = encrypt(handler[h].records[s].secret, handler[h].key)
  OBVIOUS
<1>3. sealed \in Envelope /\ SameSecret(handler[h].records[s], sealed)
  <2>1. handler[h].records[s] \in [secret : Secret, key : Keys]
    BY <1>0, <1>1 DEF Envelope, Handler
  <2> QED BY <1>0, <1>2, <2>1, RegistryAssumption DEF encrypt, Envelope, SameSecret
<1>4. PICK r : r = [sources[s] EXCEPT !.envelope = sealed]
  OBVIOUS
<1>5. /\ r \in Source /\ r.exists = sources[s].exists /\ r.archived = sources[s].archived
      /\ r.enabled = sources[s].enabled /\ r.version = sources[s].version /\ r.version \in Nat
      /\ r.envelope = sealed
  BY <1>3, <1>4 DEF RegistryInv, RegistryTypeOK, Source
<1>6. \/ sources' = sources
      \/ sources' = [sources EXCEPT ![s] = r] /\ sources[s].envelope = handler[h].records[s]
  BY <1>1, <1>2, <1>4 DEF ReplaceSourceSecretCiphertext, RegistryInv, RegistryTypeOK
<1>7. /\ sources' \in [Sources -> Source]
      /\ \A x \in Sources : /\ SourceGrows(sources[x], sources'[x])
                            /\ sources'[x].archived => sources'[x].exists /\ ~sources'[x].enabled
  BY <1>3, <1>5, <1>6 DEF RegistryInv, RegistryTypeOK, ArchivedOK, SourceGrows
<1>8. PICK q : q = [handler[h] EXCEPT !.records[s] = Unset]
  OBVIOUS
<1>9. q \in Handler /\ q.pc = "rewrap" /\ q.key = handler[h].key
  BY <1>0, <1>8, IdleTypes DEF Handler
<1>10. /\ handler' \in [Handlers -> Handler] /\ handler'[h] = q
       /\ \A g \in Handlers : g # h => handler'[g] = handler[g]
  BY <1>1, <1>8, <1>9 DEF RegistryInv, RegistryTypeOK
<1>11. ConfiguresOK(h)' /\ LocksOK(h)' /\ SourceOK(h)'
  BY <1>0, <1>9, <1>10 DEF ConfiguresOK, LocksOK, SourceOK, Configuring, SourcesSeen
<1>12. load' \in Workloads /\ requests' \in 0..MaxRequests
  BY <1>0 DEF RegistryInv, RegistryTypeOK, boundVars
<1> QED BY <1>0, <1>7, <1>10, <1>11, <1>12, SourcesChange

-----------------------------------------------------------------------------
LEMMA RegistryStep ==
    ASSUME RegistryInv, RegistryNext \/ (\E h \in Handlers : DeleteArchived(h))
    PROVE  RegistryInv'
<1>1. CASE \E h \in Handlers : DeleteArchived(h)
  BY <1>1, DeleteArchivedKeeps
<1>2. CASE RegistryNext
  <2>1. PICK h \in Handlers :
        \/ createSystem(h) \/ deleteSystem(h)
        \/ createClient(h) \/ replaceClient(h)
        \/ validateClientSystem(h) \/ validateClientIdentitySources(h)
        \/ validateClientIntrospectionPermissions(h)
        \/ Create(h) \/ UpdateRow(h) \/ SeeRows(h) \/ CommitReplace(h)
        \/ rotateClientSecret(h) \/ RotateSecret(h)
        \/ archiveClient(h) \/ deleteArchivedClient(h) \/ Abort(h)
        \/ createIdentitySource(h)
        \/ replaceIdentitySource(h) \/ ReplaceSource(h)
        \/ archiveIdentitySource(h) \/ ArchiveSource(h)
        \/ RewrapSourceSecrets(h) \/ RewrapNext(h) \/ RewrapDone(h)
    BY <1>2 DEF RegistryNext
  <2>2. RewrapDone(h) => RegistryInv'
    BY HandlerEnds DEF RewrapDone
  <2>3. createIdentitySource(h) \/ replaceIdentitySource(h) \/ ReplaceSource(h)
        \/ archiveIdentitySource(h) \/ ArchiveSource(h)
        \/ RewrapSourceSecrets(h) \/ RewrapNext(h) => RegistryInv'
    BY CreateSourceKeeps, ReplaceSourceBegins, ReplaceSourceKeeps, ArchiveSourceBegins,
       ArchiveSourceKeeps, RewrapBegins, RewrapNextKeeps
  <2>4. rotateClientSecret(h) \/ RotateSecret(h)
        \/ archiveClient(h) \/ deleteArchivedClient(h) \/ Abort(h) => RegistryInv'
    BY RotateBegins, RotateSecretKeeps, ArchiveClientKeeps, DeleteBegins, AbortKeeps
  <2>5. Create(h) \/ UpdateRow(h) \/ SeeRows(h) \/ CommitReplace(h) => RegistryInv'
    BY CreateKeeps, UpdateRowKeeps, SeeRowsKeeps, CommitReplaceKeeps
  <2> QED BY <2>1, <2>2, <2>3, <2>4, <2>5, SystemsKeep, CreateClientKeeps,
             ReplaceClientKeeps, ValidationsKeep
<1> QED BY <1>1, <1>2

LEMMA RegistryStarts ==
    ASSUME RegistryInit
    PROVE  RegistryInv
<1>1. PICK known \in SUBSET Clients :
         clients = [c \in Clients |->
           IF c \in known
              THEN [exists |-> TRUE, archived |-> FALSE, enabled |-> TRUE,
                    confidential |-> TRUE, oauth |-> TRUE, system |-> c,
                    secret |-> 0]
              ELSE NoRow]
  <2>1. CASE "create" \in load
    BY <2>1 DEF RegistryInit
  <2>2. CASE "create" \notin load
    <3>1. Clients \in SUBSET Clients
      OBVIOUS
    <3> QED BY <2>2, <3>1 DEF RegistryInit
  <2> QED BY <2>1, <2>2
<1>2. 0 \in Secret
  BY RegistryAssumption DEF Secret
<1>3. /\ clients \in [Clients -> Client]
      /\ \A c \in Clients : /\ ~clients[c].archived
                            /\ clients[c].exists => clients[c].system = c /\ clients[c].oauth = TRUE
  BY <1>1, <1>2, IdleTypes, RegistryAssumption DEF Client, NoRow
<1>4. PICK sknown \in SUBSET Sources, key \in Keys :
         sources = [s \in Sources |->
           IF s \in sknown
              THEN [exists |-> TRUE, archived |-> FALSE, enabled |-> TRUE,
                    envelope |-> [secret |-> 0, key |-> key], version |-> 0]
              ELSE NoSourceRow]
  <2>1. CASE "addSource" \in load
    BY <2>1 DEF RegistryInit
  <2>2. CASE "addSource" \notin load
    <3>1. Sources \in SUBSET Sources
      OBVIOUS
    <3> QED BY <2>2, <3>1 DEF RegistryInit
  <2> QED BY <2>1, <2>2
<1>5. sources \in [Sources -> Source] /\ \A s \in Sources : ~sources[s].archived
  BY <1>2, <1>4, IdleTypes DEF Source, Envelope, NoSourceRow
<1>6. /\ systems \subseteq Systems /\ Clients \subseteq systems /\ relations = {}
      /\ rowLock = [c \in Clients |-> NoHandler] /\ handler = [h \in Handlers |-> Idle]
      /\ written = [c \in Clients |-> [oauth |-> TRUE, system |-> c, related |-> {}]]
      /\ load \in Workloads /\ requests \in 0..MaxRequests
  BY RegistryAssumption DEF RegistryInit
<1>7. RegistryTypeOK
  BY <1>3, <1>5, <1>6, IdleTypes DEF RegistryTypeOK, Registered
<1>8. written \in [Clients -> Configuration]
  BY <1>6, RegistryAssumption DEF Configuration
<1>9. ArchivedOK
  BY <1>3, <1>5, <1>6 DEF ArchivedOK
<1>10. ConfigIsWhole
  BY <1>3, <1>6 DEF ConfigIsWhole, Registered, Related
<1>11. \A h \in Handlers : ConfiguresOK(h) /\ LocksOK(h) /\ SourceOK(h)
  BY <1>6 DEF ConfiguresOK, LocksOK, SourceOK, Configuring, SourcesSeen, Idle
<1> QED BY <1>7, <1>8, <1>9, <1>10, <1>11 DEF RegistryInv

-----------------------------------------------------------------------------
(***************************************************************************)
(* What a step of the registry does to the rows of clients and sources.    *)
(***************************************************************************)
ClientsStep ==
    \A c \in Clients :
        /\ clients[c].exists => clients'[c].exists
        /\ clients[c].archived =>
             /\ clients'[c] = clients[c]
             /\ {row \in relations' : row[1] = c} \subseteq relations
        /\ clients[c].exists /\ clients'[c].secret # clients[c].secret =>
             \E h \in Handlers : /\ handler[h].pc = "rotate" /\ handler[h].client = c
                                 /\ handler[h].row.secret = clients'[c].secret

SourcesStep ==
    \A s \in Sources :
        /\ sources[s].archived => sources'[s].archived /\ ~sources'[s].enabled
        /\ ~SameSecret(sources[s].envelope, sources'[s].envelope) =>
             \/ ~sources[s].exists
             \/ \E h \in Handlers :
                  /\ handler[h].pc = "source" /\ handler[h].source = s
                  /\ sources'[s].envelope = handler[h].sourceRow.envelope
                  /\ handler[h].blank => handler[h].sourceRow.version # sources[s].version

LEMMA StillClients ==
    ASSUME UNCHANGED <<clients, relations>>
    PROVE  ClientsStep
BY DEF ClientsStep

LEMMA StillSources ==
    ASSUME RegistryInv, UNCHANGED sources
    PROVE  SourcesStep
BY DEF SourcesStep, RegistryInv, ArchivedOK, SameSecret

LEMMA CreateWrites ==
    ASSUME RegistryInv, NEW h \in Handlers, Create(h)
    PROVE  ClientsStep
<1> DEFINE c == handler[h].client
<1>1. CASE ~(~clients[c].exists /\ Insertable(h, relations))
  BY <1>1, StillClients DEF Create
<1>2. CASE ~clients[c].exists /\ Insertable(h, relations)
  <2>1. /\ clients' = [clients EXCEPT ![c] = handler[h].row]
        /\ relations' = relations \union NewRows(h)
    BY <1>2 DEF Create
  <2>2. c \in Clients /\ clients \in [Clients -> Client] /\ ~clients[c].archived
    BY <1>2 DEF Create, RegistryInv, RegistryTypeOK, ConfiguresOK, Configuring, ArchivedOK
  <2>3. \A row \in NewRows(h) : row[1] = c
    BY DEF NewRows
  <2> QED BY <1>2, <2>1, <2>2, <2>3 DEF ClientsStep
<1> QED BY <1>1, <1>2

LEMMA ReplaceWrites ==
    ASSUME RegistryInv, NEW h \in Handlers, CommitReplace(h)
    PROVE  ClientsStep
<1> DEFINE c == handler[h].client
           rest == relations \ handler[h].seen
<1>1. CASE ~Insertable(h, rest)
  BY <1>1, StillClients DEF CommitReplace
<1>2. CASE Insertable(h, rest)
  <2>1. /\ clients' = [clients EXCEPT ![c] = SetColumns(clients[c], handler[h].row)]
        /\ relations' = rest \union NewRows(h)
    BY <1>2 DEF CommitReplace
  <2>2. c \in Clients /\ clients \in [Clients -> Client] /\ ~clients[c].archived /\ clients[c].exists
    BY DEF CommitReplace, RegistryInv, RegistryTypeOK, ConfiguresOK, Configuring, LocksOK
  <2>3. \A row \in NewRows(h) : row[1] = c
    BY DEF NewRows
  <2>4. PICK r : r = SetColumns(clients[c], handler[h].row)
    OBVIOUS
  <2>5. r.exists /\ r.secret = clients[c].secret
    BY <2>2, <2>4 DEF SetColumns, Client
  <2>6. clients'[c] = r /\ \A d \in Clients : d # c => clients'[d] = clients[d]
    BY <2>1, <2>2, <2>4
  <2> QED BY <2>1, <2>2, <2>3, <2>5, <2>6 DEF ClientsStep
<1> QED BY <1>1, <1>2

LEMMA RotateWrites ==
    ASSUME RegistryInv, NEW h \in Handlers, RotateSecret(h)
    PROVE  ClientsStep
<1> DEFINE c == handler[h].client
<1>1. CASE ~(clients[c].exists /\ clients[c].confidential /\ ~clients[c].archived)
  BY <1>1, StillClients DEF RotateSecret
<1>2. CASE clients[c].exists /\ clients[c].confidential /\ ~clients[c].archived
  <2>1. clients' = [clients EXCEPT ![c].secret = handler[h].row.secret]
        /\ relations' = relations /\ handler[h].pc = "rotate"
    BY <1>2 DEF RotateSecret
  <2>2. c \in Clients /\ clients \in [Clients -> Client]
    BY <2>1 DEF RegistryInv, RegistryTypeOK, LocksOK
  <2>3. PICK r : r = [clients[c] EXCEPT !.secret = handler[h].row.secret]
    OBVIOUS
  <2>4. r.exists /\ r.secret = handler[h].row.secret
    BY <1>2, <2>2, <2>3 DEF Client
  <2>5. clients'[c] = r /\ \A d \in Clients : d # c => clients'[d] = clients[d]
    BY <2>1, <2>2, <2>3
  <2> QED BY <1>2, <2>1, <2>2, <2>4, <2>5 DEF ClientsStep
<1> QED BY <1>1, <1>2

LEMMA ArchiveWrites ==
    ASSUME RegistryInv, NEW h \in Handlers, archiveClient(h)
    PROVE  ClientsStep
<1>1. PICK c \in Registered :
        clients' = [clients EXCEPT ![c].archived = TRUE, ![c].enabled = FALSE]
  BY DEF archiveClient
<1>2. relations' = relations /\ c \in Clients /\ clients \in [Clients -> Client] /\ clients[c].exists
  BY DEF archiveClient, RegistryInv, RegistryTypeOK, Registered
<1>3. PICK r : r = [clients[c] EXCEPT !.archived = TRUE, !.enabled = FALSE]
  OBVIOUS
<1>4. r.exists /\ r.secret = clients[c].secret
  BY <1>2, <1>3 DEF Client
<1>5. clients[c].archived => r = clients[c]
  <2> HAVE clients[c].archived
  <2>1. clients[c].archived = TRUE /\ clients[c].enabled = FALSE
    BY <1>2 DEF RegistryInv, ArchivedOK, Client
  <2> QED BY <1>2, <1>3, <2>1 DEF Client
<1>6. clients'[c] = r /\ \A d \in Clients : d # c => clients'[d] = clients[d]
  BY <1>1, <1>2, <1>3
<1> QED BY <1>2, <1>4, <1>5, <1>6 DEF ClientsStep

LEMMA SourceWrites ==
    ASSUME RegistryInv, NEW h \in Handlers,
           createIdentitySource(h) \/ ReplaceSource(h) \/ ArchiveSource(h) \/ RewrapNext(h)
    PROVE  SourcesStep
<1>0. sources \in [Sources -> Source] /\ ArchivedOK /\ SourceOK(h)
  BY DEF RegistryInv, RegistryTypeOK
<1>1. CASE createIdentitySource(h)
  <2>1. PICK s \in Sources : ~sources[s].exists /\ \E r : sources' = [sources EXCEPT ![s] = r]
    BY <1>1 DEF createIdentitySource
  <2> QED BY <1>0, <2>1 DEF SourcesStep, ArchivedOK, SameSecret
<1>2. CASE ReplaceSource(h)
  <2>1. PICK s \in Sources : s = handler[h].source /\ handler[h].pc = "source"
    BY <1>0, <1>2 DEF ReplaceSource, SourceOK
  <2>2. PICK r : r = [handler[h].sourceRow EXCEPT !.version = sources[s].version + 1]
    OBVIOUS
  <2>3. handler[h].sourceRow \in Source /\ r.envelope = handler[h].sourceRow.envelope
    BY <2>2 DEF RegistryInv, RegistryTypeOK, Handler, Source
  <2>4. CASE sources[s].archived
    BY <1>2, <2>1, <2>4, StillSources DEF ReplaceSource
  <2>5. CASE ~sources[s].archived
    <3>1. sources'[s] = r /\ \A x \in Sources : x # s => sources'[x] = sources[x]
      BY <1>0, <1>2, <2>1, <2>2, <2>5 DEF ReplaceSource
    <3>2. /\ handler[h].blank /\ handler[h].sourceRow.version = sources[s].version
          => SameSecret(sources[s].envelope, sources'[s].envelope)
      BY <1>0, <2>1, <2>3, <3>1 DEF SourceOK
    <3> QED BY <1>0, <2>1, <2>3, <2>5, <3>1, <3>2 DEF SourcesStep, ArchivedOK, SameSecret
  <2> QED BY <2>4, <2>5
<1>3. CASE ArchiveSource(h)
  <2>1. PICK s : s = handler[h].source
    OBVIOUS
  <2>2. s \in Sources /\ sources' = [sources EXCEPT ![s].archived = TRUE, ![s].enabled = FALSE]
    BY <1>0, <1>3, <2>1 DEF ArchiveSource, SourceOK
  <2>3. PICK r : r = [sources[s] EXCEPT !.archived = TRUE, !.enabled = FALSE]
    OBVIOUS
  <2>4. r.archived /\ ~r.enabled /\ r.envelope = sources[s].envelope
    BY <1>0, <2>2, <2>3 DEF Source
  <2>5. sources'[s] = r /\ \A x \in Sources : x # s => sources'[x] = sources[x]
    BY <1>0, <2>2, <2>3
  <2> QED BY <1>0, <2>4, <2>5 DEF SourcesStep, ArchivedOK, SameSecret
<1>4. CASE RewrapNext(h)
  <2>1. PICK s \in Sources :
           /\ handler[h].records[s] # Unset
           /\ ReplaceSourceSecretCiphertext(s, handler[h].records[s],
                encrypt(handler[h].records[s].secret, handler[h].key))
    BY <1>4 DEF RewrapNext
  <2>2. PICK sealed : sealed = encrypt(handler[h].records[s].secret, handler[h].key)
    OBVIOUS
  <2>3. CASE sources[s].envelope = handler[h].records[s]
    <3>1. SameSecret(sources[s].envelope, sealed)
      <4>1. handler[h].key \in Keys /\ handler[h].records[s] \in [secret : Secret, key : Keys]
        BY <1>0, <1>4, <2>1 DEF RewrapNext, SourceOK, Envelope, Handler, RegistryInv, RegistryTypeOK
      <4> QED BY <2>2, <2>3, <4>1, RegistryAssumption DEF encrypt, SameSecret
    <3>2. PICK r : r = [sources[s] EXCEPT !.envelope = sealed]
      OBVIOUS
    <3>3. r.archived = sources[s].archived /\ r.enabled = sources[s].enabled /\ r.envelope = sealed
      BY <1>0, <3>2 DEF Source
    <3>4. sources'[s] = r /\ \A x \in Sources : x # s => sources'[x] = sources[x]
      BY <1>0, <2>1, <2>2, <2>3, <3>2 DEF ReplaceSourceSecretCiphertext
    <3> QED BY <1>0, <3>1, <3>3, <3>4 DEF SourcesStep, ArchivedOK, SameSecret
  <2>4. CASE sources[s].envelope # handler[h].records[s]
    BY <2>1, <2>4, StillSources DEF ReplaceSourceSecretCiphertext
  <2> QED BY <2>3, <2>4
<1> QED BY <1>1, <1>2, <1>3, <1>4

LEMMA RegistryWrites ==
    ASSUME RegistryInv, RegistryNext
    PROVE  ClientsStep /\ SourcesStep
<1>1. PICK h \in Handlers :
        \/ createSystem(h) \/ deleteSystem(h)
        \/ createClient(h) \/ replaceClient(h)
        \/ validateClientSystem(h) \/ validateClientIdentitySources(h)
        \/ validateClientIntrospectionPermissions(h)
        \/ Create(h) \/ UpdateRow(h) \/ SeeRows(h) \/ CommitReplace(h)
        \/ rotateClientSecret(h) \/ RotateSecret(h)
        \/ archiveClient(h) \/ deleteArchivedClient(h) \/ Abort(h)
        \/ createIdentitySource(h)
        \/ replaceIdentitySource(h) \/ ReplaceSource(h)
        \/ archiveIdentitySource(h) \/ ArchiveSource(h)
        \/ RewrapSourceSecrets(h) \/ RewrapNext(h) \/ RewrapDone(h)
  BY DEF RegistryNext
<1>2. CASE Create(h) \/ CommitReplace(h) \/ RotateSecret(h) \/ archiveClient(h)
  <2>1. UNCHANGED sources
    BY <1>2 DEF Create, CommitReplace, RotateSecret, archiveClient
  <2> QED BY <1>2, <2>1, StillSources, CreateWrites, ReplaceWrites, RotateWrites, ArchiveWrites
<1>3. CASE createIdentitySource(h) \/ ReplaceSource(h) \/ ArchiveSource(h) \/ RewrapNext(h)
  <2>1. UNCHANGED <<clients, relations>>
    BY <1>3 DEF createIdentitySource, ReplaceSource, ArchiveSource, RewrapNext, clientVars
  <2> QED BY <1>3, <2>1, StillClients, SourceWrites
<1>4. CASE createSystem(h) \/ deleteSystem(h) \/ createClient(h) \/ replaceClient(h)
           \/ validateClientSystem(h) \/ validateClientIdentitySources(h)
           \/ validateClientIntrospectionPermissions(h)
  <2>1. UNCHANGED <<clients, relations, sources>>
    BY <1>4 DEF createSystem, deleteSystem, createClient, replaceClient, validateClientSystem,
         validateClientIdentitySources, validateClientIntrospectionPermissions, clientVars
  <2> QED BY <2>1, StillClients, StillSources
<1>5. CASE UpdateRow(h) \/ SeeRows(h) \/ rotateClientSecret(h) \/ deleteArchivedClient(h)
           \/ Abort(h) \/ replaceIdentitySource(h) \/ archiveIdentitySource(h)
           \/ RewrapSourceSecrets(h) \/ RewrapDone(h)
  <2>1. UNCHANGED <<clients, relations, sources>>
    BY <1>5 DEF UpdateRow, SeeRows, rotateClientSecret, deleteArchivedClient, Abort,
         replaceIdentitySource, archiveIdentitySource, RewrapSourceSecrets, RewrapDone, clientVars
  <2> QED BY <2>1, StillClients, StillSources
<1> QED BY <1>1, <1>2, <1>3, <1>4, <1>5

-----------------------------------------------------------------------------
(***************************************************************************)
(* Roles and permissions.  A step is one of clerk k (none of them when k   *)
(* is not a clerk); what the others know stays.                            *)
(***************************************************************************)
ObjectsKeep(k) ==
    /\ \A j \in Clerks : j # k => clerk'[j] = clerk[j]
    /\ drawn \subseteq drawn'
    /\ \A o \in drawn : \/ owner'[o] \in {owner[o], NoClient}
                        \/ k \in Clerks /\ clerk[k].pc = "insert" /\ clerk[k].of = o
    /\ k \in Clerks /\ clerk'[k].pc = "insert" => clerk'[k].of \notin drawn
    /\ \A o \in Objects : objectLock[o] # k /\ objectLock[o] # NoHandler =>
         objectLock'[o] = objectLock[o] /\ (InUse(o)' => InUse(o))

LEMMA OthersKnow ==
    ASSUME AccessInv, NEW k, ObjectsKeep(k)
    PROVE  \A j \in Clerks : j # k => ObjectOK(j)' /\ RowsOK(j)'
<1> SUFFICES ASSUME NEW j \in Clerks, j # k
             PROVE  ObjectOK(j)' /\ RowsOK(j)'
  OBVIOUS
<1>0. /\ ObjectOK(j) /\ RowsOK(j) /\ clerk'[j] = clerk[j] /\ j # NoHandler
  BY AccessAssumption DEF AccessInv, ObjectsKeep
<1>1. \A o \in drawn, i \in Clerks : clerk'[i].pc = "insert" /\ clerk'[i].of = o =>
         i # k /\ clerk[i].pc = "insert" /\ clerk[i].of = o
  BY DEF ObjectsKeep
<1>2. ObjectOK(j)'
  <2>1. clerk[j].pc = "insert" =>
          /\ clerk[j].of \in drawn' /\ owner'[clerk[j].of] = NoClient
          /\ \A i \in Clerks : clerk'[i].pc = "insert" /\ clerk'[i].of = clerk[j].of => i = j
    BY <1>0, <1>1 DEF ObjectOK, ObjectsKeep
  <2>2. clerk[j].pc \in {"use", "remove"} => objectLock'[clerk[j].of] = j
    BY <1>0 DEF ObjectOK, ObjectsKeep
  <2>3. clerk[j].pc = "remove" => ~InUse(clerk[j].of)'
    <3> HAVE clerk[j].pc = "remove"
    <3>1. PICK o : o = clerk[j].of
      OBVIOUS
    <3>2. o \in Objects /\ objectLock[o] = j /\ ~InUse(o)
      BY <1>0, <3>1 DEF ObjectOK
    <3>3. ~InUse(o)'
      BY <1>0, <3>2 DEF ObjectsKeep
    <3> QED BY <1>0, <3>1, <3>3 DEF InUse
  <2>4. clerk[j].pc \in {"insert", "lock", "use", "remove"} =>
          clerk[j].of \in Objects /\ clerk[j].client \in Clients
    BY <1>0 DEF ObjectOK
  <2> QED BY <1>0, <2>1, <2>2, <2>3, <2>4 DEF ObjectOK
<1>3. RowsOK(j)'
  <2>1. clerk[j].pc \in {"see", "commit"} /\ clerk[j].kind = "map" =>
         \A o \in clerk[j].asked \union {clerk[j].of} :
             /\ o \in drawn' /\ ~Inserting(o)'
             /\ owner'[o] \in {clerk[j].client, NoClient}
    <3> SUFFICES ASSUME clerk[j].pc \in {"see", "commit"}, clerk[j].kind = "map",
                        NEW o \in clerk[j].asked \union {clerk[j].of}
                 PROVE  /\ o \in drawn' /\ ~Inserting(o)'
                        /\ owner'[o] \in {clerk[j].client, NoClient}
      OBVIOUS
    <3>1. o \in drawn /\ ~Inserting(o) /\ owner[o] \in {clerk[j].client, NoClient}
      BY <1>0 DEF RowsOK
    <3>2. ~Inserting(o)'
      BY <1>1, <3>1 DEF Inserting
    <3>3. owner'[o] \in {owner[o], NoClient}
      BY <3>1 DEF ObjectsKeep, Inserting
    <3> QED BY <3>1, <3>2, <3>3 DEF ObjectsKeep
  <2>2. clerk[j].pc \in {"see", "commit"} /\ clerk[j].kind = "map" =>
         \A o \in clerk'[j].asked \union {clerk'[j].of} :
             /\ o \in drawn' /\ ~Inserting(o)'
             /\ owner'[o] \in {clerk'[j].client, NoClient}
    BY <1>0, <2>1
  <2> QED BY <1>0, <2>2 DEF RowsOK
<1> QED BY <1>2, <1>3

\* A step of the clerks leaves the registry as it is, the bound apart.
LEMMA RegistryStill ==
    ASSUME RegistryInv, UNCHANGED stillVars,
           UNCHANGED boundVars \/ \E kind : Counted(kind)
    PROVE  RegistryInv' /\ Registered' = Registered
<1>1. load' \in Workloads /\ requests' \in 0..MaxRequests
  BY CountedTypes DEF RegistryInv
<1>2. Registered' = Registered
  BY DEF stillVars, clientVars, Registered
<1>3. RegistryTypeOK' /\ written' \in [Clients -> Configuration]
  BY <1>1, <1>2 DEF RegistryInv, RegistryTypeOK, stillVars, clientVars
<1>4. ArchivedOK' /\ ConfigIsWhole'
  BY <1>2 DEF RegistryInv, ArchivedOK, ConfigIsWhole, Related, stillVars, clientVars
<1>5. \A h \in Handlers : ConfiguresOK(h)' /\ LocksOK(h)' /\ SourceOK(h)'
  BY DEF RegistryInv, ConfiguresOK, LocksOK, SourceOK, stillVars, clientVars
<1> QED BY <1>2, <1>3, <1>4, <1>5 DEF RegistryInv

LEMMA OffTypes ==
    Off \in Clerk /\ Off.pc = "idle"
BY DEF Off, Clerk

LEMMA IdleClerk ==
    ASSUME NEW k \in Clerks, clerk'[k].pc = "idle"
    PROVE  ObjectOK(k)' /\ RowsOK(k)'
BY DEF ObjectOK, RowsOK

LEMMA DoneTypes ==
    ASSUME AccessInv, NEW k \in Clerks, ClerkDone(k)
    PROVE  /\ clerk' \in [Clerks -> Clerk] /\ clerk'[k].pc = "idle"
           /\ \A j \in Clerks : j # k => clerk'[j] = clerk[j]
BY OffTypes DEF AccessInv, TypeOK, ClerkDone

LEMMA ClerkGotoTypes ==
    ASSUME AccessInv, NEW k \in Clerks, NEW pc, pc \in {"use", "remove", "see"},
           ClerkGoto(k, pc)
    PROVE  /\ clerk' \in [Clerks -> Clerk] /\ clerk'[k].pc = pc
           /\ clerk'[k].of = clerk[k].of /\ clerk'[k].client = clerk[k].client
           /\ clerk'[k].kind = clerk[k].kind /\ clerk'[k].asked = clerk[k].asked
           /\ \A j \in Clerks : j # k => clerk'[j] = clerk[j]
<1>1. clerk \in [Clerks -> Clerk] /\ clerk' = [clerk EXCEPT ![k].pc = pc]
  BY DEF AccessInv, TypeOK, ClerkGoto
<1>2. clerk'[k] = [clerk[k] EXCEPT !.pc = pc] /\ clerk[k] \in Clerk
      /\ \A j \in Clerks : j # k => clerk'[j] = clerk[j]
  BY <1>1
<1>3. clerk'[k] \in Clerk /\ clerk'[k].pc = pc
      /\ clerk'[k].of = clerk[k].of /\ clerk'[k].client = clerk[k].client
      /\ clerk'[k].kind = clerk[k].kind /\ clerk'[k].asked = clerk[k].asked
  BY <1>2 DEF Clerk
<1> QED BY <1>1, <1>2, <1>3

\* A step in which the tables of roles stay as they are.
LEMMA TablesStill ==
    ASSUME AccessInv, RegistryTypeOK', Registered \subseteq Registered',
           UNCHANGED tableVars, drawn \subseteq drawn', drawn' \subseteq Objects,
           objectLock' \in [Objects -> Clerks \union {NoHandler}],
           clerk' \in [Clerks -> Clerk], NEW k, ObjectsKeep(k),
           k \in Clerks => ObjectOK(k)' /\ RowsOK(k)'
    PROVE  AccessInv'
<1>1. TypeOK'
  BY DEF AccessInv, TypeOK, tableVars
<1>2. OwnMappings'
  BY DEF AccessInv, OwnMappings, tableVars
<1>3. \A j \in Clerks : ObjectOK(j)' /\ RowsOK(j)'
  BY OthersKnow
<1> QED BY <1>1, <1>2, <1>3 DEF AccessInv

LEMMA BeginTypes ==
    ASSUME AccessInv, NEW k \in Clerks, NEW kind \in ClerkKinds,
           NEW pc \in {"insert", "lock", "exist"}, NEW c \in Clients \union {NoClient},
           NEW of \in Objects \union Users, NEW asked \in SUBSET Objects,
           Begins(k, kind, pc, c, of, asked)
    PROVE  /\ clerk' \in [Clerks -> Clerk]
           /\ clerk'[k].pc = pc /\ clerk'[k].kind = kind /\ clerk'[k].client = c
           /\ clerk'[k].of = of /\ clerk'[k].asked = asked
           /\ \A j \in Clerks : j # k => clerk'[j] = clerk[j]
<1>1. PICK q : q = [Off EXCEPT !.pc = pc, !.kind = kind, !.client = c, !.of = of, !.asked = asked]
  OBVIOUS
<1>2. q \in Clerk /\ q.pc = pc /\ q.kind = kind /\ q.client = c /\ q.of = of /\ q.asked = asked
  BY <1>1 DEF Off, Clerk
<1>3. clerk' = [clerk EXCEPT ![k] = q]
  BY <1>1 DEF Begins
<1> QED BY <1>2, <1>3 DEF AccessInv, TypeOK

LEMMA CreateBegins ==
    ASSUME RegistryInv, AccessInv, NEW k \in Clerks, createRole(k) \/ createPermission(k)
    PROVE  RegistryInv' /\ AccessInv'
<1>1. PICK c \in Clients, o \in Objects, kind \in {"role", "permission"} :
        /\ o \notin drawn /\ drawn' = drawn \union {o}
        /\ Begins(k, kind, "insert", c, o, {})
  BY DEF createRole, createPermission, Objects
<1>2. /\ clerk' \in [Clerks -> Clerk] /\ clerk'[k].pc = "insert" /\ clerk'[k].client = c
      /\ clerk'[k].of = o /\ \A j \in Clerks : j # k => clerk'[j] = clerk[j]
  BY <1>1, BeginTypes DEF ClerkKinds
<1>3. UNCHANGED <<stillVars, tableVars, objectLock>> /\ Counted(kind)
  BY <1>1 DEF Begins
<1>4. RegistryInv' /\ Registered' = Registered
  BY <1>3, RegistryStill
<1>5. /\ drawn \subseteq Objects /\ owner[o] = NoClient
      /\ objectLock \in [Objects -> Clerks \union {NoHandler}]
  BY <1>1 DEF AccessInv, TypeOK
<1>6. ObjectsKeep(k)
  BY <1>1, <1>2, <1>3 DEF ObjectsKeep, InUse, tableVars
<1>7. \A j \in Clerks : clerk'[j].pc = "insert" /\ clerk'[j].of = o => j = k
  BY <1>1, <1>2 DEF AccessInv, ObjectOK
<1>8. ObjectOK(k)' /\ RowsOK(k)'
  BY <1>1, <1>2, <1>3, <1>5, <1>7 DEF ObjectOK, RowsOK, tableVars
<1>9. drawn \subseteq drawn' /\ drawn' \subseteq Objects
  BY <1>1, <1>5
<1>10. AccessInv'
  BY <1>2, <1>3, <1>4, <1>5, <1>6, <1>8, <1>9, TablesStill DEF RegistryInv
<1> QED BY <1>4, <1>10

LEMMA OtherBegins ==
    ASSUME RegistryInv, AccessInv, NEW k \in Clerks,
           \/ deleteRole(k) \/ deletePermission(k)
           \/ replaceRolePermissions(k) \/ replaceUserRoles(k)
    PROVE  RegistryInv' /\ AccessInv'
<1>1. PICK kind \in ClerkKinds, pc \in {"lock", "exist"}, c \in Clients \union {NoClient},
           of \in Objects \union Users, asked \in SUBSET Objects :
        /\ drawn' = drawn /\ Begins(k, kind, pc, c, of, asked)
        /\ pc = "lock" => of \in Objects /\ c \in Clients
        /\ pc = "exist" =>
             \/ kind = "map" /\ c \in Clients /\ of \in Roles /\ asked \subseteq Permissions
             \/ kind = "grant" /\ of \in Users /\ asked \subseteq Roles
  <2>1. CASE deleteRole(k) \/ deletePermission(k)
    <3>1. PICK kind \in ClerkKinds, c \in Clients, of \in Objects :
            drawn' = drawn /\ Begins(k, kind, "lock", c, of, {})
      BY <2>1 DEF deleteRole, deletePermission, ClerkKinds, Objects
    <3> QED BY <3>1
  <2>2. CASE replaceRolePermissions(k)
    <3>1. PICK c \in Clients, r \in Roles, asked \in SUBSET Permissions :
            drawn' = drawn /\ Begins(k, "map", "exist", c, r, asked)
      BY <2>2 DEF replaceRolePermissions
    <3>2. r \in Objects \union Users /\ asked \in SUBSET Objects /\ "map" \in ClerkKinds
      BY DEF Objects, ClerkKinds
    <3> QED BY <3>1, <3>2
  <2>3. CASE replaceUserRoles(k)
    <3>1. PICK u \in Users, asked \in SUBSET Roles :
            drawn' = drawn /\ Begins(k, "grant", "exist", NoClient, u, asked)
      BY <2>3 DEF replaceUserRoles
    <3>2. u \in Objects \union Users /\ asked \in SUBSET Objects /\ "grant" \in ClerkKinds
      BY DEF Objects, ClerkKinds
    <3> QED BY <3>1, <3>2
  <2> QED BY <2>1, <2>2, <2>3
<1>2. /\ clerk' \in [Clerks -> Clerk]
      /\ clerk'[k].pc = pc /\ clerk'[k].kind = kind /\ clerk'[k].client = c
      /\ clerk'[k].of = of /\ clerk'[k].asked = asked
      /\ \A j \in Clerks : j # k => clerk'[j] = clerk[j]
  BY <1>1, BeginTypes
<1>3. UNCHANGED <<stillVars, tableVars, objectLock>> /\ Counted(kind)
  BY <1>1 DEF Begins
<1>4. RegistryInv' /\ Registered' = Registered
  BY <1>3, RegistryStill
<1>5. drawn \subseteq Objects /\ objectLock \in [Objects -> Clerks \union {NoHandler}]
  BY DEF AccessInv, TypeOK
<1>6. ObjectsKeep(k)
  BY <1>1, <1>2, <1>3 DEF ObjectsKeep, InUse, tableVars
<1>7. ObjectOK(k)' /\ RowsOK(k)'
  BY <1>1, <1>2 DEF ObjectOK, RowsOK
<1>8. AccessInv'
  BY <1>1, <1>2, <1>3, <1>4, <1>5, <1>6, <1>7, TablesStill DEF RegistryInv
<1> QED BY <1>4, <1>8

LEMMA CreateObjectKeeps ==
    ASSUME RegistryInv, AccessInv, NEW k \in Clerks, CreateObject(k)
    PROVE  RegistryInv' /\ AccessInv'
<1> DEFINE c == clerk[k].client
           o == clerk[k].of
<1>0. /\ UNCHANGED <<registryVars, mapping, grants, objectLock, drawn>> /\ ClerkDone(k)
      /\ clerk[k].pc = "insert"
      /\ owner' = IF clients[c].exists THEN [owner EXCEPT ![o] = c] ELSE owner
  BY DEF CreateObject
<1>1. RegistryInv' /\ Registered' = Registered
  BY <1>0, RegistryStill DEF registryVars, stillVars
<1>2. /\ clerk' \in [Clerks -> Clerk] /\ clerk'[k].pc = "idle"
      /\ \A j \in Clerks : j # k => clerk'[j] = clerk[j]
  BY <1>0, DoneTypes
<1>3. o \in Objects /\ c \in Clients /\ o \in drawn /\ owner[o] = NoClient
  BY <1>0 DEF AccessInv, ObjectOK
<1>4. /\ owner' \in [Objects -> Registered \union {NoClient}]
      /\ \A x \in Objects : x # o => owner'[x] = owner[x]
  BY <1>0, <1>3 DEF AccessInv, TypeOK, Registered
<1>5. \A row \in mapping : row[1] \in Objects /\ row[2] \in Objects /\ row[1] # o /\ row[2] # o
  BY <1>3 DEF AccessInv, TypeOK, Objects
<1>6. \A row \in grants : row[2] \in Objects /\ row[2] # o
  BY <1>3 DEF AccessInv, TypeOK, Objects
<1>7. {x \in Objects : owner'[x] # NoClient} \subseteq drawn
  BY <1>3, <1>4 DEF AccessInv, TypeOK
<1>8. TypeOK'
  BY <1>0, <1>1, <1>2, <1>4, <1>5, <1>6, <1>7 DEF AccessInv, TypeOK, RegistryInv
<1>9. OwnMappings'
  BY <1>0, <1>4, <1>5 DEF AccessInv, OwnMappings
<1>10. ObjectsKeep(k)
  <2>1. drawn \subseteq Objects
    BY DEF AccessInv, TypeOK
  <2> QED BY <1>0, <1>2, <1>4, <2>1 DEF ObjectsKeep, InUse
<1>11. \A j \in Clerks : ObjectOK(j)' /\ RowsOK(j)'
  BY <1>2, <1>10, OthersKnow, IdleClerk
<1> QED BY <1>1, <1>8, <1>9, <1>11 DEF AccessInv

LEMMA LockObjectKeeps ==
    ASSUME RegistryInv, AccessInv, NEW k \in Clerks, LockObject(k)
    PROVE  RegistryInv' /\ AccessInv'
<1> DEFINE o == clerk[k].of
<1>0. /\ UNCHANGED <<registryVars, tableVars, drawn>>
      /\ clerk[k].pc = "lock" /\ objectLock[o] = NoHandler
      /\ \/ ClerkGoto(k, "use") /\ objectLock' = [objectLock EXCEPT ![o] = k]
         \/ ClerkDone(k) /\ objectLock' = objectLock
  BY DEF LockObject
<1>1. RegistryInv' /\ Registered' = Registered
  BY <1>0, RegistryStill DEF registryVars, stillVars
<1>2. /\ o \in Objects /\ clerk[k].client \in Clients /\ drawn \subseteq Objects
      /\ objectLock \in [Objects -> Clerks \union {NoHandler}]
  BY <1>0 DEF AccessInv, ObjectOK, TypeOK
<1>3. /\ objectLock' \in [Objects -> Clerks \union {NoHandler}]
      /\ \A x \in Objects : objectLock[x] # NoHandler => objectLock'[x] = objectLock[x]
  BY <1>0, <1>2
<1>4. clerk' \in [Clerks -> Clerk] /\ \A j \in Clerks : j # k => clerk'[j] = clerk[j]
  BY <1>0, DoneTypes, ClerkGotoTypes
<1>5. clerk'[k].pc # "insert" /\ ObjectOK(k)' /\ RowsOK(k)'
  <2>1. CASE ClerkDone(k)
    BY <2>1, DoneTypes, IdleClerk
  <2>2. CASE ClerkGoto(k, "use") /\ objectLock' = [objectLock EXCEPT ![o] = k]
    <3>1. clerk'[k].pc = "use" /\ clerk'[k].of = o /\ clerk'[k].client = clerk[k].client
      BY <2>2, ClerkGotoTypes
    <3>2. objectLock'[o] = k
      BY <1>2, <2>2
    <3> QED BY <1>2, <3>1, <3>2 DEF ObjectOK, RowsOK
  <2> QED BY <1>0, <2>1, <2>2
<1>6. ObjectsKeep(k)
  BY <1>0, <1>3, <1>4, <1>5 DEF ObjectsKeep, InUse, tableVars
<1>7. AccessInv'
  BY <1>0, <1>1, <1>2, <1>3, <1>4, <1>5, <1>6, TablesStill DEF RegistryInv
<1> QED BY <1>1, <1>7

LEMMA CheckUseKeeps ==
    ASSUME RegistryInv, AccessInv, NEW k \in Clerks, CheckUse(k)
    PROVE  RegistryInv' /\ AccessInv'
<1> DEFINE o == clerk[k].of
<1>0. /\ UNCHANGED <<registryVars, tableVars, drawn>> /\ clerk[k].pc = "use"
      /\ \/ ClerkDone(k) /\ objectLock' = [objectLock EXCEPT ![o] = NoHandler]
         \/ ClerkGoto(k, "remove") /\ objectLock' = objectLock /\ ~InUse(o)
  BY DEF CheckUse
<1>1. RegistryInv' /\ Registered' = Registered
  BY <1>0, RegistryStill DEF registryVars, stillVars
<1>2. /\ o \in Objects /\ clerk[k].client \in Clients /\ drawn \subseteq Objects
      /\ objectLock \in [Objects -> Clerks \union {NoHandler}] /\ objectLock[o] = k
  BY <1>0 DEF AccessInv, ObjectOK, TypeOK
<1>3. /\ objectLock' \in [Objects -> Clerks \union {NoHandler}]
      /\ \A x \in Objects : objectLock[x] # k => objectLock'[x] = objectLock[x]
  BY <1>0, <1>2
<1>4. clerk' \in [Clerks -> Clerk] /\ \A j \in Clerks : j # k => clerk'[j] = clerk[j]
  BY <1>0, DoneTypes, ClerkGotoTypes
<1>5. clerk'[k].pc # "insert" /\ ObjectOK(k)' /\ RowsOK(k)'
  <2>1. CASE ClerkDone(k)
    BY <2>1, DoneTypes, IdleClerk
  <2>2. CASE ClerkGoto(k, "remove") /\ objectLock' = objectLock /\ ~InUse(o)
    <3>1. clerk'[k].pc = "remove" /\ clerk'[k].of = o /\ clerk'[k].client = clerk[k].client
      BY <2>2, ClerkGotoTypes
    <3>2. ~InUse(clerk[k].of)'
      BY <1>0, <2>2, <3>1 DEF InUse, tableVars
    <3> QED BY <1>2, <2>2, <3>1, <3>2 DEF ObjectOK, RowsOK
  <2> QED BY <1>0, <2>1, <2>2
<1>6. ObjectsKeep(k)
  BY <1>0, <1>3, <1>4, <1>5 DEF ObjectsKeep, InUse, tableVars
<1>7. AccessInv'
  BY <1>0, <1>1, <1>2, <1>3, <1>4, <1>5, <1>6, TablesStill DEF RegistryInv
<1> QED BY <1>1, <1>7

\* What is deleted takes the rows that name it along.
LEMMA CascadeKeeps ==
    ASSUME AccessInv, NEW gone \in SUBSET Objects, Cascade(gone), RegistryTypeOK',
           \A o \in Objects \ gone : owner[o] \in Registered' \union {NoClient},
           UNCHANGED drawn, objectLock' \in [Objects -> Clerks \union {NoHandler}],
           clerk' \in [Clerks -> Clerk]
    PROVE  /\ TypeOK' /\ OwnMappings'
           /\ \A o \in Objects : owner'[o] \in {owner[o], NoClient}
           /\ \A o \in Objects : InUse(o)' => InUse(o)
<1>1. /\ owner' = [o \in Objects |-> IF o \in gone THEN NoClient ELSE owner[o]]
      /\ mapping' = {row \in mapping : row[1] \notin gone /\ row[2] \notin gone}
      /\ grants' = {row \in grants : row[2] \notin gone}
  BY DEF Cascade
<1>2. /\ \A row \in mapping : row[1] \in Objects /\ row[2] \in Objects
      /\ \A row \in grants : row[2] \in Objects
  BY DEF AccessInv, TypeOK, Objects
<1>3. /\ owner' \in [Objects -> Registered' \union {NoClient}]
      /\ \A o \in Objects : o \notin gone => owner'[o] = owner[o]
      /\ \A o \in Objects : owner'[o] \in {owner[o], NoClient}
  BY <1>1
<1>4. {o \in Objects : owner'[o] # NoClient} \subseteq drawn'
  <2>1. \A o \in Objects : owner[o] # NoClient => o \in drawn
    BY DEF AccessInv, TypeOK
  <2> QED BY <1>3, <2>1
<1>5. TypeOK'
  BY <1>1, <1>2, <1>3, <1>4 DEF AccessInv, TypeOK
<1>6. OwnMappings'
  BY <1>1, <1>2, <1>3 DEF AccessInv, OwnMappings
<1> QED BY <1>1, <1>3, <1>5, <1>6 DEF InUse

LEMMA DeleteObjectKeeps ==
    ASSUME RegistryInv, AccessInv, NEW k \in Clerks, DeleteObject(k)
    PROVE  RegistryInv' /\ AccessInv'
<1> DEFINE o == clerk[k].of
<1>0. /\ UNCHANGED <<registryVars, drawn>> /\ clerk[k].pc = "remove"
      /\ Cascade({o}) /\ ClerkDone(k) /\ objectLock' = [objectLock EXCEPT ![o] = NoHandler]
  BY DEF DeleteObject
<1>1. RegistryInv' /\ Registered' = Registered
  BY <1>0, RegistryStill DEF registryVars, stillVars
<1>2. /\ o \in Objects /\ drawn \subseteq Objects
      /\ objectLock \in [Objects -> Clerks \union {NoHandler}] /\ objectLock[o] = k
      /\ owner \in [Objects -> Registered \union {NoClient}]
  BY <1>0 DEF AccessInv, ObjectOK, TypeOK
<1>3. /\ objectLock' \in [Objects -> Clerks \union {NoHandler}]
      /\ \A x \in Objects : objectLock[x] # k => objectLock'[x] = objectLock[x]
  BY <1>0, <1>2
<1>4. /\ clerk' \in [Clerks -> Clerk] /\ clerk'[k].pc = "idle"
      /\ \A j \in Clerks : j # k => clerk'[j] = clerk[j]
  BY <1>0, DoneTypes
<1>5. /\ TypeOK' /\ OwnMappings'
      /\ \A x \in Objects : owner'[x] \in {owner[x], NoClient}
      /\ \A x \in Objects : InUse(x)' => InUse(x)
  <2>1. PICK gone \in SUBSET Objects : gone = {o}
    BY <1>2
  <2> QED BY <1>0, <1>1, <1>2, <1>3, <1>4, <2>1, CascadeKeeps DEF RegistryInv
<1>6. ObjectsKeep(k)
  BY <1>0, <1>2, <1>3, <1>4, <1>5 DEF ObjectsKeep
<1>7. \A j \in Clerks : ObjectOK(j)' /\ RowsOK(j)'
  BY <1>4, <1>6, OthersKnow, IdleClerk
<1> QED BY <1>1, <1>5, <1>7 DEF AccessInv

LEMMA CheckExistKeeps ==
    ASSUME RegistryInv, AccessInv, NEW k \in Clerks, CheckExist(k)
    PROVE  RegistryInv' /\ AccessInv'
<1>0. /\ UNCHANGED <<registryVars, tableVars, objectLock, drawn>> /\ clerk[k].pc = "exist"
      /\ (ClerkGoto(k, "see") /\ Exist(k)) \/ ClerkDone(k)
  BY DEF CheckExist
<1>1. RegistryInv' /\ Registered' = Registered
  BY <1>0, RegistryStill DEF registryVars, stillVars
<1>2. drawn \subseteq Objects /\ objectLock \in [Objects -> Clerks \union {NoHandler}]
  BY DEF AccessInv, TypeOK
<1>4. clerk' \in [Clerks -> Clerk] /\ \A j \in Clerks : j # k => clerk'[j] = clerk[j]
  BY <1>0, DoneTypes, ClerkGotoTypes
<1>5. clerk'[k].pc # "insert" /\ ObjectOK(k)' /\ RowsOK(k)'
  <2>1. CASE ClerkDone(k)
    BY <2>1, DoneTypes, IdleClerk
  <2>2. CASE ClerkGoto(k, "see") /\ Exist(k)
    <3>1. /\ clerk'[k].pc = "see" /\ clerk'[k].of = clerk[k].of
          /\ clerk'[k].client = clerk[k].client /\ clerk'[k].kind = clerk[k].kind
          /\ clerk'[k].asked = clerk[k].asked
      BY <2>2, ClerkGotoTypes
    <3>2. RowsOK(k)
      BY DEF AccessInv
    <3>3. clerk[k].kind = "map" =>
            \A x \in clerk[k].asked \union {clerk[k].of} :
              /\ x \in drawn' /\ ~Inserting(x)' /\ owner'[x] = clerk[k].client
      <4> SUFFICES ASSUME clerk[k].kind = "map", NEW x \in clerk[k].asked \union {clerk[k].of}
                   PROVE  x \in drawn' /\ ~Inserting(x)' /\ owner'[x] = clerk[k].client
        OBVIOUS
      <4>1. x \in Objects /\ owner[x] = clerk[k].client /\ owner[x] # NoClient
        BY <1>0, <2>2, <3>2, RegistryAssumption DEF RowsOK, Exist, Objects, ClerkKinds
      <4>2. x \in drawn
        BY <4>1 DEF AccessInv, TypeOK
      <4>3. ~Inserting(x)
        BY <4>1 DEF AccessInv, ObjectOK, Inserting
      <4>4. ~Inserting(x)'
        BY <1>4, <3>1, <4>3 DEF Inserting
      <4> QED BY <1>0, <4>1, <4>2, <4>4 DEF tableVars
    <3>4. RowsOK(k)'
      BY <1>0, <3>1, <3>2, <3>3 DEF RowsOK
    <3> QED BY <3>1, <3>4 DEF ObjectOK
  <2> QED BY <1>0, <2>1, <2>2
<1>6. ObjectsKeep(k)
  BY <1>0, <1>4, <1>5 DEF ObjectsKeep, InUse, tableVars
<1>7. AccessInv'
  BY <1>0, <1>1, <1>2, <1>4, <1>5, <1>6, TablesStill DEF RegistryInv
<1> QED BY <1>1, <1>7

LEMMA SeeObjectsKeeps ==
    ASSUME RegistryInv, AccessInv, NEW k \in Clerks, SeeObjects(k)
    PROVE  RegistryInv' /\ AccessInv'
<1>0. /\ UNCHANGED <<registryVars, tableVars, objectLock, drawn>> /\ clerk[k].pc = "see"
  BY DEF SeeObjects
<1>1. RegistryInv' /\ Registered' = Registered
  BY <1>0, RegistryStill DEF registryVars, stillVars
<1>2. /\ drawn \subseteq Objects /\ objectLock \in [Objects -> Clerks \union {NoHandler}]
      /\ clerk \in [Clerks -> Clerk] /\ RowsOK(k)
  BY DEF AccessInv, TypeOK
<1>3. PICK seen : seen = {row \in mapping \union grants : row[1] = clerk[k].of}
  OBVIOUS
<1>4. seen \subseteq (Roles \X Permissions) \union (Users \X Roles)
  BY <1>3 DEF AccessInv, TypeOK
<1>5. PICK q : q = [clerk[k] EXCEPT !.pc = "commit", !.seen = seen]
  OBVIOUS
<1>6. /\ q \in Clerk /\ q.pc = "commit" /\ q.of = clerk[k].of /\ q.client = clerk[k].client
      /\ q.kind = clerk[k].kind /\ q.asked = clerk[k].asked /\ q.seen = seen
  BY <1>2, <1>4, <1>5 DEF Clerk
<1>7. clerk' = [clerk EXCEPT ![k] = q]
  BY <1>2, <1>3, <1>5 DEF SeeObjects
<1>8. /\ clerk' \in [Clerks -> Clerk] /\ clerk'[k] = q
      /\ \A j \in Clerks : j # k => clerk'[j] = clerk[j]
  BY <1>2, <1>6, <1>7
<1>9. \A x : Inserting(x)' => Inserting(x)
  BY <1>6, <1>8 DEF Inserting
<1>10. ObjectOK(k)'
  BY <1>6, <1>8 DEF ObjectOK
<1>11. RowsOK(k)'
  <2>1. clerk[k].kind = "map" =>
          \A o \in clerk[k].asked \union {clerk[k].of} :
             /\ o \in drawn' /\ ~Inserting(o)'
             /\ owner'[o] \in {clerk[k].client, NoClient}
    BY <1>0, <1>2, <1>9 DEF RowsOK, tableVars
  <2> QED BY <1>0, <1>2, <1>3, <1>6, <1>8, <2>1 DEF RowsOK
<1>12. ObjectsKeep(k)
  BY <1>0, <1>6, <1>8 DEF ObjectsKeep, InUse, tableVars
<1>13. AccessInv'
  BY <1>0, <1>1, <1>2, <1>8, <1>10, <1>11, <1>12, TablesStill DEF RegistryInv
<1> QED BY <1>1, <1>13

\* The tables after a replacement: rows of the one it is about, and of what it
\* asked for.
LEMMA ReplacedRows ==
    ASSUME NEW table, NEW k \in Clerks
    PROVE  /\ \A row \in Replaced(table, k) : row \notin table =>
                /\ row \in {clerk[k].of} \X clerk[k].asked
                /\ \A o \in clerk[k].asked \union ({clerk[k].of} \intersect Roles) :
                     owner[o] # NoClient
           /\ \A row \in table : row \notin Replaced(table, k) => row \in clerk[k].seen
BY DEF Replaced

LEMMA CommitObjectsKeeps ==
    ASSUME RegistryInv, AccessInv, NEW k \in Clerks, CommitObjects(k)
    PROVE  RegistryInv' /\ AccessInv'
<1> DEFINE new == {clerk[k].of} \X clerk[k].asked
<1>0. /\ UNCHANGED <<registryVars, owner, objectLock, drawn>> /\ clerk[k].pc = "commit"
      /\ \A o \in (clerk[k].asked \union {clerk[k].of}) \intersect Objects :
            objectLock[o] = NoHandler
      /\ IF clerk[k].kind = "map"
            THEN mapping' = Replaced(mapping, k) /\ grants' = grants
            ELSE grants' = Replaced(grants, k) /\ mapping' = mapping
      /\ ClerkDone(k)
  BY DEF CommitObjects
<1>1. RegistryInv' /\ Registered' = Registered
  BY <1>0, RegistryStill DEF registryVars, stillVars
<1>2. /\ clerk' \in [Clerks -> Clerk] /\ clerk'[k].pc = "idle"
      /\ \A j \in Clerks : j # k => clerk'[j] = clerk[j]
  BY <1>0, DoneTypes
<1>3. \/ /\ clerk[k].kind = "map" /\ clerk[k].client \in Clients
         /\ clerk[k].of \in Roles /\ clerk[k].asked \subseteq Permissions
      \/ /\ clerk[k].kind = "grant"
         /\ clerk[k].of \in Users /\ clerk[k].asked \subseteq Roles
  BY <1>0 DEF AccessInv, RowsOK
<1>4. /\ mapping' \subseteq Roles \X Permissions
      /\ \A row \in mapping' : row \notin mapping =>
           /\ clerk[k].kind = "map" /\ row[1] = clerk[k].of /\ row[2] \in clerk[k].asked
           /\ owner[row[1]] # NoClient /\ owner[row[2]] # NoClient
  <2>1. CASE clerk[k].kind = "map"
    <3>1. mapping' = Replaced(mapping, k)
      BY <1>0, <2>1
    <3>2. \A row \in mapping' : row \notin mapping =>
            /\ row \in {clerk[k].of} \X clerk[k].asked
            /\ \A o \in clerk[k].asked \union ({clerk[k].of} \intersect Roles) :
                     owner[o] # NoClient
      BY <3>1, ReplacedRows
    <3>3. clerk[k].of \in Roles /\ clerk[k].asked \subseteq Permissions
      BY <1>3, <2>1
    <3>4. mapping \subseteq Roles \X Permissions
      BY DEF AccessInv, TypeOK
    <3>5. mapping' \subseteq Roles \X Permissions
      BY <3>2, <3>3, <3>4
    <3> QED BY <2>1, <3>2, <3>3, <3>5
  <2>2. CASE clerk[k].kind # "map"
    BY <1>0, <2>2 DEF AccessInv, TypeOK
  <2> QED BY <2>1, <2>2
<1>5. /\ grants' \subseteq Users \X Roles
      /\ \A row \in grants' : row \notin grants =>
           row[2] \in clerk[k].asked /\ owner[row[2]] # NoClient
  <2>1. CASE clerk[k].kind # "map"
    <3>1. grants' = Replaced(grants, k)
      BY <1>0, <2>1
    <3>2. \A row \in grants' : row \notin grants =>
            /\ row \in {clerk[k].of} \X clerk[k].asked
            /\ \A o \in clerk[k].asked : owner[o] # NoClient
      BY <3>1, ReplacedRows
    <3>3. clerk[k].of \in Users /\ clerk[k].asked \subseteq Roles
      BY <1>3, <2>1
    <3>4. grants \subseteq Users \X Roles
      BY DEF AccessInv, TypeOK
    <3>5. grants' \subseteq Users \X Roles
      BY <3>2, <3>3, <3>4
    <3> QED BY <3>2, <3>5
  <2>2. CASE clerk[k].kind = "map"
    BY <1>0, <2>2 DEF AccessInv, TypeOK
  <2> QED BY <2>1, <2>2
<1>6. TypeOK'
  BY <1>0, <1>1, <1>2, <1>4, <1>5 DEF AccessInv, TypeOK, RegistryInv
<1>7. OwnMappings'
  <2> SUFFICES ASSUME NEW row \in mapping' PROVE owner[row[1]] = owner[row[2]]
    BY <1>0 DEF OwnMappings
  <2>1. CASE row \in mapping
    BY <2>1 DEF AccessInv, OwnMappings
  <2>2. CASE row \notin mapping
    <3>1. /\ clerk[k].kind = "map" /\ row[1] = clerk[k].of /\ row[2] \in clerk[k].asked
          /\ owner[row[1]] # NoClient /\ owner[row[2]] # NoClient
      BY <1>4, <2>2
    <3>2. \A o \in clerk[k].asked \union {clerk[k].of} : owner[o] \in {clerk[k].client, NoClient}
      BY <1>0, <3>1 DEF AccessInv, RowsOK
    <3> QED BY <3>1, <3>2
  <2> QED BY <2>1, <2>2
<1>8. \A o \in Objects : objectLock[o] # NoHandler => (InUse(o)' => InUse(o))
  <2> SUFFICES ASSUME NEW o \in Objects, objectLock[o] # NoHandler, InUse(o)'
               PROVE  InUse(o)
    OBVIOUS
  <2>1. o \notin clerk[k].asked
    BY <1>0
  <2>2. \A u \in Users : <<u, o>> \in grants' => <<u, o>> \in grants
    BY <1>5, <2>1
  <2>3. \A r \in Roles : <<r, o>> \in mapping' => <<r, o>> \in mapping
    BY <1>4, <2>1
  <2> QED BY <2>2, <2>3 DEF InUse
<1>9. ObjectsKeep(k)
  BY <1>0, <1>2, <1>8 DEF ObjectsKeep
<1>10. \A j \in Clerks : ObjectOK(j)' /\ RowsOK(j)'
  BY <1>2, <1>9, OthersKnow, IdleClerk
<1> QED BY <1>1, <1>6, <1>7, <1>10 DEF AccessInv

LEMMA DeleteClientKeeps ==
    ASSUME RegistryInv, AccessInv, NEW h \in Handlers, DeleteClient(h)
    PROVE  RegistryInv' /\ AccessInv'
<1>1. PICK gone \in SUBSET Objects : gone = {o \in Objects : owner[o] = handler[h].client}
  OBVIOUS
<1>2. DeleteArchived(h) /\ Cascade(gone) /\ UNCHANGED <<objectLock, drawn, clerk>>
  BY <1>1 DEF DeleteClient
<1>3. RegistryInv'
  BY <1>2, DeleteArchivedKeeps
<1>4. Registered \ {handler[h].client} \subseteq Registered'
  BY <1>2 DEF DeleteArchived, Registered, RegistryInv, RegistryTypeOK
<1>5. \A o \in Objects \ gone : owner[o] \in Registered' \union {NoClient}
  BY <1>1, <1>4 DEF AccessInv, TypeOK
<1>6. objectLock' \in [Objects -> Clerks \union {NoHandler}] /\ clerk' \in [Clerks -> Clerk]
  BY <1>2 DEF AccessInv, TypeOK
<1>7. /\ TypeOK' /\ OwnMappings'
      /\ \A o \in Objects : owner'[o] \in {owner[o], NoClient}
      /\ \A o \in Objects : InUse(o)' => InUse(o)
  BY <1>2, <1>3, <1>5, <1>6, CascadeKeeps DEF RegistryInv
<1>8. drawn \subseteq Objects
  BY DEF AccessInv, TypeOK
<1>9. ObjectsKeep(NoHandler)
  BY <1>2, <1>7, <1>8, AccessAssumption DEF ObjectsKeep
<1>10. \A j \in Clerks : ObjectOK(j)' /\ RowsOK(j)'
  BY <1>9, OthersKnow, AccessAssumption
<1> QED BY <1>3, <1>7, <1>10 DEF AccessInv

-----------------------------------------------------------------------------
Inv == RegistryInv /\ AccessInv

LEMMA InvStep ==
    ASSUME Inv, [Next]_vars
    PROVE  Inv'
<1>1. CASE UNCHANGED vars
  <2>1. RegistryInv' /\ Registered' = Registered
    BY <1>1, RegistryStill DEF Inv, vars, registryVars, stillVars
  <2>2. ObjectsKeep(NoHandler)
    BY <1>1, AccessAssumption DEF ObjectsKeep, InUse, vars, accessVars, tableVars
  <2>3. AccessInv'
    <3>1. /\ drawn' \subseteq Objects /\ UNCHANGED <<tableVars, objectLock, drawn, clerk>>
          /\ objectLock' \in [Objects -> Clerks \union {NoHandler}] /\ clerk' \in [Clerks -> Clerk]
      BY <1>1 DEF Inv, AccessInv, TypeOK, vars, accessVars
    <3> QED BY <2>1, <2>2, <3>1, TablesStill, AccessAssumption DEF Inv, RegistryInv
  <2> QED BY <2>1, <2>3 DEF Inv
<1>2. CASE RegistryNext /\ UNCHANGED accessVars
  <2>1. RegistryInv' /\ Registered \subseteq Registered'
    BY <1>2, RegistryStep, RegistryWrites DEF Inv, ClientsStep, Registered
  <2>2. ObjectsKeep(NoHandler)
    BY <1>2, AccessAssumption DEF ObjectsKeep, InUse, accessVars, tableVars
  <2>3. AccessInv'
    <3>1. /\ drawn' \subseteq Objects /\ UNCHANGED <<tableVars, objectLock, drawn, clerk>>
          /\ objectLock' \in [Objects -> Clerks \union {NoHandler}] /\ clerk' \in [Clerks -> Clerk]
      BY <1>2 DEF Inv, AccessInv, TypeOK, accessVars
    <3> QED BY <2>1, <2>2, <3>1, TablesStill, AccessAssumption DEF Inv, RegistryInv
  <2> QED BY <2>1, <2>3 DEF Inv
<1>3. CASE \E h \in Handlers : DeleteClient(h)
  BY <1>3, DeleteClientKeeps DEF Inv
<1>4. ASSUME NEW k \in Clerks,
             \/ createRole(k) \/ createPermission(k) \/ CreateObject(k)
             \/ deleteRole(k) \/ deletePermission(k)
             \/ LockObject(k) \/ CheckUse(k) \/ DeleteObject(k)
             \/ replaceRolePermissions(k) \/ replaceUserRoles(k)
             \/ CheckExist(k) \/ SeeObjects(k) \/ CommitObjects(k)
      PROVE  Inv'
  BY <1>4, CreateBegins, CreateObjectKeeps, OtherBegins, LockObjectKeeps, CheckUseKeeps,
     DeleteObjectKeeps, CheckExistKeeps, SeeObjectsKeeps, CommitObjectsKeeps DEF Inv
<1> QED BY <1>1, <1>2, <1>3, <1>4 DEF Next

LEMMA InvStarts ==
    ASSUME Init
    PROVE  Inv
<1>1. RegistryInv
  BY RegistryStarts DEF Init
<1>2. owner \in [Objects -> Registered \union {NoClient}]
  BY DEF Init
<1>3. /\ mapping \subseteq Roles \X Permissions /\ grants \subseteq Users \X Roles
      /\ \A row \in mapping : owner[row[1]] # NoClient /\ owner[row[2]] = owner[row[1]]
      /\ \A row \in grants : owner[row[2]] # NoClient
  BY DEF Init
<1>4. /\ objectLock = [o \in Objects |-> NoHandler]
      /\ drawn = {o \in Objects : owner[o] # NoClient}
      /\ clerk = [k \in Clerks |-> Off]
  BY DEF Init
<1>5. TypeOK
  BY <1>1, <1>2, <1>3, <1>4, OffTypes DEF TypeOK, RegistryInv
<1>6. OwnMappings
  BY <1>3 DEF OwnMappings
<1>7. \A k \in Clerks : ObjectOK(k) /\ RowsOK(k)
  BY <1>4, OffTypes DEF ObjectOK, RowsOK
<1> QED BY <1>1, <1>5, <1>6, <1>7 DEF Inv, AccessInv

LEMMA InvHolds == Spec => []Inv
<1>1. Init => Inv
  BY InvStarts
<1>2. Inv /\ [Next]_vars => Inv'
  BY InvStep
<1> QED BY <1>1, <1>2, PTL DEF Spec

\* Every table refers to rows that are there: a client to a system, its relations
\* to clients and sources, roles and permissions to their client, mappings and
\* grants to roles and permissions, whatever is deleted while a request that
\* checked them is under way (the foreign keys of the tables of
\* client_repository.go and access_repository.go).
THEOREM AccessTypes == Spec => []TypeOK
<1>1. Inv => TypeOK
  BY DEF Inv, AccessInv
<1> QED BY <1>1, InvHolds, PTL

\* What ClientRepository.Create and Replace write of a client is one request's:
\* its columns and the rows of its tables never mix those of two administrators.
THEOREM ConfigWhole == Spec => []ConfigIsWhole
<1>1. Inv => ConfigIsWhole
  BY DEF Inv, RegistryInv
<1> QED BY <1>1, InvHolds, PTL

\* A step of the clerks touches neither clients nor sources.
LEMMA ClerksWriteNothing ==
    ASSUME RegistryInv, NEW k \in Clerks,
             \/ createRole(k) \/ createPermission(k) \/ CreateObject(k)
             \/ deleteRole(k) \/ deletePermission(k)
             \/ LockObject(k) \/ CheckUse(k) \/ DeleteObject(k)
             \/ replaceRolePermissions(k) \/ replaceUserRoles(k)
             \/ CheckExist(k) \/ SeeObjects(k) \/ CommitObjects(k)
    PROVE  UNCHANGED <<clients, relations, sources>>
<1>1. CASE createRole(k) \/ createPermission(k) \/ deleteRole(k) \/ deletePermission(k)
           \/ replaceRolePermissions(k) \/ replaceUserRoles(k)
  BY <1>1 DEF createRole, createPermission, deleteRole, deletePermission,
       replaceRolePermissions, replaceUserRoles, Begins, stillVars, clientVars
<1>2. CASE CreateObject(k) \/ LockObject(k) \/ CheckUse(k) \/ DeleteObject(k)
           \/ CheckExist(k) \/ SeeObjects(k) \/ CommitObjects(k)
  BY <1>2 DEF CreateObject, LockObject, CheckUse, DeleteObject, CheckExist, SeeObjects,
       CommitObjects, registryVars, clientVars
<1> QED BY <1>1, <1>2

\* How clients and sources change in any step: as the registry changes them, or
\* one archived client is deleted.
LEMMA RowsChange ==
    ASSUME Inv, [Next]_vars
    PROVE  /\ SourcesStep
           /\ \/ ClientsStep
              \/ /\ relations' \subseteq relations
                 /\ \A c \in Clients : clients'[c] = clients[c] \/ ~clients'[c].exists
<1>0. RegistryInv
  BY DEF Inv
<1>1. CASE UNCHANGED vars
  BY <1>0, <1>1, StillClients, StillSources DEF vars, registryVars, clientVars
<1>2. CASE RegistryNext
  BY <1>0, <1>2, RegistryWrites
<1>3. ASSUME NEW h \in Handlers, DeleteClient(h)
      PROVE  /\ SourcesStep /\ relations' \subseteq relations
             /\ \A c \in Clients : clients'[c] = clients[c] \/ ~clients'[c].exists
  <2>1. DeleteArchived(h) /\ ~NoRow.exists
    BY <1>3 DEF DeleteClient, NoRow
  <2>2. UNCHANGED sources /\ relations' \subseteq relations
        /\ \A c \in Clients : clients'[c] = clients[c] \/ ~clients'[c].exists
    BY <1>0, <2>1 DEF DeleteArchived, RegistryInv, RegistryTypeOK
  <2> QED BY <1>0, <2>2, StillSources
<1>4. ASSUME NEW k \in Clerks,
             \/ createRole(k) \/ createPermission(k) \/ CreateObject(k)
             \/ deleteRole(k) \/ deletePermission(k)
             \/ LockObject(k) \/ CheckUse(k) \/ DeleteObject(k)
             \/ replaceRolePermissions(k) \/ replaceUserRoles(k)
             \/ CheckExist(k) \/ SeeObjects(k) \/ CommitObjects(k)
      PROVE  ClientsStep /\ SourcesStep
  BY <1>0, <1>4, ClerksWriteNothing, StillClients, StillSources
<1> QED BY <1>1, <1>2, <1>3, <1>4 DEF Next

\* A request that read a client or a source before it was archived neither revives
\* it nor changes it: the writes of ClientRepository and the source repository
\* look at archived_at again, under the lock of the row.
THEOREM ArchivedStays == Spec => ArchivedIsFrozen
<1>1. ASSUME Inv, [Next]_vars
      PROVE  /\ \A c \in Clients :
                  clients[c].archived =>
                      /\ clients'[c] = clients[c] \/ ~clients'[c].exists
                      /\ {row \in relations' : row[1] = c} \subseteq relations
             /\ \A s \in Sources :
                  sources[s].archived => sources'[s].archived /\ ~sources'[s].enabled
  BY <1>1, RowsChange DEF ClientsStep, SourcesStep
<1>2. Inv /\ [Next]_vars =>
        [/\ \A c \in Clients :
                  clients[c].archived =>
                      /\ clients'[c] = clients[c] \/ ~clients'[c].exists
                      /\ {row \in relations' : row[1] = c} \subseteq relations
         /\ \A s \in Sources :
                  sources[s].archived => sources'[s].archived /\ ~sources'[s].enabled]_vars
  BY <1>1
<1> QED BY <1>2, InvHolds, PTL DEF Spec, ArchivedIsFrozen

\* The secret of a client changes only when a rotation stores the one it showed, that
\* of a source only when a replacement of it is written; and a replacement that left
\* the secret blank changes it only over another replacement written since it read
\* the source.  So replaceClient never brings an old secret back, the rewrap of a
\* starting instance changes none, and SourceService.Replace undoes one only when it
\* read the source before the other replacement was written.
THEOREM SecretsStay == Spec => SecretsKept
<1>1. ASSUME Inv, [Next]_vars
      PROVE  /\ \A c \in Clients :
                  /\ clients[c].exists /\ clients'[c].exists
                  /\ clients'[c].secret # clients[c].secret
                  => \E h \in Handlers :
                       /\ handler[h].pc = "rotate" /\ handler[h].client = c
                       /\ handler[h].row.secret = clients'[c].secret
             /\ \A s \in Sources :
                  ~SameSecret(sources[s].envelope, sources'[s].envelope)
                  => \/ ~sources[s].exists
                     \/ \E h \in Handlers :
                          LET row == handler[h].sourceRow
                          IN  /\ handler[h].pc = "source" /\ handler[h].source = s
                              /\ sources'[s].envelope = row.envelope
                              /\ handler[h].blank => row.version # sources[s].version
  BY <1>1, RowsChange DEF ClientsStep, SourcesStep
<1>2. Inv /\ [Next]_vars =>
        [/\ \A c \in Clients :
                  /\ clients[c].exists /\ clients'[c].exists
                  /\ clients'[c].secret # clients[c].secret
                  => \E h \in Handlers :
                       /\ handler[h].pc = "rotate" /\ handler[h].client = c
                       /\ handler[h].row.secret = clients'[c].secret
         /\ \A s \in Sources :
                  ~SameSecret(sources[s].envelope, sources'[s].envelope)
                  => \/ ~sources[s].exists
                     \/ \E h \in Handlers :
                          LET row == handler[h].sourceRow
                          IN  /\ handler[h].pc = "source" /\ handler[h].source = s
                              /\ sources'[s].envelope = row.envelope
                              /\ handler[h].blank => row.version # sources[s].version]_vars
  BY <1>1
<1> QED BY <1>2, InvHolds, PTL DEF Spec, SecretsKept

-----------------------------------------------------------------------------
\* What a step takes out of the tables of mappings and grants.
LostStep ==
    /\ \A row \in grants \ grants' :
         Commits("grant", row[1]) \/ ~clients'[owner[row[2]]].exists
    /\ \A row \in mapping \ mapping' :
         Commits("map", row[1]) \/ owner'[row[1]] = NoClient

LEMMA DeleteObjectLoses ==
    ASSUME Inv, NEW k \in Clerks, DeleteObject(k)
    PROVE  LostStep
<1>1. PICK o : o = clerk[k].of
  OBVIOUS
<1>2. o \in Objects /\ ~InUse(o) /\ Cascade({o})
  BY <1>1 DEF DeleteObject, Inv, AccessInv, ObjectOK
<1>3. \A row \in grants : row[2] # o
  BY <1>2 DEF InUse, Inv, AccessInv, TypeOK
<1>4. \A row \in mapping : row[2] # o /\ row[1] \in Objects
  BY <1>2 DEF InUse, Inv, AccessInv, TypeOK, Objects
<1> QED BY <1>2, <1>3, <1>4 DEF LostStep, Cascade

LEMMA DeleteClientLoses ==
    ASSUME Inv, NEW h \in Handlers, DeleteClient(h)
    PROVE  LostStep
<1>1. PICK gone \in SUBSET Objects : gone = {o \in Objects : owner[o] = handler[h].client}
  OBVIOUS
<1>2. DeleteArchived(h) /\ Cascade(gone) /\ handler[h].client \in Clients
  BY <1>1 DEF DeleteClient, DeleteArchived, Inv, RegistryInv, LocksOK
<1>3. ~clients'[handler[h].client].exists
  BY <1>2 DEF DeleteArchived, NoRow, Inv, RegistryInv, RegistryTypeOK
<1>4. /\ \A row \in mapping : row[1] \in Objects /\ row[2] \in Objects /\ owner[row[1]] = owner[row[2]]
      /\ \A row \in grants : row[2] \in Objects
  BY DEF Inv, AccessInv, TypeOK, OwnMappings, Objects
<1>5. \A row \in grants \ grants' : ~clients'[owner[row[2]]].exists
  BY <1>1, <1>2, <1>3 DEF Cascade
<1>6. \A row \in mapping \ mapping' : owner'[row[1]] = NoClient
  BY <1>1, <1>2, <1>4 DEF Cascade
<1> QED BY <1>5, <1>6 DEF LostStep

LEMMA CommitObjectsLoses ==
    ASSUME Inv, NEW k \in Clerks, CommitObjects(k)
    PROVE  LostStep
<1>1. /\ clerk[k].pc = "commit" /\ clerk'[k].pc = "idle"
      /\ clerk[k].kind \in {"map", "grant"}
      /\ \A row \in clerk[k].seen : row[1] = clerk[k].of
      /\ IF clerk[k].kind = "map"
            THEN mapping' = Replaced(mapping, k) /\ grants' = grants
            ELSE grants' = Replaced(grants, k) /\ mapping' = mapping
  BY DoneTypes DEF CommitObjects, Inv, AccessInv, RowsOK
<1>2. CASE clerk[k].kind = "map"
  <2>1. \A row \in mapping \ mapping' : row[1] = clerk[k].of
    BY <1>1, <1>2, ReplacedRows
  <2> QED BY <1>1, <1>2, <2>1 DEF LostStep, Commits
<1>3. CASE clerk[k].kind = "grant"
  <2>1. \A row \in grants \ grants' : row[1] = clerk[k].of
    BY <1>1, <1>3, ReplacedRows
  <2> QED BY <1>1, <1>3, <2>1 DEF LostStep, Commits
<1> QED BY <1>1, <1>2, <1>3

\* What users may do changes by no side effect of a deletion or of a replacement
\* under way: the lock of a deletion (SELECT ... FOR UPDATE) outlasts its lookup
\* of the use, so no grant or mapping is inserted between the two and cascaded.
THEOREM NothingLost == Spec => NothingLostSilently
<1>1. ASSUME Inv, [Next]_vars
      PROVE  LostStep
  <2>1. ASSUME UNCHANGED <<mapping, grants>>
        PROVE  LostStep
    BY <2>1 DEF LostStep
  <2>2. CASE UNCHANGED vars
    BY <2>1, <2>2 DEF vars, accessVars, tableVars
  <2>3. CASE RegistryNext /\ UNCHANGED accessVars
    BY <2>1, <2>3 DEF accessVars, tableVars
  <2>4. CASE \E h \in Handlers : DeleteClient(h)
    BY <1>1, <2>4, DeleteClientLoses
  <2>5. ASSUME NEW k \in Clerks,
               createRole(k) \/ createPermission(k) \/ deleteRole(k) \/ deletePermission(k)
               \/ replaceRolePermissions(k) \/ replaceUserRoles(k)
        PROVE  LostStep
    BY <2>1, <2>5 DEF createRole, createPermission, deleteRole, deletePermission,
         replaceRolePermissions, replaceUserRoles, Begins, tableVars
  <2>6. ASSUME NEW k \in Clerks,
               CreateObject(k) \/ LockObject(k) \/ CheckUse(k) \/ CheckExist(k) \/ SeeObjects(k)
        PROVE  LostStep
    BY <2>1, <2>6 DEF CreateObject, LockObject, CheckUse, CheckExist, SeeObjects, tableVars
  <2>7. ASSUME NEW k \in Clerks, DeleteObject(k) \/ CommitObjects(k)
        PROVE  LostStep
    BY <1>1, <2>7, DeleteObjectLoses, CommitObjectsLoses
  <2> QED BY <1>1, <2>2, <2>3, <2>4, <2>5, <2>6, <2>7 DEF Next
<1>2. Inv /\ [Next]_vars =>
        [/\ \A row \in grants \ grants' :
              Commits("grant", row[1]) \/ ~clients'[owner[row[2]]].exists
         /\ \A row \in mapping \ mapping' :
              Commits("map", row[1]) \/ owner'[row[1]] = NoClient]_vars
  BY <1>1 DEF LostStep
<1> QED BY <1>2, InvHolds, PTL DEF Spec, NothingLostSilently
=============================================================================
