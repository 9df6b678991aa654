------------------------------ MODULE MCAccess ------------------------------
(***************************************************************************)
(* Small instances of Access, and with it of Registry, for TLC.            *)
(***************************************************************************)
EXTENDS Access, TLC

CONSTANTS c1, c2, y1, s1

\* Plain configurations, and ones that move a client to another system, bind a
\* source, trust an introspector, or give up OAuth.
MCInputs ==
    {[system |-> NoSystem, oauth |-> TRUE, enabled |-> "unset",
      sources |-> {s1}, introspectableBy |-> {}],
     [system |-> y1, oauth |-> TRUE, enabled |-> "no",
      sources |-> {}, introspectableBy |-> {c2}],
     [system |-> c1, oauth |-> FALSE, enabled |-> "yes",
      sources |-> {}, introspectableBy |-> {}]}

\* What is asked of clients and systems, of sources, and of clients with roles.
MCWorkloads ==
    {{"addSystem", "dropSystem", "create", "replace"},
     {"replace", "rotate", "archive", "delete"},
     {"replace", "addSource", "source", "archiveSource", "rewrap"},
     {"archive", "delete", "role", "permission", "dropRole", "dropPermission",
      "map", "grant"}}

AccessSymmetry ==
    Permutations(Handlers) \union Permutations(Clerks) \union Permutations(Keys)
    \union Permutations(Roles)
=============================================================================
