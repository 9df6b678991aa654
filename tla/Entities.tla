------------------------------ MODULE Entities ------------------------------
(***************************************************************************)
(* The identifiers the modules of the token service share, and the value   *)
(* that stands for an empty identifier of each kind.                       *)
(***************************************************************************)
CONSTANTS
    Users, Clients, Sessions, Scopes,
    Backchannel,   \* the clients registered with a back-channel logout URI
    NoUser, NoClient, NoSession

ASSUME EntityAssumption ==
    /\ NoUser \notin Users /\ NoClient \notin Clients
    /\ NoSession \notin Sessions
=============================================================================
