---------------------------- MODULE MCAuthServer ----------------------------
(***************************************************************************)
(* Small instances of AuthServer for TLC.                                  *)
(***************************************************************************)
EXTENDS AuthServer, TLC

CONSTANTS u1, c1, c2

AllScopes == {"openid", "email"}

\* One user: every session belongs to u1.
OneOwner == [s \in Sessions |-> u1]

\* Clients that may use every grant type.
AllGrants == [c \in Clients |-> Kinds]
CodeAndRefresh == [c \in Clients |-> {"authorization_code", "refresh_token"}]
DeviceAndRefresh == [c \in Clients |-> {"device_code", "refresh_token"}]

AllAllowed == [c \in Clients |-> Scopes]
NoIntrospectors == [c \in Clients |-> {}]
EachOther == [c \in Clients |-> Clients \ {c}]

FullScope == {Scopes}
FullAndOpenID == {Scopes, {"openid"}}

RequestSymmetry == Permutations(Requests)
=============================================================================
