------------------------- MODULE MCOAuthRepository -------------------------
(***************************************************************************)
(* Small instances of OAuthRepository for TLC: one user and one client     *)
(* with a code, a refresh token family, a device and a consent.            *)
(***************************************************************************)
EXTENDS OAuthRepository, TLC

CONSTANTS k1, a1, r0, r1, d1, c1, c2, u1, s1, s2, f1

Of(session) == [Blank EXCEPT !.client = c1, !.user = u1, !.session = session]

\* These rows and no others.  The first token of the family has been exchanged
\* for the second.
Only(present, status) ==
    [i \in Ids |->
        CASE i \notin present -> None
          [] i \in present \intersect {k1} -> Of(s1)
          [] i \in present \intersect {a1, r1} -> [Of(s1) EXCEPT !.family = f1]
          [] i \in present \intersect {r0} ->
                [Of(s1) EXCEPT !.family = f1, !.consumed = TRUE]
          [] i \in present \intersect {d1} ->
                [Blank EXCEPT !.client = c1, !.status = status,
                              !.user = IF status = "pending" THEN None ELSE u1]
          [] i \in present \intersect Consents -> GrantOf(u1, c1)]

Ask(op, row) == [NoTask EXCEPT !.op = op, !.row = row, !.client = c1, !.user = u1]

Family ==
    {Ask("rotate", r0), Ask("rotate", r1), [Ask("rotate", r1) EXCEPT !.wide = TRUE],
     [Ask("rotate", r1) EXCEPT !.client = c2], Ask("revokeRefresh", r1),
     Ask("revokeAccess", a1), Ask("client", None),
     [Ask("session", None) EXCEPT !.session = s1]}

Sweeps ==
    {Ask("cleanup", None), Ask("rotate", r0), Ask("rotate", r1),
     [Ask("user", None) EXCEPT !.session = s2]}

Code ==
    {Ask("consume", k1), [Ask("consume", k1) EXCEPT !.client = c2],
     Ask("revokeAccess", a1), Ask("client", None),
     [Ask("user", None) EXCEPT !.session = s1]}

Decide ==
    {[Ask("decide", d1) EXCEPT !.approve = TRUE], Ask("decide", d1), Ask("poll", d1),
     Ask("deleteConsent", None), Ask("grant", None), Ask("user", None),
     Ask("client", None)}

Redeem ==
    {Ask("poll", d1), [Ask("poll", d1) EXCEPT !.early = TRUE],
     Ask("deleteConsent", None), Ask("user", None), Ask("client", None)}

Load(rows, fresh, tasks, lapsing) ==
    [rows |-> rows, unsaved |-> fresh, tasks |-> tasks, lapsing |-> lapsing]

MCWorkload ==
    [family |-> Load(Only({a1, r0, r1}, ""), {a1}, Family, {}),
     sweep |-> Load(Only({a1, r0, r1}, ""), {}, Sweeps, {r1}),
     code |-> Load(Only({k1, a1, r1}, ""), {k1, a1, r1}, Code, {k1}),
     device |-> Load(Only({d1}, "pending"), {d1}, Decide, {d1}),
     redeem |-> Load(Only({d1, <<u1, c1>>}, "approved"), {}, Redeem, {})]

\* A replay of the token that was exchanged, and a refresh with the other.
ReplayWorkload ==
    [replay |-> Load(Only({r0, r1}, ""), {}, {Ask("rotate", r0), Ask("rotate", r1)}, {})]

TxSymmetry == Permutations(Txs)
=============================================================================
