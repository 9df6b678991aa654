----------------------------- MODULE MCDirectory -----------------------------
(***************************************************************************)
(* Small instances of Directory for TLC.                                   *)
(***************************************************************************)
EXTENDS Directory, TLC

\* What is asked of one account's address, of its ways to log in, and of the
\* administrators.
MCWorkloads ==
    {{"register", "replace", "change", "resend", "mark", "external"},
     {"create", "import", "external", "unlink", "password"},
     {"replace", "roles"}}

DirectorySymmetry ==
    Permutations(Users) \union Permutations(Emails)
    \union Permutations(Identities) \union Permutations(Handlers)
=============================================================================
