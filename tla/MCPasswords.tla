---------------------------- MODULE MCPasswords ----------------------------
(***************************************************************************)
(* Small instances of Passwords for TLC.                                   *)
(***************************************************************************)
EXTENDS Passwords, TLC

AllKinds == Kinds

RequestSymmetry == Permutations(Requests)
=============================================================================
