------------------------------- MODULE MCMfa -------------------------------
(***************************************************************************)
(* Small instances of Mfa for TLC.                                         *)
(***************************************************************************)
EXTENDS Mfa, TLC

AllKinds == Kinds

RequestSymmetry == Permutations(Requests)
=============================================================================
