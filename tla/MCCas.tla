------------------------------- MODULE MCCas -------------------------------
(***************************************************************************)
(* Small instances of Cas for TLC.                                         *)
(***************************************************************************)
EXTENDS Cas, TLC

HandlerSymmetry == Permutations(Handlers)

\* Bound: three tickets, enough for a chain of two proxies, only while nothing else
\* happens around the handlers; everything else with two tickets.
LongChainsInPeace ==
    Len(tickets) > 2 => markers = {} /\ clock = 0 /\ MayHappen
=============================================================================
