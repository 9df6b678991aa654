--------------------------- MODULE MCSigningKeys ---------------------------
(***************************************************************************)
(* Small instances of SigningKeys for TLC.                                 *)
(***************************************************************************)
EXTENDS SigningKeys, TLC

SigningSymmetry == Permutations(Instances) \union Permutations(Calls)

NoneSlow == \A c \in Calls : call[c].age = 0
OneAtATime == \A c, d \in Calls : call[c].pc # "idle" /\ call[d].pc # "idle" => c = d

\* Bounds: a third key only while one call follows the other, no call is slow and
\* every process is the first one; after a restart calls overlap or are slow.  With
\* two keys of the first processes everything happens.
ThirdKeyInPeace ==
    /\ Len(keys) > 2 => stops = 0 /\ NoneSlow /\ OneAtATime
    /\ stops > 0 => NoneSlow \/ OneAtATime

\* Two states that differ only in the lists of keys to verify with are one to TLC:
\* no property but TypeOK reads them, and the one step that does, Verify, begins the
\* refresh that jwks may begin whatever the lists are.
WithoutLists ==
    <<keys, [i \in Instances |-> [instance[i] EXCEPT !.verification = {}]],
      [c \in Calls |-> [call[c] EXCEPT !.found = {}]], signed, stops>>
=============================================================================
