----------------------------- MODULE SingleUse -----------------------------
(***************************************************************************)
(* What a one-time ticket promises, without saying how: a ticket that was  *)
(* issued is claimed by at most one redemption, and only that redemption   *)
(* may answer for it, at most once.  A ticket may also lapse unredeemed,   *)
(* and a claim may come to nothing.                                        *)
(***************************************************************************)
EXTENDS Naturals

CONSTANT Items

VARIABLES
    state,     \* the life of each ticket
    answers    \* how many redemptions of it were answered with success

singleUseVars == <<state, answers>>

States == {"none", "valid", "claimed", "spent"}

Init == state = [i \in Items |-> "none"] /\ answers = [i \in Items |-> 0]

Move(i, from, to) ==
    /\ state[i] = from
    /\ state' = [state EXCEPT ![i] = to]

Issue(i) == Move(i, "none", "valid") /\ UNCHANGED answers

Claim(i) == Move(i, "valid", "claimed") /\ UNCHANGED answers

Answer(i) ==
    /\ Move(i, "claimed", "spent")
    /\ answers' = [answers EXCEPT ![i] = @ + 1]

Waste(i) == Move(i, "claimed", "spent") /\ UNCHANGED answers

\* Tickets lapse together when what they hang on goes away.
Lapse(L) ==
    /\ \A i \in L : state[i] = "valid"
    /\ state' = [i \in Items |-> IF i \in L THEN "spent" ELSE state[i]]
    /\ UNCHANGED answers

Next ==
    \/ \E i \in Items : Issue(i) \/ Claim(i) \/ Answer(i) \/ Waste(i)
    \/ \E L \in SUBSET Items : Lapse(L)

Spec == Init /\ [][Next]_singleUseVars
=============================================================================
