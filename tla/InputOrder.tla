------------------------------ MODULE InputOrder ------------------------------
(***************************************************************************)
(* What a player is promised: the inputs the authoritative body acts on    *)
(* are ones the player gave, each at most once, in the order given; some   *)
(* may be passed over, and a body may be set back to an earlier state.     *)
(***************************************************************************)
EXTENDS Naturals, Sequences

VARIABLES
  stamped,  \* how many inputs the player has given
  acted     \* the inputs the player's body has acted on, in order

newest == IF acted = << >> THEN 0 ELSE acted[Len(acted)]

Init == stamped = 0 /\ acted = << >>

\* The player gives another input.
Stamp == stamped' = stamped + 1 /\ UNCHANGED acted

\* The body acts on an input that is newer than all before.
Act ==
  /\ \E n \in (newest + 1)..stamped : acted' = Append(acted, n)
  /\ UNCHANGED stamped

\* A failover restores an earlier state, or the body is gone for good.
SetBack ==
  /\ \E n \in 0..Len(acted) : acted' = SubSeq(acted, 1, n)
  /\ UNCHANGED stamped

Next == Stamp \/ Act \/ SetBack

Spec == Init /\ [][Next]_<<stamped, acted>>
=============================================================================
