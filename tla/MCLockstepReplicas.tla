------------------------ MODULE MCLockstepReplicas ------------------------
(***************************************************************************)
(* LockstepReplicas with the tabs' ids above those of their relays, as the *)
(* suffix of a tab's id makes them.                                        *)
(***************************************************************************)
EXTENDS Integers, LockstepReplicas

CONSTANTS Moves, TabLag, Jitter

\* Everything takes a tick; inputs may be faster by Jitter.
MCMinLatency == [input |-> 1 - Jitter, proof |-> 1, snapshot |-> 1]
MCMaxLatency == [input |-> 1, proof |-> 1, snapshot |-> 1]

\* Donors keep up with the clock; a tab may be in the background.
MCMaxLag == [h \in Host |-> IF h \in Tab THEN TabLag ELSE 1]

\* One input of every tab, and Moves more of the first.
MCMaxInputs == [p \in Tab |-> IF \A q \in Tab : p <= q THEN 1 + Moves ELSE 1]

MCRelay == [p \in Tab |-> p - 1]

\* The theorems' hypotheses hold of what is checked.
ASSUME Deployed == Prompt /\ Suffixed
=============================================================================
