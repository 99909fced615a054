----------------------------- MODULE MCAntiCheat -----------------------------
(* An instance of AntiCheat for TLC. *)
EXTENDS AntiCheat, TLC

\* A clean round, and one of a client that fires faster than its weapon.
MCRound == {[shots |-> 1, violations |-> 0, inhuman |-> FALSE],
            [shots |-> 2, violations |-> 1, inhuman |-> FALSE]}

Symmetry == Permutations(Player) \cup Permutations(Zone)
================================================================================
