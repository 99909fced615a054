------------------------------ MODULE MCSnapshots ------------------------------
(* Snapshots with TLC's symmetric model values for entities and values. *)
EXTENDS Snapshots, TLC

CONSTANTS e1, e2, v1, v2

Alike == Permutations({e1, e2}) \cup Permutations({v1, v2})
=============================================================================
