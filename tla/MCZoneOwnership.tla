-------------------------- MODULE MCZoneOwnership --------------------------
(***************************************************************************)
(* ZoneOwnership on two or three nodes, a spawn zone every manager starts  *)
(* with and a wild zone players discover.                                  *)
(***************************************************************************)
EXTENDS ZoneOwnership

CONSTANTS a, b, spawn, wild,
          Crashes, Moves, Leaves, Idles, Lags, Losses

\* a ranks first for the spawn zone and b for the wild one; a third node is
\* second everywhere.
MCPriority ==
  [z \in Zone |-> [n \in Node |->
     IF n = a THEN (IF z = spawn THEN 3 ELSE 1)
     ELSE IF n = b THEN (IF z = spawn THEN 1 ELSE 3)
     ELSE 2]]

MCBudget ==
  [e \in Rare |-> CASE e = "crash" -> Crashes [] e = "move" -> Moves
                    [] e = "leave" -> Leaves  [] e = "idle" -> Idles
                    [] e = "lag" -> Lags      [] e = "loss" -> Losses]
=============================================================================
