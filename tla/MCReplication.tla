---------------------------- MODULE MCReplication ----------------------------
(* Instances of Replication: one dedicated server and two playing peers. *)
EXTENDS Replication, TLC

CONSTANTS
  a, p, q,                                  \* the server and the two peers
  Crashes, Tenures, Yields, Joins, Leaves,  \* the Budget
  TicksA, TicksP, TicksQ                    \* MaxTick

MCBudget ==
  ("crash" :> Crashes) @@ ("tenure" :> Tenures) @@ ("yield" :> Yields)
    @@ ("join" :> Joins) @@ ("leave" :> Leaves)
\* Peers with equal bounds are interchangeable.
Peers == Permutations({p, q})

\* Bounds that are not reached together: zones given away, a crash and a player
\* that leaves, peers that tick, and every player on the move.
Sparing ==
  /\ spent["join"] + 2 * spent["yield"] <= Joins
  /\ spent["join"] + spent["leave"] > Joins => spent["tenure"] < Tenures
  /\ spent["join"] + spent["leave"] + spent["crash"] <= Joins + 1
  /\ global_tick[p] + global_tick[q] > 0 =>
       /\ spent["tenure"] < Tenures /\ spent["join"] < Joins
       /\ spent["leave"] = 0 /\ spent["yield"] = 0

MCMaxTick == (a :> TicksA) @@ (p :> TicksP) @@ (q :> TicksQ)
=============================================================================
