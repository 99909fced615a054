----------------------------- MODULE MythicLand -----------------------------
(* The land under the sky: a ring of leyline wells (leyline.rs) and the food *)
(* web of the bestiary (ecology.rs), as living.rs seeds them, and what one   *)
(* step does to each.  Mana is in thousandths, populations are in            *)
(* thousandths of what the land carries.                                     *)
EXTENDS Heavens

CONSTANTS
  Reward,        \* the experience each mob of the pack is worth
  Dice(_, _, _), \* a throw for a tick and a salt, below its last argument
  MaxPop         \* where a population stops being a finite float

Mob == DOMAIN Reward

\* What a float holds is more than any land carries.
ASSUME LandAssumption ==
  /\ MaxPop \in Nat /\ MaxPop > 1000
  /\ IsFiniteSet(Mob) /\ \A m \in Mob : Reward[m] \in Nat

\* seed_from_content: one well to each element, on a ring around the origin.
\* Their influence is 40 m and they lie 104 m apart: a place is near one.
Elements ==
  <<"fire", "frost", "arcane", "nature", "shadow", "storm", "radiant">>
Well == DOMAIN Elements
Beyond(w) == IF w = Len(Elements) THEN 1 ELSE w + 1
Before(w) == IF w = 1 THEN Len(Elements) ELSE w - 1
Capacity == 1200000
Brimming(charge) == \A w \in Well : charge[w] = Capacity
saturation(charge, w) == (100 * charge[w]) \div Capacity
Clamped(x, lo, hi) == IF x < lo THEN lo ELSE IF x > hi THEN hi ELSE x

\* LeylineNetwork::tick: the season's tide, then what flows along the ring.
Recharged(charge, t, ticks) ==
  [w \in Well |->
     Clamped(charge[w] + (15 * mana_tide[season(t)] * ticks) \div 8,
             0, Capacity)]

\* What runs from w to the next well.
Flow(charge, w, ticks) ==
  ((charge[w] - charge[Beyond(w)]) * 3 * ticks) \div 640

\* Mutant: the well above keeps what it gives.
Diffused_gushing(charge, ticks) ==
  [w \in Well |->
     Clamped(charge[w] + Flow(charge, Before(w), ticks), 0, Capacity)]

Diffused(charge, ticks) ==
  [w \in Well |->
     Clamped(charge[w] - Flow(charge, w, ticks) + Flow(charge, Before(w), ticks),
             0, Capacity)]
Breathed(charge, t, ticks) == Diffused(Recharged(charge, t, ticks), ticks)
-----------------------------------------------------------------------------
trophic(m) == IF Reward[m] < 30 THEN "Grazer"
              ELSE IF Reward[m] < 120 THEN "Predator" ELSE "Apex"
carrying_capacity == [Grazer |-> 120, Predator |-> 50, Apex |-> 16]
growth == [Grazer |-> 50, Predator |-> 40, Apex |-> 25]
season_growth ==
  [Kindling |-> 110, Highsun |-> 100, Emberfall |-> 130, Duskwane |-> 80,
   LongDark |-> 50]
Grazers == {m \in Mob : trophic(m) = "Grazer"}
rate(m, t) == (growth[trophic(m)] * season_growth[season(t)]) \div 100

\* What the prey of m can feed of it, all of it being 1000.
Prey(pop) ==
  MapThenSumSet(LAMBDA g : pop[g] * carrying_capacity["Grazer"], Grazers)
Support(pop, m) == Min({1000, Prey(pop) \div carrying_capacity[trophic(m)]})

\* What grazers breed in a day.
Bred(m, pop, t) == (rate(m, t) * pop[m] * (1000 - pop[m])) \div 100000

\* A population that overflowed to infinity is not a number the next day, and
\* the larger of that and zero is zero.
Grown(m, pop, t) ==
  IF pop[m] = MaxPop THEN 0
  ELSE Clamped(IF m \in Grazers THEN pop[m] + Bred(m, pop, t)
               ELSE pop[m] + (rate(m, t) * pop[m] * (Support(pop, m) - 500))
                               \div 100000
                      - (2 * pop[m]) \div 100,
               0, MaxPop)

\* Ecosystem::tick on a new day, and the day's events.
Day_bred(pop, t) == [m \in Mob |-> Grown(m, pop, t)]
Mutates(m, next, t) ==
  Dice(t, <<"brood", m>>, 100) < IF next[m] < 200 THEN 3 ELSE 1
DayEvents(pop, next, t) ==
  {<<"Bloom", m>> : m \in {x \in Mob : next[x] > 1300 /\ pop[x] <= 1300}}
  \cup {<<"Crash", m>> : m \in {x \in Mob : next[x] < 100 /\ pop[x] >= 100}}
  \cup {<<"Mutation", m>> : m \in {x \in Mob : Mutates(x, next, t)}}
=============================================================================
