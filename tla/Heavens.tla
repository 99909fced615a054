------------------------------- MODULE Heavens -------------------------------
(* What the sky of Cerena is at a tick: seasons, moons, festivals, omens and *)
(* aetherweather (calendar.rs, omen.rs, weather.rs), as functions of the     *)
(* tick alone.  Weights, moon phases and multipliers are integers, in        *)
(* hundredths; verses and names are left out.                                *)
EXTENDS Integers, Sequences, FiniteSets, FiniteSetsExt

DayTicks == 64 * 60 * 24
DaysPerSeason == 21
DaysPerYear == 5 * DaysPerSeason
Seasons == <<"Kindling", "Highsun", "Emberfall", "Duskwane", "LongDark">>

\* Calendar::at.
Day(t) == t \div DayTicks
DayOfYear(t) == Day(t) % DaysPerYear
season(t) == Seasons[DayOfYear(t) \div DaysPerSeason + 1]
day_of_season(t) == DayOfYear(t) % DaysPerSeason

mana_tide ==
  [Kindling |-> 110, Highsun |-> 130, Emberfall |-> 100, Duskwane |-> 85,
   LongDark |-> 60]
ascendant_element ==
  [Kindling |-> "fire", Highsun |-> "radiant", Emberfall |-> "nature",
   Duskwane |-> "shadow", LongDark |-> "frost"]
\* The season in which the stars of an element are ascendant.
ascendant_season ==
  [fire |-> "Kindling", radiant |-> "Highsun", nature |-> "Emberfall",
   storm |-> "Emberfall", shadow |-> "Duskwane", void |-> "Duskwane",
   blood |-> "Duskwane", frost |-> "LongDark", arcane |-> "Highsun"]

period_days == [Pale |-> 7, Ember |-> 11, Hollow |-> 13]
\* Phase::fullness: a triangle over the days of the cycle.
fullness(moon, t) ==
  LET p == period_days[moon]
      twice == 2 * (Day(t) % p)
  IN (100 * (IF twice < p THEN twice ELSE 2 * p - twice)) \div p
is_full(moon, t) == fullness(moon, t) >= 92
is_grand_conjunction(t) == \A moon \in DOMAIN period_days : is_full(moon, t)

NoFestival == "none"
festival(t) ==
  LET on(s, d) == season(t) = s /\ day_of_season(t) = d
  IN CASE is_grand_conjunction(t) -> "GrandConjunction"
       [] on("Kindling", 0) -> "FirstFlame"
       [] on("Highsun", 10) -> "Solstice"
       [] on("Emberfall", 14) -> "Harvest"
       [] on("Duskwane", 20) /\ is_full("Hollow", t) -> "NightOfTheDead"
       [] on("LongDark", 10) -> "Starfall"
       [] OTHER -> NoFestival

\* Mutant: the horizon is cut a day short.
Ahead_short(horizon) == 1..horizon - 1

Ahead(horizon) == 1..horizon
\* OmenWeaver::divine, as what is foretold and when it comes.
divine(t, horizon) ==
  LET dawn(d) == (Day(t) + d) * DayTicks
      Omen(portent, which, d) ==
        [portent |-> portent, which |-> which, resolves |-> dawn(d)]
  IN {Omen("Festival", festival(dawn(d)), d) :
        d \in {x \in Ahead(horizon) : festival(dawn(x)) # NoFestival}}
     \cup {Omen("HollowWaxing", NoFestival, d) :
             d \in {x \in Ahead(horizon) : /\ festival(dawn(x)) = NoFestival
                                           /\ is_full("Hollow", dawn(x))
                                           /\ ~is_full("Hollow", t)}}
     \cup {Omen("ManaEbbing", NoFestival, DaysPerSeason - day_of_season(t)) :
             x \in {y \in {t} : season(y) = "Duskwane" /\ day_of_season(y) > 14}}
-----------------------------------------------------------------------------
(* Aetherweather: one sky per front, drawn by weight.                        *)
FrontTicks == DayTicks \div 6
WeatherFront(t) == t \div FrontTicks

Weighed(t, charge) ==
  LET hollow == fullness("Hollow", t)
      ambient == <<<<"Clear", 300>>, <<"Rain", 150>>,
                   <<"ManaStorm", 60 + (charge * 5) \div 2>>,
                   <<"Blightfog", 40 + (hollow * 3) \div 2>>,
                   <<"Aurora", 20 + (hollow * 4) \div 5>>,
                   <<"Doldrums", 40 + ((100 - charge) * 3) \div 2>>>>
      seasonal == [Kindling |-> <<<<"Emberrain", 120>>>>,
                   Emberfall |-> <<<<"Emberrain", 120>>>>,
                   LongDark |-> <<<<"Frostveil", 200>>, <<"Starfall", 80>>>>,
                   Highsun |-> <<<<"Clear", 200>>>>,
                   Duskwane |-> <<<<"Blightfog", 100>>>>]
  IN ambient \o seasonal[season(t)]
UpTo(w, n) == MapThenSumSet(LAMBDA k : w[k][2], 1..n)

\* The sky where the land is charged so much, for a roll of the front's die.
sky(t, charge, roll) ==
  LET w == Weighed(t, charge)
      hit == {n \in 1..Len(w) : 100 * UpTo(w, n) >= roll * UpTo(w, Len(w))}
  IN IF is_grand_conjunction(t) THEN "Aurora"
     ELSE w[CHOOSE n \in hit : \A k \in hit : n <= k][1]

\* Sky::spell_mult.
sky_mult(s, element) ==
  CASE s = "ManaStorm" -> 140
    [] s = "Doldrums" -> 50
    [] s = "Aurora" /\ element \in {"void", "arcane", "chrono"} -> 150
    [] s = "Blightfog" /\ element \in {"shadow", "blood", "nature"} -> 130
    [] s = "Emberrain" /\ element = "fire" -> 145
    [] s = "Frostveil" /\ element = "frost" -> 145
    [] s = "Rain" /\ element = "fire" -> 70
    [] s = "Rain" /\ element = "storm" -> 120
    [] OTHER -> 100

\* How dark it is: the stars are out but for the moment of noon.
visibility(t) ==
  LET now == t % DayTicks
  IN IF 2 * now < DayTicks
     THEN 100 - (200 * (now \div 64)) \div (DayTicks \div 64)
     ELSE (200 * (now \div 64)) \div (DayTicks \div 64) - 100
=============================================================================
