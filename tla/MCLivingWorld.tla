---------------------------- MODULE MCLivingWorld ----------------------------
(* Ages of LivingWorld, each watching one part of it.                        *)
EXTENDS LivingWorld, TLC

MCReward == [wisp |-> 10, void_wraith |-> 90, crystal_golem |-> 150]

\* A throw that differs from tick to tick, from salt to salt, and not from
\* copy to copy.
Salt(x) ==
  CASE x[1] = "brood" -> IF x[2] = "wisp" THEN 3 ELSE 5
    [] x[1] = "star" -> 7
    [] x[1] = "curse" -> 11
    [] x[1] = "loyalty" -> 13
    [] OTHER -> 17
MCDice(t, salt, n) ==
  LET x == (t \div 64) % 10007
      k == IF salt = "weather" THEN 19 ELSE Salt(salt)
  IN (((((x * x) % 9973) * k + x) % 997) % n)

Dawn(d) == d * DayTicks
Nothing ==
  [opens |-> Dawn(1), closes |-> Dawn(1), until |-> Dawn(1), pace |-> DayTicks,
   left |-> 0, heir |-> FALSE, happens |-> {}, asks |-> {}, cares |-> {}]

\* Every day until each day of the year has met each phase of the Hollow, and
\* the three moons have met in every way.
Eternity == [Nothing EXCEPT !.until = Dawn(13 * DaysPerYear)]

\* Strides of a second, in which wells are drained and claimed.
Wells ==
  [Nothing EXCEPT
     !.pace = 64, !.closes = Dawn(1) + 64 * 6, !.until = Dawn(1) + 64 * 120,
     !.left = 2,
     !.asks = {[what |-> "draw", well |-> w, amount |-> a] :
                 w \in {1, 3}, a \in {500000, 2 * Capacity}}
              \cup {[what |-> "claim", well |-> 1, actor |-> p] : p \in Player}]

\* Copies come and go around the Night of the Dead and the turn of a season.
Heirs ==
  [Nothing EXCEPT !.opens = Dawn(186), !.closes = Dawn(191),
                  !.until = Dawn(193), !.pace = DayTicks \div 4,
                  !.heir = TRUE, !.left = 2]

Seconds(n) == Dawn(1) + 64 * n
Brief(n) ==
  [Nothing EXCEPT !.pace = 64, !.closes = Seconds(n), !.until = Seconds(n + 1)]
One == CHOOSE p \in Player : TRUE

\* Each player is worth a legend to the other; beasts are not.
Kill(p, v, m) == [what |-> "kill", actor |-> p, victim |-> v, magnitude |-> m]
Deeds ==
  [Brief(5) EXCEPT
     !.left = 5,
     !.happens = {Kill(p, v, 12000) : p \in Player, v \in Player \ {One}}
                 \cup {Kill(p, One, 6000) : p \in Player \ {One}}
                 \cup {Kill(p, "beast", 1500) : p \in {NoOne, One}}]

Song(k, n) == [what |-> "deed",
               deed |-> [kind |-> k, actor |-> One, count |-> n,
                         magnitude |-> 6000, renown |-> 0]]
Songs ==
  [Brief(3) EXCEPT
     !.left = 2,
     !.asks = {Song(k, n) : k \in DOMAIN facet \ {"Slay"}, n \in {5, 20}}]

Cast(p, e, n) == [what |-> "cast", actor |-> p, element |-> e, tenths |-> n]
Mages ==
  [Brief(4) EXCEPT
     !.left = 4,
     !.happens = {Cast(One, e, 50) : e \in School} \cup {Cast(NoOne, "fire", 10)},
     !.asks = {[what |-> "decay", actor |-> One],
               [what |-> "visit", actor |-> One, well |-> 1, amount |-> 600]}]

Companions ==
  [Brief(2) EXCEPT
     !.left = 5,
     !.cares = {[what |-> "gain_xp", amount |-> 60]}
               \cup {[what |-> "nurture", amount |-> a] : a \in {150, 700}}
               \cup {[what |-> "react", stimulus |-> x] :
                       x \in {"OwnerHurt", "Victory", "Discovery",
                              "Neglected", "Fed"}}]

MCAges == {Eternity, Wells, Heirs, Deeds, Songs, Mages, Companions}
=============================================================================
