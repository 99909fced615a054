----------------------------- MODULE MythicLore -----------------------------
(* What the world remembers: deeds, renown and legends (chronicle.rs), the   *)
(* stars they light (firmament.rs), and what a mage and a familiar become    *)
(* (attunement.rs, familiar.rs).  Names, epithets, sagas, titles and spoken  *)
(* lines are left out.  Renown and multipliers are in hundredths, resonance, *)
(* corruption and bonds in thousandths.                                      *)
EXTENDS MythicLand

facet ==
  [Slay |-> "Valor", Fell |-> "Valor", LastStand |-> "Valor",
   Discover |-> "Wisdom", Forge |-> "Wisdom", Duel |-> "Cunning",
   Ward |-> "Grace", Atrocity |-> "Dread"]

\* A deed: kind, actor, magnitude, the foes or the saved counted, and the
\* renown of the slain.
weight(deed) ==
  CASE deed.kind = "Fell" -> 20
    [] deed.kind = "LastStand" -> 50 + 10 * deed.count
    [] deed.kind = "Forge" -> 120
    [] deed.kind = "Ward" -> 50 + 20 * deed.count
    [] deed.kind = "Atrocity" -> 150
    [] OTHER -> 100
gained(deed) ==
  (deed.magnitude * weight(deed)) \div 100
    + (IF deed.kind = "Slay" THEN deed.renown \div 4 ELSE 0)

mythic(deed, threshold) ==
  \/ deed.kind = "Slay" /\ deed.renown >= threshold
  \/ deed.kind = "LastStand" /\ deed.count >= 20
  \/ deed.kind = "Forge"

StarElements ==
  <<"fire", "frost", "storm", "radiant", "arcane", "nature", "void">>

\* choose_manifestation: the arm for a slaying comes after the one for valour,
\* which every slaying is, and is never taken.
manifestation(deed, t) ==
  CASE facet[deed.kind] \in {"Valor", "Grace", "Wisdom"} ->
         [mark |-> "Constellation",
          of |-> StarElements[Dice(t, <<"star", deed.actor>>, 7) + 1]]
    [] facet[deed.kind] = "Dread" ->
         IF Dice(t, <<"curse", deed.actor>>, 2) = 0
         THEN [mark |-> "HauntedGround", of |-> deed.actor]
         ELSE [mark |-> "NamedFoeRises", of |-> deed.actor]
    [] OTHER -> [mark |-> "HallowedGround", of |-> deed.actor]

\* Mutant: the bar stays where it was.
Raised_never(threshold) == threshold

Raised(threshold) == (threshold * 115) \div 100

\* Firmament::ignite, with the weight of the life that lit the star.
Star(element, renown) ==
  [element |-> element,
   brightness |-> Min({200, 40 + Clamped(renown \div 200, 20, 200)})]

\* Chronicle::record with WorldSoul::realise.
record_deed(soul, deed, t) ==
  LET total == soul.renown[deed.actor] + gained(deed)
      known == [soul EXCEPT !.renown[deed.actor] = total]
      m == manifestation(deed, t)
      told == [known EXCEPT
                 !.legends = Append(@, [about |-> deed.actor, mark |-> m]),
                 !.threshold = Raised(@)]
  IN IF ~(total >= soul.threshold \/ mythic(deed, soul.threshold)) THEN known
     ELSE IF m.mark = "Constellation"
          THEN [told EXCEPT !.stars = Append(@, Star(m.of, total))]
          ELSE [told EXCEPT !.pending = Append(@, m)]

\* Firmament::boon: what the stars of an element add, in ten thousandths.
boon(stars, element, t) ==
  LET near == IF ascendant_season[element] = season(t) THEN 300 ELSE 105
      lit == {n \in DOMAIN stars : stars[n].element = element}
      added == MapThenSumSet(LAMBDA n : (stars[n].brightness * near) \div 100,
                             lit)
  IN 100 + (added * visibility(t)) \div 10000
-----------------------------------------------------------------------------
is_dark(element) == element \in {"shadow", "blood", "void"}

\* Attunement::practise, of a spell weighing so many tenths.
practised(a, element, tenths) ==
  [a EXCEPT
     !.elements[element] = Clamped(@ + (tenths * (1000 - @)) \div 1000, 0, 1000),
     !.corruption = IF is_dark(element)
                    THEN Clamped(@ + (tenths * 2) \div 5, 0, 1000)
                    ELSE Clamped(@ - tenths \div 10, 0, 1000)]
\* Attunement::decay and visit.
decayed(a) ==
  [a EXCEPT !.elements = [e \in DOMAIN @ |-> Clamped(@[e] - 5, 0, 1000)],
            !.corruption = Clamped(@ - 1, 0, 1000)]
visited(a, w, amount) ==
  [a EXCEPT !.places[w] = Clamped(@ + amount, 0, 1000)]
affinity_mult(a, element) ==
  100 + a.elements[element] \div 40
    + (IF is_dark(element) THEN (a.corruption * 3) \div 100 ELSE 0)
-----------------------------------------------------------------------------
Milestones == <<330, 660, 1000>>
Reached(bond) == Cardinality({n \in DOMAIN Milestones : bond >= Milestones[n]})
hatched(t, owner) ==
  [loyalty |-> Dice(t, <<"loyalty", owner>>, 100),
   bold |-> Dice(t, <<"bold", owner>>, 2) = 1,
   fiery |-> Dice(t, <<"temper", owner>>, 2) = 1,
   curious |-> Dice(t, <<"curious", owner>>, 2) = 1,
   mood |-> "Content", bond |-> 0, level |-> 1, xp |-> 0, form |-> 0,
   tricks |-> <<>>, evolutions |-> 0]

\* The stage a familiar that has reached a milestone grows into.
Stage(f) == Reached(f.bond)
maybe_evolve(f) ==
  IF Reached(f.bond) <= f.evolutions THEN f
  ELSE [f EXCEPT !.evolutions = Stage(f), !.form = Stage(f),
                 !.tricks = Append(@, Stage(f))]
Bonded(f, amount) ==
  [f EXCEPT !.bond = Min({1000, @ + (amount * (50 + f.loyalty)) \div 100})]

gain_xp(f, amount) ==
  LET need == 50 * f.level
  IN IF f.xp + amount < need THEN [f EXCEPT !.xp = @ + amount]
     ELSE maybe_evolve(Bonded([f EXCEPT !.xp = @ + amount - need,
                                        !.level = @ + 1], 30))
nurture(f, amount) ==
  maybe_evolve([Bonded(f, amount) EXCEPT !.mood = "Affectionate"])
react(f, stimulus) ==
  [f EXCEPT !.mood =
     CASE stimulus = "OwnerHurt" -> IF f.bold THEN "Fierce" ELSE "Frightened"
       [] stimulus = "Victory" -> IF f.fiery THEN "Excited" ELSE "Content"
       [] stimulus = "Discovery" -> IF f.curious THEN "Excited" ELSE "Content"
       [] stimulus = "Neglected" -> IF f.fiery THEN "Sulking" ELSE "Content"
       [] stimulus = "Fed" -> "Affectionate"]
=============================================================================
