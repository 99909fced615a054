----------------------------- MODULE LivingWorld -----------------------------
(* The living world in each copy of a zone (living.rs, lib.rs of             *)
(* arena-mythos) as World::tick drives it: the year turns, mana flows,       *)
(* creatures breed, kills become legends, legends become stars and foes.     *)
(* Nothing of it travels in a zone snapshot: a copy that imports one starts  *)
(* a fresh soul under the tick of the others.                                *)
(*                                                                           *)
(* A tick that nothing happens in is not a step of its own: a step runs to   *)
(* the next tick of interest of its age, and stands for the calls between.   *)
EXTENDS MythicLore, SequencesExt

NoOne == "nobody"

CONSTANTS
  Copy, Elder,  \* the copies of the zone, and the one that starts with it
  Player,       \* owners of players
  School,       \* the elements they practise
  Ages          \* what is watched: see MCLivingWorld

\* What may happen or be asked for in an age is something the code can be told.
ASSUME LivingAssumption ==
  /\ Elder \in Copy
  /\ \A a \in Ages :
       /\ {a.opens, a.closes, a.until, a.left} \subseteq Nat /\ a.pace \in Nat \ {0}
       /\ \A h \in a.happens :
            /\ h.what \in {"cast", "kill"} /\ h.actor \in Player \cup {NoOne}
            /\ h.what = "cast" => h.tenths \in Nat
            /\ h.what = "kill" => h.magnitude \in Nat
       /\ \A c \in a.asks :
            /\ c.what \in {"draw", "claim", "deed", "decay", "visit"}
            /\ c.what \in {"draw", "claim"} => c.well \in Well
            /\ c.what = "draw" => c.amount \in Nat
            /\ c.what \in {"claim", "decay", "visit"} => c.actor \in Player
            /\ c.what = "visit" => c.amount \in Nat
            /\ c.what = "deed" =>
                 c.deed \in [kind : DOMAIN facet, actor : Player, magnitude : Nat, count : Nat,
                            renown : Nat]
       /\ \A c \in a.cares :
            /\ c.what \in {"gain_xp", "nurture", "react"}
            /\ c.what # "react" => c.amount \in Nat
            /\ c.what = "react" =>
                 c.stimulus \in {"OwnerHurt", "Victory", "Discovery", "Neglected", "Fed"}

\* The strides at which an age is watched end at every dawn.  They are short
\* enough that no well is asked for more than it holds, or so long that the tide
\* fills every well, from whichever of the first ticks they start.
ASSUME StrideAssumption ==
  \A a \in Ages : /\ DayTicks % a.pace = 0
                 /\ (a.pace <= 106 \/ a.pace >= 10669)

VARIABLES
  age,       \* what is watched, and how much may happen
  clock,     \* World.tick of each copy, or NotYet
  soul,      \* the soul of each copy, with its attunements
  pulse,     \* WorldPulse: the news of each copy's last tick
  foes,      \* the foes the world raised in each copy
  familiar,  \* a familiar, or NoFamiliar
  left       \* how much may still happen
livingvars == <<age, clock, soul, pulse, foes, familiar, left>>

NotYet == -1
NoFamiliar == [form |-> NotYet]

\* LivingWorld::new on the pack: wells half full, herds at two fifths.
Unpractised == [elements |-> [e \in School |-> 0], corruption |-> 0,
                places |-> [w \in Well |-> 0]]
Fresh ==
  [tick |-> 0,
   charge |-> [w \in Well |-> Capacity \div 2],
   holder |-> [w \in Well |-> NoOne],
   pop |-> [m \in Mob |-> 400], last_day |-> 0,
   renown |-> [p \in Player |-> 0], legends |-> <<>>, threshold |-> 10000,
   stars |-> <<>>, pending |-> <<>>,
   last_season |-> "Kindling", last_festival |-> NoFestival,
   attuned |-> [p \in Player |-> Unpractised]]

LivingInit ==
  /\ age \in Ages
  /\ clock = [s \in Copy |-> IF s = Elder THEN 0 ELSE NotYet]
  /\ soul = [s \in Copy |-> Fresh]
  /\ pulse = [s \in Copy |-> {}]
  /\ foes = [s \in Copy |-> {}]
  /\ familiar = NoFamiliar
  /\ left = age.left
-----------------------------------------------------------------------------
\* Mutant: the end of a festival is not noticed.
Latched_begun(last, now) == IF now = NoFestival THEN last ELSE now

Latched(last, now) == IF now # last THEN now ELSE last

NamedFoe(m) == [mark |-> "NamedFoeRises", of |-> m]

\* Mutant: the whole soul steps once a day, as the herds do.
Passed_day(w, t) == w.tick > 0 /\ Day(t) <= Day(w.tick)

Passed(w, t) == t <= w.tick

\* WorldSoul::advance.  The first call of a fresh soul covers any number of
\* ticks and two seconds of mana; later strides stand for a call at each tick.
advance(w, t) ==
  LET ticks == IF w.tick = 0 THEN Min({t, 128}) ELSE t - w.tick
      dawns == Day(t) # w.last_day
      next == IF dawns THEN Day_bred(w.pop, t) ELSE w.pop
      brood == {m \in Mob : dawns /\ Mutates(m, next, t)}
  IN IF Passed(w, t) THEN w
     ELSE [w EXCEPT !.tick = t, !.charge = Breathed(@, t, ticks),
                    !.pop = next, !.last_day = Day(t),
                    !.pending = @ \o SetToSeq({NamedFoe(m) : m \in brood}),
                    !.last_season = season(t),
                    !.last_festival = Latched(@, festival(t))]

\* The news of that call.
News(w, t) ==
  {<<"Season", x>> : x \in {season(t)} \ {w.last_season}}
  \cup {<<"Festival", x>> :
          x \in {festival(t)} \ {w.last_festival, NoFestival}}
  \cup (IF Day(t) # w.last_day THEN DayEvents(w.pop, Day_bred(w.pop, t), t)
        ELSE {})

\* LivingWorld::on_cast and on_slay; a slain beast has no renown.
on_cast(w, c) ==
  IF c.actor = NoOne THEN w
  ELSE [w EXCEPT !.attuned[c.actor] = practised(@, c.element, c.tenths)]
on_slay(w, k, t) ==
  LET fame == IF k.victim \in Player THEN w.renown[k.victim] ELSE 0
  IN IF k.actor = NoOne THEN w
     ELSE record_deed(w, [kind |-> "Slay", actor |-> k.actor, count |-> 0,
                          magnitude |-> k.magnitude, renown |-> fame], t)
Happened(w, h, t) == IF h.what = "cast" THEN on_cast(w, h) ELSE on_slay(w, h, t)

\* World::realise_world_imprints with spawn_summon: a foe rises only as a mob
\* the pack has, and a legend's own name is no mob.
Rising(m) ==
  \/ m.mark = "NamedFoeRises" /\ m.of \in Mob
  \/ m.mark = "HauntedGround" /\ "void_wraith" \in Mob
Foe(m, t, n) == [mob |-> IF m.mark = "NamedFoeRises" THEN m.of ELSE "void_wraith",
                 until |-> t + 7680, nth |-> n]
Realised(s, w, t) ==
  LET standing == {f \in foes[s] : f.until > t}
      risen == {n \in DOMAIN w.pending : Rising(w.pending[n])}
  IN /\ soul' = [soul EXCEPT ![s] = [w EXCEPT !.pending = <<>>]]
     /\ foes' = [foes EXCEPT ![s] =
                   standing \cup {Foe(w.pending[n], t, n) : n \in risen}]

\* An age runs by days until it opens, then at its own pace.
NextTick(s) ==
  LET pace == IF clock[s] < age.opens THEN DayTicks ELSE age.pace
  IN IF soul[s].tick = 0 THEN clock[s] + 1 ELSE (clock[s] \div pace + 1) * pace
Open(t) == left > 0 /\ t >= age.opens /\ t <= age.closes

\* The living part of World::tick.
Tick(s) ==
  /\ clock[s] # NotYet /\ clock[s] < age.until
  /\ LET t == NextTick(s)
         w == advance(soul[s], t)
     IN /\ clock' = [clock EXCEPT ![s] = t]
        /\ pulse' = [pulse EXCEPT ![s] = News(soul[s], t)]
        /\ \/ Realised(s, w, t) /\ UNCHANGED left
           \/ /\ Open(t)
              /\ left' = left - 1
              /\ \E h \in age.happens : Realised(s, Happened(w, h, t), t)
  /\ UNCHANGED <<age, familiar>>

\* World::import_snapshot and set_tick.
Import(s) ==
  /\ age.heir /\ s # Elder /\ Open(clock[Elder])
  /\ left' = left - 1
  /\ clock' = [clock EXCEPT ![s] = clock[Elder]]
  /\ soul' = [soul EXCEPT ![s] = Fresh]
  /\ pulse' = [pulse EXCEPT ![s] = {}]
  /\ foes' = [foes EXCEPT ![s] = {}]
  /\ UNCHANGED <<age, familiar>>
-----------------------------------------------------------------------------
(* What the crate offers and the simulation does not call yet.               *)

\* LeylineNetwork::draw at a well, and claim.
draw(w, c) ==
  [w EXCEPT !.charge[c.well] = @ - Min({c.amount, @})]
claim(w, c) ==
  IF w.holder[c.well] \in {NoOne, c.actor}
  THEN [w EXCEPT !.holder[c.well] = c.actor] ELSE w

Asked(w, c, t) ==
  CASE c.what = "draw" -> draw(w, c)
    [] c.what = "claim" -> claim(w, c)
    [] c.what = "deed" -> record_deed(w, c.deed, t)
    [] c.what = "decay" -> [w EXCEPT !.attuned[c.actor] = decayed(@)]
    [] c.what = "visit" ->
         [w EXCEPT !.attuned[c.actor] = visited(@, c.well, c.amount)]
Ask(s) ==
  /\ clock[s] # NotYet /\ Open(clock[s])
  /\ left' = left - 1
  /\ \E c \in age.asks :
       soul' = [soul EXCEPT ![s] = Asked(soul[s], c, soul[s].tick)]
  /\ UNCHANGED <<age, clock, pulse, foes, familiar>>

Raise(c) ==
  CASE c.what = "gain_xp" -> gain_xp(familiar, c.amount)
    [] c.what = "nurture" -> nurture(familiar, c.amount)
    [] c.what = "react" -> react(familiar, c.stimulus)
Hatch ==
  /\ age.cares # {} /\ familiar = NoFamiliar /\ Open(clock[Elder])
  /\ \E p \in Player : familiar' = hatched(clock[Elder], p)
  /\ left' = left - 1
  /\ UNCHANGED <<age, clock, soul, pulse, foes>>
Care ==
  /\ familiar # NoFamiliar /\ Open(clock[Elder])
  /\ \E c \in age.cares : familiar' = Raise(c)
  /\ left' = left - 1
  /\ UNCHANGED <<age, clock, soul, pulse, foes>>

LivingNext == Hatch \/ Care \/ \E s \in Copy : Tick(s) \/ Import(s) \/ Ask(s)

\* Every copy's tick loop runs.
LivingSpec == LivingInit /\ [][LivingNext]_livingvars /\ \A s \in Copy : WF_livingvars(Tick(s))
-----------------------------------------------------------------------------
Awake == {s \in Copy : soul[s].tick > 0}

\* The root of the season's tide.
tide_root ==
  [Kindling |-> 105, Highsun |-> 114, Emberfall |-> 100, Duskwane |-> 92,
   LongDark |-> 77]

\* LivingWorld::spell_power of an element cast at a well, the attunement aside.
spell_power(w, element, well) ==
  LET t == w.tick
      charge == saturation(w.charge, well)
      blessed == IF ascendant_element[season(t)] = element THEN 115 ELSE 100
      grounded == IF Elements[well] = element /\ charge > 0
                  THEN 100 + (charge * 3) \div 10 ELSE 100
      weather == sky_mult(sky(t, charge, Dice(WeatherFront(t), "weather", 101)), element)
      Times(x, y) == (x * y) \div 100
  IN Max({5, Times(Times(Times(Times(tide_root[season(t)], blessed), grounded),
                         weather), boon(w.stars, element, t))})

\* Wells, herds, bonds and renown stay within what the code clamps them to.
LivingTypeOK ==
  /\ \A s \in Copy :
       /\ clock[s] \in Nat \cup {NotYet}
       /\ soul[s].tick \in 0..Max({0, clock[s]})
       /\ \A w \in Well : soul[s].charge[w] \in 0..Capacity
       /\ \A w \in Well : soul[s].holder[w] \in Player \cup {NoOne}
       /\ \A m \in Mob : soul[s].pop[m] \in 0..MaxPop
       /\ \A p \in Player :
            /\ soul[s].renown[p] \in Nat
            /\ \A e \in School :
                 soul[s].attuned[p].elements[e] \in 0..1000
            /\ soul[s].attuned[p].corruption \in 0..1000
            /\ \A e \in School :
                 affinity_mult(soul[s].attuned[p], e) \in 100..155
       /\ \A n \in DOMAIN soul[s].stars :
            soul[s].stars[n].brightness \in 60..200
       /\ \A f \in foes[s] : f.mob \in Mob
  /\ familiar = NoFamiliar \/ familiar.bond \in 0..1000
  /\ left \in 0..age.left

TotalCharge(w) == MapThenSumSet(LAMBDA x : w.charge[x], Well)

\* Mana is neither made nor lost on its way round the ring: the land gains no
\* more than the season's tide brings, and all of it while no well brims.
ManaKept ==
  [][\A s \in Awake :
       soul'[s].tick > soul[s].tick =>
         LET ticks == soul'[s].tick - soul[s].tick
             brought == (15 * mana_tide[season(soul'[s].tick)] * ticks) \div 8
             gained_ == TotalCharge(soul'[s]) - TotalCharge(soul[s])
         IN /\ gained_ <= Len(Elements) * brought
            /\ (\A w \in Well : /\ soul[s].charge[w] + brought < Capacity
                                /\ soul'[s].charge[w] < Capacity)
                 => gained_ = Len(Elements) * brought]_livingvars

\* Drained land, and the half-full land of a copy that was just imported,
\* fills again and stays full once nobody draws on it.
LandRefills == <>[](\A s \in Awake : Brimming(soul[s].charge))

\* Herds never bloom nor crash: they breed towards what the land carries from
\* below, whatever the seasons.
GrazersHold ==
  \A s \in Copy : \A m \in Grazers : soul[s].pop[m] \in 400..1000

\* Every copy at a tick has the same season and festival behind it, however
\* it came to that tick; and once its land is full and no star divides them,
\* the same sky and the same power in every spell.
SoulsAgree ==
  \A a, b \in Awake : a # b /\ soul[a].tick = soul[b].tick =>
    /\ soul[a].last_season = soul[b].last_season
    /\ soul[a].last_festival = soul[b].last_festival
    /\ Brimming(soul[a].charge) /\ Brimming(soul[b].charge)
         /\ soul[a].stars = soul[b].stars =>
         \A e \in School, w \in Well :
           spell_power(soul[a], e, w) = spell_power(soul[b], e, w)

\* What is foretold for the next dawn comes with it, and no festival comes
\* unforetold.
PropheciesHold ==
  [][\A s \in Awake : soul'[s].tick > soul[s].tick =>
       {f[2] : f \in {x \in pulse'[s] : x[1] = "Festival"}}
         = {o.which : o \in {x \in divine(soul[s].tick, 1) :
                               /\ x.portent = "Festival"
                               /\ x.resolves = soul'[s].tick}}]_livingvars

\* Legends stay scarce: where slaying alone makes them, each took a renown a
\* bar higher than the one before.
Bar[n \in Nat] == IF n = 0 THEN 10000 ELSE (Bar[n - 1] * 115) \div 100
LegendsScarce ==
  age.asks = {} =>
    \A s \in Copy :
      soul[s].legends # <<>> =>
        \E p \in Player : soul[s].renown[p] >= Bar[Len(soul[s].legends) - 1]

\* A familiar has grown through every milestone its bond has reached, however
\* many it passes at once.
KeepsPace ==
  familiar # NoFamiliar =>
    /\ familiar.evolutions = Reached(familiar.bond)
    /\ familiar.form = familiar.evolutions
    /\ familiar.form > 0 => Last(familiar.tricks) = familiar.form

\* Wells, herds, legends and familiars keep their measure.
MeasureKept == LivingTypeOK /\ GrazersHold /\ LegendsScarce /\ KeepsPace
=============================================================================
