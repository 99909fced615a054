------------------------------ MODULE WorldTick ------------------------------
(* One zone's simulation, arena-sim's World::tick: the passes of a tick in      *)
(* their order (statuses, item procs, movement with its blows, casting,         *)
(* projectiles, fields, delayed effects, deaths, imprints, loot, expiry and     *)
(* respawn), the interpreter of spell graphs that most of them run, and what    *)
(* happens between ticks: a player joins, is handed off, or comes back from a   *)
(* checkpoint.                                                                  *)
(*                                                                              *)
(* The tables of the struct World are one record, t. A spell graph is a tree of *)
(* ops; what is left of the ops being evaluated is a stack of frames, so that   *)
(* every op is a step, in the interpreter's depth-first order, and the procs a  *)
(* blow raises run before the op after it. Who stands inside a ray, a cone or a *)
(* sphere is a free choice, in any order: HashMap iteration has none. Positions,*)
(* velocities, mana, damage multipliers and experience are left out.            *)
EXTENDS Integers, FiniteSets, SequencesExt

CONSTANTS
  Owner,          \* node ids that play here
  Arrivals,       \* the order in which they join
  None,           \* no owner, no target
  Team,           \* Team[o]: the side of each owner, or None
  Kit,            \* Kit[o]: the stacks a player spawns with, each an item of its own
  Potion,         \* the items that have an on_use spell
  Op,             \* the nodes of the op trees below
  Book,           \* ability |-> op tree of its spell
  Secondary,      \* the ability bound to the secondary button
  Brew,           \* op tree of a potion's spell
  Gear,           \* Gear[o]: the triggers of its equipment, [when, effect]
  Thorny,         \* owners whose gear reflects damage
  MaxHealth, MobHealth,
  RespawnTicks,   \* 3 s in the code
  BurnTicks,      \* interval of the damage-over-time status
  Recovery,       \* cooldown of an ability and of a swing
  FoeTicks,       \* how long a risen foe stays
  Lifespan,       \* ticks after which nothing of a cast is left
  MaxOps, MaxDepth,              \* the interpreter's budget for one run
  MaxTick, MaxActs, MaxImprints, MaxTrips, LastJoin, FirstTrip   \* bounds

VARIABLES
  t,        \* the tables of World
  tick,     \* World::tick
  pass,     \* the pass of the tick that is running, or "idle" between ticks
  todo,     \* ids the pass has still to visit, or may
  stack,    \* frames of the ops being evaluated
  ops,      \* ops left to the current run
  fallen,   \* bodies slain in this pass; the mobs among them are removed
  drops,    \* loot to spawn when the deaths are processed
  away,     \* owner |-> its checkpoint, while it is with another zone
  spent,    \* what the bounds have counted
  log       \* history: who struck whom, who was credited, items used up or lost,
            \* players restored dead, the tick of the last cast

vars == <<t, tick, pass, todo, stack, ops, fallen, drops, away, spent, log>>

ASSUME Bounds == /\ MaxHealth \in Nat \ {0} /\ MobHealth \in Nat \ {0}
                 /\ RespawnTicks \in Nat \ {0} /\ BurnTicks \in Nat \ {0}
                 /\ {Recovery, FoeTicks, Lifespan} \subseteq Nat
                 /\ MaxOps \in Nat \ {0} /\ MaxDepth \in Nat
                 /\ {MaxTick, MaxActs, MaxImprints, MaxTrips, LastJoin, FirstTrip} \subseteq Nat

\* Every stack a player brings is another one.
Items == UNION {ToSet(Kit[o]) : o \in Owner}
ASSUME Players ==
  /\ None \notin Owner
  /\ Kit \in [Owner -> Seq(Items)]
  /\ \A o, p \in Owner : \A j \in DOMAIN Kit[o], k \in DOMAIN Kit[p] :
       Kit[o][j] = Kit[p][k] => o = p /\ j = k

\* EffectOp: what a spell graph is built of.
Node(S) ==
       [op : {"damage", "heal"}, amount : Nat]
  \cup [op : {"shield"}, amount : Nat, duration : Nat]
  \cup [op : {"status"}, status : STRING, duration : Nat]
  \cup [op : {"mark", "summon"}, duration : Nat] \cup [op : {"motion"}]
  \cup [op : {"shape"}, faction : {"enemies", "allies", "all"}, then : S]
  \cup [op : {"field"}, duration : Nat, interval : Nat \ {0}, then : S]
  \cup [op : {"projectile"}, lifetime : Nat, then : S]
  \cup [op : {"seq"}, children : Seq(S)] \cup [op : {"chance"}, then : S]
  \cup [op : {"ifmarked"}, then : S, otherwise : S]
  \cup [op : {"delay"}, ticks : Nat, then : S]
  \cup [op : {"repeat"}, count : Nat, step : Nat, then : S]
ASSUME Graphs ==
  /\ Op \subseteq Node(Op)
  /\ Brew \in Op /\ Book \in [DOMAIN Book -> Op] /\ Secondary \in DOMAIN Book
  /\ \A o \in Owner : IsFiniteSet(Gear[o]) /\ \A g \in Gear[o] : g.effect \in Op

-----------------------------------------------------------------------------
(* The tables. *)

Put(f, k, v) == [x \in DOMAIN f \cup {k} |-> IF x = k THEN v ELSE f[x]]
Row(f, k, default) == IF k \in DOMAIN f THEN f[k] ELSE default
Less(r, f, n) == [r EXCEPT ![f] = @ - n]
\* What a list has at some of its places, in its order.
Nth(places, k) == CHOOSE i \in places : Cardinality({j \in places : j <= i}) = k
Chosen(list, places) == [k \in 1..Cardinality(places) |-> list[Nth(places, k)]]

ById == {"entities", "inventory", "statuses", "shields", "marks", "ready",
         "projectiles", "loot", "mobs", "last_attacker", "respawn_at"}

NoWorld == [entities |-> <<>>, inventory |-> <<>>, statuses |-> <<>>,
            shields |-> <<>>, marks |-> <<>>, ready |-> <<>>,
            projectiles |-> <<>>, loot |-> <<>>, mobs |-> <<>>,
            last_attacker |-> <<>>, respawn_at |-> <<>>,
            fields |-> <<>>, scheduled |-> <<>>, next |-> 1]

\* Mutant: remove_entity misses a table.
Forget_some(w, ids) ==
  [f \in DOMAIN w |-> IF f \in ById \ {"mobs"} THEN Restrict(w[f], DOMAIN w[f] \ ids) ELSE w[f]]

\* remove_entity, of every id of a set.
Forget(w, ids) ==
  [f \in DOMAIN w |-> IF f \in ById THEN Restrict(w[f], DOMAIN w[f] \ ids) ELSE w[f]]

Alive(e) == ~e.dead /\ e.health > 0
Entity(kind, owner, team, health) ==
  [kind |-> kind, owner |-> owner, team |-> team, health |-> health, dead |-> FALSE]

\* Summons share the kind of players.
Bodies == {i \in DOMAIN t.entities : t.entities[i].kind = "player"}
Living == {i \in Bodies : Alive(t.entities[i])}
IsRealPlayer(i) == i \in DOMAIN t.inventory /\ i \notin DOMAIN t.mobs
EntityOf(o) == {i \in Bodies : t.entities[i].owner = o}

CanDamage(src, dst) == src = None \/ dst = None \/ src # dst
FactionOk(faction, ctx, i) ==
  CASE faction = "enemies" -> i # ctx.caster /\ CanDamage(ctx.team, t.entities[i].team)
    [] faction = "allies"  -> \/ i = ctx.caster
                              \/ ctx.team # None /\ ctx.team = t.entities[i].team
    [] faction = "all"     -> TRUE

\* What a shape may gather: any of the living it admits, in any order.
Gathered(faction, ctx) ==
  UNION {SetToSeqs(S) : S \in SUBSET {i \in Living : FactionOk(faction, ctx, i)}}

AddBody(w, kind, owner, team, health) ==
  [w EXCEPT !.entities = Put(@, w.next, Entity(kind, owner, team, health)),
            !.next = @ + 1]

AddShield(w, i, amount, expire) ==
  LET old == Row(w.shields, i, [amount |-> 0, expire |-> expire])
  IN  [w EXCEPT !.shields = Put(@, i,
         [amount |-> old.amount + amount,
          expire |-> IF old.expire > expire THEN old.expire ELSE expire])]

\* apply_status_to: one instance of a status, refreshed. Its clock starts at the
\* tick of the cast that brought it, whenever that was.
Interval(status) == IF status = "burn" THEN BurnTicks ELSE 0
AddStatus(w, i, status, duration, at, source) ==
  LET list == Row(w.statuses, i, <<>>)
      inst == IF status \in DOMAIN list
              THEN [list[status] EXCEPT !.expire = at + duration]
              ELSE [source |-> source, expire |-> at + duration,
                    next |-> at + (IF Interval(status) = 0 THEN 1 ELSE Interval(status))]
  IN  [w EXCEPT !.statuses = Put(@, i, Put(list, status, inst))]

\* Mutant: not asking whether the target is alive.
HealEntity_any(w, i, amount) ==
  IF i \in DOMAIN w.entities
  THEN [w EXCEPT !.entities[i].health =
          IF @ + amount > MaxHealth THEN MaxHealth ELSE @ + amount] ELSE w

HealEntity(w, i, amount) ==
  IF i \in DOMAIN w.entities /\ Alive(w.entities[i])
  THEN [w EXCEPT !.entities[i].health =
          IF @ + amount > MaxHealth THEN MaxHealth ELSE @ + amount]
  ELSE w

SpawnLoot(w, items) ==
  [AddBody(w, "pickup", None, None, 1) EXCEPT !.loot = Put(@, w.next, items)]
\* A piece of loot for each of the piles, one after the other.
SpawnDrops(w, piles) ==
  LET ids == w.next .. w.next + Len(piles) - 1
  IN  [w EXCEPT
        !.entities = [i \in DOMAIN @ \cup ids |->
          IF i \in ids THEN Entity("pickup", None, None, 1) ELSE @[i]],
        !.loot = [i \in DOMAIN @ \cup ids |->
          IF i \in ids THEN piles[i - w.next + 1] ELSE @[i]],
        !.next = @ + Len(piles)]
SpawnSummon(w, team, health, expire) ==
  [AddBody(w, "player", None, team, health) EXCEPT
     !.mobs = Put(@, w.next, expire)]
SpawnProjectile(w, ctx, op) ==
  [AddBody(w, "projectile", None, ctx.team, 1) EXCEPT
     !.projectiles = Put(@, w.next,
        [ctx |-> ctx, op |-> op.then, expire |-> ctx.tick + op.lifetime])]

-----------------------------------------------------------------------------
(* Frames: an op, its context and its target. A frame of depth 0 starts a run   *)
(* of its own, with a fresh budget; a frame of a proc raises no procs.          *)

Ctx(i) == [caster |-> i, team |-> IF i \in DOMAIN t.entities
                                  THEN t.entities[i].team ELSE None, tick |-> tick]
Frame(ctx, op, target) ==
  [ctx |-> ctx, op |-> op, target |-> target, depth |-> 0, proc |-> FALSE]
Child(h, op, target) ==
  [ctx |-> h.ctx, op |-> op, target |-> target, depth |-> h.depth + 1, proc |-> h.proc]

Top == Head(stack)
Over == Top.depth > 0 /\ (ops = 0 \/ Top.depth >= MaxDepth)
\* The op at the top is charged; what it leaves to do goes in its place.
Replace(frames) ==
  LET left == (IF Top.depth = 0 THEN MaxOps ELSE ops) - 1
  IN  /\ stack' = frames \o Tail(stack)
      /\ ops' = IF frames \o Tail(stack) = <<>> THEN 0 ELSE left

\* target_entity: a self-cast targets the caster, a point nobody.
TargetEntity == Top.target
Who == IF TargetEntity = None THEN Top.ctx.caster ELSE TargetEntity

\* fire_item_event: the effects of the wearer's gear that answer an event, those
\* whose chance and cooldown allow it.
Triggers(wearer, event) ==
  IF wearer \in DOMAIN t.inventory /\ wearer \in DOMAIN t.entities
  THEN {g \in Gear[t.entities[wearer].owner] : g.when = event} ELSE {}
ProcFrames(wearer, other, fired) ==
  [k \in 1..Cardinality(fired) |->
     LET g == SetToSeq(fired)[k]
     IN  [Frame(Ctx(wearer), g.effect,
                IF g.on = "other" /\ other # None THEN other ELSE wearer)
            EXCEPT !.proc = TRUE]]

-----------------------------------------------------------------------------
(* spell_damage: the shield first, then health; thorns and procs unless the     *)
(* blow is itself a proc's.                                                     *)

Absorbed(w, victim, amount) ==
  LET s == Row(w.shields, victim, [amount |-> 0, expire |-> 0]).amount
  IN  IF amount < s THEN amount ELSE s
\* Mutant: the blow is remembered against its attacker.
Struck_swapped(w, attacker, victim, amount) ==
  [w EXCEPT
    !.entities = IF victim \in DOMAIN @
                 THEN Put(@, victim, Less(@[victim], "health", amount)) ELSE @,
    !.last_attacker = Put(@, attacker, victim)]
Struck(w, attacker, victim, amount) ==
  LET soaked == Absorbed(w, victim, amount)
      shield == Row(w.shields, victim, [amount |-> 0, expire |-> 0])
  IN  [w EXCEPT
        !.shields = IF victim \notin DOMAIN @ \/ shield.amount = 0 THEN @
                    ELSE IF shield.amount = soaked
                    THEN Restrict(@, DOMAIN @ \ {victim})
                    ELSE Put(@, victim, Less(shield, "amount", soaked)),
        !.entities = IF victim \in DOMAIN @
                     THEN Put(@, victim, Less(@[victim], "health", amount - soaked)) ELSE @,
        !.last_attacker = Put(@, victim, attacker)]
Hurts(victim, amount) ==
  victim \in DOMAIN t.entities /\ amount > Absorbed(t, victim, amount)
Reflected(w, attacker, victim) ==
  IF /\ IsRealPlayer(victim) /\ t.entities[victim].owner \in Thorny
     /\ attacker \in DOMAIN w.entities
  THEN [w EXCEPT !.entities[attacker].health = @ - 1] ELSE w

Damage ==
  LET a == Top.ctx.caster
      v == TargetEntity
      answers == Hurts(v, Top.op.amount) /\ a # v /\ ~Top.proc
      struck == Struck(t, a, v, Top.op.amount)
  IN  /\ Top.op.op = "damage" /\ ~Over
      /\ IF v = None THEN Replace(<<>>) /\ UNCHANGED <<t, log>>
         ELSE /\ t' = IF answers THEN Reflected(struck, a, v) ELSE struck
              /\ \E fired \in SUBSET (IF answers THEN Triggers(v, "struck") ELSE {}) :
                   Replace(ProcFrames(v, a, fired))
              /\ log' = [log EXCEPT !.struck = @ \cup {<<a, v>>}]
      /\ UNCHANGED <<tick, pass, todo, fallen, drops, away, spent>>

\* The other ops that touch an entity. Durations run from the tick of the cast.
Touched(op, who) ==
  CASE op.op = "heal"   -> HealEntity(t, who, op.amount)
    [] op.op = "shield" -> AddShield(t, who, op.amount, Top.ctx.tick + op.duration)
    [] op.op = "status" -> IF TargetEntity = None THEN t
                           ELSE AddStatus(t, who, op.status, op.duration,
                                          Top.ctx.tick, Top.ctx.caster)
    [] op.op = "mark"   -> [t EXCEPT !.marks = Put(@, who, Top.ctx.tick + op.duration)]
    [] op.op = "motion" -> t
Touch ==
  /\ Top.op.op \in {"heal", "shield", "status", "mark", "motion"} /\ ~Over
  /\ t' = Touched(Top.op, Who)
  /\ Replace(<<>>)
  /\ UNCHANGED <<tick, pass, todo, fallen, drops, away, spent, log>>

\* Ray, Cone and Area: the rest of the graph runs on each of those gathered.
Shape ==
  /\ Top.op.op = "shape" /\ ~Over
  /\ \E hits \in Gathered(Top.op.faction, Top.ctx) :
       Replace([k \in DOMAIN hits |-> Child(Top, Top.op.then, hits[k])])
  /\ UNCHANGED <<t, tick, pass, todo, fallen, drops, away, spent, log>>

\* Field, Projectile and Summon leave something in the world.
Launched(op, ctx) ==
  CASE op.op = "field" ->
         [t EXCEPT !.fields = Append(@, [ctx |-> ctx, op |-> op.then,
            expire |-> ctx.tick + op.duration, next |-> ctx.tick + op.interval,
            interval |-> op.interval])]
    [] op.op = "projectile" -> SpawnProjectile(t, ctx, op)
    [] op.op = "summon" ->
         SpawnSummon(t, ctx.team, MobHealth, ctx.tick + op.duration)
Launch ==
  /\ Top.op.op \in {"field", "projectile", "summon"} /\ ~Over
  /\ t' = Launched(Top.op, Top.ctx)
  /\ Replace(<<>>)
  /\ UNCHANGED <<tick, pass, todo, fallen, drops, away, spent, log>>

\* Sequence and Parallel, Chance and IfMarked.
Marked(i) == i \in DOMAIN t.marks /\ Top.ctx.tick < t.marks[i]
Compose ==
  /\ Top.op.op \in {"seq", "chance", "ifmarked"} /\ ~Over
  /\ LET run(list) == [k \in DOMAIN list |-> Child(Top, list[k], Top.target)]
     IN  CASE Top.op.op = "seq" -> Replace(run(Top.op.children))
           [] Top.op.op = "chance" -> Replace(<<>>) \/ Replace(run(<<Top.op.then>>))
           [] Top.op.op = "ifmarked" ->
                Replace(run(IF Marked(Who) THEN <<Top.op.then>> ELSE <<Top.op.otherwise>>))
  /\ UNCHANGED <<t, tick, pass, todo, fallen, drops, away, spent, log>>

\* Delay, and Repeat: its first run is at once, the rest are put down after it.
\* Run ticks count from the tick of the cast.
Later(ctx, op, target, n) == [run |-> ctx.tick + n, ctx |-> ctx, op |-> op, target |-> target]
Delay ==
  /\ Top.op.op = "delay" /\ ~Over
  /\ t' = [t EXCEPT !.scheduled =
             Append(@, Later(Top.ctx, Top.op.then, Top.target, Top.op.ticks))]
  /\ Replace(<<>>)
  /\ UNCHANGED <<tick, pass, todo, fallen, drops, away, spent, log>>
Repeat ==
  /\ Top.op.op = "repeat" /\ ~Over
  /\ Replace(<<Child(Top, Top.op.then, Top.target), [Top EXCEPT !.op.op = "rest"]>>)
  /\ UNCHANGED <<t, tick, pass, todo, fallen, drops, away, spent, log>>

\* What follows costs the run nothing.
Pop == /\ stack' = Tail(stack)
       /\ ops' = IF Tail(stack) = <<>> THEN 0 ELSE ops
RepeatRest ==
  /\ Top.op.op = "rest"
  /\ t' = [t EXCEPT !.scheduled = @ \o
             [k \in 1..(Top.op.count - 1) |->
                Later(Top.ctx, Top.op.then, Top.target, k * Top.op.step)]]
  /\ Pop
  /\ UNCHANGED <<tick, pass, todo, fallen, drops, away, spent, log>>

\* The budget is used up: the op is not run.
OverBudget ==
  /\ Top.op.op # "rest" /\ Over
  /\ Pop
  /\ UNCHANGED <<t, tick, pass, todo, fallen, drops, away, spent, log>>

\* A blow has landed: the gear of the one who struck it answers.
Raise ==
  /\ Top.op.op = "event"
  /\ \E fired \in SUBSET Triggers(Top.ctx.caster, "hit") :
       Replace(ProcFrames(Top.ctx.caster, Top.target, fired))
  /\ UNCHANGED <<t, tick, pass, todo, fallen, drops, away, spent, log>>

\* try_cast_ability: the cooldown gate, the mana gate (free), then the spell.
Ready(i, key) == tick >= Row(Row(t.ready, i, <<>>), key, 0)
Recovering(i, key) ==
  [t EXCEPT !.ready = Put(@, i, Put(Row(@, i, <<>>), key, tick + Recovery))]
TryCast ==
  LET i == Top.ctx.caster
      ability == Top.op.ability
  IN  /\ Top.op.op = "cast"
      /\ \/ Replace(<<>>) /\ UNCHANGED <<t, log>>
         \/ /\ Ready(i, ability)
            /\ Replace(<<Frame(Ctx(i), Book[ability], i)>>)
            /\ t' = Recovering(i, ability)
            /\ log' = [log EXCEPT !.cast = tick]
      /\ UNCHANGED <<tick, pass, todo, fallen, drops, away, spent>>

\* use_consumable: the first potion of the bag is spent on its spell.
UseConsumable ==
  LET i == Top.ctx.caster
      at == {k \in DOMAIN t.inventory[i] : t.inventory[i][k] \in Potion}
      first == CHOOSE k \in at : \A j \in at : k <= j
  IN  /\ Top.op.op = "use"
      /\ IF at = {} THEN Replace(<<>>) /\ UNCHANGED <<t, log>>
         ELSE /\ t' = [t EXCEPT !.inventory[i] = RemoveAt(@, first)]
              /\ log' = [log EXCEPT !.used = @ \cup {t.inventory[i][first]}, !.cast = tick]
              /\ Replace(<<Frame(Ctx(i), Brew, i)>>)
      /\ UNCHANGED <<tick, pass, todo, fallen, drops, away, spent>>

-----------------------------------------------------------------------------
(* The passes of a tick. Each starts when the one before has nothing left on    *)
(* the stack and has visited whom it must. *)

Idle == pass = "idle"
Ended(p) == pass = p /\ stack = <<>> /\ todo = {}
Free(p) == pass = p /\ stack = <<>>         \* of the visits left, all do nothing
Sparing(n) == spent' = [spent EXCEPT !.acts = @ + n] /\ spent.acts + n <= MaxActs

\* tick: the clock, then the statuses of the players.
BeginTick ==
  /\ Idle /\ tick < MaxTick
  /\ tick' = tick + 1
  /\ pass' = "statuses"
  /\ todo' = DOMAIN t.statuses \cap Bodies
  /\ UNCHANGED <<t, stack, ops, fallen, drops, away, spent, log>>

\* tick_statuses, for one player: what has expired goes, and each interval that
\* has passed counts once.
Periods(inst) == IF tick >= inst.next THEN (tick - inst.next) \div BurnTicks + 1 ELSE 0
Burnt(inst) == [inst EXCEPT !.next = @ + Periods(inst) * BurnTicks]
TickStatuses(i) ==
  LET list == t.statuses[i]
      kept == {s \in DOMAIN list : tick < list[s].expire}
      burns == kept \cap {"burn"}
  IN  /\ pass = "statuses" /\ stack = <<>> /\ i \in todo
      /\ todo' = todo \ {i}
      /\ t' = [t EXCEPT !.statuses[i] =
                 [s \in kept |-> IF s \in burns THEN Burnt(list[s]) ELSE list[s]]]
      /\ stack' = IF burns # {} /\ Periods(list["burn"]) > 0
                  THEN <<Frame(Ctx(list["burn"].source),
                               [op |-> "damage", amount |-> Periods(list["burn"])], i)>>
                  ELSE <<>>
      /\ UNCHANGED <<tick, pass, ops, fallen, drops, away, spent, log>>

\* tick_item_procs: auras and intervals.
BeginProcs ==
  /\ Ended("statuses")
  /\ pass' = "procs"
  /\ todo' = {i \in Living : Triggers(i, "tick") # {}}
  /\ UNCHANGED <<t, tick, stack, ops, fallen, drops, away, spent, log>>
TickItemProcs(i) ==
  /\ Free("procs") /\ i \in todo \cap Living
  /\ todo' = todo \ {i}
  /\ \E fired \in SUBSET Triggers(i, "tick") : stack' = ProcFrames(i, None, fired)
  /\ UNCHANGED <<t, tick, pass, ops, fallen, drops, away, spent, log>>

\* movement_step: its swings and slams.
BeginMovement ==
  /\ Free("procs")
  /\ pass' = "movement" /\ todo' = Bodies
  /\ UNCHANGED <<t, tick, stack, ops, fallen, drops, away, spent, log>>
Blow(i, hits) == [k \in DOMAIN hits |-> Frame(Ctx(i), [op |-> "damage", amount |-> 1], hits[k])]
MeleeAttack(i) ==
  /\ Free("movement") /\ i \in todo \cap Living /\ Ready(i, "melee")
  /\ todo' = todo \ {i}
  /\ \E hits \in Gathered("enemies", Ctx(i)) :
       stack' = Blow(i, hits) \o (IF hits = <<>> THEN <<>>
                                  ELSE <<Frame(Ctx(i), [op |-> "event"], hits[1])>>)
  /\ t' = Recovering(i, "melee")
  /\ Sparing(1)
  /\ UNCHANGED <<tick, pass, ops, fallen, drops, away, log>>
GroundSlam(i) ==
  /\ Free("movement") /\ i \in todo \cap Living
  /\ todo' = todo \ {i}
  /\ \E hits \in Gathered("enemies", Ctx(i)) : stack' = Blow(i, hits)
  /\ Sparing(1)
  /\ UNCHANGED <<t, tick, pass, ops, fallen, drops, away, log>>

\* cast_step: a player that is alive and not silenced as its turn comes presses
\* one ability, two, or uses a potion.
Silenced(i) == i \in DOMAIN t.statuses /\ "frozen" \in DOMAIN t.statuses[i]
Cast(ability) == [op |-> "cast", ability |-> ability]
Presses == {<<Cast(a)>> : a \in DOMAIN Book} \cup {<<[op |-> "use"]>>}
           \cup {<<Cast(a), Cast(Secondary)>> : a \in DOMAIN Book}
BeginCast ==
  /\ Free("movement")
  /\ pass' = "cast" /\ todo' = {i \in Bodies : IsRealPlayer(i)}
  /\ UNCHANGED <<t, tick, stack, ops, fallen, drops, away, spent, log>>
CastStep(i) ==
  /\ Free("cast") /\ i \in todo \cap Living /\ ~Silenced(i)
  /\ todo' = todo \ {i}
  /\ \E p \in Presses : /\ stack' = [k \in DOMAIN p |-> Frame(Ctx(i), p[k], i)]
                        /\ Sparing(Len(p))
  /\ UNCHANGED <<t, tick, pass, ops, fallen, drops, away, log>>

\* integrate_projectiles: each flies on, meets a wall or an enemy, or times out;
\* those that stop are removed before the first of them goes off.
Contacts(shot) ==
  {None} \cup {i \in Living : i # shot.ctx.caster /\ CanDamage(shot.ctx.team, t.entities[i].team)}
IntegrateProjectiles ==
  /\ Free("cast")
  /\ pass' = "shots" /\ todo' = {}
  /\ \E stops \in SUBSET DOMAIN t.projectiles :
     \E order \in SetToSeqs(stops) :
     \E met \in [stops -> {None} \cup Living] :
       /\ \A p \in DOMAIN t.projectiles \ stops : tick < t.projectiles[p].expire
       /\ \A p \in stops : met[p] \in Contacts(t.projectiles[p])
       /\ stack' = [k \in DOMAIN order |->
            LET shot == t.projectiles[order[k]] IN Frame(shot.ctx, shot.op, met[order[k]])]
       /\ t' = [t EXCEPT !.entities = Restrict(@, DOMAIN @ \ stops),
                         !.projectiles = Restrict(@, DOMAIN @ \ stops)]
  /\ UNCHANGED <<tick, ops, fallen, drops, away, spent, log>>

\* tick_fields: the expired go; each pulse that is due runs at the field's centre.
Pulses(f) == IF tick >= f.next THEN (tick - f.next) \div f.interval + 1 ELSE 0
Pulsed(f) == [f EXCEPT !.next = @ + Pulses(f) * f.interval]
TickFields ==
  LET live == Chosen(t.fields, {k \in DOMAIN t.fields : tick < t.fields[k].expire})
      runs == [k \in DOMAIN live |->
                 [n \in 1..Pulses(live[k]) |-> Frame(live[k].ctx, live[k].op, None)]]
  IN  /\ Free("shots")
      /\ pass' = "fields"
      /\ stack' = FlattenSeq(runs)
      /\ t' = [t EXCEPT !.fields = [k \in DOMAIN live |-> Pulsed(live[k])]]
      /\ UNCHANGED <<tick, todo, ops, fallen, drops, away, spent, log>>

Ripe == {k \in DOMAIN t.scheduled : tick >= t.scheduled[k].run}

\* Mutant: what is due runs, and stays in the list.
RunScheduled_kept ==
  LET due == Chosen(t.scheduled, Ripe)
  IN  /\ Free("fields")
      /\ pass' = "scheduled"
      /\ stack' = [k \in DOMAIN due |-> Frame(due[k].ctx, due[k].op, due[k].target)]
      /\ UNCHANGED <<t, tick, todo, ops, fallen, drops, away, spent, log>>

\* run_scheduled: what is due is taken out before any of it runs.
RunScheduled ==
  LET due == Chosen(t.scheduled, Ripe)
  IN  /\ Free("fields")
      /\ pass' = "scheduled"
      /\ stack' = [k \in DOMAIN due |-> Frame(due[k].ctx, due[k].op, due[k].target)]
      /\ t' = [t EXCEPT !.scheduled = Chosen(@, DOMAIN @ \ Ripe)]
      /\ UNCHANGED <<tick, todo, ops, fallen, drops, away, spent, log>>

\* process_deaths visits every body once, in any order: a kill's nova may fell one
\* that was already visited, which then waits for the next tick.
Doomed(i) == ~t.entities[i].dead /\ t.entities[i].health <= 0
BeginDeaths ==
  /\ Free("scheduled")
  /\ pass' = "deaths"
  /\ todo' = IF \E i \in Bodies : Doomed(i) THEN Bodies ELSE {}
  /\ UNCHANGED <<t, tick, stack, ops, fallen, drops, away, spent, log>>
\* build_loot: every other stack is dropped, the first among them.
Dropped(bag) == [k \in 1..((Len(bag) + 1) \div 2) |-> bag[2 * k - 1]]
\* Mutant: the bag is not emptied as it is dropped.
Kept_all(bag) == bag
Kept(bag) == [k \in 1..(Len(bag) \div 2) |-> bag[2 * k]]
Spare(i) ==
  /\ pass = "deaths" /\ stack = <<>> /\ i \in todo /\ ~Doomed(i)
  /\ todo' = todo \ {i}
  /\ UNCHANGED <<t, tick, pass, stack, ops, fallen, drops, away, spent, log>>
Die(i) ==
  LET killer == Row(t.last_attacker, i, i)
      dead == [t EXCEPT !.entities[i].health = 0, !.entities[i].dead = TRUE]
  IN  /\ pass = "deaths" /\ stack = <<>> /\ i \in todo /\ Doomed(i)
      /\ todo' = todo \ {i}
      /\ log' = [log EXCEPT !.slain = @ \cup {<<killer, i>>}]
      /\ \E fired \in SUBSET (IF killer = i THEN {} ELSE Triggers(killer, "kill")) :
           stack' = ProcFrames(killer, i, fired)
      /\ fallen' = fallen \cup {i}
      /\ IF i \in DOMAIN t.mobs
         THEN t' = dead /\ UNCHANGED drops
         ELSE /\ drops' = Append(drops, Dropped(t.inventory[i]))
              /\ t' = [dead EXCEPT !.inventory[i] = Kept(@),
                                   !.respawn_at = Put(@, i, tick + RespawnTicks)]
      /\ UNCHANGED <<tick, pass, ops, away, spent>>
EndDeaths ==
  /\ Ended("deaths")
  /\ pass' = "imprints"
  /\ t' = SpawnDrops(Forget(t, fallen \cap DOMAIN t.mobs), drops)
  /\ todo' = fallen
  /\ fallen' = {} /\ drops' = <<>>
  /\ UNCHANGED <<tick, stack, ops, away, spent, log>>

\* realise_world_imprints: for a slaying that has become a legend, a named foe or
\* a wraith rises, or a relic is left.
Imprint(slain) ==
  /\ Free("imprints") /\ slain \in todo /\ spent.imprints < MaxImprints
  /\ todo' = todo \ {slain}
  /\ t' \in {SpawnSummon(t, None, MobHealth, tick + FoeTicks), SpawnLoot(t, <<>>)}
  /\ spent' = [spent EXCEPT !.imprints = @ + 1]
  /\ UNCHANGED <<tick, pass, stack, ops, fallen, drops, away, log>>

\* pickup_loot: each piece, in any order, goes to one player in reach, if any.
BeginLoot ==
  /\ Free("imprints")
  /\ pass' = "loot" /\ todo' = DOMAIN t.loot
  /\ UNCHANGED <<t, tick, stack, ops, fallen, drops, away, spent, log>>
PickupLoot(piece, i) ==
  /\ Free("loot") /\ piece \in todo
  /\ i \in Living /\ IsRealPlayer(i)
  /\ todo' = todo \ {piece}
  /\ t' = [t EXCEPT !.inventory[i] = @ \o t.loot[piece],
                    !.loot = Restrict(@, DOMAIN @ \ {piece}),
                    !.entities = Restrict(@, DOMAIN @ \ {piece})]
  /\ UNCHANGED <<tick, pass, stack, ops, fallen, drops, away, spent, log>>

\* expire_summons, then process_respawns.
Expired(w) == {i \in DOMAIN w.mobs : tick >= w.mobs[i]}
Rising(w) == {i \in DOMAIN w.respawn_at : /\ i \in DOMAIN w.entities /\ w.entities[i].dead
                                          /\ tick >= w.respawn_at[i]}
Respawned(w, ids) ==
  [w EXCEPT !.entities = [i \in DOMAIN @ |-> IF i \in ids
               THEN [@[i] EXCEPT !.health = MaxHealth, !.dead = FALSE] ELSE @[i]],
            !.statuses = Restrict(@, DOMAIN @ \ ids),
            !.shields = Restrict(@, DOMAIN @ \ ids),
            !.respawn_at = Restrict(@, DOMAIN @ \ ids)]
EndTick ==
  LET left == Forget(t, Expired(t))
  IN  /\ Free("loot")
      /\ pass' = "idle" /\ todo' = {}
      /\ t' = Respawned(left, Rising(left))
      /\ UNCHANGED <<tick, stack, ops, fallen, drops, away, spent, log>>

-----------------------------------------------------------------------------
(* Between ticks. *)

Trip == /\ tick >= FirstTrip /\ spent.trips < MaxTrips
        /\ spent' = [spent EXCEPT !.trips = @ + 1]

SpawnPlayer(o) ==
  /\ Idle /\ tick <= LastJoin
  /\ o \notin log.joined /\ o = Arrivals[Cardinality(log.joined) + 1]
  /\ t' = [AddBody(t, "player", o, Team[o], MaxHealth) EXCEPT
             !.inventory = Put(@, t.next, Kit[o])]
  /\ log' = [log EXCEPT !.joined = @ \cup {o}]
  /\ UNCHANGED <<tick, pass, todo, stack, ops, fallen, drops, away, spent>>

\* A player leaves this world, handed to another zone or lost in a crash that its
\* checkpoint survives. respawn_at and last_attacker are no part of a checkpoint.
Checkpoint(i) ==
  [state |-> t.entities[i], inventory |-> t.inventory[i],
   statuses |-> Row(t.statuses, i, <<>>), shield |-> Row(t.shields, i, None),
   marks |-> Row(t.marks, i, None), ready |-> Row(t.ready, i, <<>>)]
Leave(o) ==
  /\ Idle /\ Trip
  /\ \E i \in EntityOf(o) :
       /\ away' = Put(away, o, Checkpoint(i))
       /\ t' = Forget(t, {i})
  /\ UNCHANGED <<tick, pass, todo, stack, ops, fallen, drops, log>>

Maybe(f, i, v) == IF v = None THEN Restrict(f, DOMAIN f \ {i}) ELSE Put(f, i, v)
BodyFor(o) == IF EntityOf(o) = {} THEN t.next ELSE CHOOSE j \in EntityOf(o) : TRUE
Arrived(o, i, lost) ==
  /\ away' = Restrict(away, DOMAIN away \ {o})
  /\ log' = [log EXCEPT !.lost = @ \cup lost,
                        !.stranded = IF away[o].state.dead THEN @ \cup {i} ELSE @]
  /\ UNCHANGED <<tick, pass, todo, stack, ops, fallen, drops, spent>>
\* Recovered from a checkpoint, whole.
ImportPlayer(o) ==
  LET c == away[o]
      i == BodyFor(o)
  IN  /\ Idle /\ o \in DOMAIN away
      /\ t' = [t EXCEPT
           !.entities = Put(@, i, c.state), !.inventory = Put(@, i, c.inventory),
           !.statuses = Maybe(@, i, IF c.statuses = <<>> THEN None ELSE c.statuses),
           !.shields = Maybe(@, i, c.shield), !.marks = Maybe(@, i, c.marks),
           !.ready = Put(@, i, c.ready),
           !.respawn_at = Restrict(@, DOMAIN @ \ {i}),
           !.next = IF i = @ THEN @ + 1 ELSE @]
      /\ Arrived(o, i, {})
\* Handed over: the body's state alone, and what a new body has not yet got.
SeedPlayer(o) ==
  LET i == BodyFor(o)
  IN  /\ Idle /\ o \in DOMAIN away
      /\ t' = [t EXCEPT
           !.entities = Put(@, i, away[o].state),
           !.inventory = IF i \in DOMAIN @ THEN @ ELSE Put(@, i, <<>>),
           !.next = IF i = @ THEN @ + 1 ELSE @]
      /\ Arrived(o, i, ToSet(away[o].inventory))

-----------------------------------------------------------------------------
Init ==
  /\ t = NoWorld /\ tick = 0 /\ pass = "idle" /\ todo = {}
  /\ stack = <<>> /\ ops = 0 /\ fallen = {} /\ drops = <<>> /\ away = <<>>
  /\ spent = [acts |-> 0, imprints |-> 0, trips |-> 0]
  /\ log = [joined |-> {}, struck |-> {}, slain |-> {}, used |-> {},
            lost |-> {}, stranded |-> {}, cast |-> 0]

RunOp ==
  /\ stack # <<>>
  /\ \/ Damage \/ Touch \/ Shape \/ Launch \/ Compose \/ Delay \/ Repeat
     \/ RepeatRest \/ OverBudget \/ Raise \/ TryCast \/ UseConsumable
Tick ==
  \/ BeginTick \/ BeginProcs \/ BeginMovement \/ BeginCast
  \/ IntegrateProjectiles \/ TickFields \/ RunScheduled
  \/ BeginDeaths \/ EndDeaths \/ BeginLoot \/ EndTick
  \/ \E i \in todo : \/ TickStatuses(i) \/ TickItemProcs(i) \/ MeleeAttack(i)
                     \/ GroundSlam(i) \/ CastStep(i) \/ Spare(i) \/ Die(i) \/ Imprint(i)
                     \/ \E j \in Living : PickupLoot(i, j)
Between == \E o \in Owner : SpawnPlayer(o) \/ Leave(o) \/ ImportPlayer(o) \/ SeedPlayer(o)

Next == RunOp \/ Tick \/ Between
Spec == Init /\ [][Next]_vars

-----------------------------------------------------------------------------
\* Every variable has its type: the tables are indexed by ids already given out.
TypeOK ==
  /\ tick \in 0..MaxTick /\ t.next \in Nat \ {0} /\ ops \in 0..MaxOps
  /\ pass \in {"idle", "statuses", "procs", "movement", "cast", "shots", "fields",
               "scheduled", "deaths", "imprints", "loot"}
  /\ pass = "idle" => stack = <<>> /\ todo = {} /\ fallen = {} /\ drops = <<>>
  /\ DOMAIN t.entities \subseteq 1..(t.next - 1)
  /\ \A i \in DOMAIN t.inventory : t.entities[i].health <= MaxHealth
  /\ \A i \in DOMAIN t.inventory : ToSet(t.inventory[i]) \subseteq Items
  /\ DOMAIN away \subseteq Owner

\* No body without its bookkeeping, no bookkeeping without its body: a pickup has
\* its payload, a projectile its spell, and a player's body is either a player's,
\* with a bag, or a mob's, with an expiry. A body that is neither could be felled
\* but would never be removed or come back.
NoGhosts ==
  LET kind(k) == {i \in DOMAIN t.entities : t.entities[i].kind = k}
  IN  /\ DOMAIN t.loot = kind("pickup")
      /\ DOMAIN t.projectiles = kind("projectile")
      /\ DOMAIN t.inventory \cup DOMAIN t.mobs = kind("player")
      /\ DOMAIN t.inventory \cap DOMAIN t.mobs = {}

\* Between ticks, a dead player has a respawn ahead of it, and not further than the
\* respawn time; the one exception is a player that was restored from a checkpoint
\* taken while it was dead (the DEAD flag comes along, respawn_at does not).
DeadAwaitRespawn ==
  Idle => \A i \in DOMAIN t.inventory :
    t.entities[i].dead =>
      \/ i \in log.stranded
      \/ i \in DOMAIN t.respawn_at /\ t.respawn_at[i] \in tick + 1 .. tick + RespawnTicks

\* The tables of a World are well formed, follow the bodies, and leave no dead
\* player without its respawn (remove_entity, process_deaths, process_respawns).
Bookkeeping == TypeOK /\ NoGhosts /\ DeadAwaitRespawn

\* Where a stack is: how far down which of the lists of a kind, or spent.
Listed(kind, lists, x) ==
  UNION {{<<kind, h, k>> : k \in {j \in DOMAIN lists[h] : lists[h][j] = x}} :
           h \in DOMAIN lists}
Gone(kind, items, x) == {<<kind, 0, 0>> : y \in items \cap {x}}
Spots(x) ==
  UNION {Listed("bag", t.inventory, x), Listed("loot", t.loot, x),
         Listed("drop", drops, x),
         Listed("away", [o \in DOMAIN away |-> away[o].inventory], x),
         Gone("used", log.used, x), Gone("lost", log.lost, x)}

\* Every stack a player brought is in exactly one place, whatever deaths, pickups,
\* potions, recoveries and respawns there were: a bag, a piece of loot, a checkpoint,
\* drunk, or left behind by a hand-off that took the body alone.
ItemsOnce ==
  \A o \in log.joined : \A x \in ToSet(Kit[o]) : \E s \in Spots(x) : Spots(x) = {s}

\* A kill is credited to one who has struck the victim, or to the victim itself.
CreditEarned ==
  \A k \in log.slain : k[1] = k[2] \/ k \in log.struck

\* What the spells and the gear must be like for that: how long a cast of a node
\* may take, the furthest that anything it leaves is timed from the cast (span), and
\* how many ticks later the pass that runs it may come to it, by the pass that ran
\* the node (late). A pass that is over in this tick is a tick away. What gear
\* answers with leaves nothing that waits (the nodes that are still): item procs
\* apply an outcome at once.
Within(op) ==
  IF op.op \in {"shape", "chance"} THEN {op.then}
  ELSE IF op.op = "ifmarked" THEN {op.then, op.otherwise}
  ELSE IF op.op = "seq" THEN ToSet(op.children)
  ELSE IF op.op = "repeat" THEN {op.then} ELSE {}
Leaves(op) ==
  IF op.op = "projectile" THEN {[pass |-> 1, lasts |-> op.lifetime, then |-> op.then]}
  ELSE IF op.op = "field" THEN {[pass |-> 2, lasts |-> op.duration, then |-> op.then]}
  ELSE IF op.op = "delay" THEN {[pass |-> 3, lasts |-> op.ticks, then |-> op.then]}
  ELSE IF op.op = "repeat" /\ op.count > 1
  THEN {[pass |-> 3, lasts |-> (op.count - 1) * op.step, then |-> op.then]} ELSE {}
Fades(m) ==
  /\ m.span \in [Op -> Nat] /\ m.late \in [Op -> [0..3 -> Nat]] /\ m.still \subseteq Op
  /\ \A o \in Op : \A inner \in Within(o) :
       /\ m.span[inner] <= m.span[o] /\ \A p \in 0..3 : m.late[inner][p] <= m.late[o][p]
       /\ o \in m.still => inner \in m.still
  /\ \A o \in Op : \A l \in Leaves(o) :
       /\ o \notin m.still /\ l.lasts <= m.span[o] /\ m.span[l.then] <= m.span[o]
       /\ \A p \in 0..3 :
            m.late[l.then][l.pass] + (IF p < l.pass THEN 0 ELSE 1) <= m.late[o][p]
  /\ \A o \in {Brew} \cup {Book[a] : a \in DOMAIN Book} : m.span[o] + m.late[o][0] <= Lifespan
  /\ \A o \in Owner : \A g \in Gear[o] : g.effect \in m.still
  /\ \A o \in Op : o.op = "damage" => o \in m.still

\* Nothing of a cast outlives Lifespan: no projectile still flies, no field still
\* pulses and no delayed effect still waits, however its graph nests them.
CastsEnd ==
  Idle /\ tick >= log.cast + Lifespan =>
    /\ t.projectiles = <<>> /\ t.fields = <<>> /\ t.scheduled = <<>>
    /\ \A i \in DOMAIN t.mobs : t.mobs[i] > tick

\* A body that has run out of health is not saved: no heal, shield or proc revives
\* it, before its death is processed or after, only the respawn it waits for.
NoRevival ==
  [][\A i \in DOMAIN t.entities \cap DOMAIN t'.entities :
       t.entities[i].health <= 0 /\ t'.entities[i].health > 0
         => pass = "loot" /\ i \in DOMAIN t.respawn_at /\ tick >= t.respawn_at[i]]_vars
=============================================================================
