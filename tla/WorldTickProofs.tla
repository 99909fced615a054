--------------------------- MODULE WorldTickProofs ---------------------------
(***************************************************************************)
(* Proofs about WorldTick, for any owners, bags, gear and spell graphs,    *)
(* and any targets, orders, procs, hand-offs and recoveries.               *)
(***************************************************************************)
EXTENDS WorldTick, FiniteSetTheorems, SequenceTheorems, WellFoundedInduction, TLAPS

\* What the tables and the stack may hold.
Sides   == {None} \cup {Team[o] : o \in Owner}
Aims    == Nat \cup {None}
Context == [caster : Nat, team : Sides, tick : Nat]
Ent     == [kind : {"player", "pickup", "projectile"}, owner : Owner \cup {None},
            team : Sides, health : Int, dead : BOOLEAN]
Inst    == [source : Nat, expire : Int, next : Int]
Cover   == [amount : Nat, expire : Int]
Shots   == [ctx : Context, op : Op, expire : Int]
Places  == [ctx : Context, op : Op, expire : Int, next : Int, interval : Nat \ {0}]
Waits   == [run : Int, ctx : Context, op : Op, target : Aims]

\* What a frame may evaluate: a node of a graph, a blow, the rest of a repeat, or
\* what starts a run.
Blows == [op : {"damage"}, amount : Nat]
Rests == [op : {"rest"}, count : Nat, step : Nat, then : Op]
Casts == [op : {"cast"}, ability : DOMAIN Book]
Starts == Casts \cup [op : {"event", "use"}]
FrameSet == [ctx : Context, op : Op \cup Blows \cup Rests \cup Starts, target : Aims,
             depth : Nat, proc : BOOLEAN]
\* Only a player that carries a bag uses what is in it.
Frames(carriers) ==
  {h \in FrameSet : h.op.op \in {"event", "cast", "use"} =>
     h.depth = 0 /\ (h.op.op = "use" => h.ctx.caster \in carriers)}

Tables == ById \cup {"fields", "scheduled", "next"}
Named(w, kind) == {i \in DOMAIN w.entities : w.entities[i].kind = kind}

Sized(w) ==
  /\ DOMAIN w = Tables /\ w.next \in Nat \ {0}
  /\ DOMAIN w.entities \subseteq 1..(w.next - 1)
Typed(w) ==
  /\ \A i \in DOMAIN w.entities : w.entities[i] \in Ent
  /\ \A i \in DOMAIN w.inventory : w.inventory[i] \in Seq(Items)
  /\ \A i \in DOMAIN w.loot : w.loot[i] \in Seq(Items)
  /\ \A i \in DOMAIN w.statuses : \A s \in DOMAIN w.statuses[i] : w.statuses[i][s] \in Inst
  /\ \A i \in DOMAIN w.shields : w.shields[i] \in Cover
  /\ \A i \in DOMAIN w.projectiles : w.projectiles[i] \in Shots
  /\ w.fields \in Seq(Places) /\ w.scheduled \in Seq(Waits)
\* The rows follow the bodies.
Matched(w) ==
  /\ DOMAIN w.loot = Named(w, "pickup")
  /\ DOMAIN w.projectiles = Named(w, "projectile")
  /\ DOMAIN w.inventory \cup DOMAIN w.mobs = Named(w, "player")
  /\ DOMAIN w.inventory \cap DOMAIN w.mobs = {}
\* Who plays: one body for each owner, no stronger than it may be.
Played(w) ==
  /\ \A i \in DOMAIN w.inventory :
       w.entities[i].owner \in Owner /\ w.entities[i].health <= MaxHealth
  /\ \A i, j \in DOMAIN w.inventory : w.entities[i].owner = w.entities[j].owner => i = j
  /\ \A i \in DOMAIN w.mobs : w.entities[i].owner = None
World(w) == Sized(w) /\ Typed(w) /\ Matched(w) /\ Played(w)

Passes == {"idle", "statuses", "procs", "movement", "cast", "shots", "fields",
           "scheduled", "deaths", "imprints", "loot"}
Turns ==
  /\ tick \in 0..MaxTick /\ ops \in 0..MaxOps /\ pass \in Passes
  /\ stack \in Seq(Frames(DOMAIN t.inventory)) /\ drops \in Seq(Seq(Items))
  /\ pass = "idle" => stack = <<>> /\ todo = {}
  /\ pass # "deaths" => fallen = {} /\ drops = <<>>
  /\ pass = "deaths" => todo \cup fallen \subseteq Bodies
  /\ pass = "loot" => todo \subseteq DOMAIN t.loot
  /\ pass = "cast" => todo \subseteq DOMAIN t.inventory
  /\ pass = "statuses" => todo \subseteq DOMAIN t.statuses \cap Bodies

\* A checkpoint is of a player that is nowhere else.
Saved(c, o) ==
  /\ c.state \in Ent /\ c.state.kind = "player" /\ c.state.owner = o
  /\ c.state.health <= MaxHealth /\ c.inventory \in Seq(Items)
  /\ \A s \in DOMAIN c.statuses : c.statuses[s] \in Inst
  /\ c.shield = None \/ c.shield \in Cover
Abroad ==
  /\ DOMAIN away \subseteq log.joined /\ log.joined \subseteq Owner
  /\ \A o \in DOMAIN away : Saved(away[o], o)
  /\ \A i \in DOMAIN t.inventory :
       t.entities[i].owner \in log.joined /\ t.entities[i].owner \notin DOMAIN away

\* The dead of a tick, as well as those between ticks.
Awaiting ==
  \A i \in DOMAIN t.inventory : t.entities[i].dead =>
    \/ i \in log.stranded
    \/ /\ i \in DOMAIN t.respawn_at
       /\ t.respawn_at[i] \in (IF Idle THEN tick + 1 ELSE tick) .. tick + RespawnTicks

\* Whoever is remembered as the last to strike has struck.
Remembered ==
  /\ DOMAIN log = {"joined", "struck", "slain", "used", "lost", "stranded", "cast"}
  /\ \A v \in DOMAIN t.last_attacker : <<t.last_attacker[v], v>> \in log.struck

IInv == World(t) /\ Turns /\ Abroad /\ Awaiting /\ Remembered /\ CreditEarned
-----------------------------------------------------------------------------
(* Helpers. *)

LEMMA Putting ==
  ASSUME NEW f, NEW k, NEW v
  PROVE  /\ DOMAIN Put(f, k, v) = DOMAIN f \cup {k} /\ Put(f, k, v)[k] = v
         /\ \A x \in DOMAIN f \ {k} : Put(f, k, v)[x] = f[x]
  BY DEF Put

LEMMA Restricting ==
  ASSUME NEW f, NEW S
  PROVE  DOMAIN Restrict(f, S) = S /\ \A x \in S : Restrict(f, S)[x] = f[x]
  BY DEF Restrict

\* The order of the natural numbers is well founded, as a set of pairs.
LEMMA NatOrder == IsWellFoundedOn({p \in Nat \X Nat : p[1] < p[2]}, Nat)
  BY NatLessThanWellFounded, Zenon DEF OpToRel

\* A set of numbers that is not empty has a least one.
LEMMA Least ==
  ASSUME NEW S \in SUBSET Nat, S # {}
  PROVE  \E k \in S : \A j \in S : k <= j
<1> DEFINE R == {p \in Nat \X Nat : p[1] < p[2]}
<1>1. PICK k \in S : \A j \in S : ~ (<<j, k>> \in R)
  <2>1. IsWellFoundedOn(R, Nat)
    BY NatOrder
  <2> HIDE DEF R
  <2> QED BY <2>1, WFMin
<1>2. \A j \in S : k <= j
  <2> TAKE j \in S
  <2>1. ~ (<<j, k>> \in R)
    BY <1>1
  <2> QED BY <2>1
<1> QED BY <1>2

\* A body comes into the world under an id that was never given out.
LEMMA Grown ==
  ASSUME NEW w, Sized(w), \A i \in DOMAIN w.entities : w.entities[i] \in Ent,
         NEW e \in Ent, NEW v, DOMAIN v = Tables,
         v.entities = Put(w.entities, w.next, e), v.next = w.next + 1
  PROVE  /\ Sized(v) /\ w.next \notin DOMAIN w.entities
         /\ DOMAIN v.entities = DOMAIN w.entities \cup {w.next}
         /\ v.entities[w.next] = e
         /\ \A i \in DOMAIN w.entities : v.entities[i] = w.entities[i]
         /\ \A i \in DOMAIN v.entities : v.entities[i] \in Ent
         /\ \A kind : Named(v, kind) =
              Named(w, kind) \cup (IF e.kind = kind THEN {w.next} ELSE {})
<1>1. w.next \notin DOMAIN w.entities /\ w.next \in Nat \ {0}
  BY DEF Sized
<1>2. /\ DOMAIN v.entities = DOMAIN w.entities \cup {w.next}
      /\ v.entities[w.next] = e
      /\ \A i \in DOMAIN w.entities : v.entities[i] = w.entities[i]
  BY <1>1 DEF Put
<1>3. Sized(v)
  BY <1>1, <1>2 DEF Sized
<1>4. \A i \in DOMAIN v.entities : v.entities[i] \in Ent
  BY <1>2
<1>5. \A kind : Named(v, kind) =
        Named(w, kind) \cup (IF e.kind = kind THEN {w.next} ELSE {})
  BY <1>1, <1>2 DEF Named
<1> QED BY <1>1, <1>2, <1>3, <1>4, <1>5

\* What no op of a spell changes: bags, loot and respawns, who a body is and
\* whether it is dead, and that one without health has none.
Alike(w, v) ==
  /\ DOMAIN v.inventory = DOMAIN w.inventory
  /\ v.loot = w.loot /\ v.respawn_at = w.respawn_at
  /\ DOMAIN w.statuses \subseteq DOMAIN v.statuses
  /\ \A i \in DOMAIN w.entities :
       /\ i \in DOMAIN v.entities
       /\ v.entities[i].kind = w.entities[i].kind /\ v.entities[i].owner = w.entities[i].owner
       /\ v.entities[i].dead = w.entities[i].dead
       /\ w.entities[i].health <= 0 => v.entities[i].health <= 0
Same(w, v) == Alike(w, v) /\ v.inventory = w.inventory

\* A body before and after.
Follows(d, e) ==
  /\ e \in Ent /\ e.kind = d.kind /\ e.owner = d.owner /\ e.dead = d.dead
  /\ d.health <= 0 => e.health <= 0
  /\ e.health <= d.health \/ e.health <= MaxHealth

\* Bodies keep what they are when only their health changes.
LEMMA Steady ==
  ASSUME NEW w, World(w), NEW v, DOMAIN v = Tables, v.next = w.next,
         DOMAIN v.entities = DOMAIN w.entities,
         v.inventory = w.inventory, v.loot = w.loot, v.respawn_at = w.respawn_at,
         v.projectiles = w.projectiles, DOMAIN v.mobs = DOMAIN w.mobs,
         v.fields \in Seq(Places), v.scheduled \in Seq(Waits),
         DOMAIN w.statuses \subseteq DOMAIN v.statuses,
         \A i \in DOMAIN v.statuses : \A s \in DOMAIN v.statuses[i] : v.statuses[i][s] \in Inst,
         \A i \in DOMAIN v.shields : v.shields[i] \in Cover,
         \A i \in DOMAIN w.entities : Follows(w.entities[i], v.entities[i])
  PROVE  World(v) /\ Same(w, v)
<1>1. Sized(v)
  BY DEF World, Sized
<1>2. Typed(v)
  BY DEF World, Typed, Follows
<1>3. \A kind : Named(v, kind) = Named(w, kind)
  BY DEF Named, Follows
<1>4. Matched(v)
  BY <1>3 DEF World, Matched
<1>5. Played(v)
  <2>1. DOMAIN w.inventory \subseteq DOMAIN w.entities /\ DOMAIN w.mobs \subseteq DOMAIN w.entities
    BY DEF World, Matched, Named
  <2>2. \A i \in DOMAIN w.inventory : v.entities[i].health <= MaxHealth
    <3> TAKE i \in DOMAIN w.inventory
    <3>1. w.entities[i] \in Ent /\ Follows(w.entities[i], v.entities[i])
      BY <2>1 DEF World, Typed
    <3>2. w.entities[i].health \in Int /\ v.entities[i].health \in Int
      BY <3>1 DEF Ent, Follows
    <3>3. w.entities[i].health <= MaxHealth
      BY DEF World, Played
    <3> QED BY <3>1, <3>2, <3>3, Bounds DEF Follows
  <2> QED BY <2>1, <2>2 DEF World, Played, Follows
<1> QED BY <1>1, <1>2, <1>4, <1>5 DEF World, Same, Alike, Follows

-----------------------------------------------------------------------------
(* What the ops of a spell do to the tables. *)

LEMMA Unmoved ==
  ASSUME NEW w, World(w)
  PROVE  /\ \A i \in DOMAIN w.entities :
              w.entities[i] \in Ent /\ Follows(w.entities[i], w.entities[i])
         /\ DOMAIN w = Tables
<1>1. \A i \in DOMAIN w.entities : w.entities[i] \in Ent /\ w.entities[i].health \in Int
  BY DEF World, Typed, Ent
<1> QED BY <1>1 DEF Follows, World, Sized

LEMMA OneHealth ==
  ASSUME NEW w, World(w), NEW i \in DOMAIN w.entities, NEW g \in Int,
         w.entities[i].health <= 0 => g <= 0,
         g <= w.entities[i].health \/ g <= MaxHealth,
         NEW bodies, bodies = [w.entities EXCEPT ![i].health = g]
  PROVE  /\ \A j \in DOMAIN w.entities : Follows(w.entities[j], bodies[j])
         /\ DOMAIN bodies = DOMAIN w.entities
<1>1. \A j \in DOMAIN w.entities : w.entities[j] \in Ent /\ Follows(w.entities[j], w.entities[j])
  BY Unmoved
<1>2. Follows(w.entities[i], [w.entities[i] EXCEPT !.health = g])
  <2> DEFINE d == w.entities[i]
             e == [d EXCEPT !.health = g]
  <2>1. d \in Ent
    BY <1>1
  <2> HIDE DEF d
  <2>2. /\ e \in Ent /\ e.health = g /\ e.kind = d.kind /\ e.owner = d.owner
        /\ e.dead = d.dead
    BY <2>1 DEF Ent
  <2> HIDE DEF e
  <2>3. Follows(d, e)
    BY <2>2 DEF Follows, d
  <2> QED BY <2>3 DEF d, e
<1>3. \A j \in DOMAIN w.entities :
        bodies[j] = IF j = i THEN [w.entities[i] EXCEPT !.health = g] ELSE w.entities[j]
  OBVIOUS
<1> QED BY <1>1, <1>2, <1>3

LEMMA HealOK ==
  ASSUME NEW w, World(w), NEW i, NEW n \in Nat, NEW v, v = HealEntity(w, i, n)
  PROVE  World(v) /\ Same(w, v) /\ v.last_attacker = w.last_attacker
<1>1. CASE i \notin DOMAIN w.entities \/ ~Alive(w.entities[i])
  <2>1. v = w
    BY <1>1 DEF HealEntity
  <2> QED BY <2>1 DEF Same, Alike
<1>2. CASE i \in DOMAIN w.entities /\ Alive(w.entities[i])
  <2> DEFINE h == w.entities[i].health
             g == IF h + n > MaxHealth THEN MaxHealth ELSE h + n
  <2>1. DOMAIN w = Tables /\ w.entities[i] \in Ent
    BY <1>2 DEF World, Sized, Typed
  <2>2. h \in Int /\ h > 0 /\ g \in Int /\ g <= MaxHealth
    BY <1>2, <2>1, Bounds DEF Ent, Alive
  <2>3. v = [w EXCEPT !.entities[i].health = g]
    BY <1>2 DEF HealEntity
  <2> HIDE DEF g
  <2>4. /\ DOMAIN v = Tables /\ v.next = w.next /\ v.inventory = w.inventory
        /\ v.loot = w.loot /\ v.respawn_at = w.respawn_at /\ v.statuses = w.statuses
        /\ v.shields = w.shields /\ v.projectiles = w.projectiles /\ v.mobs = w.mobs
        /\ v.fields = w.fields /\ v.scheduled = w.scheduled
        /\ v.last_attacker = w.last_attacker
        /\ v.entities = [w.entities EXCEPT ![i].health = g]
    BY <2>1, <2>3 DEF Tables, ById
  <2>5. /\ \A j \in DOMAIN w.entities : Follows(w.entities[j], v.entities[j])
        /\ DOMAIN v.entities = DOMAIN w.entities
    BY <1>2, <2>2, <2>4, OneHealth
  <2> QED BY <2>4, <2>5, Steady DEF World, Typed
<1> QED BY <1>1, <1>2
\* What the rows that no invariant speaks of hold does not matter.
LEMMA RowsOK ==
  ASSUME NEW w, World(w), NEW marks, NEW ready,
         NEW v, v = [w EXCEPT !.marks = marks] \/ v = [w EXCEPT !.ready = ready]
  PROVE  World(v) /\ Same(w, v) /\ v.last_attacker = w.last_attacker
<1>1. /\ DOMAIN v = Tables /\ v.next = w.next /\ v.entities = w.entities
      /\ v.inventory = w.inventory
      /\ v.loot = w.loot /\ v.respawn_at = w.respawn_at /\ v.statuses = w.statuses
      /\ v.shields = w.shields /\ v.projectiles = w.projectiles /\ v.mobs = w.mobs
      /\ v.fields = w.fields /\ v.scheduled = w.scheduled
      /\ v.last_attacker = w.last_attacker
  BY Unmoved DEF Tables, ById
<1> QED BY <1>1, Unmoved, Steady DEF World, Typed

LEMMA ShieldOK ==
  ASSUME NEW w, World(w), NEW i, NEW n \in Nat, NEW expire \in Int,
         NEW v, v = AddShield(w, i, n, expire)
  PROVE  World(v) /\ Same(w, v) /\ v.last_attacker = w.last_attacker
<1> DEFINE old == Row(w.shields, i, [amount |-> 0, expire |-> expire])
           new == [amount |-> old.amount + n,
                   expire |-> IF old.expire > expire THEN old.expire ELSE expire]
<1>1. new \in Cover
  <2>1. old \in Cover
    BY DEF Row, Cover, World, Typed
  <2> QED BY <2>1 DEF Cover
<1>2. v = [w EXCEPT !.shields = Put(w.shields, i, new)]
  BY Unmoved DEF AddShield
<1> HIDE DEF new
<1>3. /\ DOMAIN v = Tables /\ v.next = w.next /\ v.entities = w.entities
      /\ v.inventory = w.inventory
      /\ v.loot = w.loot /\ v.respawn_at = w.respawn_at /\ v.statuses = w.statuses
      /\ v.projectiles = w.projectiles /\ v.mobs = w.mobs
      /\ v.fields = w.fields /\ v.scheduled = w.scheduled
      /\ v.last_attacker = w.last_attacker /\ v.shields = Put(w.shields, i, new)
  BY <1>2, Unmoved DEF Tables, ById
<1>4. \A j \in DOMAIN v.shields : v.shields[j] \in Cover
  BY <1>1, <1>3 DEF Put, World, Typed
<1> QED BY <1>3, <1>4, Unmoved, Steady DEF World, Typed

LEMMA StatusOK ==
  ASSUME NEW w, World(w), NEW i, NEW status, NEW duration \in Nat, NEW at \in Nat,
         NEW source \in Nat, NEW v, v = AddStatus(w, i, status, duration, at, source)
  PROVE  World(v) /\ Same(w, v) /\ v.last_attacker = w.last_attacker
<1> DEFINE list == Row(w.statuses, i, <<>>)
           inst == IF status \in DOMAIN list
                   THEN [list[status] EXCEPT !.expire = at + duration]
                   ELSE [source |-> source, expire |-> at + duration,
                         next |-> at + (IF Interval(status) = 0 THEN 1 ELSE Interval(status))]
<1>1. \A s \in DOMAIN list : list[s] \in Inst
  BY DEF Row, World, Typed
<1>2. inst \in Inst
  <2>1. Interval(status) \in Nat
    BY Bounds DEF Interval
  <2> HIDE DEF list
  <2>2. CASE status \in DOMAIN list
    BY <1>1, <2>2 DEF Inst
  <2>3. CASE status \notin DOMAIN list
    BY <2>1, <2>3 DEF Inst
  <2> QED BY <2>2, <2>3
<1>3. v = [w EXCEPT !.statuses = Put(w.statuses, i, Put(list, status, inst))]
  BY Unmoved DEF AddStatus
<1> HIDE DEF list, inst
<1>4. /\ DOMAIN v = Tables /\ v.next = w.next /\ v.entities = w.entities
      /\ v.inventory = w.inventory
      /\ v.loot = w.loot /\ v.respawn_at = w.respawn_at
      /\ v.shields = w.shields /\ v.projectiles = w.projectiles /\ v.mobs = w.mobs
      /\ v.fields = w.fields /\ v.scheduled = w.scheduled
      /\ v.last_attacker = w.last_attacker
      /\ v.statuses = Put(w.statuses, i, Put(list, status, inst))
  BY <1>3, Unmoved DEF Tables, ById
<1>5. \A s \in DOMAIN Put(list, status, inst) : Put(list, status, inst)[s] \in Inst
  BY <1>1, <1>2 DEF Put
<1>6. /\ DOMAIN w.statuses \subseteq DOMAIN v.statuses
      /\ \A j \in DOMAIN v.statuses : \A s \in DOMAIN v.statuses[j] : v.statuses[j][s] \in Inst
  <2>1. /\ DOMAIN v.statuses = DOMAIN w.statuses \cup {i}
        /\ \A j \in DOMAIN v.statuses :
             v.statuses[j] = IF j = i THEN Put(list, status, inst) ELSE w.statuses[j]
    BY <1>4 DEF Put
  <2>2. \A j \in DOMAIN w.statuses : \A s \in DOMAIN w.statuses[j] : w.statuses[j][s] \in Inst
    BY DEF World, Typed
  <2> QED BY <1>5, <2>1, <2>2
<1> QED BY <1>4, <1>6, Unmoved, Steady DEF World, Typed

LEMMA FieldsOK ==
  ASSUME NEW w, World(w), NEW fields \in Seq(Places), NEW scheduled \in Seq(Waits),
         NEW v, v = [w EXCEPT !.fields = fields] \/ v = [w EXCEPT !.scheduled = scheduled]
  PROVE  World(v) /\ Same(w, v) /\ v.last_attacker = w.last_attacker
<1>1. /\ DOMAIN v = Tables /\ v.next = w.next /\ v.entities = w.entities
      /\ v.inventory = w.inventory
      /\ v.loot = w.loot /\ v.respawn_at = w.respawn_at /\ v.statuses = w.statuses
      /\ v.shields = w.shields /\ v.projectiles = w.projectiles /\ v.mobs = w.mobs
      /\ v.fields \in {w.fields, fields} /\ v.scheduled \in {w.scheduled, scheduled}
      /\ v.last_attacker = w.last_attacker
  <2>1. CASE v = [w EXCEPT !.fields = fields]
    BY <2>1, Unmoved DEF Tables, ById
  <2>2. CASE v = [w EXCEPT !.scheduled = scheduled]
    BY <2>2, Unmoved DEF Tables, ById
  <2> QED BY <2>1, <2>2
<1> QED BY <1>1, Unmoved, Steady, ZenonT(60) DEF World, Typed

LEMMA ReflectedOK ==
  ASSUME NEW w, World(w), NEW a, NEW victim, NEW v, v = Reflected(w, a, victim)
  PROVE  World(v) /\ Same(w, v) /\ v.last_attacker = w.last_attacker
<1>1. CASE v = w
  BY <1>1, Zenon DEF Same, Alike
<1>2. CASE v # w
  <2> DEFINE g == w.entities[a].health - 1
  <2>1. a \in DOMAIN w.entities /\ v = [w EXCEPT !.entities[a].health = g]
    BY <1>2 DEF Reflected
  <2>2. g \in Int /\ w.entities[a].health \in Int
    BY <2>1, Unmoved DEF Ent
  <2>3. (w.entities[a].health <= 0 => g <= 0) /\ g <= w.entities[a].health
    BY <2>2
  <2> HIDE DEF g
  <2>4. /\ DOMAIN v = Tables /\ v.next = w.next /\ v.inventory = w.inventory
        /\ v.loot = w.loot /\ v.respawn_at = w.respawn_at /\ v.statuses = w.statuses
        /\ v.shields = w.shields /\ v.projectiles = w.projectiles /\ v.mobs = w.mobs
        /\ v.fields = w.fields /\ v.scheduled = w.scheduled
        /\ v.last_attacker = w.last_attacker
        /\ v.entities = [w.entities EXCEPT ![a].health = g]
    BY <2>1, Unmoved DEF Tables, ById
  <2>5. /\ \A j \in DOMAIN w.entities : Follows(w.entities[j], v.entities[j])
        /\ DOMAIN v.entities = DOMAIN w.entities
    <3> DEFINE bodies == v.entities
    <3>1. bodies = [w.entities EXCEPT ![a].health = g]
      BY <2>4
    <3>2. a \in DOMAIN w.entities
      BY <2>1
    <3> HIDE DEF bodies
    <3>3. /\ \A j \in DOMAIN w.entities : Follows(w.entities[j], bodies[j])
          /\ DOMAIN bodies = DOMAIN w.entities
      BY <2>2, <2>3, <3>1, <3>2, OneHealth, Zenon
    <3> QED BY <3>3 DEF bodies
  <2> QED BY <2>4, <2>5, Steady DEF World, Typed
<1> QED BY <1>1, <1>2

LEMMA AbsorbedOK ==
  ASSUME NEW w, World(w), NEW victim, NEW n \in Nat
  PROVE  /\ Absorbed(w, victim, n) \in Nat /\ n - Absorbed(w, victim, n) \in Nat
         /\ victim \in DOMAIN w.shields =>
              w.shields[victim].amount - Absorbed(w, victim, n) \in Nat
<1>1. Row(w.shields, victim, [amount |-> 0, expire |-> 0]) \in Cover
  BY DEF Row, Cover, World, Typed
<1> QED BY <1>1 DEF Absorbed, Cover, Row

\* A blow takes health, or what shields it, and is remembered against its victim.
LEMMA StruckOK ==
  ASSUME NEW w, World(w), NEW a, NEW victim, NEW n \in Nat,
         NEW v, v = Struck(w, a, victim, n)
  PROVE  /\ World(v) /\ Same(w, v)
         /\ v.last_attacker = Put(w.last_attacker, victim, a)
<1> DEFINE soaked == Absorbed(w, victim, n)
           shield == Row(w.shields, victim, [amount |-> 0, expire |-> 0])
           shields == IF victim \notin DOMAIN w.shields \/ shield.amount = 0 THEN w.shields
                      ELSE IF shield.amount = soaked
                      THEN Restrict(w.shields, DOMAIN w.shields \ {victim})
                      ELSE Put(w.shields, victim, Less(shield, "amount", soaked))
           bodies == IF victim \in DOMAIN w.entities
                     THEN Put(w.entities, victim, Less(w.entities[victim], "health", n - soaked))
                     ELSE w.entities
<1>1. v = [w EXCEPT !.shields = shields, !.entities = bodies,
                    !.last_attacker = Put(w.last_attacker, victim, a)]
  BY SMT DEF Struck
<1>2. \A j \in DOMAIN shields : shields[j] \in Cover
  <2>1. \A j \in DOMAIN w.shields : w.shields[j] \in Cover
    BY DEF World, Typed
  <2>2. CASE victim \notin DOMAIN w.shields \/ shield.amount = 0
    BY <2>1, <2>2
  <2>3. CASE /\ victim \in DOMAIN w.shields
             /\ shields = Restrict(w.shields, DOMAIN w.shields \ {victim})
    BY <2>1, <2>3, Restricting
  <2>4. CASE /\ victim \in DOMAIN w.shields
             /\ shields = Put(w.shields, victim, Less(shield, "amount", soaked))
    <3>1. w.shields[victim].amount - soaked \in Nat
      BY <2>4, AbsorbedOK
    <3>2. shield = w.shields[victim]
      BY <2>4 DEF Row
    <3> HIDE DEF soaked, shields, shield
    <3>3. Less(shield, "amount", soaked) \in Cover
      BY <2>1, <2>4, <3>1, <3>2 DEF Cover, Less
    <3> QED BY <2>1, <2>4, <3>3 DEF Put
  <2> QED BY <2>2, <2>3, <2>4
<1>3. /\ \A j \in DOMAIN w.entities : Follows(w.entities[j], bodies[j])
      /\ DOMAIN bodies = DOMAIN w.entities
  <2>1. CASE victim \notin DOMAIN w.entities
    BY <2>1, Unmoved
  <2>2. CASE victim \in DOMAIN w.entities
    <3> DEFINE g == w.entities[victim].health - (n - soaked)
    <3>1. w.entities[victim].health \in Int /\ n - soaked \in Nat
      BY <2>2, AbsorbedOK, Unmoved DEF Ent
    <3>2. g \in Int /\ (w.entities[victim].health <= 0 => g <= 0) /\ g <= w.entities[victim].health
      BY <3>1
    <3>3. bodies = [w.entities EXCEPT ![victim].health = g]
      BY <2>2 DEF Put, Less
    <3> HIDE DEF g, bodies
    <3> QED BY <2>2, <3>2, <3>3, OneHealth, Zenon
  <2> QED BY <2>1, <2>2
<1> HIDE DEF shields, bodies
<1>4. /\ DOMAIN v = Tables /\ v.next = w.next /\ v.inventory = w.inventory
      /\ v.loot = w.loot /\ v.respawn_at = w.respawn_at /\ v.statuses = w.statuses
      /\ v.shields = shields /\ v.projectiles = w.projectiles /\ v.mobs = w.mobs
      /\ v.fields = w.fields /\ v.scheduled = w.scheduled
      /\ v.last_attacker = Put(w.last_attacker, victim, a) /\ v.entities = bodies
  BY <1>1, Unmoved DEF Tables, ById
<1> QED BY <1>2, <1>3, <1>4, Steady DEF World, Typed
\* A new body of each kind, with its row.
LEMMA SummonOK ==
  ASSUME NEW w, World(w), NEW team \in Sides, NEW health \in Int, NEW expire,
         NEW v, v = SpawnSummon(w, team, health, expire)
  PROVE  World(v) /\ Same(w, v) /\ v.last_attacker = w.last_attacker
<1> DEFINE e == Entity("player", None, team, health)
<1>1. /\ DOMAIN v = Tables /\ v.next = w.next + 1 /\ v.entities = Put(w.entities, w.next, e)
      /\ v.inventory = w.inventory
      /\ v.loot = w.loot /\ v.respawn_at = w.respawn_at /\ v.statuses = w.statuses
      /\ v.shields = w.shields /\ v.projectiles = w.projectiles
      /\ v.mobs = Put(w.mobs, w.next, expire)
      /\ v.fields = w.fields /\ v.scheduled = w.scheduled
      /\ v.last_attacker = w.last_attacker
  BY Unmoved DEF SpawnSummon, AddBody, Tables, ById
<1>2. e \in Ent /\ e.kind = "player" /\ e.owner = None
  BY DEF Entity, Ent
<1> HIDE DEF e
<1>3. /\ Sized(v) /\ w.next \notin DOMAIN w.entities /\ v.entities[w.next] = e
      /\ \A i \in DOMAIN w.entities : i \in DOMAIN v.entities /\ v.entities[i] = w.entities[i]
      /\ \A i \in DOMAIN v.entities : v.entities[i] \in Ent
      /\ \A kind : Named(v, kind) =
           Named(w, kind) \cup (IF e.kind = kind THEN {w.next} ELSE {})
  BY <1>1, <1>2, Unmoved, Grown DEF World
<1>4. Typed(v)
  BY <1>1, <1>3 DEF World, Typed
<1>5. /\ Named(v, "pickup") = Named(w, "pickup")
      /\ Named(v, "projectile") = Named(w, "projectile")
      /\ Named(v, "player") = Named(w, "player") \cup {w.next}
  BY <1>2, <1>3, ZenonT(60)
<1>6. /\ DOMAIN w.inventory \subseteq DOMAIN w.entities /\ DOMAIN w.mobs \subseteq DOMAIN w.entities
      /\ DOMAIN v.mobs = DOMAIN w.mobs \cup {w.next}
  BY <1>1 DEF World, Matched, Named, Put
<1>7. Matched(v)
  BY <1>1, <1>3, <1>5, <1>6 DEF World, Matched
<1>8. Played(v)
  BY <1>1, <1>2, <1>3, <1>6 DEF World, Played
<1>9. Same(w, v)
  BY <1>1, <1>3 DEF Same, Alike
<1> QED BY <1>1, <1>3, <1>4, <1>7, <1>8, <1>9 DEF World

LEMMA ProjectileOK ==
  ASSUME NEW w, World(w), NEW ctx \in Context, NEW op, op.then \in Op, op.lifetime \in Nat,
         NEW v, v = SpawnProjectile(w, ctx, op)
  PROVE  World(v) /\ Same(w, v) /\ v.last_attacker = w.last_attacker
<1> DEFINE e == Entity("projectile", None, ctx.team, 1)
           shot == [ctx |-> ctx, op |-> op.then, expire |-> ctx.tick + op.lifetime]
<1>1. /\ DOMAIN v = Tables /\ v.next = w.next + 1 /\ v.entities = Put(w.entities, w.next, e)
      /\ v.inventory = w.inventory
      /\ v.loot = w.loot /\ v.respawn_at = w.respawn_at /\ v.statuses = w.statuses
      /\ v.shields = w.shields /\ v.mobs = w.mobs
      /\ v.projectiles = Put(w.projectiles, w.next, shot)
      /\ v.fields = w.fields /\ v.scheduled = w.scheduled
      /\ v.last_attacker = w.last_attacker
  BY Unmoved DEF SpawnProjectile, AddBody, Tables, ById
<1>2. /\ e \in Ent /\ e.kind = "projectile" /\ shot \in Shots
  <2>1. ctx.team \in Sides /\ ctx.tick \in Nat
    BY DEF Context
  <2>2. e \in Ent /\ e.kind = "projectile"
    BY <2>1 DEF Entity, Ent
  <2> QED BY <2>1, <2>2 DEF Shots
<1> HIDE DEF e, shot
<1>3. /\ Sized(v) /\ w.next \notin DOMAIN w.entities /\ v.entities[w.next] = e
      /\ \A i \in DOMAIN w.entities : i \in DOMAIN v.entities /\ v.entities[i] = w.entities[i]
      /\ \A i \in DOMAIN v.entities : v.entities[i] \in Ent
      /\ \A kind : Named(v, kind) =
           Named(w, kind) \cup (IF e.kind = kind THEN {w.next} ELSE {})
  BY <1>1, <1>2, Unmoved, Grown DEF World
<1>4. /\ DOMAIN v.projectiles = DOMAIN w.projectiles \cup {w.next}
      /\ \A p \in DOMAIN v.projectiles : v.projectiles[p] \in Shots
  <2>1. \A p \in DOMAIN w.projectiles : w.projectiles[p] \in Shots
    BY DEF World, Typed
  <2> QED BY <1>1, <1>2, <2>1 DEF Put
<1>5. Typed(v)
  BY <1>1, <1>3, <1>4 DEF World, Typed
<1>6. /\ Named(v, "pickup") = Named(w, "pickup") /\ Named(v, "player") = Named(w, "player")
      /\ Named(v, "projectile") = Named(w, "projectile") \cup {w.next}
  BY <1>2, <1>3, ZenonT(60)
<1>7. DOMAIN w.inventory \subseteq DOMAIN w.entities /\ DOMAIN w.mobs \subseteq DOMAIN w.entities
  BY DEF World, Matched, Named
<1>8. Matched(v)
  BY <1>1, <1>4, <1>6 DEF World, Matched
<1>9. Played(v) /\ Same(w, v)
  BY <1>1, <1>3, <1>7 DEF World, Played, Same, Alike
<1> QED BY <1>1, <1>3, <1>5, <1>8, <1>9 DEF World
-----------------------------------------------------------------------------
(* Frames. *)

LEMMA Grammar ==
  ASSUME NEW op \in Op
  PROVE  /\ op.op \in {"damage", "heal", "shield", "status", "mark", "summon", "motion",
                       "shape", "field", "projectile", "seq", "chance", "ifmarked",
                       "delay", "repeat"}
         /\ op.op \in {"damage", "heal", "shield"} => op.amount \in Nat
         /\ op.op \in {"shield", "status", "mark", "summon", "field"} => op.duration \in Nat
         /\ op.op \in {"shape", "field", "projectile", "chance", "ifmarked", "delay", "repeat"}
              => op.then \in Op
         /\ op.op = "field" => op.interval \in Nat \ {0}
         /\ op.op = "projectile" => op.lifetime \in Nat
         /\ op.op = "seq" => op.children \in Seq(Op)
         /\ op.op = "ifmarked" => op.otherwise \in Op
         /\ op.op = "delay" => op.ticks \in Nat
         /\ op.op = "repeat" => /\ op.count \in Nat /\ op.step \in Nat
                                /\ op \in [op : {"repeat"}, count : Nat, step : Nat, then : Op]
<1>1. op \in Node(Op)
  BY Graphs
<1> QED BY <1>1 DEF Node

\* What a frame evaluates is a node unless its name says otherwise.
LEMMA Evaluated ==
  ASSUME NEW carriers, NEW h \in Frames(carriers)
  PROVE  /\ h \in FrameSet /\ h.ctx \in Context /\ h.target \in Aims /\ h.depth \in Nat
         /\ h.proc \in BOOLEAN /\ h.ctx.caster \in Nat /\ h.ctx.team \in Sides /\ h.ctx.tick \in Nat
         /\ h.op.op \notin {"damage", "rest", "event", "cast", "use"} => h.op \in Op
         /\ h.op.op = "damage" => h.op.amount \in Nat
         /\ h.op.op = "rest" => h.op \in Rests
         /\ h.op.op = "cast" => h.op.ability \in DOMAIN Book
         /\ h.op.op \in {"event", "cast", "use"} => h.depth = 0
         /\ h.op.op = "use" => h.ctx.caster \in carriers
<1>1. /\ h \in FrameSet /\ h.ctx \in Context /\ h.target \in Aims /\ h.depth \in Nat
      /\ h.proc \in BOOLEAN /\ h.op \in Op \cup Blows \cup Rests \cup Starts
  BY DEF Frames, FrameSet
<1>2. h.ctx.caster \in Nat /\ h.ctx.team \in Sides /\ h.ctx.tick \in Nat
  BY <1>1 DEF Context
<1>3. /\ h.op.op \in {"event", "cast", "use"} => h.depth = 0
      /\ h.op.op = "use" => h.ctx.caster \in carriers
  BY DEF Frames
<1>4. CASE h.op \in Op
  BY <1>1, <1>2, <1>3, <1>4, Grammar
<1>5. CASE h.op \in Blows
  BY <1>1, <1>2, <1>3, <1>5 DEF Blows
<1>6. CASE h.op \in Rests
  BY <1>1, <1>2, <1>3, <1>6 DEF Rests
<1>7. CASE h.op \in Starts
  BY <1>1, <1>2, <1>3, <1>7 DEF Starts, Casts
<1> QED BY <1>1, <1>4, <1>5, <1>6, <1>7

LEMMA ContextOK ==
  ASSUME World(t), tick \in Nat, NEW i \in Nat
  PROVE  Ctx(i) \in Context /\ Ctx(i).caster = i
<1>1. i \in DOMAIN t.entities => t.entities[i].team \in Sides
  BY Unmoved DEF Ent
<1>2. None \in Sides
  BY DEF Sides
<1> QED BY <1>1, <1>2 DEF Ctx, Context

LEMMA FrameOK ==
  ASSUME NEW ctx \in Context, NEW op \in Op \cup Blows, NEW target \in Aims, NEW carriers
  PROVE  Frame(ctx, op, target) \in Frames(carriers)
<1>1. Frame(ctx, op, target) \in FrameSet /\ Frame(ctx, op, target).op = op
  BY DEF Frame, FrameSet
<1>2. op.op \notin {"event", "cast", "use"}
  <2>1. CASE op \in Op
    BY <2>1, Grammar
  <2>2. CASE op \in Blows
    BY <2>2 DEF Blows
  <2> QED BY <2>1, <2>2
<1> QED BY <1>1, <1>2 DEF Frames

LEMMA ChildOK ==
  ASSUME NEW carriers, NEW h \in Frames(carriers), NEW op \in Op, NEW target \in Aims
  PROVE  Child(h, op, target) \in Frames(carriers)
<1>1. h \in FrameSet
  BY DEF Frames
<1>2. Child(h, op, target) \in FrameSet /\ Child(h, op, target).op = op
  <2>1. h.ctx \in Context /\ h.depth + 1 \in Nat /\ h.proc \in BOOLEAN
    BY Evaluated
  <2> QED BY <2>1 DEF Child, FrameSet
<1>3. op.op \notin {"event", "cast", "use"}
  BY Grammar
<1> QED BY <1>2, <1>3 DEF Frames

LEMMA Listing ==
  ASSUME NEW S, IsFiniteSet(S), NEW k \in 1..Cardinality(S)
  PROVE  SetToSeq(S)[k] \in S
<1>1. PICK n \in Nat : ExistsBijection(1..n, S)
  BY FS_NatBijection
<1>2. Cardinality(S) = n
  BY <1>1, FS_CountingElements
<1>3. PICK f \in Bijection(1..n, S) : TRUE
  BY <1>1 DEF ExistsBijection
<1>4. f \in [1..Cardinality(S) -> S] /\ IsInjective(f)
  BY <1>2, <1>3 DEF Bijection, Injection, Surjection, IsInjective
<1>5. SetToSeq(S) \in [1..Cardinality(S) -> S]
  BY <1>4, Zenon DEF SetToSeq
<1> QED BY <1>5
\* The gear that answers is finite, and its wearer is in the world.
LEMMA TriggersOK ==
  ASSUME World(t), NEW wearer, NEW event, NEW fired, fired \subseteq Triggers(wearer, event)
  PROVE  /\ IsFiniteSet(fired) /\ \A g \in fired : g.effect \in Op
         /\ fired # {} => wearer \in Nat
<1>1. CASE wearer \in DOMAIN t.inventory /\ wearer \in DOMAIN t.entities
  <2> DEFINE o == t.entities[wearer].owner
  <2>1. o \in Owner /\ wearer \in Nat
    BY <1>1 DEF World, Played, Sized
  <2>2. Triggers(wearer, event) \subseteq Gear[o]
    BY <1>1 DEF Triggers
  <2> HIDE DEF o
  <2>3. IsFiniteSet(Gear[o]) /\ \A g \in Gear[o] : g.effect \in Op
    BY <2>1, Graphs
  <2>4. IsFiniteSet(fired)
    BY <2>2, <2>3, FS_Subset
  <2> QED BY <2>1, <2>2, <2>3, <2>4
<1>2. CASE ~ (wearer \in DOMAIN t.inventory /\ wearer \in DOMAIN t.entities)
  <2>1. fired = {}
    BY <1>2 DEF Triggers
  <2> QED BY <2>1, FS_EmptySet
<1> QED BY <1>1, <1>2

LEMMA ProcsOK ==
  ASSUME World(t), tick \in Nat, NEW wearer, NEW event, NEW other \in Aims, NEW carriers,
         NEW fired, fired \subseteq Triggers(wearer, event)
  PROVE  ProcFrames(wearer, other, fired) \in Seq(Frames(carriers))
<1> DEFINE n == Cardinality(fired)
           frame(k) == [Frame(Ctx(wearer), SetToSeq(fired)[k].effect,
                              IF SetToSeq(fired)[k].on = "other" /\ other # None
                              THEN other ELSE wearer) EXCEPT !.proc = TRUE]
<1>1. IsFiniteSet(fired) /\ n \in Nat
  BY TriggersOK, FS_CardinalityType
<1>2. ASSUME NEW k \in 1..n
      PROVE  frame(k) \in Frames(carriers)
  <2>1. SetToSeq(fired)[k] \in fired
    BY <1>1, Listing
  <2> DEFINE g == SetToSeq(fired)[k]
             aim == IF g.on = "other" /\ other # None THEN other ELSE wearer
             f == Frame(Ctx(wearer), g.effect, aim)
  <2>2. wearer \in Nat /\ g.effect \in Op
    BY <2>1, TriggersOK
  <2>3. Ctx(wearer) \in Context /\ aim \in Aims
    BY <2>2, ContextOK DEF Aims
  <2> HIDE DEF aim, g
  <2>4. /\ f \in Frames(carriers)
        /\ f = [ctx |-> Ctx(wearer), op |-> g.effect, target |-> aim, depth |-> 0, proc |-> FALSE]
    BY <2>2, <2>3, FrameOK DEF Frame
  <2>5. f \in FrameSet /\ f.op = g.effect
    BY <2>4 DEF Frames
  <2> HIDE DEF f
  <2>6. [f EXCEPT !.proc = TRUE] \in FrameSet /\ [f EXCEPT !.proc = TRUE].op = g.effect
    BY <2>5 DEF FrameSet
  <2>7. g.effect.op \notin {"event", "cast", "use"}
    BY <2>2, Grammar
  <2>8. [f EXCEPT !.proc = TRUE] \in Frames(carriers)
    BY <2>6, <2>7 DEF Frames
  <2> QED BY <2>8 DEF f, g, aim
<1>3. ProcFrames(wearer, other, fired) = [k \in 1..n |-> frame(k)]
  BY DEF ProcFrames
<1> HIDE DEF frame, n
<1> QED BY <1>1, <1>2, <1>3, IsASeq

LEMMA GatheredOK ==
  ASSUME World(t), NEW faction, NEW ctx, NEW hits \in Gathered(faction, ctx)
  PROVE  hits \in Seq(Living) /\ hits \in Seq(Nat)
<1>1. PICK S \in SUBSET Living : hits \in SetToSeqs(S)
  BY DEF Gathered
<1>2. IsFiniteSet(S) /\ S \subseteq Nat
  <2>1. Living \subseteq 1..(t.next - 1) /\ t.next - 1 \in Int
    BY DEF World, Sized, Living, Bodies
  <2>2. IsFiniteSet(1..(t.next - 1))
    BY <2>1, FS_Interval
  <2>3. IsFiniteSet(S)
    BY <2>1, <2>2, FS_Subset
  <2> QED BY <2>1, <2>3
<1>3. Cardinality(S) \in Nat
  BY <1>2, FS_CardinalityType
<1>4. hits \in [1..Cardinality(S) -> S]
  BY <1>1 DEF SetToSeqs
<1>5. hits \in Seq(S)
  BY <1>3, <1>4
<1> QED BY <1>1, <1>2, <1>5, SeqMonotonic

LEMMA Popped ==
  ASSUME NEW carriers, stack \in Seq(Frames(carriers)), stack # <<>>
  PROVE  Top \in Frames(carriers) /\ Tail(stack) \in Seq(Frames(carriers))
  BY HeadTailProperties DEF Top

\* The op at the top is charged, within the budget.
LEMMA Charged ==
  ASSUME NEW carriers, stack \in Seq(Frames(carriers)), stack # <<>>, ops \in 0..MaxOps,
         NEW frames \in Seq(Frames(carriers)), Top.depth = 0 \/ ~Over, Replace(frames)
  PROVE  stack' \in Seq(Frames(carriers)) /\ ops' \in 0..MaxOps
<1>1. Top.depth \in Nat /\ Tail(stack) \in Seq(Frames(carriers))
  BY Popped, Evaluated
<1>2. frames \o Tail(stack) \in Seq(Frames(carriers))
  BY <1>1, ConcatProperties
<1>3. Top.depth # 0 => ops > 0
  BY <1>1 DEF Over
<1>4. (IF Top.depth = 0 THEN MaxOps ELSE ops) - 1 \in 0..MaxOps
  BY <1>3, Bounds
<1> QED BY <1>2, <1>4, Bounds DEF Replace

LEMMA Uncharged ==
  ASSUME NEW carriers, stack \in Seq(Frames(carriers)), stack # <<>>, ops \in 0..MaxOps, Pop
  PROVE  stack' \in Seq(Frames(carriers)) /\ ops' \in 0..MaxOps
  BY Popped, Bounds DEF Pop
-----------------------------------------------------------------------------
(* An op is a step that leaves the bodies who they are. *)

\* What a step may not do: revive, and, for most, move an item.
Unrevived ==
  \A i \in DOMAIN t.entities \cap DOMAIN t'.entities :
    t.entities[i].health <= 0 /\ t'.entities[i].health > 0
      => pass = "loot" /\ i \in DOMAIN t.respawn_at /\ tick >= t.respawn_at[i]
Unhandled ==
  /\ t'.inventory = t.inventory /\ t'.loot = t.loot /\ UNCHANGED <<drops, away>>
  /\ log'.used = log.used /\ log'.lost = log.lost /\ log'.joined = log.joined

UsesOne ==
  \E i \in DOMAIN t.inventory : \E k \in 1..Len(t.inventory[i]) :
    /\ t'.inventory = [t.inventory EXCEPT ![i] = RemoveAt(t.inventory[i], k)]
    /\ t'.loot = t.loot /\ UNCHANGED <<drops, away>>
    /\ log'.used = log.used \cup {t.inventory[i][k]}
    /\ log'.lost = log.lost /\ log'.joined = log.joined

\* What the others do with the stacks: a death sheds some of its bag, the piles become
\* loot, a relic has none, what expires had none, and one who picks a piece up has it
\* after its own.
BagsStay ==
  /\ DOMAIN t'.inventory = DOMAIN t.inventory
  /\ \A i \in DOMAIN t.inventory : t'.inventory[i] = t.inventory[i]
LootStays ==
  /\ DOMAIN t'.loot = DOMAIN t.loot
  /\ \A i \in DOMAIN t.loot : t'.loot[i] = t.loot[i]
Unspent == log'.used = log.used /\ log'.lost = log.lost /\ log'.joined = log.joined
Sheds ==
  \E i \in DOMAIN t.inventory :
    /\ t'.inventory = [t.inventory EXCEPT ![i] = Kept(t.inventory[i])]
    /\ drops' = Append(drops, Dropped(t.inventory[i]))
    /\ t'.loot = t.loot /\ away' = away /\ Unspent
Lands ==
  /\ BagsStay /\ drops' = <<>> /\ away' = away /\ Unspent
  /\ DOMAIN t'.loot = DOMAIN t.loot \cup (t.next .. t.next + Len(drops) - 1)
  /\ \A i \in DOMAIN t.loot : i < t.next /\ t'.loot[i] = t.loot[i]
  /\ \A k \in 1..Len(drops) : t'.loot[t.next + k - 1] = drops[k]
Relic ==
  /\ BagsStay /\ UNCHANGED <<drops, away, log>>
  /\ t.next \notin DOMAIN t.loot /\ t'.loot = Put(t.loot, t.next, <<>>)
Clears == BagsStay /\ LootStays /\ UNCHANGED <<drops, away, log>>
Picks ==
  \E i \in DOMAIN t.inventory : \E piece \in DOMAIN t.loot :
    /\ t'.inventory = [t.inventory EXCEPT ![i] = t.inventory[i] \o t.loot[piece]]
    /\ DOMAIN t'.loot = DOMAIN t.loot \ {piece}
    /\ \A j \in DOMAIN t'.loot : t'.loot[j] = t.loot[j]
    /\ UNCHANGED <<drops, away, log>>
\* Between ticks, a bag goes with its player and comes back with it, or does not.
Packs ==
  \E i \in DOMAIN t.inventory : \E o \in Owner \ DOMAIN away :
    /\ DOMAIN t'.inventory = DOMAIN t.inventory \ {i}
    /\ \A j \in DOMAIN t'.inventory : t'.inventory[j] = t.inventory[j]
    /\ DOMAIN away' = DOMAIN away \cup {o} /\ away'[o].inventory = t.inventory[i]
    /\ \A p \in DOMAIN away : away'[p] = away[p]
    /\ LootStays /\ UNCHANGED <<drops, log>>
Returns(o, bag) ==
  /\ t.next \notin DOMAIN t.inventory /\ t'.inventory = Put(t.inventory, t.next, bag)
  /\ t'.loot = t.loot /\ drops' = drops
  /\ DOMAIN away' = DOMAIN away \ {o} /\ \A p \in DOMAIN away' : away'[p] = away[p]
  /\ log'.used = log.used /\ log'.joined = log.joined
Unpacks == \E o \in DOMAIN away : Returns(o, away[o].inventory) /\ log'.lost = log.lost
Abandons ==
  \E o \in DOMAIN away :
    Returns(o, <<>>) /\ log'.lost = log.lost \cup ToSet(away[o].inventory)
Brings(o) ==
  /\ o \notin log.joined
  /\ t.next \notin DOMAIN t.inventory /\ t'.inventory = Put(t.inventory, t.next, Kit[o])
  /\ t'.loot = t.loot /\ UNCHANGED <<drops, away>>
  /\ log'.used = log.used /\ log'.lost = log.lost /\ log'.joined = log.joined \cup {o}
Handling ==
  \/ Unhandled \/ UsesOne \/ Sheds \/ Lands \/ Relic \/ Clears \/ Picks
  \/ Packs \/ Unpacks \/ Abandons
  \/ \E o \in Owner : Brings(o)

LEMMA Unchanging ==
  ASSUME World(t), World(t'), Alike(t, t')
  PROVE  Unrevived
<1> SUFFICES ASSUME NEW i \in DOMAIN t.entities, i \in DOMAIN t'.entities,
                    t.entities[i].health <= 0
             PROVE  ~(t'.entities[i].health > 0)
  BY DEF Unrevived
<1>1. t'.entities[i].health <= 0 /\ t'.entities[i].health \in Int
  BY Unmoved DEF Alike, Ent
<1> QED BY <1>1

LEMMA BodiesKeep ==
  ASSUME IInv, stack # <<>>, World(t'), Alike(t, t'),
         stack' \in Seq(Frames(DOMAIN t.inventory)), ops' \in 0..MaxOps,
         UNCHANGED <<tick, pass, todo, fallen, drops, away>>,
         DOMAIN log' = DOMAIN log, log'.joined = log.joined, log'.slain = log.slain,
         log'.stranded = log.stranded, log.struck \subseteq log'.struck,
         \A v \in DOMAIN t'.last_attacker : <<t'.last_attacker[v], v>> \in log'.struck
  PROVE  IInv' /\ Unrevived
<1>1. DOMAIN t.inventory \subseteq DOMAIN t.entities
  BY DEF IInv, World, Matched, Named
<1>2. Turns'
  <2>1. DOMAIN t'.inventory = DOMAIN t.inventory
    BY DEF Alike
  <2>2. Bodies \subseteq Bodies'
    BY DEF Alike, Bodies
  <2>3. DOMAIN t'.loot = DOMAIN t.loot /\ DOMAIN t.statuses \subseteq DOMAIN t'.statuses
    BY DEF Alike
  <2> QED BY <2>1, <2>2, <2>3 DEF IInv, Turns
<1>3. Abroad'
  BY <1>1 DEF IInv, Abroad, Alike
<1>4. Awaiting'
  BY <1>1 DEF IInv, Awaiting, Alike, Idle
<1>5. Remembered' /\ CreditEarned'
  BY DEF IInv, Remembered, CreditEarned
<1>6. Unrevived
  BY Unchanging DEF IInv
<1> QED BY <1>2, <1>3, <1>4, <1>5, <1>6 DEF IInv

LEMMA OpsKeep ==
  ASSUME IInv, stack # <<>>, World(t'), Same(t, t'),
         stack' \in Seq(Frames(DOMAIN t.inventory)), ops' \in 0..MaxOps,
         UNCHANGED <<tick, pass, todo, fallen, drops, away>>,
         DOMAIN log' = DOMAIN log, log'.joined = log.joined, log'.slain = log.slain,
         log'.stranded = log.stranded, log.struck \subseteq log'.struck,
         log'.used = log.used, log'.lost = log.lost,
         \A v \in DOMAIN t'.last_attacker : <<t'.last_attacker[v], v>> \in log'.struck
  PROVE  IInv' /\ Unrevived /\ Unhandled
<1>1. Alike(t, t')
  BY DEF Same
<1>2. IInv' /\ Unrevived
  BY <1>1, BodiesKeep
<1> QED BY <1>2 DEF Unhandled, Same, Alike

\* The same, of an op that strikes nobody.
LEMMA QuietOp ==
  ASSUME IInv, stack # <<>>, World(t'), Same(t, t'), t'.last_attacker = t.last_attacker,
         stack' \in Seq(Frames(DOMAIN t.inventory)), ops' \in 0..MaxOps,
         UNCHANGED <<tick, pass, todo, fallen, drops, away, log>>
  PROVE  IInv' /\ Unrevived /\ Unhandled
<1>1. \A v \in DOMAIN t'.last_attacker : <<t'.last_attacker[v], v>> \in log'.struck
  BY DEF IInv, Remembered
<1> QED BY <1>1, OpsKeep

\* What the frame at the top is.
LEMMA OpsBegin ==
  ASSUME IInv, stack # <<>>
  PROVE  /\ World(t) /\ Same(t, t) /\ tick \in Nat /\ ops \in 0..MaxOps
         /\ stack \in Seq(Frames(DOMAIN t.inventory))
         /\ Top \in Frames(DOMAIN t.inventory)
         /\ TargetEntity = Top.target /\ Who \in Aims
<1>1. /\ World(t) /\ tick \in 0..MaxTick /\ ops \in 0..MaxOps
      /\ stack \in Seq(Frames(DOMAIN t.inventory))
  BY DEF IInv, Turns
<1>2. tick \in Nat
  BY <1>1, Bounds
<1>3. Top \in Frames(DOMAIN t.inventory)
  BY <1>1, Popped
<1>4. Who \in Aims
  BY <1>3, Evaluated DEF Who, TargetEntity, Aims
<1> QED BY <1>1, <1>2, <1>3, <1>4 DEF Same, Alike, TargetEntity

LEMMA DamageStep ==
  ASSUME IInv, stack # <<>>, Damage
  PROVE  IInv' /\ Unrevived /\ Unhandled
<1> DEFINE a == Top.ctx.caster
           v == TargetEntity
           answers == Hurts(v, Top.op.amount) /\ a # v /\ ~Top.proc
           struck == Struck(t, a, v, Top.op.amount)
<1> USE OpsBegin
<1>1. Top.op.op = "damage" /\ Top.op.amount \in Nat /\ a \in Nat /\ v \in Aims
  BY Evaluated DEF Damage
<1>2. ~Over /\ UNCHANGED <<tick, pass, todo, fallen, drops, away>>
  BY DEF Damage
<1>3. CASE v = None
  <2>1. Replace(<<>>) /\ UNCHANGED <<t, log>>
    BY <1>3 DEF Damage
  <2>2. <<>> \in Seq(Frames(DOMAIN t.inventory))
    OBVIOUS
  <2>3. stack' \in Seq(Frames(DOMAIN t.inventory)) /\ ops' \in 0..MaxOps
    BY <1>2, <2>1, <2>2, Charged
  <2> QED BY <1>2, <2>1, <2>3, QuietOp
<1>4. CASE v # None
  <2>1. /\ t' = IF answers THEN Reflected(struck, a, v) ELSE struck
        /\ log' = [log EXCEPT !.struck = @ \cup {<<a, v>>}]
    BY <1>4 DEF Damage
  <2>2. PICK fired \in SUBSET (IF answers THEN Triggers(v, "struck") ELSE {}) :
          Replace(ProcFrames(v, a, fired))
    BY <1>4 DEF Damage
  <2>3. World(struck) /\ Same(t, struck) /\ struck.last_attacker = Put(t.last_attacker, v, a)
    BY <1>1, StruckOK
  <2> HIDE DEF answers, struck
  <2>4. World(t') /\ Same(struck, t') /\ t'.last_attacker = Put(t.last_attacker, v, a)
    <3>1. CASE answers
      BY <2>1, <2>3, <3>1, ReflectedOK
    <3>2. CASE ~answers
      BY <2>1, <2>3, <3>2 DEF Same, Alike
    <3> QED BY <3>1, <3>2
  <2>5. Same(t, t')
    BY <2>3, <2>4 DEF Same, Alike
  <2>6. fired \subseteq Triggers(v, "struck") /\ a \in Aims
    BY <1>1 DEF Aims
  <2>7. ProcFrames(v, a, fired) \in Seq(Frames(DOMAIN t.inventory))
    BY <2>6, ProcsOK
  <2>8. stack' \in Seq(Frames(DOMAIN t.inventory)) /\ ops' \in 0..MaxOps
    BY <1>2, <2>2, <2>7, Charged
  <2>9. /\ DOMAIN log' = DOMAIN log /\ log'.joined = log.joined /\ log'.slain = log.slain
        /\ log'.stranded = log.stranded /\ log'.struck = log.struck \cup {<<a, v>>}
        /\ log'.used = log.used /\ log'.lost = log.lost
    BY <2>1 DEF IInv, Remembered
  <2>10. \A u \in DOMAIN t'.last_attacker : <<t'.last_attacker[u], u>> \in log'.struck
    BY <2>4, <2>9 DEF IInv, Remembered, Put
  <2> QED BY <1>2, <2>4, <2>5, <2>8, <2>9, <2>10, OpsKeep
<1> QED BY <1>3, <1>4
\* The ops that run others raise no frame that is not one.
LEMMA RunList ==
  ASSUME NEW carriers, NEW h \in Frames(carriers), NEW target \in Aims, NEW list \in Seq(Op)
  PROVE  [k \in DOMAIN list |-> Child(h, list[k], target)] \in Seq(Frames(carriers))
<1> DEFINE frame(k) == Child(h, list[k], target)
<1>1. DOMAIN list = 1..Len(list) /\ Len(list) \in Nat
  OBVIOUS
<1>2. \A k \in 1..Len(list) : frame(k) \in Frames(carriers)
  BY ChildOK
<1> HIDE DEF frame
<1>3. [k \in 1..Len(list) |-> frame(k)] \in Seq(Frames(carriers))
  BY <1>1, <1>2, IsASeq
<1> QED BY <1>1, <1>3 DEF frame

LEMMA TouchStep ==
  ASSUME IInv, stack # <<>>, Touch
  PROVE  IInv' /\ Unrevived /\ Unhandled
<1> DEFINE op == Top.op
<1> USE OpsBegin
<1>1. /\ op \in Op /\ op.op \in {"heal", "shield", "status", "mark", "motion"}
      /\ Top.ctx.tick \in Nat /\ Top.ctx.caster \in Nat
  BY Evaluated DEF Touch
<1>2. /\ ~Over /\ Replace(<<>>) /\ t' = Touched(op, Who)
      /\ UNCHANGED <<tick, pass, todo, fallen, drops, away, log>>
  BY DEF Touch
<1>3. /\ op.op \in {"heal", "shield"} => op.amount \in Nat
      /\ op.op \in {"shield", "status", "mark"} => op.duration \in Nat
  BY <1>1, Grammar
<1> HIDE DEF op
<1>4. World(t') /\ Same(t, t') /\ t'.last_attacker = t.last_attacker
  <2>1. CASE op.op = "heal"
    <3>1. t' = HealEntity(t, Who, op.amount)
      BY <1>2, <2>1 DEF Touched
    <3> QED BY <1>3, <2>1, <3>1, HealOK
  <2>2. CASE op.op = "shield"
    <3>1. t' = AddShield(t, Who, op.amount, Top.ctx.tick + op.duration)
      BY <1>2, <2>2 DEF Touched
    <3> QED BY <1>1, <1>3, <2>2, <3>1, ShieldOK
  <2>3. CASE op.op = "status"
    <3>1. \/ t' = t
          \/ t' = AddStatus(t, Who, op.status, op.duration, Top.ctx.tick, Top.ctx.caster)
      BY <1>2, <2>3 DEF Touched
    <3> QED BY <1>1, <1>3, <2>3, <3>1, StatusOK
  <2>4. CASE op.op = "mark"
    <3>1. t' = [t EXCEPT !.marks = Put(t.marks, Who, Top.ctx.tick + op.duration)]
      BY <1>2, <2>4 DEF Touched
    <3> QED BY <3>1, RowsOK
  <2>5. CASE op.op = "motion"
    BY <1>2, <2>5 DEF Touched
  <2> QED BY <1>1, <2>1, <2>2, <2>3, <2>4, <2>5
<1>5. <<>> \in Seq(Frames(DOMAIN t.inventory))
  OBVIOUS
<1>6. stack' \in Seq(Frames(DOMAIN t.inventory)) /\ ops' \in 0..MaxOps
  BY <1>2, <1>5, Charged
<1> QED BY <1>2, <1>4, <1>6, QuietOp

LEMMA ShapeStep ==
  ASSUME IInv, stack # <<>>, Shape
  PROVE  IInv' /\ Unrevived /\ Unhandled
<1> USE OpsBegin
<1>1. Top.op \in Op /\ Top.op.then \in Op
  BY Evaluated, Grammar DEF Shape
<1>2. PICK hits \in Gathered(Top.op.faction, Top.ctx) :
        Replace([k \in DOMAIN hits |-> Child(Top, Top.op.then, hits[k])])
  BY DEF Shape
<1> DEFINE frame(k) == Child(Top, Top.op.then, hits[k])
<1>3. hits \in Seq(Nat) /\ DOMAIN hits = 1..Len(hits) /\ Len(hits) \in Nat
  BY GatheredOK
<1>4. \A k \in 1..Len(hits) : frame(k) \in Frames(DOMAIN t.inventory)
  BY <1>1, <1>3, ChildOK DEF Aims
<1> HIDE DEF frame
<1>5. [k \in 1..Len(hits) |-> frame(k)] \in Seq(Frames(DOMAIN t.inventory))
  BY <1>3, <1>4, IsASeq
<1>6. [k \in DOMAIN hits |-> Child(Top, Top.op.then, hits[k])] \in Seq(Frames(DOMAIN t.inventory))
  BY <1>3, <1>5 DEF frame
<1>7. ~Over /\ UNCHANGED <<t, tick, pass, todo, fallen, drops, away, log>>
  BY DEF Shape
<1>8. stack' \in Seq(Frames(DOMAIN t.inventory)) /\ ops' \in 0..MaxOps
  BY <1>2, <1>6, <1>7, Charged
<1> QED BY <1>7, <1>8, QuietOp

LEMMA LaunchStep ==
  ASSUME IInv, stack # <<>>, Launch
  PROVE  IInv' /\ Unrevived /\ Unhandled
<1> DEFINE op == Top.op
           ctx == Top.ctx
<1> USE OpsBegin
<1>1. /\ op \in Op /\ op.op \in {"field", "projectile", "summon"}
      /\ ctx \in Context /\ ctx.tick \in Nat /\ ctx.team \in Sides
  BY Evaluated DEF Launch
<1>2. /\ ~Over /\ Replace(<<>>) /\ t' = Launched(op, ctx)
      /\ UNCHANGED <<tick, pass, todo, fallen, drops, away, log>>
  BY DEF Launch
<1>3. /\ op.op \in {"field", "projectile"} => op.then \in Op
      /\ op.op \in {"summon", "field"} => op.duration \in Nat
      /\ op.op = "field" => op.interval \in Nat \ {0}
      /\ op.op = "projectile" => op.lifetime \in Nat
  BY <1>1, Grammar
<1> HIDE DEF op, ctx
<1>4. World(t') /\ Same(t, t') /\ t'.last_attacker = t.last_attacker
  <2>1. CASE op.op = "field"
    <3> DEFINE place == [ctx |-> ctx, op |-> op.then, expire |-> ctx.tick + op.duration,
                         next |-> ctx.tick + op.interval, interval |-> op.interval]
    <3>1. place \in Places
      BY <1>1, <1>3, <2>1 DEF Places
    <3>2. t' = [t EXCEPT !.fields = Append(t.fields, place)]
      BY <1>2, <2>1 DEF Launched
    <3> HIDE DEF place
    <3>3. Append(t.fields, place) \in Seq(Places) /\ t.scheduled \in Seq(Waits)
      BY <3>1 DEF World, Typed
    <3> QED BY <3>2, <3>3, FieldsOK
  <2>2. CASE op.op = "projectile"
    <3>1. t' = SpawnProjectile(t, ctx, op)
      BY <1>2, <2>2 DEF Launched
    <3> QED BY <1>1, <1>3, <2>2, <3>1, ProjectileOK
  <2>3. CASE op.op = "summon"
    <3>1. t' = SpawnSummon(t, ctx.team, MobHealth, ctx.tick + op.duration)
      BY <1>2, <2>3 DEF Launched
    <3>2. MobHealth \in Int
      BY Bounds
    <3> QED BY <1>1, <3>1, <3>2, SummonOK
  <2> QED BY <1>1, <2>1, <2>2, <2>3
<1>5. <<>> \in Seq(Frames(DOMAIN t.inventory))
  OBVIOUS
<1>6. stack' \in Seq(Frames(DOMAIN t.inventory)) /\ ops' \in 0..MaxOps
  BY <1>2, <1>5, Charged
<1> QED BY <1>2, <1>4, <1>6, QuietOp

LEMMA ComposeStep ==
  ASSUME IInv, stack # <<>>, Compose
  PROVE  IInv' /\ Unrevived /\ Unhandled
<1> DEFINE run(list) == [k \in DOMAIN list |-> Child(Top, list[k], Top.target)]
<1> USE OpsBegin
<1>1. /\ Top.op \in Op /\ Top.op.op \in {"seq", "chance", "ifmarked"} /\ Top.target \in Aims
  BY Evaluated DEF Compose
<1>2. /\ Top.op.op = "seq" => Top.op.children \in Seq(Op)
      /\ Top.op.op \in {"chance", "ifmarked"} => Top.op.then \in Op
      /\ Top.op.op = "ifmarked" => Top.op.otherwise \in Op
  BY <1>1, Grammar
<1>3. PICK frames : /\ Replace(frames)
                    /\ frames = <<>> \/ \E list \in Seq(Op) : frames = run(list)
  <2>1. CASE Top.op.op = "seq"
    BY <1>2, <2>1 DEF Compose
  <2>2. CASE Top.op.op = "chance"
    <3>1. <<Top.op.then>> \in Seq(Op)
      BY <1>2, <2>2
    <3>2. Replace(<<>>) \/ Replace(run(<<Top.op.then>>))
      BY <2>2 DEF Compose
    <3> QED BY <3>1, <3>2
  <2>3. CASE Top.op.op = "ifmarked"
    <3>1. <<Top.op.then>> \in Seq(Op) /\ <<Top.op.otherwise>> \in Seq(Op)
      BY <1>2, <2>3
    <3>2. Replace(run(IF Marked(Who) THEN <<Top.op.then>> ELSE <<Top.op.otherwise>>))
      BY <2>3 DEF Compose
    <3> QED BY <3>1, <3>2
  <2> QED BY <1>1, <2>1, <2>2, <2>3
<1>4. frames \in Seq(Frames(DOMAIN t.inventory))
  <2>1. ASSUME NEW list \in Seq(Op)
        PROVE  run(list) \in Seq(Frames(DOMAIN t.inventory))
    BY <1>1, RunList
  <2> HIDE DEF run
  <2>2. <<>> \in Seq(Frames(DOMAIN t.inventory))
    OBVIOUS
  <2> QED BY <1>3, <2>1, <2>2
<1>5. ~Over /\ UNCHANGED <<t, tick, pass, todo, fallen, drops, away, log>>
  BY DEF Compose
<1>6. stack' \in Seq(Frames(DOMAIN t.inventory)) /\ ops' \in 0..MaxOps
  BY <1>3, <1>4, <1>5, Charged
<1> QED BY <1>5, <1>6, QuietOp

LEMMA DelayStep ==
  ASSUME IInv, stack # <<>>, Delay
  PROVE  IInv' /\ Unrevived /\ Unhandled
<1> DEFINE later == Later(Top.ctx, Top.op.then, Top.target, Top.op.ticks)
<1> USE OpsBegin
<1>1. /\ Top.op \in Op /\ Top.op.op = "delay" /\ Top.target \in Aims
      /\ Top.ctx \in Context /\ Top.ctx.tick \in Nat
  BY Evaluated DEF Delay
<1>2. later \in Waits
  BY <1>1, Grammar DEF Later, Waits
<1>3. /\ ~Over /\ Replace(<<>>) /\ t' = [t EXCEPT !.scheduled = Append(t.scheduled, later)]
      /\ UNCHANGED <<tick, pass, todo, fallen, drops, away, log>>
  BY DEF Delay
<1> HIDE DEF later
<1>4. Append(t.scheduled, later) \in Seq(Waits) /\ t.fields \in Seq(Places)
  BY <1>2 DEF World, Typed
<1>5. World(t') /\ Same(t, t') /\ t'.last_attacker = t.last_attacker
  BY <1>3, <1>4, FieldsOK
<1>6. <<>> \in Seq(Frames(DOMAIN t.inventory))
  OBVIOUS
<1>7. stack' \in Seq(Frames(DOMAIN t.inventory)) /\ ops' \in 0..MaxOps
  BY <1>3, <1>6, Charged
<1> QED BY <1>3, <1>5, <1>7, QuietOp

LEMMA RepeatStep ==
  ASSUME IInv, stack # <<>>, Repeat
  PROVE  IInv' /\ Unrevived /\ Unhandled
<1> DEFINE first == Child(Top, Top.op.then, Top.target)
           rest == [Top EXCEPT !.op.op = "rest"]
<1> USE OpsBegin
<1>1. /\ Top.op \in Op /\ Top.op.op = "repeat" /\ Top.target \in Aims
  BY Evaluated DEF Repeat
<1>2. Top.op \in [op : {"repeat"}, count : Nat, step : Nat, then : Op] /\ Top.op.then \in Op
  BY <1>1, Grammar
<1>3. first \in Frames(DOMAIN t.inventory)
  BY <1>1, <1>2, ChildOK
<1>4. rest \in Frames(DOMAIN t.inventory)
  <2> DEFINE h == Top
             op == [h.op EXCEPT !.op = "rest"]
  <2>1. h \in FrameSet /\ h.op \in [op : {"repeat"}, count : Nat, step : Nat, then : Op]
    BY <1>2, Evaluated
  <2> HIDE DEF h
  <2>2. op \in Rests /\ op.op = "rest"
    BY <2>1 DEF Rests
  <2> HIDE DEF op
  <2>3. [h EXCEPT !.op = op] \in FrameSet /\ [h EXCEPT !.op = op].op = op
    BY <2>1, <2>2 DEF FrameSet
  <2>4. [h EXCEPT !.op = op] \in Frames(DOMAIN t.inventory)
    BY <2>2, <2>3 DEF Frames
  <2>5. [h EXCEPT !.op = op] = [h EXCEPT !.op.op = "rest"]
    BY DEF op
  <2> QED BY <2>4, <2>5 DEF h
<1>5. /\ ~Over /\ Replace(<<first, rest>>)
      /\ UNCHANGED <<t, tick, pass, todo, fallen, drops, away, log>>
  BY DEF Repeat
<1> HIDE DEF first, rest
<1>6. <<first, rest>> \in Seq(Frames(DOMAIN t.inventory))
  BY <1>3, <1>4
<1>7. stack' \in Seq(Frames(DOMAIN t.inventory)) /\ ops' \in 0..MaxOps
  BY <1>5, <1>6, Charged
<1> QED BY <1>5, <1>7, QuietOp

LEMMA RestStep ==
  ASSUME IInv, stack # <<>>, RepeatRest
  PROVE  IInv' /\ Unrevived /\ Unhandled
<1> DEFINE n == IF Top.op.count = 0 THEN 0 ELSE Top.op.count - 1
           later(k) == Later(Top.ctx, Top.op.then, Top.target, k * Top.op.step)
           list == [k \in 1..n |-> later(k)]
<1> USE OpsBegin
<1>1. /\ Top.op \in Rests /\ Top.target \in Aims /\ Top.ctx \in Context /\ Top.ctx.tick \in Nat
  BY Evaluated DEF RepeatRest
<1>2. Top.op.count \in Nat /\ Top.op.step \in Nat /\ Top.op.then \in Op
  BY <1>1 DEF Rests
<1>3. n \in Nat /\ 1..(Top.op.count - 1) = 1..n
  BY <1>2
<1>4. list \in Seq(Waits)
  <2>1. ASSUME NEW k \in 1..n
        PROVE  later(k) \in Waits
    <3>1. k * Top.op.step \in Nat
      BY <1>2, <1>3
    <3> DEFINE m == k * Top.op.step
    <3>2. m \in Nat
      BY <3>1
    <3> HIDE DEF m
    <3>3. Later(Top.ctx, Top.op.then, Top.target, m) \in Waits
      BY <1>1, <1>2, <3>2 DEF Later, Waits
    <3> QED BY <3>3 DEF m
  <2> HIDE DEF later, n
  <2> QED BY <1>3, <2>1, IsASeq
<1>5. /\ t' = [t EXCEPT !.scheduled = t.scheduled \o list]
      /\ Pop /\ UNCHANGED <<tick, pass, todo, fallen, drops, away, log>>
  BY <1>3 DEF RepeatRest
<1> HIDE DEF list
<1>6. t.scheduled \o list \in Seq(Waits) /\ t.fields \in Seq(Places)
  BY <1>4, ConcatProperties DEF World, Typed
<1>7. World(t') /\ Same(t, t') /\ t'.last_attacker = t.last_attacker
  BY <1>5, <1>6, FieldsOK
<1>8. stack' \in Seq(Frames(DOMAIN t.inventory)) /\ ops' \in 0..MaxOps
  BY <1>5, Uncharged
<1> QED BY <1>5, <1>7, <1>8, QuietOp

LEMMA OverStep ==
  ASSUME IInv, stack # <<>>, OverBudget
  PROVE  IInv' /\ Unrevived /\ Unhandled
<1> USE OpsBegin
<1>1. Pop /\ UNCHANGED <<t, tick, pass, todo, fallen, drops, away, log>>
  BY DEF OverBudget
<1>2. stack' \in Seq(Frames(DOMAIN t.inventory)) /\ ops' \in 0..MaxOps
  BY <1>1, Uncharged
<1> QED BY <1>1, <1>2, QuietOp

LEMMA RaiseStep ==
  ASSUME IInv, stack # <<>>, Raise
  PROVE  IInv' /\ Unrevived /\ Unhandled
<1> USE OpsBegin
<1>1. Top.depth = 0 /\ Top.target \in Aims
  BY Evaluated DEF Raise
<1>2. PICK fired \in SUBSET Triggers(Top.ctx.caster, "hit") :
        Replace(ProcFrames(Top.ctx.caster, Top.target, fired))
  BY DEF Raise
<1>3. ProcFrames(Top.ctx.caster, Top.target, fired) \in Seq(Frames(DOMAIN t.inventory))
  BY <1>1, ProcsOK
<1>4. stack' \in Seq(Frames(DOMAIN t.inventory)) /\ ops' \in 0..MaxOps
  BY <1>1, <1>2, <1>3, Charged
<1> QED BY <1>4, QuietOp DEF Raise

\* A cast or a potion begins a run with its op tree.
LEMMA FirstFrame ==
  ASSUME World(t), tick \in Nat, NEW i \in Nat, NEW op \in Op, NEW carriers
  PROVE  <<Frame(Ctx(i), op, i)>> \in Seq(Frames(carriers))
<1>1. Frame(Ctx(i), op, i) \in Frames(carriers)
  BY ContextOK, FrameOK DEF Aims
<1> QED BY <1>1

LEMMA CastTryStep ==
  ASSUME IInv, stack # <<>>, TryCast
  PROVE  IInv' /\ Unrevived /\ Unhandled
<1> DEFINE i == Top.ctx.caster
           ability == Top.op.ability
<1> USE OpsBegin
<1>1. /\ Top.depth = 0 /\ i \in Nat /\ ability \in DOMAIN Book
      /\ UNCHANGED <<tick, pass, todo, fallen, drops, away>>
  BY Evaluated DEF TryCast
<1>2. CASE Replace(<<>>) /\ UNCHANGED <<t, log>>
  <2>1. <<>> \in Seq(Frames(DOMAIN t.inventory))
    OBVIOUS
  <2>2. stack' \in Seq(Frames(DOMAIN t.inventory)) /\ ops' \in 0..MaxOps
    BY <1>1, <1>2, <2>1, Charged
  <2> QED BY <1>1, <1>2, <2>2, QuietOp
<1>3. CASE /\ Replace(<<Frame(Ctx(i), Book[ability], i)>>)
           /\ t' = Recovering(i, ability) /\ log' = [log EXCEPT !.cast = tick]
  <2>1. Book[ability] \in Op
    BY <1>1, Graphs
  <2>2. <<Frame(Ctx(i), Book[ability], i)>> \in Seq(Frames(DOMAIN t.inventory))
    BY <1>1, <2>1, FirstFrame
  <2>3. stack' \in Seq(Frames(DOMAIN t.inventory)) /\ ops' \in 0..MaxOps
    BY <1>1, <1>3, <2>2, Charged
  <2>4. t' = [t EXCEPT !.ready =
              Put(t.ready, i, Put(Row(t.ready, i, <<>>), ability, tick + Recovery))]
    BY <1>3 DEF Recovering
  <2>5. World(t') /\ Same(t, t') /\ t'.last_attacker = t.last_attacker
    BY <2>4, RowsOK
  <2>6. /\ DOMAIN log' = DOMAIN log /\ log'.joined = log.joined /\ log'.slain = log.slain
        /\ log'.stranded = log.stranded /\ log'.struck = log.struck
        /\ log'.used = log.used /\ log'.lost = log.lost
    BY <1>3 DEF IInv, Remembered
  <2>7. \A u \in DOMAIN t'.last_attacker : <<t'.last_attacker[u], u>> \in log'.struck
    BY <2>5, <2>6 DEF IInv, Remembered
  <2> QED BY <1>1, <2>3, <2>5, <2>6, <2>7, OpsKeep
<1> QED BY <1>2, <1>3 DEF TryCast
\* A stack of a bag that is used up, and one taken out of it.
LEMMA Removed ==
  ASSUME NEW S, NEW list \in Seq(S), NEW k \in 1..Len(list)
  PROVE  /\ RemoveAt(list, k) \in Seq(S) /\ Len(RemoveAt(list, k)) = Len(list) - 1
         /\ \A j \in 1..(Len(list) - 1) :
              RemoveAt(list, k)[j] = IF j < k THEN list[j] ELSE list[j + 1]
<1> DEFINE a == SubSeq(list, 1, k - 1)
           b == SubSeq(list, k + 1, Len(list))
<1>1. Len(list) \in Nat /\ k \in Nat /\ k <= Len(list) /\ k >= 1
  OBVIOUS
<1>2. a \in Seq(S) /\ Len(a) = k - 1 /\ \A j \in 1..(k - 1) : a[j] = list[j]
  <2>1. \A j \in 1..(k - 1) : list[j] \in S
    BY <1>1
  <2> QED BY <1>1, <2>1, SubSeqProperties
<1>3. b \in Seq(S) /\ Len(b) = Len(list) - k /\ \A j \in 1..(Len(list) - k) : b[j] = list[k + j]
  <2>1. \A j \in (k + 1)..Len(list) : list[j] \in S
    BY <1>1
  <2>2. /\ b \in Seq(S)
        /\ Len(b) = IF k + 1 <= Len(list) THEN Len(list) - (k + 1) + 1 ELSE 0
        /\ \A j \in 1..(Len(list) - (k + 1) + 1) : b[j] = list[(k + 1) + j - 1]
    BY <1>1, <2>1, SubSeqProperties
  <2> HIDE DEF b
  <2> QED BY <1>1, <2>2
<1> HIDE DEF a, b
<1>4. /\ a \o b \in Seq(S) /\ Len(a \o b) = Len(a) + Len(b)
      /\ \A j \in 1..(Len(a) + Len(b)) : (a \o b)[j] = IF j <= Len(a) THEN a[j] ELSE b[j - Len(a)]
  BY <1>2, <1>3, ConcatProperties
<1>5. RemoveAt(list, k) = a \o b
  BY DEF RemoveAt, a, b
<1>6. Len(a \o b) = Len(list) - 1
  BY <1>1, <1>2, <1>3, <1>4
<1>7. \A j \in 1..(Len(list) - 1) : (a \o b)[j] = IF j < k THEN list[j] ELSE list[j + 1]
  <2> TAKE j \in 1..(Len(list) - 1)
  <2>1. (a \o b)[j] = IF j <= k - 1 THEN a[j] ELSE b[j - (k - 1)]
    BY <1>1, <1>2, <1>3, <1>4
  <2>2. CASE j < k
    <3>1. j \in 1..(k - 1)
      BY <1>1, <2>2
    <3> QED BY <1>1, <1>2, <2>1, <2>2, <3>1
  <2>3. CASE ~(j < k)
    <3>1. j - (k - 1) \in 1..(Len(list) - k) /\ k + (j - (k - 1)) = j + 1
      BY <1>1, <2>3
    <3>2. b[j - (k - 1)] = list[j + 1]
      BY <1>3, <3>1
    <3> QED BY <1>1, <2>1, <2>3, <3>2
  <2> QED BY <2>2, <2>3
<1> QED BY <1>4, <1>5, <1>6, <1>7

LEMMA BagOK ==
  ASSUME NEW w, World(w), NEW i \in DOMAIN w.inventory, NEW bag \in Seq(Items),
         NEW v, v = [w EXCEPT !.inventory[i] = bag]
  PROVE  /\ World(v) /\ Alike(w, v) /\ v.last_attacker = w.last_attacker
         /\ DOMAIN v.inventory = DOMAIN w.inventory /\ v.inventory[i] = bag
         /\ \A j \in DOMAIN w.inventory \ {i} : v.inventory[j] = w.inventory[j]
<1>1. /\ DOMAIN v = Tables /\ v.next = w.next /\ v.entities = w.entities
      /\ v.inventory = [w.inventory EXCEPT ![i] = bag]
      /\ v.loot = w.loot /\ v.respawn_at = w.respawn_at /\ v.statuses = w.statuses
      /\ v.shields = w.shields /\ v.projectiles = w.projectiles /\ v.mobs = w.mobs
      /\ v.fields = w.fields /\ v.scheduled = w.scheduled
      /\ v.last_attacker = w.last_attacker
  BY Unmoved DEF Tables, ById
<1>2. /\ DOMAIN v.inventory = DOMAIN w.inventory /\ v.inventory[i] = bag
      /\ \A j \in DOMAIN w.inventory \ {i} : v.inventory[j] = w.inventory[j]
  BY <1>1
<1>3. Sized(v) /\ Matched(v) /\ Played(v)
  BY <1>1, <1>2 DEF World, Sized, Matched, Played, Named
<1>4. Typed(v)
  <2>1. \A j \in DOMAIN v.inventory : v.inventory[j] \in Seq(Items)
    BY <1>2 DEF World, Typed
  <2> QED BY <1>1, <2>1 DEF World, Typed
<1> QED BY <1>1, <1>2, <1>3, <1>4 DEF World, Alike

\* The first potion of a bag is in it.
LEMMA FirstPotion ==
  ASSUME NEW list \in Seq(Items), NEW at, at = {k \in DOMAIN list : list[k] \in Potion}, at # {}
  PROVE  (CHOOSE k \in at : \A j \in at : k <= j) \in at
<1>1. \E k \in at : \A j \in at : k <= j
  <2>1. at \in SUBSET Nat
    OBVIOUS
  <2> QED BY <2>1, Least
<1> QED BY <1>1

LEMMA UseStep ==
  ASSUME IInv, stack # <<>>, UseConsumable
  PROVE  IInv' /\ Unrevived /\ (Unhandled \/ UsesOne)
<1> DEFINE i == Top.ctx.caster
           at == {k \in DOMAIN t.inventory[i] : t.inventory[i][k] \in Potion}
           first == CHOOSE k \in at : \A j \in at : k <= j
<1> USE OpsBegin
<1>1. /\ Top.depth = 0 /\ i \in DOMAIN t.inventory /\ i \in Nat
      /\ UNCHANGED <<tick, pass, todo, fallen, drops, away>>
  BY Evaluated DEF UseConsumable
<1>2. CASE at = {}
  <2>1. <<>> \in Seq(Frames(DOMAIN t.inventory)) /\ Replace(<<>>) /\ UNCHANGED <<t, log>>
    BY <1>2 DEF UseConsumable
  <2>2. stack' \in Seq(Frames(DOMAIN t.inventory)) /\ ops' \in 0..MaxOps
    BY <1>1, <2>1, Charged
  <2> QED BY <1>1, <2>1, <2>2, QuietOp
<1>3. CASE at # {}
  <2> DEFINE bag == RemoveAt(t.inventory[i], first)
  <2>1. /\ t' = [t EXCEPT !.inventory[i] = bag]
        /\ log' = [log EXCEPT !.used = @ \cup {t.inventory[i][first]}, !.cast = tick]
        /\ Replace(<<Frame(Ctx(i), Brew, i)>>)
    BY <1>3 DEF UseConsumable
  <2>2. t.inventory[i] \in Seq(Items) /\ first \in 1..Len(t.inventory[i])
    <3>1. t.inventory[i] \in Seq(Items)
      BY <1>1 DEF World, Typed
    <3>2. first \in at
      BY <1>3, <3>1, FirstPotion
    <3>3. at \subseteq 1..Len(t.inventory[i])
      BY <3>1
    <3> HIDE DEF first, at
    <3> QED BY <3>1, <3>2, <3>3
  <2> HIDE DEF first
  <2>3. bag \in Seq(Items)
    BY <2>2, Removed
  <2> HIDE DEF bag
  <2>4. World(t') /\ Alike(t, t') /\ t'.last_attacker = t.last_attacker
    BY <1>1, <2>1, <2>3, BagOK
  <2>5. <<Frame(Ctx(i), Brew, i)>> \in Seq(Frames(DOMAIN t.inventory))
    BY <1>1, FirstFrame, Graphs
  <2>6. stack' \in Seq(Frames(DOMAIN t.inventory)) /\ ops' \in 0..MaxOps
    BY <1>1, <2>1, <2>5, Charged
  <2>7. /\ DOMAIN log' = DOMAIN log /\ log'.joined = log.joined /\ log'.slain = log.slain
        /\ log'.stranded = log.stranded /\ log'.struck = log.struck
        /\ log'.used = log.used \cup {t.inventory[i][first]} /\ log'.lost = log.lost
    BY <2>1 DEF IInv, Remembered
  <2>8. \A u \in DOMAIN t'.last_attacker : <<t'.last_attacker[u], u>> \in log'.struck
    BY <2>4, <2>7 DEF IInv, Remembered
  <2>9. IInv' /\ Unrevived
    BY <1>1, <2>4, <2>6, <2>7, <2>8, BodiesKeep
  <2>10. t'.inventory = [t.inventory EXCEPT ![i] = bag] /\ t'.loot = t.loot
    BY <2>1, Unmoved DEF Tables, ById
  <2> QED BY <1>1, <2>2, <2>7, <2>9, <2>10 DEF bag, UsesOne
<1> QED BY <1>2, <1>3

LEMMA RunOpStep ==
  ASSUME IInv, RunOp
  PROVE  IInv' /\ Unrevived /\ (Unhandled \/ UsesOne)
<1>1. stack # <<>>
  BY DEF RunOp
<1>2. CASE Damage
  BY <1>1, <1>2, DamageStep
<1>3. CASE Touch
  BY <1>1, <1>3, TouchStep
<1>4. CASE Shape
  BY <1>1, <1>4, ShapeStep
<1>5. CASE Launch
  BY <1>1, <1>5, LaunchStep
<1>6. CASE Compose
  BY <1>1, <1>6, ComposeStep
<1>7. CASE Delay
  BY <1>1, <1>7, DelayStep
<1>8. CASE Repeat
  BY <1>1, <1>8, RepeatStep
<1>9. CASE RepeatRest
  BY <1>1, <1>9, RestStep
<1>10. CASE OverBudget
  BY <1>1, <1>10, OverStep
<1>11. CASE Raise
  BY <1>1, <1>11, RaiseStep
<1>12. CASE TryCast
  BY <1>1, <1>12, CastTryStep
<1>13. CASE UseConsumable
  BY <1>1, <1>13, UseStep
<1> QED BY <1>2, <1>3, <1>4, <1>5, <1>6, <1>7, <1>8, <1>9, <1>10, <1>11, <1>12, <1>13 DEF RunOp
-----------------------------------------------------------------------------
(* The passes of a tick. *)

\* A pass goes on, or gives way to another, and the bodies stay who they are.
LEMMA PassKeep ==
  ASSUME IInv, pass # "idle", World(t'), Alike(t, t'), t'.inventory = t.inventory,
         t'.last_attacker = t.last_attacker,
         stack' \in Seq(Frames(DOMAIN t.inventory)),
         UNCHANGED <<tick, ops, fallen, drops, away, log>>,
         pass' \in Passes \ {"idle"},
         pass' # "deaths" => fallen = {} /\ drops = <<>>,
         pass' = "deaths" => todo' \cup fallen \subseteq Bodies,
         pass' = "loot" => todo' \subseteq DOMAIN t.loot,
         pass' = "cast" => todo' \subseteq DOMAIN t.inventory,
         pass' = "statuses" => todo' \subseteq DOMAIN t.statuses \cap Bodies
  PROVE  IInv' /\ Unrevived /\ (Unhandled \/ UsesOne)
<1>1. DOMAIN t.inventory \subseteq DOMAIN t.entities
  BY DEF IInv, World, Matched, Named
<1>2. Turns'
  <2>1. Bodies \subseteq Bodies'
    BY DEF Alike, Bodies
  <2>2. /\ DOMAIN t'.loot = DOMAIN t.loot /\ DOMAIN t.statuses \subseteq DOMAIN t'.statuses
        /\ DOMAIN t'.inventory = DOMAIN t.inventory
    BY DEF Alike
  <2> QED BY <2>1, <2>2 DEF IInv, Turns
<1>3. Abroad'
  BY <1>1 DEF IInv, Abroad, Alike
<1>4. Awaiting'
  BY <1>1 DEF IInv, Awaiting, Alike, Idle
<1>5. Remembered' /\ CreditEarned'
  BY DEF IInv, Remembered, CreditEarned
<1>6. Unrevived /\ Unhandled
  BY Unchanging DEF IInv, Alike, Unhandled
<1> QED BY <1>2, <1>3, <1>4, <1>5, <1>6 DEF IInv

\* A pass that leaves the tables alone.
LEMMA PassOnly ==
  ASSUME IInv, pass # "idle", stack' \in Seq(Frames(DOMAIN t.inventory)),
         UNCHANGED <<t, tick, ops, fallen, drops, away, log>>,
         pass' \in Passes \ {"idle"},
         pass' # "deaths" => fallen = {} /\ drops = <<>>,
         pass' = "deaths" => todo' \cup fallen \subseteq Bodies,
         pass' = "loot" => todo' \subseteq DOMAIN t.loot,
         pass' = "cast" => todo' \subseteq DOMAIN t.inventory,
         pass' = "statuses" => todo' \subseteq DOMAIN t.statuses \cap Bodies
  PROVE  IInv' /\ Unrevived /\ (Unhandled \/ UsesOne)
<1>1. World(t') /\ Alike(t, t') /\ t'.inventory = t.inventory /\ t'.last_attacker = t.last_attacker
  BY DEF IInv, Alike
<1> QED BY <1>1, PassKeep

LEMMA DivOK ==
  ASSUME NEW a \in Nat, NEW b \in Nat \ {0}
  PROVE  a \div b \in Nat
  OBVIOUS

LEMMA PassBegin ==
  ASSUME IInv
  PROVE  /\ World(t) /\ tick \in Nat /\ Bodies \subseteq Nat /\ Living \subseteq Bodies
         /\ stack \in Seq(Frames(DOMAIN t.inventory))
         /\ pass # "deaths" => fallen = {} /\ drops = <<>>
         /\ DOMAIN t.inventory \subseteq Bodies /\ DOMAIN t.mobs \subseteq Bodies
         /\ Bodies = DOMAIN t.inventory \cup DOMAIN t.mobs
<1>1. World(t) /\ tick \in Nat /\ stack \in Seq(Frames(DOMAIN t.inventory))
  BY Bounds DEF IInv, Turns
<1>2. Bodies = DOMAIN t.inventory \cup DOMAIN t.mobs
  BY <1>1 DEF World, Matched, Named, Bodies
<1>3. Bodies \subseteq Nat /\ Living \subseteq Bodies
  BY <1>1 DEF World, Sized, Bodies, Living
<1>4. pass # "deaths" => fallen = {} /\ drops = <<>>
  BY DEF IInv, Turns
<1> QED BY <1>1, <1>2, <1>3, <1>4

LEMMA BurnOK ==
  ASSUME tick \in Nat, NEW inst \in Inst
  PROVE  Periods(inst) \in Nat /\ Burnt(inst) \in Inst
<1> DEFINE n == Periods(inst)
<1>1. n \in Nat
  <2>1. inst.next \in Int
    BY DEF Inst
  <2>2. tick >= inst.next => (tick - inst.next) \div BurnTicks \in Nat
    BY <2>1, Bounds, DivOK
  <2> QED BY <2>2 DEF Periods
<1> HIDE DEF n
<1>2. n * BurnTicks \in Nat
  BY <1>1, Bounds
<1> DEFINE m == n * BurnTicks
<1> HIDE DEF m
<1>3. [inst EXCEPT !.next = @ + m] \in Inst
  BY <1>2 DEF Inst, m
<1> QED BY <1>1, <1>3 DEF Burnt, n, m

LEMMA StatusRowOK ==
  ASSUME NEW w, World(w), NEW i \in DOMAIN w.statuses,
         NEW row, \A s \in DOMAIN row : row[s] \in Inst,
         NEW v, v = [w EXCEPT !.statuses[i] = row]
  PROVE  /\ World(v) /\ Alike(w, v) /\ v.inventory = w.inventory
         /\ v.last_attacker = w.last_attacker
<1>1. /\ DOMAIN v = Tables /\ v.next = w.next /\ v.entities = w.entities
      /\ v.inventory = w.inventory /\ v.statuses = [w.statuses EXCEPT ![i] = row]
      /\ v.loot = w.loot /\ v.respawn_at = w.respawn_at
      /\ v.shields = w.shields /\ v.projectiles = w.projectiles /\ v.mobs = w.mobs
      /\ v.fields = w.fields /\ v.scheduled = w.scheduled
      /\ v.last_attacker = w.last_attacker
  BY Unmoved DEF Tables, ById
<1>2. /\ DOMAIN v.statuses = DOMAIN w.statuses
      /\ \A j \in DOMAIN v.statuses : \A s \in DOMAIN v.statuses[j] : v.statuses[j][s] \in Inst
  <2>1. \A j \in DOMAIN w.statuses : v.statuses[j] = IF j = i THEN row ELSE w.statuses[j]
    BY <1>1
  <2> QED BY <1>1, <2>1 DEF World, Typed
<1>3. \A j \in DOMAIN w.entities : Follows(w.entities[j], v.entities[j])
  BY <1>1, Unmoved
<1>4. v.fields \in Seq(Places) /\ v.scheduled \in Seq(Waits)
  BY <1>1 DEF World, Typed
<1>5. \A j \in DOMAIN v.shields : v.shields[j] \in Cover
  BY <1>1 DEF World, Typed
<1>6. World(v) /\ Same(w, v)
  BY <1>1, <1>2, <1>3, <1>4, <1>5, Steady
<1> QED BY <1>1, <1>6 DEF Same

LEMMA StatusesStep ==
  ASSUME IInv, NEW i \in todo, TickStatuses(i)
  PROVE  IInv' /\ Unrevived /\ (Unhandled \/ UsesOne)
<1> DEFINE list == t.statuses[i]
           kept == {s \in DOMAIN list : tick < list[s].expire}
           burns == kept \cap {"burn"}
           row == [s \in kept |-> IF s \in burns THEN Burnt(list[s]) ELSE list[s]]
           blow == [op |-> "damage", amount |-> Periods(list["burn"])]
<1> USE PassBegin
<1>1. i \in DOMAIN t.statuses
  BY DEF TickStatuses, IInv, Turns
<1>2. \A s \in DOMAIN list : list[s] \in Inst
  BY <1>1 DEF World, Typed
<1>3. \A s \in DOMAIN row : row[s] \in Inst
  BY <1>2, BurnOK
<1>4. /\ t' = [t EXCEPT !.statuses[i] = row] /\ pass = "statuses" /\ todo' = todo \ {i}
      /\ stack' = IF burns # {} /\ Periods(list["burn"]) > 0
                  THEN <<Frame(Ctx(list["burn"].source), blow, i)>> ELSE <<>>
      /\ UNCHANGED <<tick, pass, ops, fallen, drops, away, log>>
  BY DEF TickStatuses
<1>5. burns # {} => list["burn"] \in Inst
  BY <1>2
<1> HIDE DEF row, burns, kept, list
<1>6. stack' \in Seq(Frames(DOMAIN t.inventory))
  <2> DEFINE inst == list["burn"]
             first == Frame(Ctx(inst.source), blow, i)
  <2>1. <<>> \in Seq(Frames(DOMAIN t.inventory))
    OBVIOUS
  <2>2. ASSUME burns # {}
        PROVE  <<first>> \in Seq(Frames(DOMAIN t.inventory))
    <3>1. inst.source \in Nat /\ Periods(inst) \in Nat
      BY <1>5, <2>2, BurnOK DEF Inst
    <3>2. Ctx(inst.source) \in Context /\ blow \in Op \cup Blows
      BY <3>1, ContextOK DEF Blows
    <3>3. i \in Aims
      BY <1>4 DEF IInv, Turns, Aims
    <3> HIDE DEF blow
    <3>4. first \in Frames(DOMAIN t.inventory)
      BY <3>2, <3>3, FrameOK
    <3> QED BY <3>4
  <2> HIDE DEF first
  <2>3. stack' \in {<<first>>, <<>>} /\ (stack' = <<first>> => burns # {} \/ <<first>> = <<>>)
    BY <1>4 DEF first
  <2> QED BY <2>1, <2>2, <2>3
<1>7. todo' \subseteq DOMAIN t.statuses \cap Bodies
  BY <1>4 DEF IInv, Turns
<1>8. World(t') /\ Alike(t, t') /\ t'.inventory = t.inventory /\ t'.last_attacker = t.last_attacker
  <2>1. t' = [t EXCEPT !.statuses[i] = row]
    BY <1>4
  <2> QED BY <1>1, <1>3, <2>1, StatusRowOK, SMTT(60)
<1>9. pass' \in Passes \ {"idle"} /\ pass # "idle" /\ pass' = "statuses"
  BY <1>4 DEF Passes
<1>10. fallen = {} /\ drops = <<>>
  BY <1>4 DEF IInv, Turns
<1>11. stack' \in Seq(Frames(DOMAIN t.inventory)) /\ UNCHANGED <<tick, ops, fallen, drops, away, log>>
  BY <1>4, <1>6
<1> QED BY <1>7, <1>8, <1>9, <1>10, <1>11, PassKeep

LEMMA TickBegins ==
  ASSUME IInv, BeginTick
  PROVE  IInv' /\ Unrevived /\ (Unhandled \/ UsesOne)
<1> USE PassBegin
<1>1. /\ Idle /\ tick < MaxTick /\ tick' = tick + 1 /\ pass' = "statuses"
      /\ todo' = DOMAIN t.statuses \cap Bodies
      /\ UNCHANGED <<t, stack, ops, fallen, drops, away, log>>
  BY DEF BeginTick
<1>2. Turns'
  <2>1. tick' \in 0..MaxTick /\ Bodies' = Bodies
    BY <1>1, Bounds DEF Bodies
  <2> QED BY <1>1, <2>1 DEF IInv, Turns, Idle, Passes
<1>3. Abroad' /\ Remembered' /\ CreditEarned'
  BY <1>1 DEF IInv, Abroad, Remembered, CreditEarned
<1>4. Awaiting'
  <2> SUFFICES ASSUME NEW i \in DOMAIN t.inventory, t.entities[i].dead, i \notin log.stranded
               PROVE  /\ i \in DOMAIN t.respawn_at
                      /\ t.respawn_at[i] \in tick + 1 .. tick + 1 + RespawnTicks
    BY <1>1 DEF Awaiting, Idle
  <2>1. i \in DOMAIN t.respawn_at /\ t.respawn_at[i] \in tick + 1 .. tick + RespawnTicks
    BY <1>1 DEF IInv, Awaiting
  <2> QED BY <2>1, Bounds
<1>5. Unrevived
  <2>1. World(t') /\ Alike(t, t')
    BY <1>1 DEF Alike
  <2> QED BY <2>1, Unchanging
<1>6. Unhandled
  BY <1>1 DEF Unhandled
<1> QED BY <1>1, <1>2, <1>3, <1>4, <1>5, <1>6 DEF IInv

\* Those passes that begin, or go on, with nothing but whom they have to visit.
LEMMA PassesBegin ==
  ASSUME IInv, BeginProcs \/ BeginMovement \/ BeginCast \/ BeginDeaths \/ BeginLoot
               \/ \E i \in todo : Spare(i)
  PROVE  IInv' /\ Unrevived /\ (Unhandled \/ UsesOne)
<1> USE PassBegin
<1>1. CASE BeginProcs
  BY <1>1, PassOnly DEF BeginProcs, Ended, Passes
<1>2. CASE BeginMovement
  BY <1>2, PassOnly DEF BeginMovement, Free, Passes
<1>3. CASE BeginCast
  <2>1. {i \in Bodies : IsRealPlayer(i)} \subseteq DOMAIN t.inventory
    BY DEF IsRealPlayer
  <2> QED BY <1>3, <2>1, PassOnly DEF BeginCast, Free, Passes
<1>4. CASE BeginDeaths
  BY <1>4, PassOnly DEF BeginDeaths, Free, Passes
<1>5. CASE BeginLoot
  BY <1>5, PassOnly DEF BeginLoot, Free, Passes
<1>6. CASE \E i \in todo : Spare(i)
  <2>1. pass = "deaths" => todo \cup fallen \subseteq Bodies
    BY DEF IInv, Turns
  <2> QED BY <1>6, <2>1, PassOnly DEF Spare, Passes
<1> QED BY <1>1, <1>2, <1>3, <1>4, <1>5, <1>6

LEMMA ItemProcsStep ==
  ASSUME IInv, NEW i \in todo, TickItemProcs(i)
  PROVE  IInv' /\ Unrevived /\ (Unhandled \/ UsesOne)
<1> USE PassBegin
<1>1. PICK fired \in SUBSET Triggers(i, "tick") : stack' = ProcFrames(i, None, fired)
  BY DEF TickItemProcs
<1>2. None \in Aims
  BY DEF Aims
<1>3. stack' \in Seq(Frames(DOMAIN t.inventory))
  BY <1>1, <1>2, ProcsOK
<1> QED BY <1>3, PassOnly DEF TickItemProcs, Free, Passes

LEMMA BlowOK ==
  ASSUME World(t), tick \in Nat, NEW i \in Nat, NEW hits \in Seq(Nat), NEW carriers
  PROVE  Blow(i, hits) \in Seq(Frames(carriers))
<1> DEFINE op == [op |-> "damage", amount |-> 1]
           frame(k) == Frame(Ctx(i), op, hits[k])
<1>1. Ctx(i) \in Context /\ op \in Op \cup Blows
  BY ContextOK DEF Blows
<1> HIDE DEF op
<1>2. \A k \in 1..Len(hits) : frame(k) \in Frames(carriers)
  BY <1>1, FrameOK DEF Aims
<1>3. DOMAIN hits = 1..Len(hits) /\ Len(hits) \in Nat
  OBVIOUS
<1>4. Blow(i, hits) = [k \in 1..Len(hits) |-> frame(k)]
  BY <1>3 DEF Blow, op
<1> HIDE DEF frame
<1> QED BY <1>2, <1>3, <1>4, IsASeq

LEMMA MeleeStep ==
  ASSUME IInv, NEW i \in todo, MeleeAttack(i)
  PROVE  IInv' /\ Unrevived /\ (Unhandled \/ UsesOne)
<1> USE PassBegin
<1> DEFINE event(hits) == IF hits = <<>> THEN <<>>
                          ELSE <<Frame(Ctx(i), [op |-> "event"], hits[1])>>
<1>1. PICK hits \in Gathered("enemies", Ctx(i)) : stack' = Blow(i, hits) \o event(hits)
  BY DEF MeleeAttack
<1>2. /\ i \in Nat /\ pass = "movement" /\ pass' = "movement" /\ t' = Recovering(i, "melee")
      /\ UNCHANGED <<tick, ops, fallen, drops, away, log>>
  BY DEF MeleeAttack, Free
<1>3. hits \in Seq(Nat)
  BY GatheredOK
<1>4. event(hits) \in Seq(Frames(DOMAIN t.inventory))
  <2>1. CASE hits = <<>>
    BY <2>1
  <2>2. CASE hits # <<>>
    <3> DEFINE f == Frame(Ctx(i), [op |-> "event"], hits[1])
    <3>1. hits[1] \in Aims /\ Ctx(i) \in Context
      BY <1>2, <1>3, <2>2, ContextOK DEF Aims
    <3>2. [op |-> "event"] \in Starts /\ [op |-> "event"].op = "event"
      BY DEF Starts
    <3>3. f \in FrameSet /\ f.depth = 0 /\ f.op.op = "event"
      BY <3>1, <3>2 DEF Frame, FrameSet
    <3> HIDE DEF f
    <3>4. f \in Frames(DOMAIN t.inventory)
      BY <3>3 DEF Frames
    <3>5. <<f>> \in Seq(Frames(DOMAIN t.inventory))
      BY <3>4
    <3> QED BY <2>2, <3>5 DEF f
  <2> QED BY <2>1, <2>2
<1> HIDE DEF event
<1>5. stack' \in Seq(Frames(DOMAIN t.inventory))
  BY <1>1, <1>2, <1>3, <1>4, BlowOK, ConcatProperties
<1> DEFINE ready == Put(t.ready, i, Put(Row(t.ready, i, <<>>), "melee", tick + Recovery))
<1>6. t' = [t EXCEPT !.ready = ready]
  BY <1>2 DEF Recovering
<1> HIDE DEF ready
<1>7. World(t') /\ Same(t, t') /\ t'.last_attacker = t.last_attacker
  BY <1>6, RowsOK
<1> QED BY <1>2, <1>5, <1>7, PassKeep DEF Same, Passes

LEMMA SlamStep ==
  ASSUME IInv, NEW i \in todo, GroundSlam(i)
  PROVE  IInv' /\ Unrevived /\ (Unhandled \/ UsesOne)
<1> USE PassBegin
<1>1. PICK hits \in Gathered("enemies", Ctx(i)) : stack' = Blow(i, hits)
  BY DEF GroundSlam
<1>2. i \in Nat
  BY DEF GroundSlam
<1>3. hits \in Seq(Nat)
  BY GatheredOK
<1>4. stack' \in Seq(Frames(DOMAIN t.inventory))
  BY <1>1, <1>2, <1>3, BlowOK
<1> QED BY <1>4, PassOnly DEF GroundSlam, Free, Passes

LEMMA CastStepOK ==
  ASSUME IInv, NEW i \in todo, CastStep(i)
  PROVE  IInv' /\ Unrevived /\ (Unhandled \/ UsesOne)
<1> USE PassBegin
<1>1. PICK p \in Presses : stack' = [k \in DOMAIN p |-> Frame(Ctx(i), p[k], i)]
  BY DEF CastStep
<1>2. /\ pass = "cast" /\ pass' = pass /\ todo' = todo \ {i}
      /\ UNCHANGED <<t, tick, ops, fallen, drops, away, log>>
  BY DEF CastStep, Free
<1>3. todo \subseteq DOMAIN t.inventory
  BY <1>2 DEF IInv, Turns
<1>4. i \in DOMAIN t.inventory /\ i \in Nat /\ i \in Aims
  BY <1>3 DEF Aims
<1>5. p \in Seq({c \in Starts : c.op \in {"cast", "use"}})
  <2>1. \A a \in DOMAIN Book : Cast(a) \in {c \in Starts : c.op \in {"cast", "use"}}
    BY DEF Cast, Starts, Casts
  <2>2. [op |-> "use"] \in {c \in Starts : c.op \in {"cast", "use"}}
    BY DEF Starts
  <2> DEFINE S == {c \in Starts : c.op \in {"cast", "use"}}
  <2> HIDE DEF S
  <2>3. Secondary \in DOMAIN Book
    BY Graphs
  <2>4. /\ \A a \in DOMAIN Book : <<Cast(a)>> \in Seq(S) /\ <<Cast(a), Cast(Secondary)>> \in Seq(S)
        /\ <<[op |-> "use"]>> \in Seq(S)
    BY <2>1, <2>2, <2>3 DEF S
  <2> QED BY <1>1, <2>4 DEF Presses, S
<1> DEFINE frame(k) == Frame(Ctx(i), p[k], i)
<1>6. \A k \in 1..Len(p) : frame(k) \in Frames(DOMAIN t.inventory)
  <2> TAKE k \in 1..Len(p)
  <2>1. p[k] \in Starts /\ p[k].op \in {"cast", "use"}
    BY <1>5
  <2>2. Ctx(i) \in Context /\ Ctx(i).caster = i
    BY <1>4, ContextOK
  <2>3. /\ frame(k) \in FrameSet /\ frame(k).depth = 0 /\ frame(k).op = p[k]
        /\ frame(k).ctx.caster = i
    BY <1>4, <2>1, <2>2 DEF Frame, FrameSet
  <2> HIDE DEF frame
  <2> QED BY <1>4, <2>1, <2>3 DEF Frames
<1>7. stack' = [k \in 1..Len(p) |-> frame(k)] /\ Len(p) \in Nat
  BY <1>1, <1>5
<1> HIDE DEF frame
<1>8. stack' \in Seq(Frames(DOMAIN t.inventory))
  BY <1>6, <1>7, IsASeq
<1> QED BY <1>2, <1>3, <1>8, PassOnly DEF Passes

\* The places of a list are counted off from the first.
LEMMA Counting ==
  ASSUME NEW N \in Nat, NEW places \in SUBSET (1..N), NEW k \in 1..Cardinality(places)
  PROVE  Nth(places, k) \in places
<1> DEFINE Upto(S, i) == {j \in S : j <= i}
           Missed(n) == \E S \in SUBSET (1..N) : /\ Cardinality(S) = n
                          /\ \E m \in 1..n : \A i \in S : Cardinality(Upto(S, i)) # m
           Bad == {n \in Nat : Missed(n)}
<1>1. \A S \in SUBSET (1..N) : IsFiniteSet(S) /\ Cardinality(S) \in Nat
  <2>1. IsFiniteSet(1..N)
    BY FS_Interval
  <2> QED BY <2>1, FS_Subset, FS_CardinalityType
<1>2. Bad = {}
  <2> SUFFICES ASSUME Bad # {} PROVE FALSE
    OBVIOUS
  <2>1. PICK n \in Bad : \A j \in Bad : n <= j
    <3>1. Bad \in SUBSET Nat
      OBVIOUS
    <3> HIDE DEF Bad
    <3> QED BY <3>1, Least
  <2>2. PICK S \in SUBSET (1..N) :
          /\ Cardinality(S) = n
          /\ \E m \in 1..n : \A i \in S : Cardinality(Upto(S, i)) # m
    OBVIOUS
  <2>3. PICK m \in 1..n : \A i \in S : Cardinality(Upto(S, i)) # m
    BY <2>2
  <2>4. S # {} /\ IsFiniteSet(S) /\ n \in Nat
    BY <1>1, <2>2, <2>3, FS_EmptySet
  <2>5. PICK top \in S : \A j \in S : j <= top
    <3> DEFINE T == {N - j : j \in S}
    <3>1. T \in SUBSET Nat /\ T # {}
      BY <2>4
    <3>2. PICK d \in T : \A e \in T : d <= e
      <4> HIDE DEF T
      <4> QED BY <3>1, Least
    <3>3. PICK j \in S : d = N - j
      BY <3>2
    <3>4. \A l \in S : l <= j
      <4> TAKE l \in S
      <4>1. N - j <= N - l
        BY <3>2, <3>3
      <4> QED BY <4>1
    <3> QED BY <3>4
  <2>6. Upto(S, top) = S
    BY <2>5
  <2>7. m # n
    BY <2>2, <2>3, <2>5, <2>6
  <2> DEFINE R == S \ {top}
  <2>8. R \in SUBSET (1..N) /\ Cardinality(R) = n - 1
    BY <2>2, <2>4, FS_RemoveElement
  <2>9. n - 1 \notin Bad
    <3> HIDE DEF Bad
    <3>1. ~(n <= n - 1)
      BY <2>4
    <3> QED BY <2>1, <3>1
  <2>10. m \in 1..(n - 1) /\ n - 1 \in Nat
    BY <2>3, <2>4, <2>7
  <2>11. ~ Missed(n - 1)
    BY <2>9, <2>10
  <2>12. PICK i \in R : Cardinality(Upto(R, i)) = m
    BY <2>8, <2>10, <2>11
  <2>13. Upto(R, i) = Upto(S, i)
    BY <2>5, <2>12
  <2> QED BY <2>3, <2>12, <2>13
<1>3. \E i \in places : Cardinality(Upto(places, i)) = k
  <2>1. Cardinality(places) \in Nat /\ ~ Missed(Cardinality(places))
    BY <1>1, <1>2
  <2> QED BY <2>1
<1> QED BY <1>3 DEF Nth

LEMMA ChosenOK ==
  ASSUME NEW S, NEW list \in Seq(S), NEW places \in SUBSET DOMAIN list
  PROVE  Chosen(list, places) \in Seq(S)
<1>1. DOMAIN list = 1..Len(list) /\ Len(list) \in Nat
  OBVIOUS
<1>2. Cardinality(places) \in Nat
  <2>1. IsFiniteSet(1..Len(list))
    BY <1>1, FS_Interval
  <2> QED BY <1>1, <2>1, FS_Subset, FS_CardinalityType
<1> DEFINE item(k) == list[Nth(places, k)]
<1>3. \A k \in 1..Cardinality(places) : item(k) \in S
  <2> TAKE k \in 1..Cardinality(places)
  <2>1. Nth(places, k) \in places
    BY <1>1, Counting
  <2> QED BY <1>1, <2>1
<1>4. Chosen(list, places) = [k \in 1..Cardinality(places) |-> item(k)]
  BY DEF Chosen
<1> HIDE DEF item
<1> QED BY <1>2, <1>3, <1>4, IsASeq

\* Lists one after the other.
LEMMA Flattened ==
  ASSUME NEW S, NEW lists \in Seq(Seq(S))
  PROVE  FlattenSeq(lists) \in Seq(S)
<1> DEFINE Joins(n, f) == f = [i \in 1..n |-> IF i = 1 THEN lists[i] ELSE f[i - 1] \o lists[i]]
           Bad == {n \in Nat : ~ \E f : Joins(n, f)}
           Wrong(n, f) == {i \in 1..n : f[i] \notin Seq(S)}
<1>1. Bad = {}
  <2> SUFFICES ASSUME Bad # {} PROVE FALSE
    OBVIOUS
  <2>1. PICK n \in Bad : \A j \in Bad : n <= j
    <3>1. Bad \in SUBSET Nat
      OBVIOUS
    <3> HIDE DEF Bad
    <3> QED BY <3>1, Least
  <2>2. n \in Nat /\ ~ \E f : Joins(n, f)
    OBVIOUS
  <2>3. n # 0
    <3>1. Joins(0, <<>>)
      OBVIOUS
    <3> QED BY <2>2, <3>1
  <2>4. PICK f : Joins(n - 1, f)
    <3>1. n - 1 \in Nat /\ ~(n <= n - 1)
      BY <2>2, <2>3
    <3>2. n - 1 \notin Bad
      <4> HIDE DEF Bad
      <4> QED BY <2>1, <3>1
    <3> QED BY <3>1, <3>2
  <2> DEFINE g == [i \in 1..n |-> IF i = n THEN IF n = 1 THEN lists[n] ELSE f[n - 1] \o lists[n]
                                  ELSE f[i]]
  <2>5. \A i \in 1..n : g[i] = IF i = 1 THEN lists[i] ELSE g[i - 1] \o lists[i]
    <3> TAKE i \in 1..n
    <3>1. CASE i = n
      BY <2>2, <3>1
    <3>2. CASE i # n
      <4>1. i \in 1..(n - 1) /\ (i # 1 => i - 1 \in 1..(n - 1) /\ i - 1 \in 1..n /\ i - 1 # n)
        BY <2>2, <3>2
      <4>2. f[i] = IF i = 1 THEN lists[i] ELSE f[i - 1] \o lists[i]
        BY <2>4, <4>1
      <4> QED BY <3>2, <4>1, <4>2
    <3> QED BY <3>1, <3>2
  <2>6. DOMAIN g = 1..n /\ g = [i \in 1..n |-> g[i]]
    OBVIOUS
  <2> HIDE DEF g
  <2>7. Joins(n, g)
    BY <2>5, <2>6
  <2> QED BY <2>2, <2>7
<1>2. Len(lists) \in Nat
  OBVIOUS
<1>3. CASE Len(lists) = 0
  BY <1>3 DEF FlattenSeq
<1>4. CASE Len(lists) # 0
  <2> DEFINE n == Len(lists)
             f == CHOOSE g : Joins(n, g)
  <2>1. Joins(n, f)
    <3>1. \E g : Joins(n, g)
      BY <1>1, <1>2
    <3> HIDE DEF Joins
    <3> QED BY <3>1
  <2>2. FlattenSeq(lists) = f[n]
    BY <1>4 DEF FlattenSeq
  <2> HIDE DEF f
  <2>3. Wrong(n, f) = {}
    <3> SUFFICES ASSUME Wrong(n, f) # {} PROVE FALSE
      OBVIOUS
    <3>1. PICK i \in Wrong(n, f) : \A j \in Wrong(n, f) : i <= j
      <4>1. Wrong(n, f) \in SUBSET Nat
        OBVIOUS
      <4> HIDE DEF Wrong
      <4> QED BY <4>1, Least
    <3>2. i \in 1..n /\ f[i] \notin Seq(S) /\ lists[i] \in Seq(S)
      OBVIOUS
    <3>3. f[i] = IF i = 1 THEN lists[i] ELSE f[i - 1] \o lists[i]
      BY <2>1, <3>2
    <3>4. i # 1
      BY <3>2, <3>3
    <3>5. i - 1 \in 1..n /\ ~(i <= i - 1)
      BY <1>2, <3>2, <3>4
    <3>6. f[i - 1] \in Seq(S)
      BY <3>1, <3>5
    <3> QED BY <3>2, <3>3, <3>4, <3>6, ConcatProperties
  <2> QED BY <1>2, <1>4, <2>2, <2>3
<1> QED BY <1>3, <1>4

\* What a pulse or a delayed effect runs.
LEMMA PulsedOK ==
  ASSUME tick \in Nat, NEW f \in Places
  PROVE  Pulses(f) \in Nat /\ Pulsed(f) \in Places
<1>1. f.next \in Int /\ f.interval \in Nat \ {0}
  BY DEF Places
<1>2. Pulses(f) \in Nat
  <2>1. tick >= f.next => (tick - f.next) \div f.interval \in Nat
    BY <1>1, DivOK
  <2> QED BY <2>1 DEF Pulses
<1> DEFINE m == Pulses(f) * f.interval
<1>3. m \in Nat
  <2> DEFINE n == Pulses(f)
  <2> HIDE DEF n
  <2> QED BY <1>1, <1>2 DEF n
<1> HIDE DEF m
<1>4. [f EXCEPT !.next = @ + m] \in Places
  BY <1>3 DEF Places
<1> QED BY <1>2, <1>4 DEF Pulsed, m

LEMMA FieldsStep ==
  ASSUME IInv, TickFields
  PROVE  IInv' /\ Unrevived /\ (Unhandled \/ UsesOne)
<1> USE PassBegin
<1> DEFINE live == Chosen(t.fields, {k \in DOMAIN t.fields : tick < t.fields[k].expire})
           pulse(k) == [n \in 1..Pulses(live[k]) |-> Frame(live[k].ctx, live[k].op, None)]
           after == [k \in DOMAIN live |-> Pulsed(live[k])]
<1>1. /\ pass = "shots" /\ pass' = "fields"
      /\ stack' = FlattenSeq([k \in DOMAIN live |-> pulse(k)])
      /\ t' = [t EXCEPT !.fields = after]
      /\ UNCHANGED <<tick, todo, ops, fallen, drops, away, log>>
  BY DEF TickFields, Free
<1>2. t.fields \in Seq(Places) /\ t.scheduled \in Seq(Waits)
  BY DEF World, Typed
<1>3. live \in Seq(Places)
  BY <1>2, ChosenOK
<1> HIDE DEF live
<1>4. DOMAIN live = 1..Len(live) /\ Len(live) \in Nat /\ \A k \in 1..Len(live) : live[k] \in Places
  BY <1>3
<1>5. \A k \in 1..Len(live) : pulse(k) \in Seq(Frames(DOMAIN t.inventory))
  <2> TAKE k \in 1..Len(live)
  <2> DEFINE f == Frame(live[k].ctx, live[k].op, None)
  <2>1. live[k] \in Places
    BY <1>4
  <2>2. live[k].ctx \in Context /\ live[k].op \in Op /\ None \in Aims
    BY <2>1 DEF Places, Aims
  <2>3. f \in Frames(DOMAIN t.inventory)
    BY <2>2, FrameOK
  <2>4. Pulses(live[k]) \in Nat
    BY <2>1, PulsedOK
  <2> HIDE DEF f
  <2>5. [n \in 1..Pulses(live[k]) |-> f] \in Seq(Frames(DOMAIN t.inventory))
    BY <2>3, <2>4
  <2> QED BY <2>5 DEF f
<1>6. \A k \in 1..Len(live) : Pulsed(live[k]) \in Places
  BY <1>4, PulsedOK
<1> DEFINE next(k) == Pulsed(live[k])
<1>7. after = [k \in 1..Len(live) |-> next(k)]
  BY <1>4
<1>8. \A k \in 1..Len(live) : next(k) \in Places
  BY <1>6
<1>9. stack' = FlattenSeq([k \in 1..Len(live) |-> pulse(k)])
  BY <1>1, <1>4
<1> HIDE DEF pulse, next, after
<1>10. after \in Seq(Places)
  BY <1>4, <1>7, <1>8, IsASeq
<1>11. [k \in 1..Len(live) |-> pulse(k)] \in Seq(Seq(Frames(DOMAIN t.inventory)))
  BY <1>4, <1>5, IsASeq
<1>12. stack' \in Seq(Frames(DOMAIN t.inventory))
  BY <1>9, <1>11, Flattened
<1>13. World(t') /\ Same(t, t') /\ t'.last_attacker = t.last_attacker
  BY <1>1, <1>2, <1>10, FieldsOK
<1> QED BY <1>1, <1>12, <1>13, PassKeep DEF Passes, Same

LEMMA ScheduledStep ==
  ASSUME IInv, RunScheduled
  PROVE  IInv' /\ Unrevived /\ (Unhandled \/ UsesOne)
<1> USE PassBegin
<1> DEFINE due == Chosen(t.scheduled, Ripe)
           later == Chosen(t.scheduled, DOMAIN t.scheduled \ Ripe)
           frame(k) == Frame(due[k].ctx, due[k].op, due[k].target)
<1>1. /\ pass = "fields" /\ pass' = "scheduled"
      /\ stack' = [k \in DOMAIN due |-> frame(k)]
      /\ t' = [t EXCEPT !.scheduled = later]
      /\ UNCHANGED <<tick, todo, ops, fallen, drops, away, log>>
  BY DEF RunScheduled, Free
<1>2. t.fields \in Seq(Places) /\ t.scheduled \in Seq(Waits)
  BY DEF World, Typed
<1>3. due \in Seq(Waits) /\ later \in Seq(Waits)
  BY <1>2, ChosenOK DEF Ripe
<1> HIDE DEF due, later
<1>4. \A k \in 1..Len(due) : frame(k) \in Frames(DOMAIN t.inventory)
  <2> TAKE k \in 1..Len(due)
  <2>1. due[k] \in Waits
    BY <1>3
  <2>2. due[k].ctx \in Context /\ due[k].op \in Op /\ due[k].target \in Aims
    BY <2>1 DEF Waits
  <2> QED BY <2>2, FrameOK
<1>5. stack' = [k \in 1..Len(due) |-> frame(k)] /\ Len(due) \in Nat
  BY <1>1, <1>3
<1> HIDE DEF frame
<1>6. stack' \in Seq(Frames(DOMAIN t.inventory))
  BY <1>4, <1>5, IsASeq
<1>7. World(t') /\ Same(t, t') /\ t'.last_attacker = t.last_attacker
  BY <1>1, <1>2, <1>3, FieldsOK
<1> QED BY <1>1, <1>6, <1>7, PassKeep DEF Passes, Same
\* A body changed, or removed with its rows.
Altered(d, e) ==
  /\ e.kind = d.kind /\ e.owner = d.owner
  /\ e.health <= d.health \/ e.health <= MaxHealth

LEMMA Tended ==
  ASSUME NEW w, World(w), NEW gone, NEW v, DOMAIN v = Tables, v.next = w.next, Typed(v),
         DOMAIN v.entities = DOMAIN w.entities \ gone,
         \A i \in DOMAIN v.entities : Altered(w.entities[i], v.entities[i]),
         DOMAIN v.loot = DOMAIN w.loot \ gone,
         DOMAIN v.projectiles = DOMAIN w.projectiles \ gone,
         DOMAIN v.inventory = DOMAIN w.inventory \ gone,
         DOMAIN v.mobs = DOMAIN w.mobs \ gone
  PROVE  World(v)
<1>1. Sized(v)
  BY DEF World, Sized
<1>2. \A kind : Named(v, kind) = Named(w, kind) \ gone
  BY DEF Named, Altered
<1>3. Matched(v)
  BY <1>2 DEF World, Matched
<1>4. /\ DOMAIN w.inventory \subseteq DOMAIN w.entities /\ DOMAIN w.mobs \subseteq DOMAIN w.entities
      /\ DOMAIN v.inventory \subseteq DOMAIN v.entities /\ DOMAIN v.mobs \subseteq DOMAIN v.entities
  BY <1>3 DEF World, Matched, Named
<1>5. \A i \in DOMAIN v.inventory : v.entities[i].health <= MaxHealth
  <2> TAKE i \in DOMAIN v.inventory
  <2>1. w.entities[i] \in Ent /\ v.entities[i] \in Ent /\ Altered(w.entities[i], v.entities[i])
    BY <1>4, Unmoved DEF Typed
  <2>2. w.entities[i].health \in Int /\ v.entities[i].health \in Int
    BY <2>1 DEF Ent
  <2>3. w.entities[i].health <= MaxHealth
    BY DEF World, Played
  <2> QED BY <2>1, <2>2, <2>3, Bounds DEF Altered
<1>6. Played(v)
  BY <1>4, <1>5 DEF World, Played, Altered
<1> QED BY <1>1, <1>3, <1>6 DEF World

\* Players that stay who they are stay accounted for.
LEMMA Lasting ==
  ASSUME IInv, pass # "idle", pass' # "idle",
         DOMAIN t'.inventory = DOMAIN t.inventory,
         \A i \in DOMAIN t.inventory :
           /\ t'.entities[i].owner = t.entities[i].owner
           /\ t'.entities[i].dead = t.entities[i].dead
           /\ i \in DOMAIN t.respawn_at =>
                i \in DOMAIN t'.respawn_at /\ t'.respawn_at[i] = t.respawn_at[i],
         UNCHANGED <<tick, away, log>>,
         DOMAIN t'.last_attacker \subseteq DOMAIN t.last_attacker,
         \A i \in DOMAIN t'.last_attacker : t'.last_attacker[i] = t.last_attacker[i]
  PROVE  Abroad' /\ Awaiting' /\ Remembered' /\ CreditEarned'
<1>1. Abroad'
  BY DEF IInv, Abroad
<1>2. Awaiting'
  BY DEF IInv, Awaiting, Idle
<1>3. Remembered' /\ CreditEarned'
  BY DEF IInv, Remembered, CreditEarned
<1> QED BY <1>1, <1>2, <1>3

LEMMA Untouched ==
  ASSUME World(t), World(t'), \A i \in DOMAIN t.entities \cap DOMAIN t'.entities :
                                t'.entities[i].health <= t.entities[i].health
  PROVE  Unrevived
<1> SUFFICES ASSUME NEW i \in DOMAIN t.entities, i \in DOMAIN t'.entities,
                    t.entities[i].health <= 0
             PROVE  ~(t'.entities[i].health > 0)
  BY DEF Unrevived
<1>1. t'.entities[i].health \in Int /\ t.entities[i].health \in Int
  BY Unmoved DEF Ent
<1> QED BY <1>1

LEMMA ShotsStep ==
  ASSUME IInv, IntegrateProjectiles
  PROVE  IInv' /\ Unrevived /\ (Unhandled \/ UsesOne)
<1> USE PassBegin
<1>1. PICK stops \in SUBSET DOMAIN t.projectiles :
      \E order \in SetToSeqs(stops) : \E met \in [stops -> {None} \cup Living] :
        /\ stack' = [k \in DOMAIN order |->
             Frame(t.projectiles[order[k]].ctx, t.projectiles[order[k]].op, met[order[k]])]
        /\ t' = [t EXCEPT !.entities = Restrict(t.entities, DOMAIN t.entities \ stops),
                          !.projectiles = Restrict(t.projectiles, DOMAIN t.projectiles \ stops)]
  BY ZenonT(60) DEF IntegrateProjectiles
<1>2. PICK order \in SetToSeqs(stops) : \E met \in [stops -> {None} \cup Living] :
        /\ stack' = [k \in DOMAIN order |->
             Frame(t.projectiles[order[k]].ctx, t.projectiles[order[k]].op, met[order[k]])]
        /\ t' = [t EXCEPT !.entities = Restrict(t.entities, DOMAIN t.entities \ stops),
                          !.projectiles = Restrict(t.projectiles, DOMAIN t.projectiles \ stops)]
  BY <1>1
<1>3. PICK met \in [stops -> {None} \cup Living] :
        /\ stack' = [k \in DOMAIN order |->
             Frame(t.projectiles[order[k]].ctx, t.projectiles[order[k]].op, met[order[k]])]
        /\ t' = [t EXCEPT !.entities = Restrict(t.entities, DOMAIN t.entities \ stops),
                          !.projectiles = Restrict(t.projectiles, DOMAIN t.projectiles \ stops)]
  BY <1>2
<1>4. /\ pass = "cast" /\ pass' = "shots" /\ todo' = {}
      /\ UNCHANGED <<tick, ops, fallen, drops, away, log>>
  BY DEF IntegrateProjectiles, Free
<1>5. /\ DOMAIN t' = Tables /\ t'.next = t.next
      /\ t'.entities = Restrict(t.entities, DOMAIN t.entities \ stops)
      /\ t'.projectiles = Restrict(t.projectiles, DOMAIN t.projectiles \ stops)
      /\ t'.inventory = t.inventory /\ t'.loot = t.loot /\ t'.respawn_at = t.respawn_at
      /\ t'.statuses = t.statuses /\ t'.shields = t.shields /\ t'.mobs = t.mobs
      /\ t'.fields = t.fields /\ t'.scheduled = t.scheduled
      /\ t'.last_attacker = t.last_attacker
  BY <1>3, Unmoved DEF Tables, ById
<1>6. /\ DOMAIN t'.entities = DOMAIN t.entities \ stops
      /\ \A i \in DOMAIN t'.entities : t'.entities[i] = t.entities[i]
      /\ DOMAIN t'.projectiles = DOMAIN t.projectiles \ stops
      /\ \A i \in DOMAIN t'.projectiles : t'.projectiles[i] = t.projectiles[i]
  BY <1>5, Restricting
<1>7. Typed(t')
  BY <1>5, <1>6 DEF World, Typed
<1>8. \A i \in DOMAIN t'.entities : Altered(t.entities[i], t'.entities[i])
  <2> TAKE i \in DOMAIN t'.entities
  <2>1. t.entities[i].health \in Int
    BY <1>6, Unmoved DEF Ent
  <2> QED BY <1>6, <2>1 DEF Altered
<1>9. stops \cap Named(t, "pickup") = {} /\ stops \cap Named(t, "player") = {}
  BY DEF World, Matched, Named
<1>10. /\ DOMAIN t.loot = Named(t, "pickup") /\ Bodies = Named(t, "player")
       /\ DOMAIN t.inventory \cap stops = {} /\ DOMAIN t.mobs \cap stops = {}
  BY <1>9 DEF World, Matched, Named, Bodies
<1>11. World(t')
  <2>1. /\ DOMAIN t'.loot = DOMAIN t.loot \ stops
        /\ DOMAIN t'.inventory = DOMAIN t.inventory \ stops
        /\ DOMAIN t'.mobs = DOMAIN t.mobs \ stops
    BY <1>5, <1>9, <1>10
  <2> QED BY <1>5, <1>6, <1>7, <1>8, <2>1, Tended
<1>12. stack' \in Seq(Frames(DOMAIN t.inventory))
  <2> DEFINE frame(k) == Frame(t.projectiles[order[k]].ctx, t.projectiles[order[k]].op,
                               met[order[k]])
  <2>1. IsFiniteSet(stops)
    <3> DEFINE last == t.next - 1
    <3>1. stops \subseteq 1..last /\ last \in Int
      BY DEF World, Matched, Named, Sized
    <3> HIDE DEF last
    <3>2. IsFiniteSet(1..last)
      BY <3>1, FS_Interval
    <3> QED BY <3>1, <3>2, FS_Subset
  <2>2. Cardinality(stops) \in Nat /\ order \in [1..Cardinality(stops) -> stops]
    BY <2>1, FS_CardinalityType DEF SetToSeqs
  <2>3. \A k \in 1..Cardinality(stops) : frame(k) \in Frames(DOMAIN t.inventory)
    <3> TAKE k \in 1..Cardinality(stops)
    <3>1. order[k] \in stops /\ t.projectiles[order[k]] \in Shots
      BY <2>2 DEF World, Typed
    <3>2. t.projectiles[order[k]].ctx \in Context /\ t.projectiles[order[k]].op \in Op
      BY <3>1 DEF Shots
    <3>3. met[order[k]] \in {None} \cup Living
      BY <3>1
    <3>4. met[order[k]] \in Aims
      BY <3>3 DEF Aims
    <3> QED BY <3>2, <3>4, FrameOK
  <2>4. stack' = [k \in 1..Cardinality(stops) |-> frame(k)]
    BY <1>3, <2>2
  <2> HIDE DEF frame
  <2> QED BY <2>2, <2>3, <2>4, IsASeq
<1>13. Turns'
  BY <1>4, <1>5, <1>12 DEF IInv, Turns, Passes
<1>14. Abroad' /\ Awaiting' /\ Remembered' /\ CreditEarned'
  <2>1. \A i \in DOMAIN t.inventory : i \in DOMAIN t'.entities
    BY <1>6, <1>10 DEF Bodies, Named
  <2>2. \A i \in DOMAIN t.inventory : t'.entities[i] = t.entities[i]
    BY <1>6, <2>1
  <2> QED BY <1>4, <1>5, <2>2, Lasting
<1>15. Unrevived
  <2>1. \A i \in DOMAIN t.entities \cap DOMAIN t'.entities :
          t'.entities[i].health <= t.entities[i].health
    BY <1>6, Unmoved DEF Ent
  <2> QED BY <1>11, <2>1, Untouched
<1>16. Unhandled
  BY <1>4, <1>5 DEF Unhandled
<1> QED BY <1>11, <1>13, <1>14, <1>15, <1>16 DEF IInv

\* The bags a death leaves, and the piles it drops.
LEMMA Halved ==
  ASSUME NEW S, NEW bag \in Seq(S)
  PROVE  Dropped(bag) \in Seq(S) /\ Kept(bag) \in Seq(S)
<1> DEFINE n == Len(bag)
           odd(k) == bag[2 * k - 1]
           even(k) == bag[2 * k]
<1>1. n \in Nat /\ DOMAIN bag = 1..n
  OBVIOUS
<1>2. n \div 2 \in Nat /\ (n + 1) \div 2 \in Nat
  BY <1>1
<1>3. \A k \in 1..((n + 1) \div 2) : odd(k) \in S
  BY <1>1
<1>4. \A k \in 1..(n \div 2) : even(k) \in S
  BY <1>1
<1> HIDE DEF odd, even
<1>5. Dropped(bag) = [k \in 1..((n + 1) \div 2) |-> odd(k)]
  BY DEF Dropped, odd
<1>6. Kept(bag) = [k \in 1..(n \div 2) |-> even(k)]
  BY DEF Kept, even
<1> QED BY <1>2, <1>3, <1>4, <1>5, <1>6, IsASeq

\* What stays as it is, of a body that falls.
Felled(i) == [t EXCEPT !.entities[i].health = 0, !.entities[i].dead = TRUE]

LEMMA Fallen ==
  ASSUME World(t), NEW i \in Bodies, NEW v, v = Felled(i)
  PROVE  /\ DOMAIN v = Tables /\ v.next = t.next /\ DOMAIN v.entities = DOMAIN t.entities
         /\ \A j \in DOMAIN t.entities \ {i} : v.entities[j] = t.entities[j]
         /\ v.entities[i] \in Ent /\ v.entities[i].kind = t.entities[i].kind
         /\ v.entities[i].owner = t.entities[i].owner
         /\ v.entities[i].health = 0 /\ v.entities[i].dead = TRUE
         /\ v.inventory = t.inventory /\ v.loot = t.loot /\ v.respawn_at = t.respawn_at
         /\ v.statuses = t.statuses /\ v.shields = t.shields /\ v.projectiles = t.projectiles
         /\ v.mobs = t.mobs /\ v.fields = t.fields /\ v.scheduled = t.scheduled
         /\ v.last_attacker = t.last_attacker
<1> DEFINE d == t.entities[i]
           e == [d EXCEPT !.health = 0, !.dead = TRUE]
           bodies == [t.entities EXCEPT ![i] = e]
<1>1. i \in DOMAIN t.entities /\ d \in Ent /\ DOMAIN t = Tables
  BY Unmoved DEF Bodies
<1>2. v = [t EXCEPT !.entities = bodies]
  BY <1>1 DEF Tables, ById, Felled
<1>3. e \in Ent /\ e.kind = d.kind /\ e.owner = d.owner /\ e.health = 0 /\ e.dead = TRUE
  <2> DEFINE c == [d EXCEPT !.health = 0]
  <2>1. e = [c EXCEPT !.dead = TRUE]
    OBVIOUS
  <2> HIDE DEF d, e
  <2>2. c \in Ent /\ c.kind = d.kind /\ c.owner = d.owner /\ c.health = 0
    BY <1>1 DEF Ent
  <2> HIDE DEF c
  <2> QED BY <2>1, <2>2 DEF Ent
<1> HIDE DEF e
<1>4. bodies[i] = e /\ DOMAIN bodies = DOMAIN t.entities
      /\ \A j \in DOMAIN t.entities \ {i} : bodies[j] = t.entities[j]
  BY <1>1
<1> HIDE DEF bodies
<1>5. /\ DOMAIN v = Tables /\ v.next = t.next /\ v.entities = bodies
      /\ v.inventory = t.inventory /\ v.loot = t.loot /\ v.respawn_at = t.respawn_at
      /\ v.statuses = t.statuses /\ v.shields = t.shields /\ v.projectiles = t.projectiles
      /\ v.mobs = t.mobs /\ v.fields = t.fields /\ v.scheduled = t.scheduled
      /\ v.last_attacker = t.last_attacker
  BY <1>1, <1>2 DEF Tables, ById
<1> QED BY <1>3, <1>4, <1>5

LEMMA DieStep ==
  ASSUME IInv, NEW i \in todo, Die(i)
  PROVE  IInv' /\ Unrevived /\ (Unhandled \/ Sheds)
<1> USE PassBegin
<1> DEFINE killer == Row(t.last_attacker, i, i)
           dead == Felled(i)
<1>1. /\ pass = "deaths" /\ pass' = "deaths" /\ Doomed(i) /\ todo' = todo \ {i}
      /\ fallen' = fallen \cup {i}
      /\ log' = [log EXCEPT !.slain = @ \cup {<<killer, i>>}]
      /\ UNCHANGED <<tick, ops, away>>
  BY DEF Die
<1>2. PICK fired \in SUBSET (IF killer = i THEN {} ELSE Triggers(killer, "kill")) :
        stack' = ProcFrames(killer, i, fired)
  BY DEF Die
<1>3. IF i \in DOMAIN t.mobs
      THEN t' = dead /\ UNCHANGED drops
      ELSE /\ drops' = Append(drops, Dropped(t.inventory[i]))
           /\ t' = [dead EXCEPT !.inventory[i] = Kept(@),
                                !.respawn_at = Put(@, i, tick + RespawnTicks)]
  BY DEF Die, Felled
<1>4. i \in Bodies /\ i \in Nat /\ i \in Aims
  BY <1>1 DEF IInv, Turns, Aims
<1>5. dead = Felled(i)
  OBVIOUS
<1> HIDE DEF dead
<1>6. /\ DOMAIN dead = Tables /\ dead.next = t.next /\ DOMAIN dead.entities = DOMAIN t.entities
      /\ \A j \in DOMAIN t.entities \ {i} : dead.entities[j] = t.entities[j]
      /\ dead.entities[i] \in Ent /\ dead.entities[i].kind = t.entities[i].kind
      /\ dead.entities[i].owner = t.entities[i].owner
      /\ dead.entities[i].health = 0 /\ dead.entities[i].dead = TRUE
      /\ dead.inventory = t.inventory /\ dead.loot = t.loot /\ dead.respawn_at = t.respawn_at
      /\ dead.statuses = t.statuses /\ dead.shields = t.shields
      /\ dead.projectiles = t.projectiles
      /\ dead.mobs = t.mobs /\ dead.fields = t.fields /\ dead.scheduled = t.scheduled
      /\ dead.last_attacker = t.last_attacker
  BY <1>4, <1>5, Fallen, ZenonT(60)
<1> DEFINE bagged == [dead EXCEPT !.inventory[i] = Kept(@)]
<1>7. i \notin DOMAIN t.mobs =>
        t' = [bagged EXCEPT !.respawn_at = Put(@, i, tick + RespawnTicks)]
  BY <1>3
<1>8. /\ DOMAIN bagged = Tables /\ bagged.next = t.next /\ bagged.entities = dead.entities
      /\ bagged.inventory = [t.inventory EXCEPT ![i] = Kept(t.inventory[i])]
      /\ bagged.loot = t.loot /\ bagged.respawn_at = t.respawn_at
      /\ bagged.statuses = t.statuses /\ bagged.shields = t.shields
      /\ bagged.projectiles = t.projectiles
      /\ bagged.mobs = t.mobs /\ bagged.fields = t.fields /\ bagged.scheduled = t.scheduled
      /\ bagged.last_attacker = t.last_attacker
  BY <1>6 DEF Tables, ById
<1> HIDE DEF bagged
<1>9. /\ DOMAIN t' = Tables /\ t'.next = t.next /\ t'.entities = dead.entities
      /\ t'.loot = t.loot
      /\ t'.statuses = t.statuses /\ t'.shields = t.shields
      /\ t'.projectiles = t.projectiles
      /\ t'.mobs = t.mobs /\ t'.fields = t.fields /\ t'.scheduled = t.scheduled
      /\ t'.last_attacker = t.last_attacker
  <2>1. CASE i \in DOMAIN t.mobs
    BY <1>3, <1>6, <2>1
  <2>2. CASE i \notin DOMAIN t.mobs
    BY <1>3, <1>7, <1>8, <2>2 DEF Tables, ById
  <2> QED BY <2>1, <2>2
<1>10. /\ i \in DOMAIN t.mobs => /\ t'.inventory = t.inventory /\ t'.respawn_at = t.respawn_at
                                 /\ drops' = drops
       /\ i \notin DOMAIN t.mobs =>
            /\ t'.inventory = [t.inventory EXCEPT ![i] = Kept(t.inventory[i])]
            /\ t'.respawn_at = Put(t.respawn_at, i, tick + RespawnTicks)
            /\ drops' = Append(drops, Dropped(t.inventory[i]))
  <2>1. CASE i \in DOMAIN t.mobs
    BY <1>3, <1>6, <2>1
  <2>2. CASE i \notin DOMAIN t.mobs
    BY <1>3, <1>7, <1>8, <2>2 DEF Tables, ById
  <2> QED BY <2>1, <2>2
<1>11. /\ DOMAIN t'.inventory = DOMAIN t.inventory /\ drops' \in Seq(Seq(Items))
       /\ \A j \in DOMAIN t.inventory : t'.inventory[j] \in Seq(Items)
       /\ \A j \in DOMAIN t.inventory \ {i} : /\ t'.inventory[j] = t.inventory[j]
  <2>1. drops \in Seq(Seq(Items)) /\ \A j \in DOMAIN t.inventory : t.inventory[j] \in Seq(Items)
    BY DEF IInv, Turns, World, Typed
  <2>2. CASE i \in DOMAIN t.mobs
    BY <1>10, <2>1, <2>2
  <2>3. CASE i \notin DOMAIN t.mobs
    <3>1. i \in DOMAIN t.inventory
      BY <1>4, <2>3
    <3>2. Kept(t.inventory[i]) \in Seq(Items) /\ Dropped(t.inventory[i]) \in Seq(Items)
      BY <2>1, <3>1, Halved
    <3> DEFINE bags == Seq(Items)
    <3>3. Append(drops, Dropped(t.inventory[i])) \in Seq(bags)
      <4> HIDE DEF bags
      <4> QED BY <2>1, <3>2, AppendProperties DEF bags
    <3> QED BY <1>10, <2>1, <2>3, <3>2, <3>3
  <2> QED BY <2>2, <2>3
<1>12. \A j \in DOMAIN t.entities :
         /\ t'.entities[j] \in Ent /\ Altered(t.entities[j], t'.entities[j])
         /\ t'.entities[j].health <= t.entities[j].health \/ t'.entities[j].health = 0
  <2> TAKE j \in DOMAIN t.entities
  <2>1. t.entities[j] \in Ent /\ t.entities[j].health \in Int
    BY Unmoved DEF Ent
  <2>2. CASE j = i
    BY <1>6, <1>9, <2>1, <2>2, Bounds DEF Altered
  <2>3. CASE j # i
    BY <1>6, <1>9, <2>1, <2>3 DEF Altered
  <2> QED BY <2>2, <2>3
<1>13. Typed(t')
  BY <1>6, <1>9, <1>11, <1>12 DEF World, Typed
<1>14. World(t')
  <2>1. /\ DOMAIN t'.entities = DOMAIN t.entities \ {} /\ DOMAIN t'.loot = DOMAIN t.loot \ {}
        /\ DOMAIN t'.projectiles = DOMAIN t.projectiles \ {}
        /\ DOMAIN t'.inventory = DOMAIN t.inventory \ {} /\ DOMAIN t'.mobs = DOMAIN t.mobs \ {}
    BY <1>6, <1>9, <1>11
  <2> QED BY <1>9, <1>12, <1>13, <2>1, Tended
<1>15. killer = i \/ <<killer, i>> \in log.struck
  BY DEF Row, IInv, Remembered
<1>16. stack' \in Seq(Frames(DOMAIN t.inventory))
  <2>1. fired \subseteq Triggers(killer, "kill")
    BY <1>2
  <2> HIDE DEF killer
  <2> QED BY <1>2, <1>4, <2>1, ProcsOK
<1>17. Turns'
  <2>1. Bodies' = Bodies
    BY <1>6, <1>9, <1>12 DEF Bodies, Altered
  <2> QED BY <1>1, <1>4, <1>9, <1>11, <1>16, <2>1 DEF IInv, Turns, Passes
<1>18. DOMAIN t.inventory \subseteq DOMAIN t.entities
  BY DEF Bodies
<1>19. /\ log'.joined = log.joined /\ log'.struck = log.struck /\ log'.stranded = log.stranded
       /\ DOMAIN log' = DOMAIN log /\ log'.slain = log.slain \cup {<<killer, i>>}
       /\ Unspent
  BY <1>1 DEF IInv, Remembered, Unspent
<1>20. Abroad'
  BY <1>1, <1>11, <1>12, <1>18, <1>19 DEF IInv, Abroad, Altered
<1>21. Awaiting'
  <2> SUFFICES ASSUME NEW j \in DOMAIN t.inventory, t'.entities[j].dead, j \notin log.stranded
               PROVE  /\ j \in DOMAIN t'.respawn_at
                      /\ t'.respawn_at[j] \in tick .. tick + RespawnTicks
    BY <1>1, <1>11, <1>19 DEF Awaiting, Idle
  <2>1. CASE j = i
    <3>1. i \notin DOMAIN t.mobs
      BY <2>1 DEF World, Matched
    <3> QED BY <1>10, <2>1, <3>1, Bounds, SMTT(30) DEF Put
  <2>2. CASE j # i
    <3>1. t.entities[j].dead
      BY <1>6, <1>9, <1>18, <2>2
    <3>2. j \in DOMAIN t.respawn_at /\ t.respawn_at[j] \in tick .. tick + RespawnTicks
      BY <1>1, <3>1 DEF IInv, Awaiting, Idle
    <3>3. j \in DOMAIN t'.respawn_at /\ t'.respawn_at[j] = t.respawn_at[j]
      BY <1>10, <2>2, <3>2 DEF Put
    <3> QED BY <3>2, <3>3
  <2> QED BY <2>1, <2>2
<1>22. Remembered' /\ CreditEarned'
  BY <1>9, <1>15, <1>19 DEF IInv, Remembered, CreditEarned
<1>23. Unrevived
  <2>1. \A j \in DOMAIN t.entities : t.entities[j].health \in Int /\ t'.entities[j].health \in Int
    BY <1>12, Unmoved DEF Ent
  <2> QED BY <1>12, <2>1 DEF Unrevived
<1>24. Unhandled \/ Sheds
  <2>1. i \in DOMAIN t.mobs \/ i \in DOMAIN t.inventory
    BY <1>4
  <2>2. CASE i \in DOMAIN t.mobs
    BY <1>1, <1>9, <1>10, <1>19, <2>2 DEF Unhandled, Unspent
  <2>3. CASE i \in DOMAIN t.inventory
    <3>1. i \notin DOMAIN t.mobs
      BY <2>3 DEF World, Matched
    <3> QED BY <1>1, <1>9, <1>10, <1>19, <2>3, <3>1 DEF Sheds
  <2> QED BY <2>1, <2>2, <2>3
<1> QED BY <1>14, <1>17, <1>20, <1>21, <1>22, <1>23, <1>24 DEF IInv

\* What is left of the tables when ids are forgotten.
LEMMA Forgotten ==
  ASSUME NEW w, World(w), NEW ids, NEW v, v = Forget(w, ids)
  PROVE  /\ DOMAIN v = Tables /\ v.next = w.next
         /\ v.fields = w.fields /\ v.scheduled = w.scheduled
         /\ \A f \in ById : /\ DOMAIN v[f] = DOMAIN w[f] \ ids
                            /\ \A i \in DOMAIN w[f] \ ids : v[f][i] = w[f][i]
<1>1. DOMAIN w = Tables
  BY Unmoved
<1>2. v = [f \in Tables |-> IF f \in ById THEN Restrict(w[f], DOMAIN w[f] \ ids) ELSE w[f]]
  BY <1>1 DEF Forget
<1>3. \A f \in ById : v[f] = Restrict(w[f], DOMAIN w[f] \ ids)
  BY <1>2 DEF Tables
<1>4. v.next = w.next /\ v.fields = w.fields /\ v.scheduled = w.scheduled
  BY <1>2 DEF Tables, ById
<1>5. DOMAIN v = Tables
  BY <1>2
<1>6. \A f \in ById : /\ DOMAIN v[f] = DOMAIN w[f] \ ids
                      /\ \A i \in DOMAIN w[f] \ ids : v[f][i] = w[f][i]
  <2> TAKE f \in ById
  <2> DEFINE kept == DOMAIN w[f] \ ids
  <2>1. v[f] = Restrict(w[f], kept)
    BY <1>3
  <2> HIDE DEF kept
  <2>2. DOMAIN v[f] = kept /\ \A i \in kept : v[f][i] = w[f][i]
    BY <2>1, Restricting
  <2> QED BY <2>2 DEF kept
<1> QED BY <1>4, <1>5, <1>6

LEMMA ForgetOK ==
  ASSUME NEW w, World(w), NEW ids, NEW v, v = Forget(w, ids)
  PROVE  /\ World(v) /\ DOMAIN v.entities = DOMAIN w.entities \ ids
         /\ \A i \in DOMAIN v.entities : v.entities[i] = w.entities[i]
         /\ DOMAIN v.inventory = DOMAIN w.inventory \ ids
         /\ \A i \in DOMAIN v.inventory : v.inventory[i] = w.inventory[i]
         /\ DOMAIN v.loot = DOMAIN w.loot \ ids
         /\ \A i \in DOMAIN v.loot : v.loot[i] = w.loot[i]
         /\ DOMAIN v.respawn_at = DOMAIN w.respawn_at \ ids
         /\ \A i \in DOMAIN v.respawn_at : v.respawn_at[i] = w.respawn_at[i]
         /\ DOMAIN v.last_attacker = DOMAIN w.last_attacker \ ids
         /\ \A i \in DOMAIN v.last_attacker : v.last_attacker[i] = w.last_attacker[i]
         /\ v.next = w.next /\ DOMAIN v.mobs = DOMAIN w.mobs \ ids
<1>1. /\ DOMAIN v = Tables /\ v.next = w.next
      /\ v.fields = w.fields /\ v.scheduled = w.scheduled
      /\ \A f \in ById : /\ DOMAIN v[f] = DOMAIN w[f] \ ids
                         /\ \A i \in DOMAIN w[f] \ ids : v[f][i] = w[f][i]
  BY Forgotten
<1>2. ById = {"entities", "inventory", "statuses", "shields", "marks", "ready",
              "projectiles", "loot", "mobs", "last_attacker", "respawn_at"}
  BY DEF ById
<1>3. /\ DOMAIN v.entities = DOMAIN w.entities \ ids
      /\ \A i \in DOMAIN w.entities \ ids : v.entities[i] = w.entities[i]
      /\ DOMAIN v.inventory = DOMAIN w.inventory \ ids
      /\ \A i \in DOMAIN w.inventory \ ids : v.inventory[i] = w.inventory[i]
      /\ DOMAIN v.loot = DOMAIN w.loot \ ids
      /\ \A i \in DOMAIN w.loot \ ids : v.loot[i] = w.loot[i]
  BY <1>1, <1>2
<1>4. /\ DOMAIN v.statuses = DOMAIN w.statuses \ ids
      /\ \A i \in DOMAIN w.statuses \ ids : v.statuses[i] = w.statuses[i]
      /\ DOMAIN v.shields = DOMAIN w.shields \ ids
      /\ \A i \in DOMAIN w.shields \ ids : v.shields[i] = w.shields[i]
      /\ DOMAIN v.projectiles = DOMAIN w.projectiles \ ids
      /\ \A i \in DOMAIN w.projectiles \ ids : v.projectiles[i] = w.projectiles[i]
      /\ DOMAIN v.mobs = DOMAIN w.mobs \ ids
  BY <1>1, <1>2
<1>5. /\ DOMAIN v.respawn_at = DOMAIN w.respawn_at \ ids
      /\ \A i \in DOMAIN w.respawn_at \ ids : v.respawn_at[i] = w.respawn_at[i]
      /\ DOMAIN v.last_attacker = DOMAIN w.last_attacker \ ids
      /\ \A i \in DOMAIN w.last_attacker \ ids : v.last_attacker[i] = w.last_attacker[i]
  BY <1>1, <1>2
<1>6. Typed(v)
  BY <1>1, <1>3, <1>4 DEF World, Typed
<1>7. \A i \in DOMAIN v.entities : Altered(w.entities[i], v.entities[i])
  <2> TAKE i \in DOMAIN v.entities
  <2>1. w.entities[i].health \in Int
    BY <1>3, Unmoved DEF Ent
  <2> QED BY <1>3, <2>1 DEF Altered
<1>8. World(v)
  BY <1>1, <1>3, <1>4, <1>6, <1>7, Tended
<1> QED BY <1>1, <1>3, <1>4, <1>5, <1>8

\* Loot for every pile.
LEMMA DropsOK ==
  ASSUME NEW w, World(w), NEW piles \in Seq(Seq(Items)), NEW v, v = SpawnDrops(w, piles)
  PROVE  /\ World(v) /\ v.next = w.next + Len(piles)
         /\ v.inventory = w.inventory /\ v.respawn_at = w.respawn_at
         /\ v.last_attacker = w.last_attacker
         /\ \A i \in DOMAIN w.entities : i \in DOMAIN v.entities /\ v.entities[i] = w.entities[i]
         /\ DOMAIN v.entities = DOMAIN w.entities \cup (w.next .. w.next + Len(piles) - 1)
         /\ DOMAIN v.loot = DOMAIN w.loot \cup (w.next .. w.next + Len(piles) - 1)
         /\ \A i \in DOMAIN w.loot : i < w.next /\ v.loot[i] = w.loot[i]
         /\ \A k \in 1..Len(piles) : v.loot[w.next + k - 1] = piles[k]
<1> DEFINE n == Len(piles)
           ids == w.next .. w.next + n - 1
           e == Entity("pickup", None, None, 1)
           bodies == [i \in DOMAIN w.entities \cup ids |-> IF i \in ids THEN e ELSE w.entities[i]]
           lots == [i \in DOMAIN w.loot \cup ids |->
                      IF i \in ids THEN piles[i - w.next + 1] ELSE w.loot[i]]
           v1 == [w EXCEPT !.entities = bodies]
           v2 == [v1 EXCEPT !.loot = lots]
<1>1. v = [v2 EXCEPT !.next = @ + n]
  BY Unmoved DEF SpawnDrops, Tables, ById
<1>2. e \in Ent /\ e.kind = "pickup"
  BY DEF Entity, Ent, Sides
<1>3. n \in Nat /\ w.next \in Nat \ {0} /\ DOMAIN w.entities \subseteq 1..(w.next - 1)
  BY DEF World, Sized
<1>4. DOMAIN w.entities \cap ids = {}
  BY <1>3
<1> HIDE DEF e
<1>5. /\ DOMAIN bodies = DOMAIN w.entities \cup ids
      /\ \A i \in ids : bodies[i] = e
      /\ \A i \in DOMAIN w.entities : bodies[i] = w.entities[i]
  BY <1>4
<1>6. DOMAIN w.loot \subseteq DOMAIN w.entities
  BY DEF World, Matched, Named
<1>7. /\ DOMAIN lots = DOMAIN w.loot \cup ids
      /\ \A i \in ids : lots[i] = piles[i - w.next + 1]
      /\ \A i \in DOMAIN w.loot : lots[i] = w.loot[i]
  BY <1>4, <1>6
<1> HIDE DEF bodies, lots
<1>8. /\ DOMAIN v1 = Tables /\ v1.entities = bodies /\ v1.next = w.next
      /\ v1.inventory = w.inventory /\ v1.respawn_at = w.respawn_at
      /\ v1.statuses = w.statuses /\ v1.shields = w.shields
      /\ v1.projectiles = w.projectiles /\ v1.mobs = w.mobs /\ v1.fields = w.fields
      /\ v1.scheduled = w.scheduled /\ v1.last_attacker = w.last_attacker
  BY Unmoved DEF Tables, ById
<1> HIDE DEF v1
<1>9. /\ DOMAIN v2 = Tables /\ v2.entities = bodies /\ v2.next = w.next /\ v2.loot = lots
      /\ v2.inventory = w.inventory /\ v2.respawn_at = w.respawn_at
      /\ v2.statuses = w.statuses /\ v2.shields = w.shields
      /\ v2.projectiles = w.projectiles /\ v2.mobs = w.mobs /\ v2.fields = w.fields
      /\ v2.scheduled = w.scheduled /\ v2.last_attacker = w.last_attacker
  BY <1>8 DEF Tables, ById
<1> HIDE DEF v2
<1>10. /\ DOMAIN v = Tables /\ v.entities = bodies /\ v.next = w.next + n /\ v.loot = lots
       /\ v.inventory = w.inventory /\ v.respawn_at = w.respawn_at
       /\ v.statuses = w.statuses /\ v.shields = w.shields
       /\ v.projectiles = w.projectiles /\ v.mobs = w.mobs /\ v.fields = w.fields
       /\ v.scheduled = w.scheduled /\ v.last_attacker = w.last_attacker
  BY <1>1, <1>9 DEF Tables, ById
<1>11. Sized(v)
  BY <1>3, <1>5, <1>10 DEF Sized
<1>12. Typed(v)
  <2>1. \A i \in DOMAIN v.entities : v.entities[i] \in Ent
    BY <1>2, <1>5, <1>10, Unmoved
  <2>2. \A i \in DOMAIN v.loot : v.loot[i] \in Seq(Items)
    <3> TAKE i \in DOMAIN v.loot
    <3>1. CASE i \in ids
      <4>1. i - w.next + 1 \in 1..n
        BY <1>3, <3>1
      <4>2. v.loot[i] = piles[i - w.next + 1]
        BY <1>7, <1>10, <3>1
      <4> DEFINE k == i - w.next + 1
      <4> HIDE DEF k
      <4>3. piles[k] \in Seq(Items)
        BY <4>1 DEF k
      <4> QED BY <4>2, <4>3 DEF k
    <3>2. CASE i \notin ids
      BY <1>7, <1>10, <3>2 DEF World, Typed
    <3> QED BY <3>1, <3>2
  <2> QED BY <1>10, <2>1, <2>2 DEF World, Typed
<1>13. /\ Named(v, "pickup") = Named(w, "pickup") \cup ids
       /\ Named(v, "player") = Named(w, "player")
       /\ Named(v, "projectile") = Named(w, "projectile")
  BY <1>2, <1>4, <1>5, <1>10 DEF Named
<1>14. Matched(v)
  BY <1>7, <1>10, <1>13 DEF World, Matched
<1>15. Played(v)
  <2>1. DOMAIN w.inventory \subseteq DOMAIN w.entities /\ DOMAIN w.mobs \subseteq DOMAIN w.entities
    BY DEF World, Matched, Named
  <2> QED BY <1>5, <1>10, <2>1 DEF World, Played
<1>16. \A k \in 1..n : lots[w.next + k - 1] = piles[k]
  <2> TAKE k \in 1..n
  <2>1. w.next + k - 1 \in ids /\ (w.next + k - 1) - w.next + 1 = k
    BY <1>3
  <2> QED BY <1>7, <2>1
<1>17. \A i \in DOMAIN w.loot : i < w.next
  BY <1>3, <1>6
<1> QED BY <1>5, <1>7, <1>10, <1>11, <1>12, <1>14, <1>15, <1>16, <1>17 DEF World

LEMMA DeathsEnd ==
  ASSUME IInv, EndDeaths
  PROVE  IInv' /\ Unrevived /\ Lands
<1> USE PassBegin
<1> DEFINE gone == fallen \cap DOMAIN t.mobs
           left == Forget(t, gone)
<1>1. /\ pass = "deaths" /\ pass' = "imprints" /\ stack = <<>> /\ todo' = fallen
      /\ t' = SpawnDrops(left, drops) /\ fallen' = {} /\ drops' = <<>>
      /\ UNCHANGED <<tick, stack, ops, away, log>>
  BY DEF EndDeaths, Ended
<1>2. drops \in Seq(Seq(Items))
  BY DEF IInv, Turns
<1>3. /\ World(left) /\ DOMAIN left.entities = DOMAIN t.entities \ gone
      /\ \A i \in DOMAIN left.entities : left.entities[i] = t.entities[i]
      /\ DOMAIN left.inventory = DOMAIN t.inventory \ gone
      /\ DOMAIN left.respawn_at = DOMAIN t.respawn_at \ gone
      /\ \A i \in DOMAIN left.respawn_at : left.respawn_at[i] = t.respawn_at[i]
      /\ DOMAIN left.last_attacker = DOMAIN t.last_attacker \ gone
      /\ \A i \in DOMAIN left.last_attacker : left.last_attacker[i] = t.last_attacker[i]
      /\ left.next = t.next
      /\ \A i \in DOMAIN left.inventory : left.inventory[i] = t.inventory[i]
      /\ DOMAIN left.loot = DOMAIN t.loot \ gone
      /\ \A i \in DOMAIN left.loot : left.loot[i] = t.loot[i]
  BY ForgetOK
<1> HIDE DEF left
<1>4. /\ World(t') /\ t'.inventory = left.inventory /\ t'.respawn_at = left.respawn_at
      /\ t'.last_attacker = left.last_attacker
      /\ \A i \in DOMAIN left.entities :
           i \in DOMAIN t'.entities /\ t'.entities[i] = left.entities[i]
      /\ DOMAIN t'.entities =
           DOMAIN left.entities \cup (left.next .. left.next + Len(drops) - 1)
      /\ DOMAIN t'.loot = DOMAIN left.loot \cup (left.next .. left.next + Len(drops) - 1)
      /\ \A i \in DOMAIN left.loot : i < left.next /\ t'.loot[i] = left.loot[i]
      /\ \A k \in 1..Len(drops) : t'.loot[left.next + k - 1] = drops[k]
  BY <1>1, <1>2, <1>3, DropsOK
<1>5. /\ DOMAIN t.inventory \cap gone = {} /\ DOMAIN t.inventory \subseteq DOMAIN t.entities
  BY DEF World, Matched, Named
<1>6. \A i \in DOMAIN t.inventory : i \in DOMAIN t'.entities /\ t'.entities[i] = t.entities[i]
  BY <1>3, <1>4, <1>5
<1>7. DOMAIN t'.inventory = DOMAIN t.inventory
  BY <1>3, <1>4, <1>5
<1>8. Turns'
  BY <1>1, <1>7 DEF IInv, Turns, Passes
<1>9. Abroad' /\ Awaiting' /\ Remembered' /\ CreditEarned'
  <2>1. \A i \in DOMAIN t.inventory : i \in DOMAIN t.respawn_at =>
          i \in DOMAIN t'.respawn_at /\ t'.respawn_at[i] = t.respawn_at[i]
    BY <1>3, <1>4, <1>5
  <2>2. /\ DOMAIN t'.last_attacker \subseteq DOMAIN t.last_attacker
        /\ \A i \in DOMAIN t'.last_attacker : t'.last_attacker[i] = t.last_attacker[i]
    BY <1>3, <1>4
  <2> QED BY <1>1, <1>6, <1>7, <2>1, <2>2, Lasting
<1>10. Unrevived
  <2>1. DOMAIN t.entities \subseteq 1..(t.next - 1) /\ t.next \in Nat
    BY DEF World, Sized
  <2>2. Len(drops) \in Nat
    BY <1>2
  <2>3. \A i \in DOMAIN t.entities \cap DOMAIN t'.entities : t'.entities[i] = t.entities[i]
    BY <1>3, <1>4, <2>1, <2>2
  <2>4. \A i \in DOMAIN t.entities \cap DOMAIN t'.entities :
          t'.entities[i].health <= t.entities[i].health
    BY <2>3, Unmoved DEF Ent
  <2> QED BY <1>4, <2>4, Untouched
<1>11. Lands
  <2>1. DOMAIN t.loot \cap gone = {}
    BY DEF World, Matched, Named
  <2>2. BagsStay
    BY <1>3, <1>4, <1>5, <1>7 DEF BagsStay
  <2>3. /\ DOMAIN t'.loot = DOMAIN t.loot \cup (t.next .. t.next + Len(drops) - 1)
        /\ \A i \in DOMAIN t.loot : i < t.next /\ t'.loot[i] = t.loot[i]
        /\ \A k \in 1..Len(drops) : t'.loot[t.next + k - 1] = drops[k]
    BY <1>3, <1>4, <2>1
  <2> QED BY <1>1, <2>2, <2>3 DEF Lands, Unspent
<1> QED BY <1>4, <1>8, <1>9, <1>10, <1>11 DEF IInv

\* A relic is left.
LEMMA LootOK ==
  ASSUME NEW w, World(w), NEW items \in Seq(Items), NEW v, v = SpawnLoot(w, items)
  PROVE  /\ World(v) /\ v.inventory = w.inventory /\ v.respawn_at = w.respawn_at
         /\ v.last_attacker = w.last_attacker /\ w.next \notin DOMAIN w.loot
         /\ w.next \notin DOMAIN w.entities
         /\ \A i \in DOMAIN w.entities : i \in DOMAIN v.entities /\ v.entities[i] = w.entities[i]
         /\ DOMAIN v.entities = DOMAIN w.entities \cup {w.next}
         /\ v.loot = Put(w.loot, w.next, items)
<1> DEFINE e == Entity("pickup", None, None, 1)
<1>1. /\ DOMAIN v = Tables /\ v.next = w.next + 1 /\ v.entities = Put(w.entities, w.next, e)
      /\ v.inventory = w.inventory
      /\ v.loot = Put(w.loot, w.next, items) /\ v.respawn_at = w.respawn_at
      /\ v.statuses = w.statuses
      /\ v.shields = w.shields /\ v.mobs = w.mobs
      /\ v.projectiles = w.projectiles
      /\ v.fields = w.fields /\ v.scheduled = w.scheduled
      /\ v.last_attacker = w.last_attacker
  BY Unmoved DEF SpawnLoot, AddBody, Tables, ById
<1>2. e \in Ent /\ e.kind = "pickup"
  BY DEF Entity, Ent, Sides
<1> HIDE DEF e
<1>3. /\ Sized(v) /\ w.next \notin DOMAIN w.entities /\ v.entities[w.next] = e
      /\ \A i \in DOMAIN w.entities : i \in DOMAIN v.entities /\ v.entities[i] = w.entities[i]
      /\ \A i \in DOMAIN v.entities : v.entities[i] \in Ent
      /\ \A kind : Named(v, kind) =
           Named(w, kind) \cup (IF e.kind = kind THEN {w.next} ELSE {})
  BY <1>1, <1>2, Unmoved, Grown DEF World
<1>4. /\ DOMAIN v.loot = DOMAIN w.loot \cup {w.next}
      /\ \A p \in DOMAIN v.loot : v.loot[p] \in Seq(Items)
  <2>1. \A p \in DOMAIN w.loot : w.loot[p] \in Seq(Items)
    BY DEF World, Typed
  <2> QED BY <1>1, <2>1 DEF Put
<1>5. Typed(v)
  BY <1>1, <1>3, <1>4 DEF World, Typed
<1>6. /\ Named(v, "projectile") = Named(w, "projectile") /\ Named(v, "player") = Named(w, "player")
      /\ Named(v, "pickup") = Named(w, "pickup") \cup {w.next}
  BY <1>2, <1>3, ZenonT(60)
<1>7. /\ DOMAIN w.inventory \subseteq DOMAIN w.entities /\ DOMAIN w.mobs \subseteq DOMAIN w.entities
      /\ DOMAIN w.loot \subseteq DOMAIN w.entities
  BY DEF World, Matched, Named
<1>8. Matched(v)
  BY <1>1, <1>4, <1>6 DEF World, Matched
<1>9. Played(v)
  BY <1>1, <1>3, <1>7 DEF World, Played
<1>10. DOMAIN v.entities = DOMAIN w.entities \cup {w.next}
  BY <1>1 DEF Put
<1> QED BY <1>1, <1>3, <1>5, <1>7, <1>8, <1>9, <1>10 DEF World

LEMMA ImprintStep ==
  ASSUME IInv, NEW slain \in todo, Imprint(slain)
  PROVE  /\ IInv' /\ Unrevived
         /\ Unhandled \/ Relic
<1> USE PassBegin
<1>1. /\ pass = "imprints" /\ pass' = pass /\ stack = <<>>
      /\ UNCHANGED <<tick, stack, ops, fallen, drops, away, log>>
      /\ t' \in {SpawnSummon(t, None, MobHealth, tick + FoeTicks), SpawnLoot(t, <<>>)}
  BY DEF Imprint, Free
<1>2. CASE t' = SpawnSummon(t, None, MobHealth, tick + FoeTicks)
  <2> DEFINE expire == tick + FoeTicks
  <2> HIDE DEF expire
  <2>1. None \in Sides /\ MobHealth \in Int /\ t' = SpawnSummon(t, None, MobHealth, expire)
    BY <1>2, Bounds DEF Sides, expire
  <2>2. World(t') /\ Same(t, t') /\ t'.last_attacker = t.last_attacker
    BY <2>1, SummonOK
  <2>3. IInv' /\ Unrevived /\ (Unhandled \/ UsesOne)
    BY <1>1, <2>2, PassKeep DEF Same, Passes
  <2>4. Unhandled
    BY <1>1, <2>2 DEF Unhandled, Same, Alike
  <2> QED BY <2>3, <2>4
<1>3. CASE t' = SpawnLoot(t, <<>>)
  <2> DEFINE none == <<>>
  <2>1. none \in Seq(Items)
    OBVIOUS
  <2>2. t' = SpawnLoot(t, none)
    BY <1>3
  <2> HIDE DEF none
  <2>3. /\ World(t') /\ t'.inventory = t.inventory /\ t'.respawn_at = t.respawn_at
        /\ t'.last_attacker = t.last_attacker /\ t.next \notin DOMAIN t.entities
        /\ t.next \notin DOMAIN t.loot /\ t'.loot = Put(t.loot, t.next, none)
        /\ \A i \in DOMAIN t.entities : i \in DOMAIN t'.entities /\ t'.entities[i] = t.entities[i]
    BY <2>1, <2>2, LootOK
  <2>4. DOMAIN t.inventory \subseteq DOMAIN t.entities
    BY DEF Bodies
  <2>5. Turns'
    BY <1>1, <2>3 DEF IInv, Turns
  <2>6. Abroad' /\ Awaiting' /\ Remembered' /\ CreditEarned'
    BY <1>1, <2>3, <2>4, Lasting
  <2>7. Unrevived
    <3>1. \A i \in DOMAIN t.entities \cap DOMAIN t'.entities :
            t'.entities[i].health <= t.entities[i].health
      BY <2>3, Unmoved DEF Ent
    <3> QED BY <2>3, <3>1, Untouched
  <2>8. Relic
    BY <1>1, <2>3 DEF Relic, BagsStay, none
  <2> QED BY <2>3, <2>5, <2>6, <2>7, <2>8 DEF IInv
<1> QED BY <1>1, <1>2, <1>3

LEMMA PickupStep ==
  ASSUME IInv, NEW piece \in todo, NEW i \in Living, PickupLoot(piece, i)
  PROVE  IInv' /\ Unrevived /\ Picks
<1> USE PassBegin
<1> DEFINE bag == t.inventory[i] \o t.loot[piece]
           v1 == [t EXCEPT !.inventory[i] = bag]
           v2 == [v1 EXCEPT !.loot = Restrict(@, DOMAIN @ \ {piece})]
<1>1. /\ pass = "loot" /\ pass' = pass /\ stack = <<>> /\ todo' = todo \ {piece}
      /\ i \in DOMAIN t.inventory
      /\ UNCHANGED <<tick, stack, ops, fallen, drops, away, log>>
  BY DEF PickupLoot, Free, IsRealPlayer
<1>2. t' = [v2 EXCEPT !.entities = Restrict(@, DOMAIN @ \ {piece})]
  BY DEF PickupLoot
<1>3. todo \subseteq DOMAIN t.loot /\ piece \in DOMAIN t.loot
  BY <1>1 DEF IInv, Turns
<1>4. bag \in Seq(Items)
  <2>1. t.inventory[i] \in Seq(Items) /\ t.loot[piece] \in Seq(Items)
    BY <1>1, <1>3 DEF World, Typed
  <2> QED BY <2>1, ConcatProperties
<1> HIDE DEF bag
<1>5. /\ DOMAIN v1 = Tables /\ v1.next = t.next /\ v1.entities = t.entities
      /\ v1.inventory = [t.inventory EXCEPT ![i] = bag]
      /\ v1.loot = t.loot /\ v1.respawn_at = t.respawn_at /\ v1.statuses = t.statuses
      /\ v1.shields = t.shields /\ v1.projectiles = t.projectiles /\ v1.mobs = t.mobs
      /\ v1.fields = t.fields /\ v1.scheduled = t.scheduled
      /\ v1.last_attacker = t.last_attacker
  BY Unmoved DEF Tables, ById
<1> HIDE DEF v1
<1>6. /\ DOMAIN v2 = Tables /\ v2.next = t.next /\ v2.entities = t.entities
      /\ v2.inventory = [t.inventory EXCEPT ![i] = bag]
      /\ v2.loot = Restrict(t.loot, DOMAIN t.loot \ {piece})
      /\ v2.respawn_at = t.respawn_at /\ v2.statuses = t.statuses
      /\ v2.shields = t.shields /\ v2.projectiles = t.projectiles /\ v2.mobs = t.mobs
      /\ v2.fields = t.fields /\ v2.scheduled = t.scheduled
      /\ v2.last_attacker = t.last_attacker
  BY <1>5 DEF Tables, ById
<1> HIDE DEF v2
<1>7. /\ DOMAIN t' = Tables /\ t'.next = t.next
      /\ t'.entities = Restrict(t.entities, DOMAIN t.entities \ {piece})
      /\ t'.inventory = [t.inventory EXCEPT ![i] = bag]
      /\ t'.loot = Restrict(t.loot, DOMAIN t.loot \ {piece})
      /\ t'.respawn_at = t.respawn_at /\ t'.statuses = t.statuses
      /\ t'.shields = t.shields /\ t'.projectiles = t.projectiles /\ t'.mobs = t.mobs
      /\ t'.fields = t.fields /\ t'.scheduled = t.scheduled
      /\ t'.last_attacker = t.last_attacker
  BY <1>2, <1>6 DEF Tables, ById
<1>8. /\ DOMAIN t'.entities = DOMAIN t.entities \ {piece}
      /\ \A j \in DOMAIN t'.entities : t'.entities[j] = t.entities[j]
      /\ DOMAIN t'.loot = DOMAIN t.loot \ {piece}
      /\ \A j \in DOMAIN t'.loot : t'.loot[j] = t.loot[j]
  BY <1>7, Restricting
<1>9. /\ DOMAIN t'.inventory = DOMAIN t.inventory
      /\ \A j \in DOMAIN t.inventory : t'.inventory[j] = IF j = i THEN bag ELSE t.inventory[j]
  BY <1>1, <1>7
<1>10. /\ piece \notin DOMAIN t.inventory /\ piece \notin DOMAIN t.mobs
       /\ piece \notin DOMAIN t.projectiles
       /\ DOMAIN t.inventory \subseteq DOMAIN t.entities
  BY <1>3 DEF World, Matched, Named
<1>11. World(t')
  <2>1. Typed(t')
    <3>1. \A j \in DOMAIN t'.inventory : t'.inventory[j] \in Seq(Items)
      BY <1>4, <1>9 DEF World, Typed
    <3> QED BY <1>7, <1>8, <3>1 DEF World, Typed
  <2>2. \A j \in DOMAIN t'.entities : Altered(t.entities[j], t'.entities[j])
    <3> TAKE j \in DOMAIN t'.entities
    <3>1. t.entities[j].health \in Int
      BY <1>8, Unmoved DEF Ent
    <3> QED BY <1>8, <3>1 DEF Altered
  <2>3. /\ DOMAIN t'.inventory = DOMAIN t.inventory \ {piece}
        /\ DOMAIN t'.mobs = DOMAIN t.mobs \ {piece}
        /\ DOMAIN t'.projectiles = DOMAIN t.projectiles \ {piece}
    BY <1>7, <1>9, <1>10
  <2> QED BY <1>7, <1>8, <2>1, <2>2, <2>3, Tended
<1>12. Turns'
  BY <1>1, <1>3, <1>8, <1>9 DEF IInv, Turns
<1>13. \A j \in DOMAIN t.inventory : t'.entities[j] = t.entities[j]
  BY <1>8, <1>10
<1>14. Abroad' /\ Awaiting' /\ Remembered' /\ CreditEarned'
  BY <1>1, <1>7, <1>9, <1>13, Lasting
<1>15. Unrevived
  <2>1. \A j \in DOMAIN t.entities \cap DOMAIN t'.entities :
          t'.entities[j].health <= t.entities[j].health
    BY <1>8, Unmoved DEF Ent
  <2> QED BY <1>11, <2>1, Untouched
<1>16. Picks
  BY <1>1, <1>3, <1>7, <1>8 DEF Picks, bag
<1> QED BY <1>11, <1>12, <1>14, <1>15, <1>16 DEF IInv

\* Those that are due rise again, whole.
LEMMA RespawnOK ==
  ASSUME NEW w, World(w), NEW ids \in SUBSET DOMAIN w.entities,
         NEW v, v = Respawned(w, ids)
  PROVE  /\ World(v) /\ DOMAIN v.entities = DOMAIN w.entities
         /\ \A i \in DOMAIN w.entities \ ids : v.entities[i] = w.entities[i]
         /\ \A i \in ids : ~v.entities[i].dead /\ v.entities[i].owner = w.entities[i].owner
         /\ v.inventory = w.inventory /\ v.loot = w.loot /\ v.next = w.next
         /\ DOMAIN v.respawn_at = DOMAIN w.respawn_at \ ids
         /\ \A i \in DOMAIN v.respawn_at : v.respawn_at[i] = w.respawn_at[i]
         /\ v.last_attacker = w.last_attacker
<1> DEFINE bodies == [i \in DOMAIN w.entities |-> IF i \in ids
                        THEN [w.entities[i] EXCEPT !.health = MaxHealth, !.dead = FALSE]
                        ELSE w.entities[i]]
           v1 == [w EXCEPT !.entities = bodies]
           v2 == [v1 EXCEPT !.statuses = Restrict(@, DOMAIN @ \ ids)]
           v3 == [v2 EXCEPT !.shields = Restrict(@, DOMAIN @ \ ids)]
<1>1. v = [v3 EXCEPT !.respawn_at = Restrict(@, DOMAIN @ \ ids)]
  BY Unmoved DEF Respawned, Tables, ById
<1>2. /\ DOMAIN bodies = DOMAIN w.entities
      /\ \A i \in DOMAIN w.entities \ ids : bodies[i] = w.entities[i]
      /\ \A i \in ids : /\ bodies[i] \in Ent /\ bodies[i].kind = w.entities[i].kind
                        /\ bodies[i].owner = w.entities[i].owner
                        /\ bodies[i].health = MaxHealth /\ ~bodies[i].dead
  <2>1. \A i \in ids : bodies[i] = [w.entities[i] EXCEPT !.health = MaxHealth, !.dead = FALSE]
    OBVIOUS
  <2>2. /\ DOMAIN bodies = DOMAIN w.entities
        /\ \A i \in DOMAIN w.entities \ ids : bodies[i] = w.entities[i]
    OBVIOUS
  <2> HIDE DEF bodies
  <2>3. ASSUME NEW i \in ids
        PROVE  /\ bodies[i] \in Ent /\ bodies[i].kind = w.entities[i].kind
               /\ bodies[i].owner = w.entities[i].owner
               /\ bodies[i].health = MaxHealth /\ ~bodies[i].dead
    <3> DEFINE d == w.entities[i]
               c == [d EXCEPT !.health = MaxHealth]
    <3>1. bodies[i] = [c EXCEPT !.dead = FALSE]
      BY <2>1
    <3>2. d \in Ent
      BY Unmoved
    <3>3. bodies[i] = [c EXCEPT !.dead = FALSE] /\ d \in Ent /\ MaxHealth \in Int
      BY <3>1, <3>2, Bounds
    <3> HIDE DEF d
    <3>4. c \in Ent /\ c.kind = d.kind /\ c.owner = d.owner /\ c.health = MaxHealth
      BY <3>3 DEF Ent
    <3> HIDE DEF c
    <3>5. /\ bodies[i] \in Ent /\ bodies[i].kind = d.kind /\ bodies[i].owner = d.owner
          /\ bodies[i].health = MaxHealth /\ ~bodies[i].dead
      BY <3>3, <3>4 DEF Ent
    <3> QED BY <3>5 DEF d
  <2> QED BY <2>2, <2>3
<1> HIDE DEF bodies
<1>3. /\ DOMAIN v1 = Tables /\ v1.next = w.next /\ v1.entities = bodies
      /\ v1.inventory = w.inventory
      /\ v1.loot = w.loot /\ v1.respawn_at = w.respawn_at /\ v1.statuses = w.statuses
      /\ v1.shields = w.shields /\ v1.projectiles = w.projectiles /\ v1.mobs = w.mobs
      /\ v1.fields = w.fields /\ v1.scheduled = w.scheduled
      /\ v1.last_attacker = w.last_attacker
  BY Unmoved DEF Tables, ById
<1> HIDE DEF v1
<1>4. /\ DOMAIN v2 = Tables /\ v2.next = w.next /\ v2.entities = bodies
      /\ v2.inventory = w.inventory
      /\ v2.loot = w.loot /\ v2.respawn_at = w.respawn_at
      /\ v2.statuses = Restrict(w.statuses, DOMAIN w.statuses \ ids)
      /\ v2.shields = w.shields /\ v2.projectiles = w.projectiles /\ v2.mobs = w.mobs
      /\ v2.fields = w.fields /\ v2.scheduled = w.scheduled
      /\ v2.last_attacker = w.last_attacker
  BY <1>3 DEF Tables, ById
<1> HIDE DEF v2
<1>5. /\ DOMAIN v3 = Tables /\ v3.next = w.next /\ v3.entities = bodies
      /\ v3.inventory = w.inventory
      /\ v3.loot = w.loot /\ v3.respawn_at = w.respawn_at
      /\ v3.statuses = Restrict(w.statuses, DOMAIN w.statuses \ ids)
      /\ v3.shields = Restrict(w.shields, DOMAIN w.shields \ ids)
      /\ v3.projectiles = w.projectiles /\ v3.mobs = w.mobs
      /\ v3.fields = w.fields /\ v3.scheduled = w.scheduled
      /\ v3.last_attacker = w.last_attacker
  BY <1>4 DEF Tables, ById
<1> HIDE DEF v3
<1>6. /\ DOMAIN v = Tables /\ v.next = w.next /\ v.entities = bodies
      /\ v.inventory = w.inventory /\ v.loot = w.loot
      /\ v.respawn_at = Restrict(w.respawn_at, DOMAIN w.respawn_at \ ids)
      /\ v.statuses = Restrict(w.statuses, DOMAIN w.statuses \ ids)
      /\ v.shields = Restrict(w.shields, DOMAIN w.shields \ ids)
      /\ v.projectiles = w.projectiles /\ v.mobs = w.mobs
      /\ v.fields = w.fields /\ v.scheduled = w.scheduled
      /\ v.last_attacker = w.last_attacker
  BY <1>1, <1>5 DEF Tables, ById
<1>7. /\ DOMAIN v.statuses \subseteq DOMAIN w.statuses
      /\ \A i \in DOMAIN v.statuses : v.statuses[i] = w.statuses[i]
      /\ DOMAIN v.shields \subseteq DOMAIN w.shields
      /\ \A i \in DOMAIN v.shields : v.shields[i] = w.shields[i]
      /\ DOMAIN v.respawn_at = DOMAIN w.respawn_at \ ids
      /\ \A i \in DOMAIN v.respawn_at : v.respawn_at[i] = w.respawn_at[i]
  BY <1>6, Restricting
<1>8. Typed(v)
  <2>1. \A i \in DOMAIN v.entities : v.entities[i] \in Ent
    BY <1>2, <1>6, Unmoved
  <2> QED BY <1>6, <1>7, <2>1 DEF World, Typed
<1>9. \A i \in DOMAIN v.entities : Altered(w.entities[i], v.entities[i])
  <2> TAKE i \in DOMAIN v.entities
  <2>1. w.entities[i].health \in Int
    BY <1>2, <1>6, Unmoved DEF Ent
  <2> QED BY <1>2, <1>6, <2>1, Bounds DEF Altered
<1>10. World(v)
  <2>1. /\ DOMAIN v.entities = DOMAIN w.entities \ {} /\ DOMAIN v.loot = DOMAIN w.loot \ {}
        /\ DOMAIN v.projectiles = DOMAIN w.projectiles \ {}
        /\ DOMAIN v.inventory = DOMAIN w.inventory \ {} /\ DOMAIN v.mobs = DOMAIN w.mobs \ {}
    BY <1>2, <1>6
  <2> QED BY <1>6, <1>8, <1>9, <2>1, Tended
<1> QED BY <1>2, <1>6, <1>7, <1>10

LEMMA TickEnds ==
  ASSUME IInv, EndTick
  PROVE  IInv' /\ Unrevived /\ Clears
<1> USE PassBegin
<1> DEFINE left == Forget(t, Expired(t))
           ids == Rising(left)
<1>1. /\ pass = "loot" /\ pass' = "idle" /\ stack = <<>> /\ todo' = {}
      /\ t' = Respawned(left, ids)
      /\ UNCHANGED <<tick, stack, ops, fallen, drops, away, log>>
  BY DEF EndTick, Free
<1>2. /\ World(left) /\ DOMAIN left.entities = DOMAIN t.entities \ Expired(t)
      /\ \A i \in DOMAIN left.entities : left.entities[i] = t.entities[i]
      /\ DOMAIN left.inventory = DOMAIN t.inventory \ Expired(t)
      /\ DOMAIN left.respawn_at = DOMAIN t.respawn_at \ Expired(t)
      /\ \A i \in DOMAIN left.respawn_at : left.respawn_at[i] = t.respawn_at[i]
      /\ DOMAIN left.last_attacker = DOMAIN t.last_attacker \ Expired(t)
      /\ \A i \in DOMAIN left.last_attacker : left.last_attacker[i] = t.last_attacker[i]
      /\ \A i \in DOMAIN left.inventory : left.inventory[i] = t.inventory[i]
      /\ DOMAIN left.loot = DOMAIN t.loot \ Expired(t)
      /\ \A i \in DOMAIN left.loot : left.loot[i] = t.loot[i]
  BY ForgetOK
<1> HIDE DEF left
<1>3. /\ ids \subseteq DOMAIN left.entities
      /\ \A i : i \in ids <=> /\ i \in DOMAIN left.respawn_at /\ i \in DOMAIN left.entities
                              /\ left.entities[i].dead /\ tick >= left.respawn_at[i]
  BY DEF Rising
<1> HIDE DEF ids
<1>4. /\ World(t') /\ DOMAIN t'.entities = DOMAIN left.entities
      /\ \A i \in DOMAIN left.entities \ ids : t'.entities[i] = left.entities[i]
      /\ \A i \in ids : ~t'.entities[i].dead /\ t'.entities[i].owner = left.entities[i].owner
      /\ t'.inventory = left.inventory /\ t'.loot = left.loot
      /\ DOMAIN t'.respawn_at = DOMAIN left.respawn_at \ ids
      /\ \A i \in DOMAIN t'.respawn_at : t'.respawn_at[i] = left.respawn_at[i]
      /\ t'.last_attacker = left.last_attacker
  BY <1>1, <1>2, <1>3, RespawnOK
<1>5. DOMAIN t.inventory \cap Expired(t) = {} /\ DOMAIN t.inventory \subseteq DOMAIN t.entities
  BY DEF Expired, World, Matched, Named
<1>6. /\ DOMAIN t'.inventory = DOMAIN t.inventory
      /\ \A i \in DOMAIN t.inventory :
           i \in DOMAIN left.entities /\ left.entities[i] = t.entities[i]
  BY <1>2, <1>4, <1>5
<1>7. Turns'
  BY <1>1, <1>6 DEF IInv, Turns, Passes
<1>8. Abroad'
  <2>1. \A i \in DOMAIN t.inventory : t'.entities[i].owner = t.entities[i].owner
    BY <1>4, <1>6
  <2> QED BY <1>1, <1>6, <2>1 DEF IInv, Abroad
<1>9. Awaiting'
  <2> SUFFICES ASSUME NEW i \in DOMAIN t.inventory, t'.entities[i].dead, i \notin log.stranded
               PROVE  /\ i \in DOMAIN t'.respawn_at
                      /\ t'.respawn_at[i] \in tick + 1 .. tick + RespawnTicks
    BY <1>1, <1>6 DEF Awaiting, Idle
  <2>1. i \notin ids /\ t.entities[i].dead
    BY <1>4, <1>6
  <2>2. i \in DOMAIN t.respawn_at /\ t.respawn_at[i] \in tick .. tick + RespawnTicks
    BY <1>1, <2>1 DEF IInv, Awaiting, Idle
  <2>3. i \in DOMAIN left.respawn_at /\ left.respawn_at[i] = t.respawn_at[i]
    BY <1>2, <1>5, <2>2
  <2>4. ~(tick >= left.respawn_at[i])
    BY <1>3, <1>6, <2>1, <2>3
  <2>5. i \in DOMAIN t'.respawn_at /\ t'.respawn_at[i] = t.respawn_at[i]
    BY <1>4, <2>1, <2>3
  <2> QED BY <2>2, <2>3, <2>4, <2>5, Bounds
<1>10. Remembered' /\ CreditEarned'
  BY <1>1, <1>2, <1>4 DEF IInv, Remembered, CreditEarned
<1>11. Unrevived
  <2> SUFFICES ASSUME NEW i \in DOMAIN t.entities, i \in DOMAIN t'.entities,
                      t.entities[i].health <= 0, t'.entities[i].health > 0
               PROVE  i \in DOMAIN t.respawn_at /\ tick >= t.respawn_at[i]
    BY <1>1 DEF Unrevived
  <2>1. /\ i \in DOMAIN left.entities /\ left.entities[i] = t.entities[i]
        /\ t.entities[i].health \in Int
    BY <1>2, <1>4, Unmoved DEF Ent
  <2>2. i \in ids
    BY <1>4, <2>1
  <2> QED BY <1>2, <1>3, <2>2
<1>12. Clears
  <2>1. DOMAIN t.loot \cap Expired(t) = {}
    BY DEF Expired, World, Matched, Named
  <2>2. BagsStay /\ LootStays
    BY <1>2, <1>4, <1>5, <2>1 DEF BagsStay, LootStays
  <2> QED BY <1>1, <2>2 DEF Clears
<1> QED BY <1>4, <1>7, <1>8, <1>9, <1>10, <1>11, <1>12 DEF IInv
-----------------------------------------------------------------------------
(* What happens between ticks. *)

\* A body for a player that has none.
Embodies(w, v, e, bag) ==
  /\ World(w)
  /\ e \in Ent /\ e.kind = "player" /\ e.owner \in Owner /\ e.health <= MaxHealth
  /\ bag \in Seq(Items)
  /\ \A i \in DOMAIN w.inventory : w.entities[i].owner # e.owner
  /\ DOMAIN v = Tables /\ v.next = w.next + 1
  /\ v.entities = Put(w.entities, w.next, e) /\ v.inventory = Put(w.inventory, w.next, bag)
  /\ v.loot = w.loot /\ v.projectiles = w.projectiles /\ v.mobs = w.mobs
  /\ v.fields = w.fields /\ v.scheduled = w.scheduled
  /\ \A i \in DOMAIN v.statuses : \A s \in DOMAIN v.statuses[i] : v.statuses[i][s] \in Inst
  /\ \A i \in DOMAIN v.shields : v.shields[i] \in Cover

LEMMA Embodied ==
  ASSUME NEW w, NEW v, NEW e, NEW bag, Embodies(w, v, e, bag)
  PROVE  /\ World(v) /\ w.next \notin DOMAIN w.entities /\ v.entities[w.next] = e
         /\ \A i \in DOMAIN w.entities : i \in DOMAIN v.entities /\ v.entities[i] = w.entities[i]
         /\ DOMAIN v.entities = DOMAIN w.entities \cup {w.next}
         /\ DOMAIN v.inventory = DOMAIN w.inventory \cup {w.next}
         /\ w.next \notin DOMAIN w.inventory /\ DOMAIN w.inventory \subseteq DOMAIN w.entities
<1> USE DEF Embodies
<1>1. /\ Sized(v) /\ w.next \notin DOMAIN w.entities /\ v.entities[w.next] = e
      /\ DOMAIN v.entities = DOMAIN w.entities \cup {w.next}
      /\ \A i \in DOMAIN w.entities : v.entities[i] = w.entities[i]
      /\ \A i \in DOMAIN v.entities : v.entities[i] \in Ent
      /\ \A kind : Named(v, kind) =
           Named(w, kind) \cup (IF e.kind = kind THEN {w.next} ELSE {})
  <2>1. Sized(w) /\ \A i \in DOMAIN w.entities : w.entities[i] \in Ent
    BY Unmoved DEF World
  <2>2. w.next \notin DOMAIN w.entities /\ w.next \in Nat \ {0}
    BY <2>1 DEF Sized
  <2>3. /\ DOMAIN v.entities = DOMAIN w.entities \cup {w.next}
        /\ v.entities[w.next] = e
        /\ \A i \in DOMAIN w.entities : v.entities[i] = w.entities[i]
    BY <2>2 DEF Put
  <2>4. Sized(v)
    BY <2>1, <2>2, <2>3 DEF Sized
  <2>5. \A i \in DOMAIN v.entities : v.entities[i] \in Ent
    BY <2>1, <2>3
  <2>6. \A kind : Named(v, kind) =
          Named(w, kind) \cup (IF e.kind = kind THEN {w.next} ELSE {})
    BY <2>2, <2>3 DEF Named
  <2> QED BY <2>2, <2>3, <2>4, <2>5, <2>6
<1>2. /\ DOMAIN v.inventory = DOMAIN w.inventory \cup {w.next} /\ v.inventory[w.next] = bag
      /\ \A i \in DOMAIN w.inventory \ {w.next} : v.inventory[i] = w.inventory[i]
  BY DEF Put
<1>3. /\ DOMAIN w.inventory \subseteq DOMAIN w.entities /\ DOMAIN w.mobs \subseteq DOMAIN w.entities
      /\ w.next \notin DOMAIN w.inventory
  BY <1>1 DEF World, Matched, Named
<1>4. Typed(v)
  <2>1. \A i \in DOMAIN v.inventory : v.inventory[i] \in Seq(Items)
    BY <1>2 DEF World, Typed
  <2> QED BY <1>1, <2>1 DEF World, Typed
<1>5. /\ Named(v, "projectile") = Named(w, "projectile") /\ Named(v, "pickup") = Named(w, "pickup")
      /\ Named(v, "player") = Named(w, "player") \cup {w.next}
  BY <1>1, ZenonT(60)
<1>6. Matched(v)
  BY <1>1, <1>2, <1>3, <1>5 DEF World, Matched
<1>7. Played(v)
  <2>1. \A i \in DOMAIN v.inventory :
          v.entities[i].owner \in Owner /\ v.entities[i].health <= MaxHealth
    BY <1>1, <1>2, <1>3 DEF World, Played
  <2>2. \A i, j \in DOMAIN v.inventory : v.entities[i].owner = v.entities[j].owner => i = j
    BY <1>1, <1>2, <1>3 DEF World, Played
  <2>3. \A i \in DOMAIN v.mobs : v.entities[i].owner = None
    BY <1>1, <1>3 DEF World, Played
  <2> QED BY <2>1, <2>2, <2>3 DEF Played
<1> QED BY <1>1, <1>2, <1>3, <1>4, <1>6, <1>7 DEF World

\* Between ticks nothing is under way; a player's body is the only one of its owner.
LEMMA IdleBegin ==
  ASSUME IInv, Idle
  PROVE  /\ pass = "idle" /\ stack = <<>> /\ todo = {} /\ fallen = {} /\ drops = <<>>
         /\ World(t) /\ Bodies = DOMAIN t.inventory \cup DOMAIN t.mobs
         /\ \A o \in Owner : EntityOf(o) = {i \in DOMAIN t.inventory : t.entities[i].owner = o}
<1>1. Bodies = DOMAIN t.inventory \cup DOMAIN t.mobs
  BY DEF IInv, World, Matched, Named, Bodies
<1>2. \A o \in Owner : EntityOf(o) = {i \in DOMAIN t.inventory : t.entities[i].owner = o}
  <2>1. \A i \in DOMAIN t.mobs : t.entities[i].owner \notin Owner
    BY Players DEF IInv, World, Played
  <2> QED BY <1>1, <2>1 DEF EntityOf
<1> QED BY <1>1, <1>2 DEF IInv, Turns, Idle

\* What is the same for whoever comes into the world.
LEMMA Arriving ==
  ASSUME IInv, Idle, World(t'), NEW o \in Owner, NEW i, i \notin DOMAIN t.entities,
         \A j \in DOMAIN t.entities : j \in DOMAIN t'.entities /\ t'.entities[j] = t.entities[j],
         DOMAIN t'.entities = DOMAIN t.entities \cup {i},
         DOMAIN t'.inventory = DOMAIN t.inventory \cup {i},
         t'.entities[i].owner = o, o \in log'.joined,
         \A j \in DOMAIN t.inventory : t.entities[j].owner # o,
         DOMAIN away' = DOMAIN away \ {o}, \A p \in DOMAIN away' : away'[p] = away[p],
         t'.entities[i].dead => i \in log'.stranded,
         \A j \in DOMAIN t.respawn_at \ {i} :
           j \in DOMAIN t'.respawn_at /\ t'.respawn_at[j] = t.respawn_at[j],
         t'.last_attacker = t.last_attacker,
         UNCHANGED <<tick, pass, todo, stack, ops, fallen, drops>>,
         DOMAIN log' = DOMAIN log, log.joined \subseteq log'.joined, log'.joined \subseteq Owner,
         log'.struck = log.struck, log'.slain = log.slain, log.stranded \subseteq log'.stranded
  PROVE  IInv' /\ Unrevived
<1> USE IdleBegin
<1>1. DOMAIN t.inventory \subseteq DOMAIN t.entities
  BY DEF World, Matched, Named
<1>2. Turns'
  <2>1. <<>> \in Seq(Frames(DOMAIN t'.inventory))
    OBVIOUS
  <2> QED BY <2>1 DEF IInv, Turns
<1>3. Abroad'
  BY <1>1 DEF IInv, Abroad
<1>4. Awaiting'
  <2> SUFFICES ASSUME NEW j \in DOMAIN t'.inventory, t'.entities[j].dead, j \notin log'.stranded
               PROVE  /\ j \in DOMAIN t'.respawn_at
                      /\ t'.respawn_at[j] \in tick + 1 .. tick + RespawnTicks
    BY DEF Awaiting, Idle
  <2>1. j \in DOMAIN t.inventory /\ j # i /\ t.entities[j].dead /\ j \notin log.stranded
    BY <1>1
  <2>2. j \in DOMAIN t.respawn_at /\ t.respawn_at[j] \in tick + 1 .. tick + RespawnTicks
    BY <2>1 DEF IInv, Awaiting
  <2> QED BY <2>1, <2>2
<1>5. Remembered' /\ CreditEarned'
  BY DEF IInv, Remembered, CreditEarned
<1>6. Unrevived
  <2>1. \A j \in DOMAIN t.entities \cap DOMAIN t'.entities :
          t'.entities[j].health <= t.entities[j].health
    BY Unmoved DEF Ent
  <2> QED BY <2>1, Untouched
<1> QED BY <1>2, <1>3, <1>4, <1>5, <1>6 DEF IInv

LEMMA SpawnStep ==
  ASSUME IInv, NEW o \in Owner, SpawnPlayer(o)
  PROVE  IInv' /\ Unrevived /\ Brings(o)
<1> DEFINE e == Entity("player", o, Team[o], MaxHealth)
           v1 == AddBody(t, "player", o, Team[o], MaxHealth)
<1>1. /\ Idle /\ o \notin log.joined
      /\ t' = [v1 EXCEPT !.inventory = Put(@, t.next, Kit[o])]
      /\ log' = [log EXCEPT !.joined = @ \cup {o}]
      /\ UNCHANGED <<tick, pass, todo, stack, ops, fallen, drops, away>>
  BY DEF SpawnPlayer
<1> USE IdleBegin
<1>2. e \in Ent /\ e.kind = "player" /\ e.owner = o /\ e.health = MaxHealth /\ ~e.dead
  BY Bounds DEF Entity, Ent, Sides
<1> HIDE DEF e
<1>3. /\ DOMAIN v1 = Tables /\ v1.next = t.next + 1 /\ v1.entities = Put(t.entities, t.next, e)
      /\ v1.inventory = t.inventory
      /\ v1.loot = t.loot /\ v1.respawn_at = t.respawn_at /\ v1.statuses = t.statuses
      /\ v1.shields = t.shields /\ v1.projectiles = t.projectiles /\ v1.mobs = t.mobs
      /\ v1.fields = t.fields /\ v1.scheduled = t.scheduled
      /\ v1.last_attacker = t.last_attacker
  BY <1>1, Unmoved DEF AddBody, Tables, ById, e
<1> HIDE DEF v1
<1>4. /\ DOMAIN t' = Tables /\ t'.next = t.next + 1 /\ t'.entities = Put(t.entities, t.next, e)
      /\ t'.inventory = Put(t.inventory, t.next, Kit[o])
      /\ t'.loot = t.loot /\ t'.respawn_at = t.respawn_at /\ t'.statuses = t.statuses
      /\ t'.shields = t.shields /\ t'.projectiles = t.projectiles /\ t'.mobs = t.mobs
      /\ t'.fields = t.fields /\ t'.scheduled = t.scheduled
      /\ t'.last_attacker = t.last_attacker
  BY <1>1, <1>3 DEF Tables, ById
<1>5. Kit[o] \in Seq(Items)
  BY Players
<1>6. \A i \in DOMAIN t.inventory : t.entities[i].owner # e.owner
  BY <1>1, <1>2 DEF IInv, Abroad
<1>7. /\ \A i \in DOMAIN t'.statuses : \A s \in DOMAIN t'.statuses[i] : t'.statuses[i][s] \in Inst
      /\ \A i \in DOMAIN t'.shields : t'.shields[i] \in Cover
  BY <1>1, <1>4 DEF World, Typed
<1>8. e.health <= MaxHealth /\ e.owner \in Owner
  BY <1>2, Bounds
<1>9. World(t)
  BY <1>1
<1> DEFINE bag == Kit[o]
<1> HIDE DEF bag
<1>10. bag \in Seq(Items) /\ t'.inventory = Put(t.inventory, t.next, bag)
  BY <1>4, <1>5 DEF bag
<1>11. /\ World(t') /\ t.next \notin DOMAIN t.entities /\ t'.entities[t.next] = e
       /\ \A i \in DOMAIN t.entities : i \in DOMAIN t'.entities /\ t'.entities[i] = t.entities[i]
       /\ DOMAIN t'.entities = DOMAIN t.entities \cup {t.next}
       /\ DOMAIN t'.inventory = DOMAIN t.inventory \cup {t.next}
  <2>1. Embodies(t, t', e, bag)
    BY <1>2, <1>4, <1>6, <1>7, <1>8, <1>9, <1>10 DEF Embodies
  <2> QED BY <2>1, Embodied
<1>12. /\ DOMAIN log' = DOMAIN log /\ log'.joined = log.joined \cup {o}
       /\ log'.struck = log.struck /\ log'.slain = log.slain /\ log'.stranded = log.stranded
       /\ log'.used = log.used /\ log'.lost = log.lost
  BY <1>1 DEF IInv, Remembered
<1>13. /\ log'.joined \subseteq Owner /\ DOMAIN away' = DOMAIN away \ {o}
       /\ \A p \in DOMAIN away' : away'[p] = away[p]
  BY <1>1, <1>12 DEF IInv, Abroad
<1>14. \A j \in DOMAIN t.respawn_at \ {t.next} :
         j \in DOMAIN t'.respawn_at /\ t'.respawn_at[j] = t.respawn_at[j]
  BY <1>4
<1>15. Brings(o)
  <2>1. DOMAIN t.inventory \subseteq DOMAIN t.entities
    BY <1>9 DEF World, Matched, Named
  <2> QED BY <1>1, <1>4, <1>11, <1>12, <2>1 DEF Brings
<1> DEFINE i == t.next
<1>16. /\ i \notin DOMAIN t.entities /\ t'.entities[i] = e
       /\ DOMAIN t'.entities = DOMAIN t.entities \cup {i}
       /\ DOMAIN t'.inventory = DOMAIN t.inventory \cup {i}
  BY <1>11
<1>17. \A j \in DOMAIN t.respawn_at \ {i} :
         j \in DOMAIN t'.respawn_at /\ t'.respawn_at[j] = t.respawn_at[j]
  BY <1>14
<1> HIDE DEF i
<1>18. \A j \in DOMAIN t.inventory : t.entities[j].owner # o
  BY <1>2, <1>6
<1>19. IInv' /\ Unrevived
  BY <1>1, <1>2, <1>4, <1>18, <1>11, <1>12, <1>13, <1>16, <1>17, Arriving
<1> QED BY <1>15, <1>19

LEMMA LeaveStep ==
  ASSUME IInv, NEW o \in Owner, Leave(o)
  PROVE  IInv' /\ Unrevived /\ Packs
<1>1. PICK i \in EntityOf(o) : away' = Put(away, o, Checkpoint(i)) /\ t' = Forget(t, {i})
  BY DEF Leave
<1>2. Idle /\ UNCHANGED <<tick, pass, todo, stack, ops, fallen, drops, log>>
  BY DEF Leave
<1> USE IdleBegin
<1>3. i \in DOMAIN t.inventory /\ t.entities[i].owner = o /\ i \in DOMAIN t.entities
  BY <1>1, <1>2 DEF World, Matched, Named
<1>4. /\ World(t') /\ DOMAIN t'.entities = DOMAIN t.entities \ {i}
      /\ \A j \in DOMAIN t'.entities : t'.entities[j] = t.entities[j]
      /\ DOMAIN t'.inventory = DOMAIN t.inventory \ {i}
      /\ DOMAIN t'.respawn_at = DOMAIN t.respawn_at \ {i}
      /\ \A j \in DOMAIN t'.respawn_at : t'.respawn_at[j] = t.respawn_at[j]
      /\ DOMAIN t'.last_attacker = DOMAIN t.last_attacker \ {i}
      /\ \A j \in DOMAIN t'.last_attacker : t'.last_attacker[j] = t.last_attacker[j]
      /\ \A j \in DOMAIN t'.inventory : t'.inventory[j] = t.inventory[j]
      /\ DOMAIN t'.loot = DOMAIN t.loot \ {i}
      /\ \A j \in DOMAIN t'.loot : t'.loot[j] = t.loot[j]
  BY <1>1, <1>2, ForgetOK
<1>5. Saved(Checkpoint(i), o)
  <2>1. /\ t.entities[i] \in Ent /\ t.entities[i].kind = "player"
        /\ t.entities[i].health <= MaxHealth /\ t.inventory[i] \in Seq(Items)
    BY <1>2, <1>3 DEF World, Typed, Matched, Named, Played
  <2>2. \A s \in DOMAIN Row(t.statuses, i, <<>>) : Row(t.statuses, i, <<>>)[s] \in Inst
    BY <1>2 DEF Row, World, Typed
  <2>3. Row(t.shields, i, None) = None \/ Row(t.shields, i, None) \in Cover
    BY <1>2 DEF Row, World, Typed
  <2> QED BY <1>3, <2>1, <2>2, <2>3 DEF Saved, Checkpoint
<1>6. /\ DOMAIN away' = DOMAIN away \cup {o} /\ away'[o] = Checkpoint(i)
      /\ \A p \in DOMAIN away \ {o} : away'[p] = away[p]
  BY <1>1 DEF Put
<1>7. /\ DOMAIN t'.inventory \subseteq DOMAIN t'.entities
      /\ DOMAIN t.inventory \subseteq DOMAIN t.entities
  BY <1>2, <1>4 DEF World, Matched, Named
<1>8. Turns'
  <2>1. <<>> \in Seq(Frames(DOMAIN t'.inventory))
    OBVIOUS
  <2> QED BY <1>2, <2>1 DEF IInv, Turns
<1>9. Abroad'
  <2>1. o \in log.joined
    BY <1>3 DEF IInv, Abroad
  <2>2. \A j \in DOMAIN t'.inventory : t.entities[j].owner # o
    BY <1>2, <1>3, <1>4 DEF World, Played
  <2>3. \A p \in DOMAIN away' : Saved(away'[p], p)
    BY <1>5, <1>6 DEF IInv, Abroad
  <2>4. \A j \in DOMAIN t'.inventory :
          t'.entities[j].owner \in log.joined /\ t'.entities[j].owner \notin DOMAIN away'
    BY <1>4, <1>6, <1>7, <2>2 DEF IInv, Abroad
  <2> QED BY <1>2, <1>6, <2>1, <2>3, <2>4 DEF IInv, Abroad
<1>10. Awaiting'
  BY <1>2, <1>4, <1>7 DEF IInv, Awaiting, Idle
<1>11. Remembered' /\ CreditEarned'
  BY <1>2, <1>4 DEF IInv, Remembered, CreditEarned
<1>12. Unrevived
  <2>1. \A j \in DOMAIN t.entities \cap DOMAIN t'.entities :
          t'.entities[j].health <= t.entities[j].health
    BY <1>2, <1>4, Unmoved DEF Ent
  <2> QED BY <1>2, <1>4, <2>1, Untouched
<1>13. Packs
  <2>1. i \notin DOMAIN t.loot
    BY <1>2, <1>3 DEF World, Matched, Named
  <2>2. LootStays
    BY <1>4, <2>1 DEF LootStays
  <2>3. o \notin DOMAIN away
    BY <1>3 DEF IInv, Abroad
  <2>4. away'[o].inventory = t.inventory[i]
    BY <1>6 DEF Checkpoint
  <2> QED BY <1>2, <1>3, <1>4, <1>6, <2>2, <2>3, <2>4 DEF Packs
<1> QED BY <1>4, <1>8, <1>9, <1>10, <1>11, <1>12, <1>13 DEF IInv

\* A player that is away has no body: it comes back with one of its own.
LEMMA Bodiless ==
  ASSUME IInv, Idle, NEW o \in DOMAIN away
  PROVE  /\ o \in Owner /\ BodyFor(o) = t.next /\ Saved(away[o], o)
         /\ o \in log.joined /\ \A i \in DOMAIN t.inventory : t.entities[i].owner # o
<1>1. /\ o \in Owner /\ Saved(away[o], o) /\ o \in log.joined
      /\ \A i \in DOMAIN t.inventory : t.entities[i].owner # o
  BY DEF IInv, Abroad
<1>2. EntityOf(o) = {}
  BY <1>1, IdleBegin
<1> QED BY <1>1, <1>2 DEF BodyFor

LEMMA ArrivedOK ==
  ASSUME IInv, NEW o \in DOMAIN away, NEW i, NEW lost, Arrived(o, i, lost)
  PROVE  /\ DOMAIN away' = DOMAIN away \ {o} /\ \A p \in DOMAIN away' : away'[p] = away[p]
         /\ DOMAIN log' = DOMAIN log /\ log'.joined = log.joined
         /\ log'.struck = log.struck /\ log'.slain = log.slain
         /\ log'.used = log.used /\ log'.lost = log.lost \cup lost
         /\ log.stranded \subseteq log'.stranded
         /\ away[o].state.dead => i \in log'.stranded
         /\ UNCHANGED <<tick, pass, todo, stack, ops, fallen, drops>>
<1>1. DOMAIN log = {"joined", "struck", "slain", "used", "lost", "stranded", "cast"}
  BY DEF IInv, Remembered
<1>2. /\ away' = Restrict(away, DOMAIN away \ {o})
      /\ log' = [log EXCEPT !.lost = @ \cup lost,
                            !.stranded = IF away[o].state.dead THEN @ \cup {i} ELSE @]
      /\ UNCHANGED <<tick, pass, todo, stack, ops, fallen, drops>>
  BY DEF Arrived
<1>3. DOMAIN away' = DOMAIN away \ {o} /\ \A p \in DOMAIN away' : away'[p] = away[p]
  BY <1>2 DEF Restrict
<1>4. /\ DOMAIN log' = DOMAIN log /\ log'.joined = log.joined
      /\ log'.struck = log.struck /\ log'.slain = log.slain
      /\ log'.used = log.used /\ log'.lost = log.lost \cup lost
      /\ log'.stranded = IF away[o].state.dead THEN log.stranded \cup {i} ELSE log.stranded
  BY <1>1, <1>2
<1> QED BY <1>2, <1>3, <1>4

LEMMA MaybeOK ==
  ASSUME NEW f, NEW S, \A j \in DOMAIN f : f[j] \in S, NEW i, NEW v, v = None \/ v \in S
  PROVE  \A j \in DOMAIN Maybe(f, i, v) : Maybe(f, i, v)[j] \in S
<1>1. CASE v = None
  BY <1>1 DEF Maybe, Restrict
<1>2. CASE v # None
  BY <1>2 DEF Maybe, Put
<1> QED BY <1>1, <1>2

LEMMA ImportStep ==
  ASSUME IInv, NEW o \in Owner, ImportPlayer(o)
  PROVE  IInv' /\ Unrevived /\ Unpacks
<1> DEFINE c == away[o]
           i == t.next
           e == c.state
           bag == c.inventory
           row == IF c.statuses = <<>> THEN None ELSE c.statuses
           statuses == Maybe(t.statuses, i, row)
           shields == Maybe(t.shields, i, c.shield)
           marks == Maybe(t.marks, i, c.marks)
           ready == Put(t.ready, i, c.ready)
           respawns == Restrict(t.respawn_at, DOMAIN t.respawn_at \ {i})
<1>1. Idle /\ o \in DOMAIN away
  BY DEF ImportPlayer
<1> USE IdleBegin
<1>2. /\ BodyFor(o) = i /\ Saved(c, o) /\ o \in log.joined
      /\ \A j \in DOMAIN t.inventory : t.entities[j].owner # o
  BY <1>1, Bodiless
<1>3. t' = [t EXCEPT
             !.entities = Put(@, i, e), !.inventory = Put(@, i, bag),
             !.statuses = Maybe(@, i, row), !.shields = Maybe(@, i, c.shield),
             !.marks = Maybe(@, i, c.marks), !.ready = Put(@, i, c.ready),
             !.respawn_at = Restrict(@, DOMAIN @ \ {i}),
             !.next = IF i = @ THEN @ + 1 ELSE @]
  BY <1>2 DEF ImportPlayer
<1>4. /\ DOMAIN t' = Tables /\ t'.next = t.next + 1 /\ t'.entities = Put(t.entities, i, e)
      /\ t'.inventory = Put(t.inventory, i, bag) /\ t'.loot = t.loot
      /\ t'.respawn_at = respawns /\ t'.statuses = statuses
      /\ t'.shields = shields /\ t'.projectiles = t.projectiles /\ t'.mobs = t.mobs
      /\ t'.fields = t.fields /\ t'.scheduled = t.scheduled
      /\ t'.last_attacker = t.last_attacker
  BY <1>1, <1>3, Unmoved DEF Tables, ById
<1>5. /\ e \in Ent /\ e.kind = "player" /\ e.owner = o /\ e.health <= MaxHealth
      /\ bag \in Seq(Items) /\ (c.shield = None \/ c.shield \in Cover)
      /\ \A s \in DOMAIN c.statuses : c.statuses[s] \in Inst
  BY <1>2 DEF Saved
<1>6. \A j \in DOMAIN shields : shields[j] \in Cover
  <2>1. \A j \in DOMAIN t.shields : t.shields[j] \in Cover
    BY <1>1 DEF World, Typed
  <2> QED BY <1>5, <2>1, MaybeOK
<1>7. \A j \in DOMAIN statuses : \A s \in DOMAIN statuses[j] : statuses[j][s] \in Inst
  <2>1. \A j \in DOMAIN t.statuses : \A s \in DOMAIN t.statuses[j] : t.statuses[j][s] \in Inst
    BY <1>1 DEF World, Typed
  <2>2. CASE row = None
    BY <2>1, <2>2 DEF Maybe, Restrict
  <2>3. CASE row # None
    <3>1. row = c.statuses /\ statuses = Put(t.statuses, i, row)
      BY <2>3 DEF Maybe
    <3> HIDE DEF row, statuses, c
    <3> QED BY <1>5, <2>1, <3>1 DEF Put
  <2> QED BY <2>2, <2>3
<1>8. \A j \in DOMAIN t.respawn_at \ {i} :
        j \in DOMAIN respawns /\ respawns[j] = t.respawn_at[j]
  BY DEF Restrict
<1> HIDE DEF e, bag, row, statuses, shields, marks, ready, respawns
<1>9. Embodies(t, t', e, bag)
  BY <1>1, <1>2, <1>4, <1>5, <1>6, <1>7 DEF Embodies
<1>10. /\ World(t') /\ i \notin DOMAIN t.entities /\ t'.entities[i] = e
       /\ \A j \in DOMAIN t.entities : j \in DOMAIN t'.entities /\ t'.entities[j] = t.entities[j]
       /\ DOMAIN t'.entities = DOMAIN t.entities \cup {i}
       /\ DOMAIN t'.inventory = DOMAIN t.inventory \cup {i}
  BY <1>9, Embodied
<1>11. Arrived(o, i, {})
  BY <1>2 DEF ImportPlayer
<1>12. Unpacks
  <2>1. i \notin DOMAIN t.inventory
    BY <1>1, <1>10 DEF World, Matched, Named
  <2>2. /\ DOMAIN away' = DOMAIN away \ {o} /\ \A p \in DOMAIN away' : away'[p] = away[p]
        /\ log'.joined = log.joined /\ log'.used = log.used /\ drops' = drops
        /\ log'.lost = log.lost \cup {}
    BY <1>1, <1>11, ArrivedOK
  <2>3. log.lost \cup {} = log.lost
    OBVIOUS
  <2> QED BY <1>1, <1>4, <2>1, <2>2, <2>3 DEF Unpacks, Returns, bag
<1> HIDE DEF i
<1>13. /\ DOMAIN away' = DOMAIN away \ {o} /\ \A p \in DOMAIN away' : away'[p] = away[p]
       /\ DOMAIN log' = DOMAIN log /\ log'.joined = log.joined
       /\ log'.struck = log.struck /\ log'.slain = log.slain
       /\ log.stranded \subseteq log'.stranded
       /\ c.state.dead => i \in log'.stranded
       /\ UNCHANGED <<tick, pass, todo, stack, ops, fallen, drops>>
  BY <1>1, <1>11, ArrivedOK
<1>14. /\ log'.joined \subseteq Owner /\ o \in log'.joined
       /\ t'.entities[i].owner = o /\ (t'.entities[i].dead => i \in log'.stranded)
  BY <1>2, <1>5, <1>10, <1>13 DEF IInv, Abroad, e
<1>15. IInv' /\ Unrevived
  BY <1>1, <1>2, <1>4, <1>8, <1>10, <1>13, <1>14, Arriving
<1> QED BY <1>12, <1>15

LEMMA SeedStep ==
  ASSUME IInv, NEW o \in Owner, SeedPlayer(o)
  PROVE  IInv' /\ Unrevived /\ Abandons
<1> DEFINE c == away[o]
           i == t.next
           e == c.state
           bag == <<>>
<1>1. Idle /\ o \in DOMAIN away
  BY DEF SeedPlayer
<1> USE IdleBegin
<1>2. /\ BodyFor(o) = i /\ Saved(c, o) /\ o \in log.joined
      /\ \A j \in DOMAIN t.inventory : t.entities[j].owner # o
  BY <1>1, Bodiless
<1>3. i \notin DOMAIN t.inventory
  BY <1>1 DEF World, Sized, Matched, Named
<1>4. t' = [t EXCEPT
             !.entities = Put(@, i, e),
             !.inventory = IF i \in DOMAIN @ THEN @ ELSE Put(@, i, <<>>),
             !.next = IF i = @ THEN @ + 1 ELSE @]
  BY <1>2 DEF SeedPlayer
<1>5. /\ DOMAIN t' = Tables /\ t'.next = t.next + 1 /\ t'.entities = Put(t.entities, i, e)
      /\ t'.inventory = Put(t.inventory, i, bag) /\ t'.loot = t.loot
      /\ t'.respawn_at = t.respawn_at /\ t'.statuses = t.statuses
      /\ t'.shields = t.shields /\ t'.projectiles = t.projectiles /\ t'.mobs = t.mobs
      /\ t'.fields = t.fields /\ t'.scheduled = t.scheduled
      /\ t'.last_attacker = t.last_attacker
  BY <1>1, <1>3, <1>4, Unmoved DEF Tables, ById
<1>6. /\ e \in Ent /\ e.kind = "player" /\ e.owner = o /\ e.health <= MaxHealth
      /\ bag \in Seq(Items)
  BY <1>2 DEF Saved
<1>7. /\ \A j \in DOMAIN t'.statuses : \A s \in DOMAIN t'.statuses[j] : t'.statuses[j][s] \in Inst
      /\ \A j \in DOMAIN t'.shields : t'.shields[j] \in Cover
  BY <1>1, <1>5 DEF World, Typed
<1> HIDE DEF e, bag
<1>8. Embodies(t, t', e, bag)
  BY <1>1, <1>2, <1>5, <1>6, <1>7 DEF Embodies
<1>9. /\ World(t') /\ i \notin DOMAIN t.entities /\ t'.entities[i] = e
      /\ \A j \in DOMAIN t.entities : j \in DOMAIN t'.entities /\ t'.entities[j] = t.entities[j]
      /\ DOMAIN t'.entities = DOMAIN t.entities \cup {i}
      /\ DOMAIN t'.inventory = DOMAIN t.inventory \cup {i}
  BY <1>8, Embodied
<1> DEFINE lost == ToSet(away[o].inventory)
<1>10. Arrived(o, i, lost)
  BY <1>2 DEF SeedPlayer
<1>11. Abandons
  <2>1. /\ DOMAIN away' = DOMAIN away \ {o} /\ \A p \in DOMAIN away' : away'[p] = away[p]
        /\ log'.joined = log.joined /\ log'.used = log.used /\ log'.lost = log.lost \cup lost
        /\ drops' = drops
    BY <1>1, <1>10, ArrivedOK
  <2> QED BY <1>1, <1>3, <1>5, <2>1 DEF Abandons, Returns, bag
<1> HIDE DEF i, lost
<1>12. /\ DOMAIN away' = DOMAIN away \ {o} /\ \A p \in DOMAIN away' : away'[p] = away[p]
       /\ DOMAIN log' = DOMAIN log /\ log'.joined = log.joined
       /\ log'.struck = log.struck /\ log'.slain = log.slain
       /\ log.stranded \subseteq log'.stranded
       /\ c.state.dead => i \in log'.stranded
       /\ UNCHANGED <<tick, pass, todo, stack, ops, fallen, drops>>
  BY <1>1, <1>10, ArrivedOK
<1>13. /\ log'.joined \subseteq Owner /\ o \in log'.joined
       /\ t'.entities[i].owner = o /\ (t'.entities[i].dead => i \in log'.stranded)
  BY <1>2, <1>6, <1>9, <1>12 DEF IInv, Abroad, e
<1>14. \A j \in DOMAIN t.respawn_at \ {i} :
         j \in DOMAIN t'.respawn_at /\ t'.respawn_at[j] = t.respawn_at[j]
  BY <1>5
<1>15. IInv' /\ Unrevived
  BY <1>1, <1>2, <1>5, <1>9, <1>12, <1>13, <1>14, Arriving
<1> QED BY <1>11, <1>15
-----------------------------------------------------------------------------
(* The inductive invariant, and what follows from it. *)

LEMMA InitOK == Init => IInv
<1> SUFFICES ASSUME Init PROVE IInv
  OBVIOUS
<1>1. /\ DOMAIN t = Tables /\ t.next = 1 /\ t.entities = <<>> /\ t.inventory = <<>>
      /\ t.loot = <<>> /\ t.statuses = <<>> /\ t.shields = <<>> /\ t.projectiles = <<>>
      /\ t.mobs = <<>> /\ t.fields = <<>> /\ t.scheduled = <<>> /\ t.last_attacker = <<>>
      /\ t.respawn_at = <<>>
  BY DEF Init, NoWorld, Tables, ById
<1>2. DOMAIN <<>> = {}
  OBVIOUS
<1>3. World(t)
  BY <1>1, <1>2 DEF World, Sized, Typed, Matched, Named, Played
<1>4. Turns
  <2>1. <<>> \in Seq(Frames(DOMAIN t.inventory)) /\ <<>> \in Seq(Seq(Items))
    OBVIOUS
  <2> QED BY <2>1, Bounds DEF Init, Turns, Passes
<1>5. Abroad /\ Awaiting /\ Remembered /\ CreditEarned
  BY <1>1, <1>2 DEF Init, Abroad, Awaiting, Remembered, CreditEarned
<1> QED BY <1>3, <1>4, <1>5 DEF IInv

LEMMA TickStep ==
  ASSUME IInv, Tick
  PROVE  IInv' /\ Unrevived /\ Handling
<1>1. CASE BeginTick
  BY <1>1, TickBegins DEF Handling
<1>2. CASE BeginProcs \/ BeginMovement \/ BeginCast \/ BeginDeaths \/ BeginLoot
           \/ \E i \in todo : Spare(i)
  BY <1>2, PassesBegin DEF Handling
<1>3. CASE IntegrateProjectiles
  BY <1>3, ShotsStep DEF Handling
<1>4. CASE TickFields
  BY <1>4, FieldsStep DEF Handling
<1>5. CASE RunScheduled
  BY <1>5, ScheduledStep DEF Handling
<1>6. CASE EndDeaths
  BY <1>6, DeathsEnd DEF Handling
<1>7. CASE EndTick
  BY <1>7, TickEnds DEF Handling
<1>8. ASSUME NEW i \in todo, TickStatuses(i)
      PROVE  IInv' /\ Unrevived /\ Handling
  BY <1>8, StatusesStep DEF Handling
<1>9. ASSUME NEW i \in todo, TickItemProcs(i)
      PROVE  IInv' /\ Unrevived /\ Handling
  BY <1>9, ItemProcsStep DEF Handling
<1>10. ASSUME NEW i \in todo, MeleeAttack(i)
       PROVE  IInv' /\ Unrevived /\ Handling
  BY <1>10, MeleeStep DEF Handling
<1>11. ASSUME NEW i \in todo, GroundSlam(i)
       PROVE  IInv' /\ Unrevived /\ Handling
  BY <1>11, SlamStep DEF Handling
<1>12. ASSUME NEW i \in todo, CastStep(i)
       PROVE  IInv' /\ Unrevived /\ Handling
  BY <1>12, CastStepOK DEF Handling
<1>13. ASSUME NEW i \in todo, Die(i)
       PROVE  IInv' /\ Unrevived /\ Handling
  BY <1>13, DieStep DEF Handling
<1>14. ASSUME NEW i \in todo, Imprint(i)
       PROVE  IInv' /\ Unrevived /\ Handling
  BY <1>14, ImprintStep DEF Handling
<1>15. ASSUME NEW i \in todo, NEW j \in Living, PickupLoot(i, j)
       PROVE  IInv' /\ Unrevived /\ Handling
  BY <1>15, PickupStep DEF Handling
<1> QED
  BY <1>1, <1>2, <1>3, <1>4, <1>5, <1>6, <1>7, <1>8, <1>9, <1>10, <1>11, <1>12, <1>13, <1>14,
     <1>15 DEF Tick

LEMMA NextStep ==
  ASSUME IInv, [Next]_vars
  PROVE  IInv' /\ Unrevived /\ Handling
<1>1. CASE RunOp
  BY <1>1, RunOpStep DEF Handling
<1>2. CASE Tick
  BY <1>2, TickStep
<1>3. CASE Between
  BY <1>3, SpawnStep, LeaveStep, ImportStep, SeedStep DEF Between, Handling
<1>4. CASE UNCHANGED vars
  <2>1. IInv'
    BY <1>4 DEF vars, IInv, Turns, Abroad, Awaiting, Remembered, CreditEarned, Bodies, Idle
  <2>2. World(t)
    BY DEF IInv
  <2>3. \A i \in DOMAIN t.entities \cap DOMAIN t'.entities :
          t'.entities[i].health <= t.entities[i].health
    BY <1>4, <2>2, Unmoved DEF vars, Ent
  <2>4. World(t')
    BY <2>1 DEF IInv
  <2>5. Unhandled
    BY <1>4 DEF vars, Unhandled
  <2> QED BY <2>1, <2>2, <2>3, <2>4, <2>5, Untouched DEF Handling
<1> QED BY <1>1, <1>2, <1>3, <1>4 DEF Next

\* The tables of a world are well formed and follow its bodies, a frame evaluates what
\* the graphs hold, a player is in one place, a dead one has its respawn ahead, and the
\* attackers that are remembered have struck: the inductive invariant of a zone's tick.
THEOREM Invariance == Spec => []IInv
<1>1. IInv /\ [Next]_vars => IInv'
  BY NextStep
<1> QED BY <1>1, InitOK, PTL DEF Spec

\* No body is without its bookkeeping and no row without its body, bags hold what was
\* brought, and no dead player is without its respawn between ticks (remove_entity,
\* process_deaths, process_respawns).
THEOREM BookkeepingHolds == Spec => []Bookkeeping
<1>1. IInv => Bookkeeping
  <2> SUFFICES ASSUME IInv PROVE Bookkeeping
    OBVIOUS
  <2>1. NoGhosts
    BY DEF IInv, World, Matched, Named, NoGhosts
  <2>2. DeadAwaitRespawn
    BY DEF IInv, Awaiting, DeadAwaitRespawn, Idle
  <2>3. \A i \in DOMAIN t.inventory : ToSet(t.inventory[i]) \subseteq Items
    <3> TAKE i \in DOMAIN t.inventory
    <3>1. t.inventory[i] \in Seq(Items)
      BY DEF IInv, World, Typed
    <3> QED BY <3>1 DEF ToSet
  <2>4. TypeOK
    BY <2>3 DEF IInv, World, Sized, Played, Turns, Passes, Abroad, TypeOK
  <2> QED BY <2>1, <2>2, <2>4 DEF Bookkeeping
<1> QED BY <1>1, Invariance, PTL

\* A kill is credited to one who has struck the victim, or to the victim itself
\* (process_deaths, last_attacker).
THEOREM CreditIsEarned == Spec => []CreditEarned
<1>1. IInv => CreditEarned
  BY DEF IInv
<1> QED BY <1>1, Invariance, PTL

\* A body that has run out of health is not saved by a heal, a shield or a proc, nor by
\* an op that was already under way: only by the respawn it waits for (heal_entity,
\* process_respawns).
THEOREM NobodyRevives == Spec => NoRevival
<1>1. IInv /\ [Next]_vars => [Unrevived]_vars
  BY NextStep
<1> QED BY <1>1, Invariance, PTL DEF Spec, NoRevival, Unrevived

-----------------------------------------------------------------------------
(* Where the stacks are. *)

\* The places of a stack, given the bags, the loot, the piles to drop, the bags of
\* checkpoints, and what is used up or lost.
Holds(lists, h, k, x) == h \in DOMAIN lists /\ k \in DOMAIN lists[h] /\ lists[h][k] = x
Where(p, x) ==
  UNION {Listed("bag", p.bag, x), Listed("loot", p.loot, x), Listed("drop", p.drop, x),
         Listed("away", p.away, x), Gone("used", p.used, x), Gone("lost", p.lost, x)}
Lies(kind, h, k, p, x) ==
  \/ kind = "bag" /\ Holds(p.bag, h, k, x)
  \/ kind = "loot" /\ Holds(p.loot, h, k, x)
  \/ kind = "drop" /\ Holds(p.drop, h, k, x)
  \/ kind = "away" /\ Holds(p.away, h, k, x)
  \/ kind = "used" /\ h = 0 /\ k = 0 /\ x \in p.used
  \/ kind = "lost" /\ h = 0 /\ k = 0 /\ x \in p.lost

LEMMA ListedIs ==
  ASSUME NEW kind, NEW lists, NEW x
  PROVE  \A s : s \in Listed(kind, lists, x) <=>
           \E h, k : Holds(lists, h, k, x) /\ s = <<kind, h, k>>
<1> TAKE s
<1>1. ASSUME NEW h, NEW k, Holds(lists, h, k, x)
      PROVE  <<kind, h, k>> \in Listed(kind, lists, x)
  <2>1. k \in {j \in DOMAIN lists[h] : lists[h][j] = x} /\ h \in DOMAIN lists
    BY <1>1 DEF Holds
  <2> DEFINE row == {<<kind, h, j>> : j \in {j \in DOMAIN lists[h] : lists[h][j] = x}}
  <2>2. <<kind, h, k>> \in row
    BY <2>1
  <2>3. row \in {{<<kind, i, j>> : j \in {j \in DOMAIN lists[i] : lists[i][j] = x}} :
                   i \in DOMAIN lists}
    BY <2>1
  <2> QED BY <2>2, <2>3, Zenon DEF Listed
<1>2. ASSUME s \in Listed(kind, lists, x)
      PROVE  \E h, k : Holds(lists, h, k, x) /\ s = <<kind, h, k>>
  <2>1. PICK h \in DOMAIN lists :
          s \in {<<kind, h, k>> : k \in {j \in DOMAIN lists[h] : lists[h][j] = x}}
    BY <1>2, Zenon DEF Listed
  <2>2. PICK k \in {j \in DOMAIN lists[h] : lists[h][j] = x} : s = <<kind, h, k>>
    BY <2>1
  <2> QED BY <2>1, <2>2 DEF Holds
<1> QED BY <1>1, <1>2

LEMMA GoneIs ==
  ASSUME NEW kind, NEW items, NEW x
  PROVE  \A s : s \in Gone(kind, items, x) <=> x \in items /\ s = <<kind, 0, 0>>
  BY DEF Gone

Kinds == {"bag", "loot", "drop", "away", "used", "lost"}

\* What lies where, kind by kind.
LEMMA LiesBy ==
  ASSUME NEW p, NEW x
  PROVE  /\ \A h, k : Lies("bag", h, k, p, x) <=> Holds(p.bag, h, k, x)
         /\ \A h, k : Lies("loot", h, k, p, x) <=> Holds(p.loot, h, k, x)
         /\ \A h, k : Lies("drop", h, k, p, x) <=> Holds(p.drop, h, k, x)
         /\ \A h, k : Lies("away", h, k, p, x) <=> Holds(p.away, h, k, x)
         /\ \A h, k : Lies("used", h, k, p, x) <=> h = 0 /\ k = 0 /\ x \in p.used
         /\ \A h, k : Lies("lost", h, k, p, x) <=> h = 0 /\ k = 0 /\ x \in p.lost
         /\ \A kind, h, k : Lies(kind, h, k, p, x) => kind \in Kinds
  BY DEF Lies, Kinds

LEMMA WhereIs ==
  ASSUME NEW p, NEW x, NEW s
  PROVE  s \in Where(p, x) <=> \E kind, h, k : s = <<kind, h, k>> /\ Lies(kind, h, k, p, x)
<1>1. s \in Where(p, x) <=>
        \/ s \in Listed("bag", p.bag, x) \/ s \in Listed("loot", p.loot, x)
        \/ s \in Listed("drop", p.drop, x) \/ s \in Listed("away", p.away, x)
        \/ s \in Gone("used", p.used, x) \/ s \in Gone("lost", p.lost, x)
  BY DEF Where
<1>2. /\ s \in Listed("bag", p.bag, x) <=>
           \E h, k : Holds(p.bag, h, k, x) /\ s = <<"bag", h, k>>
      /\ s \in Listed("loot", p.loot, x) <=>
           \E h, k : Holds(p.loot, h, k, x) /\ s = <<"loot", h, k>>
      /\ s \in Listed("drop", p.drop, x) <=>
           \E h, k : Holds(p.drop, h, k, x) /\ s = <<"drop", h, k>>
      /\ s \in Listed("away", p.away, x) <=>
           \E h, k : Holds(p.away, h, k, x) /\ s = <<"away", h, k>>
      /\ s \in Gone("used", p.used, x) <=> x \in p.used /\ s = <<"used", 0, 0>>
      /\ s \in Gone("lost", p.lost, x) <=> x \in p.lost /\ s = <<"lost", 0, 0>>
  BY ListedIs, GoneIs
<1>3. ASSUME s \in Where(p, x)
      PROVE  \E kind, h, k : s = <<kind, h, k>> /\ Lies(kind, h, k, p, x)
  BY <1>1, <1>2, <1>3, LiesBy, Zenon
<1>4. ASSUME NEW kind, NEW h, NEW k, s = <<kind, h, k>>, Lies(kind, h, k, p, x)
      PROVE  s \in Where(p, x)
  <2>1. kind = "bag" \/ kind = "loot" \/ kind = "drop" \/ kind = "away" \/ kind = "used"
          \/ kind = "lost"
    BY <1>4 DEF Lies
  <2>2. CASE kind = "bag"
    BY <1>1, <1>2, <1>4, <2>2, LiesBy, Zenon
  <2>3. CASE kind = "loot"
    BY <1>1, <1>2, <1>4, <2>3, LiesBy, Zenon
  <2>4. CASE kind = "drop"
    BY <1>1, <1>2, <1>4, <2>4, LiesBy, Zenon
  <2>5. CASE kind = "away"
    BY <1>1, <1>2, <1>4, <2>5, LiesBy, Zenon
  <2>6. CASE kind = "used"
    BY <1>1, <1>2, <1>4, <2>6 DEF Lies
  <2>7. CASE kind = "lost"
    BY <1>1, <1>2, <1>4, <2>7 DEF Lies
  <2> QED BY <2>1, <2>2, <2>3, <2>4, <2>5, <2>6, <2>7
<1> QED BY <1>3, <1>4

LEMMA LiesIs ==
  ASSUME NEW p, NEW x
  PROVE  \A kind, h, k : <<kind, h, k>> \in Where(p, x) <=> Lies(kind, h, k, p, x)
<1> TAKE kind, h, k
<1>1. <<kind, h, k>> \in Where(p, x) <=>
        \E d, i, j : <<kind, h, k>> = <<d, i, j>> /\ Lies(d, i, j, p, x)
  BY WhereIs
<1>2. \A d, i, j : <<kind, h, k>> = <<d, i, j>> => d = kind /\ i = h /\ j = k
  OBVIOUS
<1> QED BY <1>1, <1>2

\* From one set of places to another: each is where one of the old ones has gone.
Image(to, R) == {to[r] : r \in R}
Moved(R, S) == \E to : S = Image(to, R)

LEMMA OneOrNone ==
  ASSUME NEW R, NEW S, Moved(R, S)
  PROVE  /\ R = {} => S = {}
         /\ (\E s : R = {s}) => \E s : S = {s}
<1>1. PICK to : S = Image(to, R)
  BY DEF Moved
<1>2. ASSUME NEW r, R = {r} PROVE S = {to[r]}
  BY <1>1, <1>2 DEF Image
<1> QED BY <1>1, <1>2 DEF Image

\* A step moves the stacks if it takes each place to one, and each comes from one.
Takes(to, p, q, x) ==
  \A kind, h, k : Lies(kind, h, k, p, x) =>
    \E d, e, f : to[<<kind, h, k>>] = <<d, e, f>> /\ Lies(d, e, f, q, x)
Covers(to, p, q, x) ==
  \A d, e, f : Lies(d, e, f, q, x) =>
    \E kind, h, k : to[<<kind, h, k>>] = <<d, e, f>> /\ Lies(kind, h, k, p, x)

LEMMA MovedBy ==
  ASSUME NEW p, NEW q, NEW x, NEW to, Takes(to, p, q, x), Covers(to, p, q, x)
  PROVE  Where(q, x) = Image(to, Where(p, x))
<1>1. ASSUME NEW r \in Where(p, x) PROVE to[r] \in Where(q, x)
  <2>1. PICK kind, h, k : r = <<kind, h, k>> /\ Lies(kind, h, k, p, x)
    BY WhereIs
  <2> QED BY <2>1, LiesIs DEF Takes
<1>2. ASSUME NEW s \in Where(q, x) PROVE \E r \in Where(p, x) : to[r] = s
  <2>1. PICK d, i, j : s = <<d, i, j>> /\ Lies(d, i, j, q, x)
    BY WhereIs
  <2>2. PICK kind, h, k : to[<<kind, h, k>>] = <<d, i, j>> /\ Lies(kind, h, k, p, x)
    BY <2>1 DEF Covers
  <2> QED BY <2>1, <2>2, LiesIs
<1> QED BY <1>1, <1>2 DEF Image

\* A stack that nothing has touched lies where it lay.
LEMMA Stay ==
  ASSUME NEW p, NEW q, NEW x,
         \A kind, h, k : Lies(kind, h, k, p, x) <=> Lies(kind, h, k, q, x)
  PROVE  Moved(Where(p, x), Where(q, x))
<1> DEFINE to == [r \in Where(p, x) |-> r]
<1>1. \A kind, h, k : Lies(kind, h, k, p, x) => to[<<kind, h, k>>] = <<kind, h, k>>
  BY LiesIs
<1> HIDE DEF to
<1>2. ASSUME NEW kind, NEW h, NEW k, Lies(kind, h, k, p, x)
      PROVE  \E d, i, j : to[<<kind, h, k>>] = <<d, i, j>> /\ Lies(d, i, j, q, x)
  <2>1. to[<<kind, h, k>>] = <<kind, h, k>> /\ Lies(kind, h, k, q, x)
    BY <1>1, <1>2
  <2> QED BY <2>1, Zenon
<1>3. ASSUME NEW d, NEW i, NEW j, Lies(d, i, j, q, x)
      PROVE  \E kind, h, k : to[<<kind, h, k>>] = <<d, i, j>> /\ Lies(kind, h, k, p, x)
  <2>1. to[<<d, i, j>>] = <<d, i, j>> /\ Lies(d, i, j, p, x)
    BY <1>1, <1>3
  <2> QED BY <2>1, Zenon
<1>4. Takes(to, p, q, x) /\ Covers(to, p, q, x)
  BY <1>2, <1>3, Zenon DEF Takes, Covers
<1>5. Where(q, x) = Image(to, Where(p, x))
  BY <1>4, MovedBy
<1> QED BY <1>5 DEF Moved

\* A potion that is drunk leaves the bag; those after it move up.
LEMMA UsedUp ==
  ASSUME NEW p, NEW q, NEW x, NEW i \in DOMAIN p.bag, NEW n \in Nat, NEW j \in 1..n,
         DOMAIN p.bag[i] = 1..n, DOMAIN q.bag = DOMAIN p.bag,
         \A h \in DOMAIN p.bag : h # i => q.bag[h] = p.bag[h],
         DOMAIN q.bag[i] = 1..(n - 1),
         \A k \in 1..(n - 1) : q.bag[i][k] = p.bag[i][IF k < j THEN k ELSE k + 1],
         q.loot = p.loot, q.drop = p.drop, q.away = p.away,
         q.used = p.used \cup {p.bag[i][j]}, q.lost = p.lost
  PROVE  Moved(Where(p, x), Where(q, x))
<1> DEFINE To(kind, h, k) ==
      IF kind = "bag" /\ h = i
      THEN IF k = j THEN <<"used", 0, 0>> ELSE <<"bag", i, IF k < j THEN k ELSE k - 1>>
      ELSE <<kind, h, k>>
    to == [r \in Where(p, x) |-> To(r[1], r[2], r[3])]
<1>1. \A kind, h, k : Lies(kind, h, k, p, x) => to[<<kind, h, k>>] = To(kind, h, k)
  BY LiesIs
<1>2. \A kind, h, k : Lies(kind, h, k, p, x) /\ (kind # "bag" \/ h # i) =>
        to[<<kind, h, k>>] = <<kind, h, k>>
  BY <1>1
<1>3. \A kind, h, k : kind # "bag" /\ kind # "used" =>
        (Lies(kind, h, k, p, x) <=> Lies(kind, h, k, q, x))
  BY DEF Lies
<1>4. \A h, k : h # i => (Lies("bag", h, k, p, x) <=> Lies("bag", h, k, q, x))
  BY DEF Lies, Holds
<1>5. \A k : Lies("bag", i, k, p, x) <=> k \in 1..n /\ p.bag[i][k] = x
  BY DEF Lies, Holds
<1>6. \A k : Lies("bag", i, k, q, x) <=>
        k \in 1..(n - 1) /\ p.bag[i][IF k < j THEN k ELSE k + 1] = x
  BY DEF Lies, Holds
<1>7. \A h, k : Lies("used", h, k, p, x) <=> h = 0 /\ k = 0 /\ x \in p.used
  BY DEF Lies
<1>8. \A h, k : Lies("used", h, k, q, x) <=> h = 0 /\ k = 0 /\ (x \in p.used \/ x = p.bag[i][j])
  BY DEF Lies
<1> HIDE DEF to
<1>9. ASSUME NEW kind, NEW h, NEW k, Lies(kind, h, k, p, x)
      PROVE  \E d, e, f : to[<<kind, h, k>>] = <<d, e, f>> /\ Lies(d, e, f, q, x)
  <2>1. CASE kind = "bag" /\ h = i /\ k = j
    BY <1>1, <1>5, <1>8, <1>9, <2>1
  <2>2. CASE kind = "bag" /\ h = i /\ k # j
    <3> DEFINE m == IF k < j THEN k ELSE k - 1
    <3>1. k \in 1..n /\ p.bag[i][k] = x
      BY <1>5, <1>9, <2>2
    <3>2. m \in 1..(n - 1) /\ (IF m < j THEN m ELSE m + 1) = k
      BY <2>2, <3>1
    <3>3. Lies("bag", i, m, q, x) /\ to[<<kind, h, k>>] = <<"bag", i, m>>
      BY <1>1, <1>6, <1>9, <2>2, <3>1, <3>2
    <3> QED BY <3>3
  <2>3. CASE kind = "bag" /\ h # i
    <3>1. Lies(kind, h, k, q, x) /\ to[<<kind, h, k>>] = <<kind, h, k>>
      BY <1>2, <1>4, <1>9, <2>3
    <3> QED BY <3>1, Zenon
  <2>4. CASE kind = "used"
    <3>1. Lies(kind, h, k, q, x) /\ to[<<kind, h, k>>] = <<kind, h, k>>
      BY <1>2, <1>7, <1>8, <1>9, <2>4
    <3> QED BY <3>1, Zenon
  <2>5. CASE kind # "bag" /\ kind # "used"
    <3>1. Lies(kind, h, k, q, x) /\ to[<<kind, h, k>>] = <<kind, h, k>>
      BY <1>2, <1>3, <1>9, <2>5
    <3> QED BY <3>1, Zenon
  <2> QED BY <2>1, <2>2, <2>3, <2>4, <2>5
<1>10. ASSUME NEW d, NEW e, NEW f, Lies(d, e, f, q, x)
       PROVE  \E kind, h, k : to[<<kind, h, k>>] = <<d, e, f>> /\ Lies(kind, h, k, p, x)
  <2>1. CASE d = "bag" /\ e = i
    <3> DEFINE m == IF f < j THEN f ELSE f + 1
    <3>1. f \in 1..(n - 1) /\ p.bag[i][m] = x
      BY <1>6, <1>10, <2>1
    <3>2. m \in 1..n /\ m # j /\ (IF m < j THEN m ELSE m - 1) = f
      BY <3>1
    <3>3. Lies("bag", i, m, p, x)
      BY <1>5, <3>1, <3>2
    <3>4. to[<<"bag", i, m>>] = <<d, e, f>>
      BY <1>1, <2>1, <3>2, <3>3, ZenonT(60)
    <3> QED BY <3>3, <3>4
  <2>2. CASE d = "bag" /\ e # i
    <3>1. Lies(d, e, f, p, x) /\ to[<<d, e, f>>] = <<d, e, f>>
      BY <1>2, <1>4, <1>10, <2>2
    <3> QED BY <3>1, Zenon
  <2>3. CASE d = "used" /\ x = p.bag[i][j]
    <3>1. Lies("bag", i, j, p, x) /\ to[<<"bag", i, j>>] = <<"used", 0, 0>>
      BY <1>1, <1>5, <2>3
    <3> QED BY <1>8, <1>10, <2>3, <3>1
  <2>4. CASE d = "used" /\ x # p.bag[i][j]
    <3>1. Lies(d, e, f, p, x) /\ to[<<d, e, f>>] = <<d, e, f>>
      BY <1>2, <1>7, <1>8, <1>10, <2>4
    <3> QED BY <3>1, Zenon
  <2>5. CASE d # "bag" /\ d # "used"
    <3>1. Lies(d, e, f, p, x) /\ to[<<d, e, f>>] = <<d, e, f>>
      BY <1>2, <1>3, <1>10, <2>5
    <3> QED BY <3>1, Zenon
  <2> QED BY <2>1, <2>2, <2>3, <2>4, <2>5
<1> HIDE DEF To
<1>11. Takes(to, p, q, x) /\ Covers(to, p, q, x)
  BY <1>9, <1>10, Zenon DEF Takes, Covers
<1>12. Where(q, x) = Image(to, Where(p, x))
  BY <1>11, MovedBy
<1> QED BY <1>12 DEF Moved

\* Which places of a list are its odd ones, and which its even ones.
LEMMA Parity ==
  /\ \A n \in Nat : \A k \in 1..n : k % 2 = 1 =>
       (k + 1) \div 2 \in 1..((n + 1) \div 2) /\ 2 * ((k + 1) \div 2) - 1 = k
  /\ \A n \in Nat : \A k \in 1..n : k % 2 # 1 => k \div 2 \in 1..(n \div 2) /\ 2 * (k \div 2) = k
  OBVIOUS

\* What the dead drops of its bag makes another pile; what it keeps moves up.
LEMMA Shed ==
  ASSUME NEW p, NEW q, NEW x, NEW i \in DOMAIN p.bag, NEW n \in Nat, NEW m \in Nat,
         DOMAIN p.bag[i] = 1..n, DOMAIN p.drop = 1..m, DOMAIN q.bag = DOMAIN p.bag,
         \A h \in DOMAIN p.bag : h # i => q.bag[h] = p.bag[h],
         DOMAIN q.bag[i] = 1..(n \div 2),
         \A k \in 1..(n \div 2) : q.bag[i][k] = p.bag[i][2 * k],
         DOMAIN q.drop = 1..(m + 1), \A k \in 1..m : q.drop[k] = p.drop[k],
         DOMAIN q.drop[m + 1] = 1..((n + 1) \div 2),
         \A k \in 1..((n + 1) \div 2) : q.drop[m + 1][k] = p.bag[i][2 * k - 1],
         q.loot = p.loot, q.away = p.away, q.used = p.used, q.lost = p.lost
  PROVE  Moved(Where(p, x), Where(q, x))
<1> DEFINE From(kind, h) == kind = "bag" /\ h = i
    Into(d, e) == (d = "bag" /\ e = i) \/ (d = "drop" /\ e = m + 1)
    To(kind, h, k) ==
      IF From(kind, h)
      THEN IF k % 2 = 1 THEN <<"drop", m + 1, (k + 1) \div 2>> ELSE <<"bag", i, k \div 2>>
      ELSE <<kind, h, k>>
    to == [r \in Where(p, x) |-> To(r[1], r[2], r[3])]
<1>1. \A kind, h, k : Lies(kind, h, k, p, x) => to[<<kind, h, k>>] = To(kind, h, k)
  BY LiesIs
<1> HIDE DEF to
<1>2. \A kind, h, k : Lies(kind, h, k, p, x) /\ ~From(kind, h) => Lies(kind, h, k, q, x)
  BY DEF Lies, Holds
<1>3. \A d, e, f : Lies(d, e, f, q, x) /\ ~Into(d, e) => Lies(d, e, f, p, x) /\ ~From(d, e)
  <2>1. \A h, k : h # m + 1 /\ Holds(q.drop, h, k, x) => Holds(p.drop, h, k, x)
    <3>1. \A h \in 1..(m + 1) : h # m + 1 => h \in 1..m
      OBVIOUS
    <3> QED BY <3>1 DEF Holds
  <2>2. \A h, k : h # i /\ Holds(q.bag, h, k, x) => Holds(p.bag, h, k, x)
    BY DEF Holds
  <2> QED BY <2>1, <2>2 DEF Lies
<1>4. ASSUME NEW kind, NEW h, NEW k, Lies(kind, h, k, p, x), From(kind, h)
      PROVE  \E d, e, f : To(kind, h, k) = <<d, e, f>> /\ Lies(d, e, f, q, x)
  <2>1. k \in 1..n /\ p.bag[i][k] = x
    BY <1>4 DEF Lies, Holds
  <2>2. CASE k % 2 = 1
    <3>1. (k + 1) \div 2 \in 1..((n + 1) \div 2) /\ 2 * ((k + 1) \div 2) - 1 = k
      BY <2>1, <2>2, Parity
    <3>2. m + 1 \in DOMAIN q.drop /\ q.drop[m + 1][(k + 1) \div 2] = x
      BY <2>1, <3>1, SMTT(30)
    <3>3. Holds(q.drop, m + 1, (k + 1) \div 2, x)
      BY <3>1, <3>2 DEF Holds
    <3>4. Lies("drop", m + 1, (k + 1) \div 2, q, x)
      BY <3>3 DEF Lies
    <3>5. To(kind, h, k) = <<"drop", m + 1, (k + 1) \div 2>>
      BY <1>4, <2>2
    <3> QED BY <3>4, <3>5
  <2>3. CASE k % 2 # 1
    <3>1. k \div 2 \in 1..(n \div 2) /\ 2 * (k \div 2) = k
      BY <2>1, <2>3, Parity
    <3>2. Lies("bag", i, k \div 2, q, x)
      BY <2>1, <3>1 DEF Lies, Holds
    <3>3. To(kind, h, k) = <<"bag", i, k \div 2>>
      BY <1>4, <2>3
    <3> QED BY <3>2, <3>3
  <2> QED BY <2>2, <2>3
<1>5. ASSUME NEW d, NEW e, NEW f, Lies(d, e, f, q, x), Into(d, e)
      PROVE  \E kind, h, k : Lies(kind, h, k, p, x) /\ To(kind, h, k) = <<d, e, f>>
  <2>1. CASE d = "drop" /\ e = m + 1
    <3>1. f \in 1..((n + 1) \div 2) /\ p.bag[i][2 * f - 1] = x
      BY <1>5, <2>1 DEF Lies, Holds
    <3>2. 2 * f - 1 \in 1..n /\ (2 * f - 1) % 2 = 1 /\ ((2 * f - 1) + 1) \div 2 = f
      BY <3>1
    <3>3. Lies("bag", i, 2 * f - 1, p, x)
      BY <3>1, <3>2 DEF Lies, Holds
    <3>4. To("bag", i, 2 * f - 1) = <<d, e, f>>
      BY <2>1, <3>2
    <3> QED BY <3>3, <3>4
  <2>2. CASE d = "bag" /\ e = i
    <3>1. f \in 1..(n \div 2) /\ p.bag[i][2 * f] = x
      BY <1>5, <2>2 DEF Lies, Holds
    <3>2. 2 * f \in 1..n /\ (2 * f) % 2 # 1 /\ (2 * f) \div 2 = f
      BY <3>1
    <3>3. Lies("bag", i, 2 * f, p, x)
      BY <3>1, <3>2 DEF Lies, Holds
    <3>4. To("bag", i, 2 * f) = <<d, e, f>>
      BY <2>2, <3>2
    <3> QED BY <3>3, <3>4
  <2> QED BY <1>5, <2>1, <2>2
<1>6. \A kind, h, k : ~From(kind, h) => To(kind, h, k) = <<kind, h, k>>
  OBVIOUS
<1> HIDE DEF To, From, Into
<1>7. ASSUME NEW kind, NEW h, NEW k, Lies(kind, h, k, p, x)
      PROVE  \E d, e, f : to[<<kind, h, k>>] = <<d, e, f>> /\ Lies(d, e, f, q, x)
  <2>1. CASE From(kind, h)
    <3>1. PICK d, e, f : To(kind, h, k) = <<d, e, f>> /\ Lies(d, e, f, q, x)
      BY <1>4, <1>7, <2>1
    <3>2. to[<<kind, h, k>>] = <<d, e, f>>
      BY <1>1, <1>7, <3>1
    <3> QED BY <3>1, <3>2, Zenon
  <2>2. CASE ~From(kind, h)
    <3>1. to[<<kind, h, k>>] = <<kind, h, k>> /\ Lies(kind, h, k, q, x)
      BY <1>1, <1>2, <1>6, <1>7, <2>2
    <3> QED BY <3>1, Zenon
  <2> QED BY <2>1, <2>2
<1>8. ASSUME NEW d, NEW e, NEW f, Lies(d, e, f, q, x)
      PROVE  \E kind, h, k : to[<<kind, h, k>>] = <<d, e, f>> /\ Lies(kind, h, k, p, x)
  <2>1. CASE Into(d, e)
    <3>1. PICK kind, h, k : Lies(kind, h, k, p, x) /\ To(kind, h, k) = <<d, e, f>>
      BY <1>5, <1>8, <2>1
    <3>2. to[<<kind, h, k>>] = <<d, e, f>>
      BY <1>1, <3>1
    <3> QED BY <3>1, <3>2, Zenon
  <2>2. CASE ~Into(d, e)
    <3>1. to[<<d, e, f>>] = <<d, e, f>> /\ Lies(d, e, f, p, x)
      BY <1>1, <1>3, <1>6, <1>8, <2>2
    <3> QED BY <3>1, Zenon
  <2> QED BY <2>1, <2>2
<1>9. Takes(to, p, q, x) /\ Covers(to, p, q, x)
  BY <1>7, <1>8, Zenon DEF Takes, Covers
<1>10. Where(q, x) = Image(to, Where(p, x))
  BY <1>9, MovedBy
<1> QED BY <1>10 DEF Moved

\* Each pile the dead have dropped becomes a piece of loot of its own.
LEMMA Landed ==
  ASSUME NEW p, NEW q, NEW x, NEW n \in Nat, NEW b \in Nat,
         DOMAIN p.drop = 1..n, DOMAIN q.drop = {},
         \A h \in DOMAIN p.loot : h \notin b .. b + n - 1,
         DOMAIN q.loot = DOMAIN p.loot \cup (b .. b + n - 1),
         \A h \in DOMAIN p.loot : q.loot[h] = p.loot[h],
         \A h \in 1..n : q.loot[b + h - 1] = p.drop[h],
         \A h, k : Holds(q.bag, h, k, x) <=> Holds(p.bag, h, k, x),
         q.away = p.away, q.used = p.used, q.lost = p.lost
  PROVE  Moved(Where(p, x), Where(q, x))
<1> DEFINE From(kind, h) == kind = "drop"
    Into(d, e) == d = "loot" /\ e \in b .. b + n - 1
    To(kind, h, k) == IF From(kind, h) THEN <<"loot", b + h - 1, k>> ELSE <<kind, h, k>>
    to == [r \in Where(p, x) |-> To(r[1], r[2], r[3])]
<1>1. \A kind, h, k : Lies(kind, h, k, p, x) => to[<<kind, h, k>>] = To(kind, h, k)
  BY LiesIs
<1> HIDE DEF to
<1>2. \A kind, h, k : Lies(kind, h, k, p, x) /\ ~From(kind, h) => Lies(kind, h, k, q, x)
  BY DEF Lies, Holds
<1>3. \A d, e, f : Lies(d, e, f, q, x) /\ ~Into(d, e) => Lies(d, e, f, p, x) /\ ~From(d, e)
  BY DEF Lies, Holds
<1>4. ASSUME NEW kind, NEW h, NEW k, Lies(kind, h, k, p, x), From(kind, h)
      PROVE  \E d, e, f : To(kind, h, k) = <<d, e, f>> /\ Lies(d, e, f, q, x)
  <2>1. h \in 1..n /\ k \in DOMAIN p.drop[h] /\ p.drop[h][k] = x
    BY <1>4 DEF Lies, Holds
  <2>2. b + h - 1 \in b .. b + n - 1 /\ q.loot[b + h - 1] = p.drop[h]
    BY <2>1
  <2>3. Lies("loot", b + h - 1, k, q, x)
    BY <2>1, <2>2 DEF Lies, Holds
  <2> QED BY <1>4, <2>3
<1>5. ASSUME NEW d, NEW e, NEW f, Lies(d, e, f, q, x), Into(d, e)
      PROVE  \E kind, h, k : Lies(kind, h, k, p, x) /\ To(kind, h, k) = <<d, e, f>>
  <2> DEFINE h == e - b + 1
  <2>1. h \in 1..n /\ b + h - 1 = e
    BY <1>5
  <2>2. f \in DOMAIN q.loot[e] /\ q.loot[e][f] = x
    BY <1>5 DEF Lies, Holds
  <2>3. q.loot[e] = p.drop[h]
    BY <2>1
  <2>4. Lies("drop", h, f, p, x)
    BY <2>1, <2>2, <2>3 DEF Lies, Holds
  <2>5. To("drop", h, f) = <<d, e, f>>
    BY <1>5, <2>1
  <2> QED BY <2>4, <2>5
<1>6. \A kind, h, k : ~From(kind, h) => To(kind, h, k) = <<kind, h, k>>
  OBVIOUS
<1> HIDE DEF To, From, Into
<1>7. ASSUME NEW kind, NEW h, NEW k, Lies(kind, h, k, p, x)
      PROVE  \E d, e, f : to[<<kind, h, k>>] = <<d, e, f>> /\ Lies(d, e, f, q, x)
  <2>1. CASE From(kind, h)
    <3>1. PICK d, e, f : To(kind, h, k) = <<d, e, f>> /\ Lies(d, e, f, q, x)
      BY <1>4, <1>7, <2>1
    <3>2. to[<<kind, h, k>>] = <<d, e, f>>
      BY <1>1, <1>7, <3>1
    <3> QED BY <3>1, <3>2, Zenon
  <2>2. CASE ~From(kind, h)
    <3>1. to[<<kind, h, k>>] = <<kind, h, k>> /\ Lies(kind, h, k, q, x)
      BY <1>1, <1>2, <1>6, <1>7, <2>2
    <3> QED BY <3>1, Zenon
  <2> QED BY <2>1, <2>2
<1>8. ASSUME NEW d, NEW e, NEW f, Lies(d, e, f, q, x)
      PROVE  \E kind, h, k : to[<<kind, h, k>>] = <<d, e, f>> /\ Lies(kind, h, k, p, x)
  <2>1. CASE Into(d, e)
    <3>1. PICK kind, h, k : Lies(kind, h, k, p, x) /\ To(kind, h, k) = <<d, e, f>>
      BY <1>5, <1>8, <2>1
    <3>2. to[<<kind, h, k>>] = <<d, e, f>>
      BY <1>1, <3>1
    <3> QED BY <3>1, <3>2, Zenon
  <2>2. CASE ~Into(d, e)
    <3>1. to[<<d, e, f>>] = <<d, e, f>> /\ Lies(d, e, f, p, x)
      BY <1>1, <1>3, <1>6, <1>8, <2>2
    <3> QED BY <3>1, Zenon
  <2> QED BY <2>1, <2>2
<1>9. Takes(to, p, q, x) /\ Covers(to, p, q, x)
  BY <1>7, <1>8, Zenon DEF Takes, Covers
<1>10. Where(q, x) = Image(to, Where(p, x))
  BY <1>9, MovedBy
<1> QED BY <1>10 DEF Moved

\* Who picks a piece of loot up has its stacks after those of the bag.
Joins(p, q, i, c, n, m) ==
  /\ i \in DOMAIN p.bag /\ c \in DOMAIN p.loot /\ n \in Nat /\ m \in Nat
  /\ DOMAIN p.bag[i] = 1..n /\ DOMAIN p.loot[c] = 1..m /\ DOMAIN q.bag = DOMAIN p.bag
  /\ \A h \in DOMAIN p.bag : h # i => q.bag[h] = p.bag[h]
  /\ DOMAIN q.bag[i] = 1..(n + m) /\ \A k \in 1..n : q.bag[i][k] = p.bag[i][k]
  /\ \A k \in 1..m : q.bag[i][n + k] = p.loot[c][k]
  /\ DOMAIN q.loot = DOMAIN p.loot \ {c} /\ \A h \in DOMAIN q.loot : q.loot[h] = p.loot[h]
  /\ q.drop = p.drop /\ q.away = p.away /\ q.used = p.used /\ q.lost = p.lost

LEMMA Gathers ==
  ASSUME NEW p, NEW q, NEW x, NEW i, NEW c, NEW n, NEW m, Joins(p, q, i, c, n, m)
  PROVE  Moved(Where(p, x), Where(q, x))
<1> DEFINE From(kind, h) == kind = "loot" /\ h = c
    Into(d, e, f) == d = "bag" /\ e = i /\ f \in (n + 1)..(n + m)
    To(kind, h, k) == IF From(kind, h) THEN <<"bag", i, n + k>> ELSE <<kind, h, k>>
    to == [r \in Where(p, x) |-> To(r[1], r[2], r[3])]
<1> USE DEF Joins
<1>1. \A kind, h, k : Lies(kind, h, k, p, x) => to[<<kind, h, k>>] = To(kind, h, k)
  BY LiesIs
<1> HIDE DEF to
<1>2. \A kind, h, k : Lies(kind, h, k, p, x) /\ ~From(kind, h) => Lies(kind, h, k, q, x)
  BY DEF Lies, Holds
<1>3. \A d, e, f : Lies(d, e, f, q, x) /\ ~Into(d, e, f) => Lies(d, e, f, p, x) /\ ~From(d, e)
  BY DEF Lies, Holds
<1>4. ASSUME NEW kind, NEW h, NEW k, Lies(kind, h, k, p, x), From(kind, h)
      PROVE  \E d, e, f : To(kind, h, k) = <<d, e, f>> /\ Lies(d, e, f, q, x)
  <2>1. k \in 1..m /\ p.loot[c][k] = x
    BY <1>4 DEF Lies, Holds
  <2>2. n + k \in 1..(n + m)
    BY <2>1
  <2>3. Lies("bag", i, n + k, q, x)
    BY <2>1, <2>2 DEF Lies, Holds
  <2> QED BY <1>4, <2>3
<1>5. ASSUME NEW d, NEW e, NEW f, Lies(d, e, f, q, x), Into(d, e, f)
      PROVE  \E kind, h, k : Lies(kind, h, k, p, x) /\ To(kind, h, k) = <<d, e, f>>
  <2> DEFINE k == f - n
  <2>1. k \in 1..m /\ n + k = f /\ q.bag[i][f] = x
    BY <1>5 DEF Lies, Holds
  <2>2. Lies("loot", c, k, p, x)
    BY <2>1 DEF Lies, Holds
  <2>3. To("loot", c, k) = <<d, e, f>>
    BY <1>5, <2>1
  <2> QED BY <2>2, <2>3
<1>6. \A kind, h, k : ~From(kind, h) => To(kind, h, k) = <<kind, h, k>>
  OBVIOUS
<1> HIDE DEF To, From, Into
<1>7. ASSUME NEW kind, NEW h, NEW k, Lies(kind, h, k, p, x)
      PROVE  \E d, e, f : to[<<kind, h, k>>] = <<d, e, f>> /\ Lies(d, e, f, q, x)
  <2>1. CASE From(kind, h)
    <3>1. PICK d, e, f : To(kind, h, k) = <<d, e, f>> /\ Lies(d, e, f, q, x)
      BY <1>4, <1>7, <2>1
    <3>2. to[<<kind, h, k>>] = <<d, e, f>>
      BY <1>1, <1>7, <3>1
    <3> QED BY <3>1, <3>2, Zenon
  <2>2. CASE ~From(kind, h)
    <3>1. to[<<kind, h, k>>] = <<kind, h, k>> /\ Lies(kind, h, k, q, x)
      BY <1>1, <1>2, <1>6, <1>7, <2>2
    <3> QED BY <3>1, Zenon
  <2> QED BY <2>1, <2>2
<1>8. ASSUME NEW d, NEW e, NEW f, Lies(d, e, f, q, x)
      PROVE  \E kind, h, k : to[<<kind, h, k>>] = <<d, e, f>> /\ Lies(kind, h, k, p, x)
  <2>1. CASE Into(d, e, f)
    <3>1. PICK kind, h, k : Lies(kind, h, k, p, x) /\ To(kind, h, k) = <<d, e, f>>
      BY <1>5, <1>8, <2>1
    <3>2. to[<<kind, h, k>>] = <<d, e, f>>
      BY <1>1, <3>1
    <3> QED BY <3>1, <3>2, Zenon
  <2>2. CASE ~Into(d, e, f)
    <3>1. to[<<d, e, f>>] = <<d, e, f>> /\ Lies(d, e, f, p, x)
      BY <1>1, <1>3, <1>6, <1>8, <2>2
    <3> QED BY <3>1, Zenon
  <2> QED BY <2>1, <2>2
<1>9. Takes(to, p, q, x) /\ Covers(to, p, q, x)
  BY <1>7, <1>8, Zenon DEF Takes, Covers
<1>10. Where(q, x) = Image(to, Where(p, x))
  BY <1>9, MovedBy
<1> QED BY <1>10 DEF Moved

\* Who leaves takes the bag along, in a checkpoint.
LEMMA Packed ==
  ASSUME NEW p, NEW q, NEW x, NEW i \in DOMAIN p.bag, NEW o, o \notin DOMAIN p.away,
         DOMAIN q.bag = DOMAIN p.bag \ {i}, \A h \in DOMAIN q.bag : q.bag[h] = p.bag[h],
         DOMAIN q.away = DOMAIN p.away \cup {o}, q.away[o] = p.bag[i],
         \A h \in DOMAIN p.away : q.away[h] = p.away[h],
         \A h, k : Holds(q.loot, h, k, x) <=> Holds(p.loot, h, k, x),
         q.drop = p.drop, q.used = p.used, q.lost = p.lost
  PROVE  Moved(Where(p, x), Where(q, x))
<1> DEFINE From(kind, h) == kind = "bag" /\ h = i
    Into(d, e) == d = "away" /\ e = o
    To(kind, h, k) == IF From(kind, h) THEN <<"away", o, k>> ELSE <<kind, h, k>>
    to == [r \in Where(p, x) |-> To(r[1], r[2], r[3])]
<1>1. \A kind, h, k : Lies(kind, h, k, p, x) => to[<<kind, h, k>>] = To(kind, h, k)
  BY LiesIs
<1> HIDE DEF to
<1>2. \A kind, h, k : Lies(kind, h, k, p, x) /\ ~From(kind, h) => Lies(kind, h, k, q, x)
  BY DEF Lies, Holds
<1>3. \A d, e, f : Lies(d, e, f, q, x) /\ ~Into(d, e) => Lies(d, e, f, p, x) /\ ~From(d, e)
  BY DEF Lies, Holds
<1>4. ASSUME NEW kind, NEW h, NEW k, Lies(kind, h, k, p, x), From(kind, h)
      PROVE  \E d, e, f : To(kind, h, k) = <<d, e, f>> /\ Lies(d, e, f, q, x)
  <2>1. Lies("away", o, k, q, x)
    BY <1>4 DEF Lies, Holds
  <2> QED BY <1>4, <2>1
<1>5. ASSUME NEW d, NEW e, NEW f, Lies(d, e, f, q, x), Into(d, e)
      PROVE  \E kind, h, k : Lies(kind, h, k, p, x) /\ To(kind, h, k) = <<d, e, f>>
  <2>1. Lies("bag", i, f, p, x)
    BY <1>5 DEF Lies, Holds
  <2>2. To("bag", i, f) = <<d, e, f>>
    BY <1>5
  <2> QED BY <2>1, <2>2
<1>6. \A kind, h, k : ~From(kind, h) => To(kind, h, k) = <<kind, h, k>>
  OBVIOUS
<1> HIDE DEF To, From, Into
<1>7. ASSUME NEW kind, NEW h, NEW k, Lies(kind, h, k, p, x)
      PROVE  \E d, e, f : to[<<kind, h, k>>] = <<d, e, f>> /\ Lies(d, e, f, q, x)
  <2>1. CASE From(kind, h)
    <3>1. PICK d, e, f : To(kind, h, k) = <<d, e, f>> /\ Lies(d, e, f, q, x)
      BY <1>4, <1>7, <2>1
    <3>2. to[<<kind, h, k>>] = <<d, e, f>>
      BY <1>1, <1>7, <3>1
    <3> QED BY <3>1, <3>2, Zenon
  <2>2. CASE ~From(kind, h)
    <3>1. to[<<kind, h, k>>] = <<kind, h, k>> /\ Lies(kind, h, k, q, x)
      BY <1>1, <1>2, <1>6, <1>7, <2>2
    <3> QED BY <3>1, Zenon
  <2> QED BY <2>1, <2>2
<1>8. ASSUME NEW d, NEW e, NEW f, Lies(d, e, f, q, x)
      PROVE  \E kind, h, k : to[<<kind, h, k>>] = <<d, e, f>> /\ Lies(kind, h, k, p, x)
  <2>1. CASE Into(d, e)
    <3>1. PICK kind, h, k : Lies(kind, h, k, p, x) /\ To(kind, h, k) = <<d, e, f>>
      BY <1>5, <1>8, <2>1
    <3>2. to[<<kind, h, k>>] = <<d, e, f>>
      BY <1>1, <3>1
    <3> QED BY <3>1, <3>2, Zenon
  <2>2. CASE ~Into(d, e)
    <3>1. to[<<d, e, f>>] = <<d, e, f>> /\ Lies(d, e, f, p, x)
      BY <1>1, <1>3, <1>6, <1>8, <2>2
    <3> QED BY <3>1, Zenon
  <2> QED BY <2>1, <2>2
<1>9. Takes(to, p, q, x) /\ Covers(to, p, q, x)
  BY <1>7, <1>8, Zenon DEF Takes, Covers
<1>10. Where(q, x) = Image(to, Where(p, x))
  BY <1>9, MovedBy
<1> QED BY <1>10 DEF Moved

\* Who comes back from a checkpoint has the bag of it.
LEMMA Unpacked ==
  ASSUME NEW p, NEW q, NEW x, NEW i, i \notin DOMAIN p.bag, NEW o \in DOMAIN p.away,
         DOMAIN q.bag = DOMAIN p.bag \cup {i}, q.bag[i] = p.away[o],
         \A h \in DOMAIN p.bag : q.bag[h] = p.bag[h],
         DOMAIN q.away = DOMAIN p.away \ {o}, \A h \in DOMAIN q.away : q.away[h] = p.away[h],
         q.loot = p.loot, q.drop = p.drop, q.used = p.used, q.lost = p.lost
  PROVE  Moved(Where(p, x), Where(q, x))
<1> DEFINE From(kind, h) == kind = "away" /\ h = o
    Into(d, e) == d = "bag" /\ e = i
    To(kind, h, k) == IF From(kind, h) THEN <<"bag", i, k>> ELSE <<kind, h, k>>
    to == [r \in Where(p, x) |-> To(r[1], r[2], r[3])]
<1>1. \A kind, h, k : Lies(kind, h, k, p, x) => to[<<kind, h, k>>] = To(kind, h, k)
  BY LiesIs
<1> HIDE DEF to
<1>2. \A kind, h, k : Lies(kind, h, k, p, x) /\ ~From(kind, h) => Lies(kind, h, k, q, x)
  BY DEF Lies, Holds
<1>3. \A d, e, f : Lies(d, e, f, q, x) /\ ~Into(d, e) => Lies(d, e, f, p, x) /\ ~From(d, e)
  BY DEF Lies, Holds
<1>4. ASSUME NEW kind, NEW h, NEW k, Lies(kind, h, k, p, x), From(kind, h)
      PROVE  \E d, e, f : To(kind, h, k) = <<d, e, f>> /\ Lies(d, e, f, q, x)
  <2>1. Lies("bag", i, k, q, x)
    BY <1>4 DEF Lies, Holds
  <2> QED BY <1>4, <2>1
<1>5. ASSUME NEW d, NEW e, NEW f, Lies(d, e, f, q, x), Into(d, e)
      PROVE  \E kind, h, k : Lies(kind, h, k, p, x) /\ To(kind, h, k) = <<d, e, f>>
  <2>1. Lies("away", o, f, p, x)
    BY <1>5 DEF Lies, Holds
  <2>2. To("away", o, f) = <<d, e, f>>
    BY <1>5
  <2> QED BY <2>1, <2>2
<1>6. \A kind, h, k : ~From(kind, h) => To(kind, h, k) = <<kind, h, k>>
  OBVIOUS
<1> HIDE DEF To, From, Into
<1>7. ASSUME NEW kind, NEW h, NEW k, Lies(kind, h, k, p, x)
      PROVE  \E d, e, f : to[<<kind, h, k>>] = <<d, e, f>> /\ Lies(d, e, f, q, x)
  <2>1. CASE From(kind, h)
    <3>1. PICK d, e, f : To(kind, h, k) = <<d, e, f>> /\ Lies(d, e, f, q, x)
      BY <1>4, <1>7, <2>1
    <3>2. to[<<kind, h, k>>] = <<d, e, f>>
      BY <1>1, <1>7, <3>1
    <3> QED BY <3>1, <3>2, Zenon
  <2>2. CASE ~From(kind, h)
    <3>1. to[<<kind, h, k>>] = <<kind, h, k>> /\ Lies(kind, h, k, q, x)
      BY <1>1, <1>2, <1>6, <1>7, <2>2
    <3> QED BY <3>1, Zenon
  <2> QED BY <2>1, <2>2
<1>8. ASSUME NEW d, NEW e, NEW f, Lies(d, e, f, q, x)
      PROVE  \E kind, h, k : to[<<kind, h, k>>] = <<d, e, f>> /\ Lies(kind, h, k, p, x)
  <2>1. CASE Into(d, e)
    <3>1. PICK kind, h, k : Lies(kind, h, k, p, x) /\ To(kind, h, k) = <<d, e, f>>
      BY <1>5, <1>8, <2>1
    <3>2. to[<<kind, h, k>>] = <<d, e, f>>
      BY <1>1, <3>1
    <3> QED BY <3>1, <3>2, Zenon
  <2>2. CASE ~Into(d, e)
    <3>1. to[<<d, e, f>>] = <<d, e, f>> /\ Lies(d, e, f, p, x)
      BY <1>1, <1>3, <1>6, <1>8, <2>2
    <3> QED BY <3>1, Zenon
  <2> QED BY <2>1, <2>2
<1>9. Takes(to, p, q, x) /\ Covers(to, p, q, x)
  BY <1>7, <1>8, Zenon DEF Takes, Covers
<1>10. Where(q, x) = Image(to, Where(p, x))
  BY <1>9, MovedBy
<1> QED BY <1>10 DEF Moved

\* Whose body alone is handed over has an empty bag; what the checkpoint held is lost.
LEMMA LeftBehind ==
  ASSUME NEW p, NEW q, NEW x, NEW i, i \notin DOMAIN p.bag, NEW o \in DOMAIN p.away,
         DOMAIN q.bag = DOMAIN p.bag \cup {i}, DOMAIN q.bag[i] = {},
         \A h \in DOMAIN p.bag : q.bag[h] = p.bag[h],
         DOMAIN q.away = DOMAIN p.away \ {o}, \A h \in DOMAIN q.away : q.away[h] = p.away[h],
         \A y : y \in q.lost <=> y \in p.lost \/ \E k \in DOMAIN p.away[o] : p.away[o][k] = y,
         q.loot = p.loot, q.drop = p.drop, q.used = p.used
  PROVE  Moved(Where(p, x), Where(q, x))
<1> DEFINE From(kind, h) == kind = "away" /\ h = o
    Into(d, e) == d = "lost" /\ x \notin p.lost
    To(kind, h, k) == IF From(kind, h) THEN <<"lost", 0, 0>> ELSE <<kind, h, k>>
    to == [r \in Where(p, x) |-> To(r[1], r[2], r[3])]
<1>1. \A kind, h, k : Lies(kind, h, k, p, x) => to[<<kind, h, k>>] = To(kind, h, k)
  BY LiesIs
<1> HIDE DEF to
<1>2. \A kind, h, k : Lies(kind, h, k, p, x) /\ ~From(kind, h) => Lies(kind, h, k, q, x)
  BY DEF Lies, Holds
<1>3. \A d, e, f : Lies(d, e, f, q, x) /\ ~Into(d, e) => Lies(d, e, f, p, x) /\ ~From(d, e)
  BY DEF Lies, Holds
<1>4. ASSUME NEW kind, NEW h, NEW k, Lies(kind, h, k, p, x), From(kind, h)
      PROVE  \E d, e, f : To(kind, h, k) = <<d, e, f>> /\ Lies(d, e, f, q, x)
  <2>1. Lies("lost", 0, 0, q, x)
    BY <1>4 DEF Lies, Holds
  <2> QED BY <1>4, <2>1
<1>5. ASSUME NEW d, NEW e, NEW f, Lies(d, e, f, q, x), Into(d, e)
      PROVE  \E kind, h, k : Lies(kind, h, k, p, x) /\ To(kind, h, k) = <<d, e, f>>
  <2>1. e = 0 /\ f = 0 /\ \E k \in DOMAIN p.away[o] : p.away[o][k] = x
    BY <1>5 DEF Lies
  <2>2. PICK k : Lies("away", o, k, p, x)
    BY <2>1 DEF Lies, Holds
  <2>3. To("away", o, k) = <<d, e, f>>
    BY <1>5, <2>1
  <2> QED BY <2>2, <2>3
<1>6. \A kind, h, k : ~From(kind, h) => To(kind, h, k) = <<kind, h, k>>
  OBVIOUS
<1> HIDE DEF To, From, Into
<1>7. ASSUME NEW kind, NEW h, NEW k, Lies(kind, h, k, p, x)
      PROVE  \E d, e, f : to[<<kind, h, k>>] = <<d, e, f>> /\ Lies(d, e, f, q, x)
  <2>1. CASE From(kind, h)
    <3>1. PICK d, e, f : To(kind, h, k) = <<d, e, f>> /\ Lies(d, e, f, q, x)
      BY <1>4, <1>7, <2>1
    <3>2. to[<<kind, h, k>>] = <<d, e, f>>
      BY <1>1, <1>7, <3>1
    <3> QED BY <3>1, <3>2, Zenon
  <2>2. CASE ~From(kind, h)
    <3>1. to[<<kind, h, k>>] = <<kind, h, k>> /\ Lies(kind, h, k, q, x)
      BY <1>1, <1>2, <1>6, <1>7, <2>2
    <3> QED BY <3>1, Zenon
  <2> QED BY <2>1, <2>2
<1>8. ASSUME NEW d, NEW e, NEW f, Lies(d, e, f, q, x)
      PROVE  \E kind, h, k : to[<<kind, h, k>>] = <<d, e, f>> /\ Lies(kind, h, k, p, x)
  <2>1. CASE Into(d, e)
    <3>1. PICK kind, h, k : Lies(kind, h, k, p, x) /\ To(kind, h, k) = <<d, e, f>>
      BY <1>5, <1>8, <2>1
    <3>2. to[<<kind, h, k>>] = <<d, e, f>>
      BY <1>1, <3>1
    <3> QED BY <3>1, <3>2, Zenon
  <2>2. CASE ~Into(d, e)
    <3>1. to[<<d, e, f>>] = <<d, e, f>> /\ Lies(d, e, f, p, x)
      BY <1>1, <1>3, <1>6, <1>8, <2>2
    <3> QED BY <3>1, Zenon
  <2> QED BY <2>1, <2>2
<1>9. Takes(to, p, q, x) /\ Covers(to, p, q, x)
  BY <1>7, <1>8, Zenon DEF Takes, Covers
<1>10. Where(q, x) = Image(to, Where(p, x))
  BY <1>9, MovedBy
<1> QED BY <1>10 DEF Moved

-----------------------------------------------------------------------------
(* No step loses a stack or makes another of it. *)

Stacks == [bag |-> t.inventory, loot |-> t.loot, drop |-> drops,
           away |-> [o \in DOMAIN away |-> away[o].inventory],
           used |-> log.used, lost |-> log.lost]

LEMMA Known ==
  /\ \A x : Spots(x) = Where(Stacks, x)
  /\ Stacks.bag = t.inventory /\ Stacks.loot = t.loot /\ Stacks.drop = drops
  /\ DOMAIN Stacks.away = DOMAIN away
  /\ \A o \in DOMAIN away : Stacks.away[o] = away[o].inventory
  /\ Stacks.used = log.used /\ Stacks.lost = log.lost
  BY DEF Spots, Where, Stacks

LEMMA KnownNext ==
  /\ \A x : Spots(x)' = Where(Stacks', x)
  /\ Stacks'.bag = t'.inventory /\ Stacks'.loot = t'.loot /\ Stacks'.drop = drops'
  /\ DOMAIN Stacks'.away = DOMAIN away'
  /\ \A o \in DOMAIN away' : Stacks'.away[o] = away'[o].inventory
  /\ Stacks'.used = log'.used /\ Stacks'.lost = log'.lost
  BY DEF Spots, Where, Stacks

Carried(p, q) == \A x : Moved(Where(p, x), Where(q, x))

\* Nothing moves where the lists hold what they held.
LEMMA StayPut ==
  ASSUME NEW p, NEW q,
         \A h, k, x : /\ Holds(q.bag, h, k, x) <=> Holds(p.bag, h, k, x)
                      /\ Holds(q.loot, h, k, x) <=> Holds(p.loot, h, k, x)
                      /\ Holds(q.drop, h, k, x) <=> Holds(p.drop, h, k, x)
                      /\ Holds(q.away, h, k, x) <=> Holds(p.away, h, k, x),
         q.used = p.used, q.lost = p.lost
  PROVE  Carried(p, q)
<1>1. \A x : \A kind, h, k : Lies(kind, h, k, p, x) <=> Lies(kind, h, k, q, x)
  BY DEF Lies
<1> QED BY <1>1, Stay DEF Carried

LEMMA HoldsSame ==
  ASSUME NEW f, NEW g, DOMAIN g = DOMAIN f, \A h \in DOMAIN f : g[h] = f[h]
  PROVE  \A h, k, x : Holds(g, h, k, x) <=> Holds(f, h, k, x)
  BY DEF Holds

LEMMA AwaySame ==
  ASSUME away' = away
  PROVE  \A h, k, x : Holds(Stacks'.away, h, k, x) <=> Holds(Stacks.away, h, k, x)
  BY Known, KnownNext, HoldsSame

\* What the lists are.
LEMMA Lists ==
  ASSUME IInv
  PROVE  /\ \A i \in DOMAIN t.inventory : t.inventory[i] \in Seq(Items)
         /\ \A i \in DOMAIN t.loot : t.loot[i] \in Seq(Items)
         /\ drops \in Seq(Seq(Items)) /\ t.next \in Nat \ {0}
         /\ \A o \in DOMAIN away : away[o].inventory \in Seq(Items)
  BY DEF IInv, World, Typed, Sized, Turns, Abroad, Saved

LEMMA UnhandledCarries ==
  ASSUME Unhandled
  PROVE  Carried(Stacks, Stacks')
<1>1. /\ Stacks'.bag = Stacks.bag /\ Stacks'.loot = Stacks.loot /\ Stacks'.drop = Stacks.drop
      /\ Stacks'.away = Stacks.away /\ Stacks'.used = Stacks.used /\ Stacks'.lost = Stacks.lost
  BY DEF Unhandled, Stacks
<1> QED BY <1>1, StayPut

LEMMA ClearsCarries ==
  ASSUME Clears
  PROVE  Carried(Stacks, Stacks')
<1>1. /\ Stacks'.drop = Stacks.drop /\ Stacks'.away = Stacks.away
      /\ Stacks'.used = Stacks.used /\ Stacks'.lost = Stacks.lost
  BY DEF Clears, Stacks
<1>2. \A h, k, x : Holds(Stacks'.bag, h, k, x) <=> Holds(Stacks.bag, h, k, x)
  BY Known, KnownNext, HoldsSame DEF Clears, BagsStay
<1>3. \A h, k, x : Holds(Stacks'.loot, h, k, x) <=> Holds(Stacks.loot, h, k, x)
  BY Known, KnownNext, HoldsSame DEF Clears, LootStays
<1> QED BY <1>1, <1>2, <1>3, StayPut

LEMMA RelicCarries ==
  ASSUME Relic
  PROVE  Carried(Stacks, Stacks')
<1>1. /\ Stacks'.drop = Stacks.drop /\ Stacks'.away = Stacks.away
      /\ Stacks'.used = Stacks.used /\ Stacks'.lost = Stacks.lost
  BY DEF Relic, Stacks
<1>2. \A h, k, x : Holds(Stacks'.bag, h, k, x) <=> Holds(Stacks.bag, h, k, x)
  BY Known, KnownNext, HoldsSame DEF Relic, BagsStay
<1>3. /\ DOMAIN t'.loot = DOMAIN t.loot \cup {t.next} /\ t'.loot[t.next] = <<>>
      /\ \A h \in DOMAIN t.loot : t'.loot[h] = t.loot[h]
  BY DEF Relic, Put
<1>4. DOMAIN <<>> = {}
  OBVIOUS
<1>5. \A h, k, x : Holds(t'.loot, h, k, x) <=> Holds(t.loot, h, k, x)
  BY <1>3, <1>4 DEF Holds, Relic
<1> QED BY <1>1, <1>2, <1>5, Known, KnownNext, StayPut

LEMMA UseCarries ==
  ASSUME IInv, UsesOne
  PROVE  Carried(Stacks, Stacks')
<1>1. PICK i \in DOMAIN t.inventory : \E k \in 1..Len(t.inventory[i]) :
       /\ t'.inventory = [t.inventory EXCEPT ![i] = RemoveAt(t.inventory[i], k)]
       /\ log'.used = log.used \cup {t.inventory[i][k]}
       /\ t'.loot = t.loot /\ drops' = drops /\ away' = away /\ log'.lost = log.lost
  BY DEF UsesOne
<1>2. PICK k \in 1..Len(t.inventory[i]) :
        /\ t'.inventory = [t.inventory EXCEPT ![i] = RemoveAt(t.inventory[i], k)]
        /\ log'.used = log.used \cup {t.inventory[i][k]}
        /\ t'.loot = t.loot /\ drops' = drops /\ away' = away /\ log'.lost = log.lost
  BY <1>1
<1> DEFINE n == Len(t.inventory[i])
           left == RemoveAt(t.inventory[i], k)
<1>3. t.inventory[i] \in Seq(Items)
  BY Lists
<1>4. n \in Nat /\ DOMAIN t.inventory[i] = 1..n /\ k \in 1..n /\ n \in Nat \ {0}
  BY <1>3
<1>5. /\ left \in Seq(Items) /\ Len(left) = n - 1
      /\ \A j \in 1..(n - 1) : left[j] = IF j < k THEN t.inventory[i][j] ELSE t.inventory[i][j + 1]
  BY <1>3, <1>4, Removed
<1>6. /\ DOMAIN t'.inventory = DOMAIN t.inventory /\ t'.inventory[i] = left
      /\ \A h \in DOMAIN t.inventory : h # i => t'.inventory[h] = t.inventory[h]
  BY <1>2
<1>7. DOMAIN left = 1..(n - 1)
  BY <1>5
<1> HIDE DEF n, left
<1>8. \A j \in 1..(n - 1) : left[j] = t.inventory[i][IF j < k THEN j ELSE j + 1]
  BY <1>5
<1>9. /\ Stacks'.loot = Stacks.loot /\ Stacks'.drop = Stacks.drop /\ Stacks'.away = Stacks.away
      /\ Stacks'.used = Stacks.used \cup {Stacks.bag[i][k]} /\ Stacks'.lost = Stacks.lost
  BY <1>2 DEF Stacks
<1>10. /\ i \in DOMAIN Stacks.bag /\ DOMAIN Stacks.bag[i] = 1..n
       /\ DOMAIN Stacks'.bag = DOMAIN Stacks.bag
       /\ \A h \in DOMAIN Stacks.bag : h # i => Stacks'.bag[h] = Stacks.bag[h]
       /\ DOMAIN Stacks'.bag[i] = 1..(n - 1)
       /\ \A j \in 1..(n - 1) :
            Stacks'.bag[i][j] = Stacks.bag[i][IF j < k THEN j ELSE j + 1]
  BY <1>4, <1>6, <1>7, <1>8, Known, KnownNext
<1>11. ASSUME NEW x PROVE Moved(Where(Stacks, x), Where(Stacks', x))
  BY <1>4, <1>9, <1>10, UsedUp
<1> QED BY <1>11 DEF Carried

LEMMA ShedCarries ==
  ASSUME IInv, Sheds
  PROVE  Carried(Stacks, Stacks')
<1>1. PICK i \in DOMAIN t.inventory :
        /\ t'.inventory = [t.inventory EXCEPT ![i] = Kept(t.inventory[i])]
        /\ drops' = Append(drops, Dropped(t.inventory[i]))
        /\ t'.loot = t.loot /\ away' = away /\ Unspent
  BY DEF Sheds
<1> DEFINE n == Len(t.inventory[i])
           m == Len(drops)
<1>2. t.inventory[i] \in Seq(Items) /\ drops \in Seq(Seq(Items))
  BY Lists
<1>3. n \in Nat /\ m \in Nat /\ DOMAIN t.inventory[i] = 1..n /\ DOMAIN drops = 1..m
  BY <1>2
<1>4. /\ DOMAIN t'.inventory = DOMAIN t.inventory /\ t'.inventory[i] = Kept(t.inventory[i])
      /\ \A h \in DOMAIN t.inventory : h # i => t'.inventory[h] = t.inventory[h]
  BY <1>1
<1>5. /\ DOMAIN t'.inventory[i] = 1..(n \div 2)
      /\ \A k \in 1..(n \div 2) : t'.inventory[i][k] = t.inventory[i][2 * k]
  BY <1>4 DEF Kept
<1>6. /\ DOMAIN drops' = 1..(m + 1) /\ drops'[m + 1] = Dropped(t.inventory[i])
      /\ \A k \in 1..m : drops'[k] = drops[k]
  <2> DEFINE last == Dropped(t.inventory[i])
  <2> HIDE DEF last
  <2>1. drops' = Append(drops, last)
    BY <1>1 DEF last
  <2>2. /\ DOMAIN Append(drops, last) = 1..(m + 1) /\ Append(drops, last)[m + 1] = last
        /\ \A k \in 1..m : Append(drops, last)[k] = drops[k]
    BY <1>2, AppendProperties
  <2> QED BY <2>1, <2>2 DEF last
<1>7. /\ DOMAIN drops'[m + 1] = 1..((n + 1) \div 2)
      /\ \A k \in 1..((n + 1) \div 2) : drops'[m + 1][k] = t.inventory[i][2 * k - 1]
  BY <1>6 DEF Dropped
<1> HIDE DEF n, m
<1>8. /\ Stacks'.loot = Stacks.loot /\ Stacks'.away = Stacks.away
      /\ Stacks'.used = Stacks.used /\ Stacks'.lost = Stacks.lost
  BY <1>1 DEF Stacks, Unspent
<1>9. /\ i \in DOMAIN Stacks.bag /\ DOMAIN Stacks.bag[i] = 1..n
      /\ DOMAIN Stacks.drop = 1..m /\ DOMAIN Stacks'.bag = DOMAIN Stacks.bag
      /\ \A h \in DOMAIN Stacks.bag : h # i => Stacks'.bag[h] = Stacks.bag[h]
      /\ DOMAIN Stacks'.bag[i] = 1..(n \div 2)
      /\ \A k \in 1..(n \div 2) : Stacks'.bag[i][k] = Stacks.bag[i][2 * k]
      /\ DOMAIN Stacks'.drop = 1..(m + 1)
      /\ \A k \in 1..m : Stacks'.drop[k] = Stacks.drop[k]
      /\ DOMAIN Stacks'.drop[m + 1] = 1..((n + 1) \div 2)
      /\ \A k \in 1..((n + 1) \div 2) : Stacks'.drop[m + 1][k] = Stacks.bag[i][2 * k - 1]
  BY <1>3, <1>4, <1>5, <1>6, <1>7, Known, KnownNext
<1>10. ASSUME NEW x PROVE Moved(Where(Stacks, x), Where(Stacks', x))
  BY <1>3, <1>8, <1>9, Shed
<1> QED BY <1>10 DEF Carried

LEMMA LandsCarries ==
  ASSUME IInv, Lands
  PROVE  Carried(Stacks, Stacks')
<1> DEFINE n == Len(drops)
           b == t.next
<1>1. drops \in Seq(Seq(Items)) /\ b \in Nat
  BY Lists
<1>2. n \in Nat /\ DOMAIN drops = 1..n
  BY <1>1
<1>3. /\ drops' = <<>> /\ away' = away /\ Unspent
      /\ DOMAIN t'.loot = DOMAIN t.loot \cup (b .. b + n - 1)
      /\ \A h \in DOMAIN t.loot : h < b /\ t'.loot[h] = t.loot[h]
      /\ \A k \in 1..n : t'.loot[b + k - 1] = drops[k]
  BY DEF Lands
<1>4. DOMAIN drops' = {}
  BY <1>3
<1>5. \A h \in DOMAIN t.loot : h \notin b .. b + n - 1
  BY <1>1, <1>2, <1>3
<1> HIDE DEF n, b
<1>6. \A h, k, x : Holds(Stacks'.bag, h, k, x) <=> Holds(Stacks.bag, h, k, x)
  BY Known, KnownNext, HoldsSame DEF Lands, BagsStay
<1>7. Stacks'.away = Stacks.away /\ Stacks'.used = Stacks.used /\ Stacks'.lost = Stacks.lost
  BY <1>3 DEF Stacks, Unspent
<1>8. /\ DOMAIN Stacks.drop = 1..n /\ DOMAIN Stacks'.drop = {}
      /\ \A h \in DOMAIN Stacks.loot : h \notin b .. b + n - 1
      /\ DOMAIN Stacks'.loot = DOMAIN Stacks.loot \cup (b .. b + n - 1)
      /\ \A h \in DOMAIN Stacks.loot : Stacks'.loot[h] = Stacks.loot[h]
      /\ \A h \in 1..n : Stacks'.loot[b + h - 1] = Stacks.drop[h]
  BY <1>2, <1>3, <1>4, <1>5, Known, KnownNext
<1>9. ASSUME NEW x PROVE Moved(Where(Stacks, x), Where(Stacks', x))
  BY <1>1, <1>2, <1>6, <1>7, <1>8, Landed
<1> QED BY <1>9 DEF Carried

LEMMA PickCarries ==
  ASSUME IInv, Picks
  PROVE  Carried(Stacks, Stacks')
<1>1. PICK i \in DOMAIN t.inventory, c \in DOMAIN t.loot :
        /\ t'.inventory = [t.inventory EXCEPT ![i] = t.inventory[i] \o t.loot[c]]
        /\ DOMAIN t'.loot = DOMAIN t.loot \ {c}
        /\ \A j \in DOMAIN t'.loot : t'.loot[j] = t.loot[j]
        /\ UNCHANGED <<drops, away, log>>
  BY DEF Picks
<1> DEFINE n == Len(t.inventory[i])
           m == Len(t.loot[c])
           both == t.inventory[i] \o t.loot[c]
<1>2. t.inventory[i] \in Seq(Items) /\ t.loot[c] \in Seq(Items)
  BY Lists
<1>3. n \in Nat /\ m \in Nat /\ DOMAIN t.inventory[i] = 1..n /\ DOMAIN t.loot[c] = 1..m
  BY <1>2
<1>4. /\ Len(both) = n + m /\ both \in Seq(Items)
      /\ \A k \in 1..(n + m) : both[k] = IF k <= n THEN t.inventory[i][k] ELSE t.loot[c][k - n]
  BY <1>2, ConcatProperties
<1>5. /\ DOMAIN t'.inventory = DOMAIN t.inventory /\ t'.inventory[i] = both
      /\ \A h \in DOMAIN t.inventory : h # i => t'.inventory[h] = t.inventory[h]
  BY <1>1
<1> HIDE DEF both, n, m
<1>6. DOMAIN both = 1..(n + m)
  BY <1>4
<1>7. \A k \in 1..n : both[k] = t.inventory[i][k]
  BY <1>3, <1>4
<1>8. \A k \in 1..m : both[n + k] = t.loot[c][k]
  <2> TAKE k \in 1..m
  <2> DEFINE j == n + k
  <2>1. j \in 1..(n + m) /\ ~(j <= n) /\ j - n = k
    BY <1>3
  <2> HIDE DEF j
  <2>2. both[j] = t.loot[c][k]
    BY <1>4, <2>1
  <2> QED BY <2>2 DEF j
<1>9. /\ Stacks'.drop = Stacks.drop /\ Stacks'.away = Stacks.away
      /\ Stacks'.used = Stacks.used /\ Stacks'.lost = Stacks.lost
  BY <1>1 DEF Stacks
<1>10. /\ i \in DOMAIN Stacks.bag /\ c \in DOMAIN Stacks.loot
       /\ DOMAIN Stacks.bag[i] = 1..n /\ DOMAIN Stacks.loot[c] = 1..m
       /\ DOMAIN Stacks'.bag = DOMAIN Stacks.bag
       /\ \A h \in DOMAIN Stacks.bag : h # i => Stacks'.bag[h] = Stacks.bag[h]
       /\ DOMAIN Stacks'.bag[i] = 1..(n + m)
       /\ \A k \in 1..n : Stacks'.bag[i][k] = Stacks.bag[i][k]
  BY <1>3, <1>5, <1>6, <1>7, Known, KnownNext
<1>11. /\ DOMAIN Stacks'.loot = DOMAIN Stacks.loot \ {c}
       /\ \A h \in DOMAIN Stacks'.loot : Stacks'.loot[h] = Stacks.loot[h]
  BY <1>1, Known, KnownNext
<1>12. \A k \in 1..m : Stacks'.bag[i][n + k] = Stacks.loot[c][k]
  BY <1>5, <1>8, Known, KnownNext
<1>13. Joins(Stacks, Stacks', i, c, n, m)
  BY <1>3, <1>9, <1>10, <1>11, <1>12 DEF Joins
<1>14. ASSUME NEW x PROVE Moved(Where(Stacks, x), Where(Stacks', x))
  BY <1>13, Gathers
<1> QED BY <1>14 DEF Carried

LEMMA PackCarries ==
  ASSUME Packs
  PROVE  Carried(Stacks, Stacks')
<1>1. PICK i \in DOMAIN t.inventory, o \in Owner \ DOMAIN away :
        /\ DOMAIN t'.inventory = DOMAIN t.inventory \ {i}
        /\ \A j \in DOMAIN t'.inventory : t'.inventory[j] = t.inventory[j]
        /\ DOMAIN away' = DOMAIN away \cup {o} /\ away'[o].inventory = t.inventory[i]
        /\ \A p \in DOMAIN away : away'[p] = away[p]
        /\ LootStays /\ UNCHANGED <<drops, log>>
  BY DEF Packs
<1>2. Stacks'.drop = Stacks.drop /\ Stacks'.used = Stacks.used /\ Stacks'.lost = Stacks.lost
  BY <1>1 DEF Stacks
<1>3. /\ Stacks'.away[o] = Stacks.bag[i]
      /\ \A p \in DOMAIN Stacks.away : Stacks'.away[p] = Stacks.away[p]
  BY <1>1, Known, KnownNext
<1>4. \A h, k, x : Holds(Stacks'.loot, h, k, x) <=> Holds(Stacks.loot, h, k, x)
  BY <1>1, Known, KnownNext, HoldsSame DEF LootStays
<1>5. /\ i \in DOMAIN Stacks.bag /\ o \notin DOMAIN Stacks.away
      /\ DOMAIN Stacks'.bag = DOMAIN Stacks.bag \ {i}
      /\ \A h \in DOMAIN Stacks'.bag : Stacks'.bag[h] = Stacks.bag[h]
      /\ DOMAIN Stacks'.away = DOMAIN Stacks.away \cup {o}
  BY <1>1, Known, KnownNext
<1>6. ASSUME NEW x PROVE Moved(Where(Stacks, x), Where(Stacks', x))
  BY <1>2, <1>3, <1>4, <1>5, Packed
<1> QED BY <1>6 DEF Carried

LEMMA UnpackCarries ==
  ASSUME Unpacks
  PROVE  Carried(Stacks, Stacks')
<1>1. PICK o \in DOMAIN away : Returns(o, away[o].inventory) /\ log'.lost = log.lost
  BY DEF Unpacks
<1>2. /\ t.next \notin DOMAIN t.inventory
      /\ DOMAIN t'.inventory = DOMAIN t.inventory \cup {t.next}
      /\ t'.inventory[t.next] = away[o].inventory
      /\ \A h \in DOMAIN t.inventory : t'.inventory[h] = t.inventory[h]
      /\ DOMAIN away' = DOMAIN away \ {o} /\ \A p \in DOMAIN away' : away'[p] = away[p]
  BY <1>1 DEF Returns, Put
<1>3. /\ Stacks'.loot = Stacks.loot /\ Stacks'.drop = Stacks.drop
      /\ Stacks'.used = Stacks.used /\ Stacks'.lost = Stacks.lost
  BY <1>1 DEF Stacks, Returns
<1>4. \A h \in DOMAIN Stacks'.away : Stacks'.away[h] = Stacks.away[h]
  BY <1>2, Known, KnownNext
<1>5. /\ t.next \notin DOMAIN Stacks.bag /\ o \in DOMAIN Stacks.away
      /\ DOMAIN Stacks'.bag = DOMAIN Stacks.bag \cup {t.next}
      /\ Stacks'.bag[t.next] = Stacks.away[o]
      /\ \A h \in DOMAIN Stacks.bag : Stacks'.bag[h] = Stacks.bag[h]
      /\ DOMAIN Stacks'.away = DOMAIN Stacks.away \ {o}
  BY <1>2, Known, KnownNext
<1>6. ASSUME NEW x PROVE Moved(Where(Stacks, x), Where(Stacks', x))
  BY <1>3, <1>4, <1>5, Unpacked
<1> QED BY <1>6 DEF Carried

LEMMA AbandonCarries ==
  ASSUME IInv, Abandons
  PROVE  Carried(Stacks, Stacks')
<1>1. PICK o \in DOMAIN away :
        Returns(o, <<>>) /\ log'.lost = log.lost \cup ToSet(away[o].inventory)
  BY DEF Abandons
<1>2. /\ t.next \notin DOMAIN t.inventory
      /\ DOMAIN t'.inventory = DOMAIN t.inventory \cup {t.next}
      /\ t'.inventory[t.next] = <<>>
      /\ \A h \in DOMAIN t.inventory : t'.inventory[h] = t.inventory[h]
      /\ DOMAIN away' = DOMAIN away \ {o} /\ \A p \in DOMAIN away' : away'[p] = away[p]
  BY <1>1 DEF Returns, Put
<1>3. Stacks'.loot = Stacks.loot /\ Stacks'.drop = Stacks.drop /\ Stacks'.used = Stacks.used
  BY <1>1 DEF Stacks, Returns
<1>4. \A h \in DOMAIN Stacks'.away : Stacks'.away[h] = Stacks.away[h]
  BY <1>2, Known, KnownNext
<1>5. DOMAIN t'.inventory[t.next] = {}
  BY <1>2
<1>6. \A y : y \in log'.lost <=>
        y \in log.lost \/ \E k \in DOMAIN away[o].inventory : away[o].inventory[k] = y
  BY <1>1 DEF ToSet
<1>7. /\ t.next \notin DOMAIN Stacks.bag /\ o \in DOMAIN Stacks.away
      /\ DOMAIN Stacks'.bag = DOMAIN Stacks.bag \cup {t.next}
      /\ DOMAIN Stacks'.bag[t.next] = {}
      /\ \A h \in DOMAIN Stacks.bag : Stacks'.bag[h] = Stacks.bag[h]
      /\ DOMAIN Stacks'.away = DOMAIN Stacks.away \ {o}
      /\ \A y : y \in Stacks'.lost <=>
           y \in Stacks.lost \/ \E k \in DOMAIN Stacks.away[o] : Stacks.away[o][k] = y
  BY <1>2, <1>5, <1>6, Known, KnownNext
<1>8. ASSUME NEW x PROVE Moved(Where(Stacks, x), Where(Stacks', x))
  BY <1>3, <1>4, <1>7, LeftBehind
<1> QED BY <1>8 DEF Carried

LEMMA HandlingCarries ==
  ASSUME IInv, Handling, \A o \in Owner : ~Brings(o)
  PROVE  Carried(Stacks, Stacks') /\ log'.joined = log.joined
<1>1. \/ Unhandled \/ UsesOne \/ Sheds \/ Lands \/ Relic \/ Clears \/ Picks
      \/ Packs \/ Unpacks \/ Abandons
  BY DEF Handling
<1>2. Carried(Stacks, Stacks')
  BY <1>1, UnhandledCarries, UseCarries, ShedCarries, LandsCarries, RelicCarries,
     ClearsCarries, PickCarries, PackCarries, UnpackCarries, AbandonCarries
<1>3. log'.joined = log.joined
  BY <1>1 DEF Unhandled, UsesOne, Sheds, Lands, Relic, Clears, Picks, Packs, Unpacks,
              Abandons, Returns, Unspent
<1> QED BY <1>2, <1>3

\* A player that joins brings its stacks, and moves no other.
LEMMA BringsBag ==
  ASSUME NEW o \in Owner, Brings(o), NEW x
  PROVE  \A kind, h, k : Lies(kind, h, k, Stacks', x) <=>
           \/ Lies(kind, h, k, Stacks, x)
           \/ kind = "bag" /\ h = t.next /\ k \in DOMAIN Kit[o] /\ Kit[o][k] = x
<1>1. /\ t.next \notin DOMAIN t.inventory
      /\ DOMAIN t'.inventory = DOMAIN t.inventory \cup {t.next}
      /\ t'.inventory[t.next] = Kit[o]
      /\ \A h \in DOMAIN t.inventory : t'.inventory[h] = t.inventory[h]
  BY DEF Brings, Put
<1>2. /\ Stacks'.loot = Stacks.loot /\ Stacks'.drop = Stacks.drop /\ Stacks'.away = Stacks.away
      /\ Stacks'.used = Stacks.used /\ Stacks'.lost = Stacks.lost
  BY DEF Brings, Stacks
<1>3. \A h, k : Holds(Stacks'.bag, h, k, x) <=>
        \/ Holds(Stacks.bag, h, k, x)
        \/ h = t.next /\ k \in DOMAIN Kit[o] /\ Kit[o][k] = x
  BY <1>1, Known, KnownNext DEF Holds
<1> QED BY <1>2, <1>3 DEF Lies

LEMMA BringsOwn ==
  ASSUME NEW o \in Owner, Brings(o), NEW x \in ToSet(Kit[o]), Spots(x) = {}
  PROVE  \E s : Spots(x)' = {s}
<1>1. PICK j \in DOMAIN Kit[o] : Kit[o][j] = x
  BY DEF ToSet
<1>2. \A k \in DOMAIN Kit[o] : Kit[o][k] = x => k = j
  BY <1>1, Players
<1>3. \A kind, h, k : ~Lies(kind, h, k, Stacks, x)
  BY Known, LiesIs
<1>4. \A kind, h, k : Lies(kind, h, k, Stacks', x) <=> kind = "bag" /\ h = t.next /\ k = j
  BY <1>1, <1>2, <1>3, BringsBag
<1>5. \A s : s \in Where(Stacks', x) <=> s = <<"bag", t.next, j>>
  BY <1>4, WhereIs
<1>6. Where(Stacks', x) = {<<"bag", t.next, j>>}
  BY <1>5
<1> QED BY <1>6, KnownNext

LEMMA BringsOther ==
  ASSUME NEW o \in Owner, Brings(o), NEW x, x \notin ToSet(Kit[o])
  PROVE  Moved(Where(Stacks, x), Where(Stacks', x))
<1>1. \A k \in DOMAIN Kit[o] : Kit[o][k] # x
  BY DEF ToSet
<1>2. \A kind, h, k : Lies(kind, h, k, Stacks, x) <=> Lies(kind, h, k, Stacks', x)
  BY <1>1, BringsBag
<1> QED BY <1>2, Stay

\* Each stack of a player that has joined is in one place, and those of the others are
\* in none.
Placed ==
  \A o \in Owner : \A x \in ToSet(Kit[o]) :
    IF o \in log.joined THEN \E s : Spots(x) = {s} ELSE Spots(x) = {}

LEMMA PlacedFirst == Init => Placed
<1> SUFFICES ASSUME Init PROVE Placed
  OBVIOUS
<1>1. /\ t.inventory = <<>> /\ t.loot = <<>> /\ drops = <<>> /\ away = <<>>
      /\ log.used = {} /\ log.lost = {} /\ log.joined = {}
  BY DEF Init, NoWorld
<1>2. DOMAIN <<>> = {}
  OBVIOUS
<1>3. ASSUME NEW x PROVE Spots(x) = {}
  <2>1. \A kind, h, k : ~Lies(kind, h, k, Stacks, x)
    BY <1>1, <1>2, Known DEF Lies, Holds
  <2>2. \A s : s \notin Where(Stacks, x)
    BY <2>1, WhereIs
  <2> QED BY <2>2, Known
<1> QED BY <1>1, <1>3 DEF Placed

LEMMA PlacedNext ==
  ASSUME IInv, Placed, [Next]_vars
  PROVE  Placed'
<1> SUFFICES ASSUME NEW o \in Owner, NEW x \in ToSet(Kit[o])
             PROVE  IF o \in log'.joined THEN \E s : Spots(x)' = {s} ELSE Spots(x)' = {}
  BY DEF Placed
<1>1. Handling
  BY NextStep
<1>2. IF o \in log.joined THEN \E s : Spots(x) = {s} ELSE Spots(x) = {}
  BY DEF Placed
<1>3. ASSUME Moved(Where(Stacks, x), Where(Stacks', x)), o \in log'.joined <=> o \in log.joined
      PROVE  IF o \in log'.joined THEN \E s : Spots(x)' = {s} ELSE Spots(x)' = {}
  <2>1. /\ Where(Stacks, x) = {} => Where(Stacks', x) = {}
        /\ (\E s : Where(Stacks, x) = {s}) => \E s : Where(Stacks', x) = {s}
    BY <1>3, OneOrNone
  <2>2. Spots(x) = Where(Stacks, x) /\ Spots(x)' = Where(Stacks', x)
    BY Known, KnownNext
  <2> QED BY <1>2, <1>3, <2>1, <2>2
<1>4. CASE \A p \in Owner : ~Brings(p)
  BY <1>1, <1>3, <1>4, HandlingCarries DEF Carried
<1>5. ASSUME NEW p \in Owner, Brings(p)
      PROVE  IF o \in log'.joined THEN \E s : Spots(x)' = {s} ELSE Spots(x)' = {}
  <2>1. p \notin log.joined /\ log'.joined = log.joined \cup {p}
    BY <1>5 DEF Brings
  <2>2. CASE p = o
    BY <1>2, <1>5, <2>1, <2>2, BringsOwn
  <2>3. CASE p # o
    <3>1. x \notin ToSet(Kit[p])
      BY <2>3, Players DEF ToSet
    <3> QED BY <1>3, <1>5, <2>1, <2>3, <3>1, BringsOther
  <2> QED BY <2>2, <2>3
<1> QED BY <1>4, <1>5

\* Every stack a player brought is in exactly one place: a bag, a piece of loot, a pile
\* about to land, a checkpoint, drunk, or left behind by a hand-off. Deaths, pickups,
\* potions, recoveries, respawns and expiries lose none and make none twice
\* (process_deaths, build_loot, pickup_loot, remove_entity, import_player).
THEOREM StacksStay == Spec => []ItemsOnce
<1>1. Init => IInv /\ Placed
  BY InitOK, PlacedFirst
<1>2. IInv /\ Placed /\ [Next]_vars => (IInv /\ Placed)'
  BY NextStep, PlacedNext
<1>3. IInv /\ Placed => ItemsOnce
  <2> SUFFICES ASSUME IInv, Placed, NEW o \in log.joined, NEW x \in ToSet(Kit[o])
               PROVE  \E s \in Spots(x) : Spots(x) = {s}
    BY DEF ItemsOnce
  <2>1. o \in Owner
    BY DEF IInv, Abroad
  <2>2. PICK s : Spots(x) = {s}
    BY <2>1 DEF Placed
  <2> QED BY <2>2
<1> QED BY <1>1, <1>2, <1>3, PTL DEF Spec

-----------------------------------------------------------------------------
(* How long what is cast may last. *)

\* The passes that come to what was left, in their order: projectiles, fields, delayed
\* effects; and the tick in which the next of each is.
Stage == IF pass = "shots" THEN 1 ELSE IF pass = "fields" THEN 2
         ELSE IF pass \in {"statuses", "procs", "movement", "cast"} THEN 0 ELSE 3
Soonest(k) == tick + (IF Stage < k THEN 0 ELSE 1)
Ends == log.cast + Lifespan

\* What waits for a pass, until some tick, with its op and the tick of its cast, is over
\* with all it brings by the end of the last cast.
Held(m, k, op, cast, until) ==
  /\ until + m.late[op][k] <= Ends
  /\ cast + m.span[op] + m.late[op][k] <= Ends
  /\ Soonest(k) + m.late[op][k] <= Ends
LateShots(m)  == {s \in Shots : Held(m, 1, s.op, s.ctx.tick, s.expire)}
LateFields(m) == {f \in Places : Held(m, 2, f.op, f.ctx.tick, f.expire)}
LateWaits(m)  == {w \in Waits : Held(m, 3, w.op, w.ctx.tick, w.run)}

\* So is what is being evaluated. A run starts before any of these passes.
Running(m, op, cast) ==
  cast + m.span[op] + m.late[op][Stage] <= Ends /\ tick + m.late[op][Stage] <= Ends
LateFrames(m) ==
  {h \in FrameSet :
     /\ h.op \in Op \ m.still => Running(m, h.op, h.ctx.tick)
     /\ h.op.op = "rest" /\ h.op.count > 1 =>
          Held(m, 3, h.op.then, h.ctx.tick, h.ctx.tick + (h.op.count - 1) * h.op.step)
     /\ h.op.op \in {"cast", "use"} => Stage = 0}

Fading(m) ==
  /\ log.cast \in Nat /\ log.cast <= tick
  /\ t.projectiles = [p \in DOMAIN t.projectiles |-> t.projectiles[p]]
  /\ \A p \in DOMAIN t.projectiles : t.projectiles[p] \in LateShots(m)
  /\ t.fields \in Seq(LateFields(m)) /\ t.scheduled \in Seq(LateWaits(m))
  /\ stack \in Seq(LateFrames(m))
  /\ \A i \in DOMAIN t.mobs : t.mobs[i] \in Int /\ (Idle => t.mobs[i] > tick)

\* The hypothesis, node by node.
LEMMA Inner ==
  ASSUME NEW m, Fades(m), NEW o \in Op, NEW inner \in Within(o)
  PROVE  /\ inner \in Op /\ m.span[inner] <= m.span[o]
         /\ \A p \in 0..3 : m.late[inner][p] <= m.late[o][p]
         /\ o \in m.still => inner \in m.still
<1>1. inner \in Op
  BY Grammar DEF Within, ToSet
<1> QED BY <1>1 DEF Fades

LEMMA Leaving ==
  ASSUME NEW m, Fades(m), NEW o \in Op, NEW l \in Leaves(o)
  PROVE  /\ l.then \in Op /\ l.lasts \in Nat /\ l.pass \in 1..3
         /\ o \notin m.still /\ l.lasts <= m.span[o] /\ m.span[l.then] <= m.span[o]
         /\ \A p \in 0..3 : m.late[l.then][l.pass] + (IF p < l.pass THEN 0 ELSE 1) <= m.late[o][p]
<1>1. l.then \in Op /\ l.pass \in 1..3
  BY Grammar DEF Leaves
<1>2. l.lasts \in Nat
  <2>1. CASE o.op = "repeat"
    <3>1. o.count \in Nat /\ o.step \in Nat /\ o.count > 1 /\ l.lasts = (o.count - 1) * o.step
      BY <2>1, Grammar DEF Leaves
    <3> DEFINE n == o.count - 1
    <3>2. n \in Nat
      BY <3>1
    <3> HIDE DEF n
    <3>3. n * o.step \in Nat
      BY <3>1, <3>2
    <3> QED BY <3>1, <3>3 DEF n
  <2>2. CASE o.op # "repeat"
    BY <2>2, Grammar DEF Leaves
  <2> QED BY <2>1, <2>2
<1> QED BY <1>1, <1>2 DEF Fades

LEMMA Measured ==
  ASSUME NEW m, Fades(m), NEW o \in Op
  PROVE  m.span[o] \in Nat /\ \A p \in 0..3 : m.late[o][p] \in Nat
  BY DEF Fades

LEMMA Staged ==
  ASSUME IInv
  PROVE  /\ tick \in Nat /\ Stage \in 0..3
         /\ \A k \in 1..3 : Soonest(k) \in Nat /\ Soonest(k) >= tick
<1>1. tick \in 0..MaxTick
  BY DEF IInv, Turns
<1>2. tick \in Nat
  BY <1>1, Bounds
<1> QED BY <1>2 DEF Stage, Soonest

\* Casts only put the end off, and what is held stays so until its pass comes.
LEMMA HeldOn ==
  ASSUME IInv, IInv', NEW m, Fades(m), Fading(m), log'.cast \in Nat, log'.cast >= log.cast,
         NEW k \in 1..3, Soonest(k)' <= Soonest(k), NEW o \in Op, NEW cast \in Int,
         NEW until \in Int, Held(m, k, o, cast, until)
  PROVE  Held(m, k, o, cast, until)'
<1>1. /\ m.span[o] \in Nat /\ m.late[o][k] \in Nat
      /\ Soonest(k) \in Nat /\ Soonest(k)' \in Int
  <2>1. tick' \in Nat
    BY Bounds DEF IInv, Turns
  <2>2. Soonest(k)' \in Int
    BY <2>1 DEF Soonest
  <2>3. k \in 0..3
    OBVIOUS
  <2> QED BY <2>2, <2>3, Measured, Staged
<1>2. Ends \in Nat /\ Ends' \in Nat /\ Ends <= Ends'
  <2>1. log.cast \in Nat /\ Lifespan \in Nat
    BY Bounds DEF Fading
  <2> QED BY <2>1 DEF Ends
<1> QED BY <1>1, <1>2 DEF Held

\* A pass that goes on, with its rows and frames.
LEMMA GoesOn ==
  ASSUME IInv, IInv', NEW m, Fades(m), Fading(m), UNCHANGED <<tick, pass>>,
         log'.cast \in {log.cast, tick}
  PROVE  /\ LateShots(m) \subseteq LateShots(m)' /\ LateFields(m) \subseteq LateFields(m)'
         /\ LateWaits(m) \subseteq LateWaits(m)' /\ LateFrames(m) \subseteq LateFrames(m)'
         /\ log'.cast \in Nat /\ log'.cast <= tick' /\ log'.cast >= log.cast
<1>1. /\ Stage' = Stage /\ (\A k \in 1..3 : Soonest(k)' = Soonest(k) /\ Soonest(k)' <= Soonest(k))
      /\ log'.cast \in Nat /\ log'.cast >= log.cast /\ log'.cast <= tick' /\ tick \in Nat
  BY Staged DEF Stage, Soonest, Fading
<1>2. LateShots(m) \subseteq LateShots(m)'
  <2> SUFFICES ASSUME NEW s \in LateShots(m) PROVE s \in LateShots(m)'
    OBVIOUS
  <2>1. s \in Shots /\ s.op \in Op /\ s.ctx.tick \in Int /\ s.expire \in Int
    BY DEF LateShots, Shots, Context
  <2> QED BY <1>1, <2>1, HeldOn DEF LateShots
<1>3. LateFields(m) \subseteq LateFields(m)'
  <2> SUFFICES ASSUME NEW s \in LateFields(m) PROVE s \in LateFields(m)'
    OBVIOUS
  <2>1. s \in Places /\ s.op \in Op /\ s.ctx.tick \in Int /\ s.expire \in Int
    BY DEF LateFields, Places, Context
  <2> QED BY <1>1, <2>1, HeldOn DEF LateFields
<1>4. LateWaits(m) \subseteq LateWaits(m)'
  <2> SUFFICES ASSUME NEW s \in LateWaits(m) PROVE s \in LateWaits(m)'
    OBVIOUS
  <2>1. s \in Waits /\ s.op \in Op /\ s.ctx.tick \in Int /\ s.run \in Int
    BY DEF LateWaits, Waits, Context
  <2> QED BY <1>1, <2>1, HeldOn DEF LateWaits
<1>5. LateFrames(m) \subseteq LateFrames(m)'
  <2> SUFFICES ASSUME NEW h \in LateFrames(m) PROVE h \in LateFrames(m)'
    OBVIOUS
  <2>1. h \in FrameSet /\ h.ctx.tick \in Nat
    BY DEF LateFrames, FrameSet, Context
  <2>2. ASSUME h.op \in Op \ m.still PROVE Running(m, h.op, h.ctx.tick)'
    <3>1. /\ m.span[h.op] \in Nat /\ m.late[h.op][Stage] \in Nat
          /\ Running(m, h.op, h.ctx.tick)
      BY <2>2, Measured, Staged DEF LateFrames
    <3>2. Ends \in Nat /\ Ends' \in Nat /\ Ends <= Ends'
      <4>1. log.cast \in Nat /\ Lifespan \in Nat
        BY Bounds DEF Fading
      <4> QED BY <1>1, <4>1 DEF Ends
    <3> QED BY <1>1, <2>1, <3>1, <3>2 DEF Running
  <2>3. ASSUME h.op.op = "rest", h.op.count > 1
        PROVE  Held(m, 3, h.op.then, h.ctx.tick, h.ctx.tick + (h.op.count - 1) * h.op.step)'
    <3> DEFINE n == (h.op.count - 1) * h.op.step
    <3>1. h.op.then \in Op /\ n \in Int
      <4>1. h.op \in Rests
        BY <2>1, <2>3, Grammar DEF FrameSet, Blows, Starts, Casts
      <4>2. h.op.count \in Nat /\ h.op.step \in Nat /\ h.op.then \in Op
        BY <4>1 DEF Rests
      <4> QED BY <4>2
    <3>2. Held(m, 3, h.op.then, h.ctx.tick, h.ctx.tick + n)
      BY <2>3 DEF LateFrames
    <3> HIDE DEF n
    <3>3. Held(m, 3, h.op.then, h.ctx.tick, h.ctx.tick + n)'
      BY <1>1, <2>1, <3>1, <3>2, HeldOn
    <3> QED BY <3>3 DEF n
  <2>4. h.op.op \in {"cast", "use"} => Stage' = 0
    BY <1>1 DEF LateFrames
  <2> QED BY <2>1, <2>2, <2>3, <2>4 DEF LateFrames
<1> QED BY <1>1, <1>2, <1>3, <1>4, <1>5

\* Steps that leave alone what waits.
RowsStay(w, v) ==
  /\ v.projectiles = w.projectiles /\ v.fields = w.fields /\ v.scheduled = w.scheduled
  /\ v.mobs = w.mobs

LEMMA RowsKeep ==
  ASSUME IInv, IInv', NEW m, Fades(m), Fading(m), UNCHANGED <<tick, pass>>, RowsStay(t, t'),
         log'.cast \in {log.cast, tick}, stack' \in Seq(LateFrames(m)')
  PROVE  Fading(m)'
<1>1. /\ LateShots(m) \subseteq LateShots(m)' /\ LateFields(m) \subseteq LateFields(m)'
      /\ LateWaits(m) \subseteq LateWaits(m)' /\ log'.cast \in Nat /\ log'.cast <= tick'
  BY GoesOn
<1> DEFINE F == LateFields(m)
           W == LateWaits(m)
           Fn == LateFields(m)'
           Wn == LateWaits(m)'
<1>2. t.fields \in Seq(F) /\ t.scheduled \in Seq(W) /\ F \subseteq Fn /\ W \subseteq Wn
  BY <1>1 DEF Fading
<1> HIDE DEF F, W, Fn, Wn
<1>3. t'.fields \in Seq(Fn) /\ t'.scheduled \in Seq(Wn)
  BY <1>2, SeqMonotonic DEF RowsStay
<1>4. /\ t'.projectiles = [p \in DOMAIN t'.projectiles |-> t'.projectiles[p]]
      /\ \A p \in DOMAIN t'.projectiles : t'.projectiles[p] \in LateShots(m)'
  BY <1>1 DEF Fading, RowsStay
<1>5. \A i \in DOMAIN t'.mobs : t'.mobs[i] \in Int /\ (Idle' => t'.mobs[i] > tick')
  BY DEF Fading, RowsStay, Idle
<1> QED BY <1>1, <1>3, <1>4, <1>5 DEF Fading, Fn, Wn

LEMMA TopHeld ==
  ASSUME IInv, NEW m, Fades(m), Fading(m), stack # <<>>
  PROVE  /\ Top \in LateFrames(m) /\ Tail(stack) \in Seq(LateFrames(m))
         /\ pass # "idle" /\ ~ Idle
<1>1. stack \in Seq(LateFrames(m))
  BY DEF Fading
<1>2. Top \in LateFrames(m) /\ Tail(stack) \in Seq(LateFrames(m))
  BY <1>1, HeadTailProperties DEF Top
<1>3. pass # "idle"
  BY DEF IInv, Turns
<1> QED BY <1>2, <1>3 DEF Idle

\* An op whose frames are held, and that leaves nothing.
LEMMA OpFades ==
  ASSUME IInv, IInv', NEW m, Fades(m), Fading(m), stack # <<>>, UNCHANGED <<tick, pass>>,
         RowsStay(t, t'), log'.cast \in {log.cast, tick},
         NEW frames \in Seq(LateFrames(m)'), stack' = frames \o Tail(stack)
  PROVE  Fading(m)'
<1> DEFINE L == LateFrames(m)
           Ln == LateFrames(m)'
<1>1. Tail(stack) \in Seq(L) /\ L \subseteq Ln /\ frames \in Seq(Ln)
  BY TopHeld, GoesOn
<1> HIDE DEF L, Ln
<1>2. Tail(stack) \in Seq(Ln)
  BY <1>1, SeqMonotonic
<1>3. stack' \in Seq(Ln)
  BY <1>1, <1>2, ConcatProperties
<1> QED BY <1>3, RowsKeep DEF Ln

\* What a list may hold besides.
LEMMA Sifting ==
  ASSUME NEW S, NEW R, NEW list \in Seq(S), \A k \in 1..Len(list) : list[k] \in R
  PROVE  list \in Seq(R)
  OBVIOUS

\* Frames that need no time are held at any.
FreeFrames(m) ==
  {h \in FrameSet : (h.op \in Op => h.op \in m.still) /\ h.op.op \notin {"rest", "cast", "use"}}

LEMMA FreeHeld ==
  ASSUME NEW m
  PROVE  /\ \A list \in Seq(FreeFrames(m)) : list \in Seq(LateFrames(m))
         /\ \A list \in Seq(FreeFrames(m)) : list \in Seq(LateFrames(m)')
<1> DEFINE F == FreeFrames(m)
           L == LateFrames(m)
           Ln == LateFrames(m)'
<1>1. F \subseteq L /\ F \subseteq Ln
  BY DEF FreeFrames, LateFrames
<1> HIDE DEF F, L, Ln
<1>2. \A list \in Seq(F) : list \in Seq(L) /\ list \in Seq(Ln)
  BY <1>1, SeqMonotonic
<1> QED BY <1>2 DEF F, L, Ln

LEMMA ProcsFade ==
  ASSUME IInv, NEW m, Fades(m), NEW wearer, NEW event, NEW other \in Aims,
         NEW fired, fired \subseteq Triggers(wearer, event)
  PROVE  ProcFrames(wearer, other, fired) \in Seq(FreeFrames(m))
<1> DEFINE list == ProcFrames(wearer, other, fired)
           n == Cardinality(fired)
<1>1. World(t) /\ tick \in Nat
  BY Staged DEF IInv
<1>2. list \in Seq(Frames({})) /\ IsFiniteSet(fired) /\ n \in Nat
  BY <1>1, ProcsOK, TriggersOK, FS_CardinalityType
<1>3. Len(list) = n
  BY <1>2 DEF ProcFrames
<1>4. ASSUME NEW k \in 1..n
      PROVE  list[k].op \in m.still
  <2>1. SetToSeq(fired)[k] \in fired
    BY <1>2, Listing
  <2>2. list[k].op = SetToSeq(fired)[k].effect
    BY DEF ProcFrames, Frame
  <2>3. wearer \in DOMAIN t.inventory /\ wearer \in DOMAIN t.entities
    BY <2>1 DEF Triggers
  <2>4. SetToSeq(fired)[k] \in Gear[t.entities[wearer].owner] /\ t.entities[wearer].owner \in Owner
    BY <1>1, <2>1, <2>3 DEF Triggers, World, Played
  <2> QED BY <2>2, <2>4 DEF Fades
<1> HIDE DEF list, n
<1>5. \A k \in 1..Len(list) : list[k] \in FrameSet /\ list[k].op \in m.still
  BY <1>2, <1>3, <1>4 DEF Frames
<1>6. \A k \in 1..Len(list) : list[k] \in FreeFrames(m)
  <2> TAKE k \in 1..Len(list)
  <2>1. list[k].op \in Op
    BY <1>5 DEF Fades
  <2> QED BY <1>5, <2>1, Grammar DEF FreeFrames
<1>7. list \in Seq(FreeFrames(m))
  BY <1>2, <1>6, Sifting
<1> QED BY <1>7 DEF list

LEMMA ChildHeld ==
  ASSUME IInv, NEW m, Fades(m), Fading(m), NEW h \in LateFrames(m), h.op \in Op,
         NEW o \in Within(h.op), NEW target \in Aims
  PROVE  Child(h, o, target) \in LateFrames(m)
<1> DEFINE c == Child(h, o, target)
<1>1. h \in FrameSet /\ h.ctx \in Context /\ h.depth + 1 \in Nat /\ h.proc \in BOOLEAN
  BY DEF LateFrames, FrameSet
<1>2. /\ o \in Op /\ m.span[o] <= m.span[h.op] /\ m.late[o][Stage] <= m.late[h.op][Stage]
      /\ h.op \in m.still => o \in m.still
  BY Inner, Staged
<1>3. c \in FrameSet /\ c.op = o /\ c.ctx = h.ctx
  BY <1>1, <1>2 DEF Child, FrameSet
<1>4. o.op \notin {"rest", "cast", "use"}
  BY <1>2, Grammar
<1>5. ASSUME o \notin m.still PROVE Running(m, o, h.ctx.tick)
  <2>1. Running(m, h.op, h.ctx.tick) /\ h.ctx.tick \in Nat /\ tick \in Nat
    BY <1>1, <1>2, <1>5, Staged DEF LateFrames, Context
  <2>2. /\ m.span[o] \in Nat /\ m.late[o][Stage] \in Nat /\ m.span[h.op] \in Nat
        /\ m.late[h.op][Stage] \in Nat
    BY <1>2, Measured, Staged
  <2>3. Ends \in Nat
    BY Bounds DEF Ends, Fading
  <2> QED BY <1>2, <2>1, <2>2, <2>3 DEF Running
<1> HIDE DEF c
<1> QED BY <1>2, <1>3, <1>4, <1>5 DEF LateFrames, c

\* What the ops that touch a body do to the rest.
LEMMA StruckRows ==
  ASSUME NEW w, World(w), NEW a, NEW v, NEW amount
  PROVE  RowsStay(w, Struck(w, a, v, amount))
<1>1. DOMAIN w = Tables
  BY Unmoved
<1> QED BY <1>1, Zenon DEF RowsStay, Struck, Tables, ById

LEMMA TouchRows ==
  ASSUME World(t), NEW op, NEW who
  PROVE  /\ RowsStay(t, HealEntity(t, who, op.amount))
         /\ \A n, u : RowsStay(t, AddShield(t, who, n, u))
         /\ \A s, d, at, src : RowsStay(t, AddStatus(t, who, s, d, at, src))
         /\ RowsStay(t, [t EXCEPT !.marks = Put(@, who, Top.ctx.tick + op.duration)])
         /\ \A k : RowsStay(t, Recovering(who, k))
<1>1. DOMAIN t = Tables
  BY Unmoved
<1>2. RowsStay(t, HealEntity(t, who, op.amount))
  BY <1>1, Zenon DEF RowsStay, HealEntity, Tables, ById
<1>3. \A n, u : RowsStay(t, AddShield(t, who, n, u))
  BY <1>1, Zenon DEF RowsStay, AddShield, Tables, ById
<1>4. \A s, d, at, src : RowsStay(t, AddStatus(t, who, s, d, at, src))
  <2>1. \A rows : RowsStay(t, [t EXCEPT !.statuses = rows])
    BY <1>1, Zenon DEF RowsStay, Tables, ById
  <2> QED BY <2>1, Zenon DEF AddStatus
<1>5. RowsStay(t, [t EXCEPT !.marks = Put(@, who, Top.ctx.tick + op.duration)])
  BY <1>1, Zenon DEF RowsStay, Tables, ById
<1>6. \A k : RowsStay(t, Recovering(who, k))
  BY <1>1, Zenon DEF RowsStay, Recovering, Tables, ById
<1> QED BY <1>2, <1>3, <1>4, <1>5, <1>6

\* The ops, one by one. First those that leave nothing.
LEMMA DamageFades ==
  ASSUME IInv, IInv', NEW m, Fades(m), Fading(m), stack # <<>>, Damage
  PROVE  Fading(m)'
<1> DEFINE a == Top.ctx.caster
           v == TargetEntity
           answers == Hurts(v, Top.op.amount) /\ a # v /\ ~Top.proc
           struck == Struck(t, a, v, Top.op.amount)
<1>1. UNCHANGED <<tick, pass>> /\ World(t) /\ World(t') /\ DOMAIN t = Tables
  BY Unmoved DEF Damage, IInv
<1>2. CASE v = None
  <2>1. Replace(<<>>) /\ UNCHANGED <<t, log>>
    BY <1>2 DEF Damage
  <2>2. <<>> \in Seq(LateFrames(m)')
    OBVIOUS
  <2>3. RowsStay(t, t') /\ log'.cast \in {log.cast, tick} /\ stack' = <<>> \o Tail(stack)
    BY <2>1 DEF RowsStay, Replace
  <2> QED BY <1>1, <2>2, <2>3, OpFades
<1>3. CASE v # None
  <2>1. /\ t' = IF answers THEN Reflected(struck, a, v) ELSE struck
        /\ log' = [log EXCEPT !.struck = @ \cup {<<a, v>>}]
    BY <1>3 DEF Damage
  <2>2. PICK fired \in SUBSET (IF answers THEN Triggers(v, "struck") ELSE {}) :
          Replace(ProcFrames(v, a, fired))
    BY <1>3 DEF Damage
  <2>3. RowsStay(t, struck) /\ DOMAIN struck = Tables
    BY <1>1, StruckRows DEF Struck
  <2> HIDE DEF struck
  <2>4. RowsStay(struck, Reflected(struck, a, v))
    BY <2>3 DEF Reflected, RowsStay, Tables, ById
  <2>5. RowsStay(t, t')
    BY <2>1, <2>3, <2>4 DEF RowsStay
  <2>6. fired \subseteq Triggers(v, "struck") /\ a \in Aims
    BY OpsBegin, Evaluated DEF Aims
  <2>7. log'.cast \in {log.cast, tick}
    BY <2>1 DEF IInv, Remembered
  <2>8. ProcFrames(v, a, fired) \in Seq(LateFrames(m)')
    BY <2>6, ProcsFade, FreeHeld
  <2>9. stack' = ProcFrames(v, a, fired) \o Tail(stack)
    BY <2>2 DEF Replace
  <2> QED BY <1>1, <2>5, <2>7, <2>8, <2>9, OpFades
<1> QED BY <1>2, <1>3

LEMMA TouchFades ==
  ASSUME IInv, IInv', NEW m, Fades(m), Fading(m), stack # <<>>, Touch
  PROVE  Fading(m)'
<1>1. UNCHANGED <<tick, pass, log>> /\ World(t) /\ stack' = <<>> \o Tail(stack)
  BY DEF Touch, IInv, Replace
<1>2. t' = Touched(Top.op, Who) /\ Top.op.op \in {"heal", "shield", "status", "mark", "motion"}
  BY DEF Touch
<1>3. RowsStay(t, t')
  <2>1. RowsStay(t, t)
    BY DEF RowsStay
  <2> QED BY <1>1, <1>2, <2>1, TouchRows DEF Touched
<1>4. <<>> \in Seq(LateFrames(m)')
  OBVIOUS
<1> QED BY <1>1, <1>3, <1>4, OpFades

\* The ops that run others, each in its own turn, and those that change nothing.
LEMMA RunsFade ==
  ASSUME IInv, IInv', NEW m, Fades(m), Fading(m), stack # <<>>, UNCHANGED <<t, tick, pass, log>>,
         NEW frames \in Seq(LateFrames(m)), stack' = frames \o Tail(stack)
  PROVE  Fading(m)'
<1> DEFINE L == LateFrames(m)
           Ln == LateFrames(m)'
<1>1. L \subseteq Ln /\ frames \in Seq(L)
  BY GoesOn
<1> HIDE DEF L, Ln
<1>2. frames \in Seq(Ln)
  BY <1>1, SeqMonotonic
<1>3. RowsStay(t, t')
  BY DEF RowsStay
<1> QED BY <1>2, <1>3, OpFades DEF Ln

LEMMA ShapeFades ==
  ASSUME IInv, IInv', NEW m, Fades(m), Fading(m), stack # <<>>, Shape
  PROVE  Fading(m)'
<1>1. PICK hits \in Gathered(Top.op.faction, Top.ctx) :
        Replace([k \in DOMAIN hits |-> Child(Top, Top.op.then, hits[k])])
  BY DEF Shape
<1> DEFINE frame(k) == Child(Top, Top.op.then, hits[k])
<1>2. /\ Top.op \in Op /\ Top.op.then \in Within(Top.op) /\ Top \in LateFrames(m)
      /\ UNCHANGED <<t, tick, pass, log>>
  BY OpsBegin, Evaluated, TopHeld DEF Shape, Within
<1>3. hits \in Seq(Nat) /\ DOMAIN hits = 1..Len(hits) /\ Len(hits) \in Nat
  BY GatheredOK DEF IInv
<1>4. \A k \in 1..Len(hits) : frame(k) \in LateFrames(m)
  BY <1>2, <1>3, ChildHeld DEF Aims
<1>5. stack' = [k \in 1..Len(hits) |-> frame(k)] \o Tail(stack)
  BY <1>1, <1>3 DEF Replace
<1> HIDE DEF frame
<1>6. [k \in 1..Len(hits) |-> frame(k)] \in Seq(LateFrames(m))
  BY <1>3, <1>4, IsASeq
<1> QED BY <1>2, <1>5, <1>6, RunsFade

LEMMA ComposeFades ==
  ASSUME IInv, IInv', NEW m, Fades(m), Fading(m), stack # <<>>, Compose
  PROVE  Fading(m)'
<1> DEFINE frame(list, k) == Child(Top, list[k], Top.target)
           run(list) == [k \in DOMAIN list |-> frame(list, k)]
<1>1. /\ Top.op \in Op /\ Top.op.op \in {"seq", "chance", "ifmarked"} /\ Top.target \in Aims
      /\ Top \in LateFrames(m) /\ UNCHANGED <<t, tick, pass, log>>
  BY OpsBegin, Evaluated, TopHeld DEF Compose
<1>2. /\ Top.op.op = "seq" => Top.op.children \in Seq(Within(Top.op))
      /\ Top.op.op \in {"chance", "ifmarked"} => <<Top.op.then>> \in Seq(Within(Top.op))
      /\ Top.op.op = "ifmarked" => <<Top.op.otherwise>> \in Seq(Within(Top.op))
  <2>1. Top.op.op = "seq" => Top.op.children \in Seq(ToSet(Top.op.children))
    <3>1. Top.op.op = "seq" => Top.op.children \in Seq(Op)
      BY <1>1, Grammar
    <3> QED BY <3>1 DEF ToSet
  <2>2. /\ Top.op.op = "seq" => Within(Top.op) = ToSet(Top.op.children)
        /\ Top.op.op \in {"chance", "ifmarked"} => Top.op.then \in Within(Top.op)
        /\ Top.op.op = "ifmarked" => Top.op.otherwise \in Within(Top.op)
    BY DEF Within
  <2> QED BY <2>1, <2>2
<1>3. PICK frames : /\ Replace(frames)
                    /\ frames = <<>> \/ \E list \in Seq(Within(Top.op)) : frames = run(list)
  <2>1. CASE Top.op.op = "seq"
    BY <1>2, <2>1 DEF Compose
  <2>2. CASE Top.op.op = "chance"
    <3>1. Replace(<<>>) \/ Replace(run(<<Top.op.then>>))
      BY <2>2 DEF Compose
    <3> QED BY <1>2, <2>2, <3>1
  <2>3. CASE Top.op.op = "ifmarked"
    <3>1. Replace(run(IF Marked(Who) THEN <<Top.op.then>> ELSE <<Top.op.otherwise>>))
      BY <2>3 DEF Compose
    <3> QED BY <1>2, <2>3, <3>1
  <2> QED BY <1>1, <2>1, <2>2, <2>3
<1>4. ASSUME NEW list \in Seq(Within(Top.op))
      PROVE  run(list) \in Seq(LateFrames(m))
  <2>1. DOMAIN list = 1..Len(list) /\ Len(list) \in Nat
    OBVIOUS
  <2>2. \A k \in 1..Len(list) : frame(list, k) \in LateFrames(m)
    BY <1>1, ChildHeld
  <2> HIDE DEF frame
  <2>3. [k \in 1..Len(list) |-> frame(list, k)] \in Seq(LateFrames(m))
    BY <2>1, <2>2, IsASeq
  <2> QED BY <2>1, <2>3
<1> HIDE DEF run
<1>5. frames \in Seq(LateFrames(m))
  <2>1. <<>> \in Seq(LateFrames(m))
    OBVIOUS
  <2> QED BY <1>3, <1>4, <2>1
<1>6. stack' = frames \o Tail(stack)
  BY <1>3 DEF Replace
<1> QED BY <1>1, <1>5, <1>6, RunsFade

\* What an op leaves is held, as the op was.
LEMMA LeftHeld ==
  ASSUME IInv, NEW m, Fades(m), Fading(m), NEW h \in LateFrames(m), h.op \in Op,
         NEW l \in Leaves(h.op)
  PROVE  Held(m, l.pass, l.then, h.ctx.tick, h.ctx.tick + l.lasts)
<1>1. /\ l.then \in Op /\ l.lasts \in Nat /\ l.pass \in 1..3 /\ h.op \notin m.still
      /\ l.lasts <= m.span[h.op] /\ m.span[l.then] <= m.span[h.op]
      /\ m.late[l.then][l.pass] + (IF Stage < l.pass THEN 0 ELSE 1) <= m.late[h.op][Stage]
  BY Leaving, Staged
<1>2. Running(m, h.op, h.ctx.tick) /\ h.ctx.tick \in Nat /\ tick \in Nat /\ Stage \in 0..3
  BY <1>1, Staged DEF LateFrames, FrameSet, Context
<1>3. /\ m.span[l.then] \in Nat /\ m.late[l.then][l.pass] \in Nat /\ m.span[h.op] \in Nat
      /\ m.late[h.op][Stage] \in Nat
  BY <1>1, <1>2, Measured
<1>4. Ends \in Nat
  BY Bounds DEF Ends, Fading
<1> QED BY <1>1, <1>2, <1>3, <1>4 DEF Running, Held, Soonest

\* What a step adds is held, and what was there.
LEMMA Additions ==
  ASSUME IInv, IInv', NEW m, Fades(m), Fading(m), pass # "idle", UNCHANGED <<tick, pass, log>>,
         stack' \in Seq(LateFrames(m)),
         t'.projectiles = [p \in DOMAIN t'.projectiles |-> t'.projectiles[p]],
         \A p \in DOMAIN t'.projectiles : t'.projectiles[p] \in LateShots(m),
         t'.fields \in Seq(LateFields(m)), t'.scheduled \in Seq(LateWaits(m)),
         \A i \in DOMAIN t'.mobs : t'.mobs[i] \in Int
  PROVE  Fading(m)'
<1>1. /\ LateShots(m) \subseteq LateShots(m)' /\ LateFields(m) \subseteq LateFields(m)'
      /\ LateWaits(m) \subseteq LateWaits(m)' /\ LateFrames(m) \subseteq LateFrames(m)'
      /\ log'.cast \in Nat /\ log'.cast <= tick'
  BY GoesOn
<1> DEFINE F == LateFields(m)
           W == LateWaits(m)
           L == LateFrames(m)
           Fn == LateFields(m)'
           Wn == LateWaits(m)'
           Ln == LateFrames(m)'
<1>2. /\ F \subseteq Fn /\ W \subseteq Wn /\ L \subseteq Ln /\ t'.fields \in Seq(F)
      /\ t'.scheduled \in Seq(W) /\ stack' \in Seq(L) /\ ~ Idle'
  BY <1>1 DEF Idle
<1> HIDE DEF F, W, L, Fn, Wn, Ln
<1>3. t'.fields \in Seq(Fn) /\ t'.scheduled \in Seq(Wn) /\ stack' \in Seq(Ln)
  BY <1>2, SeqMonotonic
<1> QED BY <1>1, <1>2, <1>3 DEF Fading, Fn, Wn, Ln

\* An op that leaves something, and raises no frame.
LEMMA OpLeaves ==
  ASSUME IInv, IInv', NEW m, Fades(m), Fading(m), stack # <<>>, UNCHANGED <<tick, pass, log>>,
         stack' = Tail(stack),
         t'.projectiles = [p \in DOMAIN t'.projectiles |-> t'.projectiles[p]],
         \A p \in DOMAIN t'.projectiles : t'.projectiles[p] \in LateShots(m),
         t'.fields \in Seq(LateFields(m)), t'.scheduled \in Seq(LateWaits(m)),
         \A i \in DOMAIN t'.mobs : t'.mobs[i] \in Int
  PROVE  Fading(m)'
<1>1. stack' \in Seq(LateFrames(m)) /\ pass # "idle"
  BY TopHeld
<1> QED BY <1>1, Additions

\* What is there already.
LEMMA KeptRows ==
  ASSUME NEW m, Fading(m)
  PROVE  /\ t.projectiles = [p \in DOMAIN t.projectiles |-> t.projectiles[p]]
         /\ \A p \in DOMAIN t.projectiles : t.projectiles[p] \in LateShots(m)
         /\ t.fields \in Seq(LateFields(m)) /\ t.scheduled \in Seq(LateWaits(m))
         /\ \A i \in DOMAIN t.mobs : t.mobs[i] \in Int
  BY DEF Fading

LEMMA LaunchFades ==
  ASSUME IInv, IInv', NEW m, Fades(m), Fading(m), stack # <<>>, Launch
  PROVE  Fading(m)'
<1> DEFINE op == Top.op
           ctx == Top.ctx
<1>1. /\ op \in Op /\ op.op \in {"field", "projectile", "summon"} /\ ctx \in Context
      /\ Top \in LateFrames(m) /\ ctx.tick \in Nat
  BY OpsBegin, Evaluated, TopHeld DEF Launch
<1>2. /\ UNCHANGED <<tick, pass, log>> /\ stack' = Tail(stack) /\ t' = Launched(op, ctx)
      /\ World(t) /\ DOMAIN t = Tables
  <2>1. Tail(stack) \in Seq(LateFrames(m))
    BY TopHeld
  <2>2. stack' = <<>> \o Tail(stack)
    BY DEF Launch, Replace
  <2> QED BY <2>1, <2>2, Unmoved, ConcatEmptySeq DEF Launch, IInv
<1>3. CASE op.op = "field"
  <2> DEFINE place == [ctx |-> ctx, op |-> op.then, expire |-> ctx.tick + op.duration,
                       next |-> ctx.tick + op.interval, interval |-> op.interval]
             l == [pass |-> 2, lasts |-> op.duration, then |-> op.then]
  <2>1. op.then \in Op /\ op.duration \in Nat /\ op.interval \in Nat \ {0}
    BY <1>1, <1>3, Grammar
  <2>2. l \in Leaves(op)
    BY <1>3 DEF Leaves
  <2>3. Held(m, l.pass, l.then, ctx.tick, ctx.tick + l.lasts)
    BY <1>1, <2>2, LeftHeld
  <2>4. place \in LateFields(m)
    BY <1>1, <2>1, <2>3 DEF LateFields, Places
  <2>5. t' = [t EXCEPT !.fields = Append(t.fields, place)]
    BY <1>2, <1>3 DEF Launched
  <2> HIDE DEF place
  <2>6. Append(t.fields, place) \in Seq(LateFields(m))
    BY <2>4, KeptRows, AppendProperties
  <2>7. /\ t'.projectiles = t.projectiles /\ t'.fields = Append(t.fields, place)
        /\ t'.scheduled = t.scheduled /\ t'.mobs = t.mobs
    BY <1>2, <2>5 DEF Tables, ById
  <2> QED BY <1>2, <2>6, <2>7, KeptRows, OpLeaves
<1>4. CASE op.op = "projectile"
  <2> DEFINE shot == [ctx |-> ctx, op |-> op.then, expire |-> ctx.tick + op.lifetime]
             l == [pass |-> 1, lasts |-> op.lifetime, then |-> op.then]
  <2>1. op.then \in Op /\ op.lifetime \in Nat
    BY <1>1, <1>4, Grammar
  <2>2. l \in Leaves(op)
    BY <1>4 DEF Leaves
  <2>3. Held(m, l.pass, l.then, ctx.tick, ctx.tick + l.lasts)
    BY <1>1, <2>2, LeftHeld
  <2>4. shot \in LateShots(m)
    BY <1>1, <2>1, <2>3 DEF LateShots, Shots
  <2>5. t' = SpawnProjectile(t, ctx, op)
    BY <1>2, <1>4 DEF Launched
  <2>6. /\ t'.projectiles = Put(t.projectiles, t.next, shot) /\ t'.fields = t.fields
        /\ t'.scheduled = t.scheduled /\ t'.mobs = t.mobs
    BY <1>2, <2>5 DEF SpawnProjectile, AddBody, Tables, ById
  <2> HIDE DEF shot
  <2>7. /\ t'.projectiles = [p \in DOMAIN t'.projectiles |-> t'.projectiles[p]]
        /\ \A p \in DOMAIN t'.projectiles : t'.projectiles[p] \in LateShots(m)
    BY <2>4, <2>6, KeptRows DEF Put
  <2> QED BY <1>2, <2>6, <2>7, KeptRows, OpLeaves
<1>5. CASE op.op = "summon"
  <2>1. op.duration \in Nat
    BY <1>1, <1>5, Grammar
  <2>2. t' = SpawnSummon(t, ctx.team, MobHealth, ctx.tick + op.duration)
    BY <1>2, <1>5 DEF Launched
  <2>3. /\ t'.projectiles = t.projectiles /\ t'.fields = t.fields /\ t'.scheduled = t.scheduled
        /\ t'.mobs = Put(t.mobs, t.next, ctx.tick + op.duration)
    BY <1>2, <2>2 DEF SpawnSummon, AddBody, Tables, ById
  <2>4. \A i \in DOMAIN t'.mobs : t'.mobs[i] \in Int
    <3>1. \A i \in DOMAIN t.mobs : t.mobs[i] \in Int
      BY KeptRows
    <3>2. ctx.tick + op.duration \in Int
      BY <1>1, <2>1
    <3> QED BY <2>3, <3>1, <3>2 DEF Put
  <2> QED BY <1>2, <2>3, <2>4, KeptRows, OpLeaves
<1> QED BY <1>1, <1>3, <1>4, <1>5

LEMMA DelayFades ==
  ASSUME IInv, IInv', NEW m, Fades(m), Fading(m), stack # <<>>, Delay
  PROVE  Fading(m)'
<1> DEFINE op == Top.op
           ctx == Top.ctx
           later == Later(ctx, op.then, Top.target, op.ticks)
           l == [pass |-> 3, lasts |-> op.ticks, then |-> op.then]
<1>1. /\ op \in Op /\ op.op = "delay" /\ ctx \in Context /\ Top.target \in Aims
      /\ Top \in LateFrames(m) /\ ctx.tick \in Nat /\ op.then \in Op /\ op.ticks \in Nat
  BY OpsBegin, Evaluated, Grammar, TopHeld DEF Delay
<1>2. /\ UNCHANGED <<tick, pass, log>> /\ stack' = Tail(stack) /\ DOMAIN t = Tables
      /\ t' = [t EXCEPT !.scheduled = Append(t.scheduled, later)]
  <2>1. Tail(stack) \in Seq(LateFrames(m))
    BY TopHeld
  <2>2. stack' = <<>> \o Tail(stack)
    BY DEF Delay, Replace
  <2> QED BY <2>1, <2>2, Unmoved, ConcatEmptySeq DEF Delay, IInv
<1>3. l \in Leaves(op)
  BY <1>1 DEF Leaves
<1>4. Held(m, l.pass, l.then, ctx.tick, ctx.tick + l.lasts)
  BY <1>1, <1>3, LeftHeld
<1>5. later \in LateWaits(m)
  BY <1>1, <1>4 DEF LateWaits, Waits, Later
<1> HIDE DEF later
<1>6. Append(t.scheduled, later) \in Seq(LateWaits(m))
  BY <1>5, KeptRows, AppendProperties
<1>7. /\ t'.projectiles = t.projectiles /\ t'.scheduled = Append(t.scheduled, later)
      /\ t'.fields = t.fields /\ t'.mobs = t.mobs
  BY <1>2 DEF Tables, ById
<1> QED BY <1>2, <1>6, <1>7, KeptRows, OpLeaves

LEMMA RepeatFades ==
  ASSUME IInv, IInv', NEW m, Fades(m), Fading(m), stack # <<>>, Repeat
  PROVE  Fading(m)'
<1> DEFINE first == Child(Top, Top.op.then, Top.target)
           rest == [Top EXCEPT !.op.op = "rest"]
<1>1. /\ Top.op \in Op /\ Top.op.op = "repeat" /\ Top.target \in Aims /\ Top \in LateFrames(m)
      /\ UNCHANGED <<t, tick, pass, log>> /\ stack' = <<first, rest>> \o Tail(stack)
      /\ Top.ctx.tick \in Nat
  BY OpsBegin, Evaluated, TopHeld DEF Repeat, Replace
<1>2. /\ Top.op \in [op : {"repeat"}, count : Nat, step : Nat, then : Op] /\ Top.op.then \in Op
      /\ Top.op.then \in Within(Top.op)
  BY <1>1, Grammar DEF Within
<1>3. first \in LateFrames(m)
  BY <1>1, <1>2, ChildHeld
<1>4. rest \in LateFrames(m)
  <2> DEFINE h == Top
             op == [h.op EXCEPT !.op = "rest"]
             g == [h EXCEPT !.op = op]
             l == [pass |-> 3, lasts |-> (op.count - 1) * op.step, then |-> op.then]
  <2>1. h \in FrameSet /\ h.op \in [op : {"repeat"}, count : Nat, step : Nat, then : Op]
    BY <1>2, OpsBegin, Evaluated
  <2>2. /\ op \in Rests /\ op.op = "rest" /\ op.count = h.op.count /\ op.step = h.op.step
        /\ op.then = h.op.then
    BY <2>1 DEF Rests
  <2>3. op.count > 1 => Held(m, 3, op.then, h.ctx.tick, h.ctx.tick + (op.count - 1) * op.step)
    <3>1. op.count > 1 => l \in Leaves(h.op)
      BY <1>1, <2>2 DEF Leaves
    <3> HIDE DEF op
    <3>2. op.count > 1 => Held(m, l.pass, l.then, h.ctx.tick, h.ctx.tick + l.lasts)
      BY <1>1, <3>1, LeftHeld
    <3> QED BY <3>2
  <2> HIDE DEF h, op
  <2>4. g \in FrameSet /\ g.op = op /\ g.ctx = h.ctx
    BY <2>1, <2>2 DEF FrameSet
  <2>5. op \notin Op
    BY <2>2, Grammar
  <2> HIDE DEF g
  <2>6. g \in LateFrames(m)
    BY <2>2, <2>3, <2>4, <2>5 DEF LateFrames
  <2>7. g = rest
    BY DEF g, op, h
  <2> QED BY <2>6, <2>7
<1> HIDE DEF first, rest
<1>5. <<first, rest>> \in Seq(LateFrames(m))
  BY <1>3, <1>4
<1> QED BY <1>1, <1>5, RunsFade

LEMMA RestFades ==
  ASSUME IInv, IInv', NEW m, Fades(m), Fading(m), stack # <<>>, RepeatRest
  PROVE  Fading(m)'
<1> DEFINE c == Top.op.count
           s == Top.op.step
           n == IF c = 0 THEN 0 ELSE c - 1
           later(k) == Later(Top.ctx, Top.op.then, Top.target, k * s)
           list == [k \in 1..n |-> later(k)]
<1>1. /\ Top.op \in Rests /\ Top.op.op = "rest" /\ Top.target \in Aims /\ Top.ctx \in Context
      /\ Top.ctx.tick \in Nat /\ Top \in LateFrames(m)
  BY OpsBegin, Evaluated, TopHeld DEF RepeatRest
<1>2. c \in Nat /\ s \in Nat /\ Top.op.then \in Op
  BY <1>1 DEF Rests
<1>3. n \in Nat /\ 1..(c - 1) = 1..n
  BY <1>2
<1>4. list \in Seq(LateWaits(m))
  <2>1. ASSUME NEW k \in 1..n
        PROVE  later(k) \in LateWaits(m)
    <3> DEFINE d == k * s
               e == (c - 1) * s
    <3>1. c > 1 /\ k <= c - 1 /\ k \in Nat /\ c - 1 \in Nat
      BY <1>2
    <3>2. Held(m, 3, Top.op.then, Top.ctx.tick, Top.ctx.tick + e)
      BY <1>1, <3>1 DEF LateFrames
    <3>3. d \in Nat /\ e \in Nat /\ d <= e
      <4> DEFINE b == c - 1 - k
      <4>1. b \in Nat /\ c - 1 = k + b
        BY <3>1
      <4> HIDE DEF b
      <4>2. (k + b) * s = k * s + b * s /\ k * s \in Nat /\ b * s \in Nat
        BY <1>2, <3>1, <4>1
      <4>3. e = (k + b) * s
        BY <4>1, Zenon
      <4> QED BY <4>2, <4>3
    <3> HIDE DEF d, e
    <3>4. m.late[Top.op.then][3] \in Nat /\ Ends \in Nat
      <4>1. 3 \in 0..3
        OBVIOUS
      <4>2. log.cast \in Nat /\ Lifespan \in Nat
        BY Bounds DEF Fading
      <4> QED BY <1>2, <4>1, <4>2, Measured DEF Ends
    <3>5. Held(m, 3, Top.op.then, Top.ctx.tick, Top.ctx.tick + d)
      BY <1>1, <3>2, <3>3, <3>4 DEF Held
    <3>6. Later(Top.ctx, Top.op.then, Top.target, d) \in LateWaits(m)
      BY <1>1, <1>2, <3>3, <3>5 DEF LateWaits, Waits, Later
    <3> QED BY <3>6 DEF d
  <2> HIDE DEF later, n
  <2> QED BY <1>3, <2>1, IsASeq
<1>5. /\ t' = [t EXCEPT !.scheduled = t.scheduled \o list] /\ DOMAIN t = Tables
      /\ stack' = Tail(stack) /\ UNCHANGED <<tick, pass, log>>
  BY <1>3, Unmoved DEF RepeatRest, Pop, IInv
<1> HIDE DEF list
<1>6. t.scheduled \o list \in Seq(LateWaits(m))
  BY <1>4, KeptRows, ConcatProperties
<1>7. /\ t'.projectiles = t.projectiles /\ t'.scheduled = t.scheduled \o list
      /\ t'.fields = t.fields /\ t'.mobs = t.mobs
  BY <1>5 DEF Tables, ById
<1> QED BY <1>5, <1>6, <1>7, KeptRows, OpLeaves

LEMMA OverFades ==
  ASSUME IInv, IInv', NEW m, Fades(m), Fading(m), stack # <<>>, OverBudget
  PROVE  Fading(m)'
<1>1. UNCHANGED <<t, tick, pass, log>> /\ stack' = Tail(stack)
  BY DEF OverBudget, Pop
<1> QED BY <1>1, KeptRows, OpLeaves

LEMMA RaiseFades ==
  ASSUME IInv, IInv', NEW m, Fades(m), Fading(m), stack # <<>>, Raise
  PROVE  Fading(m)'
<1>1. UNCHANGED <<t, tick, pass, log>> /\ Top.target \in Aims
  BY OpsBegin, Evaluated DEF Raise
<1>2. PICK fired \in SUBSET Triggers(Top.ctx.caster, "hit") :
        Replace(ProcFrames(Top.ctx.caster, Top.target, fired))
  BY DEF Raise
<1>3. ProcFrames(Top.ctx.caster, Top.target, fired) \in Seq(LateFrames(m))
  BY <1>1, ProcsFade, FreeHeld
<1>4. stack' = ProcFrames(Top.ctx.caster, Top.target, fired) \o Tail(stack)
  BY <1>2 DEF Replace
<1> QED BY <1>1, <1>3, <1>4, RunsFade

\* A run that begins has the lifespan ahead of it, and all the passes of its tick.
LEMMA RootHeld ==
  ASSUME IInv, NEW m, Fades(m), Fading(m), NEW i \in Nat,
         NEW o \in {Brew} \cup {Book[a] : a \in DOMAIN Book}, Stage = 0,
         UNCHANGED <<tick, pass>>, log'.cast = tick
  PROVE  <<Frame(Ctx(i), o, i)>> \in Seq(LateFrames(m)')
<1> DEFINE h == Frame(Ctx(i), o, i)
<1>1. o \in Op /\ tick \in Nat
  BY Graphs, Staged
<1>2. h \in FrameSet /\ h.op = o /\ h.ctx.tick = tick
  <2>1. Ctx(i) \in Context /\ Ctx(i).tick = tick
    BY <1>1, ContextOK DEF Ctx, IInv
  <2>2. h \in Frames({})
    BY <1>1, <2>1, FrameOK DEF Aims
  <2> QED BY <2>1, <2>2 DEF Frames, Frame
<1>3. Running(m, o, tick)'
  <2>1. 0 \in 0..3 /\ m.span[o] \in Nat /\ m.late[o][0] \in Nat
    BY <1>1, Measured
  <2>2. m.span[o] + m.late[o][0] <= Lifespan /\ Lifespan \in Nat /\ Stage' = 0
    BY Bounds DEF Fades, Stage
  <2>3. Ends' = tick + Lifespan /\ tick' = tick
    BY DEF Ends
  <2> QED BY <1>1, <2>1, <2>2, <2>3 DEF Running
<1>4. o.op \notin {"rest", "cast", "use"}
  BY <1>1, Grammar
<1> HIDE DEF h
<1>5. h \in LateFrames(m)'
  <2>1. PICK g : g = h
    OBVIOUS
  <2>2. g \in FrameSet /\ g.op = o /\ g.ctx.tick = tick
    BY <1>2, <2>1
  <2>3. PICK now : now = tick
    OBVIOUS
  <2>4. Running(m, o, now)'
    BY <1>3, <2>3 DEF Running, Ends, Stage
  <2>5. g \in LateFrames(m)'
    BY <1>4, <2>2, <2>3, <2>4 DEF LateFrames
  <2> QED BY <2>1, <2>5
<1> QED BY <1>5 DEF h

LEMMA CastFades ==
  ASSUME IInv, IInv', NEW m, Fades(m), Fading(m), stack # <<>>, TryCast
  PROVE  Fading(m)'
<1> DEFINE i == Top.ctx.caster
           ability == Top.op.ability
<1>1. /\ UNCHANGED <<tick, pass>> /\ i \in Nat /\ ability \in DOMAIN Book
      /\ Top \in LateFrames(m) /\ Top.op.op = "cast"
  BY OpsBegin, Evaluated, TopHeld DEF TryCast
<1>2. Stage = 0
  BY <1>1 DEF LateFrames
<1>3. CASE Replace(<<>>) /\ UNCHANGED <<t, log>>
  <2>1. <<>> \in Seq(LateFrames(m))
    OBVIOUS
  <2>2. stack' = <<>> \o Tail(stack)
    BY <1>3 DEF Replace
  <2> QED BY <1>1, <1>3, <2>1, <2>2, RunsFade
<1>4. CASE /\ Replace(<<Frame(Ctx(i), Book[ability], i)>>)
           /\ t' = Recovering(i, ability) /\ log' = [log EXCEPT !.cast = tick]
  <2>1. log'.cast = tick
    BY <1>4 DEF IInv, Remembered
  <2>2. <<Frame(Ctx(i), Book[ability], i)>> \in Seq(LateFrames(m)')
    BY <1>1, <1>2, <2>1, RootHeld
  <2>3. RowsStay(t, t')
    BY <1>4, TouchRows DEF IInv
  <2>4. stack' = <<Frame(Ctx(i), Book[ability], i)>> \o Tail(stack)
    BY <1>4 DEF Replace
  <2> QED BY <1>1, <2>1, <2>2, <2>3, <2>4, OpFades
<1> QED BY <1>3, <1>4 DEF TryCast

LEMMA UseFades ==
  ASSUME IInv, IInv', NEW m, Fades(m), Fading(m), stack # <<>>, UseConsumable
  PROVE  Fading(m)'
<1> DEFINE i == Top.ctx.caster
           at == {k \in DOMAIN t.inventory[i] : t.inventory[i][k] \in Potion}
           first == CHOOSE k \in at : \A j \in at : k <= j
<1>1. /\ UNCHANGED <<tick, pass>> /\ i \in Nat /\ Top \in LateFrames(m) /\ Top.op.op = "use"
      /\ DOMAIN t = Tables
  BY OpsBegin, Evaluated, TopHeld, Unmoved DEF UseConsumable
<1>2. Stage = 0
  BY <1>1 DEF LateFrames
<1>3. CASE at = {}
  <2>1. Replace(<<>>) /\ UNCHANGED <<t, log>>
    BY <1>3 DEF UseConsumable
  <2>2. <<>> \in Seq(LateFrames(m))
    OBVIOUS
  <2>3. stack' = <<>> \o Tail(stack)
    BY <2>1 DEF Replace
  <2> QED BY <1>1, <2>1, <2>2, <2>3, RunsFade
<1>4. CASE at # {}
  <2>1. /\ t' = [t EXCEPT !.inventory[i] = RemoveAt(t.inventory[i], first)]
        /\ log' = [log EXCEPT !.used = @ \cup {t.inventory[i][first]}, !.cast = tick]
        /\ Replace(<<Frame(Ctx(i), Brew, i)>>)
    BY <1>4 DEF UseConsumable
  <2> HIDE DEF first, at
  <2>2. log'.cast = tick
    BY <2>1 DEF IInv, Remembered
  <2>3. <<Frame(Ctx(i), Brew, i)>> \in Seq(LateFrames(m)')
    BY <1>1, <1>2, <2>2, RootHeld
  <2>4. RowsStay(t, t')
    BY <1>1, <2>1 DEF RowsStay, Tables, ById
  <2>5. stack' = <<Frame(Ctx(i), Brew, i)>> \o Tail(stack)
    BY <2>1 DEF Replace
  <2> QED BY <1>1, <2>2, <2>3, <2>4, <2>5, OpFades
<1> QED BY <1>3, <1>4

LEMMA RunOpFades ==
  ASSUME IInv, IInv', NEW m, Fades(m), Fading(m), RunOp
  PROVE  Fading(m)'
<1>1. stack # <<>>
  BY DEF RunOp
<1> QED BY <1>1, DamageFades, TouchFades, ShapeFades, LaunchFades, ComposeFades, DelayFades,
           RepeatFades, RestFades, OverFades, RaiseFades, CastFades, UseFades DEF RunOp

-----------------------------------------------------------------------------
(* The passes, as they come to what waits. *)

\* A pass begins, or visits a body: what waits is as it was, or has gone.
RowsShrink(w, v) ==
  /\ DOMAIN v.projectiles \subseteq DOMAIN w.projectiles
  /\ v.projectiles = [p \in DOMAIN v.projectiles |-> v.projectiles[p]]
  /\ \A p \in DOMAIN v.projectiles : v.projectiles[p] = w.projectiles[p]
  /\ v.fields = w.fields /\ v.scheduled = w.scheduled
  /\ DOMAIN v.mobs \subseteq DOMAIN w.mobs
  /\ \A i \in DOMAIN v.mobs : v.mobs[i] = w.mobs[i]

\* The rows that stay are held while their pass is ahead.
LEMMA PassFades ==
  ASSUME IInv, IInv', NEW m, Fades(m), Fading(m), log'.cast = log.cast, tick' >= tick,
         \A k \in 1..3 : Soonest(k)' <= Soonest(k), RowsShrink(t, t'),
         stack' \in Seq(LateFrames(m)'),
         Idle' => \A i \in DOMAIN t'.mobs : t'.mobs[i] > tick'
  PROVE  Fading(m)'
<1>1. log'.cast \in Nat /\ log'.cast >= log.cast /\ log'.cast <= tick'
  <2>1. log.cast \in Nat /\ log.cast <= tick /\ tick \in Nat
    BY Staged DEF Fading
  <2>2. tick' \in Nat
    BY Bounds DEF IInv, Turns
  <2> QED BY <2>1, <2>2
<1>2. LateShots(m) \subseteq LateShots(m)'
  <2> SUFFICES ASSUME NEW s \in LateShots(m) PROVE s \in LateShots(m)'
    OBVIOUS
  <2>1. s \in Shots /\ s.op \in Op /\ s.ctx.tick \in Int /\ s.expire \in Int
    BY DEF LateShots, Shots, Context
  <2> QED BY <1>1, <2>1, HeldOn DEF LateShots
<1>3. LateFields(m) \subseteq LateFields(m)'
  <2> SUFFICES ASSUME NEW s \in LateFields(m) PROVE s \in LateFields(m)'
    OBVIOUS
  <2>1. s \in Places /\ s.op \in Op /\ s.ctx.tick \in Int /\ s.expire \in Int
    BY DEF LateFields, Places, Context
  <2> QED BY <1>1, <2>1, HeldOn DEF LateFields
<1>4. LateWaits(m) \subseteq LateWaits(m)'
  <2> SUFFICES ASSUME NEW s \in LateWaits(m) PROVE s \in LateWaits(m)'
    OBVIOUS
  <2>1. s \in Waits /\ s.op \in Op /\ s.ctx.tick \in Int /\ s.run \in Int
    BY DEF LateWaits, Waits, Context
  <2> QED BY <1>1, <2>1, HeldOn DEF LateWaits
<1>5. /\ t'.projectiles = [p \in DOMAIN t'.projectiles |-> t'.projectiles[p]]
      /\ \A p \in DOMAIN t'.projectiles : t'.projectiles[p] \in LateShots(m)'
  BY <1>2, KeptRows DEF RowsShrink
<1>6. \A i \in DOMAIN t'.mobs : t'.mobs[i] \in Int
  BY KeptRows DEF RowsShrink
<1>7. t'.fields \in Seq(LateFields(m)') /\ t'.scheduled \in Seq(LateWaits(m)')
  <2> DEFINE F == LateFields(m)
             W == LateWaits(m)
             Fn == LateFields(m)'
             Wn == LateWaits(m)'
  <2>1. t.fields \in Seq(F) /\ t.scheduled \in Seq(W) /\ F \subseteq Fn /\ W \subseteq Wn
    BY <1>3, <1>4, KeptRows
  <2> HIDE DEF F, W, Fn, Wn
  <2>2. t'.fields \in Seq(Fn) /\ t'.scheduled \in Seq(Wn)
    BY <2>1, SeqMonotonic DEF RowsShrink
  <2> QED BY <2>2 DEF Fn, Wn
<1> QED BY <1>1, <1>5, <1>6, <1>7 DEF Fading

LEMMA Shrinks ==
  ASSUME IInv, NEW m, Fading(m)
  PROVE  /\ \A w : RowsStay(t, w) => RowsShrink(t, w)
         /\ \A ids : RowsShrink(t, Forget(t, ids))
<1>1. t.projectiles = [p \in DOMAIN t.projectiles |-> t.projectiles[p]]
  BY KeptRows
<1>2. \A w : RowsStay(t, w) => RowsShrink(t, w)
  BY <1>1 DEF RowsStay, RowsShrink
<1>3. ASSUME NEW ids PROVE RowsShrink(t, Forget(t, ids))
  <2> DEFINE v == Forget(t, ids)
  <2>1. World(t) /\ DOMAIN t = Tables
    BY Unmoved DEF IInv
  <2>2. /\ v.fields = t.fields /\ v.scheduled = t.scheduled
        /\ \A f \in ById : /\ DOMAIN v[f] = DOMAIN t[f] \ ids
                           /\ \A i \in DOMAIN t[f] \ ids : v[f][i] = t[f][i]
    BY <2>1, Forgotten
  <2>3. v.projectiles = Restrict(t.projectiles, DOMAIN t.projectiles \ ids)
    BY <2>1 DEF Forget, Tables, ById
  <2> HIDE DEF v
  <2>4. /\ DOMAIN v.projectiles = DOMAIN t.projectiles \ ids
        /\ \A i \in DOMAIN t.projectiles \ ids : v.projectiles[i] = t.projectiles[i]
        /\ DOMAIN v.mobs = DOMAIN t.mobs \ ids
        /\ \A i \in DOMAIN t.mobs \ ids : v.mobs[i] = t.mobs[i]
    BY <2>2 DEF ById
  <2>5. v.projectiles = [p \in DOMAIN v.projectiles |-> v.projectiles[p]]
    BY <2>3 DEF Restrict
  <2>6. RowsShrink(t, v)
    BY <2>2, <2>4, <2>5 DEF RowsShrink
  <2> QED BY <2>6 DEF v
<1> QED BY <1>2, <1>3

\* A visit, or a pass that comes to nothing that waits.
LEMMA VisitFades ==
  ASSUME IInv, IInv', NEW m, Fades(m), Fading(m), log'.cast = log.cast, tick' = tick,
         Stage' = Stage, pass' # "idle", RowsShrink(t, t'), stack' \in Seq(LateFrames(m)')
  PROVE  Fading(m)'
<1>1. \A k \in 1..3 : Soonest(k)' <= Soonest(k)
  BY Staged DEF Soonest
<1>2. tick' >= tick /\ ~ Idle'
  BY Staged DEF Idle
<1> QED BY <1>1, <1>2, PassFades

\* The same, where the tables are the same.
LEMMA PassingFades ==
  ASSUME IInv, IInv', NEW m, Fades(m), Fading(m), UNCHANGED <<t, tick, log>>,
         Stage' = Stage, pass' # "idle", stack' \in Seq(LateFrames(m)')
  PROVE  Fading(m)'
<1>1. RowsStay(t, t')
  BY DEF RowsStay
<1> QED BY <1>1, Shrinks, VisitFades

LEMMA TickFades ==
  ASSUME IInv, IInv', NEW m, Fades(m), Fading(m), BeginTick
  PROVE  Fading(m)'
<1>1. /\ pass = "idle" /\ tick' = tick + 1 /\ pass' = "statuses" /\ UNCHANGED <<t, stack, log>>
  BY DEF BeginTick, Idle
<1>2. \A k \in 1..3 : Soonest(k)' <= Soonest(k)
  BY <1>1, Staged DEF Soonest, Stage
<1>3. tick' >= tick /\ ~ Idle'
  BY <1>1, Staged DEF Idle
<1>4. stack' = <<>> /\ <<>> \in Seq(LateFrames(m)')
  BY <1>1 DEF IInv, Turns
<1>5. RowsStay(t, t')
  BY <1>1 DEF RowsStay
<1> QED BY <1>1, <1>2, <1>3, <1>4, <1>5, Shrinks, PassFades

LEMMA PassesFade ==
  ASSUME IInv, IInv', NEW m, Fades(m), Fading(m),
         BeginProcs \/ BeginMovement \/ BeginCast \/ BeginDeaths \/ BeginLoot
         \/ \E i \in todo : Spare(i)
  PROVE  Fading(m)'
<1>1. /\ UNCHANGED <<t, tick, log>> /\ Stage' = Stage /\ pass' # "idle" /\ stack' = <<>>
  BY DEF BeginProcs, BeginMovement, BeginCast, BeginDeaths, BeginLoot, Spare, Ended, Free, Stage
<1>2. <<>> \in Seq(LateFrames(m)')
  OBVIOUS
<1> QED BY <1>1, <1>2, PassingFades

LEMMA ItemProcsFade ==
  ASSUME IInv, IInv', NEW m, Fades(m), Fading(m), NEW i \in todo, TickItemProcs(i)
  PROVE  Fading(m)'
<1>1. PICK fired \in SUBSET Triggers(i, "tick") : stack' = ProcFrames(i, None, fired)
  BY DEF TickItemProcs
<1>2. None \in Aims
  BY DEF Aims
<1>3. stack' \in Seq(LateFrames(m)')
  BY <1>1, <1>2, ProcsFade, FreeHeld
<1>4. UNCHANGED <<t, tick, log>> /\ Stage' = Stage /\ pass' # "idle"
  BY DEF TickItemProcs, Free, Stage
<1> QED BY <1>3, <1>4, PassingFades

LEMMA StatusesFade ==
  ASSUME IInv, IInv', NEW m, Fades(m), Fading(m), NEW i \in todo, TickStatuses(i)
  PROVE  Fading(m)'
<1> DEFINE list == t.statuses[i]
           kept == {s \in DOMAIN list : tick < list[s].expire}
           burns == kept \cap {"burn"}
           row == [s \in kept |-> IF s \in burns THEN Burnt(list[s]) ELSE list[s]]
           blow == [op |-> "damage", amount |-> Periods(list["burn"])]
           first == Frame(Ctx(list["burn"].source), blow, i)
<1>1. /\ t' = [t EXCEPT !.statuses[i] = row] /\ pass = "statuses"
      /\ stack' \in {<<first>>, <<>>}
      /\ UNCHANGED <<tick, pass, log>>
  BY DEF TickStatuses
<1> HIDE DEF row
<1>2. RowsStay(t, t')
  BY <1>1, Unmoved DEF RowsStay, Tables, ById, IInv
<1>3. stack' \in Seq(FreeFrames(m))
  <2>1. <<>> \in Seq(FreeFrames(m))
    OBVIOUS
  <2>2. CASE stack' = <<first>>
    <3>1. stack' \in Seq(FrameSet)
      BY DEF IInv, Turns, Frames
    <3>2. first = stack'[1] /\ Len(stack') = 1
      BY <2>2
    <3>3. first \in FrameSet
      BY <3>1, <3>2
    <3>4. first.op = blow /\ blow.op = "damage"
      BY DEF Frame
    <3> HIDE DEF first, blow
    <3>5. first \in FreeFrames(m)
      BY <3>3, <3>4 DEF FreeFrames, Fades
    <3> QED BY <2>2, <3>5
  <2> QED BY <1>1, <2>1, <2>2
<1>4. Stage' = Stage /\ pass' # "idle"
  BY <1>1 DEF Stage
<1> QED BY <1>1, <1>2, <1>3, <1>4, FreeHeld, Shrinks, VisitFades

\* A swing or a slam, and what the gear of the one who strikes answers.
LEMMA BlowsFade ==
  ASSUME IInv, NEW m, Fades(m), NEW i \in Nat, NEW hits \in Seq(Nat)
  PROVE  Blow(i, hits) \in Seq(FreeFrames(m))
<1> DEFINE list == Blow(i, hits)
<1>1. list \in Seq(Frames({}))
  BY Staged, BlowOK DEF IInv
<1>2. \A k \in 1..Len(list) : list[k].op.op = "damage"
  BY DEF Blow, Frame
<1> HIDE DEF list
<1>3. \A k \in 1..Len(list) : list[k] \in FreeFrames(m)
  BY <1>1, <1>2 DEF Frames, FreeFrames, Fades
<1>4. list \in Seq(FreeFrames(m))
  BY <1>1, <1>3, Sifting
<1> QED BY <1>4 DEF list

LEMMA MeleeFades ==
  ASSUME IInv, IInv', NEW m, Fades(m), Fading(m), NEW i \in todo, MeleeAttack(i)
  PROVE  Fading(m)'
<1> DEFINE event(hits) == IF hits = <<>> THEN <<>>
                          ELSE <<Frame(Ctx(i), [op |-> "event"], hits[1])>>
<1>1. PICK hits \in Gathered("enemies", Ctx(i)) : stack' = Blow(i, hits) \o event(hits)
  BY DEF MeleeAttack
<1>2. /\ i \in Nat /\ pass = "movement" /\ t' = Recovering(i, "melee")
      /\ UNCHANGED <<tick, pass, log>> /\ World(t) /\ hits \in Seq(Nat)
  BY GatheredOK, PassBegin DEF MeleeAttack, Free
<1>3. event(hits) \in Seq(FreeFrames(m))
  <2>1. CASE hits = <<>>
    BY <2>1
  <2>2. CASE hits # <<>>
    <3> DEFINE f == Frame(Ctx(i), [op |-> "event"], hits[1])
    <3>1. hits[1] \in Aims /\ Ctx(i) \in Context
      BY <1>2, <2>2, Staged, ContextOK DEF Aims
    <3>2. [op |-> "event"] \in Starts /\ [op |-> "event"].op = "event"
      BY DEF Starts
    <3>3. f \in FrameSet /\ f.op.op = "event"
      BY <3>1, <3>2 DEF Frame, FrameSet
    <3> HIDE DEF f
    <3>4. f \in FreeFrames(m)
      BY <3>3, Grammar DEF FreeFrames
    <3>5. <<f>> \in Seq(FreeFrames(m))
      BY <3>4
    <3> QED BY <2>2, <3>5 DEF f
  <2> QED BY <2>1, <2>2
<1> HIDE DEF event
<1>4. stack' \in Seq(FreeFrames(m))
  BY <1>1, <1>2, <1>3, BlowsFade, ConcatProperties
<1>5. RowsStay(t, t')
  BY <1>2, TouchRows
<1>6. Stage' = Stage /\ pass' # "idle"
  BY <1>2 DEF Stage
<1> QED BY <1>2, <1>4, <1>5, <1>6, FreeHeld, Shrinks, VisitFades

LEMMA SlamFades ==
  ASSUME IInv, IInv', NEW m, Fades(m), Fading(m), NEW i \in todo, GroundSlam(i)
  PROVE  Fading(m)'
<1>1. PICK hits \in Gathered("enemies", Ctx(i)) : stack' = Blow(i, hits)
  BY DEF GroundSlam
<1>2. /\ i \in Nat /\ hits \in Seq(Nat) /\ UNCHANGED <<t, tick, log>>
      /\ Stage' = Stage /\ pass' # "idle"
  BY GatheredOK, PassBegin DEF GroundSlam, Free, Stage
<1>3. stack' \in Seq(LateFrames(m)')
  BY <1>1, <1>2, BlowsFade, FreeHeld
<1> QED BY <1>2, <1>3, PassingFades

LEMMA CastsBegin ==
  ASSUME IInv, IInv', NEW m, Fades(m), Fading(m), NEW i \in todo, CastStep(i)
  PROVE  Fading(m)'
<1>1. PICK p \in Presses : stack' = [k \in DOMAIN p |-> Frame(Ctx(i), p[k], i)]
  BY DEF CastStep
<1>2. UNCHANGED <<t, tick, log>> /\ Stage' = Stage /\ pass' # "idle" /\ Stage' = 0
  BY DEF CastStep, Free, Stage
<1>3. stack' \in Seq(FrameSet)
  BY DEF IInv, Turns, Frames
<1>4. \A k \in 1..Len(stack') : stack'[k].op.op \in {"cast", "use"}
  <2>1. \A k \in DOMAIN p : p[k].op \in {"cast", "use"}
    BY <1>1 DEF Presses, Cast
  <2>2. DOMAIN stack' = 1..Len(stack')
    BY <1>3
  <2>3. DOMAIN stack' = DOMAIN p
    BY <1>1
  <2>4. \A k \in DOMAIN stack' : stack'[k].op.op \in {"cast", "use"}
    BY <1>1, <2>1, <2>3 DEF Frame
  <2> QED BY <2>2, <2>4
<1>5. \A k \in 1..Len(stack') : stack'[k] \in LateFrames(m)'
  <2> TAKE k \in 1..Len(stack')
  <2>1. stack'[k] \in FrameSet /\ stack'[k].op.op \in {"cast", "use"}
    BY <1>3, <1>4
  <2>2. stack'[k].op \notin Op /\ stack'[k].op.op # "rest"
    BY <2>1, Grammar
  <2> QED BY <1>2, <2>1, <2>2 DEF LateFrames
<1>6. stack' \in Seq(LateFrames(m)')
  <2> DEFINE L == LateFrames(m)'
  <2> HIDE DEF L
  <2>1. stack' \in Seq(L)
    BY <1>3, <1>5, Sifting DEF L
  <2> QED BY <2>1 DEF L
<1> QED BY <1>2, <1>6, PassingFades

LEMMA DieFades ==
  ASSUME IInv, IInv', NEW m, Fades(m), Fading(m), NEW i \in todo, Die(i)
  PROVE  Fading(m)'
<1> DEFINE killer == Row(t.last_attacker, i, i)
           dead == [t EXCEPT !.entities[i].health = 0, !.entities[i].dead = TRUE]
<1>1. /\ pass = "deaths" /\ UNCHANGED <<tick, pass>>
      /\ log' = [log EXCEPT !.slain = @ \cup {<<killer, i>>}]
      /\ \/ t' = dead
         \/ t' = [dead EXCEPT !.inventory[i] = Kept(@),
                              !.respawn_at = Put(@, i, tick + RespawnTicks)]
  BY DEF Die
<1>2. PICK fired \in SUBSET (IF killer = i THEN {} ELSE Triggers(killer, "kill")) :
        stack' = ProcFrames(killer, i, fired)
  BY DEF Die
<1>3. i \in Aims
  <2>1. i \in Bodies
    BY <1>1 DEF IInv, Turns
  <2>2. DOMAIN t.entities \subseteq 1..(t.next - 1) /\ t.next \in Nat
    BY DEF IInv, World, Sized
  <2> QED BY <2>1, <2>2 DEF Bodies, Aims
<1>4. stack' \in Seq(LateFrames(m)')
  BY <1>2, <1>3, ProcsFade, FreeHeld
<1>5. RowsStay(t, dead) /\ DOMAIN dead = Tables
  BY Unmoved DEF RowsStay, Tables, ById, IInv
<1> HIDE DEF dead
<1>6. RowsStay(t, t')
  BY <1>1, <1>5 DEF RowsStay, Tables, ById
<1>7. log'.cast = log.cast
  BY <1>1 DEF IInv, Remembered
<1>8. Stage' = Stage /\ pass' # "idle"
  BY <1>1 DEF Stage
<1> QED BY <1>1, <1>4, <1>6, <1>7, <1>8, Shrinks, VisitFades

LEMMA DeathsFade ==
  ASSUME IInv, IInv', NEW m, Fades(m), Fading(m), EndDeaths
  PROVE  Fading(m)'
<1> DEFINE left == Forget(t, fallen \cap DOMAIN t.mobs)
<1>1. /\ t' = SpawnDrops(left, drops) /\ stack' = <<>> /\ UNCHANGED <<tick, log>>
      /\ pass = "deaths" /\ pass' = "imprints"
  BY DEF EndDeaths, Ended
<1>2. RowsShrink(t, left) /\ DOMAIN left = Tables
  BY Shrinks, Forgotten DEF IInv
<1> HIDE DEF left
<1>3. RowsStay(left, t')
  BY <1>1, <1>2 DEF SpawnDrops, RowsStay, Tables, ById
<1>4. RowsShrink(t, t')
  BY <1>2, <1>3 DEF RowsShrink, RowsStay
<1>5. Stage' = Stage /\ pass' # "idle" /\ <<>> \in Seq(LateFrames(m)')
  BY <1>1 DEF Stage
<1> QED BY <1>1, <1>4, <1>5, VisitFades

LEMMA ImprintFades ==
  ASSUME IInv, IInv', NEW m, Fades(m), Fading(m), NEW slain \in todo, Imprint(slain)
  PROVE  Fading(m)'
<1>1. /\ pass = "imprints" /\ stack' = <<>> /\ UNCHANGED <<tick, pass, log>>
      /\ DOMAIN t = Tables /\ tick \in Nat
  BY Unmoved, Staged DEF Imprint, Free, IInv
<1>2. <<>> \in Seq(LateFrames(m))
  OBVIOUS
<1>3. CASE t' = SpawnLoot(t, <<>>)
  <2>1. RowsStay(t, t')
    BY <1>1, <1>3 DEF SpawnLoot, AddBody, RowsStay, Tables, ById
  <2> QED BY <1>1, <1>2, <2>1, KeptRows, Additions DEF RowsStay
<1>4. CASE t' = SpawnSummon(t, None, MobHealth, tick + FoeTicks)
  <2>1. /\ t'.projectiles = t.projectiles /\ t'.fields = t.fields /\ t'.scheduled = t.scheduled
        /\ t'.mobs = Put(t.mobs, t.next, tick + FoeTicks)
    BY <1>1, <1>4 DEF SpawnSummon, AddBody, Tables, ById
  <2>2. \A i \in DOMAIN t'.mobs : t'.mobs[i] \in Int
    <3>1. \A i \in DOMAIN t.mobs : t.mobs[i] \in Int
      BY KeptRows
    <3>2. tick + FoeTicks \in Int
      BY <1>1, Bounds
    <3> QED BY <2>1, <3>1, <3>2 DEF Put
  <2> QED BY <1>1, <1>2, <2>1, <2>2, KeptRows, Additions
<1> QED BY <1>3, <1>4 DEF Imprint

LEMMA PickupFades ==
  ASSUME IInv, IInv', NEW m, Fades(m), Fading(m), NEW piece \in todo, NEW i \in Living,
         PickupLoot(piece, i)
  PROVE  Fading(m)'
<1>1. /\ t' = [t EXCEPT !.inventory[i] = @ \o t.loot[piece],
                        !.loot = Restrict(@, DOMAIN @ \ {piece}),
                        !.entities = Restrict(@, DOMAIN @ \ {piece})]
      /\ pass = "loot" /\ stack' = <<>> /\ UNCHANGED <<tick, pass, log>>
  BY DEF PickupLoot, Free
<1>2. RowsStay(t, t')
  BY <1>1, Unmoved DEF RowsStay, Tables, ById, IInv
<1>3. Stage' = Stage /\ pass' # "idle" /\ <<>> \in Seq(LateFrames(m)')
  BY <1>1 DEF Stage
<1> QED BY <1>1, <1>2, <1>3, Shrinks, VisitFades

LEMMA TickEndFades ==
  ASSUME IInv, IInv', NEW m, Fades(m), Fading(m), EndTick
  PROVE  Fading(m)'
<1> DEFINE left == Forget(t, Expired(t))
<1>1. /\ pass = "loot" /\ pass' = "idle" /\ stack' = <<>> /\ UNCHANGED <<tick, log>>
      /\ t' = Respawned(left, Rising(left))
  BY DEF EndTick, Free
<1>2. /\ RowsShrink(t, left) /\ DOMAIN left = Tables
      /\ DOMAIN left.mobs = DOMAIN t.mobs \ Expired(t)
  BY Shrinks, Forgotten, ForgetOK DEF IInv
<1> HIDE DEF left
<1>3. RowsStay(left, t')
  BY <1>1, <1>2 DEF Respawned, RowsStay, Tables, ById
<1>4. RowsShrink(t, t')
  BY <1>2, <1>3 DEF RowsShrink, RowsStay
<1>5. \A k \in 1..3 : Soonest(k)' <= Soonest(k)
  BY <1>1, Staged DEF Soonest, Stage
<1>6. \A i \in DOMAIN t'.mobs : t'.mobs[i] > tick'
  <2> SUFFICES ASSUME NEW i \in DOMAIN t'.mobs PROVE t'.mobs[i] > tick
    BY <1>1
  <2>1. i \in DOMAIN t.mobs /\ t'.mobs[i] = t.mobs[i] /\ i \notin Expired(t)
    BY <1>2, <1>3 DEF RowsShrink, RowsStay
  <2>2. t.mobs[i] \in Int /\ tick \in Nat /\ ~ (tick >= t.mobs[i])
    BY <2>1, KeptRows, Staged DEF Expired
  <2> QED BY <2>1, <2>2
<1>7. <<>> \in Seq(LateFrames(m)') /\ tick' >= tick
  BY <1>1, Staged
<1> QED BY <1>1, <1>4, <1>5, <1>6, <1>7, PassFades

\* Between ticks nothing is added that waits.
LEMMA BetweenFades ==
  ASSUME IInv, IInv', NEW m, Fades(m), Fading(m), Between
  PROVE  Fading(m)'
<1>1. /\ pass = "idle" /\ pass' = "idle" /\ stack' = <<>> /\ tick' = tick
      /\ log'.cast = log.cast
  <2>1. pass = "idle" /\ UNCHANGED <<tick, pass, stack>>
    BY DEF Between, SpawnPlayer, Leave, ImportPlayer, SeedPlayer, Arrived, Idle
  <2>2. ASSUME NEW o \in Owner, SpawnPlayer(o) PROVE log'.cast = log.cast
    BY <2>2 DEF SpawnPlayer, IInv, Remembered
  <2>3. ASSUME NEW o \in Owner, Leave(o) PROVE log'.cast = log.cast
    BY <2>3 DEF Leave
  <2>4. ASSUME NEW o \in Owner, NEW i, NEW lost, Arrived(o, i, lost) PROVE log'.cast = log.cast
    BY <2>4 DEF Arrived, IInv, Remembered
  <2>5. log'.cast = log.cast
    BY <2>2, <2>3, <2>4 DEF Between, ImportPlayer, SeedPlayer
  <2> QED BY <2>1, <2>5 DEF IInv, Turns
<1>2. RowsShrink(t, t')
  <2>1. DOMAIN t = Tables
    BY Unmoved DEF IInv
  <2>2. ASSUME NEW o \in Owner, SpawnPlayer(o) PROVE RowsShrink(t, t')
    <3>1. RowsStay(t, t')
      BY <2>1, <2>2 DEF SpawnPlayer, AddBody, RowsStay, Tables, ById
    <3> QED BY <3>1, Shrinks
  <2>3. ASSUME NEW o \in Owner, Leave(o) PROVE RowsShrink(t, t')
    BY <2>3, Shrinks DEF Leave
  <2>4. ASSUME NEW o \in Owner, ImportPlayer(o) PROVE RowsShrink(t, t')
    <3>1. RowsStay(t, t')
      BY <2>1, <2>4 DEF ImportPlayer, RowsStay, Tables, ById
    <3> QED BY <3>1, Shrinks
  <2>5. ASSUME NEW o \in Owner, SeedPlayer(o) PROVE RowsShrink(t, t')
    <3>1. RowsStay(t, t')
      BY <2>1, <2>5 DEF SeedPlayer, RowsStay, Tables, ById
    <3> QED BY <3>1, Shrinks
  <2> QED BY <2>2, <2>3, <2>4, <2>5 DEF Between
<1>3. \A k \in 1..3 : Soonest(k)' <= Soonest(k)
  BY <1>1, Staged DEF Soonest, Stage
<1>4. \A i \in DOMAIN t'.mobs : t'.mobs[i] > tick'
  BY <1>1, <1>2 DEF Fading, RowsShrink, Idle
<1>5. <<>> \in Seq(LateFrames(m)') /\ tick' >= tick
  BY <1>1, Staged
<1> QED BY <1>1, <1>2, <1>3, <1>4, <1>5, PassFades

\* A pass comes to its rows: those of later ticks stay, and what is over runs, or what
\* is met.
LEMMA HeldPast ==
  ASSUME IInv, IInv', NEW m, Fades(m), Fading(m), NEW k \in 1..3, NEW o \in Op, NEW cast \in Int,
         NEW until \in Int, Held(m, k, o, cast, until), until > tick,
         tick' = tick, log'.cast = log.cast, Stage' = k
  PROVE  Held(m, k, o, cast, until)'
<1>1. /\ m.late[o][k] \in Nat /\ tick \in Nat
  <2>1. k \in 0..3
    OBVIOUS
  <2> QED BY <2>1, Measured, Staged
<1>2. Ends \in Nat /\ Ends' = Ends
  BY Bounds DEF Ends, Fading
<1>3. Soonest(k)' = tick + 1
  BY DEF Soonest
<1> QED BY <1>1, <1>2, <1>3 DEF Held

LEMMA HeldNow ==
  ASSUME IInv, NEW m, Fades(m), Fading(m), NEW k \in 1..3, NEW o \in Op, NEW cast \in Int,
         NEW until \in Int, Held(m, k, o, cast, until), Stage < k,
         tick' = tick, log'.cast = log.cast, Stage' = k
  PROVE  Running(m, o, cast)'
<1>1. Ends' = Ends /\ Soonest(k) = tick
  BY Staged DEF Ends, Soonest
<1> QED BY <1>1 DEF Held, Running

\* The frame of what runs.
LEMMA RowFrame ==
  ASSUME NEW m, Fades(m), NEW ctx \in Context, NEW o \in Op, NEW target \in Aims,
         Running(m, o, ctx.tick)'
  PROVE  Frame(ctx, o, target) \in LateFrames(m)'
<1> DEFINE h == Frame(ctx, o, target)
<1>1. h \in Frames({}) /\ h.op = o /\ h.ctx = ctx
  BY FrameOK DEF Frame
<1>2. o.op \notin {"rest", "cast", "use"}
  BY Grammar
<1> HIDE DEF h
<1>3. h \in LateFrames(m)'
  BY <1>1, <1>2 DEF LateFrames, Frames
<1> QED BY <1>3 DEF h

\* The rows of the other passes, as one comes to its own.
LEMMA OthersHeld ==
  ASSUME IInv, IInv', NEW m, Fades(m), Fading(m), tick' = tick, log'.cast = log.cast,
         NEW k \in 1..3, Stage = k - 1, Stage' = k
  PROVE  /\ k # 1 => \A p \in DOMAIN t.projectiles : t.projectiles[p] \in LateShots(m)'
         /\ k # 2 => t.fields \in Seq(LateFields(m)')
         /\ k # 3 => t.scheduled \in Seq(LateWaits(m)')
         /\ log'.cast \in Nat /\ log'.cast <= tick' /\ log'.cast >= log.cast
         /\ \A i \in DOMAIN t.mobs : t.mobs[i] \in Int
<1>1. log'.cast \in Nat /\ log'.cast >= log.cast /\ log'.cast <= tick' /\ tick \in Nat
  BY Staged DEF Fading
<1>2. \A j \in 1..3 : j # k => Soonest(j)' <= Soonest(j)
  BY <1>1, Staged DEF Soonest
<1>3. ASSUME k # 1 PROVE LateShots(m) \subseteq LateShots(m)'
  <2> SUFFICES ASSUME NEW s \in LateShots(m) PROVE s \in LateShots(m)'
    OBVIOUS
  <2>1. s \in Shots /\ s.op \in Op /\ s.ctx.tick \in Int /\ s.expire \in Int
    BY DEF LateShots, Shots, Context
  <2>2. Soonest(1)' <= Soonest(1)
    BY <1>2, <1>3
  <2> QED BY <1>1, <2>1, <2>2, HeldOn DEF LateShots
<1>4. ASSUME k # 2 PROVE LateFields(m) \subseteq LateFields(m)'
  <2> SUFFICES ASSUME NEW s \in LateFields(m) PROVE s \in LateFields(m)'
    OBVIOUS
  <2>1. s \in Places /\ s.op \in Op /\ s.ctx.tick \in Int /\ s.expire \in Int
    BY DEF LateFields, Places, Context
  <2>2. Soonest(2)' <= Soonest(2)
    BY <1>2, <1>4
  <2> QED BY <1>1, <2>1, <2>2, HeldOn DEF LateFields
<1>5. ASSUME k # 3 PROVE LateWaits(m) \subseteq LateWaits(m)'
  <2> SUFFICES ASSUME NEW s \in LateWaits(m) PROVE s \in LateWaits(m)'
    OBVIOUS
  <2>1. s \in Waits /\ s.op \in Op /\ s.ctx.tick \in Int /\ s.run \in Int
    BY DEF LateWaits, Waits, Context
  <2>2. Soonest(3)' <= Soonest(3)
    BY <1>2, <1>5
  <2> QED BY <1>1, <2>1, <2>2, HeldOn DEF LateWaits
<1> DEFINE F == LateFields(m)
           W == LateWaits(m)
           Fn == LateFields(m)'
           Wn == LateWaits(m)'
<1>6. /\ t.fields \in Seq(F) /\ t.scheduled \in Seq(W)
      /\ k # 2 => F \subseteq Fn
      /\ k # 3 => W \subseteq Wn
  BY <1>4, <1>5, KeptRows
<1> HIDE DEF F, W, Fn, Wn
<1>7. (k # 2 => t.fields \in Seq(Fn)) /\ (k # 3 => t.scheduled \in Seq(Wn))
  BY <1>6, SeqMonotonic
<1> QED BY <1>1, <1>3, <1>7, KeptRows DEF Fn, Wn

LEMMA ShotsFade ==
  ASSUME IInv, IInv', NEW m, Fades(m), Fading(m), IntegrateProjectiles
  PROVE  Fading(m)'
<1>1. PICK stops \in SUBSET DOMAIN t.projectiles :
      \E order \in SetToSeqs(stops) : \E met \in [stops -> {None} \cup Living] :
        /\ \A p \in DOMAIN t.projectiles \ stops : tick < t.projectiles[p].expire
        /\ stack' = [k \in DOMAIN order |->
             Frame(t.projectiles[order[k]].ctx, t.projectiles[order[k]].op, met[order[k]])]
        /\ t' = [t EXCEPT !.entities = Restrict(t.entities, DOMAIN t.entities \ stops),
                          !.projectiles = Restrict(t.projectiles, DOMAIN t.projectiles \ stops)]
  BY ZenonT(60) DEF IntegrateProjectiles
<1>2. PICK order \in SetToSeqs(stops), met \in [stops -> {None} \cup Living] :
        /\ \A p \in DOMAIN t.projectiles \ stops : tick < t.projectiles[p].expire
        /\ stack' = [k \in DOMAIN order |->
             Frame(t.projectiles[order[k]].ctx, t.projectiles[order[k]].op, met[order[k]])]
        /\ t' = [t EXCEPT !.entities = Restrict(t.entities, DOMAIN t.entities \ stops),
                          !.projectiles = Restrict(t.projectiles, DOMAIN t.projectiles \ stops)]
  BY <1>1
<1>3. /\ tick' = tick /\ log'.cast = log.cast /\ pass = "cast" /\ pass' = "shots"
      /\ Stage = 1 - 1 /\ Stage' = 1 /\ ~ Idle' /\ tick \in Nat
  BY Staged DEF IntegrateProjectiles, Free, Stage, Idle
<1>4. /\ t'.projectiles = Restrict(t.projectiles, DOMAIN t.projectiles \ stops)
      /\ t'.fields = t.fields /\ t'.scheduled = t.scheduled /\ t'.mobs = t.mobs
  BY <1>2, Unmoved DEF Tables, ById, IInv
<1>5. /\ DOMAIN t'.projectiles = DOMAIN t.projectiles \ stops
      /\ \A p \in DOMAIN t'.projectiles : t'.projectiles[p] = t.projectiles[p]
      /\ t'.projectiles = [p \in DOMAIN t'.projectiles |-> t'.projectiles[p]]
  BY <1>4 DEF Restrict
<1>6. ASSUME NEW p \in DOMAIN t.projectiles
      PROVE  LET s == t.projectiles[p]
             IN  /\ s \in Shots /\ Held(m, 1, s.op, s.ctx.tick, s.expire) /\ s.op \in Op
                 /\ s.ctx \in Context /\ s.ctx.tick \in Int /\ s.expire \in Int
  <2>1. t.projectiles[p] \in LateShots(m)
    BY KeptRows
  <2> QED BY <2>1 DEF LateShots, Shots, Context
<1>7. ASSUME NEW p \in DOMAIN t'.projectiles PROVE t'.projectiles[p] \in LateShots(m)'
  <2>1. PICK s : s = t.projectiles[p]
    OBVIOUS
  <2>2. /\ s \in Shots /\ Held(m, 1, s.op, s.ctx.tick, s.expire) /\ s.op \in Op
        /\ s.ctx.tick \in Int /\ s.expire \in Int
    BY <1>5, <1>6, <2>1
  <2>3. s.expire > tick
    BY <1>2, <1>3, <1>5, <2>1, <2>2
  <2>4. Held(m, 1, s.op, s.ctx.tick, s.expire)'
    BY <1>3, <2>2, <2>3, HeldPast
  <2> QED BY <1>5, <2>1, <2>2, <2>4 DEF LateShots
<1>8. stack' \in Seq(LateFrames(m)')
  <2> DEFINE frame(k) == Frame(t.projectiles[order[k]].ctx, t.projectiles[order[k]].op,
                               met[order[k]])
             L == LateFrames(m)'
  <2>1. IsFiniteSet(stops)
    <3> DEFINE last == t.next - 1
    <3>1. stops \subseteq 1..last /\ last \in Int
      BY DEF IInv, World, Matched, Named, Sized
    <3> HIDE DEF last
    <3>2. IsFiniteSet(1..last)
      BY <3>1, FS_Interval
    <3> QED BY <3>1, <3>2, FS_Subset
  <2>2. Cardinality(stops) \in Nat /\ order \in [1..Cardinality(stops) -> stops]
    BY <2>1, FS_CardinalityType DEF SetToSeqs
  <2>3. \A k \in 1..Cardinality(stops) : frame(k) \in L
    <3> TAKE k \in 1..Cardinality(stops)
    <3>1. order[k] \in stops /\ order[k] \in DOMAIN t.projectiles
      BY <2>2
    <3>2. PICK s, aim : s = t.projectiles[order[k]] /\ aim = met[order[k]]
      OBVIOUS
    <3>3. /\ s \in Shots /\ Held(m, 1, s.op, s.ctx.tick, s.expire) /\ s.op \in Op
          /\ s.ctx \in Context /\ s.ctx.tick \in Int /\ s.expire \in Int
      BY <1>6, <3>1, <3>2
    <3>4. aim \in {None} \cup Living
      BY <3>1, <3>2
    <3>5. aim \in Aims
      BY <3>4 DEF Aims, Living, Bodies, IInv, World, Sized
    <3>6. Running(m, s.op, s.ctx.tick)'
      BY <1>3, <3>3, HeldNow
    <3>7. Frame(s.ctx, s.op, aim) \in LateFrames(m)'
      BY <3>3, <3>5, <3>6, RowFrame
    <3> QED BY <3>2, <3>7
  <2>4. stack' = [k \in 1..Cardinality(stops) |-> frame(k)]
    BY <1>2, <2>2
  <2> HIDE DEF frame, L
  <2>5. stack' \in Seq(L)
    BY <2>2, <2>3, <2>4, IsASeq
  <2> QED BY <2>5 DEF L
<1>9. /\ t.fields \in Seq(LateFields(m)') /\ t.scheduled \in Seq(LateWaits(m)')
      /\ log'.cast \in Nat /\ log'.cast <= tick' /\ (\A i \in DOMAIN t.mobs : t.mobs[i] \in Int)
  <2>1. 1 \in 1..3
    OBVIOUS
  <2> QED BY <1>3, <2>1, OthersHeld
<1> QED BY <1>3, <1>4, <1>5, <1>7, <1>8, <1>9 DEF Fading

\* What is chosen of a list is in it.
LEMMA ChosenAmong ==
  ASSUME NEW S, NEW list \in Seq(S), NEW places \in SUBSET DOMAIN list, NEW R,
         \A k \in places : list[k] \in R
  PROVE  Chosen(list, places) \in Seq(R)
<1>1. DOMAIN list = 1..Len(list) /\ Len(list) \in Nat
  OBVIOUS
<1>2. Cardinality(places) \in Nat
  <2>1. IsFiniteSet(1..Len(list))
    BY <1>1, FS_Interval
  <2> QED BY <1>1, <2>1, FS_Subset, FS_CardinalityType
<1> DEFINE item(k) == list[Nth(places, k)]
<1>3. \A k \in 1..Cardinality(places) : item(k) \in R
  <2> TAKE k \in 1..Cardinality(places)
  <2>1. Nth(places, k) \in places
    BY <1>1, Counting
  <2> QED BY <2>1
<1>4. Chosen(list, places) = [k \in 1..Cardinality(places) |-> item(k)]
  BY DEF Chosen
<1> HIDE DEF item
<1> QED BY <1>2, <1>3, <1>4, IsASeq

LEMMA FieldsFade ==
  ASSUME IInv, IInv', NEW m, Fades(m), Fading(m), TickFields
  PROVE  Fading(m)'
<1> DEFINE R == {f \in LateFields(m) : tick < f.expire}
           live == Chosen(t.fields, {k \in DOMAIN t.fields : tick < t.fields[k].expire})
           pulse(k) == [n \in 1..Pulses(live[k]) |-> Frame(live[k].ctx, live[k].op, None)]
           after == [k \in DOMAIN live |-> Pulsed(live[k])]
           F == LateFields(m)'
           L == LateFrames(m)'
<1>1. /\ pass = "shots" /\ pass' = "fields"
      /\ stack' = FlattenSeq([k \in DOMAIN live |-> pulse(k)])
      /\ t' = [t EXCEPT !.fields = after]
      /\ UNCHANGED <<tick, log>>
  BY DEF TickFields, Free
<1>2. Stage = 2 - 1 /\ Stage' = 2 /\ ~ Idle' /\ tick \in Nat /\ tick' = tick /\ log'.cast = log.cast
  BY <1>1, Staged DEF Stage, Idle
<1>3. /\ t'.projectiles = t.projectiles /\ t'.scheduled = t.scheduled /\ t'.mobs = t.mobs
      /\ t'.fields = after
  BY <1>1, Unmoved DEF Tables, ById, IInv
<1>4. live \in Seq(R)
  <2> DEFINE places == {k \in DOMAIN t.fields : tick < t.fields[k].expire}
             A == LateFields(m)
  <2>1. t.fields \in Seq(A)
    BY KeptRows
  <2>2. \A k \in places : t.fields[k] \in R
    <3>1. \A k \in DOMAIN t.fields : t.fields[k] \in A
      <4> HIDE DEF A
      <4> QED BY <2>1
    <3> QED BY <3>1
  <2> HIDE DEF A, R
  <2>3. Chosen(t.fields, places) \in Seq(R)
    BY <2>1, <2>2, ChosenAmong
  <2> QED BY <2>3
<1> HIDE DEF live
<1>5. DOMAIN live = 1..Len(live) /\ Len(live) \in Nat /\ \A k \in 1..Len(live) : live[k] \in R
  <2> HIDE DEF R
  <2> QED BY <1>4
<1>6. ASSUME NEW k \in 1..Len(live)
      PROVE  Pulsed(live[k]) \in F /\ pulse(k) \in Seq(L)
  <2>1. PICK f : f = live[k]
    OBVIOUS
  <2>2. /\ f \in Places /\ Held(m, 2, f.op, f.ctx.tick, f.expire) /\ tick < f.expire
        /\ f.op \in Op /\ f.ctx \in Context /\ f.ctx.tick \in Int /\ f.expire \in Int
    <3>1. f \in R
      BY <1>5, <2>1
    <3> QED BY <3>1 DEF LateFields, Places, Context
  <2>3. Pulses(f) \in Nat /\ Pulsed(f) \in Places
    BY <1>2, <2>2, PulsedOK
  <2>4. Pulsed(f) \in F
    <3>1. PICK g : g = Pulsed(f)
      OBVIOUS
    <3>2. g.op = f.op /\ g.ctx = f.ctx /\ g.expire = f.expire
      BY <2>2, <3>1 DEF Pulsed, Places
    <3>3. Held(m, 2, f.op, f.ctx.tick, f.expire)'
      BY <1>2, <2>2, HeldPast
    <3>4. g \in LateFields(m)'
      BY <2>3, <3>1, <3>2, <3>3 DEF LateFields
    <3> QED BY <3>1, <3>4
  <2>5. Frame(f.ctx, f.op, None) \in L
    <3>1. Running(m, f.op, f.ctx.tick)'
      BY <1>2, <2>2, HeldNow
    <3>2. None \in Aims
      BY DEF Aims
    <3> QED BY <2>2, <3>1, <3>2, RowFrame
  <2> DEFINE h == Frame(f.ctx, f.op, None)
  <2> HIDE DEF F, L
  <2>6. [n \in 1..Pulses(f) |-> h] \in Seq(L)
    <3>1. h \in L
      BY <2>5
    <3> HIDE DEF h
    <3> QED BY <2>3, <3>1
  <2>7. pulse(k) \in Seq(L)
    BY <2>1, <2>6
  <2> QED BY <2>1, <2>4, <2>7
<1> DEFINE next(k) == Pulsed(live[k])
<1>7. after = [k \in 1..Len(live) |-> next(k)]
  BY <1>5
<1>8. stack' = FlattenSeq([k \in 1..Len(live) |-> pulse(k)])
  BY <1>1, <1>5
<1>9. \A k \in 1..Len(live) : next(k) \in F /\ pulse(k) \in Seq(L)
  BY <1>6
<1> HIDE DEF pulse, next, after, F, L
<1>10. after \in Seq(F)
  BY <1>5, <1>7, <1>9, IsASeq
<1>11. [k \in 1..Len(live) |-> pulse(k)] \in Seq(Seq(L))
  BY <1>5, <1>9, IsASeq
<1>12. stack' \in Seq(L)
  BY <1>8, <1>11, Flattened
<1>13. /\ \A p \in DOMAIN t.projectiles : t.projectiles[p] \in LateShots(m)'
       /\ t.scheduled \in Seq(LateWaits(m)')
       /\ log'.cast \in Nat /\ log'.cast <= tick' /\ (\A i \in DOMAIN t.mobs : t.mobs[i] \in Int)
  <2>1. 2 \in 1..3
    OBVIOUS
  <2> QED BY <1>2, <2>1, OthersHeld
<1>14. t.projectiles = [p \in DOMAIN t.projectiles |-> t.projectiles[p]]
  BY KeptRows
<1> QED BY <1>2, <1>3, <1>10, <1>12, <1>13, <1>14 DEF Fading, F, L

LEMMA ScheduledFade ==
  ASSUME IInv, IInv', NEW m, Fades(m), Fading(m), RunScheduled
  PROVE  Fading(m)'
<1> DEFINE due == Chosen(t.scheduled, Ripe)
           later == Chosen(t.scheduled, DOMAIN t.scheduled \ Ripe)
           frame(k) == Frame(due[k].ctx, due[k].op, due[k].target)
           A == LateWaits(m)
           W == LateWaits(m)'
           L == LateFrames(m)'
<1>1. /\ pass = "fields" /\ pass' = "scheduled"
      /\ stack' = [k \in DOMAIN due |-> frame(k)]
      /\ t' = [t EXCEPT !.scheduled = later]
      /\ UNCHANGED <<tick, log>>
  BY DEF RunScheduled, Free
<1>2. Stage = 3 - 1 /\ Stage' = 3 /\ ~ Idle' /\ tick \in Nat /\ tick' = tick /\ log'.cast = log.cast
  BY <1>1, Staged DEF Stage, Idle
<1>3. /\ t'.projectiles = t.projectiles /\ t'.fields = t.fields /\ t'.mobs = t.mobs
      /\ t'.scheduled = later
  BY <1>1, Unmoved DEF Tables, ById, IInv
<1>4. t.scheduled \in Seq(A)
  BY KeptRows
<1>5. \A k \in DOMAIN t.scheduled : t.scheduled[k] \in A
  <2> HIDE DEF A
  <2> QED BY <1>4
<1>6. \A k \in DOMAIN t.scheduled \ Ripe : t.scheduled[k] \in W
  <2> TAKE k \in DOMAIN t.scheduled \ Ripe
  <2>1. PICK w : w = t.scheduled[k]
    OBVIOUS
  <2>2. /\ w \in Waits /\ Held(m, 3, w.op, w.ctx.tick, w.run)
        /\ w.op \in Op /\ w.ctx.tick \in Int /\ w.run \in Int
    <3>1. w \in A
      BY <1>5, <2>1
    <3> QED BY <3>1 DEF LateWaits, Waits, Context
  <2>3. w.run > tick
    BY <1>2, <2>1, <2>2 DEF Ripe
  <2>4. Held(m, 3, w.op, w.ctx.tick, w.run)'
    BY <1>2, <2>2, <2>3, HeldPast
  <2> QED BY <2>1, <2>2, <2>4 DEF LateWaits
<1>7. due \in Seq(A) /\ later \in Seq(W)
  <2> HIDE DEF A, W
  <2>1. due \in Seq(A)
    BY <1>4, <1>5, ChosenAmong DEF Ripe
  <2>2. later \in Seq(W)
    BY <1>4, <1>6, ChosenAmong
  <2> QED BY <2>1, <2>2
<1> HIDE DEF due, later
<1>8. /\ DOMAIN due = 1..Len(due) /\ Len(due) \in Nat
      /\ \A k \in 1..Len(due) : due[k] \in A
  <2> HIDE DEF A
  <2> QED BY <1>7
<1>9. \A k \in 1..Len(due) : frame(k) \in L
  <2> TAKE k \in 1..Len(due)
  <2>1. PICK w : w = due[k]
    OBVIOUS
  <2>2. /\ w \in Waits /\ Held(m, 3, w.op, w.ctx.tick, w.run) /\ w.target \in Aims
        /\ w.op \in Op /\ w.ctx \in Context /\ w.ctx.tick \in Int /\ w.run \in Int
    <3>1. w \in A
      BY <1>8, <2>1
    <3> QED BY <3>1 DEF LateWaits, Waits, Context
  <2>3. Running(m, w.op, w.ctx.tick)'
    BY <1>2, <2>2, HeldNow
  <2>4. Frame(w.ctx, w.op, w.target) \in LateFrames(m)'
    BY <2>2, <2>3, RowFrame
  <2> QED BY <2>1, <2>4
<1>10. stack' = [k \in 1..Len(due) |-> frame(k)]
  BY <1>1, <1>8
<1> HIDE DEF frame, W, L
<1>11. stack' \in Seq(L)
  BY <1>8, <1>9, <1>10, IsASeq
<1>12. /\ \A p \in DOMAIN t.projectiles : t.projectiles[p] \in LateShots(m)'
       /\ t.fields \in Seq(LateFields(m)')
       /\ log'.cast \in Nat /\ log'.cast <= tick' /\ (\A i \in DOMAIN t.mobs : t.mobs[i] \in Int)
  <2>1. 3 \in 1..3
    OBVIOUS
  <2> QED BY <1>2, <2>1, OthersHeld
<1>13. t.projectiles = [p \in DOMAIN t.projectiles |-> t.projectiles[p]]
  BY KeptRows
<1> QED BY <1>2, <1>3, <1>7, <1>11, <1>12, <1>13 DEF Fading, W, L

-----------------------------------------------------------------------------
LEMMA FirstFades ==
  ASSUME Init, NEW m
  PROVE  Fading(m)
<1>1. /\ t.projectiles = <<>> /\ t.mobs = <<>> /\ t.fields = <<>> /\ t.scheduled = <<>>
      /\ log.cast = 0 /\ tick = 0 /\ stack = <<>>
  BY DEF Init, NoWorld, ById
<1>2. DOMAIN <<>> = {} /\ <<>> = [p \in DOMAIN <<>> |-> <<>>[p]]
  OBVIOUS
<1>3. \A S : <<>> \in Seq(S)
  OBVIOUS
<1> QED BY <1>1, <1>2, <1>3 DEF Fading

LEMMA NextFades ==
  ASSUME IInv, IInv', NEW m, Fades(m), Fading(m), [Next]_vars
  PROVE  Fading(m)'
<1>1. CASE RunOp
  BY <1>1, RunOpFades
<1>2. CASE Tick
  <2>1. CASE \E i \in todo : \/ TickStatuses(i) \/ TickItemProcs(i) \/ MeleeAttack(i)
                             \/ GroundSlam(i) \/ CastStep(i) \/ Die(i) \/ Imprint(i)
                             \/ \E j \in Living : PickupLoot(i, j)
    BY <2>1, StatusesFade, ItemProcsFade, MeleeFades, SlamFades, CastsBegin, DieFades,
       ImprintFades, PickupFades
  <2>2. CASE BeginTick \/ EndDeaths \/ EndTick
    BY <2>2, TickFades, DeathsFade, TickEndFades
  <2>3. CASE IntegrateProjectiles \/ TickFields \/ RunScheduled
    BY <2>3, ShotsFade, FieldsFade, ScheduledFade
  <2>4. CASE \/ BeginProcs \/ BeginMovement \/ BeginCast \/ BeginDeaths \/ BeginLoot
             \/ \E i \in todo : Spare(i)
    BY <2>4, PassesFade
  <2> QED BY <1>2, <2>1, <2>2, <2>3, <2>4 DEF Tick
<1>3. CASE Between
  BY <1>3, BetweenFades
<1>4. CASE UNCHANGED vars
  <2>1. /\ UNCHANGED <<t, tick, pass, stack, log>>
        /\ \A k \in 1..3 : Soonest(k)' <= Soonest(k)
    BY <1>4, Staged DEF vars, Soonest, Stage
  <2>2. Idle' => \A i \in DOMAIN t'.mobs : t'.mobs[i] > tick'
    BY <2>1 DEF Fading, Idle
  <2>3. RowsShrink(t, t')
    <3>1. RowsStay(t, t')
      BY <2>1 DEF RowsStay
    <3> QED BY <3>1, Shrinks
  <2>4. stack' \in Seq(LateFrames(m)')
    <3>1. LateFrames(m) \subseteq LateFrames(m)' /\ stack \in Seq(LateFrames(m))
      BY <2>1, GoesOn DEF Fading
    <3> DEFINE L == LateFrames(m)
               Ln == LateFrames(m)'
    <3> HIDE DEF L, Ln
    <3>2. stack' \in Seq(Ln)
      BY <2>1, <3>1, SeqMonotonic DEF L, Ln
    <3> QED BY <3>2 DEF Ln
  <2>5. tick' >= tick
    BY <2>1, Staged
  <2> QED BY <2>1, <2>2, <2>3, <2>4, <2>5, PassFades
<1> QED BY <1>1, <1>2, <1>3, <1>4 DEF Next

LEMMA FadedOut ==
  ASSUME IInv, NEW m, Fades(m), Fading(m)
  PROVE  CastsEnd
<1> SUFFICES ASSUME Idle, tick >= log.cast + Lifespan
             PROVE  /\ t.projectiles = <<>> /\ t.fields = <<>> /\ t.scheduled = <<>>
                    /\ \A i \in DOMAIN t.mobs : t.mobs[i] > tick
  BY DEF CastsEnd
<1>1. /\ \A k \in 1..3 : Soonest(k) = tick + 1
      /\ tick \in Nat /\ Ends \in Nat /\ Ends <= tick
  BY Staged, Bounds DEF Soonest, Stage, Idle, Ends, Fading
<1>2. ASSUME NEW k \in 1..3, NEW o \in Op, NEW cast, NEW until, Held(m, k, o, cast, until)
      PROVE  FALSE
  <2>1. k \in 0..3
    OBVIOUS
  <2>2. m.late[o][k] \in Nat
    BY <2>1, Measured
  <2> QED BY <1>1, <1>2, <2>2 DEF Held
<1>3. LateShots(m) = {} /\ LateFields(m) = {} /\ LateWaits(m) = {}
  BY <1>2 DEF LateShots, LateFields, LateWaits, Shots, Places, Waits
<1>4. t.projectiles = <<>>
  <2>1. DOMAIN t.projectiles = {}
    BY <1>3, KeptRows
  <2> QED BY <2>1, KeptRows
<1>5. t.fields = <<>> /\ t.scheduled = <<>>
  <2>1. t.fields \in Seq({}) /\ t.scheduled \in Seq({})
    BY <1>3, KeptRows
  <2> QED BY <2>1
<1>6. \A i \in DOMAIN t.mobs : t.mobs[i] > tick
  BY DEF Fading
<1> QED BY <1>4, <1>5, <1>6

\* Nothing of a cast outlives Lifespan, however its graph nests projectiles, fields,
\* delays and repeats, and whatever kills, procs, novas and hand-offs come between: if
\* the nodes of the spells measure up to Lifespan, and gear leaves nothing (run_op,
\* integrate_projectiles, tick_fields, run_scheduled, tick_item_procs).
THEOREM CastsFade ==
  ASSUME NEW CONSTANT m, Fades(m)
  PROVE  Spec => []CastsEnd
<1>1. Init => IInv /\ Fading(m)
  BY InitOK, FirstFades
<1>2. IInv /\ Fading(m) /\ [Next]_vars => (IInv /\ Fading(m))'
  BY NextStep, NextFades
<1>3. IInv /\ Fading(m) => CastsEnd
  BY FadedOut
<1> QED BY <1>1, <1>2, <1>3, PTL DEF Spec
=============================================================================
