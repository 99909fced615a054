------------------------------ MODULE PackPlay ------------------------------
(* A content pack in play: one player who casts and drinks while designers   *)
(* publish edits of the pack.  The interpreter (magic.rs) runs a spell's     *)
(* tree at once as far as it goes and leaves the rest behind as projectiles, *)
(* fields and scheduled effects, each holding a copy of its subtree, so what *)
(* was cast under one pack goes on under the next (world.rs).                *)
EXTENDS ContentPack

CONSTANTS
  Edits,       \* the packs designers may publish
  MaxPacks,    \* how often
  MaxCasts,    \* spells cast, by key or by drink
  MaxFoes      \* times an enemy silences the player

VARIABLES
  live,        \* the pack the registry serves
  epoch,       \* and its number
  staged,      \* the pack waiting for the next tick, if any
  bar,         \* abilities granted when the player spawned
  bag,         \* mana crystals carried
  near,        \* an enemy stands within reach
  rows,        \* statuses on the player that keep it from casting
  flying,      \* what casts have left behind
  landed,      \* <<body, effect>> pairs of the last step
  casts, foes  \* counters for the bounds

ASSUME PlayAssumption ==
  /\ MaxPacks \in Nat \ {0} /\ MaxCasts \in Nat /\ MaxFoes \in Nat
  /\ Items["ember_staff"].abilities \subseteq DOMAIN Abilities

playvars == <<live, epoch, staged, bar, bag, near, rows, flying, landed, casts,
          foes>>

Bodies == {"caster", "foe"}
Point == "point"                  \* Target::Point: no entity to act on

PlayInit ==
  /\ live = Shipped /\ epoch = 1 /\ staged = {}
  /\ bar = {} /\ bag = 0 /\ near \in BOOLEAN
  /\ rows = {} /\ flying = {} /\ landed = {} /\ casts = 0 /\ foes = 0
-----------------------------------------------------------------------------
(* The interpreter.  A run of a tree on a target reaches some bodies and     *)
(* leaves continuations.  `luck` settles what data decides: whether a chance *)
(* comes up or a mark still stands, and whether a field opened by a late     *)
(* projectile has any of its span left (spans count from the cast).          *)
Outcome(hits, more) == [hits |-> hits, more |-> more]
Miss == Outcome({}, {})
Join(runs) ==
  Outcome(UNION {r.hits : r \in runs}, UNION {r.more : r \in runs})

Rest(kind, op, at, left, faction, since) ==
  [kind |-> kind, op |-> op, at |-> at, left |-> left, faction |-> faction,
   since |-> since]

\* target_entity(..).unwrap_or(caster): who a boon lands on.
Whom(at) == IF at \in Bodies THEN at ELSE "caster"

\* faction_ok: the bodies a shape around `at` may reach.
Reached(faction, at) ==
  {b \in Bodies :
    \/ b = "foe" /\ near /\ faction \in {Foes, Anyone}
    \/ b = "caster" /\ faction \in {Friends, Anyone}}

\* Mutant: harm without a target lands where boons do.
Leaf_whom(t, at) == {<<Whom(at), t.op>>}

Leaf(t, at) ==
  LET onBody == {b \in {at} : b \in Bodies}
  IN CASE t.op \in {"Hurt", "Shove"} -> {<<b, t.op>> : b \in onBody}
       [] t.op = "Afflict" ->
            {<<b, t.id>> : b \in {x \in onBody : Has(live, "status", t.id)}}
       [] t.op \in {"Heal", "Ward", "Refill", "Brand"} -> {<<Whom(at), t.op>>}
       [] t.op = "Teleport" -> {<<"caster", t.op>>}
       [] t.op = "Call" ->
            {<<"caster", m>> : m \in {x \in {t.id} : Has(live, "mob", x)}}
       [] OTHER -> {}

\* A field's first pulse is one interval after the cast, and it is gone when
\* its span is over, before the pulse that would fall on that tick.
Pulses(n, luck) == IF luck THEN n - 1 ELSE 0
\* eval_inner: one operation, its children run as `go` says.
eval_inner(go, t, at, luck, since) ==
  CASE t.op = "Ray" -> IF near THEN go[<<t.kids[1], "foe">>] ELSE Miss
    [] t.op = "Around" ->
         Join({go[<<t.kids[1], b>>] : b \in Reached(t.faction, at)})
    [] t.op = "Bolt" ->
         Outcome({}, {Rest("bolt", t.kids[1], Point, 1, Foes, since)})
    [] t.op = "Field" ->
         Outcome({}, {Rest("field", t.kids[1], Point, Pulses(t.n, luck),
                           t.faction, since)})
    [] t.op = "Later" ->
         Outcome({}, {Rest("later", t.kids[1], at, 1, Anyone, since)})
    [] t.op = "Repeat" ->
         Join({go[<<t.kids[1], at>>],
               Outcome({}, {Rest("later", t.kids[1], at, t.n - 1, Anyone,
                                 since)})})
    [] t.op = "All" -> Join({go[<<k, at>>] : k \in children(t)})
    [] t.op = "Maybe" -> IF luck THEN go[<<t.kids[1], at>>] ELSE Miss
    [] t.op = "IfMarked" -> go[<<t.kids[IF luck THEN 1 ELSE 2], at>>]
    [] OTHER -> Outcome(Leaf(t, at), {})

\* Nothing runs that is nested deeper (Budget::enter).
MAX_DEPTH == 24
eval(t, at, luck, since) ==
  LET go[left \in 0..MAX_DEPTH] ==
        [x \in Trees \X (Bodies \cup {Point}) |->
           IF left = 0 THEN Miss
           ELSE eval_inner(go[left - 1], x[1], x[2], luck, since)]
  IN go[MAX_DEPTH][<<t, at>>]

\* A run lands its hits and leaves its continuations.
Lands(run, before) ==
  /\ landed' = run.hits
  /\ flying' = before \cup run.more
-----------------------------------------------------------------------------
(* Content.  ContentRegistry::stage takes an edit only if it validates; the  *)
(* next tick serves it.                                                      *)
Valid == {e \in Edits : validate(e)}
stage(e) ==
  /\ epoch < MaxPacks
  /\ e \in Valid
  /\ staged' = {e}
  /\ landed' = {}
  /\ UNCHANGED <<live, epoch, bar, bag, near, rows, flying, casts, foes>>

apply_pending ==
  /\ \E e \in staged : live' = e
  /\ epoch' = epoch + 1
  /\ staged' = {}
  /\ landed' = {}
  /\ UNCHANGED <<bar, bag, near, rows, flying, casts, foes>>

(* spawn_player: the starter loadout, as far as the live pack has it.  The   *)
(* bar is read off the worn items now and never again; three mana crystals   *)
(* are packed, and equipping takes one of them into the consumable slot.     *)
spawn_player ==
  /\ bar = {} /\ bag = 0
  /\ bar' = IF Has(live, "item", "ember_staff")
            THEN Items["ember_staff"].abilities ELSE {}
  /\ bag' = IF Has(live, "item", "mana_crystal") THEN 2 ELSE 0
  /\ bar' # {} \/ bag' # 0
  /\ landed' = {}
  /\ UNCHANGED <<live, epoch, staged, near, rows, flying, casts, foes>>
-----------------------------------------------------------------------------
(* Casting.                                                                  *)
\* movement_status_mods: a row silences while the live pack says so.
Silences(s) ==
  Has(live, "status", s) /\ Statuses[s] \in {"Frozen", "Silence"}
Silenced == \E s \in rows : Silences(s)

\* cast_step and try_cast_ability: a key press that finds its ability, its
\* spell, its cooldown over and enough mana.
Cast(a) ==
  /\ casts < MaxCasts
  /\ a \in bar /\ ~Silenced
  /\ Has(live, "ability", a)
  /\ Has(live, "spell", spell(live, a))
  /\ \E luck \in BOOLEAN :
       Lands(eval(Spells[spell(live, a)], "caster", luck, epoch), flying)
  /\ casts' = casts + 1
  /\ UNCHANGED <<live, epoch, staged, bar, bag, near, rows, foes>>

\* use_consumable: the crystal leaves the bag before its spell is looked up.
Drink ==
  /\ casts < MaxCasts
  /\ bag > 0 /\ ~Silenced
  /\ Has(live, "item", "mana_crystal")
  /\ bag' = bag - 1
  /\ LET s == Items["mana_crystal"].on_use
     IN IF Has(live, "spell", s)
        THEN Lands(eval(Spells[s], "caster", TRUE, epoch), flying)
        ELSE Lands(Miss, flying)
  /\ casts' = casts + 1
  /\ UNCHANGED <<live, epoch, staged, bar, near, rows, foes>>

(* What a cast left behind runs on its own: integrate_projectiles at an      *)
(* enemy or where it stopped, tick_fields at the field's centre, and         *)
(* run_scheduled on the target it was scheduled for.                         *)
integrate_projectiles(c) ==
  /\ c.kind = "bolt"
  /\ \E at \in {Point} \cup {b \in {"foe"} : near}, luck \in BOOLEAN :
       Lands(eval(c.op, at, luck, c.since), flying \ {c})
  /\ UNCHANGED <<live, epoch, staged, bar, bag, near, rows, casts, foes>>

\* Mutant: an effect that was due stays in the queue.
StillDue_kept(c) == {c}

StillDue(c) == IF c.left > 1 THEN {[c EXCEPT !.left = @ - 1]} ELSE {}
tick_fields(c) ==
  /\ c.kind = "field" /\ c.left > 0
  /\ \E luck \in BOOLEAN :
       Lands(eval(c.op, Point, luck, c.since), (flying \ {c}) \cup StillDue(c))
  /\ UNCHANGED <<live, epoch, staged, bar, bag, near, rows, casts, foes>>

run_scheduled(c) ==
  /\ c.kind = "later" /\ c.left > 0
  /\ \E luck \in BOOLEAN :
       Lands(eval(c.op, c.at, luck, c.since), (flying \ {c}) \cup StillDue(c))
  /\ UNCHANGED <<live, epoch, staged, bar, bag, near, rows, casts, foes>>

\* A field whose span was over when it opened is dropped unrun.
Lapse(c) ==
  /\ c.left = 0
  /\ flying' = flying \ {c}
  /\ landed' = {}
  /\ UNCHANGED <<live, epoch, staged, bar, bag, near, rows, casts, foes>>
-----------------------------------------------------------------------------
(* The enemy: it comes and goes, and its own casts may put a status of the   *)
(* live pack on the player (apply_status_to); a row runs out with its time.  *)
Walk ==
  /\ near' = ~near
  /\ landed' = {}
  /\ UNCHANGED <<live, epoch, staged, bar, bag, rows, flying, casts, foes>>

apply_status_to(s) ==
  /\ foes < MaxFoes
  /\ near /\ Silences(s)
  /\ rows' = rows \cup {s}
  /\ foes' = foes + 1
  /\ landed' = {}
  /\ UNCHANGED <<live, epoch, staged, bar, bag, near, flying, casts>>

RunOut(s) ==
  /\ s \in rows
  /\ rows' = rows \ {s}
  /\ landed' = {}
  /\ UNCHANGED <<live, epoch, staged, bar, bag, near, flying, casts, foes>>

PlayNext ==
  \/ \E e \in Edits : stage(e)
  \/ apply_pending
  \/ spawn_player
  \/ \E a \in bar : Cast(a)
  \/ Drink
  \/ \E c \in flying : \/ integrate_projectiles(c) \/ tick_fields(c)
                       \/ run_scheduled(c) \/ Lapse(c)
  \/ Walk
  \/ \E s \in {"frozen", "silenced"} : apply_status_to(s) \/ RunOut(s)

\* The tick runs whatever is in flight when its time comes.
Due ==
  \E c \in flying : \/ integrate_projectiles(c) \/ tick_fields(c)
                    \/ run_scheduled(c) \/ Lapse(c)
PlaySpec == PlayInit /\ [][PlayNext]_playvars /\ WF_playvars(Due)
-----------------------------------------------------------------------------
PlayTypeOK ==
  /\ epoch \in 1..MaxPacks /\ casts \in 0..MaxCasts /\ foes \in 0..MaxFoes
  /\ bar \subseteq DOMAIN Abilities /\ bag \in 0..2
  /\ near \in BOOLEAN /\ rows \subseteq DOMAIN Statuses
  /\ \A c \in flying :
       /\ c.kind \in {"bolt", "field", "later"}
       /\ c.at \in Bodies \cup {Point} /\ c.left \in 0..15
       /\ c.since \in 1..epoch

(* An effect still in flight that was cast under the pack now live applies   *)
(* no status that this pack does not define, however deep in the spell's     *)
(* tree the status is (pack.rs:113, validate).                               *)
AfflictsResolve ==
  \A c \in flying :
    c.since = epoch => \A s \in afflictions(c.op) : Has(live, "status", s)

(* Whatever edits were accepted since the player spawned, each ability on    *)
(* its bar that the live pack still has also still has its spell: a press is *)
(* never lost half way (try_cast_ability's second lookup).                   *)
BarResolves ==
  \A a \in bar : Has(live, "ability", a) => Has(live, "spell", spell(live, a))

(* Whatever is in flight, on the bar or upon the player is of its kind, and  *)
(* names nothing that the pack it belongs to lacks.                          *)
NothingDangles == PlayTypeOK /\ AfflictsResolve /\ BarResolves

\* What an enemy would call harm: effects, and statuses by their kind.
Harm ==
  {"Hurt", "Shove"} \cup
  {s \in DOMAIN Statuses :
     Statuses[s] \in {"Burning", "DamageOverTime", "Frozen", "ManaBurn", "Root",
                     "Silence", "Slow", "Vulnerable"}}

\* Whom the children of an operation may be handed to, at once or later.
Handed(t, at) ==
  CASE t.op = "Ray" -> {"foe"}
    [] t.op = "Around" ->
         {b \in {"foe"} : t.faction \in {Foes, Anyone}}
           \cup {b \in {"caster"} : t.faction \in {Friends, Anyone}}
    [] t.op = "Bolt" -> {Point, "foe"}
    [] t.op = "Field" -> {Point}
    [] OTHER -> {at}
PassedOn(pairs) ==
  pairs \cup UNION {children(p[1]) \X Handed(p[1], p[2]) : p \in pairs}
Aimed ==
  PassedOn(PassedOn(PassedOn(PassedOn(PassedOn(
    {<<Spells[s], "caster">> : s \in DOMAIN Spells})))))

\* Boons fall to the caster wherever they are aimed, and what it calls does.
Spares(t, at) ==
  /\ at = "caster" => t.op \notin Harm /\ t.id \notin Harm
  /\ t.op \in {"Heal", "Ward", "Refill", "Brand", "Teleport"}
       => t.op \notin Harm
  /\ t.op = "Call" => t.id \notin Harm
ASSUME SparingAssumption ==
  PassedOn(Aimed) = Aimed /\ \A p \in Aimed : Spares(p[1], p[2])

(* Whoever stands where, and whatever the spell was pointed at, no spell of  *)
(* the shipped packs harms the body that cast it: harm without a target is   *)
(* lost, where a boon without one falls to the caster, and no shape that     *)
(* carries harm admits the caster (faction_ok).                              *)
CasterSpared ==
  \A hit \in landed : hit[1] = "caster" => hit[2] \notin Harm

(* Every effect a cast leaves behind comes to an end: projectiles land or    *)
(* time out, fields pulse out, delayed and repeated effects run, and what    *)
(* they leave behind in turn does too.                                       *)
Quiesces == <>[](flying = {})

Closes ==
  validate(Shipped) /\ Unchecked(Shipped) /\ Bought[{}] = DOMAIN Tech

(* The packs as shipped: the starter pack with its expansion and its gear    *)
(* passes validation, every reference that validation does not look at       *)
(* resolves too, and every node of the tech tree can be bought.              *)
ShippedCloses == live = Shipped => Closes
=============================================================================
