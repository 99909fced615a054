----------------------------- MODULE SpellTrees -----------------------------
(* The terms a content pack writes its spells and items with.               *)
(*                                                                           *)
(* A spell is a tree of effect operations (EffectOp of spell.rs).  A node    *)
(* keeps what decides who is reached and what happens next: the operation,   *)
(* a count (bodies a ray pierces, pulses of a field, runs of a repeat,       *)
(* creatures of a summon), the faction of a shape, the id it refers to and   *)
(* its children.  Magnitudes, ranges and speeds are left out.                *)
EXTENDS Naturals, Sequences

LOCAL Op(op, n, faction, id, kids) ==
  [op |-> op, n |-> n, faction |-> faction, id |-> id, kids |-> kids]

Foes == "foes"
Friends == "friends"        \* the caster and its allies
Anyone == "anyone"

\* Shapes: what they reach is handed to their child.
Ray(n, k) == Op("Ray", n, Foes, "", <<k>>)
Around(f, k) == Op("Around", 1, f, "", <<k>>)     \* Area and Cone
Bolt(k) == Op("Bolt", 1, Foes, "", <<k>>)         \* Projectile
Field(n, f, k) == Op("Field", n, f, "", <<k>>)

\* Effects: what happens to the body (or point) they are handed.
Effect(op) == Op(op, 1, Anyone, "", <<>>)
Hurt == Effect("Hurt")
Heal == Effect("Heal")
Ward == Effect("Ward")      \* Shield
Shove == Effect("Shove")    \* Impulse and Vortex
Teleport == Effect("Teleport")
Refill == Effect("Refill")  \* RestoreMana
Brand == Effect("Brand")    \* Mark
Nothing == Effect("Nothing")
Afflict(s) == Op("Afflict", 1, Anyone, s, <<>>)   \* ApplyStatus
Call(mob, n) == Op("Call", n, Anyone, mob, <<>>)  \* Summon

\* Control.
All(ks) == Op("All", Len(ks), Anyone, "", ks)     \* Sequence and Parallel
Later(k) == Op("Later", 1, Anyone, "", <<k>>)     \* Delay
Repeat(n, k) == Op("Repeat", n, Anyone, "", <<k>>)
Maybe(k) == Op("Maybe", 1, Anyone, "", <<k>>)     \* Chance
IfMarked(a, b) == Op("IfMarked", 2, Anyone, "", <<a, b>>)

\* EffectOp::children: every traversal of a tree goes through it.
children(t) == {t.kids[i] : i \in DOMAIN t.kids}

(* Items: the slot they are worn in, and the spells, abilities and movement  *)
(* modes that wearing them grants; a drink names the spell that drinking it  *)
(* casts.                                                                    *)
Gear(slot, spells, abilities, modes) ==
  [slot |-> slot, spells |-> spells, abilities |-> abilities,
   modes |-> modes, on_use |-> "none"]
Reagent == Gear("None", {}, {}, {})
Potion(spell) == [Gear("Consumable", {}, {}, {}) EXCEPT !.on_use = spell]
=============================================================================
