------------------------------ MODULE ItemForge ------------------------------
(* One character's belongings, what it wears and what the forge does to its  *)
(* gear (inventory.rs, item_instance.rs, forge.rs).                          *)
(*                                                                           *)
(* Stacks live in `bag`, rolled gear in `stash`, where a handle is an index. *)
(* What is worn is kept apart from both: `equipped` holds stacked items      *)
(* taken out of the bag, `worn` handles of gear that stays in the stash.     *)
(* Dice are choices: rarity, affixes, sockets, quality and the luck of an    *)
(* upgrade.  Rolled magnitudes and statistics are left out.                  *)
EXTENDS Naturals, Sequences, FiniteSets, FiniteSetsExt

CONSTANTS
  Base, BaseDef,       \* gear that rolls: slot, rarity, sockets, tags, ...
  AffixDef,            \* affixes: slots, tags, level_req
  Gem, GemDef,         \* gems: the gem and number one is fused from
  Enchant, EnchantDef, \* enchants: slots
  Item,                \* whatever stacks in a bag; gems do too
  SlotOf,              \* the slot of each stacked item
  Drinks,              \* stacked items with an on_use spell
  Recipe,              \* craftable items: what they take of each item
  Workshops,           \* what a character starts with and finds
  Depth,               \* item levels the forge is called with
  DropQuality,         \* qualities a drop may have
  MaxStack,            \* u16::MAX
  MaxPromotions,       \* coin flips that magic find may win
  MaxKills

ASSUME ForgeAssumption ==
  /\ MaxStack \in Nat /\ MaxPromotions \in Nat /\ MaxKills \in Nat
  /\ DropQuality \subseteq 0..40
  /\ IsFiniteSet(DOMAIN AffixDef)
  /\ \A b \in Base :
       /\ BaseDef[b].rarity \in {"Common", "Uncommon", "Rare", "Epic",
                                  "Legendary", "Mythic"}
       /\ BaseDef[b].sockets \in Nat
       /\ BaseDef[b].unique \in BOOLEAN

\* Stacks and counts are unsigned: what a character starts with fits in its
\* bag, and recipes and fusions take whole numbers of things.  What it finds is
\* gear that rolls or an item that stacks.
ASSUME StackAssumption ==
  /\ \A w \in Workshops : /\ w.bag \in [Item -> 0..MaxStack]
                           /\ w.finds \in Seq([id : Base \cup Item, ilvl : Nat])
  /\ \A x \in DOMAIN Recipe : \A y \in DOMAIN Recipe[x] : Recipe[x][y] \in Nat
  /\ \A g \in Gem : GemDef[g].count \in Nat

VARIABLES
  bag,       \* stack sizes
  stash,     \* rolled gear
  equipped,  \* stacked items worn, as <<slot, item>>
  worn,      \* gear worn, as <<slot, handle>>, oldest first
  forging,   \* the reforge going on, if any
  finds      \* what is still to be found, in order

vars == <<bag, stash, equipped, worn, forging, finds>>

\* ForgeConfig and UpgradeProfile.
MaxLevel == 12
SafeUntil == 4
QualityCap == 100
EssenceCost(level) == 1 + (level + 1) \div 2

\* Rarity and its budgets.
Rarity ==
  <<"Common", "Uncommon", "Rare", "Epic", "Legendary", "Mythic">>
AffixBudget ==
  [Common |-> 0, Uncommon |-> 2, Rare |-> 4, Epic |-> 5, Legendary |-> 3,
   Mythic |-> 4]
SocketBudget ==
  [Common |-> 0, Uncommon |-> 1, Rare |-> 2, Epic |-> 3, Legendary |-> 3,
   Mythic |-> 4]
\* Rarity::promote, `n` times.
Promoted(rarity, n) ==
  LET rank == CHOOSE k \in 1..6 : Rarity[k] = rarity
  IN Rarity[IF rank + n > 6 THEN 6 ELSE rank + n]

Hollow == "empty"
Plain == "none"
Quiet == [at |-> 0]

\* AffixDef::eligible, and the pool that the registry draws from.
eligible(a, base, ilvl) ==
  /\ ilvl >= AffixDef[a].level_req
  /\ AffixDef[a].slots = {} \/ BaseDef[base].slot \in AffixDef[a].slots
  /\ \/ "universal" \in AffixDef[a].tags
     \/ AffixDef[a].tags \cap BaseDef[base].tags # {}
affix_pool(base, ilvl) == {a \in DOMAIN AffixDef : eligible(a, base, ilvl)}

Rolled(a) == [affix |-> a, imprinted |-> FALSE]
Affixes(inst) == {r.affix : r \in inst.affixes}

Larger(m, n) == IF m > n THEN m ELSE n
-----------------------------------------------------------------------------
(* The bag.                                                                  *)
\* A sum that saturates: what does not fit in the stack is lost.
add_item(b, item, qty) ==
  [b EXCEPT ![item] = IF @ + qty > MaxStack THEN MaxStack ELSE @ + qty]
remove_item(b, item, qty) ==
  [b EXCEPT ![item] = IF @ < qty THEN 0 ELSE @ - qty]
Pays(item, qty) == bag[item] >= qty

Init ==
  /\ \E w \in Workshops : bag = w.bag /\ finds = w.finds
  /\ stash = <<>> /\ equipped = {} /\ worn = <<>> /\ forging = Quiet

\* forge::roll_drop and add_instance.  A unique base keeps its rarity and
\* rolls no affix; a draw that repeats an affix is skipped, so any number of
\* distinct ones up to the budget may come out.
AffixRolls(base, rarity, ilvl) ==
  LET pool == affix_pool(base, ilvl)
      budget == AffixBudget[rarity]
  IN IF BaseDef[base].unique \/ budget = 0 \/ pool = {} THEN {{}}
     ELSE {s \in SUBSET pool : Cardinality(s) \in 1..budget}

roll_drop ==
  /\ finds # <<>> /\ Head(finds).id \in Base
  /\ LET base == Head(finds).id
         ilvl == Head(finds).ilvl
         def == BaseDef[base]
     IN \E n \in 0..(IF def.unique THEN 0 ELSE MaxPromotions),
           q \in DropQuality :
          LET rarity == Promoted(def.rarity, n)
          IN \E s \in AffixRolls(base, rarity, ilvl),
                k \in def.sockets..Larger(def.sockets, SocketBudget[rarity]) :
               stash' = Append(stash,
                 [base |-> base, rarity |-> rarity, level |-> 0, quality |-> q,
                  affixes |-> {Rolled(a) : a \in s},
                  sockets |-> [j \in 1..k |-> Hollow], enchant |-> Plain,
                  kills |-> 0])
  /\ finds' = Tail(finds)
  /\ UNCHANGED <<bag, equipped, worn, forging>>

\* World::pickup_loot merges what it finds into a stack.
pickup_loot ==
  /\ finds # <<>> /\ Head(finds).id \in Item
  /\ bag' = add_item(bag, Head(finds).id, 1)
  /\ finds' = Tail(finds)
  /\ UNCHANGED <<stash, equipped, worn, forging>>
-----------------------------------------------------------------------------
(* Wearing.                                                                  *)
\* Inventory::unequip: back into the bag, as far as its stack has room.
Stripped(slot, b) ==
  LET prev == {e \in equipped : e[1] = slot}
  IN IF prev = {} THEN b ELSE add_item(b, (CHOOSE e \in prev : TRUE)[2], 1)
unequip(slot) ==
  /\ bag' = Stripped(slot, bag)
  /\ equipped' = {e \in equipped : e[1] # slot}
  /\ UNCHANGED <<stash, worn, forging, finds>>

\* Inventory::equip turns down reagents only.
equip(item) ==
  LET slot == SlotOf[item]
  IN /\ slot # "None" /\ Pays(item, 1)
     /\ bag' = remove_item(Stripped(slot, bag), item, 1)
     /\ equipped' = {e \in equipped : e[1] # slot} \cup {<<slot, item>>}
     /\ UNCHANGED <<stash, worn, forging, finds>>

DropAt(s, k) == SubSeq(s, 1, k - 1) \o SubSeq(s, k + 1, Len(s))
In(slot) == {k \in DOMAIN worn : worn[k][1] = slot}
Oldest(slot) == CHOOSE k \in In(slot) : \A j \in In(slot) : k <= j

\* Mutant: a piece of gear is put on over what is worn in its slot.
MakeRoom_never(slot) == worn
\* Inventory::equip_instance: a ring displaces the older of two, anything
\* else whatever sits in its slot.
MakeRoom(slot) ==
  IF slot = "Ring"
  THEN IF Cardinality(In(slot)) >= 2 THEN DropAt(worn, Oldest(slot)) ELSE worn
  ELSE IF In(slot) = {} THEN worn ELSE DropAt(worn, Oldest(slot))

equip_instance(i) ==
  LET slot == BaseDef[stash[i].base].slot
  IN /\ worn' = Append(MakeRoom(slot), <<slot, i>>)
     /\ UNCHANGED <<bag, stash, equipped, forging, finds>>

unequip_instance(slot) ==
  /\ In(slot) # {}
  /\ worn' = DropAt(worn, Oldest(slot))
  /\ UNCHANGED <<bag, stash, equipped, forging, finds>>

\* equipped_set_counts: worn handles, counted by the set of their base.
set_count(set) ==
  Cardinality({k \in DOMAIN worn : BaseDef[stash[worn[k][2]].base].set = set})
-----------------------------------------------------------------------------
(* Drinking, crafting, kills.                                                *)
consume(item) ==
  /\ item \in Drinks /\ Pays(item, 1)
  /\ bag' = remove_item(bag, item, 1)
  /\ UNCHANGED <<stash, equipped, worn, forging, finds>>

can_craft(item) == \A x \in DOMAIN Recipe[item] : Pays(x, Recipe[item][x])
Spent(item) ==
  [x \in Item |->
     IF x \in DOMAIN Recipe[item] THEN bag[x] - Recipe[item][x] ELSE bag[x]]
craft(item) ==
  /\ can_craft(item)
  /\ bag' = add_item(Spent(item), item, 1)
  /\ UNCHANGED <<stash, equipped, worn, forging, finds>>

\* credit_kill: process_deaths credits the first worn weapon or staff.
credit_kill(i) ==
  /\ stash[i].kills < MaxKills
  /\ LET arms == In("Staff") \cup In("Weapon")
     IN arms # {} /\ worn[CHOOSE k \in arms : \A j \in arms : k <= j][2] = i
  /\ stash' = [stash EXCEPT ![i].kills = @ + 1]
  /\ UNCHANGED <<bag, equipped, worn, forging, finds>>
-----------------------------------------------------------------------------
(* The forge.  Each call pays first and then changes one piece of gear.      *)
Works(i, inst, b) ==
  /\ stash' = [stash EXCEPT ![i] = inst]
  /\ bag' = b
  /\ UNCHANGED <<equipped, worn, forging, finds>>

\* A safe level always rises; above it the attempt may fail, and shave a
\* level if one above the safe ones is there.
Tempers(level) ==
  IF level < SafeUntil THEN {level + 1}
  ELSE {level, level + 1} \cup {l \in {level - 1} : level > SafeUntil}

upgrade(i) ==
  LET inst == stash[i]
  IN /\ BaseDef[inst.base].upgrades
     /\ inst.level < MaxLevel
     /\ Pays("arcane", EssenceCost(inst.level))
     /\ \E l \in Tempers(inst.level) :
          Works(i, [inst EXCEPT !.level = l],
                remove_item(bag, "arcane", EssenceCost(inst.level)))

imprint(i, r) ==
  LET inst == stash[i]
  IN /\ r \in inst.affixes
     /\ Pays("binding", 1)
     /\ Works(i, [inst EXCEPT !.affixes =
                    (@ \ {r}) \cup {[r EXCEPT !.imprinted = TRUE]}],
              remove_item(bag, "binding", 1))

add_socket(i) ==
  LET inst == stash[i]
  IN /\ Len(inst.sockets) < SocketBudget[inst.rarity]
     /\ Pays("boring", 1)
     /\ Works(i, [inst EXCEPT !.sockets = Append(@, Hollow)],
              remove_item(bag, "boring", 1))

\* The first empty socket takes the gem.
socket_gem(i, g) ==
  LET inst == stash[i]
      holes == {k \in DOMAIN inst.sockets : inst.sockets[k] = Hollow}
  IN /\ Pays(g, 1)
     /\ holes # {}
     /\ Works(i, [inst EXCEPT !.sockets[CHOOSE k \in holes :
                                          \A j \in holes : k <= j] = g],
              remove_item(bag, g, 1))

\* Mutant: the socket is not emptied.
Popped_kept(sockets, k) == sockets

Popped(sockets, k) == [sockets EXCEPT ![k] = Hollow]
unsocket(i, k) ==
  LET inst == stash[i]
  IN /\ k \in DOMAIN inst.sockets /\ inst.sockets[k] # Hollow
     /\ Pays("solvent", 1)
     /\ Works(i, [inst EXCEPT !.sockets = Popped(@, k)],
              add_item(remove_item(bag, "solvent", 1), inst.sockets[k], 1))

apply_enchant(i, e) ==
  LET inst == stash[i]
  IN /\ \/ EnchantDef[e].slots = {}
        \/ BaseDef[inst.base].slot \in EnchantDef[e].slots
     /\ Works(i, [inst EXCEPT !.enchant = e], bag)

polish(i) ==
  LET inst == stash[i]
  IN /\ inst.quality < QualityCap
     /\ Pays("polish", 1)
     /\ \E gain \in 3..8 :
          Works(i, [inst EXCEPT !.quality = IF @ + gain > QualityCap
                                            THEN QualityCap ELSE @ + gain],
                remove_item(bag, "polish", 1))

fuse_gems(g) ==
  /\ \E lower \in GemDef[g].from :
       /\ Pays(lower, GemDef[g].count)
       /\ bag' = add_item(remove_item(bag, lower, GemDef[g].count), g, 1)
  /\ UNCHANGED <<stash, equipped, worn, forging, finds>>
-----------------------------------------------------------------------------
(* Reforging: one call that loops.  It pays, keeps the imprinted affixes     *)
(* with their imprints cleared, and draws until the budget is full or the    *)
(* pool is empty; a draw of an affix already there changes nothing.          *)

\* Mutant: the filter is turned round.
Kept_others(inst) ==
  {Rolled(r.affix) : r \in {x \in inst.affixes : ~x.imprinted}}

Kept(inst) == {Rolled(r.affix) : r \in {x \in inst.affixes : x.imprinted}}

reforge(i, ilvl) ==
  LET inst == stash[i]
  IN /\ ~BaseDef[inst.base].unique
     /\ Pays("chaos", 1)
     /\ bag' = remove_item(bag, "chaos", 1)
     /\ forging' = [at |-> i, ilvl |-> ilvl, affixes |-> Kept(inst)]
     /\ UNCHANGED <<stash, equipped, worn, finds>>

\* Mutant: the loop counts the draws and not what it has kept.
Budget_extra(inst) == AffixBudget[inst.rarity] + 1

Budget(inst) == AffixBudget[inst.rarity]
Pool == affix_pool(stash[forging.at].base, forging.ilvl)
Full == Cardinality(forging.affixes) >= Budget(stash[forging.at])

\* Mutant: the last affix of the pool is never drawn.
Drawn_short(pool) == pool \ {CHOOSE a \in pool : TRUE}

Drawn(pool) == pool
Draw(a) ==
  /\ forging # Quiet /\ ~Full
  /\ a \in Drawn(Pool) \ {r.affix : r \in forging.affixes}
  /\ forging' = [forging EXCEPT !.affixes = @ \cup {Rolled(a)}]
  /\ UNCHANGED <<bag, stash, equipped, worn, finds>>

Finish ==
  /\ forging # Quiet /\ (Full \/ Pool = {})
  /\ stash' = [stash EXCEPT ![forging.at].affixes = forging.affixes]
  /\ forging' = Quiet
  /\ UNCHANGED <<bag, equipped, worn, finds>>
-----------------------------------------------------------------------------
\* A call has the inventory to itself until it returns.
Wear ==
  \/ \E item \in Item : equip(item)
  \/ \E e \in equipped : unequip(e[1])
  \/ \E i \in DOMAIN stash : equip_instance(i)
  \/ \E k \in DOMAIN worn : unequip_instance(worn[k][1])
Use ==
  \/ \E item \in Item : consume(item)
  \/ \E item \in DOMAIN Recipe : craft(item)
  \/ \E i \in DOMAIN stash : credit_kill(i)
Improve(i) ==
  \/ upgrade(i)
  \/ \E r \in stash[i].affixes : imprint(i, r)
  \/ add_socket(i)
  \/ \E g \in Gem : socket_gem(i, g)
  \/ \E k \in DOMAIN stash[i].sockets : unsocket(i, k)
  \/ \E e \in Enchant : apply_enchant(i, e)
  \/ polish(i)
  \/ \E ilvl \in Depth : reforge(i, ilvl)

Call ==
  /\ forging = Quiet
  /\ \/ roll_drop \/ pickup_loot
     \/ Wear
     \/ Use
     \/ \E g \in Gem : fuse_gems(g)
     \/ \E i \in DOMAIN stash : Improve(i)

Reforging == (\E a \in DOMAIN AffixDef : Draw(a)) \/ Finish
Next == Call \/ Reforging

\* The loop runs on, and its generator comes round to an affix not yet drawn
\* as long as the pool has one.
Spec == Init /\ [][Next]_vars /\ WF_vars(Reforging)
-----------------------------------------------------------------------------
Instance ==
  [base : Base, rarity : DOMAIN AffixBudget, level : 0..MaxLevel,
   quality : 0..QualityCap,
   affixes : SUBSET [affix : DOMAIN AffixDef, imprinted : BOOLEAN],
   sockets : Seq(Gem \cup {Hollow}), enchant : Enchant \cup {Plain},
   kills : 0..MaxKills]

TypeOK ==
  /\ bag \in [Item -> 0..MaxStack]
  /\ stash \in Seq(Instance)
  /\ equipped \subseteq {<<SlotOf[x], x>> : x \in Item}
  /\ \A k \in DOMAIN worn : worn[k][2] \in DOMAIN stash
  /\ forging # Quiet => forging.at \in DOMAIN stash

Distinct(rolls) == \A r, s \in rolls : r.affix = s.affix => r = s

(* However gear is rolled, imprinted and reforged, it has no affix twice, no *)
(* more affixes than its rarity's budget and none at all if it is unique;    *)
(* and drilling gives it no more sockets than its base or its rarity has.    *)
WithinBudget ==
  \A i \in DOMAIN stash :
    LET inst == stash[i]
    IN /\ Distinct(inst.affixes)
       /\ Cardinality(inst.affixes) <= AffixBudget[inst.rarity]
       /\ BaseDef[inst.base].unique => inst.affixes = {}
       /\ Len(inst.sockets)
          <= Larger(BaseDef[inst.base].sockets, SocketBudget[inst.rarity])

(* Gear is worn in the slot of its base, two rings at most and one piece in  *)
(* any other slot, however often pieces are put on and taken off.            *)
WornFits ==
  /\ \A k \in DOMAIN worn : worn[k][1] = BaseDef[stash[worn[k][2]].base].slot
  /\ \A k \in DOMAIN worn :
       Cardinality(In(worn[k][1])) <= IF worn[k][1] = "Ring" THEN 2 ELSE 1
  /\ \A e, f \in equipped : e[1] = f[1] => e = f

(* Set bonuses count distinct pieces, though the code counts worn handles    *)
(* (itemset.rs:18, "how many distinct set pieces must be equipped").         *)
SetsCountPieces ==
  \A set \in {BaseDef[b].set : b \in Base} \ {Plain} :
    set_count(set)
      = Cardinality({stash[worn[k][2]].base :
                       k \in {j \in DOMAIN worn :
                                BaseDef[stash[worn[j][2]].base].set = set}})

(* Bags, stash and what is worn are well formed, and whatever is worn fits.  *)
WornSound == TypeOK /\ WornFits /\ SetsCountPieces

\* The gems of a character, in those they are fused from: loose, socketed
\* and still to be found.
worth[g \in Gem] ==
  IF GemDef[g].from = {} THEN 1
  ELSE GemDef[g].count * worth[CHOOSE l \in GemDef[g].from : TRUE]
Holding(s, g) == Cardinality({k \in DOMAIN s : s[k] = g})
GemCount(g) ==
  bag[g] + Holding([k \in DOMAIN finds |-> finds[k].id], g)
         + MapThenSumSet(LAMBDA i : Holding(stash[i].sockets, g), DOMAIN stash)
GemWorth == MapThenSumSet(LAMBDA g : worth[g] * GemCount(g), Gem)

(* No sequence of fusing, socketing and unsocketing makes gems out of        *)
(* nothing, and gems are lost only when a full stack has no room for one.    *)
GemsKept ==
  [][/\ GemWorth' <= GemWorth
     /\ GemWorth' < GemWorth => \E g \in Gem : bag[g] = MaxStack]_vars

(* Gear that reached the last safe level never falls below it again, and no  *)
(* call moves a level by more than one (item.rs, UpgradeProfile).            *)
LevelsHold ==
  [][\A i \in DOMAIN stash :
       LET before == stash[i].level
           after == stash'[i].level
       IN /\ after \in {before, before + 1, before - 1}
          /\ before >= SafeUntil => after >= SafeUntil]_vars

(* An affix that is imprinted stays on its gear through every call, a        *)
(* reforge included (forge.rs:221, "Imprinted affixes are preserved").       *)
ImprintsHold ==
  [][\A i \in DOMAIN stash :
       \A r \in stash[i].affixes : r.imprinted => r.affix \in Affixes(stash'[i])]_vars

(* What was paid for lasts: safe levels and imprints, through every call.    *)
WorkLasts == LevelsHold /\ ImprintsHold

(* A reforge whose pool holds enough distinct affixes to fill the budget     *)
(* returns.  Without that it never does: the loop waits for an affix that    *)
(* the pool does not have (forge.rs:263).                                    *)
Fillable ==
  forging # Quiet
    /\ Cardinality(Pool \cup {r.affix : r \in forging.affixes})
       >= AffixBudget[stash[forging.at].rarity]
ReforgeReturns == Fillable ~> (forging = Quiet)
=============================================================================
