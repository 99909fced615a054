----------------------------- MODULE MCItemForge -----------------------------
(* Instances of ItemForge, with the shipped gear, affixes and gems.          *)
EXTENDS ItemForge, TLC

Shipped == INSTANCE ContentPack

\* A set piece, a ring that rolls affixes (and has all the sockets it may) and a
\* unique one.
MCBase == {"pyrelord_staff", "storm_ring", "signet_of_the_conjunction"}
MCBaseDef ==
  [b \in MCBase |->
     [slot |-> IF b = "pyrelord_staff" THEN "Staff" ELSE "Ring",
      rarity |-> IF b = "signet_of_the_conjunction" THEN "Mythic" ELSE "Epic",
      sockets |-> IF b = "storm_ring" THEN 3 ELSE Shipped!Pieces[b].sockets,
      tags |-> {},
      unique |-> b = "signet_of_the_conjunction",
      upgrades |-> b # "storm_ring",
      set |-> IF b = "pyrelord_staff" THEN "pyrelord" ELSE "none"]]

MCAffixDef == Shipped!Affixes
MCGem == {"ruby_1", "ruby_2", "ruby_3"}
MCGemDef == [g \in MCGem |-> Shipped!Gems[g]]
MCEnchant == {"bloodthirsty"}
MCEnchantDef == [e \in MCEnchant |-> Shipped!Enchants[e]]

Essence == {"arcane", "chaos", "binding", "boring", "solvent", "polish"}
Stuff == {"ember_staff", "frost_staff", "mana_crystal", "crystal_shard"}
MCItem == MCGem \cup Essence \cup Stuff
MCSlotOf ==
  [x \in MCItem |->
     IF x \in {"ember_staff", "frost_staff", "mana_crystal"}
     THEN Shipped!Items[x].slot ELSE "None"]
MCRecipe == [x \in {"mana_crystal"} |-> [y \in {"crystal_shard"} |-> 2]]

\* Levels at which the pool of affixes is empty, and smaller than the budget
\* of an epic; at 24 it is larger.
Low == 7
Middle == 16

Shop(items, found) ==
  [bag |-> items @@ [x \in MCItem |-> 0], finds |-> found]
Find(id, ilvl) == [id |-> id, ilvl |-> ilvl]
MCWorkshops ==
  {Shop([arcane |-> 15, boring |-> 1], <<Find("pyrelord_staff", Low)>>),
   Shop([ruby_1 |-> 15, solvent |-> 2],
        <<Find("signet_of_the_conjunction", Low), Find("ruby_1", Low)>>),
   Shop([chaos |-> 2, binding |-> 1], <<Find("storm_ring", Middle)>>),
   Shop([polish |-> 9], <<Find("storm_ring", Low)>>),
   Shop([x \in {} |-> 0], <<Find("storm_ring", Low), Find("storm_ring", Low)>>),
   Shop([x \in {} |-> 0],
        <<Find("pyrelord_staff", Low), Find("pyrelord_staff", Low)>>),
   Shop([ember_staff |-> 1, frost_staff |-> 1, crystal_shard |-> 4],
        <<Find("mana_crystal", Low), Find("pyrelord_staff", Low)>>)}
=============================================================================
