----------------------------- MODULE StarterPack -----------------------------
(* The starter pack (default_pack.rs): the tables the content crate ships    *)
(* before its expansions.  A table is a function from ids to what its        *)
(* definitions refer to; ids lose their kind's prefix.                       *)
EXTENDS SpellTrees

\* spells(): fire, frost, light and growth.
FireAndFrost ==
  [fireball |-> Bolt(Around(Foes, All(<<Hurt, Afflict("burning")>>))),
   frostbolt |-> Bolt(All(<<Hurt, Afflict("frozen")>>)),
   arcane_lance |-> Ray(4, Hurt),
   healing_bloom |-> Field(6, Friends, Heal)]

\* spells(): the heavy strikes, the chains and the companion.
Strikes ==
  [meteor |-> Bolt(Around(Foes, All(<<Hurt, Afflict("vulnerable"), Shove>>))),
   chain_lightning |-> Ray(1, Repeat(5, Hurt)),
   void_grasp |-> Ray(1, All(<<Shove, Afflict("root")>>)),
   blink_strike |-> All(<<Teleport, Around(Foes, Hurt)>>),
   summon_wisp |-> Call("wisp", 1)]

\* spells(): what drains, lingers or refills.
Drains ==
  [ground_slam |-> Around(Foes, All(<<Hurt, Shove>>)),
   life_siphon |-> Ray(1, All(<<Hurt, Heal>>)),
   storm_field |-> Field(10, Foes, All(<<Hurt, Afflict("slow")>>)),
   mana_draught |-> Refill]

\* spells(): the gravity school.
Gravity ==
  [gravity_well |-> Field(16, Foes, All(<<Shove, Hurt, Afflict("slow")>>)),
   singularity |->
     Bolt(All(<<Around(Foes, Shove),
                Later(Around(Foes, All(<<Hurt, Shove>>)))>>)),
   repulsion_nova |-> Around(Foes, All(<<Hurt, Shove>>))]

StarterStatuses ==
  [burning |-> "Burning", frozen |-> "Frozen", slow |-> "Slow",
   root |-> "Root", regen |-> "Regen", empower |-> "Empower",
   shielded |-> "Shielded", vulnerable |-> "Vulnerable", haste |-> "Haste",
   invisible |-> "Invisible"]

StarterModes ==
  {"dash", "double_jump", "wall_run", "grapple", "glide", "blink", "climb",
   "ground_slam", "slide", "sprint", "fly", "momentum_boost"}

\* items(): reagents, staves and relics.
Wands ==
  [crystal_shard |-> Reagent,
   void_essence |-> Reagent,
   ember_staff |-> Gear("Staff", {"fireball"}, {"fireball"}, {}),
   frost_staff |-> Gear("Staff", {"frostbolt"}, {"frostbolt"}, {}),
   runeblade |->
     Gear("Staff", {"arcane_lance"}, {"arcane_lance"}, {"momentum_boost"}),
   arcane_orb |-> Gear("Relic", {"arcane_lance"}, {"arcane_lance"}, {})]

\* items(): the void relic, boots and trinkets.
Trinkets ==
  [void_relic |->
     Gear("Relic",
          {"void_grasp", "life_siphon", "gravity_well", "singularity"},
          {"void_grasp", "gravity_well", "singularity"}, {}),
   swiftboots |-> Gear("Boots", {}, {}, {"dash", "momentum_boost"}),
   grapple_glove |-> Gear("Trinket", {}, {}, {"grapple"}),
   glider_cloak |-> Gear("Trinket", {}, {}, {"glide", "fly"}),
   novice_robe |-> Gear("Robe", {}, {}, {})]

\* items(): the great robes and jewels, and the mana crystal.
Regalia ==
  [archmage_robe |-> Gear("Robe", {}, {}, {}),
   phoenix_amulet |-> Gear("Amulet", {"meteor"}, {"meteor"}, {}),
   storm_ring |->
     Gear("Ring", {"chain_lightning", "repulsion_nova"},
          {"chain_lightning", "repulsion_nova"}, {}),
   mana_crystal |-> Potion("mana_draught")]

\* The craft field of items(): what a recipe takes, and the tech it asks for.
StarterRecipes ==
  [runeblade |-> [inputs |-> {"crystal_shard"}, tech |-> {}],
   void_relic |->
     [inputs |-> {"void_essence", "crystal_shard"}, tech |-> {"arcana_4"}],
   archmage_robe |->
     [inputs |-> {"crystal_shard", "void_essence"}, tech |-> {"arcana_2"}],
   mana_crystal |-> [inputs |-> {"crystal_shard"}, tech |-> {}]]

\* abilities(): the spell a key casts and the binding it sits on.
Key(spell, binding) == [spell |-> spell, binding |-> binding]
StarterAbilities ==
  [fireball |-> Key("fireball", "Primary"),
   frostbolt |-> Key("frostbolt", "Primary"),
   arcane_lance |-> Key("arcane_lance", "Secondary"),
   void_grasp |-> Key("void_grasp", "Secondary"),
   healing_bloom |-> Key("healing_bloom", "Slot"),
   meteor |-> Key("meteor", "Slot"),
   chain_lightning |-> Key("chain_lightning", "Slot"),
   blink_strike |-> Key("blink_strike", "Slot"),
   summon_wisp |-> Key("summon_wisp", "Slot"),
   ground_slam |-> Key("ground_slam", "Slot"),
   life_siphon |-> Key("life_siphon", "Slot"),
   storm_field |-> Key("storm_field", "Slot"),
   gravity_well |-> Key("gravity_well", "Slot"),
   singularity |-> Key("singularity", "Slot"),
   repulsion_nova |-> Key("repulsion_nova", "Secondary")]

(* tech_tree(): what a node comes after, the items it makes available and    *)
(* what its effects unlock.  Stat multipliers and spell budgets are left out.*)
Perk(after, items, abilities, modes, spells) ==
  [after |-> after, items |-> items, abilities |-> abilities,
   modes |-> modes, spells |-> spells]

Elements ==
  [pyro_1 |-> Perk({}, {"ember_staff"}, {"fireball"}, {}, {}),
   pyro_2 |-> Perk({"pyro_1"}, {}, {}, {}, {}),
   pyro_3 |-> Perk({"pyro_2"}, {"phoenix_amulet"}, {"meteor"}, {}, {}),
   pyro_4 |-> Perk({"pyro_3"}, {}, {}, {}, {}),
   cryo_1 |-> Perk({}, {"frost_staff"}, {"frostbolt"}, {}, {}),
   cryo_2 |-> Perk({"cryo_1"}, {}, {}, {}, {}),
   cryo_3 |-> Perk({"cryo_2"}, {}, {}, {}, {}),
   cryo_4 |-> Perk({"cryo_3"}, {}, {}, {}, {"storm_field"})]

ArcanaAndMobility ==
  [arcana_1 |-> Perk({}, {"arcane_orb"}, {"arcane_lance"}, {}, {}),
   arcana_2 |-> Perk({"arcana_1"}, {"archmage_robe"}, {}, {}, {}),
   arcana_3 |->
     Perk({"arcana_2"}, {"storm_ring"}, {"chain_lightning"}, {}, {}),
   arcana_4 |-> Perk({"arcana_3"}, {"void_relic"}, {"void_grasp"}, {}, {}),
   mobility_1 |-> Perk({}, {"swiftboots"}, {}, {"dash"}, {}),
   mobility_2 |-> Perk({"mobility_1"}, {"grapple_glove"}, {}, {"grapple"}, {}),
   mobility_3 |-> Perk({"mobility_2"}, {"glider_cloak"}, {}, {"glide"}, {}),
   mobility_4 |-> Perk({"mobility_3"}, {}, {}, {"blink"}, {})]

Creature(abilities, loot) == [abilities |-> abilities, loot |-> loot]
StarterMobs ==
  [wisp |-> Creature({"arcane_lance"}, {"mana_crystal"}),
   forest_guardian |->
     Creature({"ground_slam"}, {"crystal_shard", "novice_robe"}),
   void_wraith |-> Creature({"void_grasp", "life_siphon"}, {"void_essence"}),
   crystal_golem |->
     Creature({"chain_lightning", "ground_slam"},
              {"crystal_shard", "storm_ring"})]

\* missions(): the mobs, spells and items an objective names, and the reward.
Quest(mobs, spells, items, reward) ==
  [mobs |-> mobs, spells |-> spells, items |-> items, reward |-> reward]
StarterMissions ==
  [first_flame |-> Quest({"wisp"}, {"fireball"}, {}, {"ember_staff"}),
   gather_crystals |-> Quest({}, {}, {"crystal_shard"}, {"mana_crystal"}),
   reach_monolith |-> Quest({}, {}, {}, {"arcane_orb"}),
   survive_hollows |-> Quest({"void_wraith"}, {}, {}, {"void_essence"})]

StarterLoot ==
  [novice |-> {"mana_crystal", "crystal_shard"},
   common |-> {"crystal_shard", "mana_crystal", "novice_robe"},
   rare |-> {"void_essence", "crystal_shard", "grapple_glove", "storm_ring"},
   boss |-> {"crystal_shard", "void_essence", "storm_ring", "phoenix_amulet",
             "void_relic"}]

Rules(loadout, items) == [loadout |-> loadout, items |-> items]
StarterGames ==
  [open_world |-> Rules({"fireball"}, {"mana_crystal"}),
   arena_deathmatch |-> Rules({"fireball", "frostbolt", "arcane_lance"}, {}),
   conquest |-> Rules({"fireball"}, {"mana_crystal"})]

Spawner(mob, loot) == [mob |-> mob, loot |-> {loot}]
StarterSpawns ==
  [lowland_wisps |-> Spawner("wisp", "novice"),
   forest_guardians |-> Spawner("forest_guardian", "common"),
   hollows_wraiths |-> Spawner("void_wraith", "rare"),
   highland_golems |-> Spawner("crystal_golem", "boss")]

(* triggers(): every reference of a rule, as <<kind, id>>: of its event, its *)
(* conditions and its actions.                                               *)
StarterTriggers ==
  [levelup_reward |-> {},
   kill_loot |-> {<<"loot", "common">>},
   hollows_guardian |-> {<<"mob", "void_wraith">>},
   fire_synergy |-> {<<"spell", "fireball">>, <<"status", "empower">>},
   void_initiation |-> {<<"item", "void_essence">>, <<"tech", "arcana_4">>}]

\* materials() and shaders(): each of the six materials names one shader.
StarterMaterials ==
  [m \in {"organic_stone", "mystic_grass", "crystal", "lava", "void_fog",
          "bark"} |-> "surface_triplanar"]
StarterShaders == {"surface_triplanar", "sky", "particle", "water"}

\* WorldGenParams::default: the mobs of its biomes and structures.
StarterWilds ==
  {"forest_guardian", "wisp", "crystal_golem", "void_wraith"}
=============================================================================
