---------------------------- MODULE ExpansionPack ----------------------------
(* The tempest-verdance-hollow expansion (expansion.rs), table by table.     *)
(* apply() appends each table to the starter pack's.                         *)
EXTENDS StarterPack

ExpansionStatuses ==
  [poisoned |-> "DamageOverTime", entangled |-> "Root",
   thornmail |-> "Empower", overgrown |-> "Regen",
   static_charge |-> "DamageOverTime", conductive |-> "Vulnerable",
   windswept |-> "Haste", levitating |-> "Levitate",
   bleeding |-> "DamageOverTime", soul_burn |-> "DamageOverTime",
   cursed |-> "ManaBurn", silenced |-> "Silence", withered |-> "Vulnerable",
   petrified |-> "Frozen", timewarp |-> "Haste", timelock |-> "Slow",
   sanctified |-> "Empower", radiant_ward |-> "Shielded"]

Storm ==
  [storm_spark |-> Ray(1, All(<<Hurt, Afflict("static_charge")>>)),
   storm_thunderclap |->
     Around(Foes, All(<<Hurt, Shove, Afflict("silenced")>>)),
   storm_gale_step |->
     All(<<Teleport, Around(Friends, Afflict("windswept"))>>),
   storm_tempest |->
     Field(16, Foes, All(<<Hurt, Maybe(Afflict("levitating")),
                           Afflict("static_charge")>>)),
   storm_ball_lightning |-> Bolt(Around(Foes, Repeat(3, Hurt)))]

Verdancy ==
  [verdance_thornlash |-> Ray(2, All(<<Hurt, Afflict("poisoned")>>)),
   verdance_entangle |-> Around(Foes, All(<<Afflict("entangled"), Hurt>>)),
   verdance_thornmail |-> All(<<Ward, Afflict("thornmail")>>),
   verdance_grove |-> Field(8, Friends, All(<<Heal, Afflict("overgrown")>>)),
   verdance_spore_burst |-> Bolt(Field(7, Foes, Afflict("poisoned"))),
   verdance_summon_treant |-> Call("verdance_treant", 1)]

Necromancy ==
  [dead_shadow_bolt |-> Bolt(All(<<Hurt, Afflict("soul_burn")>>)),
   dead_hemorrhage |-> Ray(1, All(<<Hurt, Afflict("bleeding")>>)),
   dead_curse_of_silence |->
     Ray(1, All(<<Afflict("cursed"), Afflict("silenced"),
                  Afflict("withered")>>)),
   dead_harvest |-> Around(Foes, All(<<Hurt, Heal>>)),
   dead_raise_dead |-> Call("dead_risen_husk", 2),
   dead_doom |->
     Ray(1, All(<<Brand,
                  Later(IfMarked(Around(Foes, Hurt), Nothing))>>))]

TimeAndLight ==
  [chrono_haste |-> Afflict("timewarp"),
   chrono_stasis |-> Around(Foes, Afflict("timelock")),
   chrono_echo_strike |-> Ray(1, Repeat(3, Hurt)),
   radiant_smite |-> Bolt(Hurt),
   radiant_consecrate |->
     All(<<Field(8, Friends, Afflict("sanctified")), Field(16, Foes, Hurt)>>),
   radiant_aegis |-> All(<<Ward, Afflict("radiant_ward")>>),
   consume_elixir_vigor |-> All(<<Heal, Afflict("overgrown")>>),
   consume_smoke_bomb |-> Afflict("invisible")]

ExpansionModes ==
  {"updraft", "shadowstep", "vine_swing", "tide_slide", "gale_sprint",
   "feather_fall", "comet_dive", "spirit_run"}

ExpansionMaterials ==
  [moss |-> "foliage", storm_cloud |-> "lightning",
   blood |-> "surface_triplanar", obsidian |-> "dissolve",
   bone |-> "surface_triplanar", gilded |-> "surface_triplanar",
   bog_water |-> "water"]
ExpansionShaders == {"foliage", "lightning", "dissolve", "bloom_post"}

ExpansionMobs ==
  [verdance_thornling |->
     Creature({"verdance_thornlash"}, {"verdance_seed_pod"}),
   verdance_treant |->
     Creature({"verdance_entangle", "verdance_thornlash"},
              {"verdance_heartwood", "crystal_shard"}),
   verdance_grove_warden |->
     Creature({"verdance_entangle", "verdance_grove", "verdance_spore_burst"},
              {"verdance_heartwood", "verdance_staff_thorn"}),
   storm_elemental |->
     Creature({"storm_spark", "storm_ball_lightning"}, {"storm_charged_core"}),
   storm_djinn |->
     Creature({"storm_tempest", "storm_thunderclap", "storm_ball_lightning"},
              {"storm_charged_core", "storm_ring_tempest"}),
   dead_risen_husk |-> Creature({"dead_hemorrhage"}, {"dead_bone_dust"}),
   dead_shade |->
     Creature({"dead_shadow_bolt", "dead_curse_of_silence"},
              {"dead_shadow_silk"}),
   dead_blood_acolyte |->
     Creature({"dead_hemorrhage", "dead_harvest"},
              {"dead_shadow_silk", "void_essence"}),
   dead_bone_colossus |->
     Creature({"dead_doom", "dead_raise_dead", "dead_shadow_bolt"},
              {"dead_bone_dust", "dead_amulet_lich", "void_relic"}),
   radiant_seraph |->
     Creature({"radiant_smite", "radiant_aegis"}, {"radiant_gilded_feather"})]

ExpansionItems ==
  [verdance_seed_pod |-> Reagent, verdance_heartwood |-> Reagent,
   storm_charged_core |-> Reagent, dead_bone_dust |-> Reagent,
   dead_shadow_silk |-> Reagent, radiant_gilded_feather |-> Reagent,
   storm_staff_tempest |->
     Gear("Staff", {"storm_spark", "storm_ball_lightning"}, {"storm_spark"},
          {}),
   verdance_staff_thorn |->
     Gear("Staff", {"verdance_thornlash", "verdance_entangle"},
          {"verdance_thornlash"}, {}),
   dead_scepter_grave |->
     Gear("Staff", {"dead_shadow_bolt", "dead_hemorrhage", "dead_harvest"},
          {"dead_shadow_bolt"}, {}),
   chrono_hourglass |->
     Gear("Relic", {"chrono_haste", "chrono_stasis", "chrono_echo_strike"},
          {"chrono_haste"}, {}),
   dead_amulet_lich |->
     Gear("Amulet", {"dead_raise_dead", "dead_doom"}, {"dead_raise_dead"}, {}),
   storm_ring_tempest |->
     Gear("Ring", {"storm_tempest"}, {"storm_tempest"}, {}),
   radiant_crown_dawn |->
     Gear("Amulet", {"radiant_smite", "radiant_consecrate", "radiant_aegis"},
          {"radiant_smite"}, {}),
   storm_windsoles |-> Gear("Boots", {}, {}, {"gale_sprint", "feather_fall"}),
   dead_shadow_cloak |-> Gear("Trinket", {}, {}, {"shadowstep"}),
   verdance_vinecaster |-> Gear("Trinket", {}, {}, {"vine_swing"}),
   consume_vigor_elixir |-> Potion("consume_elixir_vigor"),
   consume_smoke_phial |-> Potion("consume_smoke_bomb")]

\* The craft argument of items().
ExpansionRecipes ==
  [verdance_staff_thorn |->
     [inputs |-> {"verdance_heartwood", "crystal_shard"},
      tech |-> {"verdance_2"}],
   chrono_hourglass |->
     [inputs |-> {"radiant_gilded_feather", "crystal_shard"},
      tech |-> {"chrono_2"}],
   dead_shadow_cloak |->
     [inputs |-> {"dead_shadow_silk", "void_essence"}, tech |-> {"necro_3"}],
   consume_vigor_elixir |->
     [inputs |-> {"verdance_seed_pod", "crystal_shard"}, tech |-> {}],
   consume_smoke_phial |->
     [inputs |-> {"dead_shadow_silk"}, tech |-> {"necro_1"}]]

\* Every ability of the expansion has the id of the spell it casts.
ExpansionAbilities ==
  LET Primary == {"storm_spark", "verdance_thornlash", "dead_shadow_bolt",
                  "radiant_smite"}
      Secondary == {"storm_ball_lightning", "verdance_spore_burst",
                    "dead_hemorrhage", "chrono_echo_strike"}
      Slotted == {"storm_thunderclap", "storm_gale_step", "storm_tempest",
                  "verdance_entangle", "verdance_thornmail", "verdance_grove",
                  "verdance_summon_treant", "dead_curse_of_silence",
                  "dead_harvest", "dead_raise_dead", "dead_doom",
                  "chrono_haste", "chrono_stasis", "radiant_consecrate",
                  "radiant_aegis"}
  IN [a \in Primary \cup Secondary \cup Slotted |->
        Key(a, IF a \in Primary THEN "Primary"
               ELSE IF a \in Secondary THEN "Secondary" ELSE "Slot")]

StormAndVerdance ==
  [storm_1 |-> Perk({}, {"storm_windsoles"}, {"storm_spark"}, {}, {}),
   storm_2 |->
     Perk({"storm_1"}, {"storm_staff_tempest"}, {"storm_ball_lightning"}, {},
          {}),
   storm_3 |-> Perk({"storm_2"}, {}, {"storm_gale_step"}, {"gale_sprint"}, {}),
   storm_4 |->
     Perk({"storm_3"}, {"storm_ring_tempest"}, {"storm_tempest"}, {}, {}),
   verdance_1 |->
     Perk({}, {"verdance_vinecaster"}, {"verdance_thornlash"}, {}, {}),
   verdance_2 |->
     Perk({"verdance_1"}, {"verdance_staff_thorn"}, {"verdance_entangle"},
          {"vine_swing"}, {}),
   verdance_3 |->
     Perk({"verdance_2"}, {}, {"verdance_grove"}, {}, {"verdance_thornmail"}),
   verdance_4 |-> Perk({"verdance_3"}, {}, {"verdance_summon_treant"}, {}, {})]

DeathTimeAndLight ==
  [necro_1 |->
     Perk({}, {"consume_smoke_phial"}, {"dead_shadow_bolt"}, {}, {}),
   necro_2 |->
     Perk({"necro_1"}, {"dead_scepter_grave"},
          {"dead_hemorrhage", "dead_harvest"}, {}, {}),
   necro_3 |->
     Perk({"necro_2"}, {"dead_shadow_cloak"}, {"dead_curse_of_silence"},
          {"shadowstep"}, {}),
   necro_4 |->
     Perk({"necro_3"}, {"dead_amulet_lich"}, {"dead_raise_dead", "dead_doom"},
          {}, {}),
   chrono_1 |-> Perk({}, {}, {"chrono_haste"}, {}, {}),
   chrono_2 |->
     Perk({"chrono_1"}, {"chrono_hourglass"}, {"chrono_stasis"}, {}, {}),
   chrono_3 |-> Perk({"chrono_2"}, {}, {"chrono_echo_strike"}, {}, {}),
   radiant_1 |-> Perk({}, {}, {"radiant_smite"}, {}, {}),
   radiant_2 |->
     Perk({"radiant_1"}, {"radiant_crown_dawn"},
          {"radiant_consecrate", "radiant_aegis"}, {}, {})]

ExpansionMissions ==
  [green_tide |->
     Quest({"verdance_thornling"}, {}, {"verdance_seed_pod"},
           {"verdance_vinecaster"}),
   storm_chaser |->
     Quest({"storm_elemental"}, {"storm_spark"}, {}, {"storm_charged_core"}),
   the_hollow_dead |-> Quest({"dead_shade"}, {}, {}, {"dead_shadow_silk"}),
   slay_colossus |->
     Quest({"dead_bone_colossus"}, {}, {}, {"dead_amulet_lich"}),
   djinn_of_the_peaks |->
     Quest({"storm_djinn"}, {}, {}, {"storm_ring_tempest"})]

ExpansionLoot ==
  [verdance |-> {"verdance_seed_pod", "verdance_heartwood",
                 "consume_vigor_elixir", "verdance_staff_thorn"},
   storm |-> {"storm_charged_core", "storm_windsoles", "storm_staff_tempest"},
   dead |-> {"dead_bone_dust", "dead_shadow_silk", "consume_smoke_phial",
             "dead_scepter_grave"},
   boss_colossus |-> {"dead_bone_dust", "dead_shadow_silk", "void_essence",
                      "dead_scepter_grave", "dead_amulet_lich", "void_relic"},
   boss_djinn |-> {"storm_charged_core", "crystal_shard",
                   "storm_staff_tempest", "storm_ring_tempest"}]

ExpansionSpawns ==
  [mire_thornlings |-> Spawner("verdance_thornling", "verdance"),
   mire_warden |-> Spawner("verdance_grove_warden", "boss"),
   stormpeak_elementals |-> Spawner("storm_elemental", "storm"),
   stormpeak_djinn |-> Spawner("storm_djinn", "boss_djinn"),
   barrow_dead |-> Spawner("dead_risen_husk", "dead"),
   barrow_shades |-> Spawner("dead_shade", "dead"),
   barrow_colossus |-> Spawner("dead_bone_colossus", "boss_colossus")]

ExpansionTriggers ==
  [storm_conduct |-> {<<"spell", "storm_spark">>, <<"status", "conductive">>},
   verdant_bloom |-> {<<"item", "verdance_seed_pod">>},
   restless_dead |-> {<<"mob", "dead_risen_husk">>},
   rolling_storm |-> {<<"status", "static_charge">>},
   colossus_wakes |-> {<<"mob", "dead_bone_colossus">>},
   seraph_blessing |-> {<<"tech", "radiant_1">>, <<"status", "sanctified">>,
                        <<"item", "radiant_gilded_feather">>}]

ExpansionGames ==
  [survival_horde |-> Rules({"fireball", "radiant_smite"},
                            {"mana_crystal", "consume_vigor_elixir"}),
   relic_royale |-> Rules({"fireball"}, {"mana_crystal"})]

\* Mutant: the husk is grafted without its family's name.
ExpansionWilds_typo ==
  {"verdance_thornling", "verdance_treant", "risen_husk",
   "storm_elemental", "radiant_seraph", "dead_bone_colossus", "storm_djinn",
   "verdance_grove_warden"}

\* graft_world(): the mobs of the new biomes and structures.
ExpansionWilds ==
  {"verdance_thornling", "verdance_treant", "dead_risen_husk",
   "storm_elemental", "radiant_seraph", "dead_bone_colossus", "storm_djinn",
   "verdance_grove_warden"}
=============================================================================
