------------------------------ MODULE GearPack ------------------------------
(* The gear economy (gear.rs): what apply() adds to the pack after the       *)
(* expansion.  Statistics are left out; kept are the slots, tags and levels  *)
(* that decide what may be rolled or fitted, and every id a table names.     *)
EXTENDS ExpansionPack

GearStatuses ==
  [gear_ignite |-> "Burning", gear_chill |-> "Slow",
   gear_sunder |-> "Vulnerable", gear_bleed |-> "DamageOverTime",
   gear_frenzy |-> "Haste", gear_berserk |-> "Empower",
   gear_aegis |-> "Shielded", gear_regen |-> "Regen"]

Essences ==
  [e \in {"arcane", "chaos", "binding", "boring", "solvent", "polish"} |->
     Reagent]

(* affixes(): the slots an affix is confined to (none: any), the tags it     *)
(* shares with the items it may roll on, the item level it needs (eight per  *)
(* tier above the first) and the status its proc gives.                      *)
Affix(slots, tags, tier, procs) ==
  [slots |-> slots, tags |-> tags, level_req |-> 8 * (tier - 1), procs |-> procs]

NamePrefixes ==
  [flaming |-> Affix({"Staff", "Weapon", "Gloves"},
                     {"caster", "weapon", "fire"}, 2, {"gear_ignite"}),
   glacial |-> Affix({}, {"caster", "weapon", "frost"}, 2, {"gear_chill"}),
   savage |-> Affix({"Weapon"}, {"weapon", "melee"}, 3, {}),
   vampiric |-> Affix({}, {"weapon", "melee", "universal"}, 4, {}),
   arcane |-> Affix({}, {"caster", "armor"}, 3, {}),
   fleet |-> Affix({"Boots"}, {"boots", "armor"}, 2, {}),
   titan |-> Affix({}, {"armor", "universal"}, 4, {}),
   cruel |-> Affix({}, {"weapon", "caster"}, 6, {})]

NameSuffixes ==
  [of_bear |-> Affix({}, {"universal"}, 2, {}),
   of_fox |-> Affix({}, {"universal"}, 2, {}),
   of_storms |-> Affix({}, {"weapon", "caster", "storm"}, 5, {}),
   of_leech |-> Affix({}, {"caster", "universal"}, 3, {}),
   of_warding |-> Affix({}, {"armor", "universal"}, 4, {}),
   of_fortune |-> Affix({}, {"universal"}, 5, {}),
   of_thorns |-> Affix({}, {"armor", "universal"}, 3, {})]

\* gems(): the rune a gem stands for, and the gem and number it is fused from.
Stone(rune, from, count) == [rune |-> rune, from |-> from, count |-> count]
Cut(rune) == Stone(rune, {}, 0)
Gems ==
  [ruby_1 |-> Cut("Ruby"), ruby_2 |-> Stone("Ruby", {"ruby_1"}, 3),
   ruby_3 |-> Stone("Ruby", {"ruby_2"}, 3),
   sapphire_1 |-> Cut("Sapphire"),
   sapphire_3 |-> Stone("Sapphire", {"sapphire_1"}, 9),
   topaz_3 |-> Cut("Topaz"), emerald_3 |-> Cut("Emerald"),
   diamond_3 |-> Cut("Diamond"),
   kor |-> Cut("Kor"), vaal |-> Cut("Vaal"), sol |-> Cut("Sol"),
   eth |-> Cut("Eth")]

Word(runes, slots, procs) ==
  [sequence |-> runes, base_slots |-> slots, procs |-> procs]
Runewords ==
  [stormbringer |-> Word(<<"Sol", "Topaz", "Vaal">>, {"Staff", "Weapon"}, {}),
   bulwark |-> Word(<<"Eth", "Diamond", "Ruby">>, {"Robe", "Offhand"},
                    {"gear_aegis"})]

\* enchants(): the slots (none: any), the level and the proc's status.
Enchants ==
  [brilliant |-> [slots |-> {}, level_req |-> 10, procs |-> {}],
   bloodthirsty |-> [slots |-> {"Weapon", "Staff"}, level_req |-> 16,
                     procs |-> {"gear_frenzy"}]]

(* legendaries() and sets(): the slot, rarity, sockets and required level of *)
(* a piece, and the statuses its triggers give.                              *)
Piece(slot, rarity, sockets, level, procs) ==
  [slot |-> slot, rarity |-> rarity, sockets |-> sockets, level |-> level,
   procs |-> procs]
Legendaries ==
  [hungering_edge |-> Piece("Weapon", "Legendary", 2, 20, {"gear_bleed"}),
   ember_striders |-> Piece("Boots", "Legendary", 1, 18, {}),
   echo_of_creation |-> Piece("Staff", "Legendary", 2, 22, {"gear_berserk"}),
   winterheart_mantle |-> Piece("Robe", "Legendary", 3, 20, {}),
   signet_of_the_conjunction |-> Piece("Ring", "Mythic", 2, 30, {})]

SetPiece(slot) == Piece(slot, "Epic", 1, 16, {})
SetPieces ==
  [pyrelord_helm |-> SetPiece("Helm"), pyrelord_robe |-> SetPiece("Robe"),
   pyrelord_gloves |-> SetPiece("Gloves"),
   pyrelord_boots |-> SetPiece("Boots"), pyrelord_staff |-> SetPiece("Staff"),
   stoneward_helm |-> SetPiece("Helm"), stoneward_robe |-> SetPiece("Robe"),
   stoneward_boots |-> SetPiece("Boots"),
   stoneward_weapon |-> SetPiece("Weapon")]

\* The pieces of a set, and the status each number of worn pieces brings.
Sets ==
  [pyrelord |->
     [pieces |-> {"pyrelord_helm", "pyrelord_robe", "pyrelord_gloves",
                  "pyrelord_boots", "pyrelord_staff"},
      bonuses |-> {2, 3, 5}, procs |-> {"gear_ignite"}],
   stoneward |->
     [pieces |-> {"stoneward_helm", "stoneward_robe", "stoneward_boots",
                  "stoneward_weapon"},
      bonuses |-> {2, 4}, procs |-> {}]]
=============================================================================
