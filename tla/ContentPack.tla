----------------------------- MODULE ContentPack -----------------------------
(* A content pack as the registry serves it: the shipped tables joined, an   *)
(* edit of them, and the validation a pack passes before it may go live      *)
(* (pack.rs, registry.rs).                                                   *)
(*                                                                           *)
(* A pack is the shipped one edited: `gone` are the definitions it lacks,    *)
(* each <<kind, id>>, and `primary` is the spell that the starting player's  *)
(* ability points at.                                                        *)
EXTENDS GearPack, FiniteSets, TLC

\* default_pack(), expansion::apply and gear::apply, joined table by table.
Spells ==
  FireAndFrost @@ Strikes @@ Drains @@ Gravity @@ Storm @@ Verdancy
    @@ Necromancy @@ TimeAndLight
Statuses == StarterStatuses @@ ExpansionStatuses @@ GearStatuses
Items == Wands @@ Trinkets @@ Regalia @@ ExpansionItems @@ Essences
\* Legendaries and set pieces are items too, but grant and cast nothing.
Pieces == Legendaries @@ SetPieces
Abilities == StarterAbilities @@ ExpansionAbilities
Tech == Elements @@ ArcanaAndMobility @@ StormAndVerdance @@ DeathTimeAndLight
Mobs == StarterMobs @@ ExpansionMobs
Loot == StarterLoot @@ ExpansionLoot
Games == StarterGames @@ ExpansionGames
Spawns == StarterSpawns @@ ExpansionSpawns
Triggers == StarterTriggers @@ ExpansionTriggers
Missions == StarterMissions @@ ExpansionMissions
Recipes == StarterRecipes @@ ExpansionRecipes
Affixes == NamePrefixes @@ NameSuffixes

Ids ==
  [spell |-> DOMAIN Spells, status |-> DOMAIN Statuses,
   item |-> DOMAIN Items \cup DOMAIN Pieces, ability |-> DOMAIN Abilities,
   tech |-> DOMAIN Tech, mob |-> DOMAIN Mobs, loot |-> DOMAIN Loot,
   mode |-> StarterModes \cup ExpansionModes, game |-> DOMAIN Games,
   spawn |-> DOMAIN Spawns, trigger |-> DOMAIN Triggers, set |-> DOMAIN Sets,
   runeword |-> DOMAIN Runewords, gem |-> DOMAIN Gems]

\* The ability the starting staff grants; edits may point it elsewhere.
FirstAbility == "fireball"
Shipped == [gone |-> {}, primary |-> Abilities[FirstAbility].spell]

(* ContentRegistry's lookups: an id resolves to its definition or to None.   *)
Live(pack, kind) == {id \in Ids[kind] : <<kind, id>> \notin pack.gone}
Has(pack, kind, id) == id \in Ids[kind] /\ <<kind, id>> \notin pack.gone
spell(pack, ability) ==
  IF ability = FirstAbility THEN pack.primary ELSE Abilities[ability].spell
-----------------------------------------------------------------------------
(* A spell's tree down to its last operation: five generations are enough.   *)
Deeper(trees) == trees \cup UNION {children(t) : t \in trees}
Nodes(t) == Deeper(Deeper(Deeper(Deeper(Deeper({t})))))
Trees == UNION {Nodes(Spells[s]) : s \in DOMAIN Spells}

\* No spell nests deeper, and each operation has the children that it runs.
ASSUME TreesAssumption ==
  \A t \in Trees :
    /\ Deeper(Nodes(t)) = Nodes(t)
    /\ t.n \in 1..16
    /\ t.op \in {"Ray", "Around", "Bolt", "Field", "Later", "Repeat", "Maybe"}
         => 1 \in DOMAIN t.kids
    /\ t.op = "IfMarked" => {1, 2} \subseteq DOMAIN t.kids
-----------------------------------------------------------------------------
(* ContentPack::validate, one operator per table it walks.                   *)
\* The statuses that a spell's tree applies, at any depth.
afflictions(t) == {k.id : k \in {m \in Nodes(t) : m.op = "Afflict"}}
\* Mutant: only the root of the tree is looked at.
afflictions_root(t) == {s \in {t.id} : t.op = "Afflict"}

\* Mutant: the children of an operation are not visited.
check_status_refs_shallow(pack, t) ==
  \A s \in afflictions_root(t) : Has(pack, "status", s)

check_status_refs(pack, t) ==
  \A s \in afflictions(t) : Has(pack, "status", s)
AbilitiesResolve(pack) ==
  \A a \in Live(pack, "ability") : Has(pack, "spell", spell(pack, a))
TechResolves(pack) ==
  \A n \in Live(pack, "tech") :
    \A i \in Tech[n].items : Has(pack, "item", i)
SpellsResolve(pack) ==
  \A s \in Live(pack, "spell") : check_status_refs(pack, Spells[s])
GamesResolve(pack) ==
  \A g \in Live(pack, "game") :
    /\ \A a \in Games[g].loadout : Has(pack, "ability", a)
    /\ \A i \in Games[g].items : Has(pack, "item", i)
LootResolves(pack) ==
  \A l \in Live(pack, "loot") : \A i \in Loot[l] : Has(pack, "item", i)
SpawnsResolve(pack) ==
  \A r \in Live(pack, "spawn") :
    /\ Has(pack, "mob", Spawns[r].mob)
    /\ \A l \in Spawns[r].loot : Has(pack, "loot", l)
TriggersResolve(pack) ==
  \A t \in Live(pack, "trigger") :
    \A ref \in Triggers[t] : Has(pack, ref[1], ref[2])
SetsResolve(pack) ==
  \A s \in Live(pack, "set") : \A i \in Sets[s].pieces : Has(pack, "item", i)
RunewordsResolve(pack) ==
  LET symbols == {Gems[g].rune : g \in Live(pack, "gem")}
  IN \A w \in Live(pack, "runeword") :
       \A k \in DOMAIN Runewords[w].sequence :
         Runewords[w].sequence[k] \in symbols

validate(pack) ==
  /\ AbilitiesResolve(pack)
  /\ TechResolves(pack)
  /\ SpellsResolve(pack)
  /\ GamesResolve(pack)
  /\ LootResolves(pack)
  /\ SpawnsResolve(pack)
  /\ TriggersResolve(pack)
  /\ SetsResolve(pack)
  /\ RunewordsResolve(pack)

\* The shipped pack goes live (ContentRegistry::new).
ASSUME ShippedAssumption == validate(Shipped)
-----------------------------------------------------------------------------
(* The references that validate does not look at.  The simulation resolves   *)
(* each of them in play and does nothing when it misses.                     *)
summons(t) == {k.id : k \in {m \in Nodes(t) : m.op = "Call"}}

AllIn(pack, kind, ids) == \A id \in ids : Has(pack, kind, id)
ItemsResolve(pack) ==
  \A i \in Live(pack, "item") \cap DOMAIN Items :
    /\ AllIn(pack, "spell", Items[i].spells)
    /\ AllIn(pack, "ability", Items[i].abilities)
    /\ AllIn(pack, "mode", Items[i].modes)
    /\ Items[i].slot = "Consumable" => Has(pack, "spell", Items[i].on_use)
RecipesResolve(pack) ==
  \A i \in Live(pack, "item") \cap DOMAIN Recipes :
    /\ AllIn(pack, "item", Recipes[i].inputs)
    /\ AllIn(pack, "tech", Recipes[i].tech)
MobsResolve(pack) ==
  /\ \A m \in Live(pack, "mob") :
       /\ AllIn(pack, "ability", Mobs[m].abilities)
       /\ AllIn(pack, "item", Mobs[m].loot)
  /\ \A s \in Live(pack, "spell") : AllIn(pack, "mob", summons(Spells[s]))
  /\ AllIn(pack, "mob", StarterWilds \cup ExpansionWilds)
MissionsResolve(pack) ==
  \A m \in DOMAIN Missions :
    /\ AllIn(pack, "mob", Missions[m].mobs)
    /\ AllIn(pack, "spell", Missions[m].spells)
    /\ AllIn(pack, "item", Missions[m].items \cup Missions[m].reward)
TechUnlocks(pack) ==
  \A n \in Live(pack, "tech") :
    /\ AllIn(pack, "tech", Tech[n].after)
    /\ AllIn(pack, "ability", Tech[n].abilities)
    /\ AllIn(pack, "mode", Tech[n].modes)
    /\ AllIn(pack, "spell", Tech[n].spells)
ProcsResolve(pack) ==
  /\ \A d \in {Affixes[a] : a \in DOMAIN Affixes}
               \cup {Pieces[i] : i \in DOMAIN Pieces}
               \cup {Runewords[w] : w \in DOMAIN Runewords}
               \cup {Enchants[e] : e \in DOMAIN Enchants}
               \cup {Sets[s] : s \in DOMAIN Sets} :
       AllIn(pack, "status", d.procs)
  /\ \A g \in DOMAIN Gems : AllIn(pack, "gem", Gems[g].from)
MaterialsResolve ==
  LET shaders == StarterShaders \cup ExpansionShaders
      materials == StarterMaterials @@ ExpansionMaterials
  IN \A m \in DOMAIN materials : materials[m] \in shaders

\* Every node of the tech tree can be reached by buying nodes in some order.
available(unlocked) ==
  {n \in DOMAIN Tech \ unlocked : Tech[n].after \subseteq unlocked}
Bought[unlocked \in SUBSET DOMAIN Tech] ==
  IF available(unlocked) = {} THEN unlocked
  ELSE Bought[unlocked \cup available(unlocked)]

Unchecked(pack) ==
  /\ ItemsResolve(pack)
  /\ RecipesResolve(pack)
  /\ MobsResolve(pack)
  /\ MissionsResolve(pack)
  /\ TechUnlocks(pack)
  /\ ProcsResolve(pack)
  /\ MaterialsResolve
=============================================================================
