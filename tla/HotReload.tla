------------------------------- MODULE HotReload -------------------------------
(***************************************************************************)
(* Swapping the content of a live session (arena-content: registry.rs,     *)
(* pack.rs, hotreload.rs; arena-server: coordinator.rs, manager.rs,        *)
(* server.rs; arena-sim: world.rs; arena-client: app.rs, hotreload.rs).    *)
(*                                                                         *)
(* The coordinator publishes a version, an epoch and the hash of a pack;   *)
(* each node and each client fetches the pack when the announcement        *)
(* reaches it, stages it and swaps it in at its own next boundary.  An     *)
(* announcement may be lost, late, repeated and overtaken by the next, and *)
(* a fetch may fail, so a node handles any announced version at any time   *)
(* or never.  A pack is its hash: get_blob and decode_verified return the  *)
(* pack that was announced or nothing at all.                              *)
(***************************************************************************)
EXTENDS Naturals, FiniteSets

CONSTANTS
  Node, Zone, Client,
  Coordinator,   \* the node that publishes
  Pack,          \* the packs there are: ids they define, and ids they refer to from
                 \* where validate looks
  DefaultPack,   \* default_pack(), on which every node boots
  None,          \* no pack is staged, no zone is owned
  MaxEpoch,      \* bound: epochs
  MaxRestarts    \* bound: nodes that crash, each once

ASSUME HotReloadAssumption ==
  /\ Coordinator \in Node
  /\ DefaultPack \in Pack /\ DefaultPack.refs \subseteq DefaultPack.ids
  /\ [ids |-> {}, refs |-> {}] \in Pack
  /\ MaxEpoch \in Nat /\ MaxRestarts \in Nat /\ MaxEpoch > 0
  /\ (Node \X Zone) \cap Client = {}

VARIABLES
  version,    \* Coordinator::version
  announced,  \* the ContentVersions broadcast on the content topic
  held,       \* ZoneManager::{epoch, pack}; AntiCheat::{epoch, pack} are the same
  zones,      \* ZoneManager::owned, the ContentRegistry of each zone's World
  app,        \* App::registry of each client
  restarts    \* ghost: the nodes that crashed and came back

vars == <<version, announced, held, zones, app, restarts>>

Version == [epoch : 0..MaxEpoch, pack : Pack]

\* ContentRegistry: what it serves and what is staged.
Registry == [active : Version, pending : Version \cup {None}]

\* Everyone boots on the same default content at epoch 1.
Boot == [epoch |-> 1, pack |-> DefaultPack]

\* ContentPack::empty.
EmptyPack == [ids |-> {}, refs |-> {}]

\* ContentRegistry::bootstrap.
Bootstrap == [active |-> [epoch |-> 0, pack |-> EmptyPack], pending |-> None]

ASSUME NoneAssumption == None \notin Version /\ None \notin Registry

-----------------------------------------------------------------------------
(* The registry. *)

\* ContentPack::validate: abilities name spells of the pack; spells, statuses; tech,
\* modes, tables, triggers and sets, items; spawn rules, mobs and tables; runewords,
\* rune symbols.  The inputs of a recipe, the prerequisites of tech and the grants of
\* an item are not looked at, nor are repeated ids.
Validated(p) == p.refs \subseteq p.ids

\* ContentRegistry::new, and bootstrap when it fails.
Opened(v) == IF Validated(v.pack) THEN [active |-> v, pending |-> None] ELSE Bootstrap

\* Mutant: a pack is staged before it is validated.
Staged_unseen(r, v) == IF v.epoch <= r.active.epoch THEN r ELSE [r EXCEPT !.pending = v]

\* ContentRegistry::stage.  The epoch is compared with the active one, whatever
\* is staged already.
Staged(r, v) ==
  IF v.epoch <= r.active.epoch \/ ~ Validated(v.pack) THEN r
  ELSE [r EXCEPT !.pending = v]

\* Mutant: the epoch is taken and the pack is not indexed again.
Applied_half(r) ==
  IF r.pending = None THEN r
  ELSE [active |-> [r.active EXCEPT !.epoch = r.pending.epoch], pending |-> None]

\* ContentRegistry::apply_pending.
Applied(r) ==
  IF r.pending = None THEN r ELSE [active |-> r.pending, pending |-> None]

-----------------------------------------------------------------------------
(* The coordinator. *)

\* Mutant: the epoch is bumped for the first edit only.
Bumped_same(v, p) == [epoch |-> IF v.pack = DefaultPack THEN v.epoch + 1 ELSE v.epoch, pack |-> p]

\* The version after this one: the pack is not validated here.
Bumped(v, p) == [epoch |-> v.epoch + 1, pack |-> p]

\* Coordinator::publish_content, and the broadcast of what it returns.
Publish ==
  /\ version.epoch < MaxEpoch
  /\ \E p \in Pack :
        /\ version' = Bumped(version, p)
        /\ announced' = announced \cup {version'}
  /\ UNCHANGED <<held, zones, app, restarts>>

-----------------------------------------------------------------------------
(* A node. *)

\* Mutant: the zones that run are forgotten.
Restaged_none(n, v) == zones[n]

\* Each owned zone stages the pack for itself.
Restaged(n, v) ==
  [z \in Zone |-> IF zones[n][z] = None THEN None ELSE Staged(zones[n][z], v)]

\* Inbound::StageContent: ZoneManager::stage_content and AntiCheat::stage_content
\* take whatever was fetched.
StageContent(n, v) ==
  /\ held' = [held EXCEPT ![n] = v]
  /\ zones' = [zones EXCEPT ![n] = Restaged(n, v)]
  /\ UNCHANGED <<version, announced, app, restarts>>

\* ZoneManager::ensure_zone for a zone the node does not own.
EnsureZone(n, z) ==
  /\ zones[n][z] = None
  /\ zones' = [zones EXCEPT ![n][z] = Opened(held[n])]
  /\ UNCHANGED <<version, announced, held, app, restarts>>

\* ZoneManager::retire_zone.
RetireZone(n, z) ==
  /\ zones[n][z] # None
  /\ zones' = [zones EXCEPT ![n][z] = None]
  /\ UNCHANGED <<version, announced, held, app, restarts>>

\* ZoneManager::tick_all: the World of every owned zone swaps before it simulates.
Tick(n) ==
  /\ zones' = [zones EXCEPT ![n] =
        [z \in Zone |-> IF zones[n][z] = None THEN None ELSE Applied(zones[n][z])]]
  /\ UNCHANGED <<version, announced, held, app, restarts>>

\* The process dies and boots again; nothing of this is kept on disk.
Restart(n) ==
  /\ n \notin restarts /\ Cardinality(restarts) < MaxRestarts
  /\ restarts' = restarts \cup {n}
  /\ held' = [held EXCEPT ![n] = Boot]
  /\ zones' = [zones EXCEPT ![n] = [z \in Zone |-> None]]
  /\ version' = IF n = Coordinator THEN Boot ELSE version
  /\ UNCHANGED <<announced, app>>

-----------------------------------------------------------------------------
(* A client. *)

\* App::on_content_version.
OnContentVersion(c, v) ==
  /\ app' = [app EXCEPT ![c] = Staged(app[c], v)]
  /\ UNCHANGED <<version, announced, held, zones, restarts>>

\* App::frame: HotReload::apply swaps, and rebuilds every GPU resource.
Frame(c) ==
  /\ app[c].pending # None
  /\ app' = [app EXCEPT ![c] = Applied(app[c])]
  /\ UNCHANGED <<version, announced, held, zones, restarts>>

-----------------------------------------------------------------------------
Init ==
  /\ version = Boot /\ announced = {}
  /\ held = [n \in Node |-> Boot]
  /\ zones = [n \in Node |-> [z \in Zone |-> None]]
  /\ app = [c \in Client |-> Bootstrap]
  /\ restarts = {}

Next ==
  \/ Publish
  \/ \E n \in Node, v \in announced : StageContent(n, v)
  \/ \E n \in Node, z \in Zone : EnsureZone(n, z) \/ RetireZone(n, z)
  \/ \E n \in Node : Tick(n) \/ Restart(n)
  \/ \E c \in Client, v \in announced : OnContentVersion(c, v)
  \/ \E c \in Client : Frame(c)

\* The engine ticks and the page draws frames for as long as they live.
Fairness ==
  /\ \A n \in Node : WF_vars(Tick(n))
  /\ \A c \in Client : WF_vars(Frame(c))

Spec == Init /\ [][Next]_vars /\ Fairness

-----------------------------------------------------------------------------
(* Properties. *)

\* The state has its type.
TypeOK ==
  /\ version \in Version /\ announced \subseteq Version
  /\ held \in [Node -> Version]
  /\ zones \in [Node -> [Zone -> Registry \cup {None}]]
  /\ app \in [Client -> Registry]
  /\ restarts \subseteq Node

\* The versions somebody serves.
Served ==
  {zones[x[1]][x[2]].active : x \in {y \in Node \X Zone : zones[y[1]][y[2]] # None}}
    \cup {app[c].active : c \in Client}

\* As long as the coordinator does not restart, an epoch names one pack across
\* the session: whoever serves or holds the same epoch has the same content
\* (the monotonic epoch of ContentVersion).
OnePackPerEpoch ==
  Coordinator \notin restarts =>
    \A v, w \in Served \cup {held[n] : n \in Node} : v.epoch = w.epoch => v = w

\* A pack that fails validation plays nowhere, though nodes hold it for the
\* zones to come (registry.rs: rejected before it can affect the live sim).
BrokenNeverPlays == \A v \in Served : Validated(v.pack)

\* Registries are well formed and serve nothing broken.
PacksSound == TypeOK /\ BrokenNeverPlays

\* A zone that runs and a client never go back, or change what an epoch means,
\* in whatever order announcements arrive (ContentRegistry::stage).
OnlyForward ==
  [][ /\ \A n \in Node, z \in Zone :
          zones[n][z] # None /\ zones'[n][z] # None /\ zones'[n][z].active # zones[n][z].active
            => zones'[n][z].active.epoch > zones[n][z].active.epoch
      /\ \A c \in Client :
          app'[c].active # app[c].active => app'[c].active.epoch > app[c].active.epoch
    ]_vars

\* A zone catches up with the version its node holds, unless that is older than
\* what it serves already or broken: staging is not lost between the boundary
\* and the next announcement.
Level(n, z) ==
  zones[n][z] # None /\ Validated(held[n].pack) =>
    held[n].epoch <= zones[n][z].active.epoch
ZonesFollow == \A n \in Node, z \in Zone : []<>Level(n, z)

-----------------------------------------------------------------------------
(* What players see of it. *)

Place == (Node \X Zone) \cup Client

AbstractServing ==
  [p \in Place |->
    IF p \in Client THEN app[p].active
    ELSE IF zones[p[1]][p[2]] = None THEN None ELSE zones[p[1]][p[2]].active]

Swaps == INSTANCE ContentSwap WITH
  Nothing <- None,
  Initial <- {Boot, Bootstrap.active},
  published <- announced \cup {Boot, Bootstrap.active},
  serving <- AbstractServing

\* Every step is a publication, a swap forward, or a place that starts or stops.
Refines == Swaps!Spec
=============================================================================
