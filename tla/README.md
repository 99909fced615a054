# Verification of cerena

TLA+ modules, TLC configurations and TLAPS proofs for the parts of cerena that
have something to get wrong beyond one function: what several nodes, or a
client and a server, must agree on while messages are lost or reordered, nodes
crash and players move, and what long sequences of legal calls do to a world, a
bag or a content pack. Paths below are relative to `src/crates/`.

    tlc -config ReplicationHolders.cfg MCReplication.tla     # a run
    tlapm ReplicationProofs.tla                              # the proofs of a module

`PROJECT.json` lists the components, the runs with what each checks, the source
lines every definition stands for, the mutants that show each property can
fail, the hazards of the code at their lines, and the theorems.


## 1. The system

cerena is a multiplayer action game with no central server. The world is a grid
of **zones** (cells). Every zone is simulated by one **authority**, the node of
the mesh with the highest rendezvous (HRW) score for it among those discovery
lists. Players' clients (native or in a browser) send inputs and get snapshots.
Nodes near a player keep **checkpoints** of it so that another node can continue
a zone whose authority died. Besides that, a zone may be hosted in **lockstep**:
every browser and headless donor near it simulates all of it from the same
inputs, and they compare hashes of their states. Content (spells, statuses,
items) is data, edited and swapped in while the game runs.

| component | state | operations | hard behaviours | correct when |
|---|---|---|---|---|
| **Replication and recovery**: `arena-server/replication.rs`, handlers in `server.rs` | per node: held copies with their age, the authority's number and coverage per player, open recovery windows with the best checkpoint so far | checkpoint round, store and ack, request and bundle, window end and import, TTL and cap | everything is fire-and-forget, unordered and volatile; numbers are compared across authorities | acks do not overstate; a recovery restores the newest state it heard of |
| **Ownership and hand-off**: `manager.rs`, `server.rs`, `zone.rs`, `arena-mesh/authority.rs` | per node: candidate view, owned and active zones, claim epochs; per zone: client slots and entities | discovery, claims and yields, crossing, adopt, join, leave, idle eviction, recovery import | views diverge; a removal and an adoption are two steps on two nodes; recoveries compete with live owners | a player has one body in one place; zones and players come to their rightful owner |
| **Lockstep replicas**: `arena-replica`, `arena-server/replica_host.rs`, `arena-client/host.rs`, `arena-karma/quorum_audit.rs` | per host: a World, inputs by tick, proofs, newest advertised snapshot, streaks of lost rounds | submit, advance to the wall clock's tick, publish and tally proofs, advertise, fetch and merge snapshots | arrival order; lag against the input delay; merges | hosts that simulated every tick agree; no clock rewinds |
| **Snapshots**: `arena-net/{server,baseline,client,interp}.rs`, `arena-protocol/{snapshot,entity}.rs` | a ring of sent sets and the acknowledged tick per client; the client's view and samples | encode delta or keyframe, apply, acknowledge | loss and reordering against delta baselines; ring overflow; hand-off and rejoin | a delta is against what the client applied and is exact there |
| **Prediction and inputs**: `arena-net/predict.rs`, the input queue of `arena-server/zone.rs` | unacknowledged inputs, predicted state; queued frames, last number applied | predict, re-send, reconcile; queue, apply newest; cross, recover, evict | duplicates, gaps, hand-offs, stale acknowledgements | a body acts on inputs in order, on none twice; acks are honest |
| **Cross-validation and karma**: `arena-karma`, `arena-server/{anticheat,coordinator}.rs` | claims per tick, votes, telemetry windows, report sets, karma | publish, replay, vote, tally, penalise, report, decay, gate joins | late or changed claims; brigades; cumulative penalties | a dispute has its quorum; a lie is not acquitted; bans hold |
| **Content hot reload**: `arena-content/{registry,pack,hotreload}.rs`, `manager.rs`, `arena-client` | active and staged pack, epoch | publish, announce, fetch, stage, swap at a tick boundary | announcements overtaking each other; restarts; broken packs | content moves forward only; what fails validation never plays |
| **Zone simulation**: `arena-sim/{world,magic}.rs` | entities, loot, timers, projectiles, fields, summons, scheduled effects | the tick's passes: statuses, procs, blows, casts, deaths, imprints, loot, respawn | order of passes; hash iteration; procs raised within procs | items are conserved; only a respawn revives; casts end |
| **Content and spells**: `arena-content/{default_pack,expansion,gear,pack,spell}.rs`, the interpreter in `arena-sim/magic.rs` | the pack tables; what is in flight | validate, cast, drink, pulse, land, expire | a swap between a cast and what it left in flight | nothing accepted dangles; every cast dies out |
| **Inventory and forge**: `arena-sim/{inventory,item_instance,forge}.rs`, `arena-content/item.rs` | bag, rolled gear, worn gear | roll, equip, craft, upgrade, drill, socket, fuse, imprint, reforge | long sequences of legal calls; stack limits; a loop that draws | budgets, levels, gems and imprints hold |
| **Living world**: `arena-mythos`, `arena-sim/living.rs` | calendar, wells, populations, chronicle, stars, attunements, familiars | once-per-day and threshold updates; deeds; draws | copies imported in mid-season; rare conjunctions; saturation | copies at one tick agree; mana is kept |
| Loot tables and RPG formulas, movement and physics, discovery, tickets and transport, protocol types, procedural generation, animation, rendering, assets, harnesses | | | I/O, float geometry or tables; modelled only where a component above uses them | |

How they interact:

- Discovery (a timer) gives the engine a candidate set. The zone manager claims
  and retires zones by it; a claim opens a recovery; a retirement hands players
  to the node the view names.
- The engine's step ticks every owned zone, hands off whoever has walked into a
  cell of another node, sends a checkpoint round on a cadence, and finishes the
  recoveries whose window is over.
- Messages of peers (claims, checkpoints, acks, requests, bundles, envelopes of
  replicas, content announcements) are queued by mesh callbacks and handled one
  at a time between two steps. An engine is one task, so a handler is atomic.
  Calls to other nodes (adopt, redirect, forwarded join) run detached, after the
  handler has ended.
- Clients join through the coordinator, send inputs to their zone's authority,
  and get snapshots from it. The coordinator also tallies votes, judges players
  and publishes content.
- A zone's tick swaps staged content first, then runs its passes; casting runs
  the spell interpreter; a kill is told to the living world, whose seasons,
  wells and stars come back as factors of spell damage.


## 2. Modules

| module | models | run | proofs |
|---|---|---|---|
| `Replication` | checkpoints, acks, failover recovery of one zone | `ReplicationHolders` | `ReplicationProofs` |
| `ZoneOwnership` | ownership of zones and the places of players | `OwnershipPlaces`, `OwnershipRecovers` | `ZoneOwnershipProofs` |
| `LockstepReplicas` | lockstep hosting, quorum and merges | `LockstepAgrees` | `AgreementProofs` |
| `Snapshots` | delta encoding against acknowledged baselines | `SnapshotsDelta` | `SnapshotsProofs` |
| `InputOrder` | abstract: what a player is promised about inputs | | |
| `InputStream` | inputs from key press to body, through moves and failovers; implements `InputOrder` | `InputsInOrder` | `InputStreamProofs` |
| `AntiCheat` | votes, verdicts, telemetry, reports, karma | `VerdictsHold` | `AntiCheatProofs` |
| `WorldTick` | a zone's tick and its spell interpreter | `TickPipeline` | `WorldTickProofs` |
| `ContentSwap` | abstract: what a live edit promises | | |
| `HotReload` | publishing, staging and swapping packs; implements `ContentSwap` | `ReloadSwaps` | `AgreementProofs` |
| `SpellTrees`, `StarterPack`, `ExpansionPack`, `GearPack` | the shipped tables, as functions from ids to what they refer to | | |
| `ContentPack` | the tables joined, edits of them, validation | | |
| `PackPlay` | the shipped spells cast across swaps (extends `ContentPack`) | `PackInPlay` | `AgreementProofs` |
| `ItemForge` | bag, worn gear, forge | `ForgeKeeps` | `KeepingProofs` |
| `Heavens`, `MythicLand`, `MythicLore` | calendar, weather and omens; wells and herds; deeds, stars, bonds: pure operators | | |
| `LivingWorld` | the soul of each copy of a zone (extends the three above) | `LivingTurns` | `KeepingProofs` |

`MC<module>.tla` gives the constants of a run their values and nothing else.
Proofs are in `<module>Proofs.tla`, those of three components in
`AgreementProofs` and of two in `KeepingProofs`. `RECURSIVE`
operators (over ops) are only in `MCWorldTick`: what recurs in a model (the
interpreter, the bars of a legend, the buying of a tech tree) is a recursive
function.

Two modules meet in three places. `ZoneOwnership` lets any subset of the
checkpointed players come back when a recovery ends; `Replication` says how.
`InputStream` takes the moves that `ZoneOwnership` makes possible as actions.
`PackPlay` swaps content at the tick boundary as `HotReload` shows it does, with
the whole shipped pack instead of `HotReload`'s small ones; and `MCItemForge`
takes its affixes and gems from `ContentPack`.


## 3. Replication

One zone, a set of nodes with a process each, some of which play. A process has
a tick (`global_tick`), the players it hosts (`hosted`), the authority's side
(`seqs`, `coverage`), the holder's side (`store`), its subscription (`subs`) and
an open recovery (`recovering`, `deadline`, `best`).

| action | code |
|---|---|
| `Step` | `Engine::step`: tick, `emit_checkpoints` when due, `finalize_recoveries`, `evict_expired` |
| `RecvCheckpoint`, `RecvStored`, `RecvRequest`, `RecvBundle` | the four replication arms of `handle_message` |
| `Claim` | `reconcile_ownership` gaining the zone, then `start_recovery` |
| `Admit`, `Remove` | a player arriving or going, as `ZoneOwnership` has in detail |
| `Retire` | the zone is yielded with everyone in it; an open recovery stays open, as in the code |
| `Crash`, `Restart` | everything is in memory and goes with the process |

A player's simulated state is a **stamp**, the number of ticks the player has
been simulated when it was produced: it says which of two states is newer,
independently of `seq`, which is what the code compares. Who is nearest to a
player is left open: up to `Factor` hosted players get its checkpoint. The
network keeps a set of messages, delivers them in any order and loses any part
of a send. Ghosts (`play`, `life`, `heard`, `dropped`, `spent`) are read by
properties and bounds only. While one node owns the zone `Claim` and `Admit` do
not give it to another one; two owners at once are `ZoneOwnership`'s subject.

`ReplicationHolders`: a server and two playing, interchangeable peers; TTL 1,
room for one copy, two tenures of the zone, one yield, three arrivals, one
departure, one crash; two ticks at the server and one at each peer, two messages
in flight. `SeqOrdersIssue` (numbers order the checkpoints of one process run as
play does), `StoresSound` (`TypeOK`, `OneCopyPerPlayer`, and `AckedIsHeld`:
coverage never overstates a holder that has not dropped its copy), and
`RecoveredIsNewest` (no recovery restores a player older than a checkpoint it
received) hold with copies expiring, evicted and lost, players leaving and
returning, and late acks. Two checkpoints of one player under different numbers
with one overtaking the other take two ticks and two messages; a failover takes
a second tenure; the cap bites with one player more than copies. `Sparing`
keeps apart bounds that need not meet: a crash and a departure come with two of
the three arrivals. The first two are also
theorems without any bound. Over two failovers the numbers of different issuers
meet, where the code goes wrong (section 11).


## 4. ZoneOwnership

Nodes, zones and clients. `owned` is the keys of the manager's map of zones,
`active_zones` the cells it has ever looked after, `cands` the router's view. A
client hosted in a zone is a `Slot` with the cell the client's body stands in;
`bodies` counts the entities a player has in each World, separately, because the
code keeps slots and entities apart and creates and removes them apart.

| action | code |
|---|---|
| `Discover` | `dispatch`, Candidates: set the view, `reconcile_ownership` (claim, retire), announce, `start_recovery` |
| `RecvClaim` | `on_authority_claim`: record, yield |
| `Tick` | `step`: idle eviction, movement, crossings and their hand-offs, the checkpoint round, recoveries that end |
| `RecvAdopt` | `handle_request`, AdoptPlayer |
| `Join` | `handle_request`, Join: admit here or `forward_join` |
| `Leave` | `handle_request`, Leave |
| `Lose` | a claim or a call that does not arrive |
| `Crash`, `Restart` | process death |

HRW scores are any injective priority per zone. A player may walk into any cell
in a tick. Of the players with a neighbour any subset is checkpointed in a tick,
and of the checkpointed ones any subset comes back when a recovery ends.

- `OwnershipPlaces`: two nodes with opposite rankings, one client, a core and a
  wild zone, no replicas; a crash, two moves, a leave, an idle timeout, a wrong
  view, a loss. `OnePlace` (hosted once or in one hand-off, never both),
  `BodiesSound` (`TypeOK`, and `NoOrphanBody`: each entity belongs to a slot) and
  `Settles` (`ZonesSettle` and `PlayersSettle`: once disturbances stop, zones and
  players come to their rightful owner and stay).
- `OwnershipRecovers`: two clients, replicas, a crash and a move: `Settles`
  holds although recoveries re-create zones. Divergent views and
  replicas are checked apart because their product is out of reach.

One wrong view is any subset of the fleet on any node at any time, so both nodes
may own a zone, or none.

Fairness (`FairSpec`): weak fairness of `Discover` and `Tick` on every node in
the form that spends nothing (both are timers of a running engine: discovery
comes round with the true fleet, and a tick in which nobody walks off is run),
and of delivery to every node, because handlers run to completion between two
ticks and a message not lost is handed over by the transport. Nothing forces a
crash, a restart, a join, a leave, an idle timeout, a loss, a move or a wrong
view. A node that stays down is not waited for: `Rightful` speaks of the running
ones.


## 5. LockstepReplicas

Donors (headless, with a node id) and tabs (browsers, with an id of their own,
reaching the mesh through a relay whose id is what others see). A World is the
tick, the entity-id cursor and one body per owner: id, and the inputs it has
acted on. `state_hash` covers ids and actions and not owners, as in the code.

| action | code |
|---|---|
| `Clock` | the wall clock all hosts derive their tick from (`tick_at`) |
| `Ensure` | `ensure_zone` / `ensure_interest`: an empty replica at the shared tick |
| `Submit` | `publish_join`, `ensure_joined`, `submit_input` |
| `Step` | a donor's `step` with the envelopes handled before it, up to the fetch it may wait for |
| `Resume` | `merge_from_snapshot` (or its failure) and the rest of that step |
| `TabFrame` | a tab's frame: finished fetch, inbound queue, advance, publish, tally |

A donor's envelope handlers are folded into the step that follows: between two
steps they only append inputs, keep the last proof of each sender and the newest
snapshot, so only the order among inputs, the last proof per sender and the
choice among the newest snapshots matter, and these are quantified over. A
message is between `MinLatency` and `MaxLatency` ticks on its way; a host is at
most `MaxLag` ticks behind the clock. `Repeats` bounds steps at a tick already
stepped at.

`LockstepAgrees`: two donors and a tab up to a tick behind, inputs that take
0 or 1 tick, input delay 1, two inputs, merges and fast-forwards, three ticks.
`HostsAgree` (`HostsTypeOK`, and `Lockstep`: two replicas that simulated every
tick and are at the same tick have the same hash) and `ClockNeverRewinds` hold.
`Lockstep` needs the sender's lag plus the latency minus one to be within the
input delay, and the bounds are exactly there: with a tab a tick slower the run is
violated. `clock.rs` chooses the delay for that purpose, and no code checks it.
The code's constants (delay 8, catch-up 16, proofs every 32 ticks) are scaled
down; the slash threshold 3 is the code's.


## 6. Snapshots and inputs

`Snapshots`: one client and one zone. `Send` encodes the next set of entities,
any set, as a delta against the newest acknowledged snapshot still in the ring,
or whole; `RecvSnapshot` applies what arrives in any order and keeps a bounded,
ordered buffer of samples; `SendAck`, `RecvAck` carry the acknowledgement back;
`Return` hands the client away and back, `Rejoin` joins it anew without a leave.
`SnapshotsDelta` has two entities, one field of two values, a ring and a buffer
of 2, three snapshots, one return and one rejoin; entities and values are
interchangeable. `BaselinesSound` is `TypeOK` and `BaselineApplied`: the
authority only diffs against a snapshot this client's world has applied.
`ExactOnItsBaseline`: a snapshot that finds the view at its baseline brings it
to what was sent. The second field a delta could carry adds nothing: fields are
diffed one by one.

`InputStream`: one player whose body is the sequence of inputs it has acted on.
`Frame` stamps, predicts and keeps an input in the ring of unacknowledged ones;
`SendBatch` sends what is kept; `RecvBatch` queues what is newer than the last
applied; `Tick` applies the newest queued and sends a snapshot; `RecvSnapshot`
reconciles; `Cross`, `Adopt`, `RecvRedirect` are a boundary crossing; `Recover`
a failover from any earlier state; `Evict` and `Join` what they say.
`InputsInOrder` has two authorities, three inputs, a ring of 2, one crossing,
one failover, one join. `AcksSound` is `TypeOK` and `AckedHasActed`: no snapshot
acknowledges an input its state has not acted on. `InOrder` is the refinement:
with the body's inputs for `acted`, every behaviour is one of `InputOrder`.
`LastInputActs` is liveness: the last input of a player left in peace comes to
act. It assumes weak fairness of the client's send timer, of redirects and
adoptions that are on their way and of the authority's tick, and strong fairness
of delivery: a batch re-sent for ever with the input in it is not lost for ever.
`MaxReturns` is 0: an authority that gets the player back may still be reached
by batches of the earlier visit, and its new slot, which starts from number 0,
acts on them again.


## 7. AntiCheat

`Publish` and `Verify`: an authority publishes the hash of a tick, peers replay
it from a shadow world and vote. `RecvVote` is the coordinator's tally, verdict,
slash and reassignment. `ObserveRound` and `KarmaPass` are the detector's
windows and the periodic pass with its report pressure; `File` a report; `Join`
and `Leave` the gate and the roster. A hash is what it is the hash of; a liar's
is wrong. The detector's score is any step of the scale once there is a signal.

`VerdictsHold`: three nodes, one a liar, two zones of two ticks, four players, a
sample of 3, a window of 2, six disturbances; symmetric. `VerdictsStand` is
`DisputeNeedsQuorum` and `LiesAreDisputed` (a tick only liars published is
disputed when it is resolved); `ProfilesSound` is `TypeOK` and `WindowTotals`
(totals equal the window's rounds, however it rolled); and `BannedForGood`.


## 8. WorldTick, HotReload

`WorldTick` is `World::tick`. `Tick` starts a pass or takes its next body;
`RunOp` is one op of the spell interpreter, whose remaining ops are a stack of
frames, so that procs a blow raises run before the op after it; `Between` is
what happens between ticks: joins, hand-offs, recovery from a checkpoint. Who
stands inside a shape is free, in any order, as `HashMap` iteration has none.
`TickPipeline`: two players, one with a nova on a kill, one with thorns, spells
that use every op and one that exceeds its budget, three ticks (a body felled in
the first is back in the third), two acts, one imprint, and one trip away once the
first tick is over (`FirstTrip`): to leave before it is to join later.
`Bookkeeping` (`TypeOK`; `NoGhosts`: tables follow bodies;
`DeadAwaitRespawn`), `ItemsOnce`
(every stack is in exactly one place), `CreditEarned`, `CastsEnd` (nothing of a
cast outlives its lifespan) and `NoRevival`; all are proved as well (section 12).

`HotReload`: `Publish` at the coordinator; `StageContent` at a node, of any
version ever announced (announcements are lost, repeated and overtaken);
`EnsureZone`, `RetireZone`, `Tick` (the swap), `Restart`; `OnContentVersion` and
`Frame` at a client. A pack is the ids it defines and those it refers to.
`ReloadSwaps`: two nodes, a zone and a client, two edits, one broken, one
restart. `OnePackPerEpoch` (while the coordinator lives), `PacksSound` (`TypeOK`
and `BrokenNeverPlays`), `ZonesFollow` (every zone is, again and again, at least
at what its node holds; weak fairness of the tick and the frame loop), and
`Refines`: with zones and clients as places it implements `ContentSwap`, whose
places only go forward and only to what was edited in. Deadlock is checked in
this run.


## 9. The pack, in play and in the forge

`SpellTrees` has the operations of `spell.rs` as constructors; a node keeps what
decides who is reached and what happens next, and the magnitudes go. The tables
of `default_pack.rs`, `expansion.rs` and `gear.rs` are functions from ids to
what they refer to. `ContentPack` joins them, applies an edit (definitions gone,
the starting ability repointed) and says what `validate` accepts. `Nodes` are the
operations of a tree; `TreesAssumption` and `ShippedAssumption` are the two facts
about the tables that the model leans on, that no tree nests deeper than `Nodes`
looks and that the shipped pack is valid, as `ContentRegistry::new` insists.

`PackPlay`: `stage` and `apply_pending` swap packs; `Cast` and `Drink` evaluate
a spell's tree as far as the interpreter does at once, down to its `MAX_DEPTH`
(its op budget is `WorldTick`'s), and leave projectiles, fields and delayed effects
behind, each with its subtree; the four actions of `Due` run those. `PackInPlay` casts every spell of the shipped pack of 41 under
any two edits of `MCPackPlay`, an enemy coming and going once. `NothingDangles`
has three parts, `PlayTypeOK`, `AfflictsResolve`
(an effect in flight cast under the live pack names no status that pack lacks)
and `BarResolves` (an ability on the bar and in the pack has its spell),
`CasterSpared` (no shipped spell harms the body that cast it, whatever it was
pointed at), `Quiesces` (weak fairness of what is due: the tick loop), and
`ShippedCloses` (the shipped tables resolve also where `validate` does not look,
and the whole tech tree can be bought).

`ItemForge`: one character. Each public call of `inventory.rs` and `forge.rs` is
an action and dice are choices. The reforge loop draws affix by affix
(`Draw`, `Finish`), since its ending is in question. `ForgeKeeps` runs seven
workshops with shipped gear, affixes, gems and enchants at item levels whose
affix pool is empty, smaller and larger than the budget. `WithinBudget`;
`WornSound` (`TypeOK`, `WornFits`, `SetsCountPieces`); `GemsKept` (worth in base
gems never rises, and falls only at a full stack); `WorkLasts` (`LevelsHold` and
`ImprintsHold`); and `ReforgeReturns`: a
reforge whose pool can fill the budget ends, under weak fairness of the loop,
whose generator comes round to an affix not yet drawn.


## 10. LivingWorld

`Heavens`, `MythicLand` and `MythicLore` are the pure functions of
`arena-mythos`: weights and multipliers in hundredths, mana, populations,
resonance and bonds in thousandths. `LivingWorld` has a soul per copy of a zone:
`Tick` steps it to the next tick of interest and stands for the calls between (a
well's flow is linear while it is not full, and the ring is even while nobody
draws, so strides are exact; `LivingWorld` only strides where they are, and
`StrideAssumption` keeps the strides of an age within a day and off the lengths
in between, at which a well would be asked for more than it holds);
`Import` starts a fresh soul under the tick of the others, as `import_snapshot`
does; `Ask`, `Hatch` and `Care` are the calls of `arena-mythos` that nothing in
the source makes yet.

`LivingTurns` has seven ages, each watching one part: thirteen years of days
(until each day of the year has met each phase of the slow moon), drained wells
second by second, copies imported around a festival and a turn of season,
slayings, other deeds, casts, and familiars. `ManaKept` (the land gains no more
than the tide brings, and all of it while no well brims), `LandRefills` (weak
fairness of each copy's tick loop), `SoulsAgree` (copies at a tick agree on
season and festival, and with full land and the same stars on the power of every
spell), `PropheciesHold` (what an omen foretells comes) and `MeasureKept`
(`LivingTypeOK`; `GrazersHold`, `LegendsScarce`; `KeepsPace`: a familiar's stage
follows its bond). `MaxPop` stands in, scaled, for where a population leaves
`f32`.


## 11. What the code does otherwise than it says

Found while modelling; each module follows the code. None is a property of a
run, because the runs state what holds.

*Replication and ownership.* A successor numbers checkpoints from 1, so a holder
of the dead authority's higher numbers refuses its fresher copies
(`replication.rs:98`, against the comment at `:96`). A successor does not
consult copies it holds itself (`server.rs:596`, against `replication.rs:6`).
Every claim opens a recovery, so a live owner's players are simulated twice for
a while (`server.rs:363`, against `manager.rs:290`). A dead owner's zone outside
the core is taken over only by a node that has had it active (`manager.rs:242`,
against `:235`). A forwarded join whose answer times out can be admitted twice
(`server.rs:990`), and a client that joins twice gets a second entity. An adopt
call that fails loses the player; two redirects of quick hand-offs can overtake
each other; an evicted client is not told.

*Lockstep.* A merge renumbers the entities of players who did not join in the
order of their ids, so the hash changes (`world.rs:2503`, against `:142`). Proofs
of different ticks are tallied together, so equal hosts can out-vote each other
and recommend slashes (`replica_host.rs:172`, against `quorum.rs:68` and
`quorum_audit.rs:11`). A tab schedules its own input under its own id while the
others see its relay's (`host.rs:181`). A stall longer than the catch-up bound
drops inputs.

*Snapshots and inputs.* A delta applied to a view other than its baseline leaves
a field that changed and changed back wrong until it changes again
(`snapshot.rs:160`, against `baseline.rs:4`). `adopt_player` drops the last input
number that the hand-off carries "so prediction is seamless" (`manager.rs:196`),
so prediction can apply an input twice, and a player handed back acts again on
batches of its earlier visit. After a redirect a late snapshot can set
`ack_tick` ahead (`client.rs:88`). Kill events are sent once (`zone.rs:317`),
where `snapshot.rs:32` has them re-sent until acknowledged. Inputs pending at a
redirect are lost.

*Karma.* A vote may meet the claim of an earlier authority of the zone. The
verdict comes with the quorum's second vote even if the third would differ. The
slash is taken again for the same ticks at every later vote and pass
(`coordinator.rs:196`). Replays start from a fresh shadow, so an honest authority
is disputed at any tick but the first. Report pressure filed at tick 0 never
decays, and over passes a brigade reaches the ban (`ledger.rs:148`).
`record_outcome`, `detect_brigading` and `prune` are called by nothing.

*World.* A player restored from a checkpoint taken while it was dead never
respawns (`world.rs:2537`). A hand-off goes through `seed_player`
(`manager.rs:200`), so bag, experience and abilities stay behind, where
`world.rs:107` has them travel. `last_attacker` outlives a respawn, and thorns
does not set it. The killing nova and the order of players follow `HashMap`
iteration. A delayed effect on an entity that left leaves its row. In
`movement_step` and `try_activate_mode`, not modelled, a double jump past its
limit is charged all the same, and `slam_pending` and `extra_jumps_used` survive
death and respawn.

*Content.* `stage_content` overwrites the held copy without comparing epochs or
validating (`manager.rs:396`, against `hotreload.rs:12`), and a staged pack may
be replaced by an older one. `apply_at_tick`, `ContentAck` and
`ContentVersionQuery` are used nowhere; replica and browser hosts never reload,
and client prediction uses the default pack. A restarted coordinator announces
epoch 2 again. `validate` skips recipe inputs, tech prerequisites and effects,
item grants and uses, mob abilities and loot, summons, proc statuses, fused
gems, duplicate ids and missions (against `pack.rs:116-118`). Harmful fields
reach nobody, since a field runs its op at a point (`world.rs:1357`, against
`spell.rs:135-136`); `life_siphon` and the dead harvest heal the struck foe
(against `default_pack.rs:377`). A drink is taken from the bag before its spell
is looked up.

*Forge.* A stack saturates and the item is gone. The same ring can be worn twice,
doubling its modifiers and its set count; legacy and rolled gear can share a slot
(against `item.rs:118`). A reforge clears every imprint where `forge.rs:222` has
it clear one. The drawing loop at `forge.rs:263` does not end when the pool and
what is kept are smaller than the budget, which is so for shipped epics of item
level 8 to 23. A runeword's `level_req` is not checked.

*Living world.* The Grand Conjunction never comes: no day of the super-period
has all moons above the threshold (against a comment of `calendar.rs`'s tests,
and the weather test of it passes vacuously). Predators that are fed grow without
bound, overflow after some 550 days and are zero for good from the next. Each
zone starts its own tick at 0 (`zone.rs:119`), so zones disagree on the season,
where `living.rs` has tick-derived layers agree. An import loses the chronicle,
stars, populations, charges and attunements, which feed spell damage, and an heir
announces season and festival again. A relic site is unreachable in
`choose_manifestation`; monsters never earn renown; a named foe rises from a
player's id that no mob has.


## 12. What is proved

Each theorem is of the module's specification, for every value of the constants
that satisfies its named assumptions.

`ReplicationProofs`, under `ConstantsAssumption`: `TypeCorrect`; `SeqOrder`
(`SeqOrdersIssue`), where a step that issues a checkpoint must know that
existing ones are behind, so `IssueInv` adds that no stamp is ahead of its
player's play and that a copy of the present run has a number already used;
`AckHonest` and `OneCopy`, joined to `TypeCorrect` as `StoresStaySound`, where
`AckInv` adds that what an ack **in flight** names is held or was dropped, which
rests on storing never lowering what a holder has (`StoreTakes`, `StoreKeeps`).
`NewestOfOneSource`: a recovery restores each player to a state as far on as any
checkpoint it heard, if all it heard of the player come from one run of one
authority; `GatherInv` says that a gather keeps one checkpoint to a player and
none with a smaller number than it heard, and `SeqOrder` turns numbers into play.
`RecoversNewest` is `RecoveredIsNewest` for a fleet whose gathers hear of a player
from one source only. That is needed: numbers start again with every authority and
a gather compares them whoever issued them. In `ReplicationHolders` it holds
because the bounds allow one earlier authority.

`ZoneOwnershipProofs`, under `OwnershipAssumption` (zones are finite, no two nodes
tie, every nonempty view has a highest score): `TypeCorrect`, whose `IInv` adds
that slots and copies are keyed by player and that a slot's entity exists;
`NoBodyLeftBehind` (`NoOrphanBody`, if clients join once; with the types
`BodiesStaySound`): whoever has a slot, a
hand-off or a checkpoint has joined; `OnePlaceAlways` (`OnePlace`, without
replicas as well). Both hypotheses are needed: a second join spawns a second
entity, and a recovery against a live owner puts a player in two places.

`SnapshotsProofs`, under `SnapshotsAssumption`: `RoundTrip` (diff and apply are
inverse for any two sets of entities), `TypeCorrect` (sizes and order of ring and
samples), `AckHonest` (`BaselineApplied`; `AckInv` says the
same of every acknowledgement on its way: what it names has been applied or is
out of the ring for good), the two joined as `BaselinesStaySound`, and
`DeltaExact` (`ExactOnItsBaseline`, from `RoundTrip` and the invariant that a
message in flight encodes the sent set against the sent set of its baseline).

`InputStreamProofs`, under `InputAssumption`: `AckHonest` (`AckedHasActed`) and
`ActsInOrder` (`Spec` with `MaxReturns = 0` implements `InputOrder`). The
invariant says that there is one body, in a slot or on its way, that all numbers
have been stamped, and that a slot's last number, unless it is 0, is the newest
its body has acted on; the refinement adds that a body's inputs rise, and each
action maps to a step or a stutter. `TypeCorrect` and, with `AckHonest`,
`AcksStaySound` (`AcksSound`): `Sound` bounds the client's ring, a slot's idle
count and every queued, sent or acknowledged number by what was stamped, and a
frame's inputs, sorted, are counted off by their least elements.

`AntiCheatProofs`, under `AntiCheatAssumption`: `Verdicts` (`VerdictsStand`),
from whoever is counted against a tick having objected, and nobody agreeing with
a tick that only liars have published; `BansStay` (`BannedForGood`);
`ProfilesStaySound` (`ProfilesSound`): karma stays between floor and ceiling, and
a profile's totals, carried forward, are those of the rounds in its window. The
totals of the model are folds over finite sets (`MapThenSumSet`). A section of
lemmas shows that such a sum exists, is unique, and may take any element first
(by the least counterexample, not by an induction theorem), and from it how a sum
changes when the window rolls.

`AgreementProofs`, of `HotReload`, under `HotReloadAssumption` and `NoneAssumption`:
`BrokenStaysOut`, `PacksStaySound`, `EpochsNamePacks`, `ContentMovesOn`, and
`SwapsRefined`, the refinement of `ContentSwap`. The invariant is that whatever
is held, staged or active was announced or is a boot version, and that staged
packs are later and valid.

`AgreementProofs`, of `LockstepReplicas` (`HostsSpec`), under `LockstepAssumption`.
`ReplicasAgree` (`HostsAgree`) asks two things of a deployment. `Prompt`: a tab's
lag, and its lag plus the latency of an input less one, are within `INPUT_DELAY`,
which is what `clock.rs` chooses the delay for; with less, an input is refused by a
host that has passed its tick. `Suffixed`: each tab is behind a relay of its own and
sorts among the authors as that relay does, so that a tab, which schedules its own
inputs under its own id, puts them in the order all others do (ids are equally
long, and a tab's is its relay's with a suffix, `host.rs:181`). Tabs behind one
relay share a body everywhere but at home (section 11), and do not agree.
The module `MCLockstepReplicas` has TLC evaluate both of the run's constants. The
inductive invariant `Agreeing` rests on what was ever submitted, the inputs
numbered by author: every host of a whole replica has, of what was submitted
for the ticks ahead of it, all but what is on its way to it, each once
(`Fed`, `InFlight`), and what is on its way arrives before its tick (`InTime`);
its world is, up to the id a tab goes by at home, an empty world with all inputs of
the ticks behind it applied in canonical order (`Past`, `Logged`). Its lemmas are
about lists in an order (a list of distinct entries has one canonical order,
whatever the order of arrival; sorted batches of successive ticks make one sorted
list) and about a run of inputs seen with a tab's names exchanged. They use least
counterexamples in place of induction. `HostTables` (`HostsTypeOK`) and `ClockKept`
(`ClockNeverRewinds`) have no such hypotheses: they hold of stalls, late inputs and
merges too.

`KeepingProofs`, of `ItemForge`, under `ForgeAssumption` and `StackAssumption`: `Budgeted`,
`Tempered` and `Imprinted` (together `WorkStays`); the invariant follows a
reforge in progress, whose drawn affixes are distinct and include the imprinted.
`WornStays` (`WornSound`) is for content whose sets have no ring and no two pieces
of a slot (`SetsApart`; `GearPack!Sets` lists the shipped sets, which have
neither). That is needed: `equip_instance` lets a ring be worn twice, and
`set_count` counts handles. Its invariant is that what is worn is in the slot of
its base, at most two rings and one piece of any other slot.
`GemsStay` (`GemsKept`) is for content whose gems are nothing but gems, not worn,
drunk, crafted or spent by the forge, and whose table of what a gem is fused from
goes down (`GemsApart`; the shipped tables satisfy it). A gem's worth in base gems
exists because the table goes down: a least tier without one has a gem below it.
`GemWorth` is a sum over the gems of worth times count, and a count itself sums the
sockets of the stash, so the lemmas on finite sums of `AntiCheatProofs` are stated
again over this module's variables. The invariant `Hoard` adds to types and stacks
that what is left to find has its type and that nothing is worn in no slot; each
call then leaves the counts as they are, moves one gem between bag, socket and
finds, spills one at a full stack, or fuses.

`WorldTickProofs`, under `Bounds`, `Players` and `Graphs` (a spell graph is a set
of ops closed under what they name, as deserialisation gives it), for any bags,
gear and graphs, any targets in any order, any procs, hand-offs and recoveries.
`Invariance` is the inductive invariant `IInv`: `World` (ids are below the next
one; every row has its type; the tables follow the bodies; one body per owner, no
stronger than it may be), `Turns` (what a pass still has to do exists, and a frame
evaluates what the graphs hold), `Abroad` (who has a checkpoint is not in the
zone), `Awaiting` (the dead have their respawn ahead, also inside a tick) and
`Remembered` (whoever is remembered as last attacker has struck). From it follow
`BookkeepingHolds` (`Bookkeeping`), `CreditIsEarned` (`CreditEarned`) and
`NobodyRevives` (`NoRevival`): the last needs, op by op, that nothing a frame does
gives health to a body whose health has run out. `StacksStay` (`ItemsOnce`) adds
`Placed`: every stack of those who joined is in exactly one of the places (bags,
loot, piles about to land, checkpoints, drunk, left behind), and of those who did not join in
none. Each step that touches a place (`Handling` names them) maps the places of
the new state one-to-one to those of the old, the stack in hand apart.
`CastsFade` (`CastsEnd`) is for spells whose nodes measure up to `Lifespan`. A cast
leaves projectiles, fields and delayed effects, whose ops leave others, so the bound
is over a tree. `Fades` takes the measure of each node as given: how far from the
cast anything it leaves is timed, and how many ticks later its pass may come to it, by the
pass that runs the node (what a delay leaves runs in its tick or, if the pass is
over, in the next). `MCWorldTick` computes the measures of its spells
by recursion and has TLC evaluate `Fades` of them; with `Lifespan` a tick shorter TLC rejects it.
`Fades` also asks that gear leaves nothing that waits, as in the code: item procs
apply an outcome at once, and a proc that would cast or summon does nothing
(`world.rs:2310`). The invariant `Fading` says that what waits, and what is being
evaluated, is over with all it brings by the end of the last cast; the last step is that
between ticks nothing can then be left.

`KeepingProofs`, of `LivingWorld` (`LivingSpec`), under `LivingAssumption`,
`StrideAssumption` and `LandAssumption` (the pack is finite, and a population leaves
its number above what the land carries), for any pack, ages, copies and school, as
long as the dice are fair: the hypothesis `Fair` says that a throw for a star or a
nature is below the number it is asked for, as `rng.rs` gives it. It is a
hypothesis of the theorems because it ranges over all ticks, which TLC cannot
evaluate. `WorldInMeasure` (`MeasureKept`): the invariant `LivingInv` has a `Whole`
soul in each copy (typed, its grazers between two fifths and the whole of what the
land carries, its bar for a legend the `Bar` of as many as it has, its season and
festival those of its tick), and a familiar that has grown through what its bond
lets it. Grazers hold because what they breed in a day is less than what they lack;
legends stay scarce because a slaying that makes one takes the renown, of the
slayer or of the slain, of the bar then. `SoulsOfOneMind` (`SoulsAgree`) follows:
what is latched is a function of the tick. `PropheciesComeTrue` (`PropheciesHold`)
adds that a stride ends by the next dawn, that a festival lasts its day, and that
no two days running have the same one, the moons never meeting.
`ManaNeitherMadeNorLost` (`ManaKept`) adds `StridesKept`: a stride is so short that
no well is asked for more than it holds, when the sum over the ring telescopes, or
so long that the tide alone fills every well. A copy strides from where it woke, up
to two ticks past the end of a stride, which is why the invariant counts them.

`AgreementProofs` on `PackPlay`, under `TreesAssumption`, `ShippedAssumption`,
`PlayAssumption` and `SparingAssumption`, for any edits that designers may publish:
`PacksInPlay` (`NothingDangles`) and `CastersAreSpared` (`CasterSpared`). What the
interpreter does with a tree is `EvalGood`, by the least depth at which it could go
wrong: whatever luck has it, what a run leaves behind holds operations of the same
tree, and a run aimed as the tree says lands no harm on the caster and leaves only
what is so aimed. `PlayIInv` then carries it through the packs: the live pack and
those staged are valid, and whatever is in flight is a tree whose statuses the live
pack has, if it was cast under it; a swap makes all of it older than the new pack.
`Aimed` are the pairs of an operation and a target that the shipped spells can come
to, an analysis of the trees alone in which an enemy is always near and every chance
comes up; that none of its pairs harms the caster is `SparingAssumption`, a
computation on the tables that TLC makes, and that the interpreter never leaves it,
across swaps, projectiles, fields and schedules, is what is proved.

Only model-checked: liveness (`Settles`, `LastInputActs`,
`ZonesFollow`, `Quiesces`, `ReforgeReturns`, `LandRefills`), which needs fairness
and is outside the prover's reach; and `ShippedCloses`, which is a computation on
the shipped tables and says nothing of a step.


## 13. Deadlock, bounds, and what is not modelled

All runs but `ReloadSwaps` say `CHECK_DEADLOCK FALSE`: with its events spent and
its ticks run a bounded behaviour stops, and a fleet that nobody joins rests. In
`ForgeKeeps` a reforge that cannot fill its budget also stops; in the code it
loops (section 11).

Counters are unbounded in the modules except for named bounds in the guards,
which are constants declared as such (`MaxTick`, `MaxJoins`, `Horizon`,
`Budget`, ...). Integer widths matter in one place, the `u16` of a stack
(`MaxStack`); the other numbers compared (`seq`, epochs, ticks) start at 0 and
would take years of continuous play to wrap.

Not modelled: float geometry (movement and its modes, collision, interpolation,
clock smoothing), derived statistics and experience curves, procedural generation,
animation, rendering, input devices, asset baking, argument parsing, ticket
signatures and HTTP, and the test harnesses. They are numerics or I/O, and what
their results decide (which cell, which neighbour, who is hit) is a free choice
in the modules. Crafting, missions, triggers, loot tables, spawn rules, game
modes and tech purchases are data without an engine in the source: `ContentPack`
has their references, and nothing could be run.
