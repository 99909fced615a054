-------------------------- MODULE LockstepReplicas --------------------------
(***************************************************************************)
(* One zone hosted by everybody near it (arena-replica; arena-server:      *)
(* replica_host.rs; arena-client: host.rs; arena-karma: quorum_audit.rs).  *)
(*                                                                         *)
(* Every host runs the whole simulation of the zone, driven by inputs      *)
(* tagged with the tick they apply at, on a tick number all read off the   *)
(* wall clock.  On a cadence each publishes the hash of its state, tallies *)
(* the proofs it has heard, and when a majority disagrees with it adopts   *)
(* the newest snapshot advertised.  Donors also advertise snapshots and    *)
(* keep a streak of lost rounds per node.                                  *)
(*                                                                         *)
(* A body is reduced to what tells two of them apart: who owns it, its     *)
(* entity id and the inputs it has acted on.  Mobs, loot and projectiles,  *)
(* which a snapshot leaves out, are not modelled; Leave and ZoneSwitch are *)
(* inputs nobody sends.                                                    *)
(***************************************************************************)
EXTENDS Naturals, Sequences, FiniteSets, SequencesExt

CONSTANTS
  Donor,             \* the headless hosts, by node id
  Tab,               \* the browsers, by their per-tab id
  Relay,             \* Relay[p]: id of the node tab p reaches the mesh through
  InputDelay,        \* INPUT_DELAY
  MaxCatchup,        \* MAX_CATCHUP
  ProofInterval,     \* proof_interval
  SnapshotInterval,  \* snapshot_interval
  SlashThreshold,    \* SLASH_DISPUTE_THRESHOLD
  MaxLag,            \* bound: MaxLag[h], ticks host h may be behind the clock
  MinLatency,        \* bound: ticks a message of each kind is at least and
  MaxLatency,        \*        at most on its way to a host's next step
  Repeats,           \* bound: steps of a host at a tick it has already stepped at
  MaxInputs,         \* bound: MaxInputs[p], inputs tab p submits
  Horizon            \* bound: the last tick

Host == Donor \cup Tab

ASSUME LockstepAssumption ==
  /\ Donor \subseteq Nat /\ Tab \subseteq Nat /\ Donor \cap Tab = {}
  /\ Relay \in [Tab -> Nat \ Host]
  /\ {InputDelay, MaxCatchup, ProofInterval, SnapshotInterval, SlashThreshold}
       \subseteq Nat \ {0}
  /\ {MinLatency, MaxLatency} \subseteq [{"input", "proof", "snapshot"} -> Nat]
  /\ \A kind \in {"input", "proof", "snapshot"} : MinLatency[kind] <= MaxLatency[kind]
  /\ MaxLag \in [Host -> Nat \ {0}]
  /\ {Repeats, Horizon} \subseteq Nat /\ MaxInputs \in [Tab -> Nat]

VARIABLES
  now,        \* tick_at of the wall clock
  hosting,    \* the hosts that have built their replica
  world,      \* Replica::world
  scheduled,  \* Replica::scheduled, in order of arrival
  proofs,     \* ZoneReplica::proofs
  latest,     \* ZoneReplica::latest_snapshot: none or one
  pending,    \* snapshots being fetched
  streak,     \* QuorumAuditor::streak
  seq,        \* HostState::seq of a tab
  msgs,       \* envelopes in flight
  stepped,    \* ghost: hosts that have stepped since their tick was last set
  repeats,    \* ghost: steps at a tick already stepped at so far
  whole,      \* ghost: replicas that have simulated every tick since the first input
  slashed     \* ghost: <<host, node>> when host has recommended to slash node

engine == <<hosting, world, scheduled, whole>>
quorum == <<proofs, latest, pending, streak, slashed>>
hostvars == <<now, engine, quorum, seq, msgs, stepped, repeats>>

-----------------------------------------------------------------------------
(* The replica (replica.rs). *)

\* The id others see on what a host sends, and any id that can cast a vote.
Sender(h) == IF h \in Tab THEN Relay[h] ELSE h
Id        == Host \cup {Relay[p] : p \in Tab}

Entry == [tick : Nat, author : Id, seq : Nat, kind : {"Join", "Input"}]
Body  == [owner : Id, id : Nat \ {0}, acts : Seq(Nat)]
World == [tick : Nat, next_id : Nat \ {0}, bodies : SUBSET Body]

Fresh(tick) == [tick |-> tick, next_id |-> 1, bodies |-> {}]

\* What the hash covers: the tick and every entity with its id, not its owner.
state_hash(w) ==
  [tick |-> w.tick, bodies |-> {[id |-> b.id, acts |-> b.acts] : b \in w.bodies}]

OfOwner(w, author) == {b \in w.bodies : b.owner = author}

apply(w, e) ==
  LET mine == OfOwner(w, e.author) IN
  CASE e.kind = "Join" /\ mine = {} ->
         [w EXCEPT !.next_id = @ + 1,
                   !.bodies = @ \cup {[owner |-> e.author, id |-> w.next_id,
                                       acts |-> << >>]}]
    [] e.kind = "Input" ->
         [w EXCEPT !.bodies = (@ \ mine)
                     \cup {[b EXCEPT !.acts = Append(@, e.seq)] : b \in mine}]
    [] OTHER -> w

\* What is at some places of a list, in an order of its places, a set of pairs.
Nth(places, before, k) ==
  CHOOSE i \in places : Cardinality({j \in places : <<j, i>> \in before}) = k - 1
Listed(list, places, before) ==
  [k \in 1..Cardinality(places) |-> list[Nth(places, before, k)]]
Arrival(list) == {p \in (DOMAIN list) \X (DOMAIN list) : p[1] < p[2]}

Precedes(d, e) ==
  \/ d.tick < e.tick
  \/ d.tick = e.tick /\ d.author < e.author
  \/ d.tick = e.tick /\ d.author = e.author /\ d.seq < e.seq

\* Mutant: inputs act in the order they arrived.
Canonical_arrival(list) ==
  {p \in (DOMAIN list) \X (DOMAIN list) :
     \/ list[p[1]].tick < list[p[2]].tick
     \/ list[p[1]].tick = list[p[2]].tick /\ p[1] < p[2]}

\* Tick by tick, and within one by author and then seq; the sort is stable.
Canonical(list) ==
  {p \in (DOMAIN list) \X (DOMAIN list) :
     \/ Precedes(list[p[1]], list[p[2]])
     \/ ~Precedes(list[p[2]], list[p[1]]) /\ p[1] < p[2]}

\* Inputs applied one after the other.
Run(w, list) ==
  LET after[n \in 0..Len(list)] == IF n = 0 THEN w ELSE apply(after[n - 1], list[n])
  IN after[Len(list)]

\* advance_to, for the world and for what stays scheduled.
Skips(w, target) == target > w.tick + MaxCatchup
Start(w, target) == IF Skips(w, target) THEN target - MaxCatchup ELSE w.tick

Advanced(w, inputs, target) ==
  LET due == {i \in DOMAIN inputs :
                inputs[i].tick >= Start(w, target) /\ inputs[i].tick < target}
  IN [Run(w, Listed(inputs, due, Canonical(inputs))) EXCEPT !.tick = target]

Remaining(w, inputs, target) ==
  LET kept == {i \in DOMAIN inputs : \/ inputs[i].tick >= target
                                     \/ inputs[i].tick < w.tick /\ ~Skips(w, target)}
  IN Listed(inputs, kept, Arrival(inputs))

\* schedule: an input for a tick already simulated is refused.
Accepted(w, inputs) ==
  Listed(inputs, {i \in DOMAIN inputs : inputs[i].tick >= w.tick}, Arrival(inputs))

\* export_snapshot leaves the owners in order and import_snapshot numbers them
\* anew in that order.
Rank(bodies, b) == Cardinality({c \in bodies : c.owner <= b.owner})

\* Mutant: the imported world stays at the snapshot's tick.
Imported_stale(snap, tick) ==
  [snap EXCEPT !.bodies = {[b EXCEPT !.id = Rank(snap.bodies, b)] : b \in snap.bodies}]

\* import_snapshot, reseed, set_tick.
Imported(snap, tick) ==
  [snap EXCEPT !.tick = tick,
               !.bodies = {[b EXCEPT !.id = Rank(snap.bodies, b)] : b \in snap.bodies}]

-----------------------------------------------------------------------------
(* The quorum (quorum.rs, quorum_audit.rs). *)

\* HashMap::insert: one vote per sender, whatever tick it was for.
VotedAll(votes, cast) ==
  {v \in votes : \A c \in cast : v.by # c.by} \cup cast

Voted(votes, by, hash) == VotedAll(votes, {[by |-> by, hash |-> hash]})

\* agree: the hash of a strict majority, if there is one.
Majority(votes) ==
  {x \in {v.hash : v \in votes} :
     2 * Cardinality({v \in votes : v.hash = x}) > Cardinality(votes)}

Dissent(votes) ==
  {v.by : v \in {u \in votes : Majority(votes) # {} /\ u.hash \notin Majority(votes)}}

Agree(votes) == {v.by : v \in {u \in votes : u.hash \in Majority(votes)}}

\* record_round.  A streak is counted up to the threshold, where it stays until
\* a round is won.
Recorded(h, votes) ==
  [by \in Id |->
     IF by \in Agree(votes) THEN 0
     ELSE IF by \in Dissent(votes) /\ streak[h][by] < SlashThreshold
          THEN streak[h][by] + 1
     ELSE streak[h][by]]

-----------------------------------------------------------------------------
(* Messages. *)

Broadcast(h, kind, content) ==
  {[to |-> k, from |-> Sender(h), sent |-> now, kind |-> kind, content |-> content]
     : k \in hosting \ {h}}

\* The proof due at the tick w has reached, and the snapshot due at a step's
\* tick, from every donor: its candidate set is only ever itself, so it is
\* always a custodian.  It is advertised under the step's tick.
ProofDue(w) == w.tick % ProofInterval = 0
Proofs(h, w) == IF ProofDue(w) THEN Broadcast(h, "proof", state_hash(w)) ELSE {}
Snapshots(h, tick, w) ==
  IF tick % SnapshotInterval = 0 THEN Broadcast(h, "snapshot", [w EXCEPT !.tick = tick])
  ELSE {}

\* What may have arrived since the host last woke: inputs in any order, any one
\* of a sender's proofs as the last, any one of the newest snapshots as the last.
Inbound(h) ==
  LET there == {m \in msgs : m.to = h /\ now >= m.sent + MinLatency[m.kind]}
  IN {arrived \in SUBSET there :
        \A m \in there \ arrived : now < m.sent + MaxLatency[m.kind]}
Contents(arrived, kind) == {m.content : m \in {l \in arrived : l.kind = kind}}

Ballots(arrived) ==
  LET votes == {[by |-> m.from, hash |-> m.content] :
                  m \in {l \in arrived : l.kind = "proof"}}
  IN {cast \in SUBSET votes : \A v \in votes : Cardinality({c \in cast : c.by = v.by}) = 1}

Newest(h, arrived) ==
  LET ads   == Contents(arrived, "snapshot")
      fresh == {s \in ads : \A t \in ads \cup latest[h] : t.tick <= s.tick}
  IN IF fresh = {} THEN {latest[h]} ELSE {{s} : s \in fresh}

-----------------------------------------------------------------------------
(* What a donor's step and a tab's frame have in common. *)

\* handle_envelope and route for what arrived, advance_to, publish_proof and
\* the tally of reconcile.  Out-voted with a snapshot to go to, a host starts to
\* fetch it; a donor waits for it and publishes its own only afterwards.
Round(h, base, arrived, imported) ==
  \E inputs \in SetToSeqs(Contents(arrived, "input")),
     cast \in Ballots(arrived), ad \in Newest(h, arrived) :
    LET queue == scheduled[h] \o Accepted(base, inputs)
        w     == Advanced(base, queue, now)
        heard == VotedAll(proofs[h], cast)
        votes == Voted(heard, h, state_hash(w))
        fetch == IF ProofDue(w) /\ h \in Dissent(votes) THEN ad ELSE {}
    IN
    /\ world' = [world EXCEPT ![h] = w]
    /\ scheduled' = [scheduled EXCEPT ![h] = Remaining(base, queue, now)]
    /\ whole' = IF base # world[h] \/ Skips(base, now) THEN whole \ {h} ELSE whole
    /\ latest' = [latest EXCEPT ![h] = ad]
    /\ proofs' = [proofs EXCEPT ![h] = IF ProofDue(w) THEN {} ELSE heard]
    /\ IF ProofDue(w) /\ h \in Donor
       THEN /\ streak' = [streak EXCEPT ![h] = Recorded(h, votes)]
            /\ slashed' = slashed \cup
                 {<<h, by>> : by \in {d \in Dissent(votes) :
                               Recorded(h, votes)[d] >= SlashThreshold}}
       ELSE UNCHANGED <<streak, slashed>>
    /\ pending' = [pending EXCEPT ![h] = (@ \ imported) \cup fetch]
    /\ msgs' = (msgs \ arrived) \cup Proofs(h, w)
                 \cup (IF h \in Donor /\ fetch = {} THEN Snapshots(h, now, w) ELSE {})
    /\ repeats' = IF h \in stepped /\ w.tick = world[h].tick THEN repeats + 1 ELSE repeats
    /\ repeats' <= Repeats
    /\ stepped' = stepped \cup {h}
    /\ UNCHANGED <<now, hosting, seq>>

-----------------------------------------------------------------------------
(* Actions. *)

\* The wall clock.
Clock ==
  /\ now < Horizon
  /\ \A h \in hosting : now < world[h].tick + MaxLag[h]
  /\ now' = now + 1
  /\ UNCHANGED <<engine, quorum, seq, msgs, stepped, repeats>>

\* ensure_zone, ensure_interest: an empty world at the shared tick.
Ensure(h) ==
  /\ h \notin hosting
  /\ hosting' = hosting \cup {h}
  /\ world' = [world EXCEPT ![h] = Fresh(now)]
  /\ whole' = IF \A p \in Tab : seq[p] = 0 THEN whole \cup {h} ELSE whole
  /\ UNCHANGED <<now, scheduled, quorum, seq, msgs, stepped, repeats>>

\* publish_join and ensure_joined, submit_input: scheduled here and broadcast.
Submit(p, kind) ==
  LET e == [tick |-> world[p].tick + InputDelay, author |-> p,
            seq |-> seq[p] + 1, kind |-> kind]
  IN
  /\ p \in hosting /\ seq[p] < MaxInputs[p]
  /\ kind = "Join" => OfOwner(world[p], p) = {}
  /\ seq' = [seq EXCEPT ![p] = @ + 1]
  /\ scheduled' = [scheduled EXCEPT ![p] = Append(@, e)]
  /\ msgs' = msgs \cup Broadcast(p, "input", [e EXCEPT !.author = Sender(p)])
  /\ UNCHANGED <<now, hosting, world, whole, quorum, stepped, repeats>>

\* A donor's step, with the envelopes handled since the one before.
Step(h) ==
  /\ h \in hosting \cap Donor /\ pending[h] = {}
  /\ \E arrived \in Inbound(h) : Round(h, world[h], arrived, {})

\* merge_from_snapshot, which fails when the blob cannot be had, and the rest
\* of the step.
Resume(h) ==
  \E w \in {Imported(s, now) : s \in pending[h]} \cup {world[h]} :
    /\ h \in Donor /\ pending[h] # {}
    /\ pending' = [pending EXCEPT ![h] = {}]
    /\ world' = [world EXCEPT ![h] = w]
    /\ whole' = IF w = world[h] THEN whole ELSE whole \ {h}
    /\ stepped' = stepped \ {h}
    /\ msgs' = msgs \cup Snapshots(h, world[h].tick, w)
    /\ UNCHANGED <<now, hosting, scheduled, proofs, latest, streak, slashed, seq,
                   repeats>>

\* A tab's frame: import what has been fetched, then drain the inbound queue.
TabFrame(p) ==
  /\ p \in hosting \cap Tab
  /\ \E arrived \in Inbound(p) :
       \/ Round(p, world[p], arrived, {})
       \/ \E s \in pending[p] : Round(p, Imported(s, now), arrived, {s})

HostsInit ==
  /\ now = 0 /\ hosting = {} /\ whole = {} /\ stepped = {} /\ repeats = 0
  /\ world = [h \in Host |-> Fresh(0)] /\ scheduled = [h \in Host |-> << >>]
  /\ proofs = [h \in Host |-> {}] /\ latest = [h \in Host |-> {}]
  /\ pending = [h \in Host |-> {}] /\ streak = [h \in Donor |-> [i \in Id |-> 0]]
  /\ seq = [p \in Tab |-> 0] /\ msgs = {} /\ slashed = {}

HostsNext ==
  \/ Clock
  \/ \E h \in Host : Ensure(h) \/ Step(h) \/ Resume(h) \/ TabFrame(h)
  \/ \E p \in Tab, kind \in {"Join", "Input"} : Submit(p, kind)

HostsSpec == HostsInit /\ [][HostsNext]_hostvars

-----------------------------------------------------------------------------
(* Properties. *)

\* One vote per sender in a tally, one body per owner and one id per body in a
\* world, every id below the cursor.
HostsTypeOK ==
  /\ now \in 0..Horizon /\ hosting \subseteq Host /\ whole \subseteq hosting
  /\ \A h \in Host :
       /\ world[h].tick <= now
       /\ \A b, c \in world[h].bodies :
            /\ b \in Body /\ b.id < world[h].next_id
            /\ b.owner = c.owner \/ b.id = c.id => b = c
       /\ scheduled[h] \in Seq(Entry)
       /\ \A u, v \in proofs[h] : u.by \in Id /\ (u.by = v.by => u = v)
       /\ Cardinality(latest[h]) <= 1
  /\ streak \in [Donor -> [Id -> 0..SlashThreshold]]
  /\ \A p \in Tab : seq[p] \in 0..MaxInputs[p]
  /\ stepped \subseteq hosting /\ repeats \in 0..Repeats
  /\ \A m \in msgs : m.to \in hosting /\ m.from \in Id

\* Replicas that have simulated every tick agree ("given the same tick-tagged
\* input log, every Replica of a zone ends in the same World state", replica.rs;
\* INPUT_DELAY gives "the network time to deliver it everywhere before that
\* tick is simulated", clock.rs): while latency and lag together stay within
\* the delay, no order of arrivals and steps tells two of them apart.
Lockstep ==
  \A h, k \in whole :
    world[h].tick = world[k].tick => state_hash(world[h]) = state_hash(world[k])

\* What Lockstep asks of a deployment.  An input reaches every host before the
\* tick it is tagged with is simulated:
Prompt ==
  \A p \in Tab : /\ MaxLag[p] <= InputDelay
                 /\ MaxLag[p] + MaxLatency["input"] <= InputDelay + 1

\* and each tab has a relay of its own and sorts as it does: a tab's id is its
\* relay's with a suffix (host.rs), and the nodes' ids are equally long.  Tabs
\* behind one relay share a body everywhere but at home.
Suffixed ==
  \A p, q \in Tab : p # q =>
    /\ Relay[p] # Relay[q]
    /\ p < Relay[q] <=> Relay[p] < Relay[q]

\* Every host's tables are well formed, with one body to an owner, one id to a
\* body and one vote to a sender, and the hosts agree.
HostsAgree == HostsTypeOK /\ Lockstep

\* A replica never returns to a tick it has left, merges of older snapshots and
\* fast-forwards included: no tick is simulated twice.
ClockNeverRewinds == [][\A h \in hosting : world'[h].tick >= world[h].tick]_hostvars
=============================================================================
