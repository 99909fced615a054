---------------------------- MODULE ZoneOwnership ----------------------------
(***************************************************************************)
(* Which node simulates which zone, and where a player's body is           *)
(* (arena-server: manager.rs, the ownership, join, leave and hand-off      *)
(* parts of server.rs and zone.rs; arena-mesh: authority.rs).              *)
(*                                                                         *)
(* Every node computes the owner of a zone from its own view of the fleet, *)
(* claims and retires zones when the view changes, yields to claims of a   *)
(* higher epoch, and hosts players: those who join, those handed to it,    *)
(* and those a recovery brings back.  Hand-offs and joins on behalf of     *)
(* another node are detached calls, tried once.                            *)
(*                                                                         *)
(* How checkpoints reach their holders and come back is module             *)
(* Replication; here a recovery may restore any subset of the players      *)
(* checkpointed in the zone.                                               *)
(***************************************************************************)
EXTENDS Naturals, FiniteSets, Functions

CONSTANTS
  Node,         \* the processes of the fleet
  Player,       \* the clients
  Zone,         \* the cells of the world in play
  Core,         \* the zones every manager starts with in active_zones
  Admission,    \* SPAWN_ZONE and QUARANTINE_ZONE
  Coordinator,  \* the node that admits players
  Priority,     \* Priority[z][n]: hrw_score of n for z, ties broken by node id
  Replicates,   \* whether replication_factor is above zero
  MaxJoins,     \* bound: how often one client joins
  Budget        \* bound: how many of each Rare event a behaviour has

\* The events a run limits: crashes, players moving to another cell, graceful
\* leaves, idle timeouts, views of the fleet that are not the fleet, and
\* messages that do not arrive.
Rare == {"crash", "move", "leave", "idle", "lag", "loss"}

ASSUME OwnershipAssumption ==
  /\ IsFiniteSet(Zone) /\ Core \subseteq Zone /\ Admission \subseteq Core
  /\ Coordinator \in Node
  /\ Priority \in [Zone -> [Node -> Nat]]
  /\ \A z \in Zone, m, n \in Node : Priority[z][m] = Priority[z][n] => m = n
  /\ \A z \in Zone, view \in (SUBSET Node) \ {{}} :
       \E m \in view : \A k \in view : Priority[z][k] <= Priority[z][m]
  /\ Replicates \in BOOLEAN /\ MaxJoins \in Nat /\ Budget \in [Rare -> Nat]

VARIABLES
  up,           \* the running processes
  cands,        \* ZoneRouter's candidates on each node
  owned,        \* keys of ZoneManager::owned
  active_zones, \* ZoneManager::active_zones
  claim_epoch,  \* ZoneManager::claim_epoch
  peer_claims,  \* ZoneManager::peer_claims, the epoch only; 0 when absent
  slots,        \* ZoneSim::players of every owned zone
  bodies,       \* bodies[n][z][p]: p's entities in the World of n's zone z
  recovering,   \* keys of Engine::recoveries, those somebody can answer
  copies,       \* the newest checkpoint of a player held anywhere, per zone
  claims,       \* AuthorityClaim messages in flight
  adopts,       \* AdoptPlayer calls in flight
  joins,        \* ghost: how often each client has joined
  spent         \* ghost: how much of the Budget is used

fleet  == <<up, cands>>
leases == <<owned, active_zones, claim_epoch, peer_claims>>
hosting == <<slots, bodies>>
failover == <<recovering, copies>>
vars == <<fleet, leases, hosting, failover, claims, adopts, joins, spent>>

-----------------------------------------------------------------------------
(* Data. *)

\* A client hosted in a ZoneSim: which one, and the cell its body stands in.
Slot  == [node : Node, zone : Zone, player : Player, at : Zone]
Copy  == [zone : Zone, player : Player, at : Zone]
Claim == [to : Node, from : Node, zone : Zone, epoch : Nat \ {0}]
Adopt == [to : Node, zone : Zone, player : Player, at : Zone]

Spend(events) ==
  /\ \A e \in events : spent[e] < Budget[e]
  /\ spent' = [e \in Rare |-> IF e \in events THEN spent[e] + 1 ELSE spent[e]]

NoBodies   == [z \in Zone |-> [p \in Player |-> 0]]
Mine(n)    == {s \in slots : s.node = n}
Here(n, z, p) == {s \in slots : s.node = n /\ s.zone = z /\ s.player = p}

\* authority_for: the candidate with the highest score, or else the node
\* itself when it knows of no candidate (unwrap_or in handle_join and
\* reconcile_ownership; tick_all keeps a player nobody owns).
authority_for(view, z, n) ==
  IF view = {} THEN n
  ELSE CHOOSE m \in view : \A k \in view : Priority[z][k] <= Priority[z][m]

\* Mutant: a candidate owns whatever it looks at.
should_own_any(view, z, n) == n \in view

should_own(view, z, n) == n \in view /\ authority_for(view, z, n) = n

\* run_handoff's call for a player removed here: one attempt.
Handoff(s, zone, to) == [to |-> to, zone |-> zone, player |-> s.player, at |-> s.at]

\* Mutant: only cells this node knows to be active are looked up.
Crosses_known(n, s, to) ==
  to \in active_zones[n] /\ to # s.zone /\ authority_for(cands[n], to, n) # n

\* tick_all: s has walked out of its zone and into another node's.
Crosses(n, s, to) == to # s.zone /\ authority_for(cands[n], to, n) # n

\* Mutant: whoever is handed off stays as well.
Removed_kept(leaving) == slots

\* Mutant: the entity outlives the slot.
Without_slot(leaving) == bodies

\* remove_player for each of these slots, with the entity the slot names.
Removed(leaving) == slots \ leaving
Without(leaving) ==
  [n \in Node |-> [z \in Zone |-> [p \in Player |->
     IF Here(n, z, p) \cap leaving = {} THEN bodies[n][z][p]
     ELSE bodies[n][z][p] - 1]]]

\* seed_player and import_player take over an entity the player owns in that
\* World, or create one.
Seeded(present, arrivals) ==
  [n \in Node |-> [z \in Zone |-> [p \in Player |->
     IF present[n][z][p] = 0
        /\ \E s \in arrivals : s.node = n /\ s.zone = z /\ s.player = p
     THEN 1 ELSE present[n][z][p]]]]

\* HashMap::insert of these slots.
Hosting(present, arrivals) ==
  {s \in present : \A a \in arrivals :
     s.node # a.node \/ s.zone # a.zone \/ s.player # a.player} \cup arrivals

\* ensure_zone.
Ensure(n, zones) ==
  /\ owned' = [owned EXCEPT ![n] = @ \cup zones]
  /\ active_zones' = [active_zones EXCEPT ![n] = @ \cup zones]

\* retire_zone for each of these zones: the World goes, the players leave.
Retired(n, zones) ==
  [bodies EXCEPT ![n] = [z \in Zone |-> IF z \in zones THEN [p \in Player |-> 0]
                                        ELSE bodies[n][z]]]

-----------------------------------------------------------------------------
(* Actions. *)

\* reconcile_ownership walks a HashSet: the claims of one pass are numbered in
\* any order.
Numberings(zones) == {f \in [zones -> 1..Cardinality(zones)] : IsInjective(f)}

\* The claim of z, to everybody.
Announced(n, z, epoch) ==
  {[to |-> m, from |-> n, zone |-> z, epoch |-> epoch] : m \in Node \ {n}}

\* start_recovery asks the nodes subscribed to the zone's replication topic,
\* which are those that were ever sent a checkpoint of it.
Answerable(z) == \E c \in copies : c.zone = z

\* dispatch, Candidates: update the view, claim what it makes this node's,
\* retire what it does not, open a recovery for each zone claimed.
Discover(n) ==
  \E view \in SUBSET Node :
    LET gained  == {z \in active_zones[n] \ owned[n] : should_own(view, z, n)}
        lost    == {z \in owned[n] : ~should_own(view, z, n)}
        leaving == {s \in Mine(n) : s.zone \in lost}
    IN
    /\ n \in up
    /\ Spend(IF view = up THEN {} ELSE {"lag"})
    /\ cands' = [cands EXCEPT ![n] = view]
    /\ owned' = [owned EXCEPT ![n] = (@ \ lost) \cup gained]
    /\ \E number \in Numberings(gained) :
         claims' = claims \cup
           UNION {Announced(n, z, claim_epoch[n] + number[z]) : z \in gained}
    /\ claim_epoch' = [claim_epoch EXCEPT ![n] = @ + Cardinality(gained)]
    /\ slots' = Removed(leaving)
    /\ bodies' = Retired(n, lost)
    /\ adopts' = adopts \cup
         {Handoff(s, s.zone, authority_for(view, s.zone, n)) : s \in leaving}
    /\ recovering' = [recovering EXCEPT ![n] = @ \cup {z \in gained : Answerable(z)}]
    /\ UNCHANGED <<up, active_zones, peer_claims, copies, joins>>

\* on_authority_claim: record a claim that is news, yield to one that outranks
\* this node's lease.
RecvClaim(c) ==
  LET n       == c.to
      news    == c.epoch > peer_claims[n][c.zone]
      yields  == news /\ c.zone \in owned[n] /\ c.epoch > claim_epoch[n]
      lost    == IF yields THEN {c.zone} ELSE {}
      leaving == {s \in Mine(n) : s.zone \in lost}
  IN
  /\ n \in up
  /\ claims' = claims \ {c}
  /\ peer_claims' = IF news THEN [peer_claims EXCEPT ![n][c.zone] = c.epoch]
                    ELSE peer_claims
  /\ owned' = [owned EXCEPT ![n] = @ \ lost]
  /\ slots' = Removed(leaving)
  /\ bodies' = Retired(n, lost)
  /\ adopts' = adopts \cup {Handoff(s, s.zone, c.from) : s \in leaving}
  /\ UNCHANGED <<fleet, active_zones, claim_epoch, failover, joins, spent>>

\* step, for what moves players: idle clients are evicted, the others walk,
\* whoever walked into another node's zone is handed off, a checkpoint round
\* may save some of the rest, and recoveries whose window is over restore what
\* came back.
Tick(n) ==
  \E idle \in SUBSET Mine(n), done \in SUBSET recovering[n] :
  \E pos \in [Mine(n) \ idle -> Zone] :
    LET stay     == Mine(n) \ idle
        owner(s) == authority_for(cands[n], pos[s], n)
        crossing == {s \in stay : Crosses(n, s, pos[s])}
        walked(s) == [s EXCEPT !.at = pos[s]]
        rest     == {walked(s) : s \in stay \ crossing}
        others   == slots \ Mine(n)
        covered  == {s \in rest : Replicates /\ \E t \in rest :
                       t.zone = s.zone /\ t.player # s.player}
    IN
    /\ n \in up
    /\ Spend(  (IF idle = {} THEN {} ELSE {"idle"})
          \cup (IF \A s \in stay : pos[s] = s.at THEN {} ELSE {"move"}))
    /\ adopts' = adopts \cup {Handoff(walked(s), pos[s], owner(s)) : s \in crossing}
    /\ \E saved \in SUBSET covered :
         copies' = {c \in copies : \A s \in saved :
                      c.zone # s.zone \/ c.player # s.player}
                   \cup {[zone |-> s.zone, player |-> s.player, at |-> s.at]
                           : s \in saved}
    /\ \E restored \in SUBSET {c \in copies' : c.zone \in done} :
         LET back == {[node |-> n, zone |-> c.zone, player |-> c.player,
                       at |-> c.at] : c \in restored}
         IN /\ slots' = others \cup Hosting(rest, back)
            /\ bodies' = Seeded(Without(idle \cup crossing), back)
            /\ Ensure(n, {c.zone : c \in restored})
    /\ recovering' = [recovering EXCEPT ![n] = @ \ done]
    /\ UNCHANGED <<fleet, claim_epoch, peer_claims, claims, joins>>

\* handle_request, AdoptPlayer: the zone is hosted whoever owns it.
RecvAdopt(a) ==
  LET s == [node |-> a.to, zone |-> a.zone, player |-> a.player, at |-> a.at] IN
  /\ a.to \in up
  /\ adopts' = adopts \ {a}
  /\ Ensure(a.to, {a.zone})
  /\ slots' = Hosting(slots, {s})
  /\ bodies' = Seeded(bodies, {s})
  /\ UNCHANGED <<fleet, claim_epoch, peer_claims, recovering, copies, claims, joins,
                 spent>>

\* handle_request, Join, when the coordinator has the admission zone:
\* add_player always spawns an entity.
JoinHere(p, z) ==
  LET n == Coordinator
      s == [node |-> n, zone |-> z, player |-> p, at |-> z]
  IN
  /\ authority_for(cands[n], z, n) = n
  /\ Ensure(n, {z})
  /\ slots' = Hosting(slots, {s})
  /\ bodies' = [bodies EXCEPT ![n][z][p] = @ + 1]
  /\ UNCHANGED adopts

\* The same when another node has it: forward_join.
JoinElsewhere(p, z) ==
  LET owner == authority_for(cands[Coordinator], z, Coordinator) IN
  /\ owner # Coordinator
  /\ adopts' = adopts \cup {[to |-> owner, zone |-> z, player |-> p, at |-> z]}
  /\ UNCHANGED <<owned, active_zones, hosting>>

Join(p, z) ==
  /\ Coordinator \in up /\ joins[p] < MaxJoins
  /\ joins' = [joins EXCEPT ![p] = @ + 1]
  /\ JoinHere(p, z) \/ JoinElsewhere(p, z)
  /\ UNCHANGED <<fleet, claim_epoch, peer_claims, recovering, copies, claims, spent>>

\* handle_request, Leave: the player goes from one of the zones hosting it.
Leave(s) ==
  /\ s.node \in up /\ Spend({"leave"})
  /\ slots' = Removed({s})
  /\ bodies' = Without({s})
  /\ UNCHANGED <<fleet, leases, failover, claims, adopts, joins>>

\* The network loses a claim, or a call times out undelivered.
Lose ==
  /\ Spend({"loss"})
  /\ \/ \E c \in claims : claims' = claims \ {c} /\ UNCHANGED adopts
     \/ \E a \in adopts : adopts' = adopts \ {a} /\ UNCHANGED claims
  /\ UNCHANGED <<fleet, leases, hosting, failover, joins>>

\* The process dies with all it hosts.
Crash(n) ==
  /\ n \in up /\ Spend({"crash"})
  /\ up' = up \ {n}
  /\ cands' = [cands EXCEPT ![n] = {}]
  /\ owned' = [owned EXCEPT ![n] = {}]
  /\ active_zones' = [active_zones EXCEPT ![n] = Core]
  /\ claim_epoch' = [claim_epoch EXCEPT ![n] = 0]
  /\ peer_claims' = [peer_claims EXCEPT ![n] = [z \in Zone |-> 0]]
  /\ slots' = slots \ Mine(n)
  /\ bodies' = [bodies EXCEPT ![n] = NoBodies]
  /\ recovering' = [recovering EXCEPT ![n] = {}]
  /\ UNCHANGED <<copies, claims, adopts, joins>>

Restart(n) ==
  /\ n \notin up
  /\ up' = up \cup {n}
  /\ UNCHANGED <<cands, leases, hosting, failover, claims, adopts, joins, spent>>

Init ==
  /\ up = Node /\ cands = [n \in Node |-> {}]
  /\ owned = [n \in Node |-> {}] /\ active_zones = [n \in Node |-> Core]
  /\ claim_epoch = [n \in Node |-> 0]
  /\ peer_claims = [n \in Node |-> [z \in Zone |-> 0]]
  /\ slots = {} /\ bodies = [n \in Node |-> NoBodies]
  /\ recovering = [n \in Node |-> {}] /\ copies = {}
  /\ claims = {} /\ adopts = {}
  /\ joins = [p \in Player |-> 0] /\ spent = [e \in Rare |-> 0]

Next ==
  \/ \E n \in Node : Discover(n) \/ Tick(n) \/ Crash(n) \/ Restart(n)
  \/ \E c \in claims : RecvClaim(c)
  \/ \E a \in adopts : RecvAdopt(a)
  \/ \E p \in Player, z \in Admission : Join(p, z)
  \/ \E s \in slots : Leave(s)
  \/ Lose

Spec == Init /\ [][Next]_vars

\* Discovery and the tick loop run on their timers, whether or not anything
\* happens to the fleet meanwhile; a message not lost arrives.
FairSpec ==
  /\ Spec
  /\ \A n \in Node :
       /\ WF_vars(Discover(n) /\ UNCHANGED spent)
       /\ WF_vars(Tick(n) /\ UNCHANGED spent)
       /\ WF_vars(\E c \in claims : c.to = n /\ RecvClaim(c))
       /\ WF_vars(\E a \in adopts : a.to = n /\ RecvAdopt(a))

-----------------------------------------------------------------------------
(* Properties. *)

TypeOK ==
  /\ up \subseteq Node /\ cands \in [Node -> SUBSET Node]
  /\ owned \in [Node -> SUBSET Zone] /\ active_zones \in [Node -> SUBSET Zone]
  /\ claim_epoch \in [Node -> Nat] /\ peer_claims \in [Node -> [Zone -> Nat]]
  /\ slots \subseteq Slot /\ bodies \in [Node -> [Zone -> [Player -> Nat]]]
  /\ recovering \in [Node -> SUBSET Zone] /\ copies \subseteq Copy
  /\ claims \subseteq Claim /\ adopts \subseteq Adopt
  /\ joins \in [Player -> Nat] /\ spent \in [Rare -> Nat]

\* A player is in one place: hosted once in the whole fleet or in one hand-off
\* on its way, never both ("removing them locally so they are not
\* double-simulated", tick_all).  For clients that join once, on a fleet that
\* keeps no replicas.
OnePlace ==
  /\ \A s, t \in slots : s.player = t.player => s = t
  /\ \A a, b \in adopts : a.player = b.player => a = b
  /\ \A s \in slots, a \in adopts : s.player # a.player

\* Every player entity in a World belongs to the slot of a connected client,
\* one each: nothing is simulated for a client that is gone (remove_player:
\* "tearing down its sim entity").
NoOrphanBody ==
  \A n \in Node, z \in Zone, p \in Player :
    bodies[n][z][p] = IF Here(n, z, p) = {} THEN 0 ELSE 1

\* The tables of zones, slots and entities are well formed, and entities and
\* slots are in step (ZoneManager, ZoneSim).
BodiesSound == TypeOK /\ NoOrphanBody

\* The owner of a zone in a settled fleet.
Rightful(z) == {n \in up : \A m \in up : Priority[z][m] <= Priority[z][n]}

\* "Each zone is simulated by exactly one node at a time" (lib.rs): however
\* views diverged, messages were lost and nodes crashed, once the fleet is
\* quiet every core zone comes to rest with exactly its rightful owner, and
\* every other zone with nobody else.
ZonesSettle ==
  <>[](/\ \A z \in Core : {n \in Node : z \in owned[n]} = Rightful(z)
       /\ \A z \in Zone : {n \in Node : z \in owned[n]} \subseteq Rightful(z))

\* Players come to rest on the node that owns the cell they stand in: no
\* sequence of crossings, yields and hand-offs leaves one simulated by a node
\* its surroundings are not on.
PlayersSettle == <>[](\A s \in slots : s.node \in Rightful(s.at))

\* Once the fleet is quiet, both come to rest.
Settles == ZonesSettle /\ PlayersSettle
=============================================================================
