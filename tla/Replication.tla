----------------------------- MODULE Replication -----------------------------
(***************************************************************************)
(* Proximity replication and failover recovery of one zone                 *)
(* (arena-server: replication.rs, and the parts of server.rs and           *)
(* manager.rs that drive it).                                              *)
(*                                                                         *)
(* Every node runs one process: a ReplicaStore (copies held for others), a *)
(* ReplicationManager (the authority's sequence numbers and coverage) and, *)
(* if it owns the zone, the players it hosts.  Messages are fire-and-      *)
(* forget: a send may be lost, and those in flight arrive in any order.    *)
(* A process may crash, losing everything, and restart empty.              *)
(*                                                                         *)
(* A player's simulated state is abstracted to a stamp: the number of      *)
(* ticks the player has been simulated when the state was produced.  The   *)
(* stamp is what "newer" means; seq is what the code compares.             *)
(***************************************************************************)
EXTENDS Naturals, FiniteSets

CONSTANTS
  Node,       \* the processes of the fleet
  Player,     \* the nodes that play; only players are chosen as holders
  Factor,     \* ReplicationManager::factor
  Interval,   \* ReplicationManager::interval_ticks
  Window,     \* RECOVERY_WINDOW_TICKS
  TTL,        \* REPLICA_TTL_TICKS
  Cap,        \* MAX_HELD_REPLICAS
  MaxTick,    \* bound: ticks each process runs
  MaxNet,     \* bound: messages in flight; a send beyond it is lost
  Budget      \* bound: how many of each Rare event a behaviour has

\* The events a run limits: process crashes, acquisitions of the zone, yields
\* of it by a live owner, players arriving and players leaving.
Rare == {"crash", "tenure", "yield", "join", "leave"}

ASSUME ConstantsAssumption ==
  /\ Player \subseteq Node
  /\ Factor \in Nat \ {0} /\ Interval \in Nat \ {0}
  /\ Window \in Nat /\ TTL \in Nat /\ Cap \in Nat
  /\ MaxTick \in [Node -> Nat] /\ MaxNet \in Nat /\ Budget \in [Rare -> Nat]

VARIABLES
  up,          \* the running processes
  life,        \* ghost: which run of n's process this is
  global_tick, \* Engine::global_tick of each process
  owns,        \* the nodes whose ZoneManager::owned has the zone
  hosted,      \* hosted[n][p]: stamp of p in n's ZoneSim, 0 when absent
  seqs,        \* ReplicationManager::seqs
  coverage,    \* ReplicationManager::coverage, 0 when absent
  store,       \* ReplicaStore::holdings of the zone, as a set of copies
  subs,        \* the nodes whose replication_subs has the zone
  recovering,  \* the nodes whose Engine::recoveries has the zone
  deadline,    \* Recovery::deadline_tick
  best,        \* Recovery::best, as a set of checkpoints
  net,         \* the messages in flight
  play,        \* ghost: ticks each player has been simulated
  heard,       \* ghost: checkpoints received during the open recovery
  dropped,     \* ghost: <<h, p>> where h once discarded its copy of p
  spent        \* ghost: how much of the Budget is used

process == <<global_tick, owns, hosted, seqs, coverage, subs>>
gather  == <<recovering, deadline, best, heard>>
vars    == <<up, life, process, store, dropped, gather, net, play, spent>>

-----------------------------------------------------------------------------
(* Data. *)

\* PlayerCheckpoint, with the process that issued it.
Checkpoint == [player : Player, seq : Nat \ {0}, stamp : Nat \ {0},
               by : Node, life : Nat]

\* StoredReplica: a checkpoint and its last_touch.
Replica == [ckpt : Checkpoint, touch : Nat]

\* The four AuthorityMsg of the replication plane, one shape for all.
Message == [type : {"ReplicateCheckpoint", "ReplicaStored",
                    "RequestReplicas", "ReplicaBundle"},
            to : Node, from : Node,
            checkpoints : SUBSET Checkpoint, acked : SUBSET (Player \X Nat)]

Ckpts(holdings) == {r.ckpt : r \in holdings}
Spend(events) ==
  /\ \A e \in events : spent[e] < Budget[e]
  /\ spent' = [e \in Rare |-> IF e \in events THEN spent[e] + 1 ELSE spent[e]]

NoPlayers   == [p \in Player |-> 0]
NoCoverage  == [p \in Player |-> [h \in Node |-> 0]]
Present(n)  == {p \in Player : hosted[n][p] # 0}

\* What the network makes of a send: any part of it gets through.
Transmit(flying, msgs) ==
  \E out \in SUBSET msgs :
    /\ out # {} => Cardinality(flying \cup out) <= MaxNet
    /\ net' = flying \cup out

-----------------------------------------------------------------------------
(* The holder's side: ReplicaStore. *)

\* Mutant: whatever arrives is stored.
Accepts_any(h, c) == TRUE

\* store: a checkpoint is refused when a newer-or-equal seq is held.
Accepts(h, c) ==
  \A r \in store[h] : r.ckpt.player = c.player => r.ckpt.seq < c.seq

Oldest(holdings) == {r \in holdings : \A s \in holdings : r.touch <= s.touch}

\* store followed by enforce_cap: the holdings it may leave.
StoreResults(h, c) ==
  LET inserted == {r \in store[h] : r.ckpt.player # c.player}
                    \cup {[ckpt |-> c, touch |-> global_tick[h]]}
  IN IF ~Accepts(h, c) THEN {store[h]}
     ELSE IF Cardinality(inserted) <= Cap THEN {inserted}
     ELSE {inserted \ {r} : r \in Oldest(inserted)}

\* bundle_for and acks_for.
bundle_for(h)   == Ckpts(store[h])
acks_for(kept)  == {<<c.player, c.seq>> : c \in Ckpts(kept)}

\* evict_expired at tick t.
Unexpired(h, t) == {r \in store[h] : t - r.touch <= TTL}

\* What h no longer has any copy of once it keeps only these.
Discarded(h, kept) ==
  {<<h, c.player>> : c \in {d \in Ckpts(store[h]) :
                            \A r \in kept : r.ckpt.player # d.player}}

-----------------------------------------------------------------------------
(* The authority's side: ReplicationManager. *)

checkpoints_due(t) == t % Interval = 0
next_seq(n, p)     == seqs[n][p] + 1

\* tick_all: every hosted player is simulated one tick.
Ticked(n) == [p \in Player |-> IF hosted[n][p] = 0 THEN 0 ELSE play[p] + 1]

CheckpointOf(n, p) ==
  [player |-> p, seq |-> next_seq(n, p), stamp |-> Ticked(n)[p],
   by |-> n, life |-> life[n]]

\* emit_checkpoints: what may get through of one round.  Which other players
\* are nearest is left open, so up to Factor of them receive the checkpoint.
Rounds(n) ==
  {out \in SUBSET {[type |-> "ReplicateCheckpoint", to |-> h, from |-> n,
                    checkpoints |-> {CheckpointOf(n, p)}, acked |-> {}]
                     : p \in Present(n), h \in Present(n)} :
     \A p \in Present(n) :
       LET reached == {m \in out : CheckpointOf(n, p) \in m.checkpoints}
       IN  /\ Cardinality(reached) <= Factor
           /\ \A m \in reached : m.to # p}

\* finalize_recoveries: a recovery is due, and what it imports.
RecoveryDue(n, t) == n \in recovering /\ t >= deadline[n]

Imported(n, p) ==
  IF \E c \in best[n] : c.player = p
  THEN (CHOOSE c \in best[n] : c.player = p).stamp
  ELSE Ticked(n)[p]

-----------------------------------------------------------------------------
(* Actions. *)

\* Engine::step: tick the zone, emit a round if one is due, finish a due
\* recovery, age out held copies.
Step(n) ==
  LET t == global_tick[n] + 1
      emits == n \in owns /\ checkpoints_due(t)
  IN
  /\ n \in up /\ t <= MaxTick[n]
  /\ global_tick' = [global_tick EXCEPT ![n] = t]
  /\ play' = [p \in Player |-> IF hosted[n][p] = 0 THEN play[p] ELSE play[p] + 1]
  /\ IF emits
     THEN /\ seqs' = [seqs EXCEPT ![n] =
                        [p \in Player |-> IF p \in Present(n)
                                          THEN next_seq(n, p) ELSE seqs[n][p]]]
          /\ \E out \in Rounds(n) :
               /\ out # {} => Cardinality(net \cup out) <= MaxNet
               /\ net' = net \cup out
     ELSE UNCHANGED <<seqs, net>>
  /\ IF RecoveryDue(n, t)
     THEN /\ hosted' = [hosted EXCEPT ![n] = [p \in Player |-> Imported(n, p)]]
          /\ owns' = IF best[n] = {} THEN owns ELSE owns \cup {n}
          /\ recovering' = recovering \ {n}
          /\ best' = [best EXCEPT ![n] = {}]
          /\ heard' = [heard EXCEPT ![n] = {}]
     ELSE /\ hosted' = [hosted EXCEPT ![n] = Ticked(n)]
          /\ UNCHANGED <<owns, recovering, best, heard>>
  /\ store' = [store EXCEPT ![n] = Unexpired(n, t)]
  /\ dropped' = dropped \cup Discarded(n, Unexpired(n, t))
  /\ UNCHANGED <<up, life, coverage, subs, deadline, spent>>

\* The holder of m stores c, which leaves kept, and acks all it holds.
Stores(m, c, kept) ==
  /\ store' = [store EXCEPT ![m.to] = kept]
  /\ dropped' = dropped \cup Discarded(m.to, kept)
  /\ Transmit(net \ {m},
              {[type |-> "ReplicaStored", to |-> m.from, from |-> m.to,
                checkpoints |-> {}, acked |-> acks_for(kept)]})

\* handle_message, ReplicateCheckpoint: store, subscribe, ack what is held.
\* emit_checkpoints puts exactly one checkpoint in a message.
RecvCheckpoint(m) ==
  LET h == m.to IN
  /\ m \in net /\ m.type = "ReplicateCheckpoint" /\ h \in up
  /\ \E c \in m.checkpoints : \E kept \in StoreResults(h, c) :
       Stores(m, c, kept)
  /\ subs' = subs \cup {h}
  /\ UNCHANGED <<up, life, global_tick, owns, hosted, seqs, coverage, gather, play,
                 spent>>

\* handle_message, ReplicaStored: record_ack for every pair (an ack names a
\* player once, so there is at most one to raise the slot).
RecvStored(m) ==
  LET n == m.to
      Raising(p) == {s \in {a[2] : a \in m.acked} :
                       <<p, s>> \in m.acked /\ s > coverage[n][p][m.from]}
  IN
  /\ m \in net /\ m.type = "ReplicaStored" /\ n \in up
  /\ coverage' = [coverage EXCEPT ![n] =
       [p \in Player |->
          IF Raising(p) = {} THEN coverage[n][p]
          ELSE [coverage[n][p] EXCEPT ![m.from] = CHOOSE s \in Raising(p) : TRUE]]]
  /\ net' = net \ {m}
  /\ UNCHANGED <<up, life, global_tick, owns, hosted, seqs, store, dropped, subs,
                 gather, play, spent>>

\* handle_message, RequestReplicas: answer with the bundle unless it is empty.
RecvRequest(m) ==
  LET h == m.to IN
  /\ m \in net /\ m.type = "RequestReplicas" /\ h \in up
  /\ Transmit(net \ {m},
       IF h = m.from \/ bundle_for(h) = {} THEN {}
       ELSE {[type |-> "ReplicaBundle", to |-> m.from, from |-> h,
              checkpoints |-> bundle_for(h), acked |-> {}]})
  /\ UNCHANGED <<up, life, process, store, dropped, gather, play, spent>>

\* Mutant: the last bundle to arrive wins.
Keeps_last(n, c) == TRUE

\* collect_bundle: the checkpoint kept per player out of an offer.
Keeps(n, c) == \A b \in best[n] : b.player = c.player => b.seq < c.seq

RecvBundle(m) ==
  LET n == m.to
      kept == {c \in m.checkpoints : Keeps(n, c)}
  IN
  /\ m \in net /\ m.type = "ReplicaBundle" /\ n \in up
  /\ IF n \in recovering
     THEN /\ best' = [best EXCEPT ![n] =
               {b \in best[n] : \A c \in kept : c.player # b.player} \cup kept]
          /\ heard' = [heard EXCEPT ![n] = @ \cup m.checkpoints]
     ELSE UNCHANGED <<best, heard>>
  /\ net' = net \ {m}
  /\ UNCHANGED <<up, life, process, store, dropped, recovering, deadline, play,
                 spent>>

\* reconcile_ownership on a candidate set that makes n the owner, followed by
\* start_recovery.  Discovery no longer lists a node that owned the zone.
Claim(n) ==
  /\ n \in up /\ owns = {} /\ Spend({"tenure"})
  /\ owns' = owns \cup {n}
  /\ subs' = subs \cup {n}
  /\ recovering' = recovering \cup {n}
  /\ deadline' = [deadline EXCEPT ![n] = global_tick[n] + Window]
  /\ best' = [best EXCEPT ![n] = {}]
  /\ heard' = [heard EXCEPT ![n] = {}]
  /\ Transmit(net, {[type |-> "RequestReplicas", to |-> h, from |-> n,
                     checkpoints |-> {}, acked |-> {}] : h \in subs \cup {n}})
  /\ UNCHANGED <<up, life, global_tick, hosted, seqs, coverage, store, dropped, play>>

\* A join or a hand-off reaches n: ensure_zone and a fresh body, no recovery.
Admit(n, p) ==
  /\ n \in up /\ owns \subseteq {n} /\ hosted[n][p] = 0
  /\ Spend(IF n \in owns THEN {"join"} ELSE {"join", "tenure"})
  /\ owns' = owns \cup {n}
  /\ play' = [play EXCEPT ![p] = @ + 1]
  /\ hosted' = [hosted EXCEPT ![n][p] = play[p] + 1]
  /\ UNCHANGED <<up, life, global_tick, seqs, coverage, subs, store, dropped,
                 gather, net>>

\* Mutant: the player's numbering is forgotten with the player.
Remove_forgetting(n, p) ==
  /\ n \in up /\ hosted[n][p] # 0 /\ Spend({"leave"})
  /\ hosted' = [hosted EXCEPT ![n][p] = 0]
  /\ seqs' = [seqs EXCEPT ![n][p] = 0]
  /\ UNCHANGED <<up, life, global_tick, owns, coverage, subs, store, dropped,
                 gather, net, play>>

\* remove_player: leave, idle timeout or hand-off away.  Sequence numbers stay.
Remove(n, p) ==
  /\ n \in up /\ hosted[n][p] # 0 /\ Spend({"leave"})
  /\ hosted' = [hosted EXCEPT ![n][p] = 0]
  /\ UNCHANGED <<up, life, global_tick, owns, seqs, coverage, subs, store, dropped,
                 gather, net, play>>

\* retire_zone: n yields the zone with everyone in it.  An open recovery is
\* left open.
Retire(n) ==
  /\ n \in up \cap owns /\ Spend({"yield"})
  /\ owns' = owns \ {n}
  /\ hosted' = [hosted EXCEPT ![n] = NoPlayers]
  /\ UNCHANGED <<up, life, global_tick, seqs, coverage, subs, store, dropped,
                 gather, net, play>>

\* The process dies and everything it kept in memory with it.
Crash(n) ==
  /\ n \in up /\ Spend({"crash"})
  /\ up' = up \ {n}
  /\ life' = [life EXCEPT ![n] = @ + 1]
  /\ global_tick' = [global_tick EXCEPT ![n] = 0]
  /\ owns' = owns \ {n}
  /\ hosted' = [hosted EXCEPT ![n] = NoPlayers]
  /\ seqs' = [seqs EXCEPT ![n] = NoPlayers]
  /\ coverage' = [coverage EXCEPT ![n] = NoCoverage]
  /\ store' = [store EXCEPT ![n] = {}]
  /\ dropped' = dropped \cup Discarded(n, {})
  /\ subs' = subs \ {n}
  /\ recovering' = recovering \ {n}
  /\ deadline' = [deadline EXCEPT ![n] = 0]
  /\ best' = [best EXCEPT ![n] = {}]
  /\ heard' = [heard EXCEPT ![n] = {}]
  /\ UNCHANGED <<net, play>>

Restart(n) ==
  /\ n \notin up
  /\ up' = up \cup {n}
  /\ UNCHANGED <<life, process, store, dropped, gather, net, play, spent>>

Init ==
  /\ up = Node /\ life = [n \in Node |-> 0]
  /\ global_tick = [n \in Node |-> 0]
  /\ owns = {} /\ subs = {} /\ recovering = {} /\ dropped = {} /\ net = {}
  /\ hosted = [n \in Node |-> NoPlayers]
  /\ seqs = [n \in Node |-> NoPlayers]
  /\ coverage = [n \in Node |-> NoCoverage]
  /\ store = [n \in Node |-> {}]
  /\ deadline = [n \in Node |-> 0]
  /\ best = [n \in Node |-> {}] /\ heard = [n \in Node |-> {}]
  /\ play = NoPlayers /\ spent = [e \in Rare |-> 0]

Next ==
  \/ \E n \in Node : Step(n) \/ Claim(n) \/ Retire(n) \/ Crash(n) \/ Restart(n)
  \/ \E n \in Node, p \in Player : Admit(n, p) \/ Remove(n, p)
  \/ \E m \in net : \/ RecvCheckpoint(m) \/ RecvStored(m)
                    \/ RecvRequest(m) \/ RecvBundle(m)

Spec == Init /\ [][Next]_vars

-----------------------------------------------------------------------------
(* Properties. *)

TypeOK ==
  /\ up \subseteq Node /\ life \in [Node -> Nat]
  /\ global_tick \in [Node -> Nat]
  /\ owns \subseteq Node /\ subs \subseteq Node /\ recovering \subseteq Node
  /\ hosted \in [Node -> [Player -> Nat]]
  /\ seqs \in [Node -> [Player -> Nat]]
  /\ coverage \in [Node -> [Player -> [Node -> Nat]]]
  /\ store \in [Node -> SUBSET Replica]
  /\ deadline \in [Node -> Nat]
  /\ best \in [Node -> SUBSET Checkpoint]
  /\ heard \in [Node -> SUBSET Checkpoint]
  /\ net \subseteq Message
  /\ play \in [Player -> Nat]
  /\ dropped \subseteq Node \X Player
  /\ spent \in [Rare -> Nat]

\* Every checkpoint that exists anywhere: held, in flight or being gathered.
CopiesIn(held, gathered, got, flying) ==
  (UNION {Ckpts(held[n]) \cup gathered[n] \cup got[n] : n \in Node})
    \cup (UNION {m.checkpoints : m \in flying})

Copies == CopiesIn(store, best, heard, net)

\* Among the checkpoints one run of one process issued for a player, the
\* sequence number orders them as the player's play does, wherever the copies
\* went and in whatever order they arrived.  This is what "monotonic seq is
\* the freshness oracle" (replication.rs) needs to hold of a single authority.
SeqOrdersIssue ==
  \A c, d \in Copies :
    c.player = d.player /\ c.by = d.by /\ c.life = d.life =>
      (c.seq < d.seq <=> c.stamp < d.stamp)

\* An authority never believes a holder has more than the holder still has,
\* unless the holder lost its copy (crash, TTL, cap) since: acks may be
\* delayed and reordered, and never overstate.  "Record a holder's ack of the
\* highest seq it durably holds" (ReplicationManager::record_ack).
AckedIsHeld ==
  \A n, h \in Node, p \in Player :
    coverage[n][p][h] > 0 /\ <<h, p>> \notin dropped =>
      \E r \in store[h] : r.ckpt.player = p /\ r.ckpt.seq >= coverage[n][p][h]

\* A holder keeps one copy per player.
OneCopyPerPlayer ==
  \A h \in Node : \A r, s \in store[h] : r.ckpt.player = s.ckpt.player => r = s

\* What holders keep and what an authority believes of it: well formed, one copy
\* to a player, and no ack that overstates (ReplicaStore, ReplicationManager).
StoresSound == TypeOK /\ OneCopyPerPlayer /\ AckedIsHeld

\* When a recovery finishes, no player is restored to a state older than a
\* checkpoint the successor received while gathering (finalize_recoveries:
\* "import the newest checkpoint per player").
RecoveredIsNewest ==
  [][\A n \in recovering \ recovering' : n \in up' =>
       \A c \in heard[n] : hosted'[n][c.player] >= c.stamp]_vars

=============================================================================
