------------------------------- MODULE Snapshots -------------------------------
(***************************************************************************)
(* How one client follows one zone: the authority sends deltas against the *)
(* newest snapshot the client has acknowledged, over a channel that loses  *)
(* and reorders (arena-net: server.rs, baseline.rs, client.rs, interp.rs;  *)
(* arena-protocol: snapshot.rs, entity.rs; arena-server: zone.rs).         *)
(*                                                                         *)
(* An entity is a function from Field to Value.  The client's own entity   *)
(* rides whole in every snapshot and is left out, as are events, which are *)
(* sent once and never repeated.                                           *)
(***************************************************************************)
EXTENDS Naturals, Sequences, FiniteSets

CONSTANTS
  Entity,      \* the entities that may be in the client's area of interest
  Field,       \* the fields of an entity
  Value,       \* their values
  Ring,        \* BASELINE_RING
  History,     \* INTERP_HISTORY
  MaxTick,     \* bound: snapshots the authority sends
  MaxReturns,  \* bound: how often the client is handed off and comes back
  MaxRejoins   \* bound: how often it joins again without having left

ASSUME SnapshotsAssumption ==
  /\ Ring \in Nat \ {0} /\ History \in Nat \ {0}
  /\ MaxTick \in Nat /\ MaxReturns \in Nat /\ MaxRejoins \in Nat

VARIABLES
  sent,      \* ghost: the entity set of every snapshot sent so far, by tick
  ring,      \* ClientBaselines::ring: [tick, set], oldest first
  acked,     \* ClientBaselines::acked, 0 for None
  net,       \* snapshots in flight
  acks,      \* InputBatch::ack_tick of the batches in flight
  view,      \* WorldView::entities
  ack_tick,  \* ClientWorld::ack_tick
  samples,   \* the ticks in InterpolationBuffer::samples, oldest first
  applied,   \* ghost: applied[t] is the view after tick t was applied, by this ClientWorld
  returns, rejoins  \* ghost: how much of the bounds is used

server == <<sent, ring, acked>>
client == <<view, ack_tick, samples, applied>>
vars   == <<server, net, acks, client, returns, rejoins>>

-----------------------------------------------------------------------------
(* Data. *)

State == [Field -> Value]
Sets  == UNION {[ids -> State] : ids \in SUBSET Entity}
None  == [id \in {} |-> {}]
now   == Len(sent)

\* An EntityDelta: the whole state of an entity that is new to the baseline, or
\* the fields of a known one that changed.
Fields == UNION {[fs -> Value] : fs \in SUBSET Field}
Delta  == [id : Entity, spawn : BOOLEAN, changed : Fields]

Snapshot == [tick : Nat \ {0}, baseline : Nat, deltas : SUBSET Delta,
             despawns : SUBSET Entity]

\* EntityDelta::diff of one entity, for an id in both sets or only in the new one.
diff(base, new, id) ==
  IF id \notin DOMAIN base THEN [id |-> id, spawn |-> TRUE, changed |-> new[id]]
  ELSE [id |-> id, spawn |-> FALSE,
        changed |-> [f \in {g \in Field : base[id][g] # new[id][g]} |-> new[id][f]]]

\* is_empty: nothing to send.
is_empty(d) == ~d.spawn /\ DOMAIN d.changed = {}

\* Mutant: what has gone is not mentioned.
Encoded_lingering(base, btick, new, tick) ==
  [tick |-> tick, baseline |-> btick,
   deltas |-> {d \in {diff(base, new, id) : id \in DOMAIN new} : ~is_empty(d)},
   despawns |-> {}]

\* encode: the snapshot of new against base.
Encoded(base, btick, new, tick) ==
  [tick |-> tick, baseline |-> btick,
   deltas |-> {d \in {diff(base, new, id) : id \in DOMAIN new} : ~is_empty(d)},
   despawns |-> DOMAIN base \ DOMAIN new]

\* EntityDelta::apply on a view: a delta of an unknown entity is dropped.
Merged(before, d) ==
  IF d.spawn THEN d.changed
  ELSE [f \in Field |-> IF f \in DOMAIN d.changed THEN d.changed[f] ELSE before[f]]

\* WorldView::apply: onto whatever the view is.
Applied(base, s) ==
  LET known == {d \in s.deltas : d.spawn \/ d.id \in DOMAIN base}
      ids   == (DOMAIN base \cup {d.id : d \in known}) \ s.despawns
  IN [id \in ids |->
        IF \E d \in known : d.id = id
        THEN Merged(IF id \in DOMAIN base THEN base[id] ELSE None,
                    CHOOSE d \in known : d.id = id)
        ELSE base[id]]

\* record: the newest Ring sets are kept.
Recorded(r, tick, set) ==
  LET grown == Append(r, [tick |-> tick, set |-> set])
  IN IF Len(grown) > Ring THEN Tail(grown) ELSE grown

\* BaselineStore::get of the acknowledged tick, and what stands in for it.
Held(r, t) == {i \in DOMAIN r : r[i].tick = t}
InUse(r, t) == t # 0 /\ Held(r, t) # {}
Baseline(r, t) ==
  IF InUse(r, t) THEN [tick |-> t, set |-> r[CHOOSE i \in Held(r, t) : TRUE].set]
  ELSE [tick |-> 0, set |-> None]

-----------------------------------------------------------------------------
(* The authority. *)

\* send_snapshots for this client: the world is at new by now.
Send(new) ==
  LET b == Baseline(ring, acked) IN
  /\ now < MaxTick
  /\ sent' = Append(sent, new)
  /\ ring' = Recorded(ring, now + 1, new)
  /\ net' = net \cup {Encoded(b.set, b.tick, new, now + 1)}
  /\ UNCHANGED <<acked, acks, client, returns, rejoins>>

\* queue_input: the encoder hears of the ack before anything else is looked at,
\* also when the player is not hosted.
RecvAck(a) ==
  /\ acks' = acks \ {a}
  /\ acked' = IF acked >= a THEN acked ELSE a
  /\ UNCHANGED <<sent, ring, net, client, returns, rejoins>>

-----------------------------------------------------------------------------
(* The client. *)

\* push: only forward, and the oldest sample goes when there are too many.
Pushed(s, tick) ==
  IF s # << >> /\ tick <= s[Len(s)] THEN s
  ELSE IF Len(s) = History THEN Append(Tail(s), tick) ELSE Append(s, tick)

\* apply_snapshot.
RecvSnapshot(s) ==
  /\ net' = net \ {s}
  /\ view' = Applied(view, s)
  /\ samples' = Pushed(samples, s.tick)
  /\ ack_tick' = IF s.tick > ack_tick THEN s.tick ELSE ack_tick
  /\ applied' = [t \in DOMAIN applied \cup {s.tick} |->
                   IF t = s.tick THEN Applied(view, s) ELSE applied[t]]
  /\ UNCHANGED <<server, acks, returns, rejoins>>

\* make_input_batch, for what it acknowledges.
SendAck ==
  /\ acks' = acks \cup {ack_tick}
  /\ UNCHANGED <<server, net, client, returns, rejoins>>

\* handle_server_msg, JoinAccept and Redirect: the ClientWorld is made anew.
FreshClient ==
  /\ view' = None /\ ack_tick' = 0 /\ samples' = << >>
  /\ applied' = [t \in {} |-> None]

\* Mutant: only the acknowledgement is forgotten.
Forgotten_ack == /\ acked' = 0 /\ UNCHANGED ring

\* SnapshotEncoder::forget.
Forgotten == /\ acked' = 0 /\ ring' = << >>

\* remove_player, then a hand-off back: the client has been redirected twice.
\* Its snapshots of the first stay are not read any more; its batches may be.
Return ==
  /\ returns < MaxReturns
  /\ returns' = returns + 1
  /\ Forgotten /\ FreshClient
  /\ net' = {}
  /\ UNCHANGED <<sent, acks, rejoins>>

\* A client that lost its connection joins again: add_player replaces the slot,
\* and the encoder remembers what it sent before.
Rejoin ==
  /\ rejoins < MaxRejoins
  /\ rejoins' = rejoins + 1
  /\ FreshClient
  /\ net' = {}
  /\ UNCHANGED <<server, acks, returns>>

\* A message that is lost is one that stays in flight for ever.
Init ==
  /\ sent = << >> /\ ring = << >> /\ acked = 0 /\ net = {} /\ acks = {}
  /\ view = None /\ ack_tick = 0 /\ samples = << >> /\ applied = [t \in {} |-> None]
  /\ returns = 0 /\ rejoins = 0

Next ==
  \/ \E new \in Sets : Send(new)
  \/ \E a \in acks : RecvAck(a)
  \/ \E s \in net : RecvSnapshot(s)
  \/ SendAck \/ Return \/ Rejoin

Spec == Init /\ [][Next]_vars

-----------------------------------------------------------------------------
(* Properties. *)

\* The samples are in the order they are rendered in, and no more than the
\* buffers hold.
TypeOK ==
  /\ sent \in Seq(Sets) /\ now <= MaxTick
  /\ ring \in Seq([tick : 1..now, set : Sets]) /\ Len(ring) <= Ring
  /\ acked \in 0..now /\ acks \subseteq 0..now
  /\ net \subseteq Snapshot /\ \A s \in net : s.tick <= now
  /\ view \in Sets /\ ack_tick \in 0..now
  /\ samples \in Seq(1..now) /\ Len(samples) <= History
  /\ \A i, j \in DOMAIN samples : i < j => samples[i] < samples[j]
  /\ returns \in 0..MaxReturns /\ rejoins \in 0..MaxRejoins

\* A snapshot applied to the very set it was computed against reproduces the
\* set it was computed from, whatever appeared, changed and went in between
\* ("the client can reconstruct world state", Snapshot; "matches the client's
\* reconstructed WorldView exactly", encode).
ExactOnItsBaseline ==
  [][\A s \in net \ net' :
       (returns' = returns /\ rejoins' = rejoins
         /\ view = (IF s.baseline = 0 THEN None ELSE sent[s.baseline]))
       => view' = sent[s.tick]]_vars

\* A delta is only ever computed against a snapshot that the present
\* ClientWorld has applied: acks that arrive late, out of order, or after the
\* player was away and came back never make the authority diff against
\* something the client has not seen.
BaselineApplied == rejoins = 0 => (InUse(ring, acked) => acked \in DOMAIN applied)

\* The buffers keep their sizes and their order, and the baseline in use is one
\* the client has applied (ClientBaselines, SnapshotBuffer).
BaselinesSound == TypeOK /\ BaselineApplied
=============================================================================
