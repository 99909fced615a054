---------------------------- MODULE SnapshotsProofs ----------------------------
(***************************************************************************)
(* Snapshots for any entities, fields, values and ring size: a delta is    *)
(* exact on its own baseline, and an acknowledgement the authority uses    *)
(* names a snapshot that the client has applied.                           *)
(***************************************************************************)
EXTENDS Snapshots, SequenceTheorems, TLAPS

USE SnapshotsAssumption

-----------------------------------------------------------------------------
(* Sets of entities. *)

\* A set of entities is a function of its ids.
LEMMA SetsAre ==
  ASSUME NEW f \in Sets
  PROVE  /\ DOMAIN f \subseteq Entity
         /\ f = [id \in DOMAIN f |-> f[id]]
         /\ \A id \in DOMAIN f : f[id] \in State
  BY DEF Sets

LEMMA NoneIsSet == None \in Sets
<1>1. None \in [{} -> State]
  BY DEF None
<1> QED BY <1>1 DEF Sets

\* The deltas of an encoded snapshot are one for each entity that differs.
LEMMA DeltasOf ==
  ASSUME NEW base \in Sets, NEW new \in Sets, NEW b, NEW t
  PROVE  \A d : d \in Encoded(base, b, new, t).deltas <=>
           \E id \in DOMAIN new : d = diff(base, new, id) /\ ~is_empty(d)
  BY DEF Encoded

\* One delta on the state it was computed from.
LEMMA MergeExact ==
  ASSUME NEW base \in Sets, NEW new \in Sets, NEW id \in DOMAIN new, NEW any
  PROVE  Merged(IF id \in DOMAIN base THEN base[id] ELSE any, diff(base, new, id)) = new[id]
<1>1. new[id] \in State
  BY SetsAre
<1>2. CASE id \notin DOMAIN base
  BY <1>2 DEF Merged, diff
<1>3. CASE id \in DOMAIN base
  <2> DEFINE d == diff(base, new, id)
             C == {g \in Field : base[id][g] # new[id][g]}
  <2>1. ~d.spawn /\ d.changed = [f \in C |-> new[id][f]]
    BY <1>3 DEF diff
  <2>2. DOMAIN d.changed = C /\ \A f \in C : d.changed[f] = new[id][f]
    BY <2>1
  <2>3. Merged(base[id], d) = [f \in Field |-> IF f \in DOMAIN d.changed THEN d.changed[f] ELSE base[id][f]]
    BY <2>1 DEF Merged
  <2>4. \A f \in Field : (IF f \in DOMAIN d.changed THEN d.changed[f] ELSE base[id][f]) = new[id][f]
    BY <2>2
  <2> HIDE DEF d
  <2>5. Merged(base[id], d) = [f \in Field |-> new[id][f]]
    BY <2>3, <2>4
  <2>6. new[id] = [f \in Field |-> new[id][f]]
    BY <1>1 DEF State
  <2> QED BY <1>3, <2>5, <2>6 DEF d
<1> QED BY <1>2, <1>3

\* An entity without a delta is the same in both sets.
LEMMA NoDeltaSame ==
  ASSUME NEW base \in Sets, NEW new \in Sets, NEW id \in DOMAIN new,
         is_empty(diff(base, new, id))
  PROVE  id \in DOMAIN base /\ base[id] = new[id]
<1>1. id \in DOMAIN base
  BY DEF is_empty, diff
<1>2. {g \in Field : base[id][g] # new[id][g]} = {}
  BY <1>1 DEF is_empty, diff
<1>3. base[id] \in State /\ new[id] \in State
  BY <1>1, SetsAre
<1> QED BY <1>1, <1>2, <1>3 DEF State

LEMMA DiffId ==
  ASSUME NEW base, NEW new, NEW id
  PROVE  diff(base, new, id).id = id /\ (diff(base, new, id).spawn <=> id \notin DOMAIN base)
  BY DEF diff

\* Applying a snapshot to its baseline yields the set it was computed from.
THEOREM RoundTrip ==
  ASSUME NEW base \in Sets, NEW new \in Sets, NEW b, NEW t
  PROVE  Applied(base, Encoded(base, b, new, t)) = new
<1> DEFINE s == Encoded(base, b, new, t)
           known == {d \in s.deltas : d.spawn \/ d.id \in DOMAIN base}
           ids == (DOMAIN base \cup {d.id : d \in known}) \ s.despawns
           val(id) == IF \E d \in known : d.id = id
                      THEN Merged(IF id \in DOMAIN base THEN base[id] ELSE None,
                                  CHOOSE d \in known : d.id = id)
                      ELSE base[id]
<1>0. \A id : diff(base, new, id).id = id /\ (diff(base, new, id).spawn <=> id \notin DOMAIN base)
  BY DiffId
<1>1. \A d : d \in known <=> \E id \in DOMAIN new : d = diff(base, new, id) /\ ~is_empty(d)
  <2>1. \A d : d \in s.deltas <=> \E id \in DOMAIN new : d = diff(base, new, id) /\ ~is_empty(d)
    BY DeltasOf
  <2> QED BY <2>1, <1>0
<1>2. s.despawns = DOMAIN base \ DOMAIN new
  BY DEF Encoded
<1>3. ASSUME NEW id \in DOMAIN new, ~is_empty(diff(base, new, id))
      PROVE  id \in ids /\ val(id) = new[id]
  <2>1. diff(base, new, id) \in known /\ diff(base, new, id).id = id
    BY <1>1, <1>3, DiffId
  <2>2. \A d \in known : d.id = id => d = diff(base, new, id)
    BY <1>1, <1>0
  <2>3. (CHOOSE d \in known : d.id = id) = diff(base, new, id)
    BY <2>1, <2>2
  <2>4. id \in ids
    BY <2>1, <1>2, <1>3
  <2>5. val(id) = Merged(IF id \in DOMAIN base THEN base[id] ELSE None, diff(base, new, id))
    <3> HIDE DEF known
    <3> QED BY <2>1, <2>3
  <2>6. Merged(IF id \in DOMAIN base THEN base[id] ELSE None, diff(base, new, id)) = new[id]
    BY MergeExact
  <2> HIDE DEF val, ids
  <2> QED BY <2>4, <2>5, <2>6
<1>4. ASSUME NEW id \in DOMAIN new, is_empty(diff(base, new, id))
      PROVE  id \in ids /\ val(id) = new[id]
  <2>1. id \in DOMAIN base /\ base[id] = new[id]
    BY <1>4, NoDeltaSame
  <2>2. ~\E d \in known : d.id = id
    BY <1>1, <1>4, <1>0
  <2>3. val(id) = new[id]
    <3> HIDE DEF known
    <3> QED BY <2>1, <2>2
  <2>4. id \in ids
    <3> HIDE DEF known
    <3> QED BY <2>1, <1>2
  <2> HIDE DEF val, ids
  <2> QED BY <2>3, <2>4
<1>5. ids \subseteq DOMAIN new
  <2>1. \A d \in known : d.id \in DOMAIN new
    BY <1>1, <1>0
  <2> HIDE DEF known, s
  <2> QED BY <2>1, <1>2
<1>6. ids = DOMAIN new
  <2> HIDE DEF ids, val
  <2> QED BY <1>3, <1>4, <1>5
<1>7. Applied(base, s) = [id \in ids |-> val(id)]
  BY Zenon DEF Applied
<1>8. \A id \in DOMAIN new : val(id) = new[id]
  <2> HIDE DEF ids, val
  <2> QED BY <1>3, <1>4
<1> HIDE DEF s, ids, val
<1>9. new = [id \in DOMAIN new |-> new[id]]
  BY SetsAre
<1>10. Applied(base, s) = [id \in DOMAIN new |-> new[id]]
  BY <1>6, <1>7, <1>8
<1> QED BY <1>9, <1>10 DEF s

-----------------------------------------------------------------------------
(* Types. *)

LEMMA StateIsFields == State \subseteq Fields
  BY DEF State, Fields

LEMMA DiffType ==
  ASSUME NEW base \in Sets, NEW new \in Sets, NEW id \in DOMAIN new
  PROVE  diff(base, new, id) \in Delta
<1>1. id \in Entity /\ new[id] \in State
  BY SetsAre
<1>2. CASE id \notin DOMAIN base
  BY <1>1, <1>2, StateIsFields DEF diff, Delta
<1>3. CASE id \in DOMAIN base
  <2> DEFINE C == {g \in Field : base[id][g] # new[id][g]}
             ch == [f \in C |-> new[id][f]]
  <2>1. C \in SUBSET Field /\ ch \in [C -> Value]
    BY <1>1 DEF State
  <2>2. ch \in Fields
    <3> HIDE DEF C, ch
    <3> QED BY <2>1 DEF Fields
  <2>3. diff(base, new, id) = [id |-> id, spawn |-> FALSE, changed |-> ch]
    BY <1>3 DEF diff
  <2> HIDE DEF ch
  <2> QED BY <1>1, <2>2, <2>3 DEF Delta
<1> QED BY <1>2, <1>3

LEMMA EncodedType ==
  ASSUME NEW base \in Sets, NEW new \in Sets, NEW b \in Nat, NEW t \in Nat \ {0}
  PROVE  Encoded(base, b, new, t) \in Snapshot
<1> DEFINE ds == {d \in {diff(base, new, id) : id \in DOMAIN new} : ~is_empty(d)}
<1>1. ds \subseteq Delta
  BY DiffType
<1>2. DOMAIN base \ DOMAIN new \subseteq Entity
  BY SetsAre
<1>3. Encoded(base, b, new, t)
      = [tick |-> t, baseline |-> b, deltas |-> ds, despawns |-> DOMAIN base \ DOMAIN new]
  BY DEF Encoded
<1> HIDE DEF ds
<1> QED BY <1>1, <1>2, <1>3 DEF Snapshot

\* A snapshot that the authority encoded.
Genuine(s) ==
  \E base \in Sets, new \in Sets : s = Encoded(base, s.baseline, new, s.tick)

\* Applied to any view it yields a view.
LEMMA AppliedType ==
  ASSUME NEW v \in Sets, NEW s, Genuine(s)
  PROVE  Applied(v, s) \in Sets
<1>1. PICK base \in Sets, new \in Sets : s = Encoded(base, s.baseline, new, s.tick)
  BY DEF Genuine
<1> DEFINE known == {d \in s.deltas : d.spawn \/ d.id \in DOMAIN v}
           ids == (DOMAIN v \cup {d.id : d \in known}) \ s.despawns
           val(id) == IF \E d \in known : d.id = id
                      THEN Merged(IF id \in DOMAIN v THEN v[id] ELSE None,
                                  CHOOSE d \in known : d.id = id)
                      ELSE v[id]
<1>2. ASSUME NEW d \in s.deltas
      PROVE  d.id \in Entity /\ d.changed \in Fields /\ (d.spawn => d.changed \in State)
  <2>1. PICK id \in DOMAIN new : d = diff(base, new, id)
    BY <1>1, DeltasOf
  <2>2. d \in Delta
    BY <2>1, DiffType
  <2>3. d.spawn => d.changed = new[id]
    BY <2>1 DEF diff
  <2>4. new[id] \in State
    BY SetsAre
  <2> QED BY <2>2, <2>3, <2>4 DEF Delta
<1>3. ids \subseteq Entity
  <2>1. DOMAIN v \subseteq Entity
    BY SetsAre
  <2> DEFINE dids == {d.id : d \in known}
  <2>2. dids \subseteq Entity
    <3>1. \A d \in s.deltas : d.id \in Entity
      BY <1>2
    <3> QED BY <3>1
  <2>3. ids = (DOMAIN v \cup dids) \ s.despawns
    OBVIOUS
  <2> HIDE DEF dids, ids
  <2> QED BY <2>1, <2>2, <2>3
<1>4. ASSUME NEW id \in ids
      PROVE  val(id) \in State
  <2>1. CASE \E d \in known : d.id = id
    <3> DEFINE d == CHOOSE d \in known : d.id = id
    <3>1. d \in known /\ d.id = id
      <4> HIDE DEF known
      <4> QED BY <2>1
    <3>2. d \in s.deltas /\ (d.spawn \/ id \in DOMAIN v)
      BY <3>1
    <3>3. val(id) = Merged(IF id \in DOMAIN v THEN v[id] ELSE None, d)
      <4> HIDE DEF known
      <4> QED BY <2>1
    <3> HIDE DEF d
    <3>4. CASE d.spawn
      <4>1. val(id) = d.changed
        <5> HIDE DEF val
        <5> QED BY <3>3, <3>4 DEF Merged
      <4>2. d.changed \in State
        BY <3>2, <3>4, <1>2, Zenon
      <4> HIDE DEF val
      <4> QED BY <4>1, <4>2
    <3>5. CASE ~d.spawn
      <4>1. val(id) = [f \in Field |-> IF f \in DOMAIN d.changed THEN d.changed[f] ELSE v[id][f]]
        <5>1. id \in DOMAIN v
          BY <3>2, <3>5
        <5> HIDE DEF val
        <5> QED BY <5>1, <3>3, <3>5 DEF Merged
      <4>2. v[id] \in State
        BY <3>2, <3>5, SetsAre
      <4>3. PICK fs \in SUBSET Field : d.changed \in [fs -> Value]
        <5>1. d.changed \in Fields
          BY <3>2, <1>2, Zenon
        <5> QED BY <5>1 DEF Fields
      <4> HIDE DEF val
      <4> QED BY <4>1, <4>2, <4>3 DEF State
    <3> QED BY <3>4, <3>5
  <2>2. CASE ~\E d \in known : d.id = id
    <3>1. id \in DOMAIN v
      BY <2>2
    <3>2. val(id) = v[id]
      <4> HIDE DEF known
      <4> QED BY <2>2
    <3> HIDE DEF val
    <3> QED BY <3>1, <3>2, SetsAre
  <2> QED BY <2>1, <2>2
<1>5. Applied(v, s) = [id \in ids |-> val(id)]
  BY Zenon DEF Applied
<1> HIDE DEF ids, val
<1>6. Applied(v, s) \in [ids -> State]
  BY <1>4, <1>5
<1> QED BY <1>3, <1>6 DEF Sets

-----------------------------------------------------------------------------
(* The invariant. *)

\* What a baseline tick stands for.
SetAt(t) == IF t = 0 THEN None ELSE sent[t]

\* The ring holds what was sent, and every snapshot in flight was encoded
\* against a set that was sent.
NetInv ==
  /\ \A i \in DOMAIN ring : ring[i].set = sent[ring[i].tick]
  /\ \A s \in net : /\ s.tick \in 1..now /\ s.baseline \in 0..now
                    /\ s = Encoded(SetAt(s.baseline), s.baseline, sent[s.tick], s.tick)

\* Wherever an acknowledgement is on its way, what it names has been applied or
\* is out of the ring for good.
AckInv == rejoins = 0 =>
  \A a \in acks \cup {acked, ack_tick} : InUse(ring, a) => a \in DOMAIN applied

IInv == TypeOK /\ NetInv /\ AckInv

LEMMA InitHolds == Init => IInv
<1> SUFFICES ASSUME Init PROVE IInv
  OBVIOUS
<1> USE DEF Init
<1>1. sent \in Seq(Sets) /\ now = 0
  BY DEF now
<1>2. ring \in Seq([tick : 1..now, set : Sets]) /\ Len(ring) = 0 /\ samples \in Seq(1..now) /\ Len(samples) = 0
  OBVIOUS
<1>3. TypeOK
  BY <1>1, <1>2, NoneIsSet DEF TypeOK
<1>4. NetInv
  BY DEF NetInv
<1>5. AckInv
  BY DEF AckInv, InUse
<1> QED BY <1>3, <1>4, <1>5 DEF IInv

LEMMA SeqMono ==
  ASSUME NEW S, NEW T, S \subseteq T, NEW q \in Seq(S)
  PROVE  q \in Seq(T)
<1>1. Len(q) \in Nat /\ q \in [1..Len(q) -> S]
  OBVIOUS
<1>2. q \in [1..Len(q) -> T]
  BY <1>1
<1> QED BY <1>1, <1>2, SeqDef

LEMMA EntryOf ==
  ASSUME NEW S, NEW q \in Seq(S), NEW j \in DOMAIN q
  PROVE  q[j] \in S
  OBVIOUS

LEMMA RingEntry ==
  ASSUME TypeOK, NEW j \in DOMAIN ring
  PROVE  ring[j].tick \in 1..now /\ ring[j].set \in Sets
<1>1. ring \in Seq([tick : 1..now, set : Sets])
  BY DEF TypeOK
<1>2. ring[j] \in [tick : 1..now, set : Sets]
  BY <1>1, EntryOf
<1> QED BY <1>2

\* The set diffed against is one that was sent, or none.
LEMMA BaselineSent ==
  ASSUME TypeOK, NetInv
  PROVE  LET b == Baseline(ring, acked)
         IN b.tick \in 0..now /\ b.set = SetAt(b.tick) /\ b.set \in Sets
<1>1. CASE InUse(ring, acked)
  <2> DEFINE i == CHOOSE i \in Held(ring, acked) : TRUE
  <2>1. i \in DOMAIN ring /\ ring[i].tick = acked /\ acked # 0
    BY <1>1 DEF InUse, Held
  <2>2. Baseline(ring, acked) = [tick |-> acked, set |-> ring[i].set]
    BY <1>1 DEF Baseline
  <2>3. ring[i].set = sent[acked] /\ ring[i].set \in Sets /\ acked \in 0..now
    BY <2>1, RingEntry DEF TypeOK, NetInv
  <2> HIDE DEF i
  <2> QED BY <2>1, <2>2, <2>3 DEF SetAt
<1>2. CASE ~InUse(ring, acked)
  BY <1>2, NoneIsSet DEF Baseline, SetAt, TypeOK, now
<1> QED BY <1>1, <1>2

\* Recording keeps the newest Ring entries.
LEMMA RecordedIs ==
  ASSUME NEW S, NEW r \in Seq(S), Len(r) <= Ring, NEW t, NEW set, [tick |-> t, set |-> set] \in S
  PROVE  /\ Recorded(r, t, set) \in Seq(S) /\ Len(Recorded(r, t, set)) <= Ring
         /\ \A i \in DOMAIN Recorded(r, t, set) :
              \/ Recorded(r, t, set)[i] = [tick |-> t, set |-> set]
              \/ \E j \in DOMAIN r : Recorded(r, t, set)[i] = r[j]
<1> DEFINE x == [tick |-> t, set |-> set]
           grown == Append(r, x)
<1>1. grown \in Seq(S) /\ Len(grown) = Len(r) + 1
  OBVIOUS
<1>2. \A i \in 1..Len(grown) : grown[i] = x \/ \E j \in DOMAIN r : grown[i] = r[j]
  OBVIOUS
<1>3. Recorded(r, t, set) = IF Len(grown) > Ring THEN Tail(grown) ELSE grown
  BY DEF Recorded
<1> HIDE DEF grown, x
<1>4. CASE Len(grown) > Ring
  <2>1. /\ Tail(grown) \in Seq(S) /\ Len(Tail(grown)) = Len(grown) - 1
        /\ \A i \in 1..Len(Tail(grown)) : Tail(grown)[i] = grown[i + 1]
    BY <1>1, <1>4
  <2> QED BY <1>1, <1>2, <1>3, <1>4, <2>1 DEF x
<1>5. CASE ~(Len(grown) > Ring)
  BY <1>1, <1>2, <1>3, <1>5 DEF x
<1> QED BY <1>4, <1>5

LEMMA SendStep ==
  ASSUME IInv, NEW new \in Sets, Send(new)
  PROVE  IInv'
<1> USE DEF IInv
<1> DEFINE b == Baseline(ring, acked)
           snap == Encoded(b.set, b.tick, new, now + 1)
<1>1. /\ now \in Nat /\ now' = now + 1 /\ now < MaxTick
      /\ sent' \in Seq(Sets)
  BY DEF Send, TypeOK, now
<1>a. ASSUME NEW i \in 1..now PROVE sent'[i] = sent[i]
  BY DEF Send, TypeOK, now
<1>b. sent'[now'] = new
  BY DEF Send, TypeOK, now
<1>c. 0..now \subseteq 0..now' /\ 1..now \subseteq 1..now' /\ now' \in 1..now'
  BY <1>1
<1>2. b.tick \in 0..now /\ b.set = SetAt(b.tick) /\ b.set \in Sets
  BY BaselineSent
<1>3. snap \in Snapshot /\ snap.tick = now + 1 /\ snap.baseline = b.tick
  <2>1. snap \in Snapshot
    BY <1>1, <1>2, EncodedType
  <2> QED BY <2>1 DEF Encoded
<1>4. net' = net \cup {snap} /\ ring' = Recorded(ring, now + 1, new)
  BY DEF Send
<1> HIDE DEF b, snap
<1>5. /\ ring' \in Seq([tick : 1..now', set : Sets]) /\ Len(ring') <= Ring
      /\ \A i \in DOMAIN ring' : \/ ring'[i] = [tick |-> now + 1, set |-> new]
                                \/ \E j \in DOMAIN ring : ring'[i] = ring[j]
  <2>1. ring \in Seq([tick : 1..now', set : Sets]) /\ Len(ring) <= Ring
    <3>1. [tick : 1..now, set : Sets] \subseteq [tick : 1..now', set : Sets]
      BY <1>c
    <3> QED BY <3>1, SeqMono DEF TypeOK
  <2>2. [tick |-> now + 1, set |-> new] \in [tick : 1..now', set : Sets]
    BY <1>1
  <2> DEFINE S == [tick : 1..now', set : Sets]
  <2> HIDE DEF S
  <2>3. ring \in Seq(S) /\ Len(ring) <= Ring /\ [tick |-> now + 1, set |-> new] \in S
    BY <2>1, <2>2 DEF S
  <2>4. /\ ring' \in Seq(S) /\ Len(ring') <= Ring
        /\ \A i \in DOMAIN ring' : \/ ring'[i] = [tick |-> now + 1, set |-> new]
                                  \/ \E j \in DOMAIN ring : ring'[i] = ring[j]
    BY <1>4, <2>3, RecordedIs
  <2> QED BY <2>4 DEF S
<1>6. TypeOK'
  <2>1. samples' \in Seq(1..now') /\ samples' = samples
    <3>1. samples \in Seq(1..now)
      BY DEF TypeOK
    <3>2. samples \in Seq(1..now')
      BY <1>c, <3>1, SeqMono
    <3> QED BY <3>2 DEF Send, client
  <2>2. net' \subseteq Snapshot /\ \A s \in net' : s.tick <= now'
    <3>1. ASSUME NEW s \in net PROVE s \in Snapshot /\ s.tick <= now'
      <4>1. s \in Snapshot /\ s.tick <= now
        BY DEF TypeOK
      <4> QED BY <4>1, <1>1 DEF Snapshot
    <3>2. snap.tick <= now'
      BY <1>1, <1>3
    <3> QED BY <1>3, <1>4, <3>1, <3>2
  <2>3. acks' = acks /\ acked' = acked /\ ack_tick' = ack_tick /\ view' = view /\ returns' = returns /\ rejoins' = rejoins
    BY DEF Send, client
  <2>4. now' <= MaxTick
    BY <1>1
  <2> QED BY <1>1, <1>5, <2>1, <2>2, <2>3, <2>4 DEF TypeOK
<1>7. NetInv'
  <2>1. ASSUME NEW t \in 0..now
        PROVE  SetAt(t)' = SetAt(t)
    BY <1>1, <1>a DEF SetAt
  <2>2. \A i \in DOMAIN ring' : ring'[i].set = sent'[ring'[i].tick]
    <3> SUFFICES ASSUME NEW i \in DOMAIN ring' PROVE ring'[i].set = sent'[ring'[i].tick]
      OBVIOUS
    <3>1. CASE ring'[i] = [tick |-> now + 1, set |-> new]
      BY <3>1, <1>1, <1>b
    <3>2. CASE \E j \in DOMAIN ring : ring'[i] = ring[j]
      <4>1. PICK j \in DOMAIN ring : ring'[i] = ring[j]
        BY <3>2
      <4>2. ring[j].tick \in 1..now /\ ring[j].set = sent[ring[j].tick]
        BY RingEntry DEF NetInv
      <4> QED BY <4>1, <4>2, <1>a
    <3> QED BY <1>5, <3>1, <3>2
  <2>3. ASSUME NEW s \in net'
        PROVE  /\ s.tick \in 1..now' /\ s.baseline \in 0..now'
               /\ s = Encoded(SetAt(s.baseline)', s.baseline, sent'[s.tick], s.tick)
    <3>1. CASE s \in net
      <4>1. s.tick \in 1..now /\ s.baseline \in 0..now
            /\ s = Encoded(SetAt(s.baseline), s.baseline, sent[s.tick], s.tick)
        BY <3>1 DEF NetInv
      <4>2. SetAt(s.baseline)' = SetAt(s.baseline) /\ sent'[s.tick] = sent[s.tick]
        BY <4>1, <2>1, <1>a
      <4> QED BY <4>1, <4>2, <1>c
    <3>2. CASE s = snap
      <4>1. PICK bt \in 0..now : bt = b.tick
        BY <1>2
      <4>2. s.tick = now + 1 /\ s.baseline = bt
        BY <3>2, <1>3, <4>1
      <4>3. s = Encoded(SetAt(bt), bt, new, now + 1)
        BY <3>2, <1>2, <4>1 DEF snap
      <4>4. SetAt(bt)' = SetAt(bt)
        BY <2>1
      <4> QED BY <4>2, <4>3, <4>4, <1>1, <1>b
    <3> QED BY <1>4, <3>1, <3>2
  <2> QED BY <2>2, <2>3 DEF NetInv
<1>8. AckInv'
  <2> SUFFICES ASSUME rejoins' = 0, NEW a \in (acks \cup {acked, ack_tick})', InUse(ring', a)
               PROVE  a \in DOMAIN applied'
    BY DEF AckInv
  <2>1. rejoins = 0 /\ a \in acks \cup {acked, ack_tick} /\ applied' = applied
    BY DEF Send, client
  <2>2. a <= now
    BY <2>1 DEF TypeOK
  <2>3. PICK i \in DOMAIN ring' : ring'[i].tick = a
    BY DEF InUse, Held
  <2>4. PICK j \in DOMAIN ring : ring'[i] = ring[j]
    <3>1. a # now + 1
      BY <2>1, <1>1 DEF TypeOK
    <3> QED BY <2>3, <3>1, <1>5
  <2>5. InUse(ring, a)
    BY <2>3, <2>4 DEF InUse, Held
  <2> QED BY <2>1, <2>5 DEF AckInv
<1> QED BY <1>6, <1>7, <1>8

\* What an action that leaves the authority's sets alone keeps of NetInv.
LEMMA NetKept ==
  ASSUME NetInv, sent' = sent, ring' = ring \/ ring' = << >>, net' \subseteq net
  PROVE  NetInv'
<1>1. now' = now
  BY DEF now
<1>2. \A t : SetAt(t)' = IF t' = 0 THEN None ELSE sent[t']
  BY DEF SetAt
<1>3. \A i \in DOMAIN ring' : ring'[i].set = sent'[ring'[i].tick]
  BY DEF NetInv
<1>4. ASSUME NEW s \in net'
      PROVE  /\ s.tick \in 1..now' /\ s.baseline \in 0..now'
             /\ s = Encoded(SetAt(s.baseline)', s.baseline, sent'[s.tick], s.tick)
  <2>1. /\ s.tick \in 1..now /\ s.baseline \in 0..now
        /\ s = Encoded(SetAt(s.baseline), s.baseline, sent[s.tick], s.tick)
    BY DEF NetInv
  <2>2. SetAt(s.baseline)' = SetAt(s.baseline)
    BY DEF SetAt
  <2> QED BY <1>1, <2>1, <2>2
<1> QED BY <1>3, <1>4 DEF NetInv

LEMMA RecvAckStep ==
  ASSUME IInv, NEW a \in acks, RecvAck(a)
  PROVE  IInv'
<1> USE DEF IInv
<1>1. /\ acks' = acks \ {a} /\ acked' \in {a, acked} /\ now' = now
      /\ UNCHANGED <<sent, ring, net, view, ack_tick, samples, applied, returns, rejoins>>
  BY DEF RecvAck, client, now
<1>2. TypeOK'
  BY <1>1 DEF TypeOK
<1>3. NetInv'
  BY <1>1, NetKept
<1>4. AckInv'
  BY <1>1 DEF AckInv, InUse, Held
<1> QED BY <1>2, <1>3, <1>4

LEMMA SendAckStep ==
  ASSUME IInv, SendAck
  PROVE  IInv'
<1> USE DEF IInv
<1>1. /\ acks' = acks \cup {ack_tick} /\ now' = now
      /\ UNCHANGED <<sent, ring, acked, net, view, ack_tick, samples, applied, returns, rejoins>>
  BY DEF SendAck, client, server, now
<1>2. TypeOK'
  BY <1>1 DEF TypeOK
<1>3. NetInv'
  BY <1>1, NetKept
<1>4. AckInv'
  BY <1>1 DEF AckInv, InUse, Held
<1> QED BY <1>2, <1>3, <1>4

\* A fresh ClientWorld, with or without a fresh encoder.
LEMMA FreshStep ==
  ASSUME IInv, Return \/ Rejoin
  PROVE  IInv'
<1> USE DEF IInv
<1>1. /\ now' = now /\ sent' = sent /\ net' = {} /\ acks' = acks
      /\ view' = None /\ ack_tick' = 0 /\ samples' = << >>
  BY DEF Return, Rejoin, FreshClient, server, now
<1>2. \/ ring' = << >> /\ acked' = 0 /\ returns' = returns + 1 /\ returns < MaxReturns /\ rejoins' = rejoins
      \/ ring' = ring /\ acked' = acked /\ rejoins' = rejoins + 1 /\ rejoins < MaxRejoins /\ returns' = returns
  BY DEF Return, Rejoin, Forgotten, server
<1>3. TypeOK'
  <2>1. ring' \in Seq([tick : 1..now', set : Sets]) /\ Len(ring') <= Ring
    <3> DEFINE S == [tick : 1..now, set : Sets]
    <3>1. << >> \in Seq(S) /\ Len(<< >>) = 0
      OBVIOUS
    <3>2. ring \in Seq(S) /\ Len(ring) <= Ring
      BY DEF TypeOK
    <3>3. S' = S
      BY <1>1
    <3> HIDE DEF S
    <3>4. ring' \in Seq(S) /\ Len(ring') <= Ring
      <4>0. Ring \in Nat
        BY DEF SnapshotsAssumption
      <4>1. CASE ring' = << >>
        BY <3>1, <4>0, <4>1
      <4>2. CASE ring' = ring
        BY <3>2, <4>2
      <4> QED BY <1>2, <4>1, <4>2
    <3> QED BY <3>3, <3>4 DEF S
  <2>2. samples' \in Seq(1..now') /\ Len(samples') = 0 /\ DOMAIN samples' = {}
    BY <1>1
  <2>3. /\ acked' \in 0..now' /\ returns' \in 0..MaxReturns
        /\ rejoins' \in 0..MaxRejoins /\ ack_tick' \in 0..now'
    <3>1. acked \in 0..now /\ returns \in 0..MaxReturns /\ rejoins \in 0..MaxRejoins
      BY DEF TypeOK
    <3>2. 0 \in 0..now
      <4>1. now \in Nat
        BY DEF TypeOK, now
      <4> QED BY <4>1
    <3>3. acked' \in 0..now' /\ ack_tick' \in 0..now'
      <4>1. acked' \in {0, acked}
        BY <1>2
      <4> QED BY <1>1, <3>1, <3>2, <4>1
    <3>4. returns' \in 0..MaxReturns /\ rejoins' \in 0..MaxRejoins
      BY <1>2, <3>1, SnapshotsAssumption
    <3> QED BY <3>3, <3>4
  <2>4. sent' \in Seq(Sets) /\ now' <= MaxTick /\ acks' \subseteq 0..now'
    BY <1>1 DEF TypeOK
  <2>5. view' \in Sets
    BY <1>1, NoneIsSet
  <2> QED BY <1>1, <2>1, <2>2, <2>3, <2>4, <2>5 DEF TypeOK
<1>4. NetInv'
  BY <1>1, <1>2, NetKept
<1>5. AckInv'
  <2>1. CASE ring' = << >>
    BY <2>1 DEF AckInv, InUse, Held
  <2>2. CASE rejoins' = rejoins + 1
    BY <2>2 DEF AckInv, TypeOK
  <2> QED BY <1>2, <2>1, <2>2
<1> QED BY <1>3, <1>4, <1>5

\* A sample goes in at the end, in order, and the buffer stays within its size.
LEMMA PushedIs ==
  ASSUME NEW S \in SUBSET Nat, NEW q \in Seq(S), Len(q) <= History, NEW t \in S,
         \A i, j \in DOMAIN q : i < j => q[i] < q[j]
  PROVE  /\ Pushed(q, t) \in Seq(S) /\ Len(Pushed(q, t)) <= History
         /\ \A i, j \in DOMAIN Pushed(q, t) : i < j => Pushed(q, t)[i] < Pushed(q, t)[j]
<1>1. CASE q # << >> /\ t <= q[Len(q)]
  BY <1>1 DEF Pushed
<1>2. CASE ~(q # << >> /\ t <= q[Len(q)])
  <2>0. \A i \in 1..Len(q) : q[i] \in Nat /\ q[i] <= q[Len(q)]
    <3> SUFFICES ASSUME NEW i \in 1..Len(q) PROVE q[i] \in Nat /\ q[i] <= q[Len(q)]
      OBVIOUS
    <3>1. Len(q) \in DOMAIN q /\ i \in DOMAIN q
      OBVIOUS
    <3>2. q[i] \in Nat /\ q[Len(q)] \in Nat
      BY <3>1, EntryOf
    <3>3. CASE i = Len(q)
      BY <3>2, <3>3
    <3>4. CASE i < Len(q)
      BY <3>1, <3>2, <3>4
    <3> QED BY <3>3, <3>4
  <2>1. \A i \in 1..Len(q) : q[i] < t
    <3>1. CASE q = << >>
      BY <3>1
    <3>2. CASE q # << >>
      <4>1. Len(q) \in 1..Len(q)
        BY <3>2
      <4>2. q[Len(q)] \in Nat /\ t \in Nat
        BY <2>0, <4>1
      <4>3. q[Len(q)] < t
        BY <1>2, <3>2, <4>2
      <4> QED BY <2>0, <4>2, <4>3
    <3> QED BY <3>1, <3>2
  <2>2. CASE Len(q) = History
    <3> DEFINE z == Append(Tail(q), t)
    <3>1. q # << >>
      BY <2>2
    <3>2. /\ Tail(q) \in Seq(S) /\ Len(Tail(q)) = Len(q) - 1
          /\ \A i \in 1..Len(Tail(q)) : Tail(q)[i] = q[i + 1]
      BY <3>1
    <3>3. /\ z \in Seq(S) /\ Len(z) = Len(q) /\ z[Len(q)] = t
          /\ \A i \in 1..(Len(q) - 1) : z[i] = q[i + 1]
      BY <3>2
    <3>4. Pushed(q, t) = z
      BY <1>2, <2>2 DEF Pushed
    <3> HIDE DEF z
    <3>5. \A i, j \in 1..Len(q) : i < j => z[i] < z[j]
      <4> SUFFICES ASSUME NEW i \in 1..Len(q), NEW j \in 1..Len(q), i < j PROVE z[i] < z[j]
        OBVIOUS
      <4>1. i \in 1..(Len(q) - 1) /\ z[i] = q[i + 1] /\ i + 1 \in 1..Len(q)
        BY <3>3
      <4>2. CASE j = Len(q)
        BY <2>1, <3>3, <4>1, <4>2
      <4>3. CASE j # Len(q)
        <5>1. z[j] = q[j + 1] /\ j + 1 \in 1..Len(q)
          BY <3>3, <4>3
        <5>2. q[i + 1] < q[j + 1]
          BY <4>1, <5>1
        <5> QED BY <4>1, <5>1, <5>2
      <4> QED BY <4>2, <4>3
    <3> QED BY <2>2, <3>3, <3>4, <3>5
  <2>3. CASE Len(q) # History
    <3> DEFINE z == Append(q, t)
    <3>1. /\ z \in Seq(S) /\ Len(z) = Len(q) + 1 /\ z[Len(q) + 1] = t
          /\ \A i \in 1..Len(q) : z[i] = q[i]
      OBVIOUS
    <3>2. Pushed(q, t) = z
      BY <1>2, <2>3 DEF Pushed
    <3> HIDE DEF z
    <3>3. \A i, j \in 1..Len(z) : i < j => z[i] < z[j]
      BY <2>1, <3>1
    <3> QED BY <2>3, <3>1, <3>2, <3>3
  <2> QED BY <2>2, <2>3
<1> QED BY <1>1, <1>2

\* Every snapshot in flight was encoded from sets that were sent.
LEMMA FlightGenuine ==
  ASSUME TypeOK, NetInv, NEW s \in net
  PROVE  /\ Genuine(s) /\ s.tick \in 1..now
         /\ SetAt(s.baseline) \in Sets /\ sent[s.tick] \in Sets
         /\ s = Encoded(SetAt(s.baseline), s.baseline, sent[s.tick], s.tick)
<1>1. /\ s.tick \in 1..now /\ s.baseline \in 0..now
      /\ s = Encoded(SetAt(s.baseline), s.baseline, sent[s.tick], s.tick)
  BY DEF NetInv
<1>2. sent \in Seq(Sets) /\ \A t \in 1..now : sent[t] \in Sets
  BY DEF TypeOK, now
<1>3. SetAt(s.baseline) \in Sets
  BY <1>1, <1>2, NoneIsSet DEF SetAt, now
<1> QED BY <1>1, <1>2, <1>3 DEF Genuine

LEMMA RecvSnapshotStep ==
  ASSUME IInv, NEW s \in net, RecvSnapshot(s)
  PROVE  IInv'
<1> USE DEF IInv
<1>1. /\ net' = net \ {s} /\ view' = Applied(view, s) /\ samples' = Pushed(samples, s.tick)
      /\ ack_tick' \in {s.tick, ack_tick} /\ now' = now
      /\ UNCHANGED <<sent, ring, acked, acks, returns, rejoins>>
  BY DEF RecvSnapshot, server, now
<1>2. s.tick \in 1..now /\ Genuine(s)
  BY FlightGenuine
<1>3. DOMAIN applied' = DOMAIN applied \cup {s.tick}
  BY DEF RecvSnapshot
<1>4. TypeOK'
  <2>1. view' \in Sets
    BY <1>1, <1>2, AppliedType DEF TypeOK
  <2>2. /\ samples' \in Seq(1..now) /\ Len(samples') <= History
        /\ \A i, j \in DOMAIN samples' : i < j => samples'[i] < samples'[j]
    <3>1. 1..now \in SUBSET Nat
      OBVIOUS
    <3>2. /\ samples \in Seq(1..now) /\ Len(samples) <= History
          /\ \A i, j \in DOMAIN samples : i < j => samples[i] < samples[j]
      BY DEF TypeOK
    <3> QED BY <1>1, <1>2, <3>1, <3>2, PushedIs
  <2> QED BY <1>1, <1>2, <2>1, <2>2 DEF TypeOK
<1>5. NetInv'
  BY <1>1, NetKept
<1>6. AckInv'
  BY <1>1, <1>3 DEF AckInv, InUse, Held
<1> QED BY <1>4, <1>5, <1>6

LEMMA StepHolds == IInv /\ [Next]_vars => IInv'
<1> SUFFICES ASSUME IInv, [Next]_vars PROVE IInv'
  OBVIOUS
<1>1. CASE \E new \in Sets : Send(new)
  BY <1>1, SendStep
<1>2. CASE \E a \in acks : RecvAck(a)
  BY <1>2, RecvAckStep
<1>3. CASE \E s \in net : RecvSnapshot(s)
  BY <1>3, RecvSnapshotStep
<1>4. CASE SendAck
  BY <1>4, SendAckStep
<1>5. CASE Return \/ Rejoin
  BY <1>5, FreshStep
<1>6. CASE UNCHANGED vars
  <2> USE DEF vars, server, client
  <2>1. TypeOK'
    BY <1>6 DEF IInv, TypeOK, now
  <2>2. NetInv'
    BY <1>6, NetKept DEF IInv
  <2>3. AckInv'
    BY <1>6 DEF IInv, AckInv, InUse, Held
  <2> QED BY <2>1, <2>2, <2>3 DEF IInv
<1> QED BY <1>1, <1>2, <1>3, <1>4, <1>5, <1>6 DEF Next

-----------------------------------------------------------------------------
(* The theorems. *)

\* Every variable keeps its type, the ring and the sample buffer their sizes,
\* and the samples their order (baseline.rs, interp.rs).
THEOREM TypeCorrect == Spec => []TypeOK
<1>1. IInv => TypeOK
  BY DEF IInv
<1> QED BY <1>1, InitHolds, StepHolds, PTL DEF Spec

\* A delta is computed only against a snapshot this ClientWorld has applied
\* (SnapshotEncoder::ack and forget, ClientWorld::apply_snapshot).
THEOREM AckHonest == Spec => []BaselineApplied
<1>1. IInv => BaselineApplied
  BY DEF IInv, AckInv, BaselineApplied
<1> QED BY <1>1, InitHolds, StepHolds, PTL DEF Spec

\* A snapshot applied to its own baseline gives exactly what the authority sent
\* (EntityDelta::diff and apply, SnapshotEncoder::encode, WorldView::apply).
THEOREM DeltaExact == Spec => ExactOnItsBaseline
<1> DEFINE Exact == \A s \in net \ net' :
              (returns' = returns /\ rejoins' = rejoins
                /\ view = (IF s.baseline = 0 THEN None ELSE sent[s.baseline]))
              => view' = sent[s.tick]
<1>1. IInv /\ [Next]_vars => [Exact]_vars
  <2> SUFFICES ASSUME IInv, Next, NEW s \in net \ net', returns' = returns, rejoins' = rejoins,
                      view = SetAt(s.baseline)
               PROVE  view' = sent[s.tick]
    BY DEF SetAt
  <2>1. returns \in Nat /\ rejoins \in Nat
    BY DEF IInv, TypeOK
  <2>2. RecvSnapshot(s)
    <3>1. \A new \in Sets : ~Send(new)
      BY DEF Send
    <3>2. \A a \in acks : ~RecvAck(a)
      BY DEF RecvAck
    <3>3. ~SendAck /\ ~Return /\ ~Rejoin
      BY <2>1 DEF SendAck, Return, Rejoin
    <3>4. PICK r \in net : RecvSnapshot(r)
      BY <3>1, <3>2, <3>3 DEF Next
    <3>5. r = s
      BY <3>4 DEF RecvSnapshot
    <3> QED BY <3>4, <3>5
  <2>3. view' = Applied(SetAt(s.baseline), s)
    BY <2>2 DEF RecvSnapshot
  <2>4. /\ SetAt(s.baseline) \in Sets /\ sent[s.tick] \in Sets
        /\ s = Encoded(SetAt(s.baseline), s.baseline, sent[s.tick], s.tick)
    BY FlightGenuine DEF IInv
  <2> QED BY <2>3, <2>4, RoundTrip
<1>2. Spec => [][Exact]_vars
  BY <1>1, InitHolds, StepHolds, PTL DEF Spec
<1> QED BY <1>2 DEF ExactOnItsBaseline

\* For any sizes and any channel the buffers keep size and order, and the
\* baseline in use has been applied by the client.
THEOREM BaselinesStaySound == Spec => []BaselinesSound
<1>1. TypeOK /\ BaselineApplied => BaselinesSound
  BY DEF BaselinesSound
<1> QED BY <1>1, TypeCorrect, AckHonest, PTL
=============================================================================
