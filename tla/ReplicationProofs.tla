-------------------------- MODULE ReplicationProofs --------------------------
(***************************************************************************)
(* Theorems about Replication, for every fleet, factor, cadence, window,   *)
(* TTL and cap, however often processes crash and however messages are     *)
(* lost, delayed or reordered.                                             *)
(***************************************************************************)
EXTENDS Replication, TLAPS

-----------------------------------------------------------------------------
(* What the helpers return. *)

\* An authority's new checkpoint of a player it hosts is well formed.
LEMMA CheckpointType ==
  ASSUME TypeOK, NEW n \in Node, NEW p \in Present(n)
  PROVE  CheckpointOf(n, p) \in Checkpoint
<1>1. p \in Player /\ hosted[n][p] # 0 BY DEF Present
<1>2. play[p] + 1 \in Nat \ {0} /\ seqs[n][p] + 1 \in Nat \ {0} /\ life[n] \in Nat
  BY <1>1 DEF TypeOK
<1> QED BY <1>1, <1>2 DEF CheckpointOf, Checkpoint, Ticked, next_seq

\* A round consists of well-formed messages that carry only the checkpoints
\* of players the authority hosts, and no acks.
LEMMA RoundType ==
  ASSUME TypeOK, NEW n \in Node, NEW out \in Rounds(n)
  PROVE  /\ out \subseteq Message
         /\ \A m \in out : /\ m.type = "ReplicateCheckpoint" /\ m.acked = {}
                           /\ \E p \in Present(n) : m.checkpoints = {CheckpointOf(n, p)}
<1> SUFFICES ASSUME NEW m \in out
             PROVE  /\ m \in Message
                    /\ m.type = "ReplicateCheckpoint" /\ m.acked = {}
                    /\ \E p \in Present(n) : m.checkpoints = {CheckpointOf(n, p)}
  OBVIOUS
<1>1. PICK p \in Present(n), h \in Present(n) :
        m = [type |-> "ReplicateCheckpoint", to |-> h, from |-> n,
             checkpoints |-> {CheckpointOf(n, p)}, acked |-> {}]
  BY DEF Rounds
<1>2. CheckpointOf(n, p) \in Checkpoint BY CheckpointType
<1>3. h \in Node BY ConstantsAssumption DEF Present
<1> QED BY <1>1, <1>2, <1>3 DEF Message

\* Storing a checkpoint leaves a set of replicas whose checkpoints were held
\* or are the new one.
LEMMA StoreType ==
  ASSUME TypeOK, NEW h \in Node, NEW c \in Checkpoint, NEW kept \in StoreResults(h, c)
  PROVE  kept \subseteq Replica /\ Ckpts(kept) \subseteq Ckpts(store[h]) \cup {c}
<1>1. store[h] \subseteq Replica /\ global_tick[h] \in Nat BY DEF TypeOK
<1>2. [ckpt |-> c, touch |-> global_tick[h]] \in Replica BY <1>1 DEF Replica
<1>3. kept \subseteq store[h] \cup {[ckpt |-> c, touch |-> global_tick[h]]}
  BY DEF StoreResults, Oldest
<1> QED BY <1>1, <1>2, <1>3 DEF Ckpts

\* What a holder discards are copies of players.
LEMMA DiscardedType ==
  ASSUME TypeOK, NEW h \in Node, NEW kept
  PROVE  Discarded(h, kept) \subseteq Node \X Player
<1>1. \A c \in Ckpts(store[h]) : c.player \in Player
  BY DEF TypeOK, Ckpts, Replica, Checkpoint
<1> QED BY <1>1 DEF Discarded

-----------------------------------------------------------------------------
(* Type correctness. *)

LEMMA TypeStep == ASSUME TypeOK, NEW n \in Node, Step(n) PROVE TypeOK'
<1> USE DEF TypeOK
<1>1. Ticked(n) \in [Player -> Nat] BY DEF Ticked
<1>2. \A p \in Player : Imported(n, p) \in Nat
  <2> SUFFICES ASSUME NEW p \in Player PROVE Imported(n, p) \in Nat OBVIOUS
  <2>1. CASE \E c \in best[n] : c.player = p
    <3>1. PICK c : c = CHOOSE d \in best[n] : d.player = p OBVIOUS
    <3>2. c \in Checkpoint BY <2>1, <3>1
    <3> QED BY <2>1, <3>1, <3>2 DEF Imported, Checkpoint
  <2>2. CASE ~ \E c \in best[n] : c.player = p BY <2>2, <1>1 DEF Imported
  <2> QED BY <2>1, <2>2
<1>3. net' \subseteq Message BY RoundType DEF Step
<1>4. seqs' \in [Node -> [Player -> Nat]]
  <2>1. [p \in Player |-> IF p \in Present(n) THEN next_seq(n, p) ELSE seqs[n][p]]
          \in [Player -> Nat]
    BY DEF next_seq
  <2> QED BY <2>1 DEF Step
<1>5. hosted' \in [Node -> [Player -> Nat]]
  <2>1. [p \in Player |-> Imported(n, p)] \in [Player -> Nat] BY <1>2
  <2>2. CASE RecoveryDue(n, global_tick[n] + 1) BY <2>1, <2>2 DEF Step
  <2>3. CASE ~RecoveryDue(n, global_tick[n] + 1) BY <1>1, <2>3 DEF Step
  <2> QED BY <2>2, <2>3
<1>6. owns' \subseteq Node /\ recovering' \subseteq Node
  BY DEF Step
<1>7. best' \in [Node -> SUBSET Checkpoint] /\ heard' \in [Node -> SUBSET Checkpoint]
  BY DEF Step
<1>8. store' \in [Node -> SUBSET Replica] BY DEF Step, Unexpired
<1>9. dropped' \subseteq Node \X Player BY DiscardedType DEF Step
<1>10. global_tick' \in [Node -> Nat] /\ play' \in [Player -> Nat] BY DEF Step
<1>11. UNCHANGED <<up, life, coverage, subs, deadline, spent>> BY DEF Step
<1> QED BY <1>3, <1>4, <1>5, <1>6, <1>7, <1>8, <1>9, <1>10, <1>11

LEMMA TypeRecv ==
  ASSUME TypeOK, NEW m \in net,
         RecvCheckpoint(m) \/ RecvStored(m) \/ RecvRequest(m) \/ RecvBundle(m)
  PROVE  TypeOK'
<1> USE DEF TypeOK
<1>0. /\ m \in Message /\ m.to \in Node /\ m.from \in Node
      /\ m.checkpoints \subseteq Checkpoint /\ m.acked \subseteq Player \X Nat
  BY DEF Message
<1>1. CASE RecvCheckpoint(m)
  <2>0. PICK c \in m.checkpoints :
          \E kept \in StoreResults(m.to, c) : Stores(m, c, kept)
    BY <1>1 DEF RecvCheckpoint
  <2>1. PICK kept \in StoreResults(m.to, c) : Stores(m, c, kept) BY <2>0
  <2>2. c \in Checkpoint /\ kept \subseteq Replica BY <1>0, <2>1, StoreType
  <2>3. acks_for(kept) \subseteq Player \X Nat
    BY <2>2 DEF acks_for, Ckpts, Replica, Checkpoint
  <2>4. [type |-> "ReplicaStored", to |-> m.from, from |-> m.to,
         checkpoints |-> {}, acked |-> acks_for(kept)] \in Message
    BY <1>0, <2>3 DEF Message
  <2>5. net' \subseteq Message BY <2>1, <2>4 DEF Stores, Transmit
  <2>6. store' \in [Node -> SUBSET Replica] BY <1>0, <2>1, <2>2 DEF Stores
  <2>7. dropped' \subseteq Node \X Player BY <1>0, <2>1, DiscardedType DEF Stores
  <2>8. /\ subs' \subseteq Node
        /\ UNCHANGED <<up, life, global_tick, owns, hosted, seqs, coverage, gather,
                       play, spent>>
    BY <1>0, <1>1 DEF RecvCheckpoint
  <2> QED BY <2>5, <2>6, <2>7, <2>8 DEF gather
<1>2. CASE RecvStored(m)
  <2> DEFINE Raising(p) == {s \in {a[2] : a \in m.acked} :
                  <<p, s>> \in m.acked /\ s > coverage[m.to][p][m.from]}
             slots(p) == IF Raising(p) = {} THEN coverage[m.to][p]
                         ELSE [coverage[m.to][p] EXCEPT
                                 ![m.from] = CHOOSE s \in Raising(p) : TRUE]
  <2>1. \A p \in Player : Raising(p) \subseteq Nat BY <1>0
  <2>2. \A p \in Player : slots(p) \in [Node -> Nat]
    <3> SUFFICES ASSUME NEW p \in Player PROVE slots(p) \in [Node -> Nat] OBVIOUS
    <3>1. CASE Raising(p) = {} BY <1>0, <3>1
    <3>2. CASE Raising(p) # {}
      <4>1. (CHOOSE s \in Raising(p) : TRUE) \in Nat BY <2>1, <3>2
      <4> HIDE DEF Raising
      <4> QED BY <1>0, <3>2, <4>1
    <3> QED BY <3>1, <3>2
  <2>3. coverage' = [coverage EXCEPT ![m.to] = [p \in Player |-> slots(p)]]
    BY <1>2 DEF RecvStored
  <2> HIDE DEF slots
  <2>4. coverage' \in [Node -> [Player -> [Node -> Nat]]] BY <1>0, <2>2, <2>3
  <2>5. /\ net' \subseteq net
        /\ UNCHANGED <<up, life, global_tick, owns, hosted, seqs, store, dropped, subs,
                       gather, play, spent>>
    BY <1>2 DEF RecvStored
  <2> QED BY <2>4, <2>5 DEF gather
<1>3. CASE RecvRequest(m)
  <2>1. bundle_for(m.to) \subseteq Checkpoint
    BY <1>0 DEF bundle_for, Ckpts, Replica
  <2>2. [type |-> "ReplicaBundle", to |-> m.from, from |-> m.to,
         checkpoints |-> bundle_for(m.to), acked |-> {}] \in Message
    BY <1>0, <2>1 DEF Message
  <2>3. net' \subseteq Message BY <1>3, <2>2 DEF RecvRequest, Transmit
  <2>4. UNCHANGED <<up, life, process, store, dropped, gather, play, spent>>
    BY <1>3 DEF RecvRequest
  <2> QED BY <2>3, <2>4 DEF process, gather
<1>4. CASE RecvBundle(m)
  <2>1. best' \in [Node -> SUBSET Checkpoint] /\ heard' \in [Node -> SUBSET Checkpoint]
    <3> DEFINE kept == {c \in m.checkpoints : Keeps(m.to, c)}
               folded == {b \in best[m.to] : \A c \in kept : c.player # b.player} \cup kept
    <3>1. folded \subseteq Checkpoint /\ heard[m.to] \cup m.checkpoints \subseteq Checkpoint
      BY <1>0
    <3>2. \/ /\ best' = [best EXCEPT ![m.to] = folded]
             /\ heard' = [heard EXCEPT ![m.to] = heard[m.to] \cup m.checkpoints]
          \/ UNCHANGED <<best, heard>>
      BY <1>4 DEF RecvBundle
    <3>3. CASE UNCHANGED <<best, heard>> BY <3>3
    <3>4. CASE /\ best' = [best EXCEPT ![m.to] = folded]
               /\ heard' = [heard EXCEPT ![m.to] = heard[m.to] \cup m.checkpoints]
      <4> HIDE DEF folded
      <4> QED BY <1>0, <3>1, <3>4
    <3> QED BY <3>2, <3>3, <3>4
  <2>2. /\ net' \subseteq net
        /\ UNCHANGED <<up, life, process, store, dropped, recovering, deadline, play,
                       spent>>
    BY <1>4 DEF RecvBundle
  <2> QED BY <2>1, <2>2 DEF process
<1> QED BY <1>1, <1>2, <1>3, <1>4

LEMMA SpendType == ASSUME spent \in [Rare -> Nat], NEW S, Spend(S)
                   PROVE  spent' \in [Rare -> Nat]
  BY DEF Spend

LEMMA TypeRare ==
  ASSUME TypeOK, NEW n \in Node,
         \/ Claim(n) \/ Retire(n) \/ Crash(n) \/ Restart(n)
         \/ \E p \in Player : Admit(n, p) \/ Remove(n, p)
  PROVE  TypeOK'
<1> USE DEF TypeOK
<1>0. NoPlayers \in [Player -> Nat] /\ NoCoverage \in [Player -> [Node -> Nat]]
  BY DEF NoPlayers, NoCoverage
<1>1. CASE Claim(n)
  <2> DEFINE asks == {[type |-> "RequestReplicas", to |-> h, from |-> n,
                        checkpoints |-> {}, acked |-> {}] : h \in subs \cup {n}}
  <2>1. asks \subseteq Message BY DEF Message
  <2>2. net' \subseteq Message
    <3>1. Transmit(net, asks) BY <1>1 DEF Claim
    <3> HIDE DEF asks
    <3> QED BY <2>1, <3>1 DEF Transmit
  <2>3. deadline' \in [Node -> Nat]
    <3>1. Window \in Nat BY ConstantsAssumption
    <3>2. deadline' = [deadline EXCEPT ![n] = global_tick[n] + Window] BY <1>1 DEF Claim
    <3> QED BY <3>1, <3>2
  <2>4. spent' \in [Rare -> Nat] BY <1>1, SpendType DEF Claim
  <2> QED BY <1>1, <2>2, <2>3, <2>4 DEF Claim
<1>2. CASE Retire(n)
  <2>1. spent' \in [Rare -> Nat] BY <1>2, SpendType DEF Retire
  <2> QED BY <1>0, <1>2, <2>1 DEF Retire, gather
<1>3. CASE Crash(n)
  <2>1. spent' \in [Rare -> Nat] BY <1>3, SpendType DEF Crash
  <2>2. dropped' \subseteq Node \X Player
    BY <1>3, DiscardedType DEF Crash
  <2> QED BY <1>0, <1>3, <2>1, <2>2 DEF Crash
<1>4. CASE Restart(n) BY <1>4 DEF Restart, process, gather
<1>5. CASE \E p \in Player : Admit(n, p)
  <2>1. PICK p \in Player : Admit(n, p) BY <1>5
  <2>2. spent' \in [Rare -> Nat] BY <2>1, SpendType DEF Admit
  <2>3. hosted' \in [Node -> [Player -> Nat]] /\ play' \in [Player -> Nat]
    BY <2>1 DEF Admit
  <2> QED BY <2>1, <2>2, <2>3 DEF Admit, gather
<1>6. CASE \E p \in Player : Remove(n, p)
  <2>1. PICK p \in Player : Remove(n, p) BY <1>6
  <2>2. spent' \in [Rare -> Nat] BY <2>1, SpendType DEF Remove
  <2>3. hosted' \in [Node -> [Player -> Nat]] BY <2>1 DEF Remove
  <2> QED BY <2>1, <2>2, <2>3 DEF Remove, gather
<1> QED BY <1>1, <1>2, <1>3, <1>4, <1>5, <1>6

LEMMA TypeInit == Init => TypeOK
  BY ConstantsAssumption DEF Init, TypeOK, NoPlayers, NoCoverage

LEMMA TypeNext == TypeOK /\ [Next]_vars => TypeOK'
<1> SUFFICES ASSUME TypeOK, [Next]_vars PROVE TypeOK' OBVIOUS
<1>1. CASE UNCHANGED vars BY <1>1 DEF TypeOK, vars, process, gather
<1>2. CASE Next BY <1>2, TypeStep, TypeRecv, TypeRare DEF Next
<1> QED BY <1>1, <1>2

\* Every state of the fleet is well formed: no step stores, sends or recovers
\* anything but checkpoints of players with a positive sequence number.
THEOREM TypeCorrect == Spec => []TypeOK
  BY TypeInit, TypeNext, PTL DEF Spec

-----------------------------------------------------------------------------
(* Where checkpoints come from: a step copies what exists or issues new. *)

\* Where a copy can be.
LEMMA CopiesWhere ==
  ASSUME NEW held, NEW gathered, NEW got, NEW flying, NEW c
  PROVE  c \in CopiesIn(held, gathered, got, flying) <=>
           \/ \E n \in Node : c \in Ckpts(held[n]) \/ c \in gathered[n] \/ c \in got[n]
           \/ \E m \in flying : c \in m.checkpoints
<1> DEFINE at(n) == Ckpts(held[n]) \cup gathered[n] \cup got[n]
           both == UNION {at(n) : n \in Node}
           sent == UNION {m.checkpoints : m \in flying}
<1>1. CopiesIn(held, gathered, got, flying) = both \cup sent BY DEF CopiesIn
<1>2. c \in sent <=> \E m \in flying : c \in m.checkpoints OBVIOUS
<1>3. c \in both <=> \E n \in Node : c \in at(n)
  <2> HIDE DEF at
  <2> QED OBVIOUS
<1>4. \A n \in Node : c \in at(n) <=> c \in Ckpts(held[n]) \/ c \in gathered[n] \/ c \in got[n]
  OBVIOUS
<1> HIDE DEF at, both, sent
<1> QED BY <1>1, <1>2, <1>3, <1>4

\* The copies now, and the copies after a step.
LEMMA CopiesNow ==
  \A c : c \in Copies <=>
    \/ \E n \in Node : c \in Ckpts(store[n]) \/ c \in best[n] \/ c \in heard[n]
    \/ \E m \in net : c \in m.checkpoints
  BY CopiesWhere DEF Copies

LEMMA CopiesNext ==
  \A c : c \in Copies' <=>
    \/ \E n \in Node : c \in Ckpts(store'[n]) \/ c \in best'[n] \/ c \in heard'[n]
    \/ \E m \in net' : c \in m.checkpoints
<1>1. Copies' = CopiesIn(store', best', heard', net') BY DEF Copies
<1> QED BY <1>1, CopiesWhere

LEMMA CopiesType == ASSUME TypeOK PROVE Copies \subseteq Checkpoint
<1> SUFFICES ASSUME NEW c \in Copies PROVE c \in Checkpoint OBVIOUS
<1>1. \/ \E n \in Node : c \in Ckpts(store[n]) \/ c \in best[n] \/ c \in heard[n]
      \/ \E m \in net : c \in m.checkpoints
  BY CopiesNow
<1>2. CASE \E n \in Node : c \in Ckpts(store[n]) BY <1>2 DEF TypeOK, Ckpts, Replica
<1>3. CASE \E n \in Node : c \in best[n] \/ c \in heard[n] BY <1>3 DEF TypeOK
<1>4. CASE \E m \in net : c \in m.checkpoints BY <1>4 DEF TypeOK, Message
<1> QED BY <1>1, <1>2, <1>3, <1>4

\* Receiving makes no checkpoint that was not held or in flight.
LEMMA CopiesRecv ==
  ASSUME TypeOK, NEW m \in net,
         RecvCheckpoint(m) \/ RecvStored(m) \/ RecvRequest(m) \/ RecvBundle(m)
  PROVE  Copies' \subseteq Copies
<1>0. m \in Message /\ m.to \in Node /\ m.from \in Node /\ m.checkpoints \subseteq Copies
  BY CopiesNow DEF TypeOK, Message
<1>1. CASE RecvCheckpoint(m)
  <2>1. PICK c \in m.checkpoints :
          \E kept \in StoreResults(m.to, c) : Stores(m, c, kept)
    BY <1>1 DEF RecvCheckpoint
  <2>2. PICK kept \in StoreResults(m.to, c) : Stores(m, c, kept) BY <2>1
  <2>3. c \in Checkpoint BY <1>0, <2>1 DEF Message
  <2>4. Ckpts(kept) \subseteq Copies
    BY <1>0, <2>1, <2>2, <2>3, StoreType, CopiesNow, CopiesNext
  <2>5. \A n \in Node : Ckpts(store'[n]) \subseteq Copies
    <3>1. store' = [store EXCEPT ![m.to] = kept] BY <2>2 DEF Stores
    <3>2. \A n \in Node : Ckpts(store[n]) \subseteq Copies BY CopiesNow
    <3>3. \A n \in Node : store'[n] = IF n = m.to THEN kept ELSE store[n]
      BY <3>1 DEF TypeOK
    <3> QED BY <2>4, <3>2, <3>3
  <2>6. \A x \in net' : x.checkpoints \subseteq Copies
    <3>1. \A x \in net' : x \in net \/ x.checkpoints = {} BY <2>2 DEF Stores, Transmit
    <3> QED BY <3>1, CopiesNow, CopiesNext
  <2>7. UNCHANGED <<best, heard>> BY <1>1 DEF RecvCheckpoint, gather
  <2>8. \A n \in Node : best[n] \subseteq Copies /\ heard[n] \subseteq Copies BY CopiesNow
  <2> QED BY <2>5, <2>6, <2>7, <2>8, CopiesNow, CopiesNext DEF Ckpts
<1>2. CASE RecvStored(m)
  <2>1. UNCHANGED <<best, heard, store>> /\ net' \subseteq net
    BY <1>2 DEF RecvStored, gather
  <2> QED BY <2>1, CopiesNow, CopiesNext DEF Ckpts
<1>3. CASE RecvRequest(m)
  <2>1. UNCHANGED <<best, heard, store>>
    BY <1>3 DEF RecvRequest, gather
  <2>2. \A x \in net' : x \in net \/ x.checkpoints = Ckpts(store[m.to])
    BY <1>3 DEF RecvRequest, Transmit, bundle_for
  <2>3. Ckpts(store[m.to]) \subseteq Copies BY <1>0, CopiesNow, CopiesNext
  <2>4. \A x \in net' : x.checkpoints \subseteq Copies BY <2>2, <2>3, CopiesNow, CopiesNext
  <2> QED BY <2>1, <2>4, CopiesNow, CopiesNext DEF Ckpts
<1>4. CASE RecvBundle(m)
  <2>1. store' = store /\ net' \subseteq net BY <1>4 DEF RecvBundle
  <2>2. \A n \in Node : best'[n] \subseteq Copies /\ heard'[n] \subseteq Copies
    <3>0. \A n \in Node : best[n] \subseteq Copies /\ heard[n] \subseteq Copies BY CopiesNow
    <3> DEFINE kept == {c \in m.checkpoints : Keeps(m.to, c)}
               folded == {b \in best[m.to] : \A c \in kept : c.player # b.player} \cup kept
    <3>1. folded \subseteq Copies BY <1>0, <3>0
    <3>2. \/ /\ best' = [best EXCEPT ![m.to] = folded]
             /\ heard' = [heard EXCEPT ![m.to] = heard[m.to] \cup m.checkpoints]
          \/ UNCHANGED <<best, heard>>
      BY <1>4 DEF RecvBundle
    <3>3. CASE UNCHANGED <<best, heard>> BY <3>0, <3>3
    <3>4. CASE /\ best' = [best EXCEPT ![m.to] = folded]
               /\ heard' = [heard EXCEPT ![m.to] = heard[m.to] \cup m.checkpoints]
      <4> HIDE DEF folded
      <4>1. \A n \in Node : /\ best'[n] = IF n = m.to THEN folded ELSE best[n]
                            /\ heard'[n] = IF n = m.to THEN heard[n] \cup m.checkpoints
                                           ELSE heard[n]
        BY <3>4 DEF TypeOK
      <4> QED BY <1>0, <3>0, <3>1, <4>1
    <3> QED BY <3>2, <3>3, <3>4
  <2> QED BY <2>1, <2>2, CopiesNow, CopiesNext DEF Ckpts
<1> QED BY <1>1, <1>2, <1>3, <1>4

LEMMA CopiesRare ==
  ASSUME TypeOK, NEW n \in Node,
         \/ Claim(n) \/ Retire(n) \/ Crash(n) \/ Restart(n)
         \/ \E p \in Player : Admit(n, p) \/ Remove(n, p)
  PROVE  Copies' \subseteq Copies
<1>1. \A k \in Node : store'[k] \subseteq store[k]
  BY DEF TypeOK, Claim, Retire, Crash, Restart, Admit, Remove
<1>2. \A k \in Node : best'[k] \subseteq best[k] /\ heard'[k] \subseteq heard[k]
  BY DEF TypeOK, Claim, Retire, Crash, Restart, Admit, Remove, gather
<1>3. \A m \in net' : m \in net \/ m.checkpoints = {}
  <2>1. CASE Claim(n) BY <2>1 DEF Claim, Transmit
  <2>2. CASE ~Claim(n)
    <3>1. net' = net BY <2>2 DEF Retire, Crash, Restart, Admit, Remove
    <3> QED BY <3>1
  <2> QED BY <2>1, <2>2
<1> QED BY <1>1, <1>2, <1>3, CopiesNow, CopiesNext DEF Ckpts

\* A tick issues at most the next checkpoint of each player it hosts.
LEMMA CopiesStep ==
  ASSUME TypeOK, NEW n \in Node, Step(n)
  PROVE  /\ \A c \in Copies' : c \in Copies \/ \E p \in Present(n) : c = CheckpointOf(n, p)
         /\ \A c \in Copies' : c \notin Copies => \A p \in Present(n) :
                                  seqs'[n][p] = seqs[n][p] + 1
<1>1. \A k \in Node : store'[k] \subseteq store[k] BY DEF TypeOK, Step, Unexpired
<1>2. \A k \in Node : best'[k] \subseteq best[k] /\ heard'[k] \subseteq heard[k]
  BY DEF TypeOK, Step
<1>3. \A m \in net' : m \in net \/ \E p \in Present(n) : m.checkpoints = {CheckpointOf(n, p)}
  <2>1. net' = net \/ \E out \in Rounds(n) : net' = net \cup out BY DEF Step
  <2>2. CASE net' = net BY <2>2
  <2>3. CASE \E out \in Rounds(n) : net' = net \cup out BY <2>3, RoundType
  <2> QED BY <2>1, <2>2, <2>3
<1>4. net' # net => \A p \in Present(n) : seqs'[n][p] = seqs[n][p] + 1
  BY DEF TypeOK, Step, next_seq, Present
<1>5. \A c \in Copies' : c \in Copies \/ \E m \in net' \ net : c \in m.checkpoints
  BY <1>1, <1>2, CopiesNow, CopiesNext DEF Ckpts
<1> QED BY <1>3, <1>4, <1>5

-----------------------------------------------------------------------------
(* Sequence numbers order what one process issues. *)

\* Nothing in existence is ahead of its issuer: a copy's stamp is in the past
\* of the player's play, and a copy of the issuer's present run carries a
\* sequence number that run has already used.
Issued ==
  \A c \in Copies :
    /\ c.stamp <= play[c.player]
    /\ c.life <= life[c.by]
    /\ c.life = life[c.by] => c.seq <= seqs[c.by][c.player]

IssueInv == TypeOK /\ Issued /\ SeqOrdersIssue

\* A step that issues nothing keeps the order as long as the issuers' counters
\* only grow, or start again in a new run.
LEMMA IssueMoves ==
  ASSUME IssueInv, Copies' \subseteq Copies,
         \A p \in Player : play'[p] >= play[p],
         \A n \in Node : \/ life'[n] = life[n] /\ seqs'[n] = seqs[n]
                         \/ life'[n] > life[n],
         TypeOK'
  PROVE  (Issued /\ SeqOrdersIssue)'
<1>1. Copies \subseteq Checkpoint BY CopiesType DEF IssueInv
<1>2. SeqOrdersIssue' BY DEF IssueInv, SeqOrdersIssue
<1>3. ASSUME NEW c \in Copies'
      PROVE  /\ c.stamp <= play'[c.player]
             /\ c.life <= life'[c.by]
             /\ c.life = life'[c.by] => c.seq <= seqs'[c.by][c.player]
  <2>1. /\ c \in Copies /\ c.player \in Player /\ c.by \in Node
        /\ c.stamp \in Nat /\ c.life \in Nat
    BY <1>1, <1>3 DEF Checkpoint
  <2>2. /\ play[c.player] \in Nat /\ play'[c.player] \in Nat
        /\ life[c.by] \in Nat /\ life'[c.by] \in Nat
    BY <2>1 DEF IssueInv, TypeOK
  <2>3. /\ c.stamp <= play[c.player] /\ c.life <= life[c.by]
        /\ c.life = life[c.by] => c.seq <= seqs[c.by][c.player]
    BY <2>1 DEF IssueInv, Issued
  <2>4. play'[c.player] >= play[c.player] BY <2>1
  <2>5. CASE life'[c.by] = life[c.by] /\ seqs'[c.by] = seqs[c.by]
    BY <2>1, <2>2, <2>3, <2>4, <2>5
  <2>6. CASE life'[c.by] > life[c.by] BY <2>1, <2>2, <2>3, <2>4, <2>6
  <2> QED BY <2>1, <2>5, <2>6
<1> QED BY <1>2, <1>3 DEF Issued

\* A tick gives each new checkpoint the next number and a later stamp than any
\* the process issued before.
LEMMA IssueStep ==
  ASSUME IssueInv, NEW n \in Node, Step(n), TypeOK'
  PROVE  (Issued /\ SeqOrdersIssue)'
<1>0. Copies \subseteq Checkpoint /\ TypeOK BY CopiesType DEF IssueInv
<1>1. /\ life' = life
      /\ \A p \in Player : play'[p] >= play[p]
      /\ \A p \in Present(n) : play'[p] = play[p] + 1
      /\ \A k \in Node, p \in Player : seqs'[k][p] >= seqs[k][p]
  <2>1. life' = life BY DEF Step
  <2>2. \A p \in Player : play'[p] >= play[p] /\ (p \in Present(n) => play'[p] = play[p] + 1)
    BY <1>0 DEF Step, TypeOK, Present
  <2>3. \A k \in Node, p \in Player : seqs'[k][p] >= seqs[k][p]
    <3>1. CASE seqs' = seqs BY <1>0, <3>1 DEF TypeOK
    <3>2. CASE seqs' = [seqs EXCEPT ![n] = [p \in Player |->
                          IF p \in Present(n) THEN next_seq(n, p) ELSE seqs[n][p]]]
      BY <1>0, <3>2 DEF TypeOK, next_seq
    <3> QED BY <3>1, <3>2 DEF Step
  <2> QED BY <2>1, <2>2, <2>3 DEF Present
<1> DEFINE New == {CheckpointOf(n, p) : p \in Present(n)}
<1>2. \A c \in Copies' : c \in Copies \/ c \in New BY <1>0, CopiesStep
<1>3. ASSUME NEW c \in Copies', c \notin Copies
      PROVE  /\ c \in Checkpoint /\ c.by = n /\ c.life = life[n] /\ c.player \in Present(n)
             /\ c.seq = seqs[n][c.player] + 1 /\ c.seq = seqs'[n][c.player]
             /\ c.stamp = play[c.player] + 1
  <2>1. PICK p \in Present(n) : c = CheckpointOf(n, p) BY <1>2, <1>3
  <2>2. p \in Player /\ hosted[n][p] # 0 BY DEF Present
  <2>3. seqs'[n][p] = seqs[n][p] + 1 BY <1>0, <1>3, CopiesStep
  <2>4. CheckpointOf(n, p) \in Checkpoint BY <1>0, CheckpointType
  <2> QED BY <2>1, <2>2, <2>3, <2>4 DEF CheckpointOf, Ticked, next_seq
<1>4. ASSUME NEW c \in Copies
      PROVE  /\ c.player \in Player /\ c.by \in Node
             /\ c.stamp \in Nat /\ c.life \in Nat /\ c.seq \in Nat
             /\ play[c.player] \in Nat /\ life[c.by] \in Nat
             /\ seqs[c.by][c.player] \in Nat /\ seqs'[c.by][c.player] \in Nat
             /\ play'[c.player] \in Nat
             /\ c.stamp <= play[c.player] /\ c.life <= life[c.by]
             /\ c.life = life[c.by] => c.seq <= seqs[c.by][c.player]
  BY <1>0, <1>4 DEF Checkpoint, IssueInv, TypeOK, Issued
<1>5. Issued'
  <2> SUFFICES ASSUME NEW c \in Copies'
               PROVE  /\ c.stamp <= play'[c.player]
                      /\ c.life <= life'[c.by]
                      /\ c.life = life'[c.by] => c.seq <= seqs'[c.by][c.player]
    BY DEF Issued
  <2>1. CASE c \in Copies
    <3>1. play'[c.player] >= play[c.player] /\ seqs'[c.by][c.player] >= seqs[c.by][c.player]
      BY <1>1, <1>4, <2>1
    <3> QED BY <1>1, <1>4, <2>1, <3>1
  <2>2. CASE c \notin Copies
    <3>1. c.player \in Player /\ life[n] \in Nat /\ play'[c.player] \in Nat
          /\ seqs'[n][c.player] \in Nat
      BY <1>0, <1>3, <2>2 DEF Present, TypeOK
    <3> QED BY <1>1, <1>3, <2>2, <3>1
  <2> QED BY <2>1, <2>2
<1>6. SeqOrdersIssue'
  <2> SUFFICES ASSUME NEW c \in Copies', NEW d \in Copies',
                      c.player = d.player, c.by = d.by, c.life = d.life
               PROVE  c.seq < d.seq <=> c.stamp < d.stamp
    BY DEF SeqOrdersIssue
  <2>1. CASE c \in Copies /\ d \in Copies BY <2>1 DEF IssueInv, SeqOrdersIssue
  <2>2. CASE c \in Copies /\ d \notin Copies
    <3>1. c.seq < d.seq /\ c.stamp < d.stamp BY <1>3, <1>4, <2>2
    <3> QED BY <3>1
  <2>3. CASE c \notin Copies /\ d \in Copies
    <3>1. d.seq < c.seq /\ d.stamp < c.stamp BY <1>3, <1>4, <2>3
    <3>2. c.seq \in Nat /\ c.stamp \in Nat BY <1>3, <2>3 DEF Checkpoint
    <3> QED BY <1>4, <2>3, <3>1, <3>2
  <2>4. CASE c \notin Copies /\ d \notin Copies
    <3>1. c.seq = d.seq /\ c.stamp = d.stamp /\ c.seq \in Nat /\ c.stamp \in Nat
      BY <1>3, <2>4 DEF Checkpoint
    <3> QED BY <3>1
  <2> QED BY <2>1, <2>2, <2>3, <2>4
<1> QED BY <1>5, <1>6

LEMMA IssueInit == Init => IssueInv
<1> SUFFICES ASSUME Init PROVE IssueInv OBVIOUS
<1>1. Copies = {} BY CopiesNow DEF Init, Ckpts
<1> QED BY <1>1, TypeInit DEF IssueInv, Issued, SeqOrdersIssue

LEMMA IssueNext == IssueInv /\ [Next]_vars => IssueInv'
<1> SUFFICES ASSUME IssueInv, [Next]_vars PROVE IssueInv' OBVIOUS
<1>0. TypeOK /\ TypeOK' BY TypeNext DEF IssueInv
<1>1. CASE UNCHANGED vars
  BY <1>0, <1>1 DEF IssueInv, Issued, SeqOrdersIssue, Copies, Ckpts, vars, process, gather
<1>2. ASSUME NEW n \in Node, Step(n) PROVE IssueInv'
  BY <1>0, <1>2, IssueStep DEF IssueInv
<1>3. ASSUME NEW m \in net,
             RecvCheckpoint(m) \/ RecvStored(m) \/ RecvRequest(m) \/ RecvBundle(m)
      PROVE  IssueInv'
  <2>1. Copies' \subseteq Copies BY <1>0, <1>3, CopiesRecv
  <2>2. UNCHANGED <<life, seqs, play>>
    BY <1>3 DEF RecvCheckpoint, RecvStored, RecvRequest, RecvBundle, process
  <2>3. \A p \in Player : play'[p] >= play[p] BY <1>0, <2>2 DEF TypeOK
  <2> QED BY <1>0, <2>1, <2>2, <2>3, IssueMoves DEF IssueInv
<1>4. ASSUME NEW n \in Node,
             \/ Claim(n) \/ Retire(n) \/ Crash(n) \/ Restart(n)
             \/ \E p \in Player : Admit(n, p) \/ Remove(n, p)
      PROVE  IssueInv'
  <2>1. Copies' \subseteq Copies BY <1>0, <1>4, CopiesRare
  <2>2. \A p \in Player : play'[p] >= play[p]
    <3>1. CASE play' = play BY <1>0, <3>1 DEF TypeOK
    <3>2. CASE \E p \in Player : Admit(n, p) BY <1>0, <3>2 DEF TypeOK, Admit
    <3> QED BY <1>4, <3>1, <3>2 DEF Claim, Retire, Crash, Restart, Remove
  <2>3. \A k \in Node : \/ life'[k] = life[k] /\ seqs'[k] = seqs[k]
                        \/ life'[k] > life[k]
    BY <1>0, <1>4 DEF TypeOK, Claim, Retire, Crash, Restart, Admit, Remove, process
  <2> QED BY <1>0, <2>1, <2>2, <2>3, IssueMoves DEF IssueInv
<1> QED BY <1>1, <1>2, <1>3, <1>4 DEF Next

\* Wherever the copies of a player's checkpoints went, however late they
\* arrived and however often processes crashed since, those that one run of
\* one authority issued are ordered by seq as they were by play: comparing
\* seq, as ReplicaStore::store and collect_bundle do, compares freshness.
THEOREM SeqOrder == Spec => []SeqOrdersIssue
<1>1. IssueInv => SeqOrdersIssue BY DEF IssueInv
<1> QED BY <1>1, IssueInit, IssueNext, PTL DEF Spec

-----------------------------------------------------------------------------
(* One copy per player, and acks that never overstate. *)

\* h holds a copy of p at sequence number s or above.
Holds(h, p, s) == \E r \in store[h] : r.ckpt.player = p /\ r.ckpt.seq >= s

\* An ack in flight, like one recorded, is borne out by the holder.
AckInv ==
  /\ TypeOK
  /\ OneCopyPerPlayer
  /\ AckedIsHeld
  /\ \A m \in net : m.type = "ReplicaStored" =>
       \A k \in m.acked : <<m.from, k[1]>> \in dropped \/ Holds(m.from, k[1], k[2])

\* What storing may leave, when the checkpoint is taken.
LEMMA StoreTakes ==
  ASSUME NEW h \in Node, NEW c, NEW kept \in StoreResults(h, c)
  PROVE  LET new == [ckpt |-> c, touch |-> global_tick[h]]
             inserted == {x \in store[h] : x.ckpt.player # c.player} \cup {new}
         IN  \/ kept = store[h]
             \/ /\ Accepts(h, c)
                /\ kept = inserted \/ \E v \in inserted : kept = inserted \ {v}
  BY DEF StoreResults, Oldest

\* What a holder does not keep of a player it either replaced by a higher
\* sequence number or discarded.
LEMMA StoreKeeps ==
  ASSUME TypeOK, OneCopyPerPlayer, NEW h \in Node, NEW c \in Checkpoint,
         NEW kept \in StoreResults(h, c), NEW r \in store[h]
  PROVE  \/ \E s \in kept : s.ckpt.player = r.ckpt.player /\ s.ckpt.seq >= r.ckpt.seq
         \/ <<h, r.ckpt.player>> \in Discarded(h, kept)
<1> DEFINE new == [ckpt |-> c, touch |-> global_tick[h]]
           inserted == {x \in store[h] : x.ckpt.player # c.player} \cup {new}
<1>1. r.ckpt.seq \in Nat /\ r.ckpt \in Ckpts(store[h]) /\ c.seq \in Nat
  BY DEF TypeOK, Replica, Checkpoint, Ckpts
<1>2. CASE \E s \in kept : s.ckpt.player = r.ckpt.player
  <2>1. PICK s \in kept : s.ckpt.player = r.ckpt.player BY <1>2
  <2>2. CASE kept = store[h]
    <3>1. r \in kept /\ r.ckpt.seq >= r.ckpt.seq BY <1>1, <2>2
    <3> QED BY <3>1
  <2>3. CASE /\ Accepts(h, c)
             /\ kept = inserted \/ \E v \in inserted : kept = inserted \ {v}
    <3>1. s \in inserted BY <2>3
    <3>2. CASE r.ckpt.player = c.player
      <4>1. r.ckpt.seq < c.seq BY <2>3, <3>2 DEF Accepts
      <4>2. s.ckpt = c BY <2>1, <3>1, <3>2
      <4> QED BY <1>1, <2>1, <4>1, <4>2
    <3>3. CASE r.ckpt.player # c.player
      <4>1. s \in store[h] BY <2>1, <3>1, <3>3
      <4>2. s = r BY <2>1, <4>1 DEF OneCopyPerPlayer
      <4> QED BY <1>1, <2>1, <4>2
    <3> QED BY <3>2, <3>3
  <2> QED BY <2>2, <2>3, StoreTakes
<1>3. CASE ~ \E s \in kept : s.ckpt.player = r.ckpt.player
  BY <1>1, <1>3 DEF Discarded
<1> QED BY <1>2, <1>3

\* If what is held only goes by being dropped, acks recorded and in flight
\* stay good.
LEMMA AckMoves ==
  ASSUME AckInv, TypeOK',
         \A h \in Node : \A r \in store[h] :
           \/ \E s \in store'[h] : s.ckpt.player = r.ckpt.player /\ s.ckpt.seq >= r.ckpt.seq
           \/ <<h, r.ckpt.player>> \in dropped'
  PROVE  \A h \in Node, p \in Player, s \in Nat :
           <<h, p>> \in dropped' \/ (Holds(h, p, s) => Holds(h, p, s)')
<1> SUFFICES ASSUME NEW h \in Node, NEW p \in Player, NEW s \in Nat,
                    <<h, p>> \notin dropped', Holds(h, p, s)
             PROVE  Holds(h, p, s)'
  OBVIOUS
<1>1. PICK r \in store[h] : r.ckpt.player = p /\ r.ckpt.seq >= s BY DEF Holds
<1>2. PICK x \in store'[h] : x.ckpt.player = p /\ x.ckpt.seq >= r.ckpt.seq BY <1>1
<1>3. x.ckpt.seq \in Nat /\ r.ckpt.seq \in Nat
  BY DEF AckInv, TypeOK, Replica, Checkpoint
<1>4. x.ckpt.seq >= s BY <1>1, <1>2, <1>3
<1> QED BY <1>2, <1>4 DEF Holds

\* The invariant survives a step that keeps what is held or drops it, records
\* no ack and sends none.
LEMMA AckQuiet ==
  ASSUME AckInv, TypeOK', OneCopyPerPlayer', dropped \subseteq dropped',
         \A h \in Node : \A r \in store[h] :
           r \in store'[h] \/ <<h, r.ckpt.player>> \in dropped',
         \A n, h \in Node, p \in Player :
           coverage'[n][p][h] = coverage[n][p][h] \/ coverage'[n][p][h] = 0,
         \A m \in net' : m \in net \/ m.type # "ReplicaStored"
  PROVE  AckInv'
<1>1. \A h \in Node : \A r \in store[h] :
        \/ \E s \in store'[h] : s.ckpt.player = r.ckpt.player /\ s.ckpt.seq >= r.ckpt.seq
        \/ <<h, r.ckpt.player>> \in dropped'
  <2>1. \A h \in Node : \A r \in store[h] : r.ckpt.seq \in Nat
    BY DEF AckInv, TypeOK, Replica, Checkpoint
  <2>2. \A h \in Node : \A r \in store[h] : r.ckpt.seq >= r.ckpt.seq BY <2>1
  <2> QED BY <2>2
<1>2. \A h \in Node, p \in Player, s \in Nat :
        <<h, p>> \in dropped' \/ (Holds(h, p, s) => Holds(h, p, s)')
  BY <1>1, AckMoves
<1>3. AckedIsHeld'
  <2> SUFFICES ASSUME NEW n \in Node, NEW h \in Node, NEW p \in Player,
                      coverage'[n][p][h] > 0, <<h, p>> \notin dropped'
               PROVE  Holds(h, p, coverage[n][p][h])' 
    BY DEF AckedIsHeld, Holds
  <2>1. coverage[n][p][h] \in Nat /\ coverage'[n][p][h] \in Nat BY DEF AckInv, TypeOK
  <2>2. coverage'[n][p][h] = coverage[n][p][h] BY <2>1
  <2>3. Holds(h, p, coverage[n][p][h]) BY <2>2 DEF AckInv, AckedIsHeld, Holds
  <2>4. \E r \in store'[h] : r.ckpt.player = p /\ r.ckpt.seq >= coverage[n][p][h]
    BY <1>2, <2>1, <2>3 DEF Holds
  <2> QED BY <2>2, <2>4 DEF Holds
<1>4. \A m \in net' : m.type = "ReplicaStored" =>
        \A k \in m.acked : <<m.from, k[1]>> \in dropped' \/ Holds(m.from, k[1], k[2])'
  <2> SUFFICES ASSUME NEW m \in net', m.type = "ReplicaStored", NEW k \in m.acked,
                      <<m.from, k[1]>> \notin dropped'
               PROVE  Holds(m.from, k[1], k[2])'
    OBVIOUS
  <2>1. m \in net /\ m.from \in Node /\ k[1] \in Player /\ k[2] \in Nat
    BY DEF AckInv, TypeOK, Message
  <2>2. Holds(m.from, k[1], k[2]) BY <2>1 DEF AckInv
  <2> QED BY <1>2, <2>1, <2>2
<1> QED BY <1>3, <1>4 DEF AckInv

LEMMA AckNext == AckInv /\ [Next]_vars => AckInv'
<1> SUFFICES ASSUME AckInv, [Next]_vars PROVE AckInv' OBVIOUS
<1>0. TypeOK /\ TypeOK' BY TypeNext DEF AckInv
<1>1. CASE UNCHANGED vars
  BY <1>0, <1>1, AckQuiet DEF vars, process, AckInv, OneCopyPerPlayer
<1>2. ASSUME NEW n \in Node, Step(n) PROVE AckInv'
  <2>1. \A h \in Node : store'[h] \subseteq store[h] BY <1>0, <1>2 DEF TypeOK, Step, Unexpired
  <2>2. OneCopyPerPlayer' BY <2>1 DEF AckInv, OneCopyPerPlayer
  <2>3. \A h \in Node : \A r \in store[h] :
          r \in store'[h] \/ <<h, r.ckpt.player>> \in dropped'
    <3> SUFFICES ASSUME NEW h \in Node, NEW r \in store[h], r \notin store'[h]
                 PROVE  <<h, r.ckpt.player>> \in dropped'
      OBVIOUS
    <3> DEFINE left == Unexpired(n, global_tick[n] + 1)
    <3>1. store' = [store EXCEPT ![n] = left] /\ dropped' = dropped \cup Discarded(n, left)
      BY <1>2 DEF Step
    <3>2. h = n /\ r \notin left BY <1>0, <3>1 DEF TypeOK
    <3>3. left \subseteq store[h] BY <3>2 DEF Unexpired
    <3>4. \A s \in left : s.ckpt.player # r.ckpt.player
      BY <3>2, <3>3 DEF AckInv, OneCopyPerPlayer
    <3>5. r.ckpt \in Ckpts(store[h]) BY DEF Ckpts
    <3> QED BY <3>1, <3>2, <3>4, <3>5 DEF Discarded
  <2>4. coverage' = coverage /\ dropped \subseteq dropped' BY <1>2 DEF Step
  <2>5. \A m \in net' : m \in net \/ m.type # "ReplicaStored"
    <3>1. net' = net \/ \E out \in Rounds(n) : net' = net \cup out BY <1>2 DEF Step
    <3>2. CASE \E out \in Rounds(n) : net' = net \cup out BY <1>0, <3>2, RoundType
    <3> QED BY <3>1, <3>2
  <2> QED BY <1>0, <2>2, <2>3, <2>4, <2>5, AckQuiet
<1>3. ASSUME NEW m \in net, RecvCheckpoint(m) PROVE AckInv'
  <2>0. m \in Message /\ m.to \in Node /\ m.from \in Node BY <1>0 DEF TypeOK, Message
  <2>1. PICK c \in m.checkpoints :
          \E kept \in StoreResults(m.to, c) : Stores(m, c, kept)
    BY <1>3 DEF RecvCheckpoint
  <2>2. PICK kept \in StoreResults(m.to, c) : Stores(m, c, kept) BY <2>1
  <2>3. c \in Checkpoint BY <2>0, <2>1 DEF Message
  <2>4. /\ \A h \in Node : store'[h] = IF h = m.to THEN kept ELSE store[h]
        /\ dropped' = dropped \cup Discarded(m.to, kept)
        /\ coverage' = coverage
    BY <1>0, <1>3, <2>2 DEF TypeOK, Stores, RecvCheckpoint
  <2>5. OneCopyPerPlayer'
    <3>1. \A r, s \in kept : r.ckpt.player = s.ckpt.player => r = s
      BY <2>0, <2>2, StoreTakes DEF AckInv, OneCopyPerPlayer
    <3> QED BY <2>4, <3>1 DEF AckInv, OneCopyPerPlayer
  <2>6. \A h \in Node : \A r \in store[h] :
          \/ \E s \in store'[h] : s.ckpt.player = r.ckpt.player /\ s.ckpt.seq >= r.ckpt.seq
          \/ <<h, r.ckpt.player>> \in dropped'
    <3> SUFFICES ASSUME NEW h \in Node, NEW r \in store[h]
                 PROVE  \/ \E s \in store'[h] : /\ s.ckpt.player = r.ckpt.player
                                                /\ s.ckpt.seq >= r.ckpt.seq
                        \/ <<h, r.ckpt.player>> \in dropped'
      OBVIOUS
    <3>1. CASE h = m.to BY <1>0, <2>2, <2>3, <2>4, <3>1, StoreKeeps DEF AckInv
    <3>2. CASE h # m.to
      <4>1. r \in store'[h] /\ r.ckpt.seq \in Nat
        BY <1>0, <2>4, <3>2 DEF TypeOK, Replica, Checkpoint
      <4>2. r.ckpt.seq >= r.ckpt.seq BY <4>1
      <4> QED BY <4>1, <4>2
    <3> QED BY <3>1, <3>2
  <2>7. \A h \in Node, p \in Player, s \in Nat :
          <<h, p>> \in dropped' \/ (Holds(h, p, s) => Holds(h, p, s)')
    BY <1>0, <2>6, AckMoves
  <2>8. AckedIsHeld'
    <3> SUFFICES ASSUME NEW n \in Node, NEW h \in Node, NEW p \in Player,
                        coverage[n][p][h] > 0, <<h, p>> \notin dropped'
                 PROVE  \E r \in store'[h] : r.ckpt.player = p
                                              /\ r.ckpt.seq >= coverage[n][p][h]
      BY <2>4 DEF AckedIsHeld
    <3>1. coverage[n][p][h] \in Nat BY <1>0 DEF TypeOK
    <3>2. Holds(h, p, coverage[n][p][h]) BY <2>4 DEF AckInv, AckedIsHeld, Holds
    <3> QED BY <2>7, <3>1, <3>2 DEF Holds
  <2>9. ASSUME NEW x \in net', x.type = "ReplicaStored", NEW k \in x.acked,
               <<x.from, k[1]>> \notin dropped'
        PROVE  Holds(x.from, k[1], k[2])'
    <3>1. x \in Message /\ x.from \in Node /\ k[1] \in Player /\ k[2] \in Nat
      BY <1>0 DEF TypeOK, Message
    <3>2. CASE x \in net
      <4>1. Holds(x.from, k[1], k[2]) BY <2>4, <2>9, <3>2 DEF AckInv
      <4> QED BY <2>7, <2>9, <3>1, <4>1
    <3>3. CASE x \notin net
      <4>1. x.from = m.to /\ x.acked = acks_for(kept)
        BY <2>2, <3>3 DEF Stores, Transmit
      <4>2. PICK r \in kept : k = <<r.ckpt.player, r.ckpt.seq>>
        BY <4>1 DEF acks_for, Ckpts
      <4>3. r \in store'[x.from] /\ r.ckpt.seq >= k[2] BY <2>0, <2>4, <3>1, <4>1, <4>2
      <4> QED BY <4>2, <4>3 DEF Holds
    <3> QED BY <3>2, <3>3
  <2> QED BY <1>0, <2>5, <2>8, <2>9 DEF AckInv
<1>4. ASSUME NEW m \in net, RecvStored(m) PROVE AckInv'
  <2>0. m \in Message /\ m.to \in Node /\ m.from \in Node /\ m.acked \subseteq Player \X Nat
    BY <1>0 DEF TypeOK, Message
  <2> DEFINE Raising(p) == {s \in {k[2] : k \in m.acked} :
                  <<p, s>> \in m.acked /\ s > coverage[m.to][p][m.from]}
             slots(p) == IF Raising(p) = {} THEN coverage[m.to][p]
                         ELSE [coverage[m.to][p] EXCEPT
                                 ![m.from] = CHOOSE s \in Raising(p) : TRUE]
  <2>1. UNCHANGED <<store, dropped>> /\ net' \subseteq net /\ m.type = "ReplicaStored"
    BY <1>4 DEF RecvStored
  <2>2. OneCopyPerPlayer' BY <2>1 DEF AckInv, OneCopyPerPlayer
  <2>3. \A n, h \in Node, p \in Player :
          \/ coverage'[n][p][h] = coverage[n][p][h]
          \/ h = m.from /\ <<p, coverage'[n][p][h]>> \in m.acked
    <3> SUFFICES ASSUME NEW n \in Node, NEW h \in Node, NEW p \in Player
                 PROVE  \/ coverage'[n][p][h] = coverage[n][p][h]
                        \/ h = m.from /\ <<p, coverage'[n][p][h]>> \in m.acked
      OBVIOUS
    <3>1. coverage' = [coverage EXCEPT ![m.to] = [x \in Player |-> slots(x)]]
      BY <1>4 DEF RecvStored
    <3> HIDE DEF slots
    <3>2. coverage'[n][p] = IF n = m.to THEN slots(p) ELSE coverage[n][p]
      BY <1>0, <2>0, <3>1 DEF TypeOK
    <3>3. CASE n = m.to /\ Raising(p) # {}
      <4>1. (CHOOSE s \in Raising(p) : TRUE) \in Raising(p) BY <3>3
      <4>2. <<p, CHOOSE s \in Raising(p) : TRUE>> \in m.acked BY <4>1
      <4>3. coverage[m.to][p] \in [Node -> Nat] BY <1>0, <2>0 DEF TypeOK
      <4>4. coverage'[n][p] = [coverage[m.to][p] EXCEPT
                                 ![m.from] = CHOOSE s \in Raising(p) : TRUE]
        BY <3>2, <3>3 DEF slots
      <4> HIDE DEF Raising
      <4> QED BY <4>2, <4>3, <4>4, <3>3
    <3>4. CASE ~(n = m.to /\ Raising(p) # {}) BY <3>2, <3>4 DEF slots
    <3> QED BY <3>3, <3>4
  <2>4. AckedIsHeld'
    <3> SUFFICES ASSUME NEW n \in Node, NEW h \in Node, NEW p \in Player,
                        coverage'[n][p][h] > 0, <<h, p>> \notin dropped
                 PROVE  \E r \in store[h] : r.ckpt.player = p
                                             /\ r.ckpt.seq >= coverage'[n][p][h]
      BY <2>1 DEF AckedIsHeld
    <3>1. CASE coverage'[n][p][h] = coverage[n][p][h] BY <3>1 DEF AckInv, AckedIsHeld
    <3>2. CASE h = m.from /\ <<p, coverage'[n][p][h]>> \in m.acked
      <4>1. Holds(m.from, p, coverage'[n][p][h])
        BY <2>1, <3>2 DEF AckInv
      <4> QED BY <3>2, <4>1 DEF Holds
    <3> QED BY <2>3, <3>1, <3>2
  <2> QED BY <1>0, <2>1, <2>2, <2>4 DEF AckInv, Holds
<1>5. ASSUME NEW m \in net, RecvRequest(m) \/ RecvBundle(m) PROVE AckInv'
  <2>1. UNCHANGED <<store, dropped, coverage>>
    BY <1>5 DEF RecvRequest, RecvBundle, process
  <2>2. \A x \in net' : x \in net \/ x.type # "ReplicaStored"
    <3>1. CASE RecvBundle(m) BY <3>1 DEF RecvBundle
    <3>2. CASE RecvRequest(m) BY <3>2 DEF RecvRequest, Transmit
    <3> QED BY <1>5, <3>1, <3>2
  <2>3. OneCopyPerPlayer' BY <2>1 DEF AckInv, OneCopyPerPlayer
  <2> QED BY <1>0, <2>1, <2>2, <2>3, AckQuiet
<1>6. ASSUME NEW n \in Node, Crash(n) PROVE AckInv'
  <2>1. /\ \A h \in Node : store'[h] = IF h = n THEN {} ELSE store[h]
        /\ dropped' = dropped \cup Discarded(n, {}) /\ net' = net
        /\ \A k, h \in Node, p \in Player :
             coverage'[k][p][h] = coverage[k][p][h] \/ coverage'[k][p][h] = 0
    BY <1>0, <1>6 DEF TypeOK, Crash, NoCoverage
  <2>2. OneCopyPerPlayer' BY <2>1 DEF AckInv, OneCopyPerPlayer
  <2>3. \A h \in Node : \A r \in store[h] :
          r \in store'[h] \/ <<h, r.ckpt.player>> \in dropped'
    BY <2>1 DEF Discarded, Ckpts
  <2> QED BY <1>0, <2>1, <2>2, <2>3, AckQuiet
<1>7. ASSUME NEW n \in Node,
             \/ Claim(n) \/ Retire(n) \/ Restart(n)
             \/ \E p \in Player : Admit(n, p) \/ Remove(n, p)
      PROVE  AckInv'
  <2>1. UNCHANGED <<store, dropped, coverage>>
    BY <1>7 DEF Claim, Retire, Restart, Admit, Remove, process
  <2>2. \A x \in net' : x \in net \/ x.type # "ReplicaStored"
    <3>1. CASE Claim(n) BY <3>1 DEF Claim, Transmit
    <3>2. CASE ~Claim(n)
      <4>1. net' = net BY <1>7, <3>2 DEF Retire, Restart, Admit, Remove
      <4> QED BY <4>1
    <3> QED BY <3>1, <3>2
  <2>3. OneCopyPerPlayer' BY <2>1 DEF AckInv, OneCopyPerPlayer
  <2> QED BY <1>0, <2>1, <2>2, <2>3, AckQuiet
<1> QED BY <1>1, <1>2, <1>3, <1>4, <1>5, <1>6, <1>7 DEF Next

LEMMA AckInit == Init => AckInv
  BY TypeInit DEF Init, AckInv, OneCopyPerPlayer, AckedIsHeld, NoCoverage

\* An authority never believes a holder has more of a player than the holder
\* has, unless the holder lost its copy since: delayed and reordered acks, and
\* acks of another authority's checkpoints, never overstate what is held.
THEOREM AckHonest == Spec => []AckedIsHeld
<1>1. AckInv => AckedIsHeld BY DEF AckInv
<1> QED BY <1>1, AckInit, AckNext, PTL DEF Spec

\* A holder never keeps two copies of one player, so a bundle answers a gather
\* with one checkpoint per player and an ack names a player once.
THEOREM OneCopy == Spec => []OneCopyPerPlayer
<1>1. AckInv => OneCopyPerPlayer BY DEF AckInv
<1> QED BY <1>1, AckInit, AckNext, PTL DEF Spec

\* Whatever the network does and whichever nodes crash, stores are well formed
\* and hold one copy to a player, and no ack overstates them.
THEOREM StoresStaySound == Spec => []StoresSound
<1>1. TypeOK /\ OneCopyPerPlayer /\ AckedIsHeld => StoresSound
  BY DEF StoresSound
<1> QED BY <1>1, TypeCorrect, OneCopy, AckHonest, PTL

-----------------------------------------------------------------------------
(* What a recovery restores. *)

OnePerPlayer(ckpts) == \A c, d \in ckpts : c.player = d.player => c = d

\* A gather keeps, of every player it has heard of, one checkpoint that was
\* heard, none of a higher sequence number having been heard of the player; and
\* bundles, like the stores they are made from, name a player once.
GatherInv ==
  /\ \A n \in Node :
       /\ best[n] \subseteq heard[n] /\ OnePerPlayer(best[n])
       /\ \A c \in heard[n] : \E b \in best[n] : b.player = c.player /\ b.seq >= c.seq
  /\ \A m \in net : m.type = "ReplicaBundle" => OnePerPlayer(m.checkpoints)

\* A gather stays as it is, or ends empty.
LEMMA GatherQuiet ==
  ASSUME GatherInv,
         \A n \in Node : \/ best'[n] = best[n] /\ heard'[n] = heard[n]
                         \/ best'[n] = {} /\ heard'[n] = {},
         \A m \in net' : \/ m \in net \/ m.type # "ReplicaBundle"
                         \/ OnePerPlayer(m.checkpoints)
  PROVE  GatherInv'
<1>1. ASSUME NEW n \in Node
      PROVE  /\ best'[n] \subseteq heard'[n] /\ OnePerPlayer(best'[n])
             /\ \A c \in heard'[n] :
                  \E b \in best'[n] : b.player = c.player /\ b.seq >= c.seq
  <2>1. CASE best'[n] = best[n] /\ heard'[n] = heard[n] BY <2>1 DEF GatherInv
  <2>2. CASE best'[n] = {} /\ heard'[n] = {} BY <2>2 DEF OnePerPlayer
  <2> QED BY <2>1, <2>2
<1>2. \A m \in net' : m.type = "ReplicaBundle" => OnePerPlayer(m.checkpoints)
  BY DEF GatherInv
<1> QED BY <1>1, <1>2 DEF GatherInv, OnePerPlayer

\* collect_bundle keeps the newest of what it had and what it is offered.
LEMMA GatherBundle ==
  ASSUME TypeOK, GatherInv, NEW m \in net, RecvBundle(m)
  PROVE  GatherInv'
<1> DEFINE n == m.to
           kept == {c \in m.checkpoints : Keeps(n, c)}
           rest == {b \in best[n] : \A c \in kept : c.player # b.player}
<1>0. /\ n \in Node /\ m.type = "ReplicaBundle" /\ m.checkpoints \subseteq Checkpoint
      /\ best[n] \subseteq Checkpoint /\ heard[n] \subseteq Checkpoint
      /\ OnePerPlayer(m.checkpoints) /\ OnePerPlayer(best[n])
  BY DEF TypeOK, Message, RecvBundle, GatherInv
<1>1. \A x \in net' : x.type = "ReplicaBundle" => OnePerPlayer(x.checkpoints)
  BY DEF RecvBundle, GatherInv
<1>2. CASE UNCHANGED <<best, heard>>
  BY <1>1, <1>2, GatherQuiet
<1>3. CASE ~ UNCHANGED <<best, heard>>
  <2>1. /\ best' = [best EXCEPT ![n] = rest \cup kept]
        /\ heard' = [heard EXCEPT ![n] = heard[n] \cup m.checkpoints]
    BY <1>3 DEF RecvBundle
  <2> HIDE DEF rest, kept
  <2>2. \A k \in Node :
          /\ best'[k] = IF k = n THEN rest \cup kept ELSE best[k]
          /\ heard'[k] = IF k = n THEN heard[n] \cup m.checkpoints ELSE heard[k]
    BY <2>1 DEF TypeOK
  <2>3. rest \cup kept \subseteq heard[n] \cup m.checkpoints
    BY <1>0 DEF rest, kept, GatherInv
  <2>4. OnePerPlayer(rest \cup kept)
    BY <1>0 DEF rest, kept, OnePerPlayer
  <2>5. ASSUME NEW c \in heard[n] \cup m.checkpoints
        PROVE  \E b \in rest \cup kept : b.player = c.player /\ b.seq >= c.seq
    <3>0. c.seq \in Nat BY <1>0 DEF Checkpoint
    <3>1. PICK b \in best[n] \cup m.checkpoints : b.player = c.player /\ b.seq >= c.seq
      <4>1. CASE c \in heard[n] BY <1>0, <4>1 DEF GatherInv
      <4>2. CASE c \in m.checkpoints BY <3>0, <4>2
      <4> QED BY <4>1, <4>2
    <3>2. b.seq \in Nat BY <1>0 DEF Checkpoint
    <3>3. CASE b \in rest \cup kept BY <3>1, <3>3
    <3>4. CASE b \notin rest \cup kept
      <4>1. CASE b \in best[n]
        <5>1. PICK d \in kept : d.player = b.player BY <3>4, <4>1 DEF rest
        <5>2. b.seq < d.seq /\ d.seq \in Nat
          BY <1>0, <4>1, <5>1 DEF kept, Keeps, Checkpoint
        <5>3. d.player = c.player /\ d.seq >= c.seq BY <3>0, <3>1, <3>2, <5>1, <5>2
        <5> QED BY <5>3
      <4>2. CASE b \in m.checkpoints
        <5>1. PICK d \in best[n] : d.player = b.player /\ ~ (d.seq < b.seq)
          BY <3>4, <4>2 DEF kept, Keeps
        <5>2. d.seq \in Nat BY <1>0 DEF Checkpoint
        <5>3. d.player = c.player /\ d.seq >= c.seq BY <3>0, <3>1, <3>2, <5>1, <5>2
        <5>4. d \in rest
          <6> SUFFICES ASSUME NEW e \in kept, e.player = d.player PROVE FALSE
            BY DEF rest
          <6>1. e = b BY <1>0, <4>2, <5>1 DEF kept, OnePerPlayer
          <6> QED BY <3>4, <6>1
        <5> QED BY <5>3, <5>4
      <4> QED BY <3>1, <4>1, <4>2
    <3> QED BY <3>3, <3>4
  <2>6. ASSUME NEW k \in Node
        PROVE  /\ best'[k] \subseteq heard'[k] /\ OnePerPlayer(best'[k])
               /\ \A c \in heard'[k] :
                    \E b \in best'[k] : b.player = c.player /\ b.seq >= c.seq
    <3>1. CASE k = n BY <2>2, <2>3, <2>4, <2>5, <3>1
    <3>2. CASE k # n BY <2>2, <3>2 DEF GatherInv
    <3> QED BY <3>1, <3>2
  <2> QED BY <1>1, <2>6 DEF GatherInv, OnePerPlayer
<1> QED BY <1>2, <1>3

LEMMA GatherNext ==
  TypeOK /\ OneCopyPerPlayer /\ GatherInv /\ [Next]_vars => GatherInv'
<1> SUFFICES ASSUME TypeOK, OneCopyPerPlayer, GatherInv, [Next]_vars PROVE GatherInv'
  OBVIOUS
<1>1. CASE UNCHANGED vars BY <1>1, GatherQuiet DEF vars, gather
<1>2. ASSUME NEW n \in Node, Step(n) PROVE GatherInv'
  <2>1. \A m \in net' : m \in net \/ m.type # "ReplicaBundle"
    <3>1. net' = net \/ \E out \in Rounds(n) : net' = net \cup out BY <1>2 DEF Step
    <3>2. CASE \E out \in Rounds(n) : net' = net \cup out BY <3>2, RoundType
    <3> QED BY <3>1, <3>2
  <2>2. \A k \in Node : \/ best'[k] = best[k] /\ heard'[k] = heard[k]
                        \/ best'[k] = {} /\ heard'[k] = {}
    BY <1>2 DEF Step, TypeOK
  <2> QED BY <2>1, <2>2, GatherQuiet
<1>3. ASSUME NEW m \in net, RecvCheckpoint(m) \/ RecvStored(m) \/ RecvRequest(m)
      PROVE  GatherInv'
  <2>1. UNCHANGED <<best, heard>>
    BY <1>3 DEF RecvCheckpoint, RecvStored, RecvRequest, gather
  <2>2. \A x \in net' : \/ x \in net \/ x.type # "ReplicaBundle"
                        \/ OnePerPlayer(x.checkpoints)
    <3>1. CASE RecvCheckpoint(m) BY <3>1 DEF RecvCheckpoint, Stores, Transmit
    <3>2. CASE RecvStored(m) BY <3>2 DEF RecvStored
    <3>3. CASE RecvRequest(m)
      <4>1. m.to \in Node BY DEF TypeOK, Message
      <4>2. OnePerPlayer(bundle_for(m.to))
        BY <4>1 DEF OneCopyPerPlayer, OnePerPlayer, bundle_for, Ckpts
      <4>3. \A x \in net' : x \in net \/ x.checkpoints = bundle_for(m.to)
        BY <3>3 DEF RecvRequest, Transmit
      <4> QED BY <4>2, <4>3
    <3> QED BY <1>3, <3>1, <3>2, <3>3
  <2> QED BY <2>1, <2>2, GatherQuiet
<1>4. ASSUME NEW m \in net, RecvBundle(m) PROVE GatherInv'
  BY <1>4, GatherBundle
<1>5. ASSUME NEW n \in Node,
             \/ Claim(n) \/ Retire(n) \/ Crash(n) \/ Restart(n)
             \/ \E p \in Player : Admit(n, p) \/ Remove(n, p)
      PROVE  GatherInv'
  <2>1. \A m \in net' : m \in net \/ m.type # "ReplicaBundle"
    <3>1. CASE Claim(n) BY <3>1 DEF Claim, Transmit
    <3>2. CASE ~Claim(n)
      <4>1. net' = net BY <1>5, <3>2 DEF Retire, Crash, Restart, Admit, Remove
      <4> QED BY <4>1
    <3> QED BY <3>1, <3>2
  <2>2. \A k \in Node : \/ best'[k] = best[k] /\ heard'[k] = heard[k]
                        \/ best'[k] = {} /\ heard'[k] = {}
    BY <1>5 DEF TypeOK, Claim, Retire, Crash, Restart, Admit, Remove, gather
  <2> QED BY <2>1, <2>2, GatherQuiet
<1> QED BY <1>1, <1>2, <1>3, <1>4, <1>5 DEF Next

\* All that n has heard of p was issued by one run of one process.
FromOne(n, p) ==
  \A c, d \in heard[n] :
    c.player = p /\ d.player = p => c.by = d.by /\ c.life = d.life

\* Whoever is recovered, or goes on being simulated, is at least as far as
\* every checkpoint heard of it, if one run of one authority issued them.
Restores ==
  \A n \in recovering \ recovering' : n \in up' =>
    \A c \in heard[n] : FromOne(n, c.player) => hosted'[n][c.player] >= c.stamp

LEMMA RestoresStep ==
  IssueInv /\ GatherInv /\ [Next]_vars => [Restores]_vars
<1> SUFFICES ASSUME IssueInv, GatherInv, Next,
                    NEW n \in recovering \ recovering', n \in up',
                    NEW c \in heard[n], FromOne(n, c.player)
             PROVE  hosted'[n][c.player] >= c.stamp
  BY DEF Restores
<1>0. TypeOK /\ n \in Node /\ heard[n] \subseteq Checkpoint BY DEF IssueInv, TypeOK
<1>1. Step(n)
  <2>1. ASSUME NEW k \in Node, Claim(k) \/ Retire(k) \/ Restart(k) PROVE FALSE
    BY <2>1 DEF Claim, Retire, Restart, gather
  <2>2. ASSUME NEW k \in Node, Crash(k) PROVE FALSE BY <2>2 DEF Crash
  <2>3. ASSUME NEW k \in Node, NEW p \in Player, Admit(k, p) \/ Remove(k, p) PROVE FALSE
    BY <2>3 DEF Admit, Remove, gather
  <2>4. ASSUME NEW m \in net,
               RecvCheckpoint(m) \/ RecvStored(m) \/ RecvRequest(m) \/ RecvBundle(m)
        PROVE  FALSE
    BY <2>4 DEF RecvCheckpoint, RecvStored, RecvRequest, RecvBundle, gather
  <2>5. ASSUME NEW k \in Node, Step(k) PROVE k = n BY <2>5 DEF Step
  <2> QED BY <2>1, <2>2, <2>3, <2>4, <2>5 DEF Next
<1>2. PICK b \in best[n] : b.player = c.player /\ b.seq >= c.seq
  BY <1>0 DEF GatherInv
<1>3. b \in heard[n] /\ b \in Copies /\ c \in Copies BY <1>0, CopiesNow DEF GatherInv
<1>4. b \in Checkpoint /\ c \in Checkpoint BY <1>0, <1>3
<1>5. b.stamp >= c.stamp
  <2>1. b.by = c.by /\ b.life = c.life BY <1>2, <1>3 DEF FromOne
  <2>2. b.seq < c.seq <=> b.stamp < c.stamp
    BY <1>2, <1>3, <2>1 DEF IssueInv, SeqOrdersIssue
  <2> QED BY <1>2, <1>4, <2>2 DEF Checkpoint
<1>6. Imported(n, c.player) = b.stamp
  <2>1. \A d \in best[n] : d.player = c.player => d = b
    BY <1>0, <1>2 DEF GatherInv, OnePerPlayer
  <2>2. (CHOOSE d \in best[n] : d.player = c.player) = b BY <1>2, <2>1
  <2> QED BY <1>2, <2>2 DEF Imported
<1>7. hosted'[n][c.player] = b.stamp
  <2>1. RecoveryDue(n, global_tick[n] + 1) BY <1>1 DEF Step
  <2>2. hosted' = [hosted EXCEPT ![n] = [p \in Player |-> Imported(n, p)]]
    BY <1>1, <2>1 DEF Step
  <2>3. c.player \in Player BY <1>4 DEF Checkpoint
  <2> QED BY <1>0, <1>6, <2>2, <2>3 DEF TypeOK
<1> QED BY <1>5, <1>7

LEMMA GatherInit == Init => GatherInv
  BY DEF Init, GatherInv, OnePerPlayer

\* When a gather ends (finalize_recoveries), each player all of whose heard
\* checkpoints come from one run of one authority is restored to a state at
\* least as far on as any of them, whatever came late, twice or out of order.
THEOREM NewestOfOneSource == Spec => [][Restores]_vars
<1>1. AckInv => OneCopyPerPlayer BY DEF AckInv
<1>2. Spec => []OneCopyPerPlayer BY <1>1, AckInit, AckNext, PTL DEF Spec
<1> QED BY <1>2, GatherInit, GatherNext, RestoresStep, IssueInit, IssueNext, TypeCorrect,
           PTL DEF Spec

\* Sequence numbers start again with every authority (ReplicationManager::new)
\* and a gather compares them whoever issued them, so "the newest checkpoint per
\* player" needs every gather to hear of a player from one source only; given
\* that, no recovery goes back behind a checkpoint it has heard.
THEOREM RecoversNewest ==
  Spec /\ [](\A n \in Node, p \in Player : FromOne(n, p)) => RecoveredIsNewest
<1> DEFINE OneSource == \A n \in Node, p \in Player : FromOne(n, p)
<1>1. TypeOK /\ OneSource /\ [Restores]_vars =>
        [\A n \in recovering \ recovering' : n \in up' =>
           \A c \in heard[n] : hosted'[n][c.player] >= c.stamp]_vars
  <2>1. TypeOK => \A n \in recovering : n \in Node /\ \A c \in heard[n] : c.player \in Player
    BY DEF TypeOK, Checkpoint
  <2> QED BY <2>1 DEF Restores
<1> HIDE DEF OneSource
<1>2. Spec /\ []OneSource => RecoveredIsNewest
  BY <1>1, NewestOfOneSource, TypeCorrect, PTL DEF RecoveredIsNewest
<1> QED BY <1>2 DEF OneSource
=============================================================================
