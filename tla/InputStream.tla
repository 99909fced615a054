------------------------------ MODULE InputStream ------------------------------
(***************************************************************************)
(* One player's inputs from the key press to the body that acts on them:   *)
(* stamping, prediction and re-sending at the client, queueing and         *)
(* applying at the authority, hand-offs, failovers and evictions between   *)
(* (arena-client: input.rs, app.rs; arena-net: predict.rs, client.rs;      *)
(* arena-server: zone.rs, manager.rs, server.rs).                          *)
(*                                                                         *)
(* An input is its number.  The state of a body is the sequence of the     *)
(* inputs it has acted on: the World keeps acting on the last one it was   *)
(* given, so a tick without a new one adds nothing.                        *)
(***************************************************************************)
EXTENDS Naturals, Sequences, FiniteSets

CONSTANTS
  Authority,    \* the nodes the player may be hosted by
  Entry,        \* the ones it joins at
  Lag,          \* MAX_INPUT_LAG_TICKS
  Timeout,      \* PLAYER_TIMEOUT_TICKS
  MaxSeq,       \* bound: inputs given
  MaxMoves,     \* bound: boundary crossings
  MaxFails,     \* bound: authorities that die with the player on them
  MaxJoins,     \* bound: joins
  MaxReturns    \* bound: arrivals at an authority that had the player before

ASSUME InputAssumption ==
  /\ Entry \subseteq Authority
  /\ Lag \in Nat \ {0} /\ Timeout \in Nat
  /\ MaxSeq \in Nat /\ MaxMoves \in Nat /\ MaxFails \in Nat
  /\ MaxJoins \in Nat /\ MaxReturns \in Nat

VARIABLES
  seq,        \* Input::seq
  home,       \* {} or {the authority the client's stream goes to}
  pending,    \* Predictor::pending: the queue is in the order of the numbers
  predicted,  \* Predictor::predicted: << >>, or <<the state>>
  slots,      \* the PlayerSlot, and the body's state, at each hosting authority
  batches,    \* InputBatches in flight
  snaps,      \* LocalPlayerStates in flight
  adopts,     \* AdoptPlayers in flight
  redirects,  \* JoinAccepts and Redirects in flight: whom the client is to talk to
  visited,    \* ghost: the authorities that have had the player
  used        \* ghost: how much of each bound is used

client == <<seq, home, pending, predicted>>
vars == <<client, slots, batches, snaps, adopts, redirects, visited, used>>

-----------------------------------------------------------------------------
(* Data. *)

States  == Seq(1..MaxSeq)
Slot    == [at : Authority, last_input_seq : 0..MaxSeq, pending : SUBSET (1..MaxSeq),
            idle : 0..Timeout, state : States]
Batch   == [to : Authority, frames : SUBSET (1..MaxSeq)]
Local   == [last_input_seq : 0..MaxSeq, state : States]
Adoption == [to : Authority, state : States]

Elements(s) == {s[i] : i \in DOMAIN s}
Highest(S)  == CHOOSE m \in S : \A k \in S : k <= m
Lowest(S)   == CHOOSE m \in S : \A k \in S : m <= k
Sorted(S)   == [i \in 1..Cardinality(S) |->
                  CHOOSE k \in S : Cardinality({j \in S : j <= k}) = i]

\* Mutant: the slot starts at the number the client has come to.
NewSlot_told(a, state) ==
  [at |-> a, last_input_seq |-> seq, pending |-> {}, idle |-> 0, state |-> state]

\* PlayerSlot::new; adopt_player drops the last_input_seq it is told.
NewSlot(a, state) ==
  [at |-> a, last_input_seq |-> 0, pending |-> {}, idle |-> 0, state |-> state]

Hosted   == slots # {} \/ adopts # {}
Spend(b) == used' = [used EXCEPT ![b] = @ + 1]

\* The player comes to a.
Arrives(a) ==
  /\ a \in visited => used.returns < MaxReturns
  /\ visited' = visited \cup {a}

Counted(a, b) ==
  used' = [used EXCEPT ![b] = @ + 1, !.returns = IF a \in visited THEN @ + 1 ELSE @]

-----------------------------------------------------------------------------
(* The client. *)

\* push_input, the bound of the ring.
Kept(S) == IF Cardinality(S) > Lag THEN S \ {Lowest(S)} ELSE S

\* A fixed tick of frame: an input is stamped, remembered and predicted.
Frame ==
  /\ home # {} /\ seq < MaxSeq
  /\ seq' = seq + 1
  /\ pending' = Kept(pending \cup {seq + 1})
  /\ predicted' = IF predicted = << >> THEN << >> ELSE <<Append(predicted[1], seq + 1)>>
  /\ UNCHANGED <<home, slots, batches, snaps, adopts, redirects, visited, used>>

\* Mutant: a batch is the oldest frame that is not acknowledged.
SendBatch_oldest ==
  /\ \E a \in home :
       batches' = batches \cup
         {[to |-> a, frames |-> {k \in pending : k = Lowest(pending)}]}
  /\ UNCHANGED <<client, slots, snaps, adopts, redirects, visited, used>>

\* make_input_batch on the sending cadence: everything unacknowledged.
SendBatch ==
  /\ \E a \in home : batches' = batches \cup {[to |-> a, frames |-> pending]}
  /\ UNCHANGED <<client, slots, snaps, adopts, redirects, visited, used>>

\* reconcile: snap to the state, drop what it has acted on, replay the rest.
RecvSnapshot(s) ==
  LET rest == {k \in pending : k > s.last_input_seq} IN
  /\ home # {}
  /\ snaps' = snaps \ {s}
  /\ pending' = rest
  /\ predicted' = <<s.state \o Sorted(rest)>>
  /\ UNCHANGED <<seq, home, slots, batches, adopts, redirects, visited, used>>

\* handle_server_msg, JoinAccept and Redirect: re-home, with a new ClientWorld.
RecvRedirect(a) ==
  /\ redirects' = redirects \ {a}
  /\ home' = {a} /\ pending' = {} /\ predicted' = << >>
  /\ UNCHANGED <<seq, slots, batches, snaps, adopts, visited, used>>

-----------------------------------------------------------------------------
(* The authority. *)

\* Mutant: a batch is taken whole.
Queued_all(s, frames) == [s EXCEPT !.pending = @ \cup frames, !.idle = 0]

\* ZoneSim::queue_input.
Queued(s, frames) ==
  [s EXCEPT !.pending = @ \cup {k \in frames : k > s.last_input_seq}, !.idle = 0]

\* ZoneManager::queue_input: input for a player that is not hosted is dropped.
RecvBatch(b) ==
  /\ batches' = batches \ {b}
  /\ slots' = {IF s.at = b.to THEN Queued(s, b.frames) ELSE s : s \in slots}
  /\ UNCHANGED <<client, snaps, adopts, redirects, visited, used>>

\* ZoneSim::step for this player: the newest queued input is the one that acts.
Stepped(s) ==
  IF s.pending = {} THEN [s EXCEPT !.idle = @ + 1]
  ELSE [s EXCEPT !.last_input_seq = IF Highest(s.pending) > @ THEN Highest(s.pending) ELSE @,
                 !.state = Append(@, Highest(s.pending)),
                 !.pending = {}, !.idle = @ + 1]

\* A tick in which the player stays.  It sends a snapshot; one off the sending
\* cadence is one whose snapshot is lost.
Tick(s) ==
  LET t == Stepped(s) IN
  /\ t.idle <= Timeout
  /\ slots' = (slots \ {s}) \cup {t}
  /\ snaps' = snaps \cup {[last_input_seq |-> t.last_input_seq, state |-> t.state]}
  /\ UNCHANGED <<client, batches, adopts, redirects, visited, used>>

\* A tick that finds the player idle for too long: slot and body go, and the
\* client is not told.
Evict(s) ==
  /\ Stepped(s).idle > Timeout
  /\ slots' = slots \ {s}
  /\ UNCHANGED <<client, batches, snaps, adopts, redirects, visited, used>>

\* A tick that takes the body into a cell of another node: tick_all removes the
\* player and hands it over.
Cross(s, to) ==
  /\ used.moves < MaxMoves
  /\ Stepped(s).idle <= Timeout /\ to # s.at
  /\ slots' = slots \ {s}
  /\ adopts' = adopts \cup {[to |-> to, state |-> Stepped(s).state]}
  /\ Spend("moves")
  /\ UNCHANGED <<client, batches, snaps, redirects, visited>>

\* adopt_player at the new owner; the old one, told, redirects the client.
Adopt(m) ==
  /\ Arrives(m.to)
  /\ adopts' = adopts \ {m}
  /\ slots' = slots \cup {NewSlot(m.to, m.state)}
  /\ redirects' = redirects \cup {m.to}
  /\ used' = [used EXCEPT !.returns = IF m.to \in visited THEN @ + 1 ELSE @]
  /\ UNCHANGED <<client, batches, snaps>>

\* The authority dies and another one has recovered the player from a
\* checkpoint of some earlier tick: finalize_recoveries.
Recover(s, to) ==
  /\ used.fails < MaxFails
  /\ to # s.at /\ Arrives(to)
  /\ \E n \in 0..Len(s.state) :
       slots' = (slots \ {s}) \cup {NewSlot(to, SubSeq(s.state, 1, n))}
  /\ redirects' = redirects \cup {to}
  /\ Counted(to, "fails")
  /\ UNCHANGED <<client, batches, snaps, adopts>>

\* Join of a player nobody hosts: a new body, and JoinAccept on its way.
Join(a) ==
  /\ ~Hosted /\ used.joins < MaxJoins
  /\ Arrives(a)
  /\ slots' = {NewSlot(a, << >>)}
  /\ redirects' = redirects \cup {a}
  /\ Counted(a, "joins")
  /\ UNCHANGED <<client, batches, snaps, adopts>>

\* What is lost stays in flight for ever.
Init ==
  /\ seq = 0 /\ home = {} /\ pending = {} /\ predicted = << >>
  /\ slots = {} /\ batches = {} /\ snaps = {} /\ adopts = {} /\ redirects = {}
  /\ visited = {}
  /\ used = [moves |-> 0, fails |-> 0, joins |-> 0, returns |-> 0]

Next ==
  \/ Frame \/ SendBatch
  \/ \E s \in snaps : RecvSnapshot(s)
  \/ \E a \in redirects : RecvRedirect(a)
  \/ \E b \in batches : RecvBatch(b)
  \/ \E s \in slots : Tick(s) \/ Evict(s)
  \/ \E s \in slots, a \in Authority : Cross(s, a) \/ Recover(s, a)
  \/ \E m \in adopts : Adopt(m)
  \/ \E a \in Entry : Join(a)

Spec == Init /\ [][Next]_vars

\* A batch with the newest input arrives.
Delivered == \E b \in batches : b.to \in home /\ seq \in b.frames /\ RecvBatch(b)

\* The client's frames and the zone's ticks are timers of running processes; a
\* redirect or an adoption that is not lost arrives; of the batches that carry
\* the newest input, which go out again and again, not all are lost.
Fairness ==
  /\ WF_vars(SendBatch)
  /\ WF_vars(\E a \in redirects : RecvRedirect(a))
  /\ WF_vars(\E m \in adopts : Adopt(m))
  /\ WF_vars(\E s \in slots : Tick(s))
  /\ SF_vars(Delivered)

FairSpec == Spec /\ Fairness

-----------------------------------------------------------------------------
(* Properties. *)

TypeOK ==
  /\ seq \in 0..MaxSeq
  /\ home \subseteq Authority /\ Cardinality(home) <= 1
  /\ pending \subseteq 1..seq /\ Cardinality(pending) <= Lag
  /\ predicted = << >> \/ \E p \in {predicted[1]} : predicted = <<p>> /\ p \in Seq(1..MaxSeq)
  /\ slots \subseteq Slot /\ adopts \subseteq Adoption
  /\ Cardinality(slots) + Cardinality(adopts) <= 1
  /\ batches \subseteq Batch /\ snaps \subseteq Local
  /\ redirects \subseteq Authority /\ visited \subseteq Authority
  /\ used \in [moves : 0..MaxMoves, fails : 0..MaxFails, joins : 0..MaxJoins,
               returns : 0..MaxReturns]

Rising(s) == \A i, j \in DOMAIN s : i < j => s[i] < s[j]

\* Where the body is, what it has acted on; nobody's body has acted on nothing.
Body == IF slots # {} THEN (CHOOSE s \in slots : TRUE).state
        ELSE IF adopts # {} THEN (CHOOSE m \in adopts : TRUE).state
        ELSE << >>

\* Over loss, reordering, re-sending, hand-offs and failovers to nodes that have
\* not had the player before, the body acts on the player's inputs in order and
\* on none twice: InputStream implements InputOrder.
Promise == INSTANCE InputOrder WITH stamped <- seq, acted <- Body
InOrder == Promise!Spec

\* An input the client has stopped sending because a snapshot said so has been
\* acted on, or passed over for a newer one: whatever order snapshots arrive in,
\* the number they carry never runs ahead of the body they show.
AckedHasActed ==
  \A s \in snaps : s.last_input_seq > 0 => s.last_input_seq \in Elements(s.state)

\* One body, in a slot or on its way, bounded buffers, and honest acknowledgements.
AcksSound == TypeOK /\ AckedHasActed

\* The client sends where the body is, and no redirect is on its way.
Settled == redirects = {} /\ \E s \in slots : home = {s.at}

\* The last input given comes to act as long as the player is neither moved nor
\* dropped: sending again what is not acknowledged makes up for any loss.
LastInputActs ==
  (Settled /\ MaxSeq \in pending) ~> (MaxSeq \in Elements(Body) \/ ~Settled)
=============================================================================
