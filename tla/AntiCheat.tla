------------------------------- MODULE AntiCheat -------------------------------
(***************************************************************************)
(* Policing a session: peers replay the ticks an authority publishes and   *)
(* vote on them, the coordinator tallies the votes, watches the telemetry  *)
(* of the players it hosts and the reports they file, and docks karma      *)
(* (arena-karma: crossval.rs, ledger.rs, reports.rs, detector.rs;          *)
(* arena-server: anticheat.rs, coordinator.rs, server.rs).                 *)
(*                                                                         *)
(* Every node votes; the tally, the profiles, the reports and the ledger   *)
(* are the coordinator's.  A hash is what it is the hash of.               *)
(***************************************************************************)
EXTENDS Integers, FiniteSets, Sequences, FiniteSetsExt

CONSTANTS
  Node,         \* the fleet: authorities and verifiers
  Coordinator,  \* the node that keeps the ledger
  Liars,        \* nodes that publish a wrong hash (e2e_cheat)
  Zone,
  Player,
  Severities,   \* the severities of the reasons in use, in hundredths
  Round,        \* telemetry of a round: shots (none, or enough to be judged by),
                \* violations, inhuman accuracy
  Sample,       \* VERIFIER_SAMPLE
  Window,       \* PROFILE_WINDOW
  MaxTick,      \* bound: ticks of a zone
  Budget,       \* bound: what happens to the session from outside
  ClaimCost     \* bound: how much of the budget a VerifyTick takes

ASSUME AntiCheatAssumption ==
  /\ Coordinator \in Node /\ Liars \subseteq Node /\ Node \cap Player = {}
  /\ IsFiniteSet(Node)
  /\ Sample \in Nat \ {0} /\ Window \in Nat \ {0} /\ MaxTick \in Nat
  /\ Severities \subseteq Nat /\ Budget \in Nat /\ ClaimCost \in Nat
  /\ \A r \in Round : r.shots \in Nat /\ r.violations \in Nat /\ r.inhuman \in BOOLEAN

Floor    == -100  \* KARMA_FLOOR
Ceiling  == 300   \* KARMA_CEILING
Default  == 100   \* KARMA_DEFAULT

VARIABLES
  asks,      \* VerifyTicks in flight
  votes,     \* VerifyResults in flight to the coordinator
  claims,    \* CrossValidator::claims
  tallies,   \* CrossValidator::tallies
  resolved,  \* CrossValidator::resolved
  disputed,  \* CrossValidator::disputed_by_authority
  karma,     \* LedgerData::karma, KARMA_DEFAULT where it has no entry
  profiles,  \* CheatDetector::profiles
  reports,   \* ReportAggregator::by_accused; seen holds the same keys
  roster,    \* the players the coordinator hosts
  told,      \* ghost: every [zone, tick, authority] published
  objected,  \* ghost: every [zone, tick, verifier] that was counted against
  used       \* ghost: how much of the budget is used

crossval == <<asks, votes, claims, tallies, resolved, disputed, told, objected>>
vars == <<crossval, karma, profiles, reports, roster, used>>

Key   == Zone \X (1..MaxTick)
Hash  == {"fresh", "stale", "grown", "forged"}
Ask   == [to : Node, key : Key, hash : Hash, authority : Node]
Vote  == [key : Key, verifier : Node, agree : BOOLEAN, hash : Hash]
Claim == [authority : Node, hash : Hash]

Spend(n) == used + n <= Budget /\ used' = used + n

-----------------------------------------------------------------------------
(* The ledger. *)

\* KarmaLedger::apply.
Applied(k, delta) ==
  LET n == k + delta IN IF n < Floor THEN Floor ELSE IF n > Ceiling THEN Ceiling ELSE n

\* action_for.
Action(k) ==
  IF k <= -50 THEN "PermBan" ELSE IF k <= 10 THEN "TempBan"
  ELSE IF k <= 40 THEN "Quarantine" ELSE "None"

\* apply_verdict: 20 for each of the authority's disputed ticks.
Fine(a, ticks) == Applied(karma[a], -20 * Cardinality(ticks[a]))

-----------------------------------------------------------------------------
(* Cross-validation. *)

\* quorum: two thirds of the sample, rounded up.
Quorum == (2 * Sample + 2) \div 3

\* The first tick of a zone can be what a verifier's fresh world computes; a
\* later one carries state, and its number, that a fresh world does not have.
Claimed(n, t) ==
  IF n \in Liars THEN {"forged"} ELSE IF t = 1 THEN {"fresh", "grown"} ELSE {"grown"}

\* What a fresh world computes, with the content the verifier has.
Shadows(t) == IF t = 1 THEN {"fresh", "stale"} ELSE {"fresh"}

Recorded(k, c) == [claims EXCEPT ![k] = {c}]

\* emit_verifications for one zone.  Who runs a zone, and how far, is free: a
\* node that takes a zone, again or while another has it, counts from tick 0.
Publish(n, z, t, h) ==
  /\ asks' = asks \cup {[to |-> m, key |-> <<z, t>>, hash |-> h, authority |-> n] : m \in Node}
  /\ claims' = IF n = Coordinator
               THEN Recorded(<<z, t>>, [authority |-> n, hash |-> h]) ELSE claims
  /\ told' = told \cup {<<z, t, n>>}
  /\ Spend(ClaimCost)
  /\ UNCHANGED <<votes, tallies, resolved, disputed, objected, karma, profiles,
                 reports, roster>>

\* on_verify_tick.
Verify(a, ours) ==
  /\ asks' = asks \ {a}
  /\ claims' = IF a.to = Coordinator
               THEN Recorded(a.key, [authority |-> a.authority, hash |-> a.hash]) ELSE claims
  /\ votes' = votes \cup
       {[key |-> a.key, verifier |-> a.to, agree |-> ours = a.hash, hash |-> ours]}
  /\ UNCHANGED <<tallies, resolved, disputed, told, objected, karma, profiles,
                 reports, roster, used>>

\* Mutant: a vote counts as agreement until there is a claim to hold it against.
Agreed_early(v) == \A c \in claims[v.key] : v.agree /\ c.hash = v.hash

\* record_vote: the hashes decide once there is a claim.
Agreed(v) == v.agree /\ \A c \in claims[v.key] : c.hash = v.hash

\* record_vote: a repeated vote replaces the one before.
Counted(v) ==
  LET old == tallies[v.key] IN
  IF Agreed(v)
  THEN [for |-> old.for \cup {v.verifier}, against |-> old.against \ {v.verifier}]
  ELSE [for |-> old.for \ {v.verifier}, against |-> old.against \cup {v.verifier}]

\* resolve: the tally that disputes a tick.
Disputes(t) == Cardinality(t.against) >= Quorum

\* on_verify_result and apply_verdict.
RecvVote(v) ==
  LET k == v.key
      t == Counted(v)
      decided == claims[k] # {} /\ Cardinality(t.for \cup t.against) >= Quorum
      guilty  == IF decided /\ Disputes(t) /\ k \notin resolved
                 THEN {c.authority : c \in claims[k]} ELSE {}
  IN
  /\ votes' = votes \ {v}
  /\ tallies' = [tallies EXCEPT ![k] = t]
  /\ objected' = objected \cup {<<k[1], k[2], w>> : w \in t.against}
  /\ disputed' = [a \in Node |-> disputed[a] \cup {tick \in {k[2]} : a \in guilty}]
  /\ resolved' = IF decided THEN resolved \cup {k} ELSE resolved
  /\ karma' = [q \in DOMAIN karma |->
                 IF decided /\ \E c \in claims[k] : c.authority = q
                 THEN Fine(q, disputed') ELSE karma[q]]
  /\ UNCHANGED <<asks, claims, told, profiles, reports, roster, used>>

-----------------------------------------------------------------------------
(* Telemetry. *)

Profile == [rounds : UNION {[1..n -> Round] : n \in 0..Window}, total_shots : Nat,
            total_violations : Nat, inhuman : BOOLEAN]
NoRounds == [rounds |-> << >>, total_shots |-> 0, total_violations |-> 0, inhuman |-> FALSE]

\* Mutant: the window is counted without the round that leaves it.
RolledOut_kept(p) == [p EXCEPT !.rounds = Tail(@)]

\* The eviction of observe.
RolledOut(p) ==
  [p EXCEPT !.rounds = Tail(@),
            !.total_shots = @ - Head(p.rounds).shots,
            !.total_violations = @ - Head(p.rounds).violations]

\* observe: the anomaly counters are one; the averages are whether they are
\* above what a human does, and one round of the other kind may turn them.
Observed(p, r, inhuman) ==
  LET o == IF Len(p.rounds) = Window THEN RolledOut(p) ELSE p
  IN [rounds |-> Append(o.rounds, r), total_shots |-> o.total_shots + r.shots,
      total_violations |-> o.total_violations + r.violations, inhuman |-> inhuman]

\* A round of a hosted player ends.
ObserveRound(p, r, inhuman) ==
  /\ p \in roster
  /\ inhuman \in {profiles[p].inhuman} \cup (IF r.shots > 0 THEN {r.inhuman} ELSE {})
  /\ (profiles[p].rounds = << >> /\ r.shots > 0) => inhuman = r.inhuman
  /\ profiles' = [profiles EXCEPT ![p] = Observed(@, r, inhuman)]
  /\ Spend(1)
  /\ UNCHANGED <<crossval, karma, reports, roster>>

\* The scale of penalty_for.
Levels == {0, -10, -30, -70, -160}

\* evaluate: no score without shots or without a signal, otherwise any.
Penalties(p) ==
  IF p.total_shots = 0 \/ (p.total_violations = 0 /\ ~ p.inhuman)
  THEN {0} ELSE Levels

-----------------------------------------------------------------------------
(* Reports.  A weight is in 1/6000: credibility in sixtieths, severity in
   hundredths; a pressure is in 1/24000. *)

\* reporter_weight.
Credibility(k) == IF k <= 40 THEN 0 ELSE IF k >= 100 THEN 60 ELSE k - 40

\* pressure, as of tick 0: no report has aged.  A reporter's strongest report
\* counts in full and the others a quarter.
Pressure(p) ==
  LET mine    == {r \in reports : r.accused = p}
      best(r) == \A o \in mine : (o.reporter = r.reporter /\ o # r) =>
                    (o.weight < r.weight \/ (o.weight = r.weight /\ o.tick > r.tick))
      share(r) == IF best(r) THEN 4 * r.weight ELSE r.weight
  IN MapThenSumSet(share, mine)

\* file: one report of a reporter on a player and a tick.
File(reporter, accused, tick, severity) ==
  /\ reporter # accused
  /\ ~ \E r \in reports : r.reporter = reporter /\ r.accused = accused /\ r.tick = tick
  /\ reports' = reports \cup
       {[reporter |-> reporter, accused |-> accused, tick |-> tick,
         weight |-> Credibility(karma[reporter]) * severity]}
  /\ Spend(1)
  /\ UNCHANGED <<crossval, karma, profiles, roster>>

-----------------------------------------------------------------------------
(* The coordinator. *)

\* The report penalty of fuse: four points for each unit above three quarters.
ReportPenalty(pressure) ==
  IF pressure >= 18000 THEN -(((pressure - 18000) * 2 + 6000) \div 12000) ELSE 0

\* fuse: without a signal of the detector reports cost at most 8.
Fused(detector, pressure) ==
  LET r == ReportPenalty(pressure)
  IN detector + (IF detector = 0 /\ r < -8 THEN -8 ELSE r)

\* karma_pass: every hosted player, then every authority with disputed ticks.
KarmaPass(d) ==
  /\ karma' = [q \in DOMAIN karma |->
       IF q \in roster THEN Applied(karma[q], Fused(d[q], Pressure(q)))
       ELSE IF q \in Node THEN Fine(q, disputed) ELSE karma[q]]
  /\ Spend(1)
  /\ UNCHANGED <<crossval, profiles, reports, roster>>

\* Mutant: only the permanent ban is looked at.
Admitted_temp(p) == Action(karma[p]) # "PermBan"

\* handle_join, the karma band; a player in quarantine gets a zone of its own.
Admitted(p) == Action(karma[p]) \notin {"PermBan", "TempBan"}

Join(p) ==
  /\ p \notin roster /\ Admitted(p)
  /\ roster' = roster \cup {p}
  /\ Spend(1)
  /\ UNCHANGED <<crossval, karma, profiles, reports>>

\* The player leaves, or is handed off.
Leave(p) ==
  /\ roster' = roster \ {p}
  /\ UNCHANGED <<crossval, karma, profiles, reports, used>>

-----------------------------------------------------------------------------

Init ==
  /\ asks = {} /\ votes = {} /\ told = {} /\ objected = {}
  /\ claims = [k \in Key |-> {}]
  /\ tallies = [k \in Key |-> [for |-> {}, against |-> {}]]
  /\ resolved = {} /\ disputed = [n \in Node |-> {}]
  /\ karma = [q \in Node \cup Player |-> Default]
  /\ profiles = [p \in Player |-> NoRounds]
  /\ reports = {} /\ roster = {}
  /\ used = 0

Next ==
  \/ \E n \in Node, z \in Zone, t \in 1..MaxTick :
       \E h \in Claimed(n, t) : Publish(n, z, t, h)
  \/ \E a \in asks : \E ours \in Shadows(a.key[2]) : Verify(a, ours)
  \/ \E v \in votes : RecvVote(v)
  \/ \E p \in Player, r \in Round, b \in BOOLEAN : ObserveRound(p, r, b)
  \/ \E p, q \in Player, t \in 0..1, sev \in Severities : File(p, q, t, sev)
  \/ \E d \in [roster -> Levels] :
       (\A p \in roster : d[p] \in Penalties(profiles[p])) /\ KarmaPass(d)
  \/ \E p \in Player : Join(p)
  \/ \E p \in roster : Leave(p)

Spec == Init /\ [][Next]_vars

-----------------------------------------------------------------------------
(* Properties. *)

TypeOK ==
  /\ asks \subseteq Ask /\ votes \subseteq Vote
  /\ claims \in [Key -> SUBSET Claim] /\ resolved \subseteq Key
  /\ tallies \in [Key -> [for : SUBSET Node, against : SUBSET Node]]
  /\ disputed \in [Node -> SUBSET (1..MaxTick)]
  /\ karma \in [Node \cup Player -> Floor..Ceiling]
  /\ profiles \in [Player -> Profile] /\ roster \subseteq Player
  /\ told \subseteq Zone \X (1..MaxTick) \X Node
  /\ objected \subseteq Zone \X (1..MaxTick) \X Node

\* A tick is disputed only when a quorum of different verifiers has been counted
\* against it in one zone, whatever was lost, repeated or came before the claim
\* (CrossValidator::resolve).
DisputeNeedsQuorum ==
  \A a \in Node : \A t \in disputed[a] : \E z \in Zone :
    Cardinality({n \in Node : <<z, t, n>> \in objected}) >= Quorum

\* A tick that only ever liars published is disputed once it is resolved:
\* neither the order of votes and claim nor repeated votes acquits it
\* (record_vote, "the hashes are the ground truth").
LiesAreDisputed ==
  \A k \in resolved :
    (\A n \in Node : <<k[1], k[2], n>> \in told => n \in Liars) =>
      \E n \in Liars : k[2] \in disputed[n]

\* Verdicts stand: none without its quorum, and none that acquits a lie.
VerdictsStand == DisputeNeedsQuorum /\ LiesAreDisputed

\* The totals a score is computed from are those of the rounds in the window
\* (Profile::observe rolls them forward and never adds them up again).
WindowTotals ==
  \A p \in Player :
    LET q == profiles[p]
        shots(i) == q.rounds[i].shots
        violations(i) == q.rounds[i].violations
    IN /\ q.total_shots = MapThenSumSet(shots, DOMAIN q.rounds)
       /\ q.total_violations = MapThenSumSet(violations, DOMAIN q.rounds)

\* Claims, votes, karma and profiles are within their bounds, and the profiles add up.
ProfilesSound == TypeOK /\ WindowTotals

\* A player that is banned when it leaves, or is not hosted, never plays again:
\* nothing the engine does raises karma (handle_join; record_outcome is not called).
BannedForGood ==
  [][\A p \in Player \ roster :
       karma[p] <= 10 => (p \notin roster' /\ karma'[p] <= 10)]_vars
================================================================================
