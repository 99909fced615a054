---------------------------- MODULE AntiCheatProofs ----------------------------
(***************************************************************************)
(* AntiCheat for any fleet, zones and players: a disputed tick has a       *)
(* quorum against it, a tick only liars published is never acquitted, a    *)
(* banned player stays out, and what a player is scored by adds up.        *)
(***************************************************************************)
EXTENDS AntiCheat, FiniteSetTheorems, WellFoundedInduction, TLAPS

USE AntiCheatAssumption

-----------------------------------------------------------------------------
(* The inductive invariant. *)

Types ==
  /\ asks \subseteq Ask /\ votes \subseteq Vote
  /\ claims \in [Key -> SUBSET Claim] /\ resolved \subseteq Key
  /\ tallies \in [Key -> [for : SUBSET Node, against : SUBSET Node]]
  /\ disputed \in [Node -> SUBSET (1..MaxTick)]
  /\ DOMAIN karma = Node \cup Player /\ roster \subseteq Player

\* Whoever is counted against a tick has been recorded.
Recordings == \A k \in Key : \A n \in tallies[k].against : <<k[1], k[2], n>> \in objected

\* Only liars have published the tick.
OnlyLies(k) == \A n \in Node : <<k[1], k[2], n>> \in told => n \in Liars

\* A claim, on its way or recorded, has been published, and a liar's is forged.
Told(k, c) == <<k[1], k[2], c.authority>> \in told /\ (c.authority \in Liars => c.hash = "forged")

Tellings ==
  /\ \A a \in asks : Told(a.key, a)
  /\ \A k \in Key : \A c \in claims[k] : Told(k, c)

\* Nobody agrees with a lie.
NoFriends ==
  /\ \A v \in votes : OnlyLies(v.key) => ~ v.agree
  /\ \A k \in Key : OnlyLies(k) => tallies[k].for = {}

Lies == Tellings /\ NoFriends /\ LiesAreDisputed

-----------------------------------------------------------------------------
(* Types. *)

LEMMA InitTypes == Init => Types
  BY DEF Init, Types

LEMMA RecordedTypes ==
  ASSUME Types, NEW k \in Key, NEW c \in Claim
  PROVE  Recorded(k, c) \in [Key -> SUBSET Claim]
  BY DEF Types, Recorded

LEMMA CountedTypes ==
  ASSUME Types, NEW v \in Vote
  PROVE  Counted(v) \in [for : SUBSET Node, against : SUBSET Node]
<1>1. tallies[v.key] \in [for : SUBSET Node, against : SUBSET Node] /\ v.verifier \in Node
  BY DEF Types, Vote
<1> QED BY <1>1 DEF Counted

\* The steps that leave cross-validation alone.
Elsewhere ==
  \/ \E p \in Player, r \in Round, b \in BOOLEAN : ObserveRound(p, r, b)
  \/ \E p, q \in Player, t \in 0..1, sev \in Severities : File(p, q, t, sev)
  \/ \E d \in [roster -> Levels] : KarmaPass(d)
  \/ \E p \in Player : Join(p)
  \/ \E p \in roster : Leave(p)
  \/ UNCHANGED vars

LEMMA NextCases ==
  ASSUME [Next]_vars
  PROVE  \/ \E n \in Node, z \in Zone, t \in 1..MaxTick :
              \E h \in Claimed(n, t) : Publish(n, z, t, h)
         \/ \E a \in asks : \E ours \in Shadows(a.key[2]) : Verify(a, ours)
         \/ \E v \in votes : RecvVote(v)
         \/ Elsewhere
  BY DEF Next, Elsewhere

LEMMA ElsewhereKeeps ==
  ASSUME Elsewhere
  PROVE  UNCHANGED crossval
  BY DEF Elsewhere, ObserveRound, File, KarmaPass, Join, Leave, vars, crossval

LEMMA ElsewhereTypes ==
  ASSUME Types, Elsewhere
  PROVE  DOMAIN karma' = Node \cup Player /\ roster' \subseteq Player
  BY DEF Elsewhere, ObserveRound, File, KarmaPass, Join, Leave, vars, Types

LEMMA NextTypes == Types /\ [Next]_vars => Types'
<1> SUFFICES ASSUME Types, [Next]_vars PROVE Types'
  OBVIOUS
<1>1. ASSUME NEW n \in Node, NEW z \in Zone, NEW t \in 1..MaxTick,
             NEW h \in Claimed(n, t), Publish(n, z, t, h)
      PROVE  Types'
  <2>1. h \in Hash /\ <<z, t>> \in Key
    BY DEF Claimed, Hash, Key
  <2>2. asks' \subseteq Ask
    BY <1>1, <2>1 DEF Publish, Types, Ask
  <2>3. claims' \in [Key -> SUBSET Claim]
    <3>1. [authority |-> n, hash |-> h] \in Claim
      BY <2>1 DEF Claim
    <3> QED BY <1>1, <2>1, <3>1, RecordedTypes DEF Publish, Types
  <2> QED BY <1>1, <2>2, <2>3 DEF Publish, Types
<1>2. ASSUME NEW a \in asks, NEW ours \in Shadows(a.key[2]), Verify(a, ours)
      PROVE  Types'
  <2>1. a \in Ask /\ ours \in Hash
    BY DEF Types, Shadows, Hash
  <2>2. claims' \in [Key -> SUBSET Claim]
    <3>1. [authority |-> a.authority, hash |-> a.hash] \in Claim /\ a.key \in Key
      BY <2>1 DEF Claim, Ask
    <3> QED BY <1>2, <3>1, RecordedTypes DEF Verify, Types
  <2>3. votes' \subseteq Vote
    <3>1. [key |-> a.key, verifier |-> a.to, agree |-> ours = a.hash, hash |-> ours] \in Vote
      BY <2>1 DEF Vote, Ask
    <3> QED BY <1>2, <3>1 DEF Verify, Types
  <2> QED BY <1>2, <2>2, <2>3 DEF Verify, Types
<1>3. ASSUME NEW v \in votes, RecvVote(v)
      PROVE  Types'
  <2>1. v \in Vote /\ v.key \in Key /\ v.key[2] \in 1..MaxTick
    BY DEF Types, Vote, Key
  <2>2. tallies' \in [Key -> [for : SUBSET Node, against : SUBSET Node]]
    BY <1>3, <2>1, CountedTypes DEF RecvVote, Types
  <2>3. resolved' \subseteq Key
    BY <1>3, <2>1 DEF RecvVote, Types
  <2>4. disputed' \in [Node -> SUBSET (1..MaxTick)]
    BY <1>3, <2>1 DEF RecvVote, Types
  <2>5. DOMAIN karma' = Node \cup Player
    BY <1>3 DEF RecvVote, Types
  <2> QED BY <1>3, <2>2, <2>3, <2>4, <2>5 DEF RecvVote, Types
<1>4. CASE Elsewhere
  BY <1>4, ElsewhereKeeps, ElsewhereTypes DEF Types, crossval
<1> QED BY <1>1, <1>2, <1>3, <1>4, NextCases

-----------------------------------------------------------------------------
(* Disputes. *)

LEMMA QuorumKept ==
  ASSUME NEW z, NEW t, NEW D, objected \subseteq objected',
         NEW S \in SUBSET Node, \A n \in S : <<z, t, n>> \in objected',
         Cardinality(S) >= D, D \in Nat
  PROVE  Cardinality({n \in Node : <<z, t, n>> \in objected'}) >= D
<1> DEFINE T == {n \in Node : <<z, t, n>> \in objected'}
<1>1. S \subseteq T /\ T \subseteq Node
  OBVIOUS
<1>2. IsFiniteSet(T)
  BY <1>1, FS_Subset
<1>3. Cardinality(S) <= Cardinality(T) /\ IsFiniteSet(S)
  BY <1>1, <1>2, FS_Subset
<1>4. Cardinality(S) \in Nat /\ Cardinality(T) \in Nat
  BY <1>2, <1>3, FS_CardinalityType
<1> HIDE DEF T
<1>5. Cardinality(T) >= D
  BY <1>3, <1>4
<1> QED BY <1>5 DEF T

LEMMA QuorumIsNat == Quorum \in Nat
  BY DEF Quorum

\* Nothing is forgotten, and a tick that becomes disputed has its quorum.
LEMMA NextDisputes ==
  ASSUME Types, Recordings, DisputeNeedsQuorum, [Next]_vars
  PROVE  Recordings' /\ DisputeNeedsQuorum'
<1>1. ASSUME UNCHANGED <<tallies, disputed, objected>>
      PROVE  Recordings' /\ DisputeNeedsQuorum'
  BY <1>1 DEF Recordings, DisputeNeedsQuorum
<1>2. ASSUME NEW v \in votes, RecvVote(v)
      PROVE  Recordings' /\ DisputeNeedsQuorum'
  <2> DEFINE k == v.key
             t == Counted(v)
  <2>1. k \in Key /\ v \in Vote /\ k[1] \in Zone /\ k[2] \in 1..MaxTick
    BY DEF Types, Vote, Key
  <2>2. t.against \subseteq Node
    BY <2>1, CountedTypes
  <2>3. /\ tallies' = [tallies EXCEPT ![k] = t]
        /\ objected' = objected \cup {<<k[1], k[2], w>> : w \in t.against}
        /\ \A a \in Node : \A x \in disputed'[a] \ disputed[a] : x = k[2] /\ Disputes(t)
    BY <1>2 DEF RecvVote, Types
  <2> HIDE DEF t
  <2>4. Recordings'
    <3> SUFFICES ASSUME NEW j \in Key, NEW n \in tallies'[j].against
                 PROVE  <<j[1], j[2], n>> \in objected'
      BY DEF Recordings
    <3>1. CASE j = k
      BY <2>1, <2>3, <3>1 DEF Types
    <3>2. CASE j # k
      BY <2>1, <2>3, <3>2 DEF Types, Recordings
    <3> QED BY <3>1, <3>2
  <2>5. DisputeNeedsQuorum'
    <3> SUFFICES ASSUME NEW a \in Node, NEW x \in disputed'[a]
                 PROVE  \E z \in Zone :
                          Cardinality({n \in Node : <<z, x, n>> \in objected'}) >= Quorum
      BY DEF DisputeNeedsQuorum, Quorum
    <3>0. objected \subseteq objected'
      BY <2>3
    <3>1. CASE x \in disputed[a]
      <4>1. PICK z \in Zone :
              Cardinality({n \in Node : <<z, x, n>> \in objected}) >= Quorum
        BY <3>1 DEF DisputeNeedsQuorum
      <4>2. \A n \in {n \in Node : <<z, x, n>> \in objected} : <<z, x, n>> \in objected'
        BY <3>0
      <4> QED BY <3>0, <4>1, <4>2, QuorumKept, QuorumIsNat
    <3>2. CASE x \notin disputed[a]
      <4>1. x = k[2] /\ Cardinality(t.against) >= Quorum
        BY <2>3, <3>2 DEF Disputes
      <4>2. \A n \in t.against : <<k[1], x, n>> \in objected'
        BY <2>3, <4>1
      <4>3. Cardinality({n \in Node : <<k[1], x, n>> \in objected'}) >= Quorum
        <5> HIDE DEF k
        <5> DEFINE S == t.against
        <5>1. S \in SUBSET Node /\ Cardinality(S) >= Quorum
              /\ \A n \in S : <<k[1], x, n>> \in objected'
          BY <2>2, <4>1, <4>2
        <5> HIDE DEF S
        <5> QED BY <3>0, <5>1, QuorumKept, QuorumIsNat
      <4> QED BY <2>1, <4>3
    <3> QED BY <3>1, <3>2
  <2> QED BY <2>4, <2>5
<1> QED BY <1>1, <1>2, NextCases, ElsewhereKeeps DEF Publish, Verify, crossval

-----------------------------------------------------------------------------
(* Lies. *)

\* A key is told of by what it names.
LEMMA TellingGrows ==
  ASSUME told \subseteq told', NEW k, OnlyLies(k)'
  PROVE  OnlyLies(k)
  BY DEF OnlyLies

LEMMA PublishLies ==
  ASSUME Types, Lies, NEW n \in Node, NEW z \in Zone, NEW t \in 1..MaxTick,
         NEW h \in Claimed(n, t), Publish(n, z, t, h)
  PROVE  Lies'
<1> DEFINE c == [authority |-> n, hash |-> h]
<1>1. n \in Liars => h = "forged"
  BY DEF Claimed
<1>2. told' = told \cup {<<z, t, n>>} /\ told \subseteq told'
  BY DEF Publish
<1>3. Tellings'
  <2>1. ASSUME NEW a \in asks' PROVE Told(a.key, a)'
    <3>1. CASE a \in asks
      BY <1>2, <3>1 DEF Lies, Tellings, Told
    <3>2. CASE a \notin asks
      <4>1. a.key = <<z, t>> /\ a.authority = n /\ a.hash = h
        BY <3>2 DEF Publish
      <4> QED BY <1>1, <1>2, <4>1 DEF Told
    <3> QED BY <3>1, <3>2
  <2>2. ASSUME NEW k \in Key, NEW d \in claims'[k] PROVE Told(k, d)'
    <3>1. CASE d \in claims[k]
      BY <1>2, <3>1 DEF Lies, Tellings, Told
    <3>2. CASE d \notin claims[k]
      <4>1. k = <<z, t>> /\ d.authority = n /\ d.hash = h
        BY <3>2 DEF Publish, Recorded, Types
      <4> QED BY <1>1, <1>2, <4>1 DEF Told
    <3> QED BY <3>1, <3>2
  <2> QED BY <2>1, <2>2 DEF Tellings
<1>4. UNCHANGED <<votes, tallies, resolved, disputed>>
  BY DEF Publish
<1>5. NoFriends'
  BY <1>2, <1>4, TellingGrows DEF Lies, NoFriends
<1>6. LiesAreDisputed'
  BY <1>2, <1>4 DEF Lies, LiesAreDisputed
<1> QED BY <1>3, <1>5, <1>6 DEF Lies

LEMMA VerifyLies ==
  ASSUME Types, Lies, NEW a \in asks, NEW ours \in Shadows(a.key[2]), Verify(a, ours)
  PROVE  Lies'
<1>1. a \in Ask /\ a.key \in Key /\ a.authority \in Node /\ Told(a.key, a)
  BY DEF Types, Ask, Lies, Tellings
<1>2. told' = told /\ UNCHANGED <<tallies, resolved, disputed>> /\ asks' \subseteq asks
  BY DEF Verify
<1>3. Tellings'
  <2>1. ASSUME NEW k \in Key, NEW d \in claims'[k] PROVE Told(k, d)'
    <3>1. CASE d \in claims[k]
      BY <1>2, <3>1 DEF Lies, Tellings, Told
    <3>2. CASE d \notin claims[k]
      <4>1. k = a.key /\ d.authority = a.authority /\ d.hash = a.hash
        BY <3>2 DEF Verify, Recorded, Types
      <4> QED BY <1>1, <1>2, <4>1 DEF Told
    <3> QED BY <3>1, <3>2
  <2> QED BY <1>2, <2>1 DEF Lies, Tellings, Told
<1>4. NoFriends'
  <2>1. ASSUME NEW v \in votes', OnlyLies(v.key)' PROVE ~ v.agree
    <3>0. OnlyLies(v.key)
      BY <1>2, <2>1 DEF OnlyLies
    <3>1. CASE v \in votes
      BY <3>0, <3>1 DEF Lies, NoFriends
    <3>2. CASE v \notin votes
      <4>1. v.key = a.key /\ v.agree = (ours = a.hash)
        BY <3>2 DEF Verify
      <4>2. a.authority \in Liars
        BY <1>1, <3>0, <4>1 DEF Told, OnlyLies
      <4>3. a.hash = "forged" /\ ours # "forged"
        BY <1>1, <4>2 DEF Told, Shadows
      <4> QED BY <4>1, <4>3
    <3> QED BY <3>1, <3>2
  <2>2. ASSUME NEW k \in Key, OnlyLies(k)' PROVE tallies'[k].for = {}
    BY <1>2, <2>2 DEF Lies, NoFriends, OnlyLies
  <2> QED BY <2>1, <2>2 DEF NoFriends
<1>5. LiesAreDisputed'
  BY <1>2 DEF Lies, LiesAreDisputed
<1> QED BY <1>3, <1>4, <1>5 DEF Lies

LEMMA RecvLies ==
  ASSUME Types, Lies, NEW v \in votes, RecvVote(v)
  PROVE  Lies'
<1> DEFINE k == v.key
           t == Counted(v)
<1>1. v \in Vote /\ k \in Key
  BY DEF Types, Vote
<1>2. UNCHANGED <<asks, claims, told>> /\ votes' \subseteq votes
      /\ tallies' = [tallies EXCEPT ![k] = t]
  BY DEF RecvVote
<1>3. OnlyLies(k) => t.for = {}
  BY <1>1 DEF Lies, NoFriends, Counted, Agreed
<1>4. /\ \A a \in Node : disputed[a] \subseteq disputed'[a]
      /\ \A j \in resolved' \ resolved :
            /\ j = k /\ claims[k] # {} /\ Cardinality(t.for \cup t.against) >= Quorum
            /\ Disputes(t) => \A c \in claims[k] : c.authority \in Node => k[2] \in disputed'[c.authority]
  BY DEF RecvVote, Types
<1>5. t.against \in SUBSET Node /\ t.for \in SUBSET Node
  BY <1>1, CountedTypes
<1> HIDE DEF t
<1>6. Tellings'
  BY <1>2 DEF Lies, Tellings, Told
<1>7. NoFriends'
  <2>1. ASSUME NEW j \in Key, OnlyLies(j)' PROVE tallies'[j].for = {}
    BY <1>1, <1>2, <1>3, <2>1 DEF Lies, NoFriends, OnlyLies, Types
  <2>2. ASSUME NEW w \in votes', OnlyLies(w.key)' PROVE ~ w.agree
    BY <1>2, <2>2 DEF Lies, NoFriends, OnlyLies
  <2> QED BY <2>1, <2>2 DEF NoFriends
<1>8. LiesAreDisputed'
  <2> SUFFICES ASSUME NEW j \in resolved', OnlyLies(j)
               PROVE  \E n \in Liars : j[2] \in disputed'[n]
    BY <1>2 DEF LiesAreDisputed, OnlyLies
  <2>1. CASE j \in resolved
    BY <1>4, <2>1 DEF Lies, LiesAreDisputed, OnlyLies
  <2>2. CASE j \notin resolved
    <3>1. j = k /\ claims[k] # {} /\ t.for = {} /\ Cardinality(t.for \cup t.against) >= Quorum
      BY <1>3, <1>4, <2>2
    <3>2. t.for \cup t.against = t.against
      BY <3>1
    <3>3. Disputes(t)
      BY <3>1, <3>2 DEF Disputes
    <3>4. PICK c \in claims[k] : c \in Claim /\ Told(k, c)
      BY <1>1, <3>1 DEF Types, Lies, Tellings
    <3>5. c.authority \in Liars
      BY <3>1, <3>4 DEF Claim, Told, OnlyLies
    <3> QED BY <1>4, <2>2, <3>1, <3>3, <3>4, <3>5 DEF Claim
  <2> QED BY <2>1, <2>2
<1> QED BY <1>6, <1>7, <1>8 DEF Lies

LEMMA NextLies ==
  ASSUME Types, Lies, [Next]_vars
  PROVE  Lies'
<1>1. ASSUME UNCHANGED crossval PROVE Lies'
  BY <1>1 DEF Lies, Tellings, Told, NoFriends, OnlyLies, LiesAreDisputed, crossval
<1> QED BY <1>1, NextCases, PublishLies, VerifyLies, RecvLies, ElsewhereKeeps

-----------------------------------------------------------------------------
(* The theorems. *)

IInv == Types /\ Recordings /\ DisputeNeedsQuorum /\ Lies

LEMMA InitIInv == Init => IInv
<1> SUFFICES ASSUME Init PROVE IInv
  OBVIOUS
<1>1. Recordings /\ DisputeNeedsQuorum
  BY DEF Init, Recordings, DisputeNeedsQuorum
<1>2. Lies
  BY DEF Init, Lies, Tellings, NoFriends, LiesAreDisputed
<1> QED BY <1>1, <1>2, InitTypes DEF IInv

LEMMA NextIInv == IInv /\ [Next]_vars => IInv'
  BY NextTypes, NextDisputes, NextLies DEF IInv

\* Always, a tick is disputed only with a quorum of verifiers counted against
\* it, and one that only liars published is disputed once it is resolved.
THEOREM Verdicts == Spec => []VerdictsStand
<1>1. IInv => VerdictsStand
  BY DEF IInv, Lies, VerdictsStand
<1> QED BY <1>1, InitIInv, NextIInv, PTL DEF Spec

\* A banned player that is not hosted never comes in again.
THEOREM BansStay == Spec => BannedForGood
<1> DEFINE Out(p) == karma[p] <= 10 => (p \notin roster' /\ karma'[p] <= 10)
<1>1. ASSUME Types, [Next]_vars, NEW p \in Player \ roster
      PROVE  Out(p)
  <2>1. CASE \E n \in Node, z \in Zone, t \in 1..MaxTick :
               \E h \in Claimed(n, t) : Publish(n, z, t, h)
    BY <2>1 DEF Publish
  <2>2. CASE \E a \in asks : \E ours \in Shadows(a.key[2]) : Verify(a, ours)
    BY <2>2 DEF Verify
  <2>3. ASSUME NEW v \in votes, RecvVote(v) PROVE Out(p)
    <3>1. \A c \in claims[v.key] : c.authority # p
      <4>1. v.key \in Key
        BY <1>1 DEF Types, Vote
      <4>2. \A c \in claims[v.key] : c.authority \in Node
        BY <1>1, <4>1 DEF Types, Claim
      <4> QED BY <4>2
    <3>2. karma'[p] = karma[p]
      BY <1>1, <2>3, <3>1 DEF RecvVote, Types
    <3> QED BY <2>3, <3>2 DEF RecvVote
  <2>4. CASE \E q \in Player, r \in Round, b \in BOOLEAN : ObserveRound(q, r, b)
    BY <2>4 DEF ObserveRound
  <2>5. CASE \E q, o \in Player, t \in 0..1, sev \in Severities : File(q, o, t, sev)
    BY <2>5 DEF File
  <2>6. ASSUME NEW d, KarmaPass(d) PROVE Out(p)
    <3>1. karma'[p] = karma[p]
      BY <1>1, <2>6 DEF KarmaPass, Types
    <3> QED BY <2>6, <3>1 DEF KarmaPass
  <2>7. ASSUME NEW q \in Player, Join(q) PROVE Out(p)
    <3>1. CASE q = p
      <4>1. Action(karma[p]) # "PermBan" /\ Action(karma[p]) # "TempBan"
        BY <2>7, <3>1 DEF Join, Admitted
      <4>2. ~ (karma[p] <= 10)
        BY <4>1 DEF Action
      <4> QED BY <4>2
    <3>2. CASE q # p
      BY <2>7, <3>2 DEF Join
    <3> QED BY <3>1, <3>2
  <2>8. CASE \E q \in roster : Leave(q)
    BY <2>8 DEF Leave
  <2>9. CASE UNCHANGED vars
    BY <2>9 DEF vars
  <2> QED BY <1>1, <2>1, <2>2, <2>3, <2>4, <2>5, <2>6, <2>7, <2>8, <2>9, NextCases DEF Elsewhere
<1>2. Types /\ [Next]_vars => [\A p \in Player \ roster : Out(p)]_vars
  BY <1>1
<1> QED BY <1>2, InitTypes, NextTypes, PTL DEF Spec, BannedForGood
-----------------------------------------------------------------------------
(* Sums over finite sets. *)

\* The order of the natural numbers is well founded, as a set of pairs.
LEMMA NatOrder == IsWellFoundedOn({p \in Nat \X Nat : p[1] < p[2]}, Nat)
  BY NatLessThanWellFounded, Zenon DEF OpToRel

\* A set of numbers that is not empty has a least one.
LEMMA Least ==
  ASSUME NEW S \in SUBSET Nat, S # {}
  PROVE  \E k \in S : \A j \in S : k <= j
<1> DEFINE R == {p \in Nat \X Nat : p[1] < p[2]}
<1>1. PICK k \in S : \A j \in S : ~ (<<j, k>> \in R)
  <2>1. IsWellFoundedOn(R, Nat)
    BY NatOrder
  <2> HIDE DEF R
  <2> QED BY <2>1, WFMin
<1>2. \A j \in S : k <= j
  <2> TAKE j \in S
  <2>1. ~ (<<j, k>> \in R)
    BY <1>1
  <2> QED BY <2>1
<1> QED BY <1>2

Pick(s) == CHOOSE x \in s : TRUE

\* The folds of MapThenSumSet, over the subsets of S of at most n elements.
Small(S, n) == {s \in SUBSET S : Cardinality(s) <= n}
Adds(f, F, s) == IF s = {} THEN 0 ELSE F[Pick(s)] + f[s \ {Pick(s)}]
Folds(f, F, S) == f = [s \in SUBSET S |-> Adds(f, F, s)]
SumOf(F, S) == (CHOOSE f : Folds(f, F, S))[S]

\* What picking leaves.
LEMMA Picked ==
  ASSUME NEW S, IsFiniteSet(S), S # {}
  PROVE  /\ Pick(S) \in S /\ IsFiniteSet(S \ {Pick(S)})
         /\ Cardinality(S) \in Nat /\ Cardinality(S) # 0
         /\ Cardinality(S \ {Pick(S)}) = Cardinality(S) - 1
<1>1. Pick(S) \in S
  BY DEF Pick
<1> QED BY <1>1, FS_RemoveElement, FS_CardinalityType, FS_EmptySet

\* A finite set has its fold.
LEMMA FoldExists ==
  ASSUME NEW F, NEW S, IsFiniteSet(S)
  PROVE  \E f : Folds(f, F, S)
<1> DEFINE Upto(n, f) == f = [s \in Small(S, n) |-> Adds(f, F, s)]
           Bad == {n \in Nat : ~ \E f : Upto(n, f)}
<1>1. \A s \in SUBSET S : /\ IsFiniteSet(s) /\ Cardinality(s) \in Nat
                          /\ Cardinality(s) <= Cardinality(S)
  BY FS_Subset, FS_CardinalityType
<1>2. Bad = {}
  <2> SUFFICES ASSUME Bad # {} PROVE FALSE
    OBVIOUS
  <2>1. PICK n \in Bad : \A j \in Bad : n <= j
    <3>1. Bad \in SUBSET Nat
      OBVIOUS
    <3> HIDE DEF Bad
    <3> QED BY <3>1, Least
  <2>2. n \in Nat /\ ~ \E f : Upto(n, f)
    OBVIOUS
  <2>3. n # 0
    <3> DEFINE f == [s \in Small(S, 0) |-> 0]
    <3>1. \A s \in Small(S, 0) : s = {}
      BY <1>1, FS_EmptySet DEF Small
    <3>2. \A s \in Small(S, 0) : Adds(f, F, s) = 0
      BY <3>1 DEF Adds
    <3>3. Upto(0, f)
      BY <3>2
    <3> QED BY <2>2, <3>3
  <2>4. PICK f : Upto(n - 1, f)
    <3>1. n - 1 \in Nat /\ ~(n <= n - 1)
      BY <2>2, <2>3
    <3>2. n - 1 \notin Bad
      <4> HIDE DEF Bad
      <4> QED BY <2>1, <3>1
    <3> QED BY <3>1, <3>2
  <2> DEFINE g == [s \in Small(S, n) |-> Adds(f, F, s)]
  <2>5. \A s \in Small(S, n - 1) : f[s] = Adds(f, F, s) /\ s \in Small(S, n)
    BY <1>1, <2>2, <2>4 DEF Small
  <2>6. \A s \in Small(S, n) : s # {} => s \ {Pick(s)} \in Small(S, n - 1)
    BY <1>1, <2>2, Picked DEF Small
  <2>7. \A s \in Small(S, n) : Adds(g, F, s) = Adds(f, F, s)
    <3> TAKE s \in Small(S, n)
    <3>1. CASE s = {}
      BY <3>1 DEF Adds
    <3>2. CASE s # {}
      <4>1. g[s \ {Pick(s)}] = f[s \ {Pick(s)}]
        BY <2>5, <2>6, <3>2
      <4> QED BY <3>2, <4>1 DEF Adds
    <3> QED BY <3>1, <3>2
  <2>8. Upto(n, g)
    BY <2>7
  <2> QED BY <2>2, <2>8
<1>3. PICK f : Upto(Cardinality(S), f)
  BY <1>1, <1>2
<1>4. Small(S, Cardinality(S)) = SUBSET S
  BY <1>1 DEF Small
<1>5. Folds(f, F, S)
  BY <1>3, <1>4 DEF Folds
<1> QED BY <1>5

\* Folds agree wherever both are.
LEMMA FoldsAgree ==
  ASSUME NEW F, NEW S, IsFiniteSet(S), NEW T \in SUBSET S,
         NEW f, Folds(f, F, S), NEW g, Folds(g, F, T)
  PROVE  f[T] = g[T]
<1> DEFINE Off == {s \in SUBSET T : f[s] # g[s]}
           Sizes == {Cardinality(s) : s \in Off}
<1>1. \A s \in SUBSET T : IsFiniteSet(s) /\ Cardinality(s) \in Nat /\ s \in SUBSET S
  BY FS_Subset, FS_CardinalityType
<1>2. \A s \in SUBSET T : f[s] = Adds(f, F, s) /\ g[s] = Adds(g, F, s)
  BY DEF Folds
<1>3. Off = {}
  <2> SUFFICES ASSUME Off # {} PROVE FALSE
    OBVIOUS
  <2>1. PICK n \in Sizes : \A j \in Sizes : n <= j
    <3>1. Sizes \in SUBSET Nat /\ Sizes # {}
      BY <1>1
    <3> HIDE DEF Sizes
    <3> QED BY <3>1, Least
  <2>2. PICK s \in Off : Cardinality(s) = n
    OBVIOUS
  <2>3. s # {}
    BY <1>2, <2>2 DEF Adds
  <2>4. s \ {Pick(s)} \notin Off
    <3>1. Cardinality(s \ {Pick(s)}) = n - 1 /\ n \in Nat
      BY <1>1, <2>2, <2>3, Picked
    <3>2. n - 1 \notin Sizes
      BY <2>1, <3>1
    <3> QED BY <3>1, <3>2
  <2>5. f[s \ {Pick(s)}] = g[s \ {Pick(s)}]
    BY <2>4
  <2> QED BY <1>2, <2>2, <2>3, <2>5 DEF Adds
<1> QED BY <1>3

\* A sum is the value of any fold that covers its set.
LEMMA SumIs ==
  ASSUME NEW F, NEW S, IsFiniteSet(S), NEW f, Folds(f, F, S), NEW T \in SUBSET S
  PROVE  SumOf(F, T) = f[T]
<1>1. IsFiniteSet(T)
  BY FS_Subset
<1> DEFINE g == CHOOSE h : Folds(h, F, T)
<1>2. Folds(g, F, T)
  BY <1>1, FoldExists
<1>3. SumOf(F, T) = g[T]
  BY DEF SumOf
<1> HIDE DEF g
<1> QED BY <1>2, <1>3, FoldsAgree

\* A sum, unfolded once.
LEMMA SumStep ==
  ASSUME NEW F, NEW S, IsFiniteSet(S)
  PROVE  SumOf(F, S) = IF S = {} THEN 0 ELSE F[Pick(S)] + SumOf(F, S \ {Pick(S)})
<1>1. PICK f : Folds(f, F, S)
  BY FoldExists
<1>2. SumOf(F, S) = f[S] /\ SumOf(F, S \ {Pick(S)}) = f[S \ {Pick(S)}]
  BY <1>1, SumIs
<1>3. f[S] = Adds(f, F, S)
  BY <1>1 DEF Folds
<1> QED BY <1>2, <1>3 DEF Adds

\* Any element may be taken out first.
LEMMA SumWithout ==
  ASSUME NEW F, NEW S, IsFiniteSet(S), \A x \in S : F[x] \in Nat
  PROVE  /\ SumOf(F, S) \in Nat
         /\ \A x \in S : SumOf(F, S) = F[x] + SumOf(F, S \ {x})
<1> DEFINE Good(s) == /\ SumOf(F, s) \in Nat
                      /\ \A x \in s : SumOf(F, s) = F[x] + SumOf(F, s \ {x})
           Off == {s \in SUBSET S : ~ Good(s)}
           Sizes == {Cardinality(s) : s \in Off}
<1>1. \A s \in SUBSET S : IsFiniteSet(s) /\ Cardinality(s) \in Nat
  BY FS_Subset, FS_CardinalityType
<1>2. Off = {}
  <2> SUFFICES ASSUME Off # {} PROVE FALSE
    OBVIOUS
  <2>1. PICK n \in Sizes : \A j \in Sizes : n <= j
    <3>1. Sizes \in SUBSET Nat /\ Sizes # {}
      BY <1>1
    <3> HIDE DEF Sizes
    <3> QED BY <3>1, Least
  <2>2. PICK s \in Off : Cardinality(s) = n
    OBVIOUS
  <2>3. IsFiniteSet(s) /\ n \in Nat /\ s \in SUBSET S /\ ~ Good(s)
    BY <1>1, <2>2
  <2>4. s # {}
    <3> SUFFICES ASSUME s = {} PROVE FALSE
      OBVIOUS
    <3>1. SumOf(F, s) = 0
      BY <2>3, SumStep
    <3> QED BY <2>3, <3>1
  <2>5. ASSUME NEW x \in s PROVE Good(s \ {x})
    <3>1. Cardinality(s \ {x}) = n - 1
      BY <2>2, <2>3, FS_RemoveElement
    <3>2. n - 1 \notin Sizes
      <4> HIDE DEF Sizes
      <4> QED BY <2>1, <2>3
    <3>3. s \ {x} \notin Off
      BY <3>1, <3>2
    <3> QED BY <2>3, <3>3
  <2> HIDE DEF Off, Sizes
  <2> DEFINE p == Pick(s)
  <2>6. p \in s /\ SumOf(F, s) = F[p] + SumOf(F, s \ {p})
    BY <2>3, <2>4, SumStep, Picked
  <2> HIDE DEF p
  <2>7. SumOf(F, s) \in Nat
    BY <2>3, <2>5, <2>6
  <2>8. ASSUME NEW x \in s PROVE SumOf(F, s) = F[x] + SumOf(F, s \ {x})
    <3>1. CASE x = p
      BY <2>6, <3>1
    <3>2. CASE x # p
      <4>1. (s \ {p}) \ {x} = (s \ {x}) \ {p}
        OBVIOUS
      <4> DEFINE rest == SumOf(F, (s \ {x}) \ {p})
      <4>2. SumOf(F, s \ {p}) = F[x] + rest /\ SumOf(F, s \ {p}) \in Nat
        BY <2>5, <2>6, <3>2, <4>1
      <4>3. SumOf(F, s \ {x}) = F[p] + rest /\ SumOf(F, s \ {x}) \in Nat
        BY <2>5, <2>6, <3>2
      <4>4. rest \in Nat
        <5>1. s \ {x} \in SUBSET S /\ IsFiniteSet(s \ {x}) /\ p \in s \ {x}
          BY <2>3, <2>6, <3>2, FS_RemoveElement
        <5>2. Cardinality((s \ {x}) \ {p}) = n - 2 /\ n - 2 \in Nat
          <6> DEFINE t == s \ {x}
          <6>0. Cardinality(t) = n - 1
            BY <2>2, <2>3, FS_RemoveElement
          <6>1. Cardinality(t \ {p}) = Cardinality(t) - 1
            <7>1. IsFiniteSet(t) /\ p \in t
              BY <5>1
            <7> HIDE DEF t
            <7> QED BY <7>1, FS_RemoveElement
          <6>2. (s \ {x}) \ {p} \in SUBSET S
            BY <2>3
          <6>3. Cardinality((s \ {x}) \ {p}) \in Nat
            BY <1>1, <6>2
          <6> QED BY <2>3, <6>0, <6>1, <6>3
        <5>3. n - 2 \notin Sizes
          BY <2>1, <2>3, <5>2
        <5>4. (s \ {x}) \ {p} \notin Off
          BY <5>2, <5>3 DEF Sizes
        <5> QED BY <2>3, <5>4 DEF Off
      <4> HIDE DEF rest
      <4>5. F[x] \in Nat /\ F[p] \in Nat
        BY <2>3, <2>6
      <4> QED BY <2>6, <4>2, <4>3, <4>4, <4>5
    <3> QED BY <3>1, <3>2
  <2> QED BY <2>3, <2>7, <2>8
<1>3. Good(S)
  BY <1>2
<1> QED BY <1>3

Natural(F, S) == \A x \in S : F[x] \in Nat

\* An element taken out, the rest being given.
LEMMA SumTake ==
  ASSUME NEW F, NEW S, IsFiniteSet(S), Natural(F, S), NEW x \in S, NEW T, T = S \ {x}
  PROVE  SumOf(F, S) = F[x] + SumOf(F, T)
  BY SumWithout DEF Natural

\* Only the values on the set count.
LEMMA SumSame ==
  ASSUME NEW F, NEW G, NEW S, \A x \in S : F[x] = G[x]
  PROVE  SumOf(F, S) = SumOf(G, S)
<1>1. \A f : \A s \in SUBSET S : Adds(f, F, s) = Adds(f, G, s)
  <2> SUFFICES ASSUME NEW f, NEW s \in SUBSET S PROVE Adds(f, F, s) = Adds(f, G, s)
    OBVIOUS
  <2>1. s # {} => Pick(s) \in S
    BY DEF Pick
  <2> QED BY <2>1 DEF Adds
<1>2. \A f : Folds(f, F, S) <=> Folds(f, G, S)
  BY <1>1 DEF Folds
<1> QED BY <1>2 DEF SumOf

\* The same numbers, one place on.
LEMMA SumShifted ==
  ASSUME NEW F, NEW G, NEW N \in Nat, \A i \in 1..N : G[i] = F[i + 1] /\ F[i + 1] \in Nat
  PROVE  SumOf(G, 1..N) = SumOf(F, 2..(N + 1))
<1> DEFINE Bad == {n \in 0..N : SumOf(G, 1..n) # SumOf(F, 2..(n + 1))}
<1>1. Bad = {}
  <2> SUFFICES ASSUME Bad # {} PROVE FALSE
    OBVIOUS
  <2>1. PICK n \in Bad : \A j \in Bad : n <= j
    <3>1. Bad \in SUBSET Nat
      OBVIOUS
    <3> HIDE DEF Bad
    <3> QED BY <3>1, Least
  <2>2. n \in 0..N /\ SumOf(G, 1..n) # SumOf(F, 2..(n + 1))
    OBVIOUS
  <2>3. IsFiniteSet(1..n) /\ IsFiniteSet(2..(n + 1))
    BY <2>2, FS_Interval
  <2>4. n # 0
    <3> SUFFICES ASSUME n = 0 PROVE FALSE
      OBVIOUS
    <3>1. 1..n = {} /\ 2..(n + 1) = {}
      OBVIOUS
    <3> QED BY <2>2, <2>3, <3>1, SumStep
  <2>5. SumOf(G, 1..(n - 1)) = SumOf(F, 2..n)
    <3>1. n - 1 \in 0..N /\ ~(n <= n - 1) /\ (n - 1) + 1 = n
      BY <2>2, <2>4
    <3>2. n - 1 \notin Bad
      <4> HIDE DEF Bad
      <4> QED BY <2>1, <3>1
    <3> QED BY <3>1, <3>2
  <2> HIDE DEF Bad
  <2>6. /\ (1..n) \ {n} = 1..(n - 1) /\ n \in 1..n
        /\ (2..(n + 1)) \ {n + 1} = 2..n /\ n + 1 \in 2..(n + 1)
    BY <2>2, <2>4
  <2>7. Natural(G, 1..n) /\ Natural(F, 2..(n + 1))
    <3>1. \A i \in 1..n : G[i] \in Nat
      BY <2>2
    <3>2. ASSUME NEW i \in 2..(n + 1) PROVE F[i] \in Nat
      <4>1. i - 1 \in 1..N /\ (i - 1) + 1 = i
        BY <2>2
      <4> QED BY <4>1
    <3> QED BY <3>1, <3>2 DEF Natural
  <2> DEFINE S == 1..n  T == 2..(n + 1)  m == n + 1  R == 1..(n - 1)  Q == 2..n
  <2>8. /\ n \in S /\ IsFiniteSet(S) /\ Natural(G, S) /\ R = S \ {n}
        /\ m \in T /\ IsFiniteSet(T) /\ Natural(F, T) /\ Q = T \ {m}
    BY <2>3, <2>6, <2>7
  <2> HIDE DEF S, T, m, R, Q
  <2>9. SumOf(G, S) = G[n] + SumOf(G, R)
    BY <2>8, SumTake
  <2>10. SumOf(F, T) = F[m] + SumOf(F, Q)
    BY <2>8, SumTake
  <2>11. G[n] = F[n + 1]
    BY <2>2, <2>4
  <2> QED BY <2>2, <2>5, <2>9, <2>10, <2>11 DEF S, T, m, R, Q
<1> QED BY <1>1

\* A list of numbers whose first goes out when another comes in.
Shifted(F, G, N) == \A i \in 1..(N - 1) : G[i] = F[i + 1]

LEMMA SumRolls ==
  ASSUME NEW F, NEW G, NEW N \in Nat \ {0}, Natural(F, 1..N), Shifted(F, G, N),
         G[N] \in Nat
  PROVE  /\ SumOf(F, 1..N) - F[1] \in Nat
         /\ SumOf(G, 1..N) = (SumOf(F, 1..N) - F[1]) + G[N]
<1> USE DEF Natural, Shifted
<1>1. IsFiniteSet(1..N) /\ 1 \in 1..N /\ N \in 1..N
  BY FS_Interval
<1>2. 2..N = (1..N) \ {1} /\ 1..(N - 1) = (1..N) \ {N} /\ N - 1 \in Nat /\ (N - 1) + 1 = N
  OBVIOUS
<1>3. Natural(F, 1..N) /\ Natural(G, 1..N)
  <2> SUFFICES \A i \in 1..N : G[i] \in Nat
    BY DEF Natural
  <2> TAKE i \in 1..N
  <2>1. CASE i = N
    BY <2>1
  <2>2. CASE i # N
    <3>1. i \in 1..(N - 1) /\ i + 1 \in 1..N
      BY <2>2
    <3> QED BY <3>1
  <2> QED BY <2>1, <2>2
<1> DEFINE S == 1..N  one == 1  T == 2..N  R == 1..(N - 1)
<1>4. /\ IsFiniteSet(S) /\ Natural(F, S) /\ Natural(G, S)
      /\ one \in S /\ T = S \ {one} /\ N \in S /\ R = S \ {N}
  BY <1>1, <1>2, <1>3
<1> HIDE DEF S, one, T, R
<1>5. SumOf(F, S) = F[one] + SumOf(F, T)
  BY <1>4, SumTake
<1>6. SumOf(G, S) = G[N] + SumOf(G, R)
  BY <1>4, SumTake
<1>7. SumOf(G, 1..(N - 1)) = SumOf(F, 2..N)
  <2>1. \A i \in 1..(N - 1) : G[i] = F[i + 1] /\ F[i + 1] \in Nat
    <3> TAKE i \in 1..(N - 1)
    <3>1. i + 1 \in 1..N
      OBVIOUS
    <3> QED BY <3>1
  <2> QED BY <1>2, <2>1, SumShifted
<1>8. SumOf(F, 2..N) \in Nat
  <2>1. IsFiniteSet(2..N) /\ \A i \in 2..N : F[i] \in Nat
    BY FS_Interval
  <2> QED BY <2>1, SumWithout
<1>9. SumOf(F, 1..N) \in Nat /\ F[1] \in Nat
  BY <1>1, SumWithout
<1> QED BY <1>5, <1>6, <1>7, <1>8, <1>9 DEF S, one, T, R

\* One more at the end.
LEMMA SumGrows ==
  ASSUME NEW F, NEW G, NEW N \in Nat, \A i \in 1..N : F[i] \in Nat /\ G[i] = F[i],
         G[N + 1] \in Nat
  PROVE  SumOf(G, 1..(N + 1)) = SumOf(F, 1..N) + G[N + 1] /\ SumOf(F, 1..N) \in Nat
<1>1. /\ IsFiniteSet(1..(N + 1)) /\ IsFiniteSet(1..N) /\ N + 1 \in 1..(N + 1)
      /\ 1..N = (1..(N + 1)) \ {N + 1}
  <2>1. 1..N = (1..(N + 1)) \ {N + 1} /\ N + 1 \in 1..(N + 1)
    OBVIOUS
  <2>2. N + 1 \in Int /\ N \in Int /\ 1 \in Int
    OBVIOUS
  <2>3. IsFiniteSet(1..(N + 1)) /\ IsFiniteSet(1..N)
    BY <2>2, FS_Interval, Zenon
  <2> QED BY <2>1, <2>3
<1>2. Natural(G, 1..(N + 1))
  <2> SUFFICES \A i \in 1..(N + 1) : G[i] \in Nat
    BY DEF Natural
  <2> TAKE i \in 1..(N + 1)
  <2>1. i = N + 1 \/ i \in 1..N
    OBVIOUS
  <2> QED BY <2>1
<1> DEFINE S == 1..(N + 1)  m == N + 1  R == 1..N
<1>3. IsFiniteSet(S) /\ Natural(G, S) /\ m \in S /\ R = S \ {m}
  BY <1>1, <1>2
<1> HIDE DEF S, m, R
<1>4. SumOf(G, S) = G[m] + SumOf(G, R)
  BY <1>3, SumTake
<1>5. SumOf(G, 1..N) = SumOf(F, 1..N)
  BY SumSame
<1>6. SumOf(F, 1..N) \in Nat
  BY <1>1, SumWithout
<1> QED BY <1>4, <1>5, <1>6 DEF S, m, R

-----------------------------------------------------------------------------
(* Karma, profiles and reports. *)

Shots(rounds) == [i \in DOMAIN rounds |-> rounds[i].shots]
Violations(rounds) == [i \in DOMAIN rounds |-> rounds[i].violations]

\* The totals of a profile are those of its rounds.
Totals(q) ==
  /\ q.total_shots = SumOf(Shots(q.rounds), DOMAIN q.rounds)
  /\ q.total_violations = SumOf(Violations(q.rounds), DOMAIN q.rounds)

LEMMA ShotsSum ==
  ASSUME NEW rounds, NEW S, S = DOMAIN rounds
  PROVE  MapThenSumSet(LAMBDA i : rounds[i].shots, S) = SumOf(Shots(rounds), S)
<1> DEFINE rhs(f, s) == IF s = {} THEN 0
                        ELSE rounds[Pick(s)].shots + f[s \ {Pick(s)}]
<1>1. \A f : \A s \in SUBSET S : rhs(f, s) = Adds(f, Shots(rounds), s)
  <2> SUFFICES ASSUME NEW f, NEW s \in SUBSET S, s # {}
               PROVE  rounds[Pick(s)].shots = Shots(rounds)[Pick(s)]
    BY DEF Adds
  <2>1. Pick(s) \in S
    BY DEF Pick
  <2> QED BY <2>1 DEF Shots
<1>2. MapThenSumSet(LAMBDA i : rounds[i].shots, S)
        = (CHOOSE f : f = [s \in SUBSET S |-> rhs(f, s)])[S]
  BY DEF MapThenSumSet, MapThenFoldSet, Pick
<1> HIDE DEF rhs
<1>3. \A f : f = [s \in SUBSET S |-> rhs(f, s)] <=> Folds(f, Shots(rounds), S)
  BY <1>1 DEF Folds
<1> QED BY <1>2, <1>3 DEF SumOf

LEMMA ViolationsSum ==
  ASSUME NEW rounds, NEW S, S = DOMAIN rounds
  PROVE  MapThenSumSet(LAMBDA i : rounds[i].violations, S) = SumOf(Violations(rounds), S)
<1> DEFINE rhs(f, s) == IF s = {} THEN 0
                        ELSE rounds[Pick(s)].violations + f[s \ {Pick(s)}]
<1>1. \A f : \A s \in SUBSET S : rhs(f, s) = Adds(f, Violations(rounds), s)
  <2> SUFFICES ASSUME NEW f, NEW s \in SUBSET S, s # {}
               PROVE  rounds[Pick(s)].violations = Violations(rounds)[Pick(s)]
    BY DEF Adds
  <2>1. Pick(s) \in S
    BY DEF Pick
  <2> QED BY <2>1 DEF Violations
<1>2. MapThenSumSet(LAMBDA i : rounds[i].violations, S)
        = (CHOOSE f : f = [s \in SUBSET S |-> rhs(f, s)])[S]
  BY DEF MapThenSumSet, MapThenFoldSet, Pick
<1> HIDE DEF rhs
<1>3. \A f : f = [s \in SUBSET S |-> rhs(f, s)] <=> Folds(f, Violations(rounds), S)
  BY <1>1 DEF Folds
<1> QED BY <1>2, <1>3 DEF SumOf

LEMMA TotalsMean == (\A p \in Player : Totals(profiles[p])) => WindowTotals
<1> SUFFICES ASSUME NEW p \in Player, Totals(profiles[p])
             PROVE  LET q == profiles[p]
                        shots(i) == q.rounds[i].shots
                        violations(i) == q.rounds[i].violations
                    IN /\ q.total_shots = MapThenSumSet(shots, DOMAIN q.rounds)
                       /\ q.total_violations = MapThenSumSet(violations, DOMAIN q.rounds)
  BY DEF WindowTotals
<1> DEFINE q == profiles[p]
<1>1. q.total_shots = MapThenSumSet(LAMBDA i : q.rounds[i].shots, DOMAIN q.rounds)
  BY ShotsSum DEF Totals
<1>2. q.total_violations = MapThenSumSet(LAMBDA i : q.rounds[i].violations, DOMAIN q.rounds)
  BY ViolationsSum DEF Totals
<1> QED BY <1>1, <1>2

\* A list whose first goes out when another comes in, and a longer list.
LEMMA Cycled ==
  ASSUME NEW S, NEW list \in Seq(S), Len(list) # 0, NEW x \in S
  PROVE  LET new == Append(Tail(list), x)
             n == Len(list)
         IN  /\ DOMAIN new = 1..n /\ new \in [1..n -> S] /\ new[n] = x
             /\ \A i \in 1..(n - 1) : new[i] = list[i + 1]
<1> DEFINE t == Tail(list)
<1>1. t \in Seq(S) /\ Len(t) = Len(list) - 1 /\ \A i \in 1..Len(t) : t[i] = list[i + 1]
  BY SMT
<1> HIDE DEF t
<1>2. /\ Append(t, x) \in Seq(S) /\ Len(Append(t, x)) = Len(list)
      /\ \A i \in 1..(Len(list) - 1) : Append(t, x)[i] = t[i]
      /\ Append(t, x)[Len(list)] = x
  BY <1>1
<1> DEFINE new == Append(t, x)
<1>3. new \in Seq(S) /\ Len(new) = Len(list) /\ new[Len(list)] = x
  BY <1>2
<1>4. DOMAIN new = 1..Len(list) /\ new \in [1..Len(list) -> S]
  <2> HIDE DEF new
  <2> QED BY <1>3
<1>5. \A i \in 1..(Len(list) - 1) : new[i] = list[i + 1]
  <2> TAKE i \in 1..(Len(list) - 1)
  <2>1. i \in 1..Len(t)
    BY <1>1
  <2> QED BY <1>1, <1>2, <2>1
<1> QED BY <1>3, <1>4, <1>5 DEF t

LEMMA Lengthened ==
  ASSUME NEW S, NEW list \in Seq(S), NEW x \in S
  PROVE  LET new == Append(list, x)
             n == Len(list)
         IN  /\ DOMAIN new = 1..(n + 1) /\ new \in [1..(n + 1) -> S] /\ new[n + 1] = x
             /\ \A i \in 1..n : new[i] = list[i]
<1> DEFINE new == Append(list, x)
<1>1. /\ new \in Seq(S) /\ Len(new) = Len(list) + 1 /\ new[Len(list) + 1] = x
      /\ \A i \in 1..Len(list) : new[i] = list[i]
  OBVIOUS
<1>2. DOMAIN new = 1..(Len(list) + 1) /\ new \in [1..(Len(list) + 1) -> S]
  <2>1. new \in Seq(S) /\ Len(new) = Len(list) + 1
    BY <1>1
  <2> HIDE DEF new
  <2> QED BY <2>1
<1> QED BY <1>1, <1>2

\* observe keeps the totals those of the window.
LEMMA ObservedOK ==
  ASSUME NEW q \in Profile, Totals(q), NEW r \in Round, NEW b \in BOOLEAN
  PROVE  Observed(q, r, b) \in Profile /\ Totals(Observed(q, r, b))
<1> DEFINE o == Observed(q, r, b)
           rs == q.rounds
<1>1. PICK n \in 0..Window : rs \in [1..n -> Round]
  BY DEF Profile
<1>2. /\ rs \in Seq(Round) /\ Len(rs) = n /\ DOMAIN rs = 1..n /\ n \in Nat
      /\ Window \in Nat /\ Window # 0
  BY <1>1
<1>3. \A i \in 1..n : rs[i].shots \in Nat /\ rs[i].violations \in Nat
  BY <1>1
<1>4. r.shots \in Nat /\ r.violations \in Nat
  OBVIOUS
<1>5. q.total_shots \in Nat /\ q.total_violations \in Nat
  BY DEF Profile
<1>6. CASE n = Window
  <2>1. /\ o.rounds = Append(Tail(rs), r) /\ o.inhuman = b
        /\ o.total_shots = (q.total_shots - rs[1].shots) + r.shots
        /\ o.total_violations = (q.total_violations - rs[1].violations) + r.violations
        /\ o = [rounds |-> o.rounds, total_shots |-> o.total_shots,
                total_violations |-> o.total_violations, inhuman |-> o.inhuman]
    BY <1>2, <1>6 DEF Observed, RolledOut, Profile
  <2> HIDE DEF o
  <2>2. /\ DOMAIN o.rounds = 1..n /\ o.rounds \in [1..n -> Round] /\ o.rounds[n] = r
        /\ \A i \in 1..(n - 1) : o.rounds[i] = rs[i + 1]
    BY <1>2, <1>6, <2>1, Cycled
  <2>3. /\ q.total_shots - rs[1].shots \in Nat
        /\ o.total_shots = SumOf(Shots(o.rounds), 1..n)
    <3> DEFINE F == Shots(rs)  G == Shots(o.rounds)
    <3>1. /\ \A i \in 1..n : F[i] = rs[i].shots /\ F[i] \in Nat
          /\ \A i \in 1..n : G[i] = o.rounds[i].shots
      BY <1>2, <1>3, <2>2 DEF Shots
    <3> HIDE DEF F, G
    <3>2. Natural(F, 1..n) /\ Shifted(F, G, n)
      <4> SUFFICES \A i \in 1..(n - 1) : G[i] = F[i + 1]
        BY <3>1 DEF Natural, Shifted
      <4> TAKE i \in 1..(n - 1)
      <4>1. i \in 1..n /\ i + 1 \in 1..n
        BY <1>2
      <4> QED BY <2>2, <3>1, <4>1
    <3>3. 1 \in 1..n /\ n \in 1..n
      BY <1>2, <1>6
    <3>4. G[n] = r.shots /\ G[n] \in Nat /\ F[1] = rs[1].shots
      BY <1>4, <2>2, <3>1, <3>3
    <3>5. /\ SumOf(F, 1..n) - F[1] \in Nat
          /\ SumOf(G, 1..n) = (SumOf(F, 1..n) - F[1]) + G[n]
      BY <1>2, <1>6, <3>2, <3>4, SumRolls
    <3>6. q.total_shots = SumOf(F, 1..n)
      BY <1>2 DEF Totals, F
    <3>7. o.total_shots = SumOf(G, 1..n)
      BY <2>1, <3>4, <3>5, <3>6
    <3> QED BY <3>4, <3>5, <3>6, <3>7 DEF G
  <2>4. /\ q.total_violations - rs[1].violations \in Nat
        /\ o.total_violations = SumOf(Violations(o.rounds), 1..n)
    <3> DEFINE F == Violations(rs)  G == Violations(o.rounds)
    <3>1. /\ \A i \in 1..n : F[i] = rs[i].violations /\ F[i] \in Nat
          /\ \A i \in 1..n : G[i] = o.rounds[i].violations
      BY <1>2, <1>3, <2>2 DEF Violations
    <3> HIDE DEF F, G
    <3>2. Natural(F, 1..n) /\ Shifted(F, G, n)
      <4> SUFFICES \A i \in 1..(n - 1) : G[i] = F[i + 1]
        BY <3>1 DEF Natural, Shifted
      <4> TAKE i \in 1..(n - 1)
      <4>1. i \in 1..n /\ i + 1 \in 1..n
        BY <1>2
      <4> QED BY <2>2, <3>1, <4>1
    <3>3. 1 \in 1..n /\ n \in 1..n
      BY <1>2, <1>6
    <3>4. G[n] = r.violations /\ G[n] \in Nat /\ F[1] = rs[1].violations
      BY <1>4, <2>2, <3>1, <3>3
    <3>5. /\ SumOf(F, 1..n) - F[1] \in Nat
          /\ SumOf(G, 1..n) = (SumOf(F, 1..n) - F[1]) + G[n]
      BY <1>2, <1>6, <3>2, <3>4, SumRolls
    <3>6. q.total_violations = SumOf(F, 1..n)
      BY <1>2 DEF Totals, F
    <3>7. o.total_violations = SumOf(G, 1..n)
      BY <2>1, <3>4, <3>5, <3>6
    <3> QED BY <3>4, <3>5, <3>6, <3>7 DEF G
  <2>5. o.total_shots \in Nat /\ o.total_violations \in Nat
    <3>1. \A i, j \in Nat : i + j \in Nat
      OBVIOUS
    <3>2. o.total_shots \in Nat
      BY <1>4, <2>1, <2>3, <3>1, Zenon
    <3>3. o.total_violations \in Nat
      BY <1>4, <2>1, <2>4, <3>1, Zenon
    <3> QED BY <3>2, <3>3
  <2>6. o \in Profile
    BY <1>2, <2>1, <2>2, <2>5 DEF Profile
  <2>7. Totals(o)
    BY <2>2, <2>3, <2>4 DEF Totals
  <2> QED BY <2>6, <2>7 DEF o
<1>7. CASE n # Window
  <2>1. /\ o.rounds = Append(rs, r) /\ o.inhuman = b
        /\ o.total_shots = q.total_shots + r.shots
        /\ o.total_violations = q.total_violations + r.violations
        /\ o = [rounds |-> o.rounds, total_shots |-> o.total_shots,
                total_violations |-> o.total_violations, inhuman |-> o.inhuman]
    BY <1>2, <1>7 DEF Observed
  <2> HIDE DEF o
  <2> DEFINE m == n + 1
  <2>2. /\ DOMAIN o.rounds = 1..m /\ o.rounds \in [1..m -> Round] /\ o.rounds[m] = r
        /\ \A i \in 1..n : o.rounds[i] = rs[i]
        /\ m \in 0..Window
    BY <1>2, <1>7, <2>1, Lengthened
  <2>3. o.total_shots = SumOf(Shots(o.rounds), 1..m)
    <3> DEFINE F == Shots(rs)  G == Shots(o.rounds)
    <3>1. /\ \A i \in 1..n : F[i] = rs[i].shots /\ F[i] \in Nat
          /\ \A i \in 1..m : G[i] = o.rounds[i].shots
      BY <1>2, <1>3, <2>2 DEF Shots
    <3> HIDE DEF F, G
    <3>2. \A i \in 1..n : G[i] = F[i]
      <4> TAKE i \in 1..n
      <4>1. i \in 1..m
        BY <1>2
      <4> QED BY <2>2, <3>1, <4>1
    <3>3. G[n + 1] = r.shots /\ G[n + 1] \in Nat
      BY <1>2, <1>4, <2>2, <3>1
    <3>4. SumOf(G, 1..(n + 1)) = SumOf(F, 1..n) + G[n + 1]
      BY <1>2, <3>1, <3>2, <3>3, SumGrows
    <3>5. q.total_shots = SumOf(F, 1..n)
      BY <1>2 DEF Totals, F
    <3>6. o.total_shots = SumOf(G, 1..(n + 1))
      BY <2>1, <3>3, <3>4, <3>5
    <3> QED BY <3>6 DEF G
  <2>4. o.total_violations = SumOf(Violations(o.rounds), 1..m)
    <3> DEFINE F == Violations(rs)  G == Violations(o.rounds)
    <3>1. /\ \A i \in 1..n : F[i] = rs[i].violations /\ F[i] \in Nat
          /\ \A i \in 1..m : G[i] = o.rounds[i].violations
      BY <1>2, <1>3, <2>2 DEF Violations
    <3> HIDE DEF F, G
    <3>2. \A i \in 1..n : G[i] = F[i]
      <4> TAKE i \in 1..n
      <4>1. i \in 1..m
        BY <1>2
      <4> QED BY <2>2, <3>1, <4>1
    <3>3. G[n + 1] = r.violations /\ G[n + 1] \in Nat
      BY <1>2, <1>4, <2>2, <3>1
    <3>4. SumOf(G, 1..(n + 1)) = SumOf(F, 1..n) + G[n + 1]
      BY <1>2, <3>1, <3>2, <3>3, SumGrows
    <3>5. q.total_violations = SumOf(F, 1..n)
      BY <1>2 DEF Totals, F
    <3>6. o.total_violations = SumOf(G, 1..(n + 1))
      BY <2>1, <3>3, <3>4, <3>5
    <3> QED BY <3>6 DEF G
  <2>5. o.total_shots \in Nat /\ o.total_violations \in Nat
    <3>1. \A i, j \in Nat : i + j \in Nat
      OBVIOUS
    <3> QED BY <1>4, <1>5, <2>1, <3>1, Zenon
  <2>6. o \in Profile
    BY <2>1, <2>2, <2>5 DEF Profile
  <2>7. Totals(o)
    BY <2>2, <2>3, <2>4 DEF Totals
  <2> QED BY <2>6, <2>7 DEF o
<1> QED BY <1>6, <1>7

-----------------------------------------------------------------------------
(* Karma, profiles and reports stay within their bounds. *)

Ledger ==
  /\ karma \in [Node \cup Player -> Floor..Ceiling]
  /\ profiles \in [Player -> Profile] /\ \A p \in Player : Totals(profiles[p])
  /\ IsFiniteSet(reports) /\ \A r \in reports : r.weight \in Nat
  /\ told \subseteq Zone \X (1..MaxTick) \X Node
  /\ objected \subseteq Zone \X (1..MaxTick) \X Node

LEMMA AppliedOK ==
  ASSUME NEW k \in Int, NEW delta \in Int
  PROVE  Applied(k, delta) \in Floor..Ceiling
  BY DEF Applied, Floor, Ceiling

LEMMA FineOK ==
  ASSUME Ledger, NEW a \in Node, NEW ticks \in [Node -> SUBSET (1..MaxTick)]
  PROVE  Fine(a, ticks) \in Floor..Ceiling
<1>1. IsFiniteSet(ticks[a])
  <2>1. IsFiniteSet(1..MaxTick) /\ ticks[a] \in SUBSET (1..MaxTick)
    BY FS_Interval
  <2> QED BY <2>1, FS_Subset
<1>2. Cardinality(ticks[a]) \in Nat
  BY <1>1, FS_CardinalityType
<1>3. -20 * Cardinality(ticks[a]) \in Int
  BY <1>2
<1>4. karma[a] \in Int
  BY DEF Ledger, Floor, Ceiling
<1> QED BY <1>3, <1>4, AppliedOK DEF Fine

\* What reports weigh together is a number.
LEMMA PressureOK ==
  ASSUME Ledger, NEW p
  PROVE  Pressure(p) \in Nat
<1> DEFINE mine == {r \in reports : r.accused = p}
           best(r) == \A o \in mine : (o.reporter = r.reporter /\ o # r) =>
                        (o.weight < r.weight \/ (o.weight = r.weight /\ o.tick > r.tick))
           share(r) == IF best(r) THEN 4 * r.weight ELSE r.weight
           F == [r \in mine |-> share(r)]
           rhs(f, s) == IF s = {} THEN 0 ELSE share(Pick(s)) + f[s \ {Pick(s)}]
<1>1. Pressure(p) = (CHOOSE f : f = [s \in SUBSET mine |-> rhs(f, s)])[mine]
  BY DEF Pressure, MapThenSumSet, MapThenFoldSet, Pick
<1>2. IsFiniteSet(mine)
  BY FS_Subset DEF Ledger
<1>3. \A r \in mine : r.weight \in Nat
  BY DEF Ledger
<1> HIDE DEF mine, best
<1>4. \A r \in mine : share(r) \in Nat
  BY <1>3
<1> HIDE DEF share
<1>5. \A f : \A s \in SUBSET mine : rhs(f, s) = Adds(f, F, s)
  <2> SUFFICES ASSUME NEW f, NEW s \in SUBSET mine, s # {}
               PROVE  share(Pick(s)) = F[Pick(s)]
    BY DEF Adds
  <2>1. Pick(s) \in mine
    BY DEF Pick
  <2> QED BY <2>1
<1>6. \A x \in mine : F[x] \in Nat
  BY <1>4
<1> HIDE DEF rhs, F
<1>7. \A f : f = [s \in SUBSET mine |-> rhs(f, s)] <=> Folds(f, F, mine)
  BY <1>5 DEF Folds
<1>8. Pressure(p) = SumOf(F, mine)
  BY <1>1, <1>7 DEF SumOf
<1> QED BY <1>2, <1>6, <1>8, SumWithout

LEMMA FusedOK ==
  ASSUME NEW d \in Levels, NEW pressure \in Nat
  PROVE  Fused(d, pressure) \in Int
<1>1. d \in Int
  BY DEF Levels
<1>2. ReportPenalty(pressure) \in Int
  BY DEF ReportPenalty
<1> QED BY <1>1, <1>2 DEF Fused

LEMMA FileOK ==
  ASSUME Ledger, NEW p \in Player, NEW q \in Player, NEW t \in 0..1, NEW sev \in Severities,
         File(p, q, t, sev)
  PROVE  IsFiniteSet(reports') /\ \A r \in reports' : r.weight \in Nat
<1> DEFINE new == [reporter |-> p, accused |-> q, tick |-> t,
                   weight |-> Credibility(karma[p]) * sev]
<1>1. Credibility(karma[p]) \in Nat /\ sev \in Nat
  BY DEF Credibility, Ledger, Floor, Ceiling
<1>2. new.weight \in Nat
  BY <1>1
<1>3. reports' = reports \cup {new}
  BY DEF File
<1> HIDE DEF new
<1>4. IsFiniteSet(reports')
  BY <1>3, FS_AddElement DEF Ledger
<1> QED BY <1>2, <1>3, <1>4 DEF Ledger

LEMMA InitLedger == Init => Ledger
<1> SUFFICES ASSUME Init PROVE Ledger
  OBVIOUS
<1>1. NoRounds \in Profile /\ Totals(NoRounds)
  <2>1. NoRounds.rounds = << >> /\ NoRounds.total_shots = 0 /\ NoRounds.total_violations = 0
    BY DEF NoRounds
  <2>2. SumOf(Shots(<< >>), {}) = 0 /\ SumOf(Violations(<< >>), {}) = 0
    BY FS_EmptySet, SumStep
  <2>3. DOMAIN << >> = {}
    OBVIOUS
  <2>4. Totals(NoRounds)
    BY <2>1, <2>2, <2>3 DEF Totals
  <2>5. << >> \in [1..0 -> Round] /\ 0 \in 0..Window
    OBVIOUS
  <2> QED BY <2>4, <2>5 DEF NoRounds, Profile
<1>2. karma \in [Node \cup Player -> Floor..Ceiling]
  BY DEF Init, Default, Floor, Ceiling
<1>3. IsFiniteSet(reports) /\ told = {} /\ objected = {} /\ reports = {}
  BY FS_EmptySet DEF Init
<1> QED BY <1>1, <1>2, <1>3 DEF Init, Ledger

LEMMA NextLedger == Types /\ Ledger /\ [Next]_vars => Ledger'
<1> SUFFICES ASSUME Types, Ledger, [Next]_vars PROVE Ledger'
  OBVIOUS
<1>0. Types'
  BY NextTypes
<1>1. ASSUME NEW n \in Node, NEW z \in Zone, NEW t \in 1..MaxTick,
             NEW h \in Claimed(n, t), Publish(n, z, t, h)
      PROVE  Ledger'
  <2>1. told' \subseteq Zone \X (1..MaxTick) \X Node
    BY <1>1 DEF Publish, Ledger
  <2>2. UNCHANGED <<karma, profiles, reports, objected>>
    BY <1>1 DEF Publish
  <2> QED BY <2>1, <2>2 DEF Ledger
<1>2. ASSUME NEW a \in asks, NEW ours \in Shadows(a.key[2]), Verify(a, ours)
      PROVE  Ledger'
  BY <1>2 DEF Verify, Ledger
<1>3. ASSUME NEW v \in votes, RecvVote(v) PROVE Ledger'
  <2>1. v.key \in Key /\ v \in Vote
    BY DEF Types, Vote
  <2>2. ASSUME NEW q \in Node \cup Player PROVE karma'[q] \in Floor..Ceiling
    <3>1. CASE \E c \in claims[v.key] : c.authority = q
      <4>1. q \in Node
        BY <2>1, <3>1 DEF Types, Claim
      <4>2. Fine(q, disputed') \in Floor..Ceiling
        BY <1>0, <4>1, FineOK DEF Types
      <4>3. karma'[q] \in {Fine(q, disputed'), karma[q]}
        BY <1>3 DEF RecvVote, Ledger
      <4> QED BY <2>2, <4>2, <4>3 DEF Ledger
    <3>2. CASE ~ \E c \in claims[v.key] : c.authority = q
      <4>1. karma'[q] = karma[q]
        BY <1>3, <3>2 DEF RecvVote, Ledger
      <4> QED BY <2>2, <4>1 DEF Ledger
    <3> QED BY <3>1, <3>2
  <2>3. karma' \in [Node \cup Player -> Floor..Ceiling]
    <3>1. karma' = [q \in Node \cup Player |-> karma'[q]]
      BY <1>3 DEF RecvVote, Ledger
    <3> QED BY <2>2, <3>1
  <2>4. objected' \subseteq Zone \X (1..MaxTick) \X Node
    <3>1. Counted(v).against \subseteq Node
      BY <2>1, CountedTypes
    <3>2. objected' = objected \cup {<<v.key[1], v.key[2], w>> : w \in Counted(v).against}
      BY <1>3 DEF RecvVote
    <3> QED BY <2>1, <3>1, <3>2 DEF Ledger, Key
  <2>5. UNCHANGED <<profiles, reports, told>>
    BY <1>3 DEF RecvVote
  <2> QED BY <2>3, <2>4, <2>5 DEF Ledger
<1>4. ASSUME NEW p \in Player, NEW r \in Round, NEW b \in BOOLEAN, ObserveRound(p, r, b)
      PROVE  Ledger'
  <2>1. /\ Observed(profiles[p], r, b) \in Profile
        /\ Totals(Observed(profiles[p], r, b))
    BY ObservedOK DEF Ledger
  <2>2. profiles' = [profiles EXCEPT ![p] = Observed(profiles[p], r, b)]
    BY <1>4 DEF ObserveRound
  <2>3. /\ profiles' \in [Player -> Profile]
        /\ \A o \in Player : profiles'[o] = IF o = p THEN Observed(profiles[p], r, b)
                                            ELSE profiles[o]
    BY <2>1, <2>2 DEF Ledger
  <2>4. \A o \in Player : Totals(profiles'[o])
    BY <2>1, <2>3 DEF Ledger
  <2>5. UNCHANGED <<karma, reports, told, objected>>
    BY <1>4 DEF ObserveRound, crossval
  <2> QED BY <2>3, <2>4, <2>5 DEF Ledger
<1>5. ASSUME NEW p \in Player, NEW q \in Player, NEW t \in 0..1, NEW sev \in Severities,
             File(p, q, t, sev)
      PROVE  Ledger'
  <2>1. UNCHANGED <<karma, profiles, told, objected>>
    BY <1>5 DEF File, crossval
  <2> QED BY <1>5, <2>1, FileOK DEF Ledger
<1>6. ASSUME NEW d \in [roster -> Levels], KarmaPass(d) PROVE Ledger'
  <2>1. ASSUME NEW q \in Node \cup Player PROVE karma'[q] \in Floor..Ceiling
    <3>1. karma[q] \in Int
      BY DEF Ledger, Floor, Ceiling
    <3>2. CASE q \in roster
      <4>1. Fused(d[q], Pressure(q)) \in Int
        BY <3>2, PressureOK, FusedOK
      <4>2. karma'[q] = Applied(karma[q], Fused(d[q], Pressure(q)))
        BY <1>6, <3>2 DEF KarmaPass, Ledger
      <4> QED BY <3>1, <4>1, <4>2, AppliedOK
    <3>3. CASE q \notin roster /\ q \in Node
      <4>1. karma'[q] = Fine(q, disputed)
        BY <1>6, <3>3 DEF KarmaPass, Ledger
      <4> QED BY <3>3, <4>1, FineOK DEF Types
    <3>4. CASE q \notin roster /\ q \notin Node
      <4>1. karma'[q] = karma[q]
        BY <1>6, <3>4 DEF KarmaPass, Ledger
      <4> QED BY <2>1, <4>1 DEF Ledger
    <3> QED BY <3>2, <3>3, <3>4
  <2>2. karma' \in [Node \cup Player -> Floor..Ceiling]
    <3>1. karma' = [q \in Node \cup Player |-> karma'[q]]
      BY <1>6 DEF KarmaPass, Ledger
    <3> QED BY <2>1, <3>1
  <2>3. UNCHANGED <<profiles, reports, told, objected>>
    BY <1>6 DEF KarmaPass, crossval
  <2> QED BY <2>2, <2>3 DEF Ledger
<1>7. CASE (\E p \in Player : Join(p)) \/ (\E p \in roster : Leave(p)) \/ UNCHANGED vars
  BY <1>7 DEF Join, Leave, vars, crossval, Ledger
<1> QED BY <1>1, <1>2, <1>3, <1>4, <1>5, <1>6, <1>7, NextCases DEF Elsewhere

\* Whatever is reported, replayed and observed, karma stays between its floor
\* and its ceiling and everything else within its type, and the totals a
\* player's score is computed from are those of the rounds in its window
\* (KarmaLedger::apply, Profile::observe).
THEOREM ProfilesStaySound == Spec => []ProfilesSound
<1>1. Types /\ Ledger => ProfilesSound
  BY TotalsMean DEF Types, Ledger, ProfilesSound, TypeOK
<1>2. IInv => Types
  BY DEF IInv
<1> QED BY <1>1, <1>2, InitIInv, NextIInv, InitLedger, NextLedger, PTL DEF Spec
================================================================================
