------------------------ MODULE ZoneOwnershipProofs ------------------------
(***************************************************************************)
(* Theorems about ZoneOwnership, for every fleet, world, placement and     *)
(* number of players, and for any number of crashes, losses, crossings and *)
(* views of the fleet that are not the fleet.                              *)
(***************************************************************************)
EXTENDS ZoneOwnership, FiniteSetTheorems, TLAPS

\* A player has at most one slot per World, and one copy per zone: both are
\* entries of a map keyed by the player.
Keyed(S) ==
  \A s, t \in S :
    s.node = t.node /\ s.zone = t.zone /\ s.player = t.player => s = t

OneCopyPerZone ==
  \A c, d \in copies : c.zone = d.zone /\ c.player = d.player => c = d

\* A slot's entity exists, so removing the slot removes an entity.
Embodied == \A s \in slots : bodies[s.node][s.zone][s.player] > 0

IInv == TypeOK /\ Keyed(slots) /\ OneCopyPerZone /\ Embodied

BodyCount == [Node -> [Zone -> [Player -> Nat]]]

-----------------------------------------------------------------------------
(* What the helpers return. *)

\* The owner of a zone is a node of the view, or the node itself.
LEMMA AuthorityType ==
  ASSUME NEW view \in SUBSET Node, NEW z \in Zone, NEW n \in Node
  PROVE  authority_for(view, z, n) \in Node
<1>1. CASE view = {} BY <1>1 DEF authority_for
<1>2. CASE view # {}
  <2>1. \E m \in view : \A k \in view : Priority[z][k] <= Priority[z][m]
    BY <1>2, OwnershipAssumption
  <2> QED BY <1>2, <2>1 DEF authority_for
<1> QED BY <1>1, <1>2

\* Removing slots removes at most the entities there are, and only theirs.
LEMMA WithoutCounts ==
  ASSUME IInv, NEW leaving \in SUBSET slots
  PROVE  /\ Without(leaving) \in BodyCount
         /\ \A s \in slots \ leaving : Without(leaving)[s.node][s.zone][s.player] > 0
<1>0. slots \subseteq Slot /\ bodies \in BodyCount BY DEF IInv, TypeOK, BodyCount
<1>1. ASSUME NEW m \in Node, NEW z \in Zone, NEW p \in Player,
             Here(m, z, p) \cap leaving # {}
      PROVE  bodies[m][z][p] - 1 \in Nat
  <2>1. bodies[m][z][p] > 0 BY <1>1 DEF IInv, Embodied, Here
  <2> QED BY <1>0, <2>1 DEF BodyCount
<1>2. Without(leaving) \in BodyCount BY <1>0, <1>1 DEF Without, BodyCount
<1>3. ASSUME NEW s \in slots \ leaving
      PROVE  Without(leaving)[s.node][s.zone][s.player] > 0
  <2>1. s.node \in Node /\ s.zone \in Zone /\ s.player \in Player BY <1>0 DEF Slot
  <2>2. Here(s.node, s.zone, s.player) \cap leaving = {} BY DEF IInv, Keyed, Here
  <2> QED BY <2>1, <2>2 DEF Without, IInv, Embodied
<1> QED BY <1>2, <1>3

\* Seeding never removes an entity and leaves every arrival with one.
LEMMA SeededCounts ==
  ASSUME NEW present \in BodyCount, NEW arrivals \in SUBSET Slot
  PROVE  /\ Seeded(present, arrivals) \in BodyCount
         /\ \A m \in Node, z \in Zone, p \in Player :
              Seeded(present, arrivals)[m][z][p] >= present[m][z][p]
         /\ \A s \in arrivals : Seeded(present, arrivals)[s.node][s.zone][s.player] > 0
<1>1. Seeded(present, arrivals) \in BodyCount BY DEF Seeded, BodyCount
<1>2. ASSUME NEW m \in Node, NEW z \in Zone, NEW p \in Player
      PROVE  Seeded(present, arrivals)[m][z][p] >= present[m][z][p]
  BY DEF Seeded, BodyCount
<1>3. ASSUME NEW s \in arrivals
      PROVE  Seeded(present, arrivals)[s.node][s.zone][s.player] > 0
  BY DEF Seeded, BodyCount, Slot
<1> QED BY <1>1, <1>2, <1>3

\* Inserting slots into a map keeps it a map.
LEMMA HostingKeyed ==
  ASSUME NEW present, NEW arrivals, Keyed(present), Keyed(arrivals)
  PROVE  /\ Keyed(Hosting(present, arrivals))
         /\ Hosting(present, arrivals) \subseteq present \cup arrivals
         /\ arrivals \subseteq Hosting(present, arrivals)
BY DEF Keyed, Hosting

\* A node that gives zones up loses their slots with their entities, and no
\* others.
LEMMA Shed ==
  ASSUME IInv, NEW n \in Node, NEW lost,
         slots' = Removed({s \in Mine(n) : s.zone \in lost}),
         bodies' = Retired(n, lost)
  PROVE  /\ slots' \subseteq slots /\ bodies' \in BodyCount
         /\ Keyed(slots') /\ Embodied'
<1>0. slots \subseteq Slot /\ bodies \in BodyCount BY DEF IInv, TypeOK, BodyCount
<1>1. slots' \subseteq slots BY DEF Removed
<1>2. bodies' \in BodyCount BY <1>0 DEF Retired, BodyCount
<1>3. Keyed(slots') BY <1>1 DEF IInv, Keyed
<1>4. ASSUME NEW s \in slots' PROVE bodies'[s.node][s.zone][s.player] > 0
  <2>1. s \in slots /\ s.node \in Node /\ s.zone \in Zone /\ s.player \in Player
    BY <1>0, <1>1 DEF Slot
  <2>2. ~(s.node = n /\ s.zone \in lost) BY <2>1 DEF Removed, Mine
  <2>3. bodies'[s.node][s.zone] = bodies[s.node][s.zone]
    BY <1>0, <2>1, <2>2 DEF Retired, BodyCount
  <2> QED BY <2>1, <2>3 DEF IInv, Embodied
<1> QED BY <1>1, <1>2, <1>3, <1>4 DEF Embodied

LEMMA SpendType == ASSUME TypeOK, NEW events, Spend(events) PROVE spent' \in [Rare -> Nat]
BY DEF Spend, TypeOK

-----------------------------------------------------------------------------
(* The inductive invariant. *)

LEMMA KeptByDiscover == ASSUME IInv, NEW n \in Node, Discover(n) PROVE IInv'
<1>1. PICK view \in SUBSET Node :
        LET gained  == {z \in active_zones[n] \ owned[n] : should_own(view, z, n)}
            lost    == {z \in owned[n] : ~should_own(view, z, n)}
            leaving == {s \in Mine(n) : s.zone \in lost}
        IN
        /\ Spend(IF view = up THEN {} ELSE {"lag"})
        /\ cands' = [cands EXCEPT ![n] = view]
        /\ owned' = [owned EXCEPT ![n] = (@ \ lost) \cup gained]
        /\ \E number \in Numberings(gained) :
             claims' = claims \cup
               UNION {Announced(n, z, claim_epoch[n] + number[z]) : z \in gained}
        /\ claim_epoch' = [claim_epoch EXCEPT ![n] = @ + Cardinality(gained)]
        /\ slots' = Removed(leaving)
        /\ bodies' = Retired(n, lost)
        /\ adopts' = adopts \cup
             {Handoff(s, s.zone, authority_for(view, s.zone, n)) : s \in leaving}
        /\ recovering' = [recovering EXCEPT ![n] = @ \cup {z \in gained : Answerable(z)}]
  BY DEF Discover
<1> DEFINE gained  == {z \in active_zones[n] \ owned[n] : should_own(view, z, n)}
           lost    == {z \in owned[n] : ~should_own(view, z, n)}
           leaving == {s \in Mine(n) : s.zone \in lost}
<1>2. UNCHANGED <<up, active_zones, peer_claims, copies, joins>> BY DEF Discover
<1>3. gained \subseteq Zone BY DEF IInv, TypeOK
<1>4. Cardinality(gained) \in Nat
  BY <1>3, OwnershipAssumption, FS_Subset, FS_CardinalityType
<1> HIDE DEF gained, lost
<1>5. slots' \subseteq slots /\ bodies' \in BodyCount /\ Keyed(slots') /\ Embodied'
  BY <1>1, Shed DEF gained, lost
<1>6. claims' \subseteq Claim
  <2>1. PICK number \in Numberings(gained) :
          claims' = claims \cup
            UNION {Announced(n, z, claim_epoch[n] + number[z]) : z \in gained}
    BY <1>1 DEF gained
  <2>2. \A z \in gained : number[z] \in Nat \ {0} BY <1>4, <2>1 DEF Numberings
  <2>3. claims \subseteq Claim /\ claim_epoch[n] \in Nat BY DEF IInv, TypeOK
  <2>4. \A z \in gained : Announced(n, z, claim_epoch[n] + number[z]) \subseteq Claim
    BY <1>3, <2>2, <2>3 DEF Announced, Claim
  <2> QED BY <2>1, <2>3, <2>4
<1>7. adopts' \subseteq Adopt
  <2>1. \A s \in leaving : Handoff(s, s.zone, authority_for(view, s.zone, n)) \in Adopt
    <3> SUFFICES ASSUME NEW s \in leaving
                 PROVE  Handoff(s, s.zone, authority_for(view, s.zone, n)) \in Adopt
      OBVIOUS
    <3>1. s \in Slot BY DEF IInv, TypeOK, Mine
    <3> QED BY <3>1, AuthorityType DEF Handoff, Adopt, Slot
  <2> QED BY <1>1, <2>1 DEF gained, lost, IInv, TypeOK
<1>8. TypeOK'
  <2>1. cands' \in [Node -> SUBSET Node] /\ owned' \in [Node -> SUBSET Zone]
    BY <1>1, <1>3 DEF gained, lost, IInv, TypeOK
  <2>2. claim_epoch' \in [Node -> Nat] BY <1>1, <1>4 DEF gained, IInv, TypeOK
  <2>3. recovering' \in [Node -> SUBSET Zone]
    BY <1>1, <1>3 DEF gained, IInv, TypeOK
  <2>4. spent' \in [Rare -> Nat] BY <1>1, SpendType DEF IInv
  <2> QED BY <1>2, <1>5, <1>6, <1>7, <2>1, <2>2, <2>3, <2>4 DEF IInv, TypeOK, BodyCount
<1> QED BY <1>2, <1>5, <1>8 DEF IInv, OneCopyPerZone

LEMMA KeptByClaim == ASSUME IInv, NEW c \in claims, RecvClaim(c) PROVE IInv'
<1> DEFINE n    == c.to
           news == c.epoch > peer_claims[n][c.zone]
           lost == IF news /\ c.zone \in owned[n] /\ c.epoch > claim_epoch[n]
                   THEN {c.zone} ELSE {}
<1>1. c \in Claim BY DEF IInv, TypeOK
<1>2. n \in Node /\ c.from \in Node /\ c.zone \in Zone /\ c.epoch \in Nat BY <1>1 DEF Claim
<1>3. /\ slots' = Removed({s \in Mine(n) : s.zone \in lost})
      /\ bodies' = Retired(n, lost)
      /\ adopts' = adopts \cup
           {Handoff(s, s.zone, c.from) : s \in {t \in Mine(n) : t.zone \in lost}}
      /\ owned' = [owned EXCEPT ![n] = @ \ lost]
      /\ claims' = claims \ {c}
      /\ peer_claims' = IF news THEN [peer_claims EXCEPT ![n][c.zone] = c.epoch]
                        ELSE peer_claims
      /\ UNCHANGED <<up, cands, active_zones, claim_epoch, recovering, copies,
                     joins, spent>>
  BY DEF RecvClaim, fleet, failover
<1> HIDE DEF n, news, lost
<1>4. slots' \subseteq slots /\ bodies' \in BodyCount /\ Keyed(slots') /\ Embodied'
  BY <1>2, <1>3, Shed
<1>5. adopts' \subseteq Adopt
  BY <1>2, <1>3 DEF Handoff, Adopt, Mine, Slot, IInv, TypeOK
<1>6. peer_claims' \in [Node -> [Zone -> Nat]] /\ owned' \in [Node -> SUBSET Zone]
  BY <1>2, <1>3 DEF IInv, TypeOK
<1>7. TypeOK' BY <1>3, <1>4, <1>5, <1>6 DEF IInv, TypeOK, BodyCount
<1> QED BY <1>3, <1>4, <1>7 DEF IInv, OneCopyPerZone

\* What one tick of n does: who goes, who stays and has walked, what comes back,
\* what is sent.
TickOutcome(n, gone, rest, back, sent) ==
  /\ slots' = (slots \ Mine(n)) \cup Hosting(rest, back)
  /\ bodies' = Seeded(Without(gone), back)
  /\ adopts' = adopts \cup sent
  /\ Keyed(rest) /\ Keyed(back) /\ \A r \in rest \cup back : r.node = n
  /\ \A r \in rest : \E s \in Mine(n) \ gone : r.zone = s.zone /\ r.player = s.player
  /\ \A s \in Mine(n) \ gone : \E r \in rest : r.zone = s.zone /\ r.player = s.player
  /\ \A b \in back : \E c \in copies' : b.player = c.player
  /\ \A a \in sent : \E s \in gone : a.player = s.player
  /\ (\A s, t \in slots : s.player = t.player => s = t)
       => \A a, b \in sent : a.player = b.player => a = b
  /\ copies' \subseteq Copy /\ OneCopyPerZone'
  /\ \A c \in copies' \ copies : \E r \in rest : Replicates /\ c.player = r.player
  /\ owned' \in [Node -> SUBSET Zone] /\ active_zones' \in [Node -> SUBSET Zone]
  /\ recovering' \in [Node -> SUBSET Zone]
  /\ spent' \in [Rare -> Nat]
  /\ UNCHANGED <<up, cands, claim_epoch, peer_claims, claims, joins>>

LEMMA TickEffect ==
  ASSUME IInv, NEW n \in Node, Tick(n)
  PROVE  \E gone \in SUBSET Mine(n), rest \in SUBSET Slot, back \in SUBSET Slot,
            sent \in SUBSET Adopt : TickOutcome(n, gone, rest, back, sent)
<1>0. slots \subseteq Slot /\ copies \subseteq Copy /\ adopts \subseteq Adopt
  BY DEF IInv, TypeOK
<1>1a. PICK idle \in SUBSET Mine(n), done \in SUBSET recovering[n] :
        \E pos \in [Mine(n) \ idle -> Zone] :
           LET stay     == Mine(n) \ idle
               owner(s) == authority_for(cands[n], pos[s], n)
               crossing == {s \in stay : Crosses(n, s, pos[s])}
               walked(s) == [s EXCEPT !.at = pos[s]]
               rest     == {walked(s) : s \in stay \ crossing}
               others   == slots \ Mine(n)
               covered  == {s \in rest : Replicates /\ \E t \in rest :
                              t.zone = s.zone /\ t.player # s.player}
           IN
           /\ n \in up
           /\ Spend(  (IF idle = {} THEN {} ELSE {"idle"})
                 \cup (IF \A s \in stay : pos[s] = s.at THEN {} ELSE {"move"}))
           /\ adopts' = adopts \cup {Handoff(walked(s), pos[s], owner(s)) : s \in crossing}
           /\ \E saved \in SUBSET covered :
                copies' = {c \in copies : \A s \in saved :
                             c.zone # s.zone \/ c.player # s.player}
                          \cup {[zone |-> s.zone, player |-> s.player, at |-> s.at]
                                  : s \in saved}
           /\ \E restored \in SUBSET {c \in copies' : c.zone \in done} :
                LET back == {[node |-> n, zone |-> c.zone, player |-> c.player,
                              at |-> c.at] : c \in restored}
                IN /\ slots' = others \cup Hosting(rest, back)
                   /\ bodies' = Seeded(Without(idle \cup crossing), back)
                   /\ Ensure(n, {c.zone : c \in restored})
           /\ recovering' = [recovering EXCEPT ![n] = @ \ done]
           /\ UNCHANGED <<fleet, claim_epoch, peer_claims, claims, joins>>
  BY Zenon DEF Tick
<1>1. PICK pos \in [Mine(n) \ idle -> Zone] :
           LET stay     == Mine(n) \ idle
               owner(s) == authority_for(cands[n], pos[s], n)
               crossing == {s \in stay : Crosses(n, s, pos[s])}
               walked(s) == [s EXCEPT !.at = pos[s]]
               rest     == {walked(s) : s \in stay \ crossing}
               others   == slots \ Mine(n)
               covered  == {s \in rest : Replicates /\ \E t \in rest :
                              t.zone = s.zone /\ t.player # s.player}
           IN
           /\ Spend(  (IF idle = {} THEN {} ELSE {"idle"})
                 \cup (IF \A s \in stay : pos[s] = s.at THEN {} ELSE {"move"}))
           /\ adopts' = adopts \cup {Handoff(walked(s), pos[s], owner(s)) : s \in crossing}
           /\ \E saved \in SUBSET covered :
                copies' = {c \in copies : \A s \in saved :
                             c.zone # s.zone \/ c.player # s.player}
                          \cup {[zone |-> s.zone, player |-> s.player, at |-> s.at]
                                  : s \in saved}
           /\ \E restored \in SUBSET {c \in copies' : c.zone \in done} :
                LET back == {[node |-> n, zone |-> c.zone, player |-> c.player,
                              at |-> c.at] : c \in restored}
                IN /\ slots' = others \cup Hosting(rest, back)
                   /\ bodies' = Seeded(Without(idle \cup crossing), back)
                   /\ Ensure(n, {c.zone : c \in restored})
           /\ recovering' = [recovering EXCEPT ![n] = @ \ done]
           /\ UNCHANGED <<fleet, claim_epoch, peer_claims, claims, joins>>
  BY <1>1a, Zenon
<1> DEFINE stay      == Mine(n) \ idle
           owner(s)  == authority_for(cands[n], pos[s], n)
           crossing  == {s \in stay : Crosses(n, s, pos[s])}
           walked(s) == [s EXCEPT !.at = pos[s]]
           rest      == {walked(s) : s \in stay \ crossing}
           covered   == {s \in rest : Replicates /\ \E t \in rest :
                           t.zone = s.zone /\ t.player # s.player}
           gone      == idle \cup crossing
           sent      == {Handoff(walked(s), pos[s], owner(s)) : s \in crossing}
<1>2. PICK saved \in SUBSET covered :
        copies' = {c \in copies : \A s \in saved : c.zone # s.zone \/ c.player # s.player}
                    \cup {[zone |-> s.zone, player |-> s.player, at |-> s.at] : s \in saved}
  BY <1>1, ZenonT(60)
<1>3. PICK restored \in SUBSET {c \in copies' : c.zone \in done} :
        LET back == {[node |-> n, zone |-> c.zone, player |-> c.player, at |-> c.at]
                       : c \in restored}
        IN /\ slots' = (slots \ Mine(n)) \cup Hosting(rest, back)
           /\ bodies' = Seeded(Without(gone), back)
           /\ Ensure(n, {c.zone : c \in restored})
  BY <1>1
<1> DEFINE back == {[node |-> n, zone |-> c.zone, player |-> c.player, at |-> c.at]
                      : c \in restored}
<1>4. \A s \in stay : /\ walked(s) \in Slot /\ walked(s).node = n
                      /\ walked(s).zone = s.zone /\ walked(s).player = s.player
  <2> SUFFICES ASSUME NEW s \in stay
               PROVE  /\ walked(s) \in Slot /\ walked(s).node = n
                      /\ walked(s).zone = s.zone /\ walked(s).player = s.player
    OBVIOUS
  <2>1. s \in Slot /\ s.node = n /\ pos[s] \in Zone BY <1>0, <1>1 DEF Mine
  <2> QED BY <2>1 DEF Slot
<1> HIDE DEF walked
<1>5. rest \subseteq Slot /\ \A r \in rest : r.node = n BY <1>4
<1>6. Keyed(rest)
  <2> SUFFICES ASSUME NEW s \in stay, NEW t \in stay, s.zone = t.zone, s.player = t.player
               PROVE  s = t
    BY <1>4 DEF Keyed
  <2> QED BY DEF IInv, Keyed, Mine
<1>7. copies' \subseteq Copy
  <2>1. \A s \in saved : [zone |-> s.zone, player |-> s.player, at |-> s.at] \in Copy
    BY <1>5 DEF Slot, Copy
  <2> QED BY <1>0, <1>2, <2>1
<1>8. OneCopyPerZone'
  <2> SUFFICES ASSUME NEW c \in copies', NEW d \in copies',
                      c.zone = d.zone, c.player = d.player
               PROVE  c = d
    BY DEF OneCopyPerZone
  <2>1. CASE c \in copies /\ d \in copies BY <2>1 DEF IInv, OneCopyPerZone
  <2>2. CASE c \notin copies \/ d \notin copies
    <3>1. \A s, t \in saved : s.zone = t.zone /\ s.player = t.player => s = t
      BY <1>5, <1>6 DEF Keyed
    <3> QED BY <1>2, <2>2, <3>1
  <2> QED BY <2>1, <2>2
<1>9. back \subseteq Slot /\ \A b \in back : b.node = n BY <1>7 DEF Copy, Slot
<1>10. Keyed(back) BY <1>8 DEF Keyed, OneCopyPerZone
<1>11. sent \subseteq Adopt
  <2> SUFFICES ASSUME NEW s \in crossing
               PROVE  Handoff(walked(s), pos[s], owner(s)) \in Adopt
    OBVIOUS
  <2>1. pos[s] \in Zone /\ cands[n] \in SUBSET Node BY <1>1 DEF IInv, TypeOK
  <2>2. owner(s) \in Node BY <2>1, AuthorityType
  <2> QED BY <1>4, <2>1, <2>2 DEF Handoff, Adopt, Slot
<1>12. \A a \in sent : \E s \in gone : a.player = s.player BY <1>4 DEF Handoff
<1>13. ASSUME \A s, t \in slots : s.player = t.player => s = t,
              NEW a \in sent, NEW b \in sent, a.player = b.player
       PROVE  a = b
  <2>1. PICK s \in crossing : a = Handoff(walked(s), pos[s], owner(s)) OBVIOUS
  <2>2. PICK t \in crossing : b = Handoff(walked(t), pos[t], owner(t)) OBVIOUS
  <2>3. s.player = t.player /\ s \in slots /\ t \in slots
    BY <1>4, <1>13, <2>1, <2>2 DEF Handoff, Mine
  <2> QED BY <1>13, <2>1, <2>2, <2>3
<1>14. \A c \in copies' \ copies : \E r \in rest : Replicates /\ c.player = r.player
  BY <1>2
<1>15. /\ owned' \in [Node -> SUBSET Zone] /\ active_zones' \in [Node -> SUBSET Zone]
       /\ recovering' \in [Node -> SUBSET Zone]
  <2>1. {c.zone : c \in restored} \subseteq Zone BY <1>7 DEF Copy
  <2>2. Ensure(n, {c.zone : c \in restored}) BY <1>3
  <2> QED BY <1>1, <2>1, <2>2 DEF Ensure, IInv, TypeOK
<1>16. spent' \in [Rare -> Nat] BY <1>1, SpendType DEF IInv
<1>17. UNCHANGED <<up, cands, claim_epoch, peer_claims, claims, joins>> BY <1>1 DEF fleet
<1>18. /\ \A r \in rest : \E s \in Mine(n) \ gone : r.zone = s.zone /\ r.player = s.player
       /\ \A s \in Mine(n) \ gone : \E r \in rest : r.zone = s.zone /\ r.player = s.player
  BY <1>4
<1>19. \A b \in back : \E c \in copies' : b.player = c.player OBVIOUS
<1>20. /\ slots' = (slots \ Mine(n)) \cup Hosting(rest, back)
       /\ bodies' = Seeded(Without(gone), back)
       /\ adopts' = adopts \cup sent
       /\ gone \subseteq Mine(n)
  BY <1>1, <1>3 DEF walked
<1>21. gone \in SUBSET Mine(n) /\ rest \in SUBSET Slot /\ back \in SUBSET Slot
       /\ sent \in SUBSET Adopt
  BY <1>5, <1>9, <1>11, <1>20
<1> HIDE DEF rest, back, sent, gone, stay, crossing
<1>22. TickOutcome(n, gone, rest, back, sent)
  BY <1>5, <1>6, <1>7, <1>8, <1>9, <1>10, <1>12, <1>13, <1>14, <1>15, <1>16, <1>17,
     <1>18, <1>19, <1>20 DEF TickOutcome
<1> QED BY <1>21, <1>22

LEMMA KeptByTick == ASSUME IInv, NEW n \in Node, Tick(n) PROVE IInv'
<1>0. slots \subseteq Slot /\ Mine(n) \subseteq slots BY DEF IInv, TypeOK, Mine
<1>1. PICK gone \in SUBSET Mine(n), rest \in SUBSET Slot, back \in SUBSET Slot,
           sent \in SUBSET Adopt : TickOutcome(n, gone, rest, back, sent)
  BY TickEffect
<1>2. /\ Keyed(Hosting(rest, back)) /\ Hosting(rest, back) \subseteq rest \cup back
      /\ back \subseteq Hosting(rest, back)
  BY <1>1, HostingKeyed DEF TickOutcome
<1>3. /\ slots' = (slots \ Mine(n)) \cup Hosting(rest, back)
      /\ \A r \in rest \cup back : r.node = n
  BY <1>1 DEF TickOutcome
<1>4. slots' \subseteq Slot BY <1>0, <1>2, <1>3
<1>5. Keyed(slots')
  <2> SUFFICES ASSUME NEW s \in slots', NEW t \in slots',
                      s.node = t.node, s.zone = t.zone, s.player = t.player
               PROVE  s = t
    BY DEF Keyed
  <2>1. CASE s.node = n
    <3>1. s \in Hosting(rest, back) /\ t \in Hosting(rest, back)
      BY <1>0, <1>3, <2>1 DEF Mine
    <3> QED BY <1>2, <3>1 DEF Keyed
  <2>2. CASE s.node # n
    <3>1. s \in slots /\ t \in slots BY <1>2, <1>3, <2>2
    <3> QED BY <3>1 DEF IInv, Keyed
  <2> QED BY <2>1, <2>2
<1>6. /\ Without(gone) \in BodyCount
      /\ \A s \in slots \ gone : Without(gone)[s.node][s.zone][s.player] > 0
  BY <1>0, WithoutCounts
<1>7. bodies' = Seeded(Without(gone), back) BY <1>1 DEF TickOutcome
<1>8. /\ bodies' \in BodyCount
      /\ \A m \in Node, z \in Zone, p \in Player :
           bodies'[m][z][p] >= Without(gone)[m][z][p]
      /\ \A s \in back : bodies'[s.node][s.zone][s.player] > 0
  BY <1>6, <1>7, SeededCounts
<1>9. \A s \in slots \ gone : bodies'[s.node][s.zone][s.player] > 0
  <2> SUFFICES ASSUME NEW s \in slots \ gone
               PROVE  bodies'[s.node][s.zone][s.player] > 0
    OBVIOUS
  <2>1. s.node \in Node /\ s.zone \in Zone /\ s.player \in Player BY <1>0 DEF Slot
  <2> QED BY <1>6, <1>8, <2>1 DEF BodyCount
<1>10. Embodied'
  <2> SUFFICES ASSUME NEW s \in slots' PROVE bodies'[s.node][s.zone][s.player] > 0
    BY DEF Embodied
  <2>1. CASE s \in slots \ Mine(n) BY <1>9, <2>1
  <2>2. CASE s \in back BY <1>8, <2>2
  <2>3. CASE s \in rest
    <3>1. PICK t \in Mine(n) \ gone : s.zone = t.zone /\ s.player = t.player
      BY <1>1, <2>3 DEF TickOutcome
    <3>2. s.node = n /\ t.node = n BY <1>3, <2>3 DEF Mine
    <3> QED BY <1>0, <1>9, <3>1, <3>2
  <2> QED BY <1>2, <1>3, <2>1, <2>2, <2>3
<1>11. adopts' \subseteq Adopt BY <1>1 DEF TickOutcome, IInv, TypeOK
<1>12. TypeOK'
  BY <1>1, <1>4, <1>8, <1>11 DEF TickOutcome, IInv, TypeOK, BodyCount
<1> QED BY <1>1, <1>5, <1>10, <1>12 DEF IInv, TickOutcome

\* An arriving slot, with an entity for it, leaves the rest as they are.
LEMMA Arrive ==
  ASSUME IInv, NEW s \in Slot, bodies' \in BodyCount, slots' = Hosting(slots, {s}),
         \A m \in Node, z \in Zone, p \in Player : bodies'[m][z][p] >= bodies[m][z][p],
         bodies'[s.node][s.zone][s.player] > 0
  PROVE  slots' \subseteq Slot /\ Keyed(slots') /\ Embodied'
<1>0. slots \subseteq Slot /\ bodies \in BodyCount BY DEF IInv, TypeOK, BodyCount
<1>1. Keyed(slots') /\ slots' \subseteq slots \cup {s}
  <2>1. Keyed(slots) /\ Keyed({s}) BY DEF IInv, Keyed
  <2> QED BY <2>1, HostingKeyed
<1>2. ASSUME NEW t \in slots PROVE bodies'[t.node][t.zone][t.player] > 0
  <2>1. t.node \in Node /\ t.zone \in Zone /\ t.player \in Player BY <1>0 DEF Slot
  <2>2. bodies[t.node][t.zone][t.player] > 0 BY DEF IInv, Embodied
  <2> QED BY <1>0, <2>1, <2>2 DEF BodyCount
<1> QED BY <1>0, <1>1, <1>2 DEF Embodied

LEMMA KeptByAdopt == ASSUME IInv, NEW a \in adopts, RecvAdopt(a) PROVE IInv'
<1> DEFINE s == [node |-> a.to, zone |-> a.zone, player |-> a.player, at |-> a.at]
<1>1. a.to \in Node /\ a.zone \in Zone /\ a.player \in Player /\ a.at \in Zone
  BY DEF IInv, TypeOK, Adopt
<1>2. s \in Slot BY <1>1 DEF Slot
<1>3. slots' = Hosting(slots, {s}) /\ bodies' = Seeded(bodies, {s}) BY DEF RecvAdopt
<1>4. bodies \in BodyCount BY DEF IInv, TypeOK, BodyCount
<1>5. /\ bodies' \in BodyCount
      /\ \A m \in Node, z \in Zone, p \in Player : bodies'[m][z][p] >= bodies[m][z][p]
      /\ bodies'[s.node][s.zone][s.player] > 0
  BY <1>2, <1>3, <1>4, SeededCounts
<1> HIDE DEF s
<1>6. slots' \subseteq Slot /\ Keyed(slots') /\ Embodied' BY <1>2, <1>3, <1>5, Arrive
<1>7. /\ owned' \in [Node -> SUBSET Zone] /\ active_zones' \in [Node -> SUBSET Zone]
  BY <1>1 DEF RecvAdopt, Ensure, IInv, TypeOK
<1>8. /\ adopts' \subseteq adopts
      /\ UNCHANGED <<up, cands, claim_epoch, peer_claims, recovering, copies, claims,
                     joins, spent>>
  BY DEF RecvAdopt, fleet
<1>9. TypeOK' BY <1>5, <1>6, <1>7, <1>8 DEF IInv, TypeOK, BodyCount
<1> QED BY <1>6, <1>8, <1>9 DEF IInv, OneCopyPerZone

LEMMA KeptByJoin == ASSUME IInv, NEW p \in Player, NEW z \in Admission, Join(p, z) PROVE IInv'
<1>0. Coordinator \in Node /\ z \in Zone BY OwnershipAssumption
<1>1. /\ joins' \in [Player -> Nat]
      /\ UNCHANGED <<up, cands, claim_epoch, peer_claims, recovering, copies, claims, spent>>
  BY DEF Join, fleet, IInv, TypeOK
<1>2. CASE JoinHere(p, z)
  <2> DEFINE s == [node |-> Coordinator, zone |-> z, player |-> p, at |-> z]
  <2>1. s \in Slot BY <1>0 DEF Slot
  <2>2. slots' = Hosting(slots, {s}) /\ bodies' = [bodies EXCEPT ![Coordinator][z][p] = @ + 1]
    BY <1>2 DEF JoinHere
  <2>3. bodies \in BodyCount BY DEF IInv, TypeOK, BodyCount
  <2>4. /\ bodies' \in BodyCount
        /\ \A m \in Node, y \in Zone, q \in Player : bodies'[m][y][q] >= bodies[m][y][q]
        /\ bodies'[s.node][s.zone][s.player] > 0
    BY <1>0, <2>2, <2>3 DEF BodyCount
  <2> HIDE DEF s
  <2>5. slots' \subseteq Slot /\ Keyed(slots') /\ Embodied' BY <2>1, <2>2, <2>4, Arrive
  <2>6. /\ owned' \in [Node -> SUBSET Zone] /\ active_zones' \in [Node -> SUBSET Zone]
        /\ adopts' = adopts
    BY <1>0, <1>2 DEF JoinHere, Ensure, IInv, TypeOK
  <2>7. TypeOK' BY <1>1, <2>4, <2>5, <2>6 DEF IInv, TypeOK, BodyCount
  <2> QED BY <1>1, <2>5, <2>7 DEF IInv, OneCopyPerZone
<1>3. CASE JoinElsewhere(p, z)
  <2>1. authority_for(cands[Coordinator], z, Coordinator) \in Node
    BY <1>0, AuthorityType DEF IInv, TypeOK
  <2>2. adopts' \subseteq Adopt
    BY <1>0, <1>3, <2>1 DEF JoinElsewhere, Adopt, IInv, TypeOK
  <2>3. UNCHANGED <<owned, active_zones, slots, bodies>>
    BY <1>3 DEF JoinElsewhere, hosting
  <2>4. TypeOK' BY <1>1, <2>2, <2>3 DEF IInv, TypeOK
  <2> QED BY <1>1, <2>3, <2>4 DEF IInv, OneCopyPerZone, Keyed, Embodied
<1> QED BY <1>2, <1>3 DEF Join

LEMMA KeptByLeave == ASSUME IInv, NEW s \in slots, Leave(s) PROVE IInv'
<1>1. slots' = slots \ {s} /\ bodies' = Without({s}) BY DEF Leave, Removed
<1>2. bodies' \in BodyCount /\ Embodied' BY <1>1, WithoutCounts DEF Embodied
<1>3. spent' \in [Rare -> Nat] BY SpendType DEF Leave, IInv
<1>4. UNCHANGED <<fleet, leases, failover, claims, adopts, joins>> BY DEF Leave
<1>5. TypeOK' BY <1>1, <1>2, <1>3, <1>4 DEF IInv, TypeOK, BodyCount, fleet, leases, failover
<1> QED BY <1>1, <1>2, <1>4, <1>5 DEF IInv, OneCopyPerZone, Keyed, failover

LEMMA KeptByLose == ASSUME IInv, Lose PROVE IInv'
<1>1. spent' \in [Rare -> Nat] BY SpendType DEF Lose, IInv
<1>2. claims' \subseteq claims /\ adopts' \subseteq adopts BY DEF Lose
<1>3. UNCHANGED <<fleet, leases, hosting, failover, joins>> BY DEF Lose
<1>4. TypeOK' BY <1>1, <1>2, <1>3 DEF IInv, TypeOK, fleet, leases, hosting, failover
<1> QED BY <1>3, <1>4 DEF IInv, OneCopyPerZone, Keyed, Embodied, hosting, failover

LEMMA KeptByCrash == ASSUME IInv, NEW n \in Node, Crash(n) PROVE IInv'
<1>0. slots \subseteq Slot /\ bodies \in BodyCount BY DEF IInv, TypeOK, BodyCount
<1>1. slots' = slots \ Mine(n) /\ bodies' = [bodies EXCEPT ![n] = NoBodies] BY DEF Crash
<1>2. bodies' \in BodyCount BY <1>0, <1>1 DEF BodyCount, NoBodies
<1>3. Embodied'
  <2> SUFFICES ASSUME NEW s \in slots' PROVE bodies'[s.node][s.zone][s.player] > 0
    BY DEF Embodied
  <2>1. s \in slots /\ s.node # n /\ s.node \in Node BY <1>0, <1>1 DEF Mine, Slot
  <2> QED BY <1>0, <1>1, <2>1 DEF IInv, Embodied, BodyCount
<1>4. spent' \in [Rare -> Nat] BY SpendType DEF Crash, IInv
<1>5. /\ up' \subseteq Node /\ cands' \in [Node -> SUBSET Node]
      /\ owned' \in [Node -> SUBSET Zone] /\ active_zones' \in [Node -> SUBSET Zone]
      /\ claim_epoch' \in [Node -> Nat] /\ peer_claims' \in [Node -> [Zone -> Nat]]
      /\ recovering' \in [Node -> SUBSET Zone]
  BY OwnershipAssumption DEF Crash, IInv, TypeOK
<1>7. UNCHANGED <<copies, claims, adopts, joins>> BY DEF Crash
<1>8. TypeOK' BY <1>1, <1>2, <1>4, <1>5, <1>7 DEF IInv, TypeOK, BodyCount
<1> QED BY <1>1, <1>3, <1>7, <1>8 DEF IInv, OneCopyPerZone, Keyed

LEMMA KeptByRestart == ASSUME IInv, NEW n \in Node, Restart(n) PROVE IInv'
<1>1. /\ up' = up \cup {n}
      /\ UNCHANGED <<cands, leases, hosting, failover, claims, adopts, joins, spent>>
  BY DEF Restart
<1>2. TypeOK' BY <1>1 DEF IInv, TypeOK, leases, hosting, failover
<1> QED BY <1>1, <1>2 DEF IInv, OneCopyPerZone, Keyed, Embodied, hosting, failover

LEMMA InvariantInit == Init => IInv
<1> SUFFICES ASSUME Init PROVE IInv OBVIOUS
<1>1. TypeOK BY OwnershipAssumption DEF Init, TypeOK, NoBodies
<1> QED BY <1>1 DEF Init, IInv, OneCopyPerZone, Keyed, Embodied

LEMMA InvariantKept == IInv /\ [Next]_vars => IInv'
<1> SUFFICES ASSUME IInv, [Next]_vars PROVE IInv' OBVIOUS
<1>1. CASE \E n \in Node : Discover(n) \/ Tick(n) \/ Crash(n) \/ Restart(n)
  BY <1>1, KeptByDiscover, KeptByTick, KeptByCrash, KeptByRestart
<1>2. CASE \E c \in claims : RecvClaim(c) BY <1>2, KeptByClaim
<1>3. CASE \E a \in adopts : RecvAdopt(a) BY <1>3, KeptByAdopt
<1>4. CASE \E p \in Player, z \in Admission : Join(p, z) BY <1>4, KeptByJoin
<1>5. CASE \E s \in slots : Leave(s) BY <1>5, KeptByLeave
<1>6. CASE Lose BY <1>6, KeptByLose
<1>7. CASE UNCHANGED vars
  <2>1. TypeOK' BY <1>7 DEF IInv, TypeOK, vars, fleet, leases, hosting, failover
  <2> QED BY <1>7, <2>1
        DEF IInv, OneCopyPerZone, Keyed, Embodied, vars, hosting, failover
<1> QED BY <1>1, <1>2, <1>3, <1>4, <1>5, <1>6, <1>7 DEF Next

\* Every reachable state is well formed; in particular no removal takes away an
\* entity that is not there.
THEOREM TypeCorrect == Spec => []TypeOK
<1>1. IInv => TypeOK BY DEF IInv
<1> QED BY InvariantInit, InvariantKept, <1>1, PTL DEF Spec

-----------------------------------------------------------------------------
(* Clients that join once. *)

\* The clients with a slot, a hand-off or a checkpoint anywhere: they have joined.
Known == {s.player : s \in slots} \cup {a.player : a \in adopts} \cup {c.player : c \in copies}

Newcomers == \A p \in Known : joins[p] > 0

BodyInv == IInv /\ NoOrphanBody /\ Newcomers

LEMMA KnownByTick == ASSUME IInv, NEW n \in Node, Tick(n) PROVE Known' \subseteq Known
<1>1. PICK gone \in SUBSET Mine(n), rest \in SUBSET Slot, back \in SUBSET Slot,
           sent \in SUBSET Adopt : TickOutcome(n, gone, rest, back, sent)
  BY TickEffect
<1>2. Hosting(rest, back) \subseteq rest \cup back BY <1>1, HostingKeyed DEF TickOutcome
<1>3. \A s \in gone : s.player \in Known BY <1>1 DEF Known, Mine
<1>4. \A r \in rest : r.player \in Known
  <2> SUFFICES ASSUME NEW r \in rest PROVE r.player \in Known OBVIOUS
  <2>1. PICK s \in Mine(n) \ gone : r.player = s.player BY <1>1 DEF TickOutcome
  <2> QED BY <2>1 DEF Known, Mine
<1>5. \A c \in copies' : c.player \in Known
  <2> SUFFICES ASSUME NEW c \in copies' PROVE c.player \in Known OBVIOUS
  <2>1. CASE c \in copies BY <2>1 DEF Known
  <2>2. CASE c \notin copies
    <3>1. PICK r \in rest : c.player = r.player BY <1>1, <2>2 DEF TickOutcome
    <3> QED BY <1>4, <3>1
  <2> QED BY <2>1, <2>2
<1>6. \A b \in back : b.player \in Known
  <2> SUFFICES ASSUME NEW b \in back PROVE b.player \in Known OBVIOUS
  <2>1. PICK c \in copies' : b.player = c.player BY <1>1 DEF TickOutcome
  <2> QED BY <1>5, <2>1
<1>7. \A s \in slots' : s.player \in Known
  <2>1. slots' = (slots \ Mine(n)) \cup Hosting(rest, back) BY <1>1 DEF TickOutcome
  <2>2. \A s \in slots : s.player \in Known BY DEF Known
  <2> QED BY <1>2, <1>4, <1>6, <2>1, <2>2
<1>8. \A a \in adopts' : a.player \in Known
  <2> SUFFICES ASSUME NEW a \in adopts' PROVE a.player \in Known OBVIOUS
  <2>1. CASE a \in adopts BY <2>1 DEF Known
  <2>2. CASE a \in sent
    <3>1. PICK s \in gone : a.player = s.player BY <1>1, <2>2 DEF TickOutcome
    <3> QED BY <1>3, <3>1
  <2> QED BY <1>1, <2>1, <2>2 DEF TickOutcome
<1> QED BY <1>5, <1>7, <1>8 DEF Known

\* A claim that is yielded to hands over slots of its recipient.
LEMMA ClaimHandoffs ==
  ASSUME NEW c, RecvClaim(c), NEW a \in adopts' \ adopts
  PROVE  \E s \in Mine(c.to) : a = Handoff(s, s.zone, c.from)
<1>1. PICK lost :
        adopts' = adopts \cup {Handoff(s, s.zone, c.from) :
                                 s \in {t \in Mine(c.to) : t.zone \in lost}}
  BY Zenon DEF RecvClaim
<1>2. PICK s \in {t \in Mine(c.to) : t.zone \in lost} :
        a = Handoff(s, s.zone, c.from)
  BY <1>1, Zenon
<1> QED BY <1>2, Zenon

\* Only a join makes a client known.
LEMMA KnownKept ==
  ASSUME IInv,
         \/ \E n \in Node : Discover(n) \/ Tick(n) \/ Crash(n) \/ Restart(n)
         \/ \E c \in claims : RecvClaim(c)
         \/ \E a \in adopts : RecvAdopt(a)
         \/ \E s \in slots : Leave(s)
         \/ Lose
         \/ UNCHANGED vars
  PROVE  Known' \subseteq Known /\ joins' = joins
<1>1. ASSUME NEW n \in Node, Discover(n) PROVE Known' \subseteq Known /\ joins' = joins
  <2>1. slots' \subseteq slots /\ copies' = copies /\ joins' = joins
    BY <1>1 DEF Discover, Removed
  <2>2. ASSUME NEW a \in adopts' \ adopts PROVE \E s \in slots : a.player = s.player
    <3>1. PICK view \in SUBSET Node :
            a \in {Handoff(s, s.zone, authority_for(view, s.zone, n))
                    : s \in {t \in Mine(n) : t.zone \in {z \in owned[n] : ~should_own(view, z, n)}}}
      BY <1>1, <2>2 DEF Discover
    <3> QED BY <3>1 DEF Handoff, Mine
  <2> QED BY <2>1, <2>2 DEF Known
<1>2. ASSUME NEW c \in claims, RecvClaim(c) PROVE Known' \subseteq Known /\ joins' = joins
  <2>1. slots' \subseteq slots /\ copies' = copies /\ joins' = joins
    BY <1>2 DEF RecvClaim, Removed, failover
  <2>2. ASSUME NEW a \in adopts' \ adopts PROVE \E s \in slots : a.player = s.player
    <3>1. PICK s \in Mine(c.to) : a = Handoff(s, s.zone, c.from)
      BY <1>2, <2>2, ClaimHandoffs
    <3> QED BY <3>1 DEF Handoff, Mine
  <2> QED BY <2>1, <2>2 DEF Known
<1>3. ASSUME NEW a \in adopts, RecvAdopt(a) PROVE Known' \subseteq Known /\ joins' = joins
  BY <1>3 DEF RecvAdopt, Hosting, Known
<1>4. ASSUME NEW n \in Node, Tick(n) PROVE Known' \subseteq Known /\ joins' = joins
  BY <1>4, KnownByTick DEF Tick
<1>5. ASSUME NEW n \in Node, Crash(n) \/ Restart(n)
      PROVE  Known' \subseteq Known /\ joins' = joins
  BY <1>5 DEF Crash, Restart, Known, hosting, failover
<1>6. ASSUME NEW s \in slots, Leave(s) PROVE Known' \subseteq Known /\ joins' = joins
  BY <1>6 DEF Leave, Removed, Known, failover
<1>7. CASE Lose BY <1>7 DEF Lose, Known, hosting, failover
<1>8. CASE UNCHANGED vars BY <1>8 DEF vars, Known, hosting, failover
<1> QED BY <1>1, <1>2, <1>3, <1>4, <1>5, <1>6, <1>7, <1>8

LEMMA NewcomersKept ==
  ASSUME IInv, Newcomers, [Next]_vars PROVE Newcomers'
<1>1. CASE \E p \in Player, z \in Admission : Join(p, z)
  <2>1. PICK p \in Player, z \in Admission : Join(p, z) BY <1>1
  <2>2. joins \in [Player -> Nat] /\ joins' = [joins EXCEPT ![p] = @ + 1]
    BY <2>1 DEF Join, IInv, TypeOK
  <2>3. Known' \subseteq Known \cup {p}
    BY <2>1 DEF Join, JoinHere, JoinElsewhere, Hosting, Known, hosting
  <2>4. Known \subseteq Player BY DEF Known, IInv, TypeOK, Slot, Adopt, Copy
  <2> QED BY <2>2, <2>3, <2>4 DEF Newcomers
<1>2. CASE ~ \E p \in Player, z \in Admission : Join(p, z)
  <2>1. Known' \subseteq Known /\ joins' = joins
    BY <1>2, KnownKept DEF Next
  <2> QED BY <2>1 DEF Newcomers
<1> QED BY <1>1, <1>2

LEMMA ShedBodies ==
  ASSUME IInv, NoOrphanBody, NEW n \in Node, NEW lost,
         slots' = Removed({s \in Mine(n) : s.zone \in lost}),
         bodies' = Retired(n, lost)
  PROVE  NoOrphanBody'
<1> SUFFICES ASSUME NEW m \in Node, NEW z \in Zone, NEW p \in Player
             PROVE  bodies'[m][z][p] = IF Here(m, z, p)' = {} THEN 0 ELSE 1
  BY DEF NoOrphanBody
<1>0. bodies \in BodyCount BY DEF IInv, TypeOK, BodyCount
<1>1. CASE m = n /\ z \in lost
  <2>1. Here(m, z, p)' = {} BY <1>1 DEF Here, Removed, Mine
  <2> QED BY <1>0, <1>1, <2>1 DEF Retired, BodyCount
<1>2. CASE ~(m = n /\ z \in lost)
  <2>1. Here(m, z, p)' = Here(m, z, p) BY <1>2 DEF Here, Removed, Mine
  <2>2. bodies'[m][z][p] = bodies[m][z][p] BY <1>0, <1>2 DEF Retired, BodyCount
  <2> QED BY <2>1, <2>2 DEF NoOrphanBody
<1> QED BY <1>1, <1>2

\* What is left when slots go with their entities.
LEMMA WithoutExact ==
  ASSUME IInv, NoOrphanBody, NEW leaving \in SUBSET slots,
         NEW m \in Node, NEW z \in Zone, NEW p \in Player
  PROVE  Without(leaving)[m][z][p] = IF Here(m, z, p) \subseteq leaving THEN 0 ELSE 1
<1>1. \A s, t \in Here(m, z, p) : s = t BY DEF IInv, Keyed, Here
<1>2. bodies[m][z][p] = IF Here(m, z, p) = {} THEN 0 ELSE 1 BY DEF NoOrphanBody
<1>3. Without(leaving)[m][z][p] =
        IF Here(m, z, p) \cap leaving = {} THEN bodies[m][z][p] ELSE bodies[m][z][p] - 1
  BY DEF Without
<1> QED BY <1>1, <1>2, <1>3

LEMMA BodiesByTick ==
  ASSUME IInv, NoOrphanBody, NEW n \in Node, Tick(n) PROVE NoOrphanBody'
<1>0. Mine(n) \subseteq slots BY DEF Mine
<1>1. PICK gone \in SUBSET Mine(n), rest \in SUBSET Slot, back \in SUBSET Slot,
           sent \in SUBSET Adopt : TickOutcome(n, gone, rest, back, sent)
  BY TickEffect
<1>2. /\ slots' = (slots \ Mine(n)) \cup Hosting(rest, back)
      /\ bodies' = Seeded(Without(gone), back)
      /\ \A r \in rest \cup back : r.node = n
  BY <1>1 DEF TickOutcome
<1> SUFFICES ASSUME NEW m \in Node, NEW z \in Zone, NEW p \in Player
             PROVE  bodies'[m][z][p] = IF Here(m, z, p)' = {} THEN 0 ELSE 1
  BY DEF NoOrphanBody
<1>3. Without(gone)[m][z][p] = IF Here(m, z, p) \subseteq gone THEN 0 ELSE 1
  BY <1>0, WithoutExact
<1>4. Here(m, z, p)' = {s \in slots' : s.node = m /\ s.zone = z /\ s.player = p}
  BY DEF Here
<1>5. CASE \E b \in back : b.node = m /\ b.zone = z /\ b.player = p
  <2>1. Here(m, z, p)' # {} BY <1>2, <1>4, <1>5 DEF Hosting
  <2>2. bodies'[m][z][p] = 1 BY <1>2, <1>3, <1>5 DEF Seeded
  <2> QED BY <2>1, <2>2
<1>6. CASE ~ \E b \in back : b.node = m /\ b.zone = z /\ b.player = p
  <2>1. bodies'[m][z][p] = Without(gone)[m][z][p] BY <1>2, <1>6 DEF Seeded
  <2>2. Here(m, z, p)' = {} <=> Here(m, z, p) \subseteq gone
    <3>1. CASE m # n
      <4>1. Here(m, z, p)' = Here(m, z, p)
        BY <1>2, <1>4, <3>1 DEF Here, Hosting, Mine
      <4>2. Here(m, z, p) \cap gone = {} BY <3>1 DEF Here, Mine
      <4> QED BY <4>1, <4>2
    <3>2. CASE m = n
      <4>1. ASSUME NEW s \in Here(m, z, p)' PROVE ~(Here(m, z, p) \subseteq gone)
        <5>1. s \in rest /\ s.zone = z /\ s.player = p
          BY <1>2, <1>4, <1>6, <3>2, <4>1 DEF Hosting, Mine
        <5>2. PICK t \in Mine(n) \ gone : s.zone = t.zone /\ s.player = t.player
          BY <1>1, <5>1 DEF TickOutcome
        <5> QED BY <3>2, <5>1, <5>2 DEF Here, Mine
      <4>2. ASSUME NEW s \in Here(m, z, p) \ gone PROVE Here(m, z, p)' # {}
        <5>1. s \in Mine(n) \ gone /\ s.zone = z /\ s.player = p BY <3>2 DEF Here, Mine
        <5>2. PICK r \in rest : r.zone = s.zone /\ r.player = s.player
          BY <1>1, <5>1 DEF TickOutcome
        <5>3. r \in Hosting(rest, back) BY <1>2, <1>6, <3>2, <5>1, <5>2 DEF Hosting
        <5> QED BY <1>2, <1>4, <3>2, <5>1, <5>2, <5>3
      <4> QED BY <4>1, <4>2
    <3> QED BY <3>1, <3>2
  <2> QED BY <1>3, <2>1, <2>2
<1> QED BY <1>5, <1>6

LEMMA BodiesKept ==
  ASSUME MaxJoins <= 1, BodyInv, [Next]_vars PROVE NoOrphanBody'
<1> USE DEF BodyInv
<1>0. slots \subseteq Slot /\ bodies \in BodyCount BY DEF IInv, TypeOK, BodyCount
<1>1. ASSUME NEW n \in Node, Discover(n) PROVE NoOrphanBody'
  <2>1. PICK view \in SUBSET Node :
          LET lost == {z \in owned[n] : ~should_own(view, z, n)}
          IN  /\ slots' = Removed({s \in Mine(n) : s.zone \in lost})
              /\ bodies' = Retired(n, lost)
    BY <1>1 DEF Discover
  <2> QED BY <2>1, ShedBodies
<1>2. ASSUME NEW c \in claims, RecvClaim(c) PROVE NoOrphanBody'
  <2>1. c.to \in Node BY DEF IInv, TypeOK, Claim
  <2>2. PICK lost : /\ slots' = Removed({s \in Mine(c.to) : s.zone \in lost})
                    /\ bodies' = Retired(c.to, lost)
    BY <1>2 DEF RecvClaim
  <2> QED BY <2>1, <2>2, ShedBodies
<1>3. ASSUME NEW n \in Node, Tick(n) PROVE NoOrphanBody' BY <1>3, BodiesByTick
<1>4. ASSUME NEW a \in adopts, RecvAdopt(a) PROVE NoOrphanBody'
  <2> DEFINE s == [node |-> a.to, zone |-> a.zone, player |-> a.player, at |-> a.at]
  <2>1. slots' = Hosting(slots, {s}) /\ bodies' = Seeded(bodies, {s}) BY <1>4 DEF RecvAdopt
  <2> SUFFICES ASSUME NEW m \in Node, NEW z \in Zone, NEW p \in Player
               PROVE  bodies'[m][z][p] = IF Here(m, z, p)' = {} THEN 0 ELSE 1
    BY DEF NoOrphanBody
  <2>2. bodies[m][z][p] = IF Here(m, z, p) = {} THEN 0 ELSE 1 BY DEF NoOrphanBody
  <2>3. CASE a.to = m /\ a.zone = z /\ a.player = p
    <3>1. s \in Here(m, z, p)' BY <2>1, <2>3 DEF Here, Hosting
    <3>2. bodies'[m][z][p] = 1 BY <2>1, <2>2, <2>3 DEF Seeded
    <3> QED BY <3>1, <3>2
  <2>4. CASE ~(a.to = m /\ a.zone = z /\ a.player = p)
    <3>1. Here(m, z, p)' = Here(m, z, p) BY <2>1, <2>4 DEF Here, Hosting
    <3>2. bodies'[m][z][p] = bodies[m][z][p] BY <2>1, <2>4 DEF Seeded
    <3> QED BY <2>2, <3>1, <3>2
  <2> QED BY <2>3, <2>4
<1>5. ASSUME NEW q \in Player, NEW y \in Admission, Join(q, y) PROVE NoOrphanBody'
  <2>1. CASE JoinElsewhere(q, y)
    BY <2>1 DEF JoinElsewhere, NoOrphanBody, Here, hosting
  <2>2. CASE JoinHere(q, y)
    <3> DEFINE s == [node |-> Coordinator, zone |-> y, player |-> q, at |-> y]
    <3>1. /\ slots' = Hosting(slots, {s})
          /\ bodies' = [bodies EXCEPT ![Coordinator][y][q] = @ + 1]
      BY <2>2 DEF JoinHere
    <3>2. q \notin Known
      BY <1>5, OwnershipAssumption DEF Join, Newcomers, IInv, TypeOK
    <3> SUFFICES ASSUME NEW m \in Node, NEW z \in Zone, NEW p \in Player
                 PROVE  bodies'[m][z][p] = IF Here(m, z, p)' = {} THEN 0 ELSE 1
      BY DEF NoOrphanBody
    <3>3. bodies[m][z][p] = IF Here(m, z, p) = {} THEN 0 ELSE 1 BY DEF NoOrphanBody
    <3>4. CASE Coordinator = m /\ y = z /\ q = p
      <4>1. s \in Here(m, z, p)' BY <3>1, <3>4 DEF Here, Hosting
      <4>2. Here(m, z, p) = {} BY <3>2, <3>4 DEF Here, Known
      <4>3. bodies'[m][z][p] = 1 BY <1>0, <3>1, <3>3, <3>4, <4>2 DEF BodyCount
      <4> QED BY <4>1, <4>3
    <3>5. CASE ~(Coordinator = m /\ y = z /\ q = p)
      <4>1. Here(m, z, p)' = Here(m, z, p) BY <3>1, <3>5 DEF Here, Hosting
      <4>2. bodies'[m][z][p] = bodies[m][z][p] BY <1>0, <3>1, <3>5 DEF BodyCount
      <4> QED BY <3>3, <4>1, <4>2
    <3> QED BY <3>4, <3>5
  <2> QED BY <1>5, <2>1, <2>2 DEF Join
<1>6. ASSUME NEW s \in slots, Leave(s) PROVE NoOrphanBody'
  <2>1. slots' = slots \ {s} /\ bodies' = Without({s}) BY <1>6 DEF Leave, Removed
  <2> SUFFICES ASSUME NEW m \in Node, NEW z \in Zone, NEW p \in Player
               PROVE  bodies'[m][z][p] = IF Here(m, z, p)' = {} THEN 0 ELSE 1
    BY DEF NoOrphanBody
  <2>2. Here(m, z, p)' = Here(m, z, p) \ {s} BY <2>1 DEF Here
  <2>3. bodies'[m][z][p] = IF Here(m, z, p) \subseteq {s} THEN 0 ELSE 1
    BY <2>1, WithoutExact
  <2> QED BY <2>2, <2>3
<1>7. ASSUME NEW n \in Node, Crash(n) PROVE NoOrphanBody'
  <2>1. slots' = slots \ Mine(n) /\ bodies' = [bodies EXCEPT ![n] = NoBodies]
    BY <1>7 DEF Crash
  <2> SUFFICES ASSUME NEW m \in Node, NEW z \in Zone, NEW p \in Player
               PROVE  bodies'[m][z][p] = IF Here(m, z, p)' = {} THEN 0 ELSE 1
    BY DEF NoOrphanBody
  <2>2. CASE m = n
    BY <1>0, <2>1, <2>2 DEF Here, Mine, NoBodies, BodyCount
  <2>3. CASE m # n
    BY <1>0, <2>1, <2>3 DEF Here, Mine, NoOrphanBody, BodyCount
  <2> QED BY <2>2, <2>3
<1>8. CASE (\E n \in Node : Restart(n)) \/ Lose \/ UNCHANGED vars
  <2>1. UNCHANGED <<slots, bodies>> BY <1>8 DEF Restart, Lose, vars, hosting
  <2> QED BY <2>1 DEF NoOrphanBody, Here
<1> QED BY <1>1, <1>2, <1>3, <1>4, <1>5, <1>6, <1>7, <1>8 DEF Next

\* In every fleet whose clients join once, with or without replicas, each player
\* entity in a World belongs to the slot of a hosted client, and each slot has
\* exactly one: no crossing, yield, adoption, recovery or eviction leaves a body
\* behind.
THEOREM NoBodyLeftBehind == ASSUME MaxJoins <= 1 PROVE Spec => []NoOrphanBody
<1>1. Init => BodyInv
  <2> SUFFICES ASSUME Init PROVE BodyInv OBVIOUS
  <2>1. NoOrphanBody BY DEF Init, NoOrphanBody, NoBodies, Here
  <2>2. Newcomers BY DEF Init, Newcomers, Known
  <2> QED BY <2>1, <2>2, InvariantInit DEF BodyInv
<1>2. BodyInv /\ [Next]_vars => BodyInv'
  BY BodiesKept, NewcomersKept, InvariantKept DEF BodyInv
<1>3. BodyInv => NoOrphanBody BY DEF BodyInv
<1> QED BY <1>1, <1>2, <1>3, PTL DEF Spec

-----------------------------------------------------------------------------
(* One body, in one place. *)

PlaceInv == BodyInv /\ OnePlace /\ copies = {}

\* Whoever leaves his slot goes into one hand-off of his own, and whoever keeps
\* his stays the only one: he is still in one place.
LEMMA Relocated ==
  ASSUME OnePlace, NEW gone \in SUBSET slots, NEW sent,
         adopts' = adopts \cup sent,
         \A r \in slots' : \E s \in slots \ gone : r.player = s.player,
         \A r, t \in slots' : r.player = t.player => r = t,
         \A a \in sent : \E s \in gone : a.player = s.player,
         \A a, b \in sent : a.player = b.player => a = b
  PROVE  OnePlace'
<1>1. ASSUME NEW a \in adopts', NEW b \in adopts', a.player = b.player PROVE a = b
  <2>1. CASE a \in adopts /\ b \in adopts BY <1>1, <2>1 DEF OnePlace
  <2>2. CASE a \in sent /\ b \in sent BY <1>1, <2>2
  <2>3. CASE a \in sent /\ b \in adopts BY <1>1, <2>3 DEF OnePlace
  <2>4. CASE a \in adopts /\ b \in sent BY <1>1, <2>4 DEF OnePlace
  <2> QED BY <2>1, <2>2, <2>3, <2>4
<1>2. ASSUME NEW r \in slots', NEW a \in adopts' PROVE r.player # a.player
  <2>1. PICK s \in slots \ gone : r.player = s.player OBVIOUS
  <2>2. CASE a \in adopts BY <2>1, <2>2 DEF OnePlace
  <2>3. CASE a \in sent
    <3>1. PICK t \in gone : a.player = t.player BY <2>3
    <3> QED BY <2>1, <3>1 DEF OnePlace
  <2> QED BY <2>2, <2>3
<1> QED BY <1>1, <1>2 DEF OnePlace

LEMMA PlaceByTick ==
  ASSUME ~Replicates, PlaceInv, NEW n \in Node, Tick(n)
  PROVE  OnePlace' /\ copies' = {}
<1>0. IInv /\ OnePlace /\ copies = {} /\ slots \subseteq Slot
  BY DEF PlaceInv, BodyInv, IInv, TypeOK
<1>1. PICK gone \in SUBSET Mine(n), rest \in SUBSET Slot, back \in SUBSET Slot,
           sent \in SUBSET Adopt : TickOutcome(n, gone, rest, back, sent)
  BY <1>0, TickEffect
<1>2. copies' = {} BY <1>0, <1>1 DEF TickOutcome
<1>3. back = {} BY <1>1, <1>2 DEF TickOutcome
<1>4. slots' = (slots \ Mine(n)) \cup rest BY <1>1, <1>3 DEF TickOutcome, Hosting
<1>5. \A r \in rest : \E s \in Mine(n) \ gone :
        r.zone = s.zone /\ r.player = s.player /\ r.node = n
  BY <1>1 DEF TickOutcome
<1>6. \A r \in slots' : \E s \in slots \ gone : r.player = s.player
  BY <1>1, <1>4, <1>5 DEF Mine
<1>7. \A s, t \in slots : s.player = t.player => s = t BY <1>0 DEF OnePlace
<1>8. ASSUME NEW r \in slots', NEW t \in slots', r.player = t.player PROVE r = t
  <2>1. CASE r \in rest /\ t \in rest
    <3>1. PICK s \in Mine(n) : r.zone = s.zone /\ r.player = s.player BY <1>5, <2>1
    <3>2. PICK u \in Mine(n) : t.zone = u.zone /\ t.player = u.player BY <1>5, <2>1
    <3>3. s = u BY <1>7, <1>8, <3>1, <3>2 DEF Mine
    <3>4. Keyed(rest) /\ r.node = t.node BY <1>1, <1>5, <2>1 DEF TickOutcome
    <3> QED BY <2>1, <3>1, <3>2, <3>3, <3>4 DEF Keyed
  <2>2. CASE r \in slots \ Mine(n) /\ t \in slots \ Mine(n) BY <1>7, <1>8, <2>2
  <2>3. CASE r \in rest /\ t \in slots \ Mine(n)
    BY <1>5, <1>7, <1>8, <2>3 DEF Mine
  <2>4. CASE t \in rest /\ r \in slots \ Mine(n)
    BY <1>5, <1>7, <1>8, <2>4 DEF Mine
  <2> QED BY <1>4, <2>1, <2>2, <2>3, <2>4
<1>9. /\ adopts' = adopts \cup sent
      /\ \A a \in sent : \E s \in gone : a.player = s.player
      /\ \A a, b \in sent : a.player = b.player => a = b
  BY <1>1, <1>7 DEF TickOutcome
<1>10. gone \subseteq slots BY <1>1 DEF Mine
<1> QED BY <1>0, <1>2, <1>6, <1>8, <1>9, <1>10, Relocated

LEMMA PlaceKept ==
  ASSUME MaxJoins <= 1, ~Replicates, PlaceInv, [Next]_vars
  PROVE  OnePlace' /\ copies' = {}
<1>0. /\ IInv /\ OnePlace /\ copies = {} /\ Newcomers
      /\ \A s, t \in slots : s.player = t.player => s = t
  BY DEF PlaceInv, BodyInv, OnePlace
<1>1. ASSUME NEW n \in Node, Discover(n) PROVE OnePlace' /\ copies' = {}
  <2>1. PICK view \in SUBSET Node :
          LET lost    == {z \in owned[n] : ~should_own(view, z, n)}
              leaving == {s \in Mine(n) : s.zone \in lost}
          IN
          /\ slots' = Removed(leaving)
          /\ adopts' = adopts \cup
               {Handoff(s, s.zone, authority_for(view, s.zone, n)) : s \in leaving}
    BY <1>1 DEF Discover
  <2> DEFINE lost    == {z \in owned[n] : ~should_own(view, z, n)}
             leaving == {s \in Mine(n) : s.zone \in lost}
  <2>0. leaving \subseteq slots BY DEF Mine
  <2> DEFINE sent == {Handoff(s, s.zone, authority_for(view, s.zone, n)) : s \in leaving}
  <2>2. /\ \A a \in sent : \E s \in leaving : a.player = s.player
        /\ \A a, b \in sent : a.player = b.player => a = b
    BY <1>0, <2>0, <2>1 DEF Handoff
  <2>3. /\ \A r \in slots' : \E s \in slots \ leaving : r.player = s.player
        /\ \A r, t \in slots' : r.player = t.player => r = t
    BY <1>0, <2>1 DEF Removed
  <2>4. adopts' = adopts \cup sent /\ copies' = copies BY <1>1, <2>1 DEF Discover
  <2>5. OnePlace /\ leaving \in SUBSET slots /\ adopts' = adopts \cup sent
    BY <1>0, <2>0, <2>4
  <2> HIDE DEF sent, leaving
  <2>6. OnePlace' BY <2>2, <2>3, <2>5, Relocated
  <2> QED BY <1>0, <2>4, <2>6
<1>2. ASSUME NEW c \in claims, RecvClaim(c) PROVE OnePlace' /\ copies' = {}
  <2>1. PICK leaving :
          /\ leaving \subseteq slots
          /\ slots' = Removed(leaving)
          /\ adopts' = adopts \cup {Handoff(s, s.zone, c.from) : s \in leaving}
    BY <1>2 DEF RecvClaim, Mine
  <2> DEFINE sent == {Handoff(s, s.zone, c.from) : s \in leaving}
  <2>2. /\ \A a \in sent : \E s \in leaving : a.player = s.player
        /\ \A a, b \in sent : a.player = b.player => a = b
    BY <1>0, <2>1 DEF Handoff
  <2>3. /\ \A r \in slots' : \E s \in slots \ leaving : r.player = s.player
        /\ \A r, t \in slots' : r.player = t.player => r = t
    BY <1>0, <2>1 DEF Removed
  <2>4. adopts' = adopts \cup sent /\ copies' = copies
    BY <1>2, <2>1 DEF RecvClaim, failover
  <2> HIDE DEF sent
  <2>5. OnePlace /\ leaving \in SUBSET slots /\ adopts' = adopts \cup sent
    BY <1>0, <2>1, <2>4
  <2>6. OnePlace' BY <2>2, <2>3, <2>5, Relocated
  <2> QED BY <1>0, <2>4, <2>6
<1>3. ASSUME NEW n \in Node, Tick(n) PROVE OnePlace' /\ copies' = {}
  BY <1>3, PlaceByTick
<1>4. ASSUME NEW a \in adopts, RecvAdopt(a) PROVE OnePlace' /\ copies' = {}
  <2>1. /\ slots' \subseteq slots \cup
             {[node |-> a.to, zone |-> a.zone, player |-> a.player, at |-> a.at]}
        /\ adopts' = adopts \ {a} /\ copies' = copies
    BY <1>4 DEF RecvAdopt, Hosting
  <2> QED BY <1>0, <2>1 DEF OnePlace
<1>5. ASSUME NEW p \in Player, NEW z \in Admission, Join(p, z)
      PROVE  OnePlace' /\ copies' = {}
  <2>1. p \notin Known /\ copies' = copies
    BY <1>0, <1>5, OwnershipAssumption DEF Join, Newcomers, IInv, TypeOK
  <2>2. /\ \A s \in slots : s.player # p
        /\ \A a \in adopts : a.player # p
    BY <2>1 DEF Known
  <2>3. CASE JoinHere(p, z)
    <3>1. /\ slots' \subseteq slots \cup
               {[node |-> Coordinator, zone |-> z, player |-> p, at |-> z]}
          /\ adopts' = adopts
      BY <2>3 DEF JoinHere, Hosting
    <3> QED BY <1>0, <2>1, <2>2, <3>1 DEF OnePlace
  <2>4. CASE JoinElsewhere(p, z)
    BY <1>0, <2>1, <2>2, <2>4 DEF JoinElsewhere, OnePlace, hosting
  <2> QED BY <1>5, <2>3, <2>4 DEF Join
<1>6. ASSUME NEW s \in slots, Leave(s) PROVE OnePlace' /\ copies' = {}
  BY <1>0, <1>6 DEF Leave, Removed, OnePlace, failover
<1>7. ASSUME NEW n \in Node, Crash(n) \/ Restart(n) PROVE OnePlace' /\ copies' = {}
  BY <1>0, <1>7 DEF Crash, Restart, OnePlace, hosting, failover
<1>8. CASE Lose BY <1>0, <1>8 DEF Lose, OnePlace, hosting, failover
<1>9. CASE UNCHANGED vars BY <1>0, <1>9 DEF vars, OnePlace, hosting, failover
<1> QED BY <1>1, <1>2, <1>3, <1>4, <1>5, <1>6, <1>7, <1>8, <1>9 DEF Next

\* In a fleet without replicas whose clients join once, a player is hosted once
\* or in one hand-off on its way, never both and never twice, whatever the views,
\* claims, crossings, crashes and losses.
THEOREM OnePlaceAlways == ASSUME MaxJoins <= 1, ~Replicates PROVE Spec => []OnePlace
<1>1. Init => PlaceInv
  <2> SUFFICES ASSUME Init PROVE PlaceInv OBVIOUS
  <2>1. NoOrphanBody BY DEF Init, NoOrphanBody, NoBodies, Here
  <2>2. Newcomers /\ OnePlace /\ copies = {} BY DEF Init, Newcomers, Known, OnePlace
  <2> QED BY <2>1, <2>2, InvariantInit DEF PlaceInv, BodyInv
<1>2. PlaceInv /\ [Next]_vars => PlaceInv'
  BY PlaceKept, BodiesKept, NewcomersKept, InvariantKept DEF PlaceInv, BodyInv
<1>3. PlaceInv => OnePlace BY DEF PlaceInv
<1> QED BY <1>1, <1>2, <1>3, PTL DEF Spec

\* In a fleet whose clients join once, the tables are well formed and entities
\* and slots stay in step.
THEOREM BodiesStaySound == ASSUME MaxJoins <= 1 PROVE Spec => []BodiesSound
<1>1. TypeOK /\ NoOrphanBody => BodiesSound
  BY DEF BodiesSound
<1> QED BY <1>1, TypeCorrect, NoBodyLeftBehind, PTL
=============================================================================
