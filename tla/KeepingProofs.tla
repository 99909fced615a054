---------------------------- MODULE KeepingProofs ----------------------------
(***************************************************************************)
(* What is kept.                                                           *)
(*                                                                         *)
(* ItemForge for any content tables, any supplies and any sequence of      *)
(* calls: what the forge makes of gear, what is worn, and what gems are    *)
(* worth.                                                                  *)
(*                                                                         *)
(* LivingWorld for any pack, any ages and any copies of a zone, as long as *)
(* its dice are fair: the measure of wells, herds, legends and familiars,  *)
(* the mana of the land, what is foretold, and what the copies agree on.   *)
(***************************************************************************)
EXTENDS ItemForge, LivingWorld, FiniteSetTheorems, SequenceTheorems, WellFoundedInduction, TLAPS

-----------------------------------------------------------------------------
(* Gear. *)

Roll == [affix : DOMAIN AffixDef, imprinted : BOOLEAN]
Rarities == {"Common", "Uncommon", "Rare", "Epic", "Legendary", "Mythic"}

Gear ==
  [base : Base, rarity : Rarities, level : Nat, quality : Nat,
   affixes : SUBSET Roll, sockets : Seq(Gem \cup {Hollow}),
   enchant : Enchant \cup {Plain}, kills : Nat]

\* A set of rolls that gear of some rarity may carry.
Fits(rolls, rarity) ==
  /\ rolls \subseteq Roll
  /\ Distinct(rolls)
  /\ IsFiniteSet(rolls) /\ Cardinality(rolls) <= AffixBudget[rarity]

Good(inst) ==
  /\ inst \in Gear
  /\ inst.level <= MaxLevel /\ inst.quality <= QualityCap /\ inst.kills <= MaxKills
  /\ Fits(inst.affixes, inst.rarity)
  /\ BaseDef[inst.base].unique => inst.affixes = {}
  /\ Len(inst.sockets)
     <= Larger(BaseDef[inst.base].sockets, SocketBudget[inst.rarity])

\* The reforge going on keeps what was imprinted and stays within the budget.
Going ==
  forging # Quiet =>
    /\ forging \in [at : DOMAIN stash, ilvl : Depth, affixes : SUBSET Roll]
    /\ ~BaseDef[stash[forging.at].base].unique
    /\ Fits(forging.affixes, stash[forging.at].rarity)
    /\ \A r \in stash[forging.at].affixes :
         r.imprinted => \E k \in forging.affixes : k.affix = r.affix

IInv ==
  /\ stash \in Seq(Gear)
  /\ \A i \in DOMAIN stash : Good(stash[i])
  /\ Going
-----------------------------------------------------------------------------
LEMMA Budgets ==
  \A r \in Rarities : AffixBudget[r] \in Nat /\ SocketBudget[r] \in Nat
BY DEF Rarities, AffixBudget, SocketBudget

LEMMA PromotedType ==
  ASSUME NEW r \in Rarities, NEW n \in Nat
  PROVE  Promoted(r, n) \in Rarities
<1> DEFINE rank == CHOOSE k \in 1..6 : Rarity[k] = r
<1>1. \E k \in 1..6 : Rarity[k] = r
  BY DEF Rarity, Rarities
<1>2. rank \in 1..6
  BY <1>1
<1>3. \A k \in 1..6 : Rarity[k] \in Rarities
  BY DEF Rarity, Rarities
<1> HIDE DEF rank
<1>4. Rarity[IF rank + n > 6 THEN 6 ELSE rank + n] \in Rarities
  BY <1>2, <1>3
<1> QED BY <1>4 DEF Promoted, rank

\* Rolling the affixes of a set one by one gives no more rolls than affixes.
LEMMA RolledBound ==
  ASSUME NEW S, IsFiniteSet(S)
  PROVE  /\ IsFiniteSet({Rolled(a) : a \in S})
         /\ Cardinality({Rolled(a) : a \in S}) <= Cardinality(S)
<1> DEFINE T == {Rolled(a) : a \in S}
           f == [a \in S |-> Rolled(a)]
<1>1. f \in Surjection(S, T)
  BY DEF Surjection
<1> QED BY <1>1, FS_Surjection

LEMMA RolledDistinct ==
  ASSUME NEW S \in SUBSET DOMAIN AffixDef
  PROVE  Distinct({Rolled(a) : a \in S}) /\ {Rolled(a) : a \in S} \subseteq Roll
<1>1. \A a \in S : Rolled(a) \in Roll /\ Rolled(a).affix = a
  BY DEF Rolled, Roll
<1>2. ASSUME NEW r \in {Rolled(a) : a \in S}, NEW t \in {Rolled(a) : a \in S},
             r.affix = t.affix
      PROVE  r = t
  <2>1. PICK a \in S : r = Rolled(a)
    OBVIOUS
  <2>2. PICK b \in S : t = Rolled(b)
    OBVIOUS
  <2>3. a = b
    BY <1>1, <1>2, <2>1, <2>2
  <2> QED BY <2>1, <2>2, <2>3
<1> QED BY <1>1, <1>2 DEF Distinct

\* roll_drop.
LEMMA DropFits ==
  ASSUME NEW base \in Base, NEW rarity \in Rarities, NEW ilvl,
         NEW s \in AffixRolls(base, rarity, ilvl)
  PROVE  /\ Fits({Rolled(a) : a \in s}, rarity)
         /\ BaseDef[base].unique => s = {}
<1>1. s \subseteq DOMAIN AffixDef /\ IsFiniteSet(s)
      /\ Cardinality(s) <= AffixBudget[rarity]
  <2>1. CASE s = {}
    BY <2>1, FS_EmptySet, Budgets
  <2>2. CASE s # {}
    <3>1. /\ s \in SUBSET affix_pool(base, ilvl)
          /\ Cardinality(s) \in 1..AffixBudget[rarity]
      BY <2>2 DEF AffixRolls
    <3>2. s \in SUBSET DOMAIN AffixDef
      BY <3>1 DEF affix_pool
    <3>3. IsFiniteSet(s)
      BY <3>2, FS_Subset, ForgeAssumption
    <3> QED BY <3>1, <3>2, <3>3, Budgets
  <2> QED BY <2>1, <2>2
<1>2. Cardinality({Rolled(a) : a \in s}) <= AffixBudget[rarity]
      /\ IsFiniteSet({Rolled(a) : a \in s})
  <2>1. Cardinality({Rolled(a) : a \in s}) <= Cardinality(s)
        /\ IsFiniteSet({Rolled(a) : a \in s})
    BY <1>1, RolledBound
  <2>2. Cardinality(s) \in Nat /\ Cardinality({Rolled(a) : a \in s}) \in Nat
    BY <1>1, <2>1, FS_CardinalityType
  <2> QED BY <1>1, <2>1, <2>2, Budgets
<1>3. BaseDef[base].unique => s = {}
  BY DEF AffixRolls
<1> QED BY <1>1, <1>2, <1>3, RolledDistinct DEF Fits

LEMMA HollowRow ==
  ASSUME NEW k \in Nat
  PROVE  /\ [j \in 1..k |-> Hollow] \in Seq(Gem \cup {Hollow})
         /\ Len([j \in 1..k |-> Hollow]) = k
OBVIOUS

LEMMA DropGood ==
  ASSUME NEW base \in Base, NEW rarity \in Rarities, NEW ilvl,
         NEW q \in DropQuality, NEW s \in AffixRolls(base, rarity, ilvl),
         NEW k \in BaseDef[base].sockets
                   ..Larger(BaseDef[base].sockets, SocketBudget[rarity])
  PROVE  Good([base |-> base, rarity |-> rarity, level |-> 0, quality |-> q,
               affixes |-> {Rolled(a) : a \in s},
               sockets |-> [j \in 1..k |-> Hollow], enchant |-> Plain,
               kills |-> 0])
<1> DEFINE rolls == {Rolled(a) : a \in s}
           row == [j \in 1..k |-> Hollow]
<1>1. Fits(rolls, rarity) /\ (BaseDef[base].unique => rolls = {})
  BY DropFits
<1>2. BaseDef[base].sockets \in Nat /\ SocketBudget[rarity] \in Nat
  BY ForgeAssumption, Budgets
<1>3. k \in Nat /\ k <= Larger(BaseDef[base].sockets, SocketBudget[rarity])
  BY <1>2 DEF Larger
<1>4. row \in Seq(Gem \cup {Hollow}) /\ Len(row) = k
  BY <1>3, HollowRow
<1>5. q \in Nat /\ q <= QualityCap /\ 0 <= MaxLevel /\ 0 <= MaxKills
  BY ForgeAssumption DEF QualityCap, MaxLevel
<1>6. rolls \in SUBSET Roll
  BY <1>1 DEF Fits
<1> HIDE DEF rolls, row
<1>7. [base |-> base, rarity |-> rarity, level |-> 0, quality |-> q,
       affixes |-> rolls, sockets |-> row, enchant |-> Plain,
       kills |-> 0] \in Gear
  BY <1>4, <1>5, <1>6 DEF Gear
<1>8. Good([base |-> base, rarity |-> rarity, level |-> 0, quality |-> q,
            affixes |-> rolls, sockets |-> row, enchant |-> Plain,
            kills |-> 0])
  BY <1>1, <1>3, <1>4, <1>5, <1>7 DEF Good
<1> QED BY <1>8 DEF rolls, row
-----------------------------------------------------------------------------
(* What each call of the forge makes of a piece of gear.                     *)
LEMMA TempersType ==
  ASSUME NEW l \in Nat
  PROVE  /\ Tempers(l) \subseteq Nat
         /\ l < MaxLevel => \A m \in Tempers(l) : m <= MaxLevel
         /\ \A m \in Tempers(l) : /\ m \in {l, l + 1, l - 1}
                                  /\ l >= SafeUntil => m >= SafeUntil
BY DEF Tempers, SafeUntil, MaxLevel

LEMMA LevelGood ==
  ASSUME NEW inst, Good(inst), NEW l \in Nat, l <= MaxLevel
  PROVE  Good([inst EXCEPT !.level = l])
BY DEF Good, Gear

LEMMA QualityGood ==
  ASSUME NEW inst, Good(inst), NEW q \in Nat, q <= QualityCap
  PROVE  Good([inst EXCEPT !.quality = q])
BY DEF Good, Gear

LEMMA KillsGood ==
  ASSUME NEW inst, Good(inst), NEW n \in Nat, n <= MaxKills
  PROVE  Good([inst EXCEPT !.kills = n])
BY DEF Good, Gear

LEMMA EnchantGood ==
  ASSUME NEW inst, Good(inst), NEW e \in Enchant
  PROVE  Good([inst EXCEPT !.enchant = e])
BY DEF Good, Gear

LEMMA ImprintFits ==
  ASSUME NEW rarity \in Rarities, NEW rolls, Fits(rolls, rarity), NEW r \in rolls
  PROVE  Fits((rolls \ {r}) \cup {[r EXCEPT !.imprinted = TRUE]}, rarity)
<1> DEFINE t == [r EXCEPT !.imprinted = TRUE]
           rest == rolls \ {r}
<1>1. t \in Roll /\ t.affix = r.affix
  BY DEF Fits, Roll
<1>2. rest \cup {t} \subseteq Roll
  BY <1>1 DEF Fits
<1>3. Distinct(rest \cup {t})
  BY <1>1 DEF Fits, Distinct
<1>4. /\ IsFiniteSet(rest)
      /\ Cardinality(rest) = Cardinality(rolls) - 1
  BY FS_RemoveElement DEF Fits
<1>5. /\ IsFiniteSet(rest \cup {t})
      /\ Cardinality(rest \cup {t})
         = IF t \in rest THEN Cardinality(rest) ELSE Cardinality(rest) + 1
  BY <1>4, FS_AddElement
<1>6. Cardinality(rolls) \in Nat /\ Cardinality(rest) \in Nat
  BY <1>4, FS_CardinalityType DEF Fits
<1>7. Cardinality(rest \cup {t}) <= Cardinality(rolls)
  BY <1>4, <1>5, <1>6
<1>8. Cardinality(rest \cup {t}) <= AffixBudget[rarity]
  <2>1. Cardinality(rolls) <= AffixBudget[rarity] /\ AffixBudget[rarity] \in Nat
    BY Budgets DEF Fits
  <2>2. Cardinality(rest \cup {t}) \in Nat
    BY <1>4, <1>5, <1>6
  <2> QED BY <1>6, <1>7, <2>1, <2>2
<1> HIDE DEF t, rest
<1>9. Fits(rest \cup {t}, rarity)
  BY <1>2, <1>3, <1>5, <1>8 DEF Fits
<1> QED BY <1>9 DEF t, rest

LEMMA AffixesGood ==
  ASSUME NEW inst, Good(inst), NEW rolls, Fits(rolls, inst.rarity),
         BaseDef[inst.base].unique => rolls = {}
  PROVE  Good([inst EXCEPT !.affixes = rolls])
BY DEF Good, Gear, Fits

LEMMA SocketsGood ==
  ASSUME NEW inst, Good(inst), NEW row \in Seq(Gem \cup {Hollow}),
         Len(row) <= Larger(BaseDef[inst.base].sockets,
                            SocketBudget[inst.rarity])
  PROVE  Good([inst EXCEPT !.sockets = row])
BY DEF Good, Gear

\* Putting a gem into a socket, or taking it out, keeps their number.
LEMMA FillGood ==
  ASSUME NEW inst, Good(inst), NEW k, NEW g \in Gem \cup {Hollow}
  PROVE  Good([inst EXCEPT !.sockets = [@ EXCEPT ![k] = g]])
<1>1. inst.sockets \in Seq(Gem \cup {Hollow})
  BY DEF Good, Gear
<1>2. /\ [inst.sockets EXCEPT ![k] = g] \in Seq(Gem \cup {Hollow})
      /\ Len([inst.sockets EXCEPT ![k] = g]) = Len(inst.sockets)
  <2> DEFINE row == [inst.sockets EXCEPT ![k] = g]
  <2>1. /\ DOMAIN row = 1..Len(inst.sockets) /\ Len(inst.sockets) \in Nat
        /\ row = [j \in DOMAIN inst.sockets |->
                    IF j = k THEN g ELSE inst.sockets[j]]
    BY <1>1
  <2>2. \A j \in 1..Len(inst.sockets) : row[j] \in Gem \cup {Hollow}
    BY <1>1, <2>1
  <2>3. row \in [1..Len(inst.sockets) -> Gem \cup {Hollow}]
    BY <2>1, <2>2
  <2> HIDE DEF row
  <2>4. row \in Seq(Gem \cup {Hollow})
    BY <2>1, <2>3, SeqDef
  <2>5. Len(row) = Len(inst.sockets)
    BY <2>1, <2>4
  <2> QED BY <2>4, <2>5 DEF row
<1>3. Good([inst EXCEPT !.sockets = [inst.sockets EXCEPT ![k] = g]])
  BY <1>2, SocketsGood DEF Good
<1> QED BY <1>3

LEMMA DrillGood ==
  ASSUME NEW inst, Good(inst), Len(inst.sockets) < SocketBudget[inst.rarity]
  PROVE  Good([inst EXCEPT !.sockets = Append(@, Hollow)])
<1>1. inst.sockets \in Seq(Gem \cup {Hollow}) /\ inst.rarity \in Rarities
      /\ inst.base \in Base
  BY DEF Good, Gear
<1>2. /\ Append(inst.sockets, Hollow) \in Seq(Gem \cup {Hollow})
      /\ Len(Append(inst.sockets, Hollow)) = Len(inst.sockets) + 1
      /\ Len(inst.sockets) \in Nat
  BY <1>1
<1>3. Len(Append(inst.sockets, Hollow))
      <= Larger(BaseDef[inst.base].sockets, SocketBudget[inst.rarity])
  <2>1. BaseDef[inst.base].sockets \in Nat /\ SocketBudget[inst.rarity] \in Nat
    BY <1>1, Budgets, ForgeAssumption
  <2> QED BY <1>2, <2>1 DEF Larger
<1>4. Good([inst EXCEPT !.sockets = Append(inst.sockets, Hollow)])
  BY <1>2, <1>3, SocketsGood
<1> QED BY <1>4

\* What a reforge starts from.
LEMMA KeptFits ==
  ASSUME NEW inst, Good(inst)
  PROVE  /\ Fits(Kept(inst), inst.rarity)
         /\ \A r \in inst.affixes :
              r.imprinted => \E k \in Kept(inst) : k.affix = r.affix
<1> DEFINE M == {x \in inst.affixes : x.imprinted}
           f == [r \in M |-> Rolled(r.affix)]
<1>1. /\ inst.affixes \subseteq Roll /\ IsFiniteSet(inst.affixes)
      /\ Cardinality(inst.affixes) <= AffixBudget[inst.rarity]
      /\ Distinct(inst.affixes) /\ inst.rarity \in Rarities
  BY DEF Good, Gear, Fits
<1>2. /\ M \subseteq inst.affixes /\ IsFiniteSet(M)
      /\ Cardinality(M) <= Cardinality(inst.affixes)
  BY <1>1, FS_Subset
<1>3. f \in Surjection(M, Kept(inst))
  BY DEF Surjection, Kept
<1>4. /\ IsFiniteSet(Kept(inst))
      /\ Cardinality(Kept(inst)) <= Cardinality(M)
  BY <1>2, <1>3, FS_Surjection
<1>5. Cardinality(Kept(inst)) <= AffixBudget[inst.rarity]
  <2>1. /\ Cardinality(Kept(inst)) \in Nat /\ Cardinality(M) \in Nat
        /\ Cardinality(inst.affixes) \in Nat
        /\ AffixBudget[inst.rarity] \in Nat
    BY <1>1, <1>2, <1>4, FS_CardinalityType, Budgets
  <2> QED BY <1>1, <1>2, <1>4, <2>1
<1>6. \A r \in M : Rolled(r.affix) \in Roll /\ Rolled(r.affix).affix = r.affix
  BY <1>1 DEF Rolled, Roll
<1>7. ASSUME NEW k \in Kept(inst)
      PROVE  k \in Roll
  BY <1>6 DEF Kept
<1>8. ASSUME NEW k \in Kept(inst), NEW l \in Kept(inst), k.affix = l.affix
      PROVE  k = l
  <2>1. PICK r \in M : k = Rolled(r.affix)
    BY DEF Kept
  <2>2. PICK t \in M : l = Rolled(t.affix)
    BY DEF Kept
  <2>3. r.affix = t.affix
    BY <1>6, <1>8, <2>1, <2>2
  <2> QED BY <2>1, <2>2, <2>3
<1>9. ASSUME NEW r \in inst.affixes, r.imprinted
      PROVE  \E k \in Kept(inst) : k.affix = r.affix
  <2>1. r \in M
    BY <1>9
  <2>2. Rolled(r.affix) \in Kept(inst)
    BY <2>1 DEF Kept
  <2> QED BY <1>6, <2>1, <2>2
<1> QED BY <1>4, <1>5, <1>7, <1>8, <1>9 DEF Fits, Distinct

\* Drawing one more affix, which is not there yet, when there is room for it.
LEMMA DrawFits ==
  ASSUME NEW rarity \in Rarities, NEW rolls, Fits(rolls, rarity),
         NEW a \in DOMAIN AffixDef, a \notin {r.affix : r \in rolls},
         ~(Cardinality(rolls) >= AffixBudget[rarity])
  PROVE  Fits(rolls \cup {Rolled(a)}, rarity)
<1>1. Rolled(a) \in Roll /\ Rolled(a).affix = a
  BY DEF Rolled, Roll
<1>2. \A r \in rolls : r.affix # a
  OBVIOUS
<1>3. rolls \cup {Rolled(a)} \subseteq Roll
  BY <1>1 DEF Fits
<1>4. Distinct(rolls \cup {Rolled(a)})
  BY <1>1, <1>2 DEF Fits, Distinct
<1>5. Rolled(a) \notin rolls
  BY <1>1, <1>2
<1>6. /\ IsFiniteSet(rolls \cup {Rolled(a)})
      /\ Cardinality(rolls \cup {Rolled(a)}) = Cardinality(rolls) + 1
  BY <1>5, FS_AddElement DEF Fits
<1>7. Cardinality(rolls) \in Nat /\ AffixBudget[rarity] \in Nat
  BY FS_CardinalityType, Budgets DEF Fits
<1>8. Cardinality(rolls \cup {Rolled(a)}) <= AffixBudget[rarity]
  BY <1>6, <1>7
<1> QED BY <1>3, <1>4, <1>6, <1>8 DEF Fits
-----------------------------------------------------------------------------
(* Steps.                                                                    *)
\* What a step may do to one piece of gear.
Mild(old, new) ==
  /\ new.base = old.base
  /\ new.level \in {old.level, old.level + 1, old.level - 1}
  /\ old.level >= SafeUntil => new.level >= SafeUntil
  /\ \A r \in old.affixes : r.imprinted => r.affix \in Affixes(new)

Mildly == \A i \in DOMAIN stash : i \in DOMAIN stash' /\ Mild(stash[i], stash'[i])

LEMMA MildSame ==
  ASSUME NEW old, NEW new, new.base = old.base, new.level = old.level,
         new.affixes = old.affixes
  PROVE  Mild(old, new)
BY DEF Mild, Affixes

\* A call that leaves the gear and the loop alone.
LEMMA GearKept ==
  ASSUME IInv, UNCHANGED <<stash, forging>>
  PROVE  IInv' /\ Mildly
<1>1. IInv'
  BY DEF IInv, Going
<1>2. Mildly
  BY MildSame DEF Mildly
<1> QED BY <1>1, <1>2

\* A call that changes one piece while no reforge is going on.
LEMMA PieceChanged ==
  ASSUME IInv, forging = Quiet, forging' = forging,
         NEW i \in DOMAIN stash, NEW inst, Good(inst), Mild(stash[i], inst),
         stash' = [stash EXCEPT ![i] = inst]
  PROVE  IInv' /\ Mildly
<1>1. /\ stash' \in Seq(Gear) /\ DOMAIN stash' = DOMAIN stash
      /\ stash'[i] = inst
      /\ \A j \in DOMAIN stash : j # i => stash'[j] = stash[j]
  BY DEF IInv, Good
<1>2. \A j \in DOMAIN stash' : Good(stash'[j])
  BY <1>1 DEF IInv
<1>3. Going'
  BY DEF Going
<1>4. IInv'
  BY <1>1, <1>2, <1>3 DEF IInv, Good
<1>5. Mildly
  BY <1>1, MildSame DEF Mildly
<1> QED BY <1>4, <1>5

LEMMA WorksInv ==
  ASSUME IInv, forging = Quiet, NEW i \in DOMAIN stash,
         NEW inst, Good(inst), Mild(stash[i], inst), NEW b, Works(i, inst, b)
  PROVE  IInv' /\ Mildly
BY PieceChanged DEF Works

LEMMA DropStep ==
  ASSUME IInv, forging = Quiet, roll_drop
  PROVE  IInv' /\ Mildly
<1> DEFINE base == Head(finds).id
           ilvl == Head(finds).ilvl
<1>1. base \in Base
  BY DEF roll_drop
<1>2. PICK n \in 0..(IF BaseDef[base].unique THEN 0 ELSE MaxPromotions),
           q \in DropQuality :
        \E s \in AffixRolls(base, Promoted(BaseDef[base].rarity, n), ilvl),
           k \in BaseDef[base].sockets
                  ..Larger(BaseDef[base].sockets,
                           SocketBudget[Promoted(BaseDef[base].rarity, n)]) :
          stash' = Append(stash,
            [base |-> base, rarity |-> Promoted(BaseDef[base].rarity, n),
             level |-> 0, quality |-> q, affixes |-> {Rolled(a) : a \in s},
             sockets |-> [j \in 1..k |-> Hollow], enchant |-> Plain,
             kills |-> 0])
  BY DEF roll_drop
<1> DEFINE rarity == Promoted(BaseDef[base].rarity, n)
<1>3. PICK s \in AffixRolls(base, rarity, ilvl),
           k \in BaseDef[base].sockets
                  ..Larger(BaseDef[base].sockets, SocketBudget[rarity]) :
        stash' = Append(stash,
          [base |-> base, rarity |-> rarity, level |-> 0, quality |-> q,
           affixes |-> {Rolled(a) : a \in s},
           sockets |-> [j \in 1..k |-> Hollow], enchant |-> Plain,
           kills |-> 0])
  BY <1>2
<1> DEFINE inst == [base |-> base, rarity |-> rarity, level |-> 0,
                    quality |-> q, affixes |-> {Rolled(a) : a \in s},
                    sockets |-> [j \in 1..k |-> Hollow], enchant |-> Plain,
                    kills |-> 0]
<1>4. rarity \in Rarities
  <2>1. BaseDef[base].rarity \in Rarities
    BY <1>1, ForgeAssumption DEF Rarities
  <2>2. n \in Nat
    BY ForgeAssumption
  <2> QED BY <2>1, <2>2, PromotedType
<1> HIDE DEF base, rarity, ilvl
<1>5. Good(inst)
  BY <1>1, <1>4, DropGood
<1>6. stash' = Append(stash, inst)
  BY <1>3
<1> HIDE DEF inst
<1>7. /\ stash' \in Seq(Gear) /\ Len(stash') = Len(stash) + 1
      /\ DOMAIN stash' = 1..Len(stash) + 1 /\ DOMAIN stash = 1..Len(stash)
      /\ stash'[Len(stash) + 1] = inst
      /\ \A j \in DOMAIN stash : stash'[j] = stash[j]
  BY <1>5, <1>6 DEF IInv, Good
<1>8. \A j \in DOMAIN stash' : Good(stash'[j])
  BY <1>5, <1>7 DEF IInv
<1>9. Going'
  BY DEF Going, roll_drop
<1>10. IInv'
  BY <1>7, <1>8, <1>9 DEF IInv, Good
<1>11. Mildly
  BY <1>7, MildSame DEF Mildly
<1> QED BY <1>10, <1>11

\* Each call of the forge on piece `i`.
LEMMA ImproveStep ==
  ASSUME IInv, forging = Quiet, NEW i \in DOMAIN stash, Improve(i)
  PROVE  IInv' /\ Mildly
<1> DEFINE inst == stash[i]
<1>1. /\ Good(inst) /\ inst \in Gear
      /\ inst.level \in Nat /\ inst.quality \in Nat
      /\ inst.rarity \in Rarities /\ Fits(inst.affixes, inst.rarity)
      /\ inst.base \in Base /\ inst.sockets \in Seq(Gem \cup {Hollow})
  BY DEF IInv, Good, Gear
<1> HIDE DEF inst
<1>2. CASE upgrade(i)
  <2>1. PICK l \in Tempers(inst.level) :
          Works(i, [inst EXCEPT !.level = l],
                remove_item(bag, "arcane", EssenceCost(inst.level)))
    BY <1>2 DEF upgrade, inst
  <2>2. /\ l \in Nat /\ l \in {inst.level, inst.level + 1, inst.level - 1}
        /\ inst.level >= SafeUntil => l >= SafeUntil
        /\ l <= MaxLevel
    <3>1. inst.level < MaxLevel
      BY <1>2 DEF upgrade, inst
    <3> QED BY <1>1, <3>1, TempersType
  <2> DEFINE new == [inst EXCEPT !.level = l]
  <2>3. Good(new)
    BY <1>1, <2>2, LevelGood
  <2>4. new.base = inst.base /\ new.level = l /\ new.affixes = inst.affixes
    BY <1>1 DEF Gear
  <2> HIDE DEF new
  <2>5. Mild(inst, new)
    BY <2>2, <2>4 DEF Mild, Affixes
  <2>6. Works(i, new, remove_item(bag, "arcane", EssenceCost(inst.level)))
    BY <2>1 DEF new
  <2> QED BY <2>3, <2>5, <2>6, WorksInv DEF inst
<1>3. ASSUME NEW r \in inst.affixes, imprint(i, r)
      PROVE  IInv' /\ Mildly
  <2> DEFINE rolls == (inst.affixes \ {r}) \cup {[r EXCEPT !.imprinted = TRUE]}
             new == [inst EXCEPT !.affixes = rolls]
  <2>1. Works(i, new, remove_item(bag, "binding", 1))
    BY <1>3 DEF imprint, inst
  <2>2. Fits(rolls, inst.rarity)
    BY <1>1, ImprintFits
  <2>3. ~BaseDef[inst.base].unique
    BY <1>1 DEF Good
  <2>4. [r EXCEPT !.imprinted = TRUE].affix = r.affix
    BY <1>1 DEF Fits, Roll
  <2>5. \A t \in inst.affixes : \E u \in rolls : u.affix = t.affix
    BY <2>4
  <2> HIDE DEF rolls
  <2>6. Good(new)
    BY <1>1, <2>2, <2>3, AffixesGood
  <2>7. new.base = inst.base /\ new.level = inst.level /\ new.affixes = rolls
    BY <1>1 DEF Gear
  <2> HIDE DEF new
  <2>8. Mild(inst, new)
    BY <2>5, <2>7 DEF Mild, Affixes
  <2> QED BY <2>1, <2>6, <2>8, WorksInv DEF inst
<1>4. CASE add_socket(i)
  <2> DEFINE new == [inst EXCEPT !.sockets = Append(@, Hollow)]
  <2>1. /\ Works(i, new, remove_item(bag, "boring", 1))
        /\ Len(inst.sockets) < SocketBudget[inst.rarity]
    BY <1>4 DEF add_socket, inst
  <2>2. Good(new)
    BY <1>1, <2>1, DrillGood
  <2>3. new.base = inst.base /\ new.level = inst.level /\ new.affixes = inst.affixes
    BY <1>1 DEF Gear
  <2> HIDE DEF new
  <2> QED BY <2>1, <2>2, <2>3, MildSame, WorksInv DEF inst
<1>5. ASSUME NEW g \in Gem, socket_gem(i, g)
      PROVE  IInv' /\ Mildly
  <2> DEFINE holes == {k \in DOMAIN inst.sockets : inst.sockets[k] = Hollow}
             at == CHOOSE k \in holes : \A j \in holes : k <= j
  <2>1. /\ Works(i, [inst EXCEPT !.sockets[at] = g], remove_item(bag, g, 1))
        /\ holes # {}
    BY <1>5 DEF socket_gem, inst
  <2> HIDE DEF at, holes
  <2> DEFINE new == [inst EXCEPT !.sockets[at] = g]
  <2>2. Good(new)
    BY <1>1, FillGood
  <2>3. new.base = inst.base /\ new.level = inst.level /\ new.affixes = inst.affixes
    BY <1>1 DEF Gear
  <2>4. Works(i, new, remove_item(bag, g, 1))
    BY <2>1
  <2> HIDE DEF new
  <2> QED BY <2>2, <2>3, <2>4, MildSame, WorksInv DEF inst
<1>6. ASSUME NEW k \in DOMAIN inst.sockets, unsocket(i, k)
      PROVE  IInv' /\ Mildly
  <2> DEFINE new == [inst EXCEPT !.sockets = [@ EXCEPT ![k] = Hollow]]
             b == add_item(remove_item(bag, "solvent", 1), inst.sockets[k], 1)
  <2>1. Works(i, new, b)
    BY <1>6 DEF unsocket, Popped, inst
  <2>2. Good(new)
    BY <1>1, FillGood
  <2>3. new.base = inst.base /\ new.level = inst.level /\ new.affixes = inst.affixes
    BY <1>1 DEF Gear
  <2> HIDE DEF new, b
  <2> QED BY <2>1, <2>2, <2>3, MildSame, WorksInv DEF inst
<1>7. ASSUME NEW e \in Enchant, apply_enchant(i, e)
      PROVE  IInv' /\ Mildly
  <2> DEFINE new == [inst EXCEPT !.enchant = e]
  <2>1. Works(i, new, bag)
    BY <1>7 DEF apply_enchant, inst
  <2>2. Good(new)
    BY <1>1, EnchantGood
  <2>3. new.base = inst.base /\ new.level = inst.level /\ new.affixes = inst.affixes
    BY <1>1 DEF Gear
  <2> HIDE DEF new
  <2> QED BY <2>1, <2>2, <2>3, MildSame, WorksInv DEF inst
<1>8. CASE polish(i)
  <2>1. PICK gain \in 3..8 :
          Works(i, [inst EXCEPT !.quality =
                      IF inst.quality + gain > QualityCap
                      THEN QualityCap ELSE inst.quality + gain],
                remove_item(bag, "polish", 1))
    BY <1>8 DEF polish, inst
  <2> DEFINE q == IF inst.quality + gain > QualityCap
                  THEN QualityCap ELSE inst.quality + gain
             new == [inst EXCEPT !.quality = q]
  <2>2. q \in Nat /\ q <= QualityCap
    BY <1>1 DEF QualityCap
  <2>3. Works(i, new, remove_item(bag, "polish", 1))
    BY <2>1
  <2> HIDE DEF q
  <2>4. Good(new)
    BY <1>1, <2>2, QualityGood
  <2>5. new.base = inst.base /\ new.level = inst.level /\ new.affixes = inst.affixes
    BY <1>1 DEF Gear
  <2> HIDE DEF new
  <2> QED BY <2>3, <2>4, <2>5, MildSame, WorksInv DEF inst
<1>9. ASSUME NEW ilvl \in Depth, reforge(i, ilvl)
      PROVE  IInv' /\ Mildly
  <2>1. /\ ~BaseDef[inst.base].unique /\ stash' = stash
        /\ forging' = [at |-> i, ilvl |-> ilvl, affixes |-> Kept(inst)]
    BY <1>9 DEF reforge, inst
  <2>2. /\ Fits(Kept(inst), inst.rarity)
        /\ \A r \in inst.affixes :
             r.imprinted => \E k \in Kept(inst) : k.affix = r.affix
    BY <1>1, KeptFits
  <2>3. /\ forging'.at = i /\ forging'.affixes = Kept(inst)
        /\ forging' \in [at : DOMAIN stash, ilvl : Depth, affixes : SUBSET Roll]
    BY <2>1, <2>2 DEF Fits
  <2>4. Going'
    BY <2>1, <2>2, <2>3 DEF Going, inst
  <2>5. IInv'
    BY <2>1, <2>4 DEF IInv
  <2>6. Mildly
    BY <2>1, MildSame DEF Mildly
  <2> QED BY <2>5, <2>6
<1> QED
  BY <1>2, <1>3, <1>4, <1>5, <1>6, <1>7, <1>8, <1>9 DEF Improve, inst

LEMMA KillStep ==
  ASSUME IInv, forging = Quiet, NEW i \in DOMAIN stash, credit_kill(i)
  PROVE  IInv' /\ Mildly
<1> DEFINE inst == stash[i]
           new == [inst EXCEPT !.kills = @ + 1]
<1>1. Good(inst) /\ inst \in Gear /\ inst.kills \in Nat
  BY DEF IInv, Good, Gear
<1>2. Good(new)
  <2>1. inst.kills + 1 \in Nat /\ inst.kills + 1 <= MaxKills
    BY <1>1, ForgeAssumption DEF credit_kill
  <2>2. Good([inst EXCEPT !.kills = inst.kills + 1])
    BY <1>1, <2>1, KillsGood
  <2> QED BY <2>2
<1>3. new.base = inst.base /\ new.level = inst.level /\ new.affixes = inst.affixes
  BY <1>1 DEF Gear
<1>4. stash' = [stash EXCEPT ![i] = new] /\ forging' = forging
  BY DEF credit_kill
<1> HIDE DEF new
<1> QED BY <1>2, <1>3, <1>4, MildSame, PieceChanged

LEMMA ReforgingStep ==
  ASSUME IInv, Reforging
  PROVE  IInv' /\ Mildly
<1>1. forging # Quiet
  BY DEF Reforging, Draw, Finish
<1> DEFINE at == forging.at
           inst == stash[at]
<1>2. /\ at \in DOMAIN stash /\ Good(inst) /\ inst.rarity \in Rarities
      /\ ~BaseDef[inst.base].unique
      /\ Fits(forging.affixes, inst.rarity)
      /\ \A r \in inst.affixes :
           r.imprinted => \E k \in forging.affixes : k.affix = r.affix
  BY <1>1 DEF IInv, Going, Good, Gear
<1>3. ASSUME NEW a \in DOMAIN AffixDef, Draw(a)
      PROVE  IInv' /\ Mildly
  <2>1. /\ ~(Cardinality(forging.affixes) >= AffixBudget[inst.rarity])
        /\ a \notin {r.affix : r \in forging.affixes}
        /\ forging' = [forging EXCEPT !.affixes = @ \cup {Rolled(a)}]
        /\ stash' = stash
    BY <1>3 DEF Draw, Full, Budget, Drawn
  <2>2. Fits(forging.affixes \cup {Rolled(a)}, inst.rarity)
    BY <1>2, <2>1, DrawFits
  <2>3. /\ forging' \in [at : DOMAIN stash, ilvl : Depth, affixes : SUBSET Roll]
        /\ forging'.at = at
        /\ forging'.affixes = forging.affixes \cup {Rolled(a)}
    <3>1. forging.affixes \cup {Rolled(a)} \in SUBSET Roll
      BY <2>2 DEF Fits
    <3> QED BY <1>1, <2>1, <3>1 DEF IInv, Going
  <2>4. Going'
    BY <1>2, <2>1, <2>2, <2>3 DEF Going
  <2>5. IInv'
    BY <2>1, <2>4 DEF IInv
  <2>6. Mildly
    BY <2>1, MildSame DEF Mildly
  <2> QED BY <2>5, <2>6
<1>4. CASE Finish
  <2> DEFINE new == [inst EXCEPT !.affixes = forging.affixes]
  <2>1. stash' = [stash EXCEPT ![at] = new] /\ forging' = Quiet
    BY <1>4 DEF Finish
  <2>2. Good(new)
    BY <1>2, AffixesGood
  <2>3. new.base = inst.base /\ new.level = inst.level /\ new.affixes = forging.affixes
    BY <1>2 DEF Good, Gear
  <2> HIDE DEF new
  <2>4. Mild(inst, new)
    BY <1>2, <2>3 DEF Mild, Affixes
  <2>5. /\ stash' \in Seq(Gear) /\ DOMAIN stash' = DOMAIN stash
        /\ stash'[at] = new
        /\ \A j \in DOMAIN stash : j # at => stash'[j] = stash[j]
    BY <1>2, <2>1, <2>2 DEF IInv, Good
  <2>6. \A j \in DOMAIN stash' : Good(stash'[j])
    BY <2>2, <2>5 DEF IInv
  <2>7. Going'
    BY <2>1 DEF Going
  <2>8. IInv'
    BY <2>5, <2>6, <2>7 DEF IInv, Good
  <2>9. Mildly
    BY <2>4, <2>5, MildSame DEF Mildly
  <2> QED BY <2>8, <2>9
<1> QED BY <1>3, <1>4 DEF Reforging

LEMMA NextStep ==
  ASSUME IInv, [Next]_vars
  PROVE  IInv' /\ Mildly
<1>1. CASE UNCHANGED vars
  BY <1>1, GearKept DEF vars
<1>2. CASE Call
  <2>1. forging = Quiet
    BY <1>2 DEF Call
  <2>2. CASE roll_drop
    BY <2>1, <2>2, DropStep
  <2>3. CASE pickup_loot
    BY <2>3, GearKept DEF pickup_loot
  <2>4. CASE Wear
    BY <2>4, GearKept
    DEF Wear, equip, unequip, equip_instance, unequip_instance
  <2>5. CASE Use
    <3>1. CASE \E item \in Item : consume(item)
      BY <3>1, GearKept DEF consume
    <3>2. CASE \E item \in DOMAIN Recipe : craft(item)
      BY <3>2, GearKept DEF craft
    <3>3. CASE \E i \in DOMAIN stash : credit_kill(i)
      BY <2>1, <3>3, KillStep
    <3> QED BY <2>5, <3>1, <3>2, <3>3 DEF Use
  <2>6. CASE \E g \in Gem : fuse_gems(g)
    BY <2>6, GearKept DEF fuse_gems
  <2>7. CASE \E i \in DOMAIN stash : Improve(i)
    BY <2>1, <2>7, ImproveStep
  <2> QED BY <1>2, <2>2, <2>3, <2>4, <2>5, <2>6, <2>7 DEF Call
<1>3. CASE Reforging
  BY <1>3, ReforgingStep
<1> QED BY <1>1, <1>2, <1>3 DEF Next

LEMMA InitIInv ==
  ASSUME Init
  PROVE  IInv
BY DEF Init, IInv, Going

LEMMA Invariance == Spec => []IInv
<1>1. IInv /\ [Next]_vars => IInv'
  BY NextStep
<1> QED BY InitIInv, <1>1, PTL DEF Spec
-----------------------------------------------------------------------------
(* Whatever the tables hold, whatever is found and whatever is done to it,   *)
(* gear never has an affix twice, more affixes or more sockets than its      *)
(* rarity allows, and unique gear has no rolled affix (forge.rs).            *)
THEOREM Budgeted == Spec => []WithinBudget
<1>1. IInv => WithinBudget
  BY DEF IInv, Good, Fits, WithinBudget
<1> QED BY Invariance, <1>1, PTL

(* No call takes gear from a level past the safe ones to a safe level, and   *)
(* none moves a level by more than one (UpgradeProfile and forge::upgrade).  *)
THEOREM Tempered == Spec => LevelsHold
<1>1. IInv /\ [Next]_vars =>
        [\A i \in DOMAIN stash :
           LET before == stash[i].level
               after == stash'[i].level
           IN /\ after \in {before, before + 1, before - 1}
              /\ before >= SafeUntil => after >= SafeUntil]_vars
  BY NextStep DEF Mildly, Mild
<1> QED BY Invariance, <1>1, PTL DEF Spec, LevelsHold

(* An imprinted affix outlives every call, a reforge and all of its draws    *)
(* included (forge::imprint and forge::reforge).                             *)
THEOREM Imprinted == Spec => ImprintsHold
<1>1. IInv /\ [Next]_vars =>
        [\A i \in DOMAIN stash :
           \A r \in stash[i].affixes :
             r.imprinted => r.affix \in Affixes(stash'[i])]_vars
  BY NextStep DEF Mildly, Mild
<1> QED BY Invariance, <1>1, PTL DEF Spec, ImprintsHold

(* Neither safe levels nor imprints are lost by any call.                    *)
THEOREM WorkStays == Spec => WorkLasts
  BY Tempered, Imprinted DEF WorkLasts
-----------------------------------------------------------------------------
(* What is worn, and the bag.                                                *)
\* The order of the natural numbers is well founded, as a set of pairs.
LEMMA NatOrder == IsWellFoundedOn({p \in Nat \X Nat : p[1] < p[2]}, Nat)
  BY NatLessThanWellFounded, Zenon DEF OpToRel

\* A set of numbers that is not empty has a least one.
LEMMA Least ==
  ASSUME NEW S \in SUBSET Nat, S # {}
  PROVE  \E k \in S : \A j \in S : k <= j
<1> DEFINE R == {p \in Nat \X Nat : p[1] < p[2]}
<1>1. PICK k \in S : \A j \in S : ~ (<<j, k>> \in R)
  <2>1. IsWellFoundedOn(R, Nat)
    BY NatOrder
  <2> HIDE DEF R
  <2> QED BY <2>1, WFMin
<1>2. \A j \in S : k <= j
  <2> TAKE j \in S
  <2>1. ~ (<<j, k>> \in R)
    BY <1>1
  <2> QED BY <2>1
<1> QED BY <1>2

\* A list without one of its elements.
LEMMA Dropped ==
  ASSUME NEW S, NEW list \in Seq(S), NEW k \in 1..Len(list)
  PROVE  /\ DropAt(list, k) \in Seq(S) /\ Len(DropAt(list, k)) = Len(list) - 1
         /\ \A j \in 1..(Len(list) - 1) :
              DropAt(list, k)[j] = IF j < k THEN list[j] ELSE list[j + 1]
<1> DEFINE a == SubSeq(list, 1, k - 1)
           b == SubSeq(list, k + 1, Len(list))
<1>1. Len(list) \in Nat /\ k \in Nat /\ k <= Len(list) /\ k >= 1
  OBVIOUS
<1>2. a \in Seq(S) /\ Len(a) = k - 1 /\ \A j \in 1..(k - 1) : a[j] = list[j]
  <2>1. \A j \in 1..(k - 1) : list[j] \in S
    BY <1>1
  <2> QED BY <1>1, <2>1, SubSeqProperties
<1>3. /\ b \in Seq(S) /\ Len(b) = Len(list) - k
      /\ \A j \in 1..(Len(list) - k) : b[j] = list[k + j]
  <2>1. \A j \in (k + 1)..Len(list) : list[j] \in S
    BY <1>1
  <2>2. /\ b \in Seq(S)
        /\ Len(b) = IF k + 1 <= Len(list) THEN Len(list) - (k + 1) + 1 ELSE 0
        /\ \A j \in 1..(Len(list) - (k + 1) + 1) : b[j] = list[(k + 1) + j - 1]
    BY <1>1, <2>1, SubSeqProperties
  <2> HIDE DEF b
  <2> QED BY <1>1, <2>2
<1> HIDE DEF a, b
<1>4. /\ a \o b \in Seq(S) /\ Len(a \o b) = Len(a) + Len(b)
      /\ \A j \in 1..(Len(a) + Len(b)) :
            (a \o b)[j] = IF j <= Len(a) THEN a[j] ELSE b[j - Len(a)]
  BY <1>2, <1>3, ConcatProperties
<1>5. DropAt(list, k) = a \o b
  BY DEF DropAt, a, b
<1>6. Len(a \o b) = Len(list) - 1
  BY <1>1, <1>2, <1>3, <1>4
<1>7. \A j \in 1..(Len(list) - 1) : (a \o b)[j] = IF j < k THEN list[j] ELSE list[j + 1]
  <2> TAKE j \in 1..(Len(list) - 1)
  <2>1. (a \o b)[j] = IF j <= k - 1 THEN a[j] ELSE b[j - (k - 1)]
    BY <1>1, <1>2, <1>3, <1>4
  <2>2. CASE j < k
    <3>1. j \in 1..(k - 1)
      BY <1>1, <2>2
    <3> QED BY <1>1, <1>2, <2>1, <2>2, <3>1
  <2>3. CASE ~(j < k)
    <3>1. j - (k - 1) \in 1..(Len(list) - k) /\ k + (j - (k - 1)) = j + 1
      BY <1>1, <2>3
    <3>2. b[j - (k - 1)] = list[j + 1]
      BY <1>3, <3>1
    <3> QED BY <1>1, <2>1, <2>3, <3>2
  <2> QED BY <2>2, <2>3
<1> QED BY <1>4, <1>5, <1>6, <1>7

\* What may be worn: a piece of the stash, in the slot of its base.
Wearable == {<<BaseDef[stash[i].base].slot, i>> : i \in DOMAIN stash}

\* A list with at most one element to a slot, or two if the slot is the ring's.
Spread(w) ==
  /\ \A j, k \in DOMAIN w : w[j][1] = w[k][1] /\ w[j][1] # "Ring" => j = k
  /\ \A i, j, k \in DOMAIN w :
       w[i][1] = "Ring" /\ w[j][1] = "Ring" /\ w[k][1] = "Ring" => i = j \/ j = k \/ i = k

\* A list with room for one more in a slot.
Room(w, slot) ==
  IF slot = "Ring" THEN \A j, k \in DOMAIN w : w[j][1] = slot /\ w[k][1] = slot => j = k
  ELSE \A k \in DOMAIN w : w[k][1] # slot

Dressed == worn \in Seq(Wearable) /\ Spread(worn)

Stacked ==
  /\ bag \in [Item -> 0..MaxStack]
  /\ equipped \subseteq {<<SlotOf[x], x>> : x \in Item}
  /\ \A e, f \in equipped : e[1] = f[1] => e = f

LEMMA SpreadDropped ==
  ASSUME NEW S, NEW w \in Seq(S), Spread(w), NEW k \in 1..Len(w)
  PROVE  Spread(DropAt(w, k)) /\ Room(DropAt(w, k), w[k][1])
<1> DEFINE v == DropAt(w, k)
           old(j) == IF j < k THEN j ELSE j + 1
<1>1. /\ v \in Seq(S) /\ Len(v) = Len(w) - 1
      /\ \A j \in 1..(Len(w) - 1) : v[j] = IF j < k THEN w[j] ELSE w[j + 1]
  BY Dropped
<1>2. Len(w) \in Nat /\ DOMAIN w = 1..Len(w) /\ k \in Nat /\ 1 <= k /\ k <= Len(w)
  OBVIOUS
<1>3. DOMAIN v = 1..(Len(w) - 1)
  BY <1>1
<1> HIDE DEF v
<1>4. \A j \in DOMAIN v : old(j) \in DOMAIN w /\ old(j) # k /\ v[j] = w[old(j)]
  BY <1>1, <1>2, <1>3
<1>5. \A i, j \in DOMAIN v : old(i) = old(j) => i = j
  BY <1>2, <1>3
<1> HIDE DEF old
<1>6. Spread(v)
  <2>1. ASSUME NEW i \in DOMAIN v, NEW j \in DOMAIN v, v[i][1] = v[j][1], v[i][1] # "Ring"
        PROVE  i = j
    <3>1. old(i) = old(j)
      BY <1>4, <2>1 DEF Spread
    <3> QED BY <1>5, <3>1
  <2>2. ASSUME NEW i \in DOMAIN v, NEW j \in DOMAIN v, NEW l \in DOMAIN v,
               v[i][1] = "Ring", v[j][1] = "Ring", v[l][1] = "Ring"
        PROVE  i = j \/ j = l \/ i = l
    <3>1. old(i) = old(j) \/ old(j) = old(l) \/ old(i) = old(l)
      BY <1>4, <2>2 DEF Spread
    <3> QED BY <1>5, <3>1
  <2> QED BY <2>1, <2>2 DEF Spread
<1>7. Room(v, w[k][1])
  <2>1. CASE w[k][1] = "Ring"
    <3>1. ASSUME NEW i \in DOMAIN v, NEW j \in DOMAIN v,
                 v[i][1] = "Ring", v[j][1] = "Ring"
          PROVE  i = j
      <4>1. old(i) = old(j) \/ old(j) = k \/ old(i) = k
        BY <1>2, <1>4, <2>1, <3>1 DEF Spread
      <4> QED BY <1>4, <1>5, <4>1
    <3> QED BY <2>1, <3>1 DEF Room
  <2>2. CASE w[k][1] # "Ring"
    <3>1. ASSUME NEW i \in DOMAIN v, v[i][1] = w[k][1] PROVE FALSE
      <4>1. old(i) = k
        BY <1>2, <1>4, <2>2, <3>1 DEF Spread
      <4> QED BY <1>4, <4>1
    <3> QED BY <2>2, <3>1 DEF Room
  <2> QED BY <2>1, <2>2
<1> QED BY <1>6, <1>7 DEF v

LEMMA SpreadAppended ==
  ASSUME NEW S, NEW w \in Seq(S), Spread(w), NEW e, Room(w, e[1])
  PROVE  Spread(Append(w, e))
<1> DEFINE v == Append(w, e)
           n == Len(w) + 1
<1>1. /\ Len(w) \in Nat /\ DOMAIN w = 1..Len(w) /\ DOMAIN v = 1..n /\ v[n] = e
      /\ \A j \in 1..Len(w) : v[j] = w[j]
  BY AppendProperties
<1> HIDE DEF v
<1>2. \A j \in DOMAIN v : j = n \/ (j \in DOMAIN w /\ v[j] = w[j])
  <2> TAKE j \in DOMAIN v
  <2>1. j = Len(w) + 1 \/ j \in 1..Len(w)
    BY <1>1
  <2> QED BY <1>1, <2>1
<1>3. v[n] = e
  BY <1>1
<1> HIDE DEF n
<1> QED BY <1>2, <1>3 DEF Spread, Room, v

LEMMA InWorn ==
  ASSUME Dressed, NEW slot
  PROVE  /\ In(slot) \subseteq 1..Len(worn) /\ Len(worn) \in Nat
         /\ IsFiniteSet(In(slot)) /\ Cardinality(In(slot)) \in Nat
         /\ In(slot) # {} => /\ Oldest(slot) \in 1..Len(worn)
                             /\ worn[Oldest(slot)][1] = slot
<1>1. /\ In(slot) \in SUBSET (1..Len(worn)) /\ Len(worn) \in Nat
      /\ \A k \in In(slot) : worn[k][1] = slot
  BY DEF In, Dressed
<1>2. IsFiniteSet(In(slot)) /\ Cardinality(In(slot)) \in Nat
  <2>1. IsFiniteSet(1..Len(worn))
    BY <1>1, FS_Interval
  <2> QED BY <1>1, <2>1, FS_Subset, FS_CardinalityType
<1>3. ASSUME In(slot) # {} PROVE Oldest(slot) \in In(slot)
  <2>1. In(slot) \in SUBSET Nat
    BY <1>1
  <2>2. \E k \in In(slot) : \A j \in In(slot) : k <= j
    BY <1>3, <2>1, Least
  <2> QED BY <2>2 DEF Oldest
<1> QED BY <1>1, <1>2, <1>3

\* Two in a slot are two of it.
LEMMA Pairs ==
  ASSUME NEW S, IsFiniteSet(S), NEW j \in S, NEW k \in S, j # k
  PROVE  Cardinality(S) >= 2
<1>1. IsFiniteSet({k}) /\ Cardinality({k}) = 1
  BY FS_Singleton
<1>2. IsFiniteSet({k} \cup {j}) /\ Cardinality({k} \cup {j}) = 2
  BY <1>1, FS_AddElement
<1>3. Cardinality({k} \cup {j}) <= Cardinality(S) /\ Cardinality(S) \in Nat
  BY FS_Subset, FS_CardinalityType
<1> QED BY <1>2, <1>3

\* Whatever makes room is worn no more, and there is room then.
LEMMA RoomMade ==
  ASSUME Dressed, NEW slot
  PROVE  /\ MakeRoom(slot) \in Seq(Wearable)
         /\ Spread(MakeRoom(slot)) /\ Room(MakeRoom(slot), slot)
<1>1. worn \in Seq(Wearable) /\ Spread(worn) /\ DOMAIN worn = 1..Len(worn)
  BY DEF Dressed
<1>2. ASSUME In(slot) # {}, MakeRoom(slot) = DropAt(worn, Oldest(slot))
      PROVE  /\ MakeRoom(slot) \in Seq(Wearable)
             /\ Spread(MakeRoom(slot)) /\ Room(MakeRoom(slot), slot)
  <2>1. Oldest(slot) \in 1..Len(worn) /\ worn[Oldest(slot)][1] = slot
    BY <1>2, InWorn
  <2>2. DropAt(worn, Oldest(slot)) \in Seq(Wearable)
    BY <1>1, <2>1, Dropped
  <2>3. /\ Spread(DropAt(worn, Oldest(slot)))
        /\ Room(DropAt(worn, Oldest(slot)), worn[Oldest(slot)][1])
    BY <1>1, <2>1, SpreadDropped
  <2> QED BY <1>2, <2>1, <2>2, <2>3
<1>3. CASE slot = "Ring" /\ Cardinality(In(slot)) >= 2
  <2>1. In(slot) # {}
    BY <1>3, FS_EmptySet
  <2> QED BY <1>2, <1>3, <2>1 DEF MakeRoom
<1>4. CASE slot = "Ring" /\ ~(Cardinality(In(slot)) >= 2)
  <2>1. \A j, k \in In(slot) : j = k
    BY <1>4, InWorn, Pairs
  <2>2. Room(worn, slot)
    BY <1>4, <2>1 DEF Room, In
  <2> QED BY <1>1, <1>4, <2>2 DEF MakeRoom
<1>5. CASE slot # "Ring" /\ In(slot) # {}
  BY <1>2, <1>5 DEF MakeRoom
<1>6. CASE slot # "Ring" /\ In(slot) = {}
  <2>1. Room(worn, slot)
    BY <1>6 DEF Room, In
  <2> QED BY <1>1, <1>6, <2>1 DEF MakeRoom
<1> QED BY <1>3, <1>4, <1>5, <1>6

\* What is worn fits, while pieces keep their base.
LEMMA DressedStays ==
  ASSUME Dressed, Mildly, worn' = worn
  PROVE  Dressed'
<1>1. Wearable \subseteq Wearable'
  <2>1. \A i \in DOMAIN stash : i \in DOMAIN stash' /\ stash'[i].base = stash[i].base
    BY DEF Mildly, Mild
  <2> QED BY <2>1 DEF Wearable
<1>2. worn \in [1..Len(worn) -> Wearable] /\ Len(worn) \in Nat
  BY DEF Dressed
<1>3. worn \in [1..Len(worn) -> Wearable']
  BY <1>1, <1>2
<1> HIDE DEF Wearable
<1>4. worn \in Seq(Wearable')
  BY <1>2, <1>3, SeqDef
<1> QED BY <1>4 DEF Dressed

LEMMA DressedNext ==
  ASSUME Dressed, Mildly, [Next]_vars
  PROVE  Dressed'
<1>1. ASSUME NEW i \in DOMAIN stash, equip_instance(i) PROVE Dressed'
  <2> DEFINE slot == BaseDef[stash[i].base].slot
  <2>1. worn' = Append(MakeRoom(slot), <<slot, i>>) /\ stash' = stash
    BY <1>1 DEF equip_instance
  <2>2. <<slot, i>> \in Wearable
    BY DEF Wearable
  <2> HIDE DEF slot
  <2>3. /\ MakeRoom(slot) \in Seq(Wearable)
        /\ Spread(MakeRoom(slot)) /\ Room(MakeRoom(slot), slot)
    BY RoomMade
  <2>4. worn' \in Seq(Wearable)
    BY <2>1, <2>2, <2>3
  <2>5. Spread(worn')
    BY <2>1, <2>3, SpreadAppended
  <2> QED BY <2>1, <2>4, <2>5 DEF Dressed, Wearable
<1>2. ASSUME NEW slot, unequip_instance(slot) PROVE Dressed'
  <2>1. /\ In(slot) # {} /\ worn' = DropAt(worn, Oldest(slot)) /\ stash' = stash
    BY <1>2 DEF unequip_instance
  <2>2. Oldest(slot) \in 1..Len(worn) /\ worn \in Seq(Wearable) /\ Spread(worn)
    BY <2>1, InWorn DEF Dressed
  <2>3. DropAt(worn, Oldest(slot)) \in Seq(Wearable)
    BY <2>2, Dropped
  <2>4. Spread(DropAt(worn, Oldest(slot)))
    BY <2>2, SpreadDropped
  <2> QED BY <2>1, <2>3, <2>4 DEF Dressed, Wearable
<1>3. CASE worn' = worn
  BY <1>3, DressedStays
<1>4. CASE \E i \in DOMAIN stash : Improve(i)
  BY <1>4, <1>3 DEF Improve, upgrade, imprint, add_socket, socket_gem, unsocket,
    apply_enchant, polish, reforge, Works
<1> QED
  BY <1>1, <1>2, <1>3, <1>4
  DEF Next, vars, Call, roll_drop, pickup_loot, Wear, equip, unequip, Use, consume, craft,
      credit_kill, fuse_gems, Reforging, Draw, Finish

\* The bag.
Bags == [Item -> 0..MaxStack]

LEMMA BagMoves ==
  ASSUME NEW b \in Bags, NEW item, NEW qty \in Nat
  PROVE  add_item(b, item, qty) \in Bags /\ remove_item(b, item, qty) \in Bags
<1>1. /\ MaxStack \in Nat /\ DOMAIN b = Item
      /\ \A x \in Item : b[x] \in 0..MaxStack
  BY ForgeAssumption DEF Bags
<1> DEFINE more == IF b[item] + qty > MaxStack THEN MaxStack ELSE b[item] + qty
           fewer == IF b[item] < qty THEN 0 ELSE b[item] - qty
<1>2. item \in Item => more \in 0..MaxStack /\ fewer \in 0..MaxStack
  BY <1>1
<1> HIDE DEF more, fewer
<1>3. [b EXCEPT ![item] = more] \in Bags /\ [b EXCEPT ![item] = fewer] \in Bags
  BY <1>1, <1>2 DEF Bags
<1>4. /\ add_item(b, item, qty) = [b EXCEPT ![item] = more]
      /\ remove_item(b, item, qty) = [b EXCEPT ![item] = fewer]
  BY DEF add_item, remove_item, more, fewer
<1> QED BY <1>3, <1>4

LEMMA StrippedBag ==
  ASSUME bag \in Bags, NEW slot
  PROVE  Stripped(slot, bag) \in Bags
BY BagMoves DEF Stripped

LEMMA SpentBag ==
  ASSUME bag \in Bags, NEW item \in DOMAIN Recipe, can_craft(item)
  PROVE  Spent(item) \in Bags
<1>1. ASSUME NEW x \in Item
      PROVE  (IF x \in DOMAIN Recipe[item] THEN bag[x] - Recipe[item][x] ELSE bag[x])
               \in 0..MaxStack
  <2>1. bag[x] \in 0..MaxStack /\ MaxStack \in Nat
    BY ForgeAssumption DEF Bags
  <2>2. CASE x \in DOMAIN Recipe[item]
    <3>1. Recipe[item][x] \in Nat /\ bag[x] >= Recipe[item][x]
      BY <2>2, StackAssumption DEF can_craft, Pays
    <3> QED BY <2>1, <2>2, <3>1
  <2> QED BY <2>1, <2>2
<1> QED BY <1>1 DEF Spent, Bags

LEMMA ImprovesBag ==
  ASSUME IInv, bag \in Bags, NEW i \in DOMAIN stash, Improve(i)
  PROVE  bag' \in Bags /\ equipped' = equipped
<1>1. ASSUME NEW item, NEW qty \in Nat, NEW inst,
             Works(i, inst, remove_item(bag, item, qty))
      PROVE  bag' \in Bags /\ equipped' = equipped
  BY <1>1, BagMoves DEF Works
<1>2. CASE upgrade(i)
  <2>1. stash[i].level \in Nat
    BY DEF IInv, Good, Gear
  <2>2. EssenceCost(stash[i].level) \in Nat
    BY <2>1 DEF EssenceCost
  <2>3. PICK l : Works(i, [stash[i] EXCEPT !.level = l],
                       remove_item(bag, "arcane", EssenceCost(stash[i].level)))
    BY <1>2 DEF upgrade
  <2> QED BY <1>1, <2>2, <2>3
<1>3. CASE \E r \in stash[i].affixes : imprint(i, r)
  BY <1>1, <1>3 DEF imprint
<1>4. CASE add_socket(i)
  BY <1>1, <1>4 DEF add_socket
<1>5. CASE \E g \in Gem : socket_gem(i, g)
  BY <1>1, <1>5 DEF socket_gem
<1>6. ASSUME NEW k \in DOMAIN stash[i].sockets, unsocket(i, k)
      PROVE  bag' \in Bags /\ equipped' = equipped
  <2>1. /\ bag' = add_item(remove_item(bag, "solvent", 1), stash[i].sockets[k], 1)
        /\ equipped' = equipped
    BY <1>6 DEF unsocket, Works
  <2>2. remove_item(bag, "solvent", 1) \in Bags
    BY BagMoves
  <2> QED BY <2>1, <2>2, BagMoves
<1>7. CASE \E e \in Enchant : apply_enchant(i, e)
  BY <1>7 DEF apply_enchant, Works
<1>8. CASE polish(i)
  BY <1>1, <1>8 DEF polish
<1>9. CASE \E ilvl \in Depth : reforge(i, ilvl)
  BY <1>9, BagMoves DEF reforge
<1> QED BY <1>2, <1>3, <1>4, <1>5, <1>6, <1>7, <1>8, <1>9 DEF Improve

LEMMA StackedNext ==
  ASSUME IInv, Stacked, [Next]_vars
  PROVE  Stacked'
<1>1. bag \in Bags
  BY DEF Stacked, Bags
<1>2. ASSUME bag' \in Bags, equipped' \subseteq equipped PROVE Stacked'
  BY <1>2 DEF Stacked, Bags
<1>3. ASSUME NEW item \in Item, equip(item) PROVE Stacked'
  <2> DEFINE slot == SlotOf[item]
  <2>1. /\ bag' = remove_item(Stripped(slot, bag), item, 1)
        /\ equipped' = {e \in equipped : e[1] # slot} \cup {<<slot, item>>}
    BY <1>3 DEF equip
  <2>2. bag' \in Bags
    BY <1>1, <2>1, StrippedBag, BagMoves
  <2>3. equipped' \subseteq {<<SlotOf[x], x>> : x \in Item}
    BY <2>1 DEF Stacked
  <2> HIDE DEF slot
  <2>4. \A e, f \in equipped' : e[1] = f[1] => e = f
    BY <2>1 DEF Stacked
  <2> QED BY <2>2, <2>3, <2>4 DEF Stacked, Bags
<1>4. ASSUME NEW slot, unequip(slot) PROVE Stacked'
  BY <1>1, <1>2, <1>4, StrippedBag DEF unequip
<1>5. CASE pickup_loot
  BY <1>1, <1>2, <1>5, BagMoves DEF pickup_loot
<1>6. ASSUME NEW item, consume(item) PROVE Stacked'
  BY <1>1, <1>2, <1>6, BagMoves DEF consume
<1>7. ASSUME NEW item \in DOMAIN Recipe, craft(item) PROVE Stacked'
  BY <1>1, <1>2, <1>7, SpentBag, BagMoves DEF craft
<1>8. ASSUME NEW g \in Gem, fuse_gems(g) PROVE Stacked'
  <2>1. GemDef[g].count \in Nat
    BY StackAssumption
  <2>2. PICK lower : bag' = add_item(remove_item(bag, lower, GemDef[g].count), g, 1)
    BY <1>8 DEF fuse_gems
  <2>3. remove_item(bag, lower, GemDef[g].count) \in Bags
    BY <1>1, <2>1, BagMoves
  <2>4. bag' \in Bags
    BY <2>2, <2>3, BagMoves
  <2> QED BY <1>2, <1>8, <2>4 DEF fuse_gems
<1>9. ASSUME NEW i \in DOMAIN stash, Improve(i) PROVE Stacked'
  BY <1>1, <1>2, <1>9, ImprovesBag
<1>10. CASE UNCHANGED <<bag, equipped>>
  BY <1>1, <1>2, <1>10
<1>11. CASE Wear
  BY <1>3, <1>4, <1>10, <1>11 DEF Wear, equip_instance, unequip_instance
<1>12. CASE Use
  BY <1>6, <1>7, <1>10, <1>12 DEF Use, credit_kill
<1>13. CASE Reforging
  BY <1>10, <1>13 DEF Reforging, Draw, Finish
<1> QED
  BY <1>5, <1>8, <1>9, <1>10, <1>11, <1>12, <1>13 DEF Next, Call, vars, roll_drop

\* What is worn fits its slots, and no slot holds more than it may.
LEMMA Fitted ==
  ASSUME Dressed, Stacked
  PROVE  WornFits
<1>1. /\ worn \in Seq(Wearable) /\ Spread(worn)
      /\ \A k \in DOMAIN worn : worn[k] \in Wearable
  BY DEF Dressed
<1>2. \A k \in DOMAIN worn : worn[k][1] = BaseDef[stash[worn[k][2]].base].slot
  BY <1>1 DEF Wearable
<1>3. ASSUME NEW k \in DOMAIN worn, worn[k][1] # "Ring"
      PROVE  Cardinality(In(worn[k][1])) <= 1
  <2>1. In(worn[k][1]) = {k}
    BY <1>1, <1>3 DEF In, Spread
  <2> QED BY <2>1, FS_Singleton
<1>4. ASSUME NEW k \in DOMAIN worn, worn[k][1] = "Ring"
      PROVE  Cardinality(In("Ring")) <= 2
  <2>1. k \in In("Ring") /\ IsFiniteSet(In("Ring")) /\ Cardinality(In("Ring")) \in Nat
    BY <1>4, InWorn DEF In
  <2> DEFINE rest == In("Ring") \ {k}
  <2>2. /\ IsFiniteSet(rest) /\ Cardinality(rest) = Cardinality(In("Ring")) - 1
    BY <2>1, FS_RemoveElement
  <2>3. \A i, j \in rest : i = j
    BY <1>1, <1>4 DEF In, Spread
  <2>4. rest = {} \/ \E j : rest = {j}
    BY <2>3
  <2> HIDE DEF rest
  <2>5. Cardinality(rest) = 0 \/ Cardinality(rest) = 1
    BY <2>4, FS_EmptySet, FS_Singleton
  <2> QED BY <2>1, <2>2, <2>5
<1> QED BY <1>2, <1>3, <1>4 DEF WornFits, Stacked

\* The pieces of a set are of different slots, and none is a ring.
SetsApart ==
  \A b, c \in Base :
    BaseDef[b].set = BaseDef[c].set /\ BaseDef[b].set # Plain =>
      BaseDef[b].slot # "Ring" /\ (BaseDef[b].slot = BaseDef[c].slot => b = c)

LEMMA PiecesCounted ==
  ASSUME SetsApart, IInv, Dressed
  PROVE  SetsCountPieces
<1> SUFFICES ASSUME NEW set \in {BaseDef[b].set : b \in Base} \ {Plain}
             PROVE  set_count(set)
                      = Cardinality({stash[worn[k][2]].base :
                          k \in {j \in DOMAIN worn :
                                   BaseDef[stash[worn[j][2]].base].set = set}})
  BY DEF SetsCountPieces
<1> DEFINE base(k) == stash[worn[k][2]].base
           S == {k \in DOMAIN worn : BaseDef[base(k)].set = set}
           T == {base(k) : k \in S}
           f == [k \in S |-> base(k)]
<1>1. \A k \in DOMAIN worn : base(k) \in Base /\ worn[k][1] = BaseDef[base(k)].slot
  <2>1. \A k \in DOMAIN worn : worn[k] \in Wearable
    BY DEF Dressed
  <2>2. \A i \in DOMAIN stash : stash[i].base \in Base
    BY DEF IInv, Good, Gear
  <2> QED BY <2>1, <2>2 DEF Wearable
<1>2. IsFiniteSet(S)
  <2>1. DOMAIN worn = 1..Len(worn) /\ Len(worn) \in Nat
    BY DEF Dressed
  <2>2. IsFiniteSet(1..Len(worn)) /\ S \in SUBSET (1..Len(worn))
    BY <2>1, FS_Interval
  <2> QED BY <2>2, FS_Subset
<1> HIDE DEF base
<1>3. \A j, k \in S : base(j) = base(k) => j = k
  <2> SUFFICES ASSUME NEW j \in S, NEW k \in S, base(j) = base(k) PROVE j = k
    OBVIOUS
  <2>1. worn[j][1] = worn[k][1] /\ worn[j][1] # "Ring"
    BY <1>1 DEF SetsApart
  <2> QED BY <2>1 DEF Dressed, Spread
<1>4. f \in Surjection(S, T) /\ f \in Injection(S, T)
  BY <1>3 DEF Surjection, Injection, IsInjective
<1>5. Cardinality(T) = Cardinality(S)
  BY <1>2, <1>4, FS_Surjection
<1> QED BY <1>5 DEF set_count, base

LEMMA Undressed == Init => Dressed /\ Stacked
<1> SUFFICES ASSUME Init PROVE Dressed /\ Stacked
  OBVIOUS
<1>1. worn = <<>> /\ equipped = {} /\ bag \in [Item -> 0..MaxStack]
  BY StackAssumption DEF Init
<1> QED BY <1>1 DEF Dressed, Stacked, Spread

(* Bags, stash and what is worn are well formed, and whatever is worn fits:  *)
(* two rings at most, one piece in any other slot, in the slot of its base,  *)
(* after any calls (equip, equip_instance, unequip_instance).  Set bonuses   *)
(* count pieces as long as no set has a ring or two pieces of a slot, which  *)
(* holds of the shipped sets: equip_instance lets a ring be worn twice.      *)
THEOREM WornStays ==
  ASSUME SetsApart
  PROVE  Spec => []WornSound
<1> DEFINE Worn == IInv /\ Dressed /\ Stacked
<1>1. Init => Worn
  BY InitIInv, Undressed
<1>2. Worn /\ [Next]_vars => Worn'
  BY NextStep, DressedNext, StackedNext
<1>3. Worn => WornSound
  <2> SUFFICES ASSUME Worn PROVE WornSound
    OBVIOUS
  <2>1. WornFits /\ SetsCountPieces
    BY Fitted, PiecesCounted
  <2>2. stash \in Seq(Instance)
    <3>1. \A i \in DOMAIN stash : stash[i] \in Instance
      BY DEF IInv, Good, Gear, Instance, Roll, Rarities, AffixBudget
    <3> QED BY <3>1 DEF IInv
  <2>3. \A k \in DOMAIN worn : worn[k][2] \in DOMAIN stash
    <3>1. \A k \in DOMAIN worn : worn[k] \in Wearable
      BY DEF Dressed
    <3> QED BY <3>1 DEF Wearable
  <2>4. forging # Quiet => forging.at \in DOMAIN stash
    BY DEF IInv, Going
  <2>5. TypeOK
    BY <2>2, <2>3, <2>4 DEF TypeOK, Stacked
  <2> QED BY <2>1, <2>5 DEF WornSound
<1> QED BY <1>1, <1>2, <1>3, PTL DEF Spec
-----------------------------------------------------------------------------
(* Sums over finite sets, as MapThenSumSet folds them.                      *)

Pick(s) == CHOOSE x \in s : TRUE

\* The folds of MapThenSumSet, over the subsets of S of at most n elements.
Small(S, n) == {s \in SUBSET S : Cardinality(s) <= n}
Adds(f, F, s) == IF s = {} THEN 0 ELSE F[Pick(s)] + f[s \ {Pick(s)}]
Folds(f, F, S) == f = [s \in SUBSET S |-> Adds(f, F, s)]
SumOf(F, S) == (CHOOSE f : Folds(f, F, S))[S]

\* What picking leaves.
LEMMA Picked ==
  ASSUME NEW S, IsFiniteSet(S), S # {}
  PROVE  /\ Pick(S) \in S /\ IsFiniteSet(S \ {Pick(S)})
         /\ Cardinality(S) \in Nat /\ Cardinality(S) # 0
         /\ Cardinality(S \ {Pick(S)}) = Cardinality(S) - 1
<1>1. Pick(S) \in S
  BY DEF Pick
<1> QED BY <1>1, FS_RemoveElement, FS_CardinalityType, FS_EmptySet

\* A finite set has its fold.
LEMMA FoldExists ==
  ASSUME NEW F, NEW S, IsFiniteSet(S)
  PROVE  \E f : Folds(f, F, S)
<1> DEFINE Upto(n, f) == f = [s \in Small(S, n) |-> Adds(f, F, s)]
           Bad == {n \in Nat : ~ \E f : Upto(n, f)}
<1>1. \A s \in SUBSET S : /\ IsFiniteSet(s) /\ Cardinality(s) \in Nat
                          /\ Cardinality(s) <= Cardinality(S)
  BY FS_Subset, FS_CardinalityType
<1>2. Bad = {}
  <2> SUFFICES ASSUME Bad # {} PROVE FALSE
    OBVIOUS
  <2>1. PICK n \in Bad : \A j \in Bad : n <= j
    <3>1. Bad \in SUBSET Nat
      OBVIOUS
    <3> HIDE DEF Bad
    <3> QED BY <3>1, Least
  <2>2. n \in Nat /\ ~ \E f : Upto(n, f)
    OBVIOUS
  <2>3. n # 0
    <3> DEFINE f == [s \in Small(S, 0) |-> 0]
    <3>1. \A s \in Small(S, 0) : s = {}
      BY <1>1, FS_EmptySet DEF Small
    <3>2. \A s \in Small(S, 0) : Adds(f, F, s) = 0
      BY <3>1 DEF Adds
    <3>3. Upto(0, f)
      BY <3>2
    <3> QED BY <2>2, <3>3
  <2>4. PICK f : Upto(n - 1, f)
    <3>1. n - 1 \in Nat /\ ~(n <= n - 1)
      BY <2>2, <2>3
    <3>2. n - 1 \notin Bad
      <4> HIDE DEF Bad
      <4> QED BY <2>1, <3>1
    <3> QED BY <3>1, <3>2
  <2> DEFINE g == [s \in Small(S, n) |-> Adds(f, F, s)]
  <2>5. \A s \in Small(S, n - 1) : f[s] = Adds(f, F, s) /\ s \in Small(S, n)
    BY <1>1, <2>2, <2>4 DEF Small
  <2>6. \A s \in Small(S, n) : s # {} => s \ {Pick(s)} \in Small(S, n - 1)
    BY <1>1, <2>2, Picked DEF Small
  <2>7. \A s \in Small(S, n) : Adds(g, F, s) = Adds(f, F, s)
    <3> TAKE s \in Small(S, n)
    <3>1. CASE s = {}
      BY <3>1 DEF Adds
    <3>2. CASE s # {}
      <4>1. g[s \ {Pick(s)}] = f[s \ {Pick(s)}]
        BY <2>5, <2>6, <3>2
      <4> QED BY <3>2, <4>1 DEF Adds
    <3> QED BY <3>1, <3>2
  <2>8. Upto(n, g)
    BY <2>7
  <2> QED BY <2>2, <2>8
<1>3. PICK f : Upto(Cardinality(S), f)
  BY <1>1, <1>2
<1>4. Small(S, Cardinality(S)) = SUBSET S
  BY <1>1 DEF Small
<1>5. Folds(f, F, S)
  BY <1>3, <1>4 DEF Folds
<1> QED BY <1>5

\* Folds agree wherever both are.
LEMMA FoldsAgree ==
  ASSUME NEW F, NEW S, IsFiniteSet(S), NEW T \in SUBSET S,
         NEW f, Folds(f, F, S), NEW g, Folds(g, F, T)
  PROVE  f[T] = g[T]
<1> DEFINE Off == {s \in SUBSET T : f[s] # g[s]}
           Sizes == {Cardinality(s) : s \in Off}
<1>1. \A s \in SUBSET T : IsFiniteSet(s) /\ Cardinality(s) \in Nat /\ s \in SUBSET S
  BY FS_Subset, FS_CardinalityType
<1>2. \A s \in SUBSET T : f[s] = Adds(f, F, s) /\ g[s] = Adds(g, F, s)
  BY DEF Folds
<1>3. Off = {}
  <2> SUFFICES ASSUME Off # {} PROVE FALSE
    OBVIOUS
  <2>1. PICK n \in Sizes : \A j \in Sizes : n <= j
    <3>1. Sizes \in SUBSET Nat /\ Sizes # {}
      BY <1>1
    <3> HIDE DEF Sizes
    <3> QED BY <3>1, Least
  <2>2. PICK s \in Off : Cardinality(s) = n
    OBVIOUS
  <2>3. s # {}
    BY <1>2, <2>2 DEF Adds
  <2>4. s \ {Pick(s)} \notin Off
    <3>1. Cardinality(s \ {Pick(s)}) = n - 1 /\ n \in Nat
      BY <1>1, <2>2, <2>3, Picked
    <3>2. n - 1 \notin Sizes
      BY <2>1, <3>1
    <3> QED BY <3>1, <3>2
  <2>5. f[s \ {Pick(s)}] = g[s \ {Pick(s)}]
    BY <2>4
  <2> QED BY <1>2, <2>2, <2>3, <2>5 DEF Adds
<1> QED BY <1>3

\* A sum is the value of any fold that covers its set.
LEMMA SumIs ==
  ASSUME NEW F, NEW S, IsFiniteSet(S), NEW f, Folds(f, F, S), NEW T \in SUBSET S
  PROVE  SumOf(F, T) = f[T]
<1>1. IsFiniteSet(T)
  BY FS_Subset
<1> DEFINE g == CHOOSE h : Folds(h, F, T)
<1>2. Folds(g, F, T)
  BY <1>1, FoldExists
<1>3. SumOf(F, T) = g[T]
  BY DEF SumOf
<1> HIDE DEF g
<1> QED BY <1>2, <1>3, FoldsAgree

\* A sum, unfolded once.
LEMMA SumStep ==
  ASSUME NEW F, NEW S, IsFiniteSet(S)
  PROVE  SumOf(F, S) = IF S = {} THEN 0 ELSE F[Pick(S)] + SumOf(F, S \ {Pick(S)})
<1>1. PICK f : Folds(f, F, S)
  BY FoldExists
<1>2. SumOf(F, S) = f[S] /\ SumOf(F, S \ {Pick(S)}) = f[S \ {Pick(S)}]
  BY <1>1, SumIs
<1>3. f[S] = Adds(f, F, S)
  BY <1>1 DEF Folds
<1> QED BY <1>2, <1>3 DEF Adds

\* Any element may be taken out first.
LEMMA SumWithout ==
  ASSUME NEW F, NEW S, IsFiniteSet(S), \A x \in S : F[x] \in Nat
  PROVE  /\ SumOf(F, S) \in Nat
         /\ \A x \in S : SumOf(F, S) = F[x] + SumOf(F, S \ {x})
<1> DEFINE Sums(s) == /\ SumOf(F, s) \in Nat
                      /\ \A x \in s : SumOf(F, s) = F[x] + SumOf(F, s \ {x})
           Off == {s \in SUBSET S : ~ Sums(s)}
           Sizes == {Cardinality(s) : s \in Off}
<1>1. \A s \in SUBSET S : IsFiniteSet(s) /\ Cardinality(s) \in Nat
  BY FS_Subset, FS_CardinalityType
<1>2. Off = {}
  <2> SUFFICES ASSUME Off # {} PROVE FALSE
    OBVIOUS
  <2>1. PICK n \in Sizes : \A j \in Sizes : n <= j
    <3>1. Sizes \in SUBSET Nat /\ Sizes # {}
      BY <1>1
    <3> HIDE DEF Sizes
    <3> QED BY <3>1, Least
  <2>2. PICK s \in Off : Cardinality(s) = n
    OBVIOUS
  <2>3. IsFiniteSet(s) /\ n \in Nat /\ s \in SUBSET S /\ ~ Sums(s)
    BY <1>1, <2>2
  <2>4. s # {}
    <3> SUFFICES ASSUME s = {} PROVE FALSE
      OBVIOUS
    <3>1. SumOf(F, s) = 0
      BY <2>3, SumStep
    <3> QED BY <2>3, <3>1
  <2>5. ASSUME NEW x \in s PROVE Sums(s \ {x})
    <3>1. Cardinality(s \ {x}) = n - 1
      BY <2>2, <2>3, FS_RemoveElement
    <3>2. n - 1 \notin Sizes
      <4> HIDE DEF Sizes
      <4> QED BY <2>1, <2>3
    <3>3. s \ {x} \notin Off
      BY <3>1, <3>2
    <3> QED BY <2>3, <3>3
  <2> HIDE DEF Off, Sizes
  <2> DEFINE p == Pick(s)
  <2>6. p \in s /\ SumOf(F, s) = F[p] + SumOf(F, s \ {p})
    BY <2>3, <2>4, SumStep, Picked
  <2> HIDE DEF p
  <2>7. SumOf(F, s) \in Nat
    BY <2>3, <2>5, <2>6
  <2>8. ASSUME NEW x \in s PROVE SumOf(F, s) = F[x] + SumOf(F, s \ {x})
    <3>1. CASE x = p
      BY <2>6, <3>1
    <3>2. CASE x # p
      <4>1. (s \ {p}) \ {x} = (s \ {x}) \ {p}
        OBVIOUS
      <4> DEFINE rest == SumOf(F, (s \ {x}) \ {p})
      <4>2. SumOf(F, s \ {p}) = F[x] + rest /\ SumOf(F, s \ {p}) \in Nat
        BY <2>5, <2>6, <3>2, <4>1
      <4>3. SumOf(F, s \ {x}) = F[p] + rest /\ SumOf(F, s \ {x}) \in Nat
        BY <2>5, <2>6, <3>2
      <4>4. rest \in Nat
        <5>1. s \ {x} \in SUBSET S /\ IsFiniteSet(s \ {x}) /\ p \in s \ {x}
          BY <2>3, <2>6, <3>2, FS_RemoveElement
        <5>2. Cardinality((s \ {x}) \ {p}) = n - 2 /\ n - 2 \in Nat
          <6>1. /\ Cardinality(s \ {x}) = n - 1
                /\ Cardinality((s \ {x}) \ {p}) = Cardinality(s \ {x}) - 1
            BY <2>2, <2>3, <5>1, FS_RemoveElement
          <6>2. (s \ {x}) \ {p} \in SUBSET S
            BY <2>3
          <6>3. Cardinality((s \ {x}) \ {p}) \in Nat
            BY <1>1, <6>2
          <6> QED BY <2>3, <6>1, <6>3
        <5>3. n - 2 \notin Sizes
          BY <2>1, <2>3, <5>2
        <5>4. (s \ {x}) \ {p} \notin Off
          BY <5>2, <5>3 DEF Sizes
        <5> QED BY <2>3, <5>4 DEF Off
      <4> HIDE DEF rest
      <4>5. F[x] \in Nat /\ F[p] \in Nat
        BY <2>3, <2>6
      <4> QED BY <2>6, <4>2, <4>3, <4>4, <4>5
    <3> QED BY <3>1, <3>2
  <2> QED BY <2>3, <2>7, <2>8
<1>3. Sums(S)
  BY <1>2
<1> QED BY <1>3

Natural(F, S) == \A x \in S : F[x] \in Nat

\* An element taken out, the rest being given.
LEMMA SumTake ==
  ASSUME NEW F, NEW S, IsFiniteSet(S), Natural(F, S), NEW x \in S, NEW T, T = S \ {x}
  PROVE  SumOf(F, S) = F[x] + SumOf(F, T)
  BY SumWithout DEF Natural

\* Only the values on the set count.
LEMMA SumSame ==
  ASSUME NEW F, NEW G, NEW S, \A x \in S : F[x] = G[x]
  PROVE  SumOf(F, S) = SumOf(G, S)
<1>1. \A f : \A s \in SUBSET S : Adds(f, F, s) = Adds(f, G, s)
  <2> SUFFICES ASSUME NEW f, NEW s \in SUBSET S PROVE Adds(f, F, s) = Adds(f, G, s)
    OBVIOUS
  <2>1. s # {} => Pick(s) \in S
    BY DEF Pick
  <2> QED BY <2>1 DEF Adds
<1>2. \A f : Folds(f, F, S) <=> Folds(f, G, S)
  BY <1>1 DEF Folds
<1> QED BY <1>2 DEF SumOf

\* One more at the end.
LEMMA SumGrows ==
  ASSUME NEW F, NEW G, NEW N \in Nat, \A i \in 1..N : F[i] \in Nat /\ G[i] = F[i],
         G[N + 1] \in Nat
  PROVE  SumOf(G, 1..(N + 1)) = SumOf(F, 1..N) + G[N + 1] /\ SumOf(F, 1..N) \in Nat
<1>1. /\ IsFiniteSet(1..(N + 1)) /\ IsFiniteSet(1..N) /\ N + 1 \in 1..(N + 1)
      /\ 1..N = (1..(N + 1)) \ {N + 1}
  <2>1. 1..N = (1..(N + 1)) \ {N + 1} /\ N + 1 \in 1..(N + 1)
    OBVIOUS
  <2>2. N + 1 \in Int /\ N \in Int /\ 1 \in Int
    OBVIOUS
  <2>3. IsFiniteSet(1..(N + 1)) /\ IsFiniteSet(1..N)
    BY <2>2, FS_Interval, Zenon
  <2> QED BY <2>1, <2>3
<1>2. Natural(G, 1..(N + 1))
  <2> SUFFICES \A i \in 1..(N + 1) : G[i] \in Nat
    BY DEF Natural
  <2> TAKE i \in 1..(N + 1)
  <2>1. i = N + 1 \/ i \in 1..N
    OBVIOUS
  <2> QED BY <2>1
<1> DEFINE S == 1..(N + 1)  m == N + 1  R == 1..N
<1>3. IsFiniteSet(S) /\ Natural(G, S) /\ m \in S /\ R = S \ {m}
  BY <1>1, <1>2
<1> HIDE DEF S, m, R
<1>4. SumOf(G, S) = G[m] + SumOf(G, R)
  BY <1>3, SumTake
<1>5. SumOf(G, 1..N) = SumOf(F, 1..N)
  BY SumSame
<1>6. SumOf(F, 1..N) \in Nat
  BY <1>1, SumWithout
<1> QED BY <1>4, <1>5, <1>6 DEF S, m, R

\* Two lists of numbers that differ in one place.
LEMMA SumMoved ==
  ASSUME NEW F, NEW G, NEW S, IsFiniteSet(S), Natural(F, S), Natural(G, S),
         NEW x \in S, \A y \in S : y # x => F[y] = G[y]
  PROVE  /\ SumOf(F, S) \in Nat /\ SumOf(G, S) \in Nat
         /\ SumOf(F, S) + G[x] = SumOf(G, S) + F[x]
<1> DEFINE R == S \ {x}
<1>1. R = S \ {x}
  OBVIOUS
<1> HIDE DEF R
<1>2. SumOf(F, S) = F[x] + SumOf(F, R) /\ SumOf(G, S) = G[x] + SumOf(G, R)
  BY <1>1, SumTake
<1>3. SumOf(F, R) = SumOf(G, R)
  <2>1. \A y \in R : F[y] = G[y]
    BY <1>1
  <2> QED BY <2>1, SumSame
<1>4. SumOf(F, R) \in Nat
  <2>1. IsFiniteSet(R) /\ \A y \in R : F[y] \in Nat
    BY <1>1, FS_Subset DEF Natural
  <2> QED BY <2>1, SumWithout
<1>5. F[x] \in Nat /\ G[x] \in Nat
  BY DEF Natural
<1> QED BY <1>2, <1>3, <1>4, <1>5
-----------------------------------------------------------------------------
(* What gems are worth.                                                      *)

\* A gem is fused from one lower gem or from none.
Lower(g) == CHOOSE l \in GemDef[g].from : TRUE
Tiers(N, tier) ==
  /\ N \in Nat /\ tier \in [Gem -> 0..N]
  /\ \A g \in Gem :
       GemDef[g].from # {} =>
         \E l \in Gem : GemDef[g].from = {l} /\ tier[l] < tier[g]

\* Gems are nothing but gems: they are not worn, drunk, crafted or spent by the
\* forge, and the table of what they are fused from goes down, as gems() of gear.rs
\* has it.
Essences == {"arcane", "binding", "boring", "solvent", "polish", "chaos"}
GemsApart ==
  /\ IsFiniteSet(Gem) /\ Gem \subseteq Item /\ Hollow \notin Gem
  /\ \E N, tier : Tiers(N, tier)
  /\ Gem \cap (Base \cup Drinks \cup Essences \cup DOMAIN Recipe) = {}
  /\ \A x \in DOMAIN Recipe : Gem \cap DOMAIN Recipe[x] = {}
  /\ \A g \in Gem : SlotOf[g] = "None"

Weighs(f, g) ==
  IF GemDef[g].from = {} THEN 1 ELSE GemDef[g].count * f[Lower(g)]

\* The table goes down, so every gem has a worth.
LEMMA WorthExists ==
  ASSUME GemsApart
  PROVE  \E f : f = [g \in Gem |-> Weighs(f, g)]
<1>1. PICK N, tier : Tiers(N, tier)
  BY DEF GemsApart
<1> DEFINE Upto(n, f) == f = [g \in {h \in Gem : tier[h] <= n} |-> Weighs(f, g)]
           Bad == {n \in Nat : ~ \E f : Upto(n, f)}
<1>2. /\ N \in Nat
      /\ \A g \in Gem : tier[g] \in 0..N
      /\ \A g \in Gem : GemDef[g].from # {} => Lower(g) \in Gem /\ tier[Lower(g)] < tier[g]
  BY <1>1 DEF Tiers, Lower
<1>3. Bad = {}
  <2> SUFFICES ASSUME Bad # {} PROVE FALSE
    OBVIOUS
  <2>1. PICK n \in Bad : \A j \in Bad : n <= j
    <3>1. Bad \in SUBSET Nat
      OBVIOUS
    <3> HIDE DEF Bad
    <3> QED BY <3>1, Least
  <2>2. n \in Nat /\ ~ \E f : Upto(n, f)
    OBVIOUS
  <2> DEFINE S == {h \in Gem : tier[h] <= n}
  <2>3. PICK f : \A h \in S : GemDef[h].from # {} => f[Lower(h)] = Weighs(f, Lower(h))
    <3>1. CASE n = 0
      <4>1. \A h \in S : GemDef[h].from = {}
        BY <1>2, <3>1
      <4> QED BY <4>1
    <3>2. CASE n # 0
      <4>1. n - 1 \in Nat /\ ~(n <= n - 1)
        BY <2>2, <3>2
      <4>2. n - 1 \notin Bad
        <5> HIDE DEF Bad
        <5> QED BY <2>1, <4>1
      <4>3. PICK f : Upto(n - 1, f)
        BY <4>1, <4>2
      <4>4. \A h \in S : GemDef[h].from # {} => Lower(h) \in {k \in Gem : tier[k] <= n - 1}
        BY <1>2, <2>2
      <4>5. \A h \in S : GemDef[h].from # {} => f[Lower(h)] = Weighs(f, Lower(h))
        BY <4>3, <4>4
      <4> QED BY <4>5
    <3> QED BY <3>1, <3>2
  <2> DEFINE g == [h \in S |-> Weighs(f, h)]
  <2>4. \A h \in S : Weighs(g, h) = Weighs(f, h)
    <3> TAKE h \in S
    <3>1. CASE GemDef[h].from = {}
      BY <3>1 DEF Weighs
    <3>2. CASE GemDef[h].from # {}
      <4>1. Lower(h) \in S
        BY <1>2, <2>2, <3>2
      <4>2. g[Lower(h)] = f[Lower(h)]
        BY <2>3, <3>2, <4>1
      <4> HIDE DEF g
      <4> QED BY <3>2, <4>2 DEF Weighs
    <3> QED BY <3>1, <3>2
  <2>5. Upto(n, g)
    BY <2>4
  <2> QED BY <2>2, <2>5
<1>4. PICK f : Upto(N, f)
  BY <1>2, <1>3
<1>5. {h \in Gem : tier[h] <= N} = Gem
  BY <1>2
<1> QED BY <1>4, <1>5

LEMMA WorthIs ==
  ASSUME GemsApart
  PROVE  \A g \in Gem : worth[g] = Weighs(worth, g)
<1>1. worth = CHOOSE f : f = [g \in Gem |-> Weighs(f, g)]
  BY DEF worth, Weighs, Lower
<1>2. worth = [g \in Gem |-> Weighs(worth, g)]
  BY <1>1, WorthExists
<1> QED BY <1>2

LEMMA WorthType ==
  ASSUME GemsApart
  PROVE  \A g \in Gem : worth[g] \in Nat
<1>1. PICK N, tier : Tiers(N, tier)
  BY DEF GemsApart
<1> DEFINE Bad == {tier[g] : g \in {h \in Gem : worth[h] \notin Nat}}
<1>2. Bad = {}
  <2> SUFFICES ASSUME Bad # {} PROVE FALSE
    OBVIOUS
  <2>1. PICK n \in Bad : \A j \in Bad : n <= j
    <3>1. Bad \in SUBSET Nat
      BY <1>1 DEF Tiers
    <3> HIDE DEF Bad
    <3> QED BY <3>1, Least
  <2>2. PICK g \in Gem : worth[g] \notin Nat /\ tier[g] = n
    OBVIOUS
  <2>3. worth[g] = IF GemDef[g].from = {} THEN 1 ELSE GemDef[g].count * worth[Lower(g)]
    BY WorthIs DEF Weighs
  <2>4. GemDef[g].from # {}
    BY <2>2, <2>3
  <2>5. Lower(g) \in Gem /\ tier[Lower(g)] < tier[g] /\ tier[g] \in Nat /\ tier[Lower(g)] \in Nat
    BY <1>1, <2>4 DEF Tiers, Lower
  <2>6. worth[Lower(g)] \in Nat
    <3>1. tier[Lower(g)] \notin Bad
      <4> HIDE DEF Bad
      <4> QED BY <2>1, <2>2, <2>5
    <3> QED BY <2>5, <3>1
  <2>7. GemDef[g].count \in Nat
    BY StackAssumption
  <2> QED BY <2>2, <2>3, <2>4, <2>6, <2>7
<1> QED BY <1>2
-----------------------------------------------------------------------------
(* How many of a gem there are.                                              *)

Places(s, g) == {k \in DOMAIN s : s[k] = g}

LEMMA HeldType ==
  ASSUME NEW S, NEW s \in Seq(S), NEW g
  PROVE  /\ IsFiniteSet(Places(s, g))
         /\ Holding(s, g) = Cardinality(Places(s, g)) /\ Holding(s, g) \in Nat
<1>1. Places(s, g) \subseteq 1..Len(s) /\ IsFiniteSet(1..Len(s))
  BY FS_Interval DEF Places
<1>2. IsFiniteSet(Places(s, g))
  BY <1>1, FS_Subset
<1>3. Holding(s, g) = Cardinality(Places(s, g))
  BY DEF Holding, Places
<1> QED BY <1>2, <1>3, FS_CardinalityType

LEMMA HeldAlike ==
  ASSUME NEW s, NEW t, NEW g, Places(s, g) = Places(t, g)
  PROVE  Holding(s, g) = Holding(t, g)
  BY DEF Holding, Places

LEMMA HeldPut ==
  ASSUME NEW S, NEW s \in Seq(S), NEW k \in DOMAIN s, NEW g, s[k] # g
  PROVE  Holding([s EXCEPT ![k] = g], g) = Holding(s, g) + 1
<1> DEFINE P == Places(s, g)
<1>1. Places([s EXCEPT ![k] = g], g) = P \cup {k} /\ k \notin P
  BY DEF Places
<1>2. IsFiniteSet(P) /\ Holding(s, g) = Cardinality(P)
  BY HeldType
<1>3. Holding([s EXCEPT ![k] = g], g) = Cardinality(P \cup {k})
  BY <1>1 DEF Holding, Places
<1> HIDE DEF P
<1> QED BY <1>1, <1>2, <1>3, FS_AddElement

LEMMA HeldTaken ==
  ASSUME NEW S, NEW s \in Seq(S), NEW k \in DOMAIN s, NEW y, NEW g, s[k] = g, y # g
  PROVE  Holding([s EXCEPT ![k] = y], g) = Holding(s, g) - 1 /\ Holding(s, g) >= 1
<1> DEFINE P == Places(s, g)
<1>1. Places([s EXCEPT ![k] = y], g) = P \ {k} /\ k \in P
  BY DEF Places
<1>2. IsFiniteSet(P) /\ Holding(s, g) = Cardinality(P) /\ Holding(s, g) \in Nat
  BY HeldType
<1>3. Holding([s EXCEPT ![k] = y], g) = Cardinality(P \ {k})
  BY <1>1 DEF Holding, Places
<1> HIDE DEF P
<1>4. Cardinality(P) # 0
  BY <1>1, <1>2, FS_EmptySet
<1>5. Cardinality(P \ {k}) = Cardinality(P) - 1
  BY <1>1, <1>2, FS_RemoveElement
<1> QED BY <1>2, <1>3, <1>4, <1>5

LEMMA HeldOther ==
  ASSUME NEW S, NEW s \in Seq(S), NEW k \in DOMAIN s, NEW y, NEW g, s[k] # g, y # g
  PROVE  Holding([s EXCEPT ![k] = y], g) = Holding(s, g)
<1>1. Places([s EXCEPT ![k] = y], g) = Places(s, g)
  BY DEF Places
<1> QED BY <1>1, HeldAlike

LEMMA HeldAppended ==
  ASSUME NEW S, NEW s \in Seq(S), NEW y, NEW g, y # g
  PROVE  Holding(Append(s, y), g) = Holding(s, g)
<1>1. Places(Append(s, y), g) = Places(s, g)
  BY DEF Places
<1> QED BY <1>1, HeldAlike

Found == [id : Base \cup Item, ilvl : Nat]
Ids(fs) == [k \in DOMAIN fs |-> fs[k].id]

LEMMA HeldFound ==
  ASSUME NEW fs \in Seq(Found), fs # <<>>, NEW g
  PROVE  /\ Holding(Ids(fs), g) \in Nat /\ Holding(Ids(Tail(fs)), g) \in Nat
         /\ Holding(Ids(fs), g)
              = Holding(Ids(Tail(fs)), g) + (IF Head(fs).id = g THEN 1 ELSE 0)
<1>1. /\ Tail(fs) \in Seq(Found) /\ Len(Tail(fs)) = Len(fs) - 1 /\ Len(fs) \in Nat \ {0}
      /\ \A k \in 1..(Len(fs) - 1) : Tail(fs)[k] = fs[k + 1]
      /\ Head(fs) = fs[1]
  BY HeadTailProperties
<1>2. Ids(fs) \in Seq(Base \cup Item) /\ Ids(Tail(fs)) \in Seq(Base \cup Item)
  <2>1. ASSUME NEW l \in Seq(Found) PROVE Ids(l) \in Seq(Base \cup Item)
    <3>1. DOMAIN l = 1..Len(l) /\ Len(l) \in Nat /\ \A k \in 1..Len(l) : l[k] \in Found
      OBVIOUS
    <3>2. Ids(l) \in [1..Len(l) -> Base \cup Item]
      BY <3>1 DEF Ids, Found
    <3> QED BY <3>1, <3>2
  <2> QED BY <1>1, <2>1
<1> DEFINE A == Places(Ids(fs), g)  B == Places(Ids(Tail(fs)), g)  one == 1  R == A \ {one}
           up == [k \in B |-> k + 1]
<1>3. A = {k \in 1..Len(fs) : fs[k].id = g}
  BY DEF Places, Ids
<1>4. B = {k \in 1..(Len(fs) - 1) : fs[k + 1].id = g}
  BY <1>1 DEF Places, Ids
<1>5. up \in Surjection(B, R) /\ up \in Injection(B, R)
  <2>1. \A k \in B : k + 1 \in R
    BY <1>1, <1>3, <1>4
  <2>2. \A r \in R : r - 1 \in B /\ (r - 1) + 1 = r
    <3> TAKE r \in R
    <3>1. r \in 1..Len(fs) /\ r # 1 /\ fs[r].id = g
      BY <1>3
    <3>2. r - 1 \in 1..(Len(fs) - 1) /\ (r - 1) + 1 = r
      BY <1>1, <3>1
    <3> QED BY <1>4, <3>1, <3>2
  <2>3. \A j, k \in B : j + 1 = k + 1 => j = k
    BY <1>1, <1>4
  <2> HIDE DEF A, B, R
  <2> QED BY <2>1, <2>2, <2>3 DEF Surjection, Injection, IsInjective
<1>6. IsFiniteSet(A) /\ IsFiniteSet(B) /\ Holding(Ids(fs), g) = Cardinality(A)
      /\ Holding(Ids(Tail(fs)), g) = Cardinality(B)
      /\ Cardinality(A) \in Nat /\ Cardinality(B) \in Nat
  BY <1>2, HeldType
<1>7. one \in A <=> Head(fs).id = g
  BY <1>1, <1>3
<1> HIDE DEF A, B, R, up, one
<1>8. Cardinality(R) = Cardinality(B)
  BY <1>5, <1>6, FS_Surjection
<1>9. Cardinality(A) = Cardinality(R) + (IF one \in A THEN 1 ELSE 0)
  <2>1. CASE one \in A
    <3>1. Cardinality(R) = Cardinality(A) - 1
      BY <1>6, <2>1, FS_RemoveElement DEF R
    <3> QED BY <1>6, <2>1, <3>1
  <2>2. CASE one \notin A
    <3>1. R = A
      BY <2>2 DEF R
    <3> QED BY <1>6, <2>2, <3>1
  <2> QED BY <2>1, <2>2
<1> QED BY <1>6, <1>7, <1>8, <1>9

Socketed(st, g) == [i \in DOMAIN st |-> Holding(st[i].sockets, g)]
InGear(st, g) == SumOf(Socketed(st, g), DOMAIN st)
Count(b, fs, st, g) == b[g] + Holding(Ids(fs), g) + InGear(st, g)

\* The sum over the stash that GemCount names.
LEMMA SocketSum ==
  ASSUME NEW st, NEW g, NEW S, S = DOMAIN st
  PROVE  MapThenSumSet(LAMBDA i : Holding(st[i].sockets, g), S) = SumOf(Socketed(st, g), S)
<1> DEFINE rhs(f, s) == IF s = {} THEN 0
                        ELSE Holding(st[Pick(s)].sockets, g) + f[s \ {Pick(s)}]
<1>1. \A f : \A s \in SUBSET S : rhs(f, s) = Adds(f, Socketed(st, g), s)
  <2> SUFFICES ASSUME NEW f, NEW s \in SUBSET S, s # {}
               PROVE  Holding(st[Pick(s)].sockets, g) = Socketed(st, g)[Pick(s)]
    BY DEF Adds
  <2>1. Pick(s) \in S
    BY DEF Pick
  <2> QED BY <2>1 DEF Socketed
<1>2. MapThenSumSet(LAMBDA i : Holding(st[i].sockets, g), S)
        = (CHOOSE f : f = [s \in SUBSET S |-> rhs(f, s)])[S]
  BY DEF MapThenSumSet, MapThenFoldSet, Pick
<1> HIDE DEF rhs
<1>3. \A f : f = [s \in SUBSET S |-> rhs(f, s)] <=> Folds(f, Socketed(st, g), S)
  BY <1>1 DEF Folds
<1> QED BY <1>2, <1>3 DEF SumOf

LEMMA CountIs == \A g : GemCount(g) = Count(bag, finds, stash, g)
  BY SocketSum DEF GemCount, Count, InGear, Ids

LEMMA CountIsThen == (\A g : GemCount(g) = Count(bag, finds, stash, g))'
  BY CountIs, PTL
-----------------------------------------------------------------------------
(* What a change of the counts does to what they are worth.                  *)

Counts(b, fs, st) == [g \in Gem |-> Count(b, fs, st, g)]
Weights(C) == [g \in Gem |-> worth[g] * C[g]]
Value(C) == SumOf(Weights(C), Gem)

\* The sum over the gems that GemWorth names.
LEMMA ValueIs == GemWorth = Value(Counts(bag, finds, stash))
<1> DEFINE C == Counts(bag, finds, stash)
           rhs(f, s) == IF s = {} THEN 0
                        ELSE worth[Pick(s)] * GemCount(Pick(s)) + f[s \ {Pick(s)}]
<1>1. \A f : \A s \in SUBSET Gem : rhs(f, s) = Adds(f, Weights(C), s)
  <2> SUFFICES ASSUME NEW f, NEW s \in SUBSET Gem, s # {}
               PROVE  worth[Pick(s)] * GemCount(Pick(s)) = Weights(C)[Pick(s)]
    BY DEF Adds
  <2>1. Pick(s) \in Gem
    BY DEF Pick
  <2>2. GemCount(Pick(s)) = C[Pick(s)]
    BY <2>1, CountIs DEF Counts
  <2> QED BY <2>1, <2>2 DEF Weights
<1>2. GemWorth = (CHOOSE f : f = [s \in SUBSET Gem |-> rhs(f, s)])[Gem]
  BY DEF GemWorth, MapThenSumSet, MapThenFoldSet, Pick
<1> HIDE DEF rhs, C
<1>3. \A f : f = [s \in SUBSET Gem |-> rhs(f, s)] <=> Folds(f, Weights(C), Gem)
  BY <1>1 DEF Folds
<1>4. GemWorth = Value(C)
  BY <1>2, <1>3 DEF SumOf, Value
<1> QED BY <1>4 DEF C

LEMMA ValueIsThen == (GemWorth = Value(Counts(bag, finds, stash)))'
  BY ValueIs, PTL

LEMMA Products ==
  ASSUME NEW a \in Nat, NEW b \in Nat, NEW c \in Nat
  PROVE  /\ a * b \in Nat
         /\ b <= c => a * b <= a * c
         /\ a * (b + c) = a * b + a * c
         /\ a * (b + 1) = a * b + a
         /\ a * (b * c) = (b * a) * c
  OBVIOUS

\* Counts that differ in one gem.
LEMMA ValueMoved ==
  ASSUME GemsApart, NEW C \in [Gem -> Nat], NEW D \in [Gem -> Nat],
         NEW x \in Gem, \A g \in Gem : g # x => C[g] = D[g]
  PROVE  /\ Value(C) \in Nat /\ Value(D) \in Nat
         /\ worth[x] * C[x] \in Nat /\ worth[x] * D[x] \in Nat
         /\ Value(C) + worth[x] * D[x] = Value(D) + worth[x] * C[x]
<1>1. \A g \in Gem : worth[g] \in Nat
  BY WorthType
<1>2. /\ \A g \in Gem : worth[g] * C[g] \in Nat
      /\ \A g \in Gem : worth[g] * D[g] \in Nat
  BY <1>1, Products
<1>3. Natural(Weights(C), Gem) /\ Natural(Weights(D), Gem)
  BY <1>2 DEF Natural, Weights
<1>4. \A g \in Gem : g # x => Weights(C)[g] = Weights(D)[g]
  BY DEF Weights
<1>5. /\ SumOf(Weights(C), Gem) \in Nat /\ SumOf(Weights(D), Gem) \in Nat
      /\ SumOf(Weights(C), Gem) + Weights(D)[x] = SumOf(Weights(D), Gem) + Weights(C)[x]
  BY <1>3, <1>4, SumMoved DEF GemsApart
<1> QED BY <1>2, <1>5 DEF Value, Weights

LEMMA ValueType ==
  ASSUME GemsApart, NEW C \in [Gem -> Nat]
  PROVE  Value(C) \in Nat
<1>1. \A g \in Gem : worth[g] * C[g] \in Nat
  BY WorthType, Products
<1>2. \A g \in Gem : Weights(C)[g] \in Nat
  BY <1>1 DEF Weights
<1> QED BY <1>2, SumWithout DEF Value, GemsApart

\* Fewer of one gem are worth no more.
LEMMA ValueFewer ==
  ASSUME GemsApart, NEW C \in [Gem -> Nat], NEW D \in [Gem -> Nat],
         NEW x \in Gem, \A g \in Gem : g # x => C[g] = D[g], D[x] <= C[x]
  PROVE  Value(D) <= Value(C) /\ Value(D) \in Nat /\ Value(C) \in Nat
<1>1. worth[x] * D[x] <= worth[x] * C[x]
  <2>1. worth[x] \in Nat /\ C[x] \in Nat /\ D[x] \in Nat
    BY WorthType
  <2> QED BY <2>1, Products
<1>2. /\ Value(C) \in Nat /\ Value(D) \in Nat
      /\ worth[x] * C[x] \in Nat /\ worth[x] * D[x] \in Nat
      /\ Value(C) + worth[x] * D[x] = Value(D) + worth[x] * C[x]
  BY ValueMoved
<1> QED BY <1>1, <1>2

\* The counts after a fusion: the lower gems go, one of the higher comes if its
\* stack has room.
Fused(C, D, g, n) ==
  /\ GemDef[g].from # {} /\ C[Lower(g)] >= GemDef[g].count
  /\ n \in {0, 1}
  /\ D = [[C EXCEPT ![Lower(g)] = C[Lower(g)] - GemDef[g].count] EXCEPT ![g] = C[g] + n]

LEMMA ValueFused ==
  ASSUME GemsApart, NEW C \in [Gem -> Nat], NEW D \in [Gem -> Nat],
         NEW g \in Gem, NEW n, Fused(C, D, g, n)
  PROVE  Value(D) <= Value(C) /\ (n = 1 => Value(D) = Value(C))
<1> DEFINE l == Lower(g)
           k == GemDef[g].count
           E == [C EXCEPT ![l] = C[l] - k]
<1>1. PICK N, tier : Tiers(N, tier)
  BY DEF GemsApart
<1>2. l \in Gem /\ l # g
  <2>1. l \in Gem /\ tier[l] < tier[g]
    BY <1>1 DEF Tiers, Fused, Lower
  <2>2. tier[g] \in Nat
    BY <1>1 DEF Tiers
  <2> QED BY <2>1, <2>2
<1>3. k \in Nat
  BY StackAssumption
<1>4. worth[g] = k * worth[l] /\ worth[l] \in Nat /\ worth[g] \in Nat
  BY <1>2, WorthIs, WorthType DEF Weighs, Fused
<1> HIDE DEF l, k
<1>5. C[l] - k \in Nat /\ C[l] \in Nat /\ C[g] \in Nat
  BY <1>2, <1>3 DEF Fused, l, k
<1>6. E \in [Gem -> Nat] /\ \A h \in Gem : E[h] = IF h = l THEN C[l] - k ELSE C[h]
  BY <1>2, <1>5
<1>7. D = [E EXCEPT ![g] = C[g] + n] /\ n \in {0, 1}
  BY DEF Fused, l, k
<1> HIDE DEF E
<1>8. E[g] = C[g] /\ D[g] = C[g] + n /\ \A h \in Gem : h # g => D[h] = E[h]
  BY <1>2, <1>6, <1>7
<1> DEFINE lc == worth[l] * C[l]
           le == worth[l] * E[l]
           ge == worth[g] * E[g]
           gd == worth[g] * D[g]
<1>9. Value(C) \in Nat /\ Value(E) \in Nat /\ Value(C) + le = Value(E) + lc
  BY <1>2, <1>6, ValueMoved
<1>10. Value(D) \in Nat /\ Value(E) + gd = Value(D) + ge
  BY <1>6, <1>8, ValueMoved
<1>11. lc = le + worth[g]
  <2>1. worth[l] * (E[l] + k) = worth[l] * E[l] + worth[l] * k
    <3>1. E[l] \in Nat
      BY <1>2, <1>6
    <3> QED BY <1>3, <1>4, <3>1, Products
  <2>2. E[l] + k = C[l]
    BY <1>2, <1>3, <1>5, <1>6
  <2>3. worth[l] * k = k * worth[l]
    BY <1>3, <1>4
  <2> QED BY <1>4, <2>1, <2>2, <2>3
<1>12. gd = ge + (IF n = 1 THEN worth[g] ELSE 0)
  <2>1. CASE n = 1
    <3>1. D[g] = E[g] + 1 /\ E[g] \in Nat
      BY <1>5, <1>8, <2>1
    <3>2. worth[g] * (E[g] + 1) = worth[g] * E[g] + worth[g]
      BY <1>4, <3>1, Products
    <3> QED BY <2>1, <3>1, <3>2
  <2>2. CASE n = 0
    <3>1. D[g] = E[g] /\ E[g] \in Nat
      BY <1>5, <1>8, <2>2
    <3>2. ge \in Nat
      BY <1>4, <3>1, Products
    <3> QED BY <2>2, <3>1, <3>2
  <2> QED BY <1>7, <2>1, <2>2
<1>13. le \in Nat /\ ge \in Nat
  <2>1. E[l] \in Nat /\ E[g] \in Nat
    BY <1>2, <1>6
  <2> QED BY <1>4, <2>1, Products
<1> HIDE DEF lc, le, ge, gd
<1> QED BY <1>4, <1>7, <1>9, <1>10, <1>11, <1>12, <1>13
-----------------------------------------------------------------------------
(* What each call does to the counts.                                        *)

Hoard ==
  /\ IInv /\ Stacked /\ finds \in Seq(Found)
  /\ \A e \in equipped : e[1] # "None"

LEMMA InGearType ==
  ASSUME NEW st \in Seq(Gear), NEW g
  PROVE  /\ Natural(Socketed(st, g), DOMAIN st) /\ IsFiniteSet(DOMAIN st)
         /\ InGear(st, g) \in Nat
<1>1. DOMAIN st = 1..Len(st) /\ IsFiniteSet(1..Len(st))
  BY FS_Interval
<1>2. Natural(Socketed(st, g), DOMAIN st)
  <2>1. \A i \in DOMAIN st : st[i].sockets \in Seq(Gem \cup {Hollow})
    <3>1. \A i \in DOMAIN st : st[i] \in Gear
      OBVIOUS
    <3>2. \A inst \in Gear : inst.sockets \in Seq(Gem \cup {Hollow})
      BY DEF Gear
    <3> QED BY <3>1, <3>2
  <2>2. \A i \in DOMAIN st : Holding(st[i].sockets, g) \in Nat
    BY <2>1, HeldType
  <2> QED BY <2>2 DEF Natural, Socketed
<1>3. InGear(st, g) \in Nat
  BY <1>1, <1>2, SumWithout DEF InGear, Natural
<1> QED BY <1>1, <1>2, <1>3

LEMMA CountType ==
  ASSUME GemsApart, NEW b \in Bags, NEW fs \in Seq(Found), NEW st \in Seq(Gear),
         NEW g \in Gem
  PROVE  /\ b[g] \in Nat /\ b[g] <= MaxStack /\ InGear(st, g) \in Nat
         /\ Holding(Ids(fs), g) \in Nat /\ Count(b, fs, st, g) \in Nat
<1>1. b[g] \in Nat /\ b[g] <= MaxStack
  BY ForgeAssumption DEF Bags, GemsApart
<1>2. Holding(Ids(fs), g) \in Nat
  <2>1. DOMAIN fs = 1..Len(fs) /\ Len(fs) \in Nat /\ \A k \in 1..Len(fs) : fs[k] \in Found
    OBVIOUS
  <2>2. \A k \in 1..Len(fs) : fs[k].id \in Base \cup Item
    BY <2>1 DEF Found
  <2>3. Ids(fs) \in [1..Len(fs) -> Base \cup Item]
    BY <2>1, <2>2 DEF Ids
  <2>4. Ids(fs) \in Seq(Base \cup Item)
    BY <2>1, <2>3
  <2> QED BY <2>4, HeldType
<1> QED BY <1>1, <1>2, InGearType DEF Count

\* A piece of gear changes.
LEMMA InGearChanged ==
  ASSUME NEW st \in Seq(Gear), NEW i \in DOMAIN st, NEW inst \in Gear, NEW g
  PROVE  /\ InGear([st EXCEPT ![i] = inst], g) \in Nat /\ InGear(st, g) \in Nat
         /\ InGear([st EXCEPT ![i] = inst], g) + Holding(st[i].sockets, g)
              = InGear(st, g) + Holding(inst.sockets, g)
<1> DEFINE su == [st EXCEPT ![i] = inst]
           F == Socketed(st, g)  G == Socketed(su, g)  S == DOMAIN st
<1>1. su \in Seq(Gear) /\ DOMAIN su = S
  OBVIOUS
<1>2. /\ F[i] = Holding(st[i].sockets, g) /\ G[i] = Holding(inst.sockets, g)
      /\ \A j \in S : j # i => G[j] = F[j]
  BY DEF Socketed
<1>3. InGear(st, g) = SumOf(F, S) /\ InGear(su, g) = SumOf(G, S)
  BY <1>1 DEF InGear
<1> HIDE DEF su
<1>4. Natural(F, S) /\ Natural(G, S) /\ IsFiniteSet(S) /\ i \in S
  BY <1>1, InGearType
<1> HIDE DEF F, G, S
<1>5. /\ SumOf(F, S) \in Nat /\ SumOf(G, S) \in Nat
      /\ SumOf(F, S) + G[i] = SumOf(G, S) + F[i]
  BY <1>2, <1>4, SumMoved
<1>6. F[i] \in Nat /\ G[i] \in Nat
  BY <1>4 DEF Natural
<1> QED BY <1>2, <1>3, <1>5, <1>6 DEF su

\* A piece comes in with nothing in its sockets.
LEMMA InGearMore ==
  ASSUME NEW st \in Seq(Gear), NEW inst \in Gear, NEW g, Holding(inst.sockets, g) = 0
  PROVE  InGear(Append(st, inst), g) = InGear(st, g)
<1> DEFINE su == Append(st, inst)  N == Len(st)
           F == Socketed(st, g)  G == Socketed(su, g)
<1>1. /\ N \in Nat /\ DOMAIN st = 1..N /\ DOMAIN su = 1..(N + 1)
      /\ su[N + 1] = inst /\ \A i \in 1..N : su[i] = st[i]
  OBVIOUS
<1> HIDE DEF su, N
<1>2. G[N + 1] = 0 /\ \A i \in 1..N : G[i] = F[i]
  BY <1>1 DEF Socketed
<1>3. \A i \in 1..N : F[i] \in Nat
  BY <1>1, InGearType DEF Natural
<1> HIDE DEF F, G
<1>4. SumOf(G, 1..(N + 1)) = SumOf(F, 1..N) + G[N + 1] /\ SumOf(F, 1..N) \in Nat
  <2>1. N \in Nat /\ \A i \in 1..N : F[i] \in Nat /\ G[i] = F[i]
    BY <1>1, <1>2, <1>3
  <2>2. G[N + 1] \in Nat
    BY <1>2
  <2> QED BY <2>1, <2>2, SumGrows
<1> QED BY <1>1, <1>2, <1>4 DEF InGear, F, G, su

LEMMA BagOther ==
  ASSUME NEW b \in Bags, NEW x \in Item, NEW y, y # x, NEW q
  PROVE  add_item(b, y, q)[x] = b[x] /\ remove_item(b, y, q)[x] = b[x]
  BY DEF add_item, remove_item, Bags

LEMMA BagSame ==
  ASSUME NEW b \in Bags, NEW x \in Item
  PROVE  /\ add_item(b, x, 1)[x] = IF b[x] = MaxStack THEN MaxStack ELSE b[x] + 1
         /\ \A q \in Nat : b[x] >= q => remove_item(b, x, q)[x] = b[x] - q
<1>1. b[x] \in 0..MaxStack /\ MaxStack \in Nat /\ x \in DOMAIN b
  BY ForgeAssumption DEF Bags
<1> QED BY <1>1 DEF add_item, remove_item

\* What there is now and then.
Now == Counts(bag, finds, stash)
Then == Counts(bag', finds', stash')

Same == \A g \in Gem : Then[g] = Now[g]
Spilt(x) ==
  /\ \A g \in Gem : g # x => Then[g] = Now[g]
  /\ Then[x] = Now[x] \/ (Then[x] <= Now[x] /\ bag[x] = MaxStack)
Merged(g, n) == Fused(Now, Then, g, n) /\ (n = 1 \/ bag[g] = MaxStack)
Harmless ==
  \/ Same
  \/ \E x \in Gem : Spilt(x)
  \/ \E g \in Gem : \E n : Merged(g, n)

Keeps ==
  /\ GemWorth' <= GemWorth
  /\ GemWorth' < GemWorth => \E g \in Gem : bag[g] = MaxStack

LEMMA CountsType ==
  ASSUME GemsApart, NEW b \in Bags, NEW fs \in Seq(Found), NEW st \in Seq(Gear)
  PROVE  Counts(b, fs, st) \in [Gem -> Nat]
  BY CountType DEF Counts

LEMMA HarmlessKeeps ==
  ASSUME GemsApart, Hoard, Hoard', Harmless
  PROVE  Keeps
<1>1. Now \in [Gem -> Nat] /\ Then \in [Gem -> Nat]
  <2>1. bag \in Bags /\ finds \in Seq(Found) /\ stash \in Seq(Gear)
    BY DEF Hoard, IInv, Stacked, Bags
  <2>2. bag' \in Bags /\ finds' \in Seq(Found) /\ stash' \in Seq(Gear)
    BY DEF Hoard, IInv, Stacked, Bags
  <2> QED BY <2>1, <2>2, CountsType DEF Now, Then
<1>2. GemWorth = Value(Now) /\ GemWorth' = Value(Then)
  <2>1. GemWorth' = Value(Counts(bag', finds', stash'))
    BY ValueIsThen DEF Value, Weights, Counts, Count, InGear, Socketed
  <2> QED BY <2>1, ValueIs DEF Now, Then
<1>3. ASSUME Then = Now PROVE Keeps
  <2>1. GemWorth' = GemWorth
    BY <1>2, <1>3
  <2>2. Value(Now) \in Nat
    BY <1>1, ValueType
  <2> QED BY <1>2, <2>1, <2>2 DEF Keeps
<1>4. CASE Same
  BY <1>1, <1>3, <1>4 DEF Same
<1>5. ASSUME NEW x \in Gem, Spilt(x) PROVE Keeps
  <2>1. CASE Then[x] = Now[x]
    BY <1>1, <1>3, <1>5, <2>1 DEF Spilt
  <2>2. CASE Then[x] # Now[x]
    <3>1. /\ Value(Then) <= Value(Now) /\ bag[x] = MaxStack
      BY <1>1, <1>5, <2>2, ValueFewer DEF Spilt
    <3> QED BY <1>2, <3>1 DEF Keeps
  <2> QED BY <2>1, <2>2
<1>6. ASSUME NEW g \in Gem, NEW n, Merged(g, n) PROVE Keeps
  <2>1. Value(Then) <= Value(Now) /\ (n = 1 => Value(Then) = Value(Now))
    BY <1>1, <1>6, ValueFused DEF Merged
  <2>2. Value(Now) \in Nat
    BY <1>1, ValueType
  <2> QED BY <1>2, <1>6, <2>1, <2>2 DEF Keeps, Merged
<1> QED BY <1>4, <1>5, <1>6 DEF Harmless

LEMMA CountsAre ==
  ASSUME GemsApart, Hoard
  PROVE  \A g \in Gem :
           /\ Now[g] = bag[g] + Holding(Ids(finds), g) + InGear(stash, g)
           /\ bag[g] \in Nat /\ bag[g] <= MaxStack
           /\ Holding(Ids(finds), g) \in Nat /\ InGear(stash, g) \in Nat
           /\ Now[g] \in Nat
<1>1. bag \in Bags /\ finds \in Seq(Found) /\ stash \in Seq(Gear)
  BY DEF Hoard, IInv, Stacked, Bags
<1> QED BY <1>1, CountType DEF Now, Counts, Count

LEMMA CountsAreThen ==
  ASSUME GemsApart, Hoard'
  PROVE  \A g \in Gem :
           /\ Then[g] = bag'[g] + Holding(Ids(finds'), g) + InGear(stash', g)
           /\ bag'[g] \in Nat /\ bag'[g] <= MaxStack
           /\ Holding(Ids(finds'), g) \in Nat /\ InGear(stash', g) \in Nat
           /\ Then[g] \in Nat
<1>1. bag' \in Bags /\ finds' \in Seq(Found) /\ stash' \in Seq(Gear)
  BY DEF Hoard, IInv, Stacked, Bags
<1> QED BY <1>1, CountType DEF Then, Counts, Count

\* Gear and finds stay, and so do the gems in the bag.
LEMMA BagStep ==
  ASSUME UNCHANGED <<stash, finds>>, \A g \in Gem : bag'[g] = bag[g]
  PROVE  Same
  BY DEF Same, Now, Then, Counts, Count

\* One piece of gear changes.
Alters(i, inst, b) ==
  stash' = [stash EXCEPT ![i] = inst] /\ bag' = b /\ finds' = finds

LEMMA PieceStep ==
  ASSUME GemsApart, Hoard, Hoard', NEW i \in DOMAIN stash, NEW inst, NEW b,
         Alters(i, inst, b)
  PROVE  /\ inst \in Gear /\ bag' = b
         /\ \A g \in Gem :
              /\ Holding(inst.sockets, g) \in Nat /\ Holding(stash[i].sockets, g) \in Nat
              /\ Then[g] + bag[g] + Holding(stash[i].sockets, g)
                   = Now[g] + bag'[g] + Holding(inst.sockets, g)
<1>1. /\ stash' = [stash EXCEPT ![i] = inst] /\ bag' = b /\ finds' = finds
      /\ stash \in Seq(Gear) /\ stash' \in Seq(Gear) /\ stash[i] \in Gear
  BY DEF Alters, Hoard, IInv
<1>2. inst \in Gear
  <2>1. stash'[i] = inst /\ i \in DOMAIN stash'
    BY <1>1
  <2> QED BY <1>1, <2>1
<1>3. ASSUME NEW g \in Gem
      PROVE  /\ Holding(inst.sockets, g) \in Nat /\ Holding(stash[i].sockets, g) \in Nat
             /\ Then[g] + bag[g] + Holding(stash[i].sockets, g)
                  = Now[g] + bag'[g] + Holding(inst.sockets, g)
  <2>1. \A x \in Gear : x.sockets \in Seq(Gem \cup {Hollow})
    BY DEF Gear
  <2>2. Holding(inst.sockets, g) \in Nat /\ Holding(stash[i].sockets, g) \in Nat
    BY <1>1, <1>2, <2>1, HeldType
  <2>3. InGear(stash', g) + Holding(stash[i].sockets, g)
          = InGear(stash, g) + Holding(inst.sockets, g)
    <3>1. InGear([stash EXCEPT ![i] = inst], g) + Holding(stash[i].sockets, g)
            = InGear(stash, g) + Holding(inst.sockets, g)
      <4>1. stash \in Seq(Gear) /\ inst \in Gear
        BY <1>1, <1>2
      <4> QED BY <4>1, InGearChanged, Zenon
    <3> QED BY <1>1, <3>1
  <2>4. Now[g] = bag[g] + Holding(Ids(finds), g) + InGear(stash, g)
        /\ bag[g] \in Nat /\ Holding(Ids(finds), g) \in Nat /\ InGear(stash, g) \in Nat
    BY CountsAre
  <2>5. Then[g] = bag'[g] + Holding(Ids(finds), g) + InGear(stash', g)
        /\ bag'[g] \in Nat /\ InGear(stash', g) \in Nat
    BY <1>1, CountsAreThen
  <2> QED BY <2>2, <2>3, <2>4, <2>5
<1> QED BY <1>1, <1>2, <1>3

\* A piece changes but not its gems, nor those in the bag.
LEMMA WorksSame ==
  ASSUME GemsApart, Hoard, Hoard', NEW i \in DOMAIN stash, NEW inst, NEW b,
         Alters(i, inst, b), \A g \in Gem : b[g] = bag[g],
         \A g \in Gem : Holding(inst.sockets, g) = Holding(stash[i].sockets, g)
  PROVE  Same
<1>1. ASSUME NEW g \in Gem PROVE Then[g] = Now[g]
  <2>1. Then[g] + bag[g] + Holding(stash[i].sockets, g)
          = Now[g] + bag'[g] + Holding(inst.sockets, g)
        /\ bag' = b /\ Holding(inst.sockets, g) \in Nat
    BY PieceStep
  <2>2. Now[g] \in Nat /\ bag[g] \in Nat /\ Then[g] \in Nat
    BY CountsAre, CountsAreThen
  <2> QED BY <2>1, <2>2
<1> QED BY <1>1 DEF Same

LEMMA EssenceBag ==
  ASSUME GemsApart, Hoard, NEW y \in Essences, NEW q
  PROVE  \A g \in Gem : remove_item(bag, y, q)[g] = bag[g]
<1>1. bag \in Bags /\ \A g \in Gem : g \in Item /\ y # g
  BY DEF Hoard, Stacked, Bags, GemsApart
<1> QED BY <1>1, BagOther

LEMMA ImproveSame ==
  ASSUME GemsApart, Hoard, Hoard', NEW i \in DOMAIN stash,
         \/ upgrade(i)
         \/ \E r \in stash[i].affixes : imprint(i, r)
         \/ add_socket(i)
         \/ \E e \in Enchant : apply_enchant(i, e)
         \/ polish(i)
         \/ \E ilvl \in Depth : reforge(i, ilvl)
  PROVE  Same
<1> DEFINE inst == stash[i]
<1>1. inst \in Gear /\ inst.sockets \in Seq(Gem \cup {Hollow})
  <2>1. inst \in Gear
    BY DEF Hoard, IInv
  <2> HIDE DEF inst
  <2> QED BY <2>1 DEF Gear
<1>2. ASSUME NEW new, NEW y \in Essences, NEW q,
             Works(i, new, remove_item(bag, y, q)), new.sockets = inst.sockets
      PROVE  Same
  <2>1. Alters(i, new, remove_item(bag, y, q))
    BY <1>2 DEF Works, Alters
  <2>2. \A g \in Gem : remove_item(bag, y, q)[g] = bag[g]
    BY EssenceBag
  <2> QED BY <1>2, <2>1, <2>2, WorksSame
<1> HIDE DEF inst
<1>3. CASE upgrade(i)
  <2>1. PICK l : Works(i, [inst EXCEPT !.level = l],
                       remove_item(bag, "arcane", EssenceCost(inst.level)))
    BY <1>3 DEF upgrade, inst
  <2>2. [inst EXCEPT !.level = l].sockets = inst.sockets /\ "arcane" \in Essences
    BY <1>1 DEF Gear, Essences
  <2> QED BY <1>2, <2>1, <2>2
<1>4. ASSUME NEW r \in inst.affixes, imprint(i, r) PROVE Same
  <2> DEFINE new == [inst EXCEPT !.affixes =
                       (inst.affixes \ {r}) \cup {[r EXCEPT !.imprinted = TRUE]}]
  <2>1. Works(i, new, remove_item(bag, "binding", 1))
    BY <1>4 DEF imprint, inst
  <2>2. new.sockets = inst.sockets /\ "binding" \in Essences
    BY <1>1 DEF Gear, Essences
  <2> HIDE DEF new
  <2> QED BY <1>2, <2>1, <2>2
<1>5. CASE add_socket(i)
  <2> DEFINE new == [inst EXCEPT !.sockets = Append(inst.sockets, Hollow)]
  <2>1. Works(i, new, remove_item(bag, "boring", 1))
    BY <1>5 DEF add_socket, inst
  <2>2. new.sockets = Append(inst.sockets, Hollow) /\ "boring" \in Essences
    BY <1>1 DEF Gear, Essences
  <2> HIDE DEF new
  <2>3. \A g \in Gem : Holding(new.sockets, g) = Holding(inst.sockets, g)
    BY <1>1, <2>2, HeldAppended DEF GemsApart
  <2>4. \A g \in Gem : remove_item(bag, "boring", 1)[g] = bag[g]
    BY <2>2, EssenceBag
  <2>5. Alters(i, new, remove_item(bag, "boring", 1))
    BY <2>1 DEF Works, Alters
  <2> QED BY <2>3, <2>4, <2>5, WorksSame DEF inst
<1>6. ASSUME NEW e \in Enchant, apply_enchant(i, e) PROVE Same
  <2> DEFINE new == [inst EXCEPT !.enchant = e]
  <2>1. Works(i, new, bag)
    BY <1>6 DEF apply_enchant, inst
  <2>2. new.sockets = inst.sockets
    BY <1>1 DEF Gear
  <2> HIDE DEF new
  <2> QED BY <2>1, <2>2, WorksSame DEF inst, Works, Alters
<1>7. CASE polish(i)
  <2>1. PICK gain \in 3..8 :
          Works(i, [inst EXCEPT !.quality =
                      IF inst.quality + gain > QualityCap
                      THEN QualityCap ELSE inst.quality + gain],
                remove_item(bag, "polish", 1))
    BY <1>7 DEF polish, inst
  <2> DEFINE q == IF inst.quality + gain > QualityCap
                  THEN QualityCap ELSE inst.quality + gain
             new == [inst EXCEPT !.quality = q]
  <2>2. Works(i, new, remove_item(bag, "polish", 1))
    BY <2>1
  <2> HIDE DEF q
  <2>3. new.sockets = inst.sockets /\ "polish" \in Essences
    BY <1>1 DEF Gear, Essences
  <2> HIDE DEF new
  <2> QED BY <1>2, <2>2, <2>3
<1>8. ASSUME NEW ilvl \in Depth, reforge(i, ilvl) PROVE Same
  <2>1. bag' = remove_item(bag, "chaos", 1) /\ UNCHANGED <<stash, finds>>
    BY <1>8 DEF reforge
  <2>2. "chaos" \in Essences
    BY DEF Essences
  <2> QED BY <2>1, <2>2, EssenceBag, BagStep
<1> QED BY <1>3, <1>4, <1>5, <1>6, <1>7, <1>8 DEF inst

\* A gem out of the bag into the first hole.
LEMMA SocketSame ==
  ASSUME GemsApart, Hoard, Hoard', NEW i \in DOMAIN stash, NEW g \in Gem, socket_gem(i, g)
  PROVE  Same
<1> DEFINE inst == stash[i]
           sockets == inst.sockets
           holes == {k \in DOMAIN sockets : sockets[k] = Hollow}
           at == CHOOSE k \in holes : \A j \in holes : k <= j
           new == [inst EXCEPT !.sockets[at] = g]
<1>1. inst \in Gear /\ sockets \in Seq(Gem \cup {Hollow})
  <2>1. inst \in Gear
    BY DEF Hoard, IInv
  <2> HIDE DEF inst
  <2> QED BY <2>1 DEF Gear
<1>2. Works(i, new, remove_item(bag, g, 1)) /\ holes # {} /\ bag[g] >= 1
  BY DEF socket_gem, Pays
<1>3. at \in DOMAIN sockets /\ sockets[at] = Hollow
  <2>1. holes \in SUBSET Nat
    BY <1>1
  <2>2. \E k \in holes : \A j \in holes : k <= j
    <3> HIDE DEF holes
    <3> QED BY <1>2, <2>1, Least
  <2>3. at \in holes
    <3> HIDE DEF holes
    <3> QED BY <2>2
  <2> QED BY <2>3
<1> HIDE DEF at, holes
<1>4. new.sockets = [sockets EXCEPT ![at] = g]
  <2> HIDE DEF inst
  <2> QED BY <1>1 DEF Gear
<1> HIDE DEF new, sockets
<1>5. ASSUME NEW h \in Gem PROVE Then[h] = Now[h]
  <2>1. /\ Then[h] + bag[h] + Holding(sockets, h) = Now[h] + bag'[h] + Holding(new.sockets, h)
        /\ bag' = remove_item(bag, g, 1)
        /\ Holding(new.sockets, h) \in Nat /\ Holding(sockets, h) \in Nat
    BY <1>2, PieceStep DEF sockets, Works, Alters
  <2>2. Now[h] \in Nat /\ bag[h] \in Nat /\ Then[h] \in Nat
    BY CountsAre, CountsAreThen
  <2>3. bag \in Bags /\ h \in Item /\ g \in Item /\ Hollow \notin Gem
    BY DEF Hoard, Stacked, Bags, GemsApart
  <2>4. CASE h = g
    <3>1. bag'[h] = bag[h] - 1
      BY <1>2, <2>1, <2>3, <2>4, BagSame
    <3>2. Holding(new.sockets, h) = Holding(sockets, h) + 1
      <4>1. sockets[at] # g
        BY <1>3, <2>3
      <4> QED BY <1>1, <1>3, <1>4, <2>4, <4>1, HeldPut
    <3> QED BY <2>1, <2>2, <3>1, <3>2
  <2>5. CASE h # g
    <3>1. bag'[h] = bag[h]
      BY <2>1, <2>3, <2>5, BagOther
    <3>2. Holding(new.sockets, h) = Holding(sockets, h)
      <4>1. sockets[at] # h
        BY <1>3, <2>3
      <4> QED BY <1>1, <1>3, <1>4, <2>5, <4>1, HeldOther
    <3> QED BY <2>1, <2>2, <3>1, <3>2
  <2> QED BY <2>4, <2>5
<1> QED BY <1>5 DEF Same

\* A gem out of its socket, into the bag if its stack has room.
LEMMA UnsocketSpilt ==
  ASSUME GemsApart, Hoard, Hoard', NEW i \in DOMAIN stash,
         NEW k \in DOMAIN stash[i].sockets, unsocket(i, k)
  PROVE  Spilt(stash[i].sockets[k]) /\ stash[i].sockets[k] \in Gem
<1> DEFINE inst == stash[i]
           sockets == inst.sockets
           g == sockets[k]
           paid == remove_item(bag, "solvent", 1)
           new == [inst EXCEPT !.sockets = [sockets EXCEPT ![k] = Hollow]]
<1>1. inst \in Gear /\ sockets \in Seq(Gem \cup {Hollow})
  <2>1. inst \in Gear
    BY DEF Hoard, IInv
  <2> HIDE DEF inst
  <2> QED BY <2>1 DEF Gear
<1>2. Works(i, new, add_item(paid, g, 1)) /\ k \in DOMAIN sockets /\ g # Hollow
  BY DEF unsocket, Popped
<1>3. g \in Gem
  <2> HIDE DEF sockets
  <2> QED BY <1>1, <1>2
<1>4. new.sockets = [sockets EXCEPT ![k] = Hollow]
  <2> HIDE DEF inst
  <2> QED BY <1>1 DEF Gear
<1>5. \A h \in Gem : paid[h] = bag[h]
  BY EssenceBag DEF Essences
<1>6. paid \in Bags /\ bag \in Bags
  BY BagMoves DEF Hoard, Stacked, Bags
<1> HIDE DEF new, paid
<1>7. ASSUME NEW h \in Gem
      PROVE  /\ h # g => Then[h] = Now[h]
             /\ h = g => Then[h] = Now[h] \/ (Then[h] <= Now[h] /\ bag[h] = MaxStack)
  <2>1. /\ Then[h] + bag[h] + Holding(sockets, h) = Now[h] + bag'[h] + Holding(new.sockets, h)
        /\ bag' = add_item(paid, g, 1)
        /\ Holding(new.sockets, h) \in Nat /\ Holding(sockets, h) \in Nat
    BY <1>2, PieceStep DEF Works, Alters
  <2>2. Now[h] \in Nat /\ bag[h] \in Nat /\ Then[h] \in Nat
    BY CountsAre, CountsAreThen
  <2>3. h \in Item /\ g \in Item /\ Hollow \notin Gem
    BY <1>3 DEF GemsApart
  <2> HIDE DEF g
  <2>4. CASE h = g
    <3>1. bag'[h] = IF bag[h] = MaxStack THEN MaxStack ELSE bag[h] + 1
      BY <1>5, <1>6, <2>1, <2>3, <2>4, BagSame
    <3>2. Holding(new.sockets, h) = Holding(sockets, h) - 1 /\ Holding(sockets, h) >= 1
      <4>1. sockets[k] = h /\ Hollow # h
        BY <2>3, <2>4 DEF g
      <4> QED BY <1>1, <1>2, <1>4, <4>1, HeldTaken
    <3> QED BY <2>1, <2>2, <2>4, <3>1, <3>2
  <2>5. CASE h # g
    <3>1. bag'[h] = bag[h]
      BY <1>5, <1>6, <2>1, <2>3, <2>5, BagOther
    <3>2. Holding(new.sockets, h) = Holding(sockets, h)
      <4>1. sockets[k] # h /\ Hollow # h
        BY <2>3, <2>5 DEF g
      <4> QED BY <1>1, <1>2, <1>4, <4>1, HeldOther
    <3> QED BY <2>1, <2>2, <2>5, <3>1, <3>2
  <2> QED BY <2>4, <2>5
<1> QED BY <1>3, <1>7 DEF Spilt

LEMMA FuseMerged ==
  ASSUME GemsApart, Hoard, Hoard', NEW g \in Gem, fuse_gems(g)
  PROVE  \E n : Merged(g, n)
<1> DEFINE l == Lower(g)
           k == GemDef[g].count
           n == IF bag[g] = MaxStack THEN 0 ELSE 1
           spent == remove_item(bag, l, k)
<1>1. PICK N, tier : Tiers(N, tier)
  BY DEF GemsApart
<1>2. PICK lower \in GemDef[g].from :
        /\ Pays(lower, k) /\ bag' = add_item(remove_item(bag, lower, k), g, 1)
  BY DEF fuse_gems
<1>3. lower = l /\ l \in Gem /\ l # g /\ GemDef[g].from # {}
  <2>1. l \in Gem /\ tier[l] < tier[g] /\ tier[g] \in Nat /\ lower = l
    BY <1>1, <1>2 DEF Tiers, Lower
  <2> QED BY <1>2, <2>1
<1>4. bag[l] >= k /\ bag' = add_item(spent, g, 1) /\ UNCHANGED <<stash, finds>>
  BY <1>2, <1>3 DEF Pays, fuse_gems
<1>5. k \in Nat /\ bag \in Bags /\ spent \in Bags
  <2>1. k \in Nat /\ bag \in Bags
    BY StackAssumption DEF Hoard, Stacked, Bags
  <2> HIDE DEF k, l
  <2> QED BY <2>1, BagMoves
<1> HIDE DEF l, k
<1>6. \A h \in Gem : spent[h] = IF h = l THEN bag[h] - k ELSE bag[h]
  <2>1. \A h \in Gem : h \in Item
    BY DEF GemsApart
  <2>2. spent[l] = bag[l] - k
    BY <1>3, <1>4, <1>5, <2>1, BagSame
  <2>3. \A h \in Gem : h # l => spent[h] = bag[h]
    BY <1>5, <2>1, BagOther
  <2> QED BY <2>2, <2>3
<1> HIDE DEF spent
<1>7. \A h \in Gem : bag'[h] = IF h = g THEN bag[h] + n ELSE IF h = l THEN bag[h] - k ELSE bag[h]
  <2>1. \A h \in Gem : h \in Item
    BY DEF GemsApart
  <2>2. bag'[g] = bag[g] + n
    <3>1. spent[g] = bag[g] /\ bag[g] \in Nat
      BY <1>3, <1>6, CountsAre
    <3>2. add_item(spent, g, 1)[g] = IF spent[g] = MaxStack THEN MaxStack ELSE spent[g] + 1
      BY <1>5, <2>1, BagSame
    <3> QED BY <1>4, <3>1, <3>2
  <2>3. \A h \in Gem : h # g => bag'[h] = spent[h]
    BY <1>4, <1>5, <2>1, BagOther
  <2> QED BY <1>6, <2>2, <2>3
<1> HIDE DEF n
<1>8. n \in {0, 1} /\ (n = 1 \/ bag[g] = MaxStack)
  BY DEF n
<1>9. \A h \in Gem : Then[h] = IF h = g THEN Now[h] + n ELSE IF h = l THEN Now[h] - k ELSE Now[h]
  <2> TAKE h \in Gem
  <2>1. Now[h] = bag[h] + Holding(Ids(finds), h) + InGear(stash, h)
        /\ bag[h] \in Nat /\ Holding(Ids(finds), h) \in Nat /\ InGear(stash, h) \in Nat
    BY CountsAre
  <2>2. Then[h] = bag'[h] + Holding(Ids(finds), h) + InGear(stash, h)
    BY <1>4, CountsAreThen
  <2>3. bag'[h] = IF h = g THEN bag[h] + n ELSE IF h = l THEN bag[h] - k ELSE bag[h]
    BY <1>7
  <2> QED BY <1>5, <1>8, <2>1, <2>2, <2>3
<1>10. Now[l] >= k
  <2>1. Now[l] = bag[l] + Holding(Ids(finds), l) + InGear(stash, l)
        /\ bag[l] \in Nat /\ Holding(Ids(finds), l) \in Nat /\ InGear(stash, l) \in Nat
    BY <1>3, CountsAre
  <2> QED BY <1>4, <1>5, <2>1
<1>11. Then = [[Now EXCEPT ![l] = Now[l] - k] EXCEPT ![g] = Now[g] + n]
  <2>1. /\ Now = [h \in Gem |-> Now[h]] /\ Then = [h \in Gem |-> Then[h]]
    BY DEF Now, Then, Counts
  <2> DEFINE mid == [Now EXCEPT ![l] = Now[l] - k]
             end == [mid EXCEPT ![g] = Now[g] + n]
  <2>2. mid = [h \in Gem |-> IF h = l THEN Now[l] - k ELSE Now[h]]
    BY <2>1
  <2> HIDE DEF mid
  <2>3. end = [h \in Gem |-> IF h = g THEN Now[g] + n ELSE mid[h]]
    BY <2>2
  <2> HIDE DEF end
  <2>4. \A h \in Gem : Then[h] = end[h]
    BY <1>3, <1>9, <2>2, <2>3
  <2>5. Then = end
    BY <2>1, <2>3, <2>4
  <2> QED BY <2>5 DEF end, mid
<1>12. Fused(Now, Then, g, n)
  BY <1>3, <1>8, <1>10, <1>11 DEF Fused, l, k
<1> QED BY <1>8, <1>12 DEF Merged

\* A gem found goes to the bag, if its stack has room.
LEMMA PickupHarmless ==
  ASSUME GemsApart, Hoard, Hoard', pickup_loot
  PROVE  Harmless
<1> DEFINE x == Head(finds).id
<1>1. /\ finds # <<>> /\ bag' = add_item(bag, x, 1) /\ finds' = Tail(finds)
      /\ stash' = stash /\ x \in Item
  BY DEF pickup_loot
<1>2. finds \in Seq(Found) /\ bag \in Bags /\ \A h \in Gem : h \in Item
  BY DEF Hoard, Stacked, Bags, GemsApart
<1>3. ASSUME NEW h \in Gem
      PROVE  /\ h # x => Then[h] = Now[h]
             /\ h = x => Then[h] = Now[h] \/ (Then[h] <= Now[h] /\ bag[h] = MaxStack)
  <2>1. /\ Holding(Ids(finds), h) = Holding(Ids(Tail(finds)), h) + (IF x = h THEN 1 ELSE 0)
        /\ Holding(Ids(Tail(finds)), h) \in Nat
    BY <1>1, <1>2, HeldFound
  <2>2. Now[h] = bag[h] + Holding(Ids(finds), h) + InGear(stash, h)
        /\ bag[h] \in Nat /\ InGear(stash, h) \in Nat
    BY CountsAre
  <2>3. Then[h] = bag'[h] + Holding(Ids(Tail(finds)), h) + InGear(stash, h)
    BY <1>1, CountsAreThen
  <2> HIDE DEF x
  <2>4. CASE h = x
    <3>1. bag'[h] = IF bag[h] = MaxStack THEN MaxStack ELSE bag[h] + 1
      BY <1>1, <1>2, <2>4, BagSame
    <3> QED BY <2>1, <2>2, <2>3, <2>4, <3>1
  <2>5. CASE h # x
    <3>1. bag'[h] = bag[h]
      BY <1>1, <1>2, <2>5, BagOther
    <3> QED BY <2>1, <2>2, <2>3, <2>5, <3>1
  <2> QED BY <2>4, <2>5
<1> HIDE DEF x
<1>4. CASE x \in Gem
  BY <1>3, <1>4 DEF Harmless, Spilt
<1>5. CASE x \notin Gem
  BY <1>3, <1>5 DEF Harmless, Same
<1> QED BY <1>4, <1>5

\* Gear that drops has nothing in its sockets.
LEMMA DropSame ==
  ASSUME GemsApart, Hoard, Hoard', roll_drop
  PROVE  Same
<1>1. /\ finds # <<>> /\ Head(finds).id \in Base /\ finds' = Tail(finds) /\ bag' = bag
  BY DEF roll_drop
<1>2. PICK k, inst : stash' = Append(stash, inst) /\ inst.sockets = [j \in 1..k |-> Hollow]
  <2>1. PICK rarity, q, s, k :
          stash' = Append(stash,
            [base |-> Head(finds).id, rarity |-> rarity, level |-> 0, quality |-> q,
             affixes |-> {Rolled(a) : a \in s}, sockets |-> [j \in 1..k |-> Hollow],
             enchant |-> Plain, kills |-> 0])
    BY DEF roll_drop
  <2> DEFINE inst == [base |-> Head(finds).id, rarity |-> rarity, level |-> 0, quality |-> q,
                      affixes |-> {Rolled(a) : a \in s},
                      sockets |-> [j \in 1..k |-> Hollow], enchant |-> Plain, kills |-> 0]
  <2>2. stash' = Append(stash, inst) /\ inst.sockets = [j \in 1..k |-> Hollow]
    BY <2>1
  <2> HIDE DEF inst
  <2> QED BY <2>2
<1>3. stash \in Seq(Gear) /\ stash' \in Seq(Gear) /\ finds \in Seq(Found)
  BY DEF Hoard, IInv
<1>4. inst \in Gear
  <2>1. stash'[Len(stash) + 1] = inst /\ Len(stash) + 1 \in DOMAIN stash'
    BY <1>2, <1>3
  <2> QED BY <1>3, <2>1
<1>5. ASSUME NEW h \in Gem PROVE Then[h] = Now[h]
  <2>1. h # Hollow /\ h \notin Base
    BY DEF GemsApart
  <2>2. Holding(inst.sockets, h) = 0
    <3>1. Places(inst.sockets, h) = {}
      BY <1>2, <2>1 DEF Places
    <3> QED BY <3>1, FS_EmptySet DEF Holding, Places
  <2>3. InGear(stash', h) = InGear(stash, h)
    BY <1>2, <1>3, <1>4, <2>2, InGearMore
  <2>4. Holding(Ids(finds), h) = Holding(Ids(Tail(finds)), h)
    BY <1>1, <1>3, <2>1, HeldFound
  <2>5. Now[h] = bag[h] + Holding(Ids(finds), h) + InGear(stash, h)
    BY CountsAre
  <2>6. Then[h] = bag'[h] + Holding(Ids(finds'), h) + InGear(stash', h)
    BY CountsAreThen
  <2> QED BY <1>1, <2>3, <2>4, <2>5, <2>6
<1> QED BY <1>5 DEF Same

\* What is worn and used is not a gem.
LEMMA WearSame ==
  ASSUME GemsApart, Hoard, Hoard', Wear
  PROVE  Same
<1>1. bag \in Bags /\ \A h \in Gem : h \in Item /\ SlotOf[h] = "None"
  BY DEF Hoard, Stacked, Bags, GemsApart
<1>2. \A e \in equipped : e[1] # "None" /\ e[1] = SlotOf[e[2]]
  BY DEF Hoard, Stacked
<1>3. ASSUME NEW slot PROVE /\ Stripped(slot, bag) \in Bags
                            /\ \A h \in Gem : Stripped(slot, bag)[h] = bag[h]
  <2> DEFINE prev == {e \in equipped : e[1] = slot}
             e == CHOOSE f \in prev : TRUE
  <2>1. CASE prev = {}
    BY <1>1, <2>1 DEF Stripped
  <2>2. CASE prev # {}
    <3>1. e \in equipped
      BY <2>2
    <3>2. Stripped(slot, bag) = add_item(bag, e[2], 1)
      BY <2>2 DEF Stripped
    <3> HIDE DEF e, prev
    <3>3. \A h \in Gem : e[2] # h
      BY <1>1, <1>2, <3>1
    <3> QED BY <1>1, <3>2, <3>3, BagOther, BagMoves
  <2> QED BY <2>1, <2>2
<1>4. ASSUME NEW item \in Item, equip(item) PROVE Same
  <2>1. /\ bag' = remove_item(Stripped(SlotOf[item], bag), item, 1)
        /\ SlotOf[item] # "None" /\ UNCHANGED <<stash, finds>>
    BY <1>4 DEF equip
  <2>2. \A h \in Gem : bag'[h] = Stripped(SlotOf[item], bag)[h]
    BY <1>1, <1>3, <2>1, BagOther
  <2> QED BY <1>3, <2>1, <2>2, BagStep
<1>5. ASSUME NEW slot, unequip(slot) PROVE Same
  BY <1>3, <1>5, BagStep DEF unequip
<1>6. CASE UNCHANGED <<bag, stash, finds>>
  BY <1>6, BagStep
<1> QED BY <1>4, <1>5, <1>6 DEF Wear, equip_instance, unequip_instance

LEMMA UseSame ==
  ASSUME GemsApart, Hoard, Hoard', Use
  PROVE  Same
<1>1. bag \in Bags /\ \A h \in Gem : h \in Item
  BY DEF Hoard, Stacked, Bags, GemsApart
<1>2. ASSUME NEW item, consume(item) PROVE Same
  <2>1. /\ bag' = remove_item(bag, item, 1) /\ UNCHANGED <<stash, finds>>
        /\ \A h \in Gem : h # item
    BY <1>2 DEF consume, GemsApart
  <2> QED BY <1>1, <2>1, BagOther, BagStep
<1>3. ASSUME NEW item \in DOMAIN Recipe, craft(item) PROVE Same
  <2>1. /\ bag' = add_item(Spent(item), item, 1) /\ UNCHANGED <<stash, finds>>
        /\ can_craft(item)
    BY <1>3 DEF craft
  <2>2. \A h \in Gem : h # item /\ h \notin DOMAIN Recipe[item]
    BY DEF GemsApart
  <2>3. Spent(item) \in Bags
    BY <1>1, <2>1, SpentBag
  <2>4. \A h \in Gem : Spent(item)[h] = bag[h]
    BY <1>1, <2>2 DEF Spent
  <2>5. \A h \in Gem : bag'[h] = Spent(item)[h]
    BY <1>1, <2>1, <2>2, <2>3, BagOther
  <2> QED BY <2>1, <2>4, <2>5, BagStep
<1>4. ASSUME NEW i \in DOMAIN stash, credit_kill(i) PROVE Same
  <2> DEFINE inst == stash[i]
             new == [inst EXCEPT !.kills = inst.kills + 1]
  <2>1. Alters(i, new, bag)
    BY <1>4 DEF credit_kill, Alters
  <2>2. new.sockets = inst.sockets
    <3>1. inst \in Gear
      BY DEF Hoard, IInv
    <3> HIDE DEF inst
    <3> QED BY <3>1 DEF Gear
  <2> HIDE DEF new
  <2> QED BY <2>1, <2>2, WorksSame
<1> QED BY <1>2, <1>3, <1>4 DEF Use

LEMMA ReforgingSame ==
  ASSUME GemsApart, Hoard, Hoard', Reforging
  PROVE  Same
<1>1. ASSUME NEW a, Draw(a) PROVE Same
  BY <1>1, BagStep DEF Draw
<1>2. CASE Finish
  <2> DEFINE i == forging.at
             inst == stash[i]
             new == [inst EXCEPT !.affixes = forging.affixes]
  <2>1. i \in DOMAIN stash
    BY <1>2 DEF Finish, Hoard, IInv, Going
  <2>2. Alters(i, new, bag)
    BY <1>2 DEF Finish, Alters
  <2>3. new.sockets = inst.sockets
    <3>1. inst \in Gear
      BY <2>1 DEF Hoard, IInv
    <3> HIDE DEF inst
    <3> QED BY <3>1 DEF Gear
  <2> HIDE DEF new, i
  <2> QED BY <2>1, <2>2, <2>3, WorksSame
<1> QED BY <1>1, <1>2 DEF Reforging

LEMMA HoardNext ==
  ASSUME Hoard, [Next]_vars
  PROVE  Hoard'
<1>1. IInv' /\ Stacked'
  BY NextStep, StackedNext DEF Hoard
<1>2. finds' \in Seq(Found)
  <2>1. CASE finds' = finds
    BY <2>1 DEF Hoard
  <2>2. CASE finds # <<>> /\ finds' = Tail(finds)
    BY <2>2 DEF Hoard
  <2>3. roll_drop \/ pickup_loot => finds # <<>> /\ finds' = Tail(finds)
    BY DEF roll_drop, pickup_loot
  <2>4. Wear \/ Use \/ Reforging => finds' = finds
    BY DEF Wear, equip, unequip, equip_instance, unequip_instance, Use, consume, craft,
           credit_kill, Reforging, Draw, Finish
  <2>5. \A i \in DOMAIN stash : Improve(i) => finds' = finds
    BY DEF Improve, upgrade, imprint, add_socket, socket_gem, unsocket, apply_enchant,
           polish, reforge, Works
  <2>6. \A g \in Gem : fuse_gems(g) => finds' = finds
    BY DEF fuse_gems
  <2> QED BY <2>1, <2>2, <2>3, <2>4, <2>5, <2>6 DEF Next, Call, vars
<1>3. \A e \in equipped' : e[1] # "None"
  <2>1. CASE equipped' \subseteq equipped
    BY <2>1 DEF Hoard
  <2>2. CASE \E item \in Item : equip(item)
    BY <2>2 DEF equip, Hoard
  <2>3. ASSUME NEW slot, unequip(slot) PROVE equipped' \subseteq equipped
    BY <2>3 DEF unequip
  <2>4. roll_drop \/ pickup_loot \/ Use \/ Reforging => equipped' = equipped
    BY DEF roll_drop, pickup_loot, Use, consume, craft, credit_kill, Reforging, Draw, Finish
  <2>5. \A i \in DOMAIN stash : Improve(i) => equipped' = equipped
    BY DEF Improve, upgrade, imprint, add_socket, socket_gem, unsocket, apply_enchant,
           polish, reforge, Works
  <2>6. \A g \in Gem : fuse_gems(g) => equipped' = equipped
    BY DEF fuse_gems
  <2>7. ASSUME Wear PROVE equipped' \subseteq equipped \/ \E item \in Item : equip(item)
    BY <2>3, <2>7 DEF Wear, equip_instance, unequip_instance
  <2> QED BY <2>1, <2>2, <2>4, <2>5, <2>6, <2>7 DEF Next, Call, vars
<1> QED BY <1>1, <1>2, <1>3 DEF Hoard

LEMMA GemsStep ==
  ASSUME GemsApart, Hoard, [Next]_vars
  PROVE  Keeps
<1>1. Hoard'
  BY HoardNext
<1>2. CASE UNCHANGED vars
  <2>1. Same
    BY <1>2, BagStep DEF vars
  <2> QED BY <1>1, <2>1, HarmlessKeeps DEF Harmless
<1>3. ASSUME NEW i \in DOMAIN stash, Improve(i) PROVE Harmless
  <2>1. CASE \E g \in Gem : socket_gem(i, g)
    BY <1>1, <2>1, SocketSame DEF Harmless
  <2>2. CASE \E k \in DOMAIN stash[i].sockets : unsocket(i, k)
    BY <1>1, <2>2, UnsocketSpilt DEF Harmless
  <2>3. CASE ~(\E g \in Gem : socket_gem(i, g))
             /\ ~(\E k \in DOMAIN stash[i].sockets : unsocket(i, k))
    BY <1>1, <1>3, <2>3, ImproveSame DEF Harmless, Improve
  <2> QED BY <2>1, <2>2, <2>3
<1>4. CASE Next
  <2>1. Harmless
    BY <1>1, <1>3, <1>4, DropSame, PickupHarmless, WearSame, UseSame, FuseMerged,
       ReforgingSame DEF Next, Call, Harmless
  <2> QED BY <1>1, <2>1, HarmlessKeeps
<1> QED BY <1>2, <1>4

(* No sequence of fusing, socketing and unsocketing makes gems out of        *)
(* nothing, and gems are lost only to a full stack, for any table of gems    *)
(* that goes down and any content in which gems are nothing but gems.        *)
THEOREM GemsStay ==
  ASSUME GemsApart
  PROVE  Spec => GemsKept
<1>1. Init => Hoard
  <2> SUFFICES ASSUME Init PROVE Hoard
    OBVIOUS
  <2>1. finds \in Seq(Found) /\ equipped = {}
    BY StackAssumption DEF Init, Found
  <2> QED BY <2>1, InitIInv, Undressed DEF Hoard
<1>2. Hoard /\ [Next]_vars => Hoard'
  BY HoardNext
<1>3. Hoard /\ [Next]_vars => [Keeps]_vars
  BY GemsStep
<1> QED BY <1>1, <1>2, <1>3, PTL DEF Spec, GemsKept, Keeps

-----------------------------------------------------------------------------
(* Numbers of the living world.                                             *)

LEMMA MinOfTwo == ASSUME NEW a \in Int, NEW b \in Int PROVE Min({a, b}) = IF a <= b THEN a ELSE b
<1>1. PICK m : m \in {a, b} /\ \A y \in {a, b} : m <= y
  OBVIOUS
<1>2. Min({a, b}) \in {a, b} /\ \A y \in {a, b} : Min({a, b}) <= y
  BY <1>1, Zenon DEF Min
<1> QED BY <1>2

LEMMA MaxWithZero == ASSUME NEW b \in Int PROVE Max({0, b}) = IF b <= 0 THEN 0 ELSE b
<1>1. PICK m : m \in {0, b} /\ \A y \in {0, b} : m >= y
  OBVIOUS
<1>2. Max({0, b}) \in {0, b} /\ \A y \in {0, b} : Max({0, b}) >= y
  BY <1>1, Zenon DEF Max
<1> QED BY <1>2

LEMMA ClampedIn ==
  ASSUME NEW x \in Int, NEW lo \in Int, NEW hi \in Int, lo <= hi
  PROVE  Clamped(x, lo, hi) \in lo..hi
  BY DEF Clamped

\* The year.
LEMMA Year ==
  ASSUME NEW t \in Nat
  PROVE  /\ Day(t) \in Nat /\ DayOfYear(t) \in 0..104 /\ day_of_season(t) \in 0..20
         /\ DayOfYear(t) = Day(t) % 105 /\ day_of_season(t) = DayOfYear(t) % 21
         /\ DayOfYear(t) \div 21 \in 0..4
  BY DEF Day, DayOfYear, day_of_season, DayTicks, DaysPerYear, DaysPerSeason

LEMMA SeasonIs ==
  ASSUME NEW t \in Nat
  PROVE  season(t) \in {"Kindling", "Highsun", "Emberfall", "Duskwane", "LongDark"}
<1>1. DayOfYear(t) \div DaysPerSeason + 1 \in 1..5
  BY Year DEF DaysPerSeason
<1> QED BY <1>1 DEF season, Seasons

\* What a tide brings to each well.
Brought(t, ticks) == (15 * mana_tide[season(t)] * ticks) \div 8

LEMMA TideBrings ==
  ASSUME NEW t \in Nat, NEW ticks \in Nat
  PROVE  Brought(t, ticks) \in Nat /\ (ticks >= 10667 => Brought(t, ticks) >= Capacity)
<1>1. mana_tide[season(t)] \in 60..130
  BY SeasonIs DEF mana_tide
<1>2. PICK tide \in 60..130 : tide = mana_tide[season(t)]
  BY <1>1
<1>3. tide * ticks >= 60 * ticks
  OBVIOUS
<1>4. PICK n \in Nat : n = tide * ticks
  OBVIOUS
<1>5. 15 * tide * ticks = 15 * n
  BY <1>4
<1>6. Brought(t, ticks) = (15 * n) \div 8
  BY <1>2, <1>5 DEF Brought
<1> QED BY <1>3, <1>4, <1>6 DEF Capacity

LEMMA Wells == Well = 1..7 /\ Len(Elements) = 7
  BY DEF Well, Elements

\* The mana of a ring of wells.
LEMMA ChargeSum ==
  ASSUME NEW w, NEW S
  PROVE  MapThenSumSet(LAMBDA x : w.charge[x], S) = SumOf(w.charge, S)
<1> DEFINE rhs(f, s) == IF s = {} THEN 0 ELSE w.charge[Pick(s)] + f[s \ {Pick(s)}]
<1>1. \A f : \A s \in SUBSET S : rhs(f, s) = Adds(f, w.charge, s)
  BY DEF Adds
<1>2. MapThenSumSet(LAMBDA x : w.charge[x], S) = (CHOOSE f : f = [s \in SUBSET S |-> rhs(f, s)])[S]
  BY DEF MapThenSumSet, MapThenFoldSet, Pick
<1> HIDE DEF rhs
<1>3. \A f : f = [s \in SUBSET S |-> rhs(f, s)] <=> Folds(f, w.charge, S)
  BY <1>1 DEF Folds
<1> QED BY <1>2, <1>3 DEF SumOf

LEMMA TotalIs ==
  ASSUME NEW w, \A x \in Well : w.charge[x] \in Nat
  PROVE  TotalCharge(w) = w.charge[1] + w.charge[2] + w.charge[3] + w.charge[4] + w.charge[5]
                            + w.charge[6] + w.charge[7]
<1>1. PICK c : c = w.charge
  OBVIOUS
<1>2. \A x \in 1..7 : c[x] \in Nat
  BY <1>1, Wells
<1>3. SumOf(c, 1..0) = 0
  <2>1. 1..0 = {}
    OBVIOUS
  <2> QED BY <2>1, SumStep, FS_EmptySet
<1>4. ASSUME NEW n \in 0..6
      PROVE  SumOf(c, 1..(n + 1)) = SumOf(c, 1..n) + c[n + 1] /\ SumOf(c, 1..n) \in Nat
  <2>1. n \in Nat /\ (\A i \in 1..n : c[i] \in Nat /\ c[i] = c[i]) /\ c[n + 1] \in Nat
    BY <1>2
  <2> QED BY <2>1, SumGrows
<1>5. /\ SumOf(c, 1..1) = SumOf(c, 1..0) + c[1] /\ SumOf(c, 1..2) = SumOf(c, 1..1) + c[2]
      /\ SumOf(c, 1..3) = SumOf(c, 1..2) + c[3] /\ SumOf(c, 1..4) = SumOf(c, 1..3) + c[4]
      /\ SumOf(c, 1..5) = SumOf(c, 1..4) + c[5] /\ SumOf(c, 1..6) = SumOf(c, 1..5) + c[6]
      /\ SumOf(c, 1..7) = SumOf(c, 1..6) + c[7]
  <2>1. SumOf(c, 1..(0 + 1)) = SumOf(c, 1..0) + c[0 + 1]
    BY <1>4
  <2>2. SumOf(c, 1..(1 + 1)) = SumOf(c, 1..1) + c[1 + 1]
    BY <1>4
  <2>3. SumOf(c, 1..(2 + 1)) = SumOf(c, 1..2) + c[2 + 1]
    BY <1>4
  <2>4. SumOf(c, 1..(3 + 1)) = SumOf(c, 1..3) + c[3 + 1]
    BY <1>4
  <2>5. SumOf(c, 1..(4 + 1)) = SumOf(c, 1..4) + c[4 + 1]
    BY <1>4
  <2>6. SumOf(c, 1..(5 + 1)) = SumOf(c, 1..5) + c[5 + 1]
    BY <1>4
  <2>7. SumOf(c, 1..(6 + 1)) = SumOf(c, 1..6) + c[6 + 1]
    BY <1>4
  <2> QED BY <2>1, <2>2, <2>3, <2>4, <2>5, <2>6, <2>7
<1>6. TotalCharge(w) = SumOf(c, 1..7)
  BY <1>1, ChargeSum, Wells DEF TotalCharge
<1> QED BY <1>1, <1>2, <1>3, <1>5, <1>6

\* What grazers there are is a number.
LEMMA SupportIn ==
  ASSUME NEW pop \in [Mob -> Nat], NEW m \in Mob
  PROVE  Support(pop, m) \in 0..1000
<1> DEFINE F == [g \in Grazers |-> pop[g] * carrying_capacity["Grazer"]]
           rhs(f, s) == IF s = {} THEN 0
                        ELSE pop[Pick(s)] * carrying_capacity["Grazer"] + f[s \ {Pick(s)}]
<1>1. \A f : \A s \in SUBSET Grazers : rhs(f, s) = Adds(f, F, s)
  <2> SUFFICES ASSUME NEW f, NEW s \in SUBSET Grazers, s # {}
               PROVE  pop[Pick(s)] * carrying_capacity["Grazer"] = F[Pick(s)]
    BY DEF Adds
  <2>1. Pick(s) \in Grazers
    BY DEF Pick
  <2> QED BY <2>1
<1>2. Prey(pop) = (CHOOSE f : f = [s \in SUBSET Grazers |-> rhs(f, s)])[Grazers]
  BY DEF Prey, MapThenSumSet, MapThenFoldSet, Pick
<1>3. IsFiniteSet(Grazers) /\ \A g \in Grazers : F[g] \in Nat
  <2>1. IsFiniteSet(Grazers)
    BY LandAssumption, FS_Subset DEF Grazers
  <2>2. carrying_capacity["Grazer"] = 120
    BY DEF carrying_capacity
  <2>3. \A g \in Grazers : F[g] = pop[g] * 120 /\ pop[g] \in Nat
    BY <2>2 DEF Grazers
  <2> QED BY <2>1, <2>3
<1> HIDE DEF rhs, F
<1>4. \A f : f = [s \in SUBSET Grazers |-> rhs(f, s)] <=> Folds(f, F, Grazers)
  BY <1>1 DEF Folds
<1>5. Prey(pop) = SumOf(F, Grazers)
  BY <1>2, <1>4 DEF SumOf
<1>6. PICK all \in Nat : all = SumOf(F, Grazers)
  BY <1>3, SumWithout
<1>7. PICK land \in {120, 50, 16} : land = carrying_capacity[trophic(m)]
  <2>1. trophic(m) \in {"Grazer", "Predator", "Apex"}
    BY DEF trophic
  <2> QED BY <2>1 DEF carrying_capacity
<1>8. PICK fed : fed = all \div land
  OBVIOUS
<1>9. fed \in Nat
  BY <1>7, <1>8
<1>10. Support(pop, m) = Min({1000, fed})
  BY <1>5, <1>6, <1>7, <1>8 DEF Support
<1>11. Min({1000, fed}) \in 0..1000
  <2>1. 1000 \in Int /\ fed \in Int
    BY <1>9
  <2>2. Min({1000, fed}) = IF 1000 <= fed THEN 1000 ELSE fed
    BY <2>1, MinOfTwo
  <2> QED BY <1>9, <2>2
<1> QED BY <1>10, <1>11

\* The bars of renown, one after the other.
Lowest == 10000
Higher(bar) == (bar * 115) \div 100
BarsTo(m, f) == f = [k \in 0..m |-> IF k = 0 THEN Lowest ELSE Higher(f[k - 1])]

LEMMA BarsExist == ASSUME NEW m \in Nat PROVE \E f : BarsTo(m, f)
<1> DEFINE Bad == {n \in Nat : ~ \E f : BarsTo(n, f)}
<1> SUFFICES ASSUME Bad # {} PROVE FALSE
  OBVIOUS
<1>1. PICK n \in Bad : \A j \in Bad : n <= j
  <2>1. Bad \in SUBSET Nat
    OBVIOUS
  <2> HIDE DEF Bad
  <2> QED BY <2>1, Least
<1>2. n \in Nat /\ ~ \E f : BarsTo(n, f)
  OBVIOUS
<1>3. n # 0
  <2> DEFINE f == [k \in 0..0 |-> Lowest]
  <2>1. f = [k \in 0..0 |-> IF k = 0 THEN Lowest ELSE Higher(f[k - 1])]
    OBVIOUS
  <2> HIDE DEF f
  <2>2. BarsTo(0, f)
    BY <2>1 DEF BarsTo
  <2> QED BY <1>2, <2>2
<1>4. PICK f : BarsTo(n - 1, f)
  <2>1. n - 1 \in Nat /\ ~(n <= n - 1)
    BY <1>2, <1>3
  <2>2. n - 1 \notin Bad
    <3> HIDE DEF Bad
    <3> QED BY <1>1, <2>1
  <2> QED BY <2>1, <2>2
<1> DEFINE g == [k \in 0..n |-> IF k = n THEN Higher(f[n - 1]) ELSE f[k]]
<1>5. \A k \in 0..n : g[k] = IF k = 0 THEN Lowest ELSE Higher(g[k - 1])
  <2> TAKE k \in 0..n
  <2>1. CASE k = n
    <3>1. g[k] = Higher(f[k - 1]) /\ g[k - 1] = f[k - 1] /\ k # 0
      BY <1>2, <1>3, <2>1
    <3> QED BY <3>1
  <2>2. CASE k # n
    <3>1. k \in 0..(n - 1) /\ (k # 0 => k - 1 \in 0..(n - 1) /\ k - 1 \in 0..n /\ k - 1 # n)
      BY <1>2, <2>2
    <3>2. f[k] = IF k = 0 THEN Lowest ELSE Higher(f[k - 1])
      BY <1>4, <3>1 DEF BarsTo
    <3>3. g[k] = f[k] /\ (k # 0 => g[k - 1] = f[k - 1])
      BY <2>2, <3>1
    <3> QED BY <3>2, <3>3
  <2> QED BY <2>1, <2>2
<1>6. g = [k \in 0..n |-> g[k]]
  OBVIOUS
<1> HIDE DEF g
<1>7. BarsTo(n, g)
  BY <1>5, <1>6 DEF BarsTo
<1> QED BY <1>2, <1>7

LEMMA BarsAgree ==
  ASSUME NEW m \in Nat, NEW n \in Nat, NEW f, NEW g, BarsTo(m, f), BarsTo(n, g), m <= n
  PROVE  \A k \in 0..m : f[k] = g[k]
<1> DEFINE Off == {k \in 0..m : f[k] # g[k]}
<1> SUFFICES ASSUME Off # {} PROVE FALSE
  OBVIOUS
<1>1. PICK k \in Off : \A j \in Off : k <= j
  <2>1. Off \in SUBSET Nat
    OBVIOUS
  <2> HIDE DEF Off
  <2> QED BY <2>1, Least
<1>2. k \in 0..m /\ k \in 0..n /\ f[k] # g[k]
  OBVIOUS
<1>3. f[k] = IF k = 0 THEN Lowest ELSE Higher(f[k - 1])
  BY <1>2 DEF BarsTo
<1>4. g[k] = IF k = 0 THEN Lowest ELSE Higher(g[k - 1])
  BY <1>2 DEF BarsTo
<1>5. k # 0 /\ k - 1 \in 0..m /\ ~(k <= k - 1)
  BY <1>2, <1>3, <1>4
<1>6. f[k - 1] = g[k - 1]
  BY <1>1, <1>5
<1> QED BY <1>2, <1>3, <1>4, <1>5, <1>6

LEMMA BarIs == ASSUME NEW n \in Nat PROVE Bar[0] = 10000 /\ Bar[n + 1] = (Bar[n] * 115) \div 100
<1> DEFINE to(m) == CHOOSE f : BarsTo(m, f)
           b == [m \in Nat |-> to(m)[m]]
<1>1. ASSUME NEW m \in Nat PROVE b[m] = IF m = 0 THEN Lowest ELSE Higher(b[m - 1])
  <2>1. PICK f : f = to(m) /\ BarsTo(m, f)
    BY BarsExist
  <2> HIDE DEF to
  <2>2. f[m] = IF m = 0 THEN Lowest ELSE Higher(f[m - 1])
    BY <2>1 DEF BarsTo
  <2>3. ASSUME m # 0 PROVE f[m - 1] = b[m - 1]
    <3>1. m - 1 \in Nat /\ m - 1 <= m /\ m - 1 \in 0..(m - 1)
      BY <2>3
    <3>2. PICK g : g = to(m - 1) /\ BarsTo(m - 1, g)
      BY <3>1, BarsExist DEF to
    <3>3. g[m - 1] = f[m - 1]
      BY <2>1, <3>1, <3>2, BarsAgree
    <3> QED BY <3>1, <3>2, <3>3
  <2>4. b[m] = f[m]
    BY <2>1
  <2> HIDE DEF b
  <2> QED BY <2>2, <2>3, <2>4
<1>2. b = [m \in Nat |-> b[m]]
  OBVIOUS
<1> HIDE DEF b
<1>3. b = [m \in Nat |-> IF m = 0 THEN Lowest ELSE Higher(b[m - 1])]
  BY <1>1, <1>2
<1>4. Bar = CHOOSE f : f = [m \in Nat |-> IF m = 0 THEN Lowest ELSE Higher(f[m - 1])]
  BY SMT DEF Bar, Higher, Lowest
<1>5. Bar = [m \in Nat |-> IF m = 0 THEN Lowest ELSE Higher(Bar[m - 1])]
  <2> DEFINE Is(f) == f = [m \in Nat |-> IF m = 0 THEN Lowest ELSE Higher(f[m - 1])]
  <2>1. \E f : Is(f)
    BY <1>3
  <2>2. Bar = CHOOSE f : Is(f)
    BY <1>4
  <2> HIDE DEF Is
  <2>3. Is(Bar)
    BY <2>1, <2>2
  <2> QED BY <2>3 DEF Is
<1>6. n + 1 \in Nat /\ n + 1 # 0 /\ (n + 1) - 1 = n
  OBVIOUS
<1>7. Bar[0] = Lowest /\ Bar[n + 1] = Higher(Bar[n])
  BY <1>5, <1>6
<1> QED BY <1>7 DEF Higher, Lowest

LEMMA BarInt == ASSUME NEW n \in Nat PROVE Bar[n] \in Int
<1> DEFINE Off == {m \in Nat : Bar[m] \notin Int}
<1> SUFFICES ASSUME Off # {} PROVE FALSE
  OBVIOUS
<1>1. PICK k \in Off : \A j \in Off : k <= j
  <2>1. Off \in SUBSET Nat
    OBVIOUS
  <2> HIDE DEF Off
  <2> QED BY <2>1, Least
<1>2. k \in Nat /\ Bar[k] \notin Int
  OBVIOUS
<1>3. k # 0
  BY <1>2, BarIs
<1>4. k - 1 \in Nat /\ Bar[k - 1] \in Int
  <2>1. k - 1 \in Nat /\ ~(k <= k - 1)
    BY <1>2, <1>3
  <2>2. k - 1 \notin Off
    <3> HIDE DEF Off
    <3> QED BY <1>1, <2>1
  <2> QED BY <2>1, <2>2
<1>5. PICK m \in Nat, b \in Int : m = k - 1 /\ b = Bar[m]
  BY <1>4
<1>6. Bar[m + 1] = (b * 115) \div 100 /\ m + 1 = k
  BY <1>2, <1>5, BarIs
<1> QED BY <1>2, <1>5, <1>6

LEMMA CapacityIs == Capacity \in Nat /\ Capacity > 0
  BY SMT DEF Capacity

\* Neighbours on the ring.
LEMMA Ring ==
  /\ \A w \in Well : Beyond(w) \in Well /\ Before(w) \in Well
  /\ Before(1) = 7 /\ Before(2) = 1 /\ Before(3) = 2 /\ Before(4) = 3 /\ Before(5) = 4
  /\ Before(6) = 5 /\ Before(7) = 6
  /\ \A w \in Well : Beyond(Before(w)) = w
  BY Wells DEF Beyond, Before

LEMMA RechargedIn ==
  ASSUME NEW charge \in [Well -> 0..Capacity], NEW t \in Nat, NEW ticks \in Nat, NEW w \in Well
  PROVE  /\ Recharged(charge, t, ticks)[w] = Clamped(charge[w] + Brought(t, ticks), 0, Capacity)
         /\ Recharged(charge, t, ticks) \in [Well -> 0..Capacity]
<1>1. Brought(t, ticks) \in Int /\ Capacity \in Nat
  BY TideBrings, CapacityIs
<1>2. Recharged(charge, t, ticks) = [x \in Well |-> Clamped(charge[x] + Brought(t, ticks), 0, Capacity)]
  BY DEF Recharged, Brought
<1>3. \A x \in Well : Clamped(charge[x] + Brought(t, ticks), 0, Capacity) \in 0..Capacity
  <2> TAKE x \in Well
  <2>1. charge[x] + Brought(t, ticks) \in Int /\ 0 <= Capacity
    BY <1>1, CapacityIs
  <2> QED BY <2>1, ClampedIn, CapacityIs
<1> QED BY <1>2, <1>3

LEMMA FlowIs ==
  ASSUME NEW c \in [Well -> 0..Capacity], NEW ticks \in Nat, NEW w \in Well
  PROVE  Flow(c, w, ticks) \in Int
<1>1. c[w] \in Int /\ c[Beyond(w)] \in Int
  BY Ring, CapacityIs
<1>2. PICK n \in Int : n = (c[w] - c[Beyond(w)]) * 3 * ticks
  BY <1>1
<1> QED BY <1>2 DEF Flow

LEMMA DiffusedIn ==
  ASSUME NEW c \in [Well -> 0..Capacity], NEW ticks \in Nat, NEW w \in Well
  PROVE  /\ Diffused(c, ticks)[w] = Clamped(c[w] - Flow(c, w, ticks) + Flow(c, Before(w), ticks), 0, Capacity)
         /\ Diffused(c, ticks) \in [Well -> 0..Capacity]
<1>1. \A x \in Well : c[x] - Flow(c, x, ticks) + Flow(c, Before(x), ticks) \in Int
  BY FlowIs, Ring, CapacityIs
<1>2. \A x \in Well :
        Clamped(c[x] - Flow(c, x, ticks) + Flow(c, Before(x), ticks), 0, Capacity) \in 0..Capacity
  <2> TAKE x \in Well
  <2>1. 0 <= Capacity /\ Capacity \in Int
    BY CapacityIs
  <2> QED BY <1>1, <2>1, ClampedIn
<1> QED BY <1>2 DEF Diffused

LEMMA BreathedIn ==
  ASSUME NEW charge \in [Well -> 0..Capacity], NEW t \in Nat, NEW ticks \in Nat
  PROVE  Breathed(charge, t, ticks) \in [Well -> 0..Capacity]
<1>1. PICK w : w \in Well
  BY Wells
<1>2. PICK c \in [Well -> 0..Capacity] : c = Recharged(charge, t, ticks)
  BY <1>1, RechargedIn
<1>3. Diffused(c, ticks) \in [Well -> 0..Capacity]
  BY <1>1, DiffusedIn
<1> QED BY <1>2, <1>3 DEF Breathed

\* Of what a well holds it never gives more in 106 ticks.
LEMMA GivesWhatItHas ==
  ASSUME NEW c \in [Well -> 0..Capacity], NEW ticks \in 0..106, NEW w \in Well
  PROVE  c[w] - Flow(c, w, ticks) + Flow(c, Before(w), ticks) >= 0
<1>1. PICK x \in Nat, y \in Nat, z \in Nat : x = c[w] /\ y = c[Beyond(w)] /\ z = c[Before(w)]
  BY Ring, CapacityIs
<1>2. PICK k \in 0..318 : k = 3 * ticks
  OBVIOUS
<1>3. Beyond(Before(w)) = w
  BY Ring
<1>4. PICK n \in Int, m \in Int : n = (x - y) * k /\ m = (z - x) * k
  OBVIOUS
<1>5. (x - y) * 3 * ticks = n /\ (z - x) * 3 * ticks = m
  BY <1>2, <1>4
<1>6. Flow(c, w, ticks) = n \div 640 /\ Flow(c, Before(w), ticks) = m \div 640
  BY <1>1, <1>3, <1>5, ZenonT(60) DEF Flow
<1>7. n <= 318 * x
  <2>1. n = x * k - y * k
    BY <1>4
  <2>2. y * k >= 0 /\ x * k <= x * 318
    OBVIOUS
  <2>3. x * k \in Int /\ y * k \in Int
    OBVIOUS
  <2> QED BY <2>1, <2>2, <2>3
<1>8. m >= 0 - 318 * x
  <2>1. m = z * k - x * k
    BY <1>4
  <2>2. z * k >= 0 /\ x * k <= x * 318
    OBVIOUS
  <2>3. x * k \in Int /\ z * k \in Int
    OBVIOUS
  <2> QED BY <2>1, <2>2, <2>3
<1> QED BY <1>1, <1>6, <1>7, <1>8

\* The mana on the ring.
Ringed(c) == c[1] + c[2] + c[3] + c[4] + c[5] + c[6] + c[7]
NoneSpills(c, d) == (\A w \in Well : d[w] < Capacity) => Ringed(d) = Ringed(c)

\* Short strides move mana along the ring; long ones fill every well.
LEMMA RingKeeps ==
  ASSUME NEW c \in [Well -> 0..Capacity], NEW ticks \in 0..106
  PROVE  /\ Ringed(Diffused(c, ticks)) <= Ringed(c)
         /\ NoneSpills(c, Diffused(c, ticks))
<1>1. PICK d : d = Diffused(c, ticks)
  OBVIOUS
<1>2. PICK f : f = [w \in Well |-> Flow(c, w, ticks)]
  OBVIOUS
<1>3. \A w \in Well : f[w] = Flow(c, w, ticks) /\ f[w] \in Int /\ c[w] \in Int
  BY <1>2, FlowIs, CapacityIs
<1>4. ASSUME NEW w \in Well
      PROVE  /\ d[w] \in Int /\ d[w] <= c[w] - f[w] + f[Before(w)]
             /\ d[w] < Capacity => d[w] = c[w] - f[w] + f[Before(w)]
  <2>1. Before(w) \in Well /\ f[Before(w)] = Flow(c, Before(w), ticks)
    BY <1>3, Ring
  <2>2. PICK e \in Int : e = c[w] - f[w] + f[Before(w)]
    BY <1>3, <2>1
  <2>3. e >= 0
    BY <1>3, <2>1, <2>2, GivesWhatItHas
  <2>4. d[w] = Clamped(e, 0, Capacity)
    BY <1>1, <1>3, <2>1, <2>2, DiffusedIn
  <2>5. d[w] = IF e > Capacity THEN Capacity ELSE e
    BY <2>3, <2>4, CapacityIs DEF Clamped
  <2> QED BY <2>2, <2>5, CapacityIs
<1>5. /\ d[1] <= c[1] - f[1] + f[7] /\ d[2] <= c[2] - f[2] + f[1] /\ d[3] <= c[3] - f[3] + f[2]
      /\ d[4] <= c[4] - f[4] + f[3] /\ d[5] <= c[5] - f[5] + f[4] /\ d[6] <= c[6] - f[6] + f[5]
      /\ d[7] <= c[7] - f[7] + f[6]
  BY <1>4, Ring, Wells
<1>6. \A i \in 1..7 : f[i] \in Int /\ c[i] \in Int /\ d[i] \in Int
  BY <1>3, <1>4, Wells
<1>7. /\ f[1] \in Int /\ f[2] \in Int /\ f[3] \in Int /\ f[4] \in Int /\ f[5] \in Int /\ f[6] \in Int /\ f[7] \in Int
      /\ c[1] \in Int /\ c[2] \in Int /\ c[3] \in Int /\ c[4] \in Int /\ c[5] \in Int /\ c[6] \in Int /\ c[7] \in Int
      /\ d[1] \in Int /\ d[2] \in Int /\ d[3] \in Int /\ d[4] \in Int /\ d[5] \in Int /\ d[6] \in Int /\ d[7] \in Int
  BY <1>6
<1>8. ASSUME \A w \in Well : d[w] < Capacity
      PROVE  /\ d[1] = c[1] - f[1] + f[7] /\ d[2] = c[2] - f[2] + f[1] /\ d[3] = c[3] - f[3] + f[2]
             /\ d[4] = c[4] - f[4] + f[3] /\ d[5] = c[5] - f[5] + f[4] /\ d[6] = c[6] - f[6] + f[5]
             /\ d[7] = c[7] - f[7] + f[6]
  BY <1>4, <1>8, Ring, Wells
<1>9. d[1] + d[2] + d[3] + d[4] + d[5] + d[6] + d[7] <= c[1] + c[2] + c[3] + c[4] + c[5] + c[6] + c[7]
  BY <1>5, <1>7
<1>10. ASSUME \A w \in Well : d[w] < Capacity
       PROVE  d[1] + d[2] + d[3] + d[4] + d[5] + d[6] + d[7] = c[1] + c[2] + c[3] + c[4] + c[5] + c[6] + c[7]
  <2>1. /\ d[1] = c[1] - f[1] + f[7] /\ d[2] = c[2] - f[2] + f[1] /\ d[3] = c[3] - f[3] + f[2]
        /\ d[4] = c[4] - f[4] + f[3] /\ d[5] = c[5] - f[5] + f[4] /\ d[6] = c[6] - f[6] + f[5]
        /\ d[7] = c[7] - f[7] + f[6]
    BY <1>8, <1>10
  <2> QED BY <1>7, <2>1
<1> QED BY <1>1, <1>9, <1>10 DEF Ringed, NoneSpills

\* The herds.
LEMMA Trophic == \A m : trophic(m) \in {"Grazer", "Predator", "Apex"}
  BY DEF trophic

LEMMA RateIn ==
  ASSUME NEW m, NEW t \in Nat
  PROVE  rate(m, t) \in 0..65
<1>1. PICK a \in {50, 40, 25} : a = growth[trophic(m)]
  BY Trophic DEF growth
<1>2. PICK b \in {110, 100, 130, 80, 50} : b = season_growth[season(t)]
  BY SeasonIs DEF season_growth
<1>3. rate(m, t) = (a * b) \div 100
  BY <1>1, <1>2 DEF rate
<1> QED BY <1>3

\* What grazers breed is less than what they lack.
LEMMA BredIs ==
  ASSUME NEW m, NEW t \in Nat, NEW pop, pop[m] \in Nat
  PROVE  /\ Bred(m, pop, t) \in Int
         /\ pop[m] <= 1000 => Bred(m, pop, t) \in 0..(1000 - pop[m])
<1>1. PICK r \in 0..65 : r = rate(m, t)
  BY RateIn
<1>2. PICK p \in Nat : p = pop[m]
  OBVIOUS
<1>3. PICK n \in Nat : n = r * p
  BY <1>1
<1>4. PICK k \in Int : k = n * (1000 - p)
  OBVIOUS
<1>5. Bred(m, pop, t) = k \div 100000
  BY <1>1, <1>2, <1>3, <1>4 DEF Bred
<1>6. ASSUME p <= 1000 PROVE k \in 0..(65000 * (1000 - p))
  <2>1. n <= 65 * p /\ 65 * p <= 65000
    BY <1>3, <1>6
  <2>2. PICK lack \in Nat : lack = 1000 - p
    BY <1>6
  <2>3. k = n * lack /\ n <= 65000
    BY <1>4, <2>1, <2>2
  <2>4. n * lack <= 65000 * lack /\ n * lack >= 0
    BY <2>3
  <2> QED BY <2>2, <2>3, <2>4
<1>7. ASSUME p <= 1000 PROVE k \div 100000 \in 0..(1000 - p)
  <2>1. PICK lack \in Nat : lack = 1000 - p
    BY <1>7
  <2>2. k \in 0..(65000 * lack)
    BY <1>6, <1>7, <2>1
  <2>3. k \div 100000 \in 0..lack
    BY <2>2
  <2> QED BY <2>1, <2>3
<1> QED BY <1>2, <1>5, <1>7

LEMMA GrownIn ==
  ASSUME NEW pop \in [Mob -> 0..MaxPop], NEW m \in Mob, NEW t \in Nat
  PROVE  /\ Grown(m, pop, t) \in 0..MaxPop
         /\ m \in Grazers /\ pop[m] \in 400..1000 => Grown(m, pop, t) \in 400..1000
<1>1. MaxPop \in Nat /\ MaxPop > 1000 /\ pop[m] \in 0..MaxPop /\ pop \in [Mob -> Nat]
  BY LandAssumption
<1>2. CASE pop[m] = MaxPop
  BY <1>1, <1>2 DEF Grown
<1>3. CASE pop[m] # MaxPop /\ m \in Grazers
  <2>1. PICK b \in Int : b = Bred(m, pop, t) /\ (pop[m] <= 1000 => b \in 0..(1000 - pop[m]))
    BY <1>1, BredIs
  <2>2. Grown(m, pop, t) = Clamped(pop[m] + b, 0, MaxPop)
    BY <1>3, <2>1 DEF Grown
  <2>3. PICK p \in Nat, k \in Int : p = pop[m] /\ k = p + b
    BY <1>1, <2>1
  <2>4. Clamped(k, 0, MaxPop) \in 0..MaxPop /\ (k \in 400..1000 => Clamped(k, 0, MaxPop) = k)
    BY <1>1 DEF Clamped
  <2>5. p \in 400..1000 => k \in 400..1000
    BY <2>1, <2>3
  <2>6. Grown(m, pop, t) = Clamped(k, 0, MaxPop)
    BY <2>2, <2>3
  <2>7. pop[m] \in 400..1000 => Grown(m, pop, t) \in 400..1000
    BY <2>3, <2>4, <2>5, <2>6
  <2>8. Grown(m, pop, t) \in 0..MaxPop
    BY <2>4, <2>6
  <2> QED BY <2>7, <2>8
<1>4. CASE pop[m] # MaxPop /\ m \notin Grazers
  <2> PICK s \in 0..1000 : s = Support(pop, m)
    BY <1>1, SupportIn
  <2>1. PICK r \in 0..65, p \in Nat : r = rate(m, t) /\ p = pop[m]
    BY <1>1, RateIn
  <2>2. PICK n \in Int : n = r * p * (s - 500)
    BY <2>1
  <2>3. PICK k \in Int : k = p + n \div 100000 - (2 * p) \div 100
    BY <2>1, <2>2
  <2>4. Grown(m, pop, t) = Clamped(k, 0, MaxPop)
    BY <1>4, <2>1, <2>2, <2>3 DEF Grown
  <2> QED BY <1>1, <1>4, <2>4 DEF Clamped
<1> QED BY <1>2, <1>3, <1>4

LEMMA BredIn ==
  ASSUME NEW pop \in [Mob -> 0..MaxPop], NEW t \in Nat
  PROVE  /\ Day_bred(pop, t) \in [Mob -> 0..MaxPop]
         /\ \A m \in Grazers : pop[m] \in 400..1000 => Day_bred(pop, t)[m] \in 400..1000
<1>1. \A m \in Mob : Grown(m, pop, t) \in 0..MaxPop
  BY GrownIn
<1>2. \A m \in Grazers : m \in Mob /\ (pop[m] \in 400..1000 => Grown(m, pop, t) \in 400..1000)
  BY GrownIn DEF Grazers
<1> QED BY <1>1, <1>2 DEF Day_bred

\* Listing a finite set gives its elements.
LEMMA Listing ==
  ASSUME NEW S, IsFiniteSet(S)
  PROVE  SetToSeq(S) \in Seq(S)
<1>1. PICK n \in Nat : ExistsBijection(1..n, S)
  BY FS_NatBijection
<1>2. Cardinality(S) = n
  BY <1>1, FS_CountingElements
<1>3. PICK f \in Bijection(1..n, S) : TRUE
  BY <1>1 DEF ExistsBijection
<1>4. f \in [1..Cardinality(S) -> S] /\ IsInjective(f)
  BY <1>2, <1>3 DEF Bijection, Injection, Surjection, IsInjective
<1>5. SetToSeq(S) \in [1..Cardinality(S) -> S]
  BY <1>4, Zenon DEF SetToSeq
<1> QED BY <1>2, <1>5, SeqDef, Zenon

-----------------------------------------------------------------------------
(* A soul, and what each call makes of it.                                  *)

\* A throw is below its last argument, the throws that choose a star and a
\* nature being the ones it matters for.
Fair ==
  \A t \in Nat, p \in Player : /\ Dice(t, <<"star", p>>, 7) \in 0..6
                             /\ Dice(t, <<"loyalty", p>>, 100) \in 0..99

\* Who or what a mark is about.
Subject == Player \cup Mob \cup {StarElements[k] : k \in 1..7}
Mark == [mark : {"Constellation", "HallowedGround", "HauntedGround", "NamedFoeRises"}, of : Subject]
Told == [about : Player, mark : Mark]
Lit == [element : Subject, brightness : 60..200]
Measure == 0..1000
Mage == [elements : [School -> Measure], corruption : Measure, places : [Well -> Measure]]
SeasonNames == {"Kindling", "Highsun", "Emberfall", "Duskwane", "LongDark"}
FestivalNames == {festival(t) : t \in Nat} \cup {NoFestival}
Souls ==
  [tick : Nat, charge : [Well -> 0..Capacity], holder : [Well -> Player \cup {NoOne}],
   pop : [Mob -> 0..MaxPop], last_day : Nat, renown : [Player -> Nat], legends : Seq(Told),
   threshold : Nat, stars : Seq(Lit), pending : Seq(Mark), last_season : SeasonNames,
   last_festival : FestivalNames, attuned : [Player -> Mage]]

\* What holds of a soul whatever is done to it.
HerdsHold(w) == \A m \in Grazers : w.pop[m] \in 400..1000
BarRaised(w) == w.threshold = Bar[Len(w.legends)] /\ w.threshold >= 10000
UpToDate(w) == w.tick > 0 => w.last_season = season(w.tick) /\ w.last_festival = festival(w.tick)
Whole(w) == w \in Souls /\ HerdsHold(w) /\ BarRaised(w) /\ UpToDate(w)

\* What slaying alone keeps.
Scarce(w) == w.legends # <<>> => \E p \in Player : w.renown[p] >= Bar[Len(w.legends) - 1]

\* The parts of a soul that its own clock moves, and those that deeds move.
SameClock(w, x) ==
  /\ x.tick = w.tick /\ x.last_season = w.last_season /\ x.last_festival = w.last_festival
  /\ x.pop = w.pop
SameLore(w, x) == x.renown = w.renown /\ x.legends = w.legends /\ x.threshold = w.threshold

IsSoul(x) ==
  x = [tick |-> x.tick, charge |-> x.charge, holder |-> x.holder, pop |-> x.pop,
       last_day |-> x.last_day, renown |-> x.renown, legends |-> x.legends, threshold |-> x.threshold,
       stars |-> x.stars, pending |-> x.pending, last_season |-> x.last_season, last_festival |-> x.last_festival,
       attuned |-> x.attuned]
Typed(w) ==
  /\ w.tick \in Nat /\ w.charge \in [Well -> 0..Capacity] /\ w.holder \in [Well -> Player \cup {NoOne}]
  /\ w.pop \in [Mob -> 0..MaxPop] /\ w.last_day \in Nat /\ w.renown \in [Player -> Nat]
  /\ w.legends \in Seq(Told) /\ w.threshold \in Nat /\ w.stars \in Seq(Lit)
  /\ w.pending \in Seq(Mark) /\ w.last_season \in SeasonNames
  /\ w.last_festival \in FestivalNames /\ w.attuned \in [Player -> Mage]

LEMMA FreshIs == Whole(Fresh) /\ Scarce(Fresh) /\ Fresh.tick = 0
<1>1. Fresh \in Souls
  <2>1. Capacity \div 2 \in 0..Capacity /\ 400 \in 0..MaxPop /\ 0 \in 0..1000
    <3>1. \A c \in Nat : c \div 2 \in 0..c
      OBVIOUS
    <3>2. Capacity \div 2 \in 0..Capacity
      BY <3>1, CapacityIs
    <3> QED BY <3>2, LandAssumption
  <2>2. Unpractised \in Mage
    BY <2>1 DEF Unpractised, Mage, Measure
  <2>3. Fresh.charge \in [Well -> 0..Capacity] /\ Fresh.pop \in [Mob -> 0..MaxPop]
    BY <2>1 DEF Fresh
  <2>4. Fresh.holder \in [Well -> Player \cup {NoOne}] /\ Fresh.renown \in [Player -> Nat]
    BY DEF Fresh
  <2>5. Fresh.legends \in Seq(Told) /\ Fresh.stars \in Seq(Lit) /\ Fresh.pending \in Seq(Mark)
    BY DEF Fresh
  <2>6. Fresh.attuned \in [Player -> Mage]
    BY <2>2 DEF Fresh
  <2>7. Fresh.last_season \in SeasonNames /\ Fresh.last_festival \in FestivalNames
    BY DEF Fresh, SeasonNames, FestivalNames
  <2>8. Fresh.tick \in Nat /\ Fresh.last_day \in Nat /\ Fresh.threshold \in Nat
    BY DEF Fresh
  <2>9. Fresh = [tick |-> Fresh.tick, charge |-> Fresh.charge, holder |-> Fresh.holder,
                 pop |-> Fresh.pop, last_day |-> Fresh.last_day, renown |-> Fresh.renown,
                 legends |-> Fresh.legends, threshold |-> Fresh.threshold, stars |-> Fresh.stars,
                 pending |-> Fresh.pending, last_season |-> Fresh.last_season,
                 last_festival |-> Fresh.last_festival, attuned |-> Fresh.attuned]
    BY DEF Fresh
  <2> HIDE DEF Fresh
  <2> QED BY <2>3, <2>4, <2>5, <2>6, <2>7, <2>8, <2>9 DEF Souls
<1>2. HerdsHold(Fresh)
  BY DEF HerdsHold, Fresh, Grazers
<1>3. BarRaised(Fresh)
  <2>1. Fresh.legends = <<>> /\ Fresh.threshold = 10000 /\ Bar[0] = 10000
    BY BarIs DEF Fresh
  <2> QED BY <2>1 DEF BarRaised
<1>4. UpToDate(Fresh) /\ Scarce(Fresh) /\ Fresh.tick = 0
  BY DEF UpToDate, Scarce, Fresh
<1> QED BY <1>1, <1>2, <1>3, <1>4 DEF Whole

\* A soul is its parts.
LEMMA Parts ==
  ASSUME NEW w \in Souls
  PROVE  Typed(w) /\ IsSoul(w)
<1>1. Typed(w)
  BY DEF Souls, Typed
<1>2. IsSoul(w)
  BY DEF Souls, IsSoul
<1> QED BY <1>1, <1>2

LEMMA FromParts ==
  ASSUME NEW x, IsSoul(x), Typed(x)
  PROVE  x \in Souls
  BY DEF Souls, Typed, IsSoul

LEMMA Fields ==
  ASSUME NEW w \in Souls
  PROVE  DOMAIN w = {"tick", "charge", "holder", "pop", "last_day", "renown", "legends", "threshold",
                     "stars", "pending", "last_season", "last_festival", "attuned"}
  BY DEF Souls

LEMMA Advanced ==
  ASSUME NEW w, Whole(w), NEW t \in Nat, t > w.tick, NEW x, x = advance(w, t)
  PROVE  /\ Whole(x) /\ x.tick = t /\ SameLore(w, x) /\ x.stars = w.stars
         /\ w.tick > 0 => x.charge = Breathed(w.charge, t, t - w.tick)
<1> DEFINE ticks == IF w.tick = 0 THEN Min({t, 128}) ELSE t - w.tick
           dawns == Day(t) # w.last_day
           next == IF dawns THEN Day_bred(w.pop, t) ELSE w.pop
           brood == {m \in Mob : dawns /\ Mutates(m, next, t)}
           risen == {NamedFoe(m) : m \in brood}
           charge == Breathed(w.charge, t, ticks)
           latched == Latched(w.last_festival, festival(t))
<1>1. w \in Souls /\ HerdsHold(w) /\ BarRaised(w) /\ w.tick \in Nat /\ ~ Passed(w, t)
  BY Parts DEF Whole, Passed, Typed
<1>2. ticks \in Nat
  BY <1>1, MinOfTwo
<1>3. charge \in [Well -> 0..Capacity]
  BY <1>1, <1>2, BreathedIn, Parts DEF Typed
<1>4. next \in [Mob -> 0..MaxPop] /\ \A m \in Grazers : next[m] \in 400..1000
  <2>1. w.pop \in [Mob -> 0..MaxPop] /\ \A m \in Grazers : w.pop[m] \in 400..1000
    BY <1>1, Parts DEF HerdsHold, Typed
  <2>2. PICK pop : pop = Day_bred(w.pop, t)
    OBVIOUS
  <2>4. /\ pop \in [Mob -> 0..MaxPop]
        /\ \A m \in Grazers : w.pop[m] \in 400..1000 => pop[m] \in 400..1000
    <3>1. Day_bred(w.pop, t) \in [Mob -> 0..MaxPop]
      BY <2>1, BredIn
    <3>2. \A m \in Grazers : w.pop[m] \in 400..1000 => Day_bred(w.pop, t)[m] \in 400..1000
      BY <2>1, BredIn, ZenonT(60)
    <3> QED BY <2>2, <3>1, <3>2
  <2>3. next = pop \/ next = w.pop
    BY <2>2
  <2> HIDE DEF next
  <2> QED BY <2>1, <2>4, <2>3
<1>5. w.pending \o SetToSeq(risen) \in Seq(Mark)
  <2>1. risen \subseteq Mark
    BY DEF NamedFoe, Mark, Subject
  <2>2. IsFiniteSet(risen)
    <3>1. IsFiniteSet(brood)
      BY LandAssumption, FS_Subset
    <3> HIDE DEF brood
    <3> DEFINE name == [m \in brood |-> NamedFoe(m)]
    <3>2. name \in Surjection(brood, risen)
      BY DEF Surjection
    <3> HIDE DEF name, risen
    <3> QED BY <3>1, <3>2, FS_Surjection
  <2>3. SetToSeq(risen) \in Seq(risen)
    BY <2>2, Listing
  <2>4. SetToSeq(risen) \in Seq(Mark)
    BY <2>1, <2>3, SeqMonotonic
  <2> QED BY <1>1, <2>4, Parts, ConcatProperties DEF Typed
<1>6. latched = festival(t) /\ festival(t) \in FestivalNames /\ season(t) \in SeasonNames /\ Day(t) \in Nat
  BY SeasonIs, Year DEF Latched, FestivalNames, SeasonNames
<1>7. x = [w EXCEPT !.tick = t, !.charge = charge, !.pop = next, !.last_day = Day(t),
                    !.pending = w.pending \o SetToSeq(risen), !.last_season = season(t),
                    !.last_festival = latched]
  BY <1>1 DEF advance
<1> HIDE DEF ticks, dawns, next, brood, risen, charge, latched
<1>9. /\ x.tick = t /\ x.charge = charge /\ x.pop = next /\ x.last_season = season(t)
      /\ x.last_festival = latched /\ x.renown = w.renown /\ x.legends = w.legends
      /\ x.threshold = w.threshold /\ x.stars = w.stars
  BY <1>1, <1>7, Fields
<1>8. x \in Souls
  <2>1. /\ x.holder = w.holder /\ x.attuned = w.attuned /\ x.last_day = Day(t)
        /\ x.pending = w.pending \o SetToSeq(risen)
    BY <1>1, <1>7, Fields
  <2>2. IsSoul(x)
    BY <1>1, <1>7, Fields DEF IsSoul
  <2>3. Typed(w)
    BY <1>1, Parts
  <2>4. Typed(x)
    BY <1>3, <1>4, <1>5, <1>6, <1>9, <2>1, <2>3 DEF Typed
  <2> QED BY <2>2, <2>4, FromParts
<1>10. HerdsHold(x) /\ BarRaised(x) /\ UpToDate(x) /\ SameLore(w, x)
  BY <1>1, <1>4, <1>6, <1>9 DEF HerdsHold, BarRaised, UpToDate, SameLore
<1>11. w.tick > 0 => charge = Breathed(w.charge, t, t - w.tick)
  BY <1>1 DEF charge, ticks
<1> QED BY <1>8, <1>9, <1>10, <1>11 DEF Whole

\* Deeds, and what they are worth.
Deed == [kind : DOMAIN facet, actor : Player, magnitude : Nat, count : Nat, renown : Nat]

LEMMA FameIs ==
  ASSUME NEW deed \in Deed
  PROVE  gained(deed) \in Nat
<1>1. PICK k \in Nat : k = weight(deed)
  <2>1. deed.count \in Nat
    BY DEF Deed
  <2> QED BY <2>1 DEF weight
<1>2. PICK m \in Nat, r \in Nat : m = deed.magnitude /\ r = deed.renown
  BY DEF Deed
<1>3. PICK n \in Nat : n = m * k
  OBVIOUS
<1>4. n \div 100 \in Nat /\ r \div 4 \in Nat
  OBVIOUS
<1> QED BY <1>1, <1>2, <1>3, <1>4 DEF gained

LEMMA MarkIs ==
  ASSUME Fair, NEW deed \in Deed, NEW t \in Nat
  PROVE  manifestation(deed, t) \in Mark
<1>1. deed.actor \in Player
  BY DEF Deed
<1>2. Dice(t, <<"star", deed.actor>>, 7) + 1 \in 1..7
  <2>1. Dice(t, <<"star", deed.actor>>, 7) \in 0..6
    BY <1>1 DEF Fair
  <2> QED BY <2>1
<1>3. PICK k \in 1..7 : k = Dice(t, <<"star", deed.actor>>, 7) + 1
  BY <1>2
<1> QED BY <1>1, <1>3 DEF manifestation, Mark, Subject

LEMMA StarIs ==
  ASSUME NEW e \in Subject, NEW total \in Nat
  PROVE  Star(e, total) \in Lit
<1>1. PICK n \in 60..240 : n = 40 + Clamped(total \div 200, 20, 200)
  BY DEF Clamped
<1>2. Min({200, n}) \in 60..200
  BY <1>1, MinOfTwo
<1> QED BY <1>1, <1>2 DEF Star, Lit

\* What a deed makes of a soul.
Grew(w, x, deed) ==
  /\ x.renown = [w.renown EXCEPT ![deed.actor] = w.renown[deed.actor] + gained(deed)]
  /\ \/ x.legends = w.legends
     \/ /\ \E told \in Told : x.legends = Append(w.legends, told)
        /\ \/ w.renown[deed.actor] + gained(deed) >= w.threshold
           \/ mythic(deed, w.threshold)

LEMMA Recorded ==
  ASSUME Fair, NEW w, Whole(w), NEW deed \in Deed, NEW t \in Nat, NEW x, x = record_deed(w, deed, t)
  PROVE  Whole(x) /\ SameClock(w, x) /\ x.charge = w.charge /\ Grew(w, x, deed)
<1> DEFINE total == w.renown[deed.actor] + gained(deed)
           known == [w EXCEPT !.renown[deed.actor] = total]
           m == manifestation(deed, t)
           told == [known EXCEPT
                      !.legends = Append(@, [about |-> deed.actor, mark |-> m]),
                      !.threshold = Raised(@)]
<1>1. w \in Souls /\ IsSoul(w) /\ Typed(w) /\ HerdsHold(w) /\ BarRaised(w) /\ UpToDate(w)
  BY Parts DEF Whole
<1>2. deed.actor \in Player /\ total \in Nat /\ m \in Mark
  BY <1>1, FameIs, MarkIs DEF Deed, Typed
<1>3. \/ /\ ~(total >= w.threshold \/ mythic(deed, w.threshold))
         /\ x = known
      \/ /\ total >= w.threshold \/ mythic(deed, w.threshold)
         /\ \/ m.mark = "Constellation" /\ x = [told EXCEPT !.stars = Append(@, Star(m.of, total))]
            \/ x = [told EXCEPT !.pending = Append(@, m)]
  BY DEF record_deed
<1>4. PICK rn : rn = [w.renown EXCEPT ![deed.actor] = total]
  OBVIOUS
<1>5. rn \in [Player -> Nat]
  BY <1>1, <1>2, <1>4 DEF Typed
<1>6. known = [w EXCEPT !.renown = rn]
  BY <1>1, <1>4, Fields
<1>7. PICK legend \in Told : legend = [about |-> deed.actor, mark |-> m]
  BY <1>2 DEF Told
<1>8. PICK ls : ls = Append(w.legends, legend)
  OBVIOUS
<1>9. ls \in Seq(Told) /\ Len(ls) = Len(w.legends) + 1 /\ Len(w.legends) \in Nat
  BY <1>1, <1>8, AppendProperties, LenProperties DEF Typed
<1>10. PICK bar : bar = Raised(w.threshold)
  OBVIOUS
<1>11. bar \in Nat /\ bar >= 10000 /\ bar = Bar[Len(ls)]
  <2>1. PICK n \in Nat, b \in Nat : n = Len(w.legends) /\ b = w.threshold /\ b = Bar[n] /\ b >= 10000
    BY <1>1, <1>9 DEF BarRaised, Typed
  <2>2. Bar[n + 1] = (b * 115) \div 100 /\ bar = (b * 115) \div 100
    <3>1. Bar[n + 1] = (Bar[n] * 115) \div 100
      BY BarIs
    <3>2. bar = (b * 115) \div 100
      BY <1>10, <2>1 DEF Raised
    <3>3. Bar[n] = b
      BY <2>1
    <3> QED BY <3>1, <3>2, <3>3
  <2>3. (b * 115) \div 100 \in Nat /\ (b * 115) \div 100 >= 10000
    BY <2>1
  <2> QED BY <1>9, <2>1, <2>2, <2>3
<1>12. told = [w EXCEPT !.renown = rn, !.legends = ls, !.threshold = bar]
  BY <1>1, <1>6, <1>7, <1>8, <1>10, Fields
<1>13. Append(w.pending, m) \in Seq(Mark)
  BY <1>1, <1>2, AppendProperties DEF Typed
<1>14. m \in Mark => Append(w.stars, Star(m.of, total)) \in Seq(Lit)
  <2>1. m.of \in Subject
    BY <1>2 DEF Mark
  <2>2. Star(m.of, total) \in Lit
    BY <1>2, <2>1, StarIs
  <2> QED BY <1>1, <2>2, AppendProperties DEF Typed
<1> HIDE DEF total, known, m, told
<1>15. ASSUME x = known PROVE Whole(x) /\ SameClock(w, x) /\ x.charge = w.charge /\ Grew(w, x, deed)
  <2>1. /\ x.tick = w.tick /\ x.charge = w.charge /\ x.holder = w.holder /\ x.pop = w.pop
        /\ x.last_day = w.last_day /\ x.renown = rn /\ x.legends = w.legends
        /\ x.threshold = w.threshold /\ x.stars = w.stars /\ x.pending = w.pending
        /\ x.last_season = w.last_season /\ x.last_festival = w.last_festival
        /\ x.attuned = w.attuned
    BY <1>1, <1>6, <1>15, Fields
  <2>2. IsSoul(x)
    BY <1>1, <1>6, <1>15, Fields DEF IsSoul
  <2>3. Typed(x)
    BY <1>1, <1>5, <2>1 DEF Typed
  <2>4. HerdsHold(x) /\ BarRaised(x) /\ UpToDate(x)
    BY <1>1, <2>1 DEF HerdsHold, BarRaised, UpToDate
  <2>5. Grew(w, x, deed)
    BY <1>4, <2>1 DEF Grew, total
  <2> QED BY <2>1, <2>2, <2>3, <2>4, <2>5, FromParts DEF Whole, SameClock
<1>16. ASSUME total >= w.threshold \/ mythic(deed, w.threshold),
              NEW ss \in Seq(Lit), NEW ps \in Seq(Mark), x = [told EXCEPT !.stars = ss, !.pending = ps]
       PROVE  Whole(x) /\ SameClock(w, x) /\ x.charge = w.charge /\ Grew(w, x, deed)
  <2>1. /\ x.tick = w.tick /\ x.charge = w.charge /\ x.holder = w.holder /\ x.pop = w.pop
        /\ x.last_day = w.last_day /\ x.renown = rn /\ x.legends = ls
        /\ x.threshold = bar /\ x.stars = ss /\ x.pending = ps
        /\ x.last_season = w.last_season /\ x.last_festival = w.last_festival
        /\ x.attuned = w.attuned
    BY <1>1, <1>12, <1>16, Fields
  <2>2. IsSoul(x)
    BY <1>1, <1>12, <1>16, Fields DEF IsSoul
  <2>3. Typed(x)
    BY <1>1, <1>5, <1>9, <1>11, <1>16, <2>1, SMTT(30) DEF Typed
  <2>4. HerdsHold(x) /\ BarRaised(x) /\ UpToDate(x)
    BY <1>1, <1>11, <2>1 DEF HerdsHold, BarRaised, UpToDate
  <2>5. Grew(w, x, deed)
    BY <1>4, <1>7, <1>8, <1>16, <2>1 DEF Grew, total
  <2> QED BY <2>1, <2>2, <2>3, <2>4, <2>5, FromParts DEF Whole, SameClock
<1>17. told.stars = w.stars /\ told.pending = w.pending /\ DOMAIN told = DOMAIN w
  BY <1>1, <1>12, Fields
<1>18. ASSUME NEW v PROVE /\ [told EXCEPT !.stars = v] = [told EXCEPT !.stars = v, !.pending = w.pending]
                          /\ [told EXCEPT !.pending = v] = [told EXCEPT !.stars = w.stars, !.pending = v]
  BY <1>1, <1>12, <1>17, Fields
<1>19. CASE x = [told EXCEPT !.stars = Append(@, Star(m.of, total))]
               /\ (total >= w.threshold \/ mythic(deed, w.threshold))
  BY <1>1, <1>2, <1>14, <1>16, <1>17, <1>18, <1>19 DEF Typed
<1>20. CASE x = [told EXCEPT !.pending = Append(@, m)]
               /\ (total >= w.threshold \/ mythic(deed, w.threshold))
  BY <1>1, <1>13, <1>16, <1>17, <1>18, <1>20 DEF Typed
<1> QED BY <1>3, <1>15, <1>19, <1>20

\* A slaying makes a legend only where one has the renown for it.
LEMMA SlainScarce ==
  ASSUME NEW w, Whole(w), Scarce(w), NEW deed \in Deed, deed.kind = "Slay",
         deed.renown = 0 \/ \E v \in Player : deed.renown = w.renown[v],
         NEW x, Grew(w, x, deed)
  PROVE  Scarce(x)
<1>1. w \in Souls /\ Typed(w) /\ BarRaised(w)
  BY Parts DEF Whole
<1>2. deed.actor \in Player /\ gained(deed) \in Nat /\ w.renown \in [Player -> Nat]
  BY <1>1, FameIs DEF Deed, Typed
<1>3. \A p \in Player : x.renown[p] \in Nat /\ x.renown[p] >= w.renown[p]
  BY <1>2 DEF Grew
<1>4. x.renown[deed.actor] = w.renown[deed.actor] + gained(deed)
  BY <1>2 DEF Grew
<1>5. CASE x.legends = w.legends
  <2>1. Len(w.legends) \in Nat
    BY <1>1, LenProperties DEF Typed
  <2> SUFFICES ASSUME w.legends # <<>>
               PROVE  \E p \in Player : x.renown[p] >= Bar[Len(w.legends) - 1]
    BY <1>5 DEF Scarce
  <2>2. PICK p \in Player : w.renown[p] >= Bar[Len(w.legends) - 1]
    BY DEF Scarce
  <2>3. Bar[Len(w.legends) - 1] \in Int
    <3>1. Len(w.legends) # 0
      BY <1>1, EmptySeq, LenProperties DEF Typed
    <3> QED BY <2>1, <3>1, BarInt
  <2> QED BY <1>2, <1>3, <2>2, <2>3
<1>6. ASSUME NEW told \in Told, x.legends = Append(w.legends, told),
             \/ w.renown[deed.actor] + gained(deed) >= w.threshold
             \/ mythic(deed, w.threshold)
      PROVE  Scarce(x)
  <2>1. Len(x.legends) - 1 = Len(w.legends)
    BY <1>1, <1>6, AppendProperties, LenProperties DEF Typed
  <2>2. Bar[Len(x.legends) - 1] = w.threshold /\ w.threshold \in Nat /\ w.threshold >= 10000
    BY <1>1, <2>1, SMTT(30) DEF BarRaised, Typed
  <2>3. CASE w.renown[deed.actor] + gained(deed) >= w.threshold
    BY <1>2, <1>4, <2>2, <2>3 DEF Scarce
  <2>4. CASE mythic(deed, w.threshold)
    <3>1. deed.renown >= w.threshold
      BY <2>4 DEF mythic
    <3>2. PICK v \in Player : deed.renown = w.renown[v]
      BY <2>2, <3>1
    <3>3. x.renown[v] >= w.threshold
      BY <1>2, <1>3, <2>2, <3>1, <3>2
    <3> QED BY <2>2, <3>3 DEF Scarce
  <2> QED BY <1>6, <2>3, <2>4
<1> QED BY <1>5, <1>6 DEF Grew

\* A mage stays within measure.
LEMMA Between == \A x \in Int : Clamped(x, 0, 1000) \in Measure
  BY DEF Clamped, Measure

LEMMA MeasureInt == \A n \in Measure : n \in Int
  BY DEF Measure

LEMMA MageParts ==
  ASSUME NEW a \in Mage
  PROVE  /\ a.elements \in [School -> Measure] /\ a.corruption \in Measure
         /\ a.places \in [Well -> Measure] /\ DOMAIN a = {"elements", "corruption", "places"}
<1>1. a.elements \in [School -> Measure]
  BY DEF Mage
<1>2. a.corruption \in Measure
  BY DEF Mage
<1>3. a.places \in [Well -> Measure]
  BY DEF Mage
<1>4. DOMAIN a = {"elements", "corruption", "places"}
  BY DEF Mage
<1> QED BY <1>1, <1>2, <1>3, <1>4

IsMage(x) == x = [elements |-> x.elements, corruption |-> x.corruption, places |-> x.places]

LEMMA MageRecord == ASSUME NEW a \in Mage PROVE IsMage(a)
  BY DEF Mage, IsMage

LEMMA MageIs ==
  ASSUME NEW x, IsMage(x), x.elements \in [School -> Measure], x.corruption \in Measure,
         x.places \in [Well -> Measure]
  PROVE  x \in Mage
  BY DEF Mage, IsMage

LEMMA PractisedIn ==
  ASSUME NEW a \in Mage, NEW element, NEW tenths \in Nat
  PROVE  practised(a, element, tenths) \in Mage
<1>1. a.elements \in [School -> Measure] /\ a.corruption \in Measure /\ a.places \in [Well -> Measure]
  BY MageParts
<1>2. PICK taught : taught = Clamped(a.elements[element] + (tenths * (1000 - a.elements[element])) \div 1000, 0, 1000)
  OBVIOUS
<1>3. element \in School => taught \in Measure
  <2> SUFFICES ASSUME element \in School PROVE taught \in Measure
    OBVIOUS
  <2>1. PICK e \in Int : e = a.elements[element]
    BY <1>1, MeasureInt
  <2>2. PICK n \in Int : n = tenths * (1000 - e)
    OBVIOUS
  <2>3. PICK k \in Int : k = e + n \div 1000
    BY <2>1, <2>2
  <2>4. taught = Clamped(k, 0, 1000)
    BY <1>2, <2>1, <2>2, <2>3
  <2> QED BY <2>4, Between
<1>4. PICK stained : stained = IF is_dark(element)
                               THEN Clamped(a.corruption + (tenths * 2) \div 5, 0, 1000)
                               ELSE Clamped(a.corruption - tenths \div 10, 0, 1000)
  OBVIOUS
<1>5. stained \in Measure
  <2>1. PICK c \in Int : c = a.corruption
    BY <1>1, MeasureInt
  <2>2. PICK up \in Int : up = c + (tenths * 2) \div 5
    OBVIOUS
  <2>3. PICK down \in Int : down = c - tenths \div 10
    OBVIOUS
  <2>4. stained = Clamped(up, 0, 1000) \/ stained = Clamped(down, 0, 1000)
    BY <1>4, <2>1, <2>2, <2>3
  <2> QED BY <2>4, Between
<1>6. PICK es : es = [a.elements EXCEPT ![element] = taught]
  OBVIOUS
<1>7. es \in [School -> Measure]
  BY <1>1, <1>3, <1>6
<1>8. practised(a, element, tenths) = [a EXCEPT !.elements = es, !.corruption = stained]
  BY <1>2, <1>4, <1>6, MageParts DEF practised
<1>9. PICK x : x = practised(a, element, tenths)
  OBVIOUS
<1>10. x.elements = es /\ x.corruption = stained /\ x.places = a.places
  BY <1>8, <1>9, MageParts
<1>12. IsMage(x)
  BY <1>8, <1>9, MageParts, MageRecord DEF IsMage
<1>11. x \in Mage
  BY <1>1, <1>5, <1>7, <1>10, <1>12, MageIs
<1> QED BY <1>9, <1>11

LEMMA DecayedIn ==
  ASSUME NEW a \in Mage
  PROVE  decayed(a) \in Mage
<1>1. a.elements \in [School -> Measure] /\ a.corruption \in Measure /\ a.places \in [Well -> Measure]
  BY MageParts
<1>2. PICK es : es = [e \in DOMAIN a.elements |-> Clamped(a.elements[e] - 5, 0, 1000)]
  OBVIOUS
<1>3. es \in [School -> Measure]
  <2>1. \A e \in School : Clamped(a.elements[e] - 5, 0, 1000) \in Measure
    <3> TAKE e \in School
    <3>1. a.elements[e] - 5 \in Int
      BY <1>1, MeasureInt
    <3> QED BY <3>1, Between
  <2> QED BY <1>1, <1>2, <2>1
<1>4. PICK c : c = Clamped(a.corruption - 1, 0, 1000)
  OBVIOUS
<1>5. c \in Measure
  <2>1. a.corruption - 1 \in Int
    BY <1>1, MeasureInt
  <2> QED BY <1>4, <2>1, Between
<1>6. decayed(a) = [a EXCEPT !.elements = es, !.corruption = c]
  BY <1>2, <1>4 DEF decayed
<1>7. PICK x : x = decayed(a)
  OBVIOUS
<1>8. x.elements = es /\ x.corruption = c /\ x.places = a.places
  BY <1>6, <1>7, MageParts
<1>10. IsMage(x)
  BY <1>6, <1>7, MageParts, MageRecord DEF IsMage
<1>9. x \in Mage
  BY <1>1, <1>3, <1>5, <1>8, <1>10, MageIs
<1> QED BY <1>7, <1>9

LEMMA VisitedIn ==
  ASSUME NEW a \in Mage, NEW w, NEW amount \in Nat
  PROVE  visited(a, w, amount) \in Mage
<1>1. a.elements \in [School -> Measure] /\ a.corruption \in Measure /\ a.places \in [Well -> Measure]
  BY MageParts
<1>2. PICK c : c = Clamped(a.places[w] + amount, 0, 1000)
  OBVIOUS
<1>3. w \in Well => c \in Measure
  <2> SUFFICES ASSUME w \in Well PROVE c \in Measure
    OBVIOUS
  <2>1. PICK n \in Int : n = a.places[w]
    BY <1>1, MeasureInt
  <2>2. n + amount \in Int
    OBVIOUS
  <2> QED BY <1>2, <2>1, <2>2, Between
<1>4. PICK ps : ps = [a.places EXCEPT ![w] = c]
  OBVIOUS
<1>5. ps \in [Well -> Measure]
  BY <1>1, <1>3, <1>4
<1>6. visited(a, w, amount) = [a EXCEPT !.places = ps]
  BY <1>2, <1>4, MageParts DEF visited
<1>7. PICK x : x = visited(a, w, amount)
  OBVIOUS
<1>8. x.elements = a.elements /\ x.corruption = a.corruption /\ x.places = ps
  BY <1>6, <1>7, MageParts
<1>10. IsMage(x)
  BY <1>6, <1>7, MageParts, MageRecord DEF IsMage
<1>9. x \in Mage
  BY <1>1, <1>5, <1>8, <1>10, MageIs
<1> QED BY <1>7, <1>9

LEMMA AffinityIn ==
  ASSUME NEW a \in Mage, NEW e \in School
  PROVE  affinity_mult(a, e) \in 100..155
<1>1. a.elements[e] \in 0..1000 /\ a.corruption \in 0..1000
  BY MageParts DEF Measure
<1>2. PICK n \in 0..1000, c \in 0..1000 : n = a.elements[e] /\ c = a.corruption
  BY <1>1, ZenonT(60)
<1>3. PICK i \in 0..25 : i = n \div 40
  BY <1>2, SMTT(30)
<1> PICK j \in 0..30 : j = (c * 3) \div 100
  BY <1>2
<1>4. affinity_mult(a, e) = 100 + i + (IF is_dark(e) THEN j ELSE 0)
  BY <1>2, <1>3 DEF affinity_mult
<1> QED BY <1>4

\* A soul in which only the practice of its mages, or its wells, changed.
LEMMA Attuning ==
  ASSUME NEW w, Whole(w), NEW p \in Player, NEW a \in Mage, NEW x, x = [w EXCEPT !.attuned[p] = a]
  PROVE  Whole(x) /\ SameClock(w, x) /\ SameLore(w, x) /\ x.charge = w.charge
<1>1. w \in Souls /\ IsSoul(w) /\ Typed(w) /\ HerdsHold(w) /\ BarRaised(w) /\ UpToDate(w)
  BY Parts DEF Whole
<1>2. PICK at : at = [w.attuned EXCEPT ![p] = a]
  OBVIOUS
<1>3. at \in [Player -> Mage]
  BY <1>1, <1>2 DEF Typed
<1>4. x = [w EXCEPT !.attuned = at]
  BY <1>1, <1>2, Fields
<1>5. /\ x.tick = w.tick /\ x.charge = w.charge /\ x.holder = w.holder /\ x.pop = w.pop
      /\ x.last_day = w.last_day /\ x.renown = w.renown /\ x.legends = w.legends
      /\ x.threshold = w.threshold /\ x.stars = w.stars /\ x.pending = w.pending
      /\ x.last_season = w.last_season /\ x.last_festival = w.last_festival /\ x.attuned = at
  BY <1>1, <1>4, Fields
<1>6. IsSoul(x)
  BY <1>1, <1>4, Fields DEF IsSoul
<1>7. Typed(x)
  BY <1>1, <1>3, <1>5 DEF Typed
<1>8. HerdsHold(x) /\ BarRaised(x) /\ UpToDate(x)
  BY <1>1, <1>5 DEF HerdsHold, BarRaised, UpToDate
<1> QED BY <1>5, <1>6, <1>7, <1>8, FromParts DEF Whole, SameClock, SameLore

Altered(w, x, cs, hs, ps) == x = [w EXCEPT !.charge = cs, !.holder = hs, !.pending = ps]

LEMMA Welling ==
  ASSUME NEW w, Whole(w), NEW cs \in [Well -> 0..Capacity], NEW hs \in [Well -> Player \cup {NoOne}],
         NEW ps \in Seq(Mark), NEW x, Altered(w, x, cs, hs, ps)
  PROVE  /\ Whole(x) /\ SameClock(w, x) /\ SameLore(w, x)
         /\ x.charge = cs /\ x.stars = w.stars
<1>1. w \in Souls /\ IsSoul(w) /\ Typed(w) /\ HerdsHold(w) /\ BarRaised(w) /\ UpToDate(w)
  BY Parts DEF Whole
<1>2. /\ x.tick = w.tick /\ x.charge = cs /\ x.holder = hs /\ x.pop = w.pop
      /\ x.last_day = w.last_day /\ x.renown = w.renown /\ x.legends = w.legends
      /\ x.threshold = w.threshold /\ x.stars = w.stars /\ x.pending = ps
      /\ x.last_season = w.last_season /\ x.last_festival = w.last_festival
      /\ x.attuned = w.attuned
  BY <1>1, Fields DEF Altered
<1>3. IsSoul(x)
  BY <1>1, Fields DEF IsSoul, Altered
<1>4. Typed(x)
  BY <1>1, <1>2 DEF Typed
<1>5. HerdsHold(x) /\ BarRaised(x) /\ UpToDate(x)
  BY <1>1, <1>2 DEF HerdsHold, BarRaised, UpToDate
<1> QED BY <1>2, <1>3, <1>4, <1>5, FromParts DEF Whole, SameClock, SameLore

LEMMA ManaDrawn ==
  ASSUME NEW w, Whole(w), NEW c, c.well \in Well, c.amount \in Nat, NEW x, x = draw(w, c)
  PROVE  Whole(x) /\ SameClock(w, x) /\ SameLore(w, x)
<1>1. w \in Souls /\ Typed(w)
  BY Parts DEF Whole
<1>2. PICK n \in 0..Capacity : n = w.charge[c.well]
  BY <1>1 DEF Typed
<1>3. PICK k \in 0..Capacity : k = n - Min({c.amount, n})
  <2>1. n \in Nat /\ n <= Capacity /\ Capacity \in Nat
    BY <1>2, CapacityIs
  <2>2. Min({c.amount, n}) = IF c.amount <= n THEN c.amount ELSE n
    BY <2>1, MinOfTwo
  <2> QED BY <2>1, <2>2
<1>4. PICK cs : cs = [w.charge EXCEPT ![c.well] = k]
  OBVIOUS
<1>5. cs \in [Well -> 0..Capacity] /\ w.holder \in [Well -> Player \cup {NoOne}] /\ w.pending \in Seq(Mark)
  BY <1>1, <1>3, <1>4 DEF Typed
<1>6. x = [w EXCEPT !.charge[c.well] = k]
  BY <1>2, <1>3 DEF draw
<1>7. Altered(w, x, cs, w.holder, w.pending)
  BY <1>1, <1>4, <1>6, Fields DEF Altered
<1> QED BY <1>5, <1>7, Welling

LEMMA Claimed ==
  ASSUME NEW w, Whole(w), NEW c, c.well \in Well, c.actor \in Player, NEW x, x = claim(w, c)
  PROVE  Whole(x) /\ SameClock(w, x) /\ SameLore(w, x)
<1>1. w \in Souls /\ Typed(w)
  BY Parts DEF Whole
<1>2. CASE x = w
  BY <1>2 DEF SameClock, SameLore
<1>3. CASE x = [w EXCEPT !.holder[c.well] = c.actor]
  <2>1. PICK hs : hs = [w.holder EXCEPT ![c.well] = c.actor]
    OBVIOUS
  <2>2. hs \in [Well -> Player \cup {NoOne}] /\ w.charge \in [Well -> 0..Capacity] /\ w.pending \in Seq(Mark)
    BY <1>1, <2>1 DEF Typed
  <2>3. Altered(w, x, w.charge, hs, w.pending)
    BY <1>1, <1>3, <2>1, Fields DEF Altered
  <2> QED BY <2>2, <2>3, Welling
<1> QED BY <1>2, <1>3 DEF claim

\* The omens of a soul, taken.
LEMMA Taken ==
  ASSUME NEW w, Whole(w), NEW x, x = [w EXCEPT !.pending = <<>>]
  PROVE  /\ Whole(x) /\ SameClock(w, x) /\ SameLore(w, x)
         /\ x.charge = w.charge /\ x.stars = w.stars
<1>1. w \in Souls /\ Typed(w)
  BY Parts DEF Whole
<1>2. w.holder \in [Well -> Player \cup {NoOne}] /\ w.charge \in [Well -> 0..Capacity] 
  BY <1>1 DEF Typed
<1>4. <<>> \in Seq(Mark)
  OBVIOUS
<1>5. PICK ps \in Seq(Mark) : ps = <<>>
  BY <1>4
<1>3. Altered(w, x, w.charge, w.holder, ps)
  BY <1>1, <1>5, Fields DEF Altered
<1> QED BY <1>2, <1>3, Welling

-----------------------------------------------------------------------------
(* Familiars.                                                                *)

LEMMA ReachedIs ==
  ASSUME NEW b \in Int
  PROVE  Reached(b) = IF b < 330 THEN 0 ELSE IF b < 660 THEN 1 ELSE IF b < 1000 THEN 2 ELSE 3
<1> DEFINE past == {n \in DOMAIN Milestones : b >= Milestones[n]}
<1>1. Reached(b) = Cardinality(past)
  BY DEF Reached
<1>2. \A n \in Nat : Cardinality(1..n) = n
  <2> TAKE n \in Nat
  <2>1. Cardinality(1..n) = IF 1 > n THEN 0 ELSE n - 1 + 1
    BY FS_Interval
  <2> QED BY <2>1
<1>3. past = {n \in {1, 2, 3} : b >= (IF n = 1 THEN 330 ELSE IF n = 2 THEN 660 ELSE 1000)}
  BY DEF Milestones
<1> HIDE DEF past
<1>4. CASE b < 330
  <2>1. past = 1..0
    BY <1>3, <1>4
  <2> QED BY <1>1, <1>2, <1>4, <2>1
<1>5. CASE b >= 330 /\ b < 660
  <2>1. past = 1..1
    BY <1>3, <1>5
  <2>2. Cardinality(1..1) = 1
    BY <1>2
  <2>3. Reached(b) = 1
    BY <1>1, <2>1, <2>2, Zenon
  <2> QED BY <1>5, <2>3
<1>6. CASE b >= 660 /\ b < 1000
  <2>1. past = 1..2
    BY <1>3, <1>6
  <2>2. Cardinality(1..2) = 2
    BY <1>2
  <2>3. Reached(b) = 2
    BY <1>1, <2>1, <2>2, Zenon
  <2> QED BY <1>6, <2>3
<1>7. CASE b >= 1000
  <2>1. past = 1..3
    BY <1>3, <1>7
  <2>2. Cardinality(1..3) = 3
    BY <1>2
  <2>3. Reached(b) = 3
    BY <1>1, <2>1, <2>2, Zenon
  <2> QED BY <1>7, <2>3
<1> QED BY <1>4, <1>5, <1>6, <1>7

LEMMA ReachedUp ==
  ASSUME NEW a \in Int, NEW b \in Int, a <= b
  PROVE  Reached(a) \in Nat /\ Reached(b) \in Nat /\ Reached(a) <= Reached(b)
  BY ReachedIs

Moods == {"Content", "Fierce", "Frightened", "Excited", "Sulking", "Affectionate"}
Pets ==
  [loyalty : Nat, bold : BOOLEAN, fiery : BOOLEAN, curious : BOOLEAN, mood : Moods, bond : Measure,
   level : Nat, xp : Nat, form : Nat, tricks : Seq(Nat), evolutions : Nat]

\* One that has grown through all that a bond of b lets it.
GrownTo(f, b) ==
  /\ f.evolutions = Reached(b) /\ f.form = f.evolutions
  /\ f.form > 0 => Last(f.tricks) = f.form
Tame(f) == f \in Pets /\ GrownTo(f, f.bond)

PetParts(f) ==
  /\ f.loyalty \in Nat /\ f.bold \in BOOLEAN /\ f.fiery \in BOOLEAN /\ f.curious \in BOOLEAN
  /\ f.mood \in Moods /\ f.bond \in Measure /\ f.level \in Nat /\ f.xp \in Nat
  /\ f.form \in Nat /\ f.tricks \in Seq(Nat) /\ f.evolutions \in Nat
IsPet(f) ==
  f = [loyalty |-> f.loyalty, bold |-> f.bold, fiery |-> f.fiery, curious |-> f.curious,
       mood |-> f.mood, bond |-> f.bond, level |-> f.level, xp |-> f.xp, form |-> f.form,
       tricks |-> f.tricks, evolutions |-> f.evolutions]

LEMMA PetIs == ASSUME NEW f \in Pets PROVE PetParts(f) /\ IsPet(f)
<1>1. PetParts(f)
  BY DEF Pets, PetParts
<1>2. IsPet(f)
  BY DEF Pets, IsPet
<1> QED BY <1>1, <1>2

LEMMA PetFields ==
  ASSUME NEW f \in Pets
  PROVE  DOMAIN f = {"loyalty", "bold", "fiery", "curious", "mood", "bond", "level", "xp", "form",
                     "tricks", "evolutions"}
  BY DEF Pets

LEMMA PetFrom == ASSUME NEW f, PetParts(f), IsPet(f) PROVE f \in Pets
  BY DEF Pets, PetParts, IsPet

LEMMA Evolves ==
  ASSUME NEW f \in Pets, NEW b \in Int, b <= f.bond, GrownTo(f, b)
  PROVE  Tame(maybe_evolve(f))
<1>1. PetParts(f) /\ IsPet(f) /\ f.bond \in Int
  BY PetIs, MeasureInt DEF PetParts
<1>2. Reached(b) \in Nat /\ Reached(f.bond) \in Nat /\ Reached(b) <= Reached(f.bond)
  BY <1>1, ReachedUp
<1>3. CASE Reached(f.bond) <= f.evolutions
  <2>1. maybe_evolve(f) = f /\ Reached(f.bond) = Reached(b)
    BY <1>2, <1>3 DEF maybe_evolve, GrownTo
  <2> QED BY <2>1 DEF Tame, GrownTo
<1>4. CASE ~(Reached(f.bond) <= f.evolutions)
  <2>1. PICK n \in Nat : n = Reached(f.bond)
    BY <1>2
  <2>2. PICK ts : ts = Append(f.tricks, n)
    OBVIOUS
  <2>3. ts \in Seq(Nat) /\ Last(ts) = n
    <3>1. f.tricks \in Seq(Nat)
      BY <1>1 DEF PetParts
    <3>2. ts \in Seq(Nat) /\ Len(ts) = Len(f.tricks) + 1 /\ ts[Len(f.tricks) + 1] = n
      BY <2>1, <2>2, <3>1, AppendProperties
    <3> QED BY <3>2 DEF Last
  <2>4. PICK x : x = maybe_evolve(f)
    OBVIOUS
  <2>5. x = [f EXCEPT !.evolutions = n, !.form = n, !.tricks = ts]
    BY <1>1, <1>4, <2>1, <2>2, <2>4, PetFields DEF maybe_evolve, Stage
  <2>6. /\ x.loyalty = f.loyalty /\ x.bold = f.bold /\ x.fiery = f.fiery /\ x.curious = f.curious
        /\ x.mood = f.mood /\ x.bond = f.bond /\ x.level = f.level /\ x.xp = f.xp
        /\ x.form = n /\ x.tricks = ts /\ x.evolutions = n
    BY <2>5, PetFields
  <2>7. IsPet(x)
    BY <1>1, <2>5, PetFields DEF IsPet
  <2>8. PetParts(x)
    BY <1>1, <2>3, <2>6 DEF PetParts
  <2>9. x \in Pets
    BY <2>7, <2>8, PetFrom
  <2>10. GrownTo(x, x.bond)
    BY <2>1, <2>3, <2>6 DEF GrownTo
  <2> QED BY <2>4, <2>9, <2>10 DEF Tame
<1> QED BY <1>3, <1>4

\* A closer bond, a spurt of experience, another mood: what it has grown
\* through is the same.
Closer(f, x, c, k, n, m) == x = [f EXCEPT !.bond = c, !.level = k, !.xp = n, !.mood = m]

LEMMA Nearer ==
  ASSUME NEW f \in Pets, NEW b \in Int, b <= f.bond, GrownTo(f, b),
         NEW c \in Measure, f.bond <= c, NEW k \in Nat, NEW n \in Nat, NEW m \in Moods,
         NEW x, Closer(f, x, c, k, n, m)
  PROVE  x \in Pets /\ b <= x.bond /\ GrownTo(x, b) /\ x.bond = c
<1>1. PetParts(f) /\ IsPet(f) /\ f.bond \in Int /\ c \in Int
  BY PetIs, MeasureInt DEF PetParts
<1>2. /\ x.loyalty = f.loyalty /\ x.bold = f.bold /\ x.fiery = f.fiery /\ x.curious = f.curious
      /\ x.mood = m /\ x.bond = c /\ x.level = k /\ x.xp = n
      /\ x.form = f.form /\ x.tricks = f.tricks /\ x.evolutions = f.evolutions
  BY PetFields DEF Closer
<1>3. IsPet(x)
  BY <1>1, PetFields DEF IsPet, Closer
<1>4. PetParts(x)
  BY <1>1, <1>2 DEF PetParts
<1>5. GrownTo(x, b) /\ b <= x.bond
  BY <1>1, <1>2 DEF GrownTo
<1> QED BY <1>2, <1>3, <1>4, <1>5, PetFrom

LEMMA Hatched ==
  ASSUME Fair, NEW t \in Nat, NEW p \in Player
  PROVE  Tame(hatched(t, p))
<1>1. Dice(t, <<"loyalty", p>>, 100) \in 0..99
  BY DEF Fair
<1>2. PICK f : f = hatched(t, p)
  OBVIOUS
<1>7. f.bold \in BOOLEAN /\ f.fiery \in BOOLEAN /\ f.curious \in BOOLEAN
  BY <1>2 DEF hatched
<1>3. /\ f.loyalty \in Nat
      /\ f.mood = "Content" /\ f.bond = 0 /\ f.level = 1 /\ f.xp = 0 /\ f.form = 0
      /\ f.tricks = <<>> /\ f.evolutions = 0
  <2>1. f.loyalty \in Nat
    <3>1. f.loyalty = Dice(t, <<"loyalty", p>>, 100)
      BY <1>2 DEF hatched
    <3>2. \A n \in 0..99 : n \in Nat
      OBVIOUS
    <3> QED BY <1>1, <3>1, <3>2
  <2>2. f.mood = "Content" /\ f.bond = 0 /\ f.level = 1 /\ f.xp = 0
    BY <1>2 DEF hatched
  <2>3. f.form = 0 /\ f.tricks = <<>> /\ f.evolutions = 0
    BY <1>2 DEF hatched
  <2> QED BY <2>1, <2>2, <2>3
<1>4. IsPet(f)
  BY <1>2 DEF hatched, IsPet
<1>5. PetParts(f)
  BY <1>3, <1>7 DEF PetParts, Moods, Measure
<1>6. GrownTo(f, f.bond)
  <2>1. Reached(0) = 0
    BY ReachedIs
  <2> QED BY <1>3, <2>1 DEF GrownTo
<1> QED BY <1>2, <1>4, <1>5, <1>6, PetFrom DEF Tame

\* What a bond comes to.
LEMMA BondIs ==
  ASSUME NEW f \in Pets, NEW amount \in Nat
  PROVE  \E c \in Measure : f.bond <= c /\ Bonded(f, amount) = [f EXCEPT !.bond = c]
<1>1. PICK b \in 0..1000 : b = f.bond
  BY PetIs, ZenonT(60) DEF PetParts, Measure
<1>2. PICK l \in Nat : l = f.loyalty
  BY PetIs DEF PetParts
<1>3. PICK n \in Nat : n = amount * (50 + l)
  OBVIOUS
<1> PICK d \in Nat : d = n \div 100
  OBVIOUS
<1>4. PICK k \in Nat : k = b + d
  BY <1>1
<1>5. PICK c : c = Min({1000, k})
  OBVIOUS
<1>6. c = IF 1000 <= k THEN 1000 ELSE k
  BY <1>5, MinOfTwo
<1>7. b <= c /\ c \in Measure
  <2>1. b <= k /\ b <= 1000 /\ 0 <= b
    BY <1>1, <1>4
  <2>2. b <= c /\ c \in 0..1000
    <3>1. CASE 1000 <= k
      BY <1>6, <2>1, <3>1
    <3>2. CASE ~(1000 <= k)
      BY <1>6, <2>1, <3>2
    <3> QED BY <3>1, <3>2
  <2> QED BY <2>2 DEF Measure
<1>8. Bonded(f, amount) = [f EXCEPT !.bond = c]
  <2>1. (amount * (50 + f.loyalty)) \div 100 = d
    BY <1>2, <1>3
  <2>2. f.bond + (amount * (50 + f.loyalty)) \div 100 = k
    BY <1>1, <1>4, <2>1
  <2> QED BY <1>5, <2>2 DEF Bonded
<1> QED BY <1>1, <1>7, <1>8

\* What is cared for.
CareFor(c) ==
  /\ c.what \in {"gain_xp", "nurture", "react"}
  /\ c.what # "react" => c.amount \in Nat
  /\ c.what = "react" => c.stimulus \in {"OwnerHurt", "Victory", "Discovery", "Neglected", "Fed"}

LEMMA Reacts ==
  ASSUME NEW f, Tame(f), NEW s \in {"OwnerHurt", "Victory", "Discovery", "Neglected", "Fed"}
  PROVE  Tame(react(f, s))
<1>1. f \in Pets /\ PetParts(f) /\ GrownTo(f, f.bond) /\ f.bond \in Int
  BY PetIs, MeasureInt DEF Tame, PetParts
<1>2. PICK m \in Moods : react(f, s) = [f EXCEPT !.mood = m]
  <2>1. CASE s = "OwnerHurt"
    BY <2>1 DEF react, Moods
  <2>2. CASE s = "Victory"
    BY <2>2 DEF react, Moods
  <2>3. CASE s = "Discovery"
    BY <2>3 DEF react, Moods
  <2>4. CASE s = "Neglected"
    BY <2>4 DEF react, Moods
  <2>5. CASE s = "Fed"
    BY <2>5 DEF react, Moods
  <2> QED BY <2>1, <2>2, <2>3, <2>4, <2>5
<1>3. PICK x : x = react(f, s)
  OBVIOUS
<1>4. Closer(f, x, f.bond, f.level, f.xp, m)
  BY <1>1, <1>2, <1>3, PetFields DEF Closer
<1>5. f.bond \in Measure /\ f.level \in Nat /\ f.xp \in Nat /\ f.bond <= f.bond
  BY <1>1 DEF PetParts
<1>6. x \in Pets /\ GrownTo(x, f.bond) /\ x.bond = f.bond
  BY <1>1, <1>4, <1>5, Nearer
<1> QED BY <1>3, <1>6 DEF Tame

LEMMA Nurtured ==
  ASSUME NEW f, Tame(f), NEW amount \in Nat
  PROVE  Tame(nurture(f, amount))
<1>1. f \in Pets /\ PetParts(f) /\ GrownTo(f, f.bond) /\ f.bond \in Int
  BY PetIs, MeasureInt DEF Tame, PetParts
<1>2. PICK c \in Measure : f.bond <= c /\ Bonded(f, amount) = [f EXCEPT !.bond = c]
  BY <1>1, BondIs
<1>3. PICK x : x = [Bonded(f, amount) EXCEPT !.mood = "Affectionate"]
  OBVIOUS
<1>4. Closer(f, x, c, f.level, f.xp, "Affectionate")
  BY <1>1, <1>2, <1>3, PetFields DEF Closer
<1>5. f.level \in Nat /\ f.xp \in Nat /\ f.bond <= f.bond /\ "Affectionate" \in Moods
  BY <1>1 DEF PetParts, Moods
<1>6. x \in Pets /\ f.bond <= x.bond /\ GrownTo(x, f.bond)
  BY <1>1, <1>2, <1>4, <1>5, Nearer
<1> QED BY <1>1, <1>3, <1>6, Evolves DEF nurture

LEMMA Taught ==
  ASSUME NEW f, Tame(f), NEW amount \in Nat
  PROVE  Tame(gain_xp(f, amount))
<1>1. f \in Pets /\ PetParts(f) /\ GrownTo(f, f.bond) /\ f.bond \in Int
  BY PetIs, MeasureInt DEF Tame, PetParts
<1>2. PICK n \in Nat, l \in Nat : n = f.xp /\ l = f.level
  BY <1>1 DEF PetParts
<1>3. f.bond <= f.bond /\ f.bond \in Measure /\ f.mood \in Moods
  BY <1>1 DEF PetParts
<1>4. CASE n + amount < 50 * l
  <2>1. PICK x : x = gain_xp(f, amount)
    OBVIOUS
  <2>2. x = [f EXCEPT !.xp = n + amount]
    BY <1>2, <1>4, <2>1 DEF gain_xp
  <2>3. Closer(f, x, f.bond, l, n + amount, f.mood)
    BY <1>1, <1>2, <2>2, PetFields DEF Closer
  <2>4. n + amount \in Nat
    OBVIOUS
  <2>5. x \in Pets /\ GrownTo(x, f.bond) /\ x.bond = f.bond
    BY <1>1, <1>3, <2>3, <2>4, Nearer
  <2> QED BY <2>1, <2>5 DEF Tame
<1>5. CASE ~(n + amount < 50 * l)
  <2>1. PICK k \in Nat : k = n + amount - 50 * l
    BY <1>5
  <2>2. PICK g : g = [f EXCEPT !.xp = k, !.level = l + 1]
    OBVIOUS
  <2>3. gain_xp(f, amount) = maybe_evolve(Bonded(g, 30))
    BY <1>1, <1>2, <1>5, <2>1, <2>2, PetFields DEF gain_xp
  <2>4. Closer(f, g, f.bond, l + 1, k, f.mood)
    BY <1>1, <2>2, PetFields DEF Closer
  <2>5. l + 1 \in Nat
    OBVIOUS
  <2>6. g \in Pets /\ GrownTo(g, f.bond) /\ g.bond = f.bond
    BY <1>1, <1>3, <2>4, <2>5, Nearer
  <2>7. PICK c \in Measure : g.bond <= c /\ Bonded(g, 30) = [g EXCEPT !.bond = c]
    BY <2>6, BondIs
  <2>8. PICK x : x = Bonded(g, 30)
    OBVIOUS
  <2>9. PetParts(g)
    BY <2>6, PetIs
  <2>10. Closer(g, x, c, g.level, g.xp, g.mood)
    BY <2>6, <2>7, <2>8, PetFields DEF Closer
  <2>11. g.level \in Nat /\ g.xp \in Nat /\ g.mood \in Moods /\ g.bond <= g.bond
    BY <1>1, <2>6, <2>9 DEF PetParts
  <2>12. x \in Pets /\ f.bond <= x.bond /\ GrownTo(x, f.bond)
    BY <1>1, <2>6, <2>7, <2>10, <2>11, Nearer
  <2> QED BY <1>1, <2>3, <2>8, <2>12, Evolves
<1> QED BY <1>4, <1>5

LEMMA WellRaised ==
  ASSUME Tame(familiar), NEW c, CareFor(c)
  PROVE  Tame(Raise(c))
<1>1. CASE c.what = "gain_xp"
  BY <1>1, Taught DEF Raise, CareFor
<1>2. CASE c.what = "nurture"
  BY <1>2, Nurtured DEF Raise, CareFor
<1>3. CASE c.what = "react"
  BY <1>3, Reacts DEF Raise, CareFor
<1> QED BY <1>1, <1>2, <1>3 DEF CareFor

-----------------------------------------------------------------------------
(* What may happen in an age, and what may be asked for.                    *)

Happening(h) ==
  /\ h.what \in {"cast", "kill"} /\ h.actor \in Player \cup {NoOne}
  /\ h.what = "cast" => h.tenths \in Nat
  /\ h.what = "kill" => h.magnitude \in Nat
Asking(c) ==
  /\ c.what \in {"draw", "claim", "deed", "decay", "visit"}
  /\ c.what \in {"draw", "claim"} => c.well \in Well
  /\ c.what = "draw" => c.amount \in Nat
  /\ c.what \in {"claim", "decay", "visit"} => c.actor \in Player
  /\ c.what = "visit" => c.amount \in Nat
  /\ c.what = "deed" => c.deed \in Deed

LEMMA AgeIs ==
  ASSUME NEW a \in Ages
  PROVE  /\ a.opens \in Nat /\ a.closes \in Nat /\ a.until \in Nat /\ a.left \in Nat
         /\ a.pace \in Nat \ {0} /\ DayTicks % a.pace = 0
         /\ (a.pace <= 106 \/ a.pace >= 10669)
         /\ \A h \in a.happens : Happening(h)
         /\ \A c \in a.asks : Asking(c)
         /\ \A c \in a.cares : CareFor(c)
<1>1. \A h \in a.happens : Happening(h)
  BY LivingAssumption DEF Happening
<1>2. \A c \in a.asks : Asking(c)
  BY LivingAssumption DEF Asking, Deed
<1>3. \A c \in a.cares : CareFor(c)
  BY LivingAssumption DEF CareFor
<1>4. a.opens \in Nat /\ a.closes \in Nat /\ a.until \in Nat /\ a.left \in Nat /\ a.pace \in Nat \ {0}
  BY LivingAssumption
<1> QED BY <1>1, <1>2, <1>3, <1>4, StrideAssumption

LEMMA CastIs ==
  ASSUME NEW w, Whole(w), NEW h, Happening(h), h.what = "cast", NEW x, x = on_cast(w, h)
  PROVE  Whole(x) /\ SameClock(w, x) /\ SameLore(w, x) /\ x.charge = w.charge
<1>1. CASE h.actor = NoOne
  BY <1>1 DEF on_cast, SameClock, SameLore
<1>2. CASE h.actor # NoOne
  <2>1. h.actor \in Player /\ h.tenths \in Nat
    BY <1>2 DEF Happening
  <2>2. w.attuned[h.actor] \in Mage
    BY <2>1, Parts DEF Whole, Typed
  <2>3. PICK a \in Mage : a = practised(w.attuned[h.actor], h.element, h.tenths)
    BY <2>1, <2>2, PractisedIn
  <2>4. x = [w EXCEPT !.attuned[h.actor] = a]
    BY <1>2, <2>3 DEF on_cast
  <2> QED BY <2>1, <2>4, Attuning
<1> QED BY <1>1, <1>2

LEMMA SlainIs ==
  ASSUME Fair, NEW w, Whole(w), NEW h, Happening(h), h.what = "kill", NEW t \in Nat, NEW x, x = on_slay(w, h, t)
  PROVE  Whole(x) /\ SameClock(w, x) /\ x.charge = w.charge /\ (Scarce(w) => Scarce(x))
<1>1. CASE h.actor = NoOne
  BY <1>1 DEF on_slay, SameClock
<1>2. CASE h.actor # NoOne
  <2>1. h.actor \in Player /\ h.magnitude \in Nat
    BY <1>2 DEF Happening
  <2>2. PICK fame : fame = IF h.victim \in Player THEN w.renown[h.victim] ELSE 0
    OBVIOUS
  <2>3. fame \in Nat /\ (fame = 0 \/ \E v \in Player : fame = w.renown[v])
    <3>1. w.renown \in [Player -> Nat]
      BY Parts DEF Whole, Typed
    <3> QED BY <2>2, <3>1
  <2>4. PICK deed : deed = [kind |-> "Slay", actor |-> h.actor, count |-> 0, magnitude |-> h.magnitude,
                            renown |-> fame]
    OBVIOUS
  <2>5. deed \in Deed /\ deed.kind = "Slay" /\ deed.renown = fame
    BY <2>1, <2>3, <2>4 DEF Deed, facet
  <2>6. x = record_deed(w, deed, t)
    BY <1>2, <2>2, <2>4 DEF on_slay
  <2>7. Whole(x) /\ SameClock(w, x) /\ x.charge = w.charge /\ Grew(w, x, deed)
    BY <2>5, <2>6, Recorded
  <2>8. Scarce(w) => Scarce(x)
    BY <2>3, <2>5, <2>7, SlainScarce
  <2> QED BY <2>7, <2>8
<1> QED BY <1>1, <1>2

LEMMA HappenedIs ==
  ASSUME Fair, NEW w, Whole(w), NEW h, Happening(h), NEW t \in Nat, NEW x, x = Happened(w, h, t)
  PROVE  Whole(x) /\ SameClock(w, x) /\ x.charge = w.charge /\ (Scarce(w) => Scarce(x))
<1>1. CASE h.what = "cast"
  <2>1. x = on_cast(w, h)
    BY <1>1 DEF Happened
  <2>2. Whole(x) /\ SameClock(w, x) /\ SameLore(w, x) /\ x.charge = w.charge
    BY <1>1, <2>1, CastIs
  <2> QED BY <2>2 DEF SameLore, Scarce
<1>2. CASE h.what = "kill"
  BY <1>2, SlainIs DEF Happened
<1> QED BY <1>1, <1>2 DEF Happening

LEMMA AskedIs ==
  ASSUME Fair, NEW w, Whole(w), NEW c, Asking(c), NEW t \in Nat, NEW x, x = Asked(w, c, t)
  PROVE  Whole(x) /\ SameClock(w, x)
<1>1. CASE c.what = "draw"
  <2>1. x = draw(w, c) /\ c.well \in Well /\ c.amount \in Nat
    BY <1>1 DEF Asked, Asking
  <2> QED BY <2>1, ManaDrawn
<1>2. CASE c.what = "claim"
  <2>1. x = claim(w, c) /\ c.well \in Well /\ c.actor \in Player
    BY <1>2 DEF Asked, Asking
  <2> QED BY <2>1, Claimed
<1>3. CASE c.what = "deed"
  <2>1. x = record_deed(w, c.deed, t) /\ c.deed \in Deed
    BY <1>3 DEF Asked, Asking
  <2> QED BY <2>1, Recorded
<1>4. CASE c.what = "decay"
  <2>1. c.actor \in Player /\ x = [w EXCEPT !.attuned[c.actor] = decayed(@)]
    BY <1>4 DEF Asked, Asking
  <2>2. w.attuned[c.actor] \in Mage
    BY <2>1, Parts DEF Whole, Typed
  <2>3. PICK a \in Mage : a = decayed(w.attuned[c.actor])
    BY <2>2, DecayedIn
  <2>4. x = [w EXCEPT !.attuned[c.actor] = a]
    BY <2>1, <2>3
  <2> QED BY <2>1, <2>4, Attuning
<1>5. CASE c.what = "visit"
  <2>1. c.actor \in Player /\ c.amount \in Nat /\ x = [w EXCEPT !.attuned[c.actor] = visited(@, c.well, c.amount)]
    BY <1>5 DEF Asked, Asking
  <2>2. w.attuned[c.actor] \in Mage
    BY <2>1, Parts DEF Whole, Typed
  <2>3. PICK a \in Mage : a = visited(w.attuned[c.actor], c.well, c.amount)
    BY <2>1, <2>2, VisitedIn
  <2>4. x = [w EXCEPT !.attuned[c.actor] = a]
    BY <2>1, <2>3
  <2> QED BY <2>1, <2>4, Attuning
<1> QED BY <1>1, <1>2, <1>3, <1>4, <1>5 DEF Asking

-----------------------------------------------------------------------------
(* Strides.                                                                 *)

LEMMA Divided ==
  ASSUME NEW c \in Nat, NEW p \in Nat \ {0}
  PROVE  \E q \in Nat, r \in 0..(p - 1) : c = p * q + r /\ c \div p = q /\ c % p = r
<1>1. PICK q \in Nat : q = c \div p
  OBVIOUS
<1>2. PICK r \in 0..(p - 1) : r = c % p
  OBVIOUS
<1>3. c = p * q + r
  BY <1>1, <1>2
<1> QED BY <1>1, <1>2, <1>3

LEMMA Remains ==
  ASSUME NEW q \in Nat, NEW r \in Nat, NEW p \in Nat \ {0}, r < p, NEW c, c = p * q + r
  PROVE  c % p = r /\ c \div p = q
<1>1. c \in Nat
  OBVIOUS
<1>2. PICK d \in Nat, e \in 0..(p - 1) : c = p * d + e /\ c \div p = d /\ c % p = e
  BY <1>1, Divided
<1>3. d = q
  <2>1. CASE d < q
    <3>1. p * (d + 1) <= p * q
      BY <2>1
    <3> QED BY <1>2, <3>1
  <2>2. CASE d > q
    <3>1. p * (q + 1) <= p * d
      BY <2>2
    <3> QED BY <1>2, <3>1
  <2> QED BY <2>1, <2>2
<1> QED BY <1>2, <1>3

\* The next multiple of a stride.
LEMMA Strode ==
  ASSUME NEW c \in Nat, NEW p \in Nat \ {0}, NEW t, t = (c \div p + 1) * p
  PROVE  t \in Nat /\ t > c /\ t % p = 0 /\ t - c = p - (c % p)
<1>1. PICK q \in Nat, r \in 0..(p - 1) : c = p * q + r /\ c \div p = q /\ c % p = r
  BY Divided
<1>2. PICK n \in Nat : n = q * p
  OBVIOUS
<1>3. t = n + p /\ c = n + r
  BY <1>1, <1>2
<1>4. t % p = 0
  <2>1. q + 1 \in Nat /\ t = p * (q + 1) + 0 /\ 0 < p
    BY <1>1, <1>2, <1>3
  <2> QED BY <2>1, Remains
<1>5. t \in Nat /\ t > c
  BY <1>1, <1>3
<1>6. t - c = p - r
  BY <1>1, <1>3
<1>7. t - c = p - (c % p)
  BY <1>1, <1>6
<1> QED BY <1>4, <1>5, <1>7

-----------------------------------------------------------------------------
(* The invariant of the living world.                                       *)

RaisedFoes == [mob : Mob, until : Nat, nth : Nat]
SoulAt(w, c, asks) ==
  /\ Whole(w) /\ w.tick \in {0, c} /\ (c = NotYet => w.tick = 0)
  /\ asks = {} => Scarce(w)
LivingInv ==
  /\ age \in Ages
  /\ clock \in [Copy -> Nat \cup {NotYet}]
  /\ DOMAIN soul = Copy /\ \A s \in Copy : SoulAt(soul[s], clock[s], age.asks)
  /\ foes \in [Copy -> SUBSET RaisedFoes]
  /\ DOMAIN pulse = Copy
  /\ left \in 0..age.left
  /\ familiar = NoFamiliar \/ Tame(familiar)

\* One tick of a copy: to t, its soul w when it woke, x when all had happened.
Beat(s, t, w, x) ==
  /\ t \in Nat /\ t > clock[s] /\ t > soul[s].tick
  /\ w = advance(soul[s], t)
  /\ Whole(w) /\ w.tick = t /\ SameLore(soul[s], w) /\ w.stars = soul[s].stars
  /\ (soul[s].tick > 0 => w.charge = Breathed(soul[s].charge, t, t - soul[s].tick))
  /\ Whole(x) /\ SameClock(w, x) /\ x.charge = w.charge /\ (Scarce(w) => Scarce(x))
  /\ Realised(s, x, t)

LEMMA NextTickIs ==
  ASSUME LivingInv, NEW s \in Copy, clock[s] # NotYet
  PROVE  /\ NextTick(s) \in Nat /\ NextTick(s) > clock[s] /\ NextTick(s) > soul[s].tick
<1>1. clock[s] \in Nat /\ soul[s].tick \in {0, clock[s]}
  BY DEF LivingInv, SoulAt
<1>2. PICK p \in Nat \ {0} : p = IF clock[s] < age.opens THEN DayTicks ELSE age.pace
  <2>1. DayTicks \in Nat \ {0} /\ age.pace \in Nat \ {0}
    BY AgeIs DEF DayTicks, LivingInv
  <2> QED BY <2>1
<1>3. NextTick(s) = IF soul[s].tick = 0 THEN clock[s] + 1 ELSE (clock[s] \div p + 1) * p
  BY <1>2 DEF NextTick
<1>4. PICK c \in Nat : c = clock[s]
  BY <1>1
<1>5. PICK t : t = (c \div p + 1) * p
  OBVIOUS
<1>6. t \in Nat /\ t > c
  BY <1>5, Strode
<1>7. NextTick(s) = c + 1 \/ NextTick(s) = t
  BY <1>3, <1>4, <1>5
<1> QED BY <1>1, <1>4, <1>6, <1>7

LEMMA TickIs ==
  ASSUME Fair, LivingInv, NEW s \in Copy, Tick(s)
  PROVE  /\ clock[s] # NotYet /\ clock' = [clock EXCEPT ![s] = NextTick(s)]
         /\ pulse' = [pulse EXCEPT ![s] = News(soul[s], NextTick(s))]
         /\ age' = age /\ familiar' = familiar
         /\ left' \in 0..age.left
         /\ \E w, x : Beat(s, NextTick(s), w, x)
<1>1. /\ clock[s] # NotYet /\ clock' = [clock EXCEPT ![s] = NextTick(s)]
      /\ pulse' = [pulse EXCEPT ![s] = News(soul[s], NextTick(s))]
      /\ age' = age /\ familiar' = familiar
  BY DEF Tick
<1>2. PICK t : t = NextTick(s)
  OBVIOUS
<1>3. t \in Nat /\ t > clock[s] /\ t > soul[s].tick
  BY <1>1, <1>2, NextTickIs
<1>4. PICK w : w = advance(soul[s], t)
  OBVIOUS
<1>5. Whole(soul[s])
  BY DEF LivingInv, SoulAt
<1>6. /\ Whole(w) /\ w.tick = t /\ SameLore(soul[s], w) /\ w.stars = soul[s].stars
      /\ (soul[s].tick > 0 => w.charge = Breathed(soul[s].charge, t, t - soul[s].tick))
  BY <1>3, <1>4, <1>5, Advanced
<1>7. \/ Realised(s, w, t) /\ left' = left
      \/ left > 0 /\ left' = left - 1 /\ \E h \in age.happens : Realised(s, Happened(w, h, t), t)
  BY <1>2, <1>4 DEF Tick, Open
<1>8. left \in 0..age.left /\ age \in Ages /\ age.left \in Nat
  BY AgeIs DEF LivingInv
<1>9. left' \in 0..age.left
  BY <1>7, <1>8
<1>10. \E x : Beat(s, t, w, x)
  <2>1. CASE Realised(s, w, t)
    <3>1. SameClock(w, w) /\ w.charge = w.charge /\ (Scarce(w) => Scarce(w))
      BY DEF SameClock
    <3>2. Beat(s, t, w, w)
      BY <1>3, <1>4, <1>6, <2>1, <3>1 DEF Beat
    <3> QED BY <3>2
  <2>2. CASE \E h \in age.happens : Realised(s, Happened(w, h, t), t)
    <3>1. PICK h \in age.happens : Realised(s, Happened(w, h, t), t)
      BY <2>2
    <3>2. PICK x : x = Happened(w, h, t)
      OBVIOUS
    <3>3. Happening(h)
      BY <1>8, AgeIs
    <3>4. Whole(x) /\ SameClock(w, x) /\ x.charge = w.charge /\ (Scarce(w) => Scarce(x))
      BY <1>3, <1>6, <3>2, <3>3, HappenedIs
    <3>5. Realised(s, x, t)
      BY <3>1, <3>2
    <3>6. Beat(s, t, w, x)
      BY <1>3, <1>4, <1>6, <3>4, <3>5 DEF Beat
    <3> QED BY <3>6
  <2> QED BY <1>7, <2>1, <2>2
<1> QED BY <1>1, <1>2, <1>9, <1>10

\* What a beat leaves of the soul, and of the foes.
LEMMA Beaten ==
  ASSUME LivingInv, NEW s \in Copy, NEW t, NEW w, NEW x, Beat(s, t, w, x)
  PROVE  /\ soul' = [soul EXCEPT ![s] = [x EXCEPT !.pending = <<>>]]
         /\ foes' \in [Copy -> SUBSET RaisedFoes]
<1>1. soul' = [soul EXCEPT ![s] = [x EXCEPT !.pending = <<>>]]
  BY DEF Beat, Realised
<1> DEFINE standing == {f \in foes[s] : f.until > t}
           risen == {n \in DOMAIN x.pending : Rising(x.pending[n])}
           raised == {Foe(x.pending[n], t, n) : n \in risen}
<1>2. foes' = [foes EXCEPT ![s] = standing \cup raised]
  BY DEF Beat, Realised
<1>3. foes \in [Copy -> SUBSET RaisedFoes]
  BY DEF LivingInv
<1>4. raised \subseteq RaisedFoes
  <2> SUFFICES ASSUME NEW n \in risen PROVE Foe(x.pending[n], t, n) \in RaisedFoes
    OBVIOUS
  <2>1. x.pending \in Seq(Mark) /\ t \in Nat
    BY Parts DEF Beat, Whole, Typed
  <2>2. n \in Nat /\ Rising(x.pending[n])
    BY <2>1, LenProperties
  <2>3. t + 7680 \in Nat
    BY <2>1
  <2> QED BY <2>2, <2>3 DEF Foe, Rising, RaisedFoes
<1>5. standing \subseteq RaisedFoes
  BY <1>3
<1> HIDE DEF standing, raised
<1> QED BY <1>1, <1>2, <1>3, <1>4, <1>5

LEMMA LivingInitInv == LivingInit => LivingInv
<1> SUFFICES ASSUME LivingInit PROVE LivingInv
  OBVIOUS
<1>1. age \in Ages /\ left = age.left /\ familiar = NoFamiliar /\ DOMAIN soul = Copy /\ DOMAIN pulse = Copy
  BY DEF LivingInit
<1>2. clock \in [Copy -> Nat \cup {NotYet}]
  BY DEF LivingInit
<1>3. foes \in [Copy -> SUBSET RaisedFoes]
  BY DEF LivingInit
<1>4. left \in 0..age.left
  BY <1>1, AgeIs
<1>5. \A s \in Copy : SoulAt(soul[s], clock[s], age.asks)
  <2> TAKE s \in Copy
  <2>1. soul[s] = Fresh
    BY DEF LivingInit
  <2> QED BY <2>1, FreshIs DEF SoulAt
<1> QED BY <1>1, <1>2, <1>3, <1>4, <1>5 DEF LivingInv

LEMMA TickKeeps ==
  ASSUME Fair, LivingInv, NEW s \in Copy, Tick(s)
  PROVE  LivingInv'
<1>1. PICK t : t = NextTick(s)
  OBVIOUS
<1>2. /\ clock' = [clock EXCEPT ![s] = t] /\ pulse' = [pulse EXCEPT ![s] = News(soul[s], t)]
      /\ age' = age /\ familiar' = familiar /\ left' \in 0..age.left
  BY <1>1, TickIs
<1>3. PICK w, x : Beat(s, t, w, x)
  BY <1>1, TickIs
<1>4. PICK y : y = [x EXCEPT !.pending = <<>>]
  OBVIOUS
<1>5. soul' = [soul EXCEPT ![s] = y] /\ foes' \in [Copy -> SUBSET RaisedFoes]
  BY <1>3, <1>4, Beaten
<1>6. Whole(y) /\ SameClock(x, y) /\ SameLore(x, y)
  BY <1>3, <1>4, Taken DEF Beat
<1>7. y.tick = t /\ t \in Nat
  BY <1>3, <1>6 DEF Beat, SameClock
<1>8. age.asks = {} => Scarce(y)
  <2> SUFFICES ASSUME age.asks = {} PROVE Scarce(y)
    OBVIOUS
  <2>1. Scarce(soul[s])
    BY DEF LivingInv, SoulAt
  <2>2. Scarce(w)
    BY <1>3, <2>1 DEF Beat, SameLore, Scarce
  <2>3. Scarce(x)
    BY <1>3, <2>2 DEF Beat
  <2> QED BY <1>6, <2>3 DEF SameLore, Scarce
<1>9. SoulAt(y, t, age.asks)
  BY <1>6, <1>7, <1>8 DEF SoulAt, NotYet
<1>10. \A r \in Copy : SoulAt(soul'[r], clock'[r], age.asks)
  <2> TAKE r \in Copy
  <2>1. CASE r = s
    <3>1. soul'[r] = y /\ clock'[r] = t
      BY <1>2, <1>5, <2>1 DEF LivingInv
    <3> QED BY <1>9, <3>1
  <2>2. CASE r # s
    <3>1. soul'[r] = soul[r] /\ clock'[r] = clock[r]
      BY <1>2, <1>5, <2>2 DEF LivingInv
    <3> QED BY <3>1 DEF LivingInv
  <2> QED BY <2>1, <2>2
<1>11. clock' \in [Copy -> Nat \cup {NotYet}] /\ DOMAIN soul' = Copy /\ DOMAIN pulse' = Copy
  BY <1>2, <1>5, <1>7 DEF LivingInv
<1> QED BY <1>2, <1>5, <1>10, <1>11 DEF LivingInv

LEMMA ElderOpen ==
  ASSUME LivingInv, Open(clock[Elder])
  PROVE  clock[Elder] \in Nat /\ left > 0 /\ left - 1 \in 0..age.left /\ clock[Elder] >= age.opens
<1>1. age.opens \in Nat /\ age.left \in Nat /\ left \in 0..age.left
  BY AgeIs DEF LivingInv
<1>2. clock[Elder] \in Nat \cup {-1}
  BY LivingAssumption DEF LivingInv, NotYet
<1>3. left > 0 /\ clock[Elder] >= age.opens
  BY DEF Open
<1>4. clock[Elder] # -1
  BY <1>1, <1>3
<1> QED BY <1>1, <1>2, <1>3, <1>4

LEMMA ImportKeeps ==
  ASSUME LivingInv, NEW s \in Copy, Import(s)
  PROVE  LivingInv'
<1>1. /\ Open(clock[Elder]) /\ left' = left - 1 /\ clock' = [clock EXCEPT ![s] = clock[Elder]]
      /\ soul' = [soul EXCEPT ![s] = Fresh] /\ pulse' = [pulse EXCEPT ![s] = {}]
      /\ foes' = [foes EXCEPT ![s] = {}] /\ age' = age /\ familiar' = familiar
  BY DEF Import
<1>2. clock[Elder] \in Nat /\ left' \in 0..age.left
  BY <1>1, ElderOpen
<1>3. SoulAt(Fresh, clock[Elder], age.asks)
  BY FreshIs DEF SoulAt
<1>4. \A r \in Copy : SoulAt(soul'[r], clock'[r], age.asks)
  <2> TAKE r \in Copy
  <2>1. CASE r = s
    <3>1. soul'[r] = Fresh /\ clock'[r] = clock[Elder]
      BY <1>1, <2>1 DEF LivingInv
    <3> QED BY <1>3, <3>1
  <2>2. CASE r # s
    <3>1. soul'[r] = soul[r] /\ clock'[r] = clock[r]
      BY <1>1, <2>2 DEF LivingInv
    <3> QED BY <3>1 DEF LivingInv
  <2> QED BY <2>1, <2>2
<1>5. clock' \in [Copy -> Nat \cup {NotYet}] /\ DOMAIN soul' = Copy /\ DOMAIN pulse' = Copy
  BY <1>1, <1>2 DEF LivingInv
<1>6. foes' \in [Copy -> SUBSET RaisedFoes]
  BY <1>1 DEF LivingInv
<1> QED BY <1>1, <1>2, <1>4, <1>5, <1>6 DEF LivingInv

LEMMA AskKeeps ==
  ASSUME Fair, LivingInv, NEW s \in Copy, Ask(s)
  PROVE  LivingInv' /\ soul'[s].tick = soul[s].tick /\ \A r \in Copy : r # s => soul'[r] = soul[r]
<1>1. PICK c \in age.asks : soul' = [soul EXCEPT ![s] = Asked(soul[s], c, soul[s].tick)]
  BY DEF Ask
<1>2. /\ Open(clock[s]) /\ left' = left - 1 /\ age' = age /\ clock' = clock /\ pulse' = pulse
      /\ foes' = foes /\ familiar' = familiar
  BY DEF Ask
<1>3. left' \in 0..age.left
  <2>1. age.left \in Nat /\ left \in 0..age.left /\ left > 0
    BY <1>2, AgeIs DEF LivingInv, Open
  <2> QED BY <1>2, <2>1
<1>4. PICK x : x = Asked(soul[s], c, soul[s].tick)
  OBVIOUS
<1>5. Whole(soul[s]) /\ soul[s].tick \in Nat /\ Asking(c)
  BY AgeIs, Parts DEF LivingInv, SoulAt, Whole, Typed
<1>6. Whole(x) /\ SameClock(soul[s], x)
  BY <1>4, <1>5, AskedIs
<1>7. SoulAt(x, clock[s], age.asks)
  BY <1>6 DEF SoulAt, SameClock, LivingInv
<1>8. soul' = [soul EXCEPT ![s] = x]
  BY <1>1, <1>4
<1>9. \A r \in Copy : SoulAt(soul'[r], clock'[r], age.asks)
  <2> TAKE r \in Copy
  <2>1. CASE r = s
    <3>1. soul'[r] = x /\ clock'[r] = clock[s]
      BY <1>2, <1>8, <2>1 DEF LivingInv
    <3> QED BY <1>7, <3>1
  <2>2. CASE r # s
    <3>1. soul'[r] = soul[r] /\ clock'[r] = clock[r]
      BY <1>2, <1>8, <2>2 DEF LivingInv
    <3> QED BY <3>1 DEF LivingInv
  <2> QED BY <2>1, <2>2
<1>10. DOMAIN soul' = Copy
  BY <1>8 DEF LivingInv
<1>11. LivingInv'
  BY <1>2, <1>3, <1>9, <1>10 DEF LivingInv
<1>12. soul'[s] = x /\ \A r \in Copy : r # s => soul'[r] = soul[r]
  BY <1>8 DEF LivingInv
<1> QED BY <1>6, <1>11, <1>12 DEF SameClock

LEMMA HatchKeeps ==
  ASSUME Fair, LivingInv, Hatch
  PROVE  LivingInv' /\ soul' = soul
<1>1. PICK p \in Player : familiar' = hatched(clock[Elder], p)
  BY DEF Hatch
<1>2. /\ Open(clock[Elder]) /\ left' = left - 1 /\ age' = age /\ clock' = clock /\ pulse' = pulse
      /\ foes' = foes /\ soul' = soul
  BY DEF Hatch
<1>3. left' \in 0..age.left /\ Tame(familiar')
  BY <1>1, <1>2, ElderOpen, Hatched
<1> QED BY <1>2, <1>3 DEF LivingInv

LEMMA CareKeeps ==
  ASSUME LivingInv, Care
  PROVE  LivingInv' /\ soul' = soul
<1>1. PICK c \in age.cares : familiar' = Raise(c)
  BY DEF Care
<1>2. /\ Open(clock[Elder]) /\ left' = left - 1 /\ age' = age /\ clock' = clock /\ pulse' = pulse
      /\ foes' = foes /\ soul' = soul /\ familiar # NoFamiliar
  BY DEF Care
<1>3. Tame(familiar) /\ CareFor(c)
  BY <1>2, AgeIs DEF LivingInv
<1>4. left' \in 0..age.left /\ Tame(familiar')
  BY <1>1, <1>2, <1>3, ElderOpen, WellRaised
<1> QED BY <1>2, <1>4 DEF LivingInv

LEMMA LivingNextInv ==
  ASSUME Fair
  PROVE  LivingInv /\ [LivingNext]_livingvars => LivingInv'
<1> SUFFICES ASSUME LivingInv, [LivingNext]_livingvars PROVE LivingInv'
  OBVIOUS
<1>1. CASE Hatch
  BY <1>1, HatchKeeps
<1>2. CASE Care
  BY <1>2, CareKeeps
<1>3. ASSUME NEW s \in Copy, Tick(s) PROVE LivingInv'
  BY <1>3, TickKeeps
<1>4. ASSUME NEW s \in Copy, Import(s) PROVE LivingInv'
  BY <1>4, ImportKeeps
<1>5. ASSUME NEW s \in Copy, Ask(s) PROVE LivingInv'
  BY <1>5, AskKeeps
<1>6. CASE UNCHANGED livingvars
  BY <1>6 DEF livingvars, LivingInv
<1> QED BY <1>1, <1>2, <1>3, <1>4, <1>5, <1>6 DEF LivingNext

\* Wells, herds, bonds and renown keep within what the code clamps them to,
\* grazers neither bloom nor crash, each legend of slaying took a renown a bar
\* higher than the one before, and a familiar has grown through all its bond
\* lets it.
LEMMA MeasureFollows == LivingInv => MeasureKept
<1> SUFFICES ASSUME LivingInv PROVE MeasureKept
  OBVIOUS
<1>1. ASSUME NEW s \in Copy PROVE Whole(soul[s]) /\ Typed(soul[s])
  BY Parts DEF LivingInv, SoulAt, Whole
<1>2. LivingTypeOK
  <2>1. ASSUME NEW s \in Copy
        PROVE  /\ clock[s] \in Nat \cup {NotYet}
               /\ soul[s].tick \in 0..Max({0, clock[s]})
    <3>1. clock[s] \in Nat \cup {-1}
      BY DEF LivingInv, NotYet
    <3>2. soul[s].tick \in {0, clock[s]} /\ (clock[s] = -1 => soul[s].tick = 0)
      BY DEF LivingInv, SoulAt, NotYet
    <3>3. Max({0, clock[s]}) = IF clock[s] <= 0 THEN 0 ELSE clock[s]
      BY <3>1, MaxWithZero
    <3> QED BY <3>1, <3>2, <3>3 DEF NotYet
  <2>2. ASSUME NEW s \in Copy, NEW w \in Well
        PROVE  soul[s].charge[w] \in 0..Capacity /\ soul[s].holder[w] \in Player \cup {NoOne}
    BY <1>1 DEF Typed
  <2>3. ASSUME NEW s \in Copy, NEW m \in Mob PROVE soul[s].pop[m] \in 0..MaxPop
    BY <1>1 DEF Typed
  <2>4. ASSUME NEW s \in Copy, NEW p \in Player
        PROVE  /\ soul[s].renown[p] \in Nat
               /\ \A e \in School : soul[s].attuned[p].elements[e] \in 0..1000
               /\ soul[s].attuned[p].corruption \in 0..1000
               /\ \A e \in School : affinity_mult(soul[s].attuned[p], e) \in 100..155
    <3>1. soul[s].attuned[p] \in Mage /\ soul[s].renown[p] \in Nat
      BY <1>1 DEF Typed
    <3>2. \A e \in School : soul[s].attuned[p].elements[e] \in Measure
      BY <3>1, MageParts
    <3>3. soul[s].attuned[p].corruption \in Measure
      BY <3>1, MageParts
    <3>4. \A e \in School : affinity_mult(soul[s].attuned[p], e) \in 100..155
      BY <3>1, AffinityIn
    <3> QED BY <3>1, <3>2, <3>3, <3>4 DEF Measure
  <2>5. ASSUME NEW s \in Copy, NEW n \in DOMAIN soul[s].stars PROVE soul[s].stars[n].brightness \in 60..200
    <3>1. soul[s].stars \in Seq(Lit)
      BY <1>1 DEF Typed
    <3>2. soul[s].stars[n] \in Lit
      BY <3>1, ElementOfSeq, LenProperties
    <3> QED BY <3>2 DEF Lit
  <2>6. ASSUME NEW s \in Copy, NEW f \in foes[s] PROVE f.mob \in Mob
    BY DEF LivingInv, RaisedFoes
  <2>7. familiar = NoFamiliar \/ familiar.bond \in 0..1000
    BY PetIs DEF LivingInv, Tame, PetParts, Measure
  <2>8. left \in 0..age.left
    BY DEF LivingInv
  <2> SUFFICES ASSUME NEW s \in Copy
               PROVE  /\ clock[s] \in Nat \cup {NotYet}
                      /\ soul[s].tick \in 0..Max({0, clock[s]})
                      /\ \A w \in Well : soul[s].charge[w] \in 0..Capacity
                      /\ \A w \in Well : soul[s].holder[w] \in Player \cup {NoOne}
                      /\ \A m \in Mob : soul[s].pop[m] \in 0..MaxPop
                      /\ \A p \in Player :
                           /\ soul[s].renown[p] \in Nat
                           /\ \A e \in School : soul[s].attuned[p].elements[e] \in 0..1000
                           /\ soul[s].attuned[p].corruption \in 0..1000
                           /\ \A e \in School : affinity_mult(soul[s].attuned[p], e) \in 100..155
                      /\ \A n \in DOMAIN soul[s].stars : soul[s].stars[n].brightness \in 60..200
                      /\ \A f \in foes[s] : f.mob \in Mob
    BY <2>7, <2>8, Zenon DEF LivingTypeOK
  <2>9. \A p \in Player :
          /\ soul[s].renown[p] \in Nat
          /\ \A e \in School : soul[s].attuned[p].elements[e] \in 0..1000
          /\ soul[s].attuned[p].corruption \in 0..1000
          /\ \A e \in School : affinity_mult(soul[s].attuned[p], e) \in 100..155
    BY <2>4, ZenonT(40)
  <2>10. /\ \A w \in Well : soul[s].charge[w] \in 0..Capacity
         /\ \A w \in Well : soul[s].holder[w] \in Player \cup {NoOne}
         /\ \A m \in Mob : soul[s].pop[m] \in 0..MaxPop
    BY <2>2, <2>3, Zenon
  <2>11. \A n \in DOMAIN soul[s].stars : soul[s].stars[n].brightness \in 60..200
    BY <2>5, Zenon
  <2>12. \A f \in foes[s] : f.mob \in Mob
    BY <2>6, Zenon
  <2>13. clock[s] \in Nat \cup {NotYet} /\ soul[s].tick \in 0..Max({0, clock[s]})
    BY <2>1, Zenon
  <2> QED BY <2>9, <2>10, <2>11, <2>12, <2>13, Zenon
<1>3. GrazersHold
  BY <1>1 DEF GrazersHold, Whole, HerdsHold
<1>4. LegendsScarce
  BY DEF LegendsScarce, LivingInv, SoulAt, Scarce
<1>5. KeepsPace
  BY DEF KeepsPace, LivingInv, Tame, GrownTo
<1> QED BY <1>2, <1>3, <1>4, <1>5 DEF MeasureKept

\* The measure of wells, herds, legends and familiars (WorldSoul::advance,
\* Chronicle::record, Attunement::practise and Familiar::maybe_evolve) is kept
\* in every copy of the zone, whatever happens in it and is asked of it.
THEOREM WorldInMeasure ==
  ASSUME Fair
  PROVE  LivingSpec => []MeasureKept
<1>1. LivingInit => LivingInv
  BY LivingInitInv
<1>2. LivingInv /\ [LivingNext]_livingvars => LivingInv'
  BY LivingNextInv
<1>3. LivingInv => MeasureKept
  BY MeasureFollows
<1> QED BY <1>1, <1>2, <1>3, PTL DEF LivingSpec

\* Two souls at one tick have the same season and festival behind them, and
\* in full land and under the same stars the same power.
LEMMA PowerIs ==
  ASSUME NEW a, NEW b, a.tick = b.tick, Brimming(a.charge), Brimming(b.charge), a.stars = b.stars,
         NEW e, NEW w \in Well
  PROVE  spell_power(a, e, w) = spell_power(b, e, w)
<1>1. saturation(a.charge, w) = saturation(b.charge, w)
  BY DEF Brimming, saturation
<1> DEFINE Power(t, charge, stars) ==
             LET blessed == IF ascendant_element[season(t)] = e THEN 115 ELSE 100
                 grounded == IF Elements[w] = e /\ charge > 0 THEN 100 + (charge * 3) \div 10 ELSE 100
                 weather == sky_mult(sky(t, charge, Dice(WeatherFront(t), "weather", 101)), e)
                 Times(x, y) == (x * y) \div 100
             IN Max({5, Times(Times(Times(Times(tide_root[season(t)], blessed), grounded), weather),
                              boon(stars, e, t))})
<1>2. spell_power(a, e, w) = Power(a.tick, saturation(a.charge, w), a.stars)
  BY DEF spell_power
<1>3. spell_power(b, e, w) = Power(b.tick, saturation(b.charge, w), b.stars)
  BY DEF spell_power
<1> HIDE DEF Power
<1> QED BY <1>1, <1>2, <1>3

LEMMA SoulsFollow == LivingInv => SoulsAgree
<1> SUFFICES ASSUME LivingInv, NEW a \in Awake, NEW b \in Awake, soul[a].tick = soul[b].tick
             PROVE  /\ soul[a].last_season = soul[b].last_season
                    /\ soul[a].last_festival = soul[b].last_festival
                    /\ Brimming(soul[a].charge) /\ Brimming(soul[b].charge)
                         /\ soul[a].stars = soul[b].stars =>
                         \A e \in School, w \in Well :
                           spell_power(soul[a], e, w) = spell_power(soul[b], e, w)
  BY DEF SoulsAgree
<1>1. ASSUME NEW s \in Awake
      PROVE  soul[s].last_season = season(soul[s].tick) /\ soul[s].last_festival = festival(soul[s].tick)
  BY DEF LivingInv, SoulAt, Whole, UpToDate, Awake
<1>2. Brimming(soul[a].charge) /\ Brimming(soul[b].charge) /\ soul[a].stars = soul[b].stars =>
        \A e \in School, w \in Well : spell_power(soul[a], e, w) = spell_power(soul[b], e, w)
  BY PowerIs
<1>3. soul[a].last_season = soul[b].last_season /\ soul[a].last_festival = soul[b].last_festival
  BY <1>1
<1> QED BY <1>2, <1>3

\* However they came to a tick, copies agree on what is behind them and, in full
\* land, on what their spells are worth.
THEOREM SoulsOfOneMind ==
  ASSUME Fair
  PROVE  LivingSpec => []SoulsAgree
<1>1. LivingInit => LivingInv
  BY LivingInitInv
<1>2. LivingInv /\ [LivingNext]_livingvars => LivingInv'
  BY LivingNextInv
<1>3. LivingInv => SoulsAgree
  BY SoulsFollow
<1> QED BY <1>1, <1>2, <1>3, PTL DEF LivingSpec

-----------------------------------------------------------------------------
(* Days and their festivals.                                                *)

\* Of the three moons the pale one is never quite full.
LEMMA PaleWanes == ASSUME NEW t \in Nat PROVE ~ is_full("Pale", t)
<1>1. PICK d \in 0..6 : d = Day(t) % 7
  <2>1. PICK n \in Nat : n = Day(t)
    BY Year
  <2> QED BY <2>1
<1>2. fullness("Pale", t) = (100 * (IF 2 * d < 7 THEN 2 * d ELSE 2 * 7 - 2 * d)) \div 7
  BY <1>1 DEF fullness, period_days
<1>3. (100 * (IF 2 * d < 7 THEN 2 * d ELSE 2 * 7 - 2 * d)) \div 7 < 92
  BY <1>1
<1> QED BY <1>2, <1>3 DEF is_full

\* What is on a day is on all of it, and not on the next.
LEMMA OneDay ==
  ASSUME NEW a \in Nat, NEW b \in Nat, Day(a) = Day(b)
  PROVE  festival(a) = festival(b)
<1>1. season(a) = season(b) /\ day_of_season(a) = day_of_season(b)
  BY DEF season, day_of_season, DayOfYear
<1>2. \A moon : is_full(moon, a) = is_full(moon, b)
  BY DEF is_full, fullness
<1>3. is_grand_conjunction(a) = is_grand_conjunction(b)
  BY <1>2 DEF is_grand_conjunction
<1> QED BY <1>1, <1>2, <1>3 DEF festival

FestivalDay ==
  [FirstFlame |-> 0, Solstice |-> 10, Harvest |-> 14, NightOfTheDead |-> 20, Starfall |-> 10]

LEMMA FestivalDayIs ==
  ASSUME NEW t \in Nat, festival(t) # NoFestival
  PROVE  day_of_season(t) = FestivalDay[festival(t)]
<1>1. ~ is_grand_conjunction(t)
  BY PaleWanes DEF is_grand_conjunction, period_days
<1> QED BY <1>1 DEF festival, FestivalDay

LEMMA NextDay ==
  ASSUME NEW a \in Nat, NEW b \in Nat, Day(b) = Day(a) + 1, festival(b) # NoFestival
  PROVE  festival(a) # festival(b)
<1> SUFFICES ASSUME festival(a) = festival(b) PROVE FALSE
  OBVIOUS
<1>1. day_of_season(a) = day_of_season(b)
  BY FestivalDayIs
<1>2. PICK d \in Nat : d = Day(a) /\ Day(b) = d + 1
  BY Year
<1>3. day_of_season(a) = (d % 105) % 21 /\ day_of_season(b) = ((d + 1) % 105) % 21
  BY <1>2, Year
<1>4. (d % 105) % 21 # ((d + 1) % 105) % 21
  OBVIOUS
<1> QED BY <1>1, <1>3, <1>4

\* A stride that divides the day ends by the next dawn.
LEMMA ByDawn ==
  ASSUME NEW c \in Nat, NEW p \in Nat \ {0}, DayTicks % p = 0, NEW t, t = (c \div p + 1) * p
  PROVE  t <= (Day(c) + 1) * DayTicks
<1>1. PICK day \in Nat \ {0} : day = DayTicks
  BY DEF DayTicks
<1>2. PICK k \in Nat, r \in 0..(day - 1) : c = day * k + r /\ c \div day = k
  BY <1>1, Divided
<1>3. PICK q \in Nat, x \in 0..(p - 1) : c = p * q + x /\ c \div p = q
  BY Divided
<1>4. PICK m \in Nat : day = p * m
  <2>1. PICK m \in Nat, z \in 0..(p - 1) : day = p * m + z /\ day \div p = m /\ day % p = z
    BY <1>1, Divided
  <2> QED BY <1>1, <2>1
<1>5. PICK n \in Nat : n = m * (k + 1)
  OBVIOUS
<1>6. day * (k + 1) = p * n
  BY <1>4, <1>5
<1>7. c < p * n
  <2>1. day * (k + 1) = day * k + day
    OBVIOUS
  <2> QED BY <1>2, <1>6, <2>1
<1>8. q + 1 <= n
  <2>1. CASE q >= n
    <3>1. p * q >= p * n
      BY <2>1
    <3> QED BY <1>3, <1>7, <3>1
  <2> QED BY <2>1
<1>9. (q + 1) * p <= p * n
  BY <1>8
<1>10. Day(c) = k
  BY <1>1, <1>2 DEF Day
<1>11. t = (q + 1) * p
  BY <1>3
<1> QED BY <1>1, <1>6, <1>9, <1>10, <1>11

\* The festivals in the news, and those that are foretold for the next day.
LEMMA NewsIs ==
  ASSUME NEW w, NEW t
  PROVE  {f[2] : f \in {x \in News(w, t) : x[1] = "Festival"}}
           = {festival(t)} \ {w.last_festival, NoFestival}
<1> DEFINE turns == {<<"Season", x>> : x \in {season(t)} \ {w.last_season}}
           feasts == {<<"Festival", x>> : x \in {festival(t)} \ {w.last_festival, NoFestival}}
           herds == IF Day(t) # w.last_day THEN DayEvents(w.pop, Day_bred(w.pop, t), t) ELSE {}
<1>1. News(w, t) = turns \cup feasts \cup herds
  BY DEF News
<1>2. \A x \in herds : x[1] # "Festival"
  BY DEF DayEvents
<1>3. \A x \in turns : x[1] # "Festival"
  OBVIOUS
<1>4. \A x \in feasts : x[1] = "Festival"
  OBVIOUS
<1>5. {f[2] : f \in feasts} = {festival(t)} \ {w.last_festival, NoFestival}
  <2>1. PICK new : new = {festival(t)} \ {w.last_festival, NoFestival}
    OBVIOUS
  <2>2. \A f \in feasts : f[2] \in new
    BY <2>1
  <2>3. \A x \in new : \E f \in feasts : f[2] = x
    <3> TAKE x \in new
    <3>1. PICK f : f = <<"Festival", x>>
      OBVIOUS
    <3>2. f \in feasts
      BY <2>1, <3>1
    <3>3. f[2] = x
      BY <3>1
    <3> QED BY <3>2, <3>3
  <2> HIDE DEF feasts
  <2>4. {f[2] : f \in feasts} = new
    BY <2>2, <2>3
  <2> QED BY <2>1, <2>4
<1> HIDE DEF turns, feasts, herds
<1>6. {x \in News(w, t) : x[1] = "Festival"} = feasts
  BY <1>1, <1>2, <1>3, <1>4
<1> QED BY <1>5, <1>6

LEMMA ForetoldIs ==
  ASSUME NEW c \in Nat, NEW t \in Nat
  PROVE  {o.which : o \in {x \in divine(c, 1) : x.portent = "Festival" /\ x.resolves = t}}
           = IF t = (Day(c) + 1) * DayTicks THEN {festival(t)} \ {NoFestival} ELSE {}
<1> DEFINE dawn(d) == (Day(c) + d) * DayTicks
           feasts == {[portent |-> "Festival", which |-> festival(dawn(d)), resolves |-> dawn(d)] :
                        d \in {x \in 1..1 : festival(dawn(x)) # NoFestival}}
           waxing == {[portent |-> "HollowWaxing", which |-> NoFestival, resolves |-> dawn(d)] :
                        d \in {x \in 1..1 : /\ festival(dawn(x)) = NoFestival
                                            /\ is_full("Hollow", dawn(x))
                                            /\ ~is_full("Hollow", c)}}
           ebbing == {[portent |-> "ManaEbbing", which |-> NoFestival,
                       resolves |-> dawn(DaysPerSeason - day_of_season(c))] :
                        x \in {y \in {c} : season(y) = "Duskwane" /\ day_of_season(y) > 14}}
<1>1. divine(c, 1) = feasts \cup waxing \cup ebbing
  BY DEF divine, Ahead
<1>2. \A x \in waxing \cup ebbing : x.portent # "Festival"
  OBVIOUS
<1>3. \A x \in feasts : x.portent = "Festival" /\ x.resolves = dawn(1) /\ x.which = festival(dawn(1))
  BY DEF feasts
<1>4. festival(dawn(1)) # NoFestival =>
        [portent |-> "Festival", which |-> festival(dawn(1)), resolves |-> dawn(1)] \in feasts
  OBVIOUS
<1>5. festival(dawn(1)) = NoFestival => feasts = {}
  OBVIOUS
<1>6. PICK omens : omens = {x \in divine(c, 1) : x.portent = "Festival" /\ x.resolves = t}
  OBVIOUS
<1>7. PICK day : day = dawn(1) /\ day = (Day(c) + 1) * DayTicks
  OBVIOUS
<1> HIDE DEF feasts, waxing, ebbing, dawn
<1>8. omens = IF t = day THEN feasts ELSE {}
  BY <1>1, <1>2, <1>3, <1>6, <1>7
<1>9. CASE t # day
  BY <1>6, <1>7, <1>8, <1>9
<1>10. CASE t = day /\ festival(t) = NoFestival
  BY <1>5, <1>6, <1>7, <1>8, <1>10
<1>11. CASE t = day /\ festival(t) # NoFestival
  <2>1. {o.which : o \in feasts} = {festival(t)}
    BY <1>3, <1>4, <1>7, <1>11
  <2> QED BY <1>6, <1>7, <1>8, <1>11, <2>1
<1> QED BY <1>9, <1>10, <1>11

\* Nothing but a tick moves a soul on.
LEMMA OnlyTicks ==
  ASSUME Fair, LivingInv, LivingNext, NEW s \in Awake, soul'[s].tick > soul[s].tick
  PROVE  Tick(s)
<1>1. soul[s].tick \in Nat /\ s \in Copy
  BY Parts DEF LivingInv, SoulAt, Whole, Typed, Awake
<1>2. soul' # soul
  BY <1>1
<1>3. ~ Hatch /\ ~ Care
  BY <1>2, HatchKeeps, CareKeeps
<1>4. ASSUME NEW r \in Copy, Ask(r) PROVE FALSE
  <2>1. soul'[r].tick = soul[r].tick /\ \A q \in Copy : q # r => soul'[q] = soul[q]
    BY <1>4, AskKeeps
  <2> QED BY <1>1, <2>1
<1>5. ASSUME NEW r \in Copy, Import(r) PROVE FALSE
  <2>1. soul' = [soul EXCEPT ![r] = Fresh] /\ DOMAIN soul = Copy
    BY <1>5 DEF Import, LivingInv
  <2>2. soul'[s] = Fresh \/ soul'[s] = soul[s]
    BY <1>1, <2>1
  <2> QED BY <1>1, <2>2, FreshIs
<1>6. ASSUME NEW r \in Copy, Tick(r), r # s PROVE FALSE
  <2>1. PICK w, x : Beat(r, NextTick(r), w, x)
    BY <1>6, TickIs
  <2>2. soul'[s] = soul[s]
    BY <1>1, <1>6, <2>1, Beaten DEF LivingInv
  <2> QED BY <1>1, <2>2
<1> QED BY <1>3, <1>4, <1>5, <1>6 DEF LivingNext

\* The tick of an awake soul: its stride, and where it ends.
Pace(c) == IF c < age.opens THEN DayTicks ELSE age.pace

LEMMA StrideIs ==
  ASSUME Fair, LivingInv, LivingNext, NEW s \in Awake, soul'[s].tick > soul[s].tick, NEW c, c = soul[s].tick
  PROVE  /\ s \in Copy /\ c \in Nat /\ clock[s] = c /\ Tick(s)
         /\ soul'[s].tick = (c \div Pace(c) + 1) * Pace(c)
         /\ pulse'[s] = News(soul[s], soul'[s].tick)
         /\ \E w, x : /\ Beat(s, soul'[s].tick, w, x)
                     /\ soul'[s].charge = x.charge
<1>1. s \in Copy /\ c \in Nat /\ c > 0 /\ clock[s] = c /\ Tick(s)
  BY OnlyTicks, Parts DEF LivingInv, SoulAt, Whole, Typed, Awake
<1>2. PICK t : t = NextTick(s)
  OBVIOUS
<1>3. PICK w, x : Beat(s, t, w, x)
  BY <1>1, <1>2, TickIs
<1>4. PICK y : y = [x EXCEPT !.pending = <<>>]
  OBVIOUS
<1>5. soul' = [soul EXCEPT ![s] = y]
  BY <1>1, <1>3, <1>4, Beaten
<1>6. soul'[s] = y
  BY <1>1, <1>5 DEF LivingInv
<1>7. y.tick = t /\ y.charge = x.charge
  <2>1. Whole(x) /\ x.tick = t
    BY <1>3 DEF Beat, SameClock
  <2>2. SameClock(x, y) /\ y.charge = x.charge
    BY <1>4, <2>1, Taken
  <2> QED BY <2>1, <2>2 DEF SameClock
<1>8. pulse'[s] = News(soul[s], t)
  BY <1>1, <1>2, TickIs DEF LivingInv
<1>9. t = (c \div Pace(c) + 1) * Pace(c)
  BY <1>1, <1>2 DEF NextTick, Pace
<1> QED BY <1>1, <1>3, <1>6, <1>7, <1>8, <1>9

LEMMA PaceIs ==
  ASSUME LivingInv, NEW c \in Nat
  PROVE  /\ Pace(c) \in Nat \ {0} /\ DayTicks % Pace(c) = 0
         /\ (Pace(c) <= 106 \/ Pace(c) >= 10669)
<1>1. age.pace \in Nat \ {0} /\ DayTicks % age.pace = 0 /\ (age.pace <= 106 \/ age.pace >= 10669)
  BY AgeIs DEF LivingInv
<1>2. DayTicks \in Nat \ {0} /\ DayTicks % DayTicks = 0 /\ DayTicks >= 10669
  BY DEF DayTicks
<1> QED BY <1>1, <1>2 DEF Pace

LEMMA Foretelling ==
  ASSUME Fair, LivingInv, LivingNext, NEW s \in Awake, soul'[s].tick > soul[s].tick
  PROVE  {f[2] : f \in {x \in pulse'[s] : x[1] = "Festival"}}
           = {o.which : o \in {x \in divine(soul[s].tick, 1) :
                                 x.portent = "Festival" /\ x.resolves = soul'[s].tick}}
<1>1. PICK c : c = soul[s].tick
  OBVIOUS
<1>2. PICK t : t = soul'[s].tick
  OBVIOUS
<1>3. PICK p : p = Pace(c)
  OBVIOUS
<1>4. /\ s \in Copy /\ c \in Nat /\ t = (c \div p + 1) * p /\ pulse'[s] = News(soul[s], t)
  BY <1>1, <1>2, <1>3, StrideIs
<1>5. p \in Nat \ {0} /\ DayTicks % p = 0
  BY <1>3, <1>4, PaceIs
<1>6. t \in Nat /\ t > c
  BY <1>4, <1>5, Strode
<1>7. t <= (Day(c) + 1) * DayTicks
  BY <1>4, <1>5, ByDawn
<1>8. soul[s].last_festival = festival(c)
  BY <1>1 DEF LivingInv, SoulAt, Whole, UpToDate, Awake
<1>9. {f[2] : f \in {x \in pulse'[s] : x[1] = "Festival"}} = {festival(t)} \ {festival(c), NoFestival}
  BY <1>4, <1>8, NewsIs
<1>10. {o.which : o \in {x \in divine(c, 1) : x.portent = "Festival" /\ x.resolves = t}}
         = IF t = (Day(c) + 1) * DayTicks THEN {festival(t)} \ {NoFestival} ELSE {}
  BY <1>4, <1>6, ForetoldIs
<1>11. PICK day \in Nat \ {0} : day = DayTicks
  BY DEF DayTicks
<1>12. PICK k \in Nat, r \in 0..(day - 1) : c = day * k + r /\ c \div day = k /\ c % day = r
  BY <1>4, <1>11, Divided
<1>13. Day(c) = k
  BY <1>11, <1>12 DEF Day
<1>14. PICK n \in Nat : n = day * k
  BY <1>11
<1>15. (k + 1) * day = n + day
  BY <1>11, <1>14
<1>16. CASE t = (Day(c) + 1) * DayTicks
  <2>1. t = day * (k + 1) + 0 /\ k + 1 \in Nat /\ 0 < day
    BY <1>11, <1>13, <1>14, <1>15, <1>16
  <2>2. Day(t) = Day(c) + 1
    BY <1>11, <1>13, <2>1, Remains DEF Day
  <2>3. festival(t) # NoFestival => festival(c) # festival(t)
    BY <1>4, <1>6, <2>2, NextDay
  <2> QED BY <1>1, <1>2, <1>9, <1>10, <1>16, <2>3
<1>17. CASE t # (Day(c) + 1) * DayTicks
  <2>1. t < n + day
    BY <1>6, <1>7, <1>11, <1>13, <1>14, <1>15, <1>17
  <2>2. PICK z \in Nat : z = t - n
    BY <1>6, <1>12, <1>14
  <2>3. z < day /\ t = day * k + z
    <3>1. t = n + z
      BY <1>6, <2>2
    <3>2. z < day
      BY <1>6, <2>1, <3>1
    <3> QED BY <1>14, <3>1, <3>2
  <2>4. Day(t) = Day(c)
    <3>1. t % day = z /\ t \div day = k
      BY <2>3, Remains
    <3> QED BY <1>11, <1>13, <3>1 DEF Day
  <2>5. festival(t) = festival(c)
    BY <1>4, <1>6, <2>4, OneDay
  <2> QED BY <1>1, <1>2, <1>9, <1>10, <1>17, <2>5
<1> QED BY <1>16, <1>17

\* The festivals of a tick's news are those foretold a day ahead for it: each
\* comes with its dawn, once, and none comes unforetold.
THEOREM PropheciesComeTrue ==
  ASSUME Fair
  PROVE  LivingSpec => PropheciesHold
<1> DEFINE AsForetold ==
      \A s \in Awake : soul'[s].tick > soul[s].tick =>
        {f[2] : f \in {x \in pulse'[s] : x[1] = "Festival"}}
          = {o.which : o \in {x \in divine(soul[s].tick, 1) :
                                /\ x.portent = "Festival"
                                /\ x.resolves = soul'[s].tick}}
<1>1. LivingInit => LivingInv
  BY LivingInitInv
<1>2. LivingInv /\ [LivingNext]_livingvars => LivingInv'
  BY LivingNextInv
<1>3. LivingInv /\ [LivingNext]_livingvars => [AsForetold]_livingvars
  <2> SUFFICES ASSUME LivingInv, LivingNext PROVE AsForetold
    OBVIOUS
  <2> QED BY Foretelling
<1> HIDE DEF AsForetold
<1>4. [][AsForetold]_livingvars => PropheciesHold
  BY PTL DEF PropheciesHold, AsForetold
<1> QED BY <1>1, <1>2, <1>3, <1>4, PTL DEF LivingSpec

-----------------------------------------------------------------------------
(* How long strides are, and what the land gains in one.                    *)

\* A copy is at most two ticks past the end of a stride, one while it has not
\* woken; only the first of the copies starts before an age opens.
InStride(s) ==
  clock[s] # NotYet =>
    /\ clock[s] % Pace(clock[s]) <= 2
    /\ soul[s].tick = 0 => clock[s] % Pace(clock[s]) <= 1
    /\ s = Elder => /\ clock[s] % Pace(clock[s]) <= 1
                    /\ soul[s].tick = 0 => clock[s] = 0
    /\ s # Elder => clock[s] >= age.opens
StridesKept == \A s \in Copy : InStride(s)

LEMMA OnePast ==
  ASSUME NEW c \in Nat, NEW p \in Nat \ {0}, NEW m \in Nat, c % p <= m
  PROVE  (c + 1) % p <= m + 1
<1>1. PICK q \in Nat, r \in 0..(p - 1) : c = p * q + r /\ c \div p = q /\ c % p = r
  BY Divided
<1>2. CASE r + 1 < p
  <2>1. PICK d \in Nat, n \in Nat : d = c + 1 /\ n = r + 1
    OBVIOUS
  <2>2. d = p * q + n /\ n < p
    BY <1>1, <1>2, <2>1
  <2>3. d % p = n
    BY <2>2, Remains
  <2> QED BY <1>1, <2>1, <2>3
<1>3. CASE r + 1 = p
  <2>1. PICK n \in Nat : n = p * q
    OBVIOUS
  <2>2. p * (q + 1) = n + p
    BY <2>1
  <2>3. c + 1 = p * (q + 1) + 0
    BY <1>1, <1>3, <2>1, <2>2
  <2>4. (c + 1) % p = 0
    BY <2>3, Remains
  <2> QED BY <2>4
<1> QED BY <1>1, <1>2, <1>3

\* The end of a stride of an age is also the end of one of its paces.
LEMMA StrideEnds ==
  ASSUME LivingInv, NEW c \in Nat, NEW t, t = (c \div Pace(c) + 1) * Pace(c)
  PROVE  t \in Nat /\ t > c /\ t % Pace(t) = 0
<1>1. PICK p \in Nat \ {0} : p = Pace(c) /\ DayTicks % p = 0
  BY PaceIs
<1>2. t \in Nat /\ t > c /\ t % p = 0
  BY <1>1, Strode
<1>3. Pace(t) = Pace(c) \/ Pace(c) = DayTicks
  BY <1>2, AgeIs DEF Pace, LivingInv
<1>4. CASE Pace(t) = Pace(c)
  BY <1>1, <1>2, <1>4
<1>5. CASE Pace(c) = DayTicks
  <2>1. PICK w \in Nat \ {0} : w = Pace(t) /\ DayTicks % w = 0
    BY <1>2, PaceIs
  <2>2. PICK q \in Nat, r \in 0..(p - 1) : t = p * q + r /\ t \div p = q /\ t % p = r
    BY <1>2, Divided
  <2>3. PICK m \in Nat, z \in 0..(w - 1) : p = w * m + z /\ p \div w = m /\ p % w = z
    BY Divided
  <2>4. PICK n \in Nat : n = m * q
    OBVIOUS
  <2>6. t = p * q /\ p = w * m
    <3>1. r = 0
      BY <1>2, <2>2
    <3>2. z = 0
      BY <1>1, <1>5, <2>1, <2>3
    <3>3. t = p * q
      BY <2>2, <3>1
    <3>4. p = w * m
      BY <2>3, <3>2
    <3> QED BY <3>3, <3>4
  <2>7. (w * m) * q = w * n
    BY <2>4
  <2>5. t = w * n + 0 /\ 0 < w
    BY <2>6, <2>7
  <2> QED BY <1>2, <2>1, <2>5, Remains
<1> QED BY <1>2, <1>3, <1>4, <1>5

LEMMA StridesStart == LivingInit => StridesKept
<1> SUFFICES ASSUME LivingInit, NEW s \in Copy, clock[s] # NotYet PROVE InStride(s)
  BY DEF StridesKept, InStride
<1>1. LivingInv
  BY LivingInitInv
<1>2. s = Elder /\ clock[s] = 0
  BY DEF LivingInit
<1>3. PICK p \in Nat \ {0} : p = Pace(0)
  BY <1>1, PaceIs
<1>4. 0 % p = 0
  OBVIOUS
<1> QED BY <1>2, <1>3, <1>4 DEF InStride

LEMMA StridesStay ==
  ASSUME LivingInv, StridesKept, NEW s \in Copy, age' = age, clock'[s] = clock[s],
         soul'[s].tick = soul[s].tick
  PROVE  InStride(s)'
<1>1. InStride(s)
  BY DEF StridesKept
<1> QED BY <1>1 DEF InStride, Pace

LEMMA TickStrides ==
  ASSUME Fair, LivingInv, StridesKept, NEW s \in Copy, Tick(s)
  PROVE  StridesKept'
<1>1. PICK t : t = NextTick(s)
  OBVIOUS
<1>2. clock' = [clock EXCEPT ![s] = t] /\ age' = age /\ clock[s] # NotYet
  BY <1>1, TickIs
<1>3. PICK w, x : Beat(s, t, w, x)
  BY <1>1, TickIs
<1>4. PICK y : y = [x EXCEPT !.pending = <<>>]
  OBVIOUS
<1>5. soul' = [soul EXCEPT ![s] = y]
  BY <1>3, <1>4, Beaten
<1>6. y.tick = t
  <2>1. Whole(x) /\ x.tick = t
    BY <1>3 DEF Beat, SameClock
  <2>2. SameClock(x, y)
    BY <1>4, <2>1, Taken
  <2> QED BY <2>1, <2>2 DEF SameClock
<1>7. PICK c \in Nat : c = clock[s]
  BY <1>2 DEF LivingInv
<1>8. t \in Nat /\ t > c /\ t > 0
  BY <1>1, <1>2, <1>7, NextTickIs
<1>9. InStride(s)
  BY DEF StridesKept
<1>10. PICK p \in Nat \ {0} : p = Pace(t)
  BY <1>8, PaceIs
<1>11. t % p <= 2 /\ (s = Elder => t % p <= 1)
  <2>1. CASE soul[s].tick = 0
    <3>1. t = c + 1
      BY <1>1, <1>7, <2>1 DEF NextTick
    <3>2. CASE s = Elder
      <4>1. t = 0 + 1 /\ 0 % p <= 0
        BY <1>2, <1>7, <1>9, <2>1, <3>1, <3>2 DEF InStride
      <4>2. (0 + 1) % p <= 0 + 1
        BY <4>1, OnePast
      <4>3. t % p <= 1 /\ t % p \in Int
        BY <1>8, <4>1, <4>2
      <4> QED BY <4>3
    <3>3. CASE s # Elder
      <4>1. c >= age.opens /\ c % Pace(c) <= 1
        BY <1>2, <1>7, <1>9, <2>1, <3>3 DEF InStride
      <4>2. Pace(c) = Pace(t)
        BY <3>1, <4>1, AgeIs DEF Pace, LivingInv
      <4>3. c % p <= 1
        BY <1>10, <4>1, <4>2
      <4>4. (c + 1) % p <= 1 + 1
        BY <4>3, OnePast
      <4> QED BY <3>1, <3>3, <4>4
    <3> QED BY <3>2, <3>3
  <2>2. CASE soul[s].tick # 0
    <3>1. t = (c \div Pace(c) + 1) * Pace(c)
      BY <1>1, <1>7, <2>2 DEF NextTick, Pace
    <3>2. t % p = 0
      BY <1>10, <3>1, StrideEnds
    <3> QED BY <3>2
  <2> QED BY <2>1, <2>2
<1>12. s # Elder => t >= age.opens
  BY <1>2, <1>7, <1>8, <1>9, AgeIs DEF InStride, LivingInv
<1>13. InStride(s)'
  <2>1. clock'[s] = t /\ soul'[s].tick = t
    BY <1>2, <1>5, <1>6 DEF LivingInv
  <2>2. Pace(t)' = p
    BY <1>2, <1>10 DEF Pace
  <2>3. clock'[s] % Pace(clock[s])' = t % p
    BY <1>2, <1>10, <2>1 DEF Pace
  <2> QED BY <1>2, <1>8, <1>11, <1>12, <2>1, <2>3 DEF InStride
<1>14. ASSUME NEW r \in Copy, r # s PROVE InStride(r)'
  <2>1. clock'[r] = clock[r] /\ soul'[r] = soul[r]
    BY <1>2, <1>5, <1>14 DEF LivingInv
  <2> QED BY <1>2, <2>1, StridesStay
<1> QED BY <1>13, <1>14 DEF StridesKept

LEMMA ImportStrides ==
  ASSUME LivingInv, StridesKept, NEW s \in Copy, Import(s)
  PROVE  StridesKept'
<1>1. /\ Open(clock[Elder]) /\ clock' = [clock EXCEPT ![s] = clock[Elder]] /\ s # Elder
      /\ soul' = [soul EXCEPT ![s] = Fresh] /\ age' = age
  BY DEF Import
<1>2. PICK c \in Nat : c = clock[Elder] /\ c >= age.opens
  BY <1>1, ElderOpen
<1>3. InStride(Elder) /\ Elder \in Copy
  BY LivingAssumption DEF StridesKept
<1>4. c % Pace(c) <= 1
  BY <1>2, <1>3 DEF InStride, NotYet
<1>5. InStride(s)'
  <2>1. clock'[s] = c /\ soul'[s].tick = 0
    BY <1>1, <1>2, FreshIs DEF LivingInv
  <2>2. PICK p \in Nat \ {0} : p = Pace(c)
    BY <1>2, PaceIs
  <2>3. clock'[s] % Pace(clock[s])' = c % p
    BY <1>1, <2>1, <2>2 DEF Pace
  <2>4. c % p <= 1 /\ c % p \in Int
    BY <1>4, <2>2
  <2> QED BY <1>1, <1>2, <2>1, <2>3, <2>4 DEF InStride
<1>6. ASSUME NEW r \in Copy, r # s PROVE InStride(r)'
  <2>1. clock'[r] = clock[r] /\ soul'[r] = soul[r]
    BY <1>1, <1>6 DEF LivingInv
  <2> QED BY <1>1, <2>1, StridesStay
<1> QED BY <1>5, <1>6 DEF StridesKept

LEMMA StridesNext ==
  ASSUME Fair
  PROVE  LivingInv /\ StridesKept /\ [LivingNext]_livingvars => StridesKept'
<1> SUFFICES ASSUME LivingInv, StridesKept, [LivingNext]_livingvars PROVE StridesKept'
  OBVIOUS
<1>1. ASSUME age' = age, clock' = clock, \A s \in Copy : soul'[s].tick = soul[s].tick
      PROVE  StridesKept'
  BY <1>1, StridesStay DEF StridesKept
<1>2. CASE Hatch \/ Care \/ UNCHANGED livingvars
  BY <1>1, <1>2 DEF Hatch, Care, livingvars
<1>3. ASSUME NEW s \in Copy, Ask(s) PROVE StridesKept'
  <2>1. age' = age /\ clock' = clock
    BY <1>3 DEF Ask
  <2>2. \A r \in Copy : soul'[r].tick = soul[r].tick
    BY <1>3, AskKeeps
  <2> QED BY <1>1, <2>1, <2>2
<1>4. ASSUME NEW s \in Copy, Tick(s) PROVE StridesKept'
  BY <1>4, TickStrides
<1>5. ASSUME NEW s \in Copy, Import(s) PROVE StridesKept'
  BY <1>5, ImportStrides
<1> QED BY <1>2, <1>3, <1>4, <1>5 DEF LivingNext

\* What a stride makes of the wells.
Gains(charge, d, brought) ==
  /\ Ringed(d) - Ringed(charge) <= 7 * brought
  /\ (\A w \in Well : charge[w] + brought < Capacity /\ d[w] < Capacity) =>
       Ringed(d) - Ringed(charge) = 7 * brought

LEMMA LandGains ==
  ASSUME NEW charge \in [Well -> 0..Capacity], NEW t \in Nat, NEW ticks \in Nat,
         ticks <= 106 \/ ticks >= 10667
  PROVE  Gains(charge, Breathed(charge, t, ticks), Brought(t, ticks))
<1> PICK d : d = Breathed(charge, t, ticks)
  OBVIOUS
<1>1. PICK b \in Nat : b = Brought(t, ticks) /\ (ticks >= 10667 => b >= Capacity)
  BY TideBrings
<1>2. PICK full \in Nat : full = Capacity
  BY CapacityIs
<1>3. PICK r : r = Recharged(charge, t, ticks)
  OBVIOUS
<1>4. r \in [Well -> 0..Capacity] /\ \A w \in Well : r[w] = Clamped(charge[w] + b, 0, Capacity)
  <2>1. \A w \in Well : Recharged(charge, t, ticks)[w] = Clamped(charge[w] + Brought(t, ticks), 0, Capacity)
    BY RechargedIn
  <2>2. PICK w : w \in Well
    BY Wells
  <2>3. Recharged(charge, t, ticks) \in [Well -> 0..Capacity]
    BY <2>2, RechargedIn
  <2> QED BY <1>1, <1>3, <2>1, <2>3
<1>5. d = Diffused(r, ticks) /\ d \in [Well -> 0..Capacity]
  <2>1. d = Diffused(r, ticks)
    BY <1>3 DEF Breathed
  <2>2. PICK w : w \in Well
    BY Wells
  <2> QED BY <1>4, <2>1, <2>2, DiffusedIn
<1>6. \A i \in 1..7 : charge[i] \in 0..full /\ r[i] \in 0..full /\ d[i] \in 0..full
  BY <1>2, <1>4, <1>5, Wells
<1>7. ASSUME NEW i \in 1..7
      PROVE  r[i] <= charge[i] + b /\ (charge[i] + b < full => r[i] = charge[i] + b)
  <2>1. PICK n \in Nat : n = charge[i] + b
    BY <1>6
  <2>2. r[i] = Clamped(n, 0, full)
    BY <1>2, <1>4, <2>1, Wells
  <2> QED BY <2>1, <2>2 DEF Clamped
<1>8. /\ charge[1] \in 0..full /\ charge[2] \in 0..full /\ charge[3] \in 0..full /\ charge[4] \in 0..full
      /\ charge[5] \in 0..full /\ charge[6] \in 0..full /\ charge[7] \in 0..full
  BY <1>6
<1>9. /\ d[1] \in 0..full /\ d[2] \in 0..full /\ d[3] \in 0..full /\ d[4] \in 0..full
      /\ d[5] \in 0..full /\ d[6] \in 0..full /\ d[7] \in 0..full
  BY <1>6
<1>10. CASE ticks >= 10667
  <2>1. b >= full
    BY <1>1, <1>2, <1>10
  <2>2. Ringed(d) - Ringed(charge) <= 7 * b
    BY <1>8, <1>9, <2>1 DEF Ringed
  <2>3. ~ (charge[1] + b < Capacity)
    BY <1>2, <1>8, <2>1
  <2>4. 1 \in Well
    BY Wells
  <2> QED BY <1>1, <2>2, <2>3, <2>4 DEF Gains
<1>11. CASE ticks <= 106
  <2>1. ticks \in 0..106
    BY <1>11
  <2>2. /\ r[1] \in 0..full /\ r[2] \in 0..full /\ r[3] \in 0..full /\ r[4] \in 0..full
        /\ r[5] \in 0..full /\ r[6] \in 0..full /\ r[7] \in 0..full
    BY <1>6
  <2>3. /\ r[1] <= charge[1] + b /\ r[2] <= charge[2] + b /\ r[3] <= charge[3] + b
        /\ r[4] <= charge[4] + b /\ r[5] <= charge[5] + b /\ r[6] <= charge[6] + b
        /\ r[7] <= charge[7] + b
    BY <1>7
  <2>4. Ringed(d) <= Ringed(r)
    <3>1. Ringed(Diffused(r, ticks)) <= Ringed(r)
      BY <1>4, <2>1, RingKeeps
    <3> QED BY <1>5, <3>1
  <2>5. Ringed(d) - Ringed(charge) <= 7 * b
    <3>1. Ringed(r) - Ringed(charge) <= 7 * b
      BY <1>8, <2>2, <2>3 DEF Ringed
    <3>2. Ringed(d) \in Int /\ Ringed(r) \in Int /\ Ringed(charge) \in Int
      BY <1>8, <1>9, <2>2 DEF Ringed
    <3> QED BY <2>4, <3>1, <3>2
  <2>6. ASSUME \A w \in Well : charge[w] + b < Capacity /\ d[w] < Capacity
        PROVE  Ringed(d) - Ringed(charge) = 7 * b
    <3>1. \A i \in 1..7 : r[i] = charge[i] + b
      BY <1>2, <1>7, <2>6, Wells
    <3>2. /\ r[1] = charge[1] + b /\ r[2] = charge[2] + b /\ r[3] = charge[3] + b
          /\ r[4] = charge[4] + b /\ r[5] = charge[5] + b /\ r[6] = charge[6] + b
          /\ r[7] = charge[7] + b
      BY <3>1
    <3>3. \A w \in Well : Diffused(r, ticks)[w] < Capacity
      BY <1>5, <2>6
    <3>6. NoneSpills(r, Diffused(r, ticks))
      BY <1>4, <2>1, RingKeeps
    <3>4. Ringed(Diffused(r, ticks)) = Ringed(r)
      BY <3>3, <3>6 DEF NoneSpills
    <3>5. Ringed(r) - Ringed(charge) = 7 * b
      BY <1>8, <3>2 DEF Ringed
    <3> QED BY <1>5, <3>4, <3>5
  <2>7. Gains(charge, d, b)
    BY <2>5, <2>6 DEF Gains
  <2> QED BY <1>1, <2>7
<1> QED BY <1>10, <1>11

LEMMA TideKept ==
  ASSUME Fair, LivingInv, StridesKept, LivingNext, NEW s \in Awake, soul'[s].tick > soul[s].tick
  PROVE  LET ticks == soul'[s].tick - soul[s].tick
             brought == (15 * mana_tide[season(soul'[s].tick)] * ticks) \div 8
             gained_ == TotalCharge(soul'[s]) - TotalCharge(soul[s])
         IN /\ gained_ <= Len(Elements) * brought
            /\ (\A w \in Well : /\ soul[s].charge[w] + brought < Capacity
                                /\ soul'[s].charge[w] < Capacity)
                 => gained_ = Len(Elements) * brought
<1>1. PICK c : c = soul[s].tick
  OBVIOUS
<1>2. PICK y : y = soul'[s]
  OBVIOUS
<1>3. PICK t : t = y.tick
  OBVIOUS
<1>4. /\ s \in Copy /\ c \in Nat /\ clock[s] = c /\ c > 0
      /\ t = (c \div Pace(c) + 1) * Pace(c)
      /\ \E w, x : Beat(s, t, w, x) /\ y.charge = x.charge
  BY <1>1, <1>2, <1>3, StrideIs DEF Awake
<1>5. PICK p \in Nat \ {0} : p = Pace(c) /\ (p <= 106 \/ p >= 10669)
  BY <1>4, PaceIs
<1>6. t \in Nat /\ t > c /\ t - c = p - (c % p)
  <2>1. t = (c \div p + 1) * p
    BY <1>4, <1>5
  <2> QED BY <1>4, <2>1, Strode
<1>7. c % p <= 2 /\ c % p \in 0..(p - 1)
  BY <1>4, <1>5 DEF StridesKept, InStride, NotYet
<1>8. PICK ticks \in Nat : ticks = t - c
  BY <1>4, <1>6
<1>9. ticks <= 106 \/ ticks >= 10667
  BY <1>5, <1>6, <1>7, <1>8
<1>10. PICK w, x : Beat(s, t, w, x) /\ y.charge = x.charge
  BY <1>4
<1>11. y.charge = Breathed(soul[s].charge, t, ticks)
  BY <1>1, <1>4, <1>8, <1>10 DEF Beat
<1>12. PICK charge \in [Well -> 0..Capacity] : charge = soul[s].charge
  BY <1>4, Parts DEF LivingInv, SoulAt, Whole, Typed
<1>13. PICK d : d = y.charge
  OBVIOUS
<1>14. d = Breathed(charge, t, ticks)
  BY <1>11, <1>12, <1>13
<1>15. d \in [Well -> 0..Capacity]
  BY <1>6, <1>14, BreathedIn
<1>16. TotalCharge(soul[s]) = Ringed(charge)
  <2>1. \A i \in Well : soul[s].charge[i] \in Nat
    BY <1>12, CapacityIs
  <2> QED BY <1>12, <2>1, TotalIs DEF Ringed
<1>17. TotalCharge(y) = Ringed(d)
  <2>1. \A i \in Well : y.charge[i] \in Nat
    BY <1>13, <1>15, CapacityIs
  <2> QED BY <1>13, <2>1, TotalIs DEF Ringed
<1>18. PICK b : b = Brought(t, ticks) /\ b = (15 * mana_tide[season(t)] * ticks) \div 8
  BY DEF Brought
<1>19. Gains(charge, d, b)
  <2>1. Gains(charge, Breathed(charge, t, ticks), Brought(t, ticks))
    BY <1>6, <1>9, LandGains
  <2> QED BY <1>14, <1>18, <2>1
<1>20. TotalCharge(y) - TotalCharge(soul[s]) <= 7 * b
  BY <1>16, <1>17, <1>19 DEF Gains
<1>21. (\A i \in Well : soul[s].charge[i] + b < Capacity /\ y.charge[i] < Capacity) =>
         TotalCharge(y) - TotalCharge(soul[s]) = 7 * b
  BY <1>12, <1>13, <1>16, <1>17, <1>19 DEF Gains
<1>22. b = (15 * mana_tide[season(soul'[s].tick)] * (soul'[s].tick - soul[s].tick)) \div 8
  BY <1>1, <1>2, <1>3, <1>8, <1>18
<1> QED BY <1>2, <1>20, <1>21, <1>22, Wells

\* The land gains no more mana in a stride than the tide brings to its seven
\* wells, and exactly that while none of them brims: what flows along the ring
\* is neither made nor lost.
THEOREM ManaNeitherMadeNorLost ==
  ASSUME Fair
  PROVE  LivingSpec => ManaKept
<1> DEFINE TideHolds ==
      \A s \in Awake :
        soul'[s].tick > soul[s].tick =>
          LET ticks == soul'[s].tick - soul[s].tick
              brought == (15 * mana_tide[season(soul'[s].tick)] * ticks) \div 8
              gained_ == TotalCharge(soul'[s]) - TotalCharge(soul[s])
          IN /\ gained_ <= Len(Elements) * brought
             /\ (\A w \in Well : /\ soul[s].charge[w] + brought < Capacity
                                 /\ soul'[s].charge[w] < Capacity)
                  => gained_ = Len(Elements) * brought
<1>1. LivingInit => LivingInv /\ StridesKept
  BY LivingInitInv, StridesStart
<1>2. LivingInv /\ StridesKept /\ [LivingNext]_livingvars => (LivingInv /\ StridesKept)'
  BY LivingNextInv, StridesNext
<1>3. LivingInv /\ StridesKept /\ [LivingNext]_livingvars => [TideHolds]_livingvars
  <2> SUFFICES ASSUME LivingInv, StridesKept, LivingNext PROVE TideHolds
    OBVIOUS
  <2> QED BY TideKept
<1> HIDE DEF TideHolds
<1>4. [][TideHolds]_livingvars => ManaKept
  BY PTL DEF ManaKept, TideHolds
<1> QED BY <1>1, <1>2, <1>3, <1>4, PTL DEF LivingSpec
=============================================================================
