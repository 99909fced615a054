---------------------------- MODULE AgreementProofs ----------------------------
(***************************************************************************)
(* What the machines of a fleet agree on.                                  *)
(*                                                                         *)
(* LockstepReplicas for any donors, tabs and lengths of a run: replicas    *)
(* that have simulated every tick are in the same state at the same tick,  *)
(* and no replica returns to a tick.                                       *)
(*                                                                         *)
(* HotReload for any fleet, zones, clients and packs: content only moves   *)
(* forward, a broken pack plays nowhere, an epoch names one pack, and the  *)
(* whole of it implements ContentSwap.                                     *)
(*                                                                         *)
(* PackPlay for any edits published: what was cast and what may be cast    *)
(* resolve in the live pack, and no spell harms its caster.                *)
(***************************************************************************)
EXTENDS HotReload, LockstepReplicas, PackPlay, FiniteSetTheorems, FunctionTheorems, SequenceTheorems, TLAPS

-----------------------------------------------------------------------------
(* Lists in an order. *)

\* A set of naturals has a least element.
LEMMA NatOrder == IsWellFoundedOn({p \in Nat \X Nat : p[1] < p[2]}, Nat)
  BY NatLessThanWellFounded, Zenon DEF OpToRel

LEMMA Least ==
  ASSUME NEW S \in SUBSET Nat, S # {}
  PROVE  \E k \in S : \A j \in S : k <= j
<1> DEFINE R == {p \in Nat \X Nat : p[1] < p[2]}
<1>1. PICK k \in S : \A j \in S : ~ (<<j, k>> \in R)
  <2>1. IsWellFoundedOn(R, Nat)
    BY NatOrder
  <2> HIDE DEF R
  <2> QED BY <2>1, WFMin
<1>2. \A j \in S : k <= j
  <2> TAKE j \in S
  <2>1. ~ (<<j, k>> \in R)
    BY <1>1
  <2> QED BY <2>1
<1> QED BY <1>2

\* An order of some places: a set of pairs.
Strict(places, before) ==
  /\ \A i \in places : <<i, i>> \notin before
  /\ \A i, j \in places : i # j => <<i, j>> \in before \/ <<j, i>> \in before
  /\ \A i, j, k \in places :
       <<i, j>> \in before /\ <<j, k>> \in before => <<i, k>> \in before

\* The places are counted off in it.
LEMMA Enumerated ==
  ASSUME NEW places, IsFiniteSet(places), NEW before, Strict(places, before)
  PROVE  /\ Cardinality(places) \in Nat
         /\ \A k \in 1..Cardinality(places) : Nth(places, before, k) \in places
         /\ \A i \in places : \E k \in 1..Cardinality(places) : Nth(places, before, k) = i
         /\ \A j, k \in 1..Cardinality(places) :
              j < k => <<Nth(places, before, j), Nth(places, before, k)>> \in before
<1> DEFINE n == Cardinality(places)
           Below(i) == {j \in places : <<j, i>> \in before}
           rank == [i \in places |-> Cardinality(Below(i)) + 1]
<1>1. n \in Nat
  BY FS_CardinalityType
<1>2. \A i \in places : IsFiniteSet(Below(i)) /\ Cardinality(Below(i)) \in 0..(n - 1)
  <2> TAKE i \in places
  <2>1. Below(i) \in SUBSET (places \ {i})
    BY DEF Strict
  <2>2. IsFiniteSet(places \ {i}) /\ Cardinality(places \ {i}) = n - 1
    BY FS_RemoveElement
  <2>5. PICK S, P : S = Below(i) /\ P = places \ {i}
    OBVIOUS
  <2>6. IsFiniteSet(S) /\ Cardinality(S) <= Cardinality(P)
    BY <2>1, <2>2, <2>5, FS_Subset
  <2>3. IsFiniteSet(Below(i)) /\ Cardinality(Below(i)) <= n - 1
    BY <2>2, <2>5, <2>6
  <2>4. Cardinality(Below(i)) \in Nat
    BY <2>3, FS_CardinalityType
  <2> QED BY <1>1, <2>3, <2>4
<1>3. \A i, j \in places : <<i, j>> \in before => rank[i] < rank[j]
  <2> TAKE i \in places, j \in places
  <2> HAVE <<i, j>> \in before
  <2>1. Below(i) \in SUBSET Below(j) /\ i \in Below(j) /\ i \notin Below(i)
    BY DEF Strict
  <2>2. Cardinality(Below(i)) <= Cardinality(Below(j)) /\ Cardinality(Below(i)) # Cardinality(Below(j))
    BY <1>2, <2>1, FS_Subset
  <2>3. Cardinality(Below(i)) \in Int /\ Cardinality(Below(j)) \in Int
    BY <1>2
  <2> HIDE DEF Below
  <2>4. rank[i] = Cardinality(Below(i)) + 1 /\ rank[j] = Cardinality(Below(j)) + 1
    OBVIOUS
  <2> QED BY <2>2, <2>3, <2>4
<1>4. rank \in [places -> 1..n]
  BY <1>1, <1>2
<1>5. \A i, j \in places : rank[i] = rank[j] => i = j
  <2> HIDE DEF rank, n
  <2> SUFFICES ASSUME NEW i \in places, NEW j \in places, rank[i] = rank[j], i # j PROVE FALSE
    OBVIOUS
  <2>1. rank[i] \in Int /\ rank[j] \in Int
    BY <1>1, <1>4
  <2>2. <<i, j>> \in before \/ <<j, i>> \in before
    BY DEF Strict
  <2>3. rank[i] < rank[j] \/ rank[j] < rank[i]
    BY <1>3, <2>2
  <2> QED BY <2>1, <2>3
<1>6. \A k \in 1..n : \E i \in places : rank[i] = k
  <2> HIDE DEF rank
  <2>1. rank \in Injection(places, 1..n)
    BY <1>4, <1>5 DEF Injection, IsInjective
  <2>2. IsFiniteSet(1..n) /\ Cardinality(1..n) = n
    BY <1>1, FS_Interval
  <2>3. rank \in Surjection(places, 1..n)
    BY <2>1, <2>2, FS_Injection
  <2> QED BY <2>3 DEF Surjection
<1>7. ASSUME NEW k \in 1..n
      PROVE  Nth(places, before, k) \in places /\ rank[Nth(places, before, k)] = k
  <2>1. PICK i \in places : Cardinality(Below(i)) = k - 1
    <3>1. PICK i \in places : rank[i] = k
      BY <1>6
    <3>2. rank[i] = Cardinality(Below(i)) + 1 /\ Cardinality(Below(i)) \in Int
      BY <1>2
    <3> HIDE DEF Below, rank, n
    <3>3. k \in Int
      BY <1>1
    <3> QED BY <3>1, <3>2, <3>3
  <2>2. /\ Nth(places, before, k) \in places
        /\ Cardinality(Below(Nth(places, before, k))) = k - 1
    BY <2>1, Zenon DEF Nth
  <2> QED BY <2>2
<1> HIDE DEF rank
<1>8. ASSUME NEW i \in places
      PROVE  rank[i] \in 1..n /\ Nth(places, before, rank[i]) = i
  BY <1>4, <1>5, <1>7
<1>9. ASSUME NEW j \in 1..n, NEW k \in 1..n, j < k
      PROVE  <<Nth(places, before, j), Nth(places, before, k)>> \in before
  <2> DEFINE a == Nth(places, before, j)
             b == Nth(places, before, k)
  <2>1. a \in places /\ b \in places /\ rank[a] = j /\ rank[b] = k
    BY <1>7
  <2> HIDE DEF a, b, n
  <2>2. a # b /\ ~ (<<b, a>> \in before)
    BY <1>1, <1>3, <1>9, <2>1
  <2>3. <<a, b>> \in before
    BY <2>1, <2>2 DEF Strict
  <2> QED BY <2>3 DEF a, b
<1> QED BY <1>1, <1>7, <1>8, <1>9

\* What is listed is what is at the places, in the order.
Lists(l, S, list, places, before) ==
  /\ l \in Seq(S)
  /\ ToSet(l) = {list[i] : i \in places}
  /\ \A j, k \in 1..Len(l) :
       j < k => \E p, q \in places : /\ <<p, q>> \in before
                                     /\ l[j] = list[p] /\ l[k] = list[q]

LEMMA ListedOK ==
  ASSUME NEW S, NEW list \in Seq(S), NEW places \in SUBSET DOMAIN list, NEW before,
         Strict(places, before)
  PROVE  Lists(Listed(list, places, before), S, list, places, before)
<1>1. DOMAIN list = 1..Len(list) /\ Len(list) \in Nat
  OBVIOUS
<1>2. IsFiniteSet(places)
  <2>1. IsFiniteSet(1..Len(list))
    BY <1>1, FS_Interval
  <2> QED BY <1>1, <2>1, FS_Subset
<1> DEFINE n == Cardinality(places)
           at(k) == Nth(places, before, k)
           l == Listed(list, places, before)
<1>3. /\ n \in Nat
      /\ \A k \in 1..n : at(k) \in places
      /\ \A i \in places : \E k \in 1..n : at(k) = i
      /\ \A j, k \in 1..n : j < k => <<at(j), at(k)>> \in before
  BY <1>2, Enumerated
<1>4. l = [k \in 1..n |-> list[at(k)]]
  BY DEF Listed
<1> HIDE DEF n, at, l
<1>5. \A k \in 1..n : list[at(k)] \in S
  BY <1>1, <1>3
<1>6. l \in Seq(S) /\ Len(l) = n /\ DOMAIN l = 1..n
  BY <1>3, <1>4, <1>5
<1>7. ToSet(l) = {list[i] : i \in places}
  BY <1>3, <1>4, <1>6 DEF ToSet
<1>8. \A j, k \in 1..Len(l) :
        j < k => \E p, q \in places : /\ <<p, q>> \in before
                                      /\ l[j] = list[p] /\ l[k] = list[q]
  <2> TAKE j, k \in 1..Len(l)
  <2> HAVE j < k
  <2>5. j \in 1..n /\ k \in 1..n
    BY <1>6
  <2>1. at(j) \in places /\ at(k) \in places /\ <<at(j), at(k)>> \in before
    BY <1>3, <2>5
  <2>2. l[j] = list[at(j)] /\ l[k] = list[at(k)]
    BY <1>4, <2>5
  <2>3. PICK p \in places, q \in places : p = at(j) /\ q = at(k)
    BY <2>1
  <2>4. <<p, q>> \in before /\ l[j] = list[p] /\ l[k] = list[q]
    BY <2>1, <2>2, <2>3
  <2> QED BY <2>4
<1>9. Lists(l, S, list, places, before)
  BY <1>6, <1>7, <1>8, Zenon DEF Lists
<1> QED BY <1>9 DEF l

-----------------------------------------------------------------------------
(* Inputs applied one after the other. *)

\* The worlds a run goes through.
Goes(w, list, m, f) == f = [n \in 0..m |-> IF n = 0 THEN w ELSE apply(f[n - 1], list[n])]

LEMMA Going ==
  ASSUME NEW w, NEW S, NEW list \in Seq(S)
  PROVE  \E f : Goes(w, list, Len(list), f) /\ Run(w, list) = f[Len(list)]
<1> DEFINE Bad == {m \in Nat : ~ \E f : Goes(w, list, m, f)}
<1>1. Bad = {}
  <2> SUFFICES ASSUME Bad # {} PROVE FALSE
    OBVIOUS
  <2>1. PICK m \in Bad : \A j \in Bad : m <= j
    <3>1. Bad \in SUBSET Nat
      OBVIOUS
    <3> HIDE DEF Bad
    <3> QED BY <3>1, Least
  <2>2. m \in Nat /\ ~ \E f : Goes(w, list, m, f)
    OBVIOUS
  <2>3. m # 0
    <3> DEFINE f == [n \in 0..0 |-> w]
    <3>1. f = [n \in 0..0 |-> IF n = 0 THEN w ELSE apply(f[n - 1], list[n])]
      OBVIOUS
    <3> HIDE DEF f
    <3>2. Goes(w, list, 0, f)
      BY <3>1 DEF Goes
    <3> QED BY <2>2, <3>2
  <2>4. PICK f : Goes(w, list, m - 1, f)
    <3>1. m - 1 \in Nat /\ ~(m <= m - 1)
      BY <2>2, <2>3
    <3>2. m - 1 \notin Bad
      <4> HIDE DEF Bad
      <4> QED BY <2>1, <3>1
    <3> QED BY <3>1, <3>2
  <2> DEFINE g == [n \in 0..m |-> IF n = m THEN apply(f[m - 1], list[m]) ELSE f[n]]
  <2>5. \A n \in 0..m : g[n] = IF n = 0 THEN w ELSE apply(g[n - 1], list[n])
    <3> TAKE n \in 0..m
    <3>1. CASE n = m
      <4>1. g[n] = apply(f[n - 1], list[n]) /\ g[n - 1] = f[n - 1] /\ n # 0
        BY <2>2, <2>3, <3>1
      <4> QED BY <4>1
    <3>2. CASE n # m
      <4>1. n \in 0..(m - 1) /\ (n # 0 => n - 1 \in 0..(m - 1) /\ n - 1 \in 0..m /\ n - 1 # m)
        BY <2>2, <3>2
      <4>2. f[n] = IF n = 0 THEN w ELSE apply(f[n - 1], list[n])
        BY <2>4, <4>1 DEF Goes
      <4>3. g[n] = f[n] /\ (n # 0 => g[n - 1] = f[n - 1])
        BY <3>2, <4>1
      <4> QED BY <4>2, <4>3
    <3> QED BY <3>1, <3>2
  <2>6. g = [n \in 0..m |-> g[n]]
    OBVIOUS
  <2> HIDE DEF g
  <2>7. Goes(w, list, m, g)
    BY <2>5, <2>6 DEF Goes
  <2> QED BY <2>2, <2>7
<1>2. Len(list) \in Nat
  OBVIOUS
<1> DEFINE m == Len(list)
           after == CHOOSE f : Goes(w, list, m, f)
<1>3. Goes(w, list, m, after)
  <2>1. \E f : Goes(w, list, m, f)
    BY <1>1, <1>2
  <2> QED BY <2>1
<1>4. Run(w, list) = after[m]
  BY Zenon DEF Run, Goes
<1> QED BY <1>3, <1>4

\* Each world of it.
LEMMA GoesStep ==
  ASSUME NEW w, NEW list, NEW m \in Nat, NEW f, Goes(w, list, m, f)
  PROVE  f[0] = w /\ \A i \in 1..m : f[i] = apply(f[i - 1], list[i])
<1>1. 0 \in 0..m /\ \A n \in 1..m : n \in 0..m /\ n - 1 \in 0..m /\ n # 0
  OBVIOUS
<1>2. \A n \in 0..m : f[n] = IF n = 0 THEN w ELSE apply(f[n - 1], list[n])
  BY DEF Goes
<1> QED BY <1>1, <1>2

LEMMA RunNone ==
  ASSUME NEW w
  PROVE  Run(w, <<>>) = w
<1>1. <<>> \in Seq({}) /\ Len(<<>>) = 0
  OBVIOUS
<1>2. PICK f : Goes(w, <<>>, 0, f) /\ Run(w, <<>>) = f[0]
  BY <1>1, Going
<1> QED BY <1>2, GoesStep

\* Two lists, one after the other.
LEMMA RunOn ==
  ASSUME NEW w, NEW S, NEW c \in Seq(S), NEW d \in Seq(S)
  PROVE  Run(w, c \o d) = Run(Run(w, c), d)
<1> DEFINE m == Len(c)
           n == Len(d)
<1>1. /\ m \in Nat /\ n \in Nat /\ c \o d \in Seq(S) /\ Len(c \o d) = m + n
      /\ \A i \in 1..(m + n) : (c \o d)[i] = IF i <= m THEN c[i] ELSE d[i - m]
  BY ConcatProperties
<1>2. PICK f : Goes(w, c, m, f) /\ Run(w, c) = f[m]
  BY Going
<1>3. PICK g : Goes(Run(w, c), d, n, g) /\ Run(Run(w, c), d) = g[n]
  BY Going
<1>4. PICK h : Goes(w, c \o d, m + n, h) /\ Run(w, c \o d) = h[m + n]
  BY <1>1, Going
<1> HIDE DEF m, n
<1>5. h[0] = w /\ \A i \in 1..(m + n) : h[i] = apply(h[i - 1], (c \o d)[i])
  <2>1. m + n \in Nat
    BY <1>1
  <2>2. h[0] = w
    BY <1>4, <2>1, GoesStep
  <2>3. PICK both, last : both = c \o d /\ last = m + n
    OBVIOUS
  <2>4. last \in Nat /\ Goes(w, both, last, h)
    BY <1>4, <2>1, <2>3
  <2>5. \A i \in 1..last : h[i] = apply(h[i - 1], both[i])
    BY <2>4, GoesStep
  <2> QED BY <2>2, <2>3, <2>5
<1>6. f[0] = w /\ \A i \in 1..m : f[i] = apply(f[i - 1], c[i])
  BY <1>1, <1>2, GoesStep
<1>7. g[0] = f[m] /\ \A i \in 1..n : g[i] = apply(g[i - 1], d[i])
  BY <1>1, <1>2, <1>3, GoesStep
<1> DEFINE Off == {i \in 0..m : h[i] # f[i]}
           Away == {i \in 0..n : h[m + i] # g[i]}
<1>8. Off = {}
  <2> SUFFICES ASSUME Off # {} PROVE FALSE
    OBVIOUS
  <2>1. PICK i \in Off : \A j \in Off : i <= j
    <3>1. Off \in SUBSET Nat
      BY <1>1
    <3> HIDE DEF Off
    <3> QED BY <3>1, Least
  <2>2. i \in 0..m /\ h[i] # f[i] /\ i # 0
    BY <1>5, <1>6
  <2>3. i - 1 \in 0..m /\ ~(i <= i - 1) /\ i \in 1..m /\ i \in 1..(m + n) /\ i <= m
    BY <1>1, <2>2
  <2>4. h[i - 1] = f[i - 1]
    BY <2>1, <2>3
  <2>5. h[i] = apply(h[i - 1], c[i])
    BY <1>1, <1>5, <2>3
  <2>6. f[i] = apply(f[i - 1], c[i])
    BY <1>6, <2>3
  <2> QED BY <2>2, <2>4, <2>5, <2>6
<1>9. Away = {}
  <2> SUFFICES ASSUME Away # {} PROVE FALSE
    OBVIOUS
  <2>1. PICK i \in Away : \A j \in Away : i <= j
    <3>1. Away \in SUBSET Nat
      BY <1>1
    <3> HIDE DEF Away
    <3> QED BY <3>1, Least
  <2>2. h[m] = f[m]
    BY <1>1, <1>8
  <2>3. i \in 0..n /\ h[m + i] # g[i] /\ i # 0
    BY <1>1, <1>7, <2>2
  <2>4. /\ i - 1 \in 0..n /\ ~(i <= i - 1) /\ i \in 1..n
        /\ m + i \in 1..(m + n) /\ ~(m + i <= m) /\ (m + i) - m = i /\ (m + i) - 1 = m + (i - 1)
    BY <1>1, <2>3
  <2>5. h[m + (i - 1)] = g[i - 1]
    BY <2>1, <2>4
  <2>6. h[m + i] = apply(h[m + (i - 1)], d[i])
    <3>1. (c \o d)[m + i] = d[i]
      BY <1>1, <2>4
    <3>2. h[m + i] = apply(h[(m + i) - 1], (c \o d)[m + i])
      BY <1>5, <2>4
    <3> QED BY <2>4, <3>1, <3>2, Zenon
  <2>7. g[i] = apply(g[i - 1], d[i])
    BY <1>7, <2>4
  <2> QED BY <2>3, <2>5, <2>6, <2>7
<1>10. h[m + n] = g[n]
  BY <1>1, <1>9
<1> QED BY <1>3, <1>4, <1>10 DEF m, n

-----------------------------------------------------------------------------
(* What another host sees of a tab. *)

Relays == {Relay[p] : p \in Tab}

\* A tab's frames write its own id where its neighbours read its relay's.
As(h, a)   == IF h \in Tab /\ a = Relay[h] THEN h ELSE a
View(h, e) == [e EXCEPT !.author = As(h, e.author)]
ViewBody(h, b) == [b EXCEPT !.owner = As(h, b.owner)]

\* Host h's world is world v as h sees it.
Mirrors(h, w, v) ==
  /\ w.next_id = v.next_id
  /\ w.bodies = {ViewBody(h, b) : b \in v.bodies}
  /\ \A b \in v.bodies : b.owner \in Relays

\* Entries as they are broadcast.
Sent == {e \in Entry : e.author \in Relays}

LEMMA RelaysApart ==
  /\ \A p \in Tab : Relay[p] \in Nat /\ Relay[p] \notin Host /\ Relay[p] \in Id
  /\ \A a \in Relays : a \in Nat /\ a \notin Host /\ a \in Id
  /\ \A p \in Tab : p \in Nat /\ p \in Host
  /\ \A i \in Id : i \in Nat
<1>1. Relay \in [Tab -> Nat \ Host] /\ Donor \subseteq Nat /\ Tab \subseteq Nat
  BY LockstepAssumption
<1>2. \A p \in Tab : Relay[p] \in Nat \ Host
  BY <1>1
<1> QED BY <1>1, <1>2 DEF Relays, Id, Host

LEMMA AsOK ==
  ASSUME NEW h \in Host, NEW a \in Relays, NEW b \in Relays
  PROVE  /\ As(h, a) \in Id
         /\ As(h, a) = As(h, b) => a = b
<1>1. h \in Id
  BY DEF Id
<1> QED BY <1>1, RelaysApart DEF As

LEMMA AsOrder ==
  ASSUME Suffixed, NEW h \in Host, NEW a \in Relays, NEW b \in Relays
  PROVE  As(h, a) < As(h, b) <=> a < b
<1>1. PICK p \in Tab, q \in Tab : a = Relay[p] /\ b = Relay[q]
  BY DEF Relays
<1>2. a \in Nat /\ b \in Nat /\ a # h /\ b # h
  BY RelaysApart
<1>3. CASE h \in Tab /\ a = Relay[h] /\ b # Relay[h]
  <2>1. h # q
    BY <1>1, <1>3
  <2>2. h < Relay[q] <=> Relay[h] < Relay[q]
    BY <1>3, <2>1 DEF Suffixed
  <2> QED BY <1>1, <1>3, <2>2 DEF As
<1>4. CASE h \in Tab /\ b = Relay[h] /\ a # Relay[h]
  <2>1. h # p
    BY <1>1, <1>4
  <2>2. h < Relay[p] <=> Relay[h] < Relay[p]
    BY <1>4, <2>1 DEF Suffixed
  <2>3. h \in Nat
    BY <1>4, RelaysApart
  <2>4. h < a <=> b < a
    BY <1>1, <1>4, <2>2
  <2>5. a < h <=> a < b
    BY <1>2, <1>4, <2>3, <2>4
  <2> QED BY <1>4, <2>5 DEF As
<1>5. CASE h \in Tab /\ a = Relay[h] /\ b = Relay[h]
  <2>1. ~(As(h, a) < As(h, b)) /\ ~(a < b)
    BY <1>2, <1>5, RelaysApart DEF As
  <2> QED BY <2>1
<1>6. CASE ~(h \in Tab) \/ (a # Relay[h] /\ b # Relay[h])
  BY <1>6 DEF As
<1> QED BY <1>3, <1>4, <1>5, <1>6

LEMMA ViewOK ==
  ASSUME NEW h \in Host, NEW e \in Sent
  PROVE  /\ View(h, e) \in Entry
         /\ View(h, e).tick = e.tick /\ View(h, e).seq = e.seq
         /\ View(h, e).kind = e.kind /\ View(h, e).author = As(h, e.author)
<1>1. e \in [tick : Nat, author : Id, seq : Nat, kind : {"Join", "Input"}] /\ e.author \in Relays
  BY DEF Sent, Entry
<1>2. As(h, e.author) \in Id
  BY <1>1, AsOK
<1> QED BY <1>1, <1>2 DEF View, Entry

LEMMA ViewOnce ==
  ASSUME NEW h \in Host, NEW d \in Sent, NEW e \in Sent, View(h, d) = View(h, e)
  PROVE  d = e
<1>1. d.tick = e.tick /\ d.seq = e.seq /\ d.kind = e.kind /\ As(h, d.author) = As(h, e.author)
  BY ViewOK
<1>2. d.author = e.author
  BY <1>1, AsOK DEF Sent
<1> QED BY <1>1, <1>2 DEF Sent, Entry

LEMMA ViewOrder ==
  ASSUME Suffixed, NEW h \in Host, NEW d \in Sent, NEW e \in Sent
  PROVE  Precedes(View(h, d), View(h, e)) <=> Precedes(d, e)
<1>1. d.author \in Relays /\ e.author \in Relays
  BY DEF Sent
<1>2. As(h, d.author) < As(h, e.author) <=> d.author < e.author
  BY <1>1, AsOrder
<1>3. As(h, d.author) = As(h, e.author) <=> d.author = e.author
  BY <1>1, AsOK
<1> QED BY <1>2, <1>3, ViewOK DEF Precedes

\* An input does to what a host sees what it does to the world.
LEMMA ApplyMirrors ==
  ASSUME NEW h \in Host, NEW w \in World, NEW v \in World, Mirrors(h, w, v),
         NEW e \in Sent
  PROVE  /\ apply(w, View(h, e)) \in World
         /\ apply(v, e) \in World
         /\ Mirrors(h, apply(w, View(h, e)), apply(v, e))
<1> DEFINE mine == OfOwner(v, e.author)
           its  == OfOwner(w, View(h, e).author)
<1>1. /\ e.author \in Relays /\ e.author \in Id /\ e.seq \in Nat
      /\ View(h, e).author = As(h, e.author) /\ As(h, e.author) \in Id
      /\ View(h, e).kind = e.kind /\ View(h, e).seq = e.seq
      /\ e.kind \in {"Join", "Input"}
  BY ViewOK, AsOK, RelaysApart DEF Sent, Entry
<1>2. /\ v.next_id \in Nat \ {0} /\ v.bodies \in SUBSET Body /\ v.tick \in Nat
      /\ w.next_id \in Nat \ {0} /\ w.bodies \in SUBSET Body /\ w.tick \in Nat
      /\ w = [tick |-> w.tick, next_id |-> w.next_id, bodies |-> w.bodies]
      /\ v = [tick |-> v.tick, next_id |-> v.next_id, bodies |-> v.bodies]
  BY DEF World
<1>3. /\ w.next_id = v.next_id /\ w.bodies = {ViewBody(h, b) : b \in v.bodies}
      /\ \A b \in v.bodies : b.owner \in Relays
  BY DEF Mirrors
<1>4. ASSUME NEW b \in v.bodies
      PROVE  /\ ViewBody(h, b).owner = As(h, b.owner) /\ ViewBody(h, b).id = b.id
             /\ ViewBody(h, b).acts = b.acts /\ b \in Body
             /\ ViewBody(h, b).owner = View(h, e).author <=> b.owner = e.author
  <2>1. b \in [owner : Id, id : Nat \ {0}, acts : Seq(Nat)] /\ b.owner \in Relays
    BY <1>2, <1>3 DEF Body
  <2>2. As(h, b.owner) = As(h, e.author) <=> b.owner = e.author
    BY <1>1, <2>1, AsOK
  <2> QED BY <1>1, <2>1, <2>2 DEF ViewBody, Body
<1>5. its = {ViewBody(h, b) : b \in mine}
  BY <1>3, <1>4 DEF OfOwner
<1>6. its = {} <=> mine = {}
  BY <1>5
<1>7. CASE e.kind = "Join" /\ mine = {}
  <2> DEFINE new == [owner |-> e.author, id |-> v.next_id, acts |-> << >>]
             as  == [owner |-> As(h, e.author), id |-> v.next_id, acts |-> << >>]
  <2>1. apply(v, e) = [tick |-> v.tick, next_id |-> v.next_id + 1, bodies |-> v.bodies \cup {new}]
    BY <1>2, <1>7 DEF apply
  <2>2. apply(w, View(h, e)) =
          [tick |-> w.tick, next_id |-> v.next_id + 1, bodies |-> w.bodies \cup {as}]
    BY <1>1, <1>2, <1>3, <1>6, <1>7 DEF apply
  <2>3. new \in Body /\ as \in Body /\ ViewBody(h, new) = as
    BY <1>1, <1>2 DEF Body, ViewBody
  <2>4. w.bodies \cup {as} = {ViewBody(h, b) : b \in v.bodies \cup {new}}
    BY <1>3, <2>3, Zenon
  <2>5. \A b \in v.bodies \cup {new} : b.owner \in Relays
    BY <1>1, <1>3
  <2> HIDE DEF new, as
  <2>6. v.next_id + 1 \in Nat \ {0}
    BY <1>2
  <2>7. PICK next, vs, ws : /\ next = v.next_id + 1
                            /\ vs = v.bodies \cup {new}
                            /\ ws = w.bodies \cup {as}
    OBVIOUS
  <2>8. vs \in SUBSET Body /\ ws \in SUBSET Body /\ next \in Nat \ {0}
    BY <1>2, <2>3, <2>6, <2>7
  <2>9. /\ apply(v, e) = [tick |-> v.tick, next_id |-> next, bodies |-> vs]
        /\ apply(w, View(h, e)) = [tick |-> w.tick, next_id |-> next, bodies |-> ws]
    BY <2>1, <2>2, <2>7
  <2>10. apply(v, e) \in World /\ apply(w, View(h, e)) \in World
    BY <1>2, <2>8, <2>9 DEF World
  <2>11. ws = {ViewBody(h, b) : b \in vs} /\ \A b \in vs : b.owner \in Relays
    BY <2>4, <2>5, <2>7
  <2> QED BY <2>9, <2>10, <2>11 DEF Mirrors
<1>8. CASE e.kind = "Input"
  <2> DEFINE Acted(b) == [b EXCEPT !.acts = Append(@, e.seq)]
             vs == (v.bodies \ mine) \cup {Acted(b) : b \in mine}
             ws == (w.bodies \ its) \cup {Acted(b) : b \in its}
  <2>1. apply(v, e) = [tick |-> v.tick, next_id |-> v.next_id, bodies |-> vs]
    BY <1>2, <1>8 DEF apply
  <2>2. apply(w, View(h, e)) = [tick |-> w.tick, next_id |-> w.next_id, bodies |-> ws]
    BY <1>1, <1>2, <1>8 DEF apply
  <2>3. \A b \in Body : /\ Acted(b) \in Body /\ Acted(b).owner = b.owner
                        /\ ViewBody(h, Acted(b)) = Acted(ViewBody(h, b))
    <3> TAKE b \in Body
    <3>1. b \in [owner : Id, id : Nat \ {0}, acts : Seq(Nat)] /\ Append(b.acts, e.seq) \in Seq(Nat)
      BY <1>1 DEF Body
    <3>2. b = [owner |-> b.owner, id |-> b.id, acts |-> b.acts]
      BY <3>1
    <3>6. PICK acts : acts = Append(b.acts, e.seq)
      OBVIOUS
    <3>7. Acted(b) = [b EXCEPT !.acts = acts]
      BY <3>6
    <3>8. Acted(b) = [owner |-> b.owner, id |-> b.id, acts |-> acts]
      <4> HIDE DEF Acted
      <4> QED BY <3>2, <3>7
    <3>3. ViewBody(h, b) = [owner |-> As(h, b.owner), id |-> b.id, acts |-> b.acts]
      BY <3>1 DEF ViewBody
    <3>9. PICK c : c = ViewBody(h, b)
      OBVIOUS
    <3>10. c.acts = b.acts
      BY <3>3, <3>9
    <3>11. Acted(c) = [c EXCEPT !.acts = acts]
      BY <3>6, <3>10
    <3>4. Acted(c) = [owner |-> As(h, b.owner), id |-> b.id, acts |-> acts]
      <4> HIDE DEF Acted
      <4> QED BY <3>3, <3>9, <3>11
    <3> HIDE DEF Acted
    <3>5. ViewBody(h, Acted(b)) = [owner |-> As(h, b.owner), id |-> b.id, acts |-> acts]
      BY <3>8 DEF ViewBody
    <3> QED BY <3>1, <3>4, <3>5, <3>6, <3>8, <3>9 DEF Body
  <2>4. mine \subseteq v.bodies /\ its \subseteq w.bodies
    BY DEF OfOwner
  <2>5. vs \in SUBSET Body /\ ws \in SUBSET Body /\ \A b \in vs : b.owner \in Relays
    <3> HIDE DEF Acted, mine, its
    <3> QED BY <1>2, <1>3, <2>3, <2>4
  <2>6. w.bodies \ its = {ViewBody(h, b) : b \in v.bodies \ mine}
    <3>1. \A b \in v.bodies : ViewBody(h, b) \in its <=> b \in mine
      BY <1>4, <1>3 DEF OfOwner
    <3> HIDE DEF mine, its
    <3> QED BY <1>3, <3>1
  <2>7. {Acted(b) : b \in its} = {ViewBody(h, b) : b \in {Acted(c) : c \in mine}}
    <3> HIDE DEF Acted, mine, its
    <3>1. \A b \in mine : ViewBody(h, Acted(b)) = Acted(ViewBody(h, b))
      BY <1>2, <2>3, <2>4
    <3>2. ASSUME NEW x \in {Acted(b) : b \in its} 
          PROVE x \in {ViewBody(h, b) : b \in {Acted(c) : c \in mine}}
      <4>1. PICK c \in mine : x = Acted(ViewBody(h, c))
        BY <1>5
      <4> QED BY <3>1, <4>1
    <3>3. ASSUME NEW x \in {ViewBody(h, b) : b \in {Acted(c) : c \in mine}}
          PROVE x \in {Acted(b) : b \in its} 
      <4>1. PICK c \in mine : x = ViewBody(h, Acted(c))
        OBVIOUS
      <4> QED BY <1>5, <3>1, <4>1
    <3> QED BY <3>2, <3>3
  <2>8. ws = {ViewBody(h, b) : b \in vs}
    <3> HIDE DEF Acted, mine, its
    <3> QED BY <2>6, <2>7, Zenon
  <2> HIDE DEF vs, ws
  <2>9. apply(v, e) \in World /\ apply(w, View(h, e)) \in World
    BY <1>2, <2>1, <2>2, <2>5 DEF World
  <2> QED BY <1>3, <2>1, <2>2, <2>5, <2>8, <2>9 DEF Mirrors
<1>9. CASE e.kind = "Join" /\ mine # {}
  <2>1. apply(v, e) = v
    BY <1>9 DEF apply
  <2>2. apply(w, View(h, e)) = w
    BY <1>1, <1>6, <1>9 DEF apply
  <2> QED BY <2>1, <2>2
<1> QED BY <1>1, <1>7, <1>8, <1>9

\* A well-formed world: one body to an owner, one id to a body, below the cursor.
Fine(w) ==
  /\ w \in World
  /\ \A b, c \in w.bodies : /\ b.id < w.next_id
                            /\ b.owner = c.owner \/ b.id = c.id => b = c

LEMMA ApplyFine ==
  ASSUME NEW w, Fine(w), NEW e \in Entry
  PROVE  Fine(apply(w, e)) /\ apply(w, e).tick = w.tick
<1> DEFINE mine == OfOwner(w, e.author)
<1>1. e.author \in Id /\ e.seq \in Nat /\ e.kind \in {"Join", "Input"}
  BY DEF Entry
<1>2. /\ w.next_id \in Nat \ {0} /\ w.bodies \in SUBSET Body /\ w.tick \in Nat
      /\ w = [tick |-> w.tick, next_id |-> w.next_id, bodies |-> w.bodies]
  BY DEF Fine, World
<1>3. \A b, c \in w.bodies : b.id < w.next_id /\ (b.owner = c.owner \/ b.id = c.id => b = c)
  BY DEF Fine
<1>4. \A b \in w.bodies : b.id \in Nat \ {0} /\ b \in Body
  BY <1>2 DEF Body
<1>5. CASE e.kind = "Join" /\ mine = {}
  <2> DEFINE new == [owner |-> e.author, id |-> w.next_id, acts |-> << >>]
  <2>1. apply(w, e) = [tick |-> w.tick, next_id |-> w.next_id + 1, bodies |-> w.bodies \cup {new}]
    BY <1>2, <1>5 DEF apply
  <2>2. new \in Body /\ new.id = w.next_id /\ new.owner = e.author
    BY <1>1, <1>2 DEF Body
  <2>3. \A b \in w.bodies : b.owner # e.author
    BY <1>5 DEF OfOwner
  <2> HIDE DEF new
  <2>4. PICK next, bs : next = w.next_id + 1 /\ bs = w.bodies \cup {new}
    OBVIOUS
  <2>5. next \in Nat \ {0} /\ bs \in SUBSET Body
    BY <1>2, <2>2, <2>4
  <2>6. apply(w, e) = [tick |-> w.tick, next_id |-> next, bodies |-> bs]
    BY <2>1, <2>4
  <2>7. apply(w, e) \in World
    BY <1>2, <2>5, <2>6 DEF World
  <2>8. ASSUME NEW b \in bs, NEW c \in bs
        PROVE  b.id < next /\ (b.owner = c.owner \/ b.id = c.id => b = c)
    <3>1. b \in w.bodies \/ b = new
      BY <2>4
    <3>2. c \in w.bodies \/ c = new
      BY <2>4
    <3>3. \A d \in w.bodies : d.id < w.next_id /\ d.id \in Nat
      BY <1>3, <1>4
    <3>4. w.next_id < next /\ next \in Nat /\ w.next_id \in Nat
      BY <1>2, <2>4
    <3>5. b.id < next
      BY <2>2, <3>1, <3>3, <3>4
    <3>6. ASSUME b.owner = c.owner \/ b.id = c.id PROVE b = c
      <4>1. CASE b \in w.bodies /\ c \in w.bodies
        BY <1>3, <3>6, <4>1
      <4>2. CASE b \in w.bodies /\ c = new
        BY <2>2, <2>3, <3>3, <3>4, <3>6, <4>2
      <4>3. CASE b = new /\ c \in w.bodies
        BY <2>2, <2>3, <3>3, <3>4, <3>6, <4>3
      <4> QED BY <3>1, <3>2, <4>1, <4>2, <4>3
    <3> QED BY <3>5, <3>6
  <2> QED BY <2>6, <2>7, <2>8 DEF Fine
<1>6. CASE e.kind = "Input"
  <2> DEFINE Acted(b) == [b EXCEPT !.acts = Append(@, e.seq)]
             bs == (w.bodies \ mine) \cup {Acted(b) : b \in mine}
  <2>1. apply(w, e) = [tick |-> w.tick, next_id |-> w.next_id, bodies |-> bs]
    BY <1>2, <1>6 DEF apply
  <2>2. \A b \in Body : Acted(b) \in Body /\ Acted(b).owner = b.owner /\ Acted(b).id = b.id
    <3> TAKE b \in Body
    <3>1. b \in [owner : Id, id : Nat \ {0}, acts : Seq(Nat)] /\ Append(b.acts, e.seq) \in Seq(Nat)
      BY <1>1 DEF Body
    <3>2. PICK acts : acts = Append(b.acts, e.seq)
      OBVIOUS
    <3>3. Acted(b) = [b EXCEPT !.acts = acts]
      BY <3>2
    <3> HIDE DEF Acted
    <3> QED BY <3>1, <3>2, <3>3 DEF Body
  <2>3. mine \in SUBSET w.bodies /\ \A b \in mine : b.owner = e.author
    BY DEF OfOwner
  <2> HIDE DEF Acted, mine
  <2>4. \A x \in bs : \E b \in w.bodies : /\ x.owner = b.owner /\ x.id = b.id /\ x \in Body
                                          /\ x = IF b \in mine THEN Acted(b) ELSE b
    BY <1>4, <2>2, <2>3
  <2> HIDE DEF bs
  <2>5. bs \in SUBSET Body
    BY <2>4
  <2>6. ASSUME NEW x \in bs, NEW y \in bs
        PROVE  x.id < w.next_id /\ (x.owner = y.owner \/ x.id = y.id => x = y)
    <3>1. PICK b \in w.bodies : /\ x.owner = b.owner /\ x.id = b.id
                                /\ x = IF b \in mine THEN Acted(b) ELSE b
      BY <2>4
    <3>2. PICK c \in w.bodies : /\ y.owner = c.owner /\ y.id = c.id
                                /\ y = IF c \in mine THEN Acted(c) ELSE c
      BY <2>4
    <3> QED BY <1>3, <3>1, <3>2
  <2>7. apply(w, e) \in World
    BY <1>2, <2>1, <2>5 DEF World
  <2> QED BY <2>1, <2>6, <2>7 DEF Fine
<1>7. CASE e.kind = "Join" /\ mine # {}
  <2>1. apply(w, e) = w
    BY <1>7 DEF apply
  <2> QED BY <2>1
<1> QED BY <1>1, <1>5, <1>6, <1>7

LEMMA RunFine ==
  ASSUME NEW w, Fine(w), NEW list \in Seq(Entry)
  PROVE  Fine(Run(w, list)) /\ Run(w, list).tick = w.tick
<1>1. Len(list) \in Nat /\ \A i \in 1..Len(list) : list[i] \in Entry
  OBVIOUS
<1> DEFINE m == Len(list)
<1>2. PICK f : Goes(w, list, m, f) /\ Run(w, list) = f[m]
  BY Going
<1> HIDE DEF m
<1>3. f[0] = w
  BY <1>1, <1>2, GoesStep DEF m
<1>4. \A i \in 1..m : f[i] = apply(f[i - 1], list[i])
  BY <1>1, <1>2, GoesStep DEF m
<1> DEFINE Good(i) == Fine(f[i]) /\ f[i].tick = w.tick
           Bad == {i \in 0..m : ~Good(i)}
<1>5. Bad = {}
  <2> SUFFICES ASSUME Bad # {} PROVE FALSE
    OBVIOUS
  <2>1. PICK i \in Bad : \A j \in Bad : i <= j
    <3>1. Bad \in SUBSET Nat
      BY <1>1 DEF m
    <3> HIDE DEF Bad
    <3> QED BY <3>1, Least
  <2>2. i \in 0..m /\ ~Good(i) /\ i # 0
    BY <1>3
  <2>3. i - 1 \in 0..m /\ ~(i <= i - 1) /\ i \in 1..m
    BY <1>1, <2>2 DEF m
  <2>4. Good(i - 1)
    BY <2>1, <2>3
  <2>5. f[i] = apply(f[i - 1], list[i]) /\ list[i] \in Entry
    BY <1>1, <1>4, <2>3 DEF m
  <2> QED BY <2>2, <2>4, <2>5, ApplyFine
<1>6. Good(m)
  BY <1>1, <1>5 DEF m
<1> QED BY <1>2, <1>6

LEMMA RunMirrors ==
  ASSUME NEW h \in Host, NEW w \in World, NEW v \in World, Mirrors(h, w, v),
         NEW c \in Seq(Sent), NEW d \in Seq(Entry), Len(d) = Len(c),
         \A i \in 1..Len(c) : d[i] = View(h, c[i])
  PROVE  Run(w, d) \in World /\ Run(v, c) \in World /\ Mirrors(h, Run(w, d), Run(v, c))
<1>1. Len(c) \in Nat /\ \A i \in 1..Len(c) : c[i] \in Sent
  OBVIOUS
<1> DEFINE m == Len(c)
<1>2. PICK f : Goes(w, d, m, f) /\ Run(w, d) = f[m]
  <2>1. PICK f : Goes(w, d, Len(d), f) /\ Run(w, d) = f[Len(d)]
    BY Going
  <2> QED BY <2>1
<1>3. PICK g : Goes(v, c, m, g) /\ Run(v, c) = g[m]
  BY Going
<1> HIDE DEF m
<1>4. f[0] = w /\ g[0] = v
  <2>1. f[0] = w
    BY <1>1, <1>2, GoesStep DEF m
  <2>2. g[0] = v
    BY <1>1, <1>3, GoesStep DEF m
  <2> QED BY <2>1, <2>2
<1>5. \A i \in 1..m : f[i] = apply(f[i - 1], d[i])
  BY <1>1, <1>2, GoesStep DEF m
<1>6. \A i \in 1..m : g[i] = apply(g[i - 1], c[i])
  BY <1>1, <1>3, GoesStep DEF m
<1> DEFINE Good(i) == f[i] \in World /\ g[i] \in World /\ Mirrors(h, f[i], g[i])
           Bad == {i \in 0..m : ~Good(i)}
<1>7. Bad = {}
  <2> SUFFICES ASSUME Bad # {} PROVE FALSE
    OBVIOUS
  <2>1. PICK i \in Bad : \A j \in Bad : i <= j
    <3>1. Bad \in SUBSET Nat
      BY <1>1 DEF m
    <3> HIDE DEF Bad
    <3> QED BY <3>1, Least
  <2>2. i \in 0..m /\ ~Good(i) /\ i # 0
    BY <1>4
  <2>3. i - 1 \in 0..m /\ ~(i <= i - 1) /\ i \in 1..m
    BY <1>1, <2>2 DEF m
  <2>4. Good(i - 1)
    BY <2>1, <2>3
  <2>5. f[i] = apply(f[i - 1], View(h, c[i])) /\ g[i] = apply(g[i - 1], c[i]) /\ c[i] \in Sent
    BY <1>1, <1>5, <1>6, <2>3 DEF m
  <2> QED BY <2>2, <2>4, <2>5, ApplyMirrors
<1>8. Good(m)
  BY <1>1, <1>7 DEF m
<1> QED BY <1>2, <1>3, <1>8

-----------------------------------------------------------------------------
(* Lists in the canonical order. *)

Sorted(list) == \A j, k \in 1..Len(list) : j < k => Precedes(list[j], list[k])

LEMMA PrecedesOrder ==
  /\ \A d, e \in Entry : Precedes(d, e) => ~Precedes(e, d) /\ d # e
  /\ \A d, e, g \in Entry : Precedes(d, e) /\ Precedes(e, g) => Precedes(d, g)
  /\ \A d, e \in Entry : d.author # e.author \/ d.seq # e.seq => Precedes(d, e) \/ Precedes(e, d)
<1>1. \A e \in Entry : e.tick \in Nat /\ e.author \in Nat /\ e.seq \in Nat
  <2>1. \A e \in Entry : e.tick \in Nat /\ e.author \in Id /\ e.seq \in Nat
    BY DEF Entry
  <2> QED BY <2>1, RelaysApart
<1> QED BY <1>1 DEF Precedes

\* A set has one list in that order.
LEMMA SortedPrefix ==
  ASSUME NEW c \in Seq(Entry), NEW d \in Seq(Entry), Sorted(c), Sorted(d), ToSet(c) = ToSet(d)
  PROVE  Len(c) <= Len(d) /\ \A i \in 1..Len(c) : c[i] = d[i]
<1> DEFINE Off == {i \in 1..Len(c) : i > Len(d) \/ c[i] # d[i]}
<1>1. /\ Len(c) \in Nat /\ Len(d) \in Nat
      /\ \A i \in 1..Len(c) : c[i] \in Entry
      /\ \A i \in 1..Len(d) : d[i] \in Entry
      /\ DOMAIN c = 1..Len(c) /\ DOMAIN d = 1..Len(d)
  OBVIOUS
<1>2. \A i \in 1..Len(c) : \E j \in 1..Len(d) : c[i] = d[j]
  BY <1>1 DEF ToSet
<1>3. \A i \in 1..Len(d) : \E j \in 1..Len(c) : d[i] = c[j]
  BY <1>1 DEF ToSet
<1>4. Off = {}
  <2> SUFFICES ASSUME Off # {} PROVE FALSE
    OBVIOUS
  <2>1. PICK i \in Off : \A j \in Off : i <= j
    <3>1. Off \in SUBSET Nat
      BY <1>1
    <3> HIDE DEF Off
    <3> QED BY <3>1, Least
  <2>2. i \in 1..Len(c) /\ (i > Len(d) \/ c[i] # d[i])
    OBVIOUS
  <2>3. \A j \in 1..Len(c) : j < i => j <= Len(d) /\ c[j] = d[j]
    <3> TAKE j \in 1..Len(c)
    <3> HAVE j < i
    <3>1. j \notin Off
      <4> HIDE DEF Off
      <4> QED BY <1>1, <2>1, <2>2
    <3> QED BY <1>1, <3>1
  <2> HIDE DEF Off
  <2>4. PICK j \in 1..Len(d) : c[i] = d[j]
    BY <1>2, <2>2
  <2>5. ~(j < i)
    <3> SUFFICES ASSUME j < i PROVE FALSE
      OBVIOUS
    <3>1. j \in 1..Len(c) /\ c[j] = d[j]
      BY <1>1, <2>2, <2>3
    <3>2. Precedes(c[j], c[i])
      BY <2>2, <3>1 DEF Sorted
    <3> QED BY <1>1, <2>2, <2>4, <3>1, <3>2, PrecedesOrder
  <2>6. i \in 1..Len(d) /\ i < j
    BY <1>1, <2>2, <2>4, <2>5
  <2>7. Precedes(d[i], d[j])
    BY <2>4, <2>6 DEF Sorted
  <2>8. PICK k \in 1..Len(c) : d[i] = c[k]
    BY <1>3, <2>6
  <2>9. ~(k < i)
    <3> SUFFICES ASSUME k < i PROVE FALSE
      OBVIOUS
    <3>1. k \in 1..Len(d) /\ c[k] = d[k]
      BY <1>1, <2>2, <2>3, <2>8
    <3>2. Precedes(d[k], d[i])
      BY <2>6, <3>1 DEF Sorted
    <3> QED BY <1>1, <2>6, <2>8, <3>1, <3>2, PrecedesOrder
  <2>10. k # i
    BY <2>2, <2>6, <2>8, <1>1
  <2>11. i < k
    BY <1>1, <2>2, <2>8, <2>9, <2>10
  <2>12. Precedes(c[i], c[k])
    BY <2>2, <2>8, <2>11 DEF Sorted
  <2> QED BY <1>1, <2>4, <2>6, <2>7, <2>8, <2>12, PrecedesOrder
<1>5. ASSUME Len(c) > Len(d) PROVE FALSE
  <2>1. Len(c) \in 1..Len(c) /\ Len(c) \in Off
    BY <1>1, <1>5
  <2> QED BY <1>4, <2>1
<1> QED BY <1>1, <1>4, <1>5

LEMMA SortedOnce ==
  ASSUME NEW c \in Seq(Entry), NEW d \in Seq(Entry), Sorted(c), Sorted(d), ToSet(c) = ToSet(d)
  PROVE  c = d
<1>1. Len(c) <= Len(d) /\ \A i \in 1..Len(c) : c[i] = d[i]
  BY SortedPrefix
<1>2. Len(d) <= Len(c)
  BY SortedPrefix
<1>3. Len(c) \in Nat /\ Len(d) \in Nat
  OBVIOUS
<1>4. Len(c) = Len(d)
  BY <1>1, <1>2, <1>3
<1> QED BY <1>1, <1>4, SeqEqual

Sorts(l, list, places) ==
  l \in Seq(Entry) /\ ToSet(l) = {list[i] : i \in places} /\ Sorted(l)
Keeps(l, list, places) ==
  /\ l \in Seq(Entry) /\ ToSet(l) = {list[i] : i \in places}
  /\ \A j, k \in 1..Len(l) : j < k => \E p, q \in places : p < q /\ l[j] = list[p] /\ l[k] = list[q]

\* Entries of which no two have an author and a number in common are listed in
\* the order.
LEMMA CanonicalOK ==
  ASSUME NEW list \in Seq(Entry), NEW places \in SUBSET DOMAIN list,
         \A i, j \in places : i # j => list[i].author # list[j].author \/ list[i].seq # list[j].seq
  PROVE  Sorts(Listed(list, places, Canonical(list)), list, places)
<1>1. DOMAIN list = 1..Len(list) /\ Len(list) \in Nat /\ \A i \in DOMAIN list : list[i] \in Entry
  OBVIOUS
<1>2. \A i, j \in places : <<i, j>> \in Canonical(list) <=> Precedes(list[i], list[j])
  <2> TAKE i, j \in places
  <2>1. <<i, j>> \in Canonical(list) <=>
          Precedes(list[i], list[j]) \/ (~Precedes(list[j], list[i]) /\ i < j)
    BY <1>1 DEF Canonical
  <2>2. CASE i = j
    BY <1>1, <2>1, <2>2
  <2>3. CASE i # j
    <3>1. Precedes(list[i], list[j]) \/ Precedes(list[j], list[i])
      BY <1>1, <2>3, PrecedesOrder
    <3> QED BY <2>1, <3>1
  <2> QED BY <2>2, <2>3
<1>3. Strict(places, Canonical(list))
  <2>1. \A i \in places : <<i, i>> \notin Canonical(list)
    BY <1>1, <1>2, PrecedesOrder
  <2>2. \A i, j \in places : i # j => <<i, j>> \in Canonical(list) \/ <<j, i>> \in Canonical(list)
    BY <1>1, <1>2, PrecedesOrder
  <2>3. \A i, j, k \in places :
          <<i, j>> \in Canonical(list) /\ <<j, k>> \in Canonical(list) => <<i, k>> \in Canonical(list)
    BY <1>1, <1>2, PrecedesOrder
  <2> QED BY <2>1, <2>2, <2>3 DEF Strict
<1>4. PICK before, l : before = Canonical(list) /\ l = Listed(list, places, before)
  OBVIOUS
<1>5. Strict(places, before) /\ \A i, j \in places : <<i, j>> \in before <=> Precedes(list[i], list[j])
  BY <1>2, <1>3, <1>4
<1>6. Lists(l, Entry, list, places, before)
  BY <1>4, <1>5, ListedOK
<1>7. l \in Seq(Entry) /\ ToSet(l) = {list[i] : i \in places}
  BY <1>6 DEF Lists
<1>8. \A j, k \in 1..Len(l) : j < k =>
        \E p, q \in places : <<p, q>> \in before /\ l[j] = list[p] /\ l[k] = list[q]
  BY <1>6 DEF Lists
<1>9. ASSUME NEW j \in 1..Len(l), NEW k \in 1..Len(l), j < k
      PROVE  Precedes(l[j], l[k])
  <2>1. PICK p \in places, q \in places : <<p, q>> \in before /\ l[j] = list[p] /\ l[k] = list[q]
    BY <1>8, <1>9
  <2>2. Precedes(list[p], list[q])
    BY <1>5, <2>1
  <2> QED BY <2>1, <2>2
<1>10. Sorted(l)
  BY <1>9 DEF Sorted
<1> QED BY <1>4, <1>7, <1>10 DEF Sorts

\* What stays keeps its order of arrival.
LEMMA ArrivalOK ==
  ASSUME NEW list \in Seq(Entry), NEW places \in SUBSET DOMAIN list
  PROVE  Keeps(Listed(list, places, Arrival(list)), list, places)
<1>1. DOMAIN list = 1..Len(list) /\ Len(list) \in Nat
  OBVIOUS
<1>2. \A i, j \in places : <<i, j>> \in Arrival(list) <=> i < j
  BY DEF Arrival
<1>3. \A i \in places : i \in Int
  BY <1>1
<1>4. Strict(places, Arrival(list))
  BY <1>2, <1>3 DEF Strict
<1>5. PICK before, l : before = Arrival(list) /\ l = Listed(list, places, before)
  OBVIOUS
<1>6. Strict(places, before) /\ \A i, j \in places : <<i, j>> \in before <=> i < j
  BY <1>2, <1>4, <1>5
<1>7. Lists(l, Entry, list, places, before)
  BY <1>5, <1>6, ListedOK
<1>8. l \in Seq(Entry) /\ ToSet(l) = {list[i] : i \in places}
  BY <1>7 DEF Lists
<1>9. \A j, k \in 1..Len(l) :
        j < k => \E p, q \in places : /\ <<p, q>> \in before
                                      /\ l[j] = list[p] /\ l[k] = list[q]
  BY <1>7, Zenon DEF Lists
<1>10. \A j, k \in 1..Len(l) : j < k => \E p, q \in places : p < q /\ l[j] = list[p] /\ l[k] = list[q]
  <2> TAKE j, k \in 1..Len(l)
  <2> HAVE j < k
  <2>1. PICK p \in places, q \in places : <<p, q>> \in before /\ l[j] = list[p] /\ l[k] = list[q]
    BY <1>9
  <2> QED BY <1>6, <2>1
<1>11. Keeps(l, list, places)
  BY <1>8, <1>10, Zenon DEF Keeps
<1> QED BY <1>5, <1>11

\* One list after another, when all of it is due later.
LEMMA SortedOn ==
  ASSUME NEW c \in Seq(Sent), NEW d \in Seq(Sent), Sorted(c), Sorted(d),
         \A x \in ToSet(c), y \in ToSet(d) : x.tick < y.tick
  PROVE  c \o d \in Seq(Sent) /\ Sorted(c \o d) /\ ToSet(c \o d) = ToSet(c) \cup ToSet(d)
<1> DEFINE m == Len(c)
           n == Len(d)
           l == c \o d
<1>1. /\ m \in Nat /\ n \in Nat /\ l \in Seq(Sent) /\ Len(l) = m + n
      /\ \A i \in 1..(m + n) : l[i] = IF i <= m THEN c[i] ELSE d[i - m]
  BY ConcatProperties
<1>2. DOMAIN c = 1..m /\ DOMAIN d = 1..n /\ DOMAIN l = 1..(m + n)
  BY <1>1
<1> HIDE DEF l, m, n
<1>3. \A i \in 1..m : l[i] = c[i] /\ i \in 1..(m + n)
  BY <1>1
<1>4. \A i \in 1..n : l[m + i] = d[i] /\ m + i \in 1..(m + n)
  <2> TAKE i \in 1..n
  <2>1. m + i \in 1..(m + n) /\ ~(m + i <= m) /\ (m + i) - m = i
    BY <1>1
  <2> QED BY <1>1, <2>1
<1>5. \A i \in 1..(m + n) : i \in 1..m \/ \E j \in 1..n : i = m + j
  <2> TAKE i \in 1..(m + n)
  <2>1. i > m => i - m \in 1..n /\ i = m + (i - m)
    BY <1>1
  <2> QED BY <1>1, <2>1
<1>6. ToSet(l) = ToSet(c) \cup ToSet(d)
  BY <1>2, <1>3, <1>4, <1>5 DEF ToSet
<1>7. ASSUME NEW j \in 1..Len(l), NEW k \in 1..Len(l), j < k
      PROVE  Precedes(l[j], l[k])
  <2>1. CASE j \in 1..m /\ k \in 1..m
    BY <1>3, <1>7, <2>1 DEF Sorted, m
  <2>2. CASE j \in 1..m /\ k \notin 1..m
    <3>1. PICK i \in 1..n : k = m + i
      BY <1>1, <1>5, <2>2
    <3>2. c[j] \in ToSet(c) /\ d[i] \in ToSet(d)
      BY <1>2, <2>2 DEF ToSet
    <3>3. c[j].tick < d[i].tick
      BY <3>2
    <3> QED BY <1>3, <1>4, <2>2, <3>1, <3>3 DEF Precedes
  <2>3. CASE j \notin 1..m
    <3>1. PICK i \in 1..n : j = m + i
      BY <1>1, <1>5, <2>3
    <3>5. k \in 1..(m + n) /\ k \notin 1..m
      BY <1>1, <1>7, <3>1
    <3>2. PICK p \in 1..n : k = m + p
      BY <1>5, <3>5
    <3>3. i < p
      BY <1>1, <1>7, <3>1, <3>2
    <3>4. Precedes(d[i], d[p])
      BY <3>3 DEF Sorted, n
    <3> QED BY <1>4, <3>1, <3>2, <3>4
  <2> QED BY <2>1, <2>2, <2>3
<1>8. Sorted(l)
  BY <1>7 DEF Sorted
<1> QED BY <1>1, <1>6, <1>8 DEF l

\* What a host simulates, as it was broadcast.
LEMMA Unseen ==
  ASSUME Suffixed, NEW h \in Host, NEW M \in SUBSET Sent, NEW d \in Seq(Entry), Sorted(d),
         ToSet(d) = {View(h, e) : e \in M}
  PROVE  \E c \in Seq(Sent) : /\ Len(d) = Len(c) /\ Sorted(c) /\ ToSet(c) = M
                              /\ \A i \in 1..Len(c) : d[i] = View(h, c[i])
<1> DEFINE n == Len(d)
           From(x) == CHOOSE e \in M : View(h, e) = x
           c == [i \in 1..n |-> From(d[i])]
<1>1. n \in Nat /\ DOMAIN d = 1..n
  OBVIOUS
<1>2. \A i \in 1..n : \E e \in M : View(h, e) = d[i]
  BY <1>1 DEF ToSet
<1>3. \A i \in 1..n : c[i] \in M /\ View(h, c[i]) = d[i]
  BY <1>2
<1>4. c = [i \in 1..n |-> c[i]]
  OBVIOUS
<1> HIDE DEF c
<1>5. c \in Seq(Sent) /\ Len(c) = n /\ DOMAIN c = 1..n
  BY <1>1, <1>3, <1>4
<1>6. ToSet(c) = M
  <2>1. ASSUME NEW e \in M PROVE e \in ToSet(c)
    <3>1. PICK i \in 1..n : d[i] = View(h, e)
      BY <1>1 DEF ToSet
    <3>2. c[i] = e
      BY <1>3, <3>1, ViewOnce
    <3> QED BY <1>5, <3>2 DEF ToSet
  <2>2. ASSUME NEW e \in ToSet(c) PROVE e \in M
    BY <1>3, <1>5 DEF ToSet
  <2> QED BY <2>1, <2>2
<1>7. ASSUME NEW j \in 1..n, NEW k \in 1..n, j < k PROVE Precedes(c[j], c[k])
  <2>1. Precedes(d[j], d[k])
    BY <1>7 DEF Sorted
  <2>2. c[j] \in Sent /\ c[k] \in Sent /\ d[j] = View(h, c[j]) /\ d[k] = View(h, c[k])
    BY <1>3
  <2> QED BY <2>1, <2>2, ViewOrder
<1>8. Sorted(c)
  BY <1>5, <1>7 DEF Sorted
<1> QED BY <1>3, <1>5, <1>6, <1>8

\* The numbers an import gives are again one to a body, below the cursor.
LEMMA ImportedFine ==
  ASSUME NEW s, Fine(s), NEW tick \in Nat
  PROVE  Fine(Imported(s, tick)) /\ Imported(s, tick).tick = tick
<1> DEFINE B == s.bodies
           n == s.next_id
           Below(b) == {c \in B : c.owner <= b.owner}
           New(b) == [b EXCEPT !.id = Rank(B, b)]
<1>1. /\ n \in Nat \ {0} /\ B \in SUBSET Body /\ s \in World
      /\ \A b, c \in B : b.id < n /\ (b.owner = c.owner \/ b.id = c.id => b = c)
  BY DEF Fine, World
<1>2. \A b \in B : b.owner \in Nat /\ b.id \in 1..(n - 1)
                   /\ b \in [owner : Id, id : Nat \ {0}, acts : Seq(Nat)]
  BY <1>1, RelaysApart DEF Body
<1>3. IsFiniteSet(B) /\ Cardinality(B) <= n - 1
  <2> DEFINE f == [b \in B |-> b.id]
  <2>1. IsFiniteSet(1..(n - 1)) /\ Cardinality(1..(n - 1)) = n - 1
    <3>1. n - 1 \in Nat
      BY <1>1
    <3>2. 1 \in Int /\ n - 1 \in Int
      BY <3>1
    <3> QED BY <3>1, <3>2, FS_Interval
  <2>2. f \in Injection(B, 1..(n - 1))
    <3>1. f \in [B -> 1..(n - 1)]
      BY <1>2
    <3>2. \A b, c \in B : f[b] = f[c] => b = c
      BY <1>1
    <3> QED BY <3>1, <3>2 DEF Injection, IsInjective
  <2> HIDE DEF f
  <2> QED BY <2>1, <2>2, FS_Injection
<1>4. \A b \in B : /\ IsFiniteSet(Below(b)) /\ Cardinality(Below(b)) \in 1..(n - 1)
                   /\ Rank(B, b) = Cardinality(Below(b))
  <2> TAKE b \in B
  <2>1. Below(b) \in SUBSET B /\ b \in Below(b)
    BY <1>2
  <2>2. IsFiniteSet(Below(b)) /\ Cardinality(Below(b)) <= Cardinality(B)
    BY <1>3, <2>1, FS_Subset
  <2>3. Cardinality(Below(b)) \in Nat /\ Cardinality(Below(b)) # 0 /\ Cardinality(B) \in Nat
    BY <1>3, <2>1, <2>2, FS_CardinalityType, FS_EmptySet
  <2>4. Rank(B, b) = Cardinality(Below(b))
    BY DEF Rank
  <2> HIDE DEF Below, B, n
  <2>5. Cardinality(Below(b)) \in 1..(n - 1)
    BY <1>1, <1>3, <2>2, <2>3
  <2> QED BY <2>2, <2>4, <2>5
<1>5. \A b, c \in B : b.owner < c.owner => Rank(B, b) # Rank(B, c)
  <2> TAKE b \in B, c \in B
  <2> HAVE b.owner < c.owner
  <2>1. Below(b) \in SUBSET Below(c) /\ c \in Below(c) /\ c \notin Below(b)
    <3>1. \A d \in B : d.owner \in Nat
      BY <1>2
    <3> HIDE DEF B
    <3> QED BY <3>1
  <2>2. Below(b) # Below(c)
    BY <2>1
  <2>3. IsFiniteSet(Below(c))
    BY <1>4
  <2>4. Cardinality(Below(b)) # Cardinality(Below(c))
    BY <2>1, <2>2, <2>3, FS_Subset
  <2> QED BY <1>4, <2>4
<1>6. \A b, c \in B : Rank(B, b) = Rank(B, c) => b = c
  <2> TAKE b \in B, c \in B
  <2> HAVE Rank(B, b) = Rank(B, c)
  <2>1. b.owner \in Nat /\ c.owner \in Nat
    BY <1>2
  <2>2. b.owner = c.owner
    BY <1>5, <2>1
  <2> QED BY <1>1, <2>2
<1>7. \A b \in B : New(b) \in Body /\ New(b).owner = b.owner /\ New(b).id = Rank(B, b)
                   /\ New(b).id \in 1..(n - 1)
  <2> TAKE b \in B
  <2>1. Rank(B, b) \in 1..(n - 1)
    <3> HIDE DEF B, Below, n
    <3> QED BY <1>4
  <2>3. Rank(B, b) \in Nat \ {0}
    BY <1>1, <2>1
  <2>2. PICK id : id = Rank(B, b)
    OBVIOUS
  <2> QED BY <1>2, <2>1, <2>2, <2>3 DEF Body
<1> DEFINE bs == {New(b) : b \in B}
<1>8. Imported(s, tick) = [tick |-> tick, next_id |-> n, bodies |-> bs]
  <2>1. s = [tick |-> s.tick, next_id |-> s.next_id, bodies |-> s.bodies]
    BY <1>1 DEF World
  <2>2. PICK cs : cs = {[b EXCEPT !.id = Rank(s.bodies, b)] : b \in s.bodies}
    OBVIOUS
  <2>3. Imported(s, tick) = [s EXCEPT !.tick = tick, !.bodies = cs]
    BY <2>2, Zenon DEF Imported
  <2>4. cs = bs
    BY <2>2, Zenon
  <2> QED BY <2>1, <2>3, <2>4
<1>9. \A x \in bs : \E b \in B : x = New(b)
  OBVIOUS
<1> HIDE DEF New, B, n, bs
<1>10. bs \in SUBSET Body
  BY <1>7, <1>9
<1>11. ASSUME NEW x \in bs, NEW y \in bs
       PROVE  x.id < n /\ (x.owner = y.owner \/ x.id = y.id => x = y)
  <2>1. PICK b \in B : x = New(b)
    BY <1>9
  <2>2. PICK c \in B : y = New(c)
    BY <1>9
  <2>3. x.id < n
    BY <1>1, <1>7, <2>1
  <2> QED BY <1>1, <1>6, <1>7, <2>1, <2>2, <2>3
<1>12. Imported(s, tick) \in World
  BY <1>1, <1>8, <1>10 DEF World
<1> QED BY <1>8, <1>11, <1>12 DEF Fine

-----------------------------------------------------------------------------
(* What a host has heard. *)

LEMMA FiniteImage ==
  ASSUME NEW S, IsFiniteSet(S), NEW f
  PROVE  IsFiniteSet({f[x] : x \in S})
<1> DEFINE T == {f[x] : x \in S}
           g == [x \in S |-> f[x]]
<1>1. g \in Surjection(S, T)
  BY DEF Surjection
<1> QED BY <1>1, FS_Surjection

\* In whatever order, each once.
LEMMA OrderOK ==
  ASSUME NEW S, IsFiniteSet(S), NEW list \in SetToSeqs(S)
  PROVE  /\ list \in Seq(S) /\ ToSet(list) = S
         /\ \A i, j \in DOMAIN list : i # j => list[i] # list[j]
<1> DEFINE n == Cardinality(S)
<1>1. n \in Nat
  BY FS_CardinalityType
<1>2. list \in [1..n -> S] /\ \A i, j \in 1..n : i # j => list[i] # list[j]
  BY Zenon DEF SetToSeqs
<1>3. IsFiniteSet(1..n) /\ Cardinality(1..n) = n
  BY <1>1, FS_Interval
<1>4. list \in Injection(1..n, S)
  BY <1>2 DEF Injection, IsInjective
<1>5. list \in Surjection(1..n, S)
  BY <1>3, <1>4, FS_Injection
<1> HIDE DEF n
<1>6. list \in Seq(S) /\ DOMAIN list = 1..n
  BY <1>1, <1>2
<1>7. ToSet(list) = S
  BY <1>5, <1>6 DEF Surjection, ToSet
<1> QED BY <1>2, <1>6, <1>7

\* A round of host h, part by part.
Handled(h, base, arrived, imported, cast, ad, votes, fetch, queue, w, shown) ==
  /\ w = Advanced(base, queue, now)
  /\ fetch \in {ad, {}} /\ shown \in {Snapshots(h, now, w), {}}
  /\ world' = [world EXCEPT ![h] = w]
  /\ scheduled' = [scheduled EXCEPT ![h] = Remaining(base, queue, now)]
  /\ whole' = IF base # world[h] \/ Skips(base, now) THEN whole \ {h} ELSE whole
  /\ latest' = [latest EXCEPT ![h] = ad]
  /\ \/ proofs' = [proofs EXCEPT ![h] = {}]
     \/ proofs' = [proofs EXCEPT ![h] = VotedAll(proofs[h], cast)]
  /\ \/ h \in Donor /\ streak' = [streak EXCEPT ![h] = Recorded(h, votes)]
     \/ streak' = streak
  /\ pending' = [pending EXCEPT ![h] = (@ \ imported) \cup fetch]
  /\ msgs' = (msgs \ arrived) \cup Proofs(h, w) \cup shown
  /\ repeats' \in {repeats, repeats + 1} /\ repeats' <= Repeats
  /\ stepped' = stepped \cup {h}
  /\ now' = now /\ hosting' = hosting /\ seq' = seq

LEMMA RoundParts ==
  ASSUME NEW h, NEW base, NEW arrived, NEW imported, Round(h, base, arrived, imported)
  PROVE  \E inputs \in SetToSeqs(Contents(arrived, "input")),
            cast \in Ballots(arrived), ad \in Newest(h, arrived) :
           \E votes, fetch, w, shown :
             Handled(h, base, arrived, imported, cast, ad, votes, fetch,
                     scheduled[h] \o Accepted(base, inputs), w, shown)
<1>1. PICK inputs \in SetToSeqs(Contents(arrived, "input")),
           cast \in Ballots(arrived), ad \in Newest(h, arrived) :
        LET queue == scheduled[h] \o Accepted(base, inputs)
            w     == Advanced(base, queue, now)
            heard == VotedAll(proofs[h], cast)
            votes == Voted(heard, h, state_hash(w))
            fetch == IF ProofDue(w) /\ h \in Dissent(votes) THEN ad ELSE {}
        IN
        /\ world' = [world EXCEPT ![h] = w]
        /\ scheduled' = [scheduled EXCEPT ![h] = Remaining(base, queue, now)]
        /\ whole' = IF base # world[h] \/ Skips(base, now) THEN whole \ {h} ELSE whole
        /\ latest' = [latest EXCEPT ![h] = ad]
        /\ proofs' = [proofs EXCEPT ![h] = IF ProofDue(w) THEN {} ELSE heard]
        /\ IF ProofDue(w) /\ h \in Donor
           THEN /\ streak' = [streak EXCEPT ![h] = Recorded(h, votes)]
                /\ slashed' = slashed \cup
                     {<<h, by>> : by \in {d \in Dissent(votes) :
                                   Recorded(h, votes)[d] >= SlashThreshold}}
           ELSE UNCHANGED <<streak, slashed>>
        /\ pending' = [pending EXCEPT ![h] = (@ \ imported) \cup fetch]
        /\ msgs' = (msgs \ arrived) \cup Proofs(h, w)
                     \cup (IF h \in Donor /\ fetch = {} THEN Snapshots(h, now, w) ELSE {})
        /\ repeats' = IF h \in stepped /\ w.tick = world[h].tick THEN repeats + 1 ELSE repeats
        /\ repeats' <= Repeats
        /\ stepped' = stepped \cup {h}
        /\ UNCHANGED <<now, hosting, seq>>
  BY Zenon DEF Round
<1> DEFINE queue == scheduled[h] \o Accepted(base, inputs)
           w     == Advanced(base, queue, now)
           votes == Voted(VotedAll(proofs[h], cast), h, state_hash(w))
           fetch == IF ProofDue(w) /\ h \in Dissent(votes) THEN ad ELSE {}
           shown == IF h \in Donor /\ fetch = {} THEN Snapshots(h, now, w) ELSE {}
<1>2. /\ world' = [world EXCEPT ![h] = w]
      /\ scheduled' = [scheduled EXCEPT ![h] = Remaining(base, queue, now)]
      /\ whole' = IF base # world[h] \/ Skips(base, now) THEN whole \ {h} ELSE whole
      /\ latest' = [latest EXCEPT ![h] = ad]
      /\ proofs' = [proofs EXCEPT ![h] = IF ProofDue(w) THEN {} ELSE VotedAll(proofs[h], cast)]
      /\ pending' = [pending EXCEPT ![h] = (@ \ imported) \cup fetch]
  BY <1>1, Zenon
<1>3. /\ msgs' = (msgs \ arrived) \cup Proofs(h, w) \cup shown
      /\ repeats' = IF h \in stepped /\ w.tick = world[h].tick THEN repeats + 1 ELSE repeats
      /\ repeats' <= Repeats
      /\ stepped' = stepped \cup {h}
      /\ now' = now /\ hosting' = hosting /\ seq' = seq
  BY <1>1, Zenon
<1>4. \/ h \in Donor /\ streak' = [streak EXCEPT ![h] = Recorded(h, votes)]
      \/ streak' = streak
  BY <1>1, Zenon
<1>5. fetch \in {ad, {}} /\ shown \in {Snapshots(h, now, w), {}}
  BY Zenon
<1>6. \/ proofs' = [proofs EXCEPT ![h] = {}]
      \/ proofs' = [proofs EXCEPT ![h] = VotedAll(proofs[h], cast)]
  <2>1. CASE ProofDue(w)
    BY <1>2, <2>1, Zenon
  <2>2. CASE ~ProofDue(w)
    BY <1>2, <2>2, Zenon
  <2> QED BY <2>1, <2>2
<1>7. repeats' \in {repeats, repeats + 1}
  BY <1>3, Zenon
<1> HIDE DEF queue, w, votes, fetch, shown
<1>8. w = Advanced(base, queue, now)
  BY DEF w
<1>9. Handled(h, base, arrived, imported, cast, ad, votes, fetch, queue, w, shown)
  BY <1>2, <1>3, <1>4, <1>5, <1>6, <1>7, <1>8, Zenon DEF Handled
<1>10. \E v, f, u, g : Handled(h, base, arrived, imported, cast, ad, v, f, queue, u, g)
  BY <1>9, Zenon
<1> QED BY <1>10, Zenon DEF queue

\* What the tables hold, and what is on its way.
One(votes)  == \A u, v \in votes : u.by \in Id /\ (u.by = v.by => u = v)
Alone(ads)  == \A s, t \in ads : Fine(s) /\ s = t
Typed(m) ==
  /\ m.to \in hosting /\ m.from \in Id /\ m.sent \in Nat
  /\ m.kind = "input" => m.content \in Entry
  /\ m.kind = "snapshot" => Fine(m.content)

Tables ==
  /\ now \in 0..Horizon /\ repeats \in 0..Repeats
  /\ hosting \in SUBSET Host /\ IsFiniteSet(hosting)
  /\ whole \in SUBSET hosting /\ stepped \in SUBSET hosting
  /\ seq \in [Tab -> Nat] /\ \A p \in Tab : seq[p] <= MaxInputs[p]
  /\ scheduled \in [Host -> Seq(Entry)]
  /\ streak \in [Donor -> [Id -> 0..SlashThreshold]]

Worlds ==
  /\ world \in [Host -> World]
  /\ \A h \in Host : Fine(world[h]) /\ world[h].tick <= now
  /\ \A h \in hosting : now <= world[h].tick + MaxLag[h]

Ballot ==
  /\ DOMAIN proofs = Host /\ \A h \in Host : One(proofs[h])
  /\ DOMAIN latest = Host /\ \A h \in Host : Alone(latest[h])
  /\ DOMAIN pending = Host /\ \A h \in Host : \A s \in pending[h] : Fine(s)

Mail == IsFiniteSet(msgs) /\ \A m \in msgs : Typed(m)

HostsTyped == Tables /\ Worlds /\ Ballot /\ Mail

LEMMA Constants ==
  /\ Horizon \in Nat /\ Repeats \in Nat /\ SlashThreshold \in Nat /\ InputDelay \in Nat
  /\ MaxCatchup \in Nat
  /\ \A h \in Host : MaxLag[h] \in Nat /\ h \in Id
  /\ \A p \in Tab : MaxInputs[p] \in Nat
  /\ MaxLatency["input"] \in Nat
  /\ Donor \subseteq Host /\ Tab \subseteq Host
<1>1. {MinLatency, MaxLatency} \subseteq [{"input", "proof", "snapshot"} -> Nat]
  BY LockstepAssumption
<1>2. MaxLatency["input"] \in Nat
  BY <1>1
<1>3. {InputDelay, MaxCatchup, SlashThreshold} \subseteq Nat \ {0}
  BY LockstepAssumption
<1>4. {Repeats, Horizon} \subseteq Nat /\ MaxInputs \in [Tab -> Nat] /\ MaxLag \in [Host -> Nat \ {0}]
  BY LockstepAssumption
<1> QED BY <1>2, <1>3, <1>4 DEF Host, Id

LEMMA VotesOne ==
  ASSUME NEW arrived, IsFiniteSet(arrived), \A m \in arrived : m.from \in Id, NEW cast \in Ballots(arrived),
         NEW votes, One(votes)
  PROVE  One(VotedAll(votes, cast))
<1> DEFINE all == {[by |-> m.from, hash |-> m.content] : m \in {l \in arrived : l.kind = "proof"}}
<1>1. /\ cast \in SUBSET all
      /\ \A v \in all : Cardinality({c \in cast : c.by = v.by}) = 1
  BY Zenon DEF Ballots
<1>2. \A c \in cast : c.by \in Id
  <2>1. \A c \in all : c.by \in Id
    OBVIOUS
  <2> QED BY <1>1, <2>1
<1>4. IsFiniteSet(cast)
  <2> DEFINE S == {l \in arrived : l.kind = "proof"}
             f == [m \in S |-> [by |-> m.from, hash |-> m.content]]
  <2>1. IsFiniteSet(S)
    BY FS_Subset
  <2>2. all = {f[m] : m \in S}
    OBVIOUS
  <2> HIDE DEF f, S
  <2>3. IsFiniteSet(all)
    BY <2>1, <2>2, FiniteImage
  <2> HIDE DEF all
  <2> QED BY <1>1, <2>3, FS_Subset
<1> HIDE DEF all
<1>3. ASSUME NEW c \in cast, NEW d \in cast, c.by = d.by PROVE c = d
  <2> DEFINE S == {x \in cast : x.by = c.by}
  <2>1. Cardinality(S) = 1
    BY <1>1
  <2>2. IsFiniteSet(S)
    BY <1>4, FS_Subset
  <2>3. c \in S /\ d \in S
    BY <1>3
  <2> HIDE DEF S
  <2>4. PICK x : S = {x}
    BY <2>1, <2>2, FS_Singleton
  <2> QED BY <2>3, <2>4
<1> QED BY <1>2, <1>3 DEF One, VotedAll

LEMMA NewestAlone ==
  ASSUME HostsTyped, NEW h \in Host, NEW arrived \in SUBSET msgs, NEW ad \in Newest(h, arrived)
  PROVE  Alone(ad)
<1> DEFINE ads   == Contents(arrived, "snapshot")
           fresh == {s \in ads : \A t \in ads \cup latest[h] : t.tick <= s.tick}
<1>1. ad = latest[h] \/ \E s \in fresh : ad = {s}
  BY Zenon DEF Newest
<1>2. \A s \in ads : Fine(s)
  BY DEF HostsTyped, Mail, Typed, Contents
<1>3. Alone(latest[h])
  BY DEF HostsTyped, Ballot
<1>4. ASSUME NEW s \in fresh, ad = {s} PROVE Alone(ad)
  <2>1. Fine(s)
    BY <1>2
  <2> QED BY <1>4, <2>1 DEF Alone
<1> QED BY <1>1, <1>3, <1>4

LEMMA RecordedOK ==
  ASSUME streak \in [Donor -> [Id -> 0..SlashThreshold]], NEW h \in Donor, NEW votes
  PROVE  Recorded(h, votes) \in [Id -> 0..SlashThreshold]
<1>1. SlashThreshold \in Nat
  BY Constants
<1>2. \A by \in Id : streak[h][by] \in 0..SlashThreshold
  OBVIOUS
<1>3. \A by \in Id : /\ 0 \in 0..SlashThreshold
                     /\ streak[h][by] < SlashThreshold => streak[h][by] + 1 \in 0..SlashThreshold
  BY <1>1, <1>2
<1> DEFINE next(by) == IF by \in Agree(votes) THEN 0
                       ELSE IF by \in Dissent(votes) /\ streak[h][by] < SlashThreshold
                            THEN streak[h][by] + 1
                       ELSE streak[h][by]
<1>4. \A by \in Id : next(by) \in 0..SlashThreshold
  BY <1>2, <1>3
<1>5. Recorded(h, votes) = [by \in Id |-> next(by)]
  BY DEF Recorded
<1> HIDE DEF next
<1> QED BY <1>4, <1>5

LEMMA BroadcastOK ==
  ASSUME NEW h \in Host, NEW kind, NEW content, HostsTyped
  PROVE  /\ IsFiniteSet(Broadcast(h, kind, content))
         /\ \A m \in Broadcast(h, kind, content) :
              /\ m.to \in hosting /\ m.to # h /\ m.from \in Id /\ m.sent = now
              /\ m.kind = kind /\ m.content = content
<1> DEFINE S == hosting \ {h}
           f == [k \in S |-> [to |-> k, from |-> Sender(h), sent |-> now, kind |-> kind, content |-> content]]
<1>1. Sender(h) \in Id
  BY RelaysApart, Constants DEF Sender
<1>2. IsFiniteSet(S)
  BY FS_Subset DEF HostsTyped, Tables
<1>3. Broadcast(h, kind, content) = {f[k] : k \in S}
  BY DEF Broadcast
<1>4. IsFiniteSet({f[k] : k \in S})
  <2> HIDE DEF f, S
  <2> QED BY <1>2, FiniteImage
<1> QED BY <1>1, <1>3, <1>4

LEMMA AcceptedOK ==
  ASSUME NEW w, NEW inputs \in Seq(Entry)
  PROVE  /\ Accepted(w, inputs) \in Seq(Entry)
         /\ ToSet(Accepted(w, inputs)) = {inputs[i] : i \in {j \in DOMAIN inputs : inputs[j].tick >= w.tick}}
<1> DEFINE places == {i \in DOMAIN inputs : inputs[i].tick >= w.tick}
<1>1. places \in SUBSET DOMAIN inputs
  OBVIOUS
<1>2. Accepted(w, inputs) = Listed(inputs, places, Arrival(inputs))
  BY DEF Accepted
<1> HIDE DEF places
<1>3. Keeps(Listed(inputs, places, Arrival(inputs)), inputs, places)
  BY <1>1, ArrivalOK
<1> QED BY <1>2, <1>3 DEF places, Keeps

LEMMA RemainingOK ==
  ASSUME NEW w, NEW inputs \in Seq(Entry), NEW target
  PROVE  Remaining(w, inputs, target) \in Seq(Entry)
<1> DEFINE kept == {i \in DOMAIN inputs : \/ inputs[i].tick >= target
                                          \/ inputs[i].tick < w.tick /\ ~Skips(w, target)}
<1>1. kept \in SUBSET DOMAIN inputs
  OBVIOUS
<1>2. Remaining(w, inputs, target) = Listed(inputs, kept, Arrival(inputs))
  BY DEF Remaining
<1> HIDE DEF kept
<1>3. Keeps(Listed(inputs, kept, Arrival(inputs)), inputs, kept)
  BY <1>1, ArrivalOK
<1> QED BY <1>2, <1>3 DEF Keeps

LEMMA CanonicalSeq ==
  ASSUME NEW list \in Seq(Entry), NEW places \in SUBSET DOMAIN list
  PROVE  Listed(list, places, Canonical(list)) \in Seq(Entry)
<1>1. DOMAIN list = 1..Len(list) /\ Len(list) \in Nat /\ \A i \in DOMAIN list : list[i] \in Entry
  OBVIOUS
<1>2. \A i \in places : i \in Nat /\ list[i] \in Entry /\ i \in DOMAIN list
  BY <1>1
<1>3. PICK before : before = Canonical(list)
  OBVIOUS
<1>4. \A i, j \in places : <<i, j>> \in before <=>
        Precedes(list[i], list[j]) \/ (~Precedes(list[j], list[i]) /\ i < j)
  BY <1>2, <1>3 DEF Canonical
<1>5. \A d, e, g \in Entry : /\ Precedes(d, e) /\ ~Precedes(g, e) => Precedes(d, g)
                             /\ ~Precedes(e, d) /\ Precedes(e, g) => Precedes(d, g)
                             /\ ~Precedes(e, d) /\ ~Precedes(g, e) => ~Precedes(g, d)
  <2>1. \A e \in Entry : e.tick \in Nat /\ e.author \in Nat /\ e.seq \in Nat
    <3>1. \A e \in Entry : e.tick \in Nat /\ e.author \in Id /\ e.seq \in Nat
      BY DEF Entry
    <3> QED BY <3>1, RelaysApart
  <2> TAKE d \in Entry, e \in Entry, g \in Entry
  <2>2. /\ d.tick \in Nat /\ d.author \in Nat /\ d.seq \in Nat
        /\ e.tick \in Nat /\ e.author \in Nat /\ e.seq \in Nat
        /\ g.tick \in Nat /\ g.author \in Nat /\ g.seq \in Nat
    BY <2>1
  <2>3. Precedes(d, e) /\ ~Precedes(g, e) => Precedes(d, g)
    BY <2>2 DEF Precedes
  <2>4. ~Precedes(e, d) /\ Precedes(e, g) => Precedes(d, g)
    BY <2>2 DEF Precedes
  <2>5. ~Precedes(e, d) /\ ~Precedes(g, e) => ~Precedes(g, d)
    BY <2>2 DEF Precedes
  <2> QED BY <2>3, <2>4, <2>5
<1>6. \A i \in places : <<i, i>> \notin before
  BY <1>2, <1>4, PrecedesOrder
<1>7. \A i, j \in places : i # j => <<i, j>> \in before \/ <<j, i>> \in before
  BY <1>2, <1>4
<1>8. ASSUME NEW i \in places, NEW j \in places, NEW k \in places,
             <<i, j>> \in before, <<j, k>> \in before
      PROVE  <<i, k>> \in before
  <2>1. list[i] \in Entry /\ list[j] \in Entry /\ list[k] \in Entry /\ i \in Nat /\ j \in Nat /\ k \in Nat
    BY <1>2
  <2>2. PICK d \in Entry, e \in Entry, g \in Entry : d = list[i] /\ e = list[j] /\ g = list[k]
    BY <2>1
  <2>3. Precedes(d, e) \/ (~Precedes(e, d) /\ i < j)
    BY <1>4, <1>8, <2>2
  <2>4. Precedes(e, g) \/ (~Precedes(g, e) /\ j < k)
    BY <1>4, <1>8, <2>2
  <2>5. Precedes(d, g) \/ (~Precedes(g, d) /\ i < k)
    <3>1. CASE Precedes(d, e)
      BY <1>5, <2>4, <3>1, PrecedesOrder
    <3>2. CASE ~Precedes(e, d) /\ i < j
      BY <1>5, <2>1, <2>4, <3>2
    <3> QED BY <2>3, <3>1, <3>2
  <2> QED BY <1>4, <2>2, <2>5
<1>9. Strict(places, before)
  BY <1>6, <1>7, <1>8 DEF Strict
<1>10. PICK l : l = Listed(list, places, before)
  OBVIOUS
<1>11. Lists(l, Entry, list, places, before)
  BY <1>9, <1>10, ListedOK
<1> QED BY <1>3, <1>10, <1>11 DEF Lists

\* A host's clock is set to the step's tick.
LEMMA AdvancedFine ==
  ASSUME NEW w, Fine(w), NEW inputs \in Seq(Entry), NEW target \in Nat
  PROVE  Fine(Advanced(w, inputs, target)) /\ Advanced(w, inputs, target).tick = target
<1> DEFINE due == {i \in DOMAIN inputs :
                     inputs[i].tick >= Start(w, target) /\ inputs[i].tick < target}
           l   == Listed(inputs, due, Canonical(inputs))
           r   == Run(w, l)
<1>1. l \in Seq(Entry)
  <2>1. due \in SUBSET DOMAIN inputs
    OBVIOUS
  <2> HIDE DEF due
  <2> QED BY <2>1, CanonicalSeq
<1>2. Advanced(w, inputs, target) = [r EXCEPT !.tick = target]
  BY DEF Advanced
<1> HIDE DEF l
<1>3. Fine(r)
  BY <1>1, RunFine
<1> HIDE DEF r
<1>4. r \in World /\ \A b, c \in r.bodies : b.id < r.next_id /\ (b.owner = c.owner \/ b.id = c.id => b = c)
  BY <1>3 DEF Fine
<1>5. PICK a : a = [r EXCEPT !.tick = target]
  OBVIOUS
<1>6. a \in World /\ a.tick = target /\ a.next_id = r.next_id /\ a.bodies = r.bodies
  BY <1>4, <1>5 DEF World
<1> QED BY <1>2, <1>4, <1>5, <1>6 DEF Fine

-----------------------------------------------------------------------------
(* Every table stays well formed. *)

LEMMA FreshFine == \A tick \in Nat : Fine(Fresh(tick)) /\ Fresh(tick).tick = tick
  BY DEF Fine, Fresh, World

LEMMA SetTick ==
  ASSUME NEW w, Fine(w), NEW tick \in Nat
  PROVE  Fine([w EXCEPT !.tick = tick])
<1>1. w \in World /\ \A b, c \in w.bodies : b.id < w.next_id /\ (b.owner = c.owner \/ b.id = c.id => b = c)
  BY DEF Fine
<1>2. PICK a : a = [w EXCEPT !.tick = tick]
  OBVIOUS
<1>3. a \in World /\ a.next_id = w.next_id /\ a.bodies = w.bodies
  BY <1>1, <1>2 DEF World
<1> QED BY <1>1, <1>2, <1>3 DEF Fine

LEMMA ShownOK ==
  ASSUME HostsTyped, NEW h \in Host, NEW w, Fine(w), NEW tick \in Nat
  PROVE  /\ IsFiniteSet(Snapshots(h, tick, w)) /\ \A m \in Snapshots(h, tick, w) : Typed(m) /\ m.kind = "snapshot"
         /\ IsFiniteSet(Proofs(h, w)) /\ \A m \in Proofs(h, w) : Typed(m) /\ m.kind = "proof"
<1>1. now \in Nat
  BY Constants DEF HostsTyped, Tables
<1>2. PICK s : s = [w EXCEPT !.tick = tick]
  OBVIOUS
<1>3. Fine(s)
  BY <1>2, SetTick
<1>4. IsFiniteSet({}) 
  BY FS_EmptySet
<1>5. IsFiniteSet(Broadcast(h, "snapshot", s)) /\ \A m \in Broadcast(h, "snapshot", s) : Typed(m) /\ m.kind = "snapshot"
  BY <1>1, <1>3, BroadcastOK DEF Typed
<1>6. PICK x : x = state_hash(w)
  OBVIOUS
<1>7. IsFiniteSet(Broadcast(h, "proof", x)) /\ \A m \in Broadcast(h, "proof", x) : Typed(m) /\ m.kind = "proof"
  BY <1>1, BroadcastOK DEF Typed
<1>8. Snapshots(h, tick, w) \in {Broadcast(h, "snapshot", s), {}}
  BY <1>2 DEF Snapshots
<1>9. Proofs(h, w) \in {Broadcast(h, "proof", x), {}}
  BY <1>6 DEF Proofs
<1> QED BY <1>4, <1>5, <1>7, <1>8, <1>9

\* Sequences of what came in.
LEMMA InputsOK ==
  ASSUME HostsTyped, NEW h, NEW arrived \in Inbound(h),
         NEW inputs \in SetToSeqs(Contents(arrived, "input"))
  PROVE  /\ arrived \in SUBSET msgs /\ IsFiniteSet(arrived)
         /\ inputs \in Seq(Entry) /\ ToSet(inputs) = Contents(arrived, "input")
         /\ \A i, j \in DOMAIN inputs : i # j => inputs[i] # inputs[j]
<1>1. arrived \in SUBSET msgs
  BY DEF Inbound
<1>2. IsFiniteSet(arrived)
  BY <1>1, FS_Subset DEF HostsTyped, Mail
<1> DEFINE I == {l \in arrived : l.kind = "input"}
           f == [m \in I |-> m.content]
           S == Contents(arrived, "input")
<1>3. S = {f[m] : m \in I}
  BY DEF Contents
<1>4. IsFiniteSet(I)
  BY <1>2, FS_Subset
<1>5. IsFiniteSet(S)
  <2> HIDE DEF f, I, S
  <2> QED BY <1>3, <1>4, FiniteImage
<1>6. S \in SUBSET Entry
  BY <1>1 DEF HostsTyped, Mail, Typed, Contents
<1> HIDE DEF S
<1>7. inputs \in Seq(S)
  BY <1>5, OrderOK DEF S
<1>8. ToSet(inputs) = S
  BY <1>5, OrderOK DEF S
<1>9. \A i, j \in DOMAIN inputs : i # j => inputs[i] # inputs[j]
  BY <1>5, OrderOK DEF S
<1>10. inputs \in Seq(Entry)
  BY <1>6, <1>7
<1> QED BY <1>1, <1>2, <1>8, <1>9, <1>10 DEF S

LEMMA RoundTyped ==
  ASSUME HostsTyped, NEW h \in Host, h \in hosting, NEW base, Fine(base), base.tick <= now,
         NEW arrived \in Inbound(h), NEW imported, Round(h, base, arrived, imported)
  PROVE  HostsTyped'
<1>1. PICK inputs \in SetToSeqs(Contents(arrived, "input")),
           cast \in Ballots(arrived), ad \in Newest(h, arrived) :
        \E votes, fetch, w, shown :
          Handled(h, base, arrived, imported, cast, ad, votes, fetch,
                  scheduled[h] \o Accepted(base, inputs), w, shown)
  BY RoundParts
<1>2. PICK votes, fetch, w, shown :
        Handled(h, base, arrived, imported, cast, ad, votes, fetch,
                scheduled[h] \o Accepted(base, inputs), w, shown)
  BY <1>1
<1>3. PICK queue : queue = scheduled[h] \o Accepted(base, inputs)
  OBVIOUS
<1>4. /\ w = Advanced(base, queue, now)
      /\ fetch \in {ad, {}} /\ shown \in {Snapshots(h, now, w), {}}
      /\ world' = [world EXCEPT ![h] = w]
      /\ scheduled' = [scheduled EXCEPT ![h] = Remaining(base, queue, now)]
      /\ whole' = IF base # world[h] \/ Skips(base, now) THEN whole \ {h} ELSE whole
      /\ latest' = [latest EXCEPT ![h] = ad]
      /\ \/ proofs' = [proofs EXCEPT ![h] = {}]
         \/ proofs' = [proofs EXCEPT ![h] = VotedAll(proofs[h], cast)]
      /\ \/ h \in Donor /\ streak' = [streak EXCEPT ![h] = Recorded(h, votes)]
         \/ streak' = streak
      /\ pending' = [pending EXCEPT ![h] = (@ \ imported) \cup fetch]
      /\ msgs' = (msgs \ arrived) \cup Proofs(h, w) \cup shown
      /\ repeats' \in {repeats, repeats + 1} /\ repeats' <= Repeats
      /\ stepped' = stepped \cup {h}
      /\ now' = now /\ hosting' = hosting /\ seq' = seq
  BY <1>2, <1>3, Zenon DEF Handled
<1>5. /\ arrived \in SUBSET msgs /\ IsFiniteSet(arrived) /\ inputs \in Seq(Entry)
  BY InputsOK
<1>6. Accepted(base, inputs) \in Seq(Entry) /\ scheduled[h] \in Seq(Entry)
  BY <1>5, AcceptedOK DEF HostsTyped, Tables
<1>7. queue \in Seq(Entry)
  BY <1>3, <1>6, ConcatProperties
<1>8. now \in Nat /\ now \in 0..Horizon
  BY Constants DEF HostsTyped, Tables
<1>9. Fine(w) /\ w.tick = now
  BY <1>4, <1>7, <1>8, AdvancedFine
<1>10. Alone(ad)
  BY <1>5, NewestAlone
<1>11. Tables'
  <2>1. PICK rest : rest = Remaining(base, queue, now)
    OBVIOUS
  <2>2. rest \in Seq(Entry)
    BY <1>7, <2>1, RemainingOK
  <2>3. scheduled' \in [Host -> Seq(Entry)]
    BY <1>4, <2>1, <2>2 DEF HostsTyped, Tables
  <2>4. streak' \in [Donor -> [Id -> 0..SlashThreshold]]
    <3>1. streak \in [Donor -> [Id -> 0..SlashThreshold]]
      BY DEF HostsTyped, Tables
    <3>2. CASE h \in Donor /\ streak' = [streak EXCEPT ![h] = Recorded(h, votes)]
      <4>1. PICK r : r = Recorded(h, votes)
        OBVIOUS
      <4>2. r \in [Id -> 0..SlashThreshold]
        BY <3>1, <3>2, <4>1, RecordedOK
      <4>3. streak' = [streak EXCEPT ![h] = r]
        BY <3>2, <4>1
      <4> QED BY <3>1, <4>2, <4>3
    <3> QED BY <1>4, <3>1, <3>2
  <2>5. repeats' \in 0..Repeats
    <3>1. repeats \in Nat /\ Repeats \in Nat
      BY Constants DEF HostsTyped, Tables
    <3> QED BY <1>4, <3>1
  <2>6. whole' \in SUBSET hosting /\ stepped' \in SUBSET hosting
    BY <1>4 DEF HostsTyped, Tables
  <2> QED BY <1>4, <1>8, <2>3, <2>4, <2>5, <2>6 DEF HostsTyped, Tables
<1>12. Worlds'
  <2>1. /\ world \in [Host -> World] /\ \A k \in Host : Fine(world[k]) /\ world[k].tick <= now
        /\ \A k \in hosting : now <= world[k].tick + MaxLag[k]
    BY DEF HostsTyped, Worlds
  <2>2. world' \in [Host -> World] /\ world'[h] = w /\ \A k \in Host \ {h} : world'[k] = world[k]
    BY <1>4, <1>9, <2>1 DEF Fine
  <2>3. \A k \in Host : Fine(world'[k]) /\ world'[k].tick <= now
    BY <1>8, <1>9, <2>1, <2>2
  <2>4. now <= world'[h].tick + MaxLag[h]
    BY <1>8, <1>9, <2>2, Constants
  <2>5. \A k \in hosting : now <= world'[k].tick + MaxLag[k]
    BY <2>1, <2>2, <2>4 DEF HostsTyped, Tables
  <2> QED BY <1>4, <2>2, <2>3, <2>5 DEF Worlds
<1>13. Ballot'
  <2>1. /\ DOMAIN proofs = Host /\ \A k \in Host : One(proofs[k])
        /\ DOMAIN latest = Host /\ \A k \in Host : Alone(latest[k])
        /\ DOMAIN pending = Host /\ \A k \in Host : \A s \in pending[k] : Fine(s)
    BY DEF HostsTyped, Ballot
  <2>2. DOMAIN proofs' = Host /\ \A k \in Host : One(proofs'[k])
    <3>1. \A m \in arrived : m.from \in Id
      BY <1>5 DEF HostsTyped, Mail, Typed
    <3>2. PICK heard : heard = VotedAll(proofs[h], cast)
      OBVIOUS
    <3>3. One(heard)
      BY <1>5, <2>1, <3>1, <3>2, VotesOne
    <3>4. One({})
      BY DEF One
    <3>5. proofs' = [proofs EXCEPT ![h] = {}] \/ proofs' = [proofs EXCEPT ![h] = heard]
      BY <1>4, <3>2
    <3> QED BY <2>1, <3>3, <3>4, <3>5
  <2>3. DOMAIN latest' = Host /\ \A k \in Host : Alone(latest'[k])
    BY <1>4, <1>10, <2>1
  <2>4. \A s \in fetch : Fine(s)
    BY <1>4, <1>10 DEF Alone
  <2>5. DOMAIN pending' = Host /\ \A k \in Host : \A s \in pending'[k] : Fine(s)
    BY <1>4, <2>1, <2>4
  <2>6. \A P : One(P)' <=> One(P)
    BY DEF One
  <2> QED BY <2>2, <2>3, <2>5 DEF Ballot, One, Alone, Fine
<1>14. Mail'
  <2>1. IsFiniteSet(msgs) /\ \A m \in msgs : Typed(m)
    BY DEF HostsTyped, Mail
  <2>2. /\ IsFiniteSet(Proofs(h, w)) /\ \A m \in Proofs(h, w) : Typed(m)
        /\ IsFiniteSet(Snapshots(h, now, w)) /\ \A m \in Snapshots(h, now, w) : Typed(m)
    BY <1>8, <1>9, ShownOK
  <2>3. IsFiniteSet(shown) /\ \A m \in shown : Typed(m)
    BY <1>4, <2>2, FS_EmptySet
  <2>4. IsFiniteSet(msgs \ arrived)
    BY <2>1, FS_Subset
  <2>5. IsFiniteSet((msgs \ arrived) \cup Proofs(h, w))
    BY <2>2, <2>4, FS_Union
  <2>6. IsFiniteSet(msgs')
    BY <1>4, <2>3, <2>5, FS_Union
  <2>7. \A m \in msgs' : Typed(m)
    BY <1>4, <2>1, <2>2, <2>3
  <2>8. \A m : Typed(m) => Typed(m)'
    BY <1>4 DEF Typed
  <2> QED BY <2>6, <2>7, <2>8 DEF Mail
<1> QED BY <1>11, <1>12, <1>13, <1>14 DEF HostsTyped

LEMMA ImportedBase ==
  ASSUME HostsTyped, NEW h \in Host, NEW s \in pending[h]
  PROVE  Fine(Imported(s, now)) /\ Imported(s, now).tick = now /\ now \in Nat
<1>1. now \in Nat
  BY Constants DEF HostsTyped, Tables
<1>2. Fine(s)
  BY DEF HostsTyped, Ballot
<1> QED BY <1>1, <1>2, ImportedFine

LEMMA ResumeTyped ==
  ASSUME HostsTyped, NEW h \in Host, Resume(h)
  PROVE  HostsTyped'
<1>1. PICK w \in {Imported(s, now) : s \in pending[h]} \cup {world[h]} :
        /\ h \in Donor /\ pending[h] # {}
        /\ pending' = [pending EXCEPT ![h] = {}]
        /\ world' = [world EXCEPT ![h] = w]
        /\ whole' = IF w = world[h] THEN whole ELSE whole \ {h}
        /\ stepped' = stepped \ {h}
        /\ msgs' = msgs \cup Snapshots(h, world[h].tick, w)
        /\ UNCHANGED <<now, hosting, scheduled, proofs, latest, streak, slashed, seq, repeats>>
  BY Zenon DEF Resume
<1>2. now \in Nat /\ world \in [Host -> World] /\ Fine(world[h]) /\ world[h].tick <= now
  BY Constants DEF HostsTyped, Tables, Worlds
<1>3. Fine(w) /\ w.tick <= now /\ (w.tick = now \/ w = world[h]) /\ w \in World
  <2>1. CASE w = world[h]
    BY <1>2, <2>1
  <2>2. CASE w # world[h]
    <3>1. PICK s \in pending[h] : w = Imported(s, now)
      BY <2>2
    <3> QED BY <1>2, <3>1, ImportedBase DEF Fine
  <2> QED BY <2>1, <2>2
<1>4. Tables'
  BY <1>1 DEF HostsTyped, Tables
<1>5. Worlds'
  <2>1. world'[h] = w /\ \A k \in Host \ {h} : world'[k] = world[k]
    BY <1>1, <1>2
  <2>2. world' \in [Host -> World]
    BY <1>1, <1>2, <1>3
  <2>3. \A k \in Host : Fine(world[k]) /\ world[k].tick <= now
    BY DEF HostsTyped, Worlds
  <2>4. \A k \in Host : Fine(world'[k]) /\ world'[k].tick <= now
    BY <1>3, <2>1, <2>3
  <2>5. \A k \in hosting : k \in Host /\ now <= world[k].tick + MaxLag[k]
    BY DEF HostsTyped, Worlds, Tables
  <2>6. h \in hosting => now <= world'[h].tick + MaxLag[h]
    <3>1. CASE w = world[h]
      BY <2>1, <2>5, <3>1
    <3>2. CASE w.tick = now
      BY <1>2, <2>1, <3>2, Constants
    <3> QED BY <1>3, <3>1, <3>2
  <2>7. \A k \in hosting : now <= world'[k].tick + MaxLag[k]
    BY <2>1, <2>5, <2>6
  <2> QED BY <1>1, <2>2, <2>4, <2>7 DEF Worlds
<1>6. Ballot'
  <2>1. /\ DOMAIN pending = Host /\ \A k \in Host : \A s \in pending[k] : Fine(s)
        /\ DOMAIN proofs = Host /\ \A k \in Host : One(proofs[k])
        /\ DOMAIN latest = Host /\ \A k \in Host : Alone(latest[k])
    BY DEF HostsTyped, Ballot
  <2>2. DOMAIN pending' = Host /\ \A k \in Host : \A s \in pending'[k] : Fine(s)
    BY <1>1, <2>1
  <2> QED BY <1>1, <2>1, <2>2 DEF Ballot
<1>7. Mail'
  <2>1. IsFiniteSet(msgs) /\ \A m \in msgs : Typed(m)
    BY DEF HostsTyped, Mail
  <2>2. world[h].tick \in Nat
    BY <1>2 DEF Fine, World
  <2>3. PICK shown : shown = Snapshots(h, world[h].tick, w)
    OBVIOUS
  <2>4. IsFiniteSet(shown) /\ \A m \in shown : Typed(m)
    BY <1>3, <2>2, <2>3, ShownOK
  <2>5. msgs' = msgs \cup shown
    BY <1>1, <2>3
  <2>6. IsFiniteSet(msgs')
    BY <2>1, <2>4, <2>5, FS_Union
  <2>7. \A m : Typed(m) => Typed(m)'
    BY <1>1 DEF Typed
  <2> QED BY <2>1, <2>4, <2>5, <2>6, <2>7 DEF Mail
<1> QED BY <1>4, <1>5, <1>6, <1>7 DEF HostsTyped

LEMMA SubmitTyped ==
  ASSUME HostsTyped, NEW p \in Tab, NEW kind \in {"Join", "Input"}, Submit(p, kind)
  PROVE  HostsTyped'
<1> DEFINE own == [tick |-> world[p].tick + InputDelay, author |-> p, seq |-> seq[p] + 1, kind |-> kind]
           sent == [own EXCEPT !.author = Sender(p)]
<1>1. PICK e, d : e = own /\ d = sent
  OBVIOUS
<1>2. /\ p \in hosting /\ seq[p] < MaxInputs[p]
      /\ seq' = [seq EXCEPT ![p] = @ + 1]
      /\ scheduled' = [scheduled EXCEPT ![p] = Append(@, e)]
      /\ msgs' = msgs \cup Broadcast(p, "input", d)
      /\ UNCHANGED <<now, hosting, world, whole, quorum, stepped, repeats>>
  BY <1>1 DEF Submit
<1>3. p \in Host /\ p \in Id /\ Sender(p) \in Id /\ now \in Nat /\ MaxInputs[p] \in Nat
  BY Constants, RelaysApart DEF Sender, HostsTyped, Tables
<1>4. world[p].tick + InputDelay \in Nat
  BY <1>3, Constants DEF HostsTyped, Worlds, World
<1>5. seq \in [Tab -> Nat] /\ seq[p] + 1 \in Nat /\ seq[p] + 1 <= MaxInputs[p]
  BY <1>2, <1>3 DEF HostsTyped, Tables
<1>6. e \in Entry /\ d \in Entry
  BY <1>1, <1>3, <1>4, <1>5 DEF Entry
<1> HIDE DEF own, sent
<1>7. Tables'
  <2>1. scheduled \in [Host -> Seq(Entry)]
    BY DEF HostsTyped, Tables
  <2>2. Append(scheduled[p], e) \in Seq(Entry)
    BY <1>3, <1>6, <2>1
  <2>3. scheduled' \in [Host -> Seq(Entry)]
    BY <1>2, <2>1, <2>2
  <2>4. seq' \in [Tab -> Nat] /\ \A q \in Tab : seq'[q] <= MaxInputs[q]
    BY <1>2, <1>5 DEF HostsTyped, Tables
  <2> QED BY <1>2, <2>3, <2>4 DEF HostsTyped, Tables, quorum
<1>8. Worlds' /\ Ballot'
  BY <1>2 DEF HostsTyped, Worlds, Ballot, quorum
<1>9. Mail'
  <2>1. IsFiniteSet(msgs) /\ \A m \in msgs : Typed(m)
    BY DEF HostsTyped, Mail
  <2>2. IsFiniteSet(Broadcast(p, "input", d)) /\ \A m \in Broadcast(p, "input", d) : Typed(m)
    BY <1>3, <1>6, BroadcastOK DEF Typed
  <2>3. IsFiniteSet(msgs')
    BY <1>2, <2>1, <2>2, FS_Union
  <2>4. \A m : Typed(m) => Typed(m)'
    BY <1>2 DEF Typed
  <2> QED BY <1>2, <2>1, <2>2, <2>3, <2>4 DEF Mail
<1> QED BY <1>7, <1>8, <1>9 DEF HostsTyped

LEMMA EnsureTyped ==
  ASSUME HostsTyped, NEW h \in Host, Ensure(h)
  PROVE  HostsTyped'
<1>1. /\ hosting' = hosting \cup {h} /\ world' = [world EXCEPT ![h] = Fresh(now)]
      /\ whole' \in {whole, whole \cup {h}}
      /\ UNCHANGED <<now, scheduled, quorum, seq, msgs, stepped, repeats>>
  BY DEF Ensure
<1>2. now \in Nat /\ Fine(Fresh(now)) /\ Fresh(now).tick = now
  BY Constants, FreshFine DEF HostsTyped, Tables
<1>3. Tables'
  <2>1. IsFiniteSet(hosting \cup {h})
    BY FS_AddElement DEF HostsTyped, Tables
  <2> QED BY <1>1, <2>1 DEF HostsTyped, Tables, quorum
<1>4. Worlds'
  <2>1. PICK w : w = Fresh(now)
    OBVIOUS
  <2>2. Fine(w) /\ w.tick = now /\ w \in World /\ world' = [world EXCEPT ![h] = w]
    BY <1>1, <1>2, <2>1 DEF Fine
  <2>3. /\ world \in [Host -> World] /\ \A k \in Host : Fine(world[k]) /\ world[k].tick <= now
        /\ \A k \in hosting : k \in Host /\ now <= world[k].tick + MaxLag[k]
    BY DEF HostsTyped, Worlds, Tables
  <2>4. world' \in [Host -> World] /\ world'[h] = w /\ \A k \in Host \ {h} : world'[k] = world[k]
    BY <2>2, <2>3
  <2>5. \A k \in Host : Fine(world'[k]) /\ world'[k].tick <= now
    BY <1>2, <2>2, <2>3, <2>4
  <2>6. now <= world'[h].tick + MaxLag[h]
    BY <1>2, <2>2, <2>4, Constants
  <2>7. \A k \in hosting' : now <= world'[k].tick + MaxLag[k]
    BY <1>1, <2>3, <2>4, <2>6
  <2> QED BY <1>1, <2>4, <2>5, <2>7 DEF Worlds
<1>5. Ballot'
  BY <1>1 DEF HostsTyped, Ballot, quorum
<1>6. Mail'
  <2>1. \A m : Typed(m) => Typed(m)'
    BY <1>1 DEF Typed
  <2> QED BY <1>1, <2>1 DEF HostsTyped, Mail
<1> QED BY <1>3, <1>4, <1>5, <1>6 DEF HostsTyped

LEMMA ClockTyped ==
  ASSUME HostsTyped, Clock
  PROVE  HostsTyped'
<1>1. /\ now < Horizon /\ now' = now + 1
      /\ \A h \in hosting : now < world[h].tick + MaxLag[h]
      /\ hosting' = hosting /\ world' = world /\ scheduled' = scheduled /\ whole' = whole
      /\ UNCHANGED <<quorum, seq, msgs, stepped, repeats>>
  <2>1. engine' = engine
    BY DEF Clock
  <2> QED BY <2>1 DEF Clock, engine
<1>2. now \in Nat /\ Horizon \in Nat
  BY Constants DEF HostsTyped, Tables
<1>3. Tables'
  BY <1>1, <1>2 DEF HostsTyped, Tables, quorum
<1>4. Worlds'
  <2>1. /\ world \in [Host -> World] /\ \A k \in Host : Fine(world[k]) /\ world[k].tick <= now
        /\ \A k \in hosting : k \in Host
    BY DEF HostsTyped, Worlds, Tables
  <2>2. \A k \in Host : world[k].tick \in Nat /\ MaxLag[k] \in Nat
    BY <2>1, Constants DEF World
  <2>3. \A k \in Host : world[k].tick <= now + 1
    BY <1>2, <2>1, <2>2
  <2>4. \A k \in hosting : now + 1 <= world[k].tick + MaxLag[k]
    BY <1>1, <1>2, <2>1, <2>2
  <2> QED BY <1>1, <2>1, <2>3, <2>4 DEF Worlds
<1>5. Ballot' /\ Mail'
  BY <1>1 DEF HostsTyped, Ballot, Mail, Typed, quorum
<1> QED BY <1>3, <1>4, <1>5 DEF HostsTyped

LEMMA StepTyped ==
  ASSUME HostsTyped, NEW h \in Host, Step(h)
  PROVE  HostsTyped'
<1>1. h \in hosting
  BY DEF Step
<1>2. PICK arrived \in Inbound(h) : Round(h, world[h], arrived, {})
  BY DEF Step
<1>3. Fine(world[h]) /\ world[h].tick <= now
  BY DEF HostsTyped, Worlds
<1> QED BY <1>1, <1>2, <1>3, RoundTyped

LEMMA FrameTyped ==
  ASSUME HostsTyped, NEW p \in Host, TabFrame(p)
  PROVE  HostsTyped'
<1>1. p \in hosting
  BY DEF TabFrame
<1>2. PICK arrived \in Inbound(p) :
        \/ Round(p, world[p], arrived, {})
        \/ \E s \in pending[p] : Round(p, Imported(s, now), arrived, {s})
  BY Zenon DEF TabFrame
<1>3. CASE Round(p, world[p], arrived, {})
  <2>1. Fine(world[p]) /\ world[p].tick <= now
    BY DEF HostsTyped, Worlds
  <2> QED BY <1>1, <1>3, <2>1, RoundTyped
<1>4. ASSUME NEW s \in pending[p], Round(p, Imported(s, now), arrived, {s}) PROVE HostsTyped'
  <2>1. Fine(Imported(s, now)) /\ Imported(s, now).tick <= now
    BY ImportedBase
  <2> QED BY <1>1, <1>4, <2>1, RoundTyped
<1> QED BY <1>2, <1>3, <1>4

LEMMA TypedStarts == HostsInit => HostsTyped
<1> SUFFICES ASSUME HostsInit PROVE HostsTyped
  OBVIOUS
<1>1. Tables
  <2>1. scheduled \in [Host -> Seq(Entry)]
    BY DEF HostsInit
  <2>2. streak \in [Donor -> [Id -> 0..SlashThreshold]]
    BY Constants DEF HostsInit
  <2>3. seq \in [Tab -> Nat] /\ \A p \in Tab : seq[p] <= MaxInputs[p]
    BY Constants DEF HostsInit
  <2>4. IsFiniteSet(hosting)
    BY FS_EmptySet DEF HostsInit
  <2> QED BY <2>1, <2>2, <2>3, <2>4, Constants DEF HostsInit, Tables
<1>2. Worlds
  <2>1. PICK w : w = Fresh(0)
    OBVIOUS
  <2>2. Fine(w) /\ w.tick = 0 /\ w \in World
    BY <2>1, FreshFine DEF Fine
  <2>3. world = [h \in Host |-> w] /\ now = 0 /\ hosting = {}
    BY <2>1 DEF HostsInit
  <2> QED BY <2>2, <2>3 DEF Worlds
<1>3. Ballot
  BY DEF HostsInit, Ballot, One, Alone
<1>4. Mail
  BY FS_EmptySet DEF HostsInit, Mail
<1> QED BY <1>1, <1>2, <1>3, <1>4 DEF HostsTyped

LEMMA TypedSteps == HostsTyped /\ [HostsNext]_hostvars => HostsTyped'
<1> SUFFICES ASSUME HostsTyped, [HostsNext]_hostvars PROVE HostsTyped'
  OBVIOUS
<1>1. CASE Clock
  BY <1>1, ClockTyped
<1>2. ASSUME NEW h \in Host, Ensure(h) PROVE HostsTyped'
  BY <1>2, EnsureTyped
<1>3. ASSUME NEW h \in Host, Step(h) PROVE HostsTyped'
  BY <1>3, StepTyped
<1>4. ASSUME NEW h \in Host, Resume(h) PROVE HostsTyped'
  BY <1>4, ResumeTyped
<1>5. ASSUME NEW h \in Host, TabFrame(h) PROVE HostsTyped'
  BY <1>5, FrameTyped
<1>6. ASSUME NEW p \in Tab, NEW kind \in {"Join", "Input"}, Submit(p, kind) PROVE HostsTyped'
  BY <1>6, SubmitTyped
<1>7. CASE UNCHANGED hostvars
  BY <1>7 DEF hostvars, engine, quorum, HostsTyped, Tables, Worlds, Ballot, Mail, Typed
<1> QED BY <1>1, <1>2, <1>3, <1>4, <1>5, <1>6, <1>7, Zenon DEF HostsNext

\* Every host's tables are well formed: one body to an owner and one id to a
\* body in a world, whatever is replayed or imported into it; one vote to a
\* sender in a tally; and a streak never above the threshold.
LEMMA TypedAlways == HostsSpec => []HostsTyped
  BY TypedStarts, TypedSteps, PTL DEF HostsSpec

LEMMA TypedIsTypeOK == HostsTyped => HostsTypeOK
<1> SUFFICES ASSUME HostsTyped PROVE HostsTypeOK
  OBVIOUS
<1>1. \A h \in Host :
       /\ world[h].tick <= now
       /\ \A b, c \in world[h].bodies :
            /\ b \in Body /\ b.id < world[h].next_id
            /\ b.owner = c.owner \/ b.id = c.id => b = c
  <2> TAKE h \in Host
  <2>1. PICK w : w = world[h]
    OBVIOUS
  <2>2. Fine(w) /\ w.tick <= now
    BY <2>1 DEF HostsTyped, Worlds
  <2>3. w.bodies \in SUBSET Body
    BY <2>2 DEF Fine, World
  <2> QED BY <2>1, <2>2, <2>3 DEF Fine
<1>2. \A h \in Host : \A u, v \in proofs[h] : u.by \in Id /\ (u.by = v.by => u = v)
  BY DEF HostsTyped, Ballot, One
<1>3. \A h \in Host : Cardinality(latest[h]) <= 1
  <2> TAKE h \in Host
  <2>1. PICK ads : ads = latest[h]
    OBVIOUS
  <2>2. \A s, t \in ads : s = t
    BY <2>1 DEF HostsTyped, Ballot, Alone
  <2>3. CASE ads = {}
    BY <2>1, <2>3, FS_EmptySet
  <2>4. CASE ads # {}
    <3>1. PICK s : s \in ads
      BY <2>4
    <3>2. ads = {s}
      BY <2>2, <3>1
    <3>3. Cardinality({s}) = 1
      BY FS_Singleton
    <3> QED BY <2>1, <3>2, <3>3
  <2> QED BY <2>3, <2>4
<1>4. \A h \in Host : scheduled[h] \in Seq(Entry)
  BY DEF HostsTyped, Tables
<1>5. \A m \in msgs : m.to \in hosting /\ m.from \in Id
  BY DEF HostsTyped, Mail, Typed
<1>6. \A p \in Tab : seq[p] \in 0..MaxInputs[p]
  BY Constants DEF HostsTyped, Tables
<1> QED BY <1>1, <1>2, <1>3, <1>4, <1>5, <1>6 DEF HostsTypeOK, HostsTyped, Tables

\* Type correctness (replica.rs, replica_host.rs, quorum_audit.rs): one body to
\* an owner and one id to a body in every replica, whatever is replayed or
\* imported into it, one vote to a sender in every tally.
THEOREM HostTables == HostsSpec => []HostsTypeOK
<1>1. HostsTyped => HostsTypeOK
  BY TypedIsTypeOK
<1> QED BY <1>1, TypedAlways, PTL

-----------------------------------------------------------------------------
(* A replica's clock. *)

\* A round of host h, as far as its replica goes.
Replayed(h, base, arrived, queue, w, out) ==
  /\ queue \in Seq(Entry) /\ Fine(w) /\ w.tick = now /\ w = Advanced(base, queue, now)
  /\ world' = [world EXCEPT ![h] = w]
  /\ scheduled' = [scheduled EXCEPT ![h] = Remaining(base, queue, now)]
  /\ whole' = IF base # world[h] \/ Skips(base, now) THEN whole \ {h} ELSE whole
  /\ msgs' = (msgs \ arrived) \cup out /\ \A m \in out : m.kind # "input"
  /\ now' = now /\ hosting' = hosting /\ seq' = seq

LEMMA RoundRun ==
  ASSUME HostsTyped, NEW h \in Host, NEW base, Fine(base), base.tick <= now,
         NEW arrived \in Inbound(h), NEW imported, Round(h, base, arrived, imported)
  PROVE  \E inputs \in SetToSeqs(Contents(arrived, "input")) : \E w, out :
           Replayed(h, base, arrived, scheduled[h] \o Accepted(base, inputs), w, out)
<1>1. PICK inputs \in SetToSeqs(Contents(arrived, "input")),
           cast \in Ballots(arrived), ad \in Newest(h, arrived) :
        \E votes, fetch, w, shown :
          Handled(h, base, arrived, imported, cast, ad, votes, fetch,
                  scheduled[h] \o Accepted(base, inputs), w, shown)
  BY RoundParts
<1>2. PICK votes, fetch, w, shown :
        Handled(h, base, arrived, imported, cast, ad, votes, fetch,
                scheduled[h] \o Accepted(base, inputs), w, shown)
  BY <1>1
<1>3. PICK queue : queue = scheduled[h] \o Accepted(base, inputs)
  OBVIOUS
<1>4. /\ w = Advanced(base, queue, now)
      /\ shown \in {Snapshots(h, now, w), {}}
      /\ world' = [world EXCEPT ![h] = w]
      /\ scheduled' = [scheduled EXCEPT ![h] = Remaining(base, queue, now)]
      /\ whole' = IF base # world[h] \/ Skips(base, now) THEN whole \ {h} ELSE whole
      /\ msgs' = (msgs \ arrived) \cup Proofs(h, w) \cup shown
      /\ now' = now /\ hosting' = hosting /\ seq' = seq
  BY <1>2, <1>3, Zenon DEF Handled
<1>5. inputs \in Seq(Entry)
  BY InputsOK
<1>6. Accepted(base, inputs) \in Seq(Entry) /\ scheduled[h] \in Seq(Entry)
  BY <1>5, AcceptedOK DEF HostsTyped, Tables
<1>7. queue \in Seq(Entry)
  BY <1>3, <1>6, ConcatProperties
<1>8. now \in Nat
  BY Constants DEF HostsTyped, Tables
<1>9. Fine(w) /\ w.tick = now
  BY <1>4, <1>7, <1>8, AdvancedFine
<1> DEFINE out == Proofs(h, w) \cup shown
<1>10. \A m \in out : m.kind # "input"
  <2>1. \A m \in Proofs(h, w) : m.kind = "proof"
    BY <1>8, <1>9, ShownOK
  <2>2. \A m \in Snapshots(h, now, w) : m.kind = "snapshot"
    BY <1>8, <1>9, ShownOK
  <2> QED BY <1>4, <2>1, <2>2
<1>11. msgs' = (msgs \ arrived) \cup out
  BY <1>4
<1> HIDE DEF out
<1>12. Replayed(h, base, arrived, queue, w, out)
  BY <1>4, <1>7, <1>9, <1>10, <1>11, Zenon DEF Replayed
<1> QED BY <1>3, <1>12, Zenon

LEMMA RoundClock ==
  ASSUME HostsTyped, NEW h \in Host, NEW base, Fine(base), base.tick <= now,
         NEW arrived \in Inbound(h), NEW imported, Round(h, base, arrived, imported)
  PROVE  \A k \in Host : world'[k].tick >= world[k].tick
<1>1. PICK inputs \in SetToSeqs(Contents(arrived, "input")) : \E w, out :
        Replayed(h, base, arrived, scheduled[h] \o Accepted(base, inputs), w, out)
  BY RoundRun
<1>2. PICK w, out : Replayed(h, base, arrived, scheduled[h] \o Accepted(base, inputs), w, out)
  BY <1>1
<1>3. world' = [world EXCEPT ![h] = w] /\ w.tick = now
  BY <1>2 DEF Replayed
<1>4. world \in [Host -> World] /\ \A k \in Host : world[k].tick <= now /\ world[k].tick \in Nat
  BY DEF HostsTyped, Worlds, World
<1>5. now \in Nat
  BY Constants DEF HostsTyped, Tables
<1> QED BY <1>3, <1>4, <1>5

LEMMA ClockStep ==
  ASSUME HostsTyped, HostsNext
  PROVE  \A h \in hosting : world'[h].tick >= world[h].tick
<1>1. /\ world \in [Host -> World] /\ hosting \in SUBSET Host /\ now \in Nat
      /\ \A k \in Host : Fine(world[k]) /\ world[k].tick <= now /\ world[k].tick \in Nat
  BY Constants DEF HostsTyped, Tables, Worlds, World
<1> DEFINE Kept == \A h \in hosting : world'[h].tick >= world[h].tick
<1>2. ASSUME world' = world PROVE Kept
  BY <1>1, <1>2
<1>3. CASE Clock
  BY <1>2, <1>3 DEF Clock, engine
<1>4. ASSUME NEW h \in Host, Ensure(h) PROVE Kept
  BY <1>1, <1>4 DEF Ensure
<1>5. ASSUME NEW h \in Host, Step(h) PROVE Kept
  <2>1. PICK arrived \in Inbound(h) : Round(h, world[h], arrived, {})
    BY <1>5 DEF Step
  <2>2. \A k \in Host : world'[k].tick >= world[k].tick
    BY <1>1, <2>1, RoundClock
  <2> QED BY <1>1, <2>2
<1>6. ASSUME NEW h \in Host, Resume(h) PROVE Kept
  <2>1. PICK w \in {Imported(s, now) : s \in pending[h]} \cup {world[h]} : world' = [world EXCEPT ![h] = w]
    BY <1>6 DEF Resume
  <2>2. w = world[h] \/ w.tick = now
    BY ImportedBase
  <2> QED BY <1>1, <2>1, <2>2
<1>7. ASSUME NEW p \in Host, TabFrame(p) PROVE Kept
  <2>1. PICK arrived \in Inbound(p) :
          \/ Round(p, world[p], arrived, {})
          \/ \E s \in pending[p] : Round(p, Imported(s, now), arrived, {s})
    BY <1>7, Zenon DEF TabFrame
  <2>2. ASSUME Round(p, world[p], arrived, {}) PROVE \A k \in Host : world'[k].tick >= world[k].tick
    BY <1>1, <2>2, RoundClock
  <2>3. ASSUME NEW s \in pending[p], Round(p, Imported(s, now), arrived, {s})
        PROVE  \A k \in Host : world'[k].tick >= world[k].tick
    <3>1. Fine(Imported(s, now)) /\ Imported(s, now).tick <= now
      BY <1>1, ImportedBase
    <3> QED BY <2>3, <3>1, RoundClock
  <2>4. \A k \in Host : world'[k].tick >= world[k].tick
    BY <2>1, <2>2, <2>3
  <2> QED BY <1>1, <2>4
<1>8. ASSUME NEW p \in Tab, NEW kind \in {"Join", "Input"}, Submit(p, kind) PROVE Kept
  BY <1>2, <1>8 DEF Submit
<1> QED BY <1>3, <1>4, <1>5, <1>6, <1>7, <1>8, Zenon DEF HostsNext

\* No replica returns to a tick it has left (advance_to, set_tick), through
\* merges of older snapshots and fast-forwards: no tick is simulated twice.
THEOREM ClockKept == HostsSpec => ClockNeverRewinds
<1>1. HostsTyped /\ [HostsNext]_hostvars =>
        [\A h \in hosting : world'[h].tick >= world[h].tick]_hostvars
  BY ClockStep
<1>2. HostsSpec => [][\A h \in hosting : world'[h].tick >= world[h].tick]_hostvars
  BY <1>1, TypedAlways, PTL DEF HostsSpec
<1> QED BY <1>2 DEF ClockNeverRewinds

-----------------------------------------------------------------------------
(* Replicas that have simulated every tick. *)

Apart(list) == \A i, j \in DOMAIN list : i # j => list[i] # list[j]

LEMMA KeepsApart ==
  ASSUME NEW list, Apart(list), NEW places \in SUBSET DOMAIN list, NEW l, Keeps(l, list, places),
         \A i \in DOMAIN list : i \in Nat
  PROVE  Apart(l)
<1>1. /\ l \in Seq(Entry)
      /\ \A j, k \in 1..Len(l) : j < k => \E p, q \in places : p < q /\ l[j] = list[p] /\ l[k] = list[q]
  BY DEF Keeps
<1>2. DOMAIN l = 1..Len(l) /\ Len(l) \in Nat
  BY <1>1
<1>3. \A j, k \in 1..Len(l) : j < k => l[j] # l[k]
  <2> TAKE j, k \in 1..Len(l)
  <2> HAVE j < k
  <2>1. PICK p, q \in places : p < q /\ l[j] = list[p] /\ l[k] = list[q]
    BY <1>1
  <2>2. p # q /\ p \in DOMAIN list /\ q \in DOMAIN list
    BY <2>1
  <2> QED BY <2>1, <2>2 DEF Apart
<1> QED BY <1>2, <1>3 DEF Apart

\* What host h still has to simulate of the inputs L, from a tick on: each is
\* scheduled or on its way, once.
Waits(h, L, tick, list, flight) ==
  /\ \A i \in DOMAIN list : \E e \in L : list[i] = View(h, e) /\ e.tick >= tick
  /\ \A m \in flight : \E e \in L : m.content = View(h, e) /\ e.tick >= tick
  /\ \A e \in L : e.tick >= tick =>
       \/ \E i \in DOMAIN list : list[i] = View(h, e)
       \/ \E m \in flight : m.content = View(h, e)
  /\ Apart(list)
  /\ \A m, n \in flight : m.content = n.content => m = n
  /\ \A i \in DOMAIN list, m \in flight : list[i] # m.content

\* Hearing some of them leaves that so.
LEMMA HeardWaits ==
  ASSUME NEW h \in Host, NEW L \in SUBSET Sent, NEW w \in World, NEW list \in Seq(Entry), NEW flight,
         NEW got \in SUBSET flight, NEW inputs \in Seq(Entry), Apart(inputs),
         ToSet(inputs) = {m.content : m \in got}, Waits(h, L, w.tick, list, flight)
  PROVE  /\ list \o Accepted(w, inputs) \in Seq(Entry)
         /\ Waits(h, L, w.tick, list \o Accepted(w, inputs), flight \ got)
<1> DEFINE places == {i \in DOMAIN inputs : inputs[i].tick >= w.tick}
<1>1. PICK l : l = Accepted(w, inputs)
  OBVIOUS
<1>2. Keeps(l, inputs, places) /\ places \in SUBSET DOMAIN inputs
  <2>1. places \in SUBSET DOMAIN inputs
    OBVIOUS
  <2>2. l = Listed(inputs, places, Arrival(inputs))
    BY <1>1 DEF Accepted
  <2> HIDE DEF places
  <2>3. Keeps(Listed(inputs, places, Arrival(inputs)), inputs, places)
    BY <2>1, ArrivalOK
  <2> QED BY <2>1, <2>2, <2>3
<1>3. DOMAIN inputs = 1..Len(inputs) /\ Len(inputs) \in Nat /\ \A i \in DOMAIN inputs : i \in Nat
  OBVIOUS
<1>4. Apart(l)
  BY <1>2, <1>3, KeepsApart
<1>5. l \in Seq(Entry) /\ DOMAIN l = 1..Len(l) /\ Len(l) \in Nat
  BY <1>2 DEF Keeps
<1>6. \A e \in L : View(h, e).tick = e.tick
  BY ViewOK
<1>7. \A m \in flight : \E e \in L : m.content = View(h, e) /\ e.tick >= w.tick
  BY DEF Waits
<1>8. \A i \in DOMAIN inputs : \E m \in got : inputs[i] = m.content
  BY DEF ToSet
<1>9. \A m \in got : \E i \in DOMAIN inputs : inputs[i] = m.content
  BY DEF ToSet
<1>10. places = DOMAIN inputs
  <2>1. ASSUME NEW i \in DOMAIN inputs PROVE inputs[i].tick >= w.tick
    <3>1. PICK m \in got : inputs[i] = m.content
      BY <1>8
    <3>2. PICK e \in L : m.content = View(h, e) /\ e.tick >= w.tick
      BY <1>7
    <3> QED BY <1>6, <3>1, <3>2
  <2> QED BY <2>1
<1>11. ToSet(l) = ToSet(inputs)
  BY <1>2, <1>10 DEF Keeps, ToSet
<1> HIDE DEF places
<1>12. \A k \in DOMAIN l : \E m \in got : l[k] = m.content
  BY <1>11 DEF ToSet
<1>13. \A m \in got : \E k \in DOMAIN l : l[k] = m.content
  <2> TAKE m \in got
  <2>1. m.content \in ToSet(l)
    BY <1>11
  <2> QED BY <2>1 DEF ToSet
<1>14. PICK q : q = list \o l
  OBVIOUS
<1>15. /\ q \in Seq(Entry) /\ DOMAIN q = 1..(Len(list) + Len(l))
       /\ \A i \in 1..(Len(list) + Len(l)) : q[i] = IF i <= Len(list) THEN list[i] ELSE l[i - Len(list)]
  BY <1>5, <1>14, ConcatProperties
<1>16. DOMAIN list = 1..Len(list) /\ Len(list) \in Nat
  OBVIOUS
<1>17. \A i \in DOMAIN list : i \in DOMAIN q /\ q[i] = list[i]
  BY <1>5, <1>15, <1>16
<1>18. \A k \in DOMAIN l : Len(list) + k \in DOMAIN q /\ q[Len(list) + k] = l[k]
  <2> TAKE k \in DOMAIN l
  <2>1. Len(list) + k \in 1..(Len(list) + Len(l)) /\ ~(Len(list) + k <= Len(list)) /\ (Len(list) + k) - Len(list) = k
    BY <1>5, <1>16
  <2> QED BY <1>15, <2>1
<1>19. \A i \in DOMAIN q : i \in DOMAIN list \/ \E k \in DOMAIN l : i = Len(list) + k
  <2> TAKE i \in DOMAIN q
  <2>1. i > Len(list) => i - Len(list) \in 1..Len(l) /\ i = Len(list) + (i - Len(list))
    BY <1>5, <1>15, <1>16
  <2> QED BY <1>5, <1>15, <1>16, <2>1
<1>20. ASSUME NEW i \in DOMAIN q PROVE \E e \in L : q[i] = View(h, e) /\ e.tick >= w.tick
  <2>1. CASE i \in DOMAIN list
    BY <1>17, <2>1 DEF Waits
  <2>2. ASSUME NEW k \in DOMAIN l, i = Len(list) + k PROVE \E e \in L : q[i] = View(h, e) /\ e.tick >= w.tick
    <3>1. PICK m \in got : l[k] = m.content
      BY <1>12
    <3> QED BY <1>7, <1>18, <2>2, <3>1
  <2> QED BY <1>19, <2>1, <2>2
<1>21. \A m \in flight \ got : \E e \in L : m.content = View(h, e) /\ e.tick >= w.tick
  BY <1>7
<1>22. ASSUME NEW e \in L, e.tick >= w.tick
       PROVE  \/ \E i \in DOMAIN q : q[i] = View(h, e)
              \/ \E m \in flight \ got : m.content = View(h, e)
  <2>1. \/ \E i \in DOMAIN list : list[i] = View(h, e)
        \/ \E m \in flight : m.content = View(h, e)
    BY <1>22 DEF Waits
  <2>2. ASSUME NEW i \in DOMAIN list, list[i] = View(h, e) PROVE \E j \in DOMAIN q : q[j] = View(h, e)
    BY <1>17, <2>2
  <2>3. ASSUME NEW m \in got, m.content = View(h, e) PROVE \E j \in DOMAIN q : q[j] = View(h, e)
    <3>1. PICK k \in DOMAIN l : l[k] = m.content
      BY <1>13
    <3> QED BY <1>18, <2>3, <3>1
  <2> QED BY <2>1, <2>2, <2>3
<1>23. \A i \in DOMAIN list, k \in DOMAIN l : list[i] # l[k]
  BY <1>12 DEF Waits
<1>24. Apart(q)
  <2> SUFFICES ASSUME NEW i \in DOMAIN q, NEW j \in DOMAIN q, i # j PROVE q[i] # q[j]
    BY DEF Apart
  <2>1. CASE i \in DOMAIN list /\ j \in DOMAIN list
    BY <1>17, <2>1 DEF Waits, Apart
  <2>2. ASSUME i \in DOMAIN list, NEW k \in DOMAIN l, j = Len(list) + k PROVE q[i] # q[j]
    BY <1>17, <1>18, <1>23, <2>2
  <2>3. ASSUME NEW k \in DOMAIN l, i = Len(list) + k, j \in DOMAIN list PROVE q[i] # q[j]
    BY <1>17, <1>18, <1>23, <2>3
  <2>4. ASSUME NEW k \in DOMAIN l, i = Len(list) + k, NEW n \in DOMAIN l, j = Len(list) + n PROVE q[i] # q[j]
    <3>1. k # n
      BY <2>4
    <3> QED BY <1>4, <1>18, <2>4, <3>1 DEF Apart
  <2> QED BY <1>19, <2>1, <2>2, <2>3, <2>4
<1>25. \A m, n \in flight \ got : m.content = n.content => m = n
  BY DEF Waits
<1>26. ASSUME NEW i \in DOMAIN q, NEW m \in flight \ got PROVE q[i] # m.content
  <2>1. CASE i \in DOMAIN list
    BY <1>17, <2>1 DEF Waits
  <2>2. ASSUME NEW k \in DOMAIN l, i = Len(list) + k PROVE q[i] # m.content
    <3>1. PICK n \in got : l[k] = n.content
      BY <1>12
    <3>2. n # m /\ n \in flight
      OBVIOUS
    <3>3. n.content # m.content
      BY <3>2 DEF Waits
    <3> QED BY <1>18, <2>2, <3>1, <3>3
  <2> QED BY <1>19, <2>1, <2>2
<1>27. Waits(h, L, w.tick, q, flight \ got)
  BY <1>20, <1>21, <1>22, <1>24, <1>25, <1>26 DEF Waits
<1> QED BY <1>1, <1>14, <1>15, <1>27

\* So does simulating up to a tick before which nothing more can arrive.
LEMMA RestWaits ==
  ASSUME NEW h \in Host, NEW L \in SUBSET Sent, NEW w \in World, NEW q \in Seq(Entry), NEW flight,
         NEW target \in Nat, w.tick <= target, ~Skips(w, target),
         \A m \in flight : m.content.tick >= target, Waits(h, L, w.tick, q, flight)
  PROVE  Waits(h, L, target, Remaining(w, q, target), flight)
<1> DEFINE kept == {i \in DOMAIN q : q[i].tick >= target}
<1>1. PICK l : l = Remaining(w, q, target)
  OBVIOUS
<1>2. DOMAIN q = 1..Len(q) /\ Len(q) \in Nat /\ \A i \in DOMAIN q : i \in Nat
  OBVIOUS
<1>3. w.tick \in Nat /\ \A e \in L : View(h, e).tick = e.tick /\ e.tick \in Nat
  BY ViewOK DEF World, Sent, Entry
<1>4. \A i \in DOMAIN q : \E e \in L : q[i] = View(h, e) /\ e.tick >= w.tick
  BY DEF Waits
<1>5. Keeps(l, q, kept) /\ kept \in SUBSET DOMAIN q
  <2> DEFINE old == {i \in DOMAIN q : q[i].tick >= target \/ (q[i].tick < w.tick /\ ~Skips(w, target))}
  <2>1. l = Listed(q, old, Arrival(q))
    BY <1>1 DEF Remaining
  <2>2. \A i \in DOMAIN q : ~(q[i].tick < w.tick)
    BY <1>3, <1>4
  <2>3. old = kept
    BY <2>2
  <2>4. kept \in SUBSET DOMAIN q
    OBVIOUS
  <2> HIDE DEF old, kept
  <2>5. Keeps(Listed(q, kept, Arrival(q)), q, kept)
    BY <2>4, ArrivalOK
  <2> QED BY <2>1, <2>3, <2>4, <2>5
<1>6. Apart(l)
  <2> HIDE DEF kept
  <2>1. Apart(q)
    BY DEF Waits
  <2> QED BY <1>2, <1>5, <2>1, KeepsApart
<1>7. ToSet(l) = {q[i] : i \in kept}
  BY <1>5 DEF Keeps
<1>8. \A k \in DOMAIN l : \E i \in kept : l[k] = q[i]
  <2> TAKE k \in DOMAIN l
  <2>1. l[k] \in ToSet(l)
    BY DEF ToSet
  <2> QED BY <1>7, <2>1
<1>9. \A i \in kept : \E k \in DOMAIN l : l[k] = q[i]
  <2> TAKE i \in kept
  <2>1. q[i] \in ToSet(l)
    BY <1>7
  <2> QED BY <2>1 DEF ToSet
<1>10. ASSUME NEW k \in DOMAIN l PROVE \E e \in L : l[k] = View(h, e) /\ e.tick >= target
  <2>1. PICK i \in kept : l[k] = q[i]
    BY <1>8
  <2>2. PICK e \in L : q[i] = View(h, e)
    BY <1>4
  <2> QED BY <1>3, <2>1, <2>2
<1>11. ASSUME NEW m \in flight PROVE \E e \in L : m.content = View(h, e) /\ e.tick >= target
  <2>1. PICK e \in L : m.content = View(h, e)
    BY DEF Waits
  <2>2. m.content.tick >= target
    OBVIOUS
  <2> QED BY <1>3, <2>1, <2>2
<1>12. ASSUME NEW e \in L, e.tick >= target
       PROVE  \/ \E k \in DOMAIN l : l[k] = View(h, e)
              \/ \E m \in flight : m.content = View(h, e)
  <2>1. e.tick >= w.tick
    BY <1>3, <1>12
  <2>2. \/ \E i \in DOMAIN q : q[i] = View(h, e)
        \/ \E m \in flight : m.content = View(h, e)
    BY <2>1 DEF Waits
  <2>3. ASSUME NEW i \in DOMAIN q, q[i] = View(h, e) PROVE \E k \in DOMAIN l : l[k] = View(h, e)
    <3>1. i \in kept
      BY <1>3, <1>12, <2>3
    <3> QED BY <1>9, <2>3, <3>1
  <2> QED BY <2>2, <2>3
<1>13. \A m, n \in flight : m.content = n.content => m = n
  BY DEF Waits
<1>14. ASSUME NEW k \in DOMAIN l, NEW m \in flight PROVE l[k] # m.content
  <2>1. PICK i \in DOMAIN q : l[k] = q[i]
    BY <1>8
  <2> QED BY <2>1 DEF Waits
<1>15. Waits(h, L, target, l, flight)
  BY <1>6, <1>10, <1>11, <1>12, <1>13, <1>14 DEF Waits
<1> QED BY <1>1, <1>15

\* Inputs of which no two share a sender's number.
Numbered(L) == \A d, e \in L : d.author = e.author /\ d.seq = e.seq => d = e

\* Host h has simulated, in the one order, all of L before its tick.
Past(h, L, w) ==
  \E c \in Seq(Sent) : /\ Sorted(c) /\ ToSet(c) = {e \in L : e.tick < w.tick}
                       /\ Mirrors(h, w, Run(Fresh(0), c))

LEMMA Replays ==
  ASSUME Suffixed, NEW h \in Host, NEW L \in SUBSET Sent, Numbered(L), NEW w, Fine(w),
         NEW q \in Seq(Entry), NEW flight, NEW target \in Nat, w.tick <= target, ~Skips(w, target),
         \A m \in flight : m.content.tick >= target, Waits(h, L, w.tick, q, flight), Past(h, L, w)
  PROVE  Past(h, L, Advanced(w, q, target))
<1> DEFINE due == {i \in DOMAIN q : q[i].tick >= w.tick /\ q[i].tick < target}
           M   == {e \in L : e.tick >= w.tick /\ e.tick < target}
<1>1. PICK d : d = Listed(q, due, Canonical(q))
  OBVIOUS
<1>2. w \in World /\ w.tick \in Nat /\ \A e \in L : View(h, e).tick = e.tick /\ e.tick \in Nat
  BY ViewOK DEF Fine, World, Sent, Entry
<1>3. \A i \in DOMAIN q : \E e \in L : q[i] = View(h, e) /\ e.tick >= w.tick
  BY DEF Waits
<1>4. Advanced(w, q, target) = [Run(w, d) EXCEPT !.tick = target]
  <2>1. Start(w, target) = w.tick
    BY DEF Start
  <2> QED BY <1>1, <2>1 DEF Advanced
<1>5. Sorts(d, q, due)
  <2>1. due \in SUBSET DOMAIN q
    OBVIOUS
  <2>2. ASSUME NEW i \in due, NEW j \in due, i # j
        PROVE  q[i].author # q[j].author \/ q[i].seq # q[j].seq
    <3>1. PICK x \in L : q[i] = View(h, x)
      BY <1>3
    <3>2. PICK y \in L : q[j] = View(h, y)
      BY <1>3
    <3>3. q[i] # q[j]
      BY <2>2 DEF Waits, Apart
    <3>4. x # y
      BY <3>1, <3>2, <3>3
    <3>5. x.author # y.author \/ x.seq # y.seq
      BY <3>4 DEF Numbered
    <3>6. /\ q[i].author = As(h, x.author) /\ q[i].seq = x.seq
          /\ q[j].author = As(h, y.author) /\ q[j].seq = y.seq
      BY <3>1, <3>2, ViewOK
    <3>7. x.author \in Relays /\ y.author \in Relays
      BY DEF Sent
    <3> QED BY <3>5, <3>6, <3>7, AsOK
  <2> HIDE DEF due
  <2>3. Sorts(Listed(q, due, Canonical(q)), q, due)
    BY <2>1, <2>2, CanonicalOK
  <2> QED BY <1>1, <2>3
<1>6. d \in Seq(Entry) /\ Sorted(d) /\ ToSet(d) = {q[i] : i \in due}
  BY <1>5 DEF Sorts
<1>7. ToSet(d) = {View(h, e) : e \in M}
  <2>1. ASSUME NEW i \in due PROVE q[i] \in {View(h, e) : e \in M}
    <3>1. PICK e \in L : q[i] = View(h, e)
      BY <1>3
    <3>2. e \in M
      BY <1>2, <3>1
    <3> QED BY <3>1, <3>2
  <2>2. ASSUME NEW e \in M PROVE \E i \in due : q[i] = View(h, e)
    <3>1. \/ \E i \in DOMAIN q : q[i] = View(h, e)
          \/ \E m \in flight : m.content = View(h, e)
      BY DEF Waits
    <3>2. ASSUME NEW m \in flight, m.content = View(h, e) PROVE FALSE
      <4>1. m.content.tick >= target
        OBVIOUS
      <4>2. m.content.tick = e.tick
        BY <1>2, <3>2
      <4> QED BY <1>2, <4>1, <4>2
    <3>3. PICK i \in DOMAIN q : q[i] = View(h, e)
      BY <3>1, <3>2
    <3>4. q[i].tick = e.tick
      BY <1>2, <3>3
    <3> QED BY <3>3, <3>4
  <2> HIDE DEF due, M
  <2> QED BY <1>6, <2>1, <2>2
<1>8. PICK c \in Seq(Sent) : /\ Sorted(c) /\ ToSet(c) = {e \in L : e.tick < w.tick}
                             /\ Mirrors(h, w, Run(Fresh(0), c))
  BY DEF Past
<1>9. PICK b \in Seq(Sent) : /\ Len(d) = Len(b) /\ Sorted(b) /\ ToSet(b) = M
                             /\ \A i \in 1..Len(b) : d[i] = View(h, b[i])
  <2>1. M \in SUBSET Sent
    OBVIOUS
  <2> HIDE DEF M
  <2> QED BY <1>6, <1>7, <2>1, Unseen
<1>10. \A x \in ToSet(c), y \in ToSet(b) : x.tick < y.tick
  BY <1>2, <1>8, <1>9
<1>11. c \o b \in Seq(Sent) /\ Sorted(c \o b) /\ ToSet(c \o b) = ToSet(c) \cup ToSet(b)
  BY <1>8, <1>9, <1>10, SortedOn
<1>12. ToSet(c) \cup ToSet(b) = {e \in L : e.tick < target}
  BY <1>2, <1>8, <1>9
<1>13. PICK v : v = Run(Fresh(0), c)
  OBVIOUS
<1>14. v \in World /\ Run(v, b) = Run(Fresh(0), c \o b)
  <2>1. c \in Seq(Entry)
    BY DEF Sent
  <2>2. Fine(v)
    BY <1>13, <2>1, FreshFine, RunFine
  <2> QED BY <1>13, <2>2, RunOn DEF Fine
<1>15. /\ Run(w, d) \in World
       /\ Mirrors(h, Run(w, d), Run(v, b))
  BY <1>2, <1>6, <1>8, <1>9, <1>13, <1>14, RunMirrors
<1>16. PICK r, a : r = Run(w, d) /\ a = [r EXCEPT !.tick = target]
  OBVIOUS
<1>17. r \in World /\ a.tick = target /\ a.next_id = r.next_id /\ a.bodies = r.bodies
  BY <1>15, <1>16 DEF World
<1>18. Mirrors(h, a, Run(Fresh(0), c \o b))
  BY <1>14, <1>15, <1>16, <1>17 DEF Mirrors
<1>19. a = Advanced(w, q, target)
  BY <1>4, <1>16
<1>20. ToSet(c \o b) = {e \in L : e.tick < a.tick}
  BY <1>11, <1>12, <1>17
<1>21. Past(h, L, a)
  BY <1>11, <1>18, <1>20 DEF Past
<1> QED BY <1>19, <1>21

\* One more input, at a tick no replica has reached.
LEMMA MoreScheduled ==
  ASSUME NEW h \in Host, NEW L \in SUBSET Sent, NEW d \in Sent, d \notin L, NEW tick, d.tick >= tick,
         NEW list \in Seq(Entry), NEW flight, Waits(h, L, tick, list, flight)
  PROVE  Waits(h, L \cup {d}, tick, Append(list, View(h, d)), flight)
<1>1. PICK e, q : e = View(h, d) /\ q = Append(list, e)
  OBVIOUS
<1>2. DOMAIN list = 1..Len(list) /\ Len(list) \in Nat
  OBVIOUS
<1>3. /\ DOMAIN q = 1..(Len(list) + 1) /\ q[Len(list) + 1] = e
      /\ \A i \in DOMAIN list : q[i] = list[i] /\ i \in DOMAIN q
  <2>1. e \in Entry
    BY <1>1, ViewOK
  <2> QED BY <1>1, <1>2, <2>1, AppendProperties
<1>4. \A i \in DOMAIN q : i \in DOMAIN list \/ i = Len(list) + 1
  BY <1>2, <1>3
<1>5. \A x \in L : View(h, x) # e
  BY <1>1, ViewOnce
<1>6. \A i \in DOMAIN list : list[i] # e
  BY <1>5 DEF Waits
<1>7. \A m \in flight : m.content # e
  BY <1>5 DEF Waits
<1>8. \A i \in DOMAIN q : \E x \in L \cup {d} : q[i] = View(h, x) /\ x.tick >= tick
  BY <1>1, <1>3, <1>4 DEF Waits
<1>9. \A m \in flight : \E x \in L \cup {d} : m.content = View(h, x) /\ x.tick >= tick
  BY DEF Waits
<1>10. \A x \in L \cup {d} : x.tick >= tick =>
         \/ \E i \in DOMAIN q : q[i] = View(h, x)
         \/ \E m \in flight : m.content = View(h, x)
  <2>1. Len(list) + 1 \in DOMAIN q
    BY <1>2, <1>3
  <2> QED BY <1>1, <1>3, <2>1 DEF Waits
<1>11. Apart(q)
  <2> SUFFICES ASSUME NEW i \in DOMAIN q, NEW j \in DOMAIN q, i # j PROVE q[i] # q[j]
    BY DEF Apart
  <2>1. CASE i \in DOMAIN list /\ j \in DOMAIN list
    BY <1>3, <2>1 DEF Waits, Apart
  <2>2. CASE i \in DOMAIN list /\ j = Len(list) + 1
    BY <1>3, <1>6, <2>2
  <2>3. CASE i = Len(list) + 1 /\ j \in DOMAIN list
    BY <1>3, <1>6, <2>3
  <2> QED BY <1>4, <2>1, <2>2, <2>3
<1>12. \A m, n \in flight : m.content = n.content => m = n
  BY DEF Waits
<1>13. \A i \in DOMAIN q, m \in flight : q[i] # m.content
  BY <1>3, <1>4, <1>7 DEF Waits
<1> QED BY <1>1, <1>8, <1>9, <1>10, <1>11, <1>12, <1>13 DEF Waits

LEMMA MoreFlight ==
  ASSUME NEW h \in Host, NEW L \in SUBSET Sent, NEW d \in Sent, d \notin L, NEW tick, d.tick >= tick,
         NEW list \in Seq(Entry), NEW flight, Waits(h, L, tick, list, flight),
         NEW n, n.content = View(h, d)
  PROVE  Waits(h, L \cup {d}, tick, list, flight \cup {n})
<1>1. \A x \in L : View(h, x) # View(h, d)
  BY ViewOnce
<1>2. PICK e : e = View(h, d)
  OBVIOUS
<1>3. n.content = e /\ \A x \in L : View(h, x) # e
  BY <1>1, <1>2
<1>4. \A i \in DOMAIN list : list[i] # e
  BY <1>3 DEF Waits
<1>5. \A m \in flight : m.content # e
  BY <1>3 DEF Waits
<1>6. \A i \in DOMAIN list : \E x \in L \cup {d} : list[i] = View(h, x) /\ x.tick >= tick
  BY DEF Waits
<1>7. \A m \in flight \cup {n} : \E x \in L \cup {d} : m.content = View(h, x) /\ x.tick >= tick
  BY DEF Waits
<1>8. \A x \in L \cup {d} : x.tick >= tick =>
        \/ \E i \in DOMAIN list : list[i] = View(h, x)
        \/ \E m \in flight \cup {n} : m.content = View(h, x)
  BY DEF Waits
<1>9. Apart(list)
  BY DEF Waits
<1>10. \A m, k \in flight \cup {n} : m.content = k.content => m = k
  BY <1>3, <1>5 DEF Waits
<1>11. \A i \in DOMAIN list, m \in flight \cup {n} : list[i] # m.content
  BY <1>3, <1>4 DEF Waits
<1> QED BY <1>6, <1>7, <1>8, <1>9, <1>10, <1>11 DEF Waits

\* The inputs broadcast so far, by sender and number.
Logged(L) ==
  /\ L \in SUBSET Sent /\ Numbered(L)
  /\ \A e \in L : e.seq >= 1 /\ \E p \in Tab : e.author = Relay[p] /\ e.seq <= seq[p]

InFlight(h) == {m \in msgs : m.to = h /\ m.kind = "input"}

Fed(L) ==
  \A h \in whole : /\ Waits(h, L, world[h].tick, scheduled[h], InFlight(h))
                   /\ Past(h, L, world[h])

\* An input is on its way no longer than until the tick it is for.
InTime == \A m \in msgs : m.kind = "input" => m.content.tick + 1 >= m.sent + MaxLatency["input"]

Idle == \A h \in Host \ hosting : scheduled[h] = << >>

Agreeing == HostsTyped /\ InTime /\ Idle /\ \E L : Logged(L) /\ Fed(L)

LEMMA RoundAgrees ==
  ASSUME Suffixed, Agreeing, NEW h \in Host, h \in hosting, NEW base, Fine(base), base.tick <= now,
         NEW arrived \in Inbound(h), NEW imported, Round(h, base, arrived, imported)
  PROVE  Agreeing'
<1>1. PICK L : Logged(L) /\ Fed(L)
  BY DEF Agreeing
<1>2. HostsTyped /\ InTime /\ Idle
  BY DEF Agreeing
<1>3. HostsTyped'
  BY <1>2, RoundTyped
<1>4. PICK inputs \in SetToSeqs(Contents(arrived, "input")) : \E w, out :
        Replayed(h, base, arrived, scheduled[h] \o Accepted(base, inputs), w, out)
  BY <1>2, RoundRun
<1>5. PICK w, out : Replayed(h, base, arrived, scheduled[h] \o Accepted(base, inputs), w, out)
  BY <1>4
<1>6. PICK queue : queue = scheduled[h] \o Accepted(base, inputs)
  OBVIOUS
<1>7. /\ queue \in Seq(Entry) /\ Fine(w) /\ w.tick = now /\ w = Advanced(base, queue, now)
      /\ world' = [world EXCEPT ![h] = w]
      /\ scheduled' = [scheduled EXCEPT ![h] = Remaining(base, queue, now)]
      /\ whole' = IF base # world[h] \/ Skips(base, now) THEN whole \ {h} ELSE whole
      /\ msgs' = (msgs \ arrived) \cup out /\ \A m \in out : m.kind # "input"
      /\ now' = now /\ hosting' = hosting /\ seq' = seq
  BY <1>5, <1>6, Zenon DEF Replayed
<1>8. /\ arrived \in SUBSET msgs /\ inputs \in Seq(Entry) /\ ToSet(inputs) = Contents(arrived, "input")
      /\ Apart(inputs)
  BY <1>2, InputsOK DEF Apart
<1>9. /\ now \in Nat /\ world \in [Host -> World] /\ scheduled \in [Host -> Seq(Entry)]
      /\ hosting \in SUBSET Host /\ whole \in SUBSET hosting
      /\ \A k \in Host : Fine(world[k]) /\ world[k].tick <= now
      /\ IsFiniteSet(msgs) /\ \A m \in msgs : Typed(m)
  BY <1>2, Constants DEF HostsTyped, Tables, Worlds, Mail
<1>10. \A m \in arrived : m.to = h
  BY DEF Inbound
<1>11. Logged(L)'
  BY <1>1, <1>7 DEF Logged
<1>12. InTime'
  BY <1>2, <1>7 DEF InTime
<1>13. Idle'
  BY <1>2, <1>7, <1>9 DEF Idle
<1>14. \A k \in Host \ {h} : InFlight(k)' = InFlight(k)
  BY <1>7, <1>10 DEF InFlight
<1>15. ASSUME NEW k \in whole', k # h
       PROVE  Waits(k, L, world'[k].tick, scheduled'[k], InFlight(k)') /\ Past(k, L, world'[k])
  <2>1. k \in whole /\ k \in Host
    BY <1>7, <1>9
  <2>2. world'[k] = world[k] /\ scheduled'[k] = scheduled[k] /\ InFlight(k)' = InFlight(k)
    BY <1>7, <1>9, <1>14, <1>15, <2>1
  <2>3. Waits(k, L, world[k].tick, scheduled[k], InFlight(k)) /\ Past(k, L, world[k])
    BY <1>1, <2>1 DEF Fed
  <2> QED BY <2>2, <2>3
<1>16. ASSUME h \in whole'
       PROVE  Waits(h, L, world'[h].tick, scheduled'[h], InFlight(h)') /\ Past(h, L, world'[h])
  <2>1. h \in whole /\ base = world[h] /\ ~Skips(base, now)
    BY <1>7, <1>16
  <2>2. PICK list, flight, got : /\ list = scheduled[h] /\ flight = InFlight(h)
                                 /\ got = {m \in arrived : m.kind = "input"}
    OBVIOUS
  <2>3. Waits(h, L, base.tick, list, flight) /\ Past(h, L, base)
    BY <1>1, <2>1, <2>2 DEF Fed
  <2>4. got \in SUBSET flight /\ ToSet(inputs) = {m.content : m \in got} /\ list \in Seq(Entry)
    BY <1>8, <1>9, <1>10, <2>2 DEF InFlight, Contents
  <2>5. InFlight(h)' = flight \ got
    BY <1>7, <1>8, <2>2 DEF InFlight
  <2>6. L \in SUBSET Sent /\ Numbered(L) /\ base \in World
    BY <1>1 DEF Logged, Fine
  <2>7. Waits(h, L, base.tick, queue, flight \ got)
    BY <1>6, <1>8, <2>2, <2>3, <2>4, <2>6, HeardWaits
  <2>8. \A m \in flight \ got : m.content.tick >= now
    <3> TAKE m \in flight \ got
    <3>1. m \in msgs /\ m.to = h /\ m.kind = "input" /\ m \notin arrived
      BY <2>2 DEF InFlight
    <3>2. m.content \in Entry /\ m.sent \in Nat
      BY <1>9, <3>1 DEF Typed
    <3>3. m.content.tick \in Nat
      BY <3>2 DEF Entry
    <3>4. m.content.tick + 1 >= m.sent + MaxLatency["input"]
      BY <1>2, <3>1 DEF InTime
    <3>5. now < m.sent + MaxLatency["input"]
      <4>1. CASE now >= m.sent + MinLatency[m.kind]
        BY <3>1, <4>1 DEF Inbound
      <4>2. CASE ~(now >= m.sent + MinLatency["input"])
        <5>1. /\ MinLatency["input"] \in Nat /\ MaxLatency["input"] \in Nat
              /\ MinLatency["input"] <= MaxLatency["input"]
          BY LockstepAssumption
        <5> QED BY <1>9, <3>2, <4>2, <5>1
      <4> QED BY <3>1, <4>1, <4>2
    <3>6. MaxLatency["input"] \in Nat
      BY Constants
    <3> QED BY <1>9, <3>2, <3>3, <3>4, <3>5, <3>6
  <2>9. PICK left : left = flight \ got
    OBVIOUS
  <2>10. /\ Waits(h, L, base.tick, queue, left) /\ \A m \in left : m.content.tick >= now
    BY <2>7, <2>8, <2>9
  <2>11. Waits(h, L, now, Remaining(base, queue, now), left)
    BY <1>7, <1>9, <2>1, <2>6, <2>10, RestWaits
  <2>12. Past(h, L, w)
    BY <1>7, <1>9, <2>1, <2>3, <2>6, <2>10, Replays
  <2>13. world'[h] = w /\ scheduled'[h] = Remaining(base, queue, now)
    BY <1>7, <1>9
  <2> QED BY <1>7, <2>5, <2>9, <2>11, <2>12, <2>13
<1>17. Fed(L)'
  BY <1>15, <1>16 DEF Fed
<1> QED BY <1>3, <1>11, <1>12, <1>13, <1>17 DEF Agreeing

LEMMA SubmitAgrees ==
  ASSUME Prompt, Suffixed, Agreeing, NEW p \in Tab, NEW kind \in {"Join", "Input"}, Submit(p, kind)
  PROVE  Agreeing'
<1>1. PICK L : Logged(L) /\ Fed(L)
  BY DEF Agreeing
<1>2. HostsTyped /\ InTime /\ Idle
  BY DEF Agreeing
<1>3. HostsTyped'
  BY <1>2, SubmitTyped
<1> DEFINE own == [tick |-> world[p].tick + InputDelay, author |-> p, seq |-> seq[p] + 1, kind |-> kind]
           sent == [own EXCEPT !.author = Sender(p)]
<1>4. PICK e, d : e = own /\ d = sent
  OBVIOUS
<1>5. /\ p \in hosting /\ seq' = [seq EXCEPT ![p] = @ + 1]
      /\ scheduled' = [scheduled EXCEPT ![p] = Append(@, e)]
      /\ msgs' = msgs \cup Broadcast(p, "input", d)
      /\ now' = now /\ hosting' = hosting /\ world' = world /\ whole' = whole
  BY <1>4 DEF Submit
<1>6. /\ p \in Host /\ now \in Nat /\ seq \in [Tab -> Nat] /\ hosting \in SUBSET Host
      /\ scheduled \in [Host -> Seq(Entry)] /\ whole \in SUBSET hosting
      /\ \A k \in Host : Fine(world[k]) /\ world[k].tick <= now /\ world[k].tick \in Nat
      /\ now <= world[p].tick + MaxLag[p]
  BY <1>2, <1>5, Constants DEF HostsTyped, Tables, Worlds, World
<1>7. /\ Relay[p] \in Relays /\ Relay[p] \in Id /\ p \in Id /\ Sender(p) = Relay[p]
  BY RelaysApart, Constants DEF Relays, Sender
<1>8. PICK t, s : t = world[p].tick + InputDelay /\ s = seq[p] + 1
  OBVIOUS
<1>9. t \in Nat /\ t >= now /\ t + 1 >= now + MaxLatency["input"] /\ s \in Nat
  <2>1. MaxLag[p] <= InputDelay /\ MaxLag[p] + MaxLatency["input"] <= InputDelay + 1
    BY DEF Prompt
  <2>2. PICK at, lag, most : at = world[p].tick /\ lag = MaxLag[p] /\ most = MaxLatency["input"]
    OBVIOUS
  <2>3. at \in Nat /\ lag \in Nat /\ most \in Nat /\ InputDelay \in Nat /\ now \in Nat
    BY <1>6, <2>2, Constants
  <2>4. now <= at + lag /\ lag <= InputDelay /\ lag + most <= InputDelay + 1 /\ t = at + InputDelay
    BY <1>6, <1>8, <2>1, <2>2
  <2>5. t \in Nat /\ t >= now /\ t + 1 >= now + most
    BY <2>3, <2>4
  <2>6. s \in Nat
    BY <1>6, <1>8
  <2> QED BY <2>2, <2>5, <2>6
<1>10. /\ e = [tick |-> t, author |-> p, seq |-> s, kind |-> kind]
       /\ d = [tick |-> t, author |-> Relay[p], seq |-> s, kind |-> kind]
  BY <1>4, <1>7, <1>8
<1> HIDE DEF own, sent
<1>11. d \in Sent /\ d.tick = t /\ d.author = Relay[p] /\ d.seq = s
  BY <1>7, <1>9, <1>10 DEF Sent, Entry
<1>12. View(p, d) = e
  BY <1>10 DEF View, As
<1>13. \A k \in Host \ {p} : View(k, d) = d
  <2> TAKE k \in Host \ {p}
  <2>1. As(k, Relay[p]) = Relay[p]
    BY DEF As, Suffixed
  <2> QED BY <1>10, <2>1 DEF View
<1>14. L \in SUBSET Sent /\ Numbered(L) /\ \A x \in L : x.seq \in Nat
       /\ x.seq >= 1 /\ \E q \in Tab : x.author = Relay[q] /\ x.seq <= seq[q]
  BY <1>1 DEF Logged, Sent, Entry
<1>15. \A x \in L : x.author = d.author => x.seq # d.seq
  <2> SUFFICES ASSUME NEW x \in L, x.author = Relay[p], x.seq = s PROVE FALSE
    BY <1>11
  <2>1. PICK q \in Tab : x.author = Relay[q] /\ x.seq <= seq[q]
    BY <1>14
  <2>2. q = p
    BY <2>1 DEF Suffixed
  <2>3. seq[p] \in Nat
    BY <1>6
  <2> QED BY <1>8, <2>1, <2>2, <2>3
<1>16. d \notin L
  BY <1>15
<1>17. PICK M : M = L \cup {d}
  OBVIOUS
<1>18. Logged(M)'
  <2>1. M \in SUBSET Sent
    BY <1>11, <1>14, <1>17
  <2>2. Numbered(M)
    BY <1>14, <1>15, <1>17 DEF Numbered
  <2>3. \A q \in Tab : seq[q] \in Nat /\ seq'[q] \in Nat /\ seq[q] <= seq'[q] /\ seq'[p] = s
    BY <1>5, <1>6, <1>8
  <2>4. \A x \in L : x.seq >= 1 /\ \E q \in Tab : x.author = Relay[q] /\ x.seq <= seq'[q]
    <3> TAKE x \in L
    <3>1. PICK q \in Tab : x.author = Relay[q] /\ x.seq <= seq[q]
      BY <1>14
    <3> QED BY <1>14, <2>3, <3>1
  <2>5. d.seq >= 1 /\ \E q \in Tab : d.author = Relay[q] /\ d.seq <= seq'[q]
    <3>1. s >= 1 /\ s <= seq'[p]
      BY <1>6, <1>8, <2>3
    <3> QED BY <1>11, <3>1
  <2> QED BY <1>17, <2>1, <2>2, <2>4, <2>5 DEF Logged
<1>19. InTime'
  <2>1. \A m \in Broadcast(p, "input", d) : m.sent = now /\ m.content = d
    BY <1>2, <1>6, BroadcastOK
  <2>2. \A m \in Broadcast(p, "input", d) : m.content.tick + 1 >= m.sent + MaxLatency["input"]
    BY <1>9, <1>11, <2>1
  <2> QED BY <1>2, <1>5, <2>2 DEF InTime
<1>20. Idle'
  BY <1>2, <1>5, <1>6 DEF Idle
<1>21. ASSUME NEW k \in whole
       PROVE  Waits(k, M, world[k].tick, scheduled'[k], InFlight(k)') /\ Past(k, M, world[k])
  <2>1. k \in Host /\ k \in hosting /\ world[k].tick \in Nat /\ world[k].tick <= now
    BY <1>6
  <2>2. Waits(k, L, world[k].tick, scheduled[k], InFlight(k)) /\ Past(k, L, world[k])
    BY <1>1 DEF Fed
  <2>3. d.tick >= world[k].tick
    BY <1>6, <1>9, <1>11, <2>1
  <2>4. Past(k, M, world[k])
    <3>1. ~(d.tick < world[k].tick)
      BY <1>9, <1>11, <2>1, <2>3
    <3>2. {x \in M : x.tick < world[k].tick} = {x \in L : x.tick < world[k].tick}
      BY <1>17, <3>1
    <3> QED BY <2>2, <3>2 DEF Past
  <2>5. PICK list, flight, tick : list = scheduled[k] /\ flight = InFlight(k) /\ tick = world[k].tick
    OBVIOUS
  <2>6. list \in Seq(Entry) /\ Waits(k, L, tick, list, flight) /\ d.tick >= tick
    BY <1>6, <2>1, <2>2, <2>3, <2>5
  <2>7. CASE k = p
    <3>1. Waits(k, M, tick, Append(list, View(k, d)), flight)
      BY <1>11, <1>14, <1>16, <1>17, <2>1, <2>6, MoreScheduled
    <3>2. scheduled'[k] = Append(list, View(k, d))
      BY <1>5, <1>6, <1>12, <2>5, <2>7
    <3>3. \A m \in Broadcast(p, "input", d) : m.to # p
      BY <1>2, <1>6, BroadcastOK
    <3>4. InFlight(k)' = flight
      BY <1>5, <2>5, <2>7, <3>3 DEF InFlight
    <3> QED BY <2>4, <2>5, <3>1, <3>2, <3>4
  <2>8. CASE k # p
    <3>1. PICK n : n = [to |-> k, from |-> Sender(p), sent |-> now, kind |-> "input", content |-> d]
      OBVIOUS
    <3>2. n.content = View(k, d) /\ n.to = k /\ n.kind = "input"
      BY <1>13, <2>1, <2>8, <3>1
    <3>3. Waits(k, M, tick, list, flight \cup {n})
      BY <1>11, <1>14, <1>16, <1>17, <2>1, <2>6, <3>2, MoreFlight
    <3>4. \A m \in Broadcast(p, "input", d) : m.to = k => m = n
      BY <3>1 DEF Broadcast
    <3>5. n \in Broadcast(p, "input", d)
      BY <2>1, <2>8, <3>1 DEF Broadcast
    <3>6. \A m \in Broadcast(p, "input", d) : m.kind = "input"
      BY <1>2, <1>6, BroadcastOK
    <3>7. InFlight(k)' = flight \cup {n}
      BY <1>5, <2>5, <3>2, <3>4, <3>5, <3>6 DEF InFlight
    <3>8. scheduled'[k] = list
      BY <1>5, <1>6, <2>1, <2>5, <2>8
    <3> QED BY <2>4, <2>5, <3>3, <3>7, <3>8
  <2> QED BY <2>7, <2>8
<1>22. Fed(M)'
  BY <1>5, <1>21 DEF Fed
<1> QED BY <1>3, <1>18, <1>19, <1>20, <1>22 DEF Agreeing

LEMMA EnsureAgrees ==
  ASSUME Agreeing, NEW h \in Host, Ensure(h)
  PROVE  Agreeing'
<1>1. PICK L : Logged(L) /\ Fed(L)
  BY DEF Agreeing
<1>2. HostsTyped /\ InTime /\ Idle
  BY DEF Agreeing
<1>3. HostsTyped'
  BY <1>2, EnsureTyped
<1>4. /\ h \notin hosting /\ hosting' = hosting \cup {h} /\ world' = [world EXCEPT ![h] = Fresh(now)]
      /\ whole' = IF \A p \in Tab : seq[p] = 0 THEN whole \cup {h} ELSE whole
      /\ now' = now /\ scheduled' = scheduled /\ seq' = seq /\ msgs' = msgs
  BY DEF Ensure
<1>5. /\ now \in Nat /\ hosting \in SUBSET Host /\ whole \in SUBSET hosting
      /\ world \in [Host -> World] /\ \A m \in msgs : Typed(m)
  BY <1>2, Constants DEF HostsTyped, Tables, Worlds, Mail
<1>6. Logged(L)' /\ InTime' /\ Idle'
  BY <1>1, <1>2, <1>4 DEF Logged, InTime, Idle
<1>7. ASSUME NEW k \in whole
      PROVE  Waits(k, L, world'[k].tick, scheduled'[k], InFlight(k)') /\ Past(k, L, world'[k])
  <2>1. world'[k] = world[k] /\ InFlight(k)' = InFlight(k)
    BY <1>4, <1>5 DEF InFlight
  <2> QED BY <1>1, <1>4, <2>1 DEF Fed
<1>8. ASSUME \A p \in Tab : seq[p] = 0
      PROVE  Waits(h, L, world'[h].tick, scheduled'[h], InFlight(h)') /\ Past(h, L, world'[h])
  <2>1. L = {}
    <3> SUFFICES ASSUME NEW e \in L PROVE FALSE
      OBVIOUS
    <3>1. e.seq \in Nat /\ e.seq >= 1 /\ \E p \in Tab : e.seq <= seq[p]
      BY <1>1 DEF Logged, Sent, Entry
    <3> QED BY <1>8, <3>1
  <2>2. scheduled'[h] = << >>
    BY <1>2, <1>4 DEF Idle
  <2>3. InFlight(h)' = {}
    BY <1>4, <1>5 DEF InFlight, Typed
  <2>4. world'[h] = Fresh(now)
    BY <1>4, <1>5
  <2>5. Waits(h, {}, Fresh(now).tick, << >>, {})
    BY DEF Waits, Apart
  <2>6. Past(h, {}, Fresh(now))
    <3>1. << >> \in Seq(Sent) /\ Sorted(<< >>) /\ ToSet(<< >>) = {}
      BY DEF Sorted, ToSet
    <3>2. Mirrors(h, Fresh(now), Fresh(0))
      BY DEF Mirrors, Fresh
    <3> QED BY <3>1, <3>2, RunNone DEF Past
  <2> QED BY <2>1, <2>2, <2>3, <2>4, <2>5, <2>6
<1>9. Fed(L)'
  <2>1. \A k \in whole' : k \in whole \/ (k = h /\ \A p \in Tab : seq[p] = 0)
    BY <1>4
  <2> QED BY <1>7, <1>8, <2>1 DEF Fed
<1> QED BY <1>3, <1>6, <1>9 DEF Agreeing

LEMMA ResumeAgrees ==
  ASSUME Agreeing, NEW h \in Host, Resume(h)
  PROVE  Agreeing'
<1>1. PICK L : Logged(L) /\ Fed(L)
  BY DEF Agreeing
<1>2. HostsTyped /\ InTime /\ Idle
  BY DEF Agreeing
<1>3. HostsTyped'
  BY <1>2, ResumeTyped
<1>4. PICK w \in {Imported(s, now) : s \in pending[h]} \cup {world[h]} :
        /\ world' = [world EXCEPT ![h] = w]
        /\ whole' = IF w = world[h] THEN whole ELSE whole \ {h}
        /\ msgs' = msgs \cup Snapshots(h, world[h].tick, w)
        /\ UNCHANGED <<now, hosting, scheduled, seq>>
  BY Zenon DEF Resume
<1>5. /\ hosting \in SUBSET Host /\ whole \in SUBSET hosting /\ world \in [Host -> World]
      /\ world[h].tick \in Nat /\ Fine(world[h])
  BY <1>2 DEF HostsTyped, Tables, Worlds, World
<1>6. \A m \in Snapshots(h, world[h].tick, w) : m.kind = "snapshot"
  <2>1. Fine(w)
    <3>1. CASE w = world[h]
      BY <1>5, <3>1
    <3>2. ASSUME NEW s \in pending[h], w = Imported(s, now) PROVE Fine(w)
      BY <1>2, <3>2, ImportedBase
    <3> QED BY <3>1, <3>2
  <2>2. PICK tick : tick = world[h].tick /\ tick \in Nat
    BY <1>5
  <2>3. \A m \in Snapshots(h, tick, w) : m.kind = "snapshot"
    BY <1>2, <2>1, <2>2, ShownOK
  <2> QED BY <2>2, <2>3
<1>7. Logged(L)' /\ InTime' /\ Idle'
  BY <1>1, <1>2, <1>4, <1>6 DEF Logged, InTime, Idle
<1>8. ASSUME NEW k \in whole'
      PROVE  Waits(k, L, world'[k].tick, scheduled'[k], InFlight(k)') /\ Past(k, L, world'[k])
  <2>1. k \in whole /\ world'[k] = world[k]
    BY <1>4, <1>5
  <2>2. InFlight(k)' = InFlight(k)
    BY <1>4, <1>6 DEF InFlight
  <2> QED BY <1>1, <1>4, <2>1, <2>2 DEF Fed
<1>9. Fed(L)'
  BY <1>8 DEF Fed
<1> QED BY <1>3, <1>7, <1>9 DEF Agreeing

LEMMA StillAgrees ==
  ASSUME Agreeing, HostsTyped', world' = world, scheduled' = scheduled, whole' = whole,
         hosting' = hosting, seq' = seq, msgs' = msgs
  PROVE  Agreeing'
<1>1. PICK L : Logged(L) /\ Fed(L)
  BY DEF Agreeing
<1>2. Logged(L)' /\ Fed(L)'
  BY <1>1 DEF Logged, Fed, InFlight
<1> QED BY <1>2 DEF Agreeing, InTime, Idle

LEMMA AgreeingStarts == HostsInit => Agreeing
<1> SUFFICES ASSUME HostsInit PROVE Agreeing
  OBVIOUS
<1>1. HostsTyped
  BY TypedStarts
<1>2. InTime /\ Idle
  BY DEF HostsInit, InTime, Idle
<1>3. Logged({}) /\ Fed({})
  BY DEF HostsInit, Logged, Fed, Numbered
<1> QED BY <1>1, <1>2, <1>3 DEF Agreeing

LEMMA AgreeingSteps ==
  ASSUME Prompt, Suffixed
  PROVE  Agreeing /\ [HostsNext]_hostvars => Agreeing'
<1> SUFFICES ASSUME Agreeing, [HostsNext]_hostvars PROVE Agreeing'
  OBVIOUS
<1>1. HostsTyped /\ HostsTyped'
  BY TypedSteps DEF Agreeing
<1>2. CASE Clock
  BY <1>1, <1>2, StillAgrees DEF Clock, engine
<1>3. ASSUME NEW h \in Host, Ensure(h) PROVE Agreeing'
  BY <1>3, EnsureAgrees
<1>4. ASSUME NEW h \in Host, Step(h) PROVE Agreeing'
  <2>1. PICK arrived \in Inbound(h) : Round(h, world[h], arrived, {})
    BY <1>4 DEF Step
  <2>2. h \in hosting /\ Fine(world[h]) /\ world[h].tick <= now
    BY <1>1, <1>4 DEF Step, HostsTyped, Worlds
  <2> QED BY <2>1, <2>2, RoundAgrees
<1>5. ASSUME NEW h \in Host, Resume(h) PROVE Agreeing'
  BY <1>5, ResumeAgrees
<1>6. ASSUME NEW p \in Host, TabFrame(p) PROVE Agreeing'
  <2>1. PICK arrived \in Inbound(p) :
          \/ Round(p, world[p], arrived, {})
          \/ \E s \in pending[p] : Round(p, Imported(s, now), arrived, {s})
    BY <1>6, Zenon DEF TabFrame
  <2>2. p \in hosting /\ Fine(world[p]) /\ world[p].tick <= now
    BY <1>1, <1>6 DEF TabFrame, HostsTyped, Worlds
  <2>3. CASE Round(p, world[p], arrived, {})
    BY <2>2, <2>3, RoundAgrees
  <2>4. ASSUME NEW s \in pending[p], Round(p, Imported(s, now), arrived, {s}) PROVE Agreeing'
    <3>1. Fine(Imported(s, now)) /\ Imported(s, now).tick <= now
      BY <1>1, ImportedBase
    <3> QED BY <2>2, <2>4, <3>1, RoundAgrees
  <2> QED BY <2>1, <2>3, <2>4
<1>7. ASSUME NEW p \in Tab, NEW kind \in {"Join", "Input"}, Submit(p, kind) PROVE Agreeing'
  BY <1>7, SubmitAgrees
<1>8. CASE UNCHANGED hostvars
  BY <1>1, <1>8, StillAgrees DEF hostvars, engine
<1> QED BY <1>2, <1>3, <1>4, <1>5, <1>6, <1>7, <1>8, Zenon DEF HostsNext

LEMMA AgreeingIsLockstep == Agreeing => Lockstep
<1> SUFFICES ASSUME Agreeing, NEW h \in whole, NEW k \in whole, world[h].tick = world[k].tick
             PROVE  state_hash(world[h]) = state_hash(world[k])
  BY DEF Lockstep
<1>1. PICK L : Logged(L) /\ Fed(L)
  BY DEF Agreeing
<1>2. PICK w, v : w = world[h] /\ v = world[k]
  OBVIOUS
<1>3. Past(h, L, w) /\ Past(k, L, v) /\ w.tick = v.tick
  BY <1>1, <1>2 DEF Fed
<1>4. PICK c \in Seq(Sent) : /\ Sorted(c) /\ ToSet(c) = {e \in L : e.tick < w.tick}
                             /\ Mirrors(h, w, Run(Fresh(0), c))
  BY <1>3 DEF Past
<1>5. PICK d \in Seq(Sent) : /\ Sorted(d) /\ ToSet(d) = {e \in L : e.tick < v.tick}
                             /\ Mirrors(k, v, Run(Fresh(0), d))
  BY <1>3 DEF Past
<1>6. c \in Seq(Entry) /\ d \in Seq(Entry) /\ ToSet(c) = ToSet(d)
  BY <1>3, <1>4, <1>5 DEF Sent
<1>7. c = d
  BY <1>4, <1>5, <1>6, SortedOnce
<1>8. PICK u : u = Run(Fresh(0), c)
  OBVIOUS
<1>9. Fine(u)
  BY <1>6, <1>8, FreshFine, RunFine
<1>10. /\ w.bodies = {ViewBody(h, b) : b \in u.bodies}
       /\ v.bodies = {ViewBody(k, b) : b \in u.bodies}
  BY <1>4, <1>5, <1>7, <1>8 DEF Mirrors
<1>11. \A b \in u.bodies : /\ ViewBody(h, b).id = b.id /\ ViewBody(h, b).acts = b.acts
                           /\ ViewBody(k, b).id = b.id /\ ViewBody(k, b).acts = b.acts
  <2>1. \A b \in u.bodies : b \in [owner : Id, id : Nat \ {0}, acts : Seq(Nat)]
    BY <1>9 DEF Fine, World, Body
  <2> QED BY <2>1 DEF ViewBody
<1> DEFINE Shown(b) == [id |-> b.id, acts |-> b.acts]
<1>12. \A b \in u.bodies : Shown(ViewBody(h, b)) = Shown(b) /\ Shown(ViewBody(k, b)) = Shown(b)
  BY <1>11
<1>13. state_hash(w) = [tick |-> w.tick, bodies |-> {Shown(b) : b \in w.bodies}]
  BY Zenon DEF state_hash
<1>14. state_hash(v) = [tick |-> v.tick, bodies |-> {Shown(b) : b \in v.bodies}]
  BY Zenon DEF state_hash
<1> HIDE DEF Shown
<1>15. {Shown(b) : b \in w.bodies} = {Shown(b) : b \in u.bodies}
  BY <1>10, <1>12
<1>16. {Shown(b) : b \in v.bodies} = {Shown(b) : b \in u.bodies}
  BY <1>10, <1>12
<1> QED BY <1>2, <1>3, <1>13, <1>14, <1>15, <1>16

\* Replicas that have simulated every tick since the first input agree, in
\* whatever order its inputs reached each and however their steps interleave
\* (replica.rs: advance_to and canonical_order; clock.rs: INPUT_DELAY), when an
\* input reaches every host in time and tabs sort as the relays they sit behind.
THEOREM ReplicasAgree ==
  ASSUME Prompt, Suffixed
  PROVE  HostsSpec => []HostsAgree
<1>1. HostsInit => Agreeing
  BY AgreeingStarts
<1>2. Agreeing /\ [HostsNext]_hostvars => Agreeing'
  BY AgreeingSteps
<1>3. Agreeing => HostsAgree
  BY AgreeingIsLockstep, TypedIsTypeOK DEF Agreeing, HostsAgree
<1> QED BY <1>1, <1>2, <1>3, PTL DEF HostsSpec

-----------------------------------------------------------------------------
(* Content hot reload. *)

USE HotReloadAssumption, NoneAssumption

-----------------------------------------------------------------------------
(* The inductive invariant. *)

\* The versions there have been.
Known == announced \cup {Boot, Bootstrap.active}

\* A registry serves a version that was published and is valid, and has staged
\* such a version, and a later one.
Sound(r) ==
  /\ r \in Registry
  /\ r.active \in Known /\ Validated(r.active.pack)
  /\ r.pending # None =>
       r.pending \in Known /\ Validated(r.pending.pack) /\ r.pending.epoch > r.active.epoch

Registries ==
  /\ zones \in [Node -> [Zone -> Registry \cup {None}]]
  /\ app \in [Client -> Registry]
  /\ \A n \in Node, z \in Zone : zones[n][z] # None => Sound(zones[n][z])
  /\ \A c \in Client : Sound(app[c])

Versions ==
  /\ version \in Version /\ version.epoch >= 1
  /\ announced \subseteq Version
  /\ held \in [Node -> Version] /\ (\A n \in Node : held[n] \in Known)
  /\ restarts \subseteq Node

\* Until it restarts the coordinator's version is the newest there is, and each
\* epoch was given to one pack.
Single ==
  Coordinator \notin restarts =>
    /\ \A v \in Known : v.epoch <= version.epoch
    /\ \A v, w \in Known : v.epoch = w.epoch => v = w

IInv == Versions /\ Registries /\ Single

-----------------------------------------------------------------------------
(* The registry. *)

LEMMA BootTypes ==
  /\ Boot \in Version /\ Boot.epoch = 1 /\ Validated(Boot.pack)
  /\ Bootstrap \in Registry /\ Bootstrap.active \in Version /\ Bootstrap.active.epoch = 0
  /\ Validated(Bootstrap.active.pack) /\ Bootstrap.pending = None
  BY DEF Boot, Bootstrap, EmptyPack, Version, Registry, Validated

LEMMA KnownTypes ==
  ASSUME announced \subseteq Version
  PROVE  Known \subseteq Version
  BY BootTypes DEF Known

LEMMA BootstrapSound == Sound(Bootstrap)
  BY BootTypes DEF Sound, Known

LEMMA OpenedSound ==
  ASSUME announced \subseteq Version, NEW v \in Known
  PROVE  Sound(Opened(v)) /\ Opened(v) # None
<1>1. v \in Version BY KnownTypes
<1>2. CASE Validated(v.pack)
  <2>1. Opened(v) = [active |-> v, pending |-> None] BY <1>2 DEF Opened
  <2>2. Opened(v) \in Registry BY <2>1, <1>1 DEF Registry
  <2> QED BY <2>1, <2>2, <1>2 DEF Sound
<1>3. CASE ~ Validated(v.pack)
  <2>1. Opened(v) = Bootstrap BY <1>3 DEF Opened
  <2> QED BY <2>1, BootstrapSound DEF Sound
<1> QED BY <1>2, <1>3

\* ContentRegistry::stage keeps what is served.
LEMMA StagedSound ==
  ASSUME announced \subseteq Version, NEW r, Sound(r), NEW v \in Known
  PROVE  Sound(Staged(r, v)) /\ Staged(r, v) # None /\ Staged(r, v).active = r.active
<1>1. v \in Version /\ r \in Registry /\ v # None BY KnownTypes DEF Sound
<1>2. CASE v.epoch <= r.active.epoch \/ ~ Validated(v.pack)
  <2>1. Staged(r, v) = r BY <1>2 DEF Staged
  <2> QED BY <2>1, <1>1
<1>3. CASE ~ (v.epoch <= r.active.epoch \/ ~ Validated(v.pack))
  <2> DEFINE s == [r EXCEPT !.pending = v]
  <2>1. Staged(r, v) = s BY <1>3 DEF Staged
  <2>2. s \in Registry /\ s.active = r.active /\ s.pending = v BY <1>1 DEF Registry
  <2>3. v.epoch > r.active.epoch BY <1>1, <1>3 DEF Registry, Version
  <2> QED BY <2>1, <2>2, <2>3, <1>3 DEF Sound
<1> QED BY <1>2, <1>3

\* ContentRegistry::apply_pending moves forward, if at all.
LEMMA AppliedSound ==
  ASSUME NEW r, Sound(r)
  PROVE  /\ Sound(Applied(r)) /\ Applied(r) # None
         /\ \/ Applied(r).active = r.active
            \/ Applied(r).active \in Known /\ Applied(r).active.epoch > r.active.epoch
<1>1. CASE r.pending = None
  <2>1. Applied(r) = r BY <1>1 DEF Applied
  <2> QED BY <2>1 DEF Sound
<1>2. CASE r.pending # None
  <2> DEFINE s == [active |-> r.pending, pending |-> None]
  <2>1. Applied(r) = s BY <1>2 DEF Applied
  <2>2. s \in Registry /\ s.active = r.pending /\ s.pending = None BY <1>2 DEF Sound, Registry
  <2> QED BY <2>1, <2>2, <1>2 DEF Sound
<1> QED BY <1>1, <1>2

\* What was sound stays so as more is published.
LEMMA SoundGrows ==
  ASSUME NEW r, Sound(r), announced \subseteq announced'
  PROVE  Sound(r)'
  BY DEF Sound, Known, Boot, Bootstrap, Validated, Registry, Version

-----------------------------------------------------------------------------
(* The invariant is inductive. *)

LEMMA InitInv == Init => IInv
<1> SUFFICES ASSUME Init PROVE IInv OBVIOUS
<1>1. Versions BY BootTypes DEF Init, Versions, Known
<1>2. Registries BY BootstrapSound, BootTypes DEF Init, Registries
<1>3. Single BY BootTypes DEF Init, Single, Known
<1> QED BY <1>1, <1>2, <1>3 DEF IInv

\* A step that publishes nothing, and moves no coordinator.
LEMMA KeepSingle ==
  ASSUME Single, announced' = announced, version' = version, restarts \subseteq restarts'
  PROVE  Single'
  BY DEF Single, Known, Boot, Bootstrap

LEMMA PublishInv == IInv /\ Publish => IInv'
<1> SUFFICES ASSUME IInv, Publish PROVE IInv' OBVIOUS
<1> USE DEF IInv
<1>1. PICK p \in Pack : version' = Bumped(version, p) /\ announced' = announced \cup {version'}
  BY DEF Publish
<1>2. /\ version' \in Version /\ version'.epoch = version.epoch + 1
      /\ version.epoch \in Nat /\ version.epoch >= 1
  BY <1>1 DEF Publish, Versions, Version, Bumped
<1>3. Known' = Known \cup {version'} BY <1>1 DEF Known, Boot, Bootstrap
<1>4. Versions'
  BY <1>1, <1>2, <1>3 DEF Publish, Versions, Version
<1>5. Registries'
  <2>1. announced \subseteq announced' BY <1>1
  <2>2. ASSUME NEW n \in Node, NEW z \in Zone, zones[n][z] # None PROVE Sound(zones[n][z])'
    BY <2>1, <2>2, SoundGrows DEF Registries, Publish
  <2>3. ASSUME NEW c \in Client PROVE Sound(app[c])'
    BY <2>1, <2>3, SoundGrows DEF Registries, Publish
  <2> QED BY <2>2, <2>3 DEF Registries, Publish, Registry, Version
<1>6. Single'
  <2> SUFFICES ASSUME Coordinator \notin restarts
               PROVE  /\ \A v \in Known' : v.epoch <= version'.epoch
                      /\ \A v, w \in Known' : v.epoch = w.epoch => v = w
    BY DEF Publish, Single
  <2>1. \A v \in Known : v.epoch <= version.epoch /\ v.epoch \in Nat
    BY KnownTypes DEF Single, Versions, Version
  <2>2. \A v \in Known : v.epoch <= version'.epoch /\ v.epoch # version'.epoch BY <2>1, <1>2
  <2>3. \A v, w \in Known : v.epoch = w.epoch => v = w BY DEF Single
  <2> QED BY <2>2, <2>3, <1>2, <1>3
<1> QED BY <1>4, <1>5, <1>6

LEMMA StageContentInv ==
  ASSUME IInv, NEW n \in Node, NEW v \in announced, StageContent(n, v)
  PROVE  IInv'
<1> USE DEF IInv
<1>1. announced \subseteq Version /\ v \in Known /\ v \in Version BY DEF Versions, Known
<1>2. Known' = Known BY DEF StageContent, Known, Boot, Bootstrap
<1>3. Versions' BY <1>1, <1>2 DEF StageContent, Versions
<1>4. Registries'
  <2>1. \A z \in Zone : zones'[n][z] =
          IF zones[n][z] = None THEN None ELSE Staged(zones[n][z], v)
    BY DEF StageContent, Registries, Restaged
  <2>2. \A m \in Node : m # n => zones'[m] = zones[m] BY DEF StageContent, Registries
  <2>3. ASSUME NEW m \in Node, NEW z \in Zone, zones'[m][z] # None PROVE Sound(zones'[m][z])
    <3>1. CASE m = n
      <4>1. zones[n][z] # None /\ zones'[n][z] = Staged(zones[n][z], v) BY <3>1, <2>1, <2>3
      <4>2. Sound(zones[n][z]) BY <4>1 DEF Registries
      <4> QED BY <3>1, <4>1, <4>2, <1>1, StagedSound
    <3>2. CASE m # n BY <3>2, <2>2, <2>3 DEF Registries
    <3> QED BY <3>1, <3>2
  <2>4. zones' \in [Node -> [Zone -> Registry \cup {None}]]
    <3>1. \A z \in Zone : zones[n][z] # None => Staged(zones[n][z], v) \in Registry
      BY <1>1, StagedSound DEF Registries, Sound
    <3>2. Restaged(n, v) \in [Zone -> Registry \cup {None}] BY <3>1 DEF Restaged
    <3> QED BY <3>2 DEF StageContent, Registries
  <2>5. \A c \in Client : Sound(app'[c]) BY DEF StageContent, Registries
  <2>6. app' \in [Client -> Registry] BY DEF StageContent, Registries
  <2>7. \A r : Sound(r)' <=> Sound(r)
    BY <1>2 DEF Sound, Registry, Version, Validated
  <2>8. Registry' = Registry BY DEF Registry, Version
  <2> QED BY <2>3, <2>4, <2>5, <2>6, <2>7, <2>8 DEF Registries
<1>5. Single' BY KeepSingle DEF StageContent
<1> QED BY <1>3, <1>4, <1>5

LEMMA ZoneInv ==
  ASSUME IInv, NEW n \in Node, NEW z \in Zone, EnsureZone(n, z) \/ RetireZone(n, z)
  PROVE  IInv'
<1> USE DEF IInv
<1>1. Known' = Known /\ Versions'
  BY DEF EnsureZone, RetireZone, Known, Boot, Bootstrap, Versions, Version
<1>2. PICK r \in Registry \cup {None} :
        zones' = [zones EXCEPT ![n][z] = r] /\ (r # None => Sound(r))
  <2>1. CASE EnsureZone(n, z)
    BY <2>1, OpenedSound DEF EnsureZone, Versions, Sound
  <2>2. CASE RetireZone(n, z) BY <2>2 DEF RetireZone
  <2> QED BY <2>1, <2>2
<1>3. zones' \in [Node -> [Zone -> Registry \cup {None}]] BY <1>2 DEF Registries
<1>4. \A m \in Node, y \in Zone : zones'[m][y] = zones[m][y] \/ zones'[m][y] = r
  BY <1>2 DEF Registries
<1>5. app' = app /\ announced' = announced /\ version' = version /\ restarts' = restarts
  BY DEF EnsureZone, RetireZone
<1>6. \A m \in Node, y \in Zone : zones'[m][y] # None => Sound(zones'[m][y])
  BY <1>2, <1>4 DEF Registries
<1>7. Registries'
  BY <1>1, <1>3, <1>5, <1>6 DEF Registries, Sound, Registry, Version, Validated
<1>8. Single' BY <1>5, KeepSingle
<1> QED BY <1>1, <1>7, <1>8

LEMMA TickInv ==
  ASSUME IInv, NEW n \in Node, Tick(n)
  PROVE  IInv'
<1> USE DEF IInv
<1>1. Known' = Known /\ Versions' BY DEF Tick, Known, Boot, Bootstrap, Versions, Version
<1>2. \A z \in Zone : zones'[n][z] =
        IF zones[n][z] = None THEN None ELSE Applied(zones[n][z])
  BY DEF Tick, Registries
<1>3. \A m \in Node : m # n => zones'[m] = zones[m] BY DEF Tick, Registries
<1>4. \A z \in Zone : zones[n][z] # None => Sound(Applied(zones[n][z]))
  BY AppliedSound DEF Registries
<1>5. zones' \in [Node -> [Zone -> Registry \cup {None}]]
  <2>1. [z \in Zone |-> IF zones[n][z] = None THEN None ELSE Applied(zones[n][z])]
          \in [Zone -> Registry \cup {None}]
    BY <1>4 DEF Sound
  <2> QED BY <2>1 DEF Tick, Registries
<1>6. \A m \in Node, z \in Zone : zones'[m][z] # None => Sound(zones'[m][z])
  BY <1>2, <1>3, <1>4 DEF Registries
<1>7. Registries'
  <2>1. app' \in [Client -> Registry] /\ \A c \in Client : Sound(app'[c])
    BY DEF Tick, Registries
  <2>2. \A r : Sound(r)' <=> Sound(r)
    BY <1>1 DEF Sound, Registry, Version, Validated
  <2>3. Registry' = Registry BY DEF Registry, Version
  <2> QED BY <1>5, <1>6, <2>1, <2>2, <2>3 DEF Registries
<1>8. Single' BY KeepSingle DEF Tick
<1> QED BY <1>1, <1>7, <1>8

LEMMA RestartInv ==
  ASSUME IInv, NEW n \in Node, Restart(n)
  PROVE  IInv'
<1> USE DEF IInv
<1>1. Known' = Known BY DEF Restart, Known, Boot, Bootstrap
<1>2. Boot \in Known BY DEF Known
<1>3. Versions' BY <1>1, <1>2, BootTypes DEF Restart, Versions
<1>4. zones' \in [Node -> [Zone -> Registry \cup {None}]]
  <2>1. zones' = [zones EXCEPT ![n] = [z \in Zone |-> None]] BY DEF Restart
  <2>2. [z \in Zone |-> None] \in [Zone -> Registry \cup {None}] OBVIOUS
  <2> QED BY <2>1, <2>2 DEF Registries
<1>5. \A m \in Node, z \in Zone : zones'[m][z] # None => zones'[m][z] = zones[m][z]
  BY DEF Restart, Registries
<1>6. \A m \in Node, z \in Zone : zones'[m][z] # None => Sound(zones'[m][z])
  BY <1>5 DEF Registries
<1>7. Registries'
  BY <1>1, <1>4, <1>6 DEF Restart, Registries, Sound, Registry, Version, Validated
<1>8. Single'
  <2>1. CASE n = Coordinator BY <2>1 DEF Restart, Single
  <2>2. CASE n # Coordinator BY <2>2, KeepSingle DEF Restart
  <2> QED BY <2>1, <2>2
<1> QED BY <1>3, <1>7, <1>8

LEMMA ClientInv ==
  ASSUME IInv, NEW c \in Client,
         (\E v \in announced : OnContentVersion(c, v)) \/ Frame(c)
  PROVE  IInv'
<1> USE DEF IInv
<1>1. Known' = Known /\ Versions'
  BY DEF OnContentVersion, Frame, Known, Boot, Bootstrap, Versions, Version
<1>2. PICK r : app' = [app EXCEPT ![c] = r] /\ Sound(r)
  <2>1. Sound(app[c]) /\ announced \subseteq Version BY DEF Registries, Versions
  <2>2. CASE Frame(c) BY <2>1, <2>2, AppliedSound DEF Frame
  <2>3. ASSUME NEW v \in announced, OnContentVersion(c, v)
        PROVE  app' = [app EXCEPT ![c] = Staged(app[c], v)] /\ Sound(Staged(app[c], v))
    BY <2>1, <2>3, StagedSound DEF OnContentVersion, Known
  <2> QED BY <2>2, <2>3
<1>3. app' \in [Client -> Registry] BY <1>2 DEF Registries, Sound
<1>4. \A d \in Client : Sound(app'[d]) BY <1>2 DEF Registries
<1>5. zones' = zones /\ announced' = announced /\ version' = version /\ restarts' = restarts
  BY DEF OnContentVersion, Frame
<1>6. Registries'
  BY <1>1, <1>3, <1>4, <1>5 DEF Registries, Sound, Registry, Version, Validated
<1>7. Single' BY <1>5, KeepSingle
<1> QED BY <1>1, <1>6, <1>7

LEMMA NextInv == IInv /\ [Next]_vars => IInv'
<1> SUFFICES ASSUME IInv, [Next]_vars PROVE IInv' OBVIOUS
<1>1. CASE Publish BY <1>1, PublishInv
<1>2. CASE \E n \in Node, v \in announced : StageContent(n, v) BY <1>2, StageContentInv
<1>3. CASE \E n \in Node, z \in Zone : EnsureZone(n, z) \/ RetireZone(n, z) BY <1>3, ZoneInv
<1>4. CASE \E n \in Node : Tick(n) \/ Restart(n) BY <1>4, TickInv, RestartInv
<1>5. CASE \E c \in Client, v \in announced : OnContentVersion(c, v) BY <1>5, ClientInv
<1>6. CASE \E c \in Client : Frame(c) BY <1>6, ClientInv
<1>7. CASE UNCHANGED vars
  BY <1>7 DEF vars, IInv, Versions, Registries, Single, Sound, Known, Boot, Bootstrap,
              Validated, Registry, Version
<1> QED BY <1>1, <1>2, <1>3, <1>4, <1>5, <1>6, <1>7 DEF Next

LEMMA Inductive == Spec => []IInv
  BY InitInv, NextInv, PTL DEF Spec

-----------------------------------------------------------------------------
(* The theorems. *)

LEMMA InvTypes == IInv => TypeOK
  BY DEF IInv, Versions, Registries, TypeOK

\* What is served is known and valid, whatever serves it.
LEMMA ServedKnown ==
  ASSUME IInv
  PROVE  \A v \in Served : v \in Known /\ Validated(v.pack)
  BY DEF IInv, Registries, Sound, Served

\* A pack that fails validation plays nowhere, however many zones open on a node
\* that holds one (ContentRegistry::new, stage and bootstrap).
THEOREM BrokenStaysOut == Spec => []BrokenNeverPlays
<1>1. IInv => BrokenNeverPlays BY ServedKnown DEF BrokenNeverPlays
<1> QED BY <1>1, Inductive, PTL

\* As long as the coordinator lives an epoch names one pack, for everyone
\* (Coordinator::publish_content).
THEOREM EpochsNamePacks == Spec => [](TypeOK /\ OnePackPerEpoch)
<1>1. IInv => OnePackPerEpoch
  <2> SUFFICES ASSUME IInv, Coordinator \notin restarts,
                      NEW v \in Served \cup {held[n] : n \in Node},
                      NEW w \in Served \cup {held[n] : n \in Node},
                      v.epoch = w.epoch
               PROVE  v = w
    BY DEF OnePackPerEpoch
  <2>1. \A u \in Served \cup {held[n] : n \in Node} : u \in Known
    BY ServedKnown DEF IInv, Versions
  <2> QED BY <2>1 DEF IInv, Single
<1> QED BY <1>1, InvTypes, Inductive, PTL

\* The step of a zone, or of a client, keeps what it serves or moves it forward.
Forward(n, z) ==
  zones[n][z] # None /\ zones'[n][z] # None =>
    \/ zones'[n][z].active = zones[n][z].active
    \/ /\ zones'[n][z].active \in Known
       /\ zones'[n][z].active.epoch > zones[n][z].active.epoch

Onward(c) ==
  \/ app'[c].active = app[c].active
  \/ app'[c].active \in Known /\ app'[c].active.epoch > app[c].active.epoch

LEMMA ZonesForward ==
  ASSUME IInv, [Next]_vars, NEW n \in Node, NEW z \in Zone
  PROVE  Forward(n, z)
<1> USE DEF IInv, Forward
<1>1. CASE zones' = zones BY <1>1
<1>2. ASSUME NEW m \in Node, NEW v \in announced, StageContent(m, v) PROVE Forward(n, z)
  <2>1. zones'[n][z] = zones[n][z] \/ zones'[n][z] = Staged(zones[n][z], v)
    BY <1>2 DEF StageContent, Restaged, Registries
  <2>2. zones[n][z] # None => Sound(zones[n][z]) BY DEF Registries
  <2> QED BY <1>2, <2>1, <2>2, StagedSound DEF Versions, Known
<1>3. ASSUME NEW m \in Node, NEW y \in Zone, EnsureZone(m, y) \/ RetireZone(m, y)
      PROVE Forward(n, z)
  BY <1>3 DEF EnsureZone, RetireZone, Registries
<1>4. ASSUME NEW m \in Node, Tick(m) PROVE Forward(n, z)
  <2>1. zones[n][z] # None =>
          zones'[n][z] = zones[n][z] \/ zones'[n][z] = Applied(zones[n][z])
    <3>1. zones' = [zones EXCEPT ![m] =
             [y \in Zone |-> IF zones[m][y] = None THEN None ELSE Applied(zones[m][y])]]
      BY <1>4 DEF Tick
    <3>2. n \in DOMAIN zones BY DEF Registries
    <3> HIDE DEF IInv
    <3> QED BY <3>1, <3>2
  <2>2. zones[n][z] # None => Sound(zones[n][z]) BY DEF Registries
  <2> QED BY <2>1, <2>2, AppliedSound
<1>5. ASSUME NEW m \in Node, Restart(m) PROVE Forward(n, z)
  BY <1>5 DEF Restart, Registries
<1>6. CASE Publish BY <1>6, <1>1 DEF Publish
<1>7. ASSUME NEW c \in Client, (\E v \in announced : OnContentVersion(c, v)) \/ Frame(c)
      PROVE Forward(n, z)
  BY <1>7, <1>1 DEF OnContentVersion, Frame
<1>8. CASE UNCHANGED vars BY <1>8, <1>1 DEF vars
<1> QED BY <1>2, <1>3, <1>4, <1>5, <1>6, <1>7, <1>8 DEF Next

LEMMA ClientsOnward ==
  ASSUME IInv, [Next]_vars, NEW c \in Client
  PROVE  Onward(c)
<1> USE DEF IInv, Onward
<1>1. CASE app' = app BY <1>1
<1>2. ASSUME NEW d \in Client, NEW v \in announced, OnContentVersion(d, v) PROVE Onward(c)
  <2>1. app'[c] = app[c] \/ app'[c] = Staged(app[c], v)
    BY <1>2 DEF OnContentVersion, Registries
  <2>2. Sound(app[c]) BY DEF Registries
  <2> QED BY <1>2, <2>1, <2>2, StagedSound DEF Versions, Known
<1>3. ASSUME NEW d \in Client, Frame(d) PROVE Onward(c)
  <2>1. app'[c] = app[c] \/ app'[c] = Applied(app[c])
    BY <1>3 DEF Frame, Registries
  <2>2. Sound(app[c]) BY DEF Registries
  <2> QED BY <2>1, <2>2, AppliedSound
<1>4. CASE ~ \E d \in Client : Frame(d) \/ \E v \in announced : OnContentVersion(d, v)
  <2>1. app' = app
    BY <1>4 DEF Next, vars, Publish, StageContent, EnsureZone, RetireZone, Tick, Restart
  <2> QED BY <2>1, <1>1
<1> QED BY <1>2, <1>3, <1>4

\* Zones that run and clients only move forward.
THEOREM ContentMovesOn == Spec => OnlyForward
<1>1. IInv /\ [Next]_vars =>
        [ /\ \A n \in Node, z \in Zone :
              zones[n][z] # None /\ zones'[n][z] # None /\ zones'[n][z].active # zones[n][z].active
                => zones'[n][z].active.epoch > zones[n][z].active.epoch
          /\ \A c \in Client :
              app'[c].active # app[c].active => app'[c].active.epoch > app[c].active.epoch
        ]_vars
  BY ZonesForward, ClientsOnward DEF Forward, Onward
<1> QED BY <1>1, Inductive, PTL DEF Spec, OnlyForward

-----------------------------------------------------------------------------
(* The refinement. *)

Seen == AbstractServing

LEMMA SeenZone ==
  ASSUME NEW n \in Node, NEW z \in Zone
  PROVE  /\ Seen[<<n, z>>] = IF zones[n][z] = None THEN None ELSE zones[n][z].active
         /\ Seen'[<<n, z>>] = IF zones'[n][z] = None THEN None ELSE zones'[n][z].active
<1>1. <<n, z>> \in Place /\ <<n, z>> \notin Client BY DEF Place
<1> QED BY <1>1 DEF Seen, AbstractServing

LEMMA SeenClient ==
  ASSUME NEW c \in Client
  PROVE  Seen[c] = app[c].active /\ Seen'[c] = app'[c].active
<1>1. c \in Place BY DEF Place
<1> QED BY <1>1 DEF Seen, AbstractServing

LEMMA SeenPlaces ==
  ASSUME NEW p \in Place
  PROVE  p \in Client \/ \E n \in Node, z \in Zone : p = <<n, z>>
  BY DEF Place

\* Every place serves a known version, or does not run.
LEMMA SeenTypes == IInv => Seen \in [Place -> Known \cup {None}]
<1> SUFFICES ASSUME IInv PROVE Seen \in [Place -> Known \cup {None}] OBVIOUS
<1>1. Seen = [p \in Place |-> Seen[p]] BY DEF Seen, AbstractServing
<1>2. ASSUME NEW p \in Place PROVE Seen[p] \in Known \cup {None}
  <2>1. CASE p \in Client BY <2>1, SeenClient DEF IInv, Registries, Sound
  <2>2. ASSUME NEW n \in Node, NEW z \in Zone, p = <<n, z>>
        PROVE Seen[p] \in Known \cup {None}
    BY <2>2, SeenZone DEF IInv, Registries, Sound
  <2> QED BY <2>1, <2>2, SeenPlaces
<1> QED BY <1>1, <1>2

LEMMA SeenTypesNext == IInv' => Seen' \in [Place -> Known' \cup {None}]
<1> SUFFICES ASSUME IInv' PROVE Seen' \in [Place -> Known' \cup {None}] OBVIOUS
<1>1. Seen' = [p \in Place |-> Seen'[p]] BY DEF Seen, AbstractServing
<1>2. ASSUME NEW p \in Place PROVE Seen'[p] \in Known' \cup {None}
  <2>1. CASE p \in Client BY <2>1, SeenClient DEF IInv, Registries, Sound
  <2>2. ASSUME NEW n \in Node, NEW z \in Zone, p = <<n, z>>
        PROVE Seen'[p] \in Known' \cup {None}
    BY <2>2, SeenZone DEF IInv, Registries, Sound
  <2> QED BY <2>1, <2>2, SeenPlaces
<1> QED BY <1>1, <1>2

\* Steps that leave every place as it is.
LEMMA SameSeen ==
  ASSUME IInv,
         \A n \in Node, z \in Zone :
            /\ zones'[n][z] = None <=> zones[n][z] = None
            /\ zones[n][z] # None => zones'[n][z].active = zones[n][z].active,
         \A c \in Client : app'[c].active = app[c].active
  PROVE  Seen' = Seen
<1>1. ASSUME NEW p \in Place PROVE Seen'[p] = Seen[p]
  <2>1. CASE p \in Client BY <2>1, SeenClient
  <2>2. ASSUME NEW n \in Node, NEW z \in Zone, p = <<n, z>> PROVE Seen'[p] = Seen[p]
    BY <2>2, SeenZone
  <2> QED BY <2>1, <2>2, SeenPlaces
<1> QED BY <1>1 DEF Seen, AbstractServing

LEMMA RefinesInit == Init => Swaps!Init
<1> SUFFICES ASSUME Init PROVE Swaps!Init OBVIOUS
<1>1. announced \cup {Boot, Bootstrap.active} = {Boot, Bootstrap.active} BY DEF Init
<1>2. ASSUME NEW p \in Place PROVE Seen[p] \in {Boot, Bootstrap.active} \cup {None}
  <2>1. CASE p \in Client BY <2>1, SeenClient DEF Init
  <2>2. ASSUME NEW n \in Node, NEW z \in Zone, p = <<n, z>>
        PROVE Seen[p] \in {Boot, Bootstrap.active} \cup {None}
    BY <2>2, SeenZone DEF Init
  <2> QED BY <2>1, <2>2, SeenPlaces
<1>3. Seen \in [Place -> {Boot, Bootstrap.active} \cup {None}]
  BY <1>2 DEF Seen, AbstractServing
<1> QED BY <1>1, <1>3 DEF Swaps!Init, Seen

\* A step of the session is a step of the promise, or none.
LEMMA RefinesPublish ==
  ASSUME IInv, IInv', Publish PROVE Swaps!Publish
<1>1. Seen' = Seen BY SameSeen DEF Publish
<1>2. version' \in Version BY DEF IInv, Versions
<1>3. (announced \cup {Boot, Bootstrap.active})'
        = (announced \cup {Boot, Bootstrap.active}) \cup {version'}
  BY DEF Publish, Boot, Bootstrap
<1> QED BY <1>1, <1>2, <1>3 DEF Swaps!Publish, Seen

LEMMA SamePublished ==
  ASSUME announced' = announced
  PROVE  Known' = Known /\ (announced \cup {Boot, Bootstrap.active})' = announced \cup {Boot, Bootstrap.active}
  BY DEF Known, Boot, Bootstrap

\* A step in which places stay or move forward is a swap.
LEMMA RefinesSwap ==
  ASSUME IInv, IInv', [Next]_vars, announced' = announced,
         \A n \in Node, z \in Zone : zones'[n][z] = None <=> zones[n][z] = None
  PROVE  Swaps!Swap
<1>1. Seen' \in [Place -> Known \cup {None}] BY SeenTypesNext, SamePublished
<1>2. ASSUME NEW p \in Place
      PROVE  \/ Seen'[p] = Seen[p]
             \/ Seen[p] # None /\ Seen'[p] \in Known /\ Seen'[p].epoch > Seen[p].epoch
  <2>1. CASE p \in Client
    <3>1. app[p].active # None BY <2>1 DEF IInv, Registries, Registry
    <3> QED BY <2>1, <3>1, SeenClient, ClientsOnward DEF Onward
  <2>2. ASSUME NEW n \in Node, NEW z \in Zone, p = <<n, z>>
        PROVE  \/ Seen'[p] = Seen[p]
               \/ Seen[p] # None /\ Seen'[p] \in Known /\ Seen'[p].epoch > Seen[p].epoch
    <3>1. CASE zones[n][z] = None BY <3>1, <2>2, SeenZone
    <3>2. CASE zones[n][z] # None
      <4>1. zones'[n][z] # None BY <3>2
      <4>2. zones[n][z].active # None BY <3>2 DEF IInv, Registries, Registry
      <4> QED BY <3>2, <4>1, <4>2, <2>2, SeenZone, ZonesForward DEF Forward
    <3> QED BY <3>1, <3>2
  <2> QED BY <2>1, <2>2, SeenPlaces
<1> QED BY <1>1, <1>2, SamePublished DEF Swaps!Swap, Swaps!Later, Seen, Known

LEMMA RefinesZone ==
  ASSUME IInv, IInv', NEW n \in Node, NEW z \in Zone, EnsureZone(n, z) \/ RetireZone(n, z)
  PROVE  Swaps!Open \/ Swaps!Close
<1>1. announced' = announced BY DEF EnsureZone, RetireZone
<1>2. ASSUME NEW p \in Place, p # <<n, z>> PROVE Seen'[p] = Seen[p]
  <2>1. CASE p \in Client BY <2>1, SeenClient DEF EnsureZone, RetireZone
  <2>2. ASSUME NEW m \in Node, NEW y \in Zone, p = <<m, y>> PROVE Seen'[p] = Seen[p]
    <3>1. zones'[m][y] = zones[m][y]
      BY <1>2, <2>2 DEF EnsureZone, RetireZone, IInv, Registries
    <3> QED BY <3>1, <2>2, SeenZone
  <2> QED BY <2>1, <2>2, SeenPlaces
<1>3. <<n, z>> \in Place BY DEF Place
<1>4. Seen' \in [Place -> Known \cup {None}] BY <1>1, SeenTypesNext, SamePublished
<1>5. CASE EnsureZone(n, z)
  <2>1. zones[n][z] = None /\ zones'[n][z] # None
    <3>1. Opened(held[n]) # None BY OpenedSound DEF IInv, Versions
    <3> QED BY <1>5, <3>1 DEF EnsureZone, IInv, Registries
  <2>2. Seen[<<n, z>>] = None BY <2>1, SeenZone
  <2>3. Seen'[<<n, z>>] \in Known
    BY <2>1, <1>1, SeenZone, SamePublished DEF IInv, Registries, Sound
  <2>4. Seen' = [Seen EXCEPT ![<<n, z>>] = Seen'[<<n, z>>]]
    <3>1. Seen' = [p \in Place |-> IF p = <<n, z>> THEN Seen'[<<n, z>>] ELSE Seen[p]]
      BY <1>2, <1>4
    <3>2. Seen = [p \in Place |-> Seen[p]] BY DEF Seen, AbstractServing
    <3> HIDE DEF Seen
    <3> QED BY <3>1, <3>2
  <2> QED BY <1>1, <1>3, <2>2, <2>3, <2>4, SamePublished DEF Swaps!Open, Seen, Known
<1>6. CASE RetireZone(n, z)
  <2>1. zones'[n][z] = None BY <1>6 DEF RetireZone, IInv, Registries
  <2>2. Seen'[<<n, z>>] = None BY <2>1, SeenZone
  <2> QED BY <1>1, <1>2, <1>4, <2>2, SamePublished DEF Swaps!Close, Seen, Known
<1> QED BY <1>5, <1>6

LEMMA RefinesRestart ==
  ASSUME IInv, IInv', NEW n \in Node, Restart(n)
  PROVE  Swaps!Close
<1>1. announced' = announced BY DEF Restart
<1>2. Seen' \in [Place -> Known \cup {None}] BY <1>1, SeenTypesNext, SamePublished
<1>3. ASSUME NEW p \in Place PROVE Seen'[p] = Seen[p] \/ Seen'[p] = None
  <2>1. CASE p \in Client BY <2>1, SeenClient DEF Restart
  <2>2. ASSUME NEW m \in Node, NEW y \in Zone, p = <<m, y>>
        PROVE Seen'[p] = Seen[p] \/ Seen'[p] = None
    <3>1. zones'[m][y] = zones[m][y] \/ zones'[m][y] = None BY DEF Restart, IInv, Registries
    <3> QED BY <3>1, <2>2, SeenZone
  <2> QED BY <2>1, <2>2, SeenPlaces
<1> QED BY <1>1, <1>2, <1>3, SamePublished DEF Swaps!Close, Seen, Known

LEMMA RefinesStutter ==
  ASSUME announced' = announced, Seen' = Seen
  PROVE  UNCHANGED <<announced \cup {Boot, Bootstrap.active}, AbstractServing>>
  BY SamePublished DEF Seen

LEMMA RefinesNext ==
  IInv /\ IInv' /\ [Next]_vars =>
    [Swaps!Next]_<<announced \cup {Boot, Bootstrap.active}, AbstractServing>>
<1> SUFFICES ASSUME IInv, IInv', [Next]_vars
             PROVE  Swaps!Next \/ UNCHANGED <<announced \cup {Boot, Bootstrap.active}, AbstractServing>>
  OBVIOUS
<1>1. CASE Publish BY <1>1, RefinesPublish DEF Swaps!Next
<1>2. ASSUME NEW n \in Node, NEW v \in announced, StageContent(n, v) PROVE Swaps!Swap
  <2>1. \A m \in Node, z \in Zone : zones'[m][z] = None <=> zones[m][z] = None
    <3>1. \A z \in Zone : zones[n][z] # None => Staged(zones[n][z], v) # None
      BY StagedSound DEF IInv, Registries, Versions, Known
    <3>2. ASSUME NEW m \in Node, NEW z \in Zone
          PROVE  zones'[m][z] = IF m = n /\ zones[n][z] # None THEN Staged(zones[n][z], v)
                               ELSE zones[m][z]
      BY <1>2 DEF StageContent, Restaged, IInv, Registries
    <3> QED BY <3>1, <3>2
  <2> QED BY <1>2, <2>1, RefinesSwap DEF StageContent
<1>3. ASSUME NEW n \in Node, NEW z \in Zone, EnsureZone(n, z) \/ RetireZone(n, z)
      PROVE  Swaps!Open \/ Swaps!Close
  BY <1>3, RefinesZone
<1>4. ASSUME NEW n \in Node, Tick(n) PROVE Swaps!Swap
  <2>1. \A m \in Node, z \in Zone : zones'[m][z] = None <=> zones[m][z] = None
    <3>1. \A z \in Zone : zones[n][z] # None => Applied(zones[n][z]) # None
      BY AppliedSound DEF IInv, Registries
    <3>2. ASSUME NEW m \in Node, NEW z \in Zone
          PROVE  zones'[m][z] = IF m = n /\ zones[n][z] # None THEN Applied(zones[n][z])
                               ELSE zones[m][z]
      BY <1>4 DEF Tick, IInv, Registries
    <3> QED BY <3>1, <3>2
  <2> QED BY <1>4, <2>1, RefinesSwap DEF Tick
<1>5. ASSUME NEW n \in Node, Restart(n) PROVE Swaps!Close BY <1>5, RefinesRestart
<1>6. ASSUME NEW c \in Client, (\E v \in announced : OnContentVersion(c, v)) \/ Frame(c)
      PROVE  Swaps!Swap
  BY <1>6, RefinesSwap DEF OnContentVersion, Frame
<1>7. CASE UNCHANGED vars
  BY <1>7, RefinesStutter DEF vars, Seen, AbstractServing
<1> QED BY <1>1, <1>2, <1>3, <1>4, <1>5, <1>6, <1>7 DEF Next, Swaps!Next

\* The session implements the promise of ContentSwap.
THEOREM SwapsRefined == Spec => Refines
<1>1. Init => Swaps!Init BY RefinesInit
<1>2. IInv /\ IInv' /\ [Next]_vars =>
        [Swaps!Next]_<<announced \cup {Boot, Bootstrap.active}, AbstractServing>>
  BY RefinesNext
<1> QED BY <1>1, <1>2, Inductive, PTL DEF Spec, Refines, Swaps!Spec

\* Registries are well formed and serve nothing that fails validation.
THEOREM PacksStaySound == Spec => []PacksSound
<1>1. TypeOK /\ OnePackPerEpoch /\ BrokenNeverPlays => PacksSound
  BY DEF PacksSound
<1> QED BY <1>1, EpochsNamePacks, BrokenStaysOut, PTL

-----------------------------------------------------------------------------
(* PackPlay: who a spell may land on. *)

Aims == Bodies \cup {Point}

-----------------------------------------------------------------------------
(* The trees of the packs. *)

LEMMA DeeperWithin ==
  ASSUME NEW S, NEW T, S \subseteq T, Deeper(T) = T
  PROVE  Deeper(S) \subseteq T
  BY DEF Deeper

\* Each operation of a tree has its own tree within it.
LEMMA NodesWithin ==
  ASSUME NEW t \in Trees, NEW k \in Nodes(t)
  PROVE  Nodes(k) \subseteq Nodes(t)
<1> DEFINE T == Nodes(t)
<1>1. Deeper(T) = T
  BY TreesAssumption
<1>2. {k} \subseteq T
  OBVIOUS
<1> HIDE DEF T
<1>3. Deeper({k}) \subseteq T
  BY <1>1, <1>2, DeeperWithin
<1>4. Deeper(Deeper({k})) \subseteq T
  BY <1>1, <1>3, DeeperWithin
<1>5. Deeper(Deeper(Deeper({k}))) \subseteq T
  BY <1>1, <1>4, DeeperWithin
<1>6. Deeper(Deeper(Deeper(Deeper({k})))) \subseteq T
  BY <1>1, <1>5, DeeperWithin
<1>7. Deeper(Deeper(Deeper(Deeper(Deeper({k}))))) \subseteq T
  BY <1>1, <1>6, DeeperWithin
<1> QED BY <1>7 DEF Nodes, T

LEMMA OwnNode ==
  ASSUME NEW t
  PROVE  t \in Nodes(t)
  BY DEF Nodes, Deeper

LEMMA Descend ==
  ASSUME NEW t \in Trees, NEW u \in Nodes(t), NEW k \in children(u)
  PROVE  k \in Nodes(t)
<1>1. Deeper(Nodes(t)) = Nodes(t)
  BY TreesAssumption
<1>2. k \in Deeper(Nodes(t))
  BY DEF Deeper
<1> QED BY <1>1, <1>2

\* Every operation within a spell is a tree of the packs.
LEMMA NodesAreTrees ==
  ASSUME NEW t \in Trees, NEW k \in Nodes(t)
  PROVE  k \in Trees
<1>1. PICK s \in DOMAIN Spells : t \in Nodes(Spells[s])
  BY DEF Trees
<1>2. Spells[s] \in Trees
  BY OwnNode DEF Trees
<1>3. k \in Nodes(Spells[s])
  BY <1>1, <1>2, NodesWithin
<1> QED BY <1>3 DEF Trees

LEMMA KidsAreTrees ==
  ASSUME NEW t \in Trees, NEW k \in children(t)
  PROVE  k \in Trees /\ k \in Nodes(t) /\ Nodes(k) \subseteq Nodes(t)
<1>1. k \in Nodes(t)
  BY OwnNode, Descend
<1> QED BY <1>1, NodesWithin, NodesAreTrees

LEMMA AfflictsWithin ==
  ASSUME NEW t \in Trees, NEW k \in Nodes(t)
  PROVE  afflictions(k) \subseteq afflictions(t)
  BY NodesWithin DEF afflictions

\* The child that an operation runs.
LEMMA FirstKid ==
  ASSUME NEW t \in Trees,
         t.op \in {"Ray", "Around", "Bolt", "Field", "Later", "Repeat", "Maybe", "IfMarked"}
  PROVE  t.kids[1] \in children(t)
<1>1. 1 \in DOMAIN t.kids
  BY TreesAssumption
<1> QED BY <1>1 DEF children

LEMMA SecondKid ==
  ASSUME NEW t \in Trees, t.op = "IfMarked"
  PROVE  t.kids[2] \in children(t)
<1>1. 2 \in DOMAIN t.kids
  BY TreesAssumption
<1> QED BY <1>1 DEF children

-----------------------------------------------------------------------------
(* The interpreter. *)

\* What a run leaves behind holds an operation of the tree that ran.
Fits(c, t, since) ==
  /\ c.op \in Nodes(t) /\ c.kind \in {"bolt", "field", "later"}
  /\ c.at \in Aims /\ c.left \in 0..15 /\ c.since = since
\* It is aimed only as the tree says, ...
Held(c) ==
  /\ <<c.op, c.at>> \in Aimed
  /\ c.kind \in {"bolt", "field"} => c.at = Point
  /\ c.kind = "bolt" => <<c.op, "foe">> \in Aimed
\* ... and spares the caster.
Soft(hit) == hit[1] = "caster" => hit[2] \notin Harm
Proper(r, t, at, since) ==
  /\ \A c \in r.more : Fits(c, t, since)
  /\ <<t, at>> \in Aimed => (\A c \in r.more : Held(c)) /\ (\A h \in r.hits : Soft(h))

LEMMA FitsAbove ==
  ASSUME NEW t \in Trees, NEW k \in children(t), NEW c, NEW since, Fits(c, k, since)
  PROVE  Fits(c, t, since)
  BY KidsAreTrees DEF Fits

\* A pair aimed hands its children on to pairs aimed.
LEMMA AimedOn ==
  ASSUME NEW t, NEW at, <<t, at>> \in Aimed, NEW k \in children(t), NEW b \in Handed(t, at)
  PROVE  <<k, b>> \in Aimed
<1> DEFINE p == <<t, at>>
<1>1. <<k, b>> \in children(p[1]) \X Handed(p[1], p[2])
  OBVIOUS
<1>2. <<k, b>> \in PassedOn(Aimed)
  BY <1>1 DEF PassedOn
<1> QED BY <1>2, SparingAssumption

\* A run of a child on whom it is handed to is a run of its parent.
LEMMA GoodAbove ==
  ASSUME NEW t \in Trees, NEW at, NEW k \in children(t), NEW b \in Handed(t, at), NEW since,
         NEW r, Proper(r, k, b, since)
  PROVE  Proper(r, t, at, since)
<1>1. \A c \in r.more : Fits(c, t, since)
  BY FitsAbove DEF Proper
<1>2. ASSUME <<t, at>> \in Aimed
      PROVE  (\A c \in r.more : Held(c)) /\ (\A h \in r.hits : Soft(h))
  <2>1. <<k, b>> \in Aimed
    BY <1>2, AimedOn
  <2> QED BY <2>1 DEF Proper
<1> QED BY <1>1, <1>2 DEF Proper

LEMMA MissGood == ASSUME NEW t, NEW at, NEW since PROVE Proper(Miss, t, at, since)
  BY DEF Proper, Miss, Outcome

LEMMA JoinGood ==
  ASSUME NEW runs, NEW t, NEW at, NEW since, \A r \in runs : Proper(r, t, at, since)
  PROVE  Proper(Join(runs), t, at, since)
  BY DEF Proper, Join, Outcome

\* One continuation.
LEMMA RestGood ==
  ASSUME NEW c, NEW t, NEW at, NEW since, Fits(c, t, since), <<t, at>> \in Aimed => Held(c)
  PROVE  Proper(Outcome({}, {c}), t, at, since)
  BY DEF Proper, Outcome

\* What an operation without children does.
LEMMA LeafGood ==
  ASSUME NEW t \in Trees, NEW at \in Aims, NEW since
  PROVE  Proper(Outcome(Leaf(t, at), {}), t, at, since)
<1> SUFFICES ASSUME <<t, at>> \in Aimed, NEW h \in Leaf(t, at), h[1] = "caster"
             PROVE  h[2] \notin Harm
  BY DEF Proper, Outcome, Soft
<1>1. Spares(t, at)
  <2> DEFINE p == <<t, at>>
  <2>1. p \in Aimed /\ p[1] = t /\ p[2] = at
    OBVIOUS
  <2> HIDE DEF p
  <2> QED BY <2>1, SparingAssumption
<1>2. CASE t.op \in {"Hurt", "Shove"}
  <2>1. h = <<at, t.op>>
    BY <1>2 DEF Leaf
  <2> QED BY <1>1, <2>1 DEF Spares
<1>3. CASE t.op = "Afflict"
  <2>1. h = <<at, t.id>>
    BY <1>3 DEF Leaf
  <2> QED BY <1>1, <2>1 DEF Spares
<1>4. CASE t.op \in {"Heal", "Ward", "Refill", "Brand", "Teleport"}
  <2>1. h[2] = t.op
    BY <1>4 DEF Leaf
  <2> QED BY <1>1, <1>4, <2>1 DEF Spares
<1>5. CASE t.op = "Call"
  <2>1. h[2] = t.id
    BY <1>5 DEF Leaf
  <2> QED BY <1>1, <1>5, <2>1 DEF Spares
<1>6. CASE t.op \notin {"Hurt", "Shove", "Afflict", "Heal", "Ward", "Refill", "Brand",
                        "Teleport", "Call"}
  <2>1. Leaf(t, at) = {}
    BY <1>6 DEF Leaf
  <2> QED BY <2>1
<1> QED BY <1>2, <1>3, <1>4, <1>5, <1>6

\* One operation whose children do as they should.
LEMMA InnerGood ==
  ASSUME NEW go, NEW t \in Trees, NEW at \in Aims, NEW luck \in BOOLEAN, NEW since,
         \A u \in Trees, b \in Aims : Proper(go[<<u, b>>], u, b, since)
  PROVE  Proper(eval_inner(go, t, at, luck, since), t, at, since)
<1> DEFINE k == t.kids[1]
           r == eval_inner(go, t, at, luck, since)
<1>0. "foe" \in Aims /\ "caster" \in Aims /\ Point \in Aims
  BY DEF Aims, Bodies
<1>1. CASE t.op = "Ray"
  <2>1. k \in children(t) /\ k \in Trees /\ "foe" \in Handed(t, at)
    BY <1>1, FirstKid, KidsAreTrees DEF Handed
  <2>2. Proper(go[<<k, "foe">>], k, "foe", since)
    BY <1>0, <2>1
  <2>3. Proper(go[<<k, "foe">>], t, at, since)
    BY <2>1, <2>2, GoodAbove
  <2>4. r = IF near THEN go[<<k, "foe">>] ELSE Miss
    BY <1>1 DEF eval_inner
  <2> QED BY <2>3, <2>4, MissGood
<1>2. CASE t.op = "Around"
  <2>1. k \in children(t) /\ k \in Trees
    BY <1>2, FirstKid, KidsAreTrees
  <2>2. ASSUME NEW b \in Reached(t.faction, at)
        PROVE  Proper(go[<<k, b>>], t, at, since)
    <3>1. b \in Aims /\ b \in Handed(t, at)
      BY <1>2, <1>0, <2>2 DEF Reached, Handed, Bodies
    <3>2. Proper(go[<<k, b>>], k, b, since)
      BY <2>1, <3>1
    <3> QED BY <2>1, <3>1, <3>2, GoodAbove
  <2> DEFINE runs == {go[<<k, b>>] : b \in Reached(t.faction, at)}
  <2>3. \A x \in runs : Proper(x, t, at, since)
    BY <2>2
  <2>4. r = Join(runs)
    BY <1>2 DEF eval_inner
  <2> HIDE DEF runs, r
  <2> QED BY <2>3, <2>4, JoinGood DEF r
<1>3. CASE t.op = "Bolt"
  <2>1. k \in children(t) /\ k \in Nodes(t) /\ Point \in Handed(t, at) /\ "foe" \in Handed(t, at)
    BY <1>3, FirstKid, KidsAreTrees DEF Handed
  <2> DEFINE c == Rest("bolt", k, Point, 1, Foes, since)
  <2>2. Fits(c, t, since)
    BY <1>0, <2>1 DEF Fits, Rest
  <2>3. ASSUME <<t, at>> \in Aimed PROVE Held(c)
    BY <2>1, <2>3, AimedOn DEF Held, Rest
  <2>4. r = Outcome({}, {c})
    BY <1>3 DEF eval_inner
  <2> HIDE DEF c, r
  <2> QED BY <2>2, <2>3, <2>4, RestGood DEF r
<1>4. CASE t.op = "Field"
  <2>1. k \in children(t) /\ k \in Nodes(t) /\ Point \in Handed(t, at)
    BY <1>4, FirstKid, KidsAreTrees DEF Handed
  <2> DEFINE c == Rest("field", k, Point, Pulses(t.n, luck), t.faction, since)
  <2>2. Pulses(t.n, luck) \in 0..15
    <3>1. t.n \in 1..16
      BY TreesAssumption
    <3> QED BY <3>1 DEF Pulses
  <2>3. Fits(c, t, since)
    BY <1>0, <2>1, <2>2 DEF Fits, Rest
  <2>4. ASSUME <<t, at>> \in Aimed PROVE Held(c)
    BY <2>1, <2>4, AimedOn DEF Held, Rest
  <2>5. r = Outcome({}, {c})
    BY <1>4 DEF eval_inner
  <2> HIDE DEF c, r
  <2> QED BY <2>3, <2>4, <2>5, RestGood DEF r
<1>5. CASE t.op = "Later"
  <2>1. k \in children(t) /\ k \in Nodes(t) /\ at \in Handed(t, at)
    BY <1>5, FirstKid, KidsAreTrees DEF Handed
  <2> DEFINE c == Rest("later", k, at, 1, Anyone, since)
  <2>2. Fits(c, t, since)
    BY <2>1 DEF Fits, Rest
  <2>3. ASSUME <<t, at>> \in Aimed PROVE Held(c)
    BY <2>1, <2>3, AimedOn DEF Held, Rest
  <2>4. r = Outcome({}, {c})
    BY <1>5 DEF eval_inner
  <2> HIDE DEF c, r
  <2> QED BY <2>2, <2>3, <2>4, RestGood DEF r
<1>6. CASE t.op = "Repeat"
  <2>1. k \in children(t) /\ k \in Nodes(t) /\ at \in Handed(t, at)
    BY <1>6, FirstKid, KidsAreTrees DEF Handed
  <2> DEFINE c == Rest("later", k, at, t.n - 1, Anyone, since)
             more == Outcome({}, {c})
             runs == {go[<<k, at>>], more}
  <2>2. Fits(c, t, since)
    <3>1. t.n \in 1..16
      BY TreesAssumption
    <3>2. t.n - 1 \in 0..15
      BY <3>1
    <3> QED BY <2>1, <3>2 DEF Fits, Rest
  <2>3. ASSUME <<t, at>> \in Aimed PROVE Held(c)
    BY <2>1, <2>3, AimedOn DEF Held, Rest
  <2>4. r = Join(runs)
    BY <1>6 DEF eval_inner
  <2>5. Proper(go[<<k, at>>], t, at, since)
    <3>1. k \in Trees
      BY <2>1, KidsAreTrees
    <3>2. Proper(go[<<k, at>>], k, at, since)
      BY <3>1
    <3> QED BY <2>1, <3>2, GoodAbove
  <2> HIDE DEF c, r
  <2>6. Proper(more, t, at, since)
    BY <2>2, <2>3, RestGood
  <2>7. \A x \in runs : Proper(x, t, at, since)
    BY <2>5, <2>6
  <2> HIDE DEF runs
  <2> QED BY <2>4, <2>7, JoinGood DEF r
<1>7. CASE t.op = "All"
  <2> DEFINE runs == {go[<<u, at>>] : u \in children(t)}
  <2>1. ASSUME NEW u \in children(t) PROVE Proper(go[<<u, at>>], t, at, since)
    <3>1. u \in Trees /\ at \in Handed(t, at)
      BY <1>7, KidsAreTrees DEF Handed
    <3>2. Proper(go[<<u, at>>], u, at, since)
      BY <3>1
    <3> QED BY <3>1, <3>2, GoodAbove
  <2>2. \A x \in runs : Proper(x, t, at, since)
    BY <2>1
  <2>3. r = Join(runs)
    BY <1>7 DEF eval_inner
  <2> HIDE DEF runs, r
  <2> QED BY <2>2, <2>3, JoinGood DEF r
<1>8. CASE t.op \in {"Maybe", "IfMarked"}
  <2>1. ASSUME NEW u \in children(t) PROVE Proper(go[<<u, at>>], t, at, since)
    <3>1. u \in Trees /\ at \in Handed(t, at)
      BY <1>8, KidsAreTrees DEF Handed
    <3>2. Proper(go[<<u, at>>], u, at, since)
      BY <3>1
    <3> QED BY <3>1, <3>2, GoodAbove
  <2>2. r = Miss \/ \E u \in children(t) : r = go[<<u, at>>]
    <3>1. CASE t.op = "Maybe"
      <4>1. r = IF luck THEN go[<<k, at>>] ELSE Miss
        BY <3>1 DEF eval_inner
      <4> QED BY <3>1, <4>1, FirstKid
    <3>2. CASE t.op = "IfMarked"
      <4>1. r = go[<<t.kids[IF luck THEN 1 ELSE 2], at>>]
        BY <3>2 DEF eval_inner
      <4>2. t.kids[IF luck THEN 1 ELSE 2] \in children(t)
        BY <3>2, FirstKid, SecondKid
      <4> QED BY <4>1, <4>2
    <3> QED BY <1>8, <3>1, <3>2
  <2> HIDE DEF r
  <2> QED BY <2>1, <2>2, MissGood DEF r
<1>9. CASE t.op \notin {"Ray", "Around", "Bolt", "Field", "Later", "Repeat", "All", "Maybe",
                        "IfMarked"}
  <2>1. r = Outcome(Leaf(t, at), {})
    BY <1>9 DEF eval_inner
  <2> HIDE DEF r
  <2> QED BY <2>1, LeafGood DEF r
<1> QED BY <1>1, <1>2, <1>3, <1>4, <1>5, <1>6, <1>7, <1>8, <1>9


(* The interpreter's depth. *)

AtDepth(f, left, luck, since) ==
  [x \in Trees \X Aims |->
     IF left = 0 THEN Miss ELSE eval_inner(f[left - 1], x[1], x[2], luck, since)]
Runs(m, f, luck, since) ==
  f = [left \in 0..m |-> AtDepth(f, left, luck, since)]

\* What runs at a depth is settled by the one below.
LEMMA LevelFrom ==
  ASSUME NEW f, NEW g, NEW left \in Nat, NEW luck, NEW since,
         left # 0 => f[left - 1] = g[left - 1]
  PROVE  AtDepth(f, left, luck, since) = AtDepth(g, left, luck, since)
<1>1. CASE left = 0
  BY <1>1 DEF AtDepth
<1>2. CASE left # 0
  <2>1. f[left - 1] = g[left - 1]
    BY <1>2
  <2> QED BY <1>2, <2>1 DEF AtDepth
<1> QED BY <1>1, <1>2

LEMMA DepthsExist ==
  ASSUME NEW m \in Nat, NEW luck, NEW since
  PROVE  \E f : Runs(m, f, luck, since)
<1> DEFINE Bad == {n \in Nat : ~ \E f : Runs(n, f, luck, since)}
<1> SUFFICES ASSUME Bad # {} PROVE FALSE
  OBVIOUS
<1>1. PICK n \in Bad : \A j \in Bad : n <= j
  <2>1. Bad \in SUBSET Nat
    OBVIOUS
  <2> HIDE DEF Bad
  <2> QED BY <2>1, Least
<1>2. n \in Nat /\ ~ \E f : Runs(n, f, luck, since)
  OBVIOUS
<1>3. PICK f : n # 0 => Runs(n - 1, f, luck, since)
  <2>1. CASE n = 0
    BY <2>1
  <2>2. CASE n # 0
    <3>1. n - 1 \in Nat /\ ~(n <= n - 1)
      BY <1>2, <2>2
    <3>2. n - 1 \notin Bad
      <4> HIDE DEF Bad
      <4> QED BY <1>1, <3>1
    <3> QED BY <3>1, <3>2
  <2> QED BY <2>1, <2>2
<1> DEFINE g == [left \in 0..n |-> IF left = n THEN AtDepth(f, n, luck, since) ELSE f[left]]
<1> HIDE DEF Bad
<1>4. ASSUME NEW left \in 0..n PROVE g[left] = AtDepth(g, left, luck, since)
  <2>0. left \in Nat
    BY <1>2
  <2>1. ASSUME left # 0 PROVE g[left - 1] = f[left - 1]
    <3>1. left - 1 \in 0..n /\ left - 1 # n
      BY <1>2, <2>1
    <3> QED BY <3>1
  <2>2. g[left] = AtDepth(f, left, luck, since)
    <3>1. CASE left = n
      BY <3>1
    <3>2. CASE left # n
      <4>1. left \in 0..(n - 1) /\ n # 0
        BY <1>2, <3>2
      <4>2. f = [l \in 0..(n - 1) |-> AtDepth(f, l, luck, since)]
        BY <1>3, <4>1 DEF Runs
      <4>3. f[left] = AtDepth(f, left, luck, since)
        BY <4>1, <4>2
      <4>4. g[left] = f[left]
        BY <3>2
      <4> QED BY <4>3, <4>4
    <3> QED BY <3>1, <3>2
  <2> HIDE DEF g
  <2>3. AtDepth(f, left, luck, since) = AtDepth(g, left, luck, since)
    BY <2>0, <2>1, LevelFrom
  <2> QED BY <2>2, <2>3
<1>5. g = [left \in 0..n |-> g[left]]
  OBVIOUS
<1> HIDE DEF g
<1>6. g = [left \in 0..n |-> AtDepth(g, left, luck, since)]
  BY <1>4, <1>5
<1>7. Runs(n, g, luck, since)
  BY <1>6 DEF Runs
<1> QED BY <1>2, <1>7

\* A run of the interpreter is that of its outermost depth.
LEMMA EvalIs ==
  ASSUME NEW t, NEW at, NEW luck, NEW since
  PROVE  \E f : Runs(MAX_DEPTH, f, luck, since) /\ eval(t, at, luck, since) = f[MAX_DEPTH][<<t, at>>]
<1> DEFINE Is(f) == Runs(MAX_DEPTH, f, luck, since)
           go == CHOOSE f : Is(f)
<1>1. \E f : Is(f)
  BY DepthsExist DEF MAX_DEPTH
<1>2. Is(go)
  <2> HIDE DEF Is
  <2> QED BY <1>1
<1>3. eval(t, at, luck, since) = go[MAX_DEPTH][<<t, at>>]
  BY DEF eval, Runs, AtDepth, Aims
<1> QED BY <1>2, <1>3

\* Whatever comes up, a run of a tree leaves behind only operations of it, aimed
\* as it says, and spares the caster where the tree was aimed to.
THEOREM EvalGood ==
  ASSUME NEW t \in Trees, NEW at \in Aims, NEW luck \in BOOLEAN, NEW since
  PROVE  Proper(eval(t, at, luck, since), t, at, since)
<1>1. PICK f : Runs(MAX_DEPTH, f, luck, since) /\ eval(t, at, luck, since) = f[MAX_DEPTH][<<t, at>>]
  BY EvalIs
<1> DEFINE AllGood(n) == \A u \in Trees, b \in Aims : Proper(f[n][<<u, b>>], u, b, since)
           Bad == {n \in 0..MAX_DEPTH : ~AllGood(n)}
<1>2. ASSUME NEW n \in 0..MAX_DEPTH, NEW u \in Trees, NEW b \in Aims
      PROVE  f[n][<<u, b>>] = IF n = 0 THEN Miss ELSE eval_inner(f[n - 1], u, b, luck, since)
  <2>1. f[n] = AtDepth(f, n, luck, since)
    BY <1>1 DEF Runs
  <2>2. <<u, b>> \in Trees \X Aims
    OBVIOUS
  <2> QED BY <2>1, <2>2 DEF AtDepth
<1>3. Bad = {}
  <2> SUFFICES ASSUME Bad # {} PROVE FALSE
    OBVIOUS
  <2>1. PICK n \in Bad : \A j \in Bad : n <= j
    <3>1. Bad \in SUBSET Nat
      BY DEF MAX_DEPTH
    <3> HIDE DEF Bad
    <3> QED BY <3>1, Least
  <2>2. n \in 0..MAX_DEPTH /\ ~AllGood(n)
    OBVIOUS
  <2>3. n # 0
    <3>1. ASSUME n = 0 PROVE AllGood(n)
      <4>1. ASSUME NEW u \in Trees, NEW b \in Aims PROVE Proper(f[n][<<u, b>>], u, b, since)
        <5>1. f[n][<<u, b>>] = Miss
          BY <1>2, <2>2, <3>1
        <5> QED BY <5>1, MissGood
      <4> QED BY <4>1
    <3> QED BY <2>2, <3>1
  <2>4. AllGood(n - 1)
    <3>1. n - 1 \in 0..MAX_DEPTH /\ ~(n <= n - 1)
      BY <2>2, <2>3 DEF MAX_DEPTH
    <3>2. n - 1 \notin Bad
      <4> HIDE DEF Bad
      <4> QED BY <2>1, <3>1
    <3> HIDE DEF AllGood
    <3> QED BY <3>1, <3>2
  <2>5. AllGood(n)
    <3> SUFFICES ASSUME NEW u \in Trees, NEW b \in Aims PROVE Proper(f[n][<<u, b>>], u, b, since)
      OBVIOUS
    <3> DEFINE h == f[n - 1]
    <3>1. f[n][<<u, b>>] = eval_inner(h, u, b, luck, since)
      BY <1>2, <2>2, <2>3
    <3>2. \A x \in Trees, a \in Aims : Proper(h[<<x, a>>], x, a, since)
      BY <2>4
    <3> HIDE DEF h
    <3>3. Proper(eval_inner(h, u, b, luck, since), u, b, since)
      BY <3>2, InnerGood
    <3> QED BY <3>1, <3>3
  <2> HIDE DEF AllGood
  <2> QED BY <2>2, <2>5
<1>4. AllGood(MAX_DEPTH)
  <2>1. MAX_DEPTH \in 0..MAX_DEPTH
    BY DEF MAX_DEPTH
  <2>2. MAX_DEPTH \notin Bad
    <3> HIDE DEF Bad
    <3> QED BY <1>3
  <2> HIDE DEF AllGood
  <2> QED BY <2>1, <2>2
<1> HIDE DEF Bad
<1>5. Proper(f[MAX_DEPTH][<<t, at>>], t, at, since)
  BY <1>4
<1> QED BY <1>1, <1>5


-----------------------------------------------------------------------------
(* Play. *)

\* What holds of everything in flight.
Flown(c) ==
  /\ c.kind \in {"bolt", "field", "later"} /\ c.at \in Aims /\ c.left \in 0..15
  /\ c.since \in 1..epoch /\ c.op \in Trees /\ Held(c)
  /\ c.since = epoch => check_status_refs(live, c.op)
Packed ==
  /\ validate(live) /\ staged \subseteq Valid
  /\ epoch \in 1..MaxPacks /\ (staged # {} => epoch < MaxPacks)
Carried ==
  /\ casts \in 0..MaxCasts /\ foes \in 0..MaxFoes
  /\ bar \subseteq DOMAIN Abilities /\ bag \in 0..2
  /\ near \in BOOLEAN /\ rows \subseteq DOMAIN Statuses
Skies == \A c \in flying : Flown(c)
Mild == \A h \in landed : Soft(h)
PlayIInv == Packed /\ Carried /\ Skies /\ Mild

LEMMA HasSpell ==
  ASSUME NEW pack, NEW s, Has(pack, "spell", s)
  PROVE  s \in DOMAIN Spells /\ s \in Live(pack, "spell")
<1>1. Ids["spell"] = DOMAIN Spells
  BY DEF Ids
<1> QED BY <1>1 DEF Has, Live

LEMMA HasStatus ==
  ASSUME NEW pack, NEW s, Has(pack, "status", s)
  PROVE  s \in DOMAIN Statuses
<1>1. Ids["status"] = DOMAIN Statuses
  BY DEF Ids
<1> QED BY <1>1 DEF Has

LEMMA HasAbility ==
  ASSUME NEW pack, NEW a \in DOMAIN Abilities, Has(pack, "ability", a)
  PROVE  a \in Live(pack, "ability")
  BY DEF Has, Live

LEMMA SpellTree ==
  ASSUME NEW s \in DOMAIN Spells
  PROVE  Spells[s] \in Trees /\ <<Spells[s], "caster">> \in Aimed
<1>1. Spells[s] \in Trees
  BY OwnNode DEF Trees
<1>2. ASSUME NEW S, NEW p \in S PROVE p \in PassedOn(S)
  BY DEF PassedOn
<1> DEFINE roots == {<<Spells[z], "caster">> : z \in DOMAIN Spells}
           p == <<Spells[s], "caster">>
<1>3. p \in roots
  OBVIOUS
<1> HIDE DEF roots, p
<1>4. p \in PassedOn(PassedOn(PassedOn(PassedOn(PassedOn(roots)))))
  BY <1>2, <1>3
<1> QED BY <1>1, <1>4 DEF Aimed, roots, p

\* A run of an operation in its own pack's time.
LEMMA Landing ==
  ASSUME NEW t \in Trees, NEW at \in Aims, NEW luck \in BOOLEAN, NEW since \in 1..epoch,
         <<t, at>> \in Aimed, since = epoch => check_status_refs(live, t)
  PROVE  /\ \A c \in eval(t, at, luck, since).more : Flown(c)
         /\ \A h \in eval(t, at, luck, since).hits : Soft(h)
<1> DEFINE r == eval(t, at, luck, since)
<1>1. Proper(r, t, at, since)
  BY EvalGood
<1> HIDE DEF r
<1>2. ASSUME NEW c \in r.more PROVE Flown(c)
  <2>1. Fits(c, t, since) /\ Held(c)
    BY <1>1 DEF Proper
  <2>2. c.op \in Trees /\ afflictions(c.op) \subseteq afflictions(t)
    BY <2>1, NodesAreTrees, AfflictsWithin DEF Fits
  <2>3. c.since = epoch => check_status_refs(live, c.op)
    BY <2>1, <2>2 DEF check_status_refs, Fits
  <2> QED BY <2>1, <2>2, <2>3 DEF Flown, Fits
<1>3. \A h \in r.hits : Soft(h)
  BY <1>1 DEF Proper
<1> QED BY <1>2, <1>3 DEF r

\* A run that lands in the pack it was started in, or goes on in.
LEMMA LandsWell ==
  ASSUME Skies, NEW before \in SUBSET flying, NEW r,
         \A c \in r.more : Flown(c), \A h \in r.hits : Soft(h), Lands(r, before),
         UNCHANGED <<live, epoch>>
  PROVE  Skies' /\ Mild'
<1>1. \A c : Flown(c)' <=> Flown(c)
  BY DEF Flown, Held
<1>2. flying' = before \cup r.more /\ landed' = r.hits
  BY DEF Lands
<1>3. Mild'
  BY <1>2 DEF Mild
<1>4. Skies'
  BY <1>1, <1>2 DEF Skies
<1> QED BY <1>3, <1>4

LEMMA MissLands == \A c \in Miss.more : Flown(c) /\ \A h \in Miss.hits : Soft(h)
  BY DEF Miss, Outcome

LEMMA NothingLands ==
  ASSUME landed' = {}
  PROVE  Mild'
  BY DEF Mild

LEMMA FirstDay == ASSUME PlayInit PROVE PlayIInv
<1>1. Packed
  BY ShippedAssumption, PlayAssumption DEF PlayInit, Packed
<1>2. Carried
  BY PlayAssumption DEF PlayInit, Carried
<1> QED BY <1>1, <1>2 DEF PlayInit, PlayIInv, Skies, Mild

\* Content.
LEMMA StageKeeps ==
  ASSUME PlayIInv, NEW e \in Edits, stage(e)
  PROVE  PlayIInv'
<1>1. Packed'
  BY DEF PlayIInv, Packed, stage
<1>2. Carried'
  BY DEF PlayIInv, Carried, stage
<1>3. Skies'
  BY DEF PlayIInv, Skies, Flown, Held, stage
<1> QED BY <1>1, <1>2, <1>3, NothingLands DEF PlayIInv, stage

\* What was cast under an earlier pack is not of the next.
LEMMA SwapKeeps ==
  ASSUME PlayIInv, apply_pending
  PROVE  PlayIInv'
<1>1. Packed'
  <2>1. PICK e \in staged : live' = e
    BY DEF apply_pending
  <2>2. validate(e)
    BY <2>1 DEF PlayIInv, Packed, Valid
  <2>3. validate(live')
    BY <2>1, <2>2
  <2>4. epoch + 1 \in 1..MaxPacks
    BY <2>1, PlayAssumption DEF PlayIInv, Packed
  <2> QED BY <2>3, <2>4 DEF Packed, apply_pending
<1>2. Carried'
  BY DEF PlayIInv, Carried, apply_pending
<1>3. Skies'
  <2> SUFFICES ASSUME NEW c \in flying' PROVE Flown(c)'
    BY DEF Skies
  <2>1. Flown(c)
    BY DEF PlayIInv, Skies, apply_pending
  <2>2. epoch \in Nat /\ epoch' = epoch + 1
    BY PlayAssumption DEF PlayIInv, Packed, apply_pending
  <2>3. c.since \in 1..epoch' /\ c.since # epoch'
    BY <2>1, <2>2 DEF Flown
  <2> QED BY <2>1, <2>3 DEF Flown, Held
<1> QED BY <1>1, <1>2, <1>3, NothingLands DEF PlayIInv, apply_pending

LEMMA SpawnKeeps ==
  ASSUME PlayIInv, spawn_player
  PROVE  PlayIInv'
<1>1. Packed'
  BY DEF PlayIInv, Packed, spawn_player
<1>2. Carried'
  BY PlayAssumption DEF PlayIInv, Carried, spawn_player
<1>3. Skies'
  BY DEF PlayIInv, Skies, Flown, Held, spawn_player
<1> QED BY <1>1, <1>2, <1>3, NothingLands DEF PlayIInv, spawn_player

\* A spell of the live pack, cast by the player.
LEMMA SpellLands ==
  ASSUME PlayIInv, NEW s, Has(live, "spell", s), NEW luck \in BOOLEAN
  PROVE  /\ \A c \in eval(Spells[s], "caster", luck, epoch).more : Flown(c)
         /\ \A h \in eval(Spells[s], "caster", luck, epoch).hits : Soft(h)
<1>1. s \in DOMAIN Spells /\ s \in Live(live, "spell")
  BY HasSpell
<1>2. Spells[s] \in Trees /\ <<Spells[s], "caster">> \in Aimed
  BY <1>1, SpellTree
<1>3. check_status_refs(live, Spells[s])
  BY <1>1 DEF PlayIInv, Packed, validate, SpellsResolve
<1>4. epoch \in 1..epoch
  BY DEF PlayIInv, Packed
<1>5. "caster" \in Aims
  BY DEF Aims, Bodies
<1> QED BY <1>2, <1>3, <1>4, <1>5, Landing

LEMMA CastKeeps ==
  ASSUME PlayIInv, NEW a \in bar, Cast(a)
  PROVE  PlayIInv'
<1> DEFINE s == spell(live, a)
<1>1. PICK luck \in BOOLEAN : Lands(eval(Spells[s], "caster", luck, epoch), flying)
  BY DEF Cast
<1>2. Has(live, "spell", s)
  BY DEF Cast
<1> HIDE DEF s
<1> DEFINE r == eval(Spells[s], "caster", luck, epoch)
<1>3. (\A c \in r.more : Flown(c)) /\ (\A h \in r.hits : Soft(h))
  BY <1>2, SpellLands
<1>4. Lands(r, flying)
  BY <1>1
<1> HIDE DEF r
<1>5. Skies' /\ Mild'
  BY <1>3, <1>4, LandsWell DEF PlayIInv, Cast
<1>6. Packed'
  BY DEF PlayIInv, Packed, Cast
<1>7. Carried'
  BY PlayAssumption DEF PlayIInv, Carried, Cast
<1> QED BY <1>5, <1>6, <1>7 DEF PlayIInv

LEMMA DrinkKeeps ==
  ASSUME PlayIInv, Drink
  PROVE  PlayIInv'
<1> DEFINE s == Items["mana_crystal"].on_use
           r == eval(Spells[s], "caster", TRUE, epoch)
<1>1. IF Has(live, "spell", s) THEN Lands(r, flying) ELSE Lands(Miss, flying)
  BY DEF Drink
<1>2. ASSUME Has(live, "spell", s)
      PROVE  (\A c \in r.more : Flown(c)) /\ (\A h \in r.hits : Soft(h))
  <2> HIDE DEF s
  <2> QED BY <1>2, SpellLands
<1>3. UNCHANGED <<live, epoch>> /\ Skies
  BY DEF PlayIInv, Drink
<1> HIDE DEF s, r
<1>4. Skies' /\ Mild'
  <2>1. CASE Has(live, "spell", s)
    <3>1. Lands(r, flying)
      BY <1>1, <2>1
    <3> QED BY <1>2, <1>3, <2>1, <3>1, LandsWell
  <2>2. CASE ~Has(live, "spell", s)
    <3>1. Lands(Miss, flying)
      BY <1>1, <2>2
    <3>2. (\A c \in Miss.more : Flown(c)) /\ (\A h \in Miss.hits : Soft(h))
      BY DEF Miss, Outcome
    <3> QED BY <1>3, <3>1, <3>2, LandsWell
  <2> QED BY <2>1, <2>2
<1>5. Packed'
  BY DEF PlayIInv, Packed, Drink
<1>6. Carried'
  <2>1. casts' \in 0..MaxCasts
    BY PlayAssumption DEF PlayIInv, Carried, Drink
  <2>2. bag' \in 0..2
    BY DEF PlayIInv, Carried, Drink
  <2> QED BY <2>1, <2>2 DEF PlayIInv, Carried, Drink
<1> QED BY <1>4, <1>5, <1>6 DEF PlayIInv

\* What is still due is what it was.
LEMMA StillFlown ==
  ASSUME NEW c, Flown(c), NEW d \in StillDue(c)
  PROVE  Flown(d)
<1>1. c.left > 1 /\ d = [c EXCEPT !.left = c.left - 1]
  BY DEF StillDue
<1> DEFINE n == c.left - 1
<1>2. n \in 0..15
  BY <1>1 DEF Flown
<1> HIDE DEF n
<1>3. d = [c EXCEPT !.left = n]
  BY <1>1 DEF n
<1>4. d.kind = c.kind /\ d.at = c.at /\ d.since = c.since /\ d.op = c.op
  BY <1>3
<1>5. d.left \in {n, c.left}
  BY <1>3
<1> QED BY <1>2, <1>4, <1>5 DEF Flown, Held


\* What was left behind runs, and is dropped or waits for its next turn.
LEMMA RestLands ==
  ASSUME PlayIInv, NEW c \in flying, NEW at \in Aims, <<c.op, at>> \in Aimed, NEW luck \in BOOLEAN,
         NEW kept \in SUBSET StillDue(c),
         Lands(eval(c.op, at, luck, c.since), (flying \ {c}) \cup kept),
         UNCHANGED <<live, epoch>>
  PROVE  Skies' /\ Mild'
<1> DEFINE r == eval(c.op, at, luck, c.since)
           rest == Outcome(r.hits, kept \cup r.more)
<1>1. Flown(c)
  BY DEF PlayIInv, Skies
<1>2. (\A d \in r.more : Flown(d)) /\ (\A h \in r.hits : Soft(h))
  BY <1>1, Landing DEF Flown
<1>3. \A d \in kept : Flown(d)
  BY <1>1, StillFlown
<1>4. Lands(r, (flying \ {c}) \cup kept)
  OBVIOUS
<1> HIDE DEF r
<1>5. rest.hits = r.hits /\ rest.more = kept \cup r.more
  BY DEF Outcome
<1>6. Lands(rest, flying \ {c})
  BY <1>4, <1>5 DEF Lands
<1>7. (\A d \in rest.more : Flown(d)) /\ (\A h \in rest.hits : Soft(h))
  BY <1>2, <1>3, <1>5
<1> HIDE DEF rest
<1> QED BY <1>6, <1>7, LandsWell DEF PlayIInv

\* A projectile at an enemy, or where it stopped.
LEMMA BoltKeeps ==
  ASSUME PlayIInv, NEW c \in flying, integrate_projectiles(c)
  PROVE  PlayIInv'
<1>1. PICK at \in {Point} \cup {b \in {"foe"} : near}, luck \in BOOLEAN :
        Lands(eval(c.op, at, luck, c.since), flying \ {c})
  BY DEF integrate_projectiles
<1> DEFINE kept == {}
<1>2. Lands(eval(c.op, at, luck, c.since), (flying \ {c}) \cup kept) /\ kept \in SUBSET StillDue(c)
  BY <1>1
<1> HIDE DEF kept
<1>3. at \in Aims
  BY DEF Aims, Bodies
<1>4. <<c.op, at>> \in Aimed
  <2>1. Held(c) /\ c.kind = "bolt"
    BY DEF PlayIInv, Skies, Flown, integrate_projectiles
  <2>2. c.at = Point
    BY <2>1 DEF Held
  <2> QED BY <2>1, <2>2 DEF Held
<1>5. Skies' /\ Mild'
  BY <1>2, <1>3, <1>4, RestLands DEF integrate_projectiles
<1>6. Packed'
  BY DEF PlayIInv, Packed, integrate_projectiles
<1>7. Carried'
  BY DEF PlayIInv, Carried, integrate_projectiles
<1> QED BY <1>5, <1>6, <1>7 DEF PlayIInv

LEMMA FieldKeeps ==
  ASSUME PlayIInv, NEW c \in flying, tick_fields(c)
  PROVE  PlayIInv'
<1>1. PICK luck \in BOOLEAN : Lands(eval(c.op, Point, luck, c.since), (flying \ {c}) \cup StillDue(c))
  BY DEF tick_fields
<1>2. Point \in Aims
  BY DEF Aims
<1>3. <<c.op, Point>> \in Aimed
  BY DEF PlayIInv, Skies, Flown, Held, tick_fields
<1>4. Skies' /\ Mild'
  BY <1>1, <1>2, <1>3, RestLands DEF tick_fields
<1>5. Packed'
  BY DEF PlayIInv, Packed, tick_fields
<1>6. Carried'
  BY DEF PlayIInv, Carried, tick_fields
<1> QED BY <1>4, <1>5, <1>6 DEF PlayIInv

LEMMA LaterKeeps ==
  ASSUME PlayIInv, NEW c \in flying, run_scheduled(c)
  PROVE  PlayIInv'
<1>1. PICK luck \in BOOLEAN : Lands(eval(c.op, c.at, luck, c.since), (flying \ {c}) \cup StillDue(c))
  BY DEF run_scheduled
<1>2. c.at \in Aims /\ <<c.op, c.at>> \in Aimed
  BY DEF PlayIInv, Skies, Flown, Held
<1> DEFINE at == c.at
<1>3. at \in Aims /\ <<c.op, at>> \in Aimed
      /\ Lands(eval(c.op, at, luck, c.since), (flying \ {c}) \cup StillDue(c))
  BY <1>1, <1>2
<1> HIDE DEF at
<1>4. Skies' /\ Mild'
  BY <1>3, RestLands DEF run_scheduled
<1>5. Packed'
  BY DEF PlayIInv, Packed, run_scheduled
<1>6. Carried'
  BY DEF PlayIInv, Carried, run_scheduled
<1> QED BY <1>4, <1>5, <1>6 DEF PlayIInv

LEMMA LapseKeeps ==
  ASSUME PlayIInv, NEW c \in flying, Lapse(c)
  PROVE  PlayIInv'
<1>1. Packed'
  BY DEF PlayIInv, Packed, Lapse
<1>2. Carried'
  BY DEF PlayIInv, Carried, Lapse
<1>3. Skies'
  BY DEF PlayIInv, Skies, Flown, Held, Lapse
<1> QED BY <1>1, <1>2, <1>3, NothingLands DEF PlayIInv, Lapse

\* The enemy.
LEMMA WalkKeeps ==
  ASSUME PlayIInv, Walk
  PROVE  PlayIInv'
<1>1. Packed'
  BY DEF PlayIInv, Packed, Walk
<1>2. Carried'
  BY DEF PlayIInv, Carried, Walk
<1>3. Skies'
  BY DEF PlayIInv, Skies, Flown, Held, Walk
<1> QED BY <1>1, <1>2, <1>3, NothingLands DEF PlayIInv, Walk

LEMMA RowKeeps ==
  ASSUME PlayIInv, NEW s, apply_status_to(s) \/ RunOut(s)
  PROVE  PlayIInv'
<1>1. Packed'
  BY DEF PlayIInv, Packed, apply_status_to, RunOut
<1>2. Carried'
  <2>1. CASE apply_status_to(s)
    <3>1. s \in DOMAIN Statuses
      BY <2>1, HasStatus DEF apply_status_to, Silences
    <3>2. foes' \in 0..MaxFoes
      BY <2>1, PlayAssumption DEF PlayIInv, Carried, apply_status_to
    <3> QED BY <2>1, <3>1, <3>2 DEF PlayIInv, Carried, apply_status_to
  <2>2. CASE RunOut(s)
    BY <2>2 DEF PlayIInv, Carried, RunOut
  <2> QED BY <2>1, <2>2
<1>3. Skies'
  BY DEF PlayIInv, Skies, Flown, Held, apply_status_to, RunOut
<1> QED BY <1>1, <1>2, <1>3, NothingLands DEF PlayIInv, apply_status_to, RunOut

LEMMA PlayKeeps ==
  ASSUME PlayIInv, [PlayNext]_playvars
  PROVE  PlayIInv'
<1>1. CASE \E e \in Edits : stage(e)
  BY <1>1, StageKeeps
<1>2. CASE apply_pending
  BY <1>2, SwapKeeps
<1>3. CASE spawn_player
  BY <1>3, SpawnKeeps
<1>4. CASE \E a \in bar : Cast(a)
  BY <1>4, CastKeeps
<1>5. CASE Drink
  BY <1>5, DrinkKeeps
<1>6. ASSUME NEW c \in flying,
             integrate_projectiles(c) \/ tick_fields(c) \/ run_scheduled(c) \/ Lapse(c)
      PROVE  PlayIInv'
  BY <1>6, BoltKeeps, FieldKeeps, LaterKeeps, LapseKeeps
<1>7. CASE Walk
  BY <1>7, WalkKeeps
<1>8. ASSUME NEW s \in {"frozen", "silenced"}, apply_status_to(s) \/ RunOut(s)
      PROVE  PlayIInv'
  BY <1>8, RowKeeps
<1>9. CASE UNCHANGED playvars
  BY <1>9 DEF playvars, PlayIInv, Packed, Carried, Skies, Flown, Held, Mild
<1> QED BY <1>1, <1>2, <1>3, <1>4, <1>5, <1>6, <1>7, <1>8, <1>9 DEF PlayNext

LEMMA PlayShows ==
  ASSUME PlayIInv
  PROVE  NothingDangles /\ CasterSpared
<1>1. PlayTypeOK
  BY DEF PlayIInv, PlayTypeOK, Packed, Carried, Skies, Flown, Aims
<1>2. AfflictsResolve
  BY DEF PlayIInv, Skies, Flown, check_status_refs, AfflictsResolve
<1>3. BarResolves
  <2> SUFFICES ASSUME NEW a \in bar, Has(live, "ability", a)
               PROVE  Has(live, "spell", spell(live, a))
    BY DEF BarResolves
  <2>1. a \in Live(live, "ability")
    BY HasAbility DEF PlayIInv, Carried
  <2> QED BY <2>1 DEF PlayIInv, Packed, validate, AbilitiesResolve
<1>4. CasterSpared
  BY DEF PlayIInv, Mild, Soft, CasterSpared
<1> QED BY <1>1, <1>2, <1>3, <1>4 DEF NothingDangles

\* What holds in play: the live pack and the staged ones are valid, and what is
\* in flight is of the pack it was cast under and spares the caster.
THEOREM PlayHolds == PlaySpec => []PlayIInv
<1>1. PlayInit => PlayIInv
  BY FirstDay
<1>2. PlayIInv /\ [PlayNext]_playvars => PlayIInv'
  BY PlayKeeps
<1> QED BY <1>1, <1>2, PTL DEF PlaySpec

\* Whatever packs are published, a cast of the live pack applies no status that
\* the pack lacks, and an ability on the bar that is there still has its spell
\* (ContentPack::validate, World::cast_step).
THEOREM PacksInPlay == PlaySpec => []NothingDangles
<1>1. PlayIInv => NothingDangles
  BY PlayShows
<1> QED BY <1>1, PlayHolds, PTL

\* No spell of the shipped tables harms who cast it, whoever stands where and
\* whatever was published since (magic.rs target_entity, faction_ok).
THEOREM CastersAreSpared == PlaySpec => []CasterSpared
<1>1. PlayIInv => CasterSpared
  BY PlayShows
<1> QED BY <1>1, PlayHolds, PTL
=============================================================================
